----------------------------- MODULE JobContract -----------------------------
(***************************************************************************)
(* What the commissioning host promises for a job, without rows, leases,   *)
(* turns, generations or a store: a job is withdrawn or dispatched and     *)
(* never both; each of its two children is begun at most once, the second  *)
(* on what the first returned, and one child runs at a time; a child that  *)
(* is lost has returned nothing and is not begun again; the verdict is the *)
(* one the returned work decides; it is told once and acknowledged once    *)
(* (src/main/direct/semantic-service/commissioning-coordinator.js,         *)
(* commissioning-daemon.js).                                               *)
(***************************************************************************)
CONSTANT Job

VARIABLE job

vars == job

Children == {"compiler", "worker"}
Observations == {"captured", "failed"}

TypeOK ==
    job \in [Job -> [fate    : {"unknown", "open", "withdrawn", "dispatched"},
                     begun   : SUBSET Children,
                     running : Children \cup {"none"},
                     found   : [Children -> Observations \cup {"none"}],
                     verdict : {"none", "adjudicated", "remanded"},
                     told    : {"none", "OFFERED", "ACKNOWLEDGED"}]]

Fresh == [fate    |-> "unknown",
          begun   |-> {},
          running |-> "none",
          found   |-> [c \in Children |-> "none"],
          verdict |-> "none",
          told    |-> "none"]

Init == job = [j \in Job |-> Fresh]

Become(j, as) == job' = [job EXCEPT ![j] = as]

Admit(j) ==
    /\ job[j].fate = "unknown"
    /\ Become(j, [job[j] EXCEPT !.fate = "open"])

\* Also of a job that was remanded without having been dispatched.
Withdraw(j) ==
    /\ job[j].fate = "open"
    /\ Become(j, [job[j] EXCEPT !.fate = "withdrawn"])

Dispatch(j) ==
    /\ job[j].fate = "open"
    /\ job[j].verdict = "none"
    /\ Become(j, [job[j] EXCEPT !.fate = "dispatched"])

Begin(j, c) ==
    /\ job[j].fate = "dispatched"
    /\ job[j].verdict = "none"
    /\ c \notin job[j].begun
    /\ c = "worker" => job[j].found["compiler"] = "captured"
    /\ \A i \in Job : job[i].running = "none"
    /\ Become(j, [job[j] EXCEPT !.begun = @ \cup {c}, !.running = c])

Return(j, c, seen) ==
    /\ job[j].running = c
    /\ Become(j, [job[j] EXCEPT !.running = "none", !.found[c] = seen])

\* The child ends with its host.
Lose(j) ==
    /\ job[j].running # "none"
    /\ Become(j, [job[j] EXCEPT !.running = "none"])

\* What the worker returned decides; a job without it is remanded, also one
\* whose child has just failed.
Conclude(j) ==
    /\ job[j].fate # "unknown"
    /\ job[j].verdict = "none"
    /\ Become(j, [job[j] EXCEPT
                    !.verdict = IF job[j].found["worker"] = "captured"
                                THEN "adjudicated" ELSE "remanded",
                    !.running = "none"])

Offer(j) ==
    /\ job[j].verdict # "none"
    /\ job[j].told = "none"
    /\ Become(j, [job[j] EXCEPT !.told = "OFFERED"])

Acknowledge(j) ==
    /\ job[j].told = "OFFERED"
    /\ Become(j, [job[j] EXCEPT !.told = "ACKNOWLEDGED"])

Step(j) ==
    \/ Admit(j)
    \/ Withdraw(j)
    \/ Dispatch(j)
    \/ \E c \in Children :
         \/ Begin(j, c)
         \/ \E seen \in Observations : Return(j, c, seen)
    \/ Lose(j)
    \/ Conclude(j)
    \/ Offer(j)
    \/ Acknowledge(j)

Next == \E j \in Job : Step(j)

Spec == Init /\ [][Next]_vars

\* What a client may rely on: nothing is begun for a job that was not
\* dispatched, one child runs at a time, a returned observation is of a child
\* that was begun, and a verdict says whether the worker's work was kept.
JobIsSound(j) ==
    /\ job[j].begun # {} => job[j].fate = "dispatched"
    /\ job[j].running # "none" =>
           /\ job[j].running \in job[j].begun
           /\ job[j].found[job[j].running] = "none"
           /\ job[j].verdict = "none"
    /\ \A c \in Children : job[j].found[c] # "none" => c \in job[j].begun
    /\ "worker" \in job[j].begun => job[j].found["compiler"] = "captured"
    /\ job[j].verdict # "none" =>
           (job[j].verdict = "adjudicated" <=> job[j].found["worker"] = "captured")
    /\ job[j].told # "none" => job[j].verdict # "none"

Sound ==
    /\ \A j \in Job : JobIsSound(j)
    /\ \A i, j \in Job :
           job[i].running # "none" /\ job[j].running # "none" => i = j

\* What was decided, returned or told for a job stays.
Stands(j) ==
    /\ job[j].fate \in {"withdrawn", "dispatched"} => job'[j].fate = job[j].fate
    /\ \A c \in Children :
           job[j].found[c] # "none" => job'[j].found[c] = job[j].found[c]
    /\ job[j].begun \subseteq job'[j].begun
    /\ job[j].verdict # "none" => job'[j].verdict = job[j].verdict
    /\ job[j].told = "ACKNOWLEDGED" => job'[j].told = "ACKNOWLEDGED"

AllStand == \A j \in Job : Stands(j)

DecisionsStand == [][AllStand]_vars
=============================================================================
