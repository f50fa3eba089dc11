----------------------------- MODULE AgentNames -----------------------------
(***************************************************************************)
(* How the agent pool names its children and answers those who wait for    *)
(* them: jobs keeps insertion order, taskIndex maps a task name to the     *)
(* last child launched or replayed under it, resolveTarget turns a name    *)
(* back into a record, and wait hangs a callback on every record it        *)
(* resolved.  AgentPool covers how a child lives and settles; here a child *)
(* is live or terminal, and settles when it likes.  One parent scope.      *)
(***************************************************************************)
EXTENDS Naturals, FiniteSets, Sequences, SequencesExt

CONSTANTS Children, Names,
          NameOf,        \* the task name each child is launched under
          Isolated,      \* children whose launch the registry can replay
          Waiters,       \* outstanding wait_agent calls
          MaxRestarts,   \* bound on restarts
          NoChild

ASSUME NamesAssumption ==
    /\ NameOf \in [Children -> Names]
    /\ Isolated \subseteq Children
    /\ NoChild \notin Children
    /\ MaxRestarts \in Nat

VARIABLES jobs,      \* insertion order of the jobs map
          live,      \* children whose state is not terminal
          index,     \* taskIndex
          durable,   \* isolated children with a session from an earlier process
          targets,   \* the records a pending wait resolved
          waiters,   \* record._waiters
          answer,    \* what the wait was last answered with
          restarts

vars == <<jobs, live, index, durable, targets, waiters, answer, restarts>>

Known == {jobs[i] : i \in DOMAIN jobs}

TypeOK ==
    /\ jobs \in Seq(Children)
    /\ live \subseteq Children
    /\ index \in [Names -> Children \cup {NoChild}]
    /\ durable \subseteq Isolated
    /\ targets \in [Waiters -> SUBSET Children]
    /\ waiters \in [Children -> SUBSET Waiters]
    /\ answer \in [Waiters -> SUBSET Children]
    /\ restarts \in Nat

Init ==
    /\ jobs = << >>
    /\ live = {}
    /\ index = [n \in Names |-> NoChild]
    /\ durable = {}
    /\ targets = [w \in Waiters |-> {}]
    /\ waiters = [c \in Children |-> {}]
    /\ answer = [w \in Waiters |-> {}]
    /\ restarts = 0

\* resolveTarget: a child id, or the first record in jobs with that task name.
Resolve(t) ==
    IF t \in Children
    THEN IF t \in Known THEN t ELSE NoChild
    ELSE LET i == SelectInSeq(jobs, LAMBDA c : NameOf[c] = t)
         IN  IF i = 0 THEN NoChild ELSE jobs[i]

\* Mutation: targets that do not resolve are watched too.
ResolvedRaw(ts) == {Resolve(t) : t \in ts}

Resolved(ts) == {Resolve(t) : t \in ts} \ {NoChild}

-----------------------------------------------------------------------------
\* Mutation: the index is not consulted.
LaunchUnchecked(c) ==
    /\ c \notin Known \cup durable
    /\ jobs' = Append(jobs, c)
    /\ live' = live \cup {c}
    /\ index' = [index EXCEPT ![NameOf[c]] = c]
    /\ UNCHANGED <<durable, targets, waiters, answer, restarts>>

\* launch refuses a name whose indexed child is not terminal.
Launch(c) ==
    /\ c \notin Known \cup durable
    /\ index[NameOf[c]] \notin live
    /\ jobs' = Append(jobs, c)
    /\ live' = live \cup {c}
    /\ index' = [index EXCEPT ![NameOf[c]] = c]
    /\ UNCHANGED <<durable, targets, waiters, answer, restarts>>

\* A repeated spawn operation from before a restart puts its settled record
\* back into jobs and into the index.
MaterializeLifecycleReplayRecord(c) ==
    /\ c \in durable
    /\ c \notin Known
    /\ jobs' = Append(jobs, c)
    /\ index' = [index EXCEPT ![NameOf[c]] = c]
    /\ UNCHANGED <<live, durable, targets, waiters, answer, restarts>>

\* Mutation: the wait is not unhooked.
FinishedHooked(ws) ==
    /\ targets' = [w \in Waiters |-> IF w \in ws THEN {} ELSE targets[w]]
    /\ UNCHANGED waiters

\* finish: the wait is answered and unhooked from every record it watched.
Finished(ws) ==
    /\ targets' = [w \in Waiters |-> IF w \in ws THEN {} ELSE targets[w]]
    /\ waiters' = [c \in Children |-> waiters[c] \ ws]

SettleRecord(c) ==
    /\ c \in live
    /\ live' = live \ {c}
    /\ answer' = [w \in Waiters |-> IF w \in waiters[c] THEN {c} ELSE answer[w]]
    /\ Finished(waiters[c])
    /\ UNCHANGED <<jobs, index, durable, restarts>>

\* wait: answered at once if a target is terminal already, else hooked on all.
Wait(w, ts) ==
    LET rs == Resolved(ts)
    IN  /\ targets[w] = {}
        /\ rs # {}
        /\ IF rs \subseteq live
           THEN /\ targets' = [targets EXCEPT ![w] = rs]
                /\ waiters' = [c \in Children |->
                                 IF c \in rs THEN waiters[c] \cup {w} ELSE waiters[c]]
                /\ answer' = [answer EXCEPT ![w] = {}]
           ELSE /\ answer' = [answer EXCEPT ![w] = rs \ live]
                /\ UNCHANGED <<targets, waiters>>
        /\ UNCHANGED <<jobs, live, index, durable, restarts>>

\* Mutation: a wait that times out reports what it was watching.
TimeoutWithTargets(w) ==
    /\ targets[w] # {}
    /\ answer' = [answer EXCEPT ![w] = targets[w]]
    /\ Finished({w})
    /\ UNCHANGED <<jobs, live, index, durable, restarts>>

Timeout(w) ==
    /\ targets[w] # {}
    /\ answer' = [answer EXCEPT ![w] = {}]
    /\ Finished({w})
    /\ UNCHANGED <<jobs, live, index, durable, restarts>>

\* A new pool knows no records; the isolated children of the old one have
\* sessions, settled or about to be reconciled.
Restart ==
    /\ restarts < MaxRestarts
    /\ restarts' = restarts + 1
    /\ durable' = durable \cup (Known \cap Isolated)
    /\ jobs' = << >>
    /\ live' = {}
    /\ index' = [n \in Names |-> NoChild]
    /\ targets' = [w \in Waiters |-> {}]
    /\ waiters' = [c \in Children |-> {}]
    /\ answer' = [w \in Waiters |-> {}]

Next ==
    \/ \E c \in Children :
          \/ Launch(c)
          \/ MaterializeLifecycleReplayRecord(c)
          \/ SettleRecord(c)
    \/ \E w \in Waiters :
          \/ \E ts \in SUBSET (Children \cup Names) : Wait(w, ts)
          \/ Timeout(w)
    \/ Restart

Spec == Init /\ [][Next]_vars

-----------------------------------------------------------------------------
(***************************************************************************)
(* Properties                                                              *)
(***************************************************************************)
\* Two running children bear the same task name only if a record of that name
\* was replayed from an earlier process, which is how the index entry of a
\* running child is lost (launch, duplicate_live_task_name;
\* materializeLifecycleReplayRecord).
Replayed == Known \cap durable

UniqueUnlessReplayed ==
    \A c, d \in live : NameOf[c] = NameOf[d] =>
        c = d \/ \E r \in Replayed : NameOf[r] = NameOf[c]

\* A task name given to wait_agent or interrupt means the running child that
\* bears it, if there is one (resolveTarget).
NameMeansLiveChild ==
    \A c \in live : Resolve(NameOf[c]) = c

\* No wake-up is lost: a pending wait is hooked on every record it watches,
\* all of them still running, and a record calls back pending waits only
\* (wait, settleRecord).
NoLostWakeup ==
    /\ \A w \in Waiters, c \in Children : c \in targets[w] <=> w \in waiters[c]
    /\ \A c \in Children : waiters[c] # {} => c \in live

\* A wait is answered with children that have settled, never a running one.
AnswersAreTerminal ==
    \A w \in Waiters : answer[w] \subseteq Known \ live
=============================================================================
