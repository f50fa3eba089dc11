---------------------------- MODULE WorkerCustody ----------------------------
(***************************************************************************)
(* What the parts of the shell that handle workspace workers agree on,     *)
(* without rows, slots, sessions or processes: a worker's worktree is      *)
(* taken once, worked in by one user at a time and only while it is held,  *)
(* given up for good under one verdict, and removed only for somebody who  *)
(* was told that verdict.  The registry, the pool and the ordered shutdown *)
(* each implement it with what they keep of a worker                       *)
(* (src/main/direct/agents/workspace-worker-lifecycle-registry.js,         *)
(* native-agent-pool.js, workspace-worker-shutdown.js).                    *)
(***************************************************************************)
CONSTANTS Worker, Users

VARIABLES custody,   \* where the worktree stands
          users,     \* who works in it
          told       \* the verdict somebody outside relies on

vars == <<custody, users, told>>

\* "released" where the verdict itself is not kept.
Verdicts == {"completed", "failed", "cancelled", "released"}

TypeOK ==
    /\ custody \in [Worker -> {"free", "held", "removed"} \cup Verdicts]
    /\ users \in [Worker -> SUBSET Users]
    /\ told \in [Worker -> {"nothing"} \cup Verdicts]

Init ==
    /\ custody = [w \in Worker |-> "free"]
    /\ users = [w \in Worker |-> {}]
    /\ told = [w \in Worker |-> "nothing"]

\* One user more or none at all: nobody joins another.
AtMostOne(w) == users'[w] = {} \/ (users[w] = {} /\ \E u \in Users : users'[w] = {u})

Take(w) ==
    /\ custody[w] = "free"
    /\ custody'[w] = "held"
    /\ AtMostOne(w)
    /\ told'[w] = told[w]

\* Work begins, ends or, with a process that dies, is cut off.
Use(w) ==
    /\ custody[w] = "held"
    /\ custody'[w] = custody[w]
    /\ AtMostOne(w)
    /\ told'[w] = told[w]

\* The last user leaves with the verdict, or has left before; a worker that
\* is refused before it ever held its worktree gets one as well.
Conclude(w) ==
    /\ custody[w] \in {"free", "held"}
    /\ custody'[w] \in Verdicts
    /\ users'[w] = {}
    /\ told'[w] \in {told[w], custody'[w]}

Tell(w) ==
    /\ custody[w] \in Verdicts
    /\ told'[w] = custody[w]
    /\ custody'[w] = custody[w]
    /\ users'[w] = users[w]

\* What was told does not outlive the process that was told.
Forget(w) ==
    /\ told'[w] = "nothing"
    /\ custody'[w] = custody[w]
    /\ users'[w] = users[w]

Remove(w) ==
    /\ custody[w] \in Verdicts
    /\ told[w] = custody[w]
    /\ custody'[w] = "removed"
    /\ users'[w] = users[w]
    /\ told'[w] = told[w]

Same(w) ==
    /\ custody'[w] = custody[w]
    /\ users'[w] = users[w]
    /\ told'[w] = told[w]

Step(w) ==
    \/ Take(w)
    \/ Use(w)
    \/ Conclude(w)
    \/ Tell(w)
    \/ Forget(w)
    \/ Remove(w)
    \/ Same(w)

\* A crash or a shutdown moves several workers at once.
Next == TypeOK' /\ \A w \in Worker : Step(w)

Spec == Init /\ [][Next]_vars

\* Work goes on only in a held worktree, one user at a time, and who was told
\* a verdict was told the one that stands.
WorkIsHeld ==
    \A w \in Worker :
        /\ users[w] # {} => custody[w] = "held"
        /\ \A u, v \in users[w] : u = v
        /\ told[w] # "nothing" => custody[w] \in {told[w], "removed"}

\* A worktree that was given up is never taken again, and its verdict stands
\* until it is removed.
GivenUpForGood ==
    [][\A w \in Worker :
          /\ custody[w] \in Verdicts => custody'[w] \in {custody[w], "removed"}
          /\ custody[w] = "removed" => custody'[w] = "removed"]_vars
=============================================================================
