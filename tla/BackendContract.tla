-------------------------- MODULE BackendContract --------------------------
(***************************************************************************)
(* What a workspace backend promises to those who call it, without pipes,  *)
(* scopes or cancel controls (the abortable requests of                    *)
(* src/main/workspace-backend.js): work happens only while the caller      *)
(* still holds the request, and an answer that claims to know the outcome  *)
(* names the one that is final.  Only a lost backend works unwatched.      *)
(***************************************************************************)
CONSTANT Request

VARIABLES held,    \* requests the caller has sent and not been answered
          effect,  \* what became of each request's mutation
          told,    \* what the caller was told of it
          lost     \* the backend is gone for the caller

vars == <<held, effect, told, lost>>

Effects == {"none", "committed", "indeterminate"}

TypeOK ==
    /\ held \subseteq Request
    /\ effect \in [Request -> Effects \cup {"underway"}]
    /\ told \in [Request -> Effects \cup {"nothing", "unsure"}]
    /\ lost \in BOOLEAN

Init ==
    /\ held = {}
    /\ effect = [r \in Request |-> "none"]
    /\ told = [r \in Request |-> "nothing"]
    /\ lost = FALSE

Hold(r) ==
    /\ ~lost
    /\ r \notin held
    /\ told[r] = "nothing"
    /\ held' = held \cup {r}
    /\ UNCHANGED <<effect, told, lost>>

\* The agent enters a mutation's commit, and leaves it for good.  Nobody is
\* left to watch a lost agent, and only those unsure may be surprised by it.
Work(r) ==
    /\ r \in held \/ (lost /\ told[r] = "unsure")
    /\ \/ effect[r] = "none" /\ effect' = [effect EXCEPT ![r] = "underway"]
       \/ /\ effect[r] = "underway"
          /\ \E e \in {"committed", "indeterminate"} : effect' = [effect EXCEPT ![r] = e]
    /\ UNCHANGED <<held, told, lost>>

\* A request that was held is answered, one that was not is declined.
Answer(r) ==
    /\ told[r] = "nothing"
    /\ effect[r] # "underway"
    /\ \E t \in {effect[r], "unsure"} : told' = [told EXCEPT ![r] = t]
    /\ held' = held \ {r}
    /\ UNCHANGED <<effect, lost>>

Lose ==
    /\ ~lost
    /\ lost' = TRUE
    /\ held' = {}
    /\ told' = [r \in Request |-> IF r \in held THEN "unsure" ELSE told[r]]
    /\ UNCHANGED effect

Next == Lose \/ \E r \in Request : Hold(r) \/ Work(r) \/ Answer(r)

Spec == Init /\ [][Next]_vars

\* Whoever was told an outcome was told the final one.
ToldIsFinal ==
    \A r \in Request : told[r] \in Effects => r \notin held /\ told[r] = effect[r]
=============================================================================
