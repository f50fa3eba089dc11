---------------------------- MODULE MCAgentNames ----------------------------
(***************************************************************************)
(* AgentNames for TLC: three children, two of which share a task name.     *)
(***************************************************************************)
EXTENDS AgentNames

CONSTANTS c1, c2, c3, review, build, p1, p2

MCChildren == {c1, c2, c3}
MCNames    == {review, build}
MCNameOf   == (c1 :> review) @@ (c2 :> review) @@ (c3 :> build)
MCSameName == (c1 :> review) @@ (c2 :> review) @@ (c3 :> review)
MCWaiters  == {p1, p2}
MCNone     == {}
MCTwo      == {c1, c2}
=============================================================================
