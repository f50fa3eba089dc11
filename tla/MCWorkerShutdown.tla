-------------------------- MODULE MCWorkerShutdown --------------------------
(***************************************************************************)
(* WorkerShutdown for TLC: two workers and the shared session.             *)
(***************************************************************************)
EXTENDS WorkerShutdown, TLC

CONSTANTS c1, c2, a1, a2

MCChildren == {c1, c2}
MCAgents   == {a1, a2}
Sym        == Permutations(MCChildren) \cup Permutations(MCAgents)
=============================================================================
