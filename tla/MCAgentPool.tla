---------------------------- MODULE MCAgentPool ----------------------------
(***************************************************************************)
(* AgentPool for TLC: the children and reason codes of each configuration. *)
(***************************************************************************)
EXTENDS AgentPool

CONSTANTS w1, w2, a1, typed, free

MCWorkers  == {w1, w2}
MCChildren == {w1, w2, a1}
MCReasons  == {typed}
MCAllReasons == {typed, free}
=============================================================================
