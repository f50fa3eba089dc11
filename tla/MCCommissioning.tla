-------------------------- MODULE MCCommissioning --------------------------
(***************************************************************************)
(* Commissioning for TLC: two jobs, since the coordinator runs one at a    *)
(* time and the second has to be picked up after it.                       *)
(***************************************************************************)
EXTENDS Commissioning

CONSTANTS j1, j2, k1, k2

MCJobs == {j1, j2}
MCKeys == {k1, k2}
=============================================================================
