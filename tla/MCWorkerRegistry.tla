-------------------------- MODULE MCWorkerRegistry --------------------------
(***************************************************************************)
(* WorkerRegistry for TLC: one session suffices, because no operation of   *)
(* the registry reads another session's row once its identity is taken.    *)
(***************************************************************************)
EXTENDS WorkerRegistry

CONSTANTS s1, k1, k2, h1, h2, r1, r2

MCSessions == {s1}
MCKeys     == {k1, k2}
MCHeads    == {h1, h2}
MCReasons  == {r1, r2}
=============================================================================
