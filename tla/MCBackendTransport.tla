------------------------- MODULE MCBackendTransport -------------------------
(***************************************************************************)
(* BackendTransport for TLC: the requests and policies of each run.        *)
(***************************************************************************)
EXTENDS BackendTransport, TLC

CONSTANTS r1, r2

MCOne      == {r1}
MCTwo      == {r1, r2}
MCSymmetry == Permutations(MCTwo)
MCScoped   == {"execution", "two_phase_mutation"}
MCAll      == MCScoped \cup {"unsupported"}
=============================================================================
