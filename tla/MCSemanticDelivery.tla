------------------------- MODULE MCSemanticDelivery -------------------------
(***************************************************************************)
(* SemanticDelivery for TLC: two jobs under two keys, so that one job's    *)
(* records can be wrong while another's are right.                         *)
(***************************************************************************)
EXTENDS SemanticDelivery, TLC

CONSTANTS j1, j2, k1, k2, a1, a2, w1

MCJobs     == {j1, j2}
MCKeys     == {k1, k2}
MCAttempts == {a1, a2}
MCWaits    == {w1}

\* The second job is admitted and cancelled around the first one, which has
\* all the leases, the ambiguity and the subscription.
SecondJobIsPlain ==
    leases[j2] = <<>> /\ sub[j2] = NoSub /\ boundary[j2] # "AMBIGUOUS"

\* At most two notifications are queued at once.
FewNotices == Cardinality(notices) <= 2

Sym == Permutations(MCKeys) \cup Permutations(MCAttempts)
=============================================================================
