------------------------- MODULE WorkerSessionProofs -------------------------
(***************************************************************************)
(* What one registry operation does to one row, for any set of reasons:    *)
(* the row stays well typed, and its lease and process columns keep        *)
(* following its state.  The registry's and the pool's proofs cite these   *)
(* lemmas for the rows they hold.                                          *)
(***************************************************************************)
EXTENDS WorkerSession, TLAPS

\* The lease and process columns follow the state.
RowConsistent(r) ==
    /\ r.lease = "active" <=> r.state \in {"active", "cancelling"}
    /\ r.lease = "reserved" <=> r.state = "registered"
    /\ r.process = "quiescent" <=> r.lease = "released"

\* Before a cancellation is requested nothing in the row speaks of one.
RowUncancelled(r) ==
    r.state \in {"registered", "active"} => ~r.requested /\ r.reason = NoReason

RowOK(r) == r \in Session /\ RowConsistent(r) /\ RowUncancelled(r)

\* The row openSession inserts is consistent.
LEMMA NewSessionOK == RowOK(NewSession)
BY DEF RowOK, RowConsistent, RowUncancelled, NewSession, Session, SessionStates,
       LiveStates, NoReceipt, Outcomes

\* Activation keeps a row consistent.
LEMMA ActivateOK ==
    ASSUME NEW r, RowOK(r), CanActivateLease(r)
    PROVE  RowOK(ActivateLease(r))
BY DEF RowOK, RowConsistent, RowUncancelled, CanActivateLease, ActivateLease, MayBecome,
       ALLOWED_TRANSITIONS, Session, SessionStates, LiveStates

\* A cancellation request keeps a row consistent, in both of its forms.
LEMMA RequestOK ==
    ASSUME NEW r, RowOK(r), CanRequestCancellation(r), NEW why \in Reasons
    PROVE  RowOK(RequestCancellation(r, why))
BY DEF RowOK, RowConsistent, RowUncancelled, CanRequestCancellation, RequestCancellation,
       Released, MayBecome, ALLOWED_TRANSITIONS, Session, SessionStates, LiveStates,
       TerminalStates

\* Recording a mutation outcome keeps a row consistent.
LEMMA OutcomeOK ==
    ASSUME NEW r, RowOK(r), NEW o \in Outcomes
    PROVE  RowOK(RecordMutationOutcome(r, o))
BY DEF RowOK, RowConsistent, RowUncancelled, RecordMutationOutcome, Session

\* The outcome a row ends up with is one of the known ones.
LEMMA MergeType ==
    ASSUME NEW r \in Session, NEW o \in Outcomes
    PROVE  MergeMutationOutcome(r, o) \in Outcomes
BY DEF MergeMutationOutcome, Session

\* An acknowledgement keeps a row consistent.
LEMMA AcknowledgeOK ==
    ASSUME NEW r, RowOK(r), NEW receipt \in Receipts \cup {NoReceipt}, NEW o \in Outcomes,
           CanAcknowledgeCancellation(r, receipt, o)
    PROVE  RowOK(AcknowledgeCancellation(r, receipt, o))
<1>1. MergeMutationOutcome(r, o) \in Outcomes
  BY MergeType DEF RowOK
<1>2. receipt \in Receipts /\ receipt.reason \in Reasons
  BY DEF CanAcknowledgeCancellation, Receipts
<1> QED
  BY <1>1, <1>2 DEF RowOK, RowConsistent, RowUncancelled, AcknowledgeCancellation, Acked,
                    Released, Session, SessionStates, TerminalStates

\* A settlement keeps a row consistent, with and without a receipt.
LEMMA SettleOK ==
    ASSUME NEW r, RowOK(r), NEW to, NEW receipt \in Receipts \cup {NoReceipt},
           NEW o \in Outcomes, CanSettleSession(r, to, receipt, o)
    PROVE  RowOK(SettleSession(r, to, receipt, o))
<1>1. MergeMutationOutcome(r, o) \in Outcomes
  BY MergeType DEF RowOK
<1>2. to \in {"completed", "failed"}
  BY DEF CanSettleSession
<1>3. CASE receipt = NoReceipt
  BY <1>1, <1>2, <1>3 DEF RowOK, RowConsistent, RowUncancelled, SettleSession, Released,
                          Session, SessionStates, TerminalStates
<1>4. CASE receipt # NoReceipt
  <2>1. receipt \in Receipts /\ receipt.reason \in Reasons
    BY <1>4 DEF Receipts
  <2> QED
    BY <1>1, <1>2, <1>4, <2>1 DEF RowOK, RowConsistent, RowUncancelled, SettleSession, Acked,
                                  Released, Session, SessionStates, TerminalStates
<1> QED
  BY <1>3, <1>4

\* Reconciliation after a restart keeps a row consistent.
LEMMA ReconcileOK ==
    ASSUME NEW r, RowOK(r)
    PROVE  RowOK(ReconcileInterruptedSession(r))
BY DEF RowOK, RowConsistent, RowUncancelled, ReconcileInterruptedSession, ReconciledState,
       Released, Session, SessionStates, TerminalStates

\* The restart scan selects exactly the rows that still hold a worktree
\* (recoverySnapshot).
LEMMA RecoveryScan ==
    ASSUME NEW r, RowOK(r)
    PROVE  NeedsReconciliation(r) <=> r.lease # "released"
BY DEF RowOK, RowConsistent, NeedsReconciliation, Session, LiveStates
=============================================================================
