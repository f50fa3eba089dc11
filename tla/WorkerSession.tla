--------------------------- MODULE WorkerSession ---------------------------
(***************************************************************************)
(* One row of the durable workspace-worker lifecycle registry              *)
(* (src/main/direct/agents/workspace-worker-lifecycle-registry.js) and     *)
(* what each registry operation requires of it and makes of it.  An        *)
(* operation is a pair: CanX is the conjunction of the checks that would   *)
(* throw inside its transaction, X is the row it writes.  The registry     *)
(* module adds the operation journal and the cleanup plan; the agent pool  *)
(* calls the same operations with its own fixed operation ids.             *)
(*                                                                         *)
(* Digests are abstracted to what they bind: a runtime receipt is the      *)
(* cancellation reason and the mutation outcome it was computed over.      *)
(***************************************************************************)
CONSTANTS Reasons,   \* cancellation reason codes
          NoReason   \* the empty reason code

ASSUME ReasonAssumption == NoReason \notin Reasons

LiveStates     == {"registered", "active", "cancelling"}
TerminalStates == {"completed", "failed", "cancelled"}
CleanupStates  == {"cleanup_eligible", "cleaned"}
SessionStates  == LiveStates \cup TerminalStates \cup CleanupStates

\* A mutation outcome is a commit receipt or an indeterminate (partial) one.
Outcomes == {"none", "committed", "partial"}

Receipts  == [reason : Reasons, outcome : Outcomes]
NoReceipt == [reason |-> NoReason, outcome |-> "none"]

Session == [state     : SessionStates,
            lease     : {"reserved", "active", "released"},
            process   : {"not_started", "running", "cancelling", "quiescent"},
            requested : BOOLEAN,
            reason    : Reasons \cup {NoReason},
            acked     : BOOLEAN,
            receipt   : Receipts \cup {NoReceipt},
            outcome   : Outcomes]

\* The row openSession inserts.
NewSession == [state     |-> "registered",
               lease     |-> "reserved",
               process   |-> "not_started",
               requested |-> FALSE,
               reason    |-> NoReason,
               acked     |-> FALSE,
               receipt   |-> NoReceipt,
               outcome   |-> "none"]

ALLOWED_TRANSITIONS ==
    {<<"registered", "active">>, <<"registered", "failed">>, <<"registered", "cancelled">>,
     <<"active", "cancelling">>, <<"active", "completed">>, <<"active", "failed">>,
     <<"cancelling", "cancelled">>, <<"cancelling", "failed">>,
     <<"completed", "cleanup_eligible">>, <<"failed", "cleanup_eligible">>,
     <<"cancelled", "cleanup_eligible">>, <<"cleanup_eligible", "cleaned">>}

\* Mutation: a completion that arrives after the cancellation is let through.
MayBecomeLate(s, next) ==
    \/ next = s.state
    \/ <<s.state, next>> \in ALLOWED_TRANSITIONS
    \/ s.state = "cancelling" /\ next = "completed"

\* mutateSession lets a row keep its state or follow the table.
MayBecome(s, next) == next = s.state \/ <<s.state, next>> \in ALLOWED_TRANSITIONS

\* An outcome may be supplied again but never replaced by a different one.
Mergeable(s, o) == s.outcome = "none" \/ o = "none" \/ s.outcome = o

\* Mutation: the incoming outcome wins even when it is empty.
MergeMutationOutcomeLast(s, o) == o

MergeMutationOutcome(s, o) == IF o = "none" THEN s.outcome ELSE o

\* Mutation: the receipt is compared with the call's outcome, not the merged one.
ReceiptFitsIncoming(s, receipt, o) ==
    /\ s.reason # NoReason => receipt.reason = s.reason
    /\ receipt.outcome = o

\* A receipt must name the recorded reason, when there is one, and the
\* outcome the row ends up with.
ReceiptFits(s, receipt, o) ==
    /\ s.reason # NoReason => receipt.reason = s.reason
    /\ receipt.outcome = MergeMutationOutcome(s, o)

Released(s) == [s EXCEPT !.lease = "released", !.process = "quiescent"]

Acked(s, receipt) == [s EXCEPT !.requested = TRUE, !.reason = receipt.reason,
                               !.acked = TRUE, !.receipt = receipt]

-----------------------------------------------------------------------------
CanActivateLease(s) == MayBecome(s, "active")

ActivateLease(s) ==
    [s EXCEPT !.state = "active", !.lease = "active", !.process = "running"]

CanRequestCancellation(s) == s.state = "registered" \/ MayBecome(s, "cancelling")

\* A worker that was never activated is cancelled on the spot; a running one
\* keeps its lease until somebody acknowledges.
RequestCancellation(s, r) ==
    IF s.state = "registered"
    THEN [Released(s) EXCEPT !.state = "cancelled", !.requested = TRUE,
                             !.reason = r, !.acked = TRUE]
    ELSE [s EXCEPT !.state = "cancelling", !.lease = "active", !.process = "cancelling",
                   !.requested = TRUE, !.reason = r, !.acked = FALSE]

CanRecordMutationOutcome(s, o) ==
    /\ o # "none"
    /\ s.state \in LiveStates
    /\ Mergeable(s, o)

RecordMutationOutcome(s, o) == [s EXCEPT !.outcome = o]

CanAcknowledgeCancellation(s, receipt, o) ==
    /\ receipt # NoReceipt
    /\ MayBecome(s, "cancelled")
    /\ Mergeable(s, o)
    /\ ReceiptFits(s, receipt, o)
    /\ s.reason # NoReason

AcknowledgeCancellation(s, receipt, o) ==
    [Acked(Released(s), receipt) EXCEPT !.state = "cancelled",
                                        !.outcome = MergeMutationOutcome(s, o)]

CanSettleSession(s, to, receipt, o) ==
    /\ to \in {"completed", "failed"}
    /\ MayBecome(s, to)
    /\ Mergeable(s, o)
    /\ s.state = "cancelling" => receipt # NoReceipt
    /\ receipt # NoReceipt => ReceiptFits(s, receipt, o)

SettleSession(s, to, receipt, o) ==
    LET settled == [Released(s) EXCEPT !.state = to, !.outcome = MergeMutationOutcome(s, o)]
    IN  IF receipt = NoReceipt THEN settled ELSE Acked(settled, receipt)

\* After a restart the outcome is dictated by how far the old worker got.
ReconciledState(s) == IF s.state = "cancelling" THEN "cancelled" ELSE "failed"

CanReconcile(s, outcome) == s.state \in LiveStates /\ outcome = ReconciledState(s)

ReconcileInterruptedSession(s) == [Released(s) EXCEPT !.state = ReconciledState(s)]

\* Mutation: the restart scan looks for workers that were still working.
NeedsReconciliationWorking(s) == s.state \in {"registered", "active"}

\* What recoverySnapshot lists as a reconciliation candidate.
NeedsReconciliation(s) == s.state \in LiveStates \/ s.lease \in {"reserved", "active"}
=============================================================================
