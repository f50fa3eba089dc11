------------------------ MODULE WorkerRegistryProofs ------------------------
(***************************************************************************)
(* The registry's invariants, proved for any sessions, keys, heads and     *)
(* reasons and for any bound on the revisions.  RowInv is the inductive    *)
(* strengthening: it adds to the properties what the journal remembers of  *)
(* the past, which the row alone no longer shows.                          *)
(***************************************************************************)
EXTENDS WorkerRegistry, WorkerSessionProofs

\* A session nobody opened has left no trace.
Untouched(s) ==
    revision[s] = 0 =>
        /\ session[s] = NewSession
        /\ journal[s] = {}
        /\ s \notin reconciled

\* A worker runs only after its activation was journalled, and a row that is
\* still registered has not run.
RanIsJournalled(s) == session[s].state = "registered" => ~Ran(s)

\* A verdict comes from a journalled settlement or from the verifier, so the
\* same verdict cannot be settled twice with other evidence.
VerdictIsJournalled(s) ==
    session[s].state \in {"completed", "failed"} =>
        Op("settle", session[s].state) \in journal[s] \/ s \in reconciled

CancellationWinsFor(s) ==
    Op("request-cancel", "") \in journal[s] =>
        session[s].state \notin {"registered", "active", "completed"}

EvidencedFor(s) ==
    (/\ Ran(s)
     /\ session[s].requested
     /\ session[s].lease = "released"
     /\ s \notin reconciled)
    => /\ session[s].receipt # NoReceipt
       /\ session[s].receipt.reason = session[s].reason
       /\ session[s].receipt.outcome = session[s].outcome

\* Plans are only built for a bound worktree and a complete outcome.
PlansAreClean(s) ==
    \A plan \in plans[s] : plan.custody.phase = "bound" /\ plan.outcome # "partial"

CleanupFor(s) ==
    session[s].state \in CleanupStates =>
        /\ custody[s].phase = "bound"
        /\ cleanupPlan[s].custody = custody[s]
        /\ cleanupPlan[s].outcome = session[s].outcome
        /\ session[s].outcome # "partial"
        /\ session[s].lease = "released"

RowInv(s) ==
    /\ RowOK(session[s])
    /\ Untouched(s)
    /\ RanIsJournalled(s)
    /\ VerdictIsJournalled(s)
    /\ CancellationWinsFor(s)
    /\ EvidencedFor(s)
    /\ PlansAreClean(s)
    /\ CleanupFor(s)

IInv == TypeOK /\ \A s \in Sessions : RowInv(s)

\* The whole invariant holds initially.
LEMMA InitIInv == Init => IInv
<1> SUFFICES ASSUME Init PROVE IInv
  OBVIOUS
<1>1. NewSession \in Session /\ Unbound \in Custody
  BY NewSessionOK DEF RowOK, Unbound, Custody
<1>2. TypeOK
  BY <1>1 DEF Init, TypeOK
<1>3. ASSUME NEW s \in Sessions PROVE RowInv(s)
  BY NewSessionOK DEF Init, RowInv, Untouched, RanIsJournalled, VerdictIsJournalled,
       CancellationWinsFor, EvidencedFor, PlansAreClean, CleanupFor, Ran, NewSession, CleanupStates
<1> QED
  BY <1>2, <1>3 DEF IInv

\* Everything the invariant says of a session that no step touches still holds.
LEMMA Frame ==
    ASSUME NEW t \in Sessions, RowInv(t),
           session'[t] = session[t], revision'[t] = revision[t], custody'[t] = custody[t],
           t \in reconciled' <=> t \in reconciled, journal'[t] = journal[t],
           plans'[t] = plans[t], cleanupPlan'[t] = cleanupPlan[t]
    PROVE  RowInv(t)'
BY DEF RowInv, Untouched, RanIsJournalled, VerdictIsJournalled, CancellationWinsFor,
       EvidencedFor, PlansAreClean, CleanupFor, Ran

\* The step leaves every session but s alone.
OthersKept(s) ==
    \A t \in Sessions \ {s} :
        /\ session'[t] = session[t]
        /\ revision'[t] = revision[t]
        /\ custody'[t] = custody[t]
        /\ t \in reconciled' <=> t \in reconciled
        /\ journal'[t] = journal[t]
        /\ plans'[t] = plans[t]
        /\ cleanupPlan'[t] = cleanupPlan[t]

\* A step of one session preserves the invariant if it does so for that session.
LEMMA OneSession ==
    ASSUME IInv, TypeOK', NEW s \in Sessions, RowInv(s)', OthersKept(s)
    PROVE  IInv'
<1>1. ASSUME NEW t \in Sessions, t # s PROVE RowInv(t)'
  BY <1>1, Frame DEF IInv, OthersKept
<1> QED
  BY <1>1 DEF IInv

\* A journalled operation on s leaves the rows and journals of others alone
\* and the tables well typed.
LEMMA MutateType ==
    ASSUME TypeOK, NEW s \in Sessions, NEW op \in Operations, NEW row \in Session,
           Journalled(s, op), session' = [session EXCEPT ![s] = row]
    PROVE  /\ session' \in [Sessions -> Session]
           /\ revision' \in [Sessions -> Nat]
           /\ journal' \in [Sessions -> SUBSET Operations]
           /\ session'[s] = row
           /\ revision'[s] = revision[s] + 1
           /\ revision'[s] # 0
           /\ journal'[s] = journal[s] \cup {op}
           /\ op \notin journal[s]
           /\ \A t \in Sessions \ {s} :
                 /\ session'[t] = session[t]
                 /\ revision'[t] = revision[t]
                 /\ journal'[t] = journal[t]
BY DEF TypeOK, Journalled

-----------------------------------------------------------------------------
\* One lemma per operation of the registry: it preserves the invariant.
LEMMA OpenSessionInv ==
    ASSUME IInv, NEW s \in Sessions, OpenSession(s)
    PROVE  IInv'
<1>1. RowInv(s) /\ TypeOK
  BY DEF IInv
<1>2. Op("open", "") \in Operations
  BY DEF Op, Operations
<1>3. NewSession \in Session
  BY NewSessionOK DEF RowOK
<1>4. Journalled(s, Op("open", "")) /\ session' = [session EXCEPT ![s] = NewSession]
  BY DEF OpenSession
<1>5. /\ session' \in [Sessions -> Session]
      /\ revision' \in [Sessions -> Nat]
      /\ journal' \in [Sessions -> SUBSET Operations]
      /\ session'[s] = NewSession
      /\ revision'[s] # 0
      /\ journal'[s] = journal[s] \cup {Op("open", "")}
      /\ \A t \in Sessions \ {s} :
            /\ session'[t] = session[t]
            /\ revision'[t] = revision[t]
            /\ journal'[t] = journal[t]
  BY <1>1, <1>2, <1>3, <1>4, MutateType
<1>6. /\ TypeOK'
      /\ OthersKept(s)
  BY <1>1, <1>5 DEF TypeOK, OpenSession, OthersKept
<1>7. journal'[s] = {Op("open", "")} /\ NewSession.state = "registered" /\ ~NewSession.requested
  BY <1>1, <1>5 DEF OpenSession, RowInv, Untouched, NewSession
<1>8. RowInv(s)'
  <2>1. RowOK(session'[s])
    BY <1>5, NewSessionOK
  <2> QED
    BY <1>1, <1>5, <1>7, <2>1 DEF RowInv, Untouched, RanIsJournalled, VerdictIsJournalled,
       OpenSession, CancellationWinsFor, EvidencedFor, PlansAreClean, CleanupFor, Ran, Op,
       CleanupStates
<1> QED
  BY <1>6, <1>8, OneSession

\* An activation never overtakes a cancellation: a row that has one is neither
\* registered nor active.
LEMMA ActivateInv ==
    ASSUME IInv, NEW s \in Sessions, Activate(s)
    PROVE  IInv'
<1> DEFINE row == ActivateLease(session[s])
<1>1. RowInv(s) /\ TypeOK /\ RowOK(session[s])
  BY DEF IInv, RowInv
<1>2. Op("activate", "") \in Operations
  BY <1>1 DEF Op, Operations
<1>3. RowOK(row) /\ row \in Session
  BY <1>1, ActivateOK DEF RowOK, Activate
<1>4. Journalled(s, Op("activate", "")) /\ session' = [session EXCEPT ![s] = row]
  BY DEF Activate, Mutate
<1>5. /\ session[s].state \in {"registered", "active"}
      /\ row.state = "active" /\ row.lease = "active"
      /\ row.state \notin CleanupStates
  BY <1>1 DEF ActivateLease, RowOK, Session, Activate, CanActivateLease, MayBecome,
     ALLOWED_TRANSITIONS, CleanupStates
<1> HIDE DEF row
<1>6. /\ session' \in [Sessions -> Session]
      /\ revision' \in [Sessions -> Nat]
      /\ journal' \in [Sessions -> SUBSET Operations]
      /\ session'[s] = row
      /\ revision'[s] # 0
      /\ journal'[s] = journal[s] \cup {Op("activate", "")}
      /\ Op("activate", "") \notin journal[s]
      /\ \A t \in Sessions \ {s} :
            /\ session'[t] = session[t]
            /\ revision'[t] = revision[t]
            /\ journal'[t] = journal[t]
  BY <1>1, <1>2, <1>3, <1>4, MutateType
<1>7. /\ TypeOK'
      /\ OthersKept(s)
  BY <1>1, <1>6 DEF TypeOK, Activate, OthersKept
<1>8. RowInv(s)'
  <2>1. RowOK(session'[s])
    BY <1>3, <1>6
  <2>2. Untouched(s)'
    BY <1>6 DEF Untouched
  <2>3. RanIsJournalled(s)'
    BY <1>1, <1>5, <1>6 DEF RowInv, RanIsJournalled, Ran, Op, Activate
  <2>4. VerdictIsJournalled(s)'
    BY <1>1, <1>5, <1>6 DEF RowInv, VerdictIsJournalled, Activate
  <2>5. CancellationWinsFor(s)'
    BY <1>1, <1>5, <1>6 DEF RowInv, CancellationWinsFor, Op, Activate
  <2>6. EvidencedFor(s)'
    BY <1>1, <1>5, <1>6 DEF RowInv, EvidencedFor, RanIsJournalled, Ran, Op, Activate
  <2>7. PlansAreClean(s)' /\ CleanupFor(s)'
    BY <1>1, <1>5, <1>6 DEF RowInv, PlansAreClean, CleanupFor, CleanupStates, Activate
  <2> QED
    BY <2>1, <2>2, <2>3, <2>4, <2>5, <2>6, <2>7 DEF RowInv
<1> QED
  BY <1>7, <1>8, OneSession

\* A cancellation request releases the lease of a worker that never ran only.
LEMMA CancelInv ==
    ASSUME IInv, NEW s \in Sessions, NEW r \in Reasons, Cancel(s, r)
    PROVE  IInv'
<1> DEFINE row == RequestCancellation(session[s], r)
<1>1. RowInv(s) /\ TypeOK /\ RowOK(session[s])
  BY DEF IInv, RowInv
<1>2. Op("request-cancel", "") \in Operations
  BY <1>1 DEF Op, Operations
<1>3. RowOK(row) /\ row \in Session
  BY <1>1, RequestOK DEF RowOK, Cancel
<1>4. Journalled(s, Op("request-cancel", "")) /\ session' = [session EXCEPT ![s] = row]
  BY DEF Cancel, Mutate
<1>5. /\ row.state \in {"cancelled", "cancelling"}
      /\ row.lease = "released" => session[s].state = "registered"
  BY <1>1 DEF RequestCancellation, Released, Cancel, CanRequestCancellation, RowOK, Session, MayBecome, ALLOWED_TRANSITIONS, CleanupStates
<1> HIDE DEF row
<1>6. /\ session' \in [Sessions -> Session]
      /\ revision' \in [Sessions -> Nat]
      /\ journal' \in [Sessions -> SUBSET Operations]
      /\ session'[s] = row
      /\ revision'[s] # 0
      /\ journal'[s] = journal[s] \cup {Op("request-cancel", "")}
      /\ Op("request-cancel", "") \notin journal[s]
      /\ \A t \in Sessions \ {s} :
            /\ session'[t] = session[t]
            /\ revision'[t] = revision[t]
            /\ journal'[t] = journal[t]
  BY <1>1, <1>2, <1>3, <1>4, MutateType
<1>7. /\ TypeOK'
      /\ OthersKept(s)
  BY <1>1, <1>6 DEF TypeOK, Cancel, OthersKept
<1>8. RowInv(s)'
  <2>1. RowOK(session'[s])
    BY <1>3, <1>6
  <2>2. Untouched(s)'
    BY <1>6 DEF Untouched
  <2>3. RanIsJournalled(s)'
    BY <1>1, <1>5, <1>6 DEF RowInv, RanIsJournalled, Ran, Op, Cancel
  <2>4. VerdictIsJournalled(s)'
    BY <1>1, <1>5, <1>6 DEF RowInv, VerdictIsJournalled, Cancel
  <2>5. CancellationWinsFor(s)'
    BY <1>1, <1>5, <1>6 DEF RowInv, CancellationWinsFor, Op, Cancel
  <2>6. EvidencedFor(s)'
    BY <1>1, <1>5, <1>6 DEF RowInv, EvidencedFor, RanIsJournalled, Ran, Op, Cancel
  <2>7. PlansAreClean(s)' /\ CleanupFor(s)'
    BY <1>1, <1>5, <1>6 DEF RowInv, PlansAreClean, CleanupFor, CleanupStates, Cancel
  <2> QED
    BY <2>1, <2>2, <2>3, <2>4, <2>5, <2>6, <2>7 DEF RowInv
<1> QED
  BY <1>7, <1>8, OneSession

\* An outcome is recorded while the lease is still held.
LEMMA RecordOutcomeInv ==
    ASSUME IInv, NEW s \in Sessions, NEW o \in Outcomes, RecordOutcome(s, o)
    PROVE  IInv'
<1> DEFINE row == RecordMutationOutcome(session[s], o)
<1>1. RowInv(s) /\ TypeOK /\ RowOK(session[s])
  BY DEF IInv, RowInv
<1>2. Op("outcome", o) \in Operations
  BY <1>1 DEF Op, Operations
<1>3. RowOK(row) /\ row \in Session
  BY <1>1, OutcomeOK DEF RowOK
<1>4. Journalled(s, Op("outcome", o)) /\ session' = [session EXCEPT ![s] = row]
  BY DEF RecordOutcome, Mutate
<1>5. /\ session[s].state \in {"registered", "active", "cancelling"}
      /\ row.state = session[s].state
      /\ row.lease # "released"
  BY <1>1 DEF RecordMutationOutcome, RecordOutcome, CanRecordMutationOutcome, RowOK, RowConsistent,
     Session, LiveStates
<1> HIDE DEF row
<1>6. /\ session' \in [Sessions -> Session]
      /\ revision' \in [Sessions -> Nat]
      /\ journal' \in [Sessions -> SUBSET Operations]
      /\ session'[s] = row
      /\ revision'[s] # 0
      /\ journal'[s] = journal[s] \cup {Op("outcome", o)}
      /\ Op("outcome", o) \notin journal[s]
      /\ \A t \in Sessions \ {s} :
            /\ session'[t] = session[t]
            /\ revision'[t] = revision[t]
            /\ journal'[t] = journal[t]
  BY <1>1, <1>2, <1>3, <1>4, MutateType
<1>7. /\ TypeOK'
      /\ OthersKept(s)
  BY <1>1, <1>6 DEF TypeOK, RecordOutcome, OthersKept
<1>8. RowInv(s)'
  <2>1. RowOK(session'[s])
    BY <1>3, <1>6
  <2>2. Untouched(s)'
    BY <1>6 DEF Untouched
  <2>3. RanIsJournalled(s)'
    BY <1>1, <1>5, <1>6 DEF RowInv, RanIsJournalled, Ran, Op, RecordOutcome
  <2>4. VerdictIsJournalled(s)'
    BY <1>1, <1>5, <1>6 DEF RowInv, VerdictIsJournalled, RecordOutcome
  <2>5. CancellationWinsFor(s)'
    BY <1>1, <1>5, <1>6 DEF RowInv, CancellationWinsFor, Op, RecordOutcome
  <2>6. EvidencedFor(s)'
    BY <1>1, <1>5, <1>6 DEF RowInv, EvidencedFor, RanIsJournalled, Ran, Op, RecordOutcome
  <2>7. PlansAreClean(s)' /\ CleanupFor(s)'
    BY <1>1, <1>5, <1>6 DEF RowInv, PlansAreClean, CleanupFor, CleanupStates, RecordOutcome
  <2> QED
    BY <2>1, <2>2, <2>3, <2>4, <2>5, <2>6, <2>7 DEF RowInv
<1> QED
  BY <1>7, <1>8, OneSession

\* An acknowledgement leaves a row with fitting evidence.
LEMMA AcknowledgeInv ==
    ASSUME IInv, NEW s \in Sessions, NEW receipt \in Receipts, NEW o \in Outcomes,
           Acknowledge(s, receipt, o)
    PROVE  IInv'
<1> DEFINE row == AcknowledgeCancellation(session[s], receipt, o)
<1>1. RowInv(s) /\ TypeOK /\ RowOK(session[s])
  BY DEF IInv, RowInv
<1>2. Op("ack-cancel", "") \in Operations
  BY <1>1 DEF Op, Operations
<1>3. RowOK(row) /\ row \in Session
  BY <1>1, AcknowledgeOK DEF RowOK, Acknowledge
<1>4. Journalled(s, Op("ack-cancel", "")) /\ session' = [session EXCEPT ![s] = row]
  BY DEF Acknowledge, Mutate
<1>5. /\ row.state = "cancelled"
      /\ row.receipt = receipt
      /\ receipt # NoReceipt
      /\ receipt.reason = row.reason
      /\ receipt.outcome = row.outcome
  BY <1>1 DEF AcknowledgeCancellation, Acked, Released, Acknowledge, CanAcknowledgeCancellation,
     ReceiptFits, RowOK, Session
<1> HIDE DEF row
<1>6. /\ session' \in [Sessions -> Session]
      /\ revision' \in [Sessions -> Nat]
      /\ journal' \in [Sessions -> SUBSET Operations]
      /\ session'[s] = row
      /\ revision'[s] # 0
      /\ journal'[s] = journal[s] \cup {Op("ack-cancel", "")}
      /\ Op("ack-cancel", "") \notin journal[s]
      /\ \A t \in Sessions \ {s} :
            /\ session'[t] = session[t]
            /\ revision'[t] = revision[t]
            /\ journal'[t] = journal[t]
  BY <1>1, <1>2, <1>3, <1>4, MutateType
<1>7. /\ TypeOK'
      /\ OthersKept(s)
  BY <1>1, <1>6 DEF TypeOK, Acknowledge, OthersKept
<1>8. RowInv(s)'
  <2>1. RowOK(session'[s])
    BY <1>3, <1>6
  <2>2. Untouched(s)'
    BY <1>6 DEF Untouched
  <2>3. RanIsJournalled(s)'
    BY <1>1, <1>5, <1>6 DEF RowInv, RanIsJournalled, Ran, Op, Acknowledge
  <2>4. VerdictIsJournalled(s)'
    BY <1>1, <1>5, <1>6 DEF RowInv, VerdictIsJournalled, Acknowledge
  <2>5. CancellationWinsFor(s)'
    BY <1>1, <1>5, <1>6 DEF RowInv, CancellationWinsFor, Op, Acknowledge
  <2>6. EvidencedFor(s)'
    BY <1>1, <1>5, <1>6 DEF RowInv, EvidencedFor, RanIsJournalled, Ran, Op, Acknowledge
  <2>7. PlansAreClean(s)' /\ CleanupFor(s)'
    BY <1>1, <1>5, <1>6 DEF RowInv, PlansAreClean, CleanupFor, CleanupStates, Acknowledge
  <2> QED
    BY <2>1, <2>2, <2>3, <2>4, <2>5, <2>6, <2>7 DEF RowInv
<1> QED
  BY <1>7, <1>8, OneSession

\* A settlement without a receipt is one nobody asked to stop, or repeats a
\* verdict the verifier gave.
LEMMA SettleInv ==
    ASSUME IInv, NEW s \in Sessions, NEW to \in TerminalStates,
           NEW receipt \in Receipts \cup {NoReceipt}, NEW o \in Outcomes,
           Settle(s, to, receipt, o)
    PROVE  IInv'
<1> DEFINE row == SettleSession(session[s], to, receipt, o)
<1>1. RowInv(s) /\ TypeOK /\ RowOK(session[s])
  BY DEF IInv, RowInv
<1>2. Op("settle", to) \in Operations
  BY <1>1 DEF Op, Operations, SessionStates
<1>3. RowOK(row) /\ row \in Session
  BY <1>1, SettleOK DEF RowOK, Settle
<1>4. Journalled(s, Op("settle", to)) /\ session' = [session EXCEPT ![s] = row]
  BY DEF Settle, Mutate
<1>5. /\ row.state = to
      /\ to \in {"completed", "failed"}
      /\ \/ session[s].state \in {"registered", "active"}
         \/ session[s].state = to
         \/ session[s].state = "cancelling" /\ receipt # NoReceipt /\ to = "failed"
      /\ session[s].state = "registered" => to = "failed"
      /\ receipt = NoReceipt => row.requested = session[s].requested
      /\ receipt # NoReceipt =>
            row.receipt = receipt /\ receipt.reason = row.reason /\ receipt.outcome = row.outcome
  <2>1. /\ CanSettleSession(session[s], to, receipt, o)
        /\ session[s] \in Session
    BY <1>1 DEF Settle, RowOK
  <2>2. /\ to \in {"completed", "failed"}
        /\ MayBecome(session[s], to)
        /\ session[s].state = "cancelling" => receipt # NoReceipt
        /\ receipt # NoReceipt => receipt.outcome = MergeMutationOutcome(session[s], o)
    BY <2>1 DEF CanSettleSession, ReceiptFits
  <2>3. CASE receipt = NoReceipt
    BY <2>1, <2>2, <2>3 DEF SettleSession, Released, Session, MayBecome, ALLOWED_TRANSITIONS
  <2>4. CASE receipt # NoReceipt
    BY <2>1, <2>2, <2>4 DEF SettleSession, Acked, Released, Session, MayBecome,
       ALLOWED_TRANSITIONS
  <2> QED
    BY <2>3, <2>4
<1> HIDE DEF row
<1>6. /\ session' \in [Sessions -> Session]
      /\ revision' \in [Sessions -> Nat]
      /\ journal' \in [Sessions -> SUBSET Operations]
      /\ session'[s] = row
      /\ revision'[s] # 0
      /\ journal'[s] = journal[s] \cup {Op("settle", to)}
      /\ Op("settle", to) \notin journal[s]
      /\ \A t \in Sessions \ {s} :
            /\ session'[t] = session[t]
            /\ revision'[t] = revision[t]
            /\ journal'[t] = journal[t]
  BY <1>1, <1>2, <1>3, <1>4, MutateType
<1>7. /\ TypeOK'
      /\ OthersKept(s)
  BY <1>1, <1>6 DEF TypeOK, Settle, OthersKept
<1>8. RowInv(s)'
  <2>1. RowOK(session'[s])
    BY <1>3, <1>6
  <2>2. Untouched(s)'
    BY <1>6 DEF Untouched
  <2>3. RanIsJournalled(s)'
    BY <1>1, <1>5, <1>6 DEF RowInv, RanIsJournalled, Ran, Op, Settle
  <2>4. VerdictIsJournalled(s)'
    BY <1>1, <1>5, <1>6 DEF RowInv, VerdictIsJournalled, Settle
  <2>5. CancellationWinsFor(s)'
    BY <1>1, <1>5, <1>6 DEF RowInv, CancellationWinsFor, Op, Settle
  <2>6. EvidencedFor(s)'
    <3>1. CASE receipt # NoReceipt
      BY <1>5, <1>6, <3>1 DEF EvidencedFor, Settle
    <3>2. CASE receipt = NoReceipt /\ session[s].state = to
      BY <1>1, <1>5, <1>6, <3>2 DEF RowInv, VerdictIsJournalled, EvidencedFor, Settle
    <3>3. CASE receipt = NoReceipt /\ session[s].state \in {"registered", "active"}
      BY <1>1, <1>5, <1>6, <3>3 DEF RowOK, RowUncancelled, EvidencedFor, Settle
    <3> QED
      BY <1>5, <3>1, <3>2, <3>3
  <2>7. PlansAreClean(s)' /\ CleanupFor(s)'
    BY <1>1, <1>5, <1>6 DEF RowInv, PlansAreClean, CleanupFor, CleanupStates, Settle
  <2> QED
    BY <2>1, <2>2, <2>3, <2>4, <2>5, <2>6, <2>7 DEF RowInv
<1> QED
  BY <1>7, <1>8, OneSession

\* Reconciliation is itself the evidence.
LEMMA ReconcileInv ==
    ASSUME IInv, NEW s \in Sessions, NEW n, NEW to, Reconcile(s, n, to)
    PROVE  IInv'
<1> DEFINE row == ReconcileInterruptedSession(session[s])
<1>1. RowInv(s) /\ TypeOK /\ RowOK(session[s])
  BY DEF IInv, RowInv
<1>2. Op("reconcile", "") \in Operations
  BY <1>1 DEF Op, Operations
<1>3. RowOK(row) /\ row \in Session
  BY <1>1, ReconcileOK DEF RowOK
<1>4. Journalled(s, Op("reconcile", "")) /\ session' = [session EXCEPT ![s] = row]
  BY DEF Reconcile, Mutate
<1>5. row.state \in {"cancelled", "failed"} /\ row.state \notin CleanupStates
  BY <1>1 DEF ReconcileInterruptedSession, ReconciledState, Released, RowOK, Session, CleanupStates
<1> HIDE DEF row
<1>6. /\ session' \in [Sessions -> Session]
      /\ revision' \in [Sessions -> Nat]
      /\ journal' \in [Sessions -> SUBSET Operations]
      /\ session'[s] = row
      /\ revision'[s] # 0
      /\ journal'[s] = journal[s] \cup {Op("reconcile", "")}
      /\ Op("reconcile", "") \notin journal[s]
      /\ \A t \in Sessions \ {s} :
            /\ session'[t] = session[t]
            /\ revision'[t] = revision[t]
            /\ journal'[t] = journal[t]
  BY <1>1, <1>2, <1>3, <1>4, MutateType
<1>7. /\ TypeOK'
      /\ OthersKept(s)
  BY <1>1, <1>6 DEF TypeOK, Reconcile, OthersKept
<1>8. RowInv(s)'
  <2>1. RowOK(session'[s])
    BY <1>3, <1>6
  <2>2. Untouched(s)'
    BY <1>6 DEF Untouched
  <2>3. RanIsJournalled(s)'
    BY <1>1, <1>5, <1>6 DEF RowInv, RanIsJournalled, Ran, Op, Reconcile
  <2>4. VerdictIsJournalled(s)'
    BY <1>1, <1>5, <1>6 DEF RowInv, VerdictIsJournalled, Reconcile
  <2>5. CancellationWinsFor(s)'
    BY <1>1, <1>5, <1>6 DEF RowInv, CancellationWinsFor, Op, Reconcile
  <2>6. EvidencedFor(s)'
    BY <1>1, <1>5, <1>6 DEF RowInv, EvidencedFor, RanIsJournalled, Ran, Op, Reconcile
  <2>7. PlansAreClean(s)' /\ CleanupFor(s)'
    BY <1>1, <1>5, <1>6 DEF RowInv, PlansAreClean, CleanupFor, CleanupStates, Reconcile
  <2> QED
    BY <2>1, <2>2, <2>3, <2>4, <2>5, <2>6, <2>7 DEF RowInv
<1> QED
  BY <1>7, <1>8, OneSession

\* Custody of a bound worktree is not claimed again.
LEMMA BeginProvisioningInv ==
    ASSUME IInv, NEW s \in Sessions, NEW k \in Keys, BeginProvisioning(s, k)
    PROVE  IInv'
<1> DEFINE row == session[s]
<1>1. RowInv(s) /\ TypeOK /\ RowOK(session[s])
  BY DEF IInv, RowInv
<1>2. Op("provision", "") \in Operations
  BY <1>1 DEF Op, Operations
<1>3. RowOK(row) /\ row \in Session
  BY <1>1 DEF RowOK
<1>4. Journalled(s, Op("provision", "")) /\ session' = [session EXCEPT ![s] = row]
  BY DEF BeginProvisioning, Mutate
<1>5. /\ custody[s].phase # "bound"
      /\ row = session[s]
      /\ custody' \in [Sessions -> Custody]
      /\ \A t \in Sessions \ {s} : custody'[t] = custody[t]
  <2>1. [phase |-> "provisioning", key |-> k, head |-> NoHead] \in Custody
    BY DEF Custody
  <2> QED
    BY <1>1, <2>1 DEF BeginProvisioning, TypeOK
<1> HIDE DEF row
<1>6. /\ session' \in [Sessions -> Session]
      /\ revision' \in [Sessions -> Nat]
      /\ journal' \in [Sessions -> SUBSET Operations]
      /\ session'[s] = row
      /\ revision'[s] # 0
      /\ journal'[s] = journal[s] \cup {Op("provision", "")}
      /\ Op("provision", "") \notin journal[s]
      /\ \A t \in Sessions \ {s} :
            /\ session'[t] = session[t]
            /\ revision'[t] = revision[t]
            /\ journal'[t] = journal[t]
  BY <1>1, <1>2, <1>3, <1>4, MutateType
<1>7. /\ TypeOK'
      /\ OthersKept(s)
  BY <1>1, <1>5, <1>6 DEF TypeOK, BeginProvisioning, OthersKept
<1>8. RowInv(s)'
  <2>1. RowOK(session'[s])
    BY <1>3, <1>6
  <2>2. Untouched(s)'
    BY <1>6 DEF Untouched
  <2>3. RanIsJournalled(s)'
    BY <1>1, <1>5, <1>6 DEF RowInv, RanIsJournalled, Ran, Op, BeginProvisioning
  <2>4. VerdictIsJournalled(s)'
    BY <1>1, <1>5, <1>6 DEF RowInv, VerdictIsJournalled, BeginProvisioning
  <2>5. CancellationWinsFor(s)'
    BY <1>1, <1>5, <1>6 DEF RowInv, CancellationWinsFor, Op, BeginProvisioning
  <2>6. EvidencedFor(s)'
    BY <1>1, <1>5, <1>6 DEF RowInv, EvidencedFor, RanIsJournalled, Ran, Op, BeginProvisioning
  <2>7. PlansAreClean(s)' /\ CleanupFor(s)'
    BY <1>1, <1>5, <1>6 DEF RowInv, PlansAreClean, CleanupFor, CleanupStates, BeginProvisioning
  <2> QED
    BY <2>1, <2>2, <2>3, <2>4, <2>5, <2>6, <2>7 DEF RowInv
<1> QED
  BY <1>7, <1>8, OneSession

\* A bound worktree can only be bound to what it is bound to.
LEMMA BindWorkspaceInv ==
    ASSUME IInv, NEW s \in Sessions, NEW k \in Keys, NEW h \in Heads,
           BindWorkspace(s, k, h)
    PROVE  IInv'
<1> DEFINE row == session[s]
<1>1. RowInv(s) /\ TypeOK /\ RowOK(session[s])
  BY DEF IInv, RowInv
<1>2. Op("bind", "") \in Operations
  BY <1>1 DEF Op, Operations
<1>3. RowOK(row) /\ row \in Session
  BY <1>1 DEF RowOK
<1>4. Journalled(s, Op("bind", "")) /\ session' = [session EXCEPT ![s] = row]
  BY DEF BindWorkspace, Mutate
<1>5. /\ row = session[s]
      /\ custody'[s] = [phase |-> "bound", key |-> k, head |-> h]
      /\ custody[s].phase = "bound" => custody'[s] = custody[s]
      /\ custody' \in [Sessions -> Custody]
      /\ \A t \in Sessions \ {s} : custody'[t] = custody[t]
  <2>1. [phase |-> "bound", key |-> k, head |-> h] \in Custody
    BY DEF Custody
  <2>2. custody[s] \in Custody /\ custody'[s] = [phase |-> "bound", key |-> k, head |-> h]
    BY <1>1 DEF TypeOK, BindWorkspace
  <2>3. custody[s].phase = "bound" => custody'[s] = custody[s]
    BY <2>2 DEF BindWorkspace, Custody
  <2> QED
    BY <1>1, <2>1, <2>2, <2>3 DEF BindWorkspace, TypeOK
<1> HIDE DEF row
<1>6. /\ session' \in [Sessions -> Session]
      /\ revision' \in [Sessions -> Nat]
      /\ journal' \in [Sessions -> SUBSET Operations]
      /\ session'[s] = row
      /\ revision'[s] # 0
      /\ journal'[s] = journal[s] \cup {Op("bind", "")}
      /\ Op("bind", "") \notin journal[s]
      /\ \A t \in Sessions \ {s} :
            /\ session'[t] = session[t]
            /\ revision'[t] = revision[t]
            /\ journal'[t] = journal[t]
  BY <1>1, <1>2, <1>3, <1>4, MutateType
<1>7. /\ TypeOK'
      /\ OthersKept(s)
  BY <1>1, <1>5, <1>6 DEF TypeOK, BindWorkspace, OthersKept
<1>8. RowInv(s)'
  <2>1. RowOK(session'[s])
    BY <1>3, <1>6
  <2>2. Untouched(s)'
    BY <1>6 DEF Untouched
  <2>3. RanIsJournalled(s)'
    BY <1>1, <1>5, <1>6 DEF RowInv, RanIsJournalled, Ran, Op, BindWorkspace
  <2>4. VerdictIsJournalled(s)'
    BY <1>1, <1>5, <1>6 DEF RowInv, VerdictIsJournalled, BindWorkspace
  <2>5. CancellationWinsFor(s)'
    BY <1>1, <1>5, <1>6 DEF RowInv, CancellationWinsFor, Op, BindWorkspace
  <2>6. EvidencedFor(s)'
    BY <1>1, <1>5, <1>6 DEF RowInv, EvidencedFor, RanIsJournalled, Ran, Op, BindWorkspace
  <2>7. PlansAreClean(s)' /\ CleanupFor(s)'
    BY <1>1, <1>5, <1>6 DEF RowInv, PlansAreClean, CleanupFor, CleanupStates, BindWorkspace
  <2> QED
    BY <2>1, <2>2, <2>3, <2>4, <2>5, <2>6, <2>7 DEF RowInv
<1> QED
  BY <1>7, <1>8, OneSession

\* A row becomes eligible under a clean plan over its present binding and outcome.
LEMMA MarkCleanupEligibleInv ==
    ASSUME IInv, NEW s \in Sessions, NEW plan \in plans[s],
           MarkCleanupEligible(s, plan)
    PROVE  IInv'
<1> DEFINE row == [session[s] EXCEPT !.state = "cleanup_eligible"]
<1>1. RowInv(s) /\ TypeOK /\ RowOK(session[s])
  BY DEF IInv, RowInv
<1>2. <<"eligible", "", plan>> \in Operations
  BY <1>1 DEF TypeOK, Operations
<1>3. RowOK(row) /\ row \in Session
  <2>1. session[s].state \in TerminalStates \cup {"cleanup_eligible"}
    BY <1>1 DEF MarkCleanupEligible, MayBecome, ALLOWED_TRANSITIONS, TerminalStates, RowOK, Session
  <2> QED
    BY <1>1, <2>1 DEF RowOK, RowConsistent, RowUncancelled, Session, SessionStates,
       TerminalStates, CleanupStates, LiveStates
<1>4. Journalled(s, <<"eligible", "", plan>>) /\ session' = [session EXCEPT ![s] = row]
  BY DEF MarkCleanupEligible, Mutate
<1>5. /\ session[s].state \in TerminalStates \cup {"cleanup_eligible"}
      /\ row.state = "cleanup_eligible"
      /\ row.lease = "released" /\ row.lease = session[s].lease
      /\ row.receipt = session[s].receipt /\ row.reason = session[s].reason
      /\ row.outcome = session[s].outcome /\ row.requested = session[s].requested
      /\ cleanupPlan'[s] = plan
  <2>1. session[s].state \in TerminalStates \cup {"cleanup_eligible"}
    BY <1>1 DEF MarkCleanupEligible, MayBecome, ALLOWED_TRANSITIONS, TerminalStates, RowOK, Session
  <2> QED
    BY <1>1, <2>1 DEF MarkCleanupEligible, RowOK, RowConsistent, Session, TerminalStates, TypeOK
<1> HIDE DEF row
<1>6. /\ session' \in [Sessions -> Session]
      /\ revision' \in [Sessions -> Nat]
      /\ journal' \in [Sessions -> SUBSET Operations]
      /\ session'[s] = row
      /\ revision'[s] # 0
      /\ journal'[s] = journal[s] \cup {<<"eligible", "", plan>>}
      /\ <<"eligible", "", plan>> \notin journal[s]
      /\ \A t \in Sessions \ {s} :
            /\ session'[t] = session[t]
            /\ revision'[t] = revision[t]
            /\ journal'[t] = journal[t]
  BY <1>1, <1>2, <1>3, <1>4, MutateType
<1>7. /\ TypeOK'
      /\ OthersKept(s)
  BY <1>1, <1>6 DEF TypeOK, MarkCleanupEligible, OthersKept
<1>8. RowInv(s)'
  <2>1. RowOK(session'[s])
    BY <1>3, <1>6
  <2>2. Untouched(s)'
    BY <1>6 DEF Untouched
  <2>3. RanIsJournalled(s)'
    BY <1>1, <1>5, <1>6 DEF RowInv, RanIsJournalled, Ran, Op, MarkCleanupEligible
  <2>4. VerdictIsJournalled(s)'
    BY <1>1, <1>5, <1>6 DEF RowInv, VerdictIsJournalled, MarkCleanupEligible
  <2>5. CancellationWinsFor(s)'
    BY <1>1, <1>5, <1>6 DEF RowInv, CancellationWinsFor, Op, MarkCleanupEligible
  <2>6. EvidencedFor(s)'
    BY <1>1, <1>5, <1>6 DEF RowInv, EvidencedFor, RanIsJournalled, Ran, Op, MarkCleanupEligible
  <2>7. PlansAreClean(s)' /\ CleanupFor(s)'
    BY <1>1, <1>5, <1>6 DEF RowInv, PlansAreClean, CleanupFor, CleanupStates, MarkCleanupEligible
  <2> QED
    BY <2>1, <2>2, <2>3, <2>4, <2>5, <2>6, <2>7 DEF RowInv
<1> QED
  BY <1>7, <1>8, OneSession

\* A worktree is recorded as removed only from an eligible row.
LEMMA MarkCleanedInv ==
    ASSUME IInv, NEW s \in Sessions, NEW plan \in plans[s], NEW n,
           MarkCleaned(s, plan, n)
    PROVE  IInv'
<1> DEFINE row == [session[s] EXCEPT !.state = "cleaned"]
<1>1. RowInv(s) /\ TypeOK /\ RowOK(session[s])
  BY DEF IInv, RowInv
<1>2. <<"cleaned", "", plan>> \in Operations
  BY <1>1 DEF TypeOK, Operations
<1>3. RowOK(row) /\ row \in Session
  <2>1. session[s].state \in {"cleanup_eligible", "cleaned"}
    BY <1>1 DEF MarkCleaned, MayBecome, ALLOWED_TRANSITIONS, RowOK, Session
  <2> QED
    BY <1>1, <2>1 DEF RowOK, RowConsistent, RowUncancelled, Session, SessionStates, CleanupStates
<1>4. Journalled(s, <<"cleaned", "", plan>>) /\ session' = [session EXCEPT ![s] = row]
  BY DEF MarkCleaned, Mutate
<1>5. /\ session[s].state \in CleanupStates
      /\ row.state = "cleaned"
      /\ row.lease = session[s].lease
      /\ row.receipt = session[s].receipt /\ row.reason = session[s].reason
      /\ row.outcome = session[s].outcome /\ row.requested = session[s].requested
  <2>1. session[s].state \in {"cleanup_eligible", "cleaned"}
    BY <1>1 DEF MarkCleaned, MayBecome, ALLOWED_TRANSITIONS, RowOK, Session
  <2> QED
    BY <1>1, <2>1 DEF RowOK, Session, CleanupStates
<1> HIDE DEF row
<1>6. /\ session' \in [Sessions -> Session]
      /\ revision' \in [Sessions -> Nat]
      /\ journal' \in [Sessions -> SUBSET Operations]
      /\ session'[s] = row
      /\ revision'[s] # 0
      /\ journal'[s] = journal[s] \cup {<<"cleaned", "", plan>>}
      /\ <<"cleaned", "", plan>> \notin journal[s]
      /\ \A t \in Sessions \ {s} :
            /\ session'[t] = session[t]
            /\ revision'[t] = revision[t]
            /\ journal'[t] = journal[t]
  BY <1>1, <1>2, <1>3, <1>4, MutateType
<1>7. /\ TypeOK'
      /\ OthersKept(s)
  BY <1>1, <1>6 DEF TypeOK, MarkCleaned, OthersKept
<1>8. RowInv(s)'
  <2>1. RowOK(session'[s])
    BY <1>3, <1>6
  <2>2. Untouched(s)'
    BY <1>6 DEF Untouched
  <2>3. RanIsJournalled(s)'
    BY <1>1, <1>5, <1>6 DEF RowInv, RanIsJournalled, Ran, Op, MarkCleaned
  <2>4. VerdictIsJournalled(s)'
    BY <1>1, <1>5, <1>6 DEF RowInv, VerdictIsJournalled, MarkCleaned
  <2>5. CancellationWinsFor(s)'
    BY <1>1, <1>5, <1>6 DEF RowInv, CancellationWinsFor, Op, MarkCleaned
  <2>6. EvidencedFor(s)'
    BY <1>1, <1>5, <1>6 DEF RowInv, EvidencedFor, RanIsJournalled, Ran, Op, MarkCleaned
  <2>7. PlansAreClean(s)' /\ CleanupFor(s)'
    BY <1>1, <1>5, <1>6 DEF RowInv, PlansAreClean, CleanupFor, CleanupStates, MarkCleaned
  <2> QED
    BY <2>1, <2>2, <2>3, <2>4, <2>5, <2>6, <2>7 DEF RowInv
<1> QED
  BY <1>7, <1>8, OneSession

\* A cleanup plan is built for a bound worktree and a complete outcome.
LEMMA BuildCleanupPlanInv ==
    ASSUME IInv, NEW s \in Sessions, BuildCleanupPlan(s)
    PROVE  IInv'
<1> DEFINE plan == [revision |-> revision[s], custody |-> custody[s],
                    outcome |-> session[s].outcome]
<1>1. RowInv(s) /\ TypeOK /\ RowOK(session[s])
  BY DEF IInv, RowInv
<1>2. plan \in Plan
  BY <1>1 DEF TypeOK, Plan, Session
<1>3. plan.custody.phase = "bound" /\ plan.outcome # "partial"
  BY DEF BuildCleanupPlan
<1>4. plans' = [plans EXCEPT ![s] = @ \cup {plan}]
  BY DEF BuildCleanupPlan
<1> HIDE DEF plan
<1>5. TypeOK' /\ OthersKept(s) /\ plans'[s] = plans[s] \cup {plan}
  BY <1>1, <1>2, <1>4 DEF TypeOK, BuildCleanupPlan, OthersKept
<1>6. RowInv(s)'
  BY <1>1, <1>3, <1>5 DEF BuildCleanupPlan, RowInv, Untouched, RanIsJournalled,
     VerdictIsJournalled, CancellationWinsFor, EvidencedFor, PlansAreClean, CleanupFor, Ran, Op
<1> QED
  BY <1>5, <1>6, OneSession

-----------------------------------------------------------------------------
\* Every step of the registry preserves the invariant.
LEMMA NextIInv == IInv /\ [Next]_vars => IInv'
<1> SUFFICES ASSUME IInv, [Next]_vars PROVE IInv'
  OBVIOUS
<1>1. CASE UNCHANGED vars
  <2>1. TypeOK'
    BY <1>1 DEF IInv, TypeOK, vars
  <2>2. ASSUME NEW s \in Sessions PROVE RowInv(s)'
    BY <1>1, Frame DEF IInv, vars
  <2> QED
    BY <2>1, <2>2 DEF IInv
<1>2. CASE Next
  <2>1. PICK s \in Sessions :
          \/ OpenSession(s)
          \/ \E k \in Keys : BeginProvisioning(s, k)
          \/ \E k \in Keys, h \in Heads : BindWorkspace(s, k, h)
          \/ Activate(s)
          \/ \E r \in Reasons : Cancel(s, r)
          \/ \E o \in Outcomes : RecordOutcome(s, o)
          \/ \E receipt \in Receipts, o \in Outcomes : Acknowledge(s, receipt, o)
          \/ \E to \in TerminalStates, receipt \in Receipts \cup {NoReceipt}, o \in Outcomes :
                Settle(s, to, receipt, o)
          \/ \E n \in 1..MaxRevision, to \in TerminalStates : Reconcile(s, n, to)
          \/ BuildCleanupPlan(s)
          \/ \E plan \in plans[s] : MarkCleanupEligible(s, plan)
          \/ \E plan \in plans[s], n \in 1..MaxRevision : MarkCleaned(s, plan, n)
    BY <1>2 DEF Next
  <2>2. CASE OpenSession(s)
    BY <2>2, OpenSessionInv
  <2>3. CASE \E k \in Keys : BeginProvisioning(s, k)
    BY <2>3, BeginProvisioningInv
  <2>4. CASE \E k \in Keys, h \in Heads : BindWorkspace(s, k, h)
    BY <2>4, BindWorkspaceInv
  <2>5. CASE Activate(s)
    BY <2>5, ActivateInv
  <2>6. CASE \E r \in Reasons : Cancel(s, r)
    BY <2>6, CancelInv
  <2>7. CASE \E o \in Outcomes : RecordOutcome(s, o)
    BY <2>7, RecordOutcomeInv
  <2>8. CASE \E receipt \in Receipts, o \in Outcomes : Acknowledge(s, receipt, o)
    BY <2>8, AcknowledgeInv
  <2>9. CASE \E to \in TerminalStates, receipt \in Receipts \cup {NoReceipt}, o \in Outcomes :
               Settle(s, to, receipt, o)
    BY <2>9, SettleInv
  <2>10. CASE \E n \in 1..MaxRevision, to \in TerminalStates : Reconcile(s, n, to)
    BY <2>10, ReconcileInv
  <2>11. CASE BuildCleanupPlan(s)
    BY <2>11, BuildCleanupPlanInv
  <2>12. CASE \E plan \in plans[s] : MarkCleanupEligible(s, plan)
    BY <2>12, MarkCleanupEligibleInv
  <2>13. CASE \E plan \in plans[s], n \in 1..MaxRevision : MarkCleaned(s, plan, n)
    BY <2>13, MarkCleanedInv
  <2> QED
    BY <2>1, <2>2, <2>3, <2>4, <2>5, <2>6, <2>7, <2>8, <2>9, <2>10, <2>11, <2>12, <2>13
<1> QED
  BY <1>1, <1>2

\* The invariant implies each of the properties.
LEMMA IInvImplies ==
    IInv => /\ TypeOK
            /\ LeaseFollowsState
            /\ CancellationWins
            /\ ReleaseIsEvidenced
            /\ CleanupMatchesPlan
<1> SUFFICES ASSUME IInv PROVE /\ TypeOK
                               /\ LeaseFollowsState
                               /\ CancellationWins
                               /\ ReleaseIsEvidenced
                               /\ CleanupMatchesPlan
  OBVIOUS
<1>1. LeaseFollowsState
  BY RecoveryScan DEF IInv, RowInv, RowOK, RowConsistent, LeaseFollowsState
<1>2. CancellationWins
  BY DEF IInv, RowInv, CancellationWinsFor, CancellationWins
<1>3. ReleaseIsEvidenced
  BY DEF IInv, RowInv, EvidencedFor, ReleaseIsEvidenced
<1>4. CleanupMatchesPlan
  BY DEF IInv, RowInv, CleanupFor, CleanupMatchesPlan
<1> QED
  BY <1>1, <1>2, <1>3, <1>4 DEF IInv

LEMMA Invariance == Spec => []IInv
BY InitIInv, NextIInv, PTL DEF Spec

\* The tables of the registry stay well typed.
THEOREM TypeCorrect == Spec => []TypeOK
BY Invariance, IInvImplies, PTL

\* Lease and process columns follow the state, so the restart scan misses no
\* worker that may still hold its worktree.
THEOREM LeaseFollows == Spec => []LeaseFollowsState
BY Invariance, IInvImplies, PTL

\* No activation or completion overtakes a journalled cancellation.
THEOREM CancellationIsFinal == Spec => []CancellationWins
BY Invariance, IInvImplies, PTL

\* A cancelled worker's lease is released on fitting evidence only.
THEOREM ReleaseEvidence == Spec => []ReleaseIsEvidenced
BY Invariance, IInvImplies, PTL

\* Cleanup is allowed under a matching plan only.
THEOREM CleanupPlanned == Spec => []CleanupMatchesPlan
BY Invariance, IInvImplies, PTL

-----------------------------------------------------------------------------
\* What each operation on a row makes of the recorded outcome.
LEMMA OutcomeKept ==
    ASSUME NEW r \in Session, r.outcome # "none", NEW o \in Outcomes, Mergeable(r, o)
    PROVE  MergeMutationOutcome(r, o) = r.outcome
BY DEF Mergeable, MergeMutationOutcome

LEMMA RowOutcomeKept ==
    ASSUME NEW r \in Session, r.outcome # "none"
    PROVE  /\ ActivateLease(r).outcome = r.outcome
           /\ \A why \in Reasons : RequestCancellation(r, why).outcome = r.outcome
           /\ \A o \in Outcomes : CanRecordMutationOutcome(r, o) =>
                 RecordMutationOutcome(r, o).outcome = r.outcome
           /\ \A receipt \in Receipts, o \in Outcomes :
                 CanAcknowledgeCancellation(r, receipt, o) =>
                    AcknowledgeCancellation(r, receipt, o).outcome = r.outcome
           /\ \A to \in TerminalStates, receipt \in Receipts \cup {NoReceipt}, o \in Outcomes :
                 CanSettleSession(r, to, receipt, o) =>
                    SettleSession(r, to, receipt, o).outcome = r.outcome
           /\ ReconcileInterruptedSession(r).outcome = r.outcome
<1>1. ActivateLease(r).outcome = r.outcome
  BY DEF ActivateLease, Session
<1>2. ASSUME NEW why \in Reasons PROVE RequestCancellation(r, why).outcome = r.outcome
  BY DEF RequestCancellation, Released, Session
<1>3. ASSUME NEW o \in Outcomes, CanRecordMutationOutcome(r, o)
      PROVE  RecordMutationOutcome(r, o).outcome = r.outcome
  BY <1>3 DEF CanRecordMutationOutcome, Mergeable, RecordMutationOutcome, Session
<1>4. ASSUME NEW receipt \in Receipts, NEW o \in Outcomes,
             CanAcknowledgeCancellation(r, receipt, o)
      PROVE  AcknowledgeCancellation(r, receipt, o).outcome = r.outcome
  <2>1. MergeMutationOutcome(r, o) = r.outcome
    BY <1>4, OutcomeKept DEF CanAcknowledgeCancellation
  <2> QED
    BY <2>1 DEF AcknowledgeCancellation, Acked, Released, Session
<1>5. ASSUME NEW to \in TerminalStates, NEW receipt \in Receipts \cup {NoReceipt},
             NEW o \in Outcomes,
             CanSettleSession(r, to, receipt, o)
      PROVE  SettleSession(r, to, receipt, o).outcome = r.outcome
  <2>1. MergeMutationOutcome(r, o) = r.outcome
    BY <1>5, OutcomeKept DEF CanSettleSession
  <2>2. CASE receipt = NoReceipt
    BY <2>1, <2>2 DEF SettleSession, Released, Session
  <2>3. CASE receipt # NoReceipt
    BY <2>1, <2>3 DEF SettleSession, Acked, Released, Session
  <2> QED
    BY <2>2, <2>3
<1>6. ReconcileInterruptedSession(r).outcome = r.outcome
  BY DEF ReconcileInterruptedSession, Released, Session
<1> QED
  BY <1>1, <1>2, <1>3, <1>4, <1>5, <1>6

\* No operation erases evidence, whoever calls it and however late.
LEMMA StepKeepsEvidence ==
    ASSUME IInv, Next
    PROVE  \A t \in Sessions : KeepsEvidence(t)
<1> SUFFICES ASSUME NEW t \in Sessions PROVE KeepsEvidence(t)
  OBVIOUS
<1>1. TypeOK /\ RowInv(t) /\ session[t] \in Session
  BY DEF IInv, TypeOK
<1>2. PICK s \in Sessions :
        \/ OpenSession(s)
        \/ \E k \in Keys : BeginProvisioning(s, k)
        \/ \E k \in Keys, h \in Heads : BindWorkspace(s, k, h)
        \/ Activate(s)
        \/ \E r \in Reasons : Cancel(s, r)
        \/ \E o \in Outcomes : RecordOutcome(s, o)
        \/ \E receipt \in Receipts, o \in Outcomes : Acknowledge(s, receipt, o)
        \/ \E to \in TerminalStates, receipt \in Receipts \cup {NoReceipt}, o \in Outcomes :
              Settle(s, to, receipt, o)
        \/ \E n \in 1..MaxRevision, to \in TerminalStates : Reconcile(s, n, to)
        \/ BuildCleanupPlan(s)
        \/ \E plan \in plans[s] : MarkCleanupEligible(s, plan)
        \/ \E plan \in plans[s], n \in 1..MaxRevision : MarkCleaned(s, plan, n)
  BY DEF Next
<1>3. CASE OpenSession(s)
  BY <1>1, <1>3 DEF OpenSession, RowInv, Untouched, NewSession, KeepsEvidence, TypeOK
<1>4. CASE \E k \in Keys : BeginProvisioning(s, k)
  <2>1. PICK k \in Keys : BeginProvisioning(s, k)
    BY <1>4
  <2>2. session'[t] = session[t]
    BY <1>1, <2>1 DEF BeginProvisioning, Mutate, TypeOK
  <2>3. \/ custody'[t] = custody[t]
        \/ /\ t = s
           /\ custody'[t] = [phase |-> "provisioning", key |-> k, head |-> NoHead]
    BY <1>1, <2>1 DEF BeginProvisioning, TypeOK
  <2> QED
    BY <1>1, <2>1, <2>2, <2>3 DEF BeginProvisioning, KeepsEvidence, TypeOK, Custody
<1>5. CASE \E k \in Keys, h \in Heads : BindWorkspace(s, k, h)
  <2>1. PICK k \in Keys, h \in Heads : BindWorkspace(s, k, h)
    BY <1>5
  <2>2. session'[t] = session[t] /\ custody[t] \in Custody
    BY <1>1, <2>1 DEF BindWorkspace, Mutate, TypeOK
  <2>3. \/ custody'[t] = custody[t]
        \/ t = s /\ custody'[t] = [phase |-> "bound", key |-> k, head |-> h]
    BY <1>1, <2>1 DEF BindWorkspace, TypeOK
  <2>4. /\ custody[s].key = k
        /\ custody[s].phase = "bound" => custody[s].head = h
    BY <2>1 DEF BindWorkspace
  <2> QED
    BY <2>2, <2>3, <2>4 DEF KeepsEvidence, Custody
<1>6. CASE Activate(s)
  BY <1>1, <1>6, RowOutcomeKept DEF Activate, Mutate, KeepsEvidence, TypeOK
<1>7. CASE \E r \in Reasons : Cancel(s, r)
  <2>1. PICK r \in Reasons : Cancel(s, r)
    BY <1>7
  <2>2. /\ session'[t] = IF t = s THEN RequestCancellation(session[t], r) ELSE session[t]
        /\ custody' = custody
    BY <1>1, <2>1 DEF Cancel, Mutate, TypeOK
  <2> QED
    BY <1>1, <2>2, RowOutcomeKept DEF KeepsEvidence
<1>8. CASE \E o \in Outcomes : RecordOutcome(s, o)
  BY <1>1, <1>8, RowOutcomeKept DEF RecordOutcome, Mutate, KeepsEvidence, TypeOK
<1>9. CASE \E receipt \in Receipts, o \in Outcomes : Acknowledge(s, receipt, o)
  <2>1. PICK receipt \in Receipts, o \in Outcomes : Acknowledge(s, receipt, o)
    BY <1>9
  <2>2. /\ session'[t] = IF t = s THEN AcknowledgeCancellation(session[t], receipt, o)
                         ELSE session[t]
        /\ t = s => CanAcknowledgeCancellation(session[t], receipt, o)
        /\ custody' = custody
    BY <1>1, <2>1 DEF Acknowledge, Mutate, TypeOK
  <2> QED
    BY <1>1, <2>2, RowOutcomeKept DEF KeepsEvidence
<1>10. CASE \E to \in TerminalStates, receipt \in Receipts \cup {NoReceipt}, o \in Outcomes :
               Settle(s, to, receipt, o)
  <2>1. PICK to \in TerminalStates, receipt \in Receipts \cup {NoReceipt}, o \in Outcomes :
          Settle(s, to, receipt, o)
    BY <1>10
  <2>2. /\ session'[t] = IF t = s THEN SettleSession(session[t], to, receipt, o)
                         ELSE session[t]
        /\ t = s => CanSettleSession(session[t], to, receipt, o)
        /\ custody' = custody
    BY <1>1, <2>1 DEF Settle, Mutate, TypeOK
  <2> QED
    BY <1>1, <2>2, RowOutcomeKept DEF KeepsEvidence
<1>11. CASE \E n \in 1..MaxRevision, to \in TerminalStates : Reconcile(s, n, to)
  BY <1>1, <1>11, RowOutcomeKept DEF Reconcile, Mutate, KeepsEvidence, TypeOK
<1>12. CASE BuildCleanupPlan(s)
  BY <1>12 DEF BuildCleanupPlan, KeepsEvidence
<1>13. CASE \E plan \in plans[s] : MarkCleanupEligible(s, plan)
  <2>1. session'[t].outcome = session[t].outcome /\ custody' = custody
    BY <1>1, <1>13 DEF MarkCleanupEligible, Mutate, TypeOK, Session
  <2> QED
    BY <2>1 DEF KeepsEvidence
<1>14. CASE \E plan \in plans[s], n \in 1..MaxRevision : MarkCleaned(s, plan, n)
  <2>1. /\ custody' = custody
        /\ session'[t] = IF t = s THEN [session[t] EXCEPT !.state = "cleaned"] ELSE session[t]
    BY <1>1, <1>14 DEF MarkCleaned, Mutate, TypeOK
  <2>2. session'[t].outcome = session[t].outcome
    BY <1>1, <2>1 DEF Session
  <2> QED
    BY <2>1, <2>2 DEF KeepsEvidence
<1> QED
  BY <1>2, <1>3, <1>4, <1>5, <1>6, <1>7, <1>8, <1>9, <1>10, <1>11, <1>12, <1>13, <1>14

\* Recorded outcomes, claimed keys and bindings are never erased.
THEOREM EvidenceIsKept == Spec => EvidenceKept
<1>1. IInv /\ [Next]_vars => [\A s \in Sessions : KeepsEvidence(s)]_vars
  BY StepKeepsEvidence
<1> QED
  BY <1>1, Invariance, PTL DEF Spec, EvidenceKept

-----------------------------------------------------------------------------
(* The custody contract *)

\* What a step may make of a row and its plans: a row keeps its state, is
\* opened, moves on while it is live, or goes the way of the cleanup, at whose
\* end a plan is there; a plan is only built for a row that was given up.
RowFate(s) ==
    \/ /\ session'[s].state = session[s].state
       /\ revision[s] = revision'[s] \/ (revision[s] > 0 /\ revision'[s] > 0)
    \/ revision[s] = 0 /\ revision'[s] > 0 /\ session'[s].state = "registered"
    \/ /\ revision[s] > 0 /\ revision'[s] > 0
       /\ \/ /\ session[s].state \in LiveStates
             /\ session'[s].state \in LiveStates \cup TerminalStates
          \/ /\ session[s].state \in TerminalStates
             /\ session'[s].state = "cleanup_eligible"
          \/ /\ session[s].state = "cleanup_eligible"
             /\ session'[s].state = "cleaned"
             /\ plans[s] # {}

PlanFate(s) ==
    \/ plans'[s] = plans[s]
    \/ /\ plans'[s] # {}
       /\ revision[s] > 0 /\ revision'[s] = revision[s] /\ session'[s] = session[s]
       /\ session[s].state \in TerminalStates \cup {"cleanup_eligible"}

\* A journalled operation writes one row.
LEMMA MutateFate ==
    ASSUME IInv, NEW s \in Sessions, NEW op, NEW row, Mutate(s, op, row), NEW t \in Sessions
    PROVE  IF t = s THEN /\ revision[t] > 0 /\ revision'[t] > 0
                         /\ session'[t] = row
                    ELSE session'[t] = session[t] /\ revision'[t] = revision[t]
<1>1. revision \in [Sessions -> Nat] /\ session \in [Sessions -> Session]
  BY DEF IInv, TypeOK
<1> QED BY <1>1 DEF Mutate, Journalled

\* The states an operation on a row leads to.
LEMMA RowMoves ==
    ASSUME NEW r \in Session
    PROVE  /\ CanActivateLease(r) => /\ r.state \in LiveStates
                                     /\ ActivateLease(r).state \in LiveStates
           /\ \A why \in Reasons : CanRequestCancellation(r) =>
                 /\ r.state \in LiveStates
                 /\ RequestCancellation(r, why).state \in LiveStates \cup TerminalStates
           /\ \A o \in Outcomes : RecordMutationOutcome(r, o).state = r.state
           /\ \A receipt \in Receipts, o \in Outcomes :
                 CanAcknowledgeCancellation(r, receipt, o) =>
                 /\ r.state \in LiveStates \cup {"cancelled"}
                 /\ AcknowledgeCancellation(r, receipt, o).state = "cancelled"
           /\ \A to \in TerminalStates, receipt \in Receipts \cup {NoReceipt}, o \in Outcomes :
                 CanSettleSession(r, to, receipt, o) =>
                 /\ r.state \in LiveStates \cup {to}
                 /\ SettleSession(r, to, receipt, o).state = to
           /\ \A outcome : CanReconcile(r, outcome) =>
                 /\ r.state \in LiveStates
                 /\ ReconcileInterruptedSession(r).state \in TerminalStates
<1> USE DEF Session, MayBecome, ALLOWED_TRANSITIONS, LiveStates, TerminalStates, Released
<1>1. CanActivateLease(r) => /\ r.state \in LiveStates
                             /\ ActivateLease(r).state \in LiveStates
  BY DEF CanActivateLease, ActivateLease
<1>2. ASSUME NEW why \in Reasons, CanRequestCancellation(r)
      PROVE  /\ r.state \in LiveStates
             /\ RequestCancellation(r, why).state \in LiveStates \cup TerminalStates
  BY <1>2 DEF CanRequestCancellation, RequestCancellation
<1>3. ASSUME NEW o \in Outcomes
      PROVE  RecordMutationOutcome(r, o).state = r.state
  BY DEF RecordMutationOutcome
<1>4. ASSUME NEW receipt \in Receipts, NEW o \in Outcomes,
             CanAcknowledgeCancellation(r, receipt, o)
      PROVE  /\ r.state \in LiveStates \cup {"cancelled"}
             /\ AcknowledgeCancellation(r, receipt, o).state = "cancelled"
  BY <1>4 DEF CanAcknowledgeCancellation, AcknowledgeCancellation, Acked
<1>5. ASSUME NEW to \in TerminalStates, NEW receipt \in Receipts \cup {NoReceipt},
             NEW o \in Outcomes, CanSettleSession(r, to, receipt, o)
      PROVE  /\ r.state \in LiveStates \cup {to}
             /\ SettleSession(r, to, receipt, o).state = to
  BY <1>5 DEF CanSettleSession, SettleSession, Acked
<1>6. ASSUME NEW outcome, CanReconcile(r, outcome)
      PROVE  /\ r.state \in LiveStates
             /\ ReconcileInterruptedSession(r).state \in TerminalStates
  BY <1>6 DEF CanReconcile, ReconcileInterruptedSession, ReconciledState
<1> HIDE DEF LiveStates, TerminalStates
<1> QED BY <1>1, <1>2, <1>3, <1>4, <1>5, <1>6

\* Every operation on session s moves a row t as RowFate and PlanFate say.
LEMMA StepFates ==
    ASSUME IInv, [Next]_vars, NEW t \in Sessions
    PROVE  RowFate(t) /\ PlanFate(t)
<1>0. /\ revision \in [Sessions -> Nat]
      /\ session \in [Sessions -> Session]
      /\ plans \in [Sessions -> SUBSET Plan]
  BY DEF IInv, TypeOK
<1>1. CASE UNCHANGED vars
  BY <1>1 DEF vars, RowFate, PlanFate
<1>2. ASSUME NEW s \in Sessions, OpenSession(s)
      PROVE  RowFate(t) /\ PlanFate(t)
  <2>1. /\ plans' = plans
        /\ revision[s] = 0
        /\ revision' = [revision EXCEPT ![s] = @ + 1]
        /\ session' = [session EXCEPT ![s] = NewSession]
    BY <1>2 DEF OpenSession, Journalled
  <2>2. CASE t = s
    <3>1. session'[t].state = "registered" /\ revision'[t] = 1
      BY <1>0, <2>1, <2>2 DEF NewSession
    <3> QED BY <2>1, <2>2, <3>1 DEF RowFate, PlanFate
  <2>3. CASE t # s
    BY <1>0, <2>1, <2>3 DEF RowFate, PlanFate
  <2> QED BY <2>2, <2>3
<1>3. ASSUME NEW s \in Sessions, BuildCleanupPlan(s)
      PROVE  RowFate(t) /\ PlanFate(t)
  <2>1. session' = session /\ revision' = revision
    BY <1>3 DEF BuildCleanupPlan
  <2>2. CASE t = s
    BY <1>0, <1>3, <2>1, <2>2 DEF BuildCleanupPlan, RowFate, PlanFate
  <2>3. CASE t # s
    BY <1>0, <1>3, <2>1, <2>3 DEF BuildCleanupPlan, RowFate, PlanFate
  <2> QED BY <2>2, <2>3
<1>4. ASSUME NEW s \in Sessions, NEW op, NEW row, Mutate(s, op, row), UNCHANGED plans,
             \/ row.state = session[s].state
             \/ /\ session[s].state \in LiveStates
                /\ row.state \in LiveStates \cup TerminalStates
             \/ session[s].state \in TerminalStates /\ row.state = "cleanup_eligible"
             \/ /\ session[s].state = "cleanup_eligible"
                /\ row.state = "cleaned"
                /\ plans[s] # {}
      PROVE  RowFate(t) /\ PlanFate(t)
  <2>1. IF t = s THEN /\ revision[t] > 0 /\ revision'[t] > 0
                      /\ session'[t] = row
                 ELSE session'[t] = session[t] /\ revision'[t] = revision[t]
    BY <1>4, MutateFate
  <2> QED BY <1>4, <2>1 DEF RowFate, PlanFate
<1>5. ASSUME NEW s \in Sessions, NEW k \in Keys, BeginProvisioning(s, k)
      PROVE  RowFate(t) /\ PlanFate(t)
  <2>1. Mutate(s, Op("provision", ""), session[s]) /\ UNCHANGED plans
    BY <1>5 DEF BeginProvisioning
  <2> QED BY <1>4, <2>1
<1>6. ASSUME NEW s \in Sessions, NEW k \in Keys, NEW h \in Heads, BindWorkspace(s, k, h)
      PROVE  RowFate(t) /\ PlanFate(t)
  <2>1. Mutate(s, Op("bind", ""), session[s]) /\ UNCHANGED plans
    BY <1>6 DEF BindWorkspace
  <2> QED BY <1>4, <2>1
<1>7. ASSUME NEW s \in Sessions, Activate(s)
      PROVE  RowFate(t) /\ PlanFate(t)
  <2>1. /\ Mutate(s, Op("activate", ""), ActivateLease(session[s]))
        /\ UNCHANGED plans
        /\ CanActivateLease(session[s])
    BY <1>7 DEF Activate
  <2>2. session[s].state \in LiveStates /\ ActivateLease(session[s]).state \in LiveStates
    BY <1>0, <2>1, RowMoves
  <2> QED BY <1>4, <2>1, <2>2
<1>8. ASSUME NEW s \in Sessions, NEW r \in Reasons, Cancel(s, r)
      PROVE  RowFate(t) /\ PlanFate(t)
  <2>1. /\ Mutate(s, Op("request-cancel", ""), RequestCancellation(session[s], r))
        /\ UNCHANGED plans
        /\ CanRequestCancellation(session[s])
    BY <1>8 DEF Cancel
  <2>2. /\ session[s].state \in LiveStates
        /\ RequestCancellation(session[s], r).state \in LiveStates \cup TerminalStates
    BY <1>0, <2>1, RowMoves
  <2> QED BY <1>4, <2>1, <2>2
<1>9. ASSUME NEW s \in Sessions, NEW o \in Outcomes, RecordOutcome(s, o)
      PROVE  RowFate(t) /\ PlanFate(t)
  <2>1. /\ Mutate(s, Op("outcome", o), RecordMutationOutcome(session[s], o))
        /\ UNCHANGED plans
    BY <1>9 DEF RecordOutcome
  <2>2. RecordMutationOutcome(session[s], o).state = session[s].state
    BY <1>0, RowMoves
  <2> QED BY <1>4, <2>1, <2>2
<1>10. ASSUME NEW s \in Sessions, NEW receipt \in Receipts, NEW o \in Outcomes,
              Acknowledge(s, receipt, o)
       PROVE  RowFate(t) /\ PlanFate(t)
  <2>1. /\ Mutate(s, Op("ack-cancel", ""), AcknowledgeCancellation(session[s], receipt, o))
        /\ UNCHANGED plans
        /\ CanAcknowledgeCancellation(session[s], receipt, o)
    BY <1>10 DEF Acknowledge
  <2>2. /\ session[s].state \in LiveStates \cup {"cancelled"}
        /\ AcknowledgeCancellation(session[s], receipt, o).state = "cancelled"
    BY <1>0, <2>1, RowMoves
  <2>3. "cancelled" \in TerminalStates
    BY DEF TerminalStates
  <2> QED BY <1>4, <2>1, <2>2, <2>3
<1>11. ASSUME NEW s \in Sessions, NEW to \in TerminalStates,
              NEW receipt \in Receipts \cup {NoReceipt}, NEW o \in Outcomes,
              Settle(s, to, receipt, o)
       PROVE  RowFate(t) /\ PlanFate(t)
  <2>1. /\ Mutate(s, Op("settle", to), SettleSession(session[s], to, receipt, o))
        /\ UNCHANGED plans
        /\ CanSettleSession(session[s], to, receipt, o)
    BY <1>11 DEF Settle
  <2>2. /\ session[s].state \in LiveStates \cup {to}
        /\ SettleSession(session[s], to, receipt, o).state = to
    BY <1>0, <2>1, RowMoves
  <2> QED BY <1>4, <2>1, <2>2
<1>12. ASSUME NEW s \in Sessions, NEW n \in 1..MaxRevision, NEW to \in TerminalStates,
              Reconcile(s, n, to)
       PROVE  RowFate(t) /\ PlanFate(t)
  <2>1. /\ Mutate(s, Op("reconcile", ""), ReconcileInterruptedSession(session[s]))
        /\ UNCHANGED plans
        /\ CanReconcile(session[s], to)
    BY <1>12 DEF Reconcile
  <2>2. /\ session[s].state \in LiveStates
        /\ ReconcileInterruptedSession(session[s]).state \in TerminalStates
    BY <1>0, <2>1, RowMoves
  <2> QED BY <1>4, <2>1, <2>2
<1>13. ASSUME NEW s \in Sessions, NEW plan \in plans[s], MarkCleanupEligible(s, plan)
       PROVE  RowFate(t) /\ PlanFate(t)
  <2>1. /\ Mutate(s, <<"eligible", "", plan>>, [session[s] EXCEPT !.state = "cleanup_eligible"])
        /\ UNCHANGED plans
        /\ MayBecome(session[s], "cleanup_eligible")
    BY <1>13 DEF MarkCleanupEligible
  <2>2. session[s].state \in TerminalStates \cup {"cleanup_eligible"}
    BY <1>0, <2>1 DEF Session, MayBecome, ALLOWED_TRANSITIONS, TerminalStates
  <2>3. [session[s] EXCEPT !.state = "cleanup_eligible"].state = "cleanup_eligible"
    BY <1>0 DEF Session
  <2> QED BY <1>4, <2>1, <2>2, <2>3
<1>14. ASSUME NEW s \in Sessions, NEW plan \in plans[s], NEW n \in 1..MaxRevision,
              MarkCleaned(s, plan, n)
       PROVE  RowFate(t) /\ PlanFate(t)
  <2>1. /\ Mutate(s, <<"cleaned", "", plan>>, [session[s] EXCEPT !.state = "cleaned"])
        /\ UNCHANGED plans
        /\ MayBecome(session[s], "cleaned")
    BY <1>14 DEF MarkCleaned
  <2>2. session[s].state \in {"cleanup_eligible", "cleaned"}
    BY <1>0, <2>1 DEF Session, MayBecome, ALLOWED_TRANSITIONS
  <2>3. [session[s] EXCEPT !.state = "cleaned"].state = "cleaned"
    BY <1>0 DEF Session
  <2> QED BY <1>4, <2>1, <2>2, <2>3
<1> QED BY <1>1, <1>2, <1>3, <1>5, <1>6, <1>7, <1>8, <1>9, <1>10, <1>11, <1>12, <1>13, <1>14
           DEF Next

\* What the contract sees of a row.
PlaceInv ==
    \A s \in Sessions :
        /\ session[s].state \in LiveStates <=> NeedsReconciliation(session[s])
        /\ session[s].process \in {"running", "cancelling"} =>
              revision[s] > 0 /\ session[s].state \in LiveStates
        /\ session[s].state \in SessionStates
        /\ revision[s] \in Nat
        /\ revision[s] = 0 => session[s].state = "registered"

LEMMA PlaceHolds == IInv => PlaceInv
<1> SUFFICES ASSUME IInv, NEW s \in Sessions
             PROVE  /\ session[s].state \in LiveStates <=> NeedsReconciliation(session[s])
                    /\ session[s].process \in {"running", "cancelling"} =>
                          revision[s] > 0 /\ session[s].state \in LiveStates
                    /\ session[s].state \in SessionStates
                    /\ revision[s] \in Nat
                    /\ revision[s] = 0 => session[s].state = "registered"
  BY DEF PlaceInv
<1>1. RowOK(session[s]) /\ Untouched(s) /\ revision[s] \in Nat
  BY DEF IInv, RowInv, TypeOK
<1>2. session[s].state \in LiveStates <=> NeedsReconciliation(session[s])
  BY <1>1, RecoveryScan DEF RowOK, RowConsistent, LiveStates, Session, SessionStates,
     TerminalStates, CleanupStates, NeedsReconciliation
<1>3. session[s].process \in {"running", "cancelling"} =>
          revision[s] > 0 /\ session[s].state \in LiveStates
  BY <1>1 DEF RowOK, RowConsistent, Untouched, NewSession, LiveStates, Session, SessionStates,
     TerminalStates, CleanupStates
<1> QED BY <1>1, <1>2, <1>3 DEF RowOK, Session, Untouched, NewSession

\* Where the contract sees a worktree, by the state of its row.
Place(s) ==
    IF revision[s] = 0 THEN "free"
    ELSE IF session[s].state \in LiveStates THEN "held"
    ELSE IF session[s].state = "cleaned" THEN "removed" ELSE "released"

InUse(s) == session[s].process \in {"running", "cancelling"}

LEMMA PlaceByState == PlaceInv => \A s \in Sessions : WorktreeOf(s) = Place(s)
<1> SUFFICES ASSUME PlaceInv, NEW s \in Sessions PROVE WorktreeOf(s) = Place(s)
  OBVIOUS
<1>1. /\ session[s].state \in LiveStates <=> NeedsReconciliation(session[s])
      /\ revision[s] \in Nat
  BY DEF PlaceInv
<1>2. CASE revision[s] = 0
  BY <1>2 DEF WorktreeOf, Place, Opened
<1>3. CASE revision[s] > 0
  <2>1. revision[s] # 0
    BY <1>3
  <2>2. CASE NeedsReconciliation(session[s])
    BY <1>1, <1>3, <2>1, <2>2 DEF WorktreeOf, Place, Opened, LiveStates
  <2>3. CASE ~NeedsReconciliation(session[s])
    BY <1>1, <1>3, <2>1, <2>3 DEF WorktreeOf, Place, Opened
  <2> QED BY <2>2, <2>3
<1> QED BY <1>1, <1>2, <1>3

PlacedInv == PlaceInv /\ \A s \in Sessions : WorktreeOf(s) = Place(s)

LEMMA PlacedHolds == IInv => PlacedInv
BY PlaceHolds, PlaceByState DEF PlacedInv

LEMMA ContractStep ==
    ASSUME IInv, PlacedInv, PlacedInv', [Next]_vars
    PROVE  [Contract!Next]_(Contract!vars)
<1>1. /\ \A s \in Sessions : /\ WorktreeOf(s) = Place(s)
                             /\ WorktreeOf(s)' = Place(s)'
      /\ PlaceInv /\ PlaceInv'
  BY DEF PlacedInv
<1>2. Contract!TypeOK'
  <2>1. \A s \in Sessions : WorktreeOf(s)' \in {"free", "held", "removed", "released"}
    BY <1>1 DEF Place
  <2> QED BY <2>1 DEF Contract!TypeOK, Contract!Verdicts
<1>3. ASSUME NEW s \in Sessions
      PROVE  Contract!Step(s)
  <2>1. /\ RowFate(s) /\ PlanFate(s)
        /\ WorktreeOf(s) = Place(s) /\ WorktreeOf(s)' = Place(s)'
    BY <1>1, StepFates
  <2>2. /\ InUse(s) => Place(s) = "held"
        /\ InUse(s)' => Place(s)' = "held"
        /\ revision[s] \in Nat /\ revision'[s] \in Nat
        /\ session[s].state \in SessionStates /\ session'[s].state \in SessionStates
    <3>1. InUse(s) => revision[s] > 0 /\ session[s].state \in LiveStates
      BY <1>1 DEF PlaceInv, InUse
    <3>2. InUse(s)' => revision'[s] > 0 /\ session'[s].state \in LiveStates
      BY <1>1 DEF PlaceInv, InUse
    <3> QED BY <1>1, <3>1, <3>2 DEF PlaceInv, Place
  <2>3. Place(s) = "held" => plans'[s] = plans[s]
    BY <2>1 DEF PlanFate, Place, LiveStates, TerminalStates
  <2>4. \/ Place(s)' = Place(s)
        \/ /\ \/ Place(s) = "free" /\ Place(s)' = "held"
              \/ Place(s) = "held" /\ Place(s)' = "released"
              \/ Place(s) = "released" /\ Place(s)' = "removed" /\ plans[s] # {}
           /\ plans'[s] = plans[s]
    <3>1. CASE session'[s].state = session[s].state /\ revision[s] = revision'[s]
      BY <3>1 DEF Place
    <3>2. CASE /\ session'[s].state = session[s].state
               /\ revision[s] > 0 /\ revision'[s] > 0
      <4>1. revision[s] # 0 /\ revision'[s] # 0
        BY <2>2, <3>2
      <4> QED BY <3>2, <4>1 DEF Place
    <3>3. CASE revision[s] = 0 /\ revision'[s] > 0 /\ session'[s].state = "registered"
      <4>1. revision'[s] # 0 /\ plans'[s] = plans[s]
        BY <2>1, <2>2, <3>3 DEF PlanFate
      <4> QED BY <3>3, <4>1 DEF Place, LiveStates
    <3>4. CASE /\ revision[s] > 0 /\ revision'[s] > 0
               /\ session[s].state \in LiveStates
               /\ session'[s].state \in LiveStates \cup TerminalStates
      <4>1. revision[s] # 0 /\ revision'[s] # 0
        BY <2>2, <3>4
      <4>2. plans'[s] = plans[s]
        BY <2>3, <3>4, <4>1 DEF Place
      <4> QED BY <3>4, <4>1, <4>2 DEF Place, LiveStates, TerminalStates
    <3>5. CASE /\ revision[s] > 0 /\ revision'[s] > 0
               /\ session[s].state \in TerminalStates
               /\ session'[s].state = "cleanup_eligible"
      <4>1. revision[s] # 0 /\ revision'[s] # 0
        BY <2>2, <3>5
      <4> QED BY <3>5, <4>1 DEF Place, LiveStates, TerminalStates
    <3>6. CASE /\ revision[s] > 0 /\ revision'[s] > 0
               /\ session[s].state = "cleanup_eligible"
               /\ session'[s].state = "cleaned"
               /\ plans[s] # {}
      <4>1. revision[s] # 0 /\ revision'[s] # 0
        BY <2>2, <3>6
      <4>2. session'[s] # session[s]
        BY <3>6
      <4>3. plans'[s] = plans[s]
        BY <2>1, <4>2 DEF PlanFate
      <4> QED BY <3>6, <4>1, <4>3 DEF Place, LiveStates
    <3> QED BY <2>1, <3>1, <3>2, <3>3, <3>4, <3>5, <3>6 DEF RowFate
  <2>5. CASE Place(s) = "held" /\ Place(s)' = "held"
    <3>1. Contract!Use(s) \/ Contract!Same(s)
      BY <2>1, <2>3, <2>5 DEF Contract!Use, Contract!Same, Contract!AtMostOne, InUse
    <3> QED BY <3>1 DEF Contract!Step
  <2>6. CASE Place(s)' = Place(s) /\ Place(s) # "held" /\ plans'[s] = plans[s]
    <3>1. ~InUse(s) /\ ~InUse(s)'
      BY <2>2, <2>6
    <3>2. Contract!Same(s)
      BY <2>1, <2>6, <3>1 DEF Contract!Same, InUse
    <3> QED BY <3>2 DEF Contract!Step
  <2>7. CASE Place(s)' = Place(s) /\ Place(s) # "held" /\ plans'[s] # plans[s]
    <3>1. ~InUse(s) /\ ~InUse(s)'
      BY <2>2, <2>7
    <3>2. plans'[s] # {} /\ Place(s) = "released"
      <4>1. /\ plans'[s] # {}
            /\ revision[s] > 0
            /\ session[s].state \in TerminalStates \cup {"cleanup_eligible"}
        BY <2>1, <2>7 DEF PlanFate
      <4>2. revision[s] # 0
        BY <2>2, <4>1
      <4> QED BY <4>1, <4>2 DEF Place, LiveStates, TerminalStates
    <3>3. Contract!Tell(s)
      BY <2>1, <2>7, <3>1, <3>2 DEF Contract!Tell, Contract!Verdicts, InUse
    <3> QED BY <3>3 DEF Contract!Step
  <2>8. CASE Place(s) = "free" /\ Place(s)' = "held" /\ plans'[s] = plans[s]
    <3>1. ~InUse(s)
      BY <2>2, <2>8
    <3>2. Contract!Take(s)
      BY <2>1, <2>8, <3>1 DEF Contract!Take, Contract!AtMostOne, InUse
    <3> QED BY <3>2 DEF Contract!Step
  <2>9. CASE Place(s) = "held" /\ Place(s)' = "released" /\ plans'[s] = plans[s]
    <3>1. ~InUse(s)'
      BY <2>2, <2>9
    <3>2. Contract!Conclude(s)
      BY <2>1, <2>9, <3>1 DEF Contract!Conclude, Contract!Verdicts, InUse
    <3> QED BY <3>2 DEF Contract!Step
  <2>10. CASE /\ Place(s) = "released" /\ Place(s)' = "removed" /\ plans[s] # {}
              /\ plans'[s] = plans[s]
    <3>1. ~InUse(s) /\ ~InUse(s)'
      BY <2>2, <2>10
    <3>2. Contract!Remove(s)
      BY <2>1, <2>10, <3>1 DEF Contract!Remove, Contract!Verdicts, InUse
    <3> QED BY <3>2 DEF Contract!Step
  <2> QED BY <2>4, <2>5, <2>6, <2>7, <2>8, <2>9, <2>10
<1> QED BY <1>2, <1>3 DEF Contract!Next

LEMMA ContractInit == Init => Contract!Init
<1> SUFFICES ASSUME Init PROVE Contract!Init
  OBVIOUS
<1>1. \A s \in Sessions : /\ WorktreeOf(s) = "free"
                          /\ session[s].process \notin {"running", "cancelling"}
                          /\ plans[s] = {}
  BY DEF Init, WorktreeOf, NewSession, Opened
<1> QED BY <1>1 DEF Contract!Init

\* The registry implements the custody contract: whatever its callers do in
\* whatever order, its operations and cleanup plans are steps of the contract.
THEOREM RegistryKeepsCustody == Spec => KeepsCustody
<1>1. IInv /\ PlacedInv /\ PlacedInv' /\ [Next]_vars => [Contract!Next]_(Contract!vars)
  BY ContractStep
<1> QED BY <1>1, ContractInit, PlacedHolds, Invariance, PTL
           DEF Spec, KeepsCustody, Contract!Spec

\* A worker process runs only under a lease the restart scan would find, and
\* whoever was given a cleanup plan was told the truth for good
\* (recoverySnapshot, buildWorkspaceWorkerCleanupPlan).
THEOREM RegistryWorksInHeld == Spec => []Contract!WorkIsHeld
<1>1. Contract!Init => Contract!WorkIsHeld
  BY DEF Contract!Init, Contract!WorkIsHeld
<1>2. Contract!WorkIsHeld /\ [Contract!Next]_(Contract!vars) => Contract!WorkIsHeld'
  <2> SUFFICES ASSUME Contract!WorkIsHeld, [Contract!Next]_(Contract!vars)
               PROVE  Contract!WorkIsHeld'
    OBVIOUS
  <2>1. CASE UNCHANGED Contract!vars
    BY <2>1 DEF Contract!vars, Contract!WorkIsHeld
  <2>2. CASE Contract!Next
    BY <2>2 DEF Contract!Next, Contract!Step, Contract!Take, Contract!Use, Contract!Conclude,
       Contract!Tell, Contract!Forget, Contract!Remove, Contract!Same, Contract!AtMostOne,
       Contract!Verdicts, Contract!WorkIsHeld
  <2> QED BY <2>1, <2>2
<1> QED BY <1>1, <1>2, RegistryKeepsCustody, PTL DEF KeepsCustody, Contract!Spec
=============================================================================
