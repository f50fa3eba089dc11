----------------------------- MODULE AgentPool -----------------------------
(***************************************************************************)
(* The native agent pool (src/main/direct/agents/native-agent-pool.js):    *)
(* bounded admission of child agents, the leases they hold while they run, *)
(* cancellation, settlement against the durable lifecycle registry, and    *)
(* shutdown.                                                               *)
(*                                                                         *)
(* A child in Isolated works in its own worktree and has a registry        *)
(* session; the others (reasoning-only and delegated children) have none.  *)
(* Every synchronous stretch of JavaScript is atomic.  The loops such a    *)
(* stretch contains (drain, retryPendingSettlements, the sweep of          *)
(* requestCancellationForAll) are unrolled into steps: while loop is not   *)
(* "idle" only the loop itself may move.  Any registry call may fail; a    *)
(* crash loses everything but the registry.                                *)
(***************************************************************************)
EXTENDS Naturals, Sequences, FiniteSets, WorkerSession

CONSTANTS Children,
          Isolated,        \* the children with a worktree and a session
          MaxActive,       \* maxActiveChildren
          MaxQueued,       \* maxQueuedChildren
          RetryLimit,      \* settlementRetryAttempts
          TypedReasons,    \* reason codes safeWorkspaceStatusCode lets through
          BackendReason,   \* the code the pool itself cancels with
          MaxFaults,       \* bound on failing registry calls
          MaxCrashes       \* bound on restarts

ASSUME PoolAssumption ==
    /\ Isolated \subseteq Children
    /\ IsFiniteSet(Children)
    /\ MaxActive \in Nat \ {0}
    /\ MaxQueued \in Nat
    /\ RetryLimit \in Nat \ {0}
    /\ TypedReasons \subseteq Reasons
    /\ BackendReason \in TypedReasons
    /\ MaxFaults \in Nat
    /\ MaxCrashes \in Nat

VARIABLES
    \* one record per child
    st,          \* record.state, "none" while the child is not in jobs
    reason,      \* record._cancelReasonCode, NoReason until _cancelRequested
    pend,        \* record._pendingSettlement
    attempts,    \* record._settlementAttempts
    runner,      \* the promise chain startRecord creates
    result,      \* what the runner returned
    \* the pool
    leased,      \* children with record._leaseActive
    active,      \* activeCount
    queue,
    closed,
    cancelAll,   \* cancellationRequestedAll
    loop,        \* which synchronous loop is unrolling
    sweep,       \* children requestCancellationForAll has yet to cancel
    recovered,   \* recoveredSessionIds
    \* the registry
    opened,      \* children with a session row
    sess,        \* that row
    \* bounds and history
    faults, crashes,
    runs         \* times a runner was invoked for a child, restarts included

records  == <<st, reason, pend, attempts, runner, result>>
capacity == <<leased, active, queue>>
control  == <<closed, cancelAll, loop, sweep, recovered>>
durable  == <<opened, sess>>
history  == <<faults, crashes, runs>>
vars     == <<records, capacity, control, durable, history>>

PoolStates ==
    {"none", "queued", "running", "cancelling", "cancellation_unacknowledged",
     "settlement_blocked"} \cup TerminalStates

\* A settlement: the verdict and the evidence it carries.  A cancellation
\* always has a reason.
Patch == {p \in [to      : TerminalStates,
                 reason  : Reasons \cup {NoReason},
                 receipt : Receipts \cup {NoReceipt},
                 outcome : Outcomes] :
            p.to = "cancelled" => p.reason # NoReason}

NoPatch == [to |-> "none", reason |-> NoReason, receipt |-> NoReceipt, outcome |-> "none"]

Verdict(to, r, receipt, o) == [to |-> to, reason |-> r, receipt |-> receipt, outcome |-> o]

Result == [status  : TerminalStates \cup {"unresolved"},
           receipt : Receipts \cup {NoReceipt},
           outcome : Outcomes]

NoResult == [status |-> "none", receipt |-> NoReceipt, outcome |-> "none"]

\* The registry calls of one handler: its own transition, and the two that
\* commitLifecycleSettlement may make.
Calls == {"transition", "request", "commit"}

TypeOK ==
    /\ st \in [Children -> PoolStates]
    /\ reason \in [Children -> Reasons \cup {NoReason}]
    /\ pend \in [Children -> Patch \cup {NoPatch}]
    /\ attempts \in [Children -> Nat]
    /\ runner \in [Children -> {"idle", "scheduled", "running", "returned"}]
    /\ result \in [Children -> Result \cup {NoResult}]
    /\ leased \subseteq Children
    /\ active \in Nat
    /\ queue \in Seq(Children)
    /\ closed \in BOOLEAN
    /\ cancelAll \in BOOLEAN
    /\ loop \in {"idle", "drain", "retry", "close", "sweep"}
    /\ sweep \subseteq Children
    /\ recovered \subseteq Isolated
    /\ opened \subseteq Isolated
    /\ sess \in [Children -> Session]
    /\ faults \in Nat
    /\ crashes \in Nat
    /\ runs \in [Children -> Nat]

Init ==
    /\ st = [c \in Children |-> "none"]
    /\ reason = [c \in Children |-> NoReason]
    /\ pend = [c \in Children |-> NoPatch]
    /\ attempts = [c \in Children |-> 0]
    /\ runner = [c \in Children |-> "idle"]
    /\ result = [c \in Children |-> NoResult]
    /\ leased = {}
    /\ active = 0
    /\ queue = << >>
    /\ closed = FALSE
    /\ cancelAll = FALSE
    /\ loop = "idle"
    /\ sweep = {}
    /\ recovered = {}
    /\ opened = {}
    /\ sess = [c \in Children |-> NewSession]
    /\ faults = 0
    /\ crashes = 0
    /\ runs = [c \in Children |-> 0]

-----------------------------------------------------------------------------
Settled(c)         == st[c] \in TerminalStates
Resident(c)        == st[c] # "none"
CancelRequested(c) == reason[c] # NoReason
Pending(c)         == ~Settled(c) /\ pend[c] # NoPatch
Retryable(c)       == Pending(c) /\ attempts[c] < RetryLimit

\* recoverySnapshot: imported sessions the registry still lists.
Recovery == {c \in recovered : NeedsReconciliation(sess[c])}

\* Which of a handler's registry calls fail; children without a session make none.
RegistryFaults(c, fail) ==
    /\ fail \subseteq (IF c \in Isolated THEN Calls ELSE {})
    /\ faults + Cardinality(fail) <= MaxFaults
    /\ faults' = faults + Cardinality(fail)

\* requestCancellation under the pool's one operation id: a second call
\* replays or conflicts, and a settled session refuses it.
Requested(s, r) ==
    IF s.state \in {"registered", "active"} THEN RequestCancellation(s, r) ELSE s

\* commitLifecycleSettlement first brings a cancelled worker's session to
\* "cancelling" (or straight to "cancelled" when it never ran).
Prepared(s, p, fail) ==
    IF p.to = "cancelled" /\ "request" \notin fail THEN Requested(s, p.reason) ELSE s

\* Mutations: any terminal session will do; a settled session needs a receipt.
AgreesOnAnyVerdict(s, p) == s.state \in TerminalStates

AgreesWithReceipt(s, p) ==
    s.state = p.to /\ s.outcome = p.outcome /\ s.receipt = p.receipt /\ s.receipt # NoReceipt

\* A session that is terminal already must agree with the verdict in every
\* field.  Its blocker code is the raw cancellation reason; the verdict's has
\* been through safeWorkspaceStatusCode.
Agrees(s, p) ==
    /\ s.state = p.to
    /\ s.outcome = p.outcome
    /\ s.receipt = p.receipt
    /\ s.reason \in TypedReasons \cup {NoReason}

\* Does commitLifecycleSettlement succeed?
Commits(c, s, p, fail) ==
    \/ c \notin Isolated
    \/ s.state \in TerminalStates /\ Agrees(s, p)
    \/ /\ s.state \in LiveStates
       /\ p.to = "cancelled"
       /\ \/ s.state = "registered" /\ "request" \notin fail
          \/ /\ Prepared(s, p, fail).state = "cancelling"
             /\ "commit" \notin fail
             /\ CanAcknowledgeCancellation(Prepared(s, p, fail), p.receipt, p.outcome)
    \/ /\ s.state \in LiveStates
       /\ p.to # "cancelled"
       /\ "commit" \notin fail
       /\ CanSettleSession(s, p.to, p.receipt, p.outcome)

\* The row commitLifecycleSettlement leaves behind, failed or not.
Committed(c, s, p, fail) ==
    IF c \notin Isolated \/ s.state \notin LiveStates THEN s
    ELSE IF ~Commits(c, s, p, fail) \/ Prepared(s, p, fail).state = "cancelled"
         THEN Prepared(s, p, fail)
    ELSE IF p.to = "cancelled"
         THEN AcknowledgeCancellation(Prepared(s, p, fail), p.receipt, p.outcome)
         ELSE SettleSession(s, p.to, p.receipt, p.outcome)

\* Mutations: the count drops without a lease; the count is forgotten.
ReleaseLeaseAnyway(c) == leased' = leased \ {c} /\ active' = active - 1

ReleaseLeaseUncounted(c) == leased' = leased \ {c} /\ active' = active

ReleaseLease(c) ==
    /\ leased' = leased \ {c}
    /\ active' = IF c \in leased THEN active - 1 ELSE active

\* The queue without c: a child is queued once (NoChildForgotten), so the
\* filter in settleRecord drops at most one place.
Without(q, c) ==
    IF \E i \in DOMAIN q : q[i] = c
    THEN LET i == CHOOSE i \in DOMAIN q : q[i] = c
         IN  SubSeq(q, 1, i - 1) \o SubSeq(q, i + 1, Len(q))
    ELSE q

\* Mutation: nobody looks at the queue after a settlement.
NextLoopIdle == loop' = loop

\* An open pool drains its queue after every settlement.
NextLoop == loop' = IF closed THEN loop ELSE "drain"

\* Mutation: the slot is freed although the verdict is not durable.
BlockSettlementFreeingSlot(c, p) ==
    /\ st' = [st EXCEPT ![c] = "settlement_blocked"]
    /\ pend' = [pend EXCEPT ![c] = p]
    /\ attempts' = [attempts EXCEPT ![c] = @ + 1]
    /\ leased' = leased \ {c}
    /\ active' = IF c \in leased THEN active - 1 ELSE active
    /\ UNCHANGED <<queue, loop>>

\* The verdict is kept for a retry and nothing is given up.
BlockSettlement(c, p) ==
    /\ st' = [st EXCEPT ![c] = "settlement_blocked"]
    /\ pend' = [pend EXCEPT ![c] = p]
    /\ attempts' = [attempts EXCEPT ![c] = @ + 1]
    /\ UNCHANGED <<leased, active, queue, loop>>

\* settleRecord: once the verdict is durable the child gives up its lease and
\* its queue place.
SettleRecord(c, s, p, fail) ==
    /\ sess' = [sess EXCEPT ![c] = Committed(c, s, p, fail)]
    /\ IF Commits(c, s, p, fail)
       THEN /\ st' = [st EXCEPT ![c] = p.to]
            /\ pend' = [pend EXCEPT ![c] = NoPatch]
            /\ UNCHANGED attempts
            /\ ReleaseLease(c)
            /\ queue' = Without(queue, c)
            /\ NextLoop
       ELSE BlockSettlement(c, p)

\* startRecord: the child takes a lease, then its session is activated; if
\* the registry refuses, the child is settled as failed on the spot.
StartRecord(c, s, fail) ==
    LET refused == c \in Isolated /\ ("transition" \in fail \/ ~CanActivateLease(s))
        failure == Verdict("failed", NoReason, NoReceipt, "none")
        settled == Commits(c, s, failure, fail)
    IN  /\ UNCHANGED <<reason, result>>
        /\ IF ~refused
           THEN /\ st' = [st EXCEPT ![c] = "running"]
                /\ runner' = [runner EXCEPT ![c] = "scheduled"]
                /\ sess' = [sess EXCEPT ![c] = IF c \in Isolated THEN ActivateLease(s) ELSE s]
                /\ UNCHANGED <<pend, attempts>>
           ELSE /\ st' = [st EXCEPT ![c] = IF settled THEN "failed" ELSE "settlement_blocked"]
                /\ pend' = [pend EXCEPT ![c] = IF settled THEN NoPatch ELSE failure]
                /\ attempts' = [attempts EXCEPT ![c] = IF settled THEN @ ELSE @ + 1]
                /\ sess' = [sess EXCEPT ![c] = Committed(c, s, failure, fail)]
                /\ UNCHANGED runner
        /\ IF refused /\ settled
           THEN UNCHANGED <<leased, active>>
           ELSE leased' = leased \cup {c} /\ active' = active + 1

\* cancelRecord on a child that is neither settled nor cancelled yet.
CancelRecord(c, s, r, fail) ==
    LET asked == IF c \in Isolated /\ "transition" \notin fail THEN Requested(s, r) ELSE s
    IN  /\ reason' = [reason EXCEPT ![c] = r]
        /\ UNCHANGED <<runner, result>>
        /\ IF c \in leased
           THEN /\ st' = [st EXCEPT ![c] = "cancelling"]
                /\ sess' = [sess EXCEPT ![c] = asked]
                /\ UNCHANGED <<pend, attempts, leased, active, queue, loop>>
           ELSE SettleRecord(c, asked, Verdict("cancelled", r, NoReceipt, "none"), fail)

-----------------------------------------------------------------------------
\* Mutation: the registry is not asked whether the operation ran already.
AdmissibleAgain(c) ==
    /\ loop = "idle" /\ ~closed /\ ~Resident(c)
    /\ c \in Isolated => Recovery = {}
    /\ Len(queue) < MaxQueued \/ active < MaxActive

\* launch, up to the point where it has a fresh record: the pool is open,
\* recovery is clean for isolated children, and there is room.
Admissible(c) ==
    /\ loop = "idle"
    /\ ~closed
    /\ ~Resident(c)
    /\ c \notin opened
    /\ c \in Isolated => Recovery = {}
    /\ Len(queue) < MaxQueued \/ active < MaxActive

Opens(c) == opened' = IF c \in Isolated THEN opened \cup {c} ELSE opened

LaunchAccepted(c) ==
    /\ Admissible(c)
    /\ active < MaxActive
    /\ Opens(c)
    /\ \E fail \in SUBSET Calls :
          RegistryFaults(c, fail) /\ StartRecord(c, NewSession, fail)
    /\ loop' = IF st'[c] = "failed" THEN "drain" ELSE "idle"
    /\ UNCHANGED <<queue, closed, cancelAll, sweep, recovered, crashes, runs>>

LaunchQueued(c) ==
    /\ Admissible(c)
    /\ active >= MaxActive
    /\ Opens(c)
    /\ st' = [st EXCEPT ![c] = "queued"]
    /\ sess' = [sess EXCEPT ![c] = NewSession]
    /\ queue' = Append(queue, c)
    /\ UNCHANGED <<reason, pend, attempts, runner, result, leased, active, control, history>>

\* The caller's signal was aborted already: the record is cancelled before
\* it is queued or started.
LaunchAborted(c, r) ==
    /\ Admissible(c)
    /\ Opens(c)
    /\ \E fail \in SUBSET Calls :
          RegistryFaults(c, fail) /\ CancelRecord(c, NewSession, r, fail)
    /\ UNCHANGED <<closed, cancelAll, sweep, recovered, crashes, runs>>

\* A repeated spawn operation whose worker settled before a restart is
\* answered from the registry and never run again.
LaunchReplayed(c) ==
    /\ loop = "idle"
    /\ ~closed
    /\ ~Resident(c)
    /\ c \in opened
    /\ Recovery = {}
    /\ sess[c].state \in TerminalStates
    /\ st' = [st EXCEPT ![c] = sess[c].state]
    /\ reason' = [reason EXCEPT ![c] = sess[c].reason]
    /\ UNCHANGED <<pend, attempts, runner, result, capacity, control, durable, history>>

\* One turn of drain's while loop.
DrainStep ==
    /\ loop = "drain"
    /\ active < MaxActive
    /\ queue # << >>
    /\ queue' = Tail(queue)
    /\ LET c == Head(queue) IN
       IF st[c] = "queued"
       THEN \E fail \in SUBSET Calls :
               RegistryFaults(c, fail) /\ StartRecord(c, sess[c], fail)
       ELSE UNCHANGED <<records, leased, active, sess, faults>>
    /\ UNCHANGED <<control, opened, crashes, runs>>

DrainDone ==
    /\ loop = "drain"
    /\ active >= MaxActive \/ queue = << >>
    /\ loop' = "idle"
    /\ UNCHANGED <<records, capacity, closed, cancelAll, sweep, recovered, durable, history>>

-----------------------------------------------------------------------------
\* The microtask startRecord schedules: a child cancelled in the meantime
\* never reaches its runner and gets a pre-start receipt.
RunnerBegin(c) ==
    /\ loop = "idle"
    /\ runner[c] = "scheduled"
    /\ IF CancelRequested(c)
       THEN /\ runner' = [runner EXCEPT ![c] = "returned"]
            /\ result' = [result EXCEPT ![c] =
                 [status  |-> "cancelled",
                  receipt |-> [reason |-> reason[c], outcome |-> "none"],
                  outcome |-> "none"]]
            /\ UNCHANGED runs
       ELSE /\ runner' = [runner EXCEPT ![c] = "running"]
            /\ runs' = [runs EXCEPT ![c] = @ + 1]
            /\ UNCHANGED result
    /\ UNCHANGED <<st, reason, pend, attempts, capacity, control, durable, faults, crashes>>

\* What a runner may return.  A workspace worker checks its abort signal
\* after every await: once aborted it reports cancellation, with a receipt
\* if the backend acknowledged; otherwise it never holds a usable receipt.
Returns(c) ==
    IF c \notin Isolated
    THEN [status : TerminalStates, receipt : {NoReceipt}, outcome : {"none"}]
    ELSE IF CancelRequested(c)
    THEN {res \in [status  : {"cancelled", "unresolved"},
                   receipt : [reason : {reason[c]}, outcome : Outcomes] \cup {NoReceipt},
                   outcome : Outcomes] :
             res.receipt # NoReceipt =>
                res.status = "cancelled" /\ res.receipt.outcome = res.outcome}
    ELSE {res \in [status  : TerminalStates \cup {"unresolved"},
                   receipt : {NoReceipt},
                   outcome : Outcomes] :
             res.outcome = "partial" => res.status \in {"failed", "unresolved"}}

RunnerReturn(c) ==
    /\ loop = "idle"
    /\ runner[c] = "running"
    /\ runner' = [runner EXCEPT ![c] = "returned"]
    /\ \E res \in Returns(c) : result' = [result EXCEPT ![c] = res]
    /\ UNCHANGED <<st, reason, pend, attempts, capacity, control, durable, history>>

\* workspaceCancellationQuiesced: the evidence is admitted for exactly this
\* child and this cancellation.
Quiesced(c) ==
    \/ c \notin Isolated
    \/ /\ result[c].receipt.reason = reason[c]
       /\ result[c].receipt.outcome = result[c].outcome

\* What the handlers attached to the runner's promise share.
Consume(c) ==
    /\ loop = "idle"
    /\ runner[c] = "returned"
    /\ ~Settled(c)
    /\ runner' = [runner EXCEPT ![c] = "idle"]
    /\ result' = [result EXCEPT ![c] = NoResult]
    /\ UNCHANGED <<closed, cancelAll, sweep, recovered, opened, crashes, runs>>

SettleResult(c) ==
    /\ ~CancelRequested(c)
    /\ result[c].status # "unresolved"
    /\ Consume(c)
    /\ LET r == IF result[c].status = "cancelled" THEN BackendReason ELSE NoReason
           p == Verdict(result[c].status, r, NoReceipt, result[c].outcome)
       IN  \E fail \in SUBSET Calls : RegistryFaults(c, fail) /\ SettleRecord(c, sess[c], p, fail)
    /\ UNCHANGED reason

SettleCancelled(c) ==
    /\ CancelRequested(c)
    /\ Consume(c)
    /\ Quiesced(c)
    /\ LET to == IF result[c].outcome = "partial" THEN "failed" ELSE "cancelled"
           p  == Verdict(to, reason[c], result[c].receipt, result[c].outcome)
       IN  \E fail \in SUBSET Calls : RegistryFaults(c, fail) /\ SettleRecord(c, sess[c], p, fail)
    /\ UNCHANGED reason

\* The mutation outcome is recorded if there is one and the registry lets it.
Recorded(c, s, fail) ==
    IF "commit" \notin fail /\ CanRecordMutationOutcome(s, result[c].outcome)
    THEN RecordMutationOutcome(s, result[c].outcome)
    ELSE s

\* Mutation: only a mutation outcome makes a missing receipt worth recording.
MarkUnacknowledgedMutation(c) ==
    /\ CancelRequested(c)
    /\ Consume(c)
    /\ ~Quiesced(c)
    /\ result[c].outcome # "none"
    /\ st' = [st EXCEPT ![c] = "cancellation_unacknowledged"]
    /\ \E fail \in SUBSET Calls :
          /\ RegistryFaults(c, fail)
          /\ sess' = [sess EXCEPT ![c] = Recorded(c, sess[c], fail)]
    /\ UNCHANGED <<reason, pend, attempts, capacity, loop>>

MarkCancellationUnacknowledged(c) ==
    /\ CancelRequested(c)
    /\ Consume(c)
    /\ ~Quiesced(c)
    /\ st' = [st EXCEPT ![c] = "cancellation_unacknowledged"]
    /\ \E fail \in SUBSET Calls :
          /\ RegistryFaults(c, fail)
          /\ sess' = [sess EXCEPT ![c] = Recorded(c, sess[c], fail)]
    /\ UNCHANGED <<reason, pend, attempts, capacity, loop>>

\* Nobody cancelled, but the backend lost track of the request: the pool
\* cancels on its own account and keeps the lease.
MarkBackendQuiescenceUnacknowledged(c) ==
    /\ c \in Isolated
    /\ ~CancelRequested(c)
    /\ result[c].status = "unresolved"
    /\ Consume(c)
    /\ st' = [st EXCEPT ![c] = "cancellation_unacknowledged"]
    /\ reason' = [reason EXCEPT ![c] = BackendReason]
    /\ \E fail \in SUBSET Calls :
          LET asked == IF "transition" \in fail THEN sess[c] ELSE Requested(sess[c], BackendReason)
          IN  /\ RegistryFaults(c, fail)
              /\ sess' = [sess EXCEPT ![c] = Recorded(c, asked, fail)]
    /\ UNCHANGED <<pend, attempts, capacity, loop>>

\* interrupt, or the abort of the signal the child was launched with.
Interrupt(c, r) ==
    /\ loop = "idle"
    /\ Resident(c)
    /\ ~Settled(c)
    /\ ~CancelRequested(c)
    /\ \E fail \in SUBSET Calls :
          RegistryFaults(c, fail) /\ CancelRecord(c, sess[c], r, fail)
    /\ UNCHANGED <<closed, cancelAll, sweep, recovered, opened, crashes, runs>>

-----------------------------------------------------------------------------
StopAccepting ==
    /\ loop = "idle"
    /\ ~closed
    /\ closed' = TRUE
    /\ UNCHANGED <<records, capacity, cancelAll, loop, sweep, recovered, durable, history>>

\* requestCancellationForAll closes the pool, retries what is pending, then
\* cancels every child that has neither settled nor a pending verdict.
RequestCancellationForAll ==
    /\ loop = "idle"
    /\ ~cancelAll
    /\ closed' = TRUE
    /\ loop' = "close"
    /\ UNCHANGED <<records, capacity, cancelAll, sweep, recovered, durable, history>>

\* A tick of drainAndClose, or the shutdown coordinator's retry.
RetryPendingSettlements ==
    /\ loop = "idle"
    /\ closed
    /\ \E c \in Children : Retryable(c)
    /\ loop' = "retry"
    /\ UNCHANGED <<records, capacity, closed, cancelAll, sweep, recovered, durable, history>>

RetryStep(c) ==
    /\ loop \in {"retry", "close"}
    /\ Retryable(c)
    /\ \E fail \in SUBSET Calls :
          RegistryFaults(c, fail) /\ SettleRecord(c, sess[c], pend[c], fail)
    /\ UNCHANGED <<reason, runner, result, closed, cancelAll, sweep, recovered, opened, crashes, runs>>

\* Mutation: only the children with a slot are told to stop.
RetryDoneSweepingRunning ==
    /\ loop \in {"retry", "close"}
    /\ ~\E c \in Children : Retryable(c)
    /\ IF loop = "retry"
       THEN loop' = "idle" /\ UNCHANGED <<cancelAll, sweep, queue>>
       ELSE /\ loop' = "sweep"
            /\ cancelAll' = TRUE
            /\ sweep' = {c \in leased : ~Pending(c)}
            /\ queue' = << >>
    /\ UNCHANGED <<records, leased, active, closed, recovered, durable, history>>

RetryDone ==
    /\ loop \in {"retry", "close"}
    /\ ~\E c \in Children : Retryable(c)
    /\ IF loop = "retry"
       THEN loop' = "idle" /\ UNCHANGED <<cancelAll, sweep, queue>>
       ELSE /\ loop' = "sweep"
            /\ cancelAll' = TRUE
            /\ sweep' = {c \in Children : Resident(c) /\ ~Settled(c) /\ ~Pending(c)}
            /\ queue' = << >>
    /\ UNCHANGED <<records, leased, active, closed, recovered, durable, history>>

SweepStep(c, r) ==
    /\ loop = "sweep"
    /\ c \in sweep
    /\ sweep' = sweep \ {c}
    /\ IF CancelRequested(c)
       THEN UNCHANGED <<records, capacity, loop, sess, faults>>
       ELSE \E fail \in SUBSET Calls :
               RegistryFaults(c, fail) /\ CancelRecord(c, sess[c], r, fail)
    /\ UNCHANGED <<closed, cancelAll, recovered, opened, crashes, runs>>

SweepDone ==
    /\ loop = "sweep"
    /\ sweep = {}
    /\ loop' = "idle"
    /\ UNCHANGED <<records, capacity, closed, cancelAll, sweep, recovered, durable, history>>

-----------------------------------------------------------------------------
\* The process ends, with or without shutdown, and a new pool is built over
\* the registry: only sessions survive, the unsettled ones as candidates.
Restart ==
    /\ crashes < MaxCrashes
    /\ crashes' = crashes + 1
    /\ st' = [c \in Children |-> "none"]
    /\ reason' = [c \in Children |-> NoReason]
    /\ pend' = [c \in Children |-> NoPatch]
    /\ attempts' = [c \in Children |-> 0]
    /\ runner' = [c \in Children |-> "idle"]
    /\ result' = [c \in Children |-> NoResult]
    /\ leased' = {}
    /\ active' = 0
    /\ queue' = << >>
    /\ closed' = FALSE
    /\ cancelAll' = FALSE
    /\ loop' = "idle"
    /\ sweep' = {}
    /\ recovered' = {c \in opened : NeedsReconciliation(sess[c])}
    /\ UNCHANGED <<durable, faults, runs>>

\* The external verifier's receipt is accepted for a recovered session.
ReconcileRecoveredSession(c) ==
    /\ loop = "idle"
    /\ c \in recovered
    /\ CanReconcile(sess[c], ReconciledState(sess[c]))
    /\ sess' = [sess EXCEPT ![c] = ReconcileInterruptedSession(sess[c])]
    /\ recovered' = recovered \ {c}
    /\ UNCHANGED <<records, capacity, closed, cancelAll, loop, sweep, opened, history>>

-----------------------------------------------------------------------------
LoopStep ==
    \/ DrainStep
    \/ DrainDone
    \/ \E c \in Children : RetryStep(c)
    \/ RetryDone
    \/ \E c \in Children, r \in TypedReasons : SweepStep(c, r)
    \/ SweepDone

RunnerSettled(c) ==
    \/ SettleResult(c)
    \/ SettleCancelled(c)
    \/ MarkCancellationUnacknowledged(c)
    \/ MarkBackendQuiescenceUnacknowledged(c)

Next ==
    \/ LoopStep
    \/ \E c \in Children :
          \/ LaunchAccepted(c)
          \/ LaunchQueued(c)
          \/ \E r \in TypedReasons : LaunchAborted(c, r)
          \/ LaunchReplayed(c)
          \/ RunnerBegin(c)
          \/ RunnerReturn(c)
          \/ RunnerSettled(c)
          \/ \E r \in Reasons : Interrupt(c, r)
          \/ ReconcileRecoveredSession(c)
    \/ StopAccepting
    \/ RequestCancellationForAll
    \/ RetryPendingSettlements
    \/ Restart

Spec == Init /\ [][Next]_vars

\* The event loop runs every loop, microtask and promise handler to the end.
\* That a runner returns at all is assumed of it: its calls to the backend
\* have a time limit.  Nothing obliges anyone to cancel, retry or launch.
Fairness ==
    /\ WF_vars(LoopStep)
    /\ \A c \in Children : WF_vars(RunnerBegin(c) \/ RunnerReturn(c) \/ RunnerSettled(c))

FairSpec == Spec /\ Fairness

-----------------------------------------------------------------------------
(***************************************************************************)
(* Properties                                                              *)
(***************************************************************************)
\* activeCount is exactly the number of held leases and never exceeds the
\* configured maximum, whatever order cancellations, failed activations and
\* retries release them in (startRecord, settleRecord, drain).
LeaseAccounting ==
    /\ active = Cardinality(leased)
    /\ active <= MaxActive

\* An open pool never leaves a child waiting while a slot is free: every path
\* that frees a slot drains the queue (settleRecord, drain).
NoIdleCapacity ==
    loop = "idle" /\ ~closed /\ queue # << >> => active = MaxActive

\* A queued child is in the queue, once, and the queue keeps its bound: the
\* only way out is to be started, cancelled or swept (launch, settleRecord,
\* drain, requestCancellationForAll).
NoChildForgotten ==
    /\ loop = "idle" => \A c \in Children : st[c] = "queued" => \E i \in DOMAIN queue : queue[i] = c
    /\ \A i, j \in DOMAIN queue : queue[i] = queue[j] => i = j
    /\ Len(queue) <= MaxQueued

\* What the pool reports as settled is what the registry holds, lease released
\* (commitLifecycleSettlement, materializeLifecycleReplayRecord).
SettledIsDurable ==
    \A c \in Isolated : Settled(c) =>
        sess[c].state = st[c] /\ sess[c].lease = "released"

\* A worker the registry still counts as holding its worktree either occupies
\* a pool slot or is a recovery candidate: a failed registry call, a missing
\* acknowledgement or a restart never loses one (startRecord, settleRecord,
\* cancelRecord, the constructor).
ActiveLeaseIsOwned ==
    \A c \in opened : sess[c].lease = "active" => c \in leased \cup recovered

\* drainAndClose may answer "drained", after which the backends are disposed,
\* only when no worker holds its worktree.
DrainedMeansQuiet ==
    loop = "idle" /\ cancelAll /\ active = 0 /\ Recovery = {} =>
        \A c \in opened : sess[c].lease # "active"

\* Nobody's worker is run twice, across restarts and repeated spawn
\* operations; and while a recovered session is unreconciled no isolated
\* worker exists at all (launch, lifecycleReplayLaunchResult).
RunsOnce ==
    /\ \A c \in Isolated : runs[c] <= 1
    /\ Recovery # {} => \A c \in Isolated : ~Resident(c)

\* A child that never got a slot settles the moment it is cancelled, unless
\* the registry fails (cancelRecord).
QueuedCancelSettles ==
    \A c \in Children :
        Resident(c) /\ CancelRequested(c) /\ c \notin leased /\ faults = 0 => Settled(c)

\* Within one process lifetime a slot is given back only after the registry
\* holds the verdict and the worker's quiescence (the stop condition of the
\* lifecycle slice: no release while cancellation is unacknowledged).
ReleaseAfterCommit ==
    [][\A c \in leased \ leased' :
          crashes' = crashes =>
              /\ Settled(c)'
              /\ c \in Isolated => sess'[c].process = "quiescent"]_vars

\* Nobody overtakes the queue: a launch is started at once only when no child
\* is waiting (launch).
NoOvertaking ==
    [][\A c \in Children :
          st[c] = "none" /\ st'[c] = "running" => queue = << >>]_vars

\* A slot nothing will give back any more without outside help: its runner is
\* gone, its cancellation unacknowledged or its verdict not durable.
Parked(c) == c \in leased /\ runner[c] = "idle"

\* A child with a slot does not hang in between: it settles, or it ends up
\* parked in a state list_agents shows.
RunnersConclude ==
    \A c \in Children : c \in leased ~> (c \notin leased \/ Parked(c))

\* A waiting child gets its turn unless parked workers hold every slot or the
\* pool is closed.
QueueAdvances ==
    \A c \in Children :
        st[c] = "queued" ~>
            \/ st[c] # "queued"
            \/ closed
            \/ Cardinality({d \in leased : Parked(d)}) = MaxActive

\* Once everything has been told to stop, every child ends up settled, parked
\* or with a verdict waiting for the registry; none is left queued or running.
ShutdownConcludes ==
    cancelAll ~>
        \A c \in Children : Resident(c) => Settled(c) \/ Parked(c) \/ Pending(c)

\* The safety half of ShutdownConcludes: once the sweep is over nobody is left
\* who was not told to stop, whatever was launched, cancelled, settled or
\* retried before and during it.  Who has not settled and has no verdict
\* waiting for the registry keeps a slot, with the cancellation on record
\* (requestCancellationForAll, cancelRecord, settleRecord).
StopReachesEveryone ==
    cancelAll /\ loop # "sweep" =>
        \A c \in Children : Resident(c) =>
            Settled(c) \/ Pending(c) \/ (c \in leased /\ CancelRequested(c))

-----------------------------------------------------------------------------
(***************************************************************************)
(* The custody contract.  The row says whether the worktree is held; from  *)
(* the moment a runner is scheduled until its result has been handled it   *)
(* may work there; a settled record tells its verdict.                     *)
(***************************************************************************)
WorktreeOf(c) ==
    CASE c \notin opened -> "free"
      [] c \in opened /\ NeedsReconciliation(sess[c]) -> "held"
      [] OTHER -> sess[c].state

Contract == INSTANCE WorkerCustody WITH
    Worker <- Isolated,
    Users <- Isolated,
    custody <- [c \in Isolated |-> WorktreeOf(c)],
    users <- [c \in Isolated |-> IF runner[c] = "idle" THEN {} ELSE {c}],
    told <- [c \in Isolated |-> IF Settled(c) THEN st[c] ELSE "nothing"]

\* Pool and rows together keep the custody contract: no verdict is durable
\* while a runner may still work in the worktree, none is reported before it
\* is durable, and none changes, whatever fails or is restarted.
KeepsCustody == Contract!Spec
=============================================================================
