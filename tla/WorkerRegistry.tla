--------------------------- MODULE WorkerRegistry ---------------------------
(***************************************************************************)
(* The durable workspace-worker lifecycle registry: one row per worker     *)
(* session, an append-only journal keyed by operation id, and the cleanup  *)
(* plan a row was made eligible under.  Every operation is one immediate   *)
(* SQLite transaction, so it is one step; several actors call it with      *)
(* whatever they last read: the pool that runs the worker, the verifier    *)
(* that reconciles it after a restart, and the cleaner.                    *)
(*                                                                         *)
(* An operation whose id is already journalled either replays (same input) *)
(* or conflicts (different input); both leave the tables alone, so neither *)
(* is a step here.  The ids are the ones the callers in src/ derive: one   *)
(* per session and kind, plus the outcome, plan or receipt they carry.     *)
(***************************************************************************)
EXTENDS Naturals, WorkerSession

CONSTANTS Sessions,
          Keys,         \* worker keys (each with its branch name)
          Heads,        \* base commits a worktree can be bound at
          NoKey, NoHead,
          MaxRevision   \* bound on the transitions of one session

ASSUME RegistryAssumption ==
    /\ NoKey \notin Keys
    /\ NoHead \notin Heads
    /\ MaxRevision \in Nat

VARIABLES session,      \* the row; meaningful once revision is positive
          revision,     \* 0: no row yet
          custody,      \* who holds the worktree, and what it is bound to
          reconciled,   \* sessions with a reconciliation receipt
          journal,      \* operation ids applied to each session
          plans,        \* cleanup plans built so far, each from some revision
          cleanupPlan   \* the plan recorded by markCleanupEligible

vars == <<session, revision, custody, reconciled, journal, plans, cleanupPlan>>

Custody == [phase : {"unbound", "provisioning", "bound"},
            key   : Keys \cup {NoKey},
            head  : Heads \cup {NoHead}]

Unbound == [phase |-> "unbound", key |-> NoKey, head |-> NoHead]

Plan == [revision : Nat, custody : Custody, outcome : Outcomes]

NoPlan == [revision |-> 0, custody |-> Unbound, outcome |-> "none"]

Operations ==
    ({"open", "provision", "bind", "activate", "request-cancel", "ack-cancel",
      "settle", "outcome", "reconcile", "eligible", "cleaned"}
        \X (SessionStates \cup Outcomes \cup {""}) \X (Plan \cup {NoPlan}))

TypeOK ==
    /\ session \in [Sessions -> Session]
    /\ revision \in [Sessions -> Nat]
    /\ custody \in [Sessions -> Custody]
    /\ reconciled \subseteq Sessions
    /\ journal \in [Sessions -> SUBSET Operations]
    /\ plans \in [Sessions -> SUBSET Plan]
    /\ cleanupPlan \in [Sessions -> Plan \cup {NoPlan}]

Init ==
    /\ session = [s \in Sessions |-> NewSession]
    /\ revision = [s \in Sessions |-> 0]
    /\ custody = [s \in Sessions |-> Unbound]
    /\ reconciled = {}
    /\ journal = [s \in Sessions |-> {}]
    /\ plans = [s \in Sessions |-> {}]
    /\ cleanupPlan = [s \in Sessions |-> NoPlan]

Op(kind, detail) == <<kind, detail, NoPlan>>

\* mutateSession: a fresh operation id, one more revision, one journal entry.
Journalled(s, op) ==
    /\ op \notin journal[s]
    /\ revision[s] < MaxRevision
    /\ revision' = [revision EXCEPT ![s] = @ + 1]
    /\ journal' = [journal EXCEPT ![s] = @ \cup {op}]

Mutate(s, op, row) ==
    /\ revision[s] > 0
    /\ Journalled(s, op)
    /\ session' = [session EXCEPT ![s] = row]

-----------------------------------------------------------------------------
OpenSession(s) ==
    /\ revision[s] = 0
    /\ Journalled(s, Op("open", ""))
    /\ session' = [session EXCEPT ![s] = NewSession]
    /\ UNCHANGED <<custody, reconciled, plans, cleanupPlan>>

\* Custody of the worktree is recorded before `git worktree add`.
BeginProvisioning(s, key) ==
    /\ custody[s].phase # "bound"
    /\ custody[s].phase = "provisioning" => custody[s].key = key
    /\ Mutate(s, Op("provision", ""), session[s])
    /\ custody' = [custody EXCEPT ![s] = [phase |-> "provisioning", key |-> key, head |-> NoHead]]
    /\ UNCHANGED <<reconciled, plans, cleanupPlan>>

BindWorkspace(s, key, head) ==
    /\ custody[s].phase \in {"provisioning", "bound"}
    /\ custody[s].key = key
    /\ custody[s].phase = "bound" => custody[s].head = head
    /\ Mutate(s, Op("bind", ""), session[s])
    /\ custody' = [custody EXCEPT ![s] = [phase |-> "bound", key |-> key, head |-> head]]
    /\ UNCHANGED <<reconciled, plans, cleanupPlan>>

Activate(s) ==
    /\ CanActivateLease(session[s])
    /\ Mutate(s, Op("activate", ""), ActivateLease(session[s]))
    /\ UNCHANGED <<custody, reconciled, plans, cleanupPlan>>

Cancel(s, r) ==
    /\ CanRequestCancellation(session[s])
    /\ Mutate(s, Op("request-cancel", ""), RequestCancellation(session[s], r))
    /\ UNCHANGED <<custody, reconciled, plans, cleanupPlan>>

RecordOutcome(s, o) ==
    /\ CanRecordMutationOutcome(session[s], o)
    /\ Mutate(s, Op("outcome", o), RecordMutationOutcome(session[s], o))
    /\ UNCHANGED <<custody, reconciled, plans, cleanupPlan>>

Acknowledge(s, receipt, o) ==
    /\ CanAcknowledgeCancellation(session[s], receipt, o)
    /\ Mutate(s, Op("ack-cancel", ""), AcknowledgeCancellation(session[s], receipt, o))
    /\ UNCHANGED <<custody, reconciled, plans, cleanupPlan>>

Settle(s, to, receipt, o) ==
    /\ CanSettleSession(session[s], to, receipt, o)
    /\ Mutate(s, Op("settle", to), SettleSession(session[s], to, receipt, o))
    /\ UNCHANGED <<custody, reconciled, plans, cleanupPlan>>

\* The verifier's receipt names the revision it examined; the outcome it
\* claims has to be the one the row dictates.
Reconcile(s, expectedRevision, outcome) ==
    /\ CanReconcile(session[s], outcome)
    /\ revision[s] = expectedRevision
    /\ Mutate(s, Op("reconcile", ""), ReconcileInterruptedSession(session[s]))
    /\ reconciled' = reconciled \cup {s}
    /\ UNCHANGED <<custody, plans, cleanupPlan>>

\* Mutation: a plan over a possibly partial mutation.
BuildCleanupPlanAnyOutcome(s) ==
    /\ revision[s] > 0
    /\ session[s].state \in TerminalStates \cup {"cleanup_eligible"}
    /\ session[s].lease = "released"
    /\ session[s].process = "quiescent"
    /\ custody[s].phase = "bound"
    /\ plans' = [plans EXCEPT ![s] = @ \cup
                   {[revision |-> revision[s], custody |-> custody[s],
                     outcome |-> session[s].outcome]}]
    /\ UNCHANGED <<session, revision, custody, reconciled, journal, cleanupPlan>>

\* Mutation: the planner takes a worker that was asked to stop for a stopped one.
BuildCleanupPlanUnacknowledged(s) ==
    /\ revision[s] > 0
    /\ session[s].state \in TerminalStates \cup {"cleanup_eligible", "cancelling"}
    /\ custody[s].phase = "bound"
    /\ session[s].outcome # "partial"
    /\ plans' = [plans EXCEPT ![s] = @ \cup
                   {[revision |-> revision[s], custody |-> custody[s],
                     outcome |-> session[s].outcome]}]
    /\ UNCHANGED <<session, revision, custody, reconciled, journal, cleanupPlan>>

\* The cleaner reads the row and observes the worktree; only a plan without
\* blockers is kept.  The observation itself is the environment's.
BuildCleanupPlan(s) ==
    /\ revision[s] > 0
    /\ session[s].state \in TerminalStates \cup {"cleanup_eligible"}
    /\ session[s].lease = "released"
    /\ session[s].process = "quiescent"
    /\ custody[s].phase = "bound"
    /\ session[s].outcome # "partial"
    /\ plans' = [plans EXCEPT ![s] = @ \cup
                   {[revision |-> revision[s], custody |-> custody[s],
                     outcome |-> session[s].outcome]}]
    /\ UNCHANGED <<session, revision, custody, reconciled, journal, cleanupPlan>>

MarkCleanupEligible(s, plan) ==
    /\ plan.revision = revision[s]
    /\ plan.custody = custody[s]
    /\ plan.outcome = session[s].outcome
    /\ MayBecome(session[s], "cleanup_eligible")
    /\ Mutate(s, <<"eligible", "", plan>>, [session[s] EXCEPT !.state = "cleanup_eligible"])
    /\ cleanupPlan' = [cleanupPlan EXCEPT ![s] = plan]
    /\ UNCHANGED <<custody, reconciled, plans>>

\* The removal receipt names a plan and the revision its author last read.
MarkCleaned(s, plan, receiptRevision) ==
    /\ cleanupPlan[s] = plan
    /\ receiptRevision = revision[s]
    /\ plan.custody = custody[s]
    /\ MayBecome(session[s], "cleaned")
    /\ Mutate(s, <<"cleaned", "", plan>>, [session[s] EXCEPT !.state = "cleaned"])
    /\ UNCHANGED <<custody, reconciled, plans, cleanupPlan>>

Next ==
    \E s \in Sessions :
        \/ OpenSession(s)
        \/ \E k \in Keys : BeginProvisioning(s, k)
        \/ \E k \in Keys, h \in Heads : BindWorkspace(s, k, h)
        \/ Activate(s)
        \/ \E r \in Reasons : Cancel(s, r)
        \/ \E o \in Outcomes : RecordOutcome(s, o)
        \/ \E receipt \in Receipts, o \in Outcomes : Acknowledge(s, receipt, o)
        \/ \E to \in TerminalStates, receipt \in Receipts \cup {NoReceipt}, o \in Outcomes :
              Settle(s, to, receipt, o)
        \/ \E n \in 1..MaxRevision, to \in TerminalStates : Reconcile(s, n, to)
        \/ BuildCleanupPlan(s)
        \/ \E plan \in plans[s] : MarkCleanupEligible(s, plan)
        \/ \E plan \in plans[s], n \in 1..MaxRevision : MarkCleaned(s, plan, n)

Spec == Init /\ [][Next]_vars

-----------------------------------------------------------------------------
(***************************************************************************)
(* Properties                                                              *)
(***************************************************************************)
Opened(s) == revision[s] > 0

Ran(s) == Op("activate", "") \in journal[s]

\* A row's lease and process columns always agree with its state, so that the
\* restart scan, which selects on state or lease, finds every worker that may
\* still hold its worktree and none that does not (recoverySnapshot).
LeaseFollowsState ==
    \A s \in Sessions : Opened(s) =>
        /\ session[s].lease = "active" <=> session[s].state \in {"active", "cancelling"}
        /\ session[s].lease = "reserved" <=> session[s].state = "registered"
        /\ session[s].process = "quiescent" <=> session[s].lease = "released"
        /\ NeedsReconciliation(session[s]) <=> session[s].lease # "released"

\* A cancellation request that reached the registry is never overtaken: no
\* later activation, and no settlement that reports the work as completed
\* (requestCancellation against activateLease and settleSession).
CancellationWins ==
    \A s \in Sessions :
        Op("request-cancel", "") \in journal[s] =>
            session[s].state \notin {"registered", "active", "completed"}

\* A worker that ran and was asked to stop gives up its lease only on a
\* receipt that names the recorded reason and the recorded mutation outcome,
\* or on a verifier's reconciliation (acknowledgeCancellation, settleSession,
\* reconcileInterruptedSession).
ReleaseIsEvidenced ==
    \A s \in Sessions :
        (/\ Ran(s)
         /\ session[s].requested
         /\ session[s].lease = "released"
         /\ s \notin reconciled)
        => /\ session[s].receipt # NoReceipt
           /\ session[s].receipt.reason = session[s].reason
           /\ session[s].receipt.outcome = session[s].outcome

\* A worktree is declared removable, or removed, only under a plan that was
\* built for the binding the row still has, over the outcome it still has,
\* and never when a mutation may be partial (markCleanupEligible, markCleaned).
CleanupMatchesPlan ==
    \A s \in Sessions : session[s].state \in CleanupStates =>
        /\ custody[s].phase = "bound"
        /\ cleanupPlan[s].custody = custody[s]
        /\ cleanupPlan[s].outcome = session[s].outcome
        /\ session[s].outcome # "partial"
        /\ session[s].lease = "released"

KeepsEvidence(s) ==
    /\ session[s].outcome # "none" => session'[s].outcome = session[s].outcome
    /\ custody[s].phase # "unbound" => custody'[s].key = custody[s].key
    /\ custody[s].phase = "bound" => custody'[s] = custody[s]

\* What a crashed or late caller writes never erases evidence: a recorded
\* mutation outcome stays, a claimed worktree keeps its key and a bound one
\* its binding (mergeMutationOutcome, beginProvisioning, bindWorkspace).
EvidenceKept == [][\A s \in Sessions : KeepsEvidence(s)]_vars

-----------------------------------------------------------------------------
(***************************************************************************)
(* The custody contract.  A row that recoverySnapshot lists holds its      *)
(* worktree; a process that is not quiescent works there; whoever built a  *)
(* cleanup plan was told that the worktree is given up.                    *)
(***************************************************************************)
WorktreeOf(s) ==
    CASE revision[s] = 0 -> "free"
      [] Opened(s) /\ NeedsReconciliation(session[s]) -> "held"
      [] Opened(s) /\ session[s].state = "cleaned" -> "removed"
      [] OTHER -> "released"

Contract == INSTANCE WorkerCustody WITH
    Worker <- Sessions,
    Users <- Sessions,
    custody <- [s \in Sessions |-> WorktreeOf(s)],
    users <- [s \in Sessions |->
                IF session[s].process \in {"running", "cancelling"} THEN {s} ELSE {}],
    told <- [s \in Sessions |-> IF plans[s] = {} THEN "nothing" ELSE "released"]

\* Whatever its callers do in whatever order, the registry's rows keep the
\* custody contract: a released worktree is never held again and never worked
\* in, and only one that a plan was built for is removed.
KeepsCustody == Contract!Spec
=============================================================================
