-------------------------- MODULE SemanticCustody --------------------------
(***************************************************************************)
(* The custody core of the direct semantic daemon: admission of jobs under *)
(* idempotency keys, their event ledgers, cancellation, generation-fenced  *)
(* leases, the hand-off to a later tranche, the open-job counter, and the  *)
(* recovery that must reconcile all of them before a generation serves.    *)
(*                                                                         *)
(* Every call is one synchronous SQLite transaction in the one process     *)
(* that holds the writer lock, so it is one step; what interleaves is the  *)
(* order of the calls, the clock (leases expire), and a crash between any  *)
(* two of them.  A replayed, conflicting or refused call changes nothing   *)
(* and is no step.                                                         *)
(***************************************************************************)
EXTENDS Integers, FiniteSets, Sequences

CONSTANTS Keys,             \* idempotency keys of the submitting principals
          Jobs,             \* job references
          NoJob, NoHandoff,
          JobLimits,        \* open-job limits a start may be configured with
          MaxGenerations,   \* bound on the starts of the daemon
          MaxFence          \* bound on the fencing tokens of one job

ASSUME CustodyAssumption ==
    /\ NoJob \notin Jobs
    /\ JobLimits \subseteq Nat
    /\ MaxGenerations \in Nat
    /\ MaxFence \in Nat
    /\ IsFiniteSet(Jobs)
    /\ NoHandoff \notin [generation : Nat, token : Nat]

VARIABLES daemon,       \* "down", "opened", "ready", "blocked"
          generation,   \* the daemon generation last opened
          jobLimit,     \* this generation's open-job limit
          binding,      \* key -> the job it admitted
          state,        \* jobs.state
          events,       \* the job's ledger, by event type
          boundary,     \* dispatch_boundaries.state
          handed,       \* generation and token of the committed hand-off
          leases,       \* the job's hand-off leases, oldest first
          openJobs      \* capacity_counters.open_jobs

custodyVars == <<daemon, generation, jobLimit, binding, state, events,
                 boundary, handed, leases, openJobs>>

JobStates == {"UNSEEN", "ADMITTED", "CANCELLED_BEFORE_DISPATCH",
              "HANDOFF_COMMITTED"}

EventTypes == {"job_admitted", "job_cancelled_before_dispatch",
               "later_tranche_handoff_committed",
               "delivery_offer_acknowledged"}

Boundaries == {"none", "NOT_DISPATCHED", "HANDOFF_COMMITTED", "AMBIGUOUS"}

\* A lease row.  lease_revision and fencing_token are always advanced
\* together, so one number stands for both; the states an inactive lease can
\* be in (released, abandoned, expired) are told apart by nobody.
Lease == [generation : Nat, token : Nat, active : BOOLEAN, late : BOOLEAN]

CustodyTypeOK ==
    /\ daemon \in {"down", "opened", "ready", "blocked"}
    /\ generation \in Nat
    /\ jobLimit \in JobLimits \cup {0}
    /\ binding \in [Keys -> Jobs \cup {NoJob}]
    /\ state \in [Jobs -> JobStates]
    /\ events \in [Jobs -> Seq(EventTypes)]
    /\ boundary \in [Jobs -> Boundaries]
    /\ handed \in [Jobs -> [generation : Nat, token : Nat] \cup {NoHandoff}]
    /\ leases \in [Jobs -> Seq(Lease)]
    /\ openJobs \in Nat

CustodyInit ==
    /\ daemon = "down"
    /\ generation = 0
    /\ jobLimit = 0
    /\ binding = [k \in Keys |-> NoJob]
    /\ state = [j \in Jobs |-> "UNSEEN"]
    /\ events = [j \in Jobs |-> <<>>]
    /\ boundary = [j \in Jobs |-> "none"]
    /\ handed = [j \in Jobs |-> NoHandoff]
    /\ leases = [j \in Jobs |-> <<>>]
    /\ openJobs = 0

Admitted == {j \in Jobs : state[j] # "UNSEEN"}

\* The protocol server only listens once recovery has passed.
Serving == daemon = "ready"

-----------------------------------------------------------------------------
(* Admission and cancellation *)

\* A fresh key admits a fresh job, if the counter stays within the limit.
Submit(k, j) ==
    /\ Serving
    /\ binding[k] = NoJob
    /\ state[j] = "UNSEEN"
    /\ openJobs + 1 <= jobLimit
    /\ binding' = [binding EXCEPT ![k] = j]
    /\ state' = [state EXCEPT ![j] = "ADMITTED"]
    /\ events' = [events EXCEPT ![j] = Append(@, "job_admitted")]
    /\ boundary' = [boundary EXCEPT ![j] = "NOT_DISPATCHED"]
    /\ openJobs' = openJobs + 1
    /\ UNCHANGED <<daemon, generation, jobLimit, handed, leases>>

\* The boundary gets a new revision and keeps its state; the counter refuses
\* even a decrement while it is over the limit of this generation.
Cancel(j) ==
    /\ Serving
    /\ boundary[j] = "NOT_DISPATCHED"
    /\ state[j] \notin {"CANCELLED_BEFORE_DISPATCH", "HANDOFF_COMMITTED"}
    /\ openJobs - 1 \in 0 .. jobLimit
    /\ state' = [state EXCEPT ![j] = "CANCELLED_BEFORE_DISPATCH"]
    /\ events' = [events EXCEPT ![j] =
                    Append(@, "job_cancelled_before_dispatch")]
    /\ openJobs' = openJobs - 1
    /\ UNCHANGED <<daemon, generation, jobLimit, binding, boundary, handed,
                   leases>>

-----------------------------------------------------------------------------
(* Leases and the hand-off *)

ActiveRows(j) == {i \in DOMAIN leases[j] : leases[j][i].active}

\* current(): the active row of the highest revision.
IsCurrentRow(j, i) ==
    /\ i \in ActiveRows(j)
    /\ \A n \in ActiveRows(j) : leases[j][n].token <= leases[j][i].token

Ended(row) == [row EXCEPT !.active = FALSE, !.late = FALSE]

\* Mutation: only leases still held count.
IsTopActiveToken(j, top) ==
    /\ \A i \in ActiveRows(j) : leases[j][i].token <= top
    /\ top = 0 \/ \E i \in ActiveRows(j) : leases[j][i].token = top

\* MAX(fencing_token) over the job's leases, dead ones included.
IsTopToken(j, top) ==
    /\ \A i \in DOMAIN leases[j] : leases[j][i].token <= top
    /\ top = 0 \/ \E i \in DOMAIN leases[j] : leases[j][i].token = top

\* A live lease of this generation is returned as it is (no step); otherwise
\* the current row expires and a row with the next token is appended.
Acquire(j) ==
    /\ Serving
    /\ j \in Admitted
    /\ \A i \in DOMAIN leases[j] : IsCurrentRow(j, i) =>
            leases[j][i].generation # generation \/ leases[j][i].late
    /\ \E top \in 0 .. (MaxFence - 1) :
         /\ IsTopToken(j, top)
         /\ leases' = [leases EXCEPT ![j] =
              Append([i \in DOMAIN @ |->
                        IF IsCurrentRow(j, i) THEN Ended(@[i]) ELSE @[i]],
                     [generation |-> generation, token |-> top + 1,
                      active |-> TRUE, late |-> FALSE])]
    /\ UNCHANGED <<daemon, generation, jobLimit, binding, state, events,
                   boundary, handed, openJobs>>

\* The lease the caller names is the one it holds: active, of this
\* generation, and of the revision and token the caller knows.
Holds(j, i, token) ==
    /\ i \in ActiveRows(j)
    /\ leases[j][i].generation = generation
    /\ leases[j][i].token = token

Renew(j, i, token) ==
    /\ Serving
    /\ Holds(j, i, token)
    /\ ~leases[j][i].late
    /\ token < MaxFence
    /\ leases' = [leases EXCEPT ![j][i].token = @ + 1]
    /\ UNCHANGED <<daemon, generation, jobLimit, binding, state, events,
                   boundary, handed, openJobs>>

\* Release, unlike renewal, does not look at the expiry.
Release(j, i, token) ==
    /\ Serving
    /\ Holds(j, i, token)
    /\ leases' = [leases EXCEPT ![j][i] = Ended(@)]
    /\ UNCHANGED <<daemon, generation, jobLimit, binding, state, events,
                   boundary, handed, openJobs>>

ExpireLease(j, i) ==
    /\ Serving
    /\ i \in ActiveRows(j)
    /\ leases[j][i].late
    /\ leases' = [leases EXCEPT ![j][i] = Ended(@)]
    /\ UNCHANGED <<daemon, generation, jobLimit, binding, state, events,
                   boundary, handed, openJobs>>

\* expires_at passes, whether or not the daemon is up.
LeaseElapses(j, i) ==
    /\ i \in ActiveRows(j)
    /\ ~leases[j][i].late
    /\ leases' = [leases EXCEPT ![j][i].late = TRUE]
    /\ UNCHANGED <<daemon, generation, jobLimit, binding, state, events,
                   boundary, handed, openJobs>>

\* What dispatch checks is the boundary and the lease, not the job's state.
HandOff(j, i, token) ==
    /\ Serving
    /\ boundary[j] = "NOT_DISPATCHED"
    /\ Holds(j, i, token)
    /\ ~leases[j][i].late
    /\ state' = [state EXCEPT ![j] = "HANDOFF_COMMITTED"]
    /\ events' = [events EXCEPT ![j] =
                    Append(@, "later_tranche_handoff_committed")]
    /\ boundary' = [boundary EXCEPT ![j] = "HANDOFF_COMMITTED"]
    /\ handed' = [handed EXCEPT ![j] =
                    [generation |-> generation, token |-> token]]
    /\ UNCHANGED <<daemon, generation, jobLimit, binding, leases, openJobs>>

\* An operation of the boundary's class that nothing in src/ calls.
MarkAmbiguous(j) ==
    /\ Serving
    /\ boundary[j] # "none"
    /\ boundary' = [boundary EXCEPT ![j] = "AMBIGUOUS"]
    /\ UNCHANGED <<daemon, generation, jobLimit, binding, state, events,
                   handed, leases, openJobs>>

-----------------------------------------------------------------------------
(* Starts, recovery and crashes *)

\* createGeneration: a start opens a new generation, under the limits the
\* host passes it, and is not ready yet.
Open ==
    /\ daemon = "down"
    /\ generation < MaxGenerations
    /\ daemon' = "opened"
    /\ generation' = generation + 1
    /\ jobLimit' \in JobLimits
    /\ UNCHANGED <<binding, state, events, boundary, handed, leases, openJobs>>

Counted == {j \in Jobs : state[j] \in {"ADMITTED", "HANDOFF_COMMITTED"}}

\* reconcileJobs: every job has its binding and nothing else has one, and a
\* hand-off is recorded in the boundary and in the job, or in neither.
JobsReconcile ==
    /\ {binding[k] : k \in Keys} \ {NoJob} = Admitted
    /\ \A j \in Admitted : /\ boundary[j] # "none"
                           /\ boundary[j] = "HANDOFF_COMMITTED" <=>
                              state[j] = "HANDOFF_COMMITTED"

\* reconcileCapacity: the counter is what the job states say it is.
JobCapacityReconciles == openJobs = Cardinality(Counted)

\* The leases a recovery leaves: those of other generations are abandoned.
Abandoned(rows) ==
    [i \in DOMAIN rows |->
        IF rows[i].active /\ rows[i].generation # generation
        THEN Ended(rows[i]) ELSE rows[i]]

RecoverCustody ==
    /\ daemon = "opened"
    /\ daemon' = "ready"
    /\ leases' = [j \in Jobs |-> Abandoned(leases[j])]
    /\ UNCHANGED <<generation, jobLimit, binding, state, events, boundary,
                   handed, openJobs>>

BlockCustody ==
    /\ daemon = "opened"
    /\ daemon' = "blocked"
    /\ UNCHANGED <<generation, jobLimit, binding, state, events, boundary,
                   handed, leases, openJobs>>

\* The process ends, by a crash or a close; what is committed stays.
Stop ==
    /\ daemon # "down"
    /\ daemon' = "down"
    /\ UNCHANGED <<generation, jobLimit, binding, state, events, boundary,
                   handed, leases, openJobs>>

-----------------------------------------------------------------------------
LeaseStep(j) ==
    \/ Acquire(j)
    \/ \E i \in DOMAIN leases[j] :
         \/ ExpireLease(j, i)
         \/ LeaseElapses(j, i)
         \/ \E token \in 1 .. MaxFence :
              \/ Renew(j, i, token)
              \/ Release(j, i, token)

-----------------------------------------------------------------------------
(* Properties *)

Has(j, type) == \E n \in DOMAIN events[j] : events[j][n] = type

\* The two histories after which the daemon's own records disagree: a job
\* handed off after its cancellation (the counter had already let it go), and
\* a boundary marked ambiguous after its hand-off.
CancelledThenHandedOff(j) ==
    /\ Has(j, "job_cancelled_before_dispatch")
    /\ Has(j, "later_tranche_handoff_committed")

AmbiguousAfterHandoff(j) ==
    boundary[j] = "AMBIGUOUS" /\ state[j] = "HANDOFF_COMMITTED"

\* Fencing: a job is handed off at most once, under the newest token ever
\* issued for it and by the generation now running; and no token is issued
\* twice, whatever was released, expired or abandoned before, so a holder of
\* an older lease can never act again (leases.js acquire, renew, validate;
\* dispatch.js handoff).
NewestToken(j, token) ==
    \A i \in DOMAIN leases[j] : leases[j][i].token <= token

HandoffIsFenced(j) ==
    handed'[j] # handed[j] =>
        /\ handed[j] = NoHandoff
        /\ handed'[j].generation = generation
        /\ NewestToken(j, handed'[j].token)

TokensAreFresh(j) ==
    \A i \in DOMAIN leases'[j] :
        (i \in DOMAIN leases[j] => leases'[j][i].token # leases[j][i].token)
            => \A n \in DOMAIN leases[j] :
                   leases[j][n].token < leases'[j][i].token

Fencing == [][\A j \in Jobs : HandoffIsFenced(j) /\ TokensAreFresh(j)]_custodyVars
=============================================================================
