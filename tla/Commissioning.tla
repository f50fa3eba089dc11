--------------------------- MODULE Commissioning ---------------------------
(***************************************************************************)
(* The commissioning coordinator on top of the semantic custody core: it   *)
(* queues every admitted job, hands it off, runs the compiler and the      *)
(* closed worker for it, one job at a time, and keeps each outcome in its  *)
(* own durable rows.                                                       *)
(*                                                                         *)
(* One JavaScript turn of the host may commit several transactions, and    *)
(* no call is served in between; but a crash may come between any two.     *)
(* `turn' says what the turn in progress still has to commit, so the calls *)
(* of clients wait for an idle turn and a stop does not.  The children are *)
(* awaited with the turn idle.                                             *)
(***************************************************************************)
EXTENDS SemanticCustody

CONSTANTS MaxRows,      \* commissioning rows the host will hold
          MaxObjects    \* objects the store has room for

ASSUME CommissioningAssumption == MaxRows \in Nat /\ MaxObjects \in Nat

VARIABLES rows,         \* the jobs with a commissioning row, oldest first
          status,       \* the row's status, "none" without a row
          compiler,     \* the durable compiler observation
          worker,       \* the durable worker observation
          disposition,  \* the terminal disposition
          delivery,     \* the delivery of the terminal projection
          objects,      \* commissioning_objects in the store
          launched,     \* children launched for the job, over all generations
          revoked,      \* the admitted credential is no longer current
          turn,         \* what the current turn still has to do, for whom
          active,       \* the job runJob is working on
          scheduled,    \* a drain is scheduled
          closing       \* the host is closing

durableVars == <<rows, status, compiler, worker, disposition, delivery, objects>>
hostVars    == <<turn, active, scheduled, closing>>
vars == <<custodyVars, durableVars, launched, revoked, hostVars>>

Statuses == {"QUEUED", "COMPILER_STARTED", "COMPILER_CAPTURED",
             "PAGE_MATERIALIZED", "WORKER_STARTED", "RAW_CAPTURED", "TERMINAL"}

\* The child's status: CAPTURED, or one of the failures.
Observations == {"captured", "failed"}

Dispositions == {"adjudicated",  \* the worker's response, admitted or rejected
                 "remanded"}     \* decided without one

Idle == [at |-> "idle", job |-> NoJob]
At(what, j) == [at |-> what, job |-> j]

TypeOK ==
    /\ CustodyTypeOK
    /\ rows \in Seq(Jobs)
    /\ status \in [Jobs -> Statuses \cup {"none"}]
    /\ compiler \in [Jobs -> Observations \cup {"none"}]
    /\ worker \in [Jobs -> Observations \cup {"none"}]
    /\ disposition \in [Jobs -> Dispositions \cup {"none"}]
    /\ delivery \in [Jobs -> {"none", "OFFERED", "ACKNOWLEDGED"}]
    /\ objects \in Nat
    /\ launched \in [Jobs -> [compiler : Nat, worker : Nat]]
    /\ revoked \in BOOLEAN
    /\ turn \in [at : {"idle", "open", "ensure", "cancel", "run", "acquired",
                       "handed", "refused", "released"},
                 job : Jobs \cup {NoJob}]
    /\ active \in Jobs \cup {NoJob}
    /\ scheduled \in BOOLEAN
    /\ closing \in BOOLEAN

Init ==
    /\ CustodyInit
    /\ rows = <<>>
    /\ status = [j \in Jobs |-> "none"]
    /\ compiler = [j \in Jobs |-> "none"]
    /\ worker = [j \in Jobs |-> "none"]
    /\ disposition = [j \in Jobs |-> "none"]
    /\ delivery = [j \in Jobs |-> "none"]
    /\ objects = 0
    /\ launched = [j \in Jobs |-> [compiler |-> 0, worker |-> 0]]
    /\ revoked = FALSE
    /\ turn = Idle
    /\ active = NoJob
    /\ scheduled = FALSE
    /\ closing = FALSE

-----------------------------------------------------------------------------
(* Rows and the scheduler *)

\* ensureJob: the row of an admitted job, at the end of the queue.
AddRow(j) ==
    /\ Len(rows) < MaxRows
    /\ rows' = Append(rows, j)
    /\ status' = [status EXCEPT ![j] = "QUEUED"]
    /\ UNCHANGED <<compiler, worker, disposition, delivery, objects>>

Move(j, next) == status' = [status EXCEPT ![j] = next]

HasRoom == objects < MaxObjects

\* finish: the terminal disposition, and nothing else.
Finish(j, verdict) ==
    /\ Move(j, "TERMINAL")
    /\ disposition' = [disposition EXCEPT ![j] = verdict]
    /\ UNCHANGED <<rows, compiler, worker, delivery, objects>>

\* schedule(): once, and only while nothing runs and the host stays open.
Scheduled == IF active = NoJob /\ ~closing THEN TRUE ELSE scheduled

\* Mutation: nobody looks again.
RunEndsQuietly ==
    /\ turn' = Idle
    /\ active' = NoJob
    /\ UNCHANGED <<scheduled, closing>>

\* The end of runJob: the coordinator is free and looks again.
RunEnds ==
    /\ turn' = Idle
    /\ active' = NoJob
    /\ scheduled' = IF closing THEN scheduled ELSE TRUE
    /\ UNCHANGED closing

\* An error anywhere in runJob, and a verdict, both end it.
RunFinishes(j, verdict) == Finish(j, verdict) /\ RunEnds

Free == Serving /\ turn = Idle

-----------------------------------------------------------------------------
(* Calls of clients *)

\* The host admits, and then makes the row in the same turn.
SubmitJob(k, j) ==
    /\ Free
    /\ Len(rows) < MaxRows
    /\ Submit(k, j)
    /\ turn' = At("ensure", j)
    /\ UNCHANGED <<durableVars, launched, revoked, active, scheduled, closing>>

QueueSubmitted(j) ==
    /\ turn = At("ensure", j)
    /\ AddRow(j)
    /\ turn' = Idle
    /\ scheduled' = Scheduled
    /\ UNCHANGED <<custodyVars, launched, revoked, active, closing>>

\* The custody decision first, the row of a queued job second.
CancelJob(j) ==
    /\ Free
    /\ Cancel(j)
    /\ turn' = IF status[j] = "QUEUED" THEN At("cancel", j) ELSE Idle
    /\ UNCHANGED <<durableVars, launched, revoked, active, scheduled, closing>>

FinishCancelled(j) ==
    /\ turn = At("cancel", j)
    /\ Finish(j, "remanded")
    /\ turn' = Idle
    /\ UNCHANGED <<custodyVars, launched, revoked, active, scheduled, closing>>

\* Mutation: every look at a finished job makes an offer.
OfferAgain(j) ==
    /\ Free
    /\ status[j] = "TERMINAL"
    /\ HasRoom
    /\ delivery' = [delivery EXCEPT ![j] = "OFFERED"]
    /\ objects' = objects + 1
    /\ UNCHANGED <<custodyVars, rows, status, compiler, worker, disposition,
                   launched, revoked, hostVars>>

\* The first look at a finished job makes its one offer; that takes an object.
Offer(j) ==
    /\ Free
    /\ status[j] = "TERMINAL"
    /\ delivery[j] = "none"
    /\ HasRoom
    /\ delivery' = [delivery EXCEPT ![j] = "OFFERED"]
    /\ objects' = objects + 1
    /\ UNCHANGED <<custodyVars, rows, status, compiler, worker, disposition,
                   launched, revoked, hostVars>>

Acknowledge(j) ==
    /\ Free
    /\ delivery[j] = "OFFERED"
    /\ delivery' = [delivery EXCEPT ![j] = "ACKNOWLEDGED"]
    /\ UNCHANGED <<custodyVars, rows, status, compiler, worker, disposition,
                   objects, launched, revoked, hostVars>>

Revoke ==
    /\ Free
    /\ ~revoked
    /\ revoked' = TRUE
    /\ UNCHANGED <<custodyVars, durableVars, launched, hostVars>>

-----------------------------------------------------------------------------
(* Running a job *)

Unfinished == {n \in DOMAIN rows : status[rows[n]] # "TERMINAL"}

\* drain: the oldest row that is not terminal, if there is one.
Drain ==
    /\ Free
    /\ scheduled
    /\ ~closing
    /\ active = NoJob
    /\ \/ /\ Unfinished = {}
          /\ UNCHANGED <<turn, active>>
       \/ \E n \in Unfinished :
            /\ \A m \in Unfinished : n <= m
            /\ turn' = At("run", rows[n])
            /\ active' = rows[n]
    /\ scheduled' = FALSE
    /\ UNCHANGED <<custodyVars, durableVars, launched, revoked, closing>>

Running(j, at) == turn = At("run", j) /\ status[j] = at

\* handoff() refuses a revoked credential, then a cancelled job that no
\* earlier generation handed off.
DispatchRefused(j) ==
    /\ Running(j, "QUEUED")
    /\ \/ revoked
       \/ /\ boundary[j] # "HANDOFF_COMMITTED"
          /\ state[j] = "CANCELLED_BEFORE_DISPATCH"
    /\ RunFinishes(j, "remanded")
    /\ UNCHANGED <<custodyVars, launched, revoked>>

\* Mutation: the cancellation is not looked at.
AcquireUnlooked(j) ==
    /\ Running(j, "QUEUED")
    /\ ~revoked
    /\ boundary[j] # "HANDOFF_COMMITTED"
    /\ Acquire(j)
    /\ turn' = At("acquired", j)
    /\ UNCHANGED <<durableVars, launched, revoked, active, scheduled, closing>>

AcquireForHandoff(j) ==
    /\ Running(j, "QUEUED")
    /\ ~revoked
    /\ boundary[j] # "HANDOFF_COMMITTED"
    /\ state[j] # "CANCELLED_BEFORE_DISPATCH"
    /\ Acquire(j)
    /\ turn' = At("acquired", j)
    /\ UNCHANGED <<durableVars, launched, revoked, active, scheduled, closing>>

\* A host suspended past the lease's expiry finds it stale.
CommitHandoff(j) ==
    /\ turn = At("acquired", j)
    /\ \E i \in ActiveRows(j) :
         \/ /\ HandOff(j, i, leases[j][i].token)
            /\ turn' = At("handed", j)
         \/ /\ leases[j][i].late
            /\ turn' = At("refused", j)
            /\ UNCHANGED custodyVars
    /\ UNCHANGED <<durableVars, launched, revoked, active, scheduled, closing>>

\* finally: the lease is released, hand-off or not.
ReleaseAfterHandoff(j) ==
    /\ \E i \in ActiveRows(j) : Release(j, i, leases[j][i].token)
    /\ \/ /\ turn = At("handed", j)
          /\ turn' = At("released", j)
          /\ UNCHANGED <<durableVars, active, scheduled, closing>>
       \/ /\ turn = At("refused", j)
          /\ RunFinishes(j, "remanded")
    /\ UNCHANGED <<launched, revoked>>

\* The row says "started" before the child is launched; a hand-off committed
\* by an earlier generation is taken over.
StartCompiler(j) ==
    /\ \/ turn = At("released", j)
       \/ /\ Running(j, "QUEUED")
          /\ ~revoked
          /\ boundary[j] = "HANDOFF_COMMITTED"
    /\ Move(j, "COMPILER_STARTED")
    /\ launched' = [launched EXCEPT ![j].compiler = @ + 1]
    /\ turn' = Idle
    /\ UNCHANGED <<custodyVars, rows, compiler, worker, disposition, delivery,
                   objects, revoked, active, scheduled, closing>>

Awaiting(j, at) == Free /\ active = j /\ status[j] = at

\* The compiler returns and its observation is made durable; an exception,
\* also of a full store, remands the job.
CompilerReturns(j) ==
    /\ Awaiting(j, "COMPILER_STARTED")
    /\ \/ /\ HasRoom
          /\ Move(j, "COMPILER_CAPTURED")
          /\ \E seen \in Observations :
               compiler' = [compiler EXCEPT ![j] = seen]
          /\ objects' = objects + 1
          /\ turn' = At("run", j)
          /\ UNCHANGED <<rows, worker, disposition, delivery, active,
                         scheduled, closing>>
       \/ RunFinishes(j, "remanded")
    /\ UNCHANGED <<custodyVars, launched, revoked>>

MaterializePage(j) ==
    /\ Running(j, "COMPILER_CAPTURED")
    /\ \/ /\ compiler[j] = "captured"
          /\ HasRoom
          /\ Move(j, "PAGE_MATERIALIZED")
          /\ objects' = objects + 1
          /\ UNCHANGED <<rows, compiler, worker, disposition, delivery, hostVars>>
       \/ RunFinishes(j, "remanded")
    /\ UNCHANGED <<custodyVars, launched, revoked>>

\* A closing host starts no worker.
StartWorker(j) ==
    /\ Running(j, "PAGE_MATERIALIZED")
    /\ ~closing
    /\ Move(j, "WORKER_STARTED")
    /\ launched' = [launched EXCEPT ![j].worker = @ + 1]
    /\ turn' = Idle
    /\ UNCHANGED <<custodyVars, rows, compiler, worker, disposition, delivery,
                   objects, revoked, active, scheduled, closing>>

StopBeforeWorker(j) ==
    /\ Running(j, "PAGE_MATERIALIZED")
    /\ closing
    /\ RunFinishes(j, "remanded")
    /\ UNCHANGED <<custodyVars, launched, revoked>>

WorkerReturns(j) ==
    /\ Awaiting(j, "WORKER_STARTED")
    /\ \/ /\ HasRoom
          /\ Move(j, "RAW_CAPTURED")
          /\ \E seen \in Observations : worker' = [worker EXCEPT ![j] = seen]
          /\ objects' = objects + 1
          /\ turn' = At("run", j)
          /\ UNCHANGED <<rows, compiler, disposition, delivery, active,
                         scheduled, closing>>
       \/ RunFinishes(j, "remanded")
    /\ UNCHANGED <<custodyVars, launched, revoked>>

\* Mutation: a closing host remands what it has captured.
AdjudicateOpenOnly(j) ==
    /\ Running(j, "RAW_CAPTURED")
    /\ RunFinishes(j, IF worker[j] = "captured" /\ ~closing THEN "adjudicated"
                                                             ELSE "remanded")
    /\ UNCHANGED <<custodyVars, launched, revoked>>

Adjudicate(j) ==
    /\ Running(j, "RAW_CAPTURED")
    /\ RunFinishes(j, IF worker[j] = "captured" THEN "adjudicated"
                                                ELSE "remanded")
    /\ UNCHANGED <<custodyVars, launched, revoked>>

-----------------------------------------------------------------------------
(* Starts, closes and crashes *)

OpenStore == Open /\ UNCHANGED <<durableVars, launched, revoked, hostVars>>

\* The base daemon recovers, and the coordinator opens in the same turn; or
\* the records do not reconcile and the daemon stays blocked.
RecoverHost ==
    /\ IF JobsReconcile /\ JobCapacityReconciles
       THEN RecoverCustody /\ turn' = At("open", NoJob)
       ELSE BlockCustody /\ UNCHANGED turn
    /\ UNCHANGED <<durableVars, launched, revoked, active, scheduled, closing>>

Rowless == {j \in Admitted : status[j] = "none"}

Started == {j \in Jobs : status[j] \in {"COMPILER_STARTED", "WORKER_STARTED"}}

\* The admissions are the outbox: rows that were never made are made now.
\* A host with no room for a row does not come up.
RebuildRow(j) ==
    /\ turn.at = "open"
    /\ j \in Rowless
    /\ IF Len(rows) < MaxRows
       THEN AddRow(j) /\ UNCHANGED <<daemon, turn>>
       ELSE daemon' = "blocked" /\ turn' = Idle /\ UNCHANGED durableVars
    /\ UNCHANGED <<generation, jobLimit, binding, state, events, boundary,
                   handed, leases, openJobs, launched, revoked, active,
                   scheduled, closing>>

\* Mutation: what was interrupted is queued again.
RequeueInterrupted(j) ==
    /\ turn.at = "open"
    /\ Rowless = {}
    /\ j \in Started
    /\ Move(j, "QUEUED")
    /\ UNCHANGED <<custodyVars, rows, compiler, worker, disposition, delivery,
                   objects, launched, revoked, hostVars>>

\* A child of an earlier generation has left nothing durable.
FinishInterrupted(j) ==
    /\ turn.at = "open"
    /\ Rowless = {}
    /\ j \in Started
    /\ Finish(j, "remanded")
    /\ UNCHANGED <<custodyVars, launched, revoked, hostVars>>

OpenDone ==
    /\ turn.at = "open"
    /\ Rowless = {}
    /\ Started = {}
    /\ turn' = Idle
    /\ scheduled' = TRUE
    /\ UNCHANGED <<custodyVars, durableVars, launched, revoked, active, closing>>

\* close(): the running child is aborted and its job awaited; the store is
\* closed after that.
Close ==
    /\ Free
    /\ ~closing
    /\ generation < MaxGenerations
    /\ closing' = TRUE
    /\ UNCHANGED <<custodyVars, durableVars, launched, revoked, turn, active,
                   scheduled>>

HostForgets ==
    /\ turn' = Idle
    /\ active' = NoJob
    /\ scheduled' = FALSE
    /\ closing' = FALSE

CloseDone ==
    /\ Free
    /\ closing
    /\ active = NoJob
    /\ Stop
    /\ HostForgets
    /\ UNCHANGED <<durableVars, launched, revoked>>

\* The last generation of the bound does not crash.
Crash ==
    /\ generation < MaxGenerations
    /\ Stop
    /\ HostForgets
    /\ UNCHANGED <<durableVars, launched, revoked>>

LeaseLate(j) ==
    /\ \E i \in DOMAIN leases[j] : LeaseElapses(j, i)
    /\ UNCHANGED <<durableVars, launched, revoked, hostVars>>

-----------------------------------------------------------------------------
ClientCall(j) ==
    \/ \E k \in Keys : SubmitJob(k, j)
    \/ CancelJob(j)
    \/ Offer(j)
    \/ Acknowledge(j)

\* What the host does of itself for a job, once it is in a turn.
TurnStep(j) ==
    \/ QueueSubmitted(j)
    \/ FinishCancelled(j)
    \/ DispatchRefused(j)
    \/ AcquireForHandoff(j)
    \/ CommitHandoff(j)
    \/ ReleaseAfterHandoff(j)
    \/ StartCompiler(j)
    \/ MaterializePage(j)
    \/ StartWorker(j)
    \/ StopBeforeWorker(j)
    \/ Adjudicate(j)

ChildReturns(j) == CompilerReturns(j) \/ WorkerReturns(j)

StartStep ==
    \/ OpenStore
    \/ RecoverHost
    \/ \E j \in Jobs : RebuildRow(j) \/ FinishInterrupted(j)
    \/ OpenDone

Next ==
    \/ \E j \in Jobs : ClientCall(j) \/ TurnStep(j) \/ ChildReturns(j) \/ LeaseLate(j)
    \/ Drain
    \/ StartStep
    \/ Revoke
    \/ Close
    \/ CloseDone
    \/ Crash

\* A turn runs to its end, a scheduled drain is run by the event loop, the
\* children end (both are under a timeout), a host that is down is started
\* again, and a started close completes.
Fairness ==
    /\ \A j \in Jobs : WF_vars(TurnStep(j)) /\ WF_vars(ChildReturns(j))
    /\ WF_vars(Drain)
    /\ WF_vars(StartStep)
    /\ WF_vars(CloseDone)

Spec == Init /\ [][Next]_vars /\ Fairness

-----------------------------------------------------------------------------
(* Properties *)

\* No silent rerun: over all generations, whatever crashes between which
\* commits, a job's compiler and its worker are each launched at most once
\* (commissioning-coordinator.js open, handoff, runJob).
LaunchedOnce ==
    \A j \in Jobs : launched[j].compiler <= 1 /\ launched[j].worker <= 1

\* A cancellation that was decided holds: the job is never handed off and no
\* child is ever launched for it, also when the host dies before the row of
\* the cancelled job is finished (cancellation.js decide; commissioning-
\* daemon.js cancel; commissioning-coordinator.js handoff).
CancelledNeverRuns ==
    \A j \in Jobs : Has(j, "job_cancelled_before_dispatch") =>
        /\ handed[j] = NoHandoff
        /\ launched[j] = [compiler |-> 0, worker |-> 0]

\* The commissioning host always comes back: with the hand-offs its
\* coordinator makes, no crash leaves records recovery refuses, and the rows
\* to rebuild always fit (recovery.js recover; commissioning-coordinator.js
\* open, ensureJob; commissioning-daemon.js submit).
AlwaysReopens == daemon # "blocked"

\* Durable evidence decides: a job whose captured worker output is durable
\* ends adjudicated by it, restart or not, and no other job does; and the
\* evidence, the disposition and an acknowledgment are never replaced.
EvidenceDecides ==
    \A j \in Jobs : status[j] = "TERMINAL" =>
        (disposition[j] = "adjudicated" <=> worker[j] = "captured")

Fixed(before, after) == before # "none" => after = before

OutcomeSealed ==
    [][\A j \in Jobs :
         /\ Fixed(compiler[j], compiler'[j])
         /\ Fixed(worker[j], worker'[j])
         /\ Fixed(disposition[j], disposition'[j])
         /\ delivery[j] = "ACKNOWLEDGED" => delivery'[j] = "ACKNOWLEDGED"
         /\ delivery[j] # "none" => delivery'[j] # "none"
         /\ status[j] = "TERMINAL" => status'[j] = "TERMINAL"]_vars

\* No job is forgotten: while the host is up and free, an unfinished row has
\* a drain scheduled or a job running before it, whichever call, completion
\* or start came last (schedule, drain).
WorkIsScheduled ==
    (Free /\ ~closing /\ Unfinished # {}) => scheduled \/ active # NoJob

\* Every admitted job comes to an end, with a verdict or remanded, across
\* crashes, closes, refusals and a full store.
JobsConclude ==
    \A j \in Jobs : (j \in Admitted) ~> (status[j] = "TERMINAL")
-----------------------------------------------------------------------------
(***************************************************************************)
(* The job contract.  What custody decided is the job's fate; a child runs *)
(* while its host waits for it, that is while the active job's row says    *)
(* that it was started.                                                    *)
(***************************************************************************)
FateOf(j) == CASE state[j] = "UNSEEN" -> "unknown"
               [] state[j] = "ADMITTED" -> "open"
               [] state[j] = "CANCELLED_BEFORE_DISPATCH" -> "withdrawn"
               [] state[j] = "HANDOFF_COMMITTED" -> "dispatched"

ChildOf(j) == CASE active = j /\ status[j] = "COMPILER_STARTED" -> "compiler"
                [] active = j /\ status[j] = "WORKER_STARTED" -> "worker"
                [] OTHER -> "none"

Begun(j) == {c \in {"compiler", "worker"} : launched[j][c] > 0}

Found(j) == [c \in {"compiler", "worker"} |->
                IF c = "compiler" THEN compiler[j] ELSE worker[j]]

JobView(j) == [fate    |-> FateOf(j),
               begun   |-> Begun(j),
               running |-> ChildOf(j),
               found   |-> Found(j),
               verdict |-> disposition[j],
               told    |-> delivery[j]]

Contract == INSTANCE JobContract WITH
    Job <- Jobs,
    job <- [j \in Jobs |-> JobView(j)]

\* The host keeps the job contract, whatever crashes between which commits,
\* is closed, revoked, cancelled or finds the store full.
KeepsJobContract == Contract!Spec
=============================================================================
