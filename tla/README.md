# A verification project for codex-review-shell

This directory holds TLA+ models of two parts of codex-review-shell.

The first decides who may touch a repository: the pool that runs child agents,
the durable registry in which a worker's hold on its git worktree is recorded,
the rules by which that hold is given back, the backend transport whose
acknowledgements those rules rest on, and the ordered shutdown that closes all of
them. The second decides which semantic job runs, once, and who is told of it:
the custody core of the direct semantic daemon, its deliveries and long polls,
its recovery, and the commissioning host on top of it.

The models are checked with TLC on small instances; the theorems in the
`*Proofs` modules are checked by TLAPS for all values of the constants.

Paths below are relative to the repository root (`src/main/...`); the line
numbers of every definition are in `PROJECT.json` under `map`.

## 1. Inventory

The shell is an Electron program. Everything modelled here, but for the backend
agent (a Node process of its own behind a pipe), runs in its main process. Each
process is one JavaScript thread: a synchronous stretch of code is atomic, and
everything that hurts happens between two stretches (promises, aborts, timers,
child processes) or between two lives of the process.

| Component | State it keeps | Operations | Hard behaviour | What makes it correct |
|---|---|---|---|---|
| Lifecycle registry (`direct/agents/workspace-worker-lifecycle-registry.js`) | SQLite: one row per session (state, lease, process, cancellation, receipt, mutation outcome, revision), a journal of operation ids, custody of the worktree, reconciliation receipts, a cleanup plan | open, begin provisioning, bind, activate, request cancellation, acknowledge, settle, record outcome, reconcile, mark eligible, mark cleaned | callers act on what they last read; late and repeated calls; a restart between any two | lease follows state; a cancellation is never overtaken; release only on evidence; cleanup only under the plan that was built for this row |
| Native agent pool (`direct/agents/native-agent-pool.js`) | records (`jobs`), `activeCount`, `queue`, `taskIndex`, per-record lease, cancellation, pending settlement | launch, drain, start, settle, interrupt, wait, list, stop accepting, cancel all, drain and close, recover, reconcile | registry calls fail one by one; cancellation races start, result and settlement; retries; crash and replay | slots are counted exactly and given back only after the verdict is durable; nobody is forgotten, overtaken or run twice; "drained" means quiet |
| Worker runtime (`workspace-worker-runtime.js`) | provider loop, tool calls, abort signal, one mutation receipt | run one worker in its worktree | abort between any two awaits, a commit that may or may not have happened | reports exactly what the backend acknowledged |
| Backend transport (`workspace-backend.js`, `backend/wsl-agent.js`) | pending requests, cancel controls, sessions; in the agent: request scopes, commit phase | NDJSON request, cancel, timeout, drain, dispose | late, lost and crossing replies; a cancellation racing a commit | an acknowledged cancellation is real and names the true outcome |
| Cleanup planner (`workspace-worker-cleanup.js`) | nothing of its own | observe a worktree, build a plan, remove | the row moves while the worktree is observed | plan and row agree when it is used |
| Shutdown coordinator (`workspace-worker-shutdown.js`, `main.js`) | the attempt in flight, the parts it captured, the last receipt | ordered shutdown, blocked attempts and their repetition, degraded exit | sessions drained at different times, parts made while an attempt runs, agents that outlive the host | nothing disposed that is in use; a completed receipt is true; a worktree has one custodian |
| Provisioning (`main.js`, `workspace-backend.js`) | custody records, git worktrees, the dedicated backend of a worker | custody, `git worktree add`, bind, attach | failure between two of these | every worktree has an owner on record |
| Async work registry, wake-up continuation (`direct/worldmodel`) | durable work items | register, complete, continue a turn | crash between completion and continuation | continued exactly once |
| Semantic service, custody core (`direct/semantic-service`: `daemon.js`, `idempotency.js`, `dispatch.js`, `cancellation.js`, `leases.js`, `capacity.js`, `event-ledger.js`, `delivery.js`, `waiter-gate.js`, `recovery.js`) | SQLite: jobs under idempotency keys, an event ledger and a dispatch boundary per job, leases with fencing tokens, subscriptions with cursors, offers, two counters; in memory: long polls | submit, cancel, acquire, renew, release, hand off, subscribe, offer, acknowledge, wait, open, recover | leases that lapse, offers made twice, a notification in a later microtask, a restart that must reconcile everything before it serves | only the newest lease of the running generation hands off; every event is delivered once; no poll sleeps through its event; recovery accepts what the calls left |
| Semantic service, commissioning host (`commissioning-coordinator.js`, `commissioning-daemon.js`, `commissioning-store.js`) | a durable row per job (status, observations, verdict, delivery), an object store with a limit; in memory: the drain, the running job | submit, drain, hand off, run compiler and worker, observe, finish, offer, acknowledge, cancel, close, reopen | one turn commits several transactions; a crash between any two; a full store; a revoked credential | no child is launched twice, no cancelled job runs, captured evidence decides, every job ends, the host always reopens |
| World manager and world model (`direct/worldmanager`, `direct/worldmodel`) | decisions, ledgers, mirrors | transition, subscribe, project | ordering of evidence | append-only |
| Stores, ledgers, import, recovery, controllers, bridge, tools, MCP, app-server lane, authentication, renderer | files, tables, UI | persistence, parsing, presentation | mostly sequential | not part of the protocol below |

How the modelled parts interact. `launch` opens a registry session for an
isolated child, then queues or starts it. Starting takes a slot (`activeCount`,
`record._leaseActive`), activates the session and schedules the runner in a
microtask. The runner calls the backend and returns a status, a mutation
outcome and, when it was cancelled, the backend's receipt. The handler attached
to its promise turns that into a verdict and offers it to the registry
(`commitLifecycleSettlement`); only when the registry takes it does the pool
free the slot and drain the queue. A verdict the registry refuses is kept and
retried. A cancellation the backend does not acknowledge parks the child: its
slot and its worktree stay taken until, after a restart, a verifier reconciles
the session. The shutdown coordinator closes the pool, cancels everybody and
waits for `activeCount` to reach zero with no recovery candidate left. The
cleaner, independently, plans the removal of worktrees of settled sessions.

The semantic service is a process of its own with one writer of one database. A
client submits a job under an idempotency key, which opens a ledger and a
dispatch boundary; the commissioning coordinator acquires a lease on the job,
hands it off under the lease's token, releases the lease, and runs first a
compiler and then a closed worker for it, one job at a time, with one durable row
per job to say how far it got. A generation that starts first reconciles
everything the former ones left and abandons their leases and offers.

## 2. Modules

| Module | Models |
|---|---|
| `WorkerCustody` | abstract: what registry, pool and shutdown promise about a worker's worktree: taken once, worked in by one user and only while held, given up for good under one verdict, removed for somebody who was told that verdict |
| `WorkerSession` | one registry row: for each operation the conjunction of the checks that would throw (`CanX`) and the row it writes (`X`) |
| `WorkerRegistry` | the registry: rows, revisions, journal, custody, reconciliation, cleanup plans; several unsynchronised callers; implements `WorkerCustody` |
| `AgentPool` | the pool over the registry's rows: admission, queue, slots, runners, cancellation, settlement and retry, shutdown, crash, replay, reconciliation; implements `WorkerCustody` |
| `AgentNames` | task names, replayed records and `wait` |
| `BackendContract` | abstract: what a backend promises its callers about the mutations it makes for them |
| `BackendTransport` | one backend session: the client and the agent at the two ends of a pipe; implements `BackendContract` |
| `WorkerShutdown` | the ordered shutdown over what it closes: the pool with its children's runners, the manager with its sessions and agent processes, the registry's rows; blocked and repeated attempts, degraded exit, crash and next start; implements `WorkerCustody` |
| `SemanticCustody` | the custody core: admission, cancellation, leases, hand-off, open-job counter, generations, what recovery compares |
| `SemanticDelivery` | the daemon around it: subscriptions, offers, acknowledgments, long polls with their notifications, the whole recovery |
| `JobContract` | abstract: what the commissioning host promises for a job: withdrawn or dispatched, each child begun once and one at a time, a verdict that the returned work decides, told and acknowledged once |
| `Commissioning` | the commissioning host on top of the custody core; implements `JobContract` |
| `MC*` | the constants of the TLC instances |
| `WorkerSessionProofs` | lemmas: each row operation keeps a row consistent |
| `WorkerRegistryProofs`, `AgentPoolProofs`, `AgentNamesProofs`, `BackendTransportProofs`, `WorkerShutdownProofs`, `SemanticProofs`, `CommissioningProofs` | the theorems of these modules, the refinements among them |

`AgentPool` composes with the registry by sharing `WorkerSession`: a pool
handler contains the registry calls it makes as applications of the same row
operators the registry's transactions are made of, so pool and registry cannot
drift apart. What the registry module adds (journal, custody, cleanup) is not
visible to the pool's decisions. `WorkerCustody` is what registry, pool and
shutdown have in common: each is shown to implement it, with its own account of
what is held and who works there. `SemanticDelivery` and `Commissioning` both
extend `SemanticCustody`: their steps contain its actions, each with the rest of
the handler or the turn. `WorkerShutdown` takes from pool and transport what
their own modules show (`DrainedMeansQuiet`, `DrainReportIsTrue`,
`AckMeansQuiet`) and adds what only their composition has: runners, sessions and
agents that end at different times.

### State and code

* `WorkerSession.Session` is the row of `workspace_worker_sessions`. Digests
  are abstracted to what they bind: a receipt is the reason and the outcome it
  was computed over, because the registry compares it by recomputing the digest
  from exactly these.
* `WorkerRegistry`: every operation is one immediate SQLite transaction in a
  synchronous process, hence one action. An operation id already in the journal
  replays or conflicts and changes nothing in either case, so it is no step;
  `journal` exists to forbid a second application. `plans` remembers every plan
  the cleaner ever built, so a stale plan is always available; likewise
  `Reconcile` and `MarkCleaned` take any revision, not just the current one.
* `AgentPool`: `st`, `reason`, `pend`, `attempts` are the fields of a record;
  `runner` and `result` stand for the promise chain of `startRecord`;
  `leased`, `active`, `queue`, `closed`, `cancelAll` are the pool's. The three
  loops that settle or start several children (`drain`,
  `retryPendingSettlements`, the sweep of `requestCancellationForAll`) would
  need nested actions; they are unrolled into steps, and while `loop` is not
  `"idle"` nothing else but a crash may happen, so they stay atomic with
  respect to every other handler. The `changed` event's retry of pending
  settlements is `RetryPendingSettlements` from an idle loop.
* A registry call may fail (`fail` picks which of the handler's calls do);
  `commitLifecycleSettlement` is `Commits` (does it succeed) and `Committed`
  (which row it leaves behind, including the half-done case in which the
  cancellation request got through and the acknowledgement did not).
* `Returns` is what a runner may hand back. It is taken from
  `workspace-worker-runtime.js`: a cancelled worker reports `cancelled` or
  `unresolved`, with a receipt if the backend acknowledged; an uncancelled one
  never holds a receipt the settlement can use.
* `Restart` is a crash or an exit at any point: only rows survive.
* `BackendTransport`, the client (`phase` to `verdict`, `intake`, `drain`,
  `lost`): `NdjsonTransport` is one JavaScript thread. `WorkspaceSession.request`
  tests `acceptingRequests`, awaits `attach()` and writes in a later microtask,
  so `Gate` and `Send` are two actions; other microtasks may come between them,
  but no timer and no incoming line (`Turn`). The deadline and the caller's abort
  signal have the same effect, a cancel control and nothing settled (`Cancel`).
  The three ways a transport ends share `Close`.
* `BackendTransport`, the agent (`stage` to `alive`): `stage` is how far the
  handler of a request is, `step` the phase of its scope. Handlers interleave at
  every await. Whether `finalizeRequestProcessCustody` can prove that no process
  is left is a choice (`verified`), except that it never claims so falsely: it
  inspects the processes. `Policies` are those of `REQUEST_CANCELLATION_POLICIES`
  and, as `"unsupported"`, every method that is not in it and so gets no scope.
* The pipes are FIFO. A line the client cannot parse is dropped (`DropLine`, at
  most `MaxGarbled` times); after an exit what is still in the pipe may be read or
  not. What a write failure is told depends on whether the request had left
  (`PipeBreaks`).
* Digests and receipts of one request always agree with each other in this
  model, so the client's branches for a contradicting or malformed outcome are
  not taken. One life of one transport is followed; re-attachment is not.
* The refinement: the requests a caller `held` are the pending ones, `effect` is
  the scope's commit phase and `told` what the caller's promise says, `"unsure"`
  where it does not claim quiescence. The contract lets a mutation begin only
  while its caller holds the request or, once the backend is lost, for callers
  who were told that they cannot know.

How pool and transport meet: `AgentPool.Returns` lets a runner hand over a
receipt exactly when the backend acknowledged the cancellation;
`BackendTransport` shows that such an acknowledgement means that the request has
stopped and names the true outcome.

* `WorkerShutdown`: `child` is where the runner of a worker stands between two
  of its awaits (`AttachWorker`, `PlanPatch`, `ApplyPatch`, `RunnerReturns`);
  `parked` is a worker whose cancellation was not acknowledged and whose backend
  the runtime retains; `lost` is one of an earlier process. `session` is an entry
  of the manager with the state of its attachment, `agent` a process, which once
  `told` to end may still run for a while, also after its host is gone. A request
  that finds its transport closed attaches a new agent without the binding
  (`Reattach`), as `WorkspaceSession.request` does. `captured` are the parts an
  attempt found, `drained` the sessions whose drain has been answered.
* The custody contract. In all three refinements a worktree is held while the row
  says so: `WorkerRegistry` and `AgentPool` take it from the rows that
  `recoverySnapshot` lists, `WorkerShutdown` from `durable`. The users of a
  worktree are, in the registry, the process a row reports; in the pool, the
  runner from its scheduling until its result is handled; in the shutdown, every
  agent process that carries out a patch, whichever session or host it belonged
  to. Who was told is the cleaner that built a plan, the record that reports a
  terminal status, the child that is done. One step may move several workers (a
  crash, a shutdown), each by a step of its own. Registry and shutdown do not
  distinguish verdicts there and map all of them to `"released"`; the pool maps
  the verdict itself.
* `SemanticCustody`: each call is one SQLite transaction, hence one action; a
  refused or replayed call changes nothing. `lease_revision` and
  `fencing_token` always move together and are one number. `late` is a lease past
  its deadline: the clock enters as the action `LeaseElapses`. `openJobs` is the
  stored counter, so that recovery's recount has something to compare.
* `SemanticDelivery`: one subscription per job with its two cursors; an offer
  covers an interval of the ledger. The notification of an append is queued as a
  microtask (`notices`), and other calls may come before it runs.
* `Commissioning`: `turn` is what the turn in progress still has to commit. The
  calls of clients wait for an idle turn, a crash does not, so a crash falls
  between any two commits; the children are awaited with the turn idle.
  `launched` counts launches over all generations and is not a column of the
  store; it is what `LaunchedOnce` is about. The start of a generation is
  `OpenStore`, `RecoverHost` and a first turn that makes owed rows and finishes
  interrupted jobs.
* The job contract. A job's fate is custody's (`state`), what was begun is
  `launched`, the running child follows from `active` and the row's status, what
  was found, the verdict and what was told are the columns of the row. Rows,
  leases, turns and generations are not in it: a step that touches only these is
  a stutter, and a crash is one too, or the loss of the running child.

## 3. Runs

| Run | Question | Bounds | Result |
|---|---|---|---|
| `registry` | Do interleaved, stale and repeated registry calls keep the custody contract, the cancellation, the receipts and the cleanup plan? | 1 session, 2 worker keys, 2 heads, 2 reasons, 9 transitions | holds |
| `pool` | Are slots and queue kept in step with rows and verdicts, and the custody contract kept, under failing registry calls, cancellation at any time, shutdown, crash and replay? | 2 isolated + 1 other child, 1 slot, queue of 1, 2 retries, 2 failing calls, 1 crash | holds |
| `pool_live` | Does every started child conclude, the queue advance, shutdown leave nobody behind? | as `pool`, 1 retry, 1 failing call, no crash | holds |
| `pool_reason` | A queued child that is cancelled settles at once, for every admitted reason | as `pool`, free-form reasons, no failing call | violated, see 5 |
| `names` | Is a wait answered exactly by what it watches, and can two running children share a name otherwise than beside a replayed record? | 3 children of one name, 2 of them with worktrees, 2 waiters, 1 restart | holds |
| `names_wait` | Does a name reach the running child? | 3 children, 2 names | violated, see 5 |
| `transport` | Is an acknowledgement true, an outcome exact, ownership and the drain report right, and the contract kept, in every interleaving of requests, cancellation, commit, loss and drain? | 2 requests of any policies, memory of 1, 1 garbled line | holds |
| `transport_live` | Is every request answered in the end? | 1 request, no garbled line | holds |
| `transport_rpc` | A late committed mutation wins, for every method | 1 request | violated, see 5 |
| `shutdown` | Does a completed receipt tell the truth, is nothing disposed that is in use, and is the custody contract kept throughout? | 2 workers and the shared session, 2 agent processes at once | holds |
| `custody` | Do the records reconcile after any calls, expiries and restarts, is delivery exact, no poll forgotten, and a hand-off fenced? | 2 jobs, 2 keys, 2 offers, 1 poll, 2 generations, tokens up to 2, the constraints below | holds |
| `commissioning` | Across crashes between any two commits: nothing launched twice, no cancelled job run, the job contract kept, evidence final, the host reopened, every job ended? | 2 jobs, 3 generations, tokens up to 3, 2 rows, 6 objects | holds |

Why the bounds are enough. No registry operation reads another session's row,
so one session shows everything; nine transitions are two more than the longest
path to `cleaned` (open, provision, bind, activate, cancel, acknowledge,
eligible, cleaned, with one to spare for a repeated bind). In the pool, one
slot and a queue of one already produce a full pool, a full queue, a cancelled
queue entry and a slot handed on; two isolated children are needed for one to
hold the slot while another is replayed, recovered or queued, and the third has
no registry session at all. Two faults let both calls of one settlement fail,
or one settlement and its retry. `MaxFaults`, `MaxCrashes`, `RetryLimit`,
`MaxRevision`, `MaxRestarts` are the only caps; the code has no limit on the
first two, and `RetryLimit` is its `settlementRetryAttempts`. In the transport
requests share only the pipes and the memory of completed requests; two requests
reorder each other's messages, and a memory of one makes the older of two
completed requests forgotten, which is the case a late cancel control meets.
`MaxGarbled` is the only cap there, on an event the code does not limit.

In the shutdown instance two workers with worktrees and the shared session give
every pair of sessions that can be drained, disposed or lost at different times;
two agent identifiers let a dying agent stand beside the one attached in its
place (an instance with three was also checked while the model was written, and
held). Requests and launches are not counted: a child runs once, and each of its
runner's states is visited with every state of its session and agents. In the
custody instance the first job has the whole variety; `SecondJobIsPlain` keeps
the second to admission and cancellation, enough for the counters and the
recovery to be wrong about one job while right about the other, and `FewNotices`
keeps at most two notifications queued. Both constrain the search and not the
model; the theorems do without them. Two open-job limits make a start with a
lower limit than the counter happen. In the commissioning instance three
generations allow a crash, a crash of the recovery and a life to finish in; the
last generation of the bound does not crash, because a host that crashes for
ever ends no job. `MaxRows` and `MaxObjects` are limits the code has (the numbers
are smaller), and six objects are used up before two jobs are done.

Deadlock checking is off in all runs because every instance may legitimately
stop: children are launched once, faults and crashes are capped.

Fairness in `pool_live`. Weak fairness on the loops and on each child's
runner steps. Node runs a synchronous loop, a microtask and a promise handler
to the end, so `LoopStep`, `RunnerBegin` and `RunnerSettled` are fair; that a
runner returns is assumed because each backend and provider call it makes has a
time limit. There is no fairness on launching, cancelling, retrying, shutting
down or reconciling: nobody is obliged to do these. The liveness properties are
therefore stated with the outcomes the design admits: a child may end up parked
(unacknowledged, or its verdict not durable), and a queue may stand still while
parked workers hold every slot.

Fairness in `transport_live`. Microtasks run (`Send`), each side reads its pipe,
a handler comes to its end because every command and file operation has its own
time limit, the answer to a cancel control follows `scope.done` in a promise
continuation, and a child's exit is noticed. Nobody is obliged to cancel, to
drain or to dispose. A request whose quiescence the agent could not prove may
stay pending for ever: that is the design, and `RequestConcludes` says so.

Fairness in `commissioning`. A turn runs to its end and a scheduled drain is run
by the event loop; the two children are awaited under time limits, so they
return; a close that was begun completes. That a host that is down is started
again is an assumption about its operator: `JobsConclude` is the promise that no
admitted job is lost for good, which nobody can keep without a start. Nobody is
obliged to submit, cancel, offer or acknowledge, to revoke or to close. `shutdown`
and `custody` check safety only: a blocked shutdown may be repeated for ever by
design, and a client need not come back for its events.

## 4. Theorems

Every theorem holds for all values of the constants that satisfy the named
assumptions: `ReasonAssumption` and `RegistryAssumption` (the markers for "none"
are not values), `PoolAssumption` (finitely many children, at least one slot and
one retry), `TransportAssumption` (finitely many requests, the three policies, a
memory of at least one), `MainAssumption` and `AbsenceAssumption` (the shared
session is no worker's, the markers for "none" are not values),
`CustodyAssumption`, `DeliveryAssumption` and `CommissioningAssumption` (finitely
many jobs and offers, natural limits and bounds). No theorem uses a bound of an
instance: generations, tokens, rows and objects are any numbers.

**Registry** (`WorkerSessionProofs`, `WorkerRegistryProofs`). The inductive
invariant is `TypeOK` and, for each session, `RowInv`. A row alone does not show
its past, so `RowInv` adds what the journal remembers: that a registered session
has not run, that a completed or failed one was settled by a journalled call or
reconciled, that a journalled cancellation rules out `completed`, and that every
plan ever built was built for a bound worktree and a complete outcome. Each
operation gets one lemma about the row it writes; that the other sessions are
untouched is argued once. That the rows implement `WorkerCustody` is argued per
row operation as well: it keeps what a row says of the worktree or takes a step of
the contract (`RowFate`). A new plan is what the contract calls telling, and
`PlacedInv` says that it was built for a row that no longer holds anything. Proved:
type
correctness, `LeaseFollowsState`, `CancellationWins`, `ReleaseIsEvidenced`,
`CleanupMatchesPlan`, `EvidenceKept`, the refinement `KeepsCustody` and the
contract's `WorkIsHeld`.

**Pool** (`AgentPoolProofs`). `PoolInv` has a part per child (`ChildInv`) and
parts for the pool. The properties are not inductive by themselves:
`LeaseAccounting` (the count equals the slots held) needs `SlotInv` to know that
a settlement frees a slot that was held; `SettledIsDurable` needs `RowOK` to know
what the registry accepts; `NoChildForgotten` needs `QueueInv` and `LoopInv`,
because a cancelled child leaves the queue before the sweep settles it; `RunsOnce`
needs `RecoveryInv`, because a restart must not find a session that could start
again. The handlers have three shapes (a settlement attempt, a start, a change
to an unsettled child), each with one lemma that all its actions instantiate.
`WaitInv` adds that the session of a queued child is as launch opened it and that,
while the registry works, an unsettled child without a slot is queued or was
cancelled with a code that is not typed.

For the custody contract a second invariant is needed: `WorkInv` says that while
the runner of an isolated child may still work the child keeps its slot, its row
is live and no verdict is waiting for the registry. Without it a durable verdict
could meet a runner that has not returned. Again each of the three shapes of
handlers has its lemma, and a restart moves every child by a step of its own.
Proved: type correctness, `LeaseAccounting`, `NoIdleCapacity`, `NoChildForgotten`,
`SettledIsDurable`, `ActiveLeaseIsOwned`, `DrainedMeansQuiet`, `RunsOnce`,
`ReleaseAfterCommit`, `NoOvertaking`, the refinement `KeepsCustody` with the contract's
`WorkIsHeld` and `GivenUpForGood`, and `QueuedCancelSettles` under the hypothesis
that every admitted reason is a typed code, which is what the code does not
enforce (5.1).

`StopInv` follows a shutdown: a child that owes an account of itself (unsettled, no
verdict waiting) and was told to stop has a slot, and while everything is being
cancelled each such child was told or is in the sweep in progress. With `WorkInv`,
which keeps the slot of a child whose result is only marked, it is inductive.
Proved from it: `StopReachesEveryone`, the safety half of `ShutdownConcludes`: after
the sweep nobody is left that was not told.

**Transport** (`BackendTransportProofs`). `TransportInv` follows a request on its
way: `PathInv` (it is in the pipe, in the agent, or pending, and never twice in
the pipe), `ScopeInv` (the phases of its scope), `MessageInv` (every message on
its way back is true, and stays true because it speaks of requests that are
done), `ReceiptInv` and `VerdictInv` (the same for what the client keeps and
tells). That a message remains true until it is read is the heart of it, and the
reason why `AckMeansQuiet` survives any delay. `RefusalInv` adds the order of
the lines: a cancellation control is the last word on its request, and for a
request that ended before it was asked to stop the answer stands in the pipe in
front of the refusal, so a client that reads a refusal without having read an
answer has lost a line. Proved: type correctness, `AckMeansQuiet`,
`OutcomeIsExact`, `OwnershipKept`, `DrainReportIsTrue`, `RefusalIsReal`, the
refinement `KeepsContract` (initial states to initial states, each step to a
step or a stutter), and the contract's `ToldIsFinal`.

`OwedInv` adds the agent's answers and the place of each. A cancel control is in
one place at a time (on its way, waiting in the agent, or answered in the pipe),
and has one reply; while no line is lost and the request is pending, a finished
handler's response is in the pipe unless cancellation silenced it, and then the
acknowledgement is in the pipe or the agent still has the control that will
write it. Proved from it and `RefusalInv`: `AnswerIsOwed`, the safety half of
`RequestConcludes`: no pending request waits for an answer that cannot come.
That the answer is then read is fairness, and stays with `transport_live`.

**Names** (`AgentNamesProofs`). `NoLostWakeup` and `AnswersAreTerminal` are
inductive with the types. That names are unique needs `IndexOwns`: the index
entry of a name leads to its running bearer unless a replayed record of that name
stands beside it. Proved: type correctness, `NoLostWakeup`, `AnswersAreTerminal`,
`UniqueUnlessReplayed`.

**Shutdown** (`WorkerShutdownProofs`). Three accounts of one worker must agree:
where its runner stands, what its session believes, and what its agents, the
dying ones included, are doing. `PartsInv` ties them together (`AgentInv`: an
agent that works on a patch was bound, and its runner is busy with it, gave it up
or was lost; `SessionInv`: an open session has its agent and its runner, and a
draining manager's sessions take nothing; `ChildInv`: a busy runner has its request pending,
and a row is held as long as its runner is active or lost). `OneBound` says that
a worktree's binding is held once, and `AttemptInv` what an attempt has
established so far: a drain that was answered stays true until the disposal
because nothing is admitted any more. Proved for any number of workers and
agents: type correctness, `WorktreeCustody`, `CompletedMeansQuiet`,
`DisposalIsQuiet`, the refinement `KeepsCustody` and the contract's `WorkIsHeld`. The
refinement needs two consequences more: a worktree has at most one agent at work
and that one only while it is held (`UsersInv`), and a child that was never
launched has no row (`FateInv`); the latter is what makes a launch the contract's
taking, and a verdict for a child of an earlier process its conclusion.

**Custody and delivery** (`SemanticProofs`). `CustodyInv` keeps what recovery
compares: the image of the bindings is the set of admitted jobs, a job's state,
boundary and ledger say the same (`Recorded`), the counter is the number of jobs
never cancelled, and the leases of a job are ordered with the only live one last
(`LeasesOrdered`), from which `Fencing` follows. `DeliveryInv` adds the cursor's
place in the ledger (`SubOrdered`), that the acknowledged intervals tile what
lies before it (`Covered`), that an offer lies within the ledger
(`OfferInLedger`), that the second counter is the number of outstanding offers,
and `NoMissedEvent`, which is inductive with these. Proved: type correctness,
`RecoverySound`, `DeliveredOnce`, `NoMissedEvent`, `Fencing`.

**Commissioning** (`CommissioningProofs`). A durable status alone does not show
what was launched before it; `Recorded` says which histories each status allows
and `Decided` that custody's decision agrees with it. `TurnInv` says what the
turn in progress has already committed, which is what a crash may interrupt;
`WorkInv` that unfinished work has somebody to look at it, also between two
commits; `RoomInv` that at most one admission owes its row and that there is room
for it; `BooksInv` is what recovery reconciles. Proved: type correctness,
`LaunchedOnce`, `CancelledNeverRuns`, `AlwaysReopens`, `EvidenceDecides`,
`OutcomeSealed`, and `WorkIsScheduled`, the safety half of `JobsConclude`: a free
host with unfinished work has a drain scheduled or a job running.

For `KeepsJobContract` two facts are added (`ChildInv`): a status from the page on
rests on a captured compiler observation (`PageInv`), and a started child is the
running one unless the host is just reopening (`StartedInv`), so that a crash is
the loss of one child and never of one that nobody knew of. Each action has a
lemma saying which step of the contract, or which stutter, it is. From the steps
of the contract alone, without looking at the host again, follow `Sound` (nothing
is begun undispatched, the worker only on the compiler's output, one child at a
time, a verdict that says whether the worker's work was kept) and
`DecisionsStand` (what was decided, returned or told stays).

In no run of their own, and theorems only: `LeaseFollowsState`, `SettledIsDurable`,
`DrainedMeansQuiet`, `NoOvertaking`, `StopReachesEveryone`, `AnswerIsOwed`,
`EvidenceDecides`, `WorkIsScheduled` and what the contracts promise. TLC found each of them to hold
before it was proved; the contracts' runs now cover most of what `LeaseFollowsState`
and `EvidenceDecides` said.

Only model-checked: the liveness properties of `pool_live`, `transport_live` and
`commissioning` (fairness and ENABLED are out of the prover's reach; what is proved
of them is the safety half: `NoIdleCapacity` of `QueueAdvances`, `StopReachesEveryone`
of `ShutdownConcludes`, `AnswerIsOwed` of `RequestConcludes`, `WorkIsScheduled` of
`JobsConclude`). No module uses recursion, and nothing here needs induction over
data.

## 5. Where code and documents disagree

1. **A queued child cancelled with a free-form reason does not settle**
   (`pool_reason`, `QueuedCancelSettles`). `interrupt` admits any reason code
   of the right shape, and `cancelRecord` writes it into the row. The verdict
   that follows carries the reason after `safeWorkspaceStatusCode`, which maps
   unknown codes to a generic one. `commitLifecycleSettlement` finds the
   session already cancelled, compares the two codes and refuses; the child
   stays in `settlement_blocked` although no call failed, and every retry is
   refused the same way.
2. **A task name does not always mean the running child** (`names_wait`,
   `NameMeansLiveChild`). A name may be used again once its child is terminal,
   but `resolveTarget` takes the first record of that name in `jobs`, the old
   one; `wait` then returns at once and `interrupt` does nothing.
3. **A late committed mutation does not win for methods without a cancellation
   policy** (`transport_rpc`, `LateCommitWins`). `fs/applyPlannedPatch` and its
   kin are not in `REQUEST_CANCELLATION_POLICIES`; their responses name no
   outcome. When such a call succeeds after its deadline, the client reports an
   acknowledged, quiesced cancellation although the files have changed.

The following are no contradiction of a sentence this project could quote, or of
one that a run needs; the properties are stated so that they name them.

* **A replayed launch takes a name from a running child.**
  `materializeLifecycleReplayRecord` overwrites `taskIndex` with a settled
  record, after which the name counts as free and a second running child may take
  it. `UniqueUnlessReplayed` is what does hold.
* **A drain does not close the intake at once.** `WorkspaceSession.request`
  passes the test of `acceptingRequests` and then awaits `attach()`. A drain begun
  between the two finds nothing pending and answers "drained"; the request is
  written afterwards, to a backend about to be disposed. `DrainReportIsTrue`
  states what the report covers: the requests already in the account.
* **A request over a closed transport attaches again, unbound**
  (`workspace-backend.js:1475`). The second agent does not carry the worker's
  binding, so it refuses the worktree's tools, and `WorktreeCustody` holds
  because of that and only because of that.
* **A pool or a manager made during a shutdown is not in its receipt**
  (`main.js:3866`). The coordinator captures the parts when an attempt begins.
  `CompletedMeansQuiet` speaks of the parts captured.
* **The daemon hands off a cancelled job** (`dispatch.js:50`). `handoff` looks at
  the dispatch boundary, which a cancellation leaves `NOT_DISPATCHED`. Whoever
  still holds a lease can hand a cancelled job off; the counter has already let
  the job go, and recovery then refuses the database. The commissioning
  coordinator looks at the job's state first, and there `CancelledNeverRuns` and
  `AlwaysReopens` hold; `RecoverySound` names the history as an exception.
* **A boundary may be marked ambiguous after its hand-off** (`dispatch.js`,
  `markAmbiguous`), and **a subscription keeps any starting cursor**
  (`delivery.js:25`, passed on unchecked by `daemon.js:341`), also one beyond the
  ledger's end. Both are refused by the next recovery and named by
  `RecoverySound`.
* **Lower limits than the counters refuse decrements** (`capacity.js:80`): after
  a start with a lower limit a cancellation and an acknowledgment fail, and so
  does the recovery's own clean-up of old offers, until the limits are raised.
  `RecoverySound` promises a recovery only under limits the counters fit in.
* **Offers never expire while a daemon lives**: `expireOffers`
  (`delivery.js:171`) has no caller in the daemon. Lapsed offers stay counted as
  outstanding until the next start, and the same events are offered beside them;
  `DeliveredOnce` shows that the acknowledgments still tile the ledger.

## 6. Plan

Done, in this order: registry, pool, names, transport with its contract, ordered
shutdown with provisioning, runtime and re-attachment as far as it meets them,
semantic custody, delivery, commissioning; the theorems of section 4; the custody
contract that registry, pool and shutdown implement, and the job contract of the
commissioning host. What
could follow, the most important first:

1. The async work registry and the wake-up continuation (`direct/worldmodel`):
   durable work items, a parent's turn continued exactly once.
2. Stateful exec sessions (yield, poll, kill) and the MCP client's request table.
3. Decision transitions of the control plane (`direct/worldmanager`).

## 7. Not modelled

Of the modelled components:

* The data: prompts, provider profiles, public projections, status documents,
  digests (abstracted to what they bind), schema migration.
* Pool: routes and provider profiles, epistemic capture. In `WorkerShutdown` the
  pool's queue and slots, which `AgentPool` has.
* Runtime: the provider loop, the reading tools and the profile for direct
  tests, which change nothing the protocol sees.
* Provisioning: the git commands (`provisionGitWorktree`) and their failures,
  which end the child before it has a session.
* Backends: the methods themselves, an executor's process sessions, which outlive
  their request, its project views with the coalescing of concurrent attaches
  (`workspace-backend.js:1427`); in `WorkerShutdown` the gap between the test of the intake and the
  sending, which `BackendTransport` has.
* Shutdown: the terminal service and the controllers' disposal that come after
  it; the registry is opened and closed with the pool.
* Semantic daemon: challenges and authority proofs, content-addressed storage,
  quarantine, the keyring and the hash chains. They validate data in front of the
  custody calls, and a recovery checks them too, so `RecoverySound` speaks of the
  records and not of their digests. A transaction that is rolled back after an
  append leaves a notification for an event that does not exist; it wakes a poll
  that then waits on, and is left out.
* Commissioning: its own subscriptions and waits, which repeat the daemon's, the
  reuse of equal objects in its store, and the audit of its own records.

Of the repository: the shell is a large desktop program, and most of it is
presentation, validation, storage of documents and projection of evidence in
sequential code. These components are listed with status `not_modelled` in
`PROJECT.json`, each with its reason; the ones with a protocol of their own that
a model could reach are in the plan above.
