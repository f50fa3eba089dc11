--------------------------- MODULE WorkerShutdown ---------------------------
(***************************************************************************)
(* The ordered shutdown of the workspace workers over the three parts it   *)
(* closes: the agent pool with the runners of its children, the manager of *)
(* the workspace backends with their sessions and agent processes, and the *)
(* durable sessions of the lifecycle registry.                             *)
(*                                                                         *)
(* A step is one turn of the host's event loop, with the promise           *)
(* continuations it runs, or one of an agent's.  AgentPool has the pool's  *)
(* bookkeeping and BackendTransport a request's; here a request is pending *)
(* or not, and a child is where its runner stands.  The registry is opened *)
(* with the pool and closed with it.                                       *)
(***************************************************************************)
EXTENDS FiniteSets

CONSTANTS Children,   \* workspace workers, each with a worktree of its own
          Main,       \* the key of the ordinary, shared backend session
          AgentIds,   \* bound on the agent processes that exist at once
          NoAgent, NoSession

ASSUME MainAssumption == Main \notin Children

Keys == Children \cup {Main}

VARIABLES host,      \* the process is "up" or "down"
          pool,      \* directNativeAgentPool: "none", "open" or "stopped"
          child,     \* where the child's runner stands
          aborted,   \* children whose abort signal has fired
          durable,   \* the registry's row: "none", "held" or "released"
          manager,   \* workspaceBackends: "none", "accepting", "draining"
          session,   \* manager.sessions
          agent,     \* the agent processes
          attempt,   \* the shutdown in flight: "none", "pool", "backends"
          captured,  \* the parts it found when it began
          drained,   \* the sessions whose drain has been answered
          receipt    \* "none", "blocked" or "completed"

vars == <<host, pool, child, aborted, durable, manager, session, agent,
          attempt, captured, drained, receipt>>

childVars    == <<child, aborted, durable>>
backendVars  == <<manager, session, agent>>
shutdownVars == <<attempt, captured, drained, receipt>>

\* Runners with a request out at their session.
Busy == {"planning", "applying"}

\* Children that hold a slot of the pool.
Active == {"provisioning", "attaching", "ready", "planned", "reattaching",
           "parked", "blocked"} \cup Busy

ChildStates == Active \cup {"new", "done", "lost"}

Attaching == {"hello", "binding", "hygiene"}

\* `queued' is a request that passed the intake and awaits the attachment.
Session == [agent : AgentIds, attach : Attaching \cup {"attached", "failed"},
            open : BOOLEAN, accepting : BOOLEAN, queued : BOOLEAN,
            request : {"none", "plan", "apply", "other"}]

\* `told' is a process that has been told to end and may still be running.
Agent == [key : Keys, bound : BOOLEAN, told : BOOLEAN,
          works : {"none", "plan", "apply", "other"}]

ASSUME AbsenceAssumption == NoSession \notin Session /\ NoAgent \notin Agent

TypeOK ==
    /\ host \in {"up", "down"}
    /\ pool \in {"none", "open", "stopped"}
    /\ child \in [Children -> ChildStates]
    /\ aborted \subseteq Children
    /\ durable \in [Children -> {"none", "held", "released"}]
    /\ manager \in {"none", "accepting", "draining"}
    /\ session \in [Keys -> Session \cup {NoSession}]
    /\ agent \in [AgentIds -> Agent \cup {NoAgent}]
    /\ attempt \in {"none", "pool", "backends"}
    /\ captured \in [pool : BOOLEAN, manager : BOOLEAN]
    /\ drained \subseteq Keys
    /\ receipt \in {"none", "blocked", "completed"}

Init ==
    /\ host = "up"
    /\ pool = "none"
    /\ child = [c \in Children |-> "new"]
    /\ aborted = {}
    /\ durable = [c \in Children |-> "none"]
    /\ manager = "none"
    /\ session = [k \in Keys |-> NoSession]
    /\ agent = [a \in AgentIds |-> NoAgent]
    /\ attempt = "none"
    /\ captured = [pool |-> FALSE, manager |-> FALSE]
    /\ drained = {}
    /\ receipt = "none"

Clean == \A c \in Children : child[c] # "lost"

\* resetCompletedWorkspaceWorkerShutdown, by whoever makes a part anew.
Reset == IF receipt = "completed" THEN "none" ELSE receipt

-----------------------------------------------------------------------------
(* Sessions and agents *)

\* attachInner: a new process, asked for its hello.  The shared session is
\* attached by a request, which waits for it.
Spawn(k, a) ==
    /\ agent[a] = NoAgent
    /\ session' = [session EXCEPT ![k] =
         [agent |-> a, attach |-> "hello", open |-> TRUE,
          accepting |-> TRUE, queued |-> k = Main, request |-> "none"]]
    /\ agent' = [agent EXCEPT ![a] =
         [key |-> k, bound |-> FALSE, told |-> FALSE, works |-> "none"]]

Told(ids) == [a \in AgentIds |-> IF a \in ids THEN [agent[a] EXCEPT !.told = TRUE]
                                              ELSE agent[a]]

\* The process a session still has; an earlier one was told to end when its
\* transport failed.
AgentOf(k) == {a \in AgentIds : /\ session[k] # NoSession
                                /\ session[k].agent = a
                                /\ agent[a] # NoAgent
                                /\ agent[a].key = k}

\* disposeForProject: the session goes and its agent is told to end.
DisposeForProject(k) ==
    /\ session' = [session EXCEPT ![k] = NoSession]
    /\ agent' = Told(AgentOf(k))

\* The manager, made on first use; a draining one attaches nothing new.
EnsureManager ==
    /\ manager \in {"none", "accepting"}
    /\ manager' = "accepting"
    /\ receipt' = IF manager = "none" THEN Reset ELSE receipt

\* The transport carries a request to an agent that works on it.
Carries(k, what) ==
    /\ session' = [session EXCEPT ![k].request = what]
    /\ agent' = [agent EXCEPT ![session[k].agent].works = what]

Usable(k) == session[k] # NoSession /\ session[k].attach = "attached"

-----------------------------------------------------------------------------
(* The children *)

\* The settlement of a returned runner reaches the registry, or is kept.
Settle(c) ==
    \/ /\ child' = [child EXCEPT ![c] = "done"]
       /\ durable' = [durable EXCEPT ![c] = "released"]
    \/ /\ child' = [child EXCEPT ![c] = "blocked"]
       /\ UNCHANGED durable

\* An aborted child whose result proves no quiescence keeps its slot.
End(c, proved) ==
    IF c \in aborted /\ ~proved
    THEN child' = [child EXCEPT ![c] = "parked"] /\ UNCHANGED durable
    ELSE Settle(c)

\* The runner returns: its backend is released, then the child settles.
Return(c, proved) ==
    /\ DisposeForProject(c)
    /\ End(c, proved)
    /\ UNCHANGED <<aborted, manager>>

EnsurePool ==
    /\ host = "up"
    /\ pool = "none"
    /\ pool' = "open"
    /\ receipt' = Reset
    /\ UNCHANGED <<host, childVars, backendVars, attempt, captured, drained>>

Launch(c) ==
    /\ pool = "open"
    /\ Clean
    /\ child[c] = "new"
    /\ child' = [child EXCEPT ![c] = "provisioning"]
    /\ durable' = [durable EXCEPT ![c] = "held"]
    /\ UNCHANGED <<host, pool, aborted, backendVars, shutdownVars>>

Interrupt(c) ==
    /\ pool # "none"
    /\ child[c] \in Active \ {"blocked"}
    /\ c \notin aborted
    /\ aborted' = aborted \cup {c}
    /\ UNCHANGED <<host, pool, child, durable, backendVars, shutdownVars>>

\* The worktree exists; its dedicated backend is attached, with a binding.
AttachWorker(c, a) ==
    /\ child[c] = "provisioning"
    /\ c \notin aborted
    /\ EnsureManager
    /\ Spawn(c, a)
    /\ child' = [child EXCEPT ![c] = "attaching"]
    /\ UNCHANGED <<host, pool, aborted, durable, attempt, captured, drained>>

ProvisioningFails(c) ==
    /\ child[c] = "provisioning"
    /\ \E proved \in BOOLEAN : Return(c, proved)
    /\ UNCHANGED <<host, pool, shutdownVars>>

\* The two requests of a patch: its dry run, and, if the lease is still valid
\* and the signal has not fired, the patch.
Sends(c, from, to, what) ==
    /\ child[c] = from
    /\ c \notin aborted
    /\ Usable(c)
    /\ session[c].open
    /\ session[c].accepting
    /\ Carries(c, what)
    /\ child' = [child EXCEPT ![c] = to]
    /\ UNCHANGED <<host, pool, aborted, durable, manager, shutdownVars>>

PlanPatch(c)  == Sends(c, "ready", "planning", "plan")
ApplyPatch(c) == Sends(c, "planned", "applying", "apply")

\* Mutation: the binding is initialized again.
ReattachBound(c, a) ==
    /\ child[c] \in {"ready", "planned"}
    /\ c \notin aborted
    /\ Usable(c)
    /\ ~session[c].open
    /\ session[c].accepting
    /\ Spawn(c, a)
    /\ child' = [child EXCEPT ![c] = "attaching"]
    /\ UNCHANGED <<host, pool, aborted, durable, manager, shutdownVars>>

\* A request over a closed transport attaches again, without the binding.
Reattach(c, a) ==
    /\ child[c] \in {"ready", "planned"}
    /\ c \notin aborted
    /\ Usable(c)
    /\ ~session[c].open
    /\ session[c].accepting
    /\ Spawn(c, a)
    /\ child' = [child EXCEPT ![c] = "reattaching"]
    /\ UNCHANGED <<host, pool, aborted, durable, manager, shutdownVars>>

\* The unbound agent refuses what names a binding (and a transport closed
\* again refuses everything), and the runner fails; an abort that came in
\* between is found before anything is sent.
RefusedUnbound(c) ==
    /\ child[c] = "reattaching"
    /\ Usable(c)
    /\ session[c].open => ~agent[session[c].agent].bound
    /\ Return(c, session[c].open)
    /\ UNCHANGED <<host, pool, shutdownVars>>

\* Between two requests the runner may finish, and must once it is aborted.
RunnerReturns(c) ==
    /\ child[c] \in {"ready", "planned"}
    /\ \E proved \in BOOLEAN : Return(c, proved)
    /\ UNCHANGED <<host, pool, shutdownVars>>

\* The abort of a pending request is acknowledged: the agent is quiescent.
CancelAcknowledged(c) ==
    /\ child[c] \in Busy
    /\ c \in aborted
    /\ session[c].request # "none"
    /\ session' = [session EXCEPT ![c] = NoSession]
    /\ agent' = [Told(AgentOf(c)) EXCEPT ![session[c].agent].works = "none"]
    /\ Settle(c)
    /\ UNCHANGED <<host, pool, aborted, manager, shutdownVars>>

\* Mutation: a deadline settles the child like any other failure.
GiveUpSettling(c) ==
    /\ child[c] \in Busy
    /\ Settle(c)
    /\ UNCHANGED <<host, pool, aborted, backendVars, shutdownVars>>

\* The deadline passes without an acknowledgement: the caller is told, the
\* request stays in the transport's account, and the backend is retained.
GiveUp(c) ==
    /\ child[c] \in Busy
    /\ child' = [child EXCEPT ![c] = "parked"]
    /\ UNCHANGED <<host, pool, aborted, durable, backendVars, shutdownVars>>

\* The pool's timer and every change retry what the registry refused.
RetrySettlement(c) ==
    /\ child[c] = "blocked"
    /\ child' = [child EXCEPT ![c] = "done"]
    /\ durable' = [durable EXCEPT ![c] = "released"]
    /\ UNCHANGED <<host, pool, aborted, backendVars, shutdownVars>>

-----------------------------------------------------------------------------
(* Ordinary requests *)

\* A request of a controller, which attaches the shared session if need be.
AttachMain(a) ==
    /\ host = "up"
    /\ session[Main] # NoSession => ~session[Main].open
    /\ EnsureManager
    /\ Spawn(Main, a)
    /\ UNCHANGED <<host, pool, childVars, attempt, captured, drained>>

\* A request of a holder of the session, or a view of it.
RequestMain ==
    /\ session[Main] # NoSession
    /\ session[Main].accepting
    /\ session[Main].open
    /\ \/ /\ session[Main].attach = "attached"
          /\ session[Main].request = "none"
          /\ Carries(Main, "other")
       \/ /\ session[Main].attach \in Attaching
          /\ ~session[Main].queued
          /\ session' = [session EXCEPT ![Main].queued = TRUE]
          /\ UNCHANGED agent
    /\ UNCHANGED <<host, pool, childVars, manager, shutdownVars>>

-----------------------------------------------------------------------------
(* Answers, losses and the end of agents *)

\* What the attachment asks next.  Only a runner that provisions has a
\* binding; a worker's first attachment skips the hygiene.
NextAttach(k) ==
    CASE session[k].attach = "hello" ->
           IF k \in Children /\ child[k] = "attaching" THEN "binding" ELSE "hygiene"
      [] OTHER -> "attached"

\* An answer to the attachment; once attached, what was queued is sent.
AttachAnswered(k) ==
    /\ host = "up"
    /\ session[k] # NoSession
    /\ session[k].open
    /\ session[k].attach \in Attaching
    /\ LET sent == IF NextAttach(k) = "attached" /\ session[k].queued
                   THEN "other" ELSE "none"
       IN /\ session' = [session EXCEPT
               ![k].attach = NextAttach(k),
               ![k].queued = @ /\ NextAttach(k) # "attached",
               ![k].request = sent]
          /\ agent' = [agent EXCEPT
               ![session[k].agent].bound = session[k].attach = "binding",
               ![session[k].agent].works = sent]
    /\ child' = IF k \in Children /\ session[k].attach = "binding"
                THEN [child EXCEPT ![k] = "ready"] ELSE child
    /\ UNCHANGED <<host, pool, aborted, durable, manager, shutdownVars>>

Answered(k) ==
    /\ host = "up"
    /\ session[k] # NoSession
    /\ session[k].open
    /\ session[k].request # "none"
    /\ Carries(k, "none")
    /\ child' = IF k = Main THEN child
                ELSE [child EXCEPT ![k] = CASE @ = "planning" -> "planned"
                                            [] @ = "applying" -> "ready"
                                            [] OTHER -> @]
    /\ UNCHANGED <<host, pool, aborted, durable, manager, shutdownVars>>

\* The transport fails (an unreadable line, a broken pipe, a dead process):
\* its requests are rejected as not quiesced and its process is told to end,
\* whatever it is still doing.
TransportFails(k) ==
    /\ host = "up"
    /\ session[k] # NoSession
    /\ session[k].open
    /\ \/ /\ session[k].attach \in {"hello", "binding"}
          /\ \/ /\ k = Main
                /\ session' = [session EXCEPT ![k].open = FALSE,
                                              ![k].attach = "failed",
                                              ![k].queued = FALSE]
                /\ agent' = Told(AgentOf(k))
                /\ UNCHANGED <<childVars, manager>>
             \/ /\ k \in Children
                /\ Return(k, FALSE)
       \/ /\ session[k].attach \in {"hygiene", "attached"}
          /\ session' = [session EXCEPT ![k].open = FALSE,
                                        ![k].attach = "attached",
                                        ![k].queued = FALSE,
                                        ![k].request = "none"]
          /\ agent' = Told(AgentOf(k))
          /\ child' = IF k \in Children /\ child[k] \in Busy
                      THEN [child EXCEPT ![k] = "parked"] ELSE child
          /\ UNCHANGED <<aborted, durable, manager>>
    /\ UNCHANGED <<host, pool, shutdownVars>>

AgentEnds(a) ==
    /\ agent[a] # NoAgent
    /\ agent[a].told
    /\ agent' = [agent EXCEPT ![a] = NoAgent]
    /\ UNCHANGED <<host, pool, childVars, manager, session, shutdownVars>>

-----------------------------------------------------------------------------
(* The ordered shutdown *)

\* Mutation: a parked child does not count.
RunningUnparked(c) == child[c] \in Active \ {"parked"}

Running(c) == child[c] \in Active

\* The first steps of an attempt, in one turn: the pool takes no more
\* children, kept settlements are retried, and everything left is cancelled.
\* A worker of an earlier process, or a settlement the registry still
\* refuses, blocks it there; the intake stays closed.
BeginShutdown ==
    /\ host = "up"
    /\ attempt = "none"
    /\ receipt # "completed"
    /\ captured' = [pool |-> pool # "none", manager |-> manager # "none"]
    /\ pool' = IF pool = "none" THEN pool ELSE "stopped"
    /\ \E settled \in SUBSET {c \in Children : child[c] = "blocked"} :
         /\ Clean \/ pool = "none" \/ settled = {}
         /\ child' = [c \in Children |-> IF c \in settled THEN "done" ELSE child[c]]
         /\ durable' = [c \in Children |-> IF c \in settled THEN "released"
                                                           ELSE durable[c]]
    /\ IF pool = "none" \/ (Clean /\ \A c \in Children : child'[c] # "blocked")
       THEN /\ attempt' = "pool"
            /\ aborted' = IF pool = "none" THEN aborted
                          ELSE aborted \cup {c \in Children : Running(c)}
            /\ receipt' = "none"
       ELSE /\ receipt' = "blocked"
            /\ UNCHANGED <<attempt, aborted>>
    /\ drained' = {}
    /\ UNCHANGED <<host, backendVars>>

\* Mutation: the sessions keep their intake.
PoolDrainedIntakeOpen ==
    /\ attempt = "pool"
    /\ captured.pool => \A c \in Children : ~Running(c)
    /\ attempt' = "backends"
    /\ manager' = IF captured.manager THEN "draining" ELSE manager
    /\ UNCHANGED <<host, pool, childVars, session, agent, captured, drained,
                   receipt>>

\* The captured pool has no active child; drainAll closes the intake of the
\* captured manager and of each of its sessions.
PoolDrained ==
    /\ attempt = "pool"
    /\ captured.pool => \A c \in Children : ~Running(c)
    /\ attempt' = "backends"
    /\ IF captured.manager
       THEN /\ manager' = "draining"
            /\ session' = [k \in Keys |-> IF session[k] = NoSession THEN NoSession
                             ELSE [session[k] EXCEPT !.accepting = FALSE]]
       ELSE UNCHANGED <<manager, session>>
    /\ UNCHANGED <<host, pool, childVars, agent, captured, drained, receipt>>

\* No request is pending at the session's transport.
Quiet(k) ==
    session[k] # NoSession =>
        (session[k].open => /\ session[k].attach \notin Attaching
                            /\ session[k].request = "none")

\* Each session's drain is answered for itself.
SessionDrained(k) ==
    /\ attempt = "backends"
    /\ captured.manager
    /\ k \notin drained
    /\ Quiet(k)
    /\ drained' = drained \cup {k}
    /\ UNCHANGED <<host, pool, childVars, backendVars, attempt, captured, receipt>>

\* disposeAll, the registry's close and the receipt, in one turn; what was
\* captured is forgotten.
CompleteShutdown ==
    /\ attempt = "backends"
    /\ captured.manager => drained = Keys
    /\ IF captured.manager
       THEN /\ manager' = "none"
            /\ session' = [k \in Keys |-> NoSession]
            /\ agent' = Told(UNION {AgentOf(k) : k \in Keys})
       ELSE UNCHANGED backendVars
    /\ pool' = IF captured.pool THEN "none" ELSE pool
    /\ attempt' = "none"
    /\ receipt' = "completed"
    /\ UNCHANGED <<host, childVars, captured, drained>>

\* The pool's or the backends' timer: the attempt may be repeated, over parts
\* that keep their intake closed.
ShutdownTimesOut ==
    /\ \/ attempt = "pool" /\ captured.pool /\ \E c \in Children : Running(c)
       \/ attempt = "backends" /\ captured.manager /\ drained # Keys
    /\ attempt' = "none"
    /\ receipt' = "blocked"
    /\ UNCHANGED <<host, pool, childVars, backendVars, captured, drained>>

-----------------------------------------------------------------------------
(* The end of the process, and the next one *)

\* The degraded exit disposes everything without waiting, and a crash closes
\* the agents' input: both leave the agents told and the rows as they are.
HostEnds ==
    /\ host = "up"
    /\ host' = "down"
    /\ pool' = "none"
    /\ child' = [c \in Children |-> IF Running(c) THEN "lost" ELSE child[c]]
    /\ aborted' = {}
    /\ manager' = "none"
    /\ session' = [k \in Keys |-> NoSession]
    /\ agent' = Told({a \in AgentIds : agent[a] # NoAgent})
    /\ attempt' = "none"
    /\ captured' = [pool |-> FALSE, manager |-> FALSE]
    /\ drained' = {}
    /\ receipt' = "none"
    /\ UNCHANGED durable

HostStarts ==
    /\ host = "down"
    /\ host' = "up"
    /\ UNCHANGED <<pool, childVars, backendVars, shutdownVars>>

\* An external verifier's receipt for a worker of an earlier process: its
\* backend no longer runs.
Reconcile(c) ==
    /\ pool # "none"
    /\ child[c] = "lost"
    /\ \A a \in AgentIds : agent[a] # NoAgent => agent[a].key # c
    /\ child' = [child EXCEPT ![c] = "done"]
    /\ durable' = [durable EXCEPT ![c] = "released"]
    /\ UNCHANGED <<host, pool, aborted, backendVars, shutdownVars>>

-----------------------------------------------------------------------------
ChildStep(c) ==
    \/ Launch(c)
    \/ Interrupt(c)
    \/ ProvisioningFails(c)
    \/ PlanPatch(c)
    \/ ApplyPatch(c)
    \/ RefusedUnbound(c)
    \/ RunnerReturns(c)
    \/ CancelAcknowledged(c)
    \/ GiveUp(c)
    \/ RetrySettlement(c)
    \/ Reconcile(c)
    \/ \E a \in AgentIds : AttachWorker(c, a) \/ Reattach(c, a)

SessionStep(k) ==
    \/ AttachAnswered(k)
    \/ Answered(k)
    \/ TransportFails(k)
    \/ SessionDrained(k)

Next ==
    \/ EnsurePool
    \/ \E c \in Children : ChildStep(c)
    \/ RequestMain
    \/ \E k \in Keys : SessionStep(k)
    \/ \E a \in AgentIds : AttachMain(a) \/ AgentEnds(a)
    \/ BeginShutdown
    \/ PoolDrained
    \/ CompleteShutdown
    \/ ShutdownTimesOut
    \/ HostEnds
    \/ HostStarts

Spec == Init /\ [][Next]_vars

-----------------------------------------------------------------------------
(* Properties *)

\* A worktree has one custodian: while an agent works on a patch there, also
\* one that was told to end or that outlived its host, the worker's durable
\* session is still held; and never do two agents take orders under the
\* worktree's binding (workspace-worker-runtime.js, retained backends;
\* workspace-backend.js request, which attaches again without a binding;
\* workspace-worker-shutdown.js).
WorktreeCustody ==
    \A a \in AgentIds : agent[a] # NoAgent =>
        /\ agent[a].works \in {"plan", "apply"} =>
              agent[a].bound /\ durable[agent[a].key] = "held"
        /\ agent[a].bound => \A b \in AgentIds \ {a} :
              ~(agent[b] # NoAgent /\ agent[b].key = agent[a].key /\ agent[b].bound)

\* The ordered path disposes backends only when nobody is using them: no
\* session has a request or an attachment pending, although each session's
\* drain was answered at a time of its own, and no child is active.
DisposalIsQuiet ==
    [][(attempt = "backends" /\ receipt' = "completed") =>
          /\ captured.manager => \A k \in Keys : Quiet(k)
          /\ captured.pool => \A c \in Children : ~Running(c)]_vars

\* A completed receipt is true of the parts the attempt found: no child of
\* the pool is active, no durable session is held, and no agent is left that
\* was not told to end.  A pool or a manager first made while the attempt was
\* in flight is not among them (main.js coordinateWorkspaceWorkerShutdown).
CompletedMeansQuiet ==
    receipt = "completed" =>
        /\ captured.pool => /\ \A c \in Children : ~Running(c)
                            /\ \A c \in Children : durable[c] # "held"
        /\ captured.manager => \A a \in AgentIds : agent[a] # NoAgent => agent[a].told

-----------------------------------------------------------------------------
(***************************************************************************)
(* The custody contract.  The registry's row says whether the worktree is  *)
(* held; the agents that carry out a patch work there, whichever session   *)
(* or host they belonged to; a child that is done tells its verdict.       *)
(***************************************************************************)
WorktreeOf(c) == CASE durable[c] = "none" -> "free"
                   [] durable[c] = "held" -> "held"
                   [] durable[c] = "released" -> "released"

AgentsIn(c) == {a \in AgentIds : /\ agent[a] # NoAgent
                                /\ agent[a].key = c
                                /\ agent[a].works \in {"plan", "apply"}}

Contract == INSTANCE WorkerCustody WITH
    Worker <- Children,
    Users <- AgentIds,
    custody <- [c \in Children |-> WorktreeOf(c)],
    users <- [c \in Children |-> AgentsIn(c)],
    told <- [c \in Children |-> IF child[c] = "done" THEN "released" ELSE "nothing"]

\* The ordered shutdown, the degraded one, a crash and the next start keep the
\* custody contract: no agent is ever at work in a worktree that was given up
\* or that another agent is at work in.
KeepsCustody == Contract!Spec
=============================================================================
