-------------------------- MODULE BackendTransport --------------------------
(***************************************************************************)
(* One workspace backend session: NdjsonTransport and WorkspaceSession in  *)
(* src/main/workspace-backend.js on one side of a pipe, the request scopes *)
(* of src/backend/wsl-agent.js on the other.                               *)
(*                                                                         *)
(* Two processes that share only the two pipes.  The client is one         *)
(* JavaScript thread: a request that has passed the intake check is sent   *)
(* in a microtask of the same turn, so timers and incoming lines wait for  *)
(* it (Turn) while other microtasks do not.  The agent's handlers          *)
(* interleave at every await.  The client may lose the agent, give it up,  *)
(* or fail to parse a line; the agent may die.                             *)
(***************************************************************************)
EXTENDS Naturals, Sequences, FiniteSets

CONSTANTS Request,
          Policies,      \* the cancellation policies requests may have
          MemoryLimit,   \* COMPLETED_CANCELLABLE_REQUEST_LIMIT
          MaxGarbled     \* bound on lines the client cannot parse

\* Reads and processes share one kind of scope; a method outside
\* REQUEST_CANCELLATION_POLICIES has none.
ASSUME TransportAssumption ==
    /\ IsFiniteSet(Request)
    /\ Policies \subseteq {"execution", "two_phase_mutation", "unsupported"}
    /\ MemoryLimit \in Nat \ {0}
    /\ MaxGarbled \in Nat

VARIABLES
    \* the client
    phase,      \* idle, gated (past the intake check), pending, done
    policy,
    abort,      \* pending.abortRequested
    control,    \* the cancel control: none, waiting, gone
    refused,    \* pending.cancellationControlError is set
    receipt,    \* pending.committedOutcomeReceipt is set
    verdict,    \* what the caller's promise was settled with
    intake,     \* acceptingRequests
    drain,      \* what waitForDrain has said: idle, waiting, drained, timeout
    lost,       \* transport.closed
    garbled,
    \* the agent
    stage,      \* the handler of a request: none, running, finalizing, done
    step,       \* scope.phase
    failed,     \* requestError
    wanted,     \* scope.cancellationRequested
    waiting,    \* a cancelRequest handler awaits scope.done
    procs,      \* processes the request started are alive
    quiet,      \* scope.quiescenceVerified at completion
    memory,     \* completedCancellableRequests, oldest first
    alive,
    \* the pipes
    toAgent, toClient

client == <<phase, policy, abort, control, refused, receipt, verdict>>
session == <<intake, drain, lost, garbled>>
agent  == <<stage, step, failed, wanted, waiting, procs, quiet, memory, alive>>
pipes  == <<toAgent, toClient>>
vars   == <<client, session, agent, pipes>>

Outcomes == {"none", "committed", "indeterminate"}

Verdict == [resolved : BOOLEAN, acknowledged : BOOLEAN, quiesced : BOOLEAN,
            outcome : Outcomes]

NoVerdict == [resolved |-> FALSE, acknowledged |-> FALSE, quiesced |-> FALSE,
              outcome |-> "unsettled"]

Resolved(o) == [resolved |-> TRUE, acknowledged |-> FALSE, quiesced |-> TRUE, outcome |-> o]

Rejected(a, q, o) == [resolved |-> FALSE, acknowledged |-> a, quiesced |-> q, outcome |-> o]

ToAgent == [kind : {"request", "cancelRequest"}, id : Request]

\* quiesced is backendQuiesced of an error, or result.quiesced of a cancel reply.
ToClient == [kind : {"response", "cancelReply"}, id : Request, error : BOOLEAN,
             quiesced : BOOLEAN, outcome : Outcomes]

Message(k, r) == [kind |-> k, id |-> r]

Response(r, e, q, o) ==
    [kind |-> "response", id |-> r, error |-> e, quiesced |-> q, outcome |-> o]

CancelReply(r, ok, o) ==
    [kind |-> "cancelReply", id |-> r, error |-> ~ok, quiesced |-> ok, outcome |-> o]

Scoped(r) == policy[r] \in {"execution", "two_phase_mutation"}

\* scope.mutationOutcome
Outcome(r) == IF step[r] \in {"committed", "indeterminate"} THEN step[r] ELSE "none"

Executing(r) == stage[r] \in {"running", "finalizing"}

Pending == {r \in Request : phase[r] = "pending"}

\* No sent request is still a microtask away.
Turn == \A r \in Request : phase[r] # "gated"

Init ==
    /\ phase = [r \in Request |-> "idle"]
    /\ policy \in [Request -> Policies]
    /\ abort = [r \in Request |-> FALSE]
    /\ control = [r \in Request |-> "none"]
    /\ refused = [r \in Request |-> FALSE]
    /\ receipt = [r \in Request |-> FALSE]
    /\ verdict = [r \in Request |-> NoVerdict]
    /\ intake = TRUE
    /\ drain = "idle"
    /\ lost = FALSE
    /\ garbled = 0
    /\ stage = [r \in Request |-> "none"]
    /\ step = [r \in Request |-> "none"]
    /\ failed = [r \in Request |-> FALSE]
    /\ wanted = [r \in Request |-> FALSE]
    /\ waiting = [r \in Request |-> FALSE]
    /\ procs = [r \in Request |-> FALSE]
    /\ quiet = [r \in Request |-> FALSE]
    /\ memory = <<>>
    /\ alive = TRUE
    /\ toAgent = <<>>
    /\ toClient = <<>>

-----------------------------------------------------------------------------
(* The client: requests *)

\* WorkspaceSession.request up to its await.
Gate(r) ==
    /\ phase[r] = "idle"
    /\ intake
    /\ phase' = [phase EXCEPT ![r] = "gated"]
    /\ UNCHANGED <<policy, abort, control, refused, receipt, verdict, session, agent, pipes>>

\* NdjsonTransport.request.
Send(r) ==
    /\ phase[r] = "gated"
    /\ ~lost
    /\ phase' = [phase EXCEPT ![r] = "pending"]
    /\ toAgent' = Append(toAgent, Message("request", r))
    /\ UNCHANGED <<policy, abort, control, refused, receipt, verdict, session, agent, toClient>>

\* The transport closed, or the caller's signal aborted, before it was sent.
NotSent(r) ==
    /\ phase[r] = "gated"
    /\ phase' = [phase EXCEPT ![r] = "done"]
    /\ verdict' = [verdict EXCEPT ![r] =
           IF lost THEN Rejected(FALSE, FALSE, "none") ELSE Rejected(TRUE, TRUE, "none")]
    /\ UNCHANGED <<policy, abort, control, refused, receipt, session, agent, pipes>>

\* Mutation: a deadline rejects the request and gives it up.
CancelAndForget(r) ==
    /\ r \in Pending
    /\ ~abort[r]
    /\ abort' = [abort EXCEPT ![r] = TRUE]
    /\ control' = [control EXCEPT ![r] = "waiting"]
    /\ phase' = [phase EXCEPT ![r] = "done"]
    /\ verdict' = [verdict EXCEPT ![r] = Rejected(FALSE, FALSE, "none")]
    /\ toAgent' = Append(toAgent, Message("cancelRequest", r))
    /\ UNCHANGED <<policy, refused, receipt, session, agent, toClient>>

\* The signal's abort listener and the deadline: either sends the one cancel
\* control this request will ever have, and settles nothing.
Cancel(r) ==
    /\ r \in Pending
    /\ ~abort[r]
    /\ abort' = [abort EXCEPT ![r] = TRUE]
    /\ control' = [control EXCEPT ![r] = "waiting"]
    /\ toAgent' = Append(toAgent, Message("cancelRequest", r))
    /\ UNCHANGED <<phase, policy, refused, receipt, verdict, session, agent, toClient>>

-----------------------------------------------------------------------------
(* The client: handleLine *)

Settle(r, v) ==
    /\ phase' = [phase EXCEPT ![r] = "done"]
    /\ verdict' = [verdict EXCEPT ![r] = v]

\* Mutation: whatever a cancelled request returns counts as cancelled.
ResponseVerdictCancelled(r, m) ==
    IF m.error THEN Rejected(abort[r] /\ m.quiesced, m.quiesced, m.outcome)
    ELSE IF abort[r] THEN Rejected(TRUE, TRUE, "none")
    ELSE Resolved(m.outcome)

\* The original response.  A receipt held from the cancel control asks for the
\* committed body; a cancelled request that completed without a commit counts
\* as cancelled.
ResponseVerdict(r, m) ==
    IF receipt[r] /\ (m.error \/ m.outcome # "committed") THEN Rejected(abort[r], TRUE, "committed")
    ELSE IF m.error THEN Rejected(abort[r] /\ m.quiesced, m.quiesced, m.outcome)
    ELSE IF abort[r] /\ m.outcome # "committed" THEN Rejected(TRUE, TRUE, "none")
    ELSE Resolved(m.outcome)

Received == Head(toClient)

ReceiveResponse ==
    /\ Turn
    /\ ~lost
    /\ toClient # <<>>
    /\ Received.kind = "response"
    /\ LET r == Received.id IN
         /\ IF r \in Pending
            THEN /\ Settle(r, ResponseVerdict(r, Received))
                 /\ control' = IF abort[r] THEN [control EXCEPT ![r] = "gone"] ELSE control
            ELSE UNCHANGED <<phase, verdict, control>>
    /\ toClient' = Tail(toClient)
    /\ UNCHANGED <<policy, abort, refused, receipt, session, agent, toAgent>>

\* The answer to a cancel control.
ReceiveCancelReply ==
    /\ Turn
    /\ ~lost
    /\ toClient # <<>>
    /\ Received.kind = "cancelReply"
    /\ LET r == Received.id
           m == Received
           matched == control[r] = "waiting" /\ r \in Pending
       IN  /\ control' = [control EXCEPT ![r] = "gone"]
           /\ refused' = [refused EXCEPT ![r] = @ \/ (matched /\ m.error)]
           /\ receipt' = [receipt EXCEPT ![r] =
                             @ \/ (matched /\ ~m.error /\ m.outcome = "committed")]
           /\ IF matched /\ ~m.error /\ m.outcome # "committed"
              THEN Settle(r, Rejected(TRUE, TRUE, m.outcome))
              ELSE UNCHANGED <<phase, verdict>>
    /\ toClient' = Tail(toClient)
    /\ UNCHANGED <<policy, abort, session, agent, toAgent>>

\* A line that is not JSON is reported and dropped.
DropLine ==
    /\ Turn
    /\ ~lost
    /\ toClient # <<>>
    /\ garbled < MaxGarbled
    /\ garbled' = garbled + 1
    /\ toClient' = Tail(toClient)
    /\ UNCHANGED <<client, intake, drain, lost, agent, toAgent>>

-----------------------------------------------------------------------------
(* The client: drain and close *)

\* beginDrain and the first test of waitForDrain.
StartDrain ==
    /\ drain \in {"idle", "timeout"}
    /\ intake' = FALSE
    /\ drain' = IF Pending = {} THEN "drained" ELSE "waiting"
    /\ UNCHANGED <<client, lost, garbled, agent, pipes>>

\* Mutation: cancelled requests are left out of pendingRequestCount.
PollDrainUncancelled ==
    /\ Turn
    /\ drain = "waiting"
    /\ drain' = IF \A r \in Pending : abort[r] THEN "drained" ELSE "timeout"
    /\ UNCHANGED <<client, intake, lost, garbled, agent, pipes>>

\* Its polling timer.
PollDrain ==
    /\ Turn
    /\ drain = "waiting"
    /\ drain' = IF Pending = {} THEN "drained" ELSE "timeout"
    /\ UNCHANGED <<client, intake, lost, garbled, agent, pipes>>

\* close: the requests whose write failed are told what may have happened, all
\* others only that the transport is gone.
Close(unwritten) ==
    /\ lost' = TRUE
    /\ phase' = [r \in Request |-> IF r \in Pending THEN "done" ELSE phase[r]]
    /\ verdict' = [r \in Request |->
           IF r \notin Pending THEN verdict[r]
           ELSE Rejected(FALSE, FALSE,
                   IF r \in unwritten /\ policy[r] = "two_phase_mutation"
                   THEN "indeterminate" ELSE "none")]
    /\ control' = [r \in Request |-> IF control[r] = "waiting" THEN "gone" ELSE control[r]]

\* dispose, a protocol failure, a read error.
Dispose ==
    /\ ~lost
    /\ Close({})
    /\ UNCHANGED <<policy, abort, refused, receipt, intake, drain, garbled, agent, pipes>>

\* Writing fails: handleWriteFailure for the requests still unwritten, then close.
PipeBreaks ==
    /\ Turn
    /\ ~lost
    /\ \E unwritten \in SUBSET {r \in Pending :
           \E i \in DOMAIN toAgent : toAgent[i] = Message("request", r)} :
         unwritten # {} /\ Close(unwritten)
    /\ UNCHANGED <<policy, abort, refused, receipt, intake, drain, garbled, agent, pipes>>

\* The child's exit event; what it still had in the pipe may go unread.
NoticeExit ==
    /\ Turn
    /\ ~lost
    /\ ~alive
    /\ Close({})
    /\ UNCHANGED <<policy, abort, refused, receipt, intake, drain, garbled, agent, pipes>>

-----------------------------------------------------------------------------
(* The agent: handleLine *)

ReceiveRequest ==
    /\ alive
    /\ toAgent # <<>>
    /\ Head(toAgent).kind = "request"
    /\ LET r == Head(toAgent).id IN
         /\ stage' = [stage EXCEPT ![r] = "running"]
         /\ step' = [step EXCEPT ![r] =
                CASE policy[r] = "two_phase_mutation" -> "precommit"
                  [] policy[r] = "execution" -> "execution"
                  [] policy[r] = "unsupported" -> "none"]
    /\ toAgent' = Tail(toAgent)
    /\ UNCHANGED <<client, session, failed, wanted, waiting, procs, quiet, memory, alive, toClient>>

InMemory(r) == \E i \in DOMAIN memory : memory[i] = r

\* Mutation: a cancellation that finds the commit under way is turned down.
ReceiveCancelRequestBeforeCommit ==
    /\ alive
    /\ toAgent # <<>>
    /\ Head(toAgent).kind = "cancelRequest"
    /\ LET r == Head(toAgent).id
           live == Scoped(r) /\ Executing(r) /\ step[r] # "commit"
       IN  /\ wanted' = [wanted EXCEPT ![r] = @ \/ live]
           /\ waiting' = [waiting EXCEPT ![r] = @ \/ live]
           /\ toClient' = IF live THEN toClient
                          ELSE IF InMemory(r) /\ quiet[r]
                          THEN Append(toClient, CancelReply(r, TRUE, Outcome(r)))
                          ELSE Append(toClient, CancelReply(r, FALSE, "none"))
    /\ toAgent' = Tail(toAgent)
    /\ UNCHANGED <<client, session, stage, step, failed, procs, quiet, memory, alive>>

\* cancelScopedRequest: answered at once for a remembered or an unknown
\* request, else after scope.done.
ReceiveCancelRequest ==
    /\ alive
    /\ toAgent # <<>>
    /\ Head(toAgent).kind = "cancelRequest"
    /\ LET r == Head(toAgent).id
           live == Scoped(r) /\ Executing(r)
       IN  /\ wanted' = [wanted EXCEPT ![r] = @ \/ live]
           /\ waiting' = [waiting EXCEPT ![r] = @ \/ live]
           /\ toClient' = IF live THEN toClient
                          ELSE IF InMemory(r) /\ quiet[r]
                          THEN Append(toClient, CancelReply(r, TRUE, Outcome(r)))
                          ELSE Append(toClient, CancelReply(r, FALSE, "none"))
    /\ toAgent' = Tail(toAgent)
    /\ UNCHANGED <<client, session, stage, step, failed, procs, quiet, memory, alive>>

\* Mutation: the cancellation is acknowledged without waiting for scope.done.
AnswerCancelRequestEarly(r) ==
    /\ alive
    /\ waiting[r]
    /\ waiting' = [waiting EXCEPT ![r] = FALSE]
    /\ toClient' = Append(toClient, CancelReply(r, TRUE, Outcome(r)))
    /\ UNCHANGED <<client, session, stage, step, failed, wanted, procs, quiet, memory, alive, toAgent>>

\* scope.done has resolved.
AnswerCancelRequest(r) ==
    /\ alive
    /\ waiting[r]
    /\ stage[r] = "done"
    /\ waiting' = [waiting EXCEPT ![r] = FALSE]
    /\ toClient' = Append(toClient, CancelReply(r, quiet[r], IF quiet[r] THEN Outcome(r) ELSE "none"))
    /\ UNCHANGED <<client, session, stage, step, failed, wanted, procs, quiet, memory, alive, toAgent>>

-----------------------------------------------------------------------------
(* The agent: the handler of a request *)

Running(r) == alive /\ stage[r] = "running"

StartProcess(r) ==
    /\ Running(r)
    /\ Scoped(r)
    /\ procs' = [procs EXCEPT ![r] = TRUE]
    /\ UNCHANGED <<client, session, stage, step, failed, wanted, waiting, quiet, memory, alive, pipes>>

\* By itself, or terminated by a cancellation.
ProcessesEnd(r) ==
    /\ procs[r]
    /\ procs' = [procs EXCEPT ![r] = FALSE]
    /\ UNCHANGED <<client, session, stage, step, failed, wanted, waiting, quiet, memory, alive, pipes>>

\* beginCurrentRequestCommit
BeginCommit(r) ==
    /\ Running(r)
    /\ step[r] = "precommit"
    /\ ~wanted[r]
    /\ step' = [step EXCEPT ![r] = "commit"]
    /\ UNCHANGED <<client, session, stage, failed, wanted, waiting, procs, quiet, memory, alive, pipes>>

\* completeCurrentRequestCommit
CompleteCommit(r) ==
    /\ Running(r)
    /\ step[r] = "commit"
    /\ step' = [step EXCEPT ![r] = "committed"]
    /\ UNCHANGED <<client, session, stage, failed, wanted, waiting, procs, quiet, memory, alive, pipes>>

\* Mutation: an error inside the commit is passed on like any other.
EndHandlerPlain(r, error) ==
    /\ Running(r)
    /\ Scoped(r)
    /\ step[r] = "commit" => error
    /\ stage' = [stage EXCEPT ![r] = "finalizing"]
    /\ step' = [step EXCEPT ![r] = IF @ = "commit" THEN "precommit" ELSE @]
    /\ failed' = [failed EXCEPT ![r] = error]
    /\ UNCHANGED <<client, session, wanted, waiting, procs, quiet, memory, alive, pipes>>

\* The handler returns, or throws: mutationCommitFailureError turns an error
\* inside the commit into an indeterminate outcome.
EndHandler(r, error) ==
    /\ Running(r)
    /\ Scoped(r)
    /\ step[r] = "commit" => error
    /\ stage' = [stage EXCEPT ![r] = "finalizing"]
    /\ step' = [step EXCEPT ![r] = IF @ = "commit" THEN "indeterminate" ELSE @]
    /\ failed' = [failed EXCEPT ![r] = error]
    /\ UNCHANGED <<client, session, wanted, waiting, procs, quiet, memory, alive, pipes>>

\* Mutation: the memory of completed requests grows without bound.
RememberAll(r) == Append(memory, r)

Remember(r) ==
    LET m == Append(memory, r) IN IF Len(m) > MemoryLimit THEN Tail(m) ELSE m

\* Mutation: a cancelled request never sends its own response.
FinalizeSilently(r, verified, left) ==
    /\ alive
    /\ stage[r] = "finalizing"
    /\ verified => ~left
    /\ left => procs[r]
    /\ LET error == failed[r] \/ ~verified
       IN  /\ failed' = [failed EXCEPT ![r] = error]
           /\ toClient' = IF wanted[r] THEN toClient
                          ELSE Append(toClient, Response(r, error, verified, Outcome(r)))
    /\ procs' = [procs EXCEPT ![r] = left]
    /\ quiet' = [quiet EXCEPT ![r] = verified]
    /\ stage' = [stage EXCEPT ![r] = "done"]
    /\ memory' = Remember(r)
    /\ UNCHANGED <<client, session, step, wanted, waiting, alive, toAgent>>

\* finalizeRequestProcessCustody has answered: the rest of handleLine's finally.
\* A cancelled request sends its own response only if it has an outcome to tell.
Finalize(r, verified, left) ==
    /\ alive
    /\ stage[r] = "finalizing"
    /\ verified => ~left
    /\ left => procs[r]
    /\ LET error == failed[r] \/ ~verified
           told  == ~wanted[r] \/ Outcome(r) # "none"
       IN  /\ failed' = [failed EXCEPT ![r] = error]
           /\ toClient' = IF told THEN Append(toClient, Response(r, error, verified, Outcome(r)))
                                  ELSE toClient
    /\ procs' = [procs EXCEPT ![r] = left]
    /\ quiet' = [quiet EXCEPT ![r] = verified]
    /\ stage' = [stage EXCEPT ![r] = "done"]
    /\ memory' = Remember(r)
    /\ UNCHANGED <<client, session, step, wanted, waiting, alive, toAgent>>

\* A handler without a scope.
EndUnscoped(r, error) ==
    /\ Running(r)
    /\ ~Scoped(r)
    /\ stage' = [stage EXCEPT ![r] = "done"]
    /\ failed' = [failed EXCEPT ![r] = error]
    /\ toClient' = Append(toClient, Response(r, error, FALSE, "none"))
    /\ UNCHANGED <<client, session, step, wanted, waiting, procs, quiet, memory, alive, toAgent>>

AgentExits ==
    /\ alive
    /\ alive' = FALSE
    /\ UNCHANGED <<client, session, stage, step, failed, wanted, waiting, procs, quiet, memory, pipes>>

-----------------------------------------------------------------------------
Handler(r) ==
    \/ \E e \in BOOLEAN : EndHandler(r, e) \/ EndUnscoped(r, e)
    \/ \E v, l \in BOOLEAN : Finalize(r, v, l)

Next ==
    \/ \E r \in Request :
         \/ Gate(r) \/ Send(r) \/ NotSent(r) \/ Cancel(r)
         \/ AnswerCancelRequest(r)
         \/ StartProcess(r) \/ ProcessesEnd(r)
         \/ BeginCommit(r) \/ CompleteCommit(r)
         \/ Handler(r)
    \/ ReceiveResponse \/ ReceiveCancelReply \/ DropLine
    \/ StartDrain \/ PollDrain
    \/ Dispose \/ PipeBreaks \/ NoticeExit
    \/ ReceiveRequest \/ ReceiveCancelRequest
    \/ AgentExits

Spec == Init /\ [][Next]_vars

\* Microtasks run, lines in a pipe are read, a handler ends (every command and
\* every file operation the agent runs has its own time limit) and an exit is
\* noticed.  Nobody has to cancel, drain or dispose.
Fairness ==
    /\ WF_vars(ReceiveRequest \/ ReceiveCancelRequest)
    /\ WF_vars(ReceiveResponse \/ ReceiveCancelReply)
    /\ WF_vars(NoticeExit)
    /\ \A r \in Request :
         WF_vars(Send(r)) /\ WF_vars(Handler(r)) /\ WF_vars(AnswerCancelRequest(r))

FairSpec == Spec /\ Fairness
-----------------------------------------------------------------------------
(* Properties *)

TypeOK ==
    /\ phase \in [Request -> {"idle", "gated", "pending", "done"}]
    /\ policy \in [Request -> Policies]
    /\ abort \in [Request -> BOOLEAN]
    /\ control \in [Request -> {"none", "waiting", "gone"}]
    /\ refused \in [Request -> BOOLEAN]
    /\ receipt \in [Request -> BOOLEAN]
    /\ \A r \in Request : IF phase[r] = "done" THEN verdict[r] \in Verdict
                                                ELSE verdict[r] = NoVerdict
    /\ verdict \in [Request -> Verdict \cup {NoVerdict}]
    /\ intake \in BOOLEAN
    /\ drain \in {"idle", "waiting", "drained", "timeout"}
    /\ lost \in BOOLEAN
    /\ garbled \in 0..MaxGarbled
    /\ stage \in [Request -> {"none", "running", "finalizing", "done"}]
    /\ step \in [Request -> {"none", "execution", "precommit", "commit",
                              "committed", "indeterminate"}]
    /\ failed \in [Request -> BOOLEAN]
    /\ wanted \in [Request -> BOOLEAN]
    /\ waiting \in [Request -> BOOLEAN]
    /\ procs \in [Request -> BOOLEAN]
    /\ quiet \in [Request -> BOOLEAN]
    /\ memory \in Seq(Request)
    /\ Len(memory) <= MemoryLimit
    /\ alive \in BOOLEAN
    /\ toAgent \in Seq(ToAgent)
    /\ toClient \in Seq(ToClient)

Settled(r) == phase[r] = "done"

\* A request whose execution was acknowledged as cancelled and quiesced has
\* stopped in the agent, and none of its processes lives, whatever crossed on
\* the pipes: before, during and after the commit, answered from memory or by
\* the original response.
AckMeansQuiet ==
    \A r \in Request : Settled(r) /\ verdict[r].acknowledged =>
        ~Executing(r) /\ ~procs[r]

\* A caller that hears of an outcome hears the true one, and a caller that is
\* told the backend has quiesced hears whether its mutation was committed, was
\* left half done or never began; only a lost transport leaves it open.
OutcomeIsExact ==
    \A r \in Request : Settled(r) /\ Scoped(r) =>
        /\ verdict[r].quiesced => verdict[r].outcome = Outcome(r)
        /\ verdict[r].outcome = "committed" => Outcome(r) = "committed"

OnItsWay(r) == \E i \in DOMAIN toAgent : toAgent[i] = Message("request", r)

\* The session owns whatever the agent may still do for it: a request is in
\* the drain account from the moment it is written until its handler ended,
\* deadlines and cancellations notwithstanding.
OwnershipKept ==
    ~lost => \A r \in Request : OnItsWay(r) \/ Executing(r) => r \in Pending

\* waitForDrain says drained only at a moment when the agent runs nothing and
\* nothing is on its way to it, unless the transport is lost.
DrainReportIsTrue ==
    [][drain # "drained" /\ drain' = "drained" =>
         lost \/ \A r \in Request : ~OnItsWay(r) /\ ~Executing(r)]_vars

\* A refused cancellation leaves its request pending only if the agent has
\* failed to prove quiescence, has forgotten the request, or will answer it
\* anyhow because it has no scope.
RefusalIsReal ==
    \A r \in Pending : refused[r] /\ Scoped(r) =>
        stage[r] = "done" /\ (~quiet[r] \/ garbled > 0)

\* Every request is answered in the end, or the transport is lost, or it was
\* cancelled and the agent could not prove that it stopped.
RequestConcludes ==
    \A r \in Request :
        phase[r] = "pending" ~>
            Settled(r) \/ (abort[r] /\ stage[r] = "done" /\ ~quiet[r]) \/ garbled > 0

\* m settles r: its own response, or the acknowledgement of its cancellation
\* that names no commit.
Settles(m, r) ==
    /\ m.id = r
    /\ m.kind = "response" \/ (~m.error /\ m.outcome # "committed")

\* The safety half of RequestConcludes: nobody waits for an answer that cannot
\* come.  Unless a line was lost, a pending request is on its way, in the
\* agent, or has its answer in the pipe or the acknowledgement of its
\* cancellation still to be written; the exception is a cancelled request
\* whose end the agent could not prove and that has no outcome to tell.
AnswerIsOwed ==
    \A r \in Pending : garbled = 0 =>
        \/ OnItsWay(r)
        \/ Executing(r)
        \/ \E i \in DOMAIN toClient : Settles(toClient[i], r)
        \/ waiting[r] /\ control[r] = "waiting" /\ stage[r] = "done"
        \/ /\ stage[r] = "done" /\ Scoped(r) /\ wanted[r]
           /\ ~quiet[r] /\ Outcome(r) = "none"

\* The caller's view of the session, as the contract has it.
Effect(r) ==
    CASE step[r] = "commit" -> "underway"
      [] step[r] \in {"committed", "indeterminate"} -> step[r]
      [] OTHER -> "none"

Told(r) ==
    CASE ~Settled(r) -> "nothing"
      [] Settled(r) /\ verdict[r].quiesced -> verdict[r].outcome
      [] OTHER -> "unsure"

Contract == INSTANCE BackendContract WITH
    held <- Pending,
    effect <- [r \in Request |-> Effect(r)],
    told <- [r \in Request |-> Told(r)]

\* Client, pipes and agent together keep the contract: nothing is committed for
\* a request its caller does not hold, and no answer names an outcome that is
\* not final.
KeepsContract == Contract!Spec

\* The workspace has changed on behalf of the request.
Changed(r) ==
    \/ step[r] = "committed"
    \/ ~Scoped(r) /\ stage[r] = "done" /\ ~failed[r]

\* A late committed mutation result wins over the cancellation or the deadline
\* (doc), for every method the agent serves.
LateCommitWins ==
    \A r \in Request : Settled(r) /\ verdict[r].quiesced /\ Changed(r) =>
        verdict[r].resolved \/ verdict[r].outcome = "committed"
=============================================================================
