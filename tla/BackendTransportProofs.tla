----------------------- MODULE BackendTransportProofs -----------------------
(***************************************************************************)
(* Theorems about the backend transport, for any requests, any mixture of  *)
(* policies, any memory of completed requests and any number of lines      *)
(* lost.                                                                   *)
(*                                                                         *)
(* The inductive invariant TransportInv follows a request on its way: out  *)
(* through one pipe (PathInv), through its scope in the agent (ScopeInv),  *)
(* back through the other (MessageInv) and into the caller's promise       *)
(* (VerdictInv).  RefusalInv adds the order of the messages in both pipes. *)
(* OwedInv adds the answers that the agent owes and where each one is.     *)
(***************************************************************************)
EXTENDS BackendTransport, SequenceTheorems, TLAPS

-----------------------------------------------------------------------------
(***************************************************************************)
(* The inductive invariant                                                 *)
(***************************************************************************)
In(x, s) == \E i \in DOMAIN s : s[i] = x

\* No request is written twice.
OneRequestEach ==
    \A i, j \in DOMAIN toAgent :
        toAgent[i] = toAgent[j] /\ toAgent[i].kind = "request" => i = j

\* Before it is sent a request is unknown to the agent; once the agent has it,
\* nothing of it is left in the pipe.
PathInv(r) ==
    /\ phase[r] \in {"idle", "gated"} => ~OnItsWay(r) /\ stage[r] = "none"
    /\ OnItsWay(r) => stage[r] = "none"
    /\ ~lost /\ (OnItsWay(r) \/ Executing(r)) => phase[r] = "pending"

\* The scope of a request in the agent.
ScopeInv(r) ==
    /\ stage[r] = "none" => step[r] = "none"
    /\ ~Scoped(r) => step[r] = "none" /\ ~procs[r] /\ stage[r] # "finalizing"
    /\ step[r] = "commit" => stage[r] = "running"
    /\ step[r] = "indeterminate" /\ stage[r] = "finalizing" => failed[r]
    /\ stage[r] = "running" => step[r] # "indeterminate"
    /\ procs[r] => stage[r] # "none"
    /\ quiet[r] => stage[r] = "done" /\ ~procs[r]

\* What is known of a request whose end the client has been told of.
Over(r) == stage[r] = "done" /\ ~procs[r] /\ (Scoped(r) => quiet[r])

\* Messages to the client are true when they are sent and stay true.
MessageInv(m) ==
    /\ m.kind = "response" =>
         /\ stage[m.id] = "done"
         /\ m.outcome = Outcome(m.id)
         /\ ~m.error \/ m.quiesced => Over(m.id)
         /\ m.outcome = "indeterminate" => m.error
    /\ m.kind = "cancelReply" /\ ~m.error =>
         m.outcome = Outcome(m.id) /\ Over(m.id)

ReceiptInv(r) == receipt[r] => Over(r) /\ Outcome(r) = "committed"

\* A verdict that claims quiescence is final, and no verdict invents a commit.
VerdictInv(r) ==
    Settled(r) =>
        /\ verdict[r].quiesced =>
             /\ ~OnItsWay(r) /\ stage[r] \in {"none", "done"} /\ ~procs[r]
             /\ verdict[r].outcome = Outcome(r)
        /\ verdict[r].acknowledged => verdict[r].quiesced
        /\ verdict[r].outcome = "committed" => step[r] = "committed"

RequestInv(r) == PathInv(r) /\ ScopeInv(r) /\ ReceiptInv(r) /\ VerdictInv(r)

TransportInv ==
    /\ TypeOK
    /\ OneRequestEach
    /\ \A r \in Request : RequestInv(r)
    /\ \A m \in ToClient : In(m, toClient) => MessageInv(m)

-----------------------------------------------------------------------------
(***************************************************************************)
(* Pipes                                                                   *)
(***************************************************************************)

\* Writing to a pipe.
LEMMA AppendIn ==
    ASSUME NEW S, NEW s \in Seq(S), NEW e \in S
    PROVE  /\ Append(s, e) \in Seq(S)
           /\ Len(Append(s, e)) = Len(s) + 1
           /\ \A x : In(x, Append(s, e)) <=> In(x, s) \/ x = e
<1> DEFINE t == Append(s, e)
<1>1. /\ t \in Seq(S)
      /\ Len(t) = Len(s) + 1
      /\ \A i \in 1..Len(s) : t[i] = s[i]
      /\ t[Len(s) + 1] = e
  BY AppendProperties
<1>2. Len(s) \in Nat /\ DOMAIN s = 1..Len(s)
  BY LenProperties
<1>3. DOMAIN t = 1..(Len(s) + 1)
  BY <1>1, LenProperties
<1> HIDE DEF t
<1>4. \A x : In(x, t) <=> In(x, s) \/ x = e
  BY <1>1, <1>2, <1>3 DEF In
<1> QED
  BY <1>1, <1>4 DEF t

\* Reading from a pipe.
LEMMA TailIn ==
    ASSUME NEW S, NEW s \in Seq(S), s # <<>>
    PROVE  /\ Head(s) \in S
           /\ In(Head(s), s)
           /\ Tail(s) \in Seq(S)
           /\ Len(Tail(s)) = Len(s) - 1
           /\ \A x : In(x, Tail(s)) => In(x, s)
<1> DEFINE t == Tail(s)
<1>1. /\ Head(s) \in S
      /\ t \in Seq(S)
      /\ Len(t) = Len(s) - 1
      /\ \A i \in 1..Len(t) : t[i] = s[i + 1]
  BY HeadTailProperties
<1>2. /\ Len(s) \in Nat \ {0}
      /\ DOMAIN s = 1..Len(s)
      /\ Head(s) = s[1]
  BY LenProperties, EmptySeq
<1>3. DOMAIN t = 1..Len(t)
  BY <1>1, LenProperties
<1> HIDE DEF t
<1>4. In(Head(s), s)
  BY <1>2 DEF In
<1>5. \A x : In(x, t) => In(x, s)
  BY <1>1, <1>2, <1>3 DEF In
<1> QED
  BY <1>1, <1>4, <1>5 DEF t

\* A request written for the first time keeps requests distinct.
LEMMA WriteDistinct ==
    ASSUME toAgent \in Seq(ToAgent), OneRequestEach,
           NEW m \in ToAgent, m.kind = "request" => ~In(m, toAgent),
           toAgent' = Append(toAgent, m)
    PROVE  OneRequestEach'
<1> DEFINE t == Append(toAgent, m)
<1>1. /\ t \in Seq(ToAgent)
      /\ Len(t) = Len(toAgent) + 1
      /\ \A i \in 1..Len(toAgent) : t[i] = toAgent[i]
      /\ t[Len(toAgent) + 1] = m
  BY AppendProperties
<1>2. Len(toAgent) \in Nat /\ DOMAIN toAgent = 1..Len(toAgent)
  BY LenProperties
<1>3. DOMAIN t = 1..(Len(toAgent) + 1)
  BY <1>1, LenProperties
<1> HIDE DEF t
<1>4. ASSUME NEW i \in DOMAIN t, NEW j \in DOMAIN t, t[i] = t[j], t[i].kind = "request"
      PROVE  i = j
  <2>1. CASE i <= Len(toAgent) /\ j <= Len(toAgent)
    BY <1>1, <1>2, <1>3, <1>4, <2>1 DEF OneRequestEach
  <2>2. CASE ~(i <= Len(toAgent)) /\ j <= Len(toAgent)
    BY <1>1, <1>2, <1>3, <1>4, <2>2 DEF In
  <2>3. CASE i <= Len(toAgent) /\ ~(j <= Len(toAgent))
    BY <1>1, <1>2, <1>3, <1>4, <2>3 DEF In
  <2>4. CASE ~(i <= Len(toAgent)) /\ ~(j <= Len(toAgent))
    BY <1>2, <1>3, <2>4
  <2> QED
    BY <2>1, <2>2, <2>3, <2>4
<1> QED
  BY <1>4 DEF OneRequestEach, t

\* A request that has been read is gone from the pipe.
LEMMA ReadDistinct ==
    ASSUME toAgent \in Seq(ToAgent), OneRequestEach, toAgent # <<>>,
           toAgent' = Tail(toAgent)
    PROVE  /\ OneRequestEach'
           /\ Head(toAgent).kind = "request" => ~In(Head(toAgent), toAgent')
<1> DEFINE t == Tail(toAgent)
<1>1. /\ t \in Seq(ToAgent)
      /\ Len(t) = Len(toAgent) - 1
      /\ \A i \in 1..Len(t) : t[i] = toAgent[i + 1]
  BY HeadTailProperties
<1>2. /\ Len(toAgent) \in Nat \ {0}
      /\ DOMAIN toAgent = 1..Len(toAgent)
      /\ Head(toAgent) = toAgent[1]
  BY LenProperties, EmptySeq
<1>3. DOMAIN t = 1..Len(t)
  BY <1>1, LenProperties
<1> HIDE DEF t
<1>4. ASSUME NEW i \in DOMAIN t, NEW j \in DOMAIN t, t[i] = t[j], t[i].kind = "request"
      PROVE  i = j
  <2>1. i + 1 \in DOMAIN toAgent /\ j + 1 \in DOMAIN toAgent
    BY <1>1, <1>2, <1>3
  <2>2. i + 1 = j + 1
    BY <1>1, <1>3, <1>4, <2>1 DEF OneRequestEach
  <2> QED
    BY <1>1, <1>2, <1>3, <2>2
<1>5. ASSUME Head(toAgent).kind = "request", NEW i \in DOMAIN t, t[i] = Head(toAgent)
      PROVE  FALSE
  <2>1. i + 1 \in DOMAIN toAgent /\ 1 \in DOMAIN toAgent /\ i + 1 # 1
    BY <1>1, <1>2, <1>3
  <2> QED
    BY <1>1, <1>2, <1>3, <1>5, <2>1 DEF OneRequestEach
<1> QED
  BY <1>4, <1>5 DEF OneRequestEach, In, t

-----------------------------------------------------------------------------
(***************************************************************************)
(* The client                                                              *)
(***************************************************************************)

\* A message's truth depends on nothing the client does.
LEMMA MessagesKeep ==
    ASSUME \A m \in ToClient : In(m, toClient) => MessageInv(m),
           \A m : In(m, toClient') => In(m, toClient),
           UNCHANGED <<policy, agent>>
    PROVE  (\A m \in ToClient : In(m, toClient) => MessageInv(m))'
  BY DEF MessageInv, Outcome, Over, Scoped, agent

LEMMA GateKeeps ==
    ASSUME TransportInv, NEW r \in Request, Gate(r)
    PROVE  TransportInv'
<1> USE DEF TransportInv, Gate, client, session, agent, pipes
<1>1. TypeOK'
  BY DEF TypeOK
<1>2. OneRequestEach'
  BY DEF OneRequestEach
<1>3. ASSUME NEW q \in Request PROVE RequestInv(q)'
  BY DEF TypeOK, RequestInv, PathInv, ScopeInv, ReceiptInv, VerdictInv, OnItsWay, Executing,
     Settled, Over, Outcome, Scoped
<1>4. (\A m \in ToClient : In(m, toClient) => MessageInv(m))'
  BY MessagesKeep
<1> QED
  BY <1>1, <1>2, <1>3, <1>4

LEMMA SendKeeps ==
    ASSUME TransportInv, NEW r \in Request, Send(r)
    PROVE  TransportInv'
<1> USE DEF TransportInv, Send, client, session, agent, pipes
<1> DEFINE m == Message("request", r)
<1>1. m \in ToAgent /\ m.kind = "request" /\ \A q : OnItsWay(q) <=> In(Message("request", q), toAgent)
  BY DEF ToAgent, Message, OnItsWay, In
<1>2. ~In(m, toAgent)
  BY <1>1 DEF RequestInv, PathInv
<1>3. /\ toAgent' \in Seq(ToAgent)
      /\ \A x : In(x, toAgent') <=> In(x, toAgent) \/ x = m
  BY <1>1, AppendIn DEF TypeOK
<1>4. TypeOK'
  BY <1>3 DEF TypeOK
<1>5. OneRequestEach'
  BY <1>1, <1>2, WriteDistinct DEF TypeOK
<1>6. ASSUME NEW q \in Request PROVE OnItsWay(q)' <=> OnItsWay(q) \/ q = r
  BY <1>3 DEF OnItsWay, In, Message
<1>7. ASSUME NEW q \in Request PROVE RequestInv(q)'
  BY <1>6 DEF TypeOK, RequestInv, PathInv, ScopeInv, ReceiptInv, VerdictInv, Executing,
     Settled, Over, Outcome, Scoped
<1>8. (\A x \in ToClient : In(x, toClient) => MessageInv(x))'
  BY MessagesKeep
<1> QED
  BY <1>4, <1>5, <1>7, <1>8

LEMMA NotSentKeeps ==
    ASSUME TransportInv, NEW r \in Request, NotSent(r)
    PROVE  TransportInv'
<1> USE DEF TransportInv, NotSent, client, session, agent, pipes
<1>1. TypeOK'
  BY DEF TypeOK, Rejected, Verdict, Outcomes
<1>2. OneRequestEach'
  BY DEF OneRequestEach
<1>3. ASSUME NEW q \in Request PROVE RequestInv(q)'
  <2>1. CASE q = r
    BY <2>1 DEF TypeOK, RequestInv, PathInv, ScopeInv, ReceiptInv, VerdictInv, OnItsWay,
       Executing, Settled, Over, Outcome, Scoped, Rejected
  <2>2. CASE q # r
    BY <2>2 DEF TypeOK, RequestInv, PathInv, ScopeInv, ReceiptInv, VerdictInv, OnItsWay,
       Executing, Settled, Over, Outcome, Scoped
  <2> QED
    BY <2>1, <2>2
<1>4. (\A m \in ToClient : In(m, toClient) => MessageInv(m))'
  BY MessagesKeep
<1> QED
  BY <1>1, <1>2, <1>3, <1>4

LEMMA CancelKeeps ==
    ASSUME TransportInv, NEW r \in Request, Cancel(r)
    PROVE  TransportInv'
<1> USE DEF TransportInv, Cancel, client, session, agent, pipes
<1> DEFINE m == Message("cancelRequest", r)
<1>1. m \in ToAgent /\ m.kind # "request"
  BY DEF ToAgent, Message
<1>2. /\ toAgent' \in Seq(ToAgent)
      /\ \A x : In(x, toAgent') <=> In(x, toAgent) \/ x = m
  BY <1>1, AppendIn DEF TypeOK
<1>3. TypeOK'
  BY <1>2 DEF TypeOK
<1>4. OneRequestEach'
  BY <1>1, WriteDistinct DEF TypeOK
<1>5. ASSUME NEW q \in Request PROVE OnItsWay(q)' <=> OnItsWay(q)
  BY <1>2 DEF OnItsWay, In, Message
<1>6. ASSUME NEW q \in Request PROVE RequestInv(q)'
  BY <1>5 DEF TypeOK, RequestInv, PathInv, ScopeInv, ReceiptInv, VerdictInv, Executing,
     Settled, Over, Outcome, Scoped
<1>7. (\A x \in ToClient : In(x, toClient) => MessageInv(x))'
  BY MessagesKeep
<1> QED
  BY <1>3, <1>4, <1>6, <1>7

\* What the client knows when it takes a message off the pipe.
LEMMA Reading ==
    ASSUME TransportInv, toClient # <<>>
    PROVE  /\ Received \in ToClient
           /\ MessageInv(Received)
           /\ Tail(toClient) \in Seq(ToClient)
           /\ \A x : In(x, Tail(toClient)) => In(x, toClient)
  BY TailIn DEF TransportInv, TypeOK, Received

LEMMA ReceiveResponseKeeps ==
    ASSUME TransportInv, ReceiveResponse
    PROVE  TransportInv'
<1> USE DEF TransportInv, client, session, agent, pipes
<1> DEFINE r == Received.id
           v == ResponseVerdict(r, Received)
<1>1. /\ Received \in ToClient
      /\ MessageInv(Received)
      /\ toClient' \in Seq(ToClient)
      /\ \A x : In(x, toClient') => In(x, toClient)
  BY Reading DEF ReceiveResponse
<1>2. /\ r \in Request
      /\ Received.kind = "response"
      /\ stage[r] = "done"
      /\ Received.error \in BOOLEAN /\ Received.quiesced \in BOOLEAN
      /\ Received.outcome = Outcome(r) /\ Outcome(r) \in Outcomes
      /\ ~Received.error \/ Received.quiesced => Over(r)
      /\ Received.outcome = "indeterminate" => Received.error
  BY <1>1 DEF ReceiveResponse, MessageInv, ToClient
<1>3. /\ v \in Verdict
      /\ v.quiesced => Over(r) /\ v.outcome = Outcome(r)
      /\ v.acknowledged => v.quiesced
      /\ v.outcome = "committed" => Outcome(r) = "committed"
  <2>1. receipt[r] => Over(r) /\ Outcome(r) = "committed"
    BY <1>2 DEF RequestInv, ReceiptInv
  <2>2. abort[r] \in BOOLEAN
    BY <1>2 DEF TypeOK
  <2>3. CASE receipt[r] /\ (Received.error \/ Received.outcome # "committed")
    BY <1>2, <2>1, <2>2, <2>3 DEF ResponseVerdict, Rejected, Verdict, Outcomes
  <2>4. CASE ~(receipt[r] /\ (Received.error \/ Received.outcome # "committed")) /\ Received.error
    BY <1>2, <2>2, <2>4 DEF ResponseVerdict, Rejected, Verdict
  <2>5. CASE ~(receipt[r] /\ (Received.error \/ Received.outcome # "committed")) /\ ~Received.error
    BY <1>2, <2>2, <2>5 DEF ResponseVerdict, Rejected, Resolved, Verdict, Outcomes
  <2> QED
    BY <2>3, <2>4, <2>5
<1> HIDE DEF v
<1>4. /\ phase' = IF r \in Pending THEN [phase EXCEPT ![r] = "done"] ELSE phase
      /\ verdict' = IF r \in Pending THEN [verdict EXCEPT ![r] = v] ELSE verdict
      /\ control' = IF r \in Pending /\ abort[r] THEN [control EXCEPT ![r] = "gone"] ELSE control
      /\ UNCHANGED <<policy, abort, refused, receipt, session, agent, toAgent>>
  BY DEF ReceiveResponse, Settle, v
<1>5. TypeOK'
  BY <1>1, <1>2, <1>3, <1>4 DEF TypeOK, Pending
<1>6. OneRequestEach'
  BY <1>4 DEF OneRequestEach
<1>7. ASSUME NEW q \in Request PROVE RequestInv(q)'
  <2>1. OnItsWay(q)' <=> OnItsWay(q)
    BY <1>4 DEF OnItsWay
  <2>2. CASE q = r /\ r \in Pending
    <3>1. ~OnItsWay(r) /\ ~Executing(r)
      BY <1>2 DEF RequestInv, PathInv, Executing
    <3> QED
      BY <1>2, <1>3, <1>4, <2>1, <2>2, <3>1 DEF TypeOK, RequestInv, PathInv, ScopeInv, ReceiptInv,
         VerdictInv, Executing, Settled, Over, Outcome, Scoped, Pending
  <2>3. CASE ~(q = r /\ r \in Pending)
    BY <1>2, <1>4, <2>1, <2>3 DEF TypeOK, RequestInv, PathInv, ScopeInv, ReceiptInv,
       VerdictInv, Executing, Settled, Over, Outcome, Scoped, Pending
  <2> QED
    BY <2>2, <2>3
<1>8. (\A m \in ToClient : In(m, toClient) => MessageInv(m))'
  BY <1>1, <1>4, MessagesKeep
<1> QED
  BY <1>5, <1>6, <1>7, <1>8

LEMMA ReceiveCancelReplyKeeps ==
    ASSUME TransportInv, ReceiveCancelReply
    PROVE  TransportInv'
<1> USE DEF TransportInv, client, session, agent, pipes
<1> DEFINE r == Received.id
           matched == control[r] = "waiting" /\ r \in Pending
           answers == matched /\ ~Received.error /\ Received.outcome # "committed"
           v == Rejected(TRUE, TRUE, Received.outcome)
<1>1. /\ Received \in ToClient
      /\ MessageInv(Received)
      /\ toClient' \in Seq(ToClient)
      /\ \A x : In(x, toClient') => In(x, toClient)
  BY Reading DEF ReceiveCancelReply
<1>2. /\ r \in Request
      /\ Received.error \in BOOLEAN
      /\ Received.outcome \in Outcomes
      /\ ~Received.error => Over(r) /\ Received.outcome = Outcome(r)
  BY <1>1 DEF ReceiveCancelReply, MessageInv, ToClient
<1>3. /\ v \in Verdict
      /\ v.quiesced /\ v.outcome = Received.outcome
  BY <1>2 DEF Rejected, Verdict
<1>4. /\ phase' = IF answers THEN [phase EXCEPT ![r] = "done"] ELSE phase
      /\ verdict' = IF answers THEN [verdict EXCEPT ![r] = v] ELSE verdict
      /\ control' = [control EXCEPT ![r] = "gone"]
      /\ refused' = [refused EXCEPT ![r] = @ \/ (matched /\ Received.error)]
      /\ receipt' = [receipt EXCEPT ![r] =
                        @ \/ (matched /\ ~Received.error /\ Received.outcome = "committed")]
      /\ UNCHANGED <<policy, abort, session, agent, toAgent>>
  BY DEF ReceiveCancelReply, Settle
<1> HIDE DEF v
<1>5. TypeOK'
  <2>1. /\ phase' \in [Request -> {"idle", "gated", "pending", "done"}]
        /\ control' \in [Request -> {"none", "waiting", "gone"}]
        /\ verdict' \in [Request -> Verdict \cup {NoVerdict}]
    BY <1>2, <1>3, <1>4 DEF TypeOK
  <2>2. refused' \in [Request -> BOOLEAN] /\ receipt' \in [Request -> BOOLEAN]
    BY <1>2, <1>4 DEF TypeOK
  <2>3. (\A q \in Request : IF phase[q] = "done" THEN verdict[q] \in Verdict
                                                 ELSE verdict[q] = NoVerdict)'
    BY <1>2, <1>3, <1>4 DEF TypeOK, Pending
  <2> QED
    BY <1>1, <1>4, <2>1, <2>2, <2>3 DEF TypeOK
<1>6. OneRequestEach'
  BY <1>4 DEF OneRequestEach
<1>7. ASSUME NEW q \in Request PROVE RequestInv(q)'
  <2>1. OnItsWay(q)' <=> OnItsWay(q)
    BY <1>4 DEF OnItsWay
  <2>2. CASE q = r /\ answers
    <3>1. /\ Over(r)
          /\ v.outcome = Outcome(r) /\ v.outcome # "committed"
      BY <1>2, <1>3, <2>2
    <3>2. ~OnItsWay(r) /\ ~Executing(r)
      BY <1>2, <3>1 DEF RequestInv, PathInv, Executing, Over
    <3>3. phase'[r] = "done" /\ verdict'[r] = v /\ receipt'[r] = receipt[r]
      BY <1>2, <1>4, <2>2 DEF TypeOK
    <3> QED
      BY <1>2, <1>3, <1>4, <2>1, <2>2, <3>1, <3>2, <3>3 DEF TypeOK, RequestInv, PathInv, ScopeInv,
         ReceiptInv, VerdictInv, Executing, Settled, Over, Outcome, Scoped
  <2>3. CASE ~(q = r /\ answers)
    <3>1. phase'[q] = phase[q] /\ verdict'[q] = verdict[q]
      BY <1>2, <1>4, <2>3 DEF TypeOK
    <3>2. receipt'[q] => receipt[q] \/ (Over(q) /\ Outcome(q) = "committed")
      BY <1>2, <1>4 DEF TypeOK
    <3> QED
      BY <1>4, <2>1, <3>1, <3>2 DEF RequestInv, PathInv, ScopeInv, ReceiptInv,
         VerdictInv, Executing, Settled, Over, Outcome, Scoped
  <2> QED
    BY <2>2, <2>3
<1>8. (\A m \in ToClient : In(m, toClient) => MessageInv(m))'
  BY <1>1, <1>4, MessagesKeep
<1> QED
  BY <1>5, <1>6, <1>7, <1>8

LEMMA DropLineKeeps ==
    ASSUME TransportInv, DropLine
    PROVE  TransportInv'
<1> USE DEF TransportInv, DropLine, client, session, agent, pipes
<1>1. /\ toClient' \in Seq(ToClient)
      /\ \A x : In(x, toClient') => In(x, toClient)
  BY Reading
<1>2. MaxGarbled \in Nat
  BY TransportAssumption
<1>3. TypeOK'
  BY <1>1, <1>2 DEF TypeOK
<1>4. OneRequestEach'
  BY DEF OneRequestEach
<1>5. ASSUME NEW q \in Request PROVE RequestInv(q)'
  BY DEF RequestInv, PathInv, ScopeInv, ReceiptInv, VerdictInv, OnItsWay, Executing,
     Settled, Over, Outcome, Scoped
<1>6. (\A m \in ToClient : In(m, toClient) => MessageInv(m))'
  BY <1>1, MessagesKeep
<1> QED
  BY <1>3, <1>4, <1>5, <1>6

\* A drain looks and reports.
LEMMA DrainKeeps ==
    ASSUME TransportInv, StartDrain \/ PollDrain
    PROVE  TransportInv'
<1> USE DEF TransportInv, StartDrain, PollDrain, client, session, agent, pipes
<1>1. TypeOK'
  BY DEF TypeOK
<1>2. OneRequestEach'
  BY DEF OneRequestEach
<1>3. ASSUME NEW q \in Request PROVE RequestInv(q)'
  BY DEF RequestInv, PathInv, ScopeInv, ReceiptInv, VerdictInv, OnItsWay, Executing,
     Settled, Over, Outcome, Scoped
<1>4. (\A m \in ToClient : In(m, toClient) => MessageInv(m))'
  BY MessagesKeep
<1> QED
  BY <1>1, <1>2, <1>3, <1>4

\* Losing the transport settles every request without a word of quiescence.
LEMMA CloseKeeps ==
    ASSUME TransportInv, Dispose \/ PipeBreaks \/ NoticeExit
    PROVE  TransportInv'
<1> USE DEF TransportInv, client, session, agent, pipes
<1>1. PICK unwritten : Close(unwritten)
  BY DEF Dispose, PipeBreaks, NoticeExit
<1>2. UNCHANGED <<policy, abort, refused, receipt, intake, drain, garbled, agent, pipes>>
  BY DEF Dispose, PipeBreaks, NoticeExit
<1>3. ASSUME NEW q \in Request
      PROVE  /\ phase'[q] = IF q \in Pending THEN "done" ELSE phase[q]
             /\ q \notin Pending => verdict'[q] = verdict[q]
             /\ q \in Pending =>
                  /\ verdict'[q] \in Verdict
                  /\ ~verdict'[q].quiesced /\ ~verdict'[q].acknowledged
                  /\ verdict'[q].outcome # "committed"
  BY <1>1 DEF Close, Rejected, Verdict, Outcomes
<1>4. /\ DOMAIN phase' = Request /\ phase' = [q \in Request |-> phase'[q]]
      /\ DOMAIN verdict' = Request /\ verdict' = [q \in Request |-> verdict'[q]]
      /\ control' \in [Request -> {"none", "waiting", "gone"}]
      /\ lost' = TRUE
  BY <1>1 DEF Close, TypeOK
<1>5. TypeOK'
  <2>1. phase' \in [Request -> {"idle", "gated", "pending", "done"}]
    BY <1>3, <1>4 DEF TypeOK
  <2>2. verdict' \in [Request -> Verdict \cup {NoVerdict}]
    BY <1>3, <1>4 DEF TypeOK
  <2>3. (\A q \in Request : IF phase[q] = "done" THEN verdict[q] \in Verdict
                                                 ELSE verdict[q] = NoVerdict)'
    BY <1>3 DEF TypeOK, Pending
  <2> QED
    BY <1>2, <1>4, <2>1, <2>2, <2>3 DEF TypeOK
<1>6. OneRequestEach'
  BY <1>2 DEF OneRequestEach
<1>7. ASSUME NEW q \in Request PROVE RequestInv(q)'
  <2>1. UNCHANGED <<OnItsWay(q), Executing(q), Scoped(q), Over(q), Outcome(q)>>
    BY <1>2 DEF OnItsWay, Executing, Scoped, Over, Outcome
  <2>2. PathInv(q)' /\ ScopeInv(q)' /\ ReceiptInv(q)'
    BY <1>2, <1>3, <1>4, <2>1 DEF RequestInv, PathInv, ScopeInv, ReceiptInv
  <2>3. VerdictInv(q)'
    BY <1>2, <1>3, <2>1 DEF RequestInv, VerdictInv, Settled
  <2> QED
    BY <2>2, <2>3 DEF RequestInv
<1>8. (\A m \in ToClient : In(m, toClient) => MessageInv(m))'
  BY <1>2, MessagesKeep
<1> QED
  BY <1>5, <1>6, <1>7, <1>8

-----------------------------------------------------------------------------
(***************************************************************************)
(* The agent                                                               *)
(***************************************************************************)

\* A step of the agent keeps what was said of requests that are done.
LEMMA ScopeMessagesKeep ==
    ASSUME \A m \in ToClient : In(m, toClient) => MessageInv(m),
           UNCHANGED policy,
           \A q \in Request : stage[q] = "done" => stage'[q] = "done" /\ Outcome(q)' = Outcome(q),
           \A q \in Request : Over(q) => Over(q)',
           \A m \in ToClient : In(m, toClient') => In(m, toClient) \/ MessageInv(m)'
    PROVE  (\A m \in ToClient : In(m, toClient) => MessageInv(m))'
<1> SUFFICES ASSUME NEW m \in ToClient, In(m, toClient), MessageInv(m)
             PROVE  MessageInv(m)'
  OBVIOUS
<1>1. m.id \in Request
  BY DEF ToClient
<1>2. CASE m.kind = "response"
  BY <1>1, <1>2 DEF MessageInv
<1>3. CASE m.kind = "cancelReply"
  BY <1>1, <1>3 DEF MessageInv, Over
<1> QED
  BY <1>2, <1>3 DEF ToClient

\* What the agent takes off its pipe.
LEMMA AgentReading ==
    ASSUME TransportInv, toAgent # <<>>, toAgent' = Tail(toAgent)
    PROVE  /\ Head(toAgent) \in ToAgent
           /\ toAgent' \in Seq(ToAgent)
           /\ OneRequestEach'
           /\ \A q \in Request : OnItsWay(q)' => OnItsWay(q)
           /\ \A q : Head(toAgent) = Message("request", q) => OnItsWay(q) /\ ~OnItsWay(q)'
<1>1. toAgent \in Seq(ToAgent)
  BY DEF TransportInv, TypeOK
<1>2. /\ Head(toAgent) \in ToAgent
      /\ In(Head(toAgent), toAgent)
      /\ toAgent' \in Seq(ToAgent)
      /\ \A x : In(x, toAgent') => In(x, toAgent)
  BY <1>1, TailIn
<1>3. /\ OneRequestEach'
      /\ Head(toAgent).kind = "request" => ~In(Head(toAgent), toAgent')
  BY <1>1, ReadDistinct DEF TransportInv
<1>4. /\ \A q : OnItsWay(q) <=> In(Message("request", q), toAgent)
      /\ \A q : OnItsWay(q)' <=> In(Message("request", q), toAgent')
  BY DEF OnItsWay, In
<1>5. \A q \in Request : OnItsWay(q)' => OnItsWay(q)
  BY <1>2, <1>4
<1>6. ASSUME NEW q, Head(toAgent) = Message("request", q)
      PROVE  OnItsWay(q) /\ ~OnItsWay(q)'
  <2>1. Head(toAgent).kind = "request"
    BY <1>6 DEF Message
  <2> QED
    BY <1>2, <1>3, <1>4, <1>6, <2>1
<1> QED
  BY <1>2, <1>3, <1>5, <1>6

LEMMA ReceiveRequestKeeps ==
    ASSUME TransportInv, ReceiveRequest
    PROVE  TransportInv'
<1> USE DEF TransportInv, client, session, agent, pipes
<1>0. PICK r \in Request : Head(toAgent) = Message("request", r)
  BY AgentReading DEF ReceiveRequest, ToAgent, Message
<1>1. /\ toAgent' \in Seq(ToAgent)
      /\ OneRequestEach'
      /\ \A q \in Request : OnItsWay(q)' => OnItsWay(q)
      /\ OnItsWay(r) /\ ~OnItsWay(r)'
      /\ Head(toAgent).id = r
  BY <1>0, AgentReading DEF ReceiveRequest, Message
<1>2. stage[r] = "none" /\ step[r] = "none" /\ ~procs[r] /\ ~quiet[r] /\ phase[r] \in {"pending", "done"}
  BY <1>1 DEF RequestInv, PathInv, ScopeInv, TypeOK
<1>3. PICK s : /\ step' = [step EXCEPT ![r] = s]
               /\ s = IF policy[r] = "two_phase_mutation" THEN "precommit"
                      ELSE IF policy[r] = "execution" THEN "execution" ELSE "none"
  <2>1. policy[r] \in {"execution", "two_phase_mutation", "unsupported"}
    BY <1>1, TransportAssumption DEF TypeOK
  <2> QED
    BY <1>1, <2>1 DEF ReceiveRequest
<1>4. /\ stage' = [stage EXCEPT ![r] = "running"]
      /\ UNCHANGED <<client, session, failed, wanted, waiting, procs, quiet, memory, alive, toClient>>
  BY <1>1 DEF ReceiveRequest
<1>5. TypeOK'
  <2>1. step' \in [Request -> {"none", "execution", "precommit", "commit", "committed", "indeterminate"}]
    BY <1>1, <1>3 DEF TypeOK
  <2> QED
    BY <1>1, <1>4, <2>1 DEF TypeOK
<1>6. ASSUME NEW q \in Request PROVE RequestInv(q)'
  <2>1. CASE q = r
    <3>1. stage'[r] = "running" /\ step'[r] = s
      BY <1>1, <1>3, <1>4 DEF TypeOK
    <3>2. PathInv(r)'
      BY <1>1, <1>2, <1>4, <3>1 DEF RequestInv, PathInv, Executing
    <3>3. ScopeInv(r)'
      BY <1>1, <1>2, <1>3, <1>4, <3>1 DEF ScopeInv, Scoped
    <3>4. ReceiptInv(r)' /\ VerdictInv(r)'
      BY <1>1, <1>2, <1>4 DEF RequestInv, ReceiptInv, VerdictInv, Over, Settled
    <3> QED
      BY <2>1, <3>2, <3>3, <3>4 DEF RequestInv
  <2>2. CASE q # r
    BY <1>1, <1>3, <1>4, <2>2 DEF TypeOK, RequestInv, PathInv, ScopeInv, ReceiptInv, VerdictInv,
       Executing, Settled, Over, Outcome, Scoped
  <2> QED
    BY <2>1, <2>2
<1>7. (\A m \in ToClient : In(m, toClient) => MessageInv(m))'
  <2>1. ASSUME NEW q \in Request, stage[q] = "done"
        PROVE  /\ stage'[q] = "done" /\ Outcome(q)' = Outcome(q)
               /\ Over(q) => Over(q)'
    BY <1>2, <1>3, <1>4, <2>1 DEF TypeOK, Outcome, Over, Scoped
  <2> QED
    BY <1>4, <2>1, ScopeMessagesKeep DEF Over
<1> QED
  BY <1>1, <1>5, <1>6, <1>7

\* A cancel control, or its answer, moves no request along.
LEMMA ReplyKeeps ==
    ASSUME TransportInv,
           NEW r \in Request, NEW ok \in BOOLEAN, NEW o \in Outcomes,
           ok => quiet[r] /\ o = Outcome(r),
           \/ toClient' = toClient
           \/ toClient' = Append(toClient, CancelReply(r, ok, o)),
           toAgent' \in Seq(ToAgent),
           OneRequestEach',
           \A q \in Request : OnItsWay(q)' => OnItsWay(q),
           wanted' \in [Request -> BOOLEAN],
           waiting' \in [Request -> BOOLEAN],
           UNCHANGED <<client, session, stage, step, failed, procs, quiet, memory, alive>>
    PROVE  TransportInv'
<1> USE DEF TransportInv, client, session, agent, pipes
<1> DEFINE m == CancelReply(r, ok, o)
<1>1. m \in ToClient
  BY DEF CancelReply, ToClient
<1>2. /\ toClient' \in Seq(ToClient)
      /\ \A x : In(x, toClient') => In(x, toClient) \/ x = m
  <2>1. toClient \in Seq(ToClient)
    BY DEF TypeOK
  <2> HIDE DEF m
  <2>2. /\ Append(toClient, m) \in Seq(ToClient)
        /\ \A x : In(x, Append(toClient, m)) <=> In(x, toClient) \/ x = m
    BY <1>1, <2>1, AppendIn
  <2>3. toClient' = toClient \/ toClient' = Append(toClient, m)
    BY DEF m
  <2> QED
    BY <2>1, <2>2, <2>3
<1>3. TypeOK'
  BY <1>2 DEF TypeOK
<1>4. ASSUME NEW q \in Request PROVE RequestInv(q)'
  BY DEF RequestInv, PathInv, ScopeInv, ReceiptInv, VerdictInv, Executing,
     Settled, Over, Outcome, Scoped
<1>5. MessageInv(m)'
  <2>1. ok => Over(r)
    BY DEF RequestInv, ScopeInv, Over
  <2>2. m.kind = "cancelReply" /\ m.error = ~ok /\ m.id = r /\ m.outcome = o
    BY DEF CancelReply
  <2> QED
    BY <2>1, <2>2 DEF MessageInv, Over, Outcome, Scoped
<1>6. (\A x \in ToClient : In(x, toClient) => MessageInv(x))'
  BY <1>2, <1>5, ScopeMessagesKeep DEF Over, Outcome, Scoped
<1> QED
  BY <1>3, <1>4, <1>6

\* An outcome is one of the three.
LEMMA OutcomeType ==
    ASSUME NEW r PROVE Outcome(r) \in Outcomes
  BY DEF Outcome, Outcomes

LEMMA ReceiveCancelRequestKeeps ==
    ASSUME TransportInv, ReceiveCancelRequest
    PROVE  TransportInv'
<1> DEFINE r == Head(toAgent).id
<1>1. /\ r \in Request
      /\ toAgent' \in Seq(ToAgent)
      /\ OneRequestEach'
      /\ \A q \in Request : OnItsWay(q)' => OnItsWay(q)
  BY AgentReading DEF ReceiveCancelRequest, ToAgent
<1>2. wanted' \in [Request -> BOOLEAN] /\ waiting' \in [Request -> BOOLEAN]
  <2>1. wanted \in [Request -> BOOLEAN] /\ waiting \in [Request -> BOOLEAN]
    BY DEF TransportInv, TypeOK
  <2> QED
    BY <1>1, <2>1 DEF ReceiveCancelRequest
<1>3. UNCHANGED <<client, session, stage, step, failed, procs, quiet, memory, alive>>
  BY DEF ReceiveCancelRequest
<1>4. \/ toClient' = toClient
      \/ toClient' = Append(toClient, CancelReply(r, FALSE, "none"))
      \/ quiet[r] /\ toClient' = Append(toClient, CancelReply(r, TRUE, Outcome(r)))
  BY DEF ReceiveCancelRequest
<1> HIDE DEF r
<1>5. "none" \in Outcomes /\ Outcome(r) \in Outcomes
  BY OutcomeType DEF Outcomes
<1>6. CASE toClient' = toClient \/ toClient' = Append(toClient, CancelReply(r, FALSE, "none"))
  BY <1>1, <1>2, <1>3, <1>5, <1>6, ReplyKeeps
<1>7. CASE quiet[r] /\ toClient' = Append(toClient, CancelReply(r, TRUE, Outcome(r)))
  BY <1>1, <1>2, <1>3, <1>5, <1>7, ReplyKeeps
<1> QED
  BY <1>4, <1>6, <1>7

LEMMA AnswerCancelRequestKeeps ==
    ASSUME TransportInv, NEW r \in Request, AnswerCancelRequest(r)
    PROVE  TransportInv'
<1> DEFINE o == IF quiet[r] THEN Outcome(r) ELSE "none"
<1>1. quiet[r] \in BOOLEAN /\ o \in Outcomes
  BY OutcomeType DEF TransportInv, TypeOK, Outcomes
<1>2. /\ toClient' = Append(toClient, CancelReply(r, quiet[r], o))
      /\ UNCHANGED <<client, session, stage, step, failed, wanted, procs, quiet, memory, alive, toAgent>>
  BY DEF AnswerCancelRequest
<1>3. wanted' \in [Request -> BOOLEAN] /\ waiting' \in [Request -> BOOLEAN]
  BY DEF AnswerCancelRequest, TransportInv, TypeOK
<1>4. /\ toAgent' \in Seq(ToAgent)
      /\ OneRequestEach'
      /\ \A q \in Request : OnItsWay(q)' => OnItsWay(q)
  BY <1>2 DEF TransportInv, TypeOK, OneRequestEach, OnItsWay
<1>5. quiet[r] => o = Outcome(r)
  OBVIOUS
<1> HIDE DEF o
<1> QED
  BY <1>1, <1>2, <1>3, <1>4, <1>5, ReplyKeeps

-----------------------------------------------------------------------------
(***************************************************************************)
(* The handler of a request                                                *)
(***************************************************************************)

\* While a request executes nothing has been said of its end, so its handler
\* is free in its own scope as long as a commit stays a commit.
LEMMA HandlerKeeps ==
    ASSUME TransportInv, NEW r \in Request, Executing(r),
           UNCHANGED <<client, session, toAgent>>,
           TypeOK',
           ScopeInv(r)',
           step[r] = "committed" => step'[r] = "committed",
           \A q \in Request : q # r =>
               /\ stage'[q] = stage[q] /\ step'[q] = step[q] /\ failed'[q] = failed[q]
               /\ procs'[q] = procs[q] /\ quiet'[q] = quiet[q],
           \A m \in ToClient : In(m, toClient') => In(m, toClient) \/ MessageInv(m)'
    PROVE  TransportInv'
<1> USE DEF TransportInv, client, session
<1>1. OneRequestEach'
  BY DEF OneRequestEach
<1>2. ASSUME NEW q \in Request PROVE RequestInv(q)'
  <2>1. OnItsWay(q)' <=> OnItsWay(q)
    BY DEF OnItsWay
  <2>2. CASE q = r
    BY <2>1, <2>2 DEF RequestInv, PathInv, ReceiptInv, VerdictInv, Executing, Settled, Over
  <2>3. CASE q # r
    BY <2>1, <2>3 DEF RequestInv, PathInv, ScopeInv, ReceiptInv, VerdictInv, Executing,
       Settled, Over, Outcome, Scoped
  <2> QED
    BY <2>2, <2>3
<1>3. (\A m \in ToClient : In(m, toClient) => MessageInv(m))'
  <2>1. ASSUME NEW q \in Request, stage[q] = "done"
        PROVE  /\ stage'[q] = "done" /\ Outcome(q)' = Outcome(q)
               /\ Over(q) => Over(q)'
    BY <2>1 DEF Executing, Outcome, Over, Scoped
  <2> QED
    BY <2>1, ScopeMessagesKeep DEF Over
<1> QED
  BY <1>1, <1>2, <1>3

\* Inside the handler: its processes, its commit, and its end.
LEMMA RunningKeeps ==
    ASSUME TransportInv, NEW r \in Request,
           \/ StartProcess(r) \/ BeginCommit(r) \/ CompleteCommit(r)
           \/ \E e \in BOOLEAN : EndHandler(r, e)
    PROVE  TransportInv'
<1>1. /\ Running(r) /\ Executing(r)
      /\ UNCHANGED <<client, session, wanted, waiting, quiet, memory, alive, pipes>>
  BY DEF StartProcess, BeginCommit, CompleteCommit, EndHandler, Running, Executing
<1>2. TypeOK /\ ScopeInv(r)
  BY DEF TransportInv, RequestInv
<1>3. CASE StartProcess(r)
  <2>1. TypeOK'
    BY <1>2, <1>3 DEF StartProcess, TypeOK, client, session, pipes
  <2>2. ScopeInv(r)'
    BY <1>2, <1>3 DEF StartProcess, TypeOK, ScopeInv, Scoped, Running, client
  <2>3. /\ \A q \in Request : q # r =>
             /\ stage'[q] = stage[q] /\ step'[q] = step[q] /\ failed'[q] = failed[q]
             /\ procs'[q] = procs[q] /\ quiet'[q] = quiet[q]
        /\ step[r] = "committed" => step'[r] = "committed"
    BY <1>1, <1>2, <1>3 DEF StartProcess, TypeOK
  <2> QED
    BY <1>1, <1>2, <2>1, <2>2, <2>3, HandlerKeeps DEF pipes
<1>4. CASE BeginCommit(r) \/ CompleteCommit(r)
  <2>1. TypeOK'
    BY <1>2, <1>4 DEF BeginCommit, CompleteCommit, TypeOK, client, session, pipes
  <2>2. ScopeInv(r)'
    BY <1>2, <1>4 DEF BeginCommit, CompleteCommit, TypeOK, ScopeInv, Scoped, Running, client
  <2>3. /\ \A q \in Request : q # r =>
             /\ stage'[q] = stage[q] /\ step'[q] = step[q] /\ failed'[q] = failed[q]
             /\ procs'[q] = procs[q] /\ quiet'[q] = quiet[q]
        /\ step[r] = "committed" => step'[r] = "committed"
    BY <1>1, <1>2, <1>4 DEF BeginCommit, CompleteCommit, TypeOK
  <2> QED
    BY <1>1, <1>2, <2>1, <2>2, <2>3, HandlerKeeps DEF pipes
<1>5. ASSUME NEW e \in BOOLEAN, EndHandler(r, e) PROVE TransportInv'
  <2>1. TypeOK'
    BY <1>2, <1>5 DEF EndHandler, TypeOK, client, session, pipes
  <2>2. ScopeInv(r)'
    BY <1>2, <1>5 DEF EndHandler, TypeOK, ScopeInv, Scoped, Running, client
  <2>3. /\ \A q \in Request : q # r =>
             /\ stage'[q] = stage[q] /\ step'[q] = step[q] /\ failed'[q] = failed[q]
             /\ procs'[q] = procs[q] /\ quiet'[q] = quiet[q]
        /\ step[r] = "committed" => step'[r] = "committed"
    BY <1>1, <1>2, <1>5 DEF EndHandler, TypeOK
  <2> QED
    BY <1>1, <1>2, <2>1, <2>2, <2>3, HandlerKeeps DEF pipes
<1> QED
  BY <1>3, <1>4, <1>5

\* A process may end at any time.
LEMMA ProcessesEndKeeps ==
    ASSUME TransportInv, NEW r \in Request, ProcessesEnd(r)
    PROVE  TransportInv'
<1> USE DEF TransportInv, ProcessesEnd, client, session, pipes
<1>1. TypeOK'
  BY DEF TypeOK
<1>2. OneRequestEach'
  BY DEF OneRequestEach
<1>3. \A q \in Request : procs'[q] => procs[q]
  BY DEF TypeOK
<1>4. ASSUME NEW q \in Request PROVE RequestInv(q)'
  BY <1>3 DEF RequestInv, PathInv, ScopeInv, ReceiptInv, VerdictInv, OnItsWay, Executing,
     Settled, Over, Outcome, Scoped
<1>5. (\A m \in ToClient : In(m, toClient) => MessageInv(m))'
  BY <1>3, ScopeMessagesKeep DEF Outcome, Over, Scoped
<1> QED
  BY <1>1, <1>2, <1>4, <1>5

\* The memory of completed requests keeps to its limit.
LEMMA RememberBounded ==
    ASSUME memory \in Seq(Request), Len(memory) <= MemoryLimit, NEW r \in Request
    PROVE  Remember(r) \in Seq(Request) /\ Len(Remember(r)) <= MemoryLimit
<1> DEFINE m == Append(memory, r)
<1>1. m \in Seq(Request) /\ Len(m) = Len(memory) + 1
  BY AppendIn
<1>2. Len(memory) \in Nat /\ MemoryLimit \in Nat \ {0}
  BY LenProperties, TransportAssumption
<1>3. m # <<>>
  BY <1>1, <1>2, EmptySeq
<1>4. Tail(m) \in Seq(Request) /\ Len(Tail(m)) = Len(m) - 1
  BY <1>1, <1>3, TailIn
<1> HIDE DEF m
<1>5. Remember(r) = IF Len(m) > MemoryLimit THEN Tail(m) ELSE m
  BY DEF Remember, m
<1> QED
  BY <1>1, <1>2, <1>4, <1>5

LEMMA FinalizeKeeps ==
    ASSUME TransportInv, NEW r \in Request, NEW v \in BOOLEAN, NEW l \in BOOLEAN,
           Finalize(r, v, l)
    PROVE  TransportInv'
<1> DEFINE error == failed[r] \/ ~v
<1>1. TypeOK /\ ScopeInv(r) /\ Executing(r) /\ stage[r] = "finalizing"
  BY DEF TransportInv, RequestInv, Finalize, Executing
<1>2. error \in BOOLEAN
  BY <1>1 DEF TypeOK
<1>3. PICK m \in ToClient :
         /\ m = Response(r, error, v, Outcome(r))
         /\ m.kind = "response" /\ m.id = r /\ m.error = error /\ m.quiesced = v
         /\ m.outcome = Outcome(r)
  <2>1. /\ Response(r, error, v, Outcome(r)) \in ToClient
        /\ Response(r, error, v, Outcome(r)).kind = "response"
        /\ Response(r, error, v, Outcome(r)).id = r
        /\ Response(r, error, v, Outcome(r)).error = error
        /\ Response(r, error, v, Outcome(r)).quiesced = v
        /\ Response(r, error, v, Outcome(r)).outcome = Outcome(r)
    BY <1>2, OutcomeType DEF Response, ToClient
  <2> QED
    BY <2>1
<1>4. /\ failed' = [failed EXCEPT ![r] = error]
      /\ procs' = [procs EXCEPT ![r] = l]
      /\ quiet' = [quiet EXCEPT ![r] = v]
      /\ stage' = [stage EXCEPT ![r] = "done"]
      /\ memory' = Remember(r)
      /\ toClient' = toClient \/ toClient' = Append(toClient, m)
      /\ v => ~l
      /\ l => procs[r]
      /\ UNCHANGED <<client, session, step, wanted, waiting, alive, toAgent>>
  BY <1>3 DEF Finalize
<1>5. /\ toClient' \in Seq(ToClient)
      /\ \A x : In(x, toClient') => In(x, toClient) \/ x = m
  <2>1. toClient \in Seq(ToClient)
    BY <1>1 DEF TypeOK
  <2>2. /\ Append(toClient, m) \in Seq(ToClient)
        /\ \A x : In(x, Append(toClient, m)) <=> In(x, toClient) \/ x = m
    BY <1>3, <2>1, AppendIn
  <2> QED
    BY <1>4, <2>1, <2>2
<1>6. memory' \in Seq(Request) /\ Len(memory') <= MemoryLimit
  BY <1>1, <1>4, RememberBounded DEF TypeOK
<1>7. TypeOK'
  BY <1>1, <1>2, <1>4, <1>5, <1>6 DEF TypeOK, client, session
<1>8. ScopeInv(r)'
  BY <1>1, <1>3, <1>4 DEF TypeOK, ScopeInv, Scoped, client
<1>9. MessageInv(m)'
  <2>1. /\ stage'[r] = "done" /\ procs'[r] = l /\ quiet'[r] = v
        /\ step' = step
    BY <1>1, <1>4 DEF TypeOK
  <2>2. ~error \/ v => Over(r)'
    BY <1>4, <2>1 DEF Over
  <2>3. Outcome(r) = "indeterminate" => error
    BY <1>1 DEF Outcome, ScopeInv
  <2>4. Outcome(r)' = Outcome(r)
    BY <2>1 DEF Outcome
  <2> QED
    BY <1>3, <2>1, <2>2, <2>3, <2>4 DEF MessageInv
<1>10. \A q \in Request : q # r =>
          /\ stage'[q] = stage[q] /\ step'[q] = step[q] /\ failed'[q] = failed[q]
          /\ procs'[q] = procs[q] /\ quiet'[q] = quiet[q]
  BY <1>1, <1>4 DEF TypeOK
<1>11. \A x \in ToClient : In(x, toClient') => In(x, toClient) \/ MessageInv(x)'
  BY <1>5, <1>9
<1> QED
  BY <1>1, <1>4, <1>7, <1>8, <1>10, <1>11, HandlerKeeps

LEMMA EndUnscopedKeeps ==
    ASSUME TransportInv, NEW r \in Request, NEW e \in BOOLEAN, EndUnscoped(r, e)
    PROVE  TransportInv'
<1> DEFINE m == Response(r, e, FALSE, "none")
<1>1. /\ TypeOK /\ ScopeInv(r) /\ Executing(r) /\ stage[r] = "running"
      /\ ~Scoped(r)
  BY DEF TransportInv, RequestInv, EndUnscoped, Executing, Running
<1>2. /\ failed' = [failed EXCEPT ![r] = e]
      /\ stage' = [stage EXCEPT ![r] = "done"]
      /\ toClient' = Append(toClient, m)
      /\ UNCHANGED <<client, session, step, wanted, waiting, procs, quiet, memory, alive, toAgent>>
  BY DEF EndUnscoped
<1>3. /\ m \in ToClient
      /\ m.kind = "response" /\ m.id = r /\ m.error = e /\ m.quiesced = FALSE
      /\ m.outcome = "none"
  BY DEF Response, ToClient, Outcomes
<1> HIDE DEF m
<1>4. /\ toClient' \in Seq(ToClient)
      /\ \A x : In(x, toClient') => In(x, toClient) \/ x = m
  BY <1>1, <1>2, <1>3, AppendIn DEF TypeOK
<1>5. TypeOK'
  BY <1>1, <1>2, <1>4 DEF TypeOK, client, session
<1>6. ScopeInv(r)'
  BY <1>1, <1>2 DEF TypeOK, ScopeInv, Scoped, client
<1>7. ASSUME NEW x \in ToClient, In(x, toClient')
      PROVE  In(x, toClient) \/ MessageInv(x)'
  <2>1. stage'[r] = "done" /\ ~procs'[r] /\ Outcome(r)' = "none" /\ ~Scoped(r)'
    BY <1>1, <1>2 DEF TypeOK, ScopeInv, Outcome, Scoped, client
  <2> QED
    BY <1>3, <1>4, <1>7, <2>1 DEF MessageInv, Over
<1> QED
  BY <1>1, <1>2, <1>5, <1>6, <1>7, HandlerKeeps DEF TypeOK

LEMMA AgentExitsKeeps ==
    ASSUME TransportInv, AgentExits
    PROVE  TransportInv'
<1> USE DEF TransportInv, AgentExits, client, session, pipes
<1>1. TypeOK'
  BY DEF TypeOK
<1>2. OneRequestEach'
  BY DEF OneRequestEach
<1>3. ASSUME NEW q \in Request PROVE RequestInv(q)'
  BY DEF RequestInv, PathInv, ScopeInv, ReceiptInv, VerdictInv, OnItsWay, Executing,
     Settled, Over, Outcome, Scoped
<1>4. (\A m \in ToClient : In(m, toClient) => MessageInv(m))'
  BY ScopeMessagesKeep DEF Outcome, Over, Scoped
<1> QED
  BY <1>1, <1>2, <1>3, <1>4

-----------------------------------------------------------------------------
(***************************************************************************)
(* The invariant of the specification                                      *)
(***************************************************************************)
LEMMA InitInv == Init => TransportInv
<1> SUFFICES ASSUME Init PROVE TransportInv
  OBVIOUS
<1>1. /\ toAgent = <<>> /\ toClient = <<>> /\ memory = <<>>
      /\ \A S : <<>> \in Seq(S)
      /\ DOMAIN <<>> = {} /\ Len(<<>>) = 0
  BY EmptySeq DEF Init
<1>2. MemoryLimit \in Nat /\ MaxGarbled \in Nat
  BY TransportAssumption
<1>3. TypeOK
  <2>1. /\ memory \in Seq(Request) /\ toAgent \in Seq(ToAgent) /\ toClient \in Seq(ToClient)
        /\ Len(memory) <= MemoryLimit
        /\ garbled \in 0..MaxGarbled
    <3>1. garbled = 0
      BY DEF Init
    <3> QED
      BY <1>1, <1>2, <3>1
  <2>2. /\ verdict \in [Request -> Verdict \cup {NoVerdict}]
        /\ \A r \in Request : phase[r] # "done" /\ verdict[r] = NoVerdict
    BY DEF Init
  <2> QED
    BY <2>1, <2>2 DEF Init, TypeOK
<1>4. OneRequestEach /\ \A m \in ToClient : In(m, toClient) => MessageInv(m)
  BY <1>1 DEF OneRequestEach, In
<1>5. ASSUME NEW r \in Request PROVE RequestInv(r)
  BY <1>1 DEF Init, RequestInv, PathInv, ScopeInv, ReceiptInv, VerdictInv, OnItsWay, Executing,
     Settled
<1> QED
  BY <1>3, <1>4, <1>5 DEF TransportInv

LEMMA StutterKeeps ==
    ASSUME TransportInv, UNCHANGED vars
    PROVE  TransportInv'
<1> USE DEF TransportInv, vars, client, session, agent, pipes
<1>1. TypeOK'
  BY DEF TypeOK
<1>2. OneRequestEach'
  BY DEF OneRequestEach
<1>3. ASSUME NEW q \in Request PROVE RequestInv(q)'
  BY DEF RequestInv, PathInv, ScopeInv, ReceiptInv, VerdictInv, OnItsWay, Executing,
     Settled, Over, Outcome, Scoped
<1>4. (\A m \in ToClient : In(m, toClient) => MessageInv(m))'
  BY MessagesKeep
<1> QED
  BY <1>1, <1>2, <1>3, <1>4

LEMMA NextKeeps ==
    ASSUME TransportInv, [Next]_vars
    PROVE  TransportInv'
<1>1. ASSUME NEW r \in Request, Gate(r) \/ Send(r) \/ NotSent(r) \/ Cancel(r)
      PROVE  TransportInv'
  BY <1>1, GateKeeps, SendKeeps, NotSentKeeps, CancelKeeps
<1>2. ASSUME NEW r \in Request, AnswerCancelRequest(r) \/ ProcessesEnd(r)
      PROVE  TransportInv'
  BY <1>2, AnswerCancelRequestKeeps, ProcessesEndKeeps
<1>3. ASSUME NEW r \in Request, StartProcess(r) \/ BeginCommit(r) \/ CompleteCommit(r)
      PROVE  TransportInv'
  BY <1>3, RunningKeeps
<1>4. ASSUME NEW r \in Request, Handler(r)
      PROVE  TransportInv'
  <2>1. CASE \E e \in BOOLEAN : EndHandler(r, e)
    BY <2>1, RunningKeeps
  <2>2. CASE \E e \in BOOLEAN : EndUnscoped(r, e)
    BY <2>2, EndUnscopedKeeps
  <2>3. CASE \E v, l \in BOOLEAN : Finalize(r, v, l)
    BY <2>3, FinalizeKeeps
  <2> QED
    BY <1>4, <2>1, <2>2, <2>3 DEF Handler
<1>5. CASE ReceiveResponse \/ ReceiveCancelReply \/ DropLine
  BY <1>5, ReceiveResponseKeeps, ReceiveCancelReplyKeeps, DropLineKeeps
<1>6. CASE StartDrain \/ PollDrain
  BY <1>6, DrainKeeps
<1>7. CASE Dispose \/ PipeBreaks \/ NoticeExit
  BY <1>7, CloseKeeps
<1>8. CASE ReceiveRequest \/ ReceiveCancelRequest \/ AgentExits
  BY <1>8, ReceiveRequestKeeps, ReceiveCancelRequestKeeps, AgentExitsKeeps
<1>9. CASE UNCHANGED vars
  BY <1>9, StutterKeeps
<1> QED
  BY <1>1, <1>2, <1>3, <1>4, <1>5, <1>6, <1>7, <1>8, <1>9 DEF Next

\* The inductive invariant holds in every reachable state.
THEOREM Invariance == Spec => []TransportInv
<1>1. Init => TransportInv
  BY InitInv
<1>2. TransportInv /\ [Next]_vars => TransportInv'
  BY NextKeeps
<1> QED
  BY <1>1, <1>2, PTL DEF Spec

-----------------------------------------------------------------------------
(***************************************************************************)
(* What follows                                                            *)
(***************************************************************************)

\* Client, agent and pipes stay within their types; the memory of completed
\* requests keeps to its limit (wsl-agent.js, rememberCompletedRequest).
THEOREM TypeCorrect == Spec => []TypeOK
<1>1. TransportInv => TypeOK
  BY DEF TransportInv
<1> QED
  BY <1>1, Invariance, PTL

\* Whoever is told that his request was cancelled and has quiesced (the
\* cancellation errors of workspace-backend.js) is told so of a request that
\* runs nowhere and left no process, in every interleaving of the two sides.
THEOREM Quiescence == Spec => []AckMeansQuiet
<1>1. TransportInv => AckMeansQuiet
  BY DEF TransportInv, TypeOK, RequestInv, VerdictInv, AckMeansQuiet, Settled, Executing
<1> QED
  BY <1>1, Invariance, PTL

\* What a caller hears of its mutation (the mutation outcomes both sides pass
\* along) is what became of it.
THEOREM Exactness == Spec => []OutcomeIsExact
<1>1. TransportInv => OutcomeIsExact
  BY DEF TransportInv, RequestInv, VerdictInv, OutcomeIsExact, Settled, Outcome
<1> QED
  BY <1>1, Invariance, PTL

\* A session that is not lost counts every request the agent may still act on
\* among its own (pendingRequestCount in workspace-backend.js).
THEOREM Ownership == Spec => []OwnershipKept
<1>1. TransportInv => OwnershipKept
  BY DEF TransportInv, RequestInv, PathInv, OwnershipKept, Pending
<1> QED
  BY <1>1, Invariance, PTL

\* A session reports itself drained (waitForDrain) only when the agent has
\* nothing of it left to do.
THEOREM DrainReport == Spec => DrainReportIsTrue
<1>1. ASSUME TransportInv, [Next]_vars, drain # "drained", drain' = "drained"
      PROVE  lost \/ \A r \in Request : ~OnItsWay(r) /\ ~Executing(r)
  <2>1. StartDrain \/ PollDrain
    BY <1>1 DEF Next, Handler, vars, client, session, agent, pipes, Gate, Send, NotSent, Cancel,
       AnswerCancelRequest, StartProcess, ProcessesEnd, BeginCommit, CompleteCommit, EndHandler,
       EndUnscoped, Finalize, ReceiveResponse, ReceiveCancelReply, DropLine, Dispose, PipeBreaks,
       NoticeExit, ReceiveRequest, ReceiveCancelRequest, AgentExits
  <2>2. Pending = {}
    BY <1>1, <2>1 DEF StartDrain, PollDrain
  <2> QED
    BY <1>1, <2>2 DEF TransportInv, RequestInv, PathInv, Pending
<1>2. TransportInv /\ [Next]_vars
        => [drain # "drained" /\ drain' = "drained" =>
              lost \/ \A r \in Request : ~OnItsWay(r) /\ ~Executing(r)]_vars
  BY <1>1
<1> QED
  BY <1>2, Invariance, PTL DEF Spec, DrainReportIsTrue

-----------------------------------------------------------------------------
(***************************************************************************)
(* Refused cancellations.  A refusal means something because both pipes    *)
(* keep their order: a cancel control is the last word on its request, so  *)
(* the agent has had the request when it reads the control; and a request  *)
(* that ended uncancelled has its answer before the refusal in the other   *)
(* pipe, so the client has read it or lost it.                             *)
(***************************************************************************)
LastWord ==
    \A i, j \in DOMAIN toAgent :
        toAgent[i].kind = "cancelRequest" /\ toAgent[j].id = toAgent[i].id => j <= i

ControlSent(r) == In(Message("cancelRequest", r), toAgent)

\* One control for each request, written after it.
ControlInv(r) ==
    /\ wanted[r] \/ ControlSent(r) => abort[r]
    /\ ControlSent(r) => ~wanted[r]
    /\ abort[r] => phase[r] \in {"pending", "done"}
    /\ abort[r] \/ phase[r] = "pending" => OnItsWay(r) \/ stage[r] # "none"

Answers(m, r) == m.kind = "response" /\ m.id = r

\* The answer of a request the agent was not asked to cancel.
AnswerInv(r) ==
    Scoped(r) /\ stage[r] = "done" /\ ~wanted[r] =>
        \/ \E i \in DOMAIN toClient : Answers(toClient[i], r)
        \/ phase[r] = "done"
        \/ garbled > 0

\* A refusal of its cancellation is in order.
Excused(r) == stage[r] = "done" /\ (~quiet[r] \/ garbled > 0 \/ phase[r] = "done")

Refuses(m) == m.kind = "cancelReply" /\ m.error /\ Scoped(m.id)

\* The answer of r stands before position i, or has been heard or lost.
InOrder(i, r) ==
    \/ Excused(r)
    \/ /\ stage[r] = "done"
       /\ \E j \in DOMAIN toClient : j < i /\ Answers(toClient[j], r)

RefusalOrder ==
    \A i \in DOMAIN toClient, m \in ToClient :
        toClient[i] = m /\ Refuses(m) => InOrder(i, m.id)

RefusedInv(r) == refused[r] /\ Scoped(r) => Excused(r)

RefusalInv ==
    /\ LastWord
    /\ RefusalOrder
    /\ \A r \in Request : ControlInv(r) /\ AnswerInv(r) /\ RefusedInv(r)

\* Positions of a pipe that is written to or read from.
LEMMA Written ==
    ASSUME NEW S, NEW s \in Seq(S), NEW e \in S
    PROVE  /\ Len(s) \in Nat /\ DOMAIN s = 1..Len(s)
           /\ DOMAIN Append(s, e) = 1..(Len(s) + 1)
           /\ \A i \in DOMAIN s : Append(s, e)[i] = s[i]
           /\ Append(s, e)[Len(s) + 1] = e
<1> DEFINE t == Append(s, e)
<1>1. /\ t \in Seq(S)
      /\ Len(t) = Len(s) + 1
      /\ \A i \in 1..Len(s) : t[i] = s[i]
      /\ t[Len(s) + 1] = e
  BY AppendProperties
<1>2. Len(s) \in Nat /\ DOMAIN s = 1..Len(s)
  BY LenProperties
<1>3. DOMAIN t = 1..(Len(s) + 1)
  BY <1>1, LenProperties
<1> QED
  BY <1>1, <1>2, <1>3

LEMMA Read ==
    ASSUME NEW S, NEW s \in Seq(S), s # <<>>
    PROVE  /\ Len(s) \in Nat \ {0} /\ DOMAIN s = 1..Len(s)
           /\ Head(s) = s[1] /\ Head(s) \in S
           /\ \A i \in DOMAIN Tail(s) : i \in Nat /\ i + 1 \in DOMAIN s /\ Tail(s)[i] = s[i + 1]
           /\ \A i \in DOMAIN s : i # 1 => i - 1 \in DOMAIN Tail(s)
<1> DEFINE t == Tail(s)
<1>1. /\ Head(s) \in S
      /\ t \in Seq(S)
      /\ Len(t) = Len(s) - 1
      /\ \A i \in 1..Len(t) : t[i] = s[i + 1]
  BY HeadTailProperties
<1>2. /\ Len(s) \in Nat \ {0}
      /\ DOMAIN s = 1..Len(s)
      /\ Head(s) = s[1]
  BY LenProperties, EmptySeq
<1>3. DOMAIN t = 1..Len(t)
  BY <1>1, LenProperties
<1> HIDE DEF t
<1>4. \A i \in DOMAIN t : i \in Nat /\ i + 1 \in DOMAIN s /\ t[i] = s[i + 1]
  BY <1>1, <1>2, <1>3
<1>5. \A i \in DOMAIN s : i # 1 => i - 1 \in DOMAIN t
  BY <1>1, <1>2, <1>3
<1> QED
  BY <1>1, <1>2, <1>4, <1>5 DEF t

\* Which steps touch which pipe.
LEMMA Writers ==
    ASSUME [Next]_vars
    PROVE  \/ toAgent' = toAgent
           \/ \E r \in Request : Send(r) \/ Cancel(r)
           \/ ReceiveRequest \/ ReceiveCancelRequest
  BY DEF Next, Handler, vars, pipes, Gate, NotSent, AnswerCancelRequest, StartProcess,
     ProcessesEnd, BeginCommit, CompleteCommit, EndHandler, EndUnscoped, Finalize,
     ReceiveResponse, ReceiveCancelReply, DropLine, StartDrain, PollDrain, Dispose, PipeBreaks,
     NoticeExit, AgentExits

LEMMA Answerers ==
    ASSUME [Next]_vars
    PROVE  \/ toClient' = toClient
           \/ ReceiveResponse \/ ReceiveCancelReply \/ DropLine \/ ReceiveCancelRequest
           \/ \E r \in Request : \/ AnswerCancelRequest(r)
                                 \/ \E v, l \in BOOLEAN : Finalize(r, v, l)
                                 \/ \E e \in BOOLEAN : EndUnscoped(r, e)
  BY DEF Next, Handler, vars, pipes, Gate, Send, NotSent, Cancel, StartProcess,
     ProcessesEnd, BeginCommit, CompleteCommit, EndHandler, StartDrain, PollDrain, Dispose,
     PipeBreaks, NoticeExit, ReceiveRequest, AgentExits

\* What has ended stays as it is.
LEMMA Ends ==
    ASSUME TransportInv, [Next]_vars
    PROVE  /\ policy' = policy
           /\ garbled > 0 => garbled' > 0
           /\ \A r \in Request : /\ phase[r] = "done" => phase'[r] = "done"
                                 /\ stage[r] = "done" =>
                                      stage'[r] = "done" /\ quiet'[r] = quiet[r]
                                 /\ stage[r] # "none" => stage'[r] # "none"
                                 /\ wanted[r] => wanted'[r]
                                 /\ abort[r] => abort'[r]
<1> USE DEF vars, client, session, agent, pipes
<1>1. TypeOK
  BY DEF TransportInv
<1>2. CASE UNCHANGED vars
  BY <1>2
<1>3. CASE \E r \in Request : Gate(r) \/ Send(r) \/ NotSent(r) \/ Cancel(r)
  <2>1. CASE \E r \in Request : Gate(r) \/ Send(r)
    BY <1>1, <2>1 DEF TypeOK, Gate, Send
  <2>2. CASE \E r \in Request : NotSent(r)
    BY <1>1, <2>2 DEF TypeOK, NotSent
  <2>3. CASE \E r \in Request : Cancel(r)
    BY <1>1, <2>3 DEF TypeOK, Cancel
  <2> QED
    BY <1>3, <2>1, <2>2, <2>3
<1>4. CASE \E r \in Request : AnswerCancelRequest(r) \/ StartProcess(r) \/ ProcessesEnd(r)
                              \/ BeginCommit(r) \/ CompleteCommit(r)
  BY <1>1, <1>4 DEF TypeOK, AnswerCancelRequest, StartProcess, ProcessesEnd, BeginCommit,
     CompleteCommit
<1>5. CASE \E r \in Request : Handler(r)
  <2>1. CASE \E r \in Request : \E e \in BOOLEAN : EndHandler(r, e)
    BY <1>1, <2>1 DEF TypeOK, EndHandler, Running
  <2>2. CASE \E r \in Request : \E e \in BOOLEAN : EndUnscoped(r, e)
    BY <1>1, <2>2 DEF TypeOK, EndUnscoped, Running
  <2>3. CASE \E r \in Request : \E v, l \in BOOLEAN : Finalize(r, v, l)
    BY <1>1, <2>3 DEF TypeOK, Finalize
  <2> QED
    BY <1>5, <2>1, <2>2, <2>3 DEF Handler
<1>6. CASE ReceiveResponse \/ ReceiveCancelReply
  BY <1>1, <1>6 DEF TypeOK, ReceiveResponse, ReceiveCancelReply, Settle, Pending
<1>7. CASE DropLine \/ StartDrain \/ PollDrain
  BY <1>1, <1>7 DEF TypeOK, DropLine, StartDrain, PollDrain
<1>8. CASE Dispose \/ PipeBreaks \/ NoticeExit
  <2>1. phase' = [r \in Request |-> IF r \in Pending THEN "done" ELSE phase[r]]
    BY <1>8 DEF Dispose, PipeBreaks, NoticeExit, Close
  <2>2. UNCHANGED <<policy, abort, garbled, stage, quiet, wanted>>
    BY <1>8 DEF Dispose, PipeBreaks, NoticeExit
  <2> QED
    BY <2>1, <2>2
<1>9. CASE ReceiveRequest
  <2>1. PICK r \in Request : Head(toAgent) = Message("request", r) /\ stage[r] = "none"
    BY <1>9, AgentReading DEF TransportInv, RequestInv, PathInv, ReceiveRequest, ToAgent, Message
  <2>2. Head(toAgent).id = r
    BY <2>1 DEF Message
  <2>3. stage' = [stage EXCEPT ![r] = "running"]
    BY <1>9, <2>2 DEF ReceiveRequest
  <2> QED
    BY <1>1, <1>9, <2>1, <2>3 DEF TypeOK, ReceiveRequest
<1>10. CASE ReceiveCancelRequest \/ AgentExits
  BY <1>1, <1>10 DEF TypeOK, ReceiveCancelRequest, AgentExits
<1> QED
  BY <1>2, <1>3, <1>4, <1>5, <1>6, <1>7, <1>8, <1>9, <1>10 DEF Next

\* A step that neither sends, cancels nor is read by the agent.
LEMMA Otherwise ==
    ASSUME TransportInv, [Next]_vars,
           ~ \E r \in Request : Gate(r) \/ Send(r) \/ NotSent(r) \/ Cancel(r),
           ~ ReceiveRequest, ~ ReceiveCancelRequest
    PROVE  /\ UNCHANGED <<toAgent, wanted, abort>>
           /\ \A r \in Request : \/ phase'[r] = phase[r]
                                 \/ phase[r] = "pending" /\ phase'[r] = "done"
<1> USE DEF vars, client, session, agent, pipes
<1>1. TypeOK
  BY DEF TransportInv
<1>2. CASE UNCHANGED vars
  BY <1>2
<1>4. CASE \E r \in Request : AnswerCancelRequest(r) \/ StartProcess(r) \/ ProcessesEnd(r)
                              \/ BeginCommit(r) \/ CompleteCommit(r) \/ Handler(r)
  BY <1>4 DEF AnswerCancelRequest, StartProcess, ProcessesEnd, BeginCommit, CompleteCommit,
     Handler, EndHandler, EndUnscoped, Finalize
<1>6. CASE ReceiveResponse \/ ReceiveCancelReply
  <2>1. \/ phase' = phase
        \/ \E q : q \in Pending /\ phase' = [phase EXCEPT ![q] = "done"]
    BY <1>6 DEF ReceiveResponse, ReceiveCancelReply, Settle
  <2>2. UNCHANGED <<toAgent, wanted, abort>>
    BY <1>6 DEF ReceiveResponse, ReceiveCancelReply
  <2> QED
    BY <1>1, <2>1, <2>2 DEF TypeOK, Pending
<1>7. CASE DropLine \/ StartDrain \/ PollDrain \/ AgentExits
  BY <1>7 DEF DropLine, StartDrain, PollDrain, AgentExits
<1>8. CASE Dispose \/ PipeBreaks \/ NoticeExit
  <2>1. phase' = [r \in Request |-> IF r \in Pending THEN "done" ELSE phase[r]]
    BY <1>8 DEF Dispose, PipeBreaks, NoticeExit, Close
  <2>2. UNCHANGED <<toAgent, wanted, abort>>
    BY <1>8 DEF Dispose, PipeBreaks, NoticeExit
  <2> QED
    BY <2>1, <2>2 DEF Pending
<1> QED
  BY <1>2, <1>4, <1>6, <1>7, <1>8 DEF Next

\* A message on its way to the agent is read before those behind it.
LEMMA Front ==
    ASSUME TransportInv, toAgent # <<>>, toAgent' = Tail(toAgent)
    PROVE  /\ In(Head(toAgent), toAgent)
           /\ \A m : In(m, toAgent') => In(m, toAgent)
           /\ \A m : In(m, toAgent) /\ m # Head(toAgent) => In(m, toAgent')
           /\ LastWord => LastWord'
           /\ LastWord /\ Head(toAgent).kind = "cancelRequest" =>
                \A m : In(m, toAgent') => m.id # Head(toAgent).id
<1>1. toAgent \in Seq(ToAgent)
  BY DEF TransportInv, TypeOK
<1>2. /\ Len(toAgent) \in Nat \ {0} /\ DOMAIN toAgent = 1..Len(toAgent)
      /\ Head(toAgent) = toAgent[1]
      /\ \A i \in DOMAIN toAgent' : i \in Nat /\ i + 1 \in DOMAIN toAgent
                                    /\ toAgent'[i] = toAgent[i + 1]
      /\ \A i \in DOMAIN toAgent : i # 1 => i - 1 \in DOMAIN toAgent'
  BY <1>1, Read
<1>3. In(Head(toAgent), toAgent) /\ \A m : In(m, toAgent') => In(m, toAgent)
  BY <1>1, TailIn
<1>4. ASSUME NEW m, In(m, toAgent), m # Head(toAgent) PROVE In(m, toAgent')
  <2>1. PICK i \in DOMAIN toAgent : toAgent[i] = m
    BY <1>4 DEF In
  <2>2. i # 1 /\ i \in Nat
    BY <1>2, <1>4, <2>1
  <2>3. i - 1 \in DOMAIN toAgent' /\ toAgent'[i - 1] = m
    BY <1>2, <2>1, <2>2
  <2> QED
    BY <2>3 DEF In
<1>5. LastWord => LastWord'
  BY <1>2 DEF LastWord
<1>6. ASSUME LastWord, Head(toAgent).kind = "cancelRequest", NEW m, In(m, toAgent'),
             m.id = Head(toAgent).id
      PROVE  FALSE
  <2>1. PICK i \in DOMAIN toAgent' : toAgent'[i] = m
    BY <1>6 DEF In
  <2>2. i \in Nat /\ i + 1 \in DOMAIN toAgent /\ toAgent[i + 1] = m /\ 1 \in DOMAIN toAgent
    BY <1>2, <2>1
  <2>3. i + 1 <= 1
    BY <1>2, <1>6, <2>2 DEF LastWord
  <2>4. i + 1 # 1
    BY <1>2, <2>1, <2>2
  <2> QED
    BY <1>2, <2>1, <2>2, <2>3, <2>4
<1> QED
  BY <1>3, <1>4, <1>5, <1>6

\* Nothing is written behind the cancel control of a request.
LEMMA LastWordKeeps ==
    ASSUME TransportInv, RefusalInv, [Next]_vars
    PROVE  LastWord'
<1>1. ASSUME NEW r \in Request, NEW k \in {"request", "cancelRequest"}, ~ControlSent(r),
             toAgent' = Append(toAgent, Message(k, r))
      PROVE  LastWord'
  <2> DEFINE m == Message(k, r)
             n == Len(toAgent)
  <2>1. m \in ToAgent /\ m.id = r /\ toAgent \in Seq(ToAgent)
    BY DEF ToAgent, Message, TransportInv, TypeOK
  <2>2. \A i \in DOMAIN toAgent : toAgent[i].kind = "cancelRequest" => toAgent[i].id # r
    <3>1. \A i \in DOMAIN toAgent : toAgent[i] \in ToAgent
      BY <2>1
    <3> QED
      BY <1>1, <3>1 DEF ControlSent, In, Message, ToAgent
  <2> HIDE DEF m
  <2>3. /\ n \in Nat /\ DOMAIN toAgent = 1..n /\ DOMAIN toAgent' = 1..(n + 1)
        /\ \A i \in DOMAIN toAgent : toAgent'[i] = toAgent[i]
        /\ toAgent'[n + 1] = m
    BY <1>1, <2>1, Written DEF m
  <2> HIDE DEF n
  <2>4. ASSUME NEW i \in DOMAIN toAgent', NEW j \in DOMAIN toAgent',
               toAgent'[i].kind = "cancelRequest", toAgent'[j].id = toAgent'[i].id
        PROVE  j <= i
    <3>1. CASE i = n + 1
      BY <2>3, <3>1
    <3>2. CASE i # n + 1 /\ j # n + 1
      BY <2>3, <2>4, <3>2 DEF RefusalInv, LastWord
    <3>3. CASE i # n + 1 /\ j = n + 1
      BY <2>1, <2>2, <2>3, <2>4, <3>3
    <3> QED
      BY <3>1, <3>2, <3>3
  <2> QED
    BY <2>4 DEF LastWord
<1>2. CASE toAgent' = toAgent
  BY <1>2 DEF RefusalInv, LastWord
<1>3. CASE \E r \in Request : Send(r)
  <2>1. PICK r \in Request : Send(r)
    BY <1>3
  <2>2. ~ControlSent(r)
    BY <2>1 DEF Send, RefusalInv, ControlInv
  <2> QED
    BY <1>1, <2>1, <2>2 DEF Send
<1>4. CASE \E r \in Request : Cancel(r)
  <2>1. PICK r \in Request : Cancel(r)
    BY <1>4
  <2>2. ~ControlSent(r)
    BY <2>1 DEF Cancel, RefusalInv, ControlInv
  <2> QED
    BY <1>1, <2>1, <2>2 DEF Cancel
<1>5. CASE ReceiveRequest \/ ReceiveCancelRequest
  BY <1>5, Front DEF ReceiveRequest, ReceiveCancelRequest, RefusalInv
<1> QED
  BY <1>2, <1>3, <1>4, <1>5, Writers

\* There is one control for a request, and the request was written before it.
LEMMA ControlKeeps ==
    ASSUME TransportInv, RefusalInv, [Next]_vars, NEW q \in Request
    PROVE  ControlInv(q)'
<1> USE DEF client, session, agent, pipes
<1>1. TypeOK /\ PathInv(q) /\ ControlInv(q)
  BY DEF TransportInv, RequestInv, RefusalInv
<1>2. /\ stage[q] # "none" => stage'[q] # "none"
      /\ abort[q] => abort'[q]
  BY Ends
<1>3. OnItsWay(q) <=> In(Message("request", q), toAgent)
  BY DEF OnItsWay, In
<1>4. OnItsWay(q)' <=> In(Message("request", q), toAgent')
  BY DEF OnItsWay, In
<1>5. ASSUME NEW r \in Request, Gate(r) PROVE ControlInv(q)'
  <2>1. /\ UNCHANGED <<toAgent, wanted, abort>>
        /\ phase[r] = "idle" /\ phase' = [phase EXCEPT ![r] = "gated"]
    BY <1>5 DEF Gate
  <2>2. phase'[q] = phase[q] \/ (q = r /\ phase'[q] = "gated" /\ phase[q] = "idle")
    BY <1>1, <2>1 DEF TypeOK
  <2> QED
    BY <1>1, <1>2, <1>3, <1>4, <2>1, <2>2 DEF ControlInv, ControlSent
<1>6. ASSUME NEW r \in Request, NotSent(r) PROVE ControlInv(q)'
  <2>1. /\ UNCHANGED <<toAgent, wanted, abort>>
        /\ phase[r] = "gated" /\ phase' = [phase EXCEPT ![r] = "done"]
    BY <1>6 DEF NotSent
  <2>2. phase'[q] = phase[q] \/ (q = r /\ phase'[q] = "done" /\ phase[q] = "gated")
    BY <1>1, <2>1 DEF TypeOK
  <2> QED
    BY <1>1, <1>2, <1>3, <1>4, <2>1, <2>2 DEF ControlInv, ControlSent
<1>7. ASSUME NEW r \in Request, Send(r) PROVE ControlInv(q)'
  <2> DEFINE m == Message("request", r)
  <2>1. m \in ToAgent /\ toAgent \in Seq(ToAgent)
    BY <1>1 DEF ToAgent, Message, TypeOK
  <2>2. \A x : In(x, toAgent') <=> In(x, toAgent) \/ x = m
    BY <1>7, <2>1, AppendIn DEF Send
  <2>3. /\ ControlSent(q)' <=> ControlSent(q)
        /\ OnItsWay(q)' <=> OnItsWay(q) \/ q = r
    BY <1>3, <1>4, <2>2 DEF ControlSent, Message
  <2>4. /\ UNCHANGED <<wanted, abort>>
        /\ phase'[q] = phase[q] \/ (q = r /\ phase'[q] = "pending")
    BY <1>1, <1>7 DEF Send, TypeOK
  <2> QED
    BY <1>1, <1>2, <2>3, <2>4 DEF ControlInv
<1>8. ASSUME NEW r \in Request, Cancel(r) PROVE ControlInv(q)'
  <2> DEFINE m == Message("cancelRequest", r)
  <2>1. m \in ToAgent /\ toAgent \in Seq(ToAgent)
    BY <1>1 DEF ToAgent, Message, TypeOK
  <2>2. \A x : In(x, toAgent') <=> In(x, toAgent) \/ x = m
    BY <1>8, <2>1, AppendIn DEF Cancel
  <2>3. /\ ControlSent(q)' <=> ControlSent(q) \/ q = r
        /\ OnItsWay(q)' <=> OnItsWay(q)
    BY <1>3, <1>4, <2>2 DEF ControlSent, Message
  <2>4. /\ UNCHANGED <<wanted, phase>>
        /\ abort'[q] = abort[q] \/ q = r
        /\ q = r => abort'[q] /\ ~abort[q] /\ phase[q] = "pending"
    BY <1>1, <1>8 DEF Cancel, TypeOK, Pending
  <2> QED
    BY <1>1, <1>2, <2>3, <2>4 DEF ControlInv
<1>9. CASE ReceiveRequest
  <2>1. PICK r \in Request : Head(toAgent) = Message("request", r)
    BY <1>9, AgentReading DEF ReceiveRequest, ToAgent, Message
  <2>2. Head(toAgent).id = r
    BY <2>1 DEF Message
  <2>3. /\ stage' = [stage EXCEPT ![r] = "running"]
        /\ UNCHANGED <<wanted, abort, phase>>
    BY <1>9, <2>2 DEF ReceiveRequest
  <2>4. /\ ControlSent(q)' => ControlSent(q)
        /\ OnItsWay(q) => OnItsWay(q)' \/ q = r
    BY <1>3, <1>4, <1>9, <2>1, Front DEF ReceiveRequest, ControlSent, Message
  <2>5. q = r => stage'[q] = "running"
    BY <1>1, <2>3 DEF TypeOK
  <2> QED
    BY <1>1, <1>2, <2>3, <2>4, <2>5 DEF ControlInv
<1>10. CASE ReceiveCancelRequest
  <2>1. PICK r \in Request : Head(toAgent) = Message("cancelRequest", r)
    BY <1>10, AgentReading DEF ReceiveCancelRequest, ToAgent, Message
  <2>2. Head(toAgent).id = r /\ Head(toAgent).kind = "cancelRequest"
    BY <2>1 DEF Message
  <2>3. toAgent # <<>> /\ toAgent' = Tail(toAgent)
    BY <1>10 DEF ReceiveCancelRequest
  <2>4. /\ UNCHANGED <<abort, phase>>
        /\ wanted'[q] => wanted[q] \/ q = r
    BY <1>1, <1>10, <2>2 DEF ReceiveCancelRequest, TypeOK
  <2>5. /\ ControlSent(q)' => ControlSent(q) /\ q # r
        /\ q = r => ControlSent(q)
        /\ OnItsWay(q) => OnItsWay(q)'
    <3>1. /\ In(Head(toAgent), toAgent)
          /\ \A m : In(m, toAgent') => In(m, toAgent) /\ m.id # r
          /\ \A m : In(m, toAgent) /\ m # Head(toAgent) => In(m, toAgent')
      BY <2>2, <2>3, Front DEF RefusalInv
    <3>2. Message("cancelRequest", q).id = q /\ Message("request", q) # Head(toAgent)
      BY <2>2 DEF Message
    <3> QED
      BY <1>3, <1>4, <2>1, <3>1, <3>2 DEF ControlSent
  <2> QED
    BY <1>1, <1>2, <2>4, <2>5 DEF ControlInv
<1>11. CASE ~ ReceiveRequest /\ ~ ReceiveCancelRequest
            /\ ~ \E r \in Request : Gate(r) \/ Send(r) \/ NotSent(r) \/ Cancel(r)
  BY <1>1, <1>2, <1>3, <1>4, <1>11, Otherwise DEF ControlInv, ControlSent
<1> QED
  BY <1>5, <1>6, <1>7, <1>8, <1>9, <1>10, <1>11

\* An answer the client takes off the pipe is heard or lost.
LEMMA Heard ==
    ASSUME TransportInv, ReceiveResponse \/ ReceiveCancelReply \/ DropLine,
           NEW q \in Request, stage[q] = "done", Answers(Head(toClient), q)
    PROVE  phase'[q] = "done" \/ garbled' > 0
<1>1. TypeOK /\ PathInv(q)
  BY DEF TransportInv, RequestInv
<1>2. CASE DropLine
  BY <1>1, <1>2, TransportAssumption DEF DropLine, TypeOK
<1>3. CASE ReceiveCancelReply
  BY <1>3 DEF ReceiveCancelReply, Received, Answers
<1>4. CASE ReceiveResponse
  <2>1. Received.id = q
    BY DEF Received, Answers
  <2>2. IF q \in Pending THEN phase' = [phase EXCEPT ![q] = "done"] ELSE phase' = phase
    BY <1>4, <2>1 DEF ReceiveResponse, Settle
  <2>3. phase[q] \in {"pending", "done"}
    BY <1>1 DEF TypeOK, PathInv
  <2> QED
    BY <1>1, <2>2, <2>3 DEF TypeOK, Pending
<1> QED
  BY <1>2, <1>3, <1>4

\* How the line of answers moves.
LEMMA Line ==
    ASSUME TransportInv, ReceiveResponse \/ ReceiveCancelReply \/ DropLine
    PROVE  /\ \A i \in DOMAIN toClient' : i \in Nat /\ i + 1 \in DOMAIN toClient
                                          /\ toClient'[i] = toClient[i + 1]
           /\ \A i \in DOMAIN toClient : i \in Nat /\ i >= 1 /\ (i # 1 => i - 1 \in DOMAIN toClient')
           /\ Head(toClient) = toClient[1] /\ 1 \in DOMAIN toClient
<1>1. toClient # <<>> /\ toClient' = Tail(toClient) /\ toClient \in Seq(ToClient)
  BY DEF ReceiveResponse, ReceiveCancelReply, DropLine, TransportInv, TypeOK
<1>2. /\ Len(toClient) \in Nat \ {0} /\ DOMAIN toClient = 1..Len(toClient)
      /\ Head(toClient) = toClient[1]
      /\ \A i \in DOMAIN toClient' : i \in Nat /\ i + 1 \in DOMAIN toClient
                                     /\ toClient'[i] = toClient[i + 1]
      /\ \A i \in DOMAIN toClient : i # 1 => i - 1 \in DOMAIN toClient'
  BY <1>1, Read
<1> QED
  BY <1>2

LEMMA Lengthened ==
    ASSUME TransportInv, NEW m \in ToClient, toClient' = Append(toClient, m)
    PROVE  /\ Len(toClient) \in Nat /\ DOMAIN toClient = 1..Len(toClient)
           /\ DOMAIN toClient' = 1..(Len(toClient) + 1)
           /\ \A i \in DOMAIN toClient : toClient'[i] = toClient[i]
           /\ toClient'[Len(toClient) + 1] = m
<1>1. toClient \in Seq(ToClient)
  BY DEF TransportInv, TypeOK
<1> QED
  BY <1>1, Written

\* The line of answers is left alone, lengthened or read.
LEMMA Growth ==
    ASSUME TransportInv, [Next]_vars
    PROVE  \/ toClient' = toClient
           \/ \E m \in ToClient : toClient' = Append(toClient, m)
           \/ ReceiveResponse \/ ReceiveCancelReply \/ DropLine
<1>1. TypeOK
  BY DEF TransportInv
<1>2. ASSUME NEW r \in Request, NEW k \in BOOLEAN, NEW e \in BOOLEAN, NEW o \in Outcomes
      PROVE  Response(r, e, k, o) \in ToClient /\ CancelReply(r, k, o) \in ToClient
  BY DEF Response, CancelReply, ToClient
<1>3. "none" \in Outcomes /\ \A r : Outcome(r) \in Outcomes
  BY OutcomeType DEF Outcomes
<1>4. CASE ReceiveCancelRequest
  <2>1. Head(toAgent).id \in Request
    BY <1>4, AgentReading DEF ReceiveCancelRequest, ToAgent
  <2> QED
    BY <1>2, <1>3, <1>4, <2>1 DEF ReceiveCancelRequest
<1>5. ASSUME NEW r \in Request, AnswerCancelRequest(r)
      PROVE  \E m \in ToClient : toClient' = Append(toClient, m)
  <2>1. quiet[r] \in BOOLEAN
    BY <1>1 DEF TypeOK
  <2> QED
    BY <1>2, <1>3, <1>5, <2>1 DEF AnswerCancelRequest
<1>6. ASSUME NEW r \in Request, NEW v \in BOOLEAN, NEW l \in BOOLEAN, Finalize(r, v, l)
      PROVE  toClient' = toClient \/ \E m \in ToClient : toClient' = Append(toClient, m)
  <2>1. (failed[r] \/ ~v) \in BOOLEAN
    BY <1>1 DEF TypeOK
  <2> QED
    BY <1>2, <1>3, <1>6, <2>1 DEF Finalize
<1>7. ASSUME NEW r \in Request, NEW e \in BOOLEAN, EndUnscoped(r, e)
      PROVE  \E m \in ToClient : toClient' = Append(toClient, m)
  BY <1>2, <1>3, <1>7 DEF EndUnscoped
<1> QED
  BY <1>4, <1>5, <1>6, <1>7, Answerers

\* A request that ends without a cancellation is answered.
LEMMA AnswerKeeps ==
    ASSUME TransportInv, RefusalInv, [Next]_vars, NEW q \in Request
    PROVE  AnswerInv(q)'
<1> SUFFICES ASSUME Scoped(q)', stage'[q] = "done", ~wanted'[q],
                    phase'[q] # "done", ~(garbled' > 0)
             PROVE  \E i \in DOMAIN toClient' : Answers(toClient'[i], q)
  BY DEF AnswerInv, Answers
<1>1. Scoped(q) /\ ~wanted[q] /\ TypeOK
  BY Ends DEF Scoped, TransportInv
<1>2. CASE stage[q] # "done"
  <2>1. PICK v \in BOOLEAN, l \in BOOLEAN : Finalize(q, v, l)
    <3>1. \E r \in Request, v, l \in BOOLEAN : Finalize(r, v, l) /\ q = r
      <4>1. CASE \E r \in Request : \E v, l \in BOOLEAN : Finalize(r, v, l)
        BY <1>1, <1>2, <4>1 DEF Finalize, TypeOK
      <4>2. CASE \E r \in Request : \E e \in BOOLEAN : EndUnscoped(r, e)
        BY <1>1, <1>2, <4>2 DEF EndUnscoped, TypeOK
      <4>3. CASE \E r \in Request : \E e \in BOOLEAN : EndHandler(r, e)
        BY <1>1, <1>2, <4>3 DEF EndHandler, TypeOK
      <4>4. CASE ReceiveRequest
        <5>1. \E r : stage' = [stage EXCEPT ![r] = "running"]
          BY <4>4 DEF ReceiveRequest
        <5> QED
          BY <1>1, <1>2, <5>1 DEF TypeOK
      <4>5. stage' = stage \/ ReceiveRequest
            \/ (\E r \in Request : \E v, l \in BOOLEAN : Finalize(r, v, l))
            \/ (\E r \in Request : \E e \in BOOLEAN : EndUnscoped(r, e) \/ EndHandler(r, e))
        BY DEF Next, Handler, vars, agent, Gate, Send, NotSent, Cancel, AnswerCancelRequest,
           StartProcess, ProcessesEnd, BeginCommit, CompleteCommit, ReceiveResponse,
           ReceiveCancelReply, DropLine, StartDrain, PollDrain, Dispose, PipeBreaks,
           NoticeExit, ReceiveCancelRequest, AgentExits
      <4> QED
        BY <1>2, <4>1, <4>2, <4>3, <4>4, <4>5
    <3> QED
      BY <3>1
  <2> DEFINE m == Response(q, failed[q] \/ ~v, v, Outcome(q))
  <2>2. toClient' = Append(toClient, m)
    BY <1>1, <2>1 DEF Finalize
  <2>3. m \in ToClient /\ Answers(m, q)
    BY <1>1, OutcomeType DEF Response, ToClient, Answers, TypeOK
  <2> HIDE DEF m
  <2>4. Len(toClient) + 1 \in DOMAIN toClient' /\ toClient'[Len(toClient) + 1] = m
    BY <2>2, <2>3, Lengthened
  <2> QED
    BY <2>3, <2>4
<1>3. CASE stage[q] = "done"
  <2>1. phase[q] # "done" /\ ~(garbled > 0)
    BY Ends
  <2>2. PICK i \in DOMAIN toClient : Answers(toClient[i], q)
    BY <1>1, <1>3, <2>1 DEF RefusalInv, AnswerInv
  <2>3. CASE toClient' = toClient
    BY <2>2, <2>3
  <2>4. CASE \E m \in ToClient : toClient' = Append(toClient, m)
    <3>1. i \in DOMAIN toClient' /\ toClient'[i] = toClient[i]
      BY <2>4, Lengthened
    <3> QED
      BY <2>2, <3>1
  <2>5. CASE ReceiveResponse \/ ReceiveCancelReply \/ DropLine
    <3>1. i # 1
      BY <1>3, <2>2, <2>5, Heard, Line
    <3>2. i - 1 \in DOMAIN toClient' /\ i \in Nat
      BY <2>5, <3>1, Line
    <3>3. toClient'[i - 1] = toClient[i - 1 + 1] /\ i - 1 + 1 = i
      BY <2>5, <3>2, Line
    <3> QED
      BY <2>2, <3>2, <3>3
  <2> QED
    BY <2>3, <2>4, <2>5, Growth
<1> QED
  BY <1>2, <1>3

\* A refusal comes behind the answer, if there is one.
LEMMA RefusalOrderKeeps ==
    ASSUME TransportInv, RefusalInv, [Next]_vars
    PROVE  RefusalOrder'
<1>1. ASSUME NEW q \in Request PROVE Excused(q) => Excused(q)'
  BY <1>1, Ends DEF Excused
<1>2. ASSUME NEW q \in Request, stage[q] = "done" PROVE stage'[q] = "done"
  BY <1>2, Ends
<1>3. policy' = policy /\ TypeOK
  BY Ends DEF TransportInv
<1>4. ASSUME NEW m \in ToClient PROVE m.id \in Request /\ (Refuses(m)' <=> Refuses(m))
  BY <1>3 DEF ToClient, Refuses, Scoped
<1>5. CASE toClient' = toClient
  <2>1. ASSUME NEW i \in DOMAIN toClient, NEW q \in Request, InOrder(i, q)
        PROVE  InOrder(i, q)'
    BY <1>1, <1>2, <1>5, <2>1 DEF InOrder, Answers
  <2> QED
    BY <1>4, <1>5, <2>1 DEF RefusalInv, RefusalOrder
<1>6. ASSUME NEW m \in ToClient, toClient' = Append(toClient, m),
             Refuses(m) => \/ Excused(m.id)'
                           \/ /\ stage'[m.id] = "done"
                              /\ \E j \in DOMAIN toClient : Answers(toClient[j], m.id)
      PROVE  RefusalOrder'
  <2> DEFINE n == Len(toClient)
  <2>1. /\ n \in Nat /\ DOMAIN toClient = 1..n
        /\ DOMAIN toClient' = 1..(n + 1)
        /\ \A i \in DOMAIN toClient : toClient'[i] = toClient[i]
        /\ toClient'[n + 1] = m
    BY <1>6, Lengthened
  <2> HIDE DEF n
  <2>2. ASSUME NEW i \in DOMAIN toClient', NEW x \in ToClient, toClient'[i] = x, Refuses(x)
        PROVE  InOrder(i, x.id)'
    <3>1. CASE i = n + 1
      <4>1. x = m
        BY <2>1, <2>2, <3>1
      <4>2. \A j \in DOMAIN toClient : j < i /\ j \in DOMAIN toClient' /\ toClient'[j] = toClient[j]
        BY <2>1, <3>1
      <4> QED
        BY <1>6, <2>2, <4>1, <4>2 DEF InOrder, Answers
    <3>2. CASE i # n + 1
      <4>1. i \in DOMAIN toClient /\ toClient[i] = x
        BY <2>1, <2>2, <3>2
      <4>2. InOrder(i, x.id) /\ x.id \in Request
        BY <1>4, <2>2, <4>1 DEF RefusalInv, RefusalOrder
      <4>3. CASE Excused(x.id)
        BY <1>1, <4>2, <4>3 DEF InOrder
      <4>4. CASE stage[x.id] = "done"
                 /\ \E j \in DOMAIN toClient : j < i /\ Answers(toClient[j], x.id)
        <5>1. PICK j \in DOMAIN toClient : j < i /\ Answers(toClient[j], x.id)
          BY <4>4
        <5>2. j \in DOMAIN toClient' /\ toClient'[j] = toClient[j]
          BY <2>1
        <5> QED
          BY <1>2, <4>2, <4>4, <5>1, <5>2 DEF InOrder, Answers
      <4> QED
        BY <4>2, <4>3, <4>4 DEF InOrder
    <3> QED
      BY <3>1, <3>2
  <2> QED
    BY <1>4, <2>2 DEF RefusalOrder
<1>7. CASE ReceiveResponse \/ ReceiveCancelReply \/ DropLine
  <2>1. ASSUME NEW i \in DOMAIN toClient', NEW x \in ToClient, toClient'[i] = x, Refuses(x)
        PROVE  InOrder(i, x.id)'
    <3>1. i \in Nat /\ i + 1 \in DOMAIN toClient /\ toClient[i + 1] = x
      BY <1>7, <2>1, Line
    <3>2. InOrder(i + 1, x.id) /\ x.id \in Request
      BY <1>4, <2>1, <3>1 DEF RefusalInv, RefusalOrder
    <3>3. CASE Excused(x.id)
      BY <1>1, <3>2, <3>3 DEF InOrder
    <3>4. CASE stage[x.id] = "done"
               /\ \E j \in DOMAIN toClient : j < i + 1 /\ Answers(toClient[j], x.id)
      <4>1. PICK j \in DOMAIN toClient : j < i + 1 /\ Answers(toClient[j], x.id)
        BY <3>4
      <4>2. CASE j = 1
        <5>1. phase'[x.id] = "done" \/ garbled' > 0
          BY <1>7, <3>2, <3>4, <4>1, <4>2, Heard, Line
        <5> QED
          BY <1>2, <3>2, <3>4, <5>1 DEF InOrder, Excused
      <4>3. CASE j # 1
        <5>1. j \in Nat /\ j - 1 \in DOMAIN toClient'
          BY <1>7, <4>3, Line
        <5>2. toClient'[j - 1] = toClient[j - 1 + 1] /\ j - 1 + 1 = j
          BY <1>7, <5>1, Line
        <5>3. j - 1 < i
          BY <3>1, <4>1, <5>1
        <5>4. stage'[x.id] = "done"
          BY <1>2, <3>2, <3>4
        <5>5. Answers(toClient'[j - 1], x.id)
          BY <4>1, <5>2
        <5> QED
          BY <5>1, <5>3, <5>4, <5>5 DEF InOrder, Answers
      <4> QED
        BY <4>2, <4>3
    <3> QED
      BY <3>2, <3>3, <3>4 DEF InOrder
  <2> QED
    BY <1>4, <2>1 DEF RefusalOrder
<1>8. ASSUME NEW r \in Request, AnswerCancelRequest(r)
      PROVE  RefusalOrder'
  <2> DEFINE m == CancelReply(r, quiet[r], IF quiet[r] THEN Outcome(r) ELSE "none")
  <2>1. /\ m \in ToClient /\ m.id = r
        /\ m.error = ~quiet[r]
    BY <1>3, OutcomeType DEF CancelReply, ToClient, TypeOK, Outcomes
  <2>2. toClient' = Append(toClient, m) /\ stage[r] = "done"
    BY <1>8 DEF AnswerCancelRequest
  <2>3. m.error => Excused(r)'
    BY <1>1, <2>1, <2>2 DEF Excused
  <2> HIDE DEF m
  <2> QED
    BY <1>6, <2>1, <2>2, <2>3 DEF Refuses
<1>9. ASSUME NEW r \in Request, NEW v \in BOOLEAN, NEW l \in BOOLEAN, Finalize(r, v, l)
      PROVE  RefusalOrder'
  <2> DEFINE m == Response(r, failed[r] \/ ~v, v, Outcome(r))
  <2>1. toClient' = toClient \/ toClient' = Append(toClient, m)
    BY <1>9 DEF Finalize
  <2>2. m \in ToClient /\ m.kind = "response"
    BY <1>3, OutcomeType DEF Response, ToClient, TypeOK
  <2> HIDE DEF m
  <2> QED
    BY <1>5, <1>6, <2>1, <2>2 DEF Refuses
<1>10. ASSUME NEW r \in Request, NEW e \in BOOLEAN, EndUnscoped(r, e)
       PROVE  RefusalOrder'
  <2> DEFINE m == Response(r, e, FALSE, "none")
  <2>1. toClient' = Append(toClient, m)
    BY <1>10 DEF EndUnscoped
  <2>2. m \in ToClient /\ m.kind = "response"
    BY DEF Response, ToClient, Outcomes
  <2> HIDE DEF m
  <2> QED
    BY <1>6, <2>1, <2>2 DEF Refuses
<1>11. CASE ReceiveCancelRequest
  <2>1. PICK r \in Request : Head(toAgent) = Message("cancelRequest", r)
    BY <1>11, AgentReading DEF ReceiveCancelRequest, ToAgent, Message
  <2>2. Head(toAgent).id = r /\ Head(toAgent).kind = "cancelRequest"
    BY <2>1 DEF Message
  <2>3. /\ toAgent # <<>> /\ toAgent' = Tail(toAgent)
        /\ stage' = stage /\ garbled' = garbled /\ phase' = phase
    BY <1>11 DEF ReceiveCancelRequest, client, session
  <2>4. stage[r] # "none" /\ ~wanted[r]
    <3>1. ControlSent(r) /\ ControlInv(r)
      BY <2>1, <2>3, Front DEF ControlSent, RefusalInv
    <3>2. ~OnItsWay(r)
      <4>1. ~In(Message("request", r), toAgent')
        BY <2>2, <2>3, Front DEF RefusalInv, Message
      <4>2. Message("request", r) # Head(toAgent)
        BY <2>2 DEF Message
      <4>3. ~In(Message("request", r), toAgent)
        BY <2>3, <4>1, <4>2, Front
      <4> QED
        BY <4>3 DEF OnItsWay, In
    <3> QED
      BY <3>1, <3>2 DEF ControlInv
  <2>5. PICK m \in ToClient : /\ toClient' = toClient \/ toClient' = Append(toClient, m)
                              /\ m.id = r
                              /\ m.error => (Scoped(r) => stage[r] = "done")
    <3> DEFINE yes == CancelReply(r, TRUE, Outcome(r))
               no  == CancelReply(r, FALSE, "none")
               live == Scoped(r) /\ Executing(r)
    <3>1. /\ yes \in ToClient /\ yes.id = r /\ ~yes.error
          /\ no \in ToClient /\ no.id = r
      BY OutcomeType DEF CancelReply, ToClient, Outcomes
    <3>2. Scoped(r) /\ ~live => stage[r] = "done"
      BY <1>3, <2>4 DEF TypeOK, Executing
    <3>3. \/ toClient' = toClient
          \/ ~live /\ (toClient' = Append(toClient, yes) \/ toClient' = Append(toClient, no))
      BY <1>11, <2>2 DEF ReceiveCancelRequest
    <3> HIDE DEF yes, no, live
    <3> QED
      BY <3>1, <3>2, <3>3
  <2>6. Refuses(m) => \/ Excused(m.id)'
                      \/ /\ stage'[m.id] = "done"
                         /\ \E j \in DOMAIN toClient : Answers(toClient[j], m.id)
    <3> SUFFICES ASSUME Refuses(m)
                 PROVE  \/ Excused(r)'
                        \/ /\ stage'[r] = "done"
                           /\ \E j \in DOMAIN toClient : Answers(toClient[j], r)
      BY <2>5
    <3>1. Scoped(r) /\ stage[r] = "done"
      BY <2>5 DEF Refuses
    <3>2. AnswerInv(r)
      BY DEF RefusalInv
    <3> QED
      BY <2>3, <2>4, <3>1, <3>2 DEF AnswerInv, Excused
  <2> QED
    BY <1>5, <1>6, <2>5, <2>6
<1> QED
  BY <1>5, <1>7, <1>8, <1>9, <1>10, <1>11, Answerers

\* What the client has been refused was in order.
LEMMA RefusedKeeps ==
    ASSUME TransportInv, RefusalInv, [Next]_vars, NEW q \in Request
    PROVE  RefusedInv(q)'
<1>1. /\ Excused(q) => Excused(q)'
      /\ Scoped(q)' <=> Scoped(q)
  BY Ends DEF Excused, Scoped
<1>2. CASE refused'[q] = refused[q]
  BY <1>1, <1>2 DEF RefusalInv, RefusedInv
<1>3. CASE refused'[q] # refused[q]
  <2>1. ReceiveCancelReply
    BY <1>3 DEF Next, Handler, vars, client, Gate, Send, NotSent, Cancel, AnswerCancelRequest,
       StartProcess, ProcessesEnd, BeginCommit, CompleteCommit, EndHandler, EndUnscoped, Finalize,
       ReceiveResponse, DropLine, StartDrain, PollDrain, Dispose, PipeBreaks, NoticeExit,
       ReceiveRequest, ReceiveCancelRequest, AgentExits
  <2>2. Received.id = q /\ Received.error /\ Received.kind = "cancelReply"
    <3>1. TypeOK
      BY DEF TransportInv
    <3>2. \E b \in BOOLEAN : /\ refused' = [refused EXCEPT ![Received.id] = @ \/ b]
                             /\ b => Received.error
      BY <2>1 DEF ReceiveCancelReply
    <3>3. Received.kind = "cancelReply"
      BY <2>1 DEF ReceiveCancelReply
    <3> QED
      BY <1>3, <3>1, <3>2, <3>3 DEF TypeOK
  <2>3. /\ Received = toClient[1] /\ 1 \in DOMAIN toClient /\ Received \in ToClient
        /\ \A i \in DOMAIN toClient : ~(i < 1)
    BY <2>1, Line, Reading DEF Received, ReceiveCancelReply
  <2>4. Scoped(q) => Excused(q)
    BY <2>2, <2>3 DEF RefusalInv, RefusalOrder, InOrder, Refuses
  <2> QED
    BY <1>1, <2>4 DEF RefusedInv
<1> QED
  BY <1>2, <1>3

LEMMA RefusalInvariance == Spec => []RefusalInv
<1>1. Init => RefusalInv
  <2> SUFFICES ASSUME Init PROVE RefusalInv
    OBVIOUS
  <2>1. /\ toAgent = <<>> /\ toClient = <<>> /\ DOMAIN <<>> = {}
        /\ \A r \in Request : /\ phase[r] = "idle" /\ ~abort[r] /\ ~wanted[r] /\ ~refused[r]
                              /\ stage[r] = "none"
    BY EmptySeq DEF Init
  <2> QED
    BY <2>1 DEF RefusalInv, LastWord, RefusalOrder, ControlInv, ControlSent, In, AnswerInv,
       RefusedInv
<1>2. TransportInv /\ RefusalInv /\ [Next]_vars => RefusalInv'
  <2> SUFFICES ASSUME TransportInv, RefusalInv, [Next]_vars PROVE RefusalInv'
    OBVIOUS
  <2>1. LastWord'
    BY LastWordKeeps
  <2>2. RefusalOrder'
    BY RefusalOrderKeeps
  <2>3. \A r \in Request : ControlInv(r)' /\ AnswerInv(r)' /\ RefusedInv(r)'
    BY ControlKeeps, AnswerKeeps, RefusedKeeps
  <2> QED
    BY <2>1, <2>2, <2>3 DEF RefusalInv
<1> QED
  BY <1>1, <1>2, Invariance, PTL DEF Spec

\* A cancellation that was turned down leaves its request pending
\* (cancellationControlError in workspace-backend.js) only if the agent could
\* not prove that it stopped or a line was lost; a request the agent has
\* merely forgotten (rememberCompletedRequest in wsl-agent.js) is answered.
THEOREM RefusalsAreReal == Spec => []RefusalIsReal
<1>1. RefusalInv => RefusalIsReal
  BY DEF RefusalInv, RefusedInv, Excused, RefusalIsReal, Pending
<1> QED
  BY <1>1, RefusalInvariance, PTL

-----------------------------------------------------------------------------
(***************************************************************************)
(* Answers owed.  A cancel control gets one reply: it is in one pipe, held *)
(* back by its handler until the scope is done, or in the other pipe, and  *)
(* never in two of these places.  That is why the client still waits for   *)
(* the reply when it comes, and why it settles the request.                *)
(***************************************************************************)
Replies(m, r) == m.kind = "cancelReply" /\ m.id = r

Replied(r) == \E i \in DOMAIN toClient : Replies(toClient[i], r)

OneReplyEach ==
    \A i, j \in DOMAIN toClient : \A r \in Request :
        Replies(toClient[i], r) /\ Replies(toClient[j], r) => i = j

ReplyInv(r) ==
    /\ waiting[r] => wanted[r]
    /\ wanted[r] => Scoped(r) /\ stage[r] # "none"
    /\ wanted[r] /\ Executing(r) => waiting[r]
    /\ ControlSent(r) \/ waiting[r] => ~Replied(r)
    /\ Replied(r) => abort[r]
    /\ phase[r] = "pending" /\ (ControlSent(r) \/ waiting[r] \/ Replied(r)) =>
           control[r] = "waiting"

\* Cancelled and without an outcome to tell: there is no response.
Silenced(r) == Scoped(r) /\ wanted[r] /\ Outcome(r) = "none"

Awaited(r) == phase[r] = "pending" /\ garbled = 0 /\ stage[r] = "done"

ResponseInv(r) ==
    Awaited(r) /\ ~Silenced(r) => \E i \in DOMAIN toClient : Answers(toClient[i], r)

AcknowledgmentInv(r) ==
    Awaited(r) /\ Silenced(r) =>
        \/ waiting[r]
        \/ ~quiet[r]
        \/ \E i \in DOMAIN toClient : Replies(toClient[i], r) /\ ~toClient[i].error

OwedInv ==
    /\ OneReplyEach
    /\ \A r \in Request : ReplyInv(r) /\ ResponseInv(r) /\ AcknowledgmentInv(r)

\* A request that is done has nothing more to decide.
LEMMA DoneStays ==
    ASSUME TransportInv, [Next]_vars, NEW q \in Request, stage[q] = "done"
    PROVE  stage'[q] = "done" /\ step'[q] = step[q] /\ wanted'[q] = wanted[q]
           /\ quiet'[q] = quiet[q] /\ policy' = policy
<1> USE DEF vars, client, session, agent, pipes
<1>1. TypeOK /\ stage'[q] = "done" /\ quiet'[q] = quiet[q] /\ policy' = policy /\ ScopeInv(q)
  BY Ends DEF TransportInv, RequestInv
<1>2. CASE UNCHANGED <<step, wanted>>
  BY <1>1, <1>2
<1>3. CASE \E r \in Request : BeginCommit(r) \/ CompleteCommit(r)
  BY <1>1, <1>3 DEF BeginCommit, CompleteCommit, Running, TypeOK
<1>4. CASE \E r \in Request : \E e \in BOOLEAN : EndHandler(r, e)
  BY <1>1, <1>4 DEF EndHandler, Running, TypeOK
<1>5. CASE ReceiveRequest
  <2>1. PICK r \in Request : Head(toAgent) = Message("request", r) /\ stage[r] = "none"
    BY <1>5, AgentReading DEF TransportInv, RequestInv, PathInv, ReceiveRequest, ToAgent, Message
  <2>2. Head(toAgent).id = r
    BY <2>1 DEF Message
  <2>3. /\ wanted' = wanted
        /\ \E x : step' = [step EXCEPT ![r] = x]
    BY <1>5, <2>2 DEF ReceiveRequest
  <2> QED
    BY <1>1, <2>1, <2>3 DEF TypeOK
<1>6. CASE ReceiveCancelRequest
  <2>1. step' = step
    BY <1>6 DEF ReceiveCancelRequest
  <2>2. PICK r \in Request : wanted' = [wanted EXCEPT ![r] = @ \/ (Scoped(r) /\ Executing(r))]
    BY <1>6, AgentReading DEF ReceiveCancelRequest, ToAgent
  <2>3. q = r => ~Executing(r)
    BY DEF Executing
  <2> QED
    BY <1>1, <2>1, <2>2, <2>3 DEF TypeOK
<1> QED
  BY <1>2, <1>3, <1>4, <1>5, <1>6
  DEF Next, Handler, Gate, Send, NotSent, Cancel, AnswerCancelRequest, StartProcess,
      ProcessesEnd, EndUnscoped, Finalize, ReceiveResponse, ReceiveCancelReply, DropLine,
      StartDrain, PollDrain, Dispose, PipeBreaks, NoticeExit, AgentExits

\* How a request comes to be done.
LEMMA Completes ==
    ASSUME TransportInv, [Next]_vars, NEW q \in Request, stage[q] # "done", stage'[q] = "done"
    PROVE  \/ \E v, l \in BOOLEAN : Finalize(q, v, l)
           \/ \E e \in BOOLEAN : EndUnscoped(q, e)
<1>1. TypeOK
  BY DEF TransportInv
<1>2. CASE \E r \in Request : \E v, l \in BOOLEAN : Finalize(r, v, l)
  <2>1. PICK r \in Request, v \in BOOLEAN, l \in BOOLEAN : Finalize(r, v, l)
    BY <1>2
  <2>2. stage' = [stage EXCEPT ![r] = "done"]
    BY <2>1 DEF Finalize
  <2>3. r = q
    BY <1>1, <2>2 DEF TypeOK
  <2> QED
    BY <2>1, <2>3
<1>3. CASE \E r \in Request : \E e \in BOOLEAN : EndUnscoped(r, e)
  BY <1>1, <1>3 DEF EndUnscoped, TypeOK
<1>4. CASE \E r \in Request : \E e \in BOOLEAN : EndHandler(r, e)
  BY <1>1, <1>4 DEF EndHandler, TypeOK
<1>5. CASE ReceiveRequest
  <2>1. \E r : stage' = [stage EXCEPT ![r] = "running"]
    BY <1>5 DEF ReceiveRequest
  <2> QED
    BY <1>1, <2>1 DEF TypeOK
<1>6. stage' = stage \/ ReceiveRequest
      \/ (\E r \in Request : \E v, l \in BOOLEAN : Finalize(r, v, l))
      \/ (\E r \in Request : \E e \in BOOLEAN : EndUnscoped(r, e) \/ EndHandler(r, e))
  BY DEF Next, Handler, vars, agent, Gate, Send, NotSent, Cancel, AnswerCancelRequest,
     StartProcess, ProcessesEnd, BeginCommit, CompleteCommit, ReceiveResponse,
     ReceiveCancelReply, DropLine, StartDrain, PollDrain, Dispose, PipeBreaks,
     NoticeExit, ReceiveCancelRequest, AgentExits
<1> QED
  BY <1>2, <1>3, <1>4, <1>5, <1>6

\* How the line of answers moves, as far as the replies to controls go.
LEMMA RepliesMove ==
    ASSUME TransportInv, [Next]_vars, NEW q \in Request
    PROVE  /\ toClient' = toClient => (Replied(q)' <=> Replied(q))
           /\ \A m \in ToClient : toClient' = Append(toClient, m) =>
                 (Replied(q)' <=> Replied(q) \/ Replies(m, q))
           /\ ReceiveResponse \/ ReceiveCancelReply \/ DropLine =>
                 /\ Replied(q)' => Replied(q)
                 /\ Replies(Head(toClient), q) => Replied(q)
                 /\ OneReplyEach /\ Replies(Head(toClient), q) => ~Replied(q)'
<1>1. ASSUME toClient' = toClient PROVE Replied(q)' <=> Replied(q)
  BY <1>1 DEF Replied, Replies
<1>2. ASSUME NEW m \in ToClient, toClient' = Append(toClient, m)
      PROVE  Replied(q)' <=> Replied(q) \/ Replies(m, q)
  <2>1. /\ Len(toClient) \in Nat /\ DOMAIN toClient = 1..Len(toClient)
        /\ DOMAIN toClient' = 1..(Len(toClient) + 1)
        /\ \A i \in DOMAIN toClient : toClient'[i] = toClient[i]
        /\ toClient'[Len(toClient) + 1] = m
    BY <1>2, Lengthened
  <2> QED
    BY <2>1 DEF Replied, Replies
<1>3. ASSUME ReceiveResponse \/ ReceiveCancelReply \/ DropLine
      PROVE  /\ Replied(q)' => Replied(q)
             /\ Replies(Head(toClient), q) => Replied(q)
             /\ OneReplyEach /\ Replies(Head(toClient), q) => ~Replied(q)'
  <2>1. /\ \A i \in DOMAIN toClient' : i \in Nat /\ i + 1 \in DOMAIN toClient
                                       /\ toClient'[i] = toClient[i + 1]
        /\ \A i \in DOMAIN toClient : i \in Nat /\ i >= 1
        /\ Head(toClient) = toClient[1] /\ 1 \in DOMAIN toClient
    BY <1>3, Line
  <2>2. Replied(q)' => Replied(q)
    BY <2>1 DEF Replied, Replies
  <2>3. Replies(Head(toClient), q) => Replied(q)
    BY <2>1 DEF Replied
  <2>4. ASSUME OneReplyEach, Replies(Head(toClient), q), Replied(q)' PROVE FALSE
    <3>1. PICK i \in DOMAIN toClient' : Replies(toClient'[i], q)
      BY <2>4 DEF Replied, Replies
    <3>2. /\ i \in Nat /\ i + 1 \in DOMAIN toClient /\ Replies(toClient[i + 1], q)
          /\ Replies(toClient[1], q)
      BY <2>1, <2>4, <3>1 DEF Replies
    <3>3. i + 1 = 1
      BY <2>1, <2>4, <3>2 DEF OneReplyEach
    <3>4. i \in DOMAIN toClient' /\ i = 0
      BY <3>2, <3>3
    <3>5. DOMAIN toClient' = 1..Len(toClient') /\ Len(toClient') \in Nat
      <4>1. toClient' \in Seq(ToClient)
        BY NextKeeps DEF TransportInv, TypeOK
      <4> QED
        BY <4>1, LenProperties
    <3> QED
      BY <3>4, <3>5
  <2> QED
    BY <2>2, <2>3, <2>4
<1> QED
  BY <1>1, <1>2, <1>3

\* A step that brings the request q nearer to its reply, or does not touch it.
LEMMA ReplyFrame ==
    ASSUME NEW q \in Request, ReplyInv(q), policy' = policy,
           abort[q] => abort'[q],
           waiting'[q] = waiting[q],
           wanted'[q] = wanted[q],
           stage[q] # "none" => stage'[q] # "none",
           wanted[q] /\ Executing(q)' => Executing(q),
           ControlSent(q)' => ControlSent(q),
           Replied(q)' => Replied(q),
           phase'[q] = "pending" => phase[q] = "pending" /\ control'[q] = control[q]
    PROVE  ReplyInv(q)'
BY DEF ReplyInv, Scoped

LEMMA RepliesKeep ==
    ASSUME TransportInv, RefusalInv, OwedInv, [Next]_vars, NEW q \in Request
    PROVE  ReplyInv(q)'
<1> USE DEF client, session, agent, pipes
<1>1. /\ TypeOK /\ PathInv(q) /\ ScopeInv(q) /\ ControlInv(q) /\ ReplyInv(q) /\ OneReplyEach
      /\ toAgent' = toAgent => (ControlSent(q)' <=> ControlSent(q))
      /\ toClient' = toClient => (Replied(q)' <=> Replied(q))
  BY RepliesMove DEF TransportInv, RequestInv, RefusalInv, OwedInv, ControlSent
<1>2. /\ stage[q] # "none" => stage'[q] # "none"
      /\ abort[q] => abort'[q]
      /\ policy' = policy
  BY Ends
<1>3. ASSUME NEW r \in Request, Gate(r) \/ NotSent(r) PROVE ReplyInv(q)'
  <2>1. /\ UNCHANGED <<toAgent, toClient, wanted, waiting, abort, control, stage>>
        /\ phase'[q] = phase[q] \/ phase'[q] \in {"gated", "done"}
    BY <1>1, <1>3 DEF Gate, NotSent, TypeOK
  <2> QED
    BY <1>1, <1>2, <2>1, ReplyFrame DEF Executing
<1>4. ASSUME NEW r \in Request, Send(r) PROVE ReplyInv(q)'
  <2>1. /\ UNCHANGED <<toClient, wanted, waiting, abort, control, stage>>
        /\ phase[r] = "gated" /\ phase' = [phase EXCEPT ![r] = "pending"]
        /\ toAgent' = Append(toAgent, Message("request", r))
    BY <1>4 DEF Send
  <2>2. ControlSent(q)' => ControlSent(q)
    <3>1. Message("request", r) \in ToAgent /\ toAgent \in Seq(ToAgent)
      BY <1>1 DEF ToAgent, Message, TypeOK
    <3> QED
      BY <2>1, <3>1, AppendIn DEF ControlSent, Message
  <2>3. CASE q # r
    BY <1>1, <1>2, <2>1, <2>2, <2>3, ReplyFrame DEF Executing, TypeOK
  <2>4. CASE q = r
    <3>1. ~abort[q]
      BY <1>1, <2>1, <2>4 DEF ControlInv
    <3>2. ~wanted[q] /\ ~waiting[q] /\ ~ControlSent(q) /\ ~Replied(q)
      BY <1>1, <3>1 DEF ControlInv, ReplyInv
    <3> QED
      BY <1>1, <2>1, <2>2, <3>2 DEF ReplyInv
  <2> QED
    BY <2>3, <2>4
<1>5. ASSUME NEW r \in Request, Cancel(r) PROVE ReplyInv(q)'
  <2>1. /\ UNCHANGED <<toClient, wanted, waiting, phase, stage, policy>>
        /\ phase[r] = "pending" /\ ~abort[r]
        /\ abort' = [abort EXCEPT ![r] = TRUE]
        /\ control' = [control EXCEPT ![r] = "waiting"]
        /\ toAgent' = Append(toAgent, Message("cancelRequest", r))
    BY <1>5 DEF Cancel, Pending
  <2>2. ControlSent(q)' => ControlSent(q) \/ q = r
    <3>1. Message("cancelRequest", r) \in ToAgent /\ toAgent \in Seq(ToAgent)
      BY <1>1 DEF ToAgent, Message, TypeOK
    <3> QED
      BY <2>1, <3>1, AppendIn DEF ControlSent, Message
  <2>3. CASE q # r
    BY <1>1, <1>2, <2>1, <2>2, <2>3, ReplyFrame DEF Executing, TypeOK
  <2>4. CASE q = r
    <3>1. ~wanted[q] /\ ~waiting[q] /\ ~Replied(q) /\ control'[q] = "waiting"
      BY <1>1, <2>1, <2>4 DEF ControlInv, ReplyInv, TypeOK
    <3> QED
      BY <1>1, <2>1, <3>1 DEF ReplyInv, Scoped
  <2> QED
    BY <2>3, <2>4
<1>6. CASE ReceiveRequest
  <2>1. PICK r \in Request : Head(toAgent) = Message("request", r) /\ stage[r] = "none"
    BY <1>6, AgentReading DEF TransportInv, RequestInv, PathInv, ReceiveRequest, ToAgent, Message
  <2>2. Head(toAgent).id = r
    BY <2>1 DEF Message
  <2>3. /\ stage' = [stage EXCEPT ![r] = "running"]
        /\ UNCHANGED <<toClient, wanted, waiting, abort, phase, control>>
    BY <1>6, <2>2 DEF ReceiveRequest
  <2>4. ControlSent(q)' => ControlSent(q)
    BY <1>6, Front DEF ReceiveRequest, ControlSent
  <2>5. wanted[q] /\ Executing(q)' => Executing(q)
    BY <1>1, <2>1, <2>3 DEF ReplyInv, Executing, TypeOK
  <2> QED
    BY <1>1, <1>2, <2>3, <2>4, <2>5, ReplyFrame
<1>7. CASE ReceiveCancelRequest
  <2>1. PICK r \in Request : Head(toAgent) = Message("cancelRequest", r)
    BY <1>7, AgentReading DEF ReceiveCancelRequest, ToAgent, Message
  <2>2. Head(toAgent).id = r /\ Head(toAgent).kind = "cancelRequest"
    BY <2>1 DEF Message
  <2>3. toAgent # <<>> /\ toAgent' = Tail(toAgent)
    BY <1>7 DEF ReceiveCancelRequest
  <2> DEFINE live == Scoped(r) /\ Executing(r)
  <2>4. /\ UNCHANGED <<abort, phase, stage, control, policy>>
        /\ wanted' = [wanted EXCEPT ![r] = @ \/ live]
        /\ waiting' = [waiting EXCEPT ![r] = @ \/ live]
        /\ live => toClient' = toClient
        /\ ~live => \E m \in ToClient : Replies(m, r) /\ toClient' = Append(toClient, m)
    <3>1. CancelReply(r, TRUE, Outcome(r)) \in ToClient /\ CancelReply(r, FALSE, "none") \in ToClient
      BY OutcomeType DEF CancelReply, ToClient, Outcomes
    <3>2. Replies(CancelReply(r, TRUE, Outcome(r)), r) /\ Replies(CancelReply(r, FALSE, "none"), r)
      BY DEF Replies, CancelReply
    <3> QED
      BY <1>7, <2>2, <3>1, <3>2 DEF ReceiveCancelRequest
  <2>5. /\ ControlSent(r) /\ ~ControlSent(r)'
        /\ ControlSent(q)' => ControlSent(q)
    <3>1. /\ In(Head(toAgent), toAgent)
          /\ \A m : In(m, toAgent') => In(m, toAgent) /\ m.id # r
      BY <2>2, <2>3, Front DEF RefusalInv
    <3>2. Message("cancelRequest", r).id = r
      BY DEF Message
    <3> QED
      BY <2>1, <3>1, <3>2 DEF ControlSent
  <2>6. CASE q # r
    <3>1. Replied(q)' => Replied(q)
      <4>1. \A m : Replies(m, r) => ~Replies(m, q)
        BY <2>6 DEF Replies
      <4> QED
        BY <1>1, <2>4, <4>1, RepliesMove
    <3>2. wanted'[q] = wanted[q] /\ waiting'[q] = waiting[q]
      BY <1>1, <2>4, <2>6 DEF TypeOK
    <3> QED
      BY <1>1, <1>2, <2>4, <2>5, <3>1, <3>2, ReplyFrame DEF Executing
  <2>7. CASE q = r
    <3>1. ~wanted[q] /\ ~waiting[q] /\ ~Replied(q) /\ abort[q] /\ ~ControlSent(q)'
          /\ (phase[q] = "pending" => control[q] = "waiting")
      BY <1>1, <2>5, <2>7 DEF ControlInv, ReplyInv
    <3>2. wanted'[q] = live /\ waiting'[q] = live
      BY <1>1, <2>4, <2>7, <3>1 DEF TypeOK
    <3>3. live => ~Replied(q)'
      BY <1>1, <2>4, <3>1
    <3>4. live <=> Scoped(q) /\ Executing(q)
      BY <2>7
    <3> HIDE DEF live
    <3> QED
      BY <1>1, <2>4, <3>1, <3>2, <3>3, <3>4 DEF ReplyInv, Scoped, Executing
  <2> QED
    BY <2>6, <2>7
<1>8. ASSUME NEW r \in Request, AnswerCancelRequest(r) PROVE ReplyInv(q)'
  <2> DEFINE m == CancelReply(r, quiet[r], IF quiet[r] THEN Outcome(r) ELSE "none")
  <2>1. /\ UNCHANGED <<toAgent, wanted, abort, phase, stage, control, policy>>
        /\ waiting[r] /\ stage[r] = "done"
        /\ waiting' = [waiting EXCEPT ![r] = FALSE]
        /\ toClient' = Append(toClient, m)
    BY <1>8 DEF AnswerCancelRequest
  <2>2. m \in ToClient /\ (Replies(m, q) <=> q = r)
    BY <1>1, OutcomeType DEF CancelReply, ToClient, Outcomes, Replies, TypeOK
  <2> HIDE DEF m
  <2>3. Replied(q)' <=> Replied(q) \/ q = r
    BY <2>1, <2>2, RepliesMove
  <2>4. CASE q # r
    BY <1>1, <1>2, <2>1, <2>3, <2>4, ReplyFrame DEF Executing, TypeOK
  <2>5. CASE q = r
    <3>1. /\ wanted[q] /\ ~ControlSent(q) /\ abort[q] /\ ~waiting'[q] /\ ~Executing(q)
          /\ phase[q] = "pending" => control[q] = "waiting"
      BY <1>1, <2>1, <2>5 DEF ReplyInv, ControlInv, Executing, TypeOK
    <3> QED
      BY <1>1, <2>1, <2>3, <3>1 DEF ReplyInv, Scoped, Executing
  <2> QED
    BY <2>4, <2>5
<1>9. ASSUME NEW r \in Request,
             \/ StartProcess(r) \/ ProcessesEnd(r) \/ BeginCommit(r) \/ CompleteCommit(r)
             \/ \E e \in BOOLEAN : EndHandler(r, e)
      PROVE  ReplyInv(q)'
  <2>1. /\ UNCHANGED <<toAgent, toClient, wanted, waiting, abort, phase, control>>
        /\ stage' = stage \/ (stage[r] = "running" /\ stage' = [stage EXCEPT ![r] = "finalizing"])
    BY <1>9 DEF StartProcess, ProcessesEnd, BeginCommit, CompleteCommit, EndHandler, Running
  <2>2. Executing(q)' => Executing(q)
    BY <1>1, <2>1 DEF Executing, TypeOK
  <2> QED
    BY <1>1, <1>2, <2>1, <2>2, ReplyFrame
<1>10. ASSUME NEW r \in Request,
              \/ \E v, l \in BOOLEAN : Finalize(r, v, l)
              \/ \E e \in BOOLEAN : EndUnscoped(r, e)
       PROVE  ReplyInv(q)'
  <2>1. /\ UNCHANGED <<toAgent, wanted, waiting, abort, phase, control>>
        /\ stage' = [stage EXCEPT ![r] = "done"]
    BY <1>10 DEF Finalize, EndUnscoped
  <2>2. Replied(q)' => Replied(q)
    <3>1. ASSUME NEW e \in BOOLEAN, NEW v \in BOOLEAN, NEW o \in Outcomes
          PROVE  Response(r, e, v, o) \in ToClient /\ ~Replies(Response(r, e, v, o), q)
      BY DEF Response, ToClient, Replies
    <3>2. \/ toClient' = toClient
          \/ \E e \in BOOLEAN, v \in BOOLEAN, o \in Outcomes :
                toClient' = Append(toClient, Response(r, e, v, o))
      <4>1. CASE \E v, l \in BOOLEAN : Finalize(r, v, l)
        <5>1. PICK v \in BOOLEAN, l \in BOOLEAN : Finalize(r, v, l)
          BY <4>1
        <5>2. (failed[r] \/ ~v) \in BOOLEAN /\ Outcome(r) \in Outcomes
          BY <1>1, OutcomeType DEF TypeOK
        <5>3. toClient' = toClient \/ toClient' = Append(toClient, Response(r, failed[r] \/ ~v, v, Outcome(r)))
          BY <5>1 DEF Finalize
        <5> QED
          BY <5>2, <5>3
      <4>2. CASE \E e \in BOOLEAN : EndUnscoped(r, e)
        BY <4>2 DEF EndUnscoped, Outcomes
      <4> QED
        BY <1>10, <4>1, <4>2
    <3> QED
      BY <1>1, <3>1, <3>2, RepliesMove
  <2>3. Executing(q)' => Executing(q)
    BY <1>1, <2>1 DEF Executing, TypeOK
  <2> QED
    BY <1>1, <1>2, <2>1, <2>2, <2>3, ReplyFrame
<1>11. CASE ReceiveResponse \/ DropLine
  <2>1. /\ UNCHANGED <<toAgent, wanted, waiting, abort, stage>>
        /\ Replied(q)' => Replied(q)
    BY <1>11, RepliesMove DEF ReceiveResponse, DropLine
  <2>2. phase'[q] = "pending" => phase[q] = "pending" /\ control'[q] = control[q]
    BY <1>1, <1>11 DEF ReceiveResponse, DropLine, Settle, TypeOK
  <2> QED
    BY <1>1, <1>2, <2>1, <2>2, ReplyFrame DEF Executing
<1>12. CASE ReceiveCancelReply
  <2>1. /\ UNCHANGED <<toAgent, wanted, waiting, abort, stage>>
        /\ Replied(q)' => Replied(q)
        /\ Replies(Head(toClient), q) => Replied(q) /\ ~Replied(q)'
    BY <1>1, <1>12, RepliesMove DEF ReceiveCancelReply
  <2>2. phase'[q] = "pending" => phase[q] = "pending"
    BY <1>1, <1>12 DEF ReceiveCancelReply, Settle, TypeOK
  <2>3. CASE Replies(Head(toClient), q)
    <3>1. Replied(q) /\ ~Replied(q)' /\ ~ControlSent(q) /\ ~waiting[q]
      BY <1>1, <2>1, <2>3 DEF ReplyInv
    <3> QED
      BY <1>1, <1>2, <2>1, <2>2, <3>1 DEF ReplyInv, Scoped, Executing
  <2>4. CASE ~Replies(Head(toClient), q)
    <3>1. Received.id # q
      BY <1>12, <2>4 DEF ReceiveCancelReply, Received, Replies
    <3>2. control'[q] = control[q]
      BY <1>1, <1>12, <3>1 DEF ReceiveCancelReply, TypeOK
    <3> QED
      BY <1>1, <1>2, <2>1, <2>2, <3>2, ReplyFrame DEF Executing
  <2> QED
    BY <2>3, <2>4
<1>13. CASE Dispose \/ PipeBreaks \/ NoticeExit
  <2>1. /\ UNCHANGED <<toAgent, toClient, wanted, waiting, abort, stage>>
        /\ phase' = [r \in Request |-> IF r \in Pending THEN "done" ELSE phase[r]]
    BY <1>13 DEF Dispose, PipeBreaks, NoticeExit, Close
  <2>2. phase'[q] # "pending"
    BY <2>1 DEF Pending
  <2> QED
    BY <1>1, <1>2, <2>1, <2>2, ReplyFrame DEF Executing
<1>14. CASE StartDrain \/ PollDrain \/ AgentExits \/ UNCHANGED vars
  <2>1. UNCHANGED <<toAgent, toClient, wanted, waiting, abort, stage, phase, control>>
    BY <1>14 DEF StartDrain, PollDrain, AgentExits, vars
  <2> QED
    BY <1>1, <1>2, <2>1, ReplyFrame DEF Executing
<1> QED
  BY <1>3, <1>4, <1>5, <1>6, <1>7, <1>8, <1>9, <1>10, <1>11, <1>12, <1>13, <1>14
  DEF Next, Handler

\* A reply is written when no other is there.
LEMMA OneReplyKeeps ==
    ASSUME TransportInv, RefusalInv, OwedInv, [Next]_vars
    PROVE  OneReplyEach'
<1>1. TypeOK /\ OneReplyEach
  BY DEF TransportInv, OwedInv
<1>2. CASE toClient' = toClient
  BY <1>1, <1>2 DEF OneReplyEach, Replies
<1>3. ASSUME NEW m \in ToClient, toClient' = Append(toClient, m),
             \A r \in Request : Replies(m, r) => ~Replied(r)
      PROVE  OneReplyEach'
  <2>1. /\ Len(toClient) \in Nat /\ DOMAIN toClient = 1..Len(toClient)
        /\ DOMAIN toClient' = 1..(Len(toClient) + 1)
        /\ \A i \in DOMAIN toClient : toClient'[i] = toClient[i]
        /\ toClient'[Len(toClient) + 1] = m
    BY <1>3, Lengthened
  <2>2. ASSUME NEW i \in DOMAIN toClient', NEW j \in DOMAIN toClient', NEW r \in Request,
               Replies(toClient'[i], r), Replies(toClient'[j], r)
        PROVE  i = j
    <3>1. CASE i \in DOMAIN toClient /\ j \in DOMAIN toClient
      BY <1>1, <2>1, <2>2, <3>1 DEF OneReplyEach
    <3>2. CASE i \notin DOMAIN toClient /\ j \in DOMAIN toClient
      <4>1. toClient'[i] = m /\ toClient'[j] = toClient[j]
        BY <2>1, <3>2
      <4> QED
        BY <1>3, <2>2, <3>2, <4>1 DEF Replied
    <3>3. CASE i \in DOMAIN toClient /\ j \notin DOMAIN toClient
      <4>1. toClient'[j] = m /\ toClient'[i] = toClient[i]
        BY <2>1, <3>3
      <4> QED
        BY <1>3, <2>2, <3>3, <4>1 DEF Replied
    <3>4. CASE i \notin DOMAIN toClient /\ j \notin DOMAIN toClient
      BY <2>1, <3>4
    <3> QED
      BY <3>1, <3>2, <3>3, <3>4
  <2> QED
    BY <2>2 DEF OneReplyEach, Replies
<1>4. CASE ReceiveResponse \/ ReceiveCancelReply \/ DropLine
  <2>1. \A i \in DOMAIN toClient' : i \in Nat /\ i + 1 \in DOMAIN toClient
                                    /\ toClient'[i] = toClient[i + 1]
    BY <1>4, Line
  <2>2. ASSUME NEW i \in DOMAIN toClient', NEW j \in DOMAIN toClient', NEW r \in Request,
               Replies(toClient'[i], r), Replies(toClient'[j], r)
        PROVE  i = j
    <3>1. i + 1 = j + 1
      BY <1>1, <2>1, <2>2 DEF OneReplyEach
    <3> QED
      BY <2>1, <3>1
  <2> QED
    BY <2>2 DEF OneReplyEach, Replies
<1>5. CASE ReceiveCancelRequest
  <2>1. PICK r \in Request : Head(toAgent) = Message("cancelRequest", r)
    BY <1>5, AgentReading DEF ReceiveCancelRequest, ToAgent, Message
  <2>2. Head(toAgent).id = r
    BY <2>1 DEF Message
  <2>3. ~Replied(r)
    <3>1. ControlSent(r)
      BY <1>5, <2>1, Front DEF ReceiveCancelRequest, ControlSent
    <3> QED
      BY <3>1 DEF OwedInv, ReplyInv
  <2>4. toClient' = toClient
        \/ \E m \in ToClient : toClient' = Append(toClient, m) /\ m.id = r
    <3>1. /\ CancelReply(r, TRUE, Outcome(r)) \in ToClient /\ CancelReply(r, FALSE, "none") \in ToClient
          /\ CancelReply(r, TRUE, Outcome(r)).id = r /\ CancelReply(r, FALSE, "none").id = r
      BY OutcomeType DEF CancelReply, ToClient, Outcomes
    <3> QED
      BY <1>5, <2>2, <3>1 DEF ReceiveCancelRequest
  <2> QED
    BY <1>2, <1>3, <2>3, <2>4 DEF Replies
<1>6. ASSUME NEW r \in Request, AnswerCancelRequest(r)
      PROVE  OneReplyEach'
  <2> DEFINE m == CancelReply(r, quiet[r], IF quiet[r] THEN Outcome(r) ELSE "none")
  <2>1. m \in ToClient /\ m.id = r
    BY <1>1, OutcomeType DEF CancelReply, ToClient, Outcomes, TypeOK
  <2>2. toClient' = Append(toClient, m) /\ waiting[r]
    BY <1>6 DEF AnswerCancelRequest
  <2>3. ~Replied(r)
    BY <2>2 DEF OwedInv, ReplyInv
  <2> QED
    BY <1>3, <2>1, <2>2, <2>3 DEF Replies
<1>7. ASSUME NEW r \in Request, NEW v \in BOOLEAN, NEW l \in BOOLEAN, Finalize(r, v, l)
      PROVE  OneReplyEach'
  <2> DEFINE m == Response(r, failed[r] \/ ~v, v, Outcome(r))
  <2>1. m \in ToClient /\ m.kind = "response"
    BY <1>1, OutcomeType DEF Response, ToClient, TypeOK
  <2>2. toClient' = toClient \/ toClient' = Append(toClient, m)
    BY <1>7 DEF Finalize
  <2> QED
    BY <1>2, <1>3, <2>1, <2>2 DEF Replies
<1>8. ASSUME NEW r \in Request, NEW e \in BOOLEAN, EndUnscoped(r, e)
      PROVE  OneReplyEach'
  <2> DEFINE m == Response(r, e, FALSE, "none")
  <2>1. m \in ToClient /\ m.kind = "response"
    BY DEF Response, ToClient, Outcomes
  <2>2. toClient' = Append(toClient, m)
    BY <1>8 DEF EndUnscoped
  <2> QED
    BY <1>3, <2>1, <2>2 DEF Replies
<1> QED
  BY <1>2, <1>4, <1>5, <1>6, <1>7, <1>8, Answerers

\* An awaited request was pending before, and no line has been lost.
LEMMA AwaitedBefore ==
    ASSUME TransportInv, [Next]_vars, NEW q \in Request, Awaited(q)'
    PROVE  phase[q] = "pending" /\ garbled = 0
<1>1. TypeOK /\ PathInv(q) /\ (garbled > 0 => garbled' > 0)
  BY Ends DEF TransportInv, RequestInv
<1>2. garbled = 0
  BY <1>1, TransportAssumption DEF Awaited, TypeOK
<1>3. ASSUME NEW r \in Request, Send(r) PROVE phase[q] = "pending"
  <2>1. phase[r] = "gated" /\ stage' = stage /\ phase' = [phase EXCEPT ![r] = "pending"]
    BY <1>3 DEF Send, agent
  <2>2. CASE q = r
    BY <1>1, <2>1, <2>2 DEF Awaited, PathInv
  <2>3. CASE q # r
    BY <1>1, <2>1, <2>3 DEF Awaited, TypeOK
  <2> QED
    BY <2>2, <2>3
<1>4. CASE \E r \in Request : Gate(r) \/ NotSent(r) \/ Cancel(r)
  BY <1>1, <1>2, <1>4 DEF Gate, NotSent, Cancel, Awaited, TypeOK
<1>5. CASE ReceiveRequest \/ ReceiveCancelRequest
  BY <1>2, <1>5 DEF ReceiveRequest, ReceiveCancelRequest, Awaited, client
<1>6. CASE ~ ReceiveRequest /\ ~ ReceiveCancelRequest
           /\ ~ \E r \in Request : Gate(r) \/ Send(r) \/ NotSent(r) \/ Cancel(r)
  BY <1>2, <1>6, Otherwise DEF Awaited
<1> QED
  BY <1>2, <1>3, <1>4, <1>5, <1>6

\* A line the client has read was not the one an awaited request waits for:
\* it would have settled it.
LEMMA ReadSettles ==
    ASSUME TransportInv, OwedInv, [Next]_vars,
           ReceiveResponse \/ ReceiveCancelReply \/ DropLine,
           NEW q \in Request, stage[q] = "done", Awaited(q)'
    PROVE  /\ ~Answers(Head(toClient), q)
           /\ Silenced(q) => ~(Replies(Head(toClient), q) /\ ~Head(toClient).error)
<1>1. /\ TypeOK /\ phase[q] = "pending" /\ garbled = 0 /\ phase'[q] = "pending" /\ garbled' = 0
  BY AwaitedBefore DEF TransportInv, Awaited
<1>2. ~Answers(Head(toClient), q)
  BY <1>1, Heard
<1>3. ASSUME Silenced(q), Replies(Head(toClient), q), ~Head(toClient).error PROVE FALSE
  <2>1. control[q] = "waiting"
    BY <1>1, <1>3, RepliesMove DEF OwedInv, ReplyInv
  <2>2. CASE DropLine
    BY <1>1, <2>2 DEF DropLine
  <2>3. CASE ReceiveResponse
    BY <1>3, <2>3 DEF ReceiveResponse, Received, Replies
  <2>4. CASE ReceiveCancelReply
    <3>1. Head(toClient).outcome = Outcome(q)
      <4>1. toClient # <<>> /\ toClient \in Seq(ToClient)
        BY <1>1, <2>4 DEF ReceiveCancelReply, TypeOK
      <4>2. Head(toClient) \in ToClient /\ In(Head(toClient), toClient)
        BY <4>1, TailIn
      <4>3. MessageInv(Head(toClient))
        BY <4>2 DEF TransportInv
      <4> QED
        BY <1>3, <4>3 DEF MessageInv, Replies
    <3>2. Received.id = q /\ ~Received.error /\ Received.outcome # "committed" /\ q \in Pending
      BY <1>1, <1>3, <3>1 DEF Received, Replies, Silenced, Pending
    <3>3. phase' = [phase EXCEPT ![q] = "done"]
      BY <2>1, <2>4, <3>2 DEF ReceiveCancelReply, Settle
    <3> QED
      BY <1>1, <3>3 DEF TypeOK
  <2> QED
    BY <2>2, <2>3, <2>4
<1> QED
  BY <1>2, <1>3

\* What an awaited request waits for stays in the line of answers.
LEMMA LineKeeps ==
    ASSUME TransportInv, OwedInv, [Next]_vars, NEW q \in Request, stage[q] = "done", Awaited(q)'
    PROVE  /\ (\E i \in DOMAIN toClient : Answers(toClient[i], q)) =>
                 \E i \in DOMAIN toClient' : Answers(toClient'[i], q)
           /\ Silenced(q) /\ (\E i \in DOMAIN toClient :
                                 Replies(toClient[i], q) /\ ~toClient[i].error) =>
                 \E i \in DOMAIN toClient' : Replies(toClient'[i], q) /\ ~toClient'[i].error
<1>1. CASE toClient' = toClient
  BY <1>1
<1>2. CASE \E m \in ToClient : toClient' = Append(toClient, m)
  <2>1. \A i \in DOMAIN toClient : i \in DOMAIN toClient' /\ toClient'[i] = toClient[i]
    BY <1>2, Lengthened
  <2> QED
    BY <2>1
<1>3. CASE ReceiveResponse \/ ReceiveCancelReply \/ DropLine
  <2>1. /\ \A i \in DOMAIN toClient' : i \in Nat /\ i + 1 \in DOMAIN toClient
                                       /\ toClient'[i] = toClient[i + 1]
        /\ \A i \in DOMAIN toClient : i \in Nat /\ (i # 1 => i - 1 \in DOMAIN toClient')
        /\ Head(toClient) = toClient[1]
    BY <1>3, Line
  <2>2. \A i \in DOMAIN toClient : i # 1 =>
           i - 1 \in DOMAIN toClient' /\ toClient'[i - 1] = toClient[i]
    <3> SUFFICES ASSUME NEW i \in DOMAIN toClient, i # 1
                 PROVE  i - 1 \in DOMAIN toClient' /\ toClient'[i - 1] = toClient[i]
      OBVIOUS
    <3>1. i - 1 \in DOMAIN toClient' /\ i \in Nat
      BY <2>1
    <3>2. toClient'[i - 1] = toClient[i - 1 + 1] /\ i - 1 + 1 = i
      BY <2>1, <3>1
    <3> QED
      BY <3>1, <3>2
  <2> QED
    BY <1>3, <2>1, <2>2, ReadSettles
<1> QED
  BY <1>1, <1>2, <1>3, Growth

\* A request that has come to its end is answered, if it has an answer.
LEMMA ResponseKeeps ==
    ASSUME TransportInv, RefusalInv, OwedInv, [Next]_vars, NEW q \in Request
    PROVE  ResponseInv(q)'
<1> SUFFICES ASSUME Awaited(q)', ~Silenced(q)'
             PROVE  \E i \in DOMAIN toClient' : Answers(toClient'[i], q)
  BY DEF ResponseInv, Answers
<1>1. /\ TypeOK /\ ScopeInv(q) /\ ResponseInv(q)
      /\ phase[q] = "pending" /\ garbled = 0 /\ stage'[q] = "done" /\ policy' = policy
  BY AwaitedBefore, Ends DEF TransportInv, RequestInv, OwedInv, Awaited
<1>2. CASE stage[q] = "done"
  <2>1. step'[q] = step[q] /\ wanted'[q] = wanted[q]
    BY <1>2, DoneStays
  <2>2. ~Silenced(q)
    BY <1>1, <2>1 DEF Silenced, Scoped, Outcome
  <2>3. \E i \in DOMAIN toClient : Answers(toClient[i], q)
    BY <1>1, <1>2, <2>2 DEF ResponseInv, Awaited
  <2> QED
    BY <1>2, <2>3, LineKeeps
<1>3. CASE stage[q] # "done"
  <2>1. ASSUME NEW m \in ToClient, Answers(m, q), toClient' = Append(toClient, m)
        PROVE  \E i \in DOMAIN toClient' : Answers(toClient'[i], q)
    <3>1. Len(toClient) + 1 \in DOMAIN toClient' /\ toClient'[Len(toClient) + 1] = m
      BY <2>1, Lengthened
    <3> QED
      BY <2>1, <3>1
  <2>2. ASSUME NEW v \in BOOLEAN, NEW l \in BOOLEAN, Finalize(q, v, l)
        PROVE  \E i \in DOMAIN toClient' : Answers(toClient'[i], q)
    <3> DEFINE m == Response(q, failed[q] \/ ~v, v, Outcome(q))
    <3>1. m \in ToClient /\ Answers(m, q)
      BY <1>1, OutcomeType DEF Response, ToClient, Answers, TypeOK
    <3>2. UNCHANGED <<wanted, step>> /\ Executing(q)
      BY <2>2 DEF Finalize, Executing
    <3>3. ~wanted[q] \/ Outcome(q) # "none"
      BY <1>1, <3>2 DEF Silenced, Outcome, Scoped, ScopeInv, Executing, OwedInv, ReplyInv
    <3>4. toClient' = Append(toClient, m)
      BY <2>2, <3>3 DEF Finalize
    <3> QED
      BY <2>1, <3>1, <3>4
  <2>3. ASSUME NEW e \in BOOLEAN, EndUnscoped(q, e)
        PROVE  \E i \in DOMAIN toClient' : Answers(toClient'[i], q)
    <3> DEFINE m == Response(q, e, FALSE, "none")
    <3>1. m \in ToClient /\ Answers(m, q)
      BY DEF Response, ToClient, Answers, Outcomes
    <3>2. toClient' = Append(toClient, m)
      BY <2>3 DEF EndUnscoped
    <3> QED
      BY <2>1, <3>1, <3>2
  <2> QED
    BY <1>1, <1>3, <2>2, <2>3, Completes
<1> QED
  BY <1>2, <1>3

\* A request that was cancelled and has nothing else to tell is acknowledged,
\* if the agent can prove that it stopped.
LEMMA AcknowledgmentKeeps ==
    ASSUME TransportInv, RefusalInv, OwedInv, [Next]_vars, NEW q \in Request
    PROVE  AcknowledgmentInv(q)'
<1> SUFFICES ASSUME Awaited(q)', Silenced(q)'
             PROVE  \/ waiting'[q]
                    \/ ~quiet'[q]
                    \/ \E i \in DOMAIN toClient' : Replies(toClient'[i], q) /\ ~toClient'[i].error
  BY DEF AcknowledgmentInv, Replies
<1>1. /\ TypeOK /\ ReplyInv(q) /\ AcknowledgmentInv(q) /\ ReplyInv(q)'
      /\ phase[q] = "pending" /\ garbled = 0 /\ stage'[q] = "done" /\ policy' = policy
  BY AwaitedBefore, RepliesKeep, Ends DEF TransportInv, OwedInv, Awaited
<1>2. CASE stage[q] # "done"
  <2>1. \E v, l \in BOOLEAN : Finalize(q, v, l)
    <3>1. CASE \E e \in BOOLEAN : EndUnscoped(q, e)
      BY <1>1, <3>1 DEF EndUnscoped, Silenced, Scoped
    <3> QED
      BY <1>1, <1>2, <3>1, Completes
  <2>2. Executing(q) /\ UNCHANGED <<wanted, waiting>>
    BY <2>1 DEF Finalize, Executing
  <2> QED
    BY <1>1, <2>2 DEF ReplyInv, Silenced
<1>3. CASE stage[q] = "done"
  <2>1. step'[q] = step[q] /\ wanted'[q] = wanted[q] /\ quiet'[q] = quiet[q]
    BY <1>3, DoneStays
  <2>2. Silenced(q)
    BY <1>1, <2>1 DEF Silenced, Scoped, Outcome
  <2>3. \/ waiting[q]
        \/ ~quiet[q]
        \/ \E i \in DOMAIN toClient : Replies(toClient[i], q) /\ ~toClient[i].error
    BY <1>1, <1>3, <2>2 DEF AcknowledgmentInv, Awaited
  <2>4. CASE \E i \in DOMAIN toClient : Replies(toClient[i], q) /\ ~toClient[i].error
    BY <1>3, <2>2, <2>4, LineKeeps
  <2>5. CASE waiting[q] /\ quiet[q] /\ ~waiting'[q]
    <3>1. AnswerCancelRequest(q)
      <4>1. CASE \E r \in Request : AnswerCancelRequest(r)
        BY <1>1, <2>5, <4>1 DEF AnswerCancelRequest, TypeOK
      <4>2. CASE ReceiveCancelRequest
        <5>1. PICK r \in Request : \E b \in BOOLEAN : waiting' = [waiting EXCEPT ![r] = @ \/ b]
          BY <4>2, AgentReading DEF ReceiveCancelRequest, ToAgent
        <5> QED
          BY <1>1, <2>5, <5>1 DEF TypeOK
      <4>3. waiting' = waiting \/ ReceiveCancelRequest \/ \E r \in Request : AnswerCancelRequest(r)
        BY DEF Next, Handler, vars, agent, Gate, Send, NotSent, Cancel, StartProcess, ProcessesEnd,
           BeginCommit, CompleteCommit, EndHandler, EndUnscoped, Finalize, ReceiveResponse,
           ReceiveCancelReply, DropLine, StartDrain, PollDrain, Dispose, PipeBreaks,
           NoticeExit, ReceiveRequest, AgentExits
      <4> QED
        BY <2>5, <4>1, <4>2, <4>3
    <3> DEFINE m == CancelReply(q, TRUE, Outcome(q))
    <3>2. toClient' = Append(toClient, m)
      BY <2>5, <3>1 DEF AnswerCancelRequest
    <3>3. m \in ToClient /\ Replies(m, q) /\ ~m.error
      BY OutcomeType DEF CancelReply, ToClient, Outcomes, Replies
    <3> HIDE DEF m
    <3>4. Len(toClient) + 1 \in DOMAIN toClient' /\ toClient'[Len(toClient) + 1] = m
      BY <3>2, <3>3, Lengthened
    <3> QED
      BY <3>3, <3>4
  <2> QED
    BY <2>1, <2>3, <2>4, <2>5
<1> QED
  BY <1>2, <1>3

LEMMA OwedInvariance == Spec => []OwedInv
<1>1. Init => OwedInv
  <2> SUFFICES ASSUME Init PROVE OwedInv
    OBVIOUS
  <2>1. /\ toAgent = <<>> /\ toClient = <<>> /\ DOMAIN <<>> = {}
        /\ \A r \in Request : /\ phase[r] = "idle" /\ ~abort[r] /\ ~wanted[r] /\ ~waiting[r]
                              /\ stage[r] = "none"
    BY EmptySeq DEF Init
  <2> QED
    BY <2>1 DEF OwedInv, OneReplyEach, ReplyInv, ControlSent, In, Replied, ResponseInv,
       AcknowledgmentInv, Awaited
<1>2. TransportInv /\ RefusalInv /\ OwedInv /\ [Next]_vars => OwedInv'
  <2> SUFFICES ASSUME TransportInv, RefusalInv, OwedInv, [Next]_vars PROVE OwedInv'
    OBVIOUS
  <2>1. OneReplyEach'
    BY OneReplyKeeps
  <2>2. \A r \in Request : ReplyInv(r)' /\ ResponseInv(r)' /\ AcknowledgmentInv(r)'
    BY RepliesKeep, ResponseKeeps, AcknowledgmentKeeps
  <2> QED
    BY <2>1, <2>2 DEF OwedInv
<1> QED
  BY <1>1, <1>2, Invariance, RefusalInvariance, PTL DEF Spec

\* No caller waits for an answer that cannot come (workspace-backend.js,
\* pendingRequests; wsl-agent.js, handleLine and cancelScopedRequest): unless a
\* line was lost, a pending request is on its way, in the agent, or its answer
\* is in the pipe, or the acknowledgement of its cancellation is still to be
\* written and will find the client waiting for it.  What remains is a
\* cancelled request whose end the agent could not prove.
THEOREM AnswersAreOwed == Spec => []AnswerIsOwed
<1>1. TransportInv /\ RefusalInv /\ OwedInv => AnswerIsOwed
  <2> SUFFICES ASSUME TransportInv, RefusalInv, OwedInv, NEW r \in Pending, garbled = 0,
                      ~OnItsWay(r), ~Executing(r)
               PROVE  \/ \E i \in DOMAIN toClient : Settles(toClient[i], r)
                      \/ waiting[r] /\ control[r] = "waiting" /\ stage[r] = "done"
                      \/ /\ stage[r] = "done" /\ Scoped(r) /\ wanted[r]
                         /\ ~quiet[r] /\ Outcome(r) = "none"
    BY DEF AnswerIsOwed
  <2>1. r \in Request /\ phase[r] = "pending" /\ TypeOK
    BY DEF Pending, TransportInv
  <2>2. stage[r] = "done"
    BY <2>1 DEF RefusalInv, ControlInv, Executing, TypeOK
  <2>3. Awaited(r)
    BY <2>1, <2>2 DEF Awaited
  <2>4. CASE ~Silenced(r)
    <3>1. PICK i \in DOMAIN toClient : Answers(toClient[i], r)
      BY <2>1, <2>3, <2>4 DEF OwedInv, ResponseInv
    <3> QED
      BY <3>1 DEF Answers, Settles
  <2>5. CASE Silenced(r) /\ waiting[r]
    BY <2>1, <2>2, <2>5 DEF OwedInv, ReplyInv
  <2>6. CASE Silenced(r) /\ ~quiet[r]
    BY <2>2, <2>6 DEF Silenced
  <2>7. ASSUME Silenced(r), NEW i \in DOMAIN toClient, Replies(toClient[i], r), ~toClient[i].error
        PROVE  Settles(toClient[i], r)
    <3>1. toClient[i] \in ToClient /\ In(toClient[i], toClient)
      BY <2>1 DEF TypeOK, In
    <3>2. toClient[i].outcome = Outcome(r)
      BY <2>7, <3>1 DEF TransportInv, MessageInv, Replies
    <3> QED
      BY <2>7, <3>2 DEF Silenced, Replies, Settles
  <2> QED
    BY <2>1, <2>3, <2>4, <2>5, <2>6, <2>7 DEF OwedInv, AcknowledgmentInv
<1> QED
  BY <1>1, Invariance, RefusalInvariance, OwedInvariance, PTL

-----------------------------------------------------------------------------
(***************************************************************************)
(* The contract                                                            *)
(***************************************************************************)
ContractStep == [Contract!Next]_(Contract!vars)

\* A step that settles no request and leaves the commits alone is none of the
\* contract's business.
LEMMA OutOfSight ==
    ASSUME TypeOK, TypeOK', UNCHANGED <<lost, verdict>>,
           \A r \in Request : Effect(r)' = Effect(r),
           \A r \in Request : (phase'[r] = "pending") <=> (phase[r] = "pending"),
           \A r \in Request : (phase'[r] = "done") <=> (phase[r] = "done")
    PROVE  ContractStep
<1>1. Pending' = Pending
  BY DEF Pending
<1>2. \A r \in Request : Told(r)' = Told(r)
  BY DEF Told, Settled
<1>3. UNCHANGED <<[r \in Request |-> Effect(r)], [r \in Request |-> Told(r)]>>
  BY <1>2
<1> QED
  BY <1>1, <1>3 DEF ContractStep, Contract!vars

\* Settling one request answers it.
LEMMA SettlingAnswers ==
    ASSUME TypeOK, TransportInv', NEW r \in Request,
           UNCHANGED <<lost, step>>,
           phase[r] # "done", phase' = [phase EXCEPT ![r] = "done"],
           \A q \in Request : q # r => verdict'[q] = verdict[q],
           step[r] # "commit"
    PROVE  Contract!Answer(r)
<1>1. /\ TypeOK'
      /\ verdict'[r] \in Verdict
      /\ verdict'[r].quiesced => verdict'[r].outcome = Outcome(r)'
  BY DEF TransportInv, TypeOK, RequestInv, VerdictInv, Settled
<1>2. /\ \A q \in Request : Effect(q)' = Effect(q)
      /\ Told(r) = "nothing"
      /\ Told(r)' \in {Effect(r), "unsure"}
      /\ \A q \in Request : q # r => Told(q)' = Told(q)
      /\ Effect(r) # "underway"
  <2>1. \A q \in Request : Effect(q)' = Effect(q)
    BY DEF Effect
  <2>2. Told(r) = "nothing" /\ Effect(r) = Outcome(r) /\ Effect(r) # "underway"
    BY DEF Told, Settled, Effect, Outcome
  <2>3. Outcome(r)' = Outcome(r)
    BY DEF Outcome
  <2>4. Told(r)' \in {Outcome(r), "unsure"}
    BY <1>1, <2>3 DEF Told, Settled, TypeOK, Verdict
  <2>5. \A q \in Request : q # r => Told(q)' = Told(q)
    BY DEF Told, Settled, TypeOK
  <2> QED
    BY <2>1, <2>2, <2>4, <2>5
<1>3. Pending' = Pending \ {r}
  BY DEF Pending, TypeOK
<1>4. [q \in Request |-> Effect(q)]' = [q \in Request |-> Effect(q)]
  BY <1>2
<1>5. [q \in Request |-> Told(q)]' = [[q \in Request |-> Told(q)] EXCEPT ![r] = Told(r)']
  BY <1>2
<1> QED
  BY <1>2, <1>3, <1>4, <1>5 DEF Contract!Answer

\* A commit begins and ends only while its caller holds the request, or once
\* he knows that he cannot know.
LEMMA CommitIsWork ==
    ASSUME TransportInv, TypeOK', NEW r \in Request, Running(r),
           UNCHANGED <<lost, phase, verdict>>,
           \A q \in Request : q # r => step'[q] = step[q],
           \/ step[r] = "precommit" /\ step'[r] = "commit"
           \/ step[r] = "commit" /\ step'[r] \in {"committed", "indeterminate"}
    PROVE  Contract!Work(r)
<1>1. r \in Pending \/ (lost /\ Told(r) = "unsure")
  BY DEF TransportInv, RequestInv, PathInv, VerdictInv, Running, Executing, Pending, Told, Settled,
     TypeOK
<1>2. /\ \A q \in Request : q # r => Effect(q)' = Effect(q)
      /\ \/ Effect(r) = "none" /\ Effect(r)' = "underway"
         \/ Effect(r) = "underway" /\ Effect(r)' \in {"committed", "indeterminate"}
  BY DEF Effect
<1>3. [q \in Request |-> Effect(q)]' = [[q \in Request |-> Effect(q)] EXCEPT ![r] = Effect(r)']
  BY <1>2
<1>4. Pending' = Pending /\ [q \in Request |-> Told(q)]' = [q \in Request |-> Told(q)]
  BY DEF Pending, Told, Settled
<1>5. [q \in Request |-> Effect(q)][r] = Effect(r) /\ [q \in Request |-> Told(q)][r] = Told(r)
  OBVIOUS
<1> QED
  BY <1>1, <1>2, <1>3, <1>4, <1>5 DEF Contract!Work

\* A closed transport is a lost backend.
LEMMA ClosingLoses ==
    ASSUME TransportInv, Dispose \/ PipeBreaks \/ NoticeExit
    PROVE  Contract!Lose
<1>1. PICK unwritten : Close(unwritten)
  BY DEF Dispose, PipeBreaks, NoticeExit
<1>2. ~lost /\ UNCHANGED step
  BY DEF Dispose, PipeBreaks, NoticeExit, agent
<1>3. /\ lost' = TRUE
      /\ \A q \in Request :
           /\ phase'[q] = IF q \in Pending THEN "done" ELSE phase[q]
           /\ q \notin Pending => verdict'[q] = verdict[q]
           /\ q \in Pending => ~verdict'[q].quiesced
  BY <1>1 DEF Close, Rejected
<1>4. Pending' = {}
  BY <1>3 DEF Pending
<1>5. \A q \in Request : Told(q)' = IF q \in Pending THEN "unsure" ELSE Told(q)
  BY <1>3 DEF Told, Settled, Pending
<1>6. [q \in Request |-> Effect(q)]' = [q \in Request |-> Effect(q)]
  BY <1>2 DEF Effect
<1>7. [q \in Request |-> Told(q)]'
        = [q \in Request |-> IF q \in Pending THEN "unsure" ELSE [p \in Request |-> Told(p)][q]]
  BY <1>5
<1> QED
  BY <1>2, <1>3, <1>4, <1>6, <1>7 DEF Contract!Lose

LEMMA ClientKeepsContract ==
    ASSUME TransportInv, TransportInv', NEW r \in Request,
           Gate(r) \/ Send(r) \/ NotSent(r) \/ Cancel(r)
    PROVE  ContractStep
<1> USE DEF session, agent, pipes
<1>1. TypeOK /\ TypeOK' /\ PathInv(r) /\ ScopeInv(r)
  BY DEF TransportInv, RequestInv
<1>2. CASE Gate(r) \/ Cancel(r)
  <2>1. /\ UNCHANGED <<lost, verdict>>
        /\ \A q \in Request : Effect(q)' = Effect(q)
        /\ \A q \in Request : (phase'[q] = "pending") <=> (phase[q] = "pending")
        /\ \A q \in Request : (phase'[q] = "done") <=> (phase[q] = "done")
    BY <1>1, <1>2 DEF Gate, Cancel, Effect, TypeOK
  <2> QED
    BY <1>1, <2>1, OutOfSight
<1>3. CASE Send(r)
  <2>1. Pending' = Pending \cup {r} /\ r \notin Pending /\ ~lost /\ UNCHANGED lost
    BY <1>1, <1>3 DEF Send, Pending, TypeOK
  <2>2. Told(r) = "nothing" /\ \A q \in Request : Told(q)' = Told(q) /\ Effect(q)' = Effect(q)
    BY <1>1, <1>3 DEF Send, Told, Settled, Effect, TypeOK
  <2> QED
    BY <2>1, <2>2 DEF ContractStep, Contract!Next, Contract!Hold
<1>4. CASE NotSent(r)
  <2>1. /\ UNCHANGED <<lost, step>>
        /\ phase[r] # "done" /\ phase' = [phase EXCEPT ![r] = "done"]
        /\ \A q \in Request : q # r => verdict'[q] = verdict[q]
        /\ step[r] # "commit"
    BY <1>1, <1>4 DEF NotSent, PathInv, ScopeInv, TypeOK
  <2>2. Contract!Answer(r)
    BY <1>1, <2>1, SettlingAnswers
  <2> QED
    BY <2>2 DEF ContractStep, Contract!Next
<1> QED
  BY <1>2, <1>3, <1>4

LEMMA AnswersKeepContract ==
    ASSUME TransportInv, TransportInv', ReceiveResponse \/ ReceiveCancelReply
    PROVE  ContractStep
<1>1. /\ TypeOK /\ TypeOK'
      /\ Received \in ToClient /\ MessageInv(Received)
      /\ UNCHANGED <<lost, step>>
  BY Reading DEF TransportInv, ReceiveResponse, ReceiveCancelReply, session, agent
<1>2. PICK r \in Request : r = Received.id
  BY <1>1 DEF ToClient
<1>3. CASE UNCHANGED <<phase, verdict>>
  <2>1. \A q \in Request : Effect(q)' = Effect(q)
    BY <1>1 DEF Effect
  <2> QED
    BY <1>1, <1>3, <2>1, OutOfSight
<1>4. CASE ~UNCHANGED <<phase, verdict>>
  <2>1. /\ r \in Pending
        /\ phase' = [phase EXCEPT ![r] = "done"]
        /\ \E v : verdict' = [verdict EXCEPT ![r] = v]
        /\ Received.kind = "response" \/ (Received.kind = "cancelReply" /\ ~Received.error)
    BY <1>2, <1>4 DEF ReceiveResponse, ReceiveCancelReply, Settle
  <2>2. stage[r] = "done"
    BY <1>1, <1>2, <2>1 DEF MessageInv, Over
  <2>3. step[r] # "commit"
    BY <2>2 DEF TransportInv, RequestInv, ScopeInv
  <2>4. phase[r] # "done" /\ \A q \in Request : q # r => verdict'[q] = verdict[q]
    BY <1>1, <2>1 DEF Pending, TypeOK
  <2>5. Contract!Answer(r)
    BY <1>1, <2>1, <2>3, <2>4, SettlingAnswers
  <2> QED
    BY <2>5 DEF ContractStep, Contract!Next
<1> QED
  BY <1>3, <1>4

LEMMA AgentKeepsContract ==
    ASSUME TransportInv, TransportInv',
           \/ ReceiveRequest
           \/ \E r \in Request : \/ BeginCommit(r) \/ CompleteCommit(r)
                               \/ \E e \in BOOLEAN : EndHandler(r, e)
    PROVE  ContractStep
<1> USE DEF client, session
<1>1. TypeOK /\ TypeOK'
  BY DEF TransportInv
<1>2. UNCHANGED <<lost, phase, verdict>>
  BY DEF ReceiveRequest, BeginCommit, CompleteCommit, EndHandler
<1>3. CASE ReceiveRequest
  <2>1. PICK r \in Request : Head(toAgent) = Message("request", r)
    BY <1>3, AgentReading DEF ReceiveRequest, ToAgent, Message
  <2>2. OnItsWay(r) /\ Head(toAgent).id = r
    BY <1>3, <2>1, AgentReading DEF ReceiveRequest, Message
  <2>3. step[r] = "none"
    BY <2>2 DEF TransportInv, RequestInv, PathInv, ScopeInv
  <2>4. policy[r] \in {"execution", "two_phase_mutation", "unsupported"}
    <3>1. policy[r] \in Policies
      BY <1>1 DEF TypeOK
    <3> QED
      BY <3>1, TransportAssumption
  <2>5. /\ \A q \in Request : q # r => step'[q] = step[q]
        /\ step'[r] \in {"none", "execution", "precommit"}
    BY <1>1, <1>3, <2>2, <2>4 DEF ReceiveRequest, TypeOK
  <2>6. \A q \in Request : Effect(q)' = Effect(q)
    BY <2>3, <2>5 DEF Effect
  <2> QED
    BY <1>1, <1>2, <2>6, OutOfSight
<1>4. ASSUME NEW r \in Request, BeginCommit(r) \/ CompleteCommit(r)
      PROVE  ContractStep
  <2>1. /\ Running(r)
        /\ \A q \in Request : q # r => step'[q] = step[q]
        /\ \/ step[r] = "precommit" /\ step'[r] = "commit"
           \/ step[r] = "commit" /\ step'[r] \in {"committed", "indeterminate"}
    BY <1>1, <1>4 DEF BeginCommit, CompleteCommit, TypeOK
  <2>2. Contract!Work(r)
    BY <1>1, <1>2, <2>1, CommitIsWork
  <2> QED
    BY <2>2 DEF ContractStep, Contract!Next
<1>5. ASSUME NEW r \in Request, NEW e \in BOOLEAN, EndHandler(r, e)
      PROVE  ContractStep
  <2>1. /\ Running(r)
        /\ \A q \in Request : q # r => step'[q] = step[q]
        /\ step'[r] = IF step[r] = "commit" THEN "indeterminate" ELSE step[r]
    BY <1>1, <1>5 DEF EndHandler, TypeOK
  <2>2. CASE step[r] = "commit"
    <3>1. Contract!Work(r)
      BY <1>1, <1>2, <2>1, <2>2, CommitIsWork
    <3> QED
      BY <3>1 DEF ContractStep, Contract!Next
  <2>3. CASE step[r] # "commit"
    <3>1. \A q \in Request : Effect(q)' = Effect(q)
      BY <2>1, <2>3 DEF Effect
    <3> QED
      BY <1>1, <1>2, <3>1, OutOfSight
  <2> QED
    BY <2>2, <2>3
<1> QED
  BY <1>3, <1>4, <1>5

\* Client, pipes and agent together implement the contract: a mutation is
\* committed only while its caller holds the request or after he has been left
\* unsure, and an answer that names an outcome names the final one.
THEOREM Refinement == Spec => KeepsContract
<1>1. Init => Contract!Init
  <2> SUFFICES ASSUME Init PROVE Contract!Init
    OBVIOUS
  <2>1. Pending = {} /\ lost = FALSE
    BY DEF Init, Pending
  <2>2. \A r \in Request : Effect(r) = "none" /\ Told(r) = "nothing"
    BY DEF Init, Effect, Told, Settled
  <2> QED
    BY <2>1, <2>2 DEF Contract!Init
<1>2. ASSUME TransportInv, [Next]_vars PROVE ContractStep
  <2>1. TransportInv' /\ TypeOK /\ TypeOK'
    BY <1>2, NextKeeps DEF TransportInv
  <2>2. CASE \E r \in Request : Gate(r) \/ Send(r) \/ NotSent(r) \/ Cancel(r)
    BY <1>2, <2>1, <2>2, ClientKeepsContract
  <2>3. CASE ReceiveResponse \/ ReceiveCancelReply
    BY <1>2, <2>1, <2>3, AnswersKeepContract
  <2>4. CASE Dispose \/ PipeBreaks \/ NoticeExit
    BY <1>2, <2>4, ClosingLoses DEF ContractStep, Contract!Next
  <2>5. CASE \/ ReceiveRequest
             \/ \E r \in Request : \/ BeginCommit(r) \/ CompleteCommit(r)
                                 \/ \E e \in BOOLEAN : EndHandler(r, e)
    BY <1>2, <2>1, <2>5, AgentKeepsContract
  <2>6. CASE \/ \E r \in Request :
                  \/ AnswerCancelRequest(r) \/ StartProcess(r) \/ ProcessesEnd(r)
                  \/ \E e \in BOOLEAN : EndUnscoped(r, e)
                  \/ \E v, l \in BOOLEAN : Finalize(r, v, l)
             \/ DropLine \/ StartDrain \/ PollDrain \/ ReceiveCancelRequest \/ AgentExits
             \/ UNCHANGED vars
    <3>1. UNCHANGED <<lost, phase, verdict, step>>
      BY <2>6 DEF AnswerCancelRequest, StartProcess, ProcessesEnd, EndUnscoped, Finalize, DropLine,
         StartDrain, PollDrain, ReceiveCancelRequest, AgentExits, vars, client, session, agent
    <3>2. \A q \in Request : Effect(q)' = Effect(q)
      BY <3>1 DEF Effect
    <3> QED
      BY <2>1, <3>1, <3>2, OutOfSight
  <2> QED
    BY <1>2, <2>2, <2>3, <2>4, <2>5, <2>6 DEF Next, Handler
<1>3. TransportInv /\ [Next]_vars => [Contract!Next]_(Contract!vars)
  BY <1>2 DEF ContractStep
<1> QED
  BY <1>1, <1>3, Invariance, PTL DEF Spec, KeepsContract, Contract!Spec

\* What the contract is for: no caller has been told of an outcome that the
\* agent may yet change.
THEOREM ToldIsFinal == Spec => []Contract!ToldIsFinal
<1>1. ASSUME TransportInv, NEW r \in Request, Told(r) \in {"none", "committed", "indeterminate"}
      PROVE  r \notin Pending /\ Told(r) = Effect(r)
  <2>1. /\ Settled(r) /\ verdict[r].quiesced
        /\ Told(r) = Outcome(r)
        /\ step[r] # "commit"
    BY <1>1 DEF Told, Settled, TransportInv, RequestInv, VerdictInv, ScopeInv
  <2> QED
    BY <2>1 DEF Effect, Outcome, Settled, Pending
<1>2. TransportInv => Contract!ToldIsFinal
  BY <1>1 DEF Contract!ToldIsFinal, Contract!Effects
<1> QED
  BY <1>2, Invariance, PTL
=============================================================================
