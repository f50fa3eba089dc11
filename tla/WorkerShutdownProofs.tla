------------------------ MODULE WorkerShutdownProofs ------------------------
(***************************************************************************)
(* The shutdown's receipts and the custody of worktrees, proved for any    *)
(* workers and any number of agent processes.  The inductive invariant     *)
(* ties three accounts of a worker together: where its runner stands, what *)
(* its session believes, and what its agents, the dying ones included, are *)
(* doing; and it says what an attempt has already established.             *)
(***************************************************************************)
EXTENDS WorkerShutdown, TLAPS

\* Works on the worktree itself.
OnPatch(a) == agent[a].works \in {"plan", "apply"}

\* Runners that believe their session is bound.
Bound == {"ready", "planned"} \cup Busy

\* An agent that works on a patch was bound and has a runner that is busy
\* with it, gave it up or was lost; a busy runner's is its session's; and an
\* agent nobody told to end belongs to an open session.
AgentInv(a) ==
    agent[a] # NoAgent =>
        /\ OnPatch(a) => /\ agent[a].bound
                         /\ child[agent[a].key] \in Busy \cup {"parked", "lost"}
                         /\ child[agent[a].key] \in Busy =>
                              session[agent[a].key].agent = a
        /\ agent[a].bound => /\ agent[a].key \in Children
                             /\ child[agent[a].key] \notin
                                  {"new", "provisioning", "attaching"}
        /\ ~agent[a].told => /\ session[agent[a].key] # NoSession
                             /\ session[agent[a].key].agent = a
                             /\ session[agent[a].key].open

OneBound ==
    \A a, b \in AgentIds :
        (/\ agent[a] # NoAgent /\ agent[b] # NoAgent
         /\ agent[a].key = agent[b].key
         /\ agent[a].bound /\ agent[b].bound) => a = b

\* A worker's session has its runner and an open one its agent; an attachment
\* is the provisioning runner's or a re-attaching one's; a draining manager's
\* sessions take nothing.
SessionInv(k) ==
    session[k] # NoSession =>
        /\ k \in Children => child[k] \in Bound \cup {"attaching", "reattaching", "parked"}
        /\ session[k].open => /\ agent[session[k].agent] # NoAgent
                              /\ agent[session[k].agent].key = k
                              /\ ~agent[session[k].agent].told
        /\ session[k].attach \in Attaching =>
              /\ session[k].open
              /\ session[k].request = "none"
              /\ k \in Children => child[k] \in {"attaching", "reattaching"}
        /\ session[k].attach = "failed" => ~session[k].open
        /\ session[k].attach = "binding" => k \in Children /\ child[k] = "attaching"
        /\ (k \in Children /\ child[k] \in Bound /\ session[k].open) =>
              agent[session[k].agent].bound
        /\ session[k].request # "none" => session[k].open
        /\ manager = "draining" => ~session[k].accepting

\* A busy runner has its request pending, and a durable session is held as
\* long as the runner is active or lost.
ChildInv(c) ==
    /\ child[c] \in Busy => /\ session[c] # NoSession
                            /\ session[c].open
                            /\ session[c].attach = "attached"
                            /\ session[c].request # "none"
    /\ durable[c] = "held" <=> child[c] \in Active \cup {"lost"}

\* What an attempt has established stays so until it completes, and what the
\* completed one left stays so until a part is made anew.
AttemptInv ==
    /\ attempt # "none" => receipt # "completed"
    /\ attempt = "pool" => drained = {}
    /\ attempt # "none" /\ captured.pool =>
          pool = "stopped" /\ \A c \in Children : child[c] # "lost"
    /\ attempt = "backends" /\ captured.pool => \A c \in Children : child[c] \notin Active
    /\ attempt # "none" /\ captured.manager => manager # "none"
    /\ attempt = "backends" /\ captured.manager =>
          manager = "draining" /\ \A k \in drained : Quiet(k)
    /\ receipt = "completed" /\ captured.pool =>
          pool = "none" /\ \A c \in Children : child[c] \notin Active \cup {"lost"}
    /\ receipt = "completed" /\ captured.manager =>
          /\ manager = "none"
          /\ \A k \in Keys : session[k] = NoSession
          /\ \A a \in AgentIds : agent[a] # NoAgent => agent[a].told

PartsInv ==
    /\ \A a \in AgentIds : AgentInv(a)
    /\ \A k \in Keys : SessionInv(k)
    /\ \A c \in Children : ChildInv(c)

IInv == TypeOK /\ PartsInv /\ OneBound /\ AttemptInv

-----------------------------------------------------------------------------
(* What an effect leaves of each session and agent *)

\* The types of the variables that hold functions.
TypedSession == session \in [Keys -> Session \cup {NoSession}]
TypedAgent   == agent \in [AgentIds -> Agent \cup {NoAgent}]

\* The agents of ids, which exist, are told to end, and nothing else changes.
LEMMA TellFacts ==
    ASSUME TypedAgent, NEW ids \in SUBSET AgentIds,
           \A a \in ids : agent[a] # NoAgent,
           agent' = Told(ids)
    PROVE  /\ TypedAgent'
           /\ \A a \in AgentIds \ ids : agent'[a] = agent[a]
           /\ \A a \in AgentIds :
                IF agent[a] = NoAgent THEN agent'[a] = NoAgent
                ELSE /\ agent'[a] # NoAgent
                     /\ agent'[a].key = agent[a].key
                     /\ agent'[a].bound = agent[a].bound
                     /\ agent'[a].works = agent[a].works
                     /\ agent'[a].told <=> (agent[a].told \/ a \in ids)
<1>1. SUFFICES ASSUME NEW a \in AgentIds
               PROVE  /\ agent'[a] \in Agent \cup {NoAgent}
                      /\ a \notin ids => agent'[a] = agent[a]
                      /\ IF agent[a] = NoAgent THEN agent'[a] = NoAgent
                         ELSE /\ agent'[a] # NoAgent
                              /\ agent'[a].key = agent[a].key
                              /\ agent'[a].bound = agent[a].bound
                              /\ agent'[a].works = agent[a].works
                              /\ agent'[a].told <=> (agent[a].told \/ a \in ids)
  BY DEF TypedAgent, Told
<1>2. CASE a \notin ids
  BY <1>2 DEF TypedAgent, Told
<1>3. CASE a \in ids
  <2>1. agent[a] \in Agent /\ agent'[a] = [agent[a] EXCEPT !.told = TRUE]
    BY <1>3 DEF TypedAgent, Told
  <2>2. agent'[a] \in Agent
    BY <2>1 DEF Agent
  <2> QED BY <1>3, <2>1, <2>2, AbsenceAssumption DEF Agent
<1> QED BY <1>2, <1>3

\* A spawned agent is the session's, unbound and idle.
LEMMA SpawnFacts ==
    ASSUME TypedSession, TypedAgent, NEW k \in Keys, NEW a \in AgentIds,
           Spawn(k, a)
    PROVE  /\ TypedSession' /\ TypedAgent'
           /\ agent[a] = NoAgent
           /\ session'[k] # NoSession
           /\ session'[k].agent = a
           /\ session'[k].attach = "hello"
           /\ session'[k].open
           /\ session'[k].accepting = TRUE
           /\ session'[k].request = "none"
           /\ \A j \in Keys \ {k} : session'[j] = session[j]
           /\ agent'[a] # NoAgent
           /\ agent'[a].key = k
           /\ agent'[a].bound = FALSE
           /\ agent'[a].told = FALSE
           /\ agent'[a].works = "none"
           /\ \A b \in AgentIds \ {a} : agent'[b] = agent[b]
<1> DEFINE s == [agent |-> a, attach |-> "hello", open |-> TRUE,
                 accepting |-> TRUE, queued |-> k = Main, request |-> "none"]
           g == [key |-> k, bound |-> FALSE, told |-> FALSE, works |-> "none"]
<1>1. s \in Session /\ g \in Agent
  BY DEF Session, Agent, Attaching
<1>2. /\ agent[a] = NoAgent
      /\ session' = [session EXCEPT ![k] = s]
      /\ agent' = [agent EXCEPT ![a] = g]
  BY DEF Spawn
<1>3. /\ s # NoSession /\ s.agent = a /\ s.attach = "hello" /\ s.open
      /\ s.accepting = TRUE /\ s.request = "none"
      /\ g # NoAgent /\ g.key = k /\ g.bound = FALSE /\ g.told = FALSE
      /\ g.works = "none"
  BY <1>1, AbsenceAssumption
<1>4. session'[k] = s /\ agent'[a] = g
  BY <1>2 DEF TypedSession, TypedAgent
<1>5. /\ \A j \in Keys \ {k} : session'[j] = session[j]
      /\ \A b \in AgentIds \ {a} : agent'[b] = agent[b]
  BY <1>2 DEF TypedSession, TypedAgent
<1>6. TypedSession' /\ TypedAgent'
  BY <1>1, <1>2 DEF TypedSession, TypedAgent
<1> HIDE DEF s, g
<1> QED BY <1>2, <1>3, <1>4, <1>5, <1>6

\* A disposed session is gone and its own agent told to end.
LEMMA DisposeFacts ==
    ASSUME TypedSession, TypedAgent, NEW k \in Keys, DisposeForProject(k)
    PROVE  /\ TypedSession' /\ TypedAgent'
           /\ session'[k] = NoSession
           /\ \A j \in Keys \ {k} : session'[j] = session[j]
           /\ \A a \in AgentIds \ AgentOf(k) : agent'[a] = agent[a]
           /\ \A a \in AgentIds :
                IF agent[a] = NoAgent THEN agent'[a] = NoAgent
                ELSE /\ agent'[a] # NoAgent
                     /\ agent'[a].key = agent[a].key
                     /\ agent'[a].bound = agent[a].bound
                     /\ agent'[a].works = agent[a].works
                     /\ agent'[a].told <=> (agent[a].told \/ a \in AgentOf(k))
<1>1. AgentOf(k) \in SUBSET AgentIds /\ \A a \in AgentOf(k) : agent[a] # NoAgent
  BY DEF AgentOf
<1>2. agent' = Told(AgentOf(k)) /\ session' = [session EXCEPT ![k] = NoSession]
  BY DEF DisposeForProject
<1>3. /\ TypedSession'
      /\ session'[k] = NoSession
      /\ \A j \in Keys \ {k} : session'[j] = session[j]
  BY <1>2 DEF TypedSession
<1> HIDE DEF AgentOf
<1> QED BY <1>1, <1>2, <1>3, TellFacts

-----------------------------------------------------------------------------
(* Frames *)

OneBoundAt(k) ==
    \A a, b \in AgentIds :
        (/\ agent[a] # NoAgent /\ agent[a].key = k /\ agent[a].bound
         /\ agent[b] # NoAgent /\ agent[b].key = k /\ agent[b].bound) => a = b

AgentsInv(k) ==
    \A a \in AgentIds : agent[a] # NoAgent /\ agent[a].key = k => AgentInv(a)

\* A step about one key leaves the sessions, runners and agents of every
\* other key alone, but for the end of an agent that was told to.
OnlyAbout(k) ==
    /\ \A j \in Keys \ {k} : session'[j] = session[j]
    /\ \A c \in Children \ {k} : child'[c] = child[c] /\ durable'[c] = durable[c]
    /\ \A a \in AgentIds : (agent'[a] # NoAgent /\ agent'[a].key # k) =>
                               agent'[a] = agent[a]
    /\ \A a \in AgentIds : agent[a] # NoAgent /\ agent[a].key # k =>
                               \/ agent'[a] = agent[a]
                               \/ agent'[a] = NoAgent /\ agent[a].told
    /\ manager' = "draining" => manager = "draining"

\* So it keeps the invariant when it keeps the accounts of its key.
LEMMA OneKeyStep ==
    ASSUME IInv, TypeOK', NEW k \in Keys, OnlyAbout(k), AgentsInv(k)',
           OneBoundAt(k)', SessionInv(k)', k \in Children => ChildInv(k)',
           AttemptInv'
    PROVE  IInv'
<1> USE DEF OnlyAbout
<1>1. ASSUME NEW a \in AgentIds PROVE AgentInv(a)'
  <2>1. CASE agent'[a] # NoAgent /\ agent'[a].key # k
    <3>1. agent'[a] = agent[a] /\ AgentInv(a) /\ agent[a].key \in Keys
      BY <2>1 DEF IInv, PartsInv, TypeOK, Agent
    <3>2. session'[agent[a].key] = session[agent[a].key]
      BY <2>1, <3>1
    <3>3. agent[a].key \in Children => child'[agent[a].key] = child[agent[a].key]
      BY <2>1, <3>1
    <3> QED BY <2>1, <3>1, <3>2, <3>3 DEF AgentInv, OnPatch
  <2> QED BY <2>1 DEF AgentInv, AgentsInv
<1>2. ASSUME NEW j \in Keys \ {k} PROVE SessionInv(j)'
  <2>1. session'[j] = session[j] /\ SessionInv(j)
        /\ (j \in Children => child'[j] = child[j])
    BY DEF IInv, PartsInv
  <2>2. CASE session[j] # NoSession /\ session[j].open
    <3>1. session[j].agent \in AgentIds
      BY <2>2 DEF IInv, TypeOK, Session
    <3>2. /\ agent[session[j].agent] # NoAgent
          /\ agent[session[j].agent].key = j
          /\ ~agent[session[j].agent].told
      BY <2>1, <2>2 DEF SessionInv
    <3>3. agent'[session[j].agent] = agent[session[j].agent]
      BY <3>1, <3>2
    <3> QED BY <2>1, <2>2, <3>2, <3>3 DEF SessionInv
  <2> QED BY <2>1, <2>2 DEF SessionInv
<1>3. ASSUME NEW d \in Children \ {k} PROVE ChildInv(d)'
  <2>1. session'[d] = session[d] /\ ChildInv(d)
        /\ child'[d] = child[d] /\ durable'[d] = durable[d]
    BY DEF IInv, PartsInv, Keys
  <2> QED BY <2>1 DEF ChildInv
<1>4. OneBound'
  <2> SUFFICES ASSUME NEW a \in AgentIds, NEW b \in AgentIds,
                      agent'[a] # NoAgent, agent'[b] # NoAgent,
                      agent'[a].key = agent'[b].key, agent'[a].bound, agent'[b].bound
               PROVE  a = b
    BY DEF OneBound
  <2>1. CASE agent'[a].key # k
    BY <2>1 DEF IInv, OneBound
  <2> QED BY <2>1 DEF OneBoundAt
<1>5. PartsInv'
  BY <1>1, <1>2, <1>3 DEF PartsInv
<1> QED BY <1>4, <1>5 DEF IInv

\* All sessions gone and all agents told.
Closed == /\ \A k \in Keys : session[k] = NoSession
          /\ \A a \in AgentIds : agent[a] # NoAgent => agent[a].told

\* A step that makes no child active or lost, and no drained session busy,
\* leaves what the attempts have established.
LEMMA AttemptFrame ==
    ASSUME IInv, UNCHANGED <<pool, attempt, captured, drained>>,
           \A c \in Children : /\ child'[c] = "lost" => child[c] = "lost"
                               /\ child'[c] \in Active => child[c] \in Active,
           (manager' = manager /\ receipt' = receipt) \/ EnsureManager,
           manager = "draining" => \A k \in Keys : Quiet(k) => Quiet(k)',
           manager = "none" /\ manager' = "none" /\ Closed => Closed'
    PROVE  AttemptInv'
<1>1. AttemptInv /\ drained \subseteq Keys
  BY DEF IInv, TypeOK
<1>2. /\ attempt' = attempt /\ captured' = captured /\ pool' = pool
      /\ drained' = drained
  OBVIOUS
<1>3. /\ attempt # "none" => receipt # "completed" /\ receipt' # "completed"
      /\ attempt' = "pool" => drained' = {}
      /\ receipt' = "completed" => receipt = "completed"
      /\ receipt' = "completed" /\ manager = "none" => manager' = "none"
  BY <1>1, <1>2 DEF EnsureManager, Reset, AttemptInv
<1>4. /\ manager = "draining" => manager' = manager
      /\ manager # "none" => manager' # "none"
  BY DEF EnsureManager
<1>5. attempt' = "backends" /\ captured'.manager =>
          manager' = "draining" /\ \A k \in drained' : Quiet(k)'
  BY <1>1, <1>2, <1>4 DEF AttemptInv
<1>6. receipt' = "completed" /\ captured'.manager => manager' = "none" /\ Closed'
  BY <1>1, <1>2, <1>3 DEF AttemptInv, Closed
<1>7. /\ attempt' # "none" /\ captured'.pool =>
            pool' = "stopped" /\ \A c \in Children : child'[c] # "lost"
      /\ attempt' = "backends" /\ captured'.pool => \A c \in Children : child'[c] \notin Active
      /\ receipt' = "completed" /\ captured'.pool =>
            pool' = "none" /\ \A c \in Children : child'[c] \notin Active \cup {"lost"}
  BY <1>1, <1>2, <1>3 DEF AttemptInv
<1>8. attempt' # "none" /\ captured'.manager => manager' # "none"
  BY <1>1, <1>2, <1>4 DEF AttemptInv
<1> HIDE DEF Active
<1> QED BY <1>2, <1>3, <1>5, <1>6, <1>7, <1>8 DEF AttemptInv, Closed

-----------------------------------------------------------------------------
(* Steps of a runner that leave its backend alone *)

LEMMA LaunchStep ==
    ASSUME IInv, NEW c \in Children, Launch(c)
    PROVE  IInv'
<1>1. /\ pool = "open" /\ child[c] = "new"
      /\ child' = [child EXCEPT ![c] = "provisioning"]
      /\ durable' = [durable EXCEPT ![c] = "held"]
      /\ UNCHANGED <<host, pool, aborted, backendVars, shutdownVars>>
  BY DEF Launch
<1>2. /\ child'[c] = "provisioning" /\ durable'[c] = "held"
      /\ \A d \in Children \ {c} : child'[d] = child[d] /\ durable'[d] = durable[d]
  BY <1>1 DEF IInv, TypeOK
<1>3. TypeOK'
  BY <1>1 DEF IInv, TypeOK, ChildStates, Active, backendVars, shutdownVars
<1>4. /\ session' = session /\ agent' = agent /\ manager' = manager
      /\ pool' = pool /\ attempt' = attempt /\ captured' = captured
      /\ drained' = drained /\ receipt' = receipt
  BY <1>1 DEF backendVars, shutdownVars
<1>5. AgentsInv(c)'
  BY <1>1, <1>2, <1>4 DEF IInv, PartsInv, AgentsInv, AgentInv, OnPatch, Busy
<1>6. SessionInv(c)'
  BY <1>1, <1>2, <1>4 DEF IInv, PartsInv, SessionInv, Bound, Busy, Keys
<1>7. ChildInv(c)'
  BY <1>2, <1>4 DEF ChildInv, Active, Busy
<1>8. AttemptInv'
  <2>1. captured.pool => attempt = "none" /\ receipt # "completed"
    BY <1>1 DEF IInv, AttemptInv
  <2>2. \A k \in Keys : Quiet(k)' = Quiet(k)
    BY <1>4 DEF Quiet
  <2> QED BY <1>1, <1>4, <2>1, <2>2 DEF IInv, AttemptInv, TypeOK
<1>9. c \in Keys /\ OneBoundAt(c)'
  BY <1>4 DEF IInv, OneBound, OneBoundAt, Keys
<1>10. OnlyAbout(c)
  BY <1>2, <1>4 DEF OnlyAbout
<1> QED BY <1>2, <1>3, <1>5, <1>6, <1>7, <1>8, <1>9, <1>10, OneKeyStep

\* A runner that takes another state, while its backend is left alone.
LEMMA RunnerFrame ==
    ASSUME IInv, NEW c \in Children, NEW to \in ChildStates,
           child' = [child EXCEPT ![c] = to],
           durable' = durable \/ durable' = [durable EXCEPT ![c] = "released"],
           UNCHANGED <<host, pool, aborted, backendVars, shutdownVars>>,
           to # "lost", to \in Active => child[c] \in Active,
           AgentsInv(c)',
           SessionInv(c)', ChildInv(c)'
    PROVE  IInv'
<1>1. /\ child'[c] = to
      /\ \A d \in Children \ {c} : child'[d] = child[d] /\ durable'[d] = durable[d]
  BY DEF IInv, TypeOK
<1>2. TypeOK'
  BY DEF IInv, TypeOK, backendVars, shutdownVars
<1>3. /\ session' = session /\ agent' = agent /\ manager' = manager
      /\ pool' = pool /\ attempt' = attempt /\ captured' = captured
      /\ drained' = drained /\ receipt' = receipt
  BY DEF backendVars, shutdownVars
<1>4. AttemptInv'
  <2>1. \A k \in Keys : Quiet(k)' = Quiet(k)
    BY <1>3 DEF Quiet
  <2>2. Closed' = Closed
    BY <1>3 DEF Closed
  <2>3. \A d \in Children : /\ child'[d] = "lost" => child[d] = "lost"
                            /\ child'[d] \in Active => child[d] \in Active
    BY <1>1
  <2> QED BY <1>3, <2>1, <2>2, <2>3, AttemptFrame
<1>5. c \in Keys /\ OneBoundAt(c)'
  BY <1>3 DEF IInv, OneBound, OneBoundAt, Keys
<1>6. OnlyAbout(c)
  BY <1>1, <1>3 DEF OnlyAbout
<1> QED BY <1>2, <1>4, <1>5, <1>6, OneKeyStep

LEMMA GiveUpStep ==
    ASSUME IInv, NEW c \in Children, GiveUp(c)
    PROVE  IInv'
<1>1. /\ child[c] \in Busy
      /\ child' = [child EXCEPT ![c] = "parked"]
      /\ UNCHANGED <<host, pool, aborted, durable, backendVars, shutdownVars>>
  BY DEF GiveUp
<1>2. child'[c] = "parked" /\ durable' = durable /\ session' = session
      /\ agent' = agent /\ manager' = manager
  BY <1>1 DEF IInv, TypeOK, backendVars
<1>3. AgentsInv(c)'
  BY <1>1, <1>2 DEF IInv, PartsInv, AgentsInv, AgentInv, OnPatch, Busy
<1>4. SessionInv(c)'
  BY <1>1, <1>2 DEF IInv, PartsInv, SessionInv, Bound, Busy, Keys
<1>5. ChildInv(c)'
  BY <1>1, <1>2 DEF IInv, PartsInv, ChildInv, Active, Busy
<1>6. "parked" \in ChildStates /\ "parked" \in Active /\ child[c] \in Active
  BY <1>1 DEF ChildStates, Active
<1> QED BY <1>1, <1>3, <1>4, <1>5, <1>6, RunnerFrame

LEMMA SettledStep ==
    ASSUME IInv, NEW c \in Children, RetrySettlement(c) \/ Reconcile(c)
    PROVE  IInv'
<1>1. /\ child[c] = "blocked" \/ child[c] = "lost"
      /\ child' = [child EXCEPT ![c] = "done"]
      /\ durable' = [durable EXCEPT ![c] = "released"]
      /\ UNCHANGED <<host, pool, aborted, backendVars, shutdownVars>>
      /\ child[c] = "lost" => \A a \in AgentIds : agent[a] # NoAgent => agent[a].key # c
  BY DEF RetrySettlement, Reconcile
<1>2. child'[c] = "done" /\ durable'[c] = "released" /\ session' = session
      /\ agent' = agent /\ manager' = manager
  BY <1>1 DEF IInv, TypeOK, backendVars
<1>3. AgentsInv(c)'
  BY <1>1, <1>2 DEF IInv, PartsInv, AgentsInv, AgentInv, OnPatch, Busy
<1>4. SessionInv(c)'
  BY <1>1, <1>2 DEF IInv, PartsInv, SessionInv, Bound, Busy, Keys
<1>5. ChildInv(c)'
  BY <1>1, <1>2 DEF IInv, PartsInv, ChildInv, Active, Busy
<1>6. "done" \in ChildStates /\ "done" \notin Active
  BY DEF ChildStates, Active, Busy
<1> QED BY <1>1, <1>3, <1>4, <1>5, <1>6, RunnerFrame

LEMMA InterruptStep ==
    ASSUME IInv, NEW c \in Children, Interrupt(c)
    PROVE  IInv'
<1>1. /\ aborted' = aborted \cup {c}
      /\ host' = host /\ pool' = pool /\ child' = child /\ durable' = durable
      /\ manager' = manager /\ session' = session /\ agent' = agent
      /\ attempt' = attempt /\ captured' = captured /\ drained' = drained
      /\ receipt' = receipt
  BY DEF Interrupt, backendVars, shutdownVars
<1>2. TypeOK'
  BY <1>1 DEF IInv, TypeOK
<1>3. PartsInv' /\ OneBound' /\ AttemptInv'
  BY <1>1 DEF IInv, PartsInv, AgentInv, SessionInv, ChildInv, OneBound,
              AttemptInv, OnPatch, Quiet
<1> QED BY <1>2, <1>3 DEF IInv

-----------------------------------------------------------------------------
(* Steps that start an agent *)

\* A new agent takes no orders yet, and no other was left untold.
LEMMA SpawnStep ==
    ASSUME IInv, NEW k \in Keys, NEW a \in AgentIds,
           Spawn(k, a),
           session[k] # NoSession => ~session[k].open,
           k \in Children =>
              \/ child[k] = "provisioning" /\ child' = [child EXCEPT ![k] = "attaching"]
              \/ /\ child[k] \in {"ready", "planned"}
                 /\ child' = [child EXCEPT ![k] = "reattaching"],
           k \notin Children => child' = child,
           \/ manager' = manager /\ receipt' = receipt /\ session[k] # NoSession
           \/ EnsureManager,
           manager # "draining",
           UNCHANGED <<host, pool, aborted, durable, attempt, captured, drained>>
    PROVE  IInv'
<1>t. TypedSession /\ TypedAgent
  BY DEF IInv, TypeOK, TypedSession, TypedAgent
<1>1. /\ TypedSession' /\ TypedAgent'
      /\ agent[a] = NoAgent
      /\ session'[k] # NoSession
      /\ session'[k].agent = a
      /\ session'[k].attach = "hello"
      /\ session'[k].open
      /\ session'[k].accepting = TRUE
      /\ session'[k].request = "none"
      /\ \A j \in Keys \ {k} : session'[j] = session[j]
      /\ agent'[a] # NoAgent
      /\ agent'[a].key = k
      /\ agent'[a].bound = FALSE
      /\ agent'[a].told = FALSE
      /\ agent'[a].works = "none"
      /\ \A b \in AgentIds \ {a} : agent'[b] = agent[b]
  BY <1>t, SpawnFacts
<1>2. \A d \in Children \ {k} : child'[d] = child[d]
  BY DEF IInv, TypeOK
<1>3. k \in Children =>
         \/ child[k] = "provisioning" /\ child'[k] = "attaching"
         \/ child[k] \in {"ready", "planned"} /\ child'[k] = "reattaching"
  BY DEF IInv, TypeOK
<1>4. child' \in [Children -> ChildStates]
  BY DEF IInv, TypeOK, ChildStates, Active
<1>5. /\ manager' \in {"none", "accepting"}
      /\ receipt' \in {"none", "blocked", "completed"}
  BY DEF EnsureManager, Reset, IInv, TypeOK
<1>6. TypeOK'
  BY <1>1, <1>4, <1>5 DEF IInv, TypeOK, TypedSession, TypedAgent
<1>7. ASSUME NEW b \in AgentIds, agent'[b] # NoAgent, agent'[b].key = k
      PROVE  AgentInv(b)'
  <2>1. CASE b = a
    BY <1>1, <2>1 DEF AgentInv, OnPatch
  <2>2. CASE b # a
    <3>1. agent'[b] = agent[b] /\ AgentInv(b)
      BY <1>1, <2>2 DEF IInv, PartsInv
    <3>2. agent[b].told
      BY <1>7, <3>1 DEF AgentInv
    <3>3. ~OnPatch(b)
      BY <1>3, <1>7, <3>1 DEF AgentInv, Busy
    <3>4. agent[b].bound => k \in Children /\ child'[k] = "reattaching"
      BY <1>3, <1>7, <3>1 DEF AgentInv
    <3> QED BY <1>7, <3>1, <3>2, <3>3, <3>4 DEF AgentInv, OnPatch
  <2> QED BY <2>1, <2>2
<1>8. SessionInv(k)'
  BY <1>1, <1>3, <1>5, MainAssumption DEF SessionInv, Bound, Busy
<1>9. k \in Children => ChildInv(k)'
  BY <1>1, <1>3 DEF IInv, PartsInv, ChildInv, Active, Busy
<1>10. OneBoundAt(k)'
  BY <1>1 DEF IInv, OneBound, OneBoundAt
<1>11. AttemptInv'
  <2>1. \A d \in Children : /\ child'[d] = "lost" => child[d] = "lost"
                            /\ child'[d] \in Active => child[d] \in Active
    BY <1>2, <1>3 DEF Active
  <2>2. ~(manager = "none" /\ manager' = "none" /\ Closed)
    BY DEF EnsureManager, Closed
  <2> QED BY <2>1, <2>2, AttemptFrame
<1>12. OnlyAbout(k)
  BY <1>1, <1>2, <1>5 DEF OnlyAbout
<1>13. AgentsInv(k)'
  BY <1>7 DEF AgentsInv
<1> QED BY <1>6, <1>8, <1>9, <1>10, <1>11, <1>12, <1>13, OneKeyStep

LEMMA AttachSteps ==
    ASSUME IInv, NEW a \in AgentIds,
           AttachMain(a) \/ \E c \in Children : AttachWorker(c, a) \/ Reattach(c, a)
    PROVE  IInv'
<1>1. CASE AttachMain(a)
  <2>1. /\ session[Main] # NoSession => ~session[Main].open
        /\ Spawn(Main, a)
        /\ EnsureManager
        /\ child' = child
        /\ UNCHANGED <<host, pool, aborted, durable, attempt, captured, drained>>
    BY <1>1 DEF AttachMain, childVars
  <2>2. Main \in Keys /\ Main \notin Children /\ manager # "draining"
    BY <2>1, MainAssumption DEF Keys, EnsureManager
  <2> QED BY <2>1, <2>2, SpawnStep
<1>2. ASSUME NEW c \in Children, AttachWorker(c, a) PROVE IInv'
  <2>1. /\ Spawn(c, a)
        /\ EnsureManager
        /\ child[c] = "provisioning"
        /\ child' = [child EXCEPT ![c] = "attaching"]
        /\ UNCHANGED <<host, pool, aborted, durable, attempt, captured, drained>>
    BY <1>2 DEF AttachWorker
  <2>2. c \in Keys /\ manager # "draining"
    BY <2>1 DEF Keys, EnsureManager
  <2>3. session[c] = NoSession
    BY <2>1, <2>2 DEF IInv, PartsInv, SessionInv, Bound, Busy
  <2> QED BY <2>1, <2>2, <2>3, SpawnStep
<1>3. ASSUME NEW c \in Children, Reattach(c, a) PROVE IInv'
  <2>1. /\ Spawn(c, a)
        /\ child[c] \in {"ready", "planned"}
        /\ child' = [child EXCEPT ![c] = "reattaching"]
        /\ session[c] # NoSession /\ ~session[c].open /\ session[c].accepting
        /\ UNCHANGED <<host, pool, aborted, durable, attempt, captured, drained>>
        /\ manager' = manager /\ receipt' = receipt
    BY <1>3 DEF Reattach, Usable, shutdownVars
  <2>2. c \in Keys /\ manager # "draining"
    BY <2>1 DEF Keys, IInv, PartsInv, SessionInv
  <2> QED BY <2>1, <2>2, SpawnStep
<1> QED BY <1>1, <1>2, <1>3

-----------------------------------------------------------------------------
(* Steps that carry a request or an answer *)

LEMMA CarriesFacts ==
    ASSUME TypedSession, TypedAgent, NEW k \in Keys,
           NEW what \in {"none", "plan", "apply", "other"},
           session[k] # NoSession, agent[session[k].agent] # NoAgent,
           Carries(k, what)
    PROVE  /\ TypedSession' /\ TypedAgent'
           /\ session'[k] # NoSession
           /\ session'[k].agent = session[k].agent
           /\ session'[k].attach = session[k].attach
           /\ session'[k].open = session[k].open
           /\ session'[k].accepting = session[k].accepting
           /\ session'[k].request = what
           /\ \A j \in Keys \ {k} : session'[j] = session[j]
           /\ agent'[session[k].agent] # NoAgent
           /\ agent'[session[k].agent].key = agent[session[k].agent].key
           /\ agent'[session[k].agent].bound = agent[session[k].agent].bound
           /\ agent'[session[k].agent].told = agent[session[k].agent].told
           /\ agent'[session[k].agent].works = what
           /\ \A b \in AgentIds \ {session[k].agent} : agent'[b] = agent[b]
<1>1. session[k] \in Session /\ session[k].agent \in AgentIds
  BY DEF TypedSession, Session
<1>2. PICK a \in AgentIds : a = session[k].agent
  BY <1>1
<1>3. agent[a] \in Agent
  BY <1>2 DEF TypedAgent
<1>4. PICK s : s = [session[k] EXCEPT !.request = what]
  OBVIOUS
<1>5. PICK g : g = [agent[a] EXCEPT !.works = what]
  OBVIOUS
<1>6. /\ s \in Session /\ s.agent = a /\ s.attach = session[k].attach
      /\ s.open = session[k].open /\ s.accepting = session[k].accepting
      /\ s.request = what
  BY <1>1, <1>2, <1>4 DEF Session
<1>7. /\ g \in Agent /\ g.key = agent[a].key /\ g.bound = agent[a].bound
      /\ g.told = agent[a].told /\ g.works = what
  BY <1>3, <1>5 DEF Agent
<1>8. s # NoSession /\ g # NoAgent
  BY <1>6, <1>7, AbsenceAssumption
<1>9. session' = [session EXCEPT ![k] = s] /\ agent' = [agent EXCEPT ![a] = g]
  BY <1>2, <1>4, <1>5 DEF Carries
<1>10. /\ session'[k] = s /\ agent'[a] = g
       /\ \A j \in Keys \ {k} : session'[j] = session[j]
       /\ \A b \in AgentIds \ {a} : agent'[b] = agent[b]
  BY <1>9 DEF TypedSession, TypedAgent
<1>11. TypedSession' /\ TypedAgent'
  BY <1>6, <1>7, <1>9 DEF TypedSession, TypedAgent
<1> QED BY <1>2, <1>6, <1>7, <1>8, <1>10, <1>11

\* A request or its answer, between an open session and its own agent.
LEMMA CarriesStep ==
    ASSUME IInv, NEW k \in Keys, NEW what \in {"none", "plan", "apply", "other"},
           session[k] # NoSession, session[k].open, session[k].attach \notin Attaching,
           Carries(k, what),
           UNCHANGED <<host, pool, aborted, durable, manager, shutdownVars>>,
           manager = "draining" => what = "none",
           child' \in [Children -> ChildStates],
           \A d \in Children \ {k} : child'[d] = child[d],
           k \in Children =>
              /\ child[k] \in Active /\ child'[k] \in Active
              /\ child'[k] \in Busy => what # "none"
              /\ what \in {"plan", "apply"} => child[k] \in Bound /\ child'[k] \in Busy
              /\ child'[k] # child[k] => child[k] \in Bound /\ child'[k] \in Bound,
           k \notin Children => what \in {"none", "other"}
    PROVE  IInv'
<1>0. TypedSession /\ TypedAgent
  BY DEF IInv, TypeOK, TypedSession, TypedAgent
<1>1. /\ SessionInv(k)
      /\ session[k].agent \in AgentIds
      /\ agent[session[k].agent] # NoAgent
      /\ agent[session[k].agent].key = k
      /\ ~agent[session[k].agent].told
  BY DEF IInv, PartsInv, SessionInv, TypeOK, Session
<1>2. /\ TypedSession' /\ TypedAgent'
      /\ session'[k] # NoSession
      /\ session'[k].agent = session[k].agent
      /\ session'[k].attach = session[k].attach
      /\ session'[k].open = session[k].open
      /\ session'[k].accepting = session[k].accepting
      /\ session'[k].request = what
      /\ \A j \in Keys \ {k} : session'[j] = session[j]
      /\ agent'[session[k].agent] # NoAgent
      /\ agent'[session[k].agent].key = agent[session[k].agent].key
      /\ agent'[session[k].agent].bound = agent[session[k].agent].bound
      /\ agent'[session[k].agent].told = agent[session[k].agent].told
      /\ agent'[session[k].agent].works = what
      /\ \A b \in AgentIds \ {session[k].agent} : agent'[b] = agent[b]
  BY <1>0, <1>1, CarriesFacts
<1>3. PICK a \in AgentIds : a = session[k].agent
  BY <1>1
<1>4. /\ manager' = manager /\ durable' = durable /\ aborted' = aborted
      /\ host' = host /\ pool' = pool /\ attempt' = attempt
      /\ captured' = captured /\ drained' = drained /\ receipt' = receipt
  BY DEF shutdownVars
<1>5. TypeOK'
  BY <1>2, <1>4 DEF IInv, TypeOK, TypedSession, TypedAgent
<1>6. OnlyAbout(k)
  BY <1>1, <1>2, <1>3, <1>4 DEF OnlyAbout
<1>7. ASSUME NEW b \in AgentIds, agent'[b] # NoAgent, agent'[b].key = k
      PROVE  AgentInv(b)'
  <2>1. k \in Children =>
            /\ child'[k] # child[k] => child[k] \in Bound /\ child'[k] \in Bound
            /\ child'[k] \in Active
    OBVIOUS
  <2>2. CASE b = a
    <3>1. AgentInv(a) /\ agent[a] # NoAgent /\ agent[a].key = k /\ ~agent[a].told
      BY <1>1, <1>3 DEF IInv, PartsInv
    <3>2. agent[a].bound => k \in Children /\ child'[k] \notin {"new", "provisioning", "attaching"}
      BY <2>1, <3>1 DEF AgentInv, Bound, Busy
    <3>3. what \in {"plan", "apply"} =>
              k \in Children /\ agent[a].bound /\ child'[k] \in Busy
      BY <1>1, <1>3 DEF SessionInv
    <3> QED BY <1>2, <1>3, <2>2, <3>1, <3>2, <3>3 DEF AgentInv, OnPatch
  <2>3. CASE b # a
    <3>1. agent'[b] = agent[b] /\ AgentInv(b)
      BY <1>2, <1>3, <2>3 DEF IInv, PartsInv
    <3>2. agent[b].bound => k \in Children /\ child'[k] \notin {"new", "provisioning", "attaching"}
      BY <1>7, <2>1, <3>1 DEF AgentInv, Bound, Busy
    <3>3. OnPatch(b) => child[k] \in {"parked", "lost"} /\ agent[b].bound
      BY <1>3, <1>7, <2>3, <3>1 DEF AgentInv
    <3>4. OnPatch(b) => child'[k] = child[k] /\ k \in Children
      BY <2>1, <3>1, <3>2, <3>3 DEF Bound, Busy
    <3> QED BY <1>2, <1>3, <1>7, <2>3, <3>1, <3>2, <3>3, <3>4 DEF AgentInv, OnPatch
  <2> QED BY <2>2, <2>3
<1>8. AgentsInv(k)'
  BY <1>7 DEF AgentsInv
<1>9. OneBoundAt(k)'
  <2>1. \A b \in AgentIds : agent'[b] # NoAgent =>
            /\ agent[b] # NoAgent /\ agent'[b].key = agent[b].key
            /\ agent'[b].bound = agent[b].bound
    BY <1>1, <1>2
  <2> QED BY <2>1 DEF IInv, OneBound, OneBoundAt
<1>10. SessionInv(k)'
  <2>1. k \in Children => /\ child'[k] \in Bound => child[k] \in Bound
                          /\ child'[k] \in Bound \cup {"attaching", "reattaching", "parked"}
    BY <1>1 DEF SessionInv
  <2> QED BY <1>1, <1>2, <1>4, <2>1 DEF SessionInv, Attaching
<1>11. k \in Children => ChildInv(k)'
  <2>1. SUFFICES ASSUME k \in Children PROVE ChildInv(k)'
    OBVIOUS
  <2>2. child'[k] \in Busy => session[k].attach = "attached"
    <3>1. session[k].attach \in {"attached", "failed"}
      BY DEF IInv, TypeOK, Session, Attaching
    <3>2. session[k].attach # "failed"
      BY <1>1 DEF SessionInv
    <3> QED BY <3>1, <3>2
  <2>3. durable[k] = "held"
    BY <2>1 DEF IInv, PartsInv, ChildInv
  <2> QED BY <1>2, <1>4, <2>1, <2>2, <2>3 DEF ChildInv
<1>12. AttemptInv'
  <2>1. \A d \in Children : /\ child'[d] = "lost" => child[d] = "lost"
                            /\ child'[d] \in Active => child[d] \in Active
    BY DEF Active, Busy
  <2>2. manager = "draining" => \A j \in Keys : Quiet(j) => Quiet(j)'
    BY <1>2 DEF Quiet
  <2>3. ~Closed
    BY DEF Closed
  <2> QED BY <1>4, <2>1, <2>2, <2>3, AttemptFrame
<1> QED BY <1>5, <1>6, <1>8, <1>9, <1>10, <1>11, <1>12, OneKeyStep

LEMMA PatchRequestStep ==
    ASSUME IInv, NEW c \in Children, PlanPatch(c) \/ ApplyPatch(c)
    PROVE  IInv'
<1>1. PICK from \in {"ready", "planned"}, to \in Busy, what \in {"plan", "apply"} :
          Sends(c, from, to, what)
  <2>1. CASE PlanPatch(c)
    BY <2>1 DEF PlanPatch, Busy
  <2>2. CASE ApplyPatch(c)
    BY <2>2 DEF ApplyPatch, Busy
  <2> QED BY <2>1, <2>2
<1>2. /\ child[c] = from
      /\ session[c] # NoSession /\ session[c].attach = "attached"
      /\ session[c].open /\ session[c].accepting
      /\ Carries(c, what)
      /\ child' = [child EXCEPT ![c] = to]
      /\ UNCHANGED <<host, pool, aborted, durable, manager, shutdownVars>>
  BY <1>1 DEF Sends, Usable
<1>3. c \in Keys /\ what \in {"none", "plan", "apply", "other"}
  BY DEF Keys
<1>4. manager # "draining" /\ session[c].attach \notin Attaching
  BY <1>2, <1>3 DEF IInv, PartsInv, SessionInv, Attaching
<1>5. /\ child' \in [Children -> ChildStates]
      /\ \A d \in Children \ {c} : child'[d] = child[d]
      /\ child'[c] = to
  BY <1>2 DEF IInv, TypeOK, ChildStates, Active
<1>6. /\ child[c] \in Active /\ child'[c] \in Active
      /\ child[c] \in Bound /\ child'[c] \in Bound
  BY <1>2, <1>5 DEF Active, Bound
<1> QED BY <1>2, <1>3, <1>4, <1>5, <1>6, CarriesStep

LEMMA RequestMainStep ==
    ASSUME IInv, RequestMain
    PROVE  IInv'
<1>1. /\ session[Main] # NoSession /\ session[Main].accepting /\ session[Main].open
      /\ child' = child
      /\ UNCHANGED <<host, pool, aborted, durable, manager, shutdownVars>>
  BY DEF RequestMain, childVars
<1>2. Main \in Keys /\ Main \notin Children
  BY MainAssumption DEF Keys
<1>3. manager # "draining"
  BY <1>1, <1>2 DEF IInv, PartsInv, SessionInv
<1>4. CASE session[Main].attach = "attached" /\ Carries(Main, "other")
  <2>1. session[Main].attach \notin Attaching
    BY <1>4 DEF Attaching
  <2> QED BY <1>1, <1>2, <1>3, <1>4, <2>1, CarriesStep DEF IInv, TypeOK
<1>5. CASE /\ session[Main].attach \in Attaching
           /\ session' = [session EXCEPT ![Main].queued = TRUE]
           /\ agent' = agent
  <2>1. PICK s : s = [session[Main] EXCEPT !.queued = TRUE]
    OBVIOUS
  <2>2. session[Main] \in Session
    BY <1>1, <1>2 DEF IInv, TypeOK
  <2>3. /\ s \in Session /\ s.agent = session[Main].agent
        /\ s.attach = session[Main].attach /\ s.open = session[Main].open
        /\ s.accepting = session[Main].accepting /\ s.request = session[Main].request
    BY <2>1, <2>2 DEF Session
  <2>4. s # NoSession
    BY <2>3, AbsenceAssumption
  <2>5. /\ session' = [session EXCEPT ![Main] = s]
        /\ session'[Main] = s
        /\ \A j \in Keys \ {Main} : session'[j] = session[j]
    BY <1>2, <1>5, <2>1 DEF IInv, TypeOK
  <2>6. /\ manager' = manager /\ durable' = durable /\ aborted' = aborted
        /\ host' = host /\ pool' = pool /\ attempt' = attempt
        /\ captured' = captured /\ drained' = drained /\ receipt' = receipt
    BY <1>1 DEF shutdownVars
  <2>7. TypeOK'
    BY <1>1, <1>5, <2>3, <2>5, <2>6 DEF IInv, TypeOK
  <2>8. OnlyAbout(Main)
    BY <1>1, <1>5, <2>5, <2>6 DEF OnlyAbout
  <2>9. AgentsInv(Main)'
    <3>1. SUFFICES ASSUME NEW b \in AgentIds, agent'[b] # NoAgent, agent'[b].key = Main
                   PROVE  AgentInv(b)'
      BY DEF AgentsInv
    <3>2. AgentInv(b) /\ agent[b] # NoAgent /\ agent[b].key = Main
      BY <1>5, <3>1 DEF IInv, PartsInv
    <3>3. ~agent[b].bound /\ ~OnPatch(b)
      BY <1>2, <3>2 DEF AgentInv
    <3> QED BY <1>5, <2>3, <2>4, <2>5, <3>2, <3>3 DEF AgentInv, OnPatch
  <2>10. OneBoundAt(Main)'
    BY <1>5 DEF IInv, OneBound, OneBoundAt
  <2>11. SessionInv(Main)'
    BY <1>1, <1>2, <1>5, <2>3, <2>4, <2>5, <2>6 DEF IInv, PartsInv, SessionInv
  <2>12. AttemptInv'
    <3>1. ~Closed
      BY <1>1, <1>2 DEF Closed
    <3> QED BY <1>1, <1>3, <2>6, <3>1, AttemptFrame
  <2> QED BY <1>2, <2>7, <2>8, <2>9, <2>10, <2>11, <2>12, OneKeyStep
<1> QED BY <1>4, <1>5 DEF RequestMain

LEMMA AnsweredStep ==
    ASSUME IInv, NEW k \in Keys, Answered(k)
    PROVE  IInv'
<1>1. /\ session[k] # NoSession /\ session[k].open /\ session[k].request # "none"
      /\ Carries(k, "none")
      /\ UNCHANGED <<host, pool, aborted, durable, manager, shutdownVars>>
      /\ k = Main => child' = child
  BY DEF Answered
<1>2. session[k].attach \notin Attaching
  BY <1>1 DEF IInv, PartsInv, SessionInv
<1>3. PICK to : to = CASE child[k] = "planning" -> "planned"
                       [] child[k] = "applying" -> "ready"
                       [] OTHER -> child[k]
  OBVIOUS
<1>4. k \in Children => child' = [child EXCEPT ![k] = to]
  BY <1>3, MainAssumption DEF Answered
<1>5. k \in Children =>
        /\ child[k] \in ChildStates
        /\ child[k] \in Bound \cup {"attaching", "reattaching", "parked"}
        /\ to \in ChildStates /\ to \notin Busy
        /\ to # child[k] => child[k] \in Bound /\ to \in Bound
  <2> SUFFICES ASSUME k \in Children
               PROVE  /\ child[k] \in ChildStates
                      /\ child[k] \in Bound \cup {"attaching", "reattaching", "parked"}
                      /\ to \in ChildStates /\ to \notin Busy
                      /\ to # child[k] => child[k] \in Bound /\ to \in Bound
    OBVIOUS
  <2>1. child[k] \in ChildStates
    BY DEF IInv, TypeOK
  <2>2. child[k] \in Bound \cup {"attaching", "reattaching", "parked"}
    BY <1>1 DEF IInv, PartsInv, SessionInv
  <2>3. CASE child[k] = "planning"
    BY <1>3, <2>1, <2>2, <2>3 DEF ChildStates, Active, Bound, Busy
  <2>4. CASE child[k] = "applying"
    BY <1>3, <2>1, <2>2, <2>4 DEF ChildStates, Active, Bound, Busy
  <2>5. CASE child[k] \notin {"planning", "applying"}
    <3>1. to = child[k]
      BY <1>3, <2>5
    <3> QED BY <2>1, <2>2, <2>5, <3>1 DEF Busy
  <2> QED BY <2>3, <2>4, <2>5
<1>6. k \in Children => child[k] \in Active /\ to \in Active
  BY <1>5 DEF Active, Bound, Busy
<1>7. k \in Children \/ k = Main
  BY DEF Keys
<1>8. child' \in [Children -> ChildStates]
  BY <1>1, <1>4, <1>5, <1>7 DEF IInv, TypeOK
<1>9. /\ \A d \in Children \ {k} : child'[d] = child[d]
      /\ k \in Children => child'[k] = to
  BY <1>1, <1>4, <1>7 DEF IInv, TypeOK
<1> QED BY <1>1, <1>2, <1>5, <1>6, <1>8, <1>9, CarriesStep

LEMMA AttachAnsweredStep ==
    ASSUME IInv, NEW k \in Keys, AttachAnswered(k)
    PROVE  IInv'
<1>1. /\ session[k] # NoSession /\ session[k].open /\ session[k].attach \in Attaching
      /\ UNCHANGED <<host, pool, aborted, durable, manager, shutdownVars>>
  BY DEF AttachAnswered
<1>2. PICK next : next = NextAttach(k)
  OBVIOUS
<1>3. PICK sent \in {"none", "other"} :
        /\ sent = "other" => next = "attached"
        /\ session' = [session EXCEPT ![k].attach = next,
                                      ![k].queued = @ /\ next # "attached",
                                      ![k].request = sent]
        /\ agent' = [agent EXCEPT
               ![session[k].agent].bound = session[k].attach = "binding",
               ![session[k].agent].works = sent]
  BY <1>2 DEF AttachAnswered
<1>4. /\ session[k] \in Session /\ session[k].agent \in AgentIds
      /\ SessionInv(k)
  BY <1>1 DEF IInv, PartsInv, TypeOK, Session
<1>5. PICK a \in AgentIds : a = session[k].agent
  BY <1>4
<1>6. /\ agent[a] # NoAgent /\ agent[a].key = k /\ ~agent[a].told
      /\ agent[a] \in Agent /\ AgentInv(a)
      /\ session[k].attach = "binding" => k \in Children /\ child[k] = "attaching"
      /\ k \in Children => child[k] \in {"attaching", "reattaching"}
  BY <1>1, <1>4, <1>5 DEF SessionInv, IInv, PartsInv, TypeOK
<1>7. /\ next \in {"binding", "hygiene", "attached"}
      /\ next = "binding" => k \in Children /\ child[k] = "attaching"
      /\ session[k].attach = "binding" => next = "attached"
  BY <1>2 DEF NextAttach
<1>8. PICK bound \in BOOLEAN : bound <=> session[k].attach = "binding"
  OBVIOUS
<1>9. PICK s : s = [session[k] EXCEPT !.attach = next,
                                      !.queued = @ /\ next # "attached",
                                      !.request = sent]
  OBVIOUS
<1>10. PICK g : g = [agent[a] EXCEPT !.bound = session[k].attach = "binding",
                                     !.works = sent]
  OBVIOUS
<1>11. /\ s \in Session /\ s.agent = a /\ s.attach = next /\ s.open
       /\ s.accepting = session[k].accepting /\ s.request = sent
  BY <1>1, <1>4, <1>5, <1>7, <1>9 DEF Session, Attaching
<1>12. /\ g \in Agent /\ g.key = k /\ ~g.told /\ g.works = sent
       /\ g.bound <=> session[k].attach = "binding"
  BY <1>6, <1>10 DEF Agent
<1>13. s # NoSession /\ g # NoAgent
  BY <1>11, <1>12, AbsenceAssumption
<1>14. session' = [session EXCEPT ![k] = s]
  BY <1>3, <1>4, <1>9 DEF IInv, TypeOK
<1>15. agent' = [agent EXCEPT ![a] = g]
  BY <1>3, <1>5, <1>10 DEF IInv, TypeOK
<1>16. /\ session'[k] = s /\ agent'[a] = g
       /\ \A j \in Keys \ {k} : session'[j] = session[j]
       /\ \A b \in AgentIds \ {a} : agent'[b] = agent[b]
  BY <1>14, <1>15 DEF IInv, TypeOK
<1>17. /\ child' \in [Children -> ChildStates]
       /\ \A d \in Children \ {k} : child'[d] = child[d]
       /\ session[k].attach = "binding" => child'[k] = "ready"
       /\ session[k].attach # "binding" => child' = child
  BY <1>6 DEF AttachAnswered, IInv, TypeOK, ChildStates, Active
<1>18. /\ manager' = manager /\ durable' = durable /\ aborted' = aborted
       /\ host' = host /\ pool' = pool /\ attempt' = attempt
       /\ captured' = captured /\ drained' = drained /\ receipt' = receipt
  BY <1>1 DEF shutdownVars
<1>19. TypeOK'
  BY <1>11, <1>12, <1>14, <1>15, <1>17, <1>18 DEF IInv, TypeOK
<1>20. OnlyAbout(k)
  BY <1>6, <1>12, <1>16, <1>17, <1>18 DEF OnlyAbout
<1>21. ASSUME NEW b \in AgentIds, agent'[b] # NoAgent, agent'[b].key = k
       PROVE  AgentInv(b)'
  <2>1. CASE b = a
    <3>1. ~OnPatch(a)'
      BY <1>12, <1>16 DEF OnPatch
    <3>2. agent'[a].bound => k \in Children /\ child'[k] = "ready"
      BY <1>6, <1>12, <1>16, <1>17
    <3>3. /\ agent'[a].key = k /\ session'[k] # NoSession
          /\ session'[k].agent = a /\ session'[k].open
      BY <1>11, <1>12, <1>13, <1>16
    <3> QED BY <2>1, <3>1, <3>2, <3>3 DEF AgentInv
  <2>2. CASE b # a
    <3>1. agent'[b] = agent[b] /\ AgentInv(b)
      BY <1>16, <2>2 DEF IInv, PartsInv
    <3>2. agent[b].told /\ ~OnPatch(b)
      BY <1>5, <1>6, <1>21, <2>2, <3>1 DEF AgentInv, Busy
    <3>3. agent[b].bound => k \in Children /\ child'[k] = "reattaching"
      BY <1>6, <1>17, <1>21, <3>1 DEF AgentInv
    <3> QED BY <1>21, <3>1, <3>2, <3>3 DEF AgentInv, OnPatch
  <2> QED BY <2>1, <2>2
<1>22. AgentsInv(k)'
  BY <1>21 DEF AgentsInv
<1>23. OneBoundAt(k)'
  <2>1. CASE session[k].attach = "binding"
    <3>1. \A b \in AgentIds \ {a} : agent[b] # NoAgent /\ agent[b].key = k => ~agent[b].bound
      BY <1>6, <2>1 DEF IInv, PartsInv, AgentInv
    <3> QED BY <1>16, <3>1 DEF OneBoundAt
  <2>2. CASE session[k].attach # "binding"
    <3>1. ~agent'[a].bound
      BY <1>12, <1>16, <2>2
    <3> QED BY <1>16, <3>1 DEF IInv, OneBound, OneBoundAt
  <2> QED BY <2>1, <2>2
<1>24. SessionInv(k)'
  <2>1. /\ session'[k].agent = a /\ session'[k].attach = next /\ session'[k].open
        /\ session'[k].accepting = session[k].accepting /\ session'[k].request = sent
        /\ agent'[a] # NoAgent /\ agent'[a].key = k /\ ~agent'[a].told
        /\ agent'[a].bound <=> session[k].attach = "binding"
    BY <1>11, <1>12, <1>13, <1>16
  <2>2. k \in Children => child'[k] \in {"attaching", "reattaching", "ready"}
    BY <1>6, <1>17
  <2>3. k \in Children /\ child'[k] \in Bound => session[k].attach = "binding"
    BY <1>6, <1>17 DEF Bound, Busy
  <2>4. next \in Attaching =>
           /\ sent = "none"
           /\ k \in Children => child'[k] \in {"attaching", "reattaching"}
    BY <1>3, <1>6, <1>7, <1>17 DEF Attaching
  <2>5. next = "binding" => k \in Children /\ child'[k] = "attaching"
    BY <1>7, <1>17
  <2>6. manager' = "draining" => ~session[k].accepting
    BY <1>1, <1>4, <1>18 DEF SessionInv
  <2>7. k \in Children => child'[k] \in Bound \cup {"attaching", "reattaching", "parked"}
    BY <2>2 DEF Bound
  <2>8. session'[k].attach # "failed"
    BY <1>7, <2>1
  <2>10. k \in Children /\ child'[k] \in Bound => agent'[a].bound
    BY <2>1, <2>3
  <2>9. CASE next \in Attaching
    <3>1. session'[k].request = "none" /\ (k \in Children => child'[k] \in {"attaching", "reattaching"})
      BY <2>1, <2>4, <2>9
    <3>2. session'[k].attach = "binding" => k \in Children /\ child'[k] = "attaching"
      BY <2>1, <2>5
    <3> QED BY <2>1, <2>6, <2>7, <2>8, <2>10, <3>1, <3>2 DEF SessionInv
  <2>11. CASE next \notin Attaching
    <3>1. session'[k].attach \notin Attaching /\ session'[k].attach # "binding"
      BY <2>1, <2>11 DEF Attaching
    <3> QED BY <2>1, <2>6, <2>7, <2>8, <2>10, <3>1 DEF SessionInv
  <2> QED BY <2>9, <2>11
<1>25. k \in Children => ChildInv(k)'
  BY <1>6, <1>17, <1>18 DEF IInv, PartsInv, ChildInv, Active, Busy
<1>26. AttemptInv'
  <2>1. \A d \in Children : /\ child'[d] = "lost" => child[d] = "lost"
                            /\ child'[d] \in Active => child[d] \in Active
    BY <1>6, <1>17 DEF Active
  <2>2. \A j \in Keys : Quiet(j) => Quiet(j)'
    BY <1>1, <1>16 DEF Quiet
  <2>3. ~Closed
    BY <1>1 DEF Closed
  <2> QED BY <1>18, <2>1, <2>2, <2>3, AttemptFrame
<1> QED BY <1>19, <1>20, <1>22, <1>23, <1>24, <1>25, <1>26, OneKeyStep

-----------------------------------------------------------------------------
(* Steps that release or close a session *)

\* The session goes, its agent is told to end, and the runner is through, or
\* parked; nobody works on the worktree unless it was parked for that.
LEMMA ReleaseStep ==
    ASSUME IInv, TypedSession', TypedAgent', NEW c \in Children,
           child[c] \in Active,
           session'[c] = NoSession,
           \A j \in Keys \ {c} : session'[j] = session[j],
           \A a \in AgentIds \ AgentOf(c) : agent'[a] = agent[a],
           \A a \in AgentIds : agent[a] = NoAgent => agent'[a] = NoAgent,
           \A a \in AgentOf(c) : /\ agent'[a] # NoAgent
                                 /\ agent'[a].key = agent[a].key
                                 /\ agent'[a].bound = agent[a].bound
                                 /\ agent'[a].told,
           \A a \in AgentIds : agent'[a] # NoAgent /\ agent'[a].key = c => ~OnPatch(a)',
           \A a \in AgentIds : agent[a] # NoAgent /\ agent[a].key = c /\ agent[a].bound =>
                  child[c] \notin {"new", "provisioning", "attaching"},
           \/ Settle(c)
           \/ child' = [child EXCEPT ![c] = "parked"] /\ durable' = durable,
           UNCHANGED <<host, pool, aborted, manager, shutdownVars>>
    PROVE  IInv'
<1>1. \A a \in AgentOf(c) : a \in AgentIds /\ agent[a] # NoAgent /\ agent[a].key = c
  BY DEF AgentOf
<1>2. PICK to \in {"done", "blocked", "parked"} :
        /\ child' = [child EXCEPT ![c] = to]
        /\ \/ to = "done" /\ durable' = [durable EXCEPT ![c] = "released"]
           \/ to # "done" /\ durable' = durable
  BY DEF Settle
<1>3. /\ child'[c] = to
      /\ \A d \in Children \ {c} : child'[d] = child[d] /\ durable'[d] = durable[d]
      /\ durable'[c] = "held" <=> to # "done"
  BY <1>2 DEF IInv, TypeOK, PartsInv, ChildInv
<1>4. child' \in [Children -> ChildStates]
  BY <1>2 DEF IInv, TypeOK, ChildStates, Active
<1>5. durable' \in [Children -> {"none", "held", "released"}]
  BY <1>2 DEF IInv, TypeOK
<1>6. /\ manager' = manager /\ host' = host /\ pool' = pool /\ aborted' = aborted
      /\ attempt' = attempt /\ captured' = captured /\ drained' = drained
      /\ receipt' = receipt
  BY DEF shutdownVars
<1>7. TypeOK'
  BY <1>4, <1>5, <1>6 DEF IInv, TypeOK, TypedSession, TypedAgent
<1>8. \A a \in AgentIds : agent[a] # NoAgent =>
         /\ agent'[a] # NoAgent /\ agent'[a].key = agent[a].key
         /\ agent'[a].bound = agent[a].bound
         /\ agent[a].told => agent'[a].told
         /\ agent[a].key # c => agent'[a] = agent[a]
  BY <1>1
<1>9. OnlyAbout(c)
  BY <1>3, <1>6, <1>8 DEF OnlyAbout
<1>10. ASSUME NEW b \in AgentIds, agent'[b] # NoAgent, agent'[b].key = c
       PROVE  AgentInv(b)'
  <2>1. agent[b] # NoAgent /\ agent[b].key = c /\ AgentInv(b) /\ ~OnPatch(b)'
    BY <1>8, <1>10 DEF IInv, PartsInv
  <2>2. agent'[b].bound => child'[c] \notin {"new", "provisioning", "attaching"}
    BY <1>3
  <2>3. agent'[b].told
    <3>1. CASE agent[b].told
      BY <1>8, <2>1, <3>1
    <3>2. CASE ~agent[b].told
      <4>1. b \in AgentOf(c)
        BY <2>1, <3>2 DEF AgentInv, AgentOf
      <4> QED BY <4>1
    <3> QED BY <3>1, <3>2
  <2> QED BY <1>10, <2>1, <2>2, <2>3 DEF AgentInv
<1>11. AgentsInv(c)'
  BY <1>10 DEF AgentsInv
<1>12. OneBoundAt(c)'
  <2>1. \A b \in AgentIds : agent'[b] # NoAgent =>
            /\ agent[b] # NoAgent /\ agent'[b].key = agent[b].key
            /\ agent'[b].bound = agent[b].bound
    BY <1>8
  <2> QED BY <2>1 DEF IInv, OneBound, OneBoundAt
<1>13. SessionInv(c)'
  BY DEF SessionInv
<1>14. ChildInv(c)'
  BY <1>3 DEF ChildInv, Active, Busy
<1>15. AttemptInv'
  <2>1. \A d \in Children : /\ child'[d] = "lost" => child[d] = "lost"
                            /\ child'[d] \in Active => child[d] \in Active
    BY <1>3
  <2>2. \A j \in Keys : Quiet(j) => Quiet(j)'
    BY DEF Quiet
  <2>3. Closed => Closed'
    <3>1. ASSUME Closed PROVE Closed'
      <4>1. \A j \in Keys : session'[j] = NoSession
        BY <3>1 DEF Closed
      <4>2. \A a \in AgentIds : agent'[a] # NoAgent => agent'[a].told
        BY <1>8, <3>1 DEF Closed
      <4> QED BY <4>1, <4>2 DEF Closed
    <3> QED BY <3>1
  <2> QED BY <1>6, <2>1, <2>2, <2>3, AttemptFrame
<1>16. c \in Keys
  BY DEF Keys
<1> QED BY <1>7, <1>9, <1>11, <1>12, <1>13, <1>14, <1>15, <1>16, OneKeyStep

LEMMA ReturnStep ==
    ASSUME IInv, NEW c \in Children, NEW proved \in BOOLEAN, Return(c, proved),
           child[c] \in {"provisioning", "attaching", "ready", "planned", "reattaching"},
           UNCHANGED <<host, pool, shutdownVars>>
    PROVE  IInv'
<1>0. TypedSession /\ TypedAgent /\ c \in Keys
  BY DEF IInv, TypeOK, TypedSession, TypedAgent, Keys
<1>1. /\ DisposeForProject(c)
      /\ aborted' = aborted /\ manager' = manager
      /\ \/ Settle(c)
         \/ child' = [child EXCEPT ![c] = "parked"] /\ durable' = durable
  BY DEF Return, End
<1>2. /\ TypedSession' /\ TypedAgent'
      /\ session'[c] = NoSession
      /\ \A j \in Keys \ {c} : session'[j] = session[j]
      /\ \A a \in AgentIds \ AgentOf(c) : agent'[a] = agent[a]
      /\ \A a \in AgentIds :
           IF agent[a] = NoAgent THEN agent'[a] = NoAgent
           ELSE /\ agent'[a] # NoAgent
                /\ agent'[a].key = agent[a].key
                /\ agent'[a].bound = agent[a].bound
                /\ agent'[a].works = agent[a].works
                /\ agent'[a].told <=> (agent[a].told \/ a \in AgentOf(c))
  BY <1>0, <1>1, DisposeFacts
<1>3. \A a \in AgentOf(c) : /\ agent'[a] # NoAgent
                            /\ agent'[a].key = agent[a].key
                            /\ agent'[a].bound = agent[a].bound
                            /\ agent'[a].told
  <2>1. \A a \in AgentOf(c) : a \in AgentIds /\ agent[a] # NoAgent
    BY DEF AgentOf
  <2> QED BY <1>2, <2>1
<1>4. \A a \in AgentIds : agent[a] # NoAgent /\ agent[a].key = c =>
         ~OnPatch(a) /\ (agent[a].bound => child[c] \notin {"new", "provisioning", "attaching"})
  <2>1. \A a \in AgentIds : AgentInv(a)
    BY DEF IInv, PartsInv
  <2> QED BY <2>1 DEF AgentInv, Busy
<1>5. \A a \in AgentIds : agent'[a] # NoAgent /\ agent'[a].key = c => ~OnPatch(a)'
  BY <1>2, <1>4 DEF OnPatch
<1>6. child[c] \in Active
  BY DEF Active
<1> QED BY <1>1, <1>2, <1>3, <1>4, <1>5, <1>6, ReleaseStep

LEMMA CancelAcknowledgedStep ==
    ASSUME IInv, NEW c \in Children, CancelAcknowledged(c)
    PROVE  IInv'
<1>0. TypedSession /\ TypedAgent /\ c \in Keys
  BY DEF IInv, TypeOK, TypedSession, TypedAgent, Keys
<1>1. /\ child[c] \in Busy
      /\ session' = [session EXCEPT ![c] = NoSession]
      /\ agent' = [Told(AgentOf(c)) EXCEPT ![session[c].agent].works = "none"]
      /\ Settle(c)
      /\ UNCHANGED <<host, pool, aborted, manager, shutdownVars>>
  BY DEF CancelAcknowledged
<1>2. session[c] # NoSession /\ session[c].open
  BY <1>1 DEF IInv, PartsInv, ChildInv
<1>3. /\ session[c].agent \in AgentIds
      /\ agent[session[c].agent] # NoAgent
      /\ agent[session[c].agent].key = c
  BY <1>0, <1>2 DEF IInv, PartsInv, SessionInv, TypedSession, Session
<1>4. PICK a \in AgentIds : a = session[c].agent
  BY <1>3
<1>5. AgentOf(c) = {a}
  BY <1>2, <1>3, <1>4 DEF AgentOf
<1>6. PICK g : g = [agent[a] EXCEPT !.told = TRUE, !.works = "none"]
  OBVIOUS
<1>7. agent[a] \in Agent
  BY <1>0, <1>3, <1>4 DEF TypedAgent
<1>8. /\ g \in Agent /\ g.key = agent[a].key /\ g.bound = agent[a].bound
      /\ g.told /\ g.works = "none"
  BY <1>6, <1>7 DEF Agent
<1>9. agent' = [agent EXCEPT ![a] = g]
  BY <1>0, <1>1, <1>4, <1>5, <1>6 DEF Told, TypedAgent
<1>10. /\ agent'[a] = g /\ g # NoAgent
       /\ \A b \in AgentIds \ {a} : agent'[b] = agent[b]
       /\ TypedAgent'
  BY <1>0, <1>8, <1>9, AbsenceAssumption DEF TypedAgent
<1>11. /\ session'[c] = NoSession
       /\ \A j \in Keys \ {c} : session'[j] = session[j]
       /\ TypedSession'
  BY <1>0, <1>1 DEF TypedSession
<1>12. \A b \in AgentIds : AgentInv(b)
  BY DEF IInv, PartsInv
<1>13. \A b \in AgentIds : agent'[b] # NoAgent /\ agent'[b].key = c => ~OnPatch(b)'
  <2> SUFFICES ASSUME NEW b \in AgentIds, agent'[b] # NoAgent, agent'[b].key = c
               PROVE  ~OnPatch(b)'
    OBVIOUS
  <2>1. CASE b = a
    BY <1>8, <1>10, <2>1 DEF OnPatch
  <2>2. CASE b # a
    BY <1>1, <1>4, <1>10, <1>12, <2>2 DEF AgentInv, OnPatch
  <2> QED BY <2>1, <2>2
<1>14. \A b \in AgentIds : agent[b] # NoAgent /\ agent[b].key = c /\ agent[b].bound =>
           child[c] \notin {"new", "provisioning", "attaching"}
  BY <1>12 DEF AgentInv
<1>15. child[c] \in Active
  BY <1>1 DEF Active
<1>16. \A b \in AgentOf(c) : /\ agent'[b] # NoAgent
                             /\ agent'[b].key = agent[b].key
                             /\ agent'[b].bound = agent[b].bound
                             /\ agent'[b].told
  BY <1>5, <1>8, <1>10
<1>17. \A b \in AgentIds \ AgentOf(c) : agent'[b] = agent[b]
  BY <1>5, <1>10
<1>18. \A b \in AgentIds : agent[b] = NoAgent => agent'[b] = NoAgent
  BY <1>3, <1>4, <1>10
<1> QED BY <1>1, <1>10, <1>11, <1>13, <1>14, <1>15, <1>16, <1>17, <1>18, ReleaseStep

\* A failed transport closes its session, and its process is told to end.
LEMMA CloseStep ==
    ASSUME IInv, NEW k \in Keys, NEW attach \in {"attached", "failed"},
           session[k] # NoSession, session[k].open,
           session' = [session EXCEPT ![k] =
              [session[k] EXCEPT !.open = FALSE, !.attach = attach,
                                 !.queued = FALSE, !.request = "none"]],
           agent' = Told(AgentOf(k)),
           child' \in [Children -> ChildStates],
           \A d \in Children \ {k} : child'[d] = child[d],
           k \in Children => child'[k] = IF child[k] \in Busy THEN "parked" ELSE child[k],
           UNCHANGED <<host, pool, aborted, durable, manager, shutdownVars>>
    PROVE  IInv'
<1>0. TypedSession /\ TypedAgent
  BY DEF IInv, TypeOK, TypedSession, TypedAgent
<1>1. PICK s : s = [session[k] EXCEPT !.open = FALSE, !.attach = attach,
                                      !.queued = FALSE, !.request = "none"]
  OBVIOUS
<1>2. session[k] \in Session /\ SessionInv(k)
  BY <1>0 DEF TypedSession, IInv, PartsInv
<1>3. /\ s \in Session /\ s.agent = session[k].agent /\ s.attach = attach
      /\ ~s.open /\ s.accepting = session[k].accepting /\ s.request = "none"
  BY <1>1, <1>2 DEF Session
<1>4. s # NoSession
  BY <1>3, AbsenceAssumption
<1>5. /\ session'[k] = s
      /\ \A j \in Keys \ {k} : session'[j] = session[j]
      /\ TypedSession'
  BY <1>0, <1>1, <1>3 DEF TypedSession
<1>6. AgentOf(k) \in SUBSET AgentIds /\ \A a \in AgentOf(k) : agent[a] # NoAgent /\ agent[a].key = k
  BY DEF AgentOf
<1>7. /\ TypedAgent'
      /\ \A a \in AgentIds \ AgentOf(k) : agent'[a] = agent[a]
      /\ \A a \in AgentIds :
           IF agent[a] = NoAgent THEN agent'[a] = NoAgent
           ELSE /\ agent'[a] # NoAgent
                /\ agent'[a].key = agent[a].key
                /\ agent'[a].bound = agent[a].bound
                /\ agent'[a].works = agent[a].works
                /\ agent'[a].told <=> (agent[a].told \/ a \in AgentOf(k))
  BY <1>0, <1>6, TellFacts
<1>8. /\ manager' = manager /\ host' = host /\ pool' = pool /\ aborted' = aborted
      /\ durable' = durable /\ attempt' = attempt /\ captured' = captured
      /\ drained' = drained /\ receipt' = receipt
  BY DEF shutdownVars
<1>9. TypeOK'
  BY <1>5, <1>7, <1>8 DEF IInv, TypeOK, TypedSession, TypedAgent
<1>10. \A b \in AgentIds : agent'[b] # NoAgent =>
         /\ agent[b] # NoAgent /\ agent'[b].key = agent[b].key
         /\ agent'[b].bound = agent[b].bound /\ agent'[b].works = agent[b].works
         /\ agent[b].key # k => agent'[b] = agent[b]
  BY <1>6, <1>7
<1>11. OnlyAbout(k)
  BY <1>5, <1>6, <1>7, <1>8, <1>10 DEF OnlyAbout
<1>12. ASSUME NEW b \in AgentIds, agent'[b] # NoAgent, agent'[b].key = k
       PROVE  AgentInv(b)'
  <2>1. /\ agent[b] # NoAgent /\ agent[b].key = k /\ AgentInv(b)
        /\ agent'[b].bound = agent[b].bound /\ agent'[b].works = agent[b].works
    BY <1>10, <1>12 DEF IInv, PartsInv
  <2>2. agent'[b].told
    <3>1. CASE agent[b].told
      BY <1>7, <2>1, <3>1
    <3>2. CASE ~agent[b].told
      <4>1. b \in AgentOf(k)
        BY <2>1, <3>2 DEF AgentInv, AgentOf
      <4> QED BY <1>7, <2>1, <4>1
    <3> QED BY <3>1, <3>2
  <2>3. agent'[b].bound => k \in Children /\ child'[k] \notin {"new", "provisioning", "attaching"}
    BY <2>1 DEF AgentInv
  <2>4. OnPatch(b)' => agent'[b].bound /\ child'[k] \in {"parked", "lost"}
    BY <2>1, <2>3 DEF AgentInv, OnPatch
  <2> QED BY <1>12, <2>2, <2>3, <2>4 DEF AgentInv, Busy
<1>13. AgentsInv(k)'
  BY <1>12 DEF AgentsInv
<1>14. OneBoundAt(k)'
  BY <1>10 DEF IInv, OneBound, OneBoundAt
<1>15. SessionInv(k)'
  <2>1. k \in Children => child'[k] \in Bound \cup {"attaching", "reattaching", "parked"}
    BY <1>2 DEF SessionInv
  <2>2. manager' = "draining" => ~session[k].accepting
    BY <1>2, <1>8 DEF SessionInv
  <2> QED BY <1>3, <1>5, <2>1, <2>2 DEF SessionInv, Attaching
<1>16. k \in Children => ChildInv(k)'
  BY <1>8 DEF IInv, PartsInv, ChildInv, Active, Busy
<1>17. AttemptInv'
  <2>1. \A d \in Children : /\ child'[d] = "lost" => child[d] = "lost"
                            /\ child'[d] \in Active => child[d] \in Active
    BY DEF Active
  <2>2. \A j \in Keys : Quiet(j) => Quiet(j)'
    BY <1>3, <1>5 DEF Quiet
  <2>3. ~Closed
    BY DEF Closed
  <2> QED BY <1>8, <2>1, <2>2, <2>3, AttemptFrame
<1> QED BY <1>9, <1>11, <1>13, <1>14, <1>15, <1>16, <1>17, OneKeyStep

LEMMA TransportFailsStep ==
    ASSUME IInv, NEW k \in Keys, TransportFails(k)
    PROVE  IInv'
<1>1. /\ session[k] # NoSession /\ session[k].open
      /\ UNCHANGED <<host, pool, shutdownVars>>
      /\ session[k] \in Session /\ SessionInv(k)
  BY DEF TransportFails, IInv, PartsInv, TypeOK
<1>2. CASE /\ k = Main /\ session[k].attach \in {"hello", "binding"}
           /\ session' = [session EXCEPT ![k].open = FALSE, ![k].attach = "failed",
                                         ![k].queued = FALSE]
           /\ agent' = Told(AgentOf(k))
           /\ UNCHANGED <<childVars, manager>>
  <2>1. session[k].request = "none"
    BY <1>1, <1>2 DEF SessionInv, Attaching
  <2>2. [session[k] EXCEPT !.open = FALSE, !.attach = "failed", !.queued = FALSE]
        = [session[k] EXCEPT !.open = FALSE, !.attach = "failed",
                             !.queued = FALSE, !.request = "none"]
    BY <1>1, <2>1 DEF Session
  <2>3. session' = [session EXCEPT ![k] =
           [session[k] EXCEPT !.open = FALSE, !.attach = "failed",
                              !.queued = FALSE, !.request = "none"]]
    BY <1>2, <2>2 DEF IInv, TypeOK
  <2>4. /\ child' = child /\ child' \in [Children -> ChildStates]
        /\ UNCHANGED <<host, pool, aborted, durable, manager, shutdownVars>>
        /\ k \notin Children
    BY <1>1, <1>2, MainAssumption DEF childVars, IInv, TypeOK
  <2> QED BY <1>1, <1>2, <2>3, <2>4, CloseStep
<1>3. CASE /\ k \in Children /\ Return(k, FALSE)
           /\ session[k].attach \in {"hello", "binding"}
  <2>1. child[k] \in {"provisioning", "attaching", "ready", "planned", "reattaching"}
    BY <1>1, <1>3 DEF SessionInv, Attaching
  <2>2. FALSE \in BOOLEAN
    OBVIOUS
  <2> QED BY <1>1, <1>3, <2>1, <2>2, ReturnStep
<1>4. CASE /\ session' = [session EXCEPT ![k].open = FALSE, ![k].attach = "attached",
                                         ![k].queued = FALSE, ![k].request = "none"]
           /\ agent' = Told(AgentOf(k))
           /\ child' = IF k \in Children /\ child[k] \in Busy
                       THEN [child EXCEPT ![k] = "parked"] ELSE child
           /\ UNCHANGED <<aborted, durable, manager>>
  <2>1. session' = [session EXCEPT ![k] =
           [session[k] EXCEPT !.open = FALSE, !.attach = "attached",
                              !.queued = FALSE, !.request = "none"]]
    BY <1>4 DEF IInv, TypeOK
  <2>2. /\ child' \in [Children -> ChildStates]
        /\ \A d \in Children \ {k} : child'[d] = child[d]
        /\ k \in Children => child'[k] = IF child[k] \in Busy THEN "parked" ELSE child[k]
    BY <1>4 DEF IInv, TypeOK, ChildStates, Active
  <2>3. UNCHANGED <<host, pool, aborted, durable, manager, shutdownVars>>
    BY <1>1, <1>4
  <2> QED BY <1>1, <1>4, <2>1, <2>2, <2>3, CloseStep
<1> QED BY <1>2, <1>3, <1>4 DEF TransportFails

LEMMA AgentEndsStep ==
    ASSUME IInv, NEW a \in AgentIds, AgentEnds(a)
    PROVE  IInv'
<1>1. /\ agent[a] # NoAgent /\ agent[a].told
      /\ agent' = [agent EXCEPT ![a] = NoAgent]
      /\ host' = host /\ pool' = pool /\ child' = child /\ aborted' = aborted
      /\ durable' = durable /\ manager' = manager /\ session' = session
      /\ attempt' = attempt /\ captured' = captured /\ drained' = drained
      /\ receipt' = receipt
  BY DEF AgentEnds, childVars, shutdownVars
<1>2. PICK k \in Keys : k = agent[a].key
  BY <1>1 DEF IInv, TypeOK, Agent
<1>3. agent'[a] = NoAgent /\ \A b \in AgentIds \ {a} : agent'[b] = agent[b]
  BY <1>1 DEF IInv, TypeOK
<1>4. TypeOK'
  BY <1>1 DEF IInv, TypeOK
<1>5. OnlyAbout(k)
  BY <1>1, <1>2, <1>3 DEF OnlyAbout
<1>6. AgentsInv(k)'
  <2> SUFFICES ASSUME NEW b \in AgentIds, agent'[b] # NoAgent PROVE AgentInv(b)'
    BY DEF AgentsInv
  <2>1. agent'[b] = agent[b] /\ AgentInv(b)
    BY <1>3 DEF IInv, PartsInv
  <2> QED BY <1>1, <2>1 DEF AgentInv, OnPatch
<1>7. OneBoundAt(k)'
  BY <1>3 DEF IInv, OneBound, OneBoundAt
<1>8. SessionInv(k)'
  <2>1. SessionInv(k)
    BY DEF IInv, PartsInv
  <2>2. session[k] # NoSession /\ session[k].open =>
            agent'[session[k].agent] = agent[session[k].agent]
    <3>1. SUFFICES ASSUME session[k] # NoSession, session[k].open
                   PROVE  agent'[session[k].agent] = agent[session[k].agent]
      OBVIOUS
    <3>2. session[k].agent \in AgentIds
      BY <3>1 DEF IInv, TypeOK, Session
    <3>3. ~agent[session[k].agent].told
      BY <2>1, <3>1 DEF SessionInv
    <3> QED BY <1>1, <1>3, <3>2, <3>3
  <2> QED BY <1>1, <2>1, <2>2 DEF SessionInv
<1>9. k \in Children => ChildInv(k)'
  BY <1>1 DEF IInv, PartsInv, ChildInv
<1>10. AttemptInv'
  <2>1. \A j \in Keys : Quiet(j) => Quiet(j)'
    BY <1>1 DEF Quiet
  <2>2. Closed => Closed'
    BY <1>1, <1>3 DEF Closed
  <2> QED BY <1>1, <2>1, <2>2, AttemptFrame
<1> QED BY <1>4, <1>5, <1>6, <1>7, <1>8, <1>9, <1>10, OneKeyStep

-----------------------------------------------------------------------------
(* The shutdown, and the end of the process *)

LEMMA EnsurePoolStep ==
    ASSUME IInv, EnsurePool
    PROVE  IInv'
<1>1. /\ pool = "none" /\ pool' = "open"
      /\ receipt' # "completed" /\ receipt' \in {"none", "blocked", "completed"}
      /\ host' = host /\ child' = child /\ aborted' = aborted
      /\ durable' = durable /\ manager' = manager /\ session' = session
      /\ agent' = agent /\ attempt' = attempt /\ captured' = captured
      /\ drained' = drained
  BY DEF EnsurePool, Reset, childVars, backendVars, IInv, TypeOK
<1>2. TypeOK'
  BY <1>1 DEF IInv, TypeOK
<1>3. PartsInv' /\ OneBound'
  BY <1>1 DEF IInv, PartsInv, AgentInv, SessionInv, ChildInv, OneBound, OnPatch
<1>4. AttemptInv'
  <2>1. attempt # "none" => ~captured.pool
    BY <1>1 DEF IInv, AttemptInv
  <2>2. \A k \in Keys : Quiet(k)' = Quiet(k)
    BY <1>1 DEF Quiet
  <2> QED BY <1>1, <2>1, <2>2 DEF IInv, AttemptInv, TypeOK
<1> QED BY <1>2, <1>3, <1>4 DEF IInv

\* Steps that touch neither runners, sessions nor agents.
LEMMA PartsFrame ==
    ASSUME IInv, UNCHANGED <<child, durable, session, agent, manager>>
    PROVE  PartsInv' /\ OneBound'
BY DEF IInv, PartsInv, AgentInv, SessionInv, ChildInv, OneBound, OnPatch

LEMMA BeginShutdownStep ==
    ASSUME IInv, BeginShutdown
    PROVE  IInv'
<1>1. PICK settled \in SUBSET {c \in Children : child[c] = "blocked"} :
        /\ Clean \/ pool = "none" \/ settled = {}
        /\ child' = [c \in Children |-> IF c \in settled THEN "done" ELSE child[c]]
        /\ durable' = [c \in Children |-> IF c \in settled THEN "released"
                                                          ELSE durable[c]]
  BY DEF BeginShutdown
<1>2. /\ captured' = [pool |-> pool # "none", manager |-> manager # "none"]
      /\ pool' = IF pool = "none" THEN pool ELSE "stopped"
      /\ drained' = {}
      /\ attempt = "none" /\ receipt # "completed"
      /\ host' = host /\ manager' = manager /\ session' = session /\ agent' = agent
      /\ \/ /\ attempt' = "pool" /\ receipt' = "none"
            /\ aborted' \subseteq Children
            /\ pool # "none" => Clean
         \/ attempt' = "none" /\ receipt' = "blocked" /\ aborted' = aborted
  BY DEF BeginShutdown, backendVars, IInv, TypeOK
<1>3. TypeOK'
  <2>1. child' \in [Children -> ChildStates]
    BY <1>1 DEF IInv, TypeOK, ChildStates
  <2>2. durable' \in [Children -> {"none", "held", "released"}]
    BY <1>1 DEF IInv, TypeOK
  <2>3. captured' \in [pool : BOOLEAN, manager : BOOLEAN]
    BY <1>2
  <2>4. /\ attempt' \in {"none", "pool", "backends"}
        /\ receipt' \in {"none", "blocked", "completed"}
        /\ aborted' \subseteq Children
        /\ pool' \in {"none", "open", "stopped"}
    BY <1>2 DEF IInv, TypeOK
  <2> QED BY <1>2, <2>1, <2>2, <2>3, <2>4 DEF IInv, TypeOK
<1>4. \A c \in Children :
        \/ child'[c] = child[c] /\ durable'[c] = durable[c]
        \/ child[c] = "blocked" /\ child'[c] = "done" /\ durable'[c] = "released"
  BY <1>1
<1>5. ASSUME NEW a \in AgentIds, agent[a] # NoAgent PROVE AgentInv(a)'
  <2>1. AgentInv(a) /\ agent' = agent /\ session' = session
    BY <1>2 DEF IInv, PartsInv
  <2> QED BY <1>4, <1>5, <2>1 DEF AgentInv, OnPatch, Busy
<1>6. ASSUME NEW k \in Keys PROVE SessionInv(k)'
  <2>1. SessionInv(k) /\ agent' = agent /\ session' = session /\ manager' = manager
    BY <1>2 DEF IInv, PartsInv
  <2>2. session[k] # NoSession /\ k \in Children => child'[k] = child[k]
    BY <1>4, <2>1 DEF SessionInv, Bound, Busy
  <2> QED BY <2>1, <2>2 DEF SessionInv
<1>7. ASSUME NEW c \in Children PROVE ChildInv(c)'
  <2>1. ChildInv(c) /\ session' = session
    BY <1>2 DEF IInv, PartsInv
  <2> QED BY <1>4, <2>1 DEF ChildInv, Active, Busy
<1>8. PartsInv'
  BY <1>2, <1>5, <1>6, <1>7 DEF PartsInv, AgentInv
<1>9. OneBound'
  BY <1>2 DEF IInv, OneBound
<1>10. AttemptInv'
  <2>1. captured'.pool <=> pool # "none"
    BY <1>2
  <2>2. captured'.manager <=> manager # "none"
    BY <1>2
  <2>3. Clean => \A c \in Children : child'[c] # "lost"
    BY <1>4 DEF Clean
  <2> QED BY <1>2, <2>1, <2>2, <2>3 DEF AttemptInv
<1> QED BY <1>3, <1>8, <1>9, <1>10 DEF IInv

LEMMA PoolDrainedStep ==
    ASSUME IInv, PoolDrained
    PROVE  IInv'
<1>1. /\ attempt = "pool" /\ attempt' = "backends"
      /\ captured.pool => \A c \in Children : child[c] \notin Active
      /\ host' = host /\ pool' = pool /\ child' = child /\ aborted' = aborted
      /\ durable' = durable /\ agent' = agent /\ captured' = captured
      /\ drained' = drained /\ receipt' = receipt
  BY DEF PoolDrained, childVars, Running
<1>2. CASE ~captured.manager
  <2>1. manager' = manager /\ session' = session
    BY <1>2 DEF PoolDrained
  <2>2. TypeOK'
    BY <1>1, <2>1 DEF IInv, TypeOK
  <2>3. PartsInv' /\ OneBound'
    BY <1>1, <2>1, PartsFrame
  <2>4. AttemptInv'
    BY <1>1, <1>2, <2>1 DEF IInv, AttemptInv
  <2> QED BY <2>2, <2>3, <2>4 DEF IInv
<1>3. CASE captured.manager
  <2>1. /\ manager' = "draining"
        /\ session' = [k \in Keys |-> IF session[k] = NoSession THEN NoSession
                             ELSE [session[k] EXCEPT !.accepting = FALSE]]
    BY <1>3 DEF PoolDrained
  <2>2. ASSUME NEW k \in Keys
        PROVE  /\ session'[k] \in Session \cup {NoSession}
               /\ session[k] = NoSession => session'[k] = NoSession
               /\ session[k] # NoSession =>
                     /\ session'[k] # NoSession
                     /\ session'[k].agent = session[k].agent
                     /\ session'[k].attach = session[k].attach
                     /\ session'[k].open = session[k].open
                     /\ ~session'[k].accepting
                     /\ session'[k].request = session[k].request
    <3>1. CASE session[k] = NoSession
      BY <2>1, <3>1
    <3>2. CASE session[k] # NoSession
      <4>1. session[k] \in Session /\ session'[k] = [session[k] EXCEPT !.accepting = FALSE]
        BY <2>1, <3>2 DEF IInv, TypeOK
      <4>2. session'[k] \in Session
        BY <4>1 DEF Session
      <4>3. session'[k] # NoSession
        BY <4>2, AbsenceAssumption
      <4> QED BY <3>2, <4>1, <4>2, <4>3 DEF Session
    <3> QED BY <3>1, <3>2
  <2>3. session' \in [Keys -> Session \cup {NoSession}]
    BY <2>1, <2>2
  <2>4. TypeOK'
    BY <1>1, <2>1, <2>3 DEF IInv, TypeOK
  <2>5. ASSUME NEW a \in AgentIds, agent[a] # NoAgent PROVE AgentInv(a)'
    <3>1. AgentInv(a) /\ agent[a].key \in Keys
      BY <2>5 DEF IInv, PartsInv, TypeOK, Agent
    <3> QED BY <1>1, <2>2, <2>5, <3>1 DEF AgentInv, OnPatch
  <2>6. ASSUME NEW k \in Keys PROVE SessionInv(k)'
    <3>1. SessionInv(k)
      BY DEF IInv, PartsInv
    <3> QED BY <1>1, <2>2, <3>1 DEF SessionInv
  <2>7. ASSUME NEW c \in Children PROVE ChildInv(c)'
    <3>1. ChildInv(c) /\ c \in Keys
      BY DEF IInv, PartsInv, Keys
    <3> QED BY <1>1, <2>2, <3>1 DEF ChildInv
  <2>8. PartsInv'
    BY <1>1, <2>5, <2>6, <2>7 DEF PartsInv, AgentInv
  <2>9. OneBound'
    BY <1>1 DEF IInv, OneBound
  <2>10. AttemptInv'
    <3>1. AttemptInv /\ drained = {}
      BY <1>1 DEF IInv, AttemptInv
    <3> QED BY <1>1, <1>3, <2>1, <3>1 DEF AttemptInv
  <2> QED BY <2>4, <2>8, <2>9, <2>10 DEF IInv
<1> QED BY <1>2, <1>3

LEMMA SessionDrainedStep ==
    ASSUME IInv, NEW k \in Keys, SessionDrained(k)
    PROVE  IInv'
<1>1. /\ attempt = "backends" /\ Quiet(k)
      /\ drained' = drained \cup {k}
      /\ host' = host /\ pool' = pool /\ child' = child /\ aborted' = aborted
      /\ durable' = durable /\ manager' = manager /\ session' = session
      /\ agent' = agent /\ attempt' = attempt /\ captured' = captured
      /\ receipt' = receipt
  BY DEF SessionDrained, childVars, backendVars
<1>2. TypeOK'
  BY <1>1 DEF IInv, TypeOK
<1>3. PartsInv' /\ OneBound'
  BY <1>1, PartsFrame
<1>4. AttemptInv'
  <2>1. \A j \in Keys : Quiet(j)' = Quiet(j)
    BY <1>1 DEF Quiet
  <2> QED BY <1>1, <2>1 DEF IInv, AttemptInv, TypeOK
<1> QED BY <1>2, <1>3, <1>4 DEF IInv

LEMMA ShutdownTimesOutStep ==
    ASSUME IInv, ShutdownTimesOut
    PROVE  IInv'
<1>1. /\ attempt' = "none" /\ receipt' = "blocked"
      /\ host' = host /\ pool' = pool /\ child' = child /\ aborted' = aborted
      /\ durable' = durable /\ manager' = manager /\ session' = session
      /\ agent' = agent /\ captured' = captured /\ drained' = drained
  BY DEF ShutdownTimesOut, childVars, backendVars
<1>2. TypeOK'
  BY <1>1 DEF IInv, TypeOK
<1>3. PartsInv' /\ OneBound'
  BY <1>1, PartsFrame
<1>4. AttemptInv'
  BY <1>1 DEF AttemptInv
<1> QED BY <1>2, <1>3, <1>4 DEF IInv

\* Every session gone, and no untold agent among those that still run.
LEMMA CompleteShutdownStep ==
    ASSUME IInv, CompleteShutdown
    PROVE  IInv'
<1>1. /\ attempt = "backends" /\ attempt' = "none" /\ receipt' = "completed"
      /\ captured.manager => drained = Keys
      /\ pool' = IF captured.pool THEN "none" ELSE pool
      /\ host' = host /\ child' = child /\ aborted' = aborted
      /\ durable' = durable /\ captured' = captured /\ drained' = drained
  BY DEF CompleteShutdown, childVars
<1>2. captured.pool => \A c \in Children : child[c] \notin Active \cup {"lost"}
  BY <1>1 DEF IInv, AttemptInv
<1>3. CASE ~captured.manager
  <2>1. manager' = manager /\ session' = session /\ agent' = agent
    BY <1>3 DEF CompleteShutdown, backendVars
  <2>2. TypeOK'
    BY <1>1, <2>1 DEF IInv, TypeOK
  <2>3. PartsInv' /\ OneBound'
    BY <1>1, <2>1, PartsFrame
  <2>4. AttemptInv'
    BY <1>1, <1>2, <1>3 DEF AttemptInv
  <2> QED BY <2>2, <2>3, <2>4 DEF IInv
<1>4. CASE captured.manager
  <2>0. TypedSession /\ TypedAgent
    BY DEF IInv, TypeOK, TypedSession, TypedAgent
  <2>1. PICK ids : ids = UNION {AgentOf(k) : k \in Keys}
    OBVIOUS
  <2>2. /\ manager' = "none"
        /\ session' = [k \in Keys |-> NoSession]
        /\ agent' = Told(ids)
    BY <1>4, <2>1 DEF CompleteShutdown
  <2>3. ids \in SUBSET AgentIds /\ \A a \in ids : agent[a] # NoAgent
    BY <2>1 DEF AgentOf
  <2>4. /\ TypedAgent'
        /\ \A a \in AgentIds :
             IF agent[a] = NoAgent THEN agent'[a] = NoAgent
             ELSE /\ agent'[a] # NoAgent
                  /\ agent'[a].key = agent[a].key
                  /\ agent'[a].bound = agent[a].bound
                  /\ agent'[a].works = agent[a].works
                  /\ agent'[a].told <=> (agent[a].told \/ a \in ids)
    BY <2>0, <2>2, <2>3, TellFacts
  <2>5. \A k \in Keys : session'[k] = NoSession
    BY <2>2
  <2>6. TypeOK'
    BY <1>1, <2>2, <2>4 DEF IInv, TypeOK, TypedAgent
  <2>7. \A k \in Keys : Quiet(k)
    BY <1>1, <1>4 DEF IInv, AttemptInv
  <2>8. \A c \in Children : child[c] \notin Busy
    <3>1. \A c \in Children : ChildInv(c) /\ c \in Keys
      BY DEF IInv, PartsInv, Keys
    <3> QED BY <2>7, <3>1 DEF ChildInv, Quiet
  <2>9. ASSUME NEW a \in AgentIds, agent'[a] # NoAgent PROVE AgentInv(a)' /\ agent'[a].told
    <3>1. /\ agent[a] # NoAgent /\ AgentInv(a) /\ agent[a].key \in Keys
          /\ agent'[a].key = agent[a].key
          /\ agent'[a].bound = agent[a].bound
          /\ agent'[a].works = agent[a].works
          /\ agent'[a].told <=> (agent[a].told \/ a \in ids)
      BY <2>4, <2>9 DEF IInv, PartsInv, TypeOK, Agent
    <3>2. ~agent[a].told => a \in AgentOf(agent[a].key)
      BY <3>1 DEF AgentInv, AgentOf
    <3>3. agent'[a].told
      BY <2>1, <3>1, <3>2
    <3>4. OnPatch(a)' => /\ agent'[a].bound
                         /\ child'[agent'[a].key] \in {"parked", "lost"}
      BY <1>1, <2>8, <3>1 DEF AgentInv, OnPatch
    <3>5. agent'[a].bound => /\ agent'[a].key \in Children
                             /\ child'[agent'[a].key] \notin {"new", "provisioning", "attaching"}
      BY <1>1, <3>1 DEF AgentInv
    <3> QED BY <3>3, <3>4, <3>5 DEF AgentInv, Busy
  <2>10. \A k \in Keys : SessionInv(k)'
    BY <2>5 DEF SessionInv
  <2>11. ASSUME NEW c \in Children PROVE ChildInv(c)'
    <3>1. ChildInv(c) /\ child[c] \notin Busy
      BY <2>8 DEF IInv, PartsInv
    <3> QED BY <1>1, <3>1 DEF ChildInv
  <2>12. PartsInv'
    BY <2>9, <2>10, <2>11 DEF PartsInv, AgentInv
  <2>13. OneBound'
    BY <2>4 DEF IInv, OneBound
  <2>14. AttemptInv'
    BY <1>1, <1>2, <2>2, <2>5, <2>9 DEF AttemptInv
  <2> QED BY <2>6, <2>12, <2>13, <2>14 DEF IInv
<1> QED BY <1>3, <1>4

LEMMA HostEndsStep ==
    ASSUME IInv, HostEnds
    PROVE  IInv'
<1>0. TypedSession /\ TypedAgent
  BY DEF IInv, TypeOK, TypedSession, TypedAgent
<1>1. PICK ids : ids = {a \in AgentIds : agent[a] # NoAgent}
  OBVIOUS
<1>2. /\ host' = "down" /\ pool' = "none" /\ aborted' = {} /\ manager' = "none"
      /\ child' = [c \in Children |-> IF child[c] \in Active THEN "lost" ELSE child[c]]
      /\ session' = [k \in Keys |-> NoSession]
      /\ agent' = Told(ids)
      /\ attempt' = "none" /\ captured' = [pool |-> FALSE, manager |-> FALSE]
      /\ drained' = {} /\ receipt' = "none" /\ durable' = durable
  BY <1>1 DEF HostEnds, Running
<1>3. ids \in SUBSET AgentIds /\ \A a \in ids : agent[a] # NoAgent
  BY <1>1
<1>4. /\ TypedAgent'
      /\ \A a \in AgentIds :
           IF agent[a] = NoAgent THEN agent'[a] = NoAgent
           ELSE /\ agent'[a] # NoAgent
                /\ agent'[a].key = agent[a].key
                /\ agent'[a].bound = agent[a].bound
                /\ agent'[a].works = agent[a].works
                /\ agent'[a].told <=> (agent[a].told \/ a \in ids)
  BY <1>0, <1>2, <1>3, TellFacts
<1>5. TypeOK'
  <2>1. child' \in [Children -> ChildStates]
    BY <1>2 DEF IInv, TypeOK, ChildStates
  <2> QED BY <1>2, <1>4, <2>1 DEF IInv, TypeOK, TypedAgent
<1>6. \A c \in Children : child'[c] = IF child[c] \in Active THEN "lost" ELSE child[c]
  BY <1>2
<1>7. ASSUME NEW a \in AgentIds, agent'[a] # NoAgent PROVE AgentInv(a)'
  <2>1. /\ AgentInv(a) /\ agent[a] # NoAgent
        /\ agent'[a].key = agent[a].key /\ agent'[a].bound = agent[a].bound
        /\ agent'[a].works = agent[a].works
        /\ agent'[a].told
    BY <1>1, <1>4, <1>7 DEF IInv, PartsInv
  <2>2. agent'[a].bound => /\ agent'[a].key \in Children
                           /\ child'[agent'[a].key] \notin {"new", "provisioning", "attaching"}
    BY <1>6, <2>1 DEF AgentInv
  <2>3. OnPatch(a)' => agent'[a].bound /\ child'[agent'[a].key] = "lost"
    BY <1>6, <2>1 DEF AgentInv, OnPatch, Active
  <2> QED BY <2>1, <2>2, <2>3 DEF AgentInv, Busy
<1>8. \A k \in Keys : SessionInv(k)'
  BY <1>2 DEF SessionInv
<1>9. ASSUME NEW c \in Children PROVE ChildInv(c)'
  <2>1. ChildInv(c)
    BY DEF IInv, PartsInv
  <2> QED BY <1>2, <1>6, <2>1 DEF ChildInv, Active, Busy
<1>10. PartsInv'
  BY <1>7, <1>8, <1>9 DEF PartsInv, AgentInv
<1>11. OneBound'
  BY <1>4 DEF IInv, OneBound
<1>12. AttemptInv'
  BY <1>2 DEF AttemptInv
<1> QED BY <1>5, <1>10, <1>11, <1>12 DEF IInv

LEMMA HostStartsStep ==
    ASSUME IInv, HostStarts
    PROVE  IInv'
<1>1. /\ host' = "up"
      /\ pool' = pool /\ child' = child /\ aborted' = aborted
      /\ durable' = durable /\ manager' = manager /\ session' = session
      /\ agent' = agent /\ attempt' = attempt /\ captured' = captured
      /\ drained' = drained /\ receipt' = receipt
  BY DEF HostStarts, childVars, backendVars, shutdownVars
<1>2. TypeOK'
  BY <1>1 DEF IInv, TypeOK
<1>3. PartsInv' /\ OneBound' /\ AttemptInv'
  BY <1>1 DEF IInv, PartsInv, AgentInv, SessionInv, ChildInv, OneBound,
              AttemptInv, OnPatch, Quiet
<1> QED BY <1>2, <1>3 DEF IInv

-----------------------------------------------------------------------------
(* The theorems *)

LEMMA InitInv == Init => IInv
<1> SUFFICES ASSUME Init PROVE IInv
  OBVIOUS
<1>1. TypeOK
  BY DEF Init, TypeOK, ChildStates
<1>2. PartsInv
  BY DEF Init, PartsInv, AgentInv, SessionInv, ChildInv, Active, Busy, Keys
<1>3. OneBound /\ AttemptInv
  BY DEF Init, OneBound, AttemptInv
<1> QED BY <1>1, <1>2, <1>3 DEF IInv

LEMMA ChildStepInv ==
    ASSUME IInv, NEW c \in Children, ChildStep(c)
    PROVE  IInv'
<1>1. CASE Launch(c)
  BY <1>1, LaunchStep
<1>2. CASE Interrupt(c)
  BY <1>2, InterruptStep
<1>3. CASE ProvisioningFails(c)
  <2>1. PICK proved \in BOOLEAN : Return(c, proved)
    BY <1>3 DEF ProvisioningFails
  <2>2. child[c] = "provisioning" /\ UNCHANGED <<host, pool, shutdownVars>>
    BY <1>3 DEF ProvisioningFails
  <2> QED BY <2>1, <2>2, ReturnStep
<1>4. CASE PlanPatch(c) \/ ApplyPatch(c)
  BY <1>4, PatchRequestStep
<1>5. CASE RefusedUnbound(c)
  <2>1. PICK proved \in BOOLEAN : Return(c, proved)
    <3>1. session[c].open \in BOOLEAN
      BY <1>5 DEF RefusedUnbound, Usable, IInv, TypeOK, Session, Keys
    <3> QED BY <1>5, <3>1 DEF RefusedUnbound
  <2>2. child[c] = "reattaching" /\ UNCHANGED <<host, pool, shutdownVars>>
    BY <1>5 DEF RefusedUnbound
  <2> QED BY <2>1, <2>2, ReturnStep
<1>6. CASE RunnerReturns(c)
  <2>1. PICK proved \in BOOLEAN : Return(c, proved)
    BY <1>6 DEF RunnerReturns
  <2>2. child[c] \in {"ready", "planned"} /\ UNCHANGED <<host, pool, shutdownVars>>
    BY <1>6 DEF RunnerReturns
  <2> QED BY <2>1, <2>2, ReturnStep
<1>7. CASE CancelAcknowledged(c)
  BY <1>7, CancelAcknowledgedStep
<1>8. CASE GiveUp(c)
  BY <1>8, GiveUpStep
<1>9. CASE RetrySettlement(c) \/ Reconcile(c)
  BY <1>9, SettledStep
<1>10. CASE \E a \in AgentIds : AttachWorker(c, a) \/ Reattach(c, a)
  BY <1>10, AttachSteps
<1> QED BY <1>1, <1>2, <1>3, <1>4, <1>5, <1>6, <1>7, <1>8, <1>9, <1>10 DEF ChildStep

LEMMA SessionStepInv ==
    ASSUME IInv, NEW k \in Keys, SessionStep(k)
    PROVE  IInv'
BY AttachAnsweredStep, AnsweredStep, TransportFailsStep, SessionDrainedStep
   DEF SessionStep

LEMMA NextInv == IInv /\ [Next]_vars => IInv'
<1> SUFFICES ASSUME IInv, [Next]_vars PROVE IInv'
  OBVIOUS
<1>1. CASE EnsurePool
  BY <1>1, EnsurePoolStep
<1>2. CASE \E c \in Children : ChildStep(c)
  BY <1>2, ChildStepInv
<1>3. CASE RequestMain
  BY <1>3, RequestMainStep
<1>4. CASE \E k \in Keys : SessionStep(k)
  BY <1>4, SessionStepInv
<1>5. CASE \E a \in AgentIds : AttachMain(a) \/ AgentEnds(a)
  BY <1>5, AttachSteps, AgentEndsStep
<1>6. CASE BeginShutdown
  BY <1>6, BeginShutdownStep
<1>7. CASE PoolDrained
  BY <1>7, PoolDrainedStep
<1>8. CASE CompleteShutdown
  BY <1>8, CompleteShutdownStep
<1>9. CASE ShutdownTimesOut
  BY <1>9, ShutdownTimesOutStep
<1>10. CASE HostEnds
  BY <1>10, HostEndsStep
<1>11. CASE HostStarts
  BY <1>11, HostStartsStep
<1>12. CASE UNCHANGED vars
  <2>1. /\ host' = host /\ pool' = pool /\ child' = child /\ aborted' = aborted
        /\ durable' = durable /\ manager' = manager /\ session' = session
        /\ agent' = agent /\ attempt' = attempt /\ captured' = captured
        /\ drained' = drained /\ receipt' = receipt
    BY <1>12 DEF vars
  <2>2. TypeOK'
    BY <2>1 DEF IInv, TypeOK
  <2>3. PartsInv' /\ OneBound' /\ AttemptInv'
    BY <2>1 DEF IInv, PartsInv, AgentInv, SessionInv, ChildInv, OneBound,
                AttemptInv, OnPatch, Quiet
  <2> QED BY <2>2, <2>3 DEF IInv
<1> QED BY <1>1, <1>2, <1>3, <1>4, <1>5, <1>6, <1>7, <1>8, <1>9, <1>10, <1>11,
           <1>12 DEF Next

LEMMA Invariance == Spec => []IInv
BY InitInv, NextInv, PTL DEF Spec

\* The variables keep their types, for any workers and agents.
THEOREM TypeCorrect == Spec => []TypeOK
<1>1. IInv => TypeOK
  BY DEF IInv
<1> QED BY <1>1, Invariance, PTL

\* A worktree has one custodian, for any number of workers and of agent
\* processes, the dying ones included, through cancellations, re-attachments,
\* shutdowns and restarts of the host.
THEOREM CustodyIsSingle == Spec => []WorktreeCustody
<1>1. IInv => WorktreeCustody
  <2> SUFFICES ASSUME IInv, NEW a \in AgentIds, agent[a] # NoAgent
               PROVE  /\ agent[a].works \in {"plan", "apply"} =>
                            agent[a].bound /\ durable[agent[a].key] = "held"
                      /\ agent[a].bound => \A b \in AgentIds \ {a} :
                            ~(agent[b] # NoAgent /\ agent[b].key = agent[a].key /\ agent[b].bound)
    BY DEF WorktreeCustody
  <2>1. AgentInv(a)
    BY DEF IInv, PartsInv
  <2>2. ASSUME agent[a].works \in {"plan", "apply"}
        PROVE  agent[a].bound /\ durable[agent[a].key] = "held"
    <3>1. /\ agent[a].bound /\ agent[a].key \in Children
          /\ child[agent[a].key] \in Busy \cup {"parked", "lost"}
      BY <2>1, <2>2 DEF AgentInv, OnPatch
    <3>2. ChildInv(agent[a].key)
      BY <3>1 DEF IInv, PartsInv
    <3> QED BY <3>1, <3>2 DEF ChildInv, Active
  <2>3. agent[a].bound => \A b \in AgentIds \ {a} :
            ~(agent[b] # NoAgent /\ agent[b].key = agent[a].key /\ agent[b].bound)
    BY DEF IInv, OneBound
  <2> QED BY <2>2, <2>3
<1> QED BY <1>1, Invariance, PTL

\* A completed receipt is true of the parts its attempt found, until a part is
\* made anew.
THEOREM ReceiptIsTrue == Spec => []CompletedMeansQuiet
<1>1. IInv => CompletedMeansQuiet
  <2> SUFFICES ASSUME IInv, receipt = "completed"
               PROVE  /\ captured.pool => /\ \A c \in Children : ~Running(c)
                                          /\ \A c \in Children : durable[c] # "held"
                      /\ captured.manager => \A a \in AgentIds :
                                                agent[a] # NoAgent => agent[a].told
    BY DEF CompletedMeansQuiet
  <2>1. captured.pool => \A c \in Children : child[c] \notin Active \cup {"lost"}
    BY DEF IInv, AttemptInv
  <2>2. \A c \in Children : ChildInv(c)
    BY DEF IInv, PartsInv
  <2>3. captured.pool => \A c \in Children : ~Running(c) /\ durable[c] # "held"
    BY <2>1, <2>2 DEF ChildInv, Running
  <2>4. captured.manager => \A a \in AgentIds : agent[a] # NoAgent => agent[a].told
    BY DEF IInv, AttemptInv
  <2> QED BY <2>3, <2>4
<1> QED BY <1>1, Invariance, PTL

\* The ordered path disposes backends only when no session, whenever its drain
\* was answered, has anything pending, and when no child is active.
THEOREM DisposalQuiet == Spec => DisposalIsQuiet
<1>1. IInv /\ [Next]_vars =>
        [(attempt = "backends" /\ receipt' = "completed") =>
            /\ captured.manager => \A k \in Keys : Quiet(k)
            /\ captured.pool => \A c \in Children : ~Running(c)]_vars
  <2> SUFFICES ASSUME IInv, [Next]_vars, attempt = "backends", receipt' = "completed"
               PROVE  /\ captured.manager => \A k \in Keys : Quiet(k)
                      /\ captured.pool => \A c \in Children : ~Running(c)
    OBVIOUS
  <2>1. receipt # "completed"
    BY DEF IInv, AttemptInv
  <2>2. CompleteShutdown
    <3>1. CASE \E c \in Children : ChildStep(c)
      BY <2>1, <3>1 DEF ChildStep, Launch, Interrupt, ProvisioningFails, PlanPatch,
         ApplyPatch, Sends, RefusedUnbound, RunnerReturns, CancelAcknowledged, GiveUp,
         RetrySettlement, Reconcile, AttachWorker, Reattach, EnsureManager, Reset,
         shutdownVars
    <3>2. CASE \E k \in Keys : SessionStep(k)
      BY <2>1, <3>2 DEF SessionStep, AttachAnswered, Answered, TransportFails,
         SessionDrained, shutdownVars
    <3>3. CASE \E a \in AgentIds : AttachMain(a) \/ AgentEnds(a)
      BY <2>1, <3>3 DEF AttachMain, AgentEnds, EnsureManager, Reset, shutdownVars
    <3>4. CASE EnsurePool \/ RequestMain \/ HostStarts
      BY <2>1, <3>4 DEF EnsurePool, Reset, RequestMain, HostStarts, shutdownVars
    <3>5. CASE BeginShutdown \/ PoolDrained \/ ShutdownTimesOut \/ HostEnds
      BY <2>1, <3>5 DEF BeginShutdown, PoolDrained, ShutdownTimesOut, HostEnds
    <3>6. CASE UNCHANGED vars
      BY <2>1, <3>6 DEF vars
    <3> QED BY <3>1, <3>2, <3>3, <3>4, <3>5, <3>6 DEF Next
  <2>3. captured.manager => drained = Keys
    BY <2>2 DEF CompleteShutdown
  <2> QED BY <2>3 DEF IInv, AttemptInv, Running
<1> QED BY <1>1, Invariance, PTL DEF Spec, DisposalIsQuiet

-----------------------------------------------------------------------------
(* The custody contract *)

\* What a step may make of a runner and its row: a launch opens the row, an
\* end that the registry takes releases it, everything in between holds it.
Fate(c) ==
    \/ child'[c] = child[c] /\ durable'[c] = durable[c]
    \/ child[c] = "new" /\ child'[c] \in Active /\ durable'[c] = "held"
    \/ /\ child[c] \in Active
       /\ child'[c] \in Active \cup {"lost"}
       /\ durable'[c] = durable[c]
    \/ /\ child[c] \in Active \cup {"lost"}
       /\ child'[c] = "done"
       /\ durable'[c] = "released"

LEMMA EndFate ==
    ASSUME IInv, NEW c \in Children, NEW d \in Children, child[d] \in Active,
           Settle(d) \/ \E proved \in BOOLEAN : End(d, proved)
    PROVE  Fate(c)
<1>1. child \in [Children -> ChildStates] /\ durable \in [Children -> {"none", "held", "released"}]
  BY DEF IInv, TypeOK
<1> QED BY <1>1 DEF Settle, End, Fate, Active

LEMMA ChildFate ==
    ASSUME IInv, NEW c \in Children, NEW d \in Children, ChildStep(d)
    PROVE  Fate(c)
<1>1. child \in [Children -> ChildStates] /\ durable \in [Children -> {"none", "held", "released"}]
  BY DEF IInv, TypeOK
<1>2. CASE Launch(d) \/ Interrupt(d) \/ PlanPatch(d) \/ ApplyPatch(d) \/ GiveUp(d)
  BY <1>1, <1>2 DEF Launch, Interrupt, PlanPatch, ApplyPatch, Sends, GiveUp, Fate, Active, Busy
<1>3. CASE ProvisioningFails(d) \/ RefusedUnbound(d) \/ RunnerReturns(d)
  <2>1. child[d] \in Active
    BY <1>3 DEF ProvisioningFails, RefusedUnbound, RunnerReturns, Active
  <2>2. \E proved \in BOOLEAN : Return(d, proved)
    <3>1. CASE RefusedUnbound(d)
      <4>1. session[d].open \in BOOLEAN
        BY <3>1 DEF RefusedUnbound, Usable, IInv, TypeOK, Session, Keys
      <4> QED BY <3>1, <4>1 DEF RefusedUnbound
    <3> QED BY <1>3, <3>1 DEF ProvisioningFails, RunnerReturns
  <2> QED BY <2>1, <2>2, EndFate DEF Return
<1>4. CASE CancelAcknowledged(d)
  <2>1. child[d] \in Active /\ Settle(d)
    BY <1>4 DEF CancelAcknowledged, Active
  <2> QED BY <2>1, EndFate
<1>5. CASE RetrySettlement(d) \/ Reconcile(d)
  BY <1>1, <1>5 DEF RetrySettlement, Reconcile, Fate, Active
<1>6. CASE \E a \in AgentIds : AttachWorker(d, a) \/ Reattach(d, a)
  BY <1>1, <1>6 DEF AttachWorker, Reattach, Fate, Active
<1> QED BY <1>2, <1>3, <1>4, <1>5, <1>6 DEF ChildStep

LEMMA SessionFate ==
    ASSUME IInv, NEW c \in Children, NEW k \in Keys, SessionStep(k)
    PROVE  Fate(c)
<1>1. child \in [Children -> ChildStates] /\ durable \in [Children -> {"none", "held", "released"}]
  BY DEF IInv, TypeOK
<1>2. SessionInv(k)
  BY DEF IInv, PartsInv
<1>3. CASE SessionDrained(k)
  BY <1>3 DEF SessionDrained, childVars, Fate
<1>4. CASE AttachAnswered(k)
  <2>1. k \in Children /\ session[k].attach = "binding" => child[k] = "attaching"
    BY <1>2, <1>4 DEF AttachAnswered, SessionInv
  <2> QED BY <1>1, <1>4, <2>1 DEF AttachAnswered, Fate, Active
<1>5. CASE Answered(k)
  <2>1. durable' = durable /\ \A d \in Children \ {k} : child'[d] = child[d]
    BY <1>1, <1>5 DEF Answered
  <2>2. k \in Children => \/ child'[k] = child[k]
                          \/ child[k] \in Busy /\ child'[k] \in {"planned", "ready"}
    <3> SUFFICES ASSUME k \in Children
                 PROVE  \/ child'[k] = child[k]
                        \/ child[k] \in Busy /\ child'[k] \in {"planned", "ready"}
      OBVIOUS
    <3>1. child'[k] = CASE child[k] = "planning" -> "planned"
                        [] child[k] = "applying" -> "ready"
                        [] OTHER -> child[k]
      BY <1>1, <1>5, MainAssumption DEF Answered
    <3> QED BY <3>1 DEF Busy
  <2>3. \/ child'[c] = child[c]
        \/ child[c] \in Busy /\ child'[c] \in {"planned", "ready"}
    BY <2>1, <2>2
  <2> QED BY <2>1, <2>3 DEF Fate, Active
<1>6. CASE TransportFails(k)
  <2>1. CASE k \in Children /\ Return(k, FALSE)
    <3>1. child[k] \in Active
      BY <1>2, <1>6, <2>1 DEF TransportFails, SessionInv, Bound, Active
    <3> QED BY <2>1, <3>1, EndFate DEF Return
  <2>2. CASE ~(k \in Children /\ Return(k, FALSE))
    BY <1>1, <1>6, <2>2 DEF TransportFails, childVars, Fate, Active
  <2> QED BY <2>1, <2>2
<1> QED BY <1>3, <1>4, <1>5, <1>6 DEF SessionStep

LEMMA StepFate ==
    ASSUME IInv, [Next]_vars, NEW c \in Children
    PROVE  Fate(c)
<1>1. child \in [Children -> ChildStates] /\ durable \in [Children -> {"none", "held", "released"}]
  BY DEF IInv, TypeOK
<1>2. CASE \E d \in Children : ChildStep(d)
  BY <1>2, ChildFate
<1>3. CASE \E k \in Keys : SessionStep(k)
  BY <1>3, SessionFate
<1>4. CASE BeginShutdown
  <2>1. PICK settled \in SUBSET {d \in Children : child[d] = "blocked"} :
           /\ child' = [d \in Children |-> IF d \in settled THEN "done" ELSE child[d]]
           /\ durable' = [d \in Children |-> IF d \in settled THEN "released"
                                                            ELSE durable[d]]
    BY <1>4 DEF BeginShutdown
  <2> QED BY <1>1, <2>1 DEF Fate, Active
<1>5. CASE HostEnds
  BY <1>1, <1>5 DEF HostEnds, Running, Fate
<1>6. CASE \/ EnsurePool \/ RequestMain \/ PoolDrained \/ CompleteShutdown
         \/ ShutdownTimesOut \/ HostStarts \/ UNCHANGED vars
         \/ \E a \in AgentIds : AttachMain(a) \/ AgentEnds(a)
  <2>1. child' = child /\ durable' = durable
    BY <1>6 DEF EnsurePool, RequestMain, PoolDrained, CompleteShutdown, ShutdownTimesOut,
                HostStarts, vars, AttachMain, AgentEnds, childVars
  <2> QED BY <2>1 DEF Fate
<1> QED BY <1>2, <1>3, <1>4, <1>5, <1>6 DEF Next

\* Nobody takes up a patch: an agent keeps its key and its work or drops it.
NobodyStarts ==
    \A a \in AgentIds : agent'[a] # NoAgent =>
        \/ agent'[a].works \in {"none", "other"}
        \/ /\ agent[a] # NoAgent
           /\ agent'[a].key = agent[a].key
           /\ agent'[a].works = agent[a].works

LEMMA SameStarts == ASSUME UNCHANGED agent PROVE NobodyStarts
BY DEF NobodyStarts

LEMMA TellStarts ==
    ASSUME IInv, NEW ids \in SUBSET AgentIds, \A a \in ids : agent[a] # NoAgent,
           agent' = Told(ids)
    PROVE  NobodyStarts
<1>1. TypedAgent
  BY DEF IInv, TypeOK, TypedAgent
<1> QED BY <1>1, TellFacts DEF NobodyStarts

LEMMA AgentOfExists ==
    ASSUME NEW k \in Keys
    PROVE  AgentOf(k) \in SUBSET AgentIds /\ \A a \in AgentOf(k) : agent[a] # NoAgent
BY DEF AgentOf

LEMMA ReturnStarts ==
    ASSUME IInv, NEW c \in Children, NEW proved \in BOOLEAN, Return(c, proved)
    PROVE  NobodyStarts
<1>1. c \in Keys /\ agent' = Told(AgentOf(c))
  BY DEF Return, DisposeForProject, Keys
<1> QED BY <1>1, AgentOfExists, TellStarts

LEMMA SpawnStarts ==
    ASSUME IInv, NEW k \in Keys, NEW a \in AgentIds, Spawn(k, a)
    PROVE  NobodyStarts
<1>1. TypedAgent /\ TypedSession
  BY DEF IInv, TypeOK, TypedAgent, TypedSession
<1> QED BY <1>1, SpawnFacts DEF NobodyStarts

LEMMA CarriesStarts ==
    ASSUME IInv, NEW k \in Keys, NEW what \in {"none", "other"},
           session[k] # NoSession, session[k].open, Carries(k, what)
    PROVE  NobodyStarts
<1>1. TypedAgent /\ TypedSession
  BY DEF IInv, TypeOK, TypedAgent, TypedSession
<1>2. agent[session[k].agent] # NoAgent
  BY DEF IInv, PartsInv, SessionInv
<1>3. /\ agent'[session[k].agent].works = what
      /\ \A b \in AgentIds \ {session[k].agent} : agent'[b] = agent[b]
  BY <1>1, <1>2, CarriesFacts
<1> QED BY <1>3 DEF NobodyStarts

\* The only step after which more agents are at work on a patch than before is
\* a request of a runner that stands between two requests.
LEMMA ChildStarts ==
    ASSUME IInv, NEW d \in Children, ChildStep(d)
    PROVE  \/ NobodyStarts
           \/ /\ child[d] \in {"ready", "planned"}
              /\ \A a \in AgentIds : \/ agent'[a] = agent[a]
                                     \/ agent'[a] # NoAgent /\ agent'[a].key = d
<1>0. TypedAgent /\ TypedSession /\ d \in Keys
  BY DEF IInv, TypeOK, TypedAgent, TypedSession, Keys
<1>1. CASE \/ Launch(d) \/ Interrupt(d) \/ GiveUp(d) \/ RetrySettlement(d) \/ Reconcile(d)
  <2>1. UNCHANGED agent
    BY <1>1 DEF Launch, Interrupt, GiveUp, RetrySettlement, Reconcile, backendVars
  <2> QED BY <2>1, SameStarts
<1>2. CASE PlanPatch(d) \/ ApplyPatch(d)
  <2>1. PICK what \in {"plan", "apply"} : Carries(d, what)
    BY <1>2 DEF PlanPatch, ApplyPatch, Sends
  <2>2. /\ child[d] \in {"ready", "planned"}
        /\ session[d] # NoSession /\ session[d].open
    BY <1>2 DEF PlanPatch, ApplyPatch, Sends, Usable
  <2>3. agent[session[d].agent] # NoAgent /\ agent[session[d].agent].key = d
    BY <1>0, <2>2 DEF IInv, PartsInv, SessionInv
  <2>4. /\ agent'[session[d].agent] # NoAgent
        /\ agent'[session[d].agent].key = d
        /\ \A b \in AgentIds \ {session[d].agent} : agent'[b] = agent[b]
    BY <1>0, <2>1, <2>2, <2>3, CarriesFacts
  <2> QED BY <2>2, <2>4
<1>3. CASE ProvisioningFails(d) \/ RefusedUnbound(d) \/ RunnerReturns(d)
  <2>1. \E proved \in BOOLEAN : Return(d, proved)
    <3>1. CASE RefusedUnbound(d)
      <4>1. session[d].open \in BOOLEAN
        BY <3>1 DEF RefusedUnbound, Usable, IInv, TypeOK, Session, Keys
      <4> QED BY <3>1, <4>1 DEF RefusedUnbound
    <3> QED BY <1>3, <3>1 DEF ProvisioningFails, RunnerReturns
  <2> QED BY <2>1, ReturnStarts
<1>4. CASE CancelAcknowledged(d)
  <2>1. session[d] # NoSession /\ session[d].open
    BY <1>4 DEF CancelAcknowledged, IInv, PartsInv, ChildInv
  <2>2. PICK a \in AgentIds : a = session[d].agent
    BY <1>0, <2>1 DEF TypedSession, Session
  <2>3. \A b \in AgentIds : agent'[b] = IF b = a THEN [Told(AgentOf(d))[b] EXCEPT !.works = "none"]
                                              ELSE Told(AgentOf(d))[b]
    BY <1>4, <2>2 DEF CancelAcknowledged, Told
  <2>4. AgentOf(d) \subseteq {a}
    BY <2>2 DEF AgentOf
  <2>5. \A b \in AgentIds \ {a} : agent'[b] = agent[b]
    BY <2>3, <2>4 DEF Told
  <2>6. agent'[a].works = "none"
    <3>1. agent[a] # NoAgent
      BY <1>0, <2>1, <2>2 DEF IInv, PartsInv, SessionInv
    <3>2. agent[a] \in Agent
      BY <1>0, <3>1 DEF TypedAgent
    <3>3. Told(AgentOf(d))[a] \in {agent[a], [agent[a] EXCEPT !.told = TRUE]}
      BY DEF Told
    <3>4. agent'[a] \in {[agent[a] EXCEPT !.works = "none"],
                         [[agent[a] EXCEPT !.told = TRUE] EXCEPT !.works = "none"]}
      BY <2>3, <3>3
    <3> QED BY <3>2, <3>4 DEF Agent
  <2> QED BY <2>5, <2>6 DEF NobodyStarts
<1>5. CASE \E a \in AgentIds : AttachWorker(d, a) \/ Reattach(d, a)
  BY <1>0, <1>5, SpawnStarts DEF AttachWorker, Reattach
<1> QED BY <1>1, <1>2, <1>3, <1>4, <1>5 DEF ChildStep

LEMMA SessionStarts ==
    ASSUME IInv, NEW k \in Keys, SessionStep(k)
    PROVE  NobodyStarts
<1>0. TypedAgent /\ TypedSession
  BY DEF IInv, TypeOK, TypedAgent, TypedSession
<1>1. CASE SessionDrained(k)
  BY <1>1, SameStarts DEF SessionDrained, backendVars
<1>2. CASE Answered(k)
  BY <1>2, CarriesStarts DEF Answered
<1>3. CASE AttachAnswered(k)
  <2>1. session[k] # NoSession /\ session[k].open
    BY <1>3 DEF AttachAnswered
  <2>2. PICK a \in AgentIds : a = session[k].agent
    BY <1>0, <2>1 DEF TypedSession, Session
  <2>3. PICK sent \in {"none", "other"} :
          agent' = [agent EXCEPT
               ![session[k].agent].bound = session[k].attach = "binding",
               ![session[k].agent].works = sent]
    BY <1>3 DEF AttachAnswered
  <2>4. agent[a] \in Agent
    BY <1>0, <2>1, <2>2 DEF IInv, PartsInv, SessionInv, TypedAgent
  <2>5. agent'[a].works = sent /\ \A b \in AgentIds \ {a} : agent'[b] = agent[b]
    BY <1>0, <2>2, <2>3, <2>4 DEF TypedAgent, Agent
  <2> QED BY <2>5 DEF NobodyStarts
<1>4. CASE TransportFails(k)
  <2>1. CASE k \in Children /\ Return(k, FALSE)
    BY <2>1, ReturnStarts
  <2>2. CASE agent' = Told(AgentOf(k))
    BY <2>2, AgentOfExists, TellStarts
  <2> QED BY <1>4, <2>1, <2>2 DEF TransportFails
<1> QED BY <1>1, <1>2, <1>3, <1>4 DEF SessionStep

LEMMA OtherStarts ==
    ASSUME IInv,
           \/ EnsurePool \/ RequestMain \/ BeginShutdown \/ PoolDrained
           \/ CompleteShutdown \/ ShutdownTimesOut \/ HostEnds \/ HostStarts
           \/ UNCHANGED vars
           \/ \E a \in AgentIds : AttachMain(a) \/ AgentEnds(a)
    PROVE  NobodyStarts
<1>1. CASE \/ EnsurePool \/ BeginShutdown \/ PoolDrained \/ ShutdownTimesOut
         \/ HostStarts \/ UNCHANGED vars
  <2>1. UNCHANGED agent
    BY <1>1 DEF EnsurePool, BeginShutdown, PoolDrained, ShutdownTimesOut, HostStarts,
                vars, backendVars
  <2> QED BY <2>1, SameStarts
<1>2. CASE RequestMain
  <2>1. Main \in Keys
    BY DEF Keys
  <2>2. CASE Carries(Main, "other")
    BY <1>2, <2>1, <2>2, CarriesStarts DEF RequestMain
  <2> QED BY <1>2, <2>2, SameStarts DEF RequestMain
<1>3. CASE CompleteShutdown
  <2>1. CASE agent' = Told(UNION {AgentOf(k) : k \in Keys})
    <3>1. /\ UNION {AgentOf(k) : k \in Keys} \in SUBSET AgentIds
          /\ \A a \in UNION {AgentOf(k) : k \in Keys} : agent[a] # NoAgent
      BY AgentOfExists
    <3> QED BY <2>1, <3>1, TellStarts
  <2> QED BY <1>3, <2>1, SameStarts DEF CompleteShutdown, backendVars
<1>4. CASE HostEnds
  <2>1. PICK ids : ids = {a \in AgentIds : agent[a] # NoAgent}
    OBVIOUS
  <2>2. ids \in SUBSET AgentIds /\ (\A a \in ids : agent[a] # NoAgent) /\ agent' = Told(ids)
    BY <1>4, <2>1 DEF HostEnds
  <2> QED BY <2>2, TellStarts
<1>5. ASSUME NEW a \in AgentIds, AttachMain(a)
      PROVE  NobodyStarts
  <2>1. Main \in Keys
    BY DEF Keys
  <2> QED BY <1>5, <2>1, SpawnStarts DEF AttachMain
<1>6. ASSUME NEW a \in AgentIds, AgentEnds(a)
      PROVE  NobodyStarts
  <2>1. agent'[a] = NoAgent /\ \A b \in AgentIds \ {a} : agent'[b] = agent[b]
    BY <1>6 DEF AgentEnds, IInv, TypeOK
  <2> QED BY <2>1 DEF NobodyStarts
<1> QED BY <1>1, <1>2, <1>3, <1>4, <1>5, <1>6

\* So whoever is at work on a patch after a step was so before, or its worker's
\* runner stood between two requests.
LEMMA WorkFollows ==
    ASSUME IInv, [Next]_vars, NEW c \in Children
    PROVE  AgentsIn(c)' \subseteq AgentsIn(c) \/ child[c] \in {"ready", "planned"}
<1>1. ASSUME NobodyStarts
      PROVE  AgentsIn(c)' \subseteq AgentsIn(c)
  BY <1>1 DEF NobodyStarts, AgentsIn
<1>2. CASE \E d \in Children : ChildStep(d)
  <2>1. PICK d \in Children : ChildStep(d)
    BY <1>2
  <2>2. CASE NobodyStarts
    BY <1>1, <2>2
  <2>3. CASE /\ child[d] \in {"ready", "planned"}
             /\ \A a \in AgentIds : \/ agent'[a] = agent[a]
                                    \/ agent'[a] # NoAgent /\ agent'[a].key = d
    <3>1. CASE d = c
      BY <2>3, <3>1
    <3>2. CASE d # c
      <4>1. AgentsIn(c)' \subseteq AgentsIn(c)
        BY <2>3, <3>2 DEF AgentsIn
      <4> QED BY <4>1
    <3> QED BY <3>1, <3>2
  <2> QED BY <2>1, <2>2, <2>3, ChildStarts
<1>3. CASE \E k \in Keys : SessionStep(k)
  BY <1>1, <1>3, SessionStarts
<1>4. CASE \/ EnsurePool \/ RequestMain \/ BeginShutdown \/ PoolDrained
           \/ CompleteShutdown \/ ShutdownTimesOut \/ HostEnds \/ HostStarts
           \/ UNCHANGED vars
           \/ \E a \in AgentIds : AttachMain(a) \/ AgentEnds(a)
  BY <1>1, <1>4, OtherStarts
<1> QED BY <1>2, <1>3, <1>4 DEF Next

\* A runner that never began has no row.
FateInv == \A c \in Children : child[c] = "new" <=> durable[c] = "none"

LEMMA Fates == Spec => []FateInv
<1>1. Init => FateInv
  BY DEF Init, FateInv
<1>2. IInv /\ FateInv /\ [Next]_vars => FateInv'
  <2> SUFFICES ASSUME IInv, FateInv, [Next]_vars, NEW c \in Children
               PROVE  child'[c] = "new" <=> durable'[c] = "none"
    BY DEF FateInv
  <2>1. Fate(c)
    BY StepFate
  <2>2. ChildInv(c) /\ (child[c] = "new" <=> durable[c] = "none")
    BY DEF FateInv, IInv, PartsInv
  <2> QED BY <2>1, <2>2 DEF Fate, ChildInv, Active, Busy
<1> QED BY <1>1, <1>2, Invariance, PTL DEF Spec

\* Of a held worktree there is at most one user, and none of any other; while
\* the runner stands between two requests there is none.
UsersInv ==
    \A c \in Children :
        /\ AgentsIn(c) = {} \/ \E a \in AgentIds : AgentsIn(c) = {a}
        /\ AgentsIn(c) # {} => /\ durable[c] = "held"
                               /\ child[c] \notin {"ready", "planned"}

LEMMA UsersHold == IInv => UsersInv
<1> SUFFICES ASSUME IInv, NEW c \in Children
             PROVE  /\ AgentsIn(c) = {} \/ \E a \in AgentIds : AgentsIn(c) = {a}
                    /\ AgentsIn(c) # {} => /\ durable[c] = "held"
                                           /\ child[c] \notin {"ready", "planned"}
  BY DEF UsersInv
<1>1. ASSUME NEW a \in AgentsIn(c)
      PROVE  /\ a \in AgentIds /\ agent[a] # NoAgent /\ agent[a].key = c /\ agent[a].bound
             /\ child[c] \in Busy \cup {"parked", "lost"}
  BY <1>1 DEF AgentsIn, IInv, PartsInv, AgentInv, OnPatch
<1>2. ChildInv(c)
  BY DEF IInv, PartsInv
<1>3. AgentsIn(c) # {} => durable[c] = "held" /\ child[c] \notin {"ready", "planned"}
  BY <1>1, <1>2 DEF ChildInv, Active, Busy
<1>4. \A a, b \in AgentsIn(c) : a = b
  BY <1>1 DEF IInv, OneBound
<1> QED BY <1>1, <1>3, <1>4

LEMMA ContractStep ==
    ASSUME IInv, IInv', UsersInv, UsersInv', FateInv, FateInv', [Next]_vars
    PROVE  Contract!Next
<1>1. \A c \in Children : /\ ChildInv(c) /\ ChildInv(c)'
                          /\ durable[c] \in {"none", "held", "released"}
                          /\ durable'[c] \in {"none", "held", "released"}
                          /\ child[c] \in ChildStates /\ child'[c] \in ChildStates
  BY DEF IInv, PartsInv, TypeOK
<1>2. Contract!TypeOK'
  <2>1. \A c \in Children : WorktreeOf(c)' \in {"free", "held", "released"}
    BY <1>1 DEF WorktreeOf
  <2>2. \A c \in Children : AgentsIn(c)' \in SUBSET AgentIds
    BY DEF AgentsIn
  <2> QED BY <2>1, <2>2 DEF Contract!TypeOK, Contract!Verdicts
<1>3. ASSUME NEW c \in Children
      PROVE  Contract!Step(c)
  <2>1. /\ AgentsIn(c)' = {} \/ \E a \in AgentIds : AgentsIn(c)' = {a}
        /\ AgentsIn(c)' # {} => durable'[c] = "held"
        /\ AgentsIn(c) # {} => durable[c] = "held"
    BY DEF UsersInv
  <2>2. \/ AgentsIn(c)' = {}
        \/ AgentsIn(c)' = AgentsIn(c)
        \/ AgentsIn(c) = {} /\ \E a \in AgentIds : AgentsIn(c)' = {a}
    BY WorkFollows, <2>1 DEF UsersInv
  <2>3. CASE child'[c] = child[c] /\ durable'[c] = durable[c] /\ durable[c] # "held"
    <3>1. AgentsIn(c) = {} /\ AgentsIn(c)' = {}
      BY <2>1, <2>3
    <3>2. WorktreeOf(c)' = WorktreeOf(c)
      BY <2>3 DEF WorktreeOf
    <3>3. Contract!Same(c)
      BY <2>3, <3>1, <3>2 DEF Contract!Same
    <3> QED BY <3>3 DEF Contract!Step
  <2>4. CASE durable[c] = "held" /\ durable'[c] = "held"
    <3>1. child[c] # "done" /\ child'[c] # "done"
      BY <1>1, <2>4 DEF ChildInv, Active, Busy
    <3>2. WorktreeOf(c) = "held" /\ WorktreeOf(c)' = "held"
      BY <2>4 DEF WorktreeOf
    <3>3. Contract!Use(c) \/ Contract!Same(c)
      BY <2>2, <3>1, <3>2 DEF Contract!Use, Contract!AtMostOne, Contract!Same
    <3> QED BY <3>3 DEF Contract!Step
  <2>5. CASE child[c] = "new" /\ child'[c] \in Active /\ durable'[c] = "held"
    <3>1. durable[c] = "none" /\ AgentsIn(c) = {}
      BY <2>1, <2>5 DEF FateInv
    <3>2. WorktreeOf(c) = "free" /\ WorktreeOf(c)' = "held"
      BY <2>5, <3>1 DEF WorktreeOf
    <3>3. child[c] # "done" /\ child'[c] # "done"
      BY <2>5 DEF Active, Busy
    <3>4. Contract!Take(c)
      BY <2>1, <3>1, <3>2, <3>3 DEF Contract!Take, Contract!AtMostOne
    <3> QED BY <3>4 DEF Contract!Step
  <2>6. CASE /\ child[c] \in Active \cup {"lost"}
             /\ child'[c] = "done"
             /\ durable'[c] = "released"
    <3>1. durable[c] = "held" /\ AgentsIn(c)' = {}
      BY <1>1, <2>1, <2>6 DEF ChildInv
    <3>2. WorktreeOf(c) = "held" /\ WorktreeOf(c)' = "released"
      BY <2>6, <3>1 DEF WorktreeOf
    <3>3. Contract!Conclude(c)
      BY <2>6, <3>1, <3>2 DEF Contract!Conclude, Contract!Verdicts
    <3> QED BY <3>3 DEF Contract!Step
  <2> QED
    <3>1. Fate(c)
      BY StepFate
    <3>2. durable[c] = "held" <=> child[c] \in Active \cup {"lost"}
      BY <1>1 DEF ChildInv
    <3> QED BY <2>3, <2>4, <2>5, <2>6, <3>1, <3>2 DEF Fate
<1> QED BY <1>2, <1>3 DEF Contract!Next

LEMMA ContractInit == Init => Contract!Init
<1> SUFFICES ASSUME Init PROVE Contract!Init
  OBVIOUS
<1>1. \A c \in Children : WorktreeOf(c) = "free" /\ AgentsIn(c) = {} /\ child[c] # "done"
  BY DEF Init, WorktreeOf, AgentsIn
<1> QED BY <1>1 DEF Contract!Init

\* The shutdown implements the custody contract: launches, cancellations, lost
\* transports, blocked and repeated attempts, the degraded exit, a crash and
\* the next start are steps of the contract or change nothing it speaks of.
THEOREM ShutdownKeepsCustody == Spec => KeepsCustody
<1>1. IInv /\ IInv' /\ UsersInv /\ UsersInv' /\ FateInv /\ FateInv' /\ [Next]_vars
        => [Contract!Next]_(Contract!vars)
  BY ContractStep
<1> QED BY <1>1, ContractInit, UsersHold, Fates, Invariance, PTL
           DEF Spec, KeepsCustody, Contract!Spec

\* What the contract promises follows from its steps alone: work goes on only
\* in a held worktree, one agent at a time, and who is told that a worktree was
\* given up is told the truth for good.
THEOREM ShutdownWorksInHeld == Spec => []Contract!WorkIsHeld
<1>1. Contract!Init => Contract!WorkIsHeld
  BY DEF Contract!Init, Contract!WorkIsHeld
<1>2. Contract!WorkIsHeld /\ [Contract!Next]_(Contract!vars) => Contract!WorkIsHeld'
  <2> SUFFICES ASSUME Contract!WorkIsHeld, [Contract!Next]_(Contract!vars)
               PROVE  Contract!WorkIsHeld'
    OBVIOUS
  <2>1. CASE UNCHANGED Contract!vars
    BY <2>1 DEF Contract!vars, Contract!WorkIsHeld
  <2>2. CASE Contract!Next
    BY <2>2 DEF Contract!Next, Contract!Step, Contract!Take, Contract!Use, Contract!Conclude,
       Contract!Tell, Contract!Forget, Contract!Remove, Contract!Same, Contract!AtMostOne,
       Contract!Verdicts, Contract!WorkIsHeld
  <2> QED BY <2>1, <2>2
<1> QED BY <1>1, <1>2, ShutdownKeepsCustody, PTL DEF KeepsCustody, Contract!Spec
=============================================================================
