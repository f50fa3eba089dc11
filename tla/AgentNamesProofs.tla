-------------------------- MODULE AgentNamesProofs --------------------------
(***************************************************************************)
(* Waits and task names of the agent pool, proved for any children, names, *)
(* waiters and restarts.  The inductive invariant adds what the index      *)
(* remembers: a running child owns its name's entry until a replayed       *)
(* record of that name takes it.                                           *)
(***************************************************************************)
EXTENDS AgentNames, WellFoundedInduction, TLAPS

LiveIsKnown == live \subseteq Known

IndexOwns ==
    \A c \in live :
        index[NameOf[c]] = c \/ \E r \in Replayed : NameOf[r] = NameOf[c]

IInv == /\ TypeOK
        /\ LiveIsKnown
        /\ IndexOwns
        /\ NoLostWakeup
        /\ AnswersAreTerminal

\* A non-empty set of numbers has a least element.
LEMMA LeastElement ==
    ASSUME NEW S \in SUBSET Nat, S # {}
    PROVE  \E n \in S : \A m \in S : n <= m
<1> DEFINE R == {ss \in Nat \X Nat : ss[1] < ss[2]}
<1>1. OpToRel(<, Nat) = R
  BY Zenon DEF OpToRel
<1>2. IsWellFoundedOn(R, Nat)
  BY <1>1, NatLessThanWellFounded
<1>3. PICK n \in S : \A m \in S : <<m, n>> \notin R
  <2> HIDE DEF R
  <2> QED
    BY <1>2, WFMin
<1>4. ASSUME NEW m \in S PROVE n <= m
  <2>1. m \in Nat /\ n \in Nat
    BY <1>3
  <2>2. <<m, n>> \in R <=> m < n
    BY <2>1
  <2> QED
    BY <1>3, <2>1, <2>2
<1> QED
  BY <1>3, <1>4

\* A target resolves to a known record, or to none.
LEMMA ResolveKnown ==
    ASSUME TypeOK, NEW t
    PROVE  Resolve(t) \in Known \cup {NoChild}
<1>1. CASE t \in Children
  BY <1>1 DEF Resolve
<1>2. CASE t \notin Children
  <2> DEFINE hits == {i \in 1 .. Len(jobs) : NameOf[jobs[i]] = t}
  <2>1. jobs \in Seq(Children)
    BY DEF TypeOK
  <2>2. CASE hits = {}
    BY <1>2, <2>2 DEF Resolve, SelectInSeq
  <2>3. CASE hits # {}
    <3>1. hits \in SUBSET Nat /\ hits # {}
      BY <2>1, <2>3
    <3>2. \E n \in hits : \A m \in hits : n <= m
      <4> HIDE DEF hits
      <4> QED
        BY <3>1, LeastElement
    <3>3. Min(hits) \in hits
      BY <3>2 DEF Min
    <3>4. Resolve(t) = jobs[Min(hits)]
      BY <1>2, <2>1, <2>3, <3>3 DEF Resolve, SelectInSeq
    <3>5. Min(hits) \in DOMAIN jobs
      BY <2>1, <3>3
    <3> QED
      BY <3>4, <3>5 DEF Known
  <2> QED
    BY <2>2, <2>3
<1> QED
  BY <1>1, <1>2

\* A wait watches and reports known children only.
LEMMA ResolvedKnown ==
    ASSUME TypeOK, NEW ts
    PROVE  Resolved(ts) \subseteq Known /\ Resolved(ts) \subseteq Children
<1>1. Known \subseteq Children
  BY DEF TypeOK, Known
<1> QED
  BY <1>1, ResolveKnown DEF Resolved

-----------------------------------------------------------------------------
(* The steps *)

\* Initially nothing is known, hooked or answered.
LEMMA InitIInv == Init => IInv
  BY DEF Init, IInv, TypeOK, LiveIsKnown, IndexOwns, NoLostWakeup, AnswersAreTerminal, Known

\* What appending a child to jobs adds to the known ones.
LEMMA KnownAppended ==
    ASSUME TypeOK, NEW c \in Children, jobs' = Append(jobs, c)
    PROVE  Known' = Known \cup {c} /\ jobs' \in Seq(Children)
<1>1. jobs \in Seq(Children)
  BY DEF TypeOK
<1>2. /\ jobs' \in Seq(Children)
      /\ DOMAIN jobs' = DOMAIN jobs \cup {Len(jobs) + 1}
      /\ \A i \in DOMAIN jobs : jobs'[i] = jobs[i]
      /\ jobs'[Len(jobs) + 1] = c
  BY <1>1
<1> QED
  BY <1>2 DEF Known

\* A launch takes a free index entry for its child.
LEMMA LaunchStep ==
    ASSUME IInv, NEW c \in Children, Launch(c)
    PROVE  IInv'
<1>1. Known' = Known \cup {c} /\ jobs' \in Seq(Children)
  BY KnownAppended DEF IInv, Launch
<1>2. NameOf[c] \in Names
  BY NamesAssumption
<1>3. TypeOK'
  BY <1>1, <1>2 DEF IInv, TypeOK, Launch
<1>4. LiveIsKnown'
  BY <1>1 DEF IInv, LiveIsKnown, Launch
<1>5. IndexOwns'
  <2> SUFFICES ASSUME NEW d \in live'
               PROVE  index'[NameOf[d]] = d \/ \E r \in Replayed' : NameOf[r] = NameOf[d]
    BY DEF IndexOwns
  <2>1. Replayed \subseteq Replayed'
    BY <1>1 DEF Launch, Replayed
  <2>2. index'[NameOf[c]] = c
    BY <1>2 DEF IInv, TypeOK, Launch
  <2>3. CASE d \in live
    <3>1. d \in Children /\ NameOf[d] \in Names
      BY <2>3, NamesAssumption DEF IInv, TypeOK
    <3>2. CASE \E r \in Replayed : NameOf[r] = NameOf[d]
      BY <2>1, <3>2
    <3>3. CASE index[NameOf[d]] = d
      <4>1. NameOf[d] # NameOf[c]
        BY <2>3, <3>3 DEF Launch
      <4>2. index'[NameOf[d]] = index[NameOf[d]]
        BY <3>1, <4>1 DEF IInv, TypeOK, Launch
      <4> QED
        BY <3>3, <4>2
    <3> QED
      BY <2>3, <3>2, <3>3 DEF IInv, IndexOwns
  <2> QED
    BY <2>2, <2>3 DEF Launch
<1>6. NoLostWakeup'
  BY DEF IInv, NoLostWakeup, Launch
<1>7. AnswersAreTerminal'
  BY <1>1 DEF IInv, AnswersAreTerminal, Launch
<1> QED
  BY <1>3, <1>4, <1>5, <1>6, <1>7 DEF IInv

\* A replayed record takes the entry of its name, and excuses what it took.
LEMMA ReplayStep ==
    ASSUME IInv, NEW c \in Children, MaterializeLifecycleReplayRecord(c)
    PROVE  IInv'
<1>1. Known' = Known \cup {c} /\ jobs' \in Seq(Children)
  BY KnownAppended DEF IInv, MaterializeLifecycleReplayRecord
<1>2. TypeOK'
  BY <1>1, NamesAssumption DEF IInv, TypeOK, MaterializeLifecycleReplayRecord
<1>3. LiveIsKnown'
  BY <1>1 DEF IInv, LiveIsKnown, MaterializeLifecycleReplayRecord
<1>4. IndexOwns'
  <2> SUFFICES ASSUME NEW d \in live'
               PROVE  index'[NameOf[d]] = d \/ \E r \in Replayed' : NameOf[r] = NameOf[d]
    BY DEF IndexOwns
  <2>1. d \in live /\ d \in Children /\ NameOf[d] \in Names
    BY NamesAssumption DEF IInv, TypeOK, MaterializeLifecycleReplayRecord
  <2>2. Replayed \subseteq Replayed' /\ c \in Replayed'
    BY <1>1 DEF MaterializeLifecycleReplayRecord, Replayed
  <2>3. CASE NameOf[d] = NameOf[c]
    BY <2>2, <2>3
  <2>4. CASE NameOf[d] # NameOf[c]
    <3>1. index'[NameOf[d]] = index[NameOf[d]]
      BY <2>1, <2>4 DEF IInv, TypeOK, MaterializeLifecycleReplayRecord
    <3> QED
      BY <2>1, <2>2, <3>1 DEF IInv, IndexOwns
  <2> QED
    BY <2>3, <2>4
<1>5. NoLostWakeup'
  BY DEF IInv, NoLostWakeup, MaterializeLifecycleReplayRecord
<1>6. AnswersAreTerminal'
  BY <1>1 DEF IInv, AnswersAreTerminal, MaterializeLifecycleReplayRecord
<1> QED
  BY <1>2, <1>3, <1>4, <1>5, <1>6 DEF IInv

\* Answering waits unhooks them everywhere, and hooks nothing.
LEMMA FinishedWakes ==
    ASSUME IInv, NEW ws \in SUBSET Waiters, Finished(ws)
    PROVE  /\ targets' \in [Waiters -> SUBSET Children]
           /\ waiters' \in [Children -> SUBSET Waiters]
           /\ \A w \in Waiters, c \in Children : c \in targets'[w] <=> w \in waiters'[c]
           /\ \A c \in Children : waiters'[c] = waiters[c] \ ws
  BY DEF IInv, TypeOK, NoLostWakeup, Finished

\* A settling child answers everyone hooked on it.
LEMMA SettleStep ==
    ASSUME IInv, NEW c \in Children, SettleRecord(c)
    PROVE  IInv'
<1>1. waiters[c] \in SUBSET Waiters /\ Finished(waiters[c])
  BY DEF IInv, TypeOK, SettleRecord
<1>2. /\ targets' \in [Waiters -> SUBSET Children]
      /\ waiters' \in [Children -> SUBSET Waiters]
      /\ \A w \in Waiters, d \in Children : d \in targets'[w] <=> w \in waiters'[d]
      /\ \A d \in Children : waiters'[d] = waiters[d] \ waiters[c]
  BY <1>1, FinishedWakes
<1>3. TypeOK'
  BY <1>2 DEF IInv, TypeOK, SettleRecord
<1>4. Known' = Known /\ Replayed' = Replayed
  BY DEF SettleRecord, Known, Replayed
<1>5. LiveIsKnown'
  BY <1>4 DEF IInv, LiveIsKnown, SettleRecord
<1>6. IndexOwns'
  BY <1>4 DEF IInv, IndexOwns, SettleRecord
<1>7. NoLostWakeup'
  <2>1. \A d \in Children : waiters'[d] # {} => d \in live'
    BY <1>2 DEF IInv, NoLostWakeup, SettleRecord
  <2> QED
    BY <1>2, <2>1 DEF NoLostWakeup
<1>8. AnswersAreTerminal'
  BY <1>4 DEF IInv, AnswersAreTerminal, LiveIsKnown, TypeOK, SettleRecord
<1> QED
  BY <1>3, <1>5, <1>6, <1>7, <1>8 DEF IInv

\* A wait is hooked on running children only, or answered with settled ones.
LEMMA WaitStep ==
    ASSUME IInv, NEW w \in Waiters, NEW ts, Wait(w, ts)
    PROVE  IInv'
<1> DEFINE rs == Resolved(ts)
<1>1. rs \subseteq Known /\ rs \subseteq Children
  BY ResolvedKnown DEF IInv
<1>2. Known' = Known /\ Replayed' = Replayed /\ live' = live /\ index' = index
  BY DEF Wait, Known, Replayed
<1>3. LiveIsKnown' /\ IndexOwns'
  BY <1>2 DEF IInv, LiveIsKnown, IndexOwns
<1>4. CASE rs \subseteq live
  <2>1. /\ targets' = [targets EXCEPT ![w] = rs]
        /\ waiters' = [c \in Children |-> IF c \in rs THEN waiters[c] \cup {w} ELSE waiters[c]]
        /\ answer' = [answer EXCEPT ![w] = {}]
        /\ targets[w] = {}
    BY <1>4 DEF Wait
  <2> HIDE DEF rs
  <2>2. TypeOK'
    BY <1>1, <2>1 DEF IInv, TypeOK, Wait
  <2>3. NoLostWakeup'
    <3>1. ASSUME NEW v \in Waiters, NEW c \in Children
          PROVE  c \in targets'[v] <=> v \in waiters'[c]
      BY <2>1 DEF IInv, TypeOK, NoLostWakeup
    <3>2. ASSUME NEW c \in Children, waiters'[c] # {}
          PROVE  c \in live'
      BY <1>2, <1>4, <2>1, <3>2 DEF IInv, NoLostWakeup
    <3> QED
      BY <3>1, <3>2 DEF NoLostWakeup
  <2>4. AnswersAreTerminal'
    BY <1>2, <2>1 DEF IInv, TypeOK, AnswersAreTerminal
  <2> QED
    BY <1>3, <2>2, <2>3, <2>4 DEF IInv
<1>5. CASE ~(rs \subseteq live)
  <2>1. /\ answer' = [answer EXCEPT ![w] = rs \ live]
        /\ UNCHANGED <<targets, waiters>>
    BY <1>5 DEF Wait
  <2> HIDE DEF rs
  <2>2. TypeOK'
    BY <1>1, <2>1 DEF IInv, TypeOK, Wait
  <2>3. NoLostWakeup'
    BY <1>2, <2>1 DEF IInv, NoLostWakeup
  <2>4. AnswersAreTerminal'
    BY <1>1, <1>2, <2>1 DEF IInv, TypeOK, AnswersAreTerminal
  <2> QED
    BY <1>3, <2>2, <2>3, <2>4 DEF IInv
<1> QED
  BY <1>4, <1>5

\* A wait that times out is unhooked and answered with nothing.
LEMMA TimeoutStep ==
    ASSUME IInv, NEW w \in Waiters, Timeout(w)
    PROVE  IInv'
<1>1. {w} \in SUBSET Waiters /\ Finished({w})
  BY DEF Timeout
<1>2. /\ targets' \in [Waiters -> SUBSET Children]
      /\ waiters' \in [Children -> SUBSET Waiters]
      /\ \A v \in Waiters, d \in Children : d \in targets'[v] <=> v \in waiters'[d]
      /\ \A d \in Children : waiters'[d] = waiters[d] \ {w}
  BY <1>1, FinishedWakes
<1>3. TypeOK'
  BY <1>2 DEF IInv, TypeOK, Timeout
<1>4. Known' = Known /\ Replayed' = Replayed
  BY DEF Timeout, Known, Replayed
<1>5. LiveIsKnown' /\ IndexOwns'
  BY <1>4 DEF IInv, LiveIsKnown, IndexOwns, Timeout
<1>6. NoLostWakeup'
  <2>1. \A d \in Children : waiters'[d] # {} => d \in live'
    BY <1>2 DEF IInv, NoLostWakeup, Timeout
  <2> QED
    BY <1>2, <2>1 DEF NoLostWakeup
<1>7. AnswersAreTerminal'
  BY <1>4 DEF IInv, AnswersAreTerminal, TypeOK, Timeout
<1> QED
  BY <1>3, <1>5, <1>6, <1>7 DEF IInv

\* A new pool knows nothing.
LEMMA RestartStep == ASSUME IInv, Restart PROVE IInv'
<1>1. Known \cap Isolated \subseteq Isolated /\ Known' = {}
  BY DEF Restart, Known
<1>2. TypeOK'
  BY <1>1, NamesAssumption DEF IInv, TypeOK, Restart
<1> QED
  BY <1>1, <1>2 DEF IInv, LiveIsKnown, IndexOwns, NoLostWakeup, AnswersAreTerminal, Restart

-----------------------------------------------------------------------------
(* The theorems *)

\* The invariant holds in every reachable state.
LEMMA Invariance == Spec => []IInv
<1>1. ASSUME IInv, [Next]_vars PROVE IInv'
  <2>1. CASE UNCHANGED vars
    BY <1>1, <2>1 DEF vars, IInv, TypeOK, LiveIsKnown, IndexOwns, NoLostWakeup,
         AnswersAreTerminal, Known, Replayed
  <2>2. CASE \E c \in Children : \/ Launch(c)
                                 \/ MaterializeLifecycleReplayRecord(c)
                                 \/ SettleRecord(c)
    BY <1>1, <2>2, LaunchStep, ReplayStep, SettleStep
  <2>3. CASE \E w \in Waiters : \/ \E ts \in SUBSET (Children \cup Names) : Wait(w, ts)
                                \/ Timeout(w)
    BY <1>1, <2>3, WaitStep, TimeoutStep
  <2>4. CASE Restart
    BY <1>1, <2>4, RestartStep
  <2> QED
    BY <1>1, <2>1, <2>2, <2>3, <2>4 DEF Next
<1> QED
  BY InitIInv, <1>1, PTL DEF Spec

\* Every reachable state of the names and waits is well typed.
THEOREM TypeCorrect == Spec => []TypeOK
<1>1. IInv => TypeOK
  BY DEF IInv
<1> QED
  BY Invariance, <1>1, PTL

\* A wait is hooked on exactly the running children it watches, so no
\* settlement passes it by.
THEOREM NoWakeupIsLost == Spec => []NoLostWakeup
<1>1. IInv => NoLostWakeup
  BY DEF IInv
<1> QED
  BY Invariance, <1>1, PTL

\* A wait is never answered with a running child.
THEOREM AnswersSettled == Spec => []AnswersAreTerminal
<1>1. IInv => AnswersAreTerminal
  BY DEF IInv
<1> QED
  BY Invariance, <1>1, PTL

\* Two running children share a task name only beside a replayed record of
\* that name.
THEOREM NamesAreUnique == Spec => []UniqueUnlessReplayed
<1>1. IInv => UniqueUnlessReplayed
  BY DEF IInv, IndexOwns, UniqueUnlessReplayed
<1> QED
  BY Invariance, <1>1, PTL
=============================================================================
