--------------------------- MODULE AgentPoolProofs ---------------------------
(***************************************************************************)
(* Theorems about the agent pool, for any children, any sizes of pool and  *)
(* queue and any number of registry failures and restarts.                 *)
(*                                                                         *)
(* The inductive invariant PoolInv is a conjunction of what holds of each  *)
(* child by itself (ChildInv) and of the pool: slots, queue, loops and     *)
(* recovery.  The handlers come in three shapes, each with a lemma of its  *)
(* own: a settlement attempt, a start, and a change to an unsettled child  *)
(* that leaves slots and queue alone.  WaitInv adds what is known of a     *)
(* child without a slot while the registry works, WorkInv what the custody *)
(* contract needs of a runner that works, and StopInv whom a shutdown has  *)
(* told to stop.                                                           *)
(***************************************************************************)
EXTENDS AgentPool, WorkerSessionProofs, FiniteSetTheorems, SequenceTheorems

-----------------------------------------------------------------------------
(***************************************************************************)
(* The inductive invariant                                                 *)
(***************************************************************************)
InQueue(c, q) == \E i \in DOMAIN q : q[i] = c

\* A child holds a slot only between its start and its settlement.
SlotInv(c) == c \in leased => st[c] \notin {"none", "queued"} \cup TerminalStates

DurableInv(c) ==
    c \in Isolated /\ Settled(c) => sess[c].state = st[c] /\ sess[c].lease = "released"

OwnedInv(c) == c \in opened /\ sess[c].lease = "active" => c \in leased \cup recovered

\* Before its start a child has no runner, no verdict and no cancellation.
FreshInv(c) ==
    st[c] \in {"none", "queued"} =>
        runner[c] = "idle" /\ pend[c] = NoPatch /\ reason[c] = NoReason

ResultInv(c) == runner[c] = "returned" => result[c] \in Result

SweepInv(c) == c \in sweep => st[c] # "none" /\ ~Settled(c)

\* A known isolated child has a session, and one that has yet to begin never
\* ran in an earlier process.
RunInv(c) ==
    c \in Isolated =>
        /\ st[c] # "none" => c \in opened
        /\ runs[c] <= 1
        /\ c \notin opened \/ st[c] = "queued" \/ runner[c] = "scheduled" => runs[c] = 0

ChildInv(c) ==
    /\ RowOK(sess[c])
    /\ SlotInv(c)
    /\ DurableInv(c)
    /\ OwnedInv(c)
    /\ FreshInv(c)
    /\ ResultInv(c)
    /\ SweepInv(c)
    /\ RunInv(c)
    /\ c \in recovered => c \in opened

\* The loops that work off a closing pool run only in a closed one.
LoopInv ==
    /\ sweep # {} => loop = "sweep"
    /\ loop \in {"retry", "close", "sweep"} => closed

Unique(q) == \A i, j \in DOMAIN q : q[i] = q[j] => i = j

QueueInv ==
    /\ Unique(queue)
    /\ Len(queue) <= MaxQueued
    /\ \A c \in Children : InQueue(c, queue) => st[c] # "none"
    /\ \A c \in Children : st[c] = "queued" => InQueue(c, queue) \/ c \in sweep

RecoveryInv == Recovery # {} => \A c \in Isolated : ~Resident(c)

PoolInv ==
    /\ TypeOK
    /\ \A c \in Children : ChildInv(c)
    /\ LoopInv
    /\ LeaseAccounting
    /\ NoIdleCapacity
    /\ QueueInv
    /\ RecoveryInv

-----------------------------------------------------------------------------
(***************************************************************************)
(* The row a settlement leaves behind                                      *)
(***************************************************************************)
LEMMA PatchType ==
    ASSUME NEW p \in Patch
    PROVE  /\ p.to \in TerminalStates
           /\ p.reason \in Reasons \cup {NoReason}
           /\ p.receipt \in Receipts \cup {NoReceipt}
           /\ p.outcome \in Outcomes
           /\ p.to = "cancelled" => p.reason \in Reasons
BY DEF Patch

LEMMA NoPatchIsNone == NoPatch \notin Patch
BY PatchType DEF NoPatch, TerminalStates

\* Only live rows hold a worktree; a terminal row never does.
LEMMA TerminalRow ==
    ASSUME NEW r, RowOK(r), r.state \in TerminalStates
    PROVE  r.lease = "released"
BY DEF RowOK, RowConsistent, Session, TerminalStates

\* A cancellation request never takes a worktree.
LEMMA RequestedRow ==
    ASSUME NEW r, RowOK(r), NEW why \in Reasons
    PROVE  /\ RowOK(Requested(r, why))
           /\ Requested(r, why).lease \in {r.lease, "released"}
<1>1. CASE r.state \in {"registered", "active"}
  <2>1. CanRequestCancellation(r)
    BY <1>1 DEF CanRequestCancellation, MayBecome, ALLOWED_TRANSITIONS
  <2>2. RowOK(RequestCancellation(r, why))
    BY <2>1, RequestOK
  <2>3. RequestCancellation(r, why).lease \in {r.lease, "released"}
    BY <1>1 DEF RequestCancellation, Released, RowOK, RowConsistent, Session
  <2> QED
    BY <1>1, <2>2, <2>3 DEF Requested
<1>2. CASE r.state \notin {"registered", "active"}
  BY <1>2 DEF Requested
<1> QED
  BY <1>1, <1>2

\* Settling never takes a worktree, and a settlement that succeeds for an
\* isolated child leaves its row in the verdict's state with the lease
\* released (commitLifecycleSettlement).
LEMMA CommittedRow ==
    ASSUME NEW c, NEW r, RowOK(r), NEW p \in Patch, NEW fail
    PROVE  /\ RowOK(Committed(c, r, p, fail))
           /\ Committed(c, r, p, fail).lease \in {r.lease, "released"}
           /\ c \in Isolated /\ Commits(c, r, p, fail) =>
                /\ Committed(c, r, p, fail).state = p.to
                /\ Committed(c, r, p, fail).lease = "released"
<1>0. /\ p.to \in TerminalStates
      /\ p.receipt \in Receipts \cup {NoReceipt}
      /\ p.outcome \in Outcomes
      /\ p.to = "cancelled" => p.reason \in Reasons
  BY PatchType
<1> DEFINE q == Prepared(r, p, fail)
<1>1. RowOK(q) /\ q.lease \in {r.lease, "released"}
  BY <1>0, RequestedRow DEF Prepared
<1>2. CASE c \notin Isolated \/ r.state \notin LiveStates
  <2>1. Committed(c, r, p, fail) = r
    BY <1>2 DEF Committed
  <2>2. ASSUME c \in Isolated, Commits(c, r, p, fail) PROVE r.state = p.to
    BY <1>2, <2>2 DEF Commits, Agrees
  <2> QED
    BY <1>0, <2>1, <2>2, TerminalRow
<1>3. CASE c \in Isolated /\ r.state \in LiveStates /\ ~Commits(c, r, p, fail)
  BY <1>1, <1>3 DEF Committed
<1>4. CASE c \in Isolated /\ r.state \in LiveStates /\ Commits(c, r, p, fail)
           /\ q.state = "cancelled"
  <2>1. Committed(c, r, p, fail) = q
    BY <1>4 DEF Committed
  <2>2. p.to = "cancelled"
    BY <1>4 DEF Prepared, LiveStates
  <2>3. q.lease = "released"
    BY <1>1, <1>4, TerminalRow DEF TerminalStates
  <2> QED
    BY <1>1, <1>4, <2>1, <2>2, <2>3
<1>5. CASE c \in Isolated /\ r.state \in LiveStates /\ Commits(c, r, p, fail)
           /\ q.state # "cancelled" /\ p.to = "cancelled"
  <2>1. Committed(c, r, p, fail) = AcknowledgeCancellation(q, p.receipt, p.outcome)
    BY <1>5 DEF Committed
  <2>2. ~(r.state = "registered" /\ "request" \notin fail)
    BY <1>5 DEF Prepared, Requested, RequestCancellation, Released, RowOK, Session
  <2>3. CanAcknowledgeCancellation(q, p.receipt, p.outcome)
    BY <1>5, <2>2 DEF Commits, LiveStates, TerminalStates
  <2>4. RowOK(AcknowledgeCancellation(q, p.receipt, p.outcome))
    BY <1>0, <1>1, <2>3, AcknowledgeOK
  <2>5. AcknowledgeCancellation(q, p.receipt, p.outcome).state = "cancelled"
    BY <1>1 DEF AcknowledgeCancellation, Acked, Released, RowOK, Session
  <2> QED
    BY <1>5, <2>1, <2>4, <2>5, TerminalRow DEF TerminalStates
<1>6. CASE c \in Isolated /\ r.state \in LiveStates /\ Commits(c, r, p, fail)
           /\ q.state # "cancelled" /\ p.to # "cancelled"
  <2>1. Committed(c, r, p, fail) = SettleSession(r, p.to, p.receipt, p.outcome)
    BY <1>6 DEF Committed
  <2>2. CanSettleSession(r, p.to, p.receipt, p.outcome)
    BY <1>6 DEF Commits, LiveStates, TerminalStates
  <2>3. RowOK(SettleSession(r, p.to, p.receipt, p.outcome))
    BY <1>0, <2>2, SettleOK
  <2>4. SettleSession(r, p.to, p.receipt, p.outcome).state = p.to
    BY DEF SettleSession, Acked, Released, RowOK, Session
  <2> QED
    BY <1>0, <1>6, <2>1, <2>3, <2>4, TerminalRow
<1> QED
  BY <1>2, <1>3, <1>4, <1>5, <1>6

-----------------------------------------------------------------------------
(***************************************************************************)
(* The queue                                                               *)
(***************************************************************************)
\* A queue without its i-th place.
Removed(q, i) == SubSeq(q, 1, i - 1) \o SubSeq(q, i + 1, Len(q))

\* Taking one place out of a queue shifts the ones behind it.
LEMMA RemoveAt ==
    ASSUME NEW S, NEW q \in Seq(S), NEW i \in 1..Len(q)
    PROVE  /\ Removed(q, i) \in Seq(S)
           /\ Len(Removed(q, i)) = Len(q) - 1
           /\ \A k \in 1..(Len(q) - 1) : Removed(q, i)[k] = IF k < i THEN q[k] ELSE q[k + 1]
<1> DEFINE a == SubSeq(q, 1, i - 1)
           b == SubSeq(q, i + 1, Len(q))
           r == Removed(q, i)
<1>1. /\ Len(q) \in Nat
      /\ \A k \in 1..Len(q) : q[k] \in S
  BY LenProperties, ElementOfSeq
<1>2. /\ a \in Seq(S)
      /\ Len(a) = i - 1
      /\ \A k \in 1..(i - 1) : a[k] = q[k]
  <2>1. \A k \in 1..(i - 1) : q[k] \in S
    BY <1>1
  <2>2. /\ a \in Seq(S)
        /\ Len(a) = IF 1 <= i - 1 THEN (i - 1) - 1 + 1 ELSE 0
        /\ \A k \in 1..((i - 1) - 1 + 1) : a[k] = q[1 + k - 1]
    BY <2>1, <1>1, SubSeqProperties
  <2> QED
    BY <2>2, <1>1
<1>3. /\ b \in Seq(S)
      /\ Len(b) = Len(q) - i
      /\ \A k \in 1..(Len(q) - i) : b[k] = q[i + k]
  <2>1. \A k \in (i + 1)..Len(q) : q[k] \in S
    BY <1>1
  <2>2. /\ b \in Seq(S)
        /\ Len(b) = IF i + 1 <= Len(q) THEN Len(q) - (i + 1) + 1 ELSE 0
        /\ \A k \in 1..(Len(q) - (i + 1) + 1) : b[k] = q[(i + 1) + k - 1]
    BY <2>1, <1>1, SubSeqProperties
  <2> QED
    BY <2>2, <1>1
<1>4. /\ r \in Seq(S)
      /\ Len(r) = Len(a) + Len(b)
      /\ \A k \in 1..(Len(a) + Len(b)) :
            r[k] = IF k <= Len(a) THEN a[k] ELSE b[k - Len(a)]
  BY <1>2, <1>3, ConcatProperties DEF Removed
<1> HIDE DEF a, b, r
<1>5. Len(r) = Len(q) - 1 /\ Len(a) + Len(b) = Len(q) - 1
  BY <1>1, <1>2, <1>3, <1>4
<1>6. ASSUME NEW k \in 1..(Len(q) - 1), k < i
      PROVE  r[k] = q[k]
  BY <1>1, <1>2, <1>4, <1>5, <1>6
<1>7. ASSUME NEW k \in 1..(Len(q) - 1), ~(k < i)
      PROVE  r[k] = q[k + 1]
  <2>1. k - (i - 1) \in 1..(Len(q) - i) /\ i + (k - (i - 1)) = k + 1 /\ ~(k <= i - 1)
    BY <1>1, <1>7
  <2>2. r[k] = b[k - (i - 1)]
    BY <1>2, <1>4, <1>5, <1>7, <2>1
  <2> QED
    BY <1>3, <2>1, <2>2
<1> QED
  BY <1>4, <1>5, <1>6, <1>7 DEF r

\* The filter in settleRecord keeps everybody else's place.
LEMMA WithoutQueue ==
    ASSUME NEW q \in Seq(Children), NEW c
    PROVE  /\ Without(q, c) \in Seq(Children)
           /\ Len(Without(q, c)) <= Len(q)
           /\ Unique(q) => Unique(Without(q, c))
           /\ \A d : InQueue(d, Without(q, c)) => InQueue(d, q)
           /\ \A d : d # c /\ InQueue(d, q) => InQueue(d, Without(q, c))
<1>1. Len(q) \in Nat /\ DOMAIN q = 1..Len(q)
  BY LenProperties
<1>2. CASE ~\E i \in DOMAIN q : q[i] = c
  BY <1>1, <1>2 DEF Without
<1>3. CASE \E i \in DOMAIN q : q[i] = c
  <2>1. PICK i \in 1..Len(q) :
           /\ q[i] = c
           /\ Without(q, c) = Removed(q, i)
    BY <1>1, <1>3 DEF Without, Removed
  <2> DEFINE r == Without(q, c)
  <2>2. /\ r \in Seq(Children)
        /\ Len(r) = Len(q) - 1
        /\ \A k \in 1..(Len(q) - 1) : r[k] = IF k < i THEN q[k] ELSE q[k + 1]
    BY <2>1, RemoveAt
  <2>3. DOMAIN r = 1..Len(r) /\ Len(r) \in Nat
    BY <2>2, LenProperties
  <2> HIDE DEF r
  <2>4. ASSUME Unique(q) PROVE Unique(r)
    <3> SUFFICES ASSUME NEW k \in 1..(Len(q) - 1), NEW m \in 1..(Len(q) - 1), r[k] = r[m]
                 PROVE  k = m
      BY <1>1, <2>2, <2>3 DEF Unique
    <3> DEFINE at(n) == IF n < i THEN n ELSE n + 1
    <3>1. at(k) \in 1..Len(q) /\ at(m) \in 1..Len(q)
      BY <1>1
    <3>2. r[k] = q[at(k)] /\ r[m] = q[at(m)]
      BY <2>2
    <3>3. at(k) = at(m)
      BY <1>1, <2>4, <3>1, <3>2 DEF Unique
    <3> QED
      BY <1>1, <3>3
  <2>5. ASSUME NEW d, InQueue(d, r) PROVE InQueue(d, q)
    BY <1>1, <2>2, <2>3, <2>5 DEF InQueue
  <2>6. ASSUME NEW d, d # c, InQueue(d, q) PROVE InQueue(d, r)
    <3>1. PICK j \in 1..Len(q) : q[j] = d
      BY <1>1, <2>6 DEF InQueue
    <3>2. CASE j < i
      BY <1>1, <2>2, <2>3, <3>1, <3>2 DEF InQueue
    <3>3. CASE j > i
      <4>1. j - 1 \in 1..Len(r) /\ ~(j - 1 < i) /\ (j - 1) + 1 = j
        BY <1>1, <2>2, <3>3
      <4>2. r[j - 1] = d
        BY <2>2, <3>1, <4>1
      <4> QED
        BY <2>3, <4>1, <4>2 DEF InQueue
    <3> QED
      BY <2>1, <2>6, <3>1, <3>2, <3>3
  <2> QED
    BY <1>1, <2>2, <2>4, <2>5, <2>6 DEF r
<1> QED
  BY <1>2, <1>3

\* Starting the head of the queue leaves everybody else's place.
LEMMA TailQueue ==
    ASSUME NEW q \in Seq(Children), q # << >>
    PROVE  /\ Head(q) \in Children
           /\ InQueue(Head(q), q)
           /\ Tail(q) \in Seq(Children)
           /\ Len(Tail(q)) <= Len(q)
           /\ Unique(q) => Unique(Tail(q))
           /\ \A d : InQueue(d, Tail(q)) => InQueue(d, q)
           /\ \A d : d # Head(q) /\ InQueue(d, q) => InQueue(d, Tail(q))
<1> DEFINE r == Tail(q)
<1>1. /\ Len(q) \in Nat \ {0}
      /\ DOMAIN q = 1..Len(q)
  BY LenProperties, EmptySeq
<1>2. /\ Head(q) \in Children
      /\ Head(q) = q[1]
      /\ r \in Seq(Children)
      /\ Len(r) = Len(q) - 1
      /\ \A i \in 1..Len(r) : r[i] = q[i + 1]
  BY HeadTailProperties
<1>3. DOMAIN r = 1..Len(r)
  BY <1>2, LenProperties
<1> HIDE DEF r
<1>4. InQueue(Head(q), q)
  BY <1>1, <1>2 DEF InQueue
<1>5. ASSUME Unique(q) PROVE Unique(r)
  <2>1. SUFFICES ASSUME NEW i \in 1..Len(r), NEW j \in 1..Len(r), r[i] = r[j]
                 PROVE  i = j
    BY <1>3 DEF Unique
  <2>2. i + 1 \in 1..Len(q) /\ j + 1 \in 1..Len(q) /\ q[i + 1] = q[j + 1]
    BY <1>1, <1>2, <2>1
  <2>3. i + 1 = j + 1
    BY <1>1, <1>5, <2>2 DEF Unique
  <2> QED
    BY <1>1, <1>2, <2>3
<1>6. ASSUME NEW d, InQueue(d, r) PROVE InQueue(d, q)
  BY <1>1, <1>2, <1>3, <1>6 DEF InQueue
<1>7. ASSUME NEW d, d # Head(q), InQueue(d, q) PROVE InQueue(d, r)
  <2>1. PICK j \in 1..Len(q) : q[j] = d
    BY <1>1, <1>7 DEF InQueue
  <2>2. j - 1 \in 1..Len(r) /\ (j - 1) + 1 = j
    BY <1>1, <1>2, <1>7, <2>1
  <2>3. r[j - 1] = d
    BY <1>2, <2>1, <2>2
  <2> QED
    BY <1>3, <2>2, <2>3 DEF InQueue
<1> QED
  BY <1>1, <1>2, <1>4, <1>5, <1>6, <1>7 DEF r

-----------------------------------------------------------------------------
(***************************************************************************)
(* Slots                                                                   *)
(***************************************************************************)
LEMMA LeasedFinite ==
    ASSUME TypeOK
    PROVE  IsFiniteSet(leased)
BY PoolAssumption, FS_Subset DEF TypeOK

\* Giving up a slot keeps the count right, held or not.
LEMMA ReleaseAccount ==
    ASSUME TypeOK, LeaseAccounting, NEW c, ReleaseLease(c)
    PROVE  /\ leased' \subseteq Children
           /\ active' \in Nat
           /\ active' = Cardinality(leased')
           /\ active' <= active
<1>1. IsFiniteSet(leased)
  BY LeasedFinite
<1>2. /\ IsFiniteSet(leased \ {c})
      /\ Cardinality(leased \ {c}) =
            IF c \in leased THEN Cardinality(leased) - 1 ELSE Cardinality(leased)
  BY <1>1, FS_RemoveElement
<1>3. Cardinality(leased \ {c}) \in Nat
  BY <1>2, FS_CardinalityType
<1> QED
  BY <1>2, <1>3 DEF ReleaseLease, LeaseAccounting, TypeOK

\* Taking one of the free slots keeps the count right and within its limit.
LEMMA TakeAccount ==
    ASSUME TypeOK, LeaseAccounting, NEW c \in Children, c \notin leased, active < MaxActive
    PROVE  /\ leased \cup {c} \subseteq Children
           /\ active + 1 \in Nat
           /\ active + 1 = Cardinality(leased \cup {c})
           /\ active + 1 <= MaxActive
<1>1. IsFiniteSet(leased)
  BY LeasedFinite
<1>2. Cardinality(leased \cup {c}) = Cardinality(leased) + 1
  BY <1>1, FS_AddElement
<1> QED
  BY <1>2, PoolAssumption DEF LeaseAccounting, TypeOK

-----------------------------------------------------------------------------
(***************************************************************************)
(* The three shapes of a handler                                           *)
(***************************************************************************)
\* What settleRecord leaves alone.
Aside(c) ==
    \A d \in Children \ {c} : st'[d] = st[d] /\ pend'[d] = pend[d] /\ sess'[d] = sess[d]

\* The verdict got through ...
Freed(c, p) ==
    /\ st'[c] = p.to
    /\ pend'[c] = NoPatch
    /\ c \in Isolated => sess'[c].state = p.to /\ sess'[c].lease = "released"
    /\ ReleaseLease(c)
    /\ queue' = Without(queue, c)
    /\ NextLoop

\* ... or it is kept and nothing is given up.
Kept(c, p) ==
    /\ st'[c] = "settlement_blocked"
    /\ pend'[c] = p
    /\ UNCHANGED <<leased, active, queue, loop>>

LEMMA SettleShape ==
    ASSUME TypeOK, NEW c \in Children, NEW r, RowOK(r), NEW p \in Patch, NEW fail,
           \A d \in Children : RowOK(sess[d]),
           SettleRecord(c, r, p, fail)
    PROVE  /\ st' \in [Children -> PoolStates]
           /\ pend' \in [Children -> Patch \cup {NoPatch}]
           /\ attempts' \in [Children -> Nat]
           /\ sess' \in [Children -> Session]
           /\ Aside(c)
           /\ RowOK(sess'[c])
           /\ sess'[c].lease \in {r.lease, "released"}
           /\ Freed(c, p) \/ Kept(c, p)
<1> DEFINE row == Committed(c, r, p, fail)
<1>1. /\ RowOK(row)
      /\ row.lease \in {r.lease, "released"}
      /\ c \in Isolated /\ Commits(c, r, p, fail) => row.state = p.to /\ row.lease = "released"
  BY CommittedRow
<1>2. p.to \in PoolStates
  BY PatchType DEF PoolStates
<1>3. row \in Session
  BY <1>1 DEF RowOK
<1>4. sess' = [sess EXCEPT ![c] = row]
  BY DEF SettleRecord
<1> HIDE DEF row
<1>5. /\ sess' \in [Children -> Session]
      /\ sess'[c] = row
      /\ \A d \in Children \ {c} : sess'[d] = sess[d]
  BY <1>3, <1>4 DEF TypeOK
<1>6. CASE Commits(c, r, p, fail)
  <2>1. /\ st' = [st EXCEPT ![c] = p.to]
        /\ pend' = [pend EXCEPT ![c] = NoPatch]
        /\ attempts' = attempts
        /\ ReleaseLease(c) /\ queue' = Without(queue, c) /\ NextLoop
    BY <1>6 DEF SettleRecord
  <2>2. Freed(c, p)
    BY <1>1, <1>5, <1>6, <2>1 DEF Freed, TypeOK
  <2> QED
    BY <1>1, <1>2, <1>5, <2>1, <2>2 DEF Aside, TypeOK
<1>7. CASE ~Commits(c, r, p, fail)
  <2>1. /\ st' = [st EXCEPT ![c] = "settlement_blocked"]
        /\ pend' = [pend EXCEPT ![c] = p]
        /\ attempts' = [attempts EXCEPT ![c] = @ + 1]
        /\ UNCHANGED <<leased, active, queue, loop>>
    BY <1>7 DEF SettleRecord, BlockSettlement
  <2>2. Kept(c, p)
    BY <2>1 DEF Kept, TypeOK
  <2>3. attempts' \in [Children -> Nat]
    BY <2>1 DEF TypeOK
  <2>4. st' \in [Children -> PoolStates]
    BY <2>1 DEF TypeOK, PoolStates
  <2> QED
    BY <1>1, <1>5, <2>1, <2>2, <2>3, <2>4 DEF Aside, TypeOK
<1> QED
  BY <1>6, <1>7

\* The frame of a child a step does not touch.
Same(d) ==
    /\ st'[d] = st[d] /\ pend'[d] = pend[d] /\ sess'[d] = sess[d]
    /\ reason'[d] = reason[d] /\ runner'[d] = runner[d] /\ result'[d] = result[d]
    /\ runs'[d] = runs[d]
    /\ d \in leased' <=> d \in leased
    /\ d \in opened' <=> d \in opened
    /\ d \in recovered' <=> d \in recovered
    /\ d \in sweep' <=> d \in sweep

LEMMA SameKeeps ==
    ASSUME NEW d \in Children, ChildInv(d), Same(d)
    PROVE  ChildInv(d)'
BY DEF ChildInv, Same, SlotInv, DurableInv, OwnedInv, FreshInv, ResultInv, SweepInv, RunInv,
       Settled

\* A row whose lease was given up stays out of the restart scan.
LEMMA ScanFollowsLease ==
    ASSUME NEW r, NEW q, RowOK(r), RowOK(q), r.lease = "released" => q.lease = "released"
    PROVE  NeedsReconciliation(q) => NeedsReconciliation(r)
BY RecoveryScan

\* What the handlers around settleRecord have in common: they touch only c,
\* whose runner is finished or as before, and start from the row r.
SettleContext(c, r) ==
    /\ reason' \in [Children -> Reasons \cup {NoReason}]
    /\ runner' \in [Children -> {"idle", "scheduled", "running", "returned"}]
    /\ result' \in [Children -> Result \cup {NoResult}]
    /\ opened' \subseteq Isolated /\ opened \subseteq opened'
    /\ c \in Isolated => c \in opened'
    /\ sweep' \subseteq sweep /\ c \notin sweep'
    /\ faults' \in Nat
    /\ UNCHANGED <<closed, cancelAll, recovered, crashes, runs>>
    /\ \A d \in Children \ {c} :
          /\ reason'[d] = reason[d] /\ runner'[d] = runner[d] /\ result'[d] = result[d]
          /\ d \in opened' <=> d \in opened
          /\ d \in sweep' <=> d \in sweep
    /\ runner'[c] = "idle" \/ (runner'[c] = runner[c] /\ result'[c] = result[c])
    /\ c \in opened' /\ r.lease = "active" => c \in leased \cup recovered
    /\ c \in recovered /\ sess[c].lease = "released" => r.lease = "released"
    /\ c \in Isolated /\ st[c] = "none" => Recovery = {}

\* A settlement attempt, successful or not, keeps the invariant.
LEMMA SettleKeeps ==
    ASSUME PoolInv, NEW c \in Children, NEW r, RowOK(r), NEW p \in Patch, NEW fail,
           ~Settled(c), SettleRecord(c, r, p, fail), SettleContext(c, r)
    PROVE  PoolInv'
<1>1. /\ TypeOK /\ LoopInv /\ LeaseAccounting /\ NoIdleCapacity /\ QueueInv /\ RecoveryInv
      /\ \A d \in Children : ChildInv(d)
      /\ \A d \in Children : RowOK(sess[d])
  BY DEF PoolInv, ChildInv
<1>2. /\ st' \in [Children -> PoolStates]
      /\ pend' \in [Children -> Patch \cup {NoPatch}]
      /\ attempts' \in [Children -> Nat]
      /\ sess' \in [Children -> Session]
      /\ Aside(c)
      /\ RowOK(sess'[c])
      /\ sess'[c].lease \in {r.lease, "released"}
      /\ Freed(c, p) \/ Kept(c, p)
  BY <1>1, SettleShape
<1>3. p.to \in TerminalStates
  BY PatchType
<1>4. /\ leased' \subseteq leased
      /\ \A d \in Children \ {c} : d \in leased' <=> d \in leased
      /\ Freed(c, p) => c \notin leased'
      /\ Kept(c, p) => leased' = leased
  BY <1>2 DEF Freed, Kept, ReleaseLease
<1>5. /\ queue' \in Seq(Children)
      /\ Len(queue') <= Len(queue)
      /\ Unique(queue')
      /\ \A d : InQueue(d, queue') => InQueue(d, queue)
      /\ \A d : d # c /\ InQueue(d, queue) => InQueue(d, queue')
  <2>1. CASE queue' = queue
    BY <1>1, <2>1, LenProperties DEF TypeOK, QueueInv
  <2>2. CASE queue' = Without(queue, c)
    BY <1>1, <2>2, WithoutQueue DEF TypeOK, QueueInv
  <2> QED
    BY <1>2, <2>1, <2>2 DEF Freed, Kept
<1>6. LeaseAccounting' /\ active' \in Nat
  <2>1. CASE Freed(c, p)
    BY <1>1, <2>1, ReleaseAccount, PoolAssumption DEF Freed, LeaseAccounting, TypeOK
  <2>2. CASE Kept(c, p)
    BY <1>1, <2>2 DEF Kept, LeaseAccounting, TypeOK
  <2> QED
    BY <1>2, <2>1, <2>2
<1>7. loop' \in {loop, "drain"} /\ (closed => loop' = loop)
  BY <1>2 DEF Freed, Kept, NextLoop
<1>8. TypeOK'
  BY <1>1, <1>2, <1>4, <1>5, <1>6, <1>7 DEF TypeOK, SettleContext
<1>9. ASSUME NEW d \in Children
      PROVE  ChildInv(d)'
  <2>1. CASE d # c
    BY <1>1, <1>2, <1>4, <2>1, SameKeeps DEF Same, Aside, SettleContext
  <2>2. CASE d = c
    <3>1. RowOK(sess'[c])
      BY <1>2
    <3>2. SlotInv(c)'
      BY <1>1, <1>2, <1>4 DEF ChildInv, SlotInv, Freed, Kept, TerminalStates
    <3>3. DurableInv(c)'
      BY <1>2 DEF DurableInv, Freed, Kept, Settled, TerminalStates
    <3>4. OwnedInv(c)'
      <4>1. CASE Freed(c, p)
        BY <4>1 DEF OwnedInv, Freed, SettleContext
      <4>2. CASE Kept(c, p)
        BY <1>2, <1>4, <4>2 DEF OwnedInv, SettleContext
      <4> QED
        BY <1>2, <4>1, <4>2
    <3>5. st'[c] \notin {"none", "queued"}
      BY <1>2, <1>3 DEF Freed, Kept, TerminalStates
    <3>6. FreshInv(c)' /\ SweepInv(c)'
      BY <3>5 DEF FreshInv, SweepInv, SettleContext
    <3>7. ResultInv(c)'
      BY <1>1 DEF ChildInv, ResultInv, SettleContext
    <3>8. RunInv(c)'
      BY <1>1, <3>5 DEF ChildInv, RunInv, SettleContext
    <3>9. c \in recovered' => c \in opened'
      BY <1>1 DEF ChildInv, SettleContext
    <3> QED
      BY <2>2, <3>1, <3>2, <3>3, <3>4, <3>6, <3>7, <3>8, <3>9 DEF ChildInv
  <2> QED
    BY <2>1, <2>2
<1>10. LoopInv'
  BY <1>1, <1>7 DEF LoopInv, SettleContext
<1>11. NoIdleCapacity'
  <2>1. CASE Freed(c, p)
    BY <1>1, <2>1 DEF NoIdleCapacity, Freed, NextLoop, LoopInv, SettleContext, TypeOK
  <2>2. CASE Kept(c, p)
    BY <1>1, <2>2 DEF NoIdleCapacity, Kept, SettleContext
  <2> QED
    BY <1>2, <2>1, <2>2
<1>12. QueueInv'
  <2>1. st'[c] \notin {"none", "queued"}
    BY <1>2, <1>3 DEF Freed, Kept, TerminalStates
  <2>2. Len(queue') <= MaxQueued
    BY <1>1, <1>5, LenProperties, PoolAssumption DEF QueueInv, TypeOK
  <2>3. ASSUME NEW d \in Children, InQueue(d, queue') PROVE st'[d] # "none"
    BY <1>1, <1>2, <1>5, <2>1, <2>3 DEF QueueInv, Aside
  <2>4. ASSUME NEW d \in Children, st'[d] = "queued" PROVE InQueue(d, queue') \/ d \in sweep'
    BY <1>1, <1>2, <1>5, <2>1, <2>4 DEF QueueInv, Aside, SettleContext
  <2> QED
    BY <1>5, <2>2, <2>3, <2>4 DEF QueueInv, InQueue, Unique
<1>13. RecoveryInv'
  <2>1. ASSUME NEW d \in Recovery' PROVE d \in Recovery
    <3>1. d \in Children /\ d \in recovered /\ NeedsReconciliation(sess'[d])
      BY <1>1, <2>1, PoolAssumption DEF Recovery, SettleContext, TypeOK
    <3>2. NeedsReconciliation(sess[d])
      BY <1>1, <1>2, <3>1, ScanFollowsLease DEF Aside, SettleContext
    <3> QED
      BY <3>1, <3>2 DEF Recovery
  <2>2. ASSUME Recovery' # {}, NEW d \in Isolated PROVE st'[d] = "none"
    BY <1>1, <1>2, <2>1, <2>2, PoolAssumption DEF RecoveryInv, Resident, Aside, SettleContext
  <2> QED
    BY <2>2 DEF RecoveryInv, Resident
<1> QED
  BY <1>6, <1>8, <1>9, <1>10, <1>11, <1>12, <1>13 DEF PoolInv

\* A child that takes a slot and whose runner is scheduled.
Started(c) ==
    /\ st'[c] = "running"
    /\ pend'[c] = pend[c]
    /\ runner' = [runner EXCEPT ![c] = "scheduled"]
    /\ leased' = leased \cup {c} /\ active' = active + 1

\* A child whose activation was refused and whose failure is not durable.
StartBlocked(c) ==
    /\ st'[c] = "settlement_blocked"
    /\ runner' = runner
    /\ leased' = leased \cup {c} /\ active' = active + 1

\* A child whose activation was refused and that settled as failed.
StartFailed(c) ==
    /\ st'[c] = "failed"
    /\ runner' = runner
    /\ sess'[c].state = "failed" /\ sess'[c].lease = "released"
    /\ UNCHANGED <<leased, active>>

LEMMA StartShape ==
    ASSUME TypeOK, NEW c \in Children, NEW r, RowOK(r), NEW fail, StartRecord(c, r, fail)
    PROVE  /\ st' \in [Children -> PoolStates]
           /\ pend' \in [Children -> Patch \cup {NoPatch}]
           /\ attempts' \in [Children -> Nat]
           /\ sess' \in [Children -> Session]
           /\ UNCHANGED <<reason, result>>
           /\ Aside(c)
           /\ RowOK(sess'[c])
           /\ r.lease = "released" => sess'[c].lease = "released"
           /\ Started(c) \/ StartBlocked(c) \/ StartFailed(c)
<1> DEFINE failure == Verdict("failed", NoReason, NoReceipt, "none")
           refused == c \in Isolated /\ ("transition" \in fail \/ ~CanActivateLease(r))
           settled == Commits(c, r, failure, fail)
           row     == Committed(c, r, failure, fail)
           begun   == IF c \in Isolated THEN ActivateLease(r) ELSE r
<1>1. failure \in Patch
  BY DEF Verdict, Patch, TerminalStates, Outcomes
<1>2. /\ RowOK(row)
      /\ row.lease \in {r.lease, "released"}
      /\ c \in Isolated /\ settled => row.state = "failed" /\ row.lease = "released"
  BY <1>1, CommittedRow DEF Verdict
<1>3. UNCHANGED <<reason, result>>
  BY DEF StartRecord
<1>4. CASE ~refused
  <2>1. /\ st' = [st EXCEPT ![c] = "running"]
        /\ runner' = [runner EXCEPT ![c] = "scheduled"]
        /\ sess' = [sess EXCEPT ![c] = begun]
        /\ UNCHANGED <<pend, attempts>>
        /\ leased' = leased \cup {c} /\ active' = active + 1
    BY <1>4 DEF StartRecord
  <2>2. RowOK(begun)
    BY <1>4, ActivateOK
  <2>3. r.lease = "released" => begun.lease = "released"
    <3>1. ASSUME c \in Isolated PROVE r.lease # "released"
      BY <1>4, <3>1 DEF CanActivateLease, MayBecome, ALLOWED_TRANSITIONS, RowOK, RowConsistent,
                        Session
    <3> QED
      BY <3>1
  <2>4. begun \in Session
    BY <2>2 DEF RowOK
  <2> HIDE DEF begun
  <2>5. /\ sess' \in [Children -> Session]
        /\ sess'[c] = begun
        /\ \A d \in Children \ {c} : sess'[d] = sess[d]
    BY <2>1, <2>4 DEF TypeOK
  <2>6. st' \in [Children -> PoolStates] /\ st'[c] = "running"
    BY <2>1 DEF TypeOK, PoolStates
  <2> QED
    BY <1>3, <2>1, <2>2, <2>3, <2>5, <2>6 DEF Aside, Started, TypeOK
<1>5. CASE refused /\ settled
  <2>1. /\ st' = [st EXCEPT ![c] = "failed"]
        /\ pend' = [pend EXCEPT ![c] = NoPatch]
        /\ attempts' = [attempts EXCEPT ![c] = @]
        /\ sess' = [sess EXCEPT ![c] = row]
        /\ UNCHANGED <<runner, leased, active>>
    BY <1>5 DEF StartRecord
  <2>2. row \in Session /\ row.state = "failed" /\ row.lease = "released"
    BY <1>2, <1>5 DEF RowOK
  <2> HIDE DEF row
  <2>3. /\ sess' \in [Children -> Session]
        /\ sess'[c] = row
        /\ \A d \in Children \ {c} : sess'[d] = sess[d]
    BY <2>1, <2>2 DEF TypeOK
  <2>4. st' \in [Children -> PoolStates] /\ st'[c] = "failed"
    BY <2>1 DEF TypeOK, PoolStates, TerminalStates
  <2>5. attempts' \in [Children -> Nat] /\ pend' \in [Children -> Patch \cup {NoPatch}]
    BY <2>1 DEF TypeOK
  <2> QED
    BY <1>2, <1>3, <2>1, <2>2, <2>3, <2>4, <2>5 DEF Aside, StartFailed, TypeOK
<1>6. CASE refused /\ ~settled
  <2>1. /\ st' = [st EXCEPT ![c] = "settlement_blocked"]
        /\ pend' = [pend EXCEPT ![c] = failure]
        /\ attempts' = [attempts EXCEPT ![c] = @ + 1]
        /\ sess' = [sess EXCEPT ![c] = row]
        /\ UNCHANGED runner
        /\ leased' = leased \cup {c} /\ active' = active + 1
    BY <1>6 DEF StartRecord
  <2>2. row \in Session
    BY <1>2 DEF RowOK
  <2> HIDE DEF row, failure
  <2>3. /\ sess' \in [Children -> Session]
        /\ sess'[c] = row
        /\ \A d \in Children \ {c} : sess'[d] = sess[d]
    BY <2>1, <2>2 DEF TypeOK
  <2>4. st' \in [Children -> PoolStates] /\ st'[c] = "settlement_blocked"
    BY <2>1 DEF TypeOK, PoolStates
  <2>5. attempts' \in [Children -> Nat] /\ pend' \in [Children -> Patch \cup {NoPatch}]
    BY <1>1, <2>1 DEF TypeOK
  <2> QED
    BY <1>2, <1>3, <2>1, <2>3, <2>4, <2>5 DEF Aside, StartBlocked, TypeOK
<1> QED
  BY <1>4, <1>5, <1>6

\* What launch and drain have in common when they start a child: it holds no
\* slot, there is a free one, and the queue loses at most this child.
StartContext(c, r) ==
    /\ c \notin leased /\ active < MaxActive
    /\ st[c] \in {"none", "queued"}
    /\ c \in Isolated => runs[c] = 0
    /\ c \in Isolated /\ st[c] = "none" => Recovery = {}
    /\ c \in recovered /\ sess[c].lease = "released" => r.lease = "released"
    /\ opened' \subseteq Isolated /\ opened \subseteq opened'
    /\ c \in Isolated => c \in opened'
    /\ \A d \in Children \ {c} : d \in opened' <=> d \in opened
    /\ loop \in {"idle", "drain"} /\ loop' \in {"idle", "drain"}
    /\ loop' # "idle" \/ queue' = << >>
    /\ queue' \in Seq(Children)
    /\ Len(queue') <= Len(queue)
    /\ Unique(queue')
    /\ \A d : InQueue(d, queue') => InQueue(d, queue)
    /\ \A d : d # c /\ InQueue(d, queue) => InQueue(d, queue')
    /\ faults' \in Nat
    /\ UNCHANGED <<closed, cancelAll, sweep, recovered, crashes, runs>>

\* Starting a child, refused or not, keeps the invariant.
LEMMA StartKeeps ==
    ASSUME PoolInv, NEW c \in Children, NEW r, RowOK(r), NEW fail,
           StartRecord(c, r, fail), StartContext(c, r)
    PROVE  PoolInv'
<1>1. /\ TypeOK /\ LoopInv /\ LeaseAccounting /\ NoIdleCapacity /\ QueueInv /\ RecoveryInv
      /\ \A d \in Children : ChildInv(d)
      /\ \A d \in Children : RowOK(sess[d])
  BY DEF PoolInv, ChildInv
<1>2. /\ st' \in [Children -> PoolStates]
      /\ pend' \in [Children -> Patch \cup {NoPatch}]
      /\ attempts' \in [Children -> Nat]
      /\ sess' \in [Children -> Session]
      /\ UNCHANGED <<reason, result>>
      /\ Aside(c)
      /\ RowOK(sess'[c])
      /\ r.lease = "released" => sess'[c].lease = "released"
      /\ Started(c) \/ StartBlocked(c) \/ StartFailed(c)
  BY <1>1, StartShape
<1>3. /\ \A d \in Children \ {c} : (d \in leased' <=> d \in leased) /\ runner'[d] = runner[d]
      /\ runner' \in [Children -> {"idle", "scheduled", "running", "returned"}]
      /\ runner'[c] \in {"idle", "scheduled"}
  BY <1>1, <1>2 DEF Started, StartBlocked, StartFailed, TypeOK, ChildInv, FreshInv, StartContext
<1>4. LeaseAccounting' /\ active' \in Nat /\ leased' \subseteq Children
  <2>1. CASE leased' = leased \cup {c} /\ active' = active + 1
    BY <1>1, <2>1, TakeAccount DEF LeaseAccounting, StartContext
  <2>2. CASE UNCHANGED <<leased, active>>
    BY <1>1, <2>2 DEF LeaseAccounting, TypeOK
  <2> QED
    BY <1>2, <2>1, <2>2 DEF Started, StartBlocked, StartFailed
<1>5. TypeOK'
  BY <1>1, <1>2, <1>3, <1>4 DEF TypeOK, StartContext
<1>6. ASSUME NEW d \in Children
      PROVE  ChildInv(d)'
  <2>1. CASE d # c
    BY <1>1, <1>2, <1>3, <2>1, SameKeeps DEF Same, Aside, StartContext
  <2>2. CASE d = c
    <3>1. RowOK(sess'[c])
      BY <1>2
    <3>2. SlotInv(c)'
      BY <1>2 DEF SlotInv, Started, StartBlocked, StartFailed, StartContext, TerminalStates
    <3>3. DurableInv(c)'
      BY <1>2 DEF DurableInv, Started, StartBlocked, StartFailed, Settled, TerminalStates
    <3>4. OwnedInv(c)'
      BY <1>2 DEF OwnedInv, Started, StartBlocked, StartFailed
    <3>5. st'[c] \notin {"none", "queued"}
      BY <1>2 DEF Started, StartBlocked, StartFailed
    <3>6. FreshInv(c)'
      BY <3>5 DEF FreshInv
    <3>7. ResultInv(c)'
      BY <1>3 DEF ResultInv
    <3>8. SweepInv(c)'
      BY <1>1 DEF SweepInv, LoopInv, StartContext
    <3>9. RunInv(c)'
      BY DEF RunInv, StartContext
    <3>10. c \in recovered' => c \in opened'
      BY <1>1 DEF ChildInv, StartContext
    <3> QED
      BY <2>2, <3>1, <3>2, <3>3, <3>4, <3>6, <3>7, <3>8, <3>9, <3>10 DEF ChildInv
  <2> QED
    BY <2>1, <2>2
<1>7. LoopInv'
  BY <1>1 DEF LoopInv, StartContext
<1>8. NoIdleCapacity'
  BY DEF NoIdleCapacity, StartContext
<1>9. QueueInv'
  <2>1. st'[c] \notin {"none", "queued"}
    BY <1>2 DEF Started, StartBlocked, StartFailed
  <2>2. Len(queue') <= MaxQueued
    BY <1>1, LenProperties, PoolAssumption DEF QueueInv, TypeOK, StartContext
  <2>3. ASSUME NEW d \in Children, InQueue(d, queue') PROVE st'[d] # "none"
    BY <1>1, <1>2, <2>1, <2>3 DEF QueueInv, Aside, StartContext
  <2>4. ASSUME NEW d \in Children, st'[d] = "queued" PROVE InQueue(d, queue') \/ d \in sweep'
    BY <1>1, <1>2, <2>1, <2>4 DEF QueueInv, Aside, StartContext
  <2>5. Unique(queue')
    BY DEF StartContext
  <2> QED
    BY <2>2, <2>3, <2>4, <2>5 DEF QueueInv, InQueue, Unique
<1>10. RecoveryInv'
  <2>1. ASSUME NEW d \in Recovery' PROVE d \in Recovery
    <3>1. d \in Children /\ d \in recovered /\ NeedsReconciliation(sess'[d])
      BY <1>1, <2>1, PoolAssumption DEF Recovery, StartContext, TypeOK
    <3>2. NeedsReconciliation(sess[d])
      BY <1>1, <1>2, <3>1, ScanFollowsLease DEF Aside, StartContext
    <3> QED
      BY <3>1, <3>2 DEF Recovery
  <2>2. ASSUME Recovery' # {}, NEW d \in Isolated PROVE st'[d] = "none"
    BY <1>1, <1>2, <2>1, <2>2, PoolAssumption DEF RecoveryInv, Resident, Aside, StartContext
  <2> QED
    BY <2>2 DEF RecoveryInv, Resident
<1> QED
  BY <1>4, <1>5, <1>6, <1>7, <1>8, <1>9, <1>10 DEF PoolInv

\* What an unsettled, started child goes through without a settlement: a new
\* state, perhaps a reason, and a row that takes nothing.
Touched(c, x, why, row) ==
    /\ x \in {"cancelling", "cancellation_unacknowledged"}
    /\ why \in Reasons \cup {NoReason}
    /\ RowOK(row) /\ row.lease \in {sess[c].lease, "released"}
    /\ st' = [st EXCEPT ![c] = x]
    /\ reason' = [reason EXCEPT ![c] = why]
    /\ sess' = [sess EXCEPT ![c] = row]
    /\ runner' \in [Children -> {"idle", "scheduled", "running", "returned"}]
    /\ result' \in [Children -> Result \cup {NoResult}]
    /\ \A d \in Children \ {c} : runner'[d] = runner[d] /\ result'[d] = result[d]
    /\ runner'[c] = "idle" \/ (runner'[c] = runner[c] /\ result'[c] = result[c])
    /\ sweep' \subseteq sweep
    /\ \A d \in Children \ {c} : d \in sweep' <=> d \in sweep
    /\ faults' \in Nat
    /\ UNCHANGED <<pend, attempts, capacity, closed, cancelAll, loop, recovered, opened,
                   crashes, runs>>

LEMMA TouchKeeps ==
    ASSUME PoolInv, NEW c \in Children, st[c] \notin {"none", "queued"} \cup TerminalStates,
           NEW x, NEW why, NEW row, Touched(c, x, why, row)
    PROVE  PoolInv'
<1>1. /\ TypeOK /\ LoopInv /\ LeaseAccounting /\ NoIdleCapacity /\ QueueInv /\ RecoveryInv
      /\ \A d \in Children : ChildInv(d)
      /\ \A d \in Children : RowOK(sess[d])
  BY DEF PoolInv, ChildInv
<1>2. /\ st' \in [Children -> PoolStates]
      /\ st'[c] \in {"cancelling", "cancellation_unacknowledged"}
      /\ \A d \in Children \ {c} : st'[d] = st[d]
  BY <1>1 DEF Touched, TypeOK, PoolStates
<1>3. /\ sess' \in [Children -> Session]
      /\ RowOK(sess'[c])
      /\ sess'[c].lease \in {sess[c].lease, "released"}
      /\ \A d \in Children \ {c} : sess'[d] = sess[d]
  BY <1>1 DEF Touched, TypeOK, RowOK
<1>4. /\ reason' \in [Children -> Reasons \cup {NoReason}]
      /\ \A d \in Children \ {c} : reason'[d] = reason[d]
  BY <1>1 DEF Touched, TypeOK
<1>5. TypeOK'
  BY <1>1, <1>2, <1>3, <1>4 DEF TypeOK, Touched, capacity
<1>6. ASSUME NEW d \in Children
      PROVE  ChildInv(d)'
  <2>1. CASE d # c
    BY <1>1, <1>2, <1>3, <1>4, <2>1, SameKeeps DEF Same, Touched, capacity
  <2>2. CASE d = c
    <3>1. SlotInv(c)' /\ DurableInv(c)' /\ FreshInv(c)' /\ SweepInv(c)'
      BY <1>2 DEF SlotInv, DurableInv, FreshInv, SweepInv, Settled, TerminalStates
    <3>2. OwnedInv(c)'
      BY <1>1, <1>3 DEF ChildInv, OwnedInv, Touched, capacity
    <3>3. ResultInv(c)' /\ RunInv(c)' /\ (c \in recovered' => c \in opened')
      BY <1>1, <1>2 DEF ChildInv, ResultInv, RunInv, Touched
    <3> QED
      BY <1>3, <2>2, <3>1, <3>2, <3>3 DEF ChildInv
  <2> QED
    BY <2>1, <2>2
<1>7. LoopInv' /\ LeaseAccounting' /\ NoIdleCapacity'
  BY <1>1 DEF LoopInv, LeaseAccounting, NoIdleCapacity, Touched, capacity
<1>8. QueueInv'
  BY <1>1, <1>2 DEF QueueInv, InQueue, Unique, Touched, capacity
<1>9. RecoveryInv'
  <2>1. ASSUME NEW d \in Recovery' PROVE d \in Recovery
    <3>1. d \in Children /\ d \in recovered /\ NeedsReconciliation(sess'[d])
      BY <1>1, <2>1, PoolAssumption DEF Recovery, Touched, TypeOK
    <3>2. NeedsReconciliation(sess[d])
      BY <1>1, <1>3, <3>1, ScanFollowsLease
    <3> QED
      BY <3>1, <3>2 DEF Recovery
  <2>2. ASSUME Recovery' # {}, NEW d \in Isolated PROVE st'[d] = "none"
    BY <1>1, <1>2, <2>1, <2>2, PoolAssumption DEF RecoveryInv, Resident
  <2> QED
    BY <2>2 DEF RecoveryInv, Resident
<1> QED
  BY <1>5, <1>6, <1>7, <1>8, <1>9 DEF PoolInv

\* cancelRecord in both its forms keeps the invariant.
LEMMA CancelKeeps ==
    ASSUME PoolInv, NEW c \in Children, NEW r, RowOK(r), NEW why \in Reasons, NEW fail,
           ~Settled(c), CancelRecord(c, r, why, fail),
           c \in leased => r = sess[c] /\ opened' = opened,
           opened' \subseteq Isolated, opened \subseteq opened', c \in Isolated => c \in opened',
           \A d \in Children \ {c} : d \in opened' <=> d \in opened,
           c \in opened' /\ r.lease = "active" => c \in leased \cup recovered,
           c \in recovered /\ sess[c].lease = "released" => r.lease = "released",
           c \in Isolated /\ st[c] = "none" => Recovery = {},
           sweep' \subseteq sweep, c \notin sweep',
           \A d \in Children \ {c} : d \in sweep' <=> d \in sweep,
           faults' \in Nat,
           UNCHANGED <<closed, cancelAll, recovered, crashes, runs>>
    PROVE  PoolInv'
<1>1. TypeOK /\ ChildInv(c) /\ \A d \in Children : RowOK(sess[d])
  BY DEF PoolInv, ChildInv
<1> DEFINE asked == IF c \in Isolated /\ "transition" \notin fail THEN Requested(r, why) ELSE r
           p     == Verdict("cancelled", why, NoReceipt, "none")
<1>2. RowOK(asked) /\ asked.lease \in {r.lease, "released"}
  BY RequestedRow
<1>3. reason' = [reason EXCEPT ![c] = why] /\ UNCHANGED <<runner, result>>
  BY DEF CancelRecord
<1>4. CASE c \in leased
  <2>1. Touched(c, "cancelling", why, asked)
    <3>1. /\ st' = [st EXCEPT ![c] = "cancelling"]
          /\ sess' = [sess EXCEPT ![c] = asked]
          /\ UNCHANGED <<pend, attempts, leased, active, queue, loop>>
      BY <1>4 DEF CancelRecord
    <3> HIDE DEF asked
    <3> QED
      BY <1>1, <1>2, <1>3, <1>4, <3>1 DEF Touched, capacity, TypeOK
  <2>2. st[c] \notin {"none", "queued"} \cup TerminalStates
    BY <1>1, <1>4 DEF ChildInv, SlotInv
  <2> QED
    BY <2>1, <2>2, TouchKeeps
<1>5. CASE c \notin leased
  <2>1. SettleRecord(c, asked, p, fail)
    BY <1>5 DEF CancelRecord
  <2>2. p \in Patch
    BY ReasonAssumption DEF Verdict, Patch, TerminalStates, Outcomes
  <2>3. SettleContext(c, asked)
    <3> HIDE DEF asked
    <3>1. reason' \in [Children -> Reasons \cup {NoReason}]
      BY <1>1, <1>3 DEF TypeOK
    <3>2. \A d \in Children \ {c} : reason'[d] = reason[d]
      BY <1>1, <1>3 DEF TypeOK
    <3> QED
      BY <1>1, <1>2, <1>3, <3>1, <3>2 DEF SettleContext, TypeOK
  <2> HIDE DEF asked, p
  <2> QED
    BY <1>2, <2>1, <2>2, <2>3, SettleKeeps
<1> QED
  BY <1>4, <1>5

-----------------------------------------------------------------------------
(***************************************************************************)
(* One lemma per action                                                    *)
(***************************************************************************)
LEMMA FaultsType ==
    ASSUME TypeOK, NEW c, NEW fail \in SUBSET Calls, RegistryFaults(c, fail)
    PROVE  faults' \in Nat
<1>1. IsFiniteSet(Calls)
  <2>1. IsFiniteSet({"transition"})
    BY FS_Singleton
  <2>2. IsFiniteSet({"transition"} \cup {"request"})
    BY <2>1, FS_AddElement
  <2>3. IsFiniteSet(({"transition"} \cup {"request"}) \cup {"commit"})
    BY <2>2, FS_AddElement
  <2>4. Calls = ({"transition"} \cup {"request"}) \cup {"commit"}
    BY DEF Calls
  <2> QED
    BY <2>3, <2>4
<1>2. Cardinality(fail) \in Nat
  BY <1>1, FS_Subset, FS_CardinalityType
<1> QED
  BY <1>2 DEF RegistryFaults, TypeOK

\* The parts of the invariant, and what an idle pool has besides.
LEMMA Parts ==
    ASSUME PoolInv
    PROVE  /\ TypeOK /\ LoopInv /\ LeaseAccounting /\ NoIdleCapacity /\ QueueInv /\ RecoveryInv
           /\ \A c \in Children : ChildInv(c) /\ RowOK(sess[c])
           /\ loop # "sweep" => sweep = {}
BY DEF PoolInv, ChildInv, LoopInv

LEMMA InitKeeps == Init => PoolInv
<1> SUFFICES ASSUME Init PROVE PoolInv
  OBVIOUS
<1>1. TypeOK
  BY NewSessionOK, EmptySeq DEF Init, TypeOK, PoolStates, RowOK
<1>2. \A c \in Children : ChildInv(c)
  BY NewSessionOK DEF Init, ChildInv, SlotInv, DurableInv, OwnedInv, FreshInv, ResultInv,
                      SweepInv, RunInv, Settled, TerminalStates, NewSession
<1>3. LeaseAccounting
  BY FS_EmptySet, PoolAssumption DEF Init, LeaseAccounting
<1>4. LoopInv /\ NoIdleCapacity /\ RecoveryInv
  BY DEF Init, LoopInv, NoIdleCapacity, RecoveryInv, Recovery
<1>5. QueueInv
  <2>1. Len(queue) = 0 /\ DOMAIN queue = {}
    BY EmptySeq DEF Init
  <2>2. \A c \in Children : st[c] = "none"
    BY DEF Init
  <2> QED
    BY <2>1, <2>2, PoolAssumption DEF QueueInv, Unique, InQueue
<1> QED
  BY <1>1, <1>2, <1>3, <1>4, <1>5 DEF PoolInv

LEMMA LaunchAcceptedKeeps ==
    ASSUME PoolInv, NEW c \in Children, LaunchAccepted(c)
    PROVE  PoolInv'
<1>1. /\ TypeOK /\ NoIdleCapacity /\ QueueInv /\ ChildInv(c)
  BY Parts
<1>2. PICK fail \in SUBSET Calls : RegistryFaults(c, fail) /\ StartRecord(c, NewSession, fail)
  BY DEF LaunchAccepted
<1>3. /\ loop = "idle" /\ ~closed /\ st[c] = "none" /\ c \notin opened /\ active < MaxActive
      /\ c \in Isolated => Recovery = {}
      /\ loop' \in {"idle", "drain"}
      /\ Opens(c)
      /\ UNCHANGED <<queue, closed, cancelAll, sweep, recovered, crashes, runs>>
  BY DEF LaunchAccepted, Admissible, Resident
<1>4. queue = << >>
  BY <1>1, <1>3, PoolAssumption DEF NoIdleCapacity, TypeOK
<1>5. c \notin leased /\ c \notin recovered /\ (c \in Isolated => runs[c] = 0)
  BY <1>1, <1>3 DEF ChildInv, SlotInv, RunInv
<1>6. /\ opened' \subseteq Isolated /\ opened \subseteq opened'
      /\ c \in Isolated => c \in opened'
      /\ \A d \in Children \ {c} : d \in opened' <=> d \in opened
  BY <1>1, <1>3 DEF Opens, TypeOK
<1>7. faults' \in Nat
  BY <1>1, <1>2, FaultsType
<1>8. Len(queue') <= Len(queue)
  BY <1>1, <1>3, LenProperties DEF TypeOK
<1>9. StartContext(c, NewSession)
  BY <1>1, <1>3, <1>4, <1>5, <1>6, <1>7, <1>8 DEF StartContext, TypeOK, QueueInv
<1> QED
  BY <1>2, <1>9, NewSessionOK, StartKeeps

LEMMA LaunchQueuedKeeps ==
    ASSUME PoolInv, NEW c \in Children, LaunchQueued(c)
    PROVE  PoolInv'
<1>1. /\ TypeOK /\ LoopInv /\ LeaseAccounting /\ NoIdleCapacity /\ QueueInv /\ RecoveryInv
      /\ \A d \in Children : ChildInv(d)
  BY Parts
<1>2. /\ loop = "idle" /\ ~closed /\ st[c] = "none" /\ c \notin opened /\ active >= MaxActive
      /\ c \in Isolated => Recovery = {}
      /\ Len(queue) < MaxQueued \/ active < MaxActive
      /\ Opens(c)
      /\ st' = [st EXCEPT ![c] = "queued"]
      /\ sess' = [sess EXCEPT ![c] = NewSession]
      /\ queue' = Append(queue, c)
      /\ UNCHANGED <<reason, pend, attempts, runner, result, leased, active>>
      /\ UNCHANGED <<closed, cancelAll, loop, sweep, recovered, faults, crashes, runs>>
  BY DEF LaunchQueued, Admissible, Resident, control, history
<1>3. /\ opened' \subseteq Isolated
      /\ \A d \in Children \ {c} : d \in opened' <=> d \in opened
      /\ opened \subseteq opened'
      /\ c \in Isolated => c \in opened'
  BY <1>1, <1>2 DEF Opens, TypeOK
<1>4. /\ queue \in Seq(Children)
      /\ Len(queue) \in Nat /\ DOMAIN queue = 1..Len(queue)
      /\ queue' \in Seq(Children)
      /\ Len(queue') = Len(queue) + 1
      /\ DOMAIN queue' = 1..(Len(queue) + 1)
      /\ \A i \in 1..Len(queue) : queue'[i] = queue[i]
      /\ queue'[Len(queue) + 1] = c
  BY <1>1, <1>2, LenProperties, AppendProperties DEF TypeOK
<1>5. ~InQueue(c, queue)
  BY <1>1, <1>2 DEF QueueInv
<1>6. /\ st' \in [Children -> PoolStates]
      /\ st'[c] = "queued"
      /\ \A d \in Children \ {c} : st'[d] = st[d]
  BY <1>1, <1>2 DEF TypeOK, PoolStates
<1>7. /\ sess' \in [Children -> Session]
      /\ sess'[c] = NewSession
      /\ \A d \in Children \ {c} : sess'[d] = sess[d]
  BY <1>1, <1>2, NewSessionOK DEF TypeOK, RowOK
<1>8. TypeOK'
  BY <1>1, <1>2, <1>3, <1>4, <1>6, <1>7 DEF TypeOK
<1>9. ASSUME NEW d \in Children
      PROVE  ChildInv(d)'
  <2>1. CASE d # c
    BY <1>1, <1>2, <1>3, <1>6, <1>7, <2>1, SameKeeps DEF Same
  <2>2. CASE d = c
    <3>1. ChildInv(c)
      BY <1>1
    <3>2. NewSession.lease = "reserved"
      BY DEF NewSession
    <3> QED
      BY <1>2, <1>3, <1>6, <1>7, <2>2, <3>1, <3>2, NewSessionOK
         DEF ChildInv, SlotInv, DurableInv, OwnedInv, FreshInv, ResultInv, SweepInv, RunInv,
             Settled, TerminalStates
  <2> QED
    BY <2>1, <2>2
<1>10. LoopInv' /\ LeaseAccounting' /\ NoIdleCapacity'
  BY <1>1, <1>2, PoolAssumption DEF LoopInv, LeaseAccounting, NoIdleCapacity, TypeOK
<1>11. QueueInv'
  <2>1. Len(queue') <= MaxQueued
    BY <1>1, <1>2, <1>4, PoolAssumption DEF TypeOK
  <2>2. Unique(queue')
    <3>1. SUFFICES ASSUME NEW i \in DOMAIN queue', NEW j \in DOMAIN queue', queue'[i] = queue'[j]
                   PROVE  i = j
      BY DEF Unique
    <3>2. \A k \in 1..Len(queue) : queue[k] # c
      BY <1>4, <1>5 DEF InQueue
    <3>3. \A k, l \in 1..Len(queue) : queue[k] = queue[l] => k = l
      BY <1>1, <1>4 DEF QueueInv, Unique
    <3> QED
      BY <1>4, <3>1, <3>2, <3>3
  <2>3. \A d : InQueue(d, queue') <=> InQueue(d, queue) \/ d = c
    BY <1>4 DEF InQueue
  <2>4. \A d \in Children : InQueue(d, queue') => st'[d] # "none"
    BY <1>1, <1>6, <2>3 DEF QueueInv
  <2>5. \A d \in Children : st'[d] = "queued" => InQueue(d, queue') \/ d \in sweep'
    BY <1>1, <1>2, <1>6, <2>3 DEF QueueInv
  <2> QED
    BY <2>1, <2>2, <2>4, <2>5 DEF QueueInv, Unique, InQueue
<1>12. RecoveryInv'
  <2>1. ASSUME NEW d \in Recovery' PROVE d \in Recovery /\ d # c
    BY <1>1, <1>2, <1>7, <2>1, PoolAssumption DEF Recovery, ChildInv, TypeOK
  <2>2. ASSUME Recovery' # {}, NEW d \in Isolated PROVE st'[d] = "none"
    BY <1>1, <1>2, <1>6, <2>1, <2>2, PoolAssumption DEF RecoveryInv, Resident
  <2> QED
    BY <2>2 DEF RecoveryInv, Resident
<1> QED
  BY <1>8, <1>9, <1>10, <1>11, <1>12 DEF PoolInv

LEMMA LaunchAbortedKeeps ==
    ASSUME PoolInv, NEW c \in Children, NEW why \in TypedReasons, LaunchAborted(c, why)
    PROVE  PoolInv'
<1>1. TypeOK /\ ChildInv(c) /\ (loop # "sweep" => sweep = {})
  BY Parts
<1>2. PICK fail \in SUBSET Calls : RegistryFaults(c, fail) /\ CancelRecord(c, NewSession, why, fail)
  BY DEF LaunchAborted
<1>3. /\ loop = "idle" /\ st[c] = "none" /\ c \notin opened
      /\ c \in Isolated => Recovery = {}
      /\ Opens(c)
      /\ UNCHANGED <<closed, cancelAll, sweep, recovered, crashes, runs>>
  BY DEF LaunchAborted, Admissible, Resident
<1>4. /\ c \notin leased /\ c \notin recovered /\ c \notin sweep /\ ~Settled(c)
  BY <1>1, <1>3 DEF ChildInv, SlotInv, Settled, TerminalStates
<1>5. /\ opened' \subseteq Isolated /\ opened \subseteq opened'
      /\ c \in Isolated => c \in opened'
      /\ \A d \in Children \ {c} : d \in opened' <=> d \in opened
  BY <1>1, <1>3 DEF Opens, TypeOK
<1>6. faults' \in Nat
  BY <1>1, <1>2, FaultsType
<1>7. NewSession.lease = "reserved" /\ why \in Reasons
  BY PoolAssumption DEF NewSession
<1> QED
  BY <1>2, <1>3, <1>4, <1>5, <1>6, <1>7, NewSessionOK, CancelKeeps

LEMMA LaunchReplayedKeeps ==
    ASSUME PoolInv, NEW c \in Children, LaunchReplayed(c)
    PROVE  PoolInv'
<1>1. /\ TypeOK /\ LoopInv /\ LeaseAccounting /\ NoIdleCapacity /\ QueueInv /\ RecoveryInv
      /\ \A d \in Children : ChildInv(d)
  BY Parts
<1>2. /\ st[c] = "none" /\ Recovery = {} /\ c \in opened
      /\ sess[c].state \in TerminalStates
      /\ st' = [st EXCEPT ![c] = sess[c].state]
      /\ reason' = [reason EXCEPT ![c] = sess[c].reason]
      /\ UNCHANGED <<pend, attempts, runner, result, leased, active, queue, closed, cancelAll,
                     loop, sweep, recovered, opened, sess, faults, crashes, runs>>
  BY DEF LaunchReplayed, Resident, capacity, control, durable, history
<1>3. /\ st' \in [Children -> PoolStates]
      /\ st'[c] = sess[c].state
      /\ \A d \in Children \ {c} : st'[d] = st[d]
  BY <1>1, <1>2 DEF TypeOK, PoolStates
<1>4. /\ reason' \in [Children -> Reasons \cup {NoReason}]
      /\ \A d \in Children \ {c} : reason'[d] = reason[d]
  BY <1>1, <1>2 DEF TypeOK, Session
<1>5. TypeOK'
  BY <1>1, <1>2, <1>3, <1>4 DEF TypeOK
<1>6. st'[c] \notin {"none", "queued"}
  BY <1>2, <1>3 DEF TerminalStates
<1>7. ASSUME NEW d \in Children
      PROVE  ChildInv(d)'
  <2>1. CASE d # c
    BY <1>1, <1>2, <1>3, <1>4, <2>1, SameKeeps DEF Same
  <2>2. CASE d = c
    <3>1. ChildInv(c) /\ sess[c].lease = "released"
      BY <1>1, <1>2, TerminalRow DEF ChildInv
    <3> QED
      BY <1>2, <1>3, <1>6, <2>2, <3>1
         DEF ChildInv, SlotInv, DurableInv, OwnedInv, FreshInv, ResultInv, SweepInv, RunInv,
             Settled
  <2> QED
    BY <2>1, <2>2
<1>8. LoopInv' /\ LeaseAccounting' /\ NoIdleCapacity'
  BY <1>1, <1>2 DEF LoopInv, LeaseAccounting, NoIdleCapacity
<1>9. QueueInv'
  BY <1>1, <1>2, <1>3, <1>6 DEF QueueInv, InQueue, Unique
<1>10. RecoveryInv'
  BY <1>2 DEF RecoveryInv, Recovery
<1> QED
  BY <1>5, <1>7, <1>8, <1>9, <1>10 DEF PoolInv

LEMMA DrainStepKeeps ==
    ASSUME PoolInv, DrainStep
    PROVE  PoolInv'
<1>1. /\ TypeOK /\ LoopInv /\ LeaseAccounting /\ NoIdleCapacity /\ QueueInv /\ RecoveryInv
      /\ \A d \in Children : ChildInv(d) /\ RowOK(sess[d])
  BY Parts
<1> DEFINE c == Head(queue)
<1>2. /\ loop = "drain" /\ active < MaxActive /\ queue # << >>
      /\ queue' = Tail(queue)
      /\ UNCHANGED <<closed, cancelAll, loop, sweep, recovered, opened, crashes, runs>>
  BY DEF DrainStep, control
<1>3. /\ c \in Children
      /\ InQueue(c, queue)
      /\ queue' \in Seq(Children)
      /\ Len(queue') <= Len(queue)
      /\ Unique(queue')
      /\ \A d : InQueue(d, queue') => InQueue(d, queue)
      /\ \A d : d # c /\ InQueue(d, queue) => InQueue(d, queue')
  BY <1>1, <1>2, TailQueue DEF TypeOK, QueueInv
<1>4. CASE st[c] = "queued"
  <2>1. PICK fail \in SUBSET Calls : RegistryFaults(c, fail) /\ StartRecord(c, sess[c], fail)
    BY <1>4 DEF DrainStep
  <2>2. faults' \in Nat
    BY <1>1, <2>1, FaultsType
  <2>3. /\ c \notin leased
        /\ c \in Isolated => runs[c] = 0 /\ c \in opened
    BY <1>1, <1>3, <1>4 DEF ChildInv, SlotInv, RunInv
  <2> HIDE DEF c
  <2>4. StartContext(c, sess[c])
    BY <1>1, <1>2, <1>3, <1>4, <2>2, <2>3 DEF StartContext, TypeOK
  <2> QED
    BY <1>1, <1>3, <2>1, <2>4, StartKeeps
<1>5. CASE st[c] # "queued"
  <2>1. UNCHANGED <<st, reason, pend, attempts, runner, result, leased, active, sess, faults>>
    BY <1>5 DEF DrainStep, records
  <2> HIDE DEF c
  <2>2. TypeOK'
    BY <1>1, <1>2, <1>3, <2>1 DEF TypeOK
  <2>3. \A d \in Children : ChildInv(d)'
    BY <1>1, <1>2, <2>1, SameKeeps DEF Same
  <2>4. LoopInv' /\ LeaseAccounting' /\ NoIdleCapacity' /\ RecoveryInv'
    BY <1>1, <1>2, <2>1 DEF LoopInv, LeaseAccounting, NoIdleCapacity, RecoveryInv, Recovery, Resident
  <2>5. QueueInv'
    <3>1. Len(queue') <= MaxQueued
      BY <1>1, <1>3, LenProperties, PoolAssumption DEF QueueInv, TypeOK
    <3>2. \A d \in Children : InQueue(d, queue') => st'[d] # "none"
      BY <1>1, <1>3, <2>1 DEF QueueInv
    <3>3. \A d \in Children : st'[d] = "queued" => InQueue(d, queue') \/ d \in sweep'
      BY <1>1, <1>2, <1>3, <1>5, <2>1 DEF QueueInv
    <3> QED
      BY <1>3, <3>1, <3>2, <3>3 DEF QueueInv, Unique, InQueue
  <2> QED
    BY <2>2, <2>3, <2>4, <2>5 DEF PoolInv
<1> QED
  BY <1>4, <1>5

\* Steps of the pool's own flags and loops: no child and no queue place moves.
LEMMA ControlKeeps ==
    ASSUME PoolInv, \A c \in Children : Same(c),
           UNCHANGED <<attempts, leased, active, queue, sweep, recovered, opened, sess, st,
                       reason, pend, faults, crashes>>,
           runner' \in [Children -> {"idle", "scheduled", "running", "returned"}],
           result' \in [Children -> Result \cup {NoResult}],
           runs' \in [Children -> Nat],
           closed' \in BOOLEAN, cancelAll' \in BOOLEAN,
           loop' \in {"idle", "drain", "retry", "close", "sweep"},
           LoopInv', NoIdleCapacity'
    PROVE  PoolInv'
<1>1. /\ TypeOK /\ LeaseAccounting /\ QueueInv /\ RecoveryInv
      /\ \A d \in Children : ChildInv(d)
  BY Parts
<1>2. TypeOK'
  BY <1>1 DEF TypeOK
<1>3. \A d \in Children : ChildInv(d)'
  BY <1>1, SameKeeps
<1>4. LeaseAccounting' /\ QueueInv' /\ RecoveryInv'
  BY <1>1 DEF LeaseAccounting, QueueInv, InQueue, Unique, RecoveryInv, Recovery, Resident
<1> QED
  BY <1>2, <1>3, <1>4 DEF PoolInv

LEMMA FlagsKeep ==
    ASSUME PoolInv,
           DrainDone \/ StopAccepting \/ RequestCancellationForAll \/ RetryPendingSettlements
             \/ SweepDone
    PROVE  PoolInv'
<1>1. TypeOK /\ LoopInv /\ LeaseAccounting /\ NoIdleCapacity /\ (loop # "sweep" => sweep = {})
  BY Parts
<1>2. /\ UNCHANGED <<st, reason, pend, attempts, runner, result, leased, active, queue,
                     cancelAll, sweep, recovered, opened, sess, faults, crashes, runs>>
      /\ closed' \in {closed, TRUE}
      /\ loop' \in {"idle", "close", "retry"}
  BY <1>1 DEF DrainDone, StopAccepting, RequestCancellationForAll, RetryPendingSettlements,
              SweepDone, records, capacity, durable, history
<1>3. LoopInv' /\ NoIdleCapacity'
  <2>1. CASE DrainDone
    BY <1>1, <1>2, <2>1, PoolAssumption
       DEF LoopInv, NoIdleCapacity, LeaseAccounting, DrainDone, TypeOK
  <2>2. CASE StopAccepting \/ RequestCancellationForAll \/ RetryPendingSettlements
    BY <1>1, <1>2, <2>2 DEF LoopInv, NoIdleCapacity, StopAccepting, RequestCancellationForAll,
                            RetryPendingSettlements
  <2>3. CASE SweepDone
    BY <1>1, <1>2, <2>3 DEF LoopInv, NoIdleCapacity, SweepDone
  <2> QED
    BY <2>1, <2>2, <2>3
<1>4. closed' \in BOOLEAN
  BY <1>1, <1>2 DEF TypeOK
<1>5. \A c \in Children : Same(c)
  BY <1>2 DEF Same
<1> QED
  BY <1>1, <1>2, <1>3, <1>4, <1>5, ControlKeeps DEF TypeOK

\* A runner that begins or returns concerns nobody but its child.
LEMMA RunnerMoves ==
    ASSUME PoolInv, NEW c \in Children, ChildInv(c)', TypeOK',
           \A d \in Children \ {c} :
               runner'[d] = runner[d] /\ result'[d] = result[d] /\ runs'[d] = runs[d],
           UNCHANGED <<st, reason, pend, attempts, leased, active, queue, closed, cancelAll,
                       loop, sweep, recovered, opened, sess, faults, crashes>>
    PROVE  PoolInv'
<1>1. /\ LoopInv /\ LeaseAccounting /\ NoIdleCapacity /\ QueueInv /\ RecoveryInv
      /\ \A d \in Children : ChildInv(d)
  BY Parts
<1>2. ASSUME NEW d \in Children PROVE ChildInv(d)'
  <2>1. CASE d # c
    BY <1>1, <2>1, SameKeeps DEF Same
  <2> QED
    BY <2>1
<1>3. LoopInv' /\ LeaseAccounting' /\ NoIdleCapacity' /\ QueueInv' /\ RecoveryInv'
  BY <1>1 DEF LoopInv, LeaseAccounting, NoIdleCapacity, QueueInv, InQueue, Unique, RecoveryInv,
              Recovery, Resident
<1> QED
  BY <1>2, <1>3 DEF PoolInv

LEMMA RunnerBeginKeeps ==
    ASSUME PoolInv, NEW c \in Children, RunnerBegin(c)
    PROVE  PoolInv'
<1>1. TypeOK /\ ChildInv(c)
  BY Parts
<1>2. /\ runner[c] = "scheduled"
      /\ UNCHANGED <<st, reason, pend, attempts, leased, active, queue, closed, cancelAll,
                     loop, sweep, recovered, opened, sess, faults, crashes>>
  BY DEF RunnerBegin, capacity, control, durable
<1>3. st[c] \notin {"none", "queued"}
  BY <1>1, <1>2 DEF ChildInv, FreshInv
<1>4. CASE CancelRequested(c)
  <2> DEFINE res == [status  |-> "cancelled",
                     receipt |-> [reason |-> reason[c], outcome |-> "none"],
                     outcome |-> "none"]
  <2>1. /\ runner' = [runner EXCEPT ![c] = "returned"]
        /\ result' = [result EXCEPT ![c] = res]
        /\ runs' = runs
    BY <1>4 DEF RunnerBegin
  <2>2. res \in Result
    BY <1>1, <1>4 DEF CancelRequested, Result, Receipts, Outcomes, TerminalStates, TypeOK
  <2> HIDE DEF res
  <2>3. TypeOK'
    BY <1>1, <1>2, <2>1, <2>2 DEF TypeOK
  <2>4. /\ runner'[c] = "returned" /\ result'[c] = res
        /\ \A d \in Children \ {c} : runner'[d] = runner[d] /\ result'[d] = result[d]
    BY <1>1, <2>1 DEF TypeOK
  <2>5. ChildInv(c)'
    BY <1>1, <1>2, <1>3, <2>1, <2>2, <2>4
       DEF ChildInv, SlotInv, DurableInv, OwnedInv, FreshInv, ResultInv, SweepInv, RunInv, Settled
  <2> QED
    BY <1>2, <2>1, <2>3, <2>4, <2>5, RunnerMoves
<1>5. CASE ~CancelRequested(c)
  <2>1. /\ runner' = [runner EXCEPT ![c] = "running"]
        /\ runs' = [runs EXCEPT ![c] = @ + 1]
        /\ result' = result
    BY <1>5 DEF RunnerBegin
  <2>2. TypeOK'
    BY <1>1, <1>2, <2>1 DEF TypeOK
  <2>3. /\ runner'[c] = "running" /\ runs'[c] = runs[c] + 1
        /\ \A d \in Children \ {c} : runner'[d] = runner[d] /\ runs'[d] = runs[d]
    BY <1>1, <2>1 DEF TypeOK
  <2>4. c \in Isolated => runs[c] = 0 /\ c \in opened
    BY <1>1, <1>2, <1>3 DEF ChildInv, RunInv
  <2>5. ChildInv(c)'
    BY <1>1, <1>2, <1>3, <2>1, <2>3, <2>4
       DEF ChildInv, SlotInv, DurableInv, OwnedInv, FreshInv, ResultInv, SweepInv, RunInv, Settled
  <2> QED
    BY <1>2, <2>1, <2>2, <2>3, <2>5, RunnerMoves
<1> QED
  BY <1>4, <1>5

\* What a runner may return is a result.
LEMMA ReturnsType ==
    ASSUME TypeOK, NEW c \in Children, NEW res \in Returns(c)
    PROVE  res \in Result
<1>1. CASE c \notin Isolated
  BY <1>1 DEF Returns, Result, Outcomes
<1>2. CASE c \in Isolated /\ CancelRequested(c)
  <2>1. [reason : {reason[c]}, outcome : Outcomes] \subseteq Receipts
    BY <1>2 DEF CancelRequested, Receipts, TypeOK
  <2> QED
    BY <1>2, <2>1 DEF Returns, Result, TerminalStates
<1>3. CASE c \in Isolated /\ ~CancelRequested(c)
  BY <1>3 DEF Returns, Result
<1> QED
  BY <1>1, <1>2, <1>3

LEMMA RunnerReturnKeeps ==
    ASSUME PoolInv, NEW c \in Children, RunnerReturn(c)
    PROVE  PoolInv'
<1>1. TypeOK /\ ChildInv(c)
  BY Parts
<1>2. PICK res \in Returns(c) : result' = [result EXCEPT ![c] = res]
  BY DEF RunnerReturn
<1>3. /\ runner[c] = "running"
      /\ runner' = [runner EXCEPT ![c] = "returned"]
      /\ UNCHANGED <<st, reason, pend, attempts, leased, active, queue, closed, cancelAll,
                     loop, sweep, recovered, opened, sess, faults, crashes, runs>>
  BY DEF RunnerReturn, capacity, control, durable, history
<1>4. res \in Result
  BY <1>1, ReturnsType
<1>5. TypeOK'
  BY <1>1, <1>2, <1>3, <1>4 DEF TypeOK
<1>6. /\ runner'[c] = "returned" /\ result'[c] = res
      /\ \A d \in Children \ {c} : runner'[d] = runner[d] /\ result'[d] = result[d]
  BY <1>1, <1>2, <1>3 DEF TypeOK
<1>7. st[c] \notin {"none", "queued"}
  BY <1>1, <1>3 DEF ChildInv, FreshInv
<1>8. ChildInv(c)'
  BY <1>1, <1>3, <1>4, <1>6, <1>7
     DEF ChildInv, SlotInv, DurableInv, OwnedInv, FreshInv, ResultInv, SweepInv, RunInv, Settled
<1> QED
  BY <1>3, <1>5, <1>6, <1>8, RunnerMoves

\* What is known when a runner's result is consumed.
LEMMA ConsumeFacts ==
    ASSUME PoolInv, NEW c \in Children, Consume(c)
    PROVE  /\ ~Settled(c) /\ st[c] \notin {"none", "queued"} \cup TerminalStates
           /\ result[c] \in Result
           /\ sweep = {}
           /\ c \in Isolated => c \in opened
           /\ runner' \in [Children -> {"idle", "scheduled", "running", "returned"}]
           /\ result' \in [Children -> Result \cup {NoResult}]
           /\ runner'[c] = "idle"
           /\ \A d \in Children \ {c} : runner'[d] = runner[d] /\ result'[d] = result[d]
           /\ UNCHANGED <<closed, cancelAll, sweep, recovered, opened, crashes, runs>>
<1>1. TypeOK /\ ChildInv(c) /\ (loop # "sweep" => sweep = {})
  BY Parts
<1>2. /\ st[c] \notin {"none", "queued"} /\ result[c] \in Result
      /\ c \in Isolated => c \in opened
  BY <1>1 DEF Consume, ChildInv, FreshInv, ResultInv, RunInv
<1> QED
  BY <1>1, <1>2 DEF Consume, Settled, TypeOK

LEMMA SettleResultKeeps ==
    ASSUME PoolInv, NEW c \in Children, SettleResult(c)
    PROVE  PoolInv'
<1>1. TypeOK /\ ChildInv(c) /\ RowOK(sess[c])
  BY Parts
<1>2. Consume(c) /\ result[c].status # "unresolved" /\ reason' = reason
  BY DEF SettleResult
<1>3. /\ ~Settled(c) /\ st[c] \notin {"none", "queued"} \cup TerminalStates
      /\ result[c] \in Result
      /\ sweep = {}
      /\ c \in Isolated => c \in opened
      /\ runner' \in [Children -> {"idle", "scheduled", "running", "returned"}]
      /\ result' \in [Children -> Result \cup {NoResult}]
      /\ runner'[c] = "idle"
      /\ \A d \in Children \ {c} : runner'[d] = runner[d] /\ result'[d] = result[d]
      /\ UNCHANGED <<closed, cancelAll, sweep, recovered, opened, crashes, runs>>
  BY <1>2, ConsumeFacts
<1> DEFINE why == IF result[c].status = "cancelled" THEN BackendReason ELSE NoReason
           p   == Verdict(result[c].status, why, NoReceipt, result[c].outcome)
<1>4. PICK fail \in SUBSET Calls : RegistryFaults(c, fail) /\ SettleRecord(c, sess[c], p, fail)
  BY DEF SettleResult
<1>5. p \in Patch
  BY <1>2, <1>3, PoolAssumption, ReasonAssumption DEF Verdict, Patch, Result
<1>6. faults' \in Nat
  BY <1>1, <1>4, FaultsType
<1>7. SettleContext(c, sess[c])
  BY <1>1, <1>2, <1>3, <1>6 DEF SettleContext, ChildInv, OwnedInv, TypeOK
<1> HIDE DEF p
<1> QED
  BY <1>1, <1>3, <1>4, <1>5, <1>7, SettleKeeps

LEMMA SettleCancelledKeeps ==
    ASSUME PoolInv, NEW c \in Children, SettleCancelled(c)
    PROVE  PoolInv'
<1>1. TypeOK /\ ChildInv(c) /\ RowOK(sess[c])
  BY Parts
<1>2. Consume(c) /\ CancelRequested(c) /\ reason' = reason
  BY DEF SettleCancelled
<1>3. /\ ~Settled(c) /\ st[c] \notin {"none", "queued"} \cup TerminalStates
      /\ result[c] \in Result
      /\ sweep = {}
      /\ c \in Isolated => c \in opened
      /\ runner' \in [Children -> {"idle", "scheduled", "running", "returned"}]
      /\ result' \in [Children -> Result \cup {NoResult}]
      /\ runner'[c] = "idle"
      /\ \A d \in Children \ {c} : runner'[d] = runner[d] /\ result'[d] = result[d]
      /\ UNCHANGED <<closed, cancelAll, sweep, recovered, opened, crashes, runs>>
  BY <1>2, ConsumeFacts
<1> DEFINE to == IF result[c].outcome = "partial" THEN "failed" ELSE "cancelled"
           p  == Verdict(to, reason[c], result[c].receipt, result[c].outcome)
<1>4. PICK fail \in SUBSET Calls : RegistryFaults(c, fail) /\ SettleRecord(c, sess[c], p, fail)
  BY DEF SettleCancelled
<1>5. p \in Patch
  <2>1. reason[c] \in Reasons
    BY <1>1, <1>2 DEF CancelRequested, TypeOK
  <2> QED
    BY <1>3, <2>1, ReasonAssumption DEF Verdict, Patch, Result, TerminalStates
<1>6. faults' \in Nat
  BY <1>1, <1>4, FaultsType
<1>7. SettleContext(c, sess[c])
  BY <1>1, <1>2, <1>3, <1>6 DEF SettleContext, ChildInv, OwnedInv, TypeOK
<1> HIDE DEF p
<1> QED
  BY <1>1, <1>3, <1>4, <1>5, <1>7, SettleKeeps

\* Recording an outcome never takes a worktree.
LEMMA RecordedRow ==
    ASSUME NEW c, result[c] \in Result, NEW r, RowOK(r), NEW fail
    PROVE  RowOK(Recorded(c, r, fail)) /\ Recorded(c, r, fail).lease = r.lease
<1>1. result[c].outcome \in Outcomes
  BY DEF Result
<1>2. RowOK(RecordMutationOutcome(r, result[c].outcome))
  BY <1>1, OutcomeOK
<1>3. RecordMutationOutcome(r, result[c].outcome).lease = r.lease
  BY DEF RecordMutationOutcome, RowOK, Session
<1> QED
  BY <1>2, <1>3 DEF Recorded

LEMMA MarkCancellationKeeps ==
    ASSUME PoolInv, NEW c \in Children, MarkCancellationUnacknowledged(c)
    PROVE  PoolInv'
<1>1. TypeOK /\ ChildInv(c) /\ RowOK(sess[c])
  BY Parts
<1>2. /\ Consume(c)
      /\ st' = [st EXCEPT ![c] = "cancellation_unacknowledged"]
      /\ UNCHANGED <<reason, pend, attempts, capacity, loop>>
  BY DEF MarkCancellationUnacknowledged
<1>3. /\ ~Settled(c) /\ st[c] \notin {"none", "queued"} \cup TerminalStates
      /\ result[c] \in Result
      /\ sweep = {}
      /\ c \in Isolated => c \in opened
      /\ runner' \in [Children -> {"idle", "scheduled", "running", "returned"}]
      /\ result' \in [Children -> Result \cup {NoResult}]
      /\ runner'[c] = "idle"
      /\ \A d \in Children \ {c} : runner'[d] = runner[d] /\ result'[d] = result[d]
      /\ UNCHANGED <<closed, cancelAll, sweep, recovered, opened, crashes, runs>>
  BY <1>2, ConsumeFacts
<1>4. PICK fail \in SUBSET Calls :
         RegistryFaults(c, fail) /\ sess' = [sess EXCEPT ![c] = Recorded(c, sess[c], fail)]
  BY DEF MarkCancellationUnacknowledged
<1> DEFINE row == Recorded(c, sess[c], fail)
<1>5. RowOK(row) /\ row.lease \in {sess[c].lease, "released"}
  BY <1>1, <1>3, RecordedRow
<1>6. faults' \in Nat
  BY <1>1, <1>4, FaultsType
<1>7. reason[c] \in Reasons \cup {NoReason} /\ reason' = [reason EXCEPT ![c] = reason[c]]
  BY <1>1, <1>2 DEF TypeOK
<1> HIDE DEF row
<1>8. sess' = [sess EXCEPT ![c] = row]
  BY <1>4 DEF row
<1>9. Touched(c, "cancellation_unacknowledged", reason[c], row)
  BY <1>2, <1>3, <1>5, <1>6, <1>7, <1>8 DEF Touched
<1> QED
  BY <1>3, <1>9, TouchKeeps

LEMMA MarkBackendKeeps ==
    ASSUME PoolInv, NEW c \in Children, MarkBackendQuiescenceUnacknowledged(c)
    PROVE  PoolInv'
<1>1. TypeOK /\ ChildInv(c) /\ RowOK(sess[c])
  BY Parts
<1>2. /\ Consume(c)
      /\ st' = [st EXCEPT ![c] = "cancellation_unacknowledged"]
      /\ reason' = [reason EXCEPT ![c] = BackendReason]
      /\ UNCHANGED <<pend, attempts, capacity, loop>>
  BY DEF MarkBackendQuiescenceUnacknowledged
<1>3. /\ ~Settled(c) /\ st[c] \notin {"none", "queued"} \cup TerminalStates
      /\ result[c] \in Result
      /\ sweep = {}
      /\ c \in Isolated => c \in opened
      /\ runner' \in [Children -> {"idle", "scheduled", "running", "returned"}]
      /\ result' \in [Children -> Result \cup {NoResult}]
      /\ runner'[c] = "idle"
      /\ \A d \in Children \ {c} : runner'[d] = runner[d] /\ result'[d] = result[d]
      /\ UNCHANGED <<closed, cancelAll, sweep, recovered, opened, crashes, runs>>
  BY <1>2, ConsumeFacts
<1>4. PICK fail \in SUBSET Calls :
         LET asked == IF "transition" \in fail THEN sess[c] ELSE Requested(sess[c], BackendReason)
         IN  RegistryFaults(c, fail) /\ sess' = [sess EXCEPT ![c] = Recorded(c, asked, fail)]
  BY DEF MarkBackendQuiescenceUnacknowledged
<1> DEFINE asked == IF "transition" \in fail THEN sess[c] ELSE Requested(sess[c], BackendReason)
           row   == Recorded(c, asked, fail)
<1>5. RowOK(asked) /\ asked.lease \in {sess[c].lease, "released"}
  BY <1>1, RequestedRow, PoolAssumption
<1>6. sess' = [sess EXCEPT ![c] = row] /\ RegistryFaults(c, fail)
  BY <1>4
<1>7. RowOK(row) /\ row.lease \in {sess[c].lease, "released"}
  <2> HIDE DEF asked
  <2> QED
    BY <1>3, <1>5, RecordedRow
<1>8. faults' \in Nat
  BY <1>1, <1>6, FaultsType
<1>9. BackendReason \in Reasons \cup {NoReason}
  BY PoolAssumption
<1> HIDE DEF row, asked
<1>10. Touched(c, "cancellation_unacknowledged", BackendReason, row)
  BY <1>2, <1>3, <1>6, <1>7, <1>8, <1>9 DEF Touched
<1> QED
  BY <1>3, <1>10, TouchKeeps

LEMMA InterruptKeeps ==
    ASSUME PoolInv, NEW c \in Children, NEW why \in Reasons, Interrupt(c, why)
    PROVE  PoolInv'
<1>1. TypeOK /\ ChildInv(c) /\ RowOK(sess[c]) /\ (loop # "sweep" => sweep = {})
  BY Parts
<1>2. PICK fail \in SUBSET Calls : RegistryFaults(c, fail) /\ CancelRecord(c, sess[c], why, fail)
  BY DEF Interrupt
<1>3. /\ loop = "idle" /\ st[c] # "none" /\ ~Settled(c)
      /\ UNCHANGED <<closed, cancelAll, sweep, recovered, opened, crashes, runs>>
  BY DEF Interrupt, Resident
<1>4. faults' \in Nat
  BY <1>1, <1>2, FaultsType
<1>5. /\ c \in opened /\ sess[c].lease = "active" => c \in leased \cup recovered
      /\ c \in Isolated => c \in opened
      /\ opened' \subseteq Isolated
  BY <1>1, <1>3 DEF ChildInv, OwnedInv, RunInv, TypeOK
<1> QED
  BY <1>1, <1>2, <1>3, <1>4, <1>5, CancelKeeps

LEMMA RetryStepKeeps ==
    ASSUME PoolInv, NEW c \in Children, RetryStep(c)
    PROVE  PoolInv'
<1>1. TypeOK /\ ChildInv(c) /\ RowOK(sess[c]) /\ (loop # "sweep" => sweep = {})
  BY Parts
<1>2. PICK fail \in SUBSET Calls : RegistryFaults(c, fail) /\ SettleRecord(c, sess[c], pend[c], fail)
  BY DEF RetryStep
<1>3. /\ loop # "sweep" /\ ~Settled(c) /\ pend[c] # NoPatch
      /\ UNCHANGED <<reason, runner, result, closed, cancelAll, sweep, recovered, opened,
                     crashes, runs>>
  BY DEF RetryStep, Retryable, Pending
<1>4. pend[c] \in Patch /\ st[c] # "none"
  BY <1>1, <1>3 DEF TypeOK, ChildInv, FreshInv
<1>5. faults' \in Nat
  BY <1>1, <1>2, FaultsType
<1>6. SettleContext(c, sess[c])
  BY <1>1, <1>3, <1>4, <1>5 DEF SettleContext, ChildInv, OwnedInv, RunInv, TypeOK
<1> QED
  BY <1>1, <1>2, <1>3, <1>4, <1>6, SettleKeeps

LEMMA RetryDoneKeeps ==
    ASSUME PoolInv, RetryDone
    PROVE  PoolInv'
<1>1. /\ TypeOK /\ LoopInv /\ LeaseAccounting /\ NoIdleCapacity /\ QueueInv /\ RecoveryInv
      /\ \A d \in Children : ChildInv(d)
      /\ loop # "sweep" => sweep = {}
  BY Parts
<1>2. /\ loop \in {"retry", "close"}
      /\ UNCHANGED <<st, reason, pend, attempts, runner, result, leased, active, closed,
                     recovered, opened, sess, faults, crashes, runs>>
  BY DEF RetryDone, records, durable, history
<1>3. CASE loop = "retry"
  <2>1. loop' = "idle" /\ UNCHANGED <<cancelAll, sweep, queue>>
    BY <1>3 DEF RetryDone
  <2>2. LoopInv' /\ NoIdleCapacity'
    BY <1>1, <1>2, <1>3, <2>1 DEF LoopInv, NoIdleCapacity
  <2> QED
    BY <1>1, <1>2, <2>1, <2>2, ControlKeeps DEF Same, TypeOK
<1>4. CASE loop = "close"
  <2>1. /\ loop' = "sweep" /\ cancelAll' = TRUE /\ queue' = << >>
        /\ sweep' = {c \in Children : Resident(c) /\ ~Settled(c) /\ ~Pending(c)}
    BY <1>4 DEF RetryDone
  <2>2. TypeOK'
    BY <1>1, <1>2, <2>1, EmptySeq DEF TypeOK
  <2>3. ASSUME NEW d \in Children PROVE ChildInv(d)'
    BY <1>1, <1>2, <2>1 DEF ChildInv, SlotInv, DurableInv, OwnedInv, FreshInv, ResultInv,
                            SweepInv, RunInv, Settled, Resident
  <2>4. LoopInv' /\ LeaseAccounting' /\ NoIdleCapacity' /\ RecoveryInv'
    BY <1>1, <1>2, <1>4, <2>1 DEF LoopInv, LeaseAccounting, NoIdleCapacity, RecoveryInv,
                                  Recovery, Resident
  <2>5. QueueInv'
    <3>1. Len(queue') = 0 /\ DOMAIN queue' = {}
      BY <2>1, EmptySeq
    <3>2. ASSUME NEW d \in Children, st'[d] = "queued" PROVE d \in sweep'
      BY <1>1, <1>2, <2>1, <3>2 DEF ChildInv, FreshInv, Resident, Settled, Pending,
                                    TerminalStates
    <3> QED
      BY <3>1, <3>2, PoolAssumption DEF QueueInv, Unique, InQueue
  <2> QED
    BY <2>2, <2>3, <2>4, <2>5 DEF PoolInv
<1> QED
  BY <1>2, <1>3, <1>4

LEMMA SweepStepKeeps ==
    ASSUME PoolInv, NEW c \in Children, NEW why \in TypedReasons, SweepStep(c, why)
    PROVE  PoolInv'
<1>1. /\ TypeOK /\ LoopInv /\ LeaseAccounting /\ NoIdleCapacity /\ QueueInv /\ RecoveryInv
      /\ \A d \in Children : ChildInv(d) /\ RowOK(sess[d])
  BY Parts
<1>2. /\ loop = "sweep" /\ c \in sweep
      /\ sweep' = sweep \ {c}
      /\ UNCHANGED <<closed, cancelAll, recovered, opened, crashes, runs>>
  BY DEF SweepStep
<1>3. st[c] # "none" /\ ~Settled(c)
  BY <1>1, <1>2 DEF ChildInv, SweepInv
<1>4. CASE CancelRequested(c)
  <2>1. UNCHANGED <<st, reason, pend, attempts, runner, result, leased, active, queue, loop,
                    sess, faults>>
    BY <1>4 DEF SweepStep, records, capacity
  <2>2. TypeOK'
    BY <1>1, <1>2, <2>1 DEF TypeOK
  <2>3. ASSUME NEW d \in Children PROVE ChildInv(d)'
    BY <1>1, <1>2, <2>1 DEF ChildInv, SlotInv, DurableInv, OwnedInv, FreshInv, ResultInv,
                            SweepInv, RunInv, Settled
  <2>4. LoopInv' /\ LeaseAccounting' /\ NoIdleCapacity' /\ RecoveryInv'
    BY <1>1, <1>2, <2>1 DEF LoopInv, LeaseAccounting, NoIdleCapacity, RecoveryInv, Recovery,
                            Resident
  <2>5. st[c] # "queued"
    BY <1>1, <1>4 DEF ChildInv, FreshInv, CancelRequested
  <2>6. QueueInv'
    BY <1>1, <1>2, <2>1, <2>5 DEF QueueInv, InQueue, Unique
  <2> QED
    BY <2>2, <2>3, <2>4, <2>6 DEF PoolInv
<1>5. CASE ~CancelRequested(c)
  <2>1. PICK fail \in SUBSET Calls : RegistryFaults(c, fail) /\ CancelRecord(c, sess[c], why, fail)
    BY <1>5 DEF SweepStep
  <2>2. faults' \in Nat
    BY <1>1, <2>1, FaultsType
  <2>3. /\ c \in opened /\ sess[c].lease = "active" => c \in leased \cup recovered
        /\ c \in Isolated => c \in opened
        /\ opened' \subseteq Isolated
    BY <1>1, <1>2, <1>3 DEF ChildInv, OwnedInv, RunInv, TypeOK
  <2>4. why \in Reasons
    BY PoolAssumption
  <2> QED
    BY <1>1, <1>2, <1>3, <2>1, <2>2, <2>3, <2>4, CancelKeeps
<1> QED
  BY <1>4, <1>5

LEMMA RestartKeeps ==
    ASSUME PoolInv, Restart
    PROVE  PoolInv'
<1>1. TypeOK /\ \A d \in Children : ChildInv(d) /\ RowOK(sess[d])
  BY Parts
<1>2. /\ st' = [c \in Children |-> "none"]
      /\ reason' = [c \in Children |-> NoReason]
      /\ pend' = [c \in Children |-> NoPatch]
      /\ attempts' = [c \in Children |-> 0]
      /\ runner' = [c \in Children |-> "idle"]
      /\ result' = [c \in Children |-> NoResult]
      /\ leased' = {} /\ active' = 0 /\ queue' = << >>
      /\ closed' = FALSE /\ cancelAll' = FALSE /\ loop' = "idle" /\ sweep' = {}
      /\ recovered' = {c \in opened : NeedsReconciliation(sess[c])}
      /\ crashes' = crashes + 1
      /\ UNCHANGED <<opened, sess, faults, runs>>
  BY DEF Restart, durable
<1>3. TypeOK'
  <2>1. queue' \in Seq(Children)
    BY <1>2, EmptySeq
  <2>2. recovered' \subseteq Isolated
    BY <1>1, <1>2 DEF TypeOK
  <2>3. crashes' \in Nat
    BY <1>1, <1>2 DEF TypeOK
  <2>4. st' \in [Children -> PoolStates]
    BY <1>2 DEF PoolStates
  <2> QED
    BY <1>1, <1>2, <2>1, <2>2, <2>3, <2>4 DEF TypeOK
<1>4. ASSUME NEW d \in Children PROVE ChildInv(d)'
  <2>1. sess[d].lease = "active" => NeedsReconciliation(sess[d])
    BY DEF NeedsReconciliation
  <2>2. ChildInv(d)
    BY <1>1
  <2> QED
    BY <1>2, <2>1, <2>2 DEF ChildInv, SlotInv, DurableInv, OwnedInv, FreshInv, ResultInv,
                            SweepInv, RunInv, Settled, TerminalStates
<1>5. LeaseAccounting'
  BY <1>2, FS_EmptySet, PoolAssumption DEF LeaseAccounting
<1>6. LoopInv' /\ NoIdleCapacity' /\ RecoveryInv'
  BY <1>2, PoolAssumption DEF LoopInv, NoIdleCapacity, RecoveryInv, Resident
<1>7. QueueInv'
  <2>1. Len(queue') = 0 /\ DOMAIN queue' = {}
    BY <1>2, EmptySeq
  <2>2. \A d \in Children : st'[d] = "none"
    BY <1>2
  <2> QED
    BY <2>1, <2>2, PoolAssumption DEF QueueInv, Unique, InQueue
<1> QED
  BY <1>3, <1>4, <1>5, <1>6, <1>7 DEF PoolInv

LEMMA ReconcileKeeps ==
    ASSUME PoolInv, NEW c \in Children, ReconcileRecoveredSession(c)
    PROVE  PoolInv'
<1>1. /\ TypeOK /\ LoopInv /\ LeaseAccounting /\ NoIdleCapacity /\ QueueInv /\ RecoveryInv
      /\ \A d \in Children : ChildInv(d) /\ RowOK(sess[d])
  BY Parts
<1> DEFINE row == ReconcileInterruptedSession(sess[c])
<1>2. /\ sess[c].state \in LiveStates
      /\ sess' = [sess EXCEPT ![c] = row]
      /\ recovered' = recovered \ {c}
      /\ UNCHANGED <<st, reason, pend, attempts, runner, result, leased, active, queue, closed,
                     cancelAll, loop, sweep, opened, faults, crashes, runs>>
  BY DEF ReconcileRecoveredSession, CanReconcile, records, capacity, history
<1>3. /\ RowOK(row)
      /\ row.lease = "released"
  BY <1>1, ReconcileOK DEF ReconcileInterruptedSession, Released, RowOK, Session
<1> HIDE DEF row
<1>4. /\ sess' \in [Children -> Session]
      /\ sess'[c] = row
      /\ \A d \in Children \ {c} : sess'[d] = sess[d]
  BY <1>1, <1>2, <1>3 DEF TypeOK, RowOK
<1>5. TypeOK'
  BY <1>1, <1>2, <1>4 DEF TypeOK
<1>6. ASSUME NEW d \in Children PROVE ChildInv(d)'
  <2>1. CASE d # c
    BY <1>1, <1>2, <1>4, <2>1, SameKeeps DEF Same
  <2>2. CASE d = c
    <3>1. DurableInv(c)'
      BY <1>1, <1>2 DEF ChildInv, DurableInv, Settled, LiveStates, TerminalStates
    <3>2. OwnedInv(c)'
      BY <1>3, <1>4 DEF OwnedInv
    <3> QED
      BY <1>1, <1>2, <1>3, <1>4, <2>2, <3>1, <3>2
         DEF ChildInv, SlotInv, FreshInv, ResultInv, SweepInv, RunInv, Settled
  <2> QED
    BY <2>1, <2>2
<1>7. LoopInv' /\ LeaseAccounting' /\ NoIdleCapacity'
  BY <1>1, <1>2 DEF LoopInv, LeaseAccounting, NoIdleCapacity
<1>8. QueueInv'
  BY <1>1, <1>2 DEF QueueInv, InQueue, Unique
<1>9. RecoveryInv'
  <2>1. Recovery' \subseteq Recovery
    BY <1>2, <1>4 DEF Recovery, ReconcileRecoveredSession
  <2> QED
    BY <1>1, <1>2, <2>1 DEF RecoveryInv, Resident
<1> QED
  BY <1>5, <1>6, <1>7, <1>8, <1>9 DEF PoolInv

-----------------------------------------------------------------------------
(***************************************************************************)
(* The invariant and what follows from it                                  *)
(***************************************************************************)
LEMMA NextKeeps == PoolInv /\ [Next]_vars => PoolInv'
<1> SUFFICES ASSUME PoolInv, [Next]_vars PROVE PoolInv'
  OBVIOUS
<1>1. CASE LoopStep
  <2>1. CASE DrainStep
    BY <2>1, DrainStepKeeps
  <2>2. CASE DrainDone \/ SweepDone
    BY <2>2, FlagsKeep
  <2>3. CASE \E c \in Children : RetryStep(c)
    BY <2>3, RetryStepKeeps
  <2>4. CASE RetryDone
    BY <2>4, RetryDoneKeeps
  <2>5. CASE \E c \in Children, r \in TypedReasons : SweepStep(c, r)
    BY <2>5, SweepStepKeeps
  <2> QED
    BY <1>1, <2>1, <2>2, <2>3, <2>4, <2>5 DEF LoopStep
<1>2. ASSUME NEW c \in Children,
             \/ LaunchAccepted(c) \/ LaunchQueued(c) \/ LaunchReplayed(c)
             \/ \E r \in TypedReasons : LaunchAborted(c, r)
      PROVE  PoolInv'
  BY <1>2, LaunchAcceptedKeeps, LaunchQueuedKeeps, LaunchReplayedKeeps, LaunchAbortedKeeps
<1>3. ASSUME NEW c \in Children, RunnerBegin(c) \/ RunnerReturn(c) \/ RunnerSettled(c)
      PROVE  PoolInv'
  BY <1>3, RunnerBeginKeeps, RunnerReturnKeeps, SettleResultKeeps, SettleCancelledKeeps,
     MarkCancellationKeeps, MarkBackendKeeps DEF RunnerSettled
<1>4. ASSUME NEW c \in Children,
             ReconcileRecoveredSession(c) \/ \E r \in Reasons : Interrupt(c, r)
      PROVE  PoolInv'
  BY <1>4, InterruptKeeps, ReconcileKeeps
<1>5. CASE StopAccepting \/ RequestCancellationForAll \/ RetryPendingSettlements
  BY <1>5, FlagsKeep
<1>6. CASE Restart
  BY <1>6, RestartKeeps
<1>7. CASE UNCHANGED vars
  <2>1. UNCHANGED <<st, reason, pend, attempts, runner, result, leased, active, queue, closed,
                    cancelAll, loop, sweep, recovered, opened, sess, faults, crashes, runs>>
    BY <1>7 DEF vars, records, capacity, control, durable, history
  <2>2. TypeOK /\ LoopInv /\ NoIdleCapacity
    BY Parts
  <2>3. LoopInv' /\ NoIdleCapacity'
    BY <2>1, <2>2 DEF LoopInv, NoIdleCapacity
  <2> QED
    BY <2>1, <2>2, <2>3, ControlKeeps DEF Same, TypeOK
<1> QED
  BY <1>1, <1>2, <1>3, <1>4, <1>5, <1>6, <1>7 DEF Next

LEMMA Invariance == Spec => []PoolInv
<1> QED
  BY InitKeeps, NextKeeps, PTL DEF Spec

\* Every reachable state of the pool is well typed.
THEOREM TypeCorrect == Spec => []TypeOK
<1>1. PoolInv => TypeOK
  BY Parts
<1> QED
  BY <1>1, Invariance, PTL

\* The slot count equals the number of held leases and stays within
\* maxActiveChildren, whatever fails and whoever cancels (startRecord,
\* settleRecord).
THEOREM SlotsAreCounted == Spec => []LeaseAccounting
<1>1. PoolInv => LeaseAccounting
  BY Parts
<1> QED
  BY <1>1, Invariance, PTL

\* An open pool at rest has no free slot while a child waits (drain).
THEOREM NoIdleSlot == Spec => []NoIdleCapacity
<1>1. PoolInv => NoIdleCapacity
  BY Parts
<1> QED
  BY <1>1, Invariance, PTL

\* A queued child is in the queue, once, and the queue keeps its limit
\* (launch, settleRecord, requestCancellationForAll).
THEOREM NobodyIsForgotten == Spec => []NoChildForgotten
<1>1. PoolInv => NoChildForgotten
  <2> SUFFICES ASSUME PoolInv PROVE NoChildForgotten
    OBVIOUS
  <2>1. QueueInv /\ (loop # "sweep" => sweep = {})
    BY Parts
  <2>2. ASSUME loop = "idle", NEW c \in Children, st[c] = "queued"
        PROVE  \E i \in DOMAIN queue : queue[i] = c
    BY <2>1, <2>2 DEF QueueInv, InQueue
  <2> QED
    BY <2>1, <2>2 DEF QueueInv, Unique, NoChildForgotten
<1> QED
  BY <1>1, Invariance, PTL

\* What the pool reports as settled is what the registry holds, with the
\* worktree released (commitLifecycleSettlement).
THEOREM SettlementIsDurable == Spec => []SettledIsDurable
<1>1. PoolInv => SettledIsDurable
  BY Parts, PoolAssumption DEF SettledIsDurable, ChildInv, DurableInv
<1> QED
  BY <1>1, Invariance, PTL

\* Every worker the registry counts as holding its worktree has a slot or is
\* a recovery candidate, through failing calls and restarts.
THEOREM EveryLeaseIsOwned == Spec => []ActiveLeaseIsOwned
<1>1. PoolInv => ActiveLeaseIsOwned
  <2> SUFFICES ASSUME PoolInv, NEW c \in opened, sess[c].lease = "active"
               PROVE  c \in leased \cup recovered
    BY DEF ActiveLeaseIsOwned
  <2>1. c \in Children
    BY Parts, PoolAssumption DEF TypeOK
  <2> QED
    BY <2>1, Parts DEF ChildInv, OwnedInv
<1> QED
  BY <1>1, Invariance, PTL

\* A pool that may answer "drained" leaves no worker with a worktree
\* (drainAndClose).
THEOREM DrainedIsQuiet == Spec => []DrainedMeansQuiet
<1>1. PoolInv => DrainedMeansQuiet
  <2> SUFFICES ASSUME PoolInv, active = 0, Recovery = {}, NEW c \in opened,
                      sess[c].lease = "active"
               PROVE  FALSE
    BY DEF DrainedMeansQuiet
  <2>1. /\ TypeOK /\ LeaseAccounting
        /\ c \in Children /\ ChildInv(c)
    BY Parts, PoolAssumption DEF TypeOK
  <2>2. leased = {}
    BY <2>1, LeasedFinite, FS_EmptySet DEF LeaseAccounting
  <2>3. c \in recovered
    BY <2>1, <2>2 DEF ChildInv, OwnedInv
  <2>4. c \in Recovery
    BY <2>3 DEF Recovery, NeedsReconciliation
  <2> QED
    BY <2>4
<1> QED
  BY <1>1, Invariance, PTL

\* No isolated worker ever runs twice, and none exists while a recovered
\* session is unreconciled (launch, lifecycleReplayLaunchResult).
THEOREM NobodyRunsTwice == Spec => []RunsOnce
<1>1. PoolInv => RunsOnce
  BY Parts, PoolAssumption DEF RunsOnce, ChildInv, RunInv, RecoveryInv
<1> QED
  BY <1>1, Invariance, PTL

-----------------------------------------------------------------------------
(***************************************************************************)
(* What a step may not do                                                  *)
(***************************************************************************)
\* A settlement attempt frees no slot but its own, and only for a verdict.
LEMMA SettleReleases ==
    ASSUME TypeOK, NEW c \in Children, NEW r, NEW p, p.to \in TerminalStates, NEW fail,
           SettleRecord(c, r, p, fail)
    PROVE  \A d \in leased \ leased' : st'[d] \in TerminalStates
<1>1. CASE Commits(c, r, p, fail)
  BY <1>1 DEF SettleRecord, ReleaseLease, TypeOK
<1>2. CASE ~Commits(c, r, p, fail)
  BY <1>2 DEF SettleRecord, BlockSettlement
<1> QED
  BY <1>1, <1>2

\* cancelRecord frees no slot at all.
LEMMA CancelReleases ==
    ASSUME NEW c, NEW r, NEW why, NEW fail, CancelRecord(c, r, why, fail)
    PROVE  leased' = leased
BY DEF CancelRecord, SettleRecord, BlockSettlement, ReleaseLease

LEMMA StartReleases ==
    ASSUME NEW c, NEW r, NEW fail, StartRecord(c, r, fail)
    PROVE  leased \subseteq leased'
BY DEF StartRecord

LEMMA StepReleases ==
    ASSUME PoolInv, Next, crashes' = crashes
    PROVE  \A d \in leased \ leased' : st'[d] \in TerminalStates
<1>1. TypeOK /\ \A c \in Children : ChildInv(c)
  BY Parts
<1>2. CASE LoopStep
  <2>1. CASE DrainStep
    BY <2>1, StartReleases DEF DrainStep
  <2>2. CASE DrainDone \/ SweepDone \/ RetryDone
    BY <2>2 DEF DrainDone, SweepDone, RetryDone, capacity
  <2>3. ASSUME NEW c \in Children, RetryStep(c)
        PROVE  \A d \in leased \ leased' : st'[d] \in TerminalStates
    <3>1. PICK fail : SettleRecord(c, sess[c], pend[c], fail)
      BY <2>3 DEF RetryStep
    <3>2. pend[c].to \in TerminalStates
      BY <1>1, <2>3, PatchType DEF RetryStep, Retryable, Pending, TypeOK
    <3> QED
      BY <1>1, <3>1, <3>2, SettleReleases
  <2>4. CASE \E c \in Children, r \in TypedReasons : SweepStep(c, r)
    BY <2>4, CancelReleases DEF SweepStep, capacity
  <2> QED
    BY <1>2, <2>1, <2>2, <2>3, <2>4 DEF LoopStep
<1>3. ASSUME NEW c \in Children, RunnerSettled(c)
      PROVE  \A d \in leased \ leased' : st'[d] \in TerminalStates
  <2>1. CASE SettleResult(c)
    <3>1. PICK why, fail : SettleRecord(c, sess[c],
             Verdict(result[c].status, why, NoReceipt, result[c].outcome), fail)
      BY <2>1 DEF SettleResult
    <3>2. result[c].status \in TerminalStates
      BY <1>1, <2>1 DEF SettleResult, Consume, ChildInv, ResultInv, Result
    <3> QED
      BY <1>1, <3>1, <3>2, SettleReleases DEF Verdict
  <2>2. CASE SettleCancelled(c)
    <3> DEFINE to == IF result[c].outcome = "partial" THEN "failed" ELSE "cancelled"
    <3>1. PICK fail : SettleRecord(c, sess[c],
             Verdict(to, reason[c], result[c].receipt, result[c].outcome), fail)
      BY <2>2 DEF SettleCancelled
    <3>2. to \in TerminalStates
      BY DEF TerminalStates
    <3> HIDE DEF to
    <3> QED
      BY <1>1, <3>1, <3>2, SettleReleases DEF Verdict
  <2>3. CASE MarkCancellationUnacknowledged(c) \/ MarkBackendQuiescenceUnacknowledged(c)
    BY <2>3 DEF MarkCancellationUnacknowledged, MarkBackendQuiescenceUnacknowledged, capacity
  <2> QED
    BY <1>3, <2>1, <2>2, <2>3 DEF RunnerSettled
<1>4. ASSUME NEW c \in Children,
             \/ LaunchAccepted(c) \/ LaunchQueued(c) \/ LaunchReplayed(c)
             \/ \E r \in TypedReasons : LaunchAborted(c, r)
             \/ RunnerBegin(c) \/ RunnerReturn(c) \/ ReconcileRecoveredSession(c)
             \/ \E r \in Reasons : Interrupt(c, r)
      PROVE  \A d \in leased \ leased' : st'[d] \in TerminalStates
  BY <1>4, StartReleases, CancelReleases
     DEF LaunchAccepted, LaunchQueued, LaunchReplayed, LaunchAborted, RunnerBegin, RunnerReturn,
         ReconcileRecoveredSession, Interrupt, capacity
<1>5. CASE StopAccepting \/ RequestCancellationForAll \/ RetryPendingSettlements
  BY <1>5 DEF StopAccepting, RequestCancellationForAll, RetryPendingSettlements, capacity
<1>6. CASE Restart
  BY <1>1, <1>6 DEF Restart, TypeOK
<1> QED
  BY <1>2, <1>3, <1>4, <1>5, <1>6 DEF Next

\* Within one process lifetime a slot is freed only once the registry holds
\* the verdict and the worker's quiescence (settleRecord).
THEOREM SlotFreedAfterCommit == Spec => ReleaseAfterCommit
<1> DEFINE Proper == \A c \in leased \ leased' :
                        crashes' = crashes =>
                            /\ Settled(c)'
                            /\ c \in Isolated => sess'[c].process = "quiescent"
<1>1. PoolInv /\ PoolInv' /\ [Next]_vars => [Proper]_vars
  <2> SUFFICES ASSUME PoolInv, PoolInv', Next, NEW c \in leased \ leased', crashes' = crashes
               PROVE  /\ Settled(c)'
                      /\ c \in Isolated => sess'[c].process = "quiescent"
    OBVIOUS
  <2>1. st'[c] \in TerminalStates
    BY StepReleases
  <2>2. c \in Children
    BY Parts DEF TypeOK
  <2>3. RowOK(sess'[c]) /\ DurableInv(c)'
    BY <2>2 DEF PoolInv, ChildInv
  <2> QED
    BY <2>1, <2>3 DEF Settled, DurableInv, RowOK, RowConsistent
<1>2. [](PoolInv) /\ [][Next]_vars => [][Proper]_vars
  BY <1>1, PTL
<1> QED
  BY <1>2, Invariance, PTL DEF Spec, ReleaseAfterCommit

\* A settlement attempt never sets a child running.
LEMMA SettleStarts ==
    ASSUME TypeOK, NEW c \in Children, NEW r, NEW p, p.to \in TerminalStates, NEW fail,
           SettleRecord(c, r, p, fail)
    PROVE  \A d \in Children : st'[d] = "running" => st[d] = "running"
BY DEF SettleRecord, BlockSettlement, TerminalStates, TypeOK

LEMMA CancelStarts ==
    ASSUME TypeOK, NEW c \in Children, NEW r, NEW why, NEW fail, CancelRecord(c, r, why, fail)
    PROVE  \A d \in Children : st'[d] = "running" => st[d] = "running"
BY DEF CancelRecord, SettleRecord, BlockSettlement, Verdict, TypeOK

LEMMA StartStarts ==
    ASSUME TypeOK, NEW c \in Children, NEW r, NEW fail, StartRecord(c, r, fail)
    PROVE  \A d \in Children \ {c} : st'[d] = st[d]
BY DEF StartRecord, TypeOK

LEMMA StepStarts ==
    ASSUME PoolInv, Next, NEW c \in Children, st[c] = "none", st'[c] = "running"
    PROVE  queue = << >>
<1>1. TypeOK /\ NoIdleCapacity /\ \A d \in Children : ChildInv(d)
  BY Parts
<1>2. ASSUME NEW d \in Children, LaunchAccepted(d)
      PROVE  queue = << >>
  BY <1>1, <1>2, PoolAssumption DEF LaunchAccepted, Admissible, NoIdleCapacity, TypeOK
<1>3. CASE LoopStep
  <2>1. CASE DrainStep
    <3>1. Head(queue) \in Children
      BY <1>1, <2>1, TailQueue DEF DrainStep, TypeOK
    <3> QED
      BY <1>1, <2>1, <3>1, StartStarts DEF DrainStep, records
  <2>2. CASE DrainDone \/ SweepDone \/ RetryDone
    BY <2>2 DEF DrainDone, SweepDone, RetryDone, records
  <2>3. ASSUME NEW d \in Children, RetryStep(d)
        PROVE  FALSE
    <3>1. PICK fail : SettleRecord(d, sess[d], pend[d], fail)
      BY <2>3 DEF RetryStep
    <3>2. pend[d].to \in TerminalStates
      BY <1>1, <2>3, PatchType DEF RetryStep, Retryable, Pending, TypeOK
    <3> QED
      BY <1>1, <3>1, <3>2, SettleStarts
  <2>4. CASE \E d \in Children, r \in TypedReasons : SweepStep(d, r)
    BY <1>1, <2>4, CancelStarts DEF SweepStep, records
  <2> QED
    BY <1>3, <2>1, <2>2, <2>3, <2>4 DEF LoopStep
<1>4. ASSUME NEW d \in Children, RunnerSettled(d)
      PROVE  FALSE
  <2>1. CASE SettleResult(d)
    <3>1. PICK why, fail : SettleRecord(d, sess[d],
             Verdict(result[d].status, why, NoReceipt, result[d].outcome), fail)
      BY <2>1 DEF SettleResult
    <3>2. result[d].status \in TerminalStates
      BY <1>1, <2>1 DEF SettleResult, Consume, ChildInv, ResultInv, Result
    <3> QED
      BY <1>1, <3>1, <3>2, SettleStarts DEF Verdict
  <2>2. CASE SettleCancelled(d)
    <3> DEFINE to == IF result[d].outcome = "partial" THEN "failed" ELSE "cancelled"
    <3>1. PICK fail : SettleRecord(d, sess[d],
             Verdict(to, reason[d], result[d].receipt, result[d].outcome), fail)
      BY <2>2 DEF SettleCancelled
    <3>2. to \in TerminalStates
      BY DEF TerminalStates
    <3> HIDE DEF to
    <3> QED
      BY <1>1, <3>1, <3>2, SettleStarts DEF Verdict
  <2>3. CASE MarkCancellationUnacknowledged(d) \/ MarkBackendQuiescenceUnacknowledged(d)
    BY <1>1, <2>3 DEF MarkCancellationUnacknowledged, MarkBackendQuiescenceUnacknowledged, TypeOK
  <2> QED
    BY <1>4, <2>1, <2>2, <2>3 DEF RunnerSettled
<1>5. ASSUME NEW d \in Children,
             \/ \E r \in TypedReasons : LaunchAborted(d, r)
             \/ \E r \in Reasons : Interrupt(d, r)
      PROVE  FALSE
  BY <1>1, <1>5, CancelStarts DEF LaunchAborted, Interrupt
<1>6. ASSUME NEW d \in Children, LaunchQueued(d) \/ LaunchReplayed(d)
      PROVE  FALSE
  BY <1>1, <1>6 DEF LaunchQueued, LaunchReplayed, TerminalStates, TypeOK
<1>7. ASSUME NEW d \in Children,
             RunnerBegin(d) \/ RunnerReturn(d) \/ ReconcileRecoveredSession(d)
      PROVE  FALSE
  BY <1>7 DEF RunnerBegin, RunnerReturn, ReconcileRecoveredSession, records
<1>8. CASE StopAccepting \/ RequestCancellationForAll \/ RetryPendingSettlements
  BY <1>8 DEF StopAccepting, RequestCancellationForAll, RetryPendingSettlements, records
<1>9. CASE Restart
  BY <1>9 DEF Restart
<1> QED
  BY <1>2, <1>3, <1>4, <1>5, <1>6, <1>7, <1>8, <1>9 DEF Next

\* Nobody is started past a waiting child (launch).
THEOREM NobodyOvertakes == Spec => NoOvertaking
<1> DEFINE Fair == \A c \in Children : st[c] = "none" /\ st'[c] = "running" => queue = << >>
<1>1. PoolInv /\ [Next]_vars => [Fair]_vars
  BY StepStarts
<1>2. [](PoolInv) /\ [][Next]_vars => [][Fair]_vars
  BY <1>1, PTL
<1> QED
  BY <1>2, Invariance, PTL DEF Spec, NoOvertaking
-----------------------------------------------------------------------------
(***************************************************************************)
(* A child that waits for a slot is cancelled at once                      *)
(***************************************************************************)
Untyped(c) == reason[c] \in Reasons \ TypedReasons

\* The session of a waiting child is as launch opened it.  While the registry
\* works, a child without a slot is waiting, or has settled, or was cancelled
\* with a reason that does not survive safeWorkspaceStatusCode.
WaitInv(c) ==
    /\ c \in Isolated /\ st[c] = "queued" => sess[c] = NewSession
    /\ Resident(c) /\ ~Settled(c) /\ c \notin leased /\ faults = 0 =>
          st[c] = "queued" \/ Untyped(c)

LEMMA NoFault ==
    ASSUME TypeOK, NEW c, NEW fail \in SUBSET Calls, RegistryFaults(c, fail), faults' = 0
    PROVE  faults = 0 /\ fail = {}
<1>1. IsFiniteSet(fail)
  <2>1. IsFiniteSet({"transition"})
    BY FS_Singleton
  <2>2. IsFiniteSet({"transition"} \cup {"request"})
    BY <2>1, FS_AddElement
  <2>3. IsFiniteSet(({"transition"} \cup {"request"}) \cup {"commit"})
    BY <2>2, FS_AddElement
  <2>4. Calls = ({"transition"} \cup {"request"}) \cup {"commit"}
    BY DEF Calls
  <2> QED
    BY <2>3, <2>4, FS_Subset
<1>2. Cardinality(fail) \in Nat
  BY <1>1, FS_CardinalityType
<1>3. faults = 0 /\ Cardinality(fail) = 0
  BY <1>2 DEF RegistryFaults, TypeOK
<1> QED
  BY <1>1, <1>3, FS_EmptySet

\* A step concerns one child; the others wait as before.
LEMMA OthersWait ==
    ASSUME NEW c \in Children, \A d \in Children : WaitInv(d), WaitInv(c)',
           faults' = 0 => faults = 0,
           \A d \in Children \ {c} :
               /\ st'[d] = st[d] /\ sess'[d] = sess[d] /\ reason'[d] = reason[d]
               /\ d \in leased' <=> d \in leased
    PROVE  \A d \in Children : WaitInv(d)'
BY DEF WaitInv, Resident, Settled, Untyped

LEMMA SettleWaits ==
    ASSUME TypeOK, \A d \in Children : WaitInv(d), NEW c \in Children, NEW r, NEW p, NEW fail,
           SettleRecord(c, r, p, fail), p.to \in TerminalStates,
           faults' = 0 => faults = 0,
           \A d \in Children \ {c} : reason'[d] = reason[d],
           Commits(c, r, p, fail) \/ c \in leased \/ faults' # 0 \/ Untyped(c)'
    PROVE  \A d \in Children : WaitInv(d)'
<1>1. sess' = [sess EXCEPT ![c] = Committed(c, r, p, fail)]
  BY DEF SettleRecord
<1>2. CASE Commits(c, r, p, fail)
  <2>1. st' = [st EXCEPT ![c] = p.to] /\ leased' = leased \ {c}
    BY <1>2 DEF SettleRecord, ReleaseLease
  <2>2. WaitInv(c)'
    BY <2>1 DEF WaitInv, Settled, TerminalStates, TypeOK
  <2> QED
    BY <1>1, <2>1, <2>2, OthersWait DEF TypeOK
<1>3. CASE ~Commits(c, r, p, fail)
  <2>1. st' = [st EXCEPT ![c] = "settlement_blocked"] /\ leased' = leased
    BY <1>3 DEF SettleRecord, BlockSettlement
  <2>2. WaitInv(c)'
    BY <1>3, <2>1 DEF WaitInv, TypeOK
  <2> QED
    BY <1>1, <2>1, <2>2, OthersWait DEF TypeOK
<1> QED
  BY <1>2, <1>3

\* The cancellation closes the fresh session itself, and the verdict agrees.
LEMMA FreshCancelCommits ==
    ASSUME NEW c, NEW why \in TypedReasons,
           NEW r, r = IF c \in Isolated THEN Requested(NewSession, why) ELSE r
    PROVE  Commits(c, r, Verdict("cancelled", why, NoReceipt, "none"), {})
<1>1. CASE c \notin Isolated
  BY <1>1 DEF Commits
<1>2. CASE c \in Isolated
  <2>1. r = RequestCancellation(NewSession, why)
    BY <1>2 DEF Requested, NewSession
  <2>2. r.state = "cancelled" /\ r.outcome = "none" /\ r.receipt = NoReceipt /\ r.reason = why
    BY <2>1 DEF RequestCancellation, Released, NewSession
  <2> QED
    BY <2>2 DEF Commits, Agrees, Verdict, TerminalStates
<1> QED
  BY <1>1, <1>2

LEMMA CancelWaits ==
    ASSUME TypeOK, \A d \in Children : WaitInv(d), NEW c \in Children, NEW r,
           NEW why \in Reasons, NEW fail \in SUBSET Calls,
           RegistryFaults(c, fail), CancelRecord(c, r, why, fail),
           c \in Isolated /\ c \notin leased /\ faults = 0 => r = NewSession
    PROVE  \A d \in Children : WaitInv(d)'
<1> DEFINE asked == IF c \in Isolated /\ "transition" \notin fail THEN Requested(r, why) ELSE r
           p     == Verdict("cancelled", why, NoReceipt, "none")
<1>1. faults' = 0 => faults = 0 /\ fail = {}
  BY NoFault
<1>2. reason' = [reason EXCEPT ![c] = why]
  BY DEF CancelRecord
<1>3. CASE c \in leased
  <2>1. /\ st' = [st EXCEPT ![c] = "cancelling"]
        /\ sess' = [sess EXCEPT ![c] = asked]
        /\ leased' = leased
    BY <1>3 DEF CancelRecord
  <2> HIDE DEF asked
  <2>2. WaitInv(c)'
    BY <1>3, <2>1 DEF WaitInv, TypeOK
  <2> QED
    BY <1>1, <1>2, <2>1, <2>2, OthersWait DEF TypeOK
<1>4. CASE c \notin leased
  <2>1. SettleRecord(c, asked, p, fail)
    BY <1>4 DEF CancelRecord
  <2>2. ASSUME faults' = 0, ~Untyped(c)' PROVE Commits(c, asked, p, fail)
    <3>1. why \in TypedReasons
      BY <1>2, <2>2 DEF Untyped, TypeOK
    <3>2. fail = {} /\ (c \in Isolated => asked = Requested(NewSession, why))
      BY <1>1, <1>4, <2>2
    <3> HIDE DEF asked
    <3> QED
      BY <3>1, <3>2, FreshCancelCommits
  <2>3. p.to \in TerminalStates
    BY DEF Verdict, TerminalStates
  <2>4. \A d \in Children \ {c} : reason'[d] = reason[d]
    BY <1>2 DEF TypeOK
  <2> HIDE DEF asked, p
  <2> QED
    BY <1>1, <2>1, <2>2, <2>3, <2>4, SettleWaits
<1> QED
  BY <1>3, <1>4

\* Whoever is started gets a slot, unless the failure is durable at once.
LEMMA StartWaits ==
    ASSUME TypeOK, \A d \in Children : WaitInv(d), NEW c \in Children, NEW r, RowOK(r),
           NEW fail \in SUBSET Calls, RegistryFaults(c, fail), StartRecord(c, r, fail)
    PROVE  \A d \in Children : WaitInv(d)'
<1>1. /\ reason' = reason
      /\ Aside(c)
      /\ Started(c) \/ StartBlocked(c) \/ StartFailed(c)
  BY StartShape
<1>2. faults' = 0 => faults = 0
  BY NoFault
<1>3. WaitInv(c)'
  BY <1>1 DEF WaitInv, Started, StartBlocked, StartFailed, Settled, TerminalStates
<1>4. \A d \in Children \ {c} : d \in leased' <=> d \in leased
  BY <1>1 DEF Started, StartBlocked, StartFailed
<1> QED
  BY <1>1, <1>2, <1>3, <1>4, OthersWait DEF Aside

\* A result is consumed for a child with a slot, or one that settles anyhow.
LEMMA ResultWaits ==
    ASSUME PoolInv, \A d \in Children : WaitInv(d), NEW c \in Children, RunnerSettled(c)
    PROVE  \A d \in Children : WaitInv(d)'
<1>1. TypeOK
  BY Parts
<1>2. /\ st[c] \notin {"none", "queued"} \cup TerminalStates
      /\ result[c] \in Result
  BY ConsumeFacts DEF RunnerSettled, SettleResult, SettleCancelled, MarkCancellationUnacknowledged,
     MarkBackendQuiescenceUnacknowledged
<1>3. c \in leased \/ faults # 0 \/ Untyped(c)
  BY <1>2 DEF WaitInv, Resident, Settled
<1>4. CASE SettleResult(c)
  <2> DEFINE why == IF result[c].status = "cancelled" THEN BackendReason ELSE NoReason
  <2>1. PICK fail \in SUBSET Calls :
           /\ RegistryFaults(c, fail)
           /\ SettleRecord(c, sess[c], Verdict(result[c].status, why, NoReceipt, result[c].outcome), fail)
    BY <1>4 DEF SettleResult
  <2> HIDE DEF why
  <2>2. reason' = reason /\ result[c].status \in TerminalStates
    BY <1>2, <1>4 DEF SettleResult, Result
  <2>3. faults' = 0 => faults = 0
    BY <1>1, <2>1, NoFault
  <2>4. c \in leased \/ faults' # 0 \/ Untyped(c)'
    BY <1>3, <2>2, <2>3 DEF Untyped
  <2> QED
    BY <1>1, <2>1, <2>2, <2>3, <2>4, SettleWaits DEF Verdict
<1>5. CASE SettleCancelled(c)
  <2> DEFINE to == IF result[c].outcome = "partial" THEN "failed" ELSE "cancelled"
  <2>1. PICK fail \in SUBSET Calls :
           /\ RegistryFaults(c, fail)
           /\ SettleRecord(c, sess[c], Verdict(to, reason[c], result[c].receipt, result[c].outcome), fail)
    BY <1>5 DEF SettleCancelled
  <2>2. reason' = reason /\ to \in TerminalStates
    BY <1>5 DEF SettleCancelled, TerminalStates
  <2> HIDE DEF to
  <2>3. faults' = 0 => faults = 0
    BY <1>1, <2>1, NoFault
  <2>4. c \in leased \/ faults' # 0 \/ Untyped(c)'
    BY <1>3, <2>2, <2>3 DEF Untyped
  <2> QED
    BY <1>1, <2>1, <2>2, <2>3, <2>4, SettleWaits DEF Verdict
<1>6. CASE MarkCancellationUnacknowledged(c) \/ MarkBackendQuiescenceUnacknowledged(c)
  <2>1. PICK fail \in SUBSET Calls :
           RegistryFaults(c, fail) /\ \E row : sess' = [sess EXCEPT ![c] = row]
    <3>1. CASE MarkCancellationUnacknowledged(c)
      BY <3>1 DEF MarkCancellationUnacknowledged
    <3>2. CASE MarkBackendQuiescenceUnacknowledged(c)
      BY <3>2 DEF MarkBackendQuiescenceUnacknowledged
    <3> QED
      BY <1>6, <3>1, <3>2
  <2>2. /\ st' = [st EXCEPT ![c] = "cancellation_unacknowledged"]
        /\ leased' = leased
        /\ \/ reason' = reason
           \/ ~CancelRequested(c) /\ reason' = [reason EXCEPT ![c] = BackendReason]
    BY <1>6 DEF MarkCancellationUnacknowledged, MarkBackendQuiescenceUnacknowledged, capacity
  <2>3. faults' = 0 => faults = 0
    BY <1>1, <2>1, NoFault
  <2>4. c \in leased \/ faults' # 0 \/ Untyped(c)'
    BY <1>3, <2>2, <2>3, ReasonAssumption DEF Untyped, CancelRequested
  <2>5. WaitInv(c)'
    BY <1>1, <2>2, <2>4 DEF WaitInv, TypeOK
  <2> QED
    BY <1>1, <2>1, <2>2, <2>3, <2>5, OthersWait DEF TypeOK
<1> QED
  BY <1>4, <1>5, <1>6 DEF RunnerSettled

LEMMA LaunchWaits ==
    ASSUME PoolInv, \A d \in Children : WaitInv(d), NEW c \in Children,
           \/ LaunchAccepted(c) \/ LaunchQueued(c) \/ LaunchReplayed(c)
           \/ \E r \in TypedReasons : LaunchAborted(c, r)
    PROVE  \A d \in Children : WaitInv(d)'
<1>1. TypeOK
  BY Parts
<1>2. CASE LaunchAccepted(c)
  BY <1>1, <1>2, NewSessionOK, StartWaits DEF LaunchAccepted
<1>3. CASE LaunchQueued(c)
  <2>1. /\ st' = [st EXCEPT ![c] = "queued"]
        /\ sess' = [sess EXCEPT ![c] = NewSession]
        /\ UNCHANGED <<reason, leased, faults>>
    BY <1>3 DEF LaunchQueued, history
  <2>2. WaitInv(c)'
    BY <1>1, <2>1 DEF WaitInv, TypeOK
  <2> QED
    BY <1>1, <2>1, <2>2, OthersWait DEF TypeOK
<1>4. CASE LaunchReplayed(c)
  <2>1. /\ st' = [st EXCEPT ![c] = sess[c].state]
        /\ sess[c].state \in TerminalStates
        /\ reason' = [reason EXCEPT ![c] = sess[c].reason]
        /\ UNCHANGED <<sess, leased, faults>>
    BY <1>4 DEF LaunchReplayed, capacity, durable, history
  <2>2. WaitInv(c)'
    BY <1>1, <2>1 DEF WaitInv, Settled, TerminalStates, TypeOK
  <2> QED
    BY <1>1, <2>1, <2>2, OthersWait DEF TypeOK
<1>5. ASSUME NEW why \in TypedReasons, LaunchAborted(c, why)
      PROVE  \A d \in Children : WaitInv(d)'
  BY <1>1, <1>5, PoolAssumption, CancelWaits DEF LaunchAborted
<1> QED
  BY <1>2, <1>3, <1>4, <1>5

LEMMA LoopWaits ==
    ASSUME PoolInv, \A d \in Children : WaitInv(d), LoopStep
    PROVE  \A d \in Children : WaitInv(d)'
<1>1. TypeOK /\ \A d \in Children : ChildInv(d) /\ RowOK(sess[d])
  BY Parts
<1>2. CASE DrainStep
  <2>1. Head(queue) \in Children
    BY <1>1, <1>2, TailQueue DEF DrainStep, TypeOK
  <2>2. CASE st[Head(queue)] = "queued"
    BY <1>1, <1>2, <2>1, <2>2, StartWaits DEF DrainStep
  <2>3. CASE st[Head(queue)] # "queued"
    BY <1>2, <2>3 DEF DrainStep, records, WaitInv, Resident, Settled, Untyped
  <2> QED
    BY <2>2, <2>3
<1>3. CASE DrainDone \/ SweepDone
  BY <1>3 DEF DrainDone, SweepDone, records, capacity, durable, history, WaitInv, Resident, Settled,
     Untyped
<1>4. CASE RetryDone
  BY <1>4 DEF RetryDone, records, durable, history, WaitInv, Resident, Settled, Untyped
<1>5. ASSUME NEW c \in Children, RetryStep(c)
      PROVE  \A d \in Children : WaitInv(d)'
  <2>1. PICK fail \in SUBSET Calls :
           RegistryFaults(c, fail) /\ SettleRecord(c, sess[c], pend[c], fail)
    BY <1>5 DEF RetryStep
  <2>2. ~Settled(c) /\ pend[c] # NoPatch /\ reason' = reason
    BY <1>5 DEF RetryStep, Retryable, Pending
  <2>3. st[c] \notin {"none", "queued"} /\ pend[c].to \in TerminalStates
    BY <1>1, <2>2, PatchType DEF ChildInv, FreshInv, TypeOK
  <2>4. faults' = 0 => faults = 0
    BY <1>1, <2>1, NoFault
  <2>5. c \in leased \/ faults' # 0 \/ Untyped(c)'
    BY <2>2, <2>3, <2>4 DEF WaitInv, Resident, Untyped
  <2> QED
    BY <1>1, <2>1, <2>2, <2>3, <2>4, <2>5, SettleWaits
<1>6. ASSUME NEW c \in Children, NEW why \in TypedReasons, SweepStep(c, why)
      PROVE  \A d \in Children : WaitInv(d)'
  <2>1. CASE CancelRequested(c)
    BY <1>6, <2>1 DEF SweepStep, records, capacity, WaitInv, Resident, Settled, Untyped
  <2>2. CASE ~CancelRequested(c)
    <3>1. PICK fail \in SUBSET Calls :
             RegistryFaults(c, fail) /\ CancelRecord(c, sess[c], why, fail)
      BY <1>6, <2>2 DEF SweepStep
    <3>2. st[c] # "none" /\ ~Settled(c)
      BY <1>1, <1>6 DEF SweepStep, ChildInv, SweepInv
    <3>3. c \in Isolated /\ c \notin leased /\ faults = 0 => sess[c] = NewSession
      BY <2>2, <3>2, ReasonAssumption DEF WaitInv, Resident, CancelRequested, Untyped
    <3> QED
      BY <1>1, <3>1, <3>3, PoolAssumption, CancelWaits
  <2> QED
    BY <2>1, <2>2
<1> QED
  BY <1>2, <1>3, <1>4, <1>5, <1>6 DEF LoopStep

LEMMA WaitKeeps ==
    ASSUME PoolInv, \A d \in Children : WaitInv(d), [Next]_vars
    PROVE  \A d \in Children : WaitInv(d)'
<1>1. TypeOK /\ RecoveryInv /\ \A d \in Children : ChildInv(d)
  BY Parts
<1>2. ASSUME NEW c \in Children, RunnerBegin(c) \/ RunnerReturn(c)
      PROVE  \A d \in Children : WaitInv(d)'
  BY <1>2 DEF RunnerBegin, RunnerReturn, capacity, durable, history, WaitInv, Resident, Settled,
     Untyped
<1>3. ASSUME NEW c \in Children, NEW why \in Reasons, Interrupt(c, why)
      PROVE  \A d \in Children : WaitInv(d)'
  <2>1. PICK fail \in SUBSET Calls :
           RegistryFaults(c, fail) /\ CancelRecord(c, sess[c], why, fail)
    BY <1>3 DEF Interrupt
  <2>2. c \in Isolated /\ c \notin leased /\ faults = 0 => sess[c] = NewSession
    BY <1>3, ReasonAssumption DEF Interrupt, WaitInv, CancelRequested, Untyped
  <2> QED
    BY <1>1, <2>1, <2>2, CancelWaits
<1>4. ASSUME NEW c \in Children, ReconcileRecoveredSession(c)
      PROVE  \A d \in Children : WaitInv(d)'
  <2>1. c \in Recovery
    BY <1>4 DEF ReconcileRecoveredSession, CanReconcile, Recovery, NeedsReconciliation
  <2>2. st[c] = "none"
    BY <1>1, <1>4, <2>1 DEF RecoveryInv, Resident, ReconcileRecoveredSession, TypeOK
  <2>3. /\ \A d \in Children \ {c} : sess'[d] = sess[d]
        /\ UNCHANGED <<st, reason, leased, faults>>
    BY <1>1, <1>4 DEF ReconcileRecoveredSession, records, capacity, history, TypeOK
  <2>4. WaitInv(c)'
    BY <2>2, <2>3 DEF WaitInv, Resident
  <2> QED
    BY <2>3, <2>4, OthersWait
<1>5. CASE StopAccepting \/ RequestCancellationForAll \/ RetryPendingSettlements \/ UNCHANGED vars
  <2>1. UNCHANGED <<st, reason, leased, sess, faults>>
    BY <1>5 DEF StopAccepting, RequestCancellationForAll, RetryPendingSettlements, vars, records,
       capacity, durable, history
  <2> QED
    BY <2>1 DEF WaitInv, Resident, Settled, Untyped
<1>6. CASE Restart
  BY <1>6 DEF Restart, WaitInv, Resident
<1> QED
  BY <1>2, <1>3, <1>4, <1>5, <1>6, LaunchWaits, LoopWaits, ResultWaits DEF Next

LEMMA Waiting == Spec => [](\A c \in Children : WaitInv(c))
<1>1. Init => \A c \in Children : WaitInv(c)
  BY DEF Init, WaitInv, Resident
<1>2. PoolInv /\ (\A c \in Children : WaitInv(c)) /\ [Next]_vars => (\A c \in Children : WaitInv(c))'
  BY WaitKeeps
<1> QED
  BY <1>1, <1>2, Invariance, PTL DEF Spec

\* If interrupt admitted only codes that safeWorkspaceStatusCode lets through,
\* a child cancelled before it got a slot would settle at once, whatever else
\* happens, unless a registry call fails (cancelRecord).
THEOREM WaitingChildSettles ==
    ASSUME Reasons \subseteq TypedReasons
    PROVE  Spec => []QueuedCancelSettles
<1>1. PoolInv /\ (\A c \in Children : WaitInv(c)) => QueuedCancelSettles
  <2> SUFFICES ASSUME PoolInv, NEW c \in Children, WaitInv(c), Resident(c), CancelRequested(c),
                      c \notin leased, faults = 0, ~Settled(c)
               PROVE  FALSE
    BY DEF QueuedCancelSettles
  <2>1. ChildInv(c)
    BY Parts
  <2>2. st[c] # "queued"
    BY <2>1 DEF ChildInv, FreshInv, CancelRequested
  <2> QED
    BY <2>2 DEF WaitInv, Untyped
<1> QED
  BY <1>1, Invariance, Waiting, PTL

-----------------------------------------------------------------------------
(***************************************************************************)
(* The custody contract                                                    *)
(***************************************************************************)
\* The pool never takes a row into the cleanup.
Uncleaned(r) == r.state \in LiveStates \cup TerminalStates

\* While the runner of an isolated child may still work, the child keeps its
\* slot and its row its worktree, and no verdict waits for the registry.
WorkInv(c) ==
    c \in Isolated =>
        /\ Uncleaned(sess[c])
        /\ runner[c] # "idle" =>
              /\ c \in leased
              /\ pend[c] = NoPatch
              /\ sess[c].state \in {"active", "cancelling"}

\* A session stays, and a verdict it holds stands.
RowStands(c) ==
    c \in Isolated /\ c \in opened =>
        /\ c \in opened'
        /\ sess[c].state \in TerminalStates => sess'[c].state = sess[c].state

LEMMA RequestedPlace ==
    ASSUME NEW r \in Session, Uncleaned(r), NEW why
    PROVE  /\ Uncleaned(Requested(r, why))
           /\ r.state \in TerminalStates => Requested(r, why) = r
           /\ r.state \in {"active", "cancelling"} =>
                 Requested(r, why).state \in {"active", "cancelling"}
BY DEF Requested, RequestCancellation, Released, Uncleaned, Session, LiveStates, TerminalStates

LEMMA CommittedPlace ==
    ASSUME NEW c, NEW r, RowOK(r), Uncleaned(r), NEW p \in Patch, NEW fail
    PROVE  /\ Uncleaned(Committed(c, r, p, fail))
           /\ r.state \in TerminalStates => Committed(c, r, p, fail) = r
<1>0. /\ p.to \in TerminalStates
      /\ p.to = "cancelled" => p.reason \in Reasons
      /\ r \in Session
  BY PatchType DEF RowOK
<1> DEFINE q == Prepared(r, p, fail)
<1>1. Uncleaned(q) /\ RowOK(q)
  BY <1>0, RequestedPlace, RequestedRow DEF Prepared
<1>2. CASE c \notin Isolated \/ r.state \notin LiveStates
  BY <1>2 DEF Committed
<1>3. CASE c \in Isolated /\ r.state \in LiveStates
  <2>1. r.state \notin TerminalStates
    BY <1>3 DEF LiveStates, TerminalStates
  <2>2. AcknowledgeCancellation(q, p.receipt, p.outcome).state = "cancelled"
    BY <1>1 DEF AcknowledgeCancellation, Acked, Released, RowOK, Session
  <2>3. SettleSession(r, p.to, p.receipt, p.outcome).state = p.to
    BY <1>0 DEF SettleSession, Acked, Released, Session
  <2>4. \/ Committed(c, r, p, fail) = q
        \/ Committed(c, r, p, fail) = AcknowledgeCancellation(q, p.receipt, p.outcome)
        \/ Committed(c, r, p, fail) = SettleSession(r, p.to, p.receipt, p.outcome)
    BY <1>3 DEF Committed
  <2> HIDE DEF q
  <2> QED BY <1>0, <1>1, <2>1, <2>2, <2>3, <2>4 DEF Uncleaned, TerminalStates
<1> QED BY <1>2, <1>3

\* A step that touches one child leaves the work of the others alone.
LEMMA OthersWork ==
    ASSUME NEW c \in Children, \A d \in Children : WorkInv(d),
           WorkInv(c)', RowStands(c),
           \A d \in Children \ {c} :
               /\ pend'[d] = pend[d] /\ sess'[d] = sess[d] /\ runner'[d] = runner[d]
               /\ d \in leased => d \in leased'
               /\ d \in opened => d \in opened'
    PROVE  \A d \in Children : WorkInv(d)' /\ RowStands(d)
BY DEF WorkInv, RowStands

\* A settlement attempt concerns a child whose runner is gone.
LEMMA SettleWorks ==
    ASSUME TypeOK, \A d \in Children : WorkInv(d) /\ RowOK(sess[d]),
           NEW c \in Children, NEW r, RowOK(r), Uncleaned(r), NEW p \in Patch, NEW fail,
           SettleRecord(c, r, p, fail),
           c \in Isolated => runner'[c] = "idle",
           c \in Isolated /\ c \in opened /\ sess[c].state \in TerminalStates => r.state = sess[c].state,
           \A d \in Children \ {c} : runner'[d] = runner[d],
           opened \subseteq opened'
    PROVE  \A d \in Children : WorkInv(d)' /\ RowStands(d)
<1>1. /\ \A d \in Children \ {c} : st'[d] = st[d] /\ pend'[d] = pend[d] /\ sess'[d] = sess[d]
      /\ Freed(c, p) \/ Kept(c, p)
  BY SettleShape DEF Aside
<1>2. \A d \in Children \ {c} : d \in leased => d \in leased'
  BY <1>1 DEF Freed, Kept, ReleaseLease
<1>3. sess'[c] = Committed(c, r, p, fail)
  BY DEF SettleRecord, TypeOK
<1>4. Uncleaned(sess'[c]) /\ (r.state \in TerminalStates => sess'[c] = r)
  BY <1>3, CommittedPlace
<1>5. WorkInv(c)' /\ RowStands(c)
  BY <1>4 DEF WorkInv, RowStands, Uncleaned
<1> QED BY <1>1, <1>2, <1>5, OthersWork

\* cancelRecord: a child with a slot goes on working until it gives an account
\* of itself; one without a slot never began.
LEMMA CancelWorks ==
    ASSUME TypeOK, \A d \in Children : WorkInv(d) /\ RowOK(sess[d]),
           NEW c \in Children, NEW r, RowOK(r), Uncleaned(r), NEW why \in Reasons, NEW fail,
           CancelRecord(c, r, why, fail),
           c \in Isolated /\ c \in opened => r = sess[c],
           c \in Isolated /\ c \notin opened => runner[c] = "idle",
           opened \subseteq opened'
    PROVE  \A d \in Children : WorkInv(d)' /\ RowStands(d)
<1> DEFINE asked == IF c \in Isolated /\ "transition" \notin fail THEN Requested(r, why) ELSE r
           p     == Verdict("cancelled", why, NoReceipt, "none")
<1>0. r \in Session
  BY DEF RowOK
<1>1. /\ RowOK(asked) /\ Uncleaned(asked)
      /\ r.state \in TerminalStates => asked = r
      /\ r.state \in {"active", "cancelling"} => asked.state \in {"active", "cancelling"}
  BY <1>0, RequestedRow, RequestedPlace
<1>2. runner' = runner
  BY DEF CancelRecord
<1>3. CASE c \in leased
  <2>1. /\ sess' = [sess EXCEPT ![c] = asked]
        /\ UNCHANGED <<pend, leased>>
    BY <1>3 DEF CancelRecord
  <2> HIDE DEF asked
  <2>2. sess'[c] = asked /\ \A d \in Children \ {c} : sess'[d] = sess[d]
    BY <2>1 DEF TypeOK
  <2>3. WorkInv(c)'
    BY <1>1, <1>2, <2>1, <2>2 DEF WorkInv
  <2>4. RowStands(c)
    BY <1>1, <2>2 DEF RowStands
  <2> QED BY <1>2, <2>1, <2>2, <2>3, <2>4, OthersWork
<1>4. CASE c \notin leased
  <2>1. SettleRecord(c, asked, p, fail)
    BY <1>4 DEF CancelRecord
  <2>2. p \in Patch
    BY ReasonAssumption DEF Verdict, Patch, TerminalStates, Outcomes
  <2>3. c \in Isolated => runner'[c] = "idle"
    BY <1>2, <1>4 DEF WorkInv
  <2>4. c \in Isolated /\ c \in opened /\ sess[c].state \in TerminalStates =>
            asked.state = sess[c].state
    BY <1>1
  <2> HIDE DEF asked, p
  <2> QED BY <1>1, <1>2, <2>1, <2>2, <2>3, <2>4, SettleWorks
<1> QED BY <1>3, <1>4

\* A start that the registry allows puts the child to work in a held worktree.
LEMMA StartWorks ==
    ASSUME TypeOK, \A d \in Children : WorkInv(d) /\ RowOK(sess[d]),
           NEW c \in Children, NEW r, RowOK(r), Uncleaned(r), NEW fail, StartRecord(c, r, fail),
           runner[c] = "idle", pend[c] = NoPatch,
           c \in Isolated /\ c \in opened => r = sess[c],
           opened \subseteq opened'
    PROVE  \A d \in Children : WorkInv(d)' /\ RowStands(d)
<1> DEFINE failure == Verdict("failed", NoReason, NoReceipt, "none")
           refused == c \in Isolated /\ ("transition" \in fail \/ ~CanActivateLease(r))
           row     == Committed(c, r, failure, fail)
<1>1. /\ Aside(c)
      /\ Started(c) \/ StartBlocked(c) \/ StartFailed(c)
  BY StartShape
<1>2. /\ \A d \in Children \ {c} : /\ pend'[d] = pend[d] /\ sess'[d] = sess[d]
                                   /\ runner'[d] = runner[d]
      /\ leased \subseteq leased'
  BY <1>1 DEF Aside, Started, StartBlocked, StartFailed, TypeOK
<1>3. CASE ~refused
  <2>1. /\ sess' = [sess EXCEPT ![c] = IF c \in Isolated THEN ActivateLease(r) ELSE r]
        /\ leased' = leased \cup {c}
        /\ pend' = pend
    BY <1>3 DEF StartRecord
  <2>2. c \in Isolated => sess'[c].state = "active" /\ r.state \notin TerminalStates
    BY <1>3, <2>1 DEF ActivateLease, CanActivateLease, MayBecome, ALLOWED_TRANSITIONS, RowOK,
                      Session, TypeOK, TerminalStates
  <2>3. WorkInv(c)' /\ RowStands(c)
    BY <2>1, <2>2 DEF WorkInv, RowStands, Uncleaned, LiveStates
  <2> QED BY <1>2, <2>3, OthersWork
<1>4. CASE refused
  <2>1. sess' = [sess EXCEPT ![c] = row] /\ runner' = runner
    BY <1>4 DEF StartRecord
  <2>2. failure \in Patch
    BY DEF Verdict, Patch, TerminalStates, Outcomes
  <2>3. Uncleaned(row) /\ (r.state \in TerminalStates => row = r)
    BY <2>2, CommittedPlace
  <2> HIDE DEF row
  <2>4. WorkInv(c)' /\ RowStands(c)
    BY <2>1, <2>3 DEF WorkInv, RowStands, TypeOK
  <2> QED BY <1>2, <2>4, OthersWork
<1> QED BY <1>3, <1>4

\* A child that is cancelled later, isolated or not.
LEMMA InterruptWorks ==
    ASSUME TypeOK, \A d \in Children : WorkInv(d) /\ RowOK(sess[d]),
           NEW c \in Children, NEW why \in Reasons, NEW fail,
           CancelRecord(c, sess[c], why, fail),
           c \in Isolated => c \in opened, opened' = opened
    PROVE  \A d \in Children : WorkInv(d)' /\ RowStands(d)
<1>1. CASE c \in Isolated
  <2>1. Uncleaned(sess[c]) /\ RowOK(sess[c])
    BY <1>1 DEF WorkInv
  <2> QED BY <1>1, <2>1, CancelWorks
<1>2. CASE c \notin Isolated
  <2>1. WorkInv(c)' /\ RowStands(c)
    BY <1>2 DEF WorkInv, RowStands
  <2>2. /\ runner' = runner
        /\ \A d \in Children \ {c} : /\ pend'[d] = pend[d] /\ sess'[d] = sess[d]
                                     /\ d \in leased => d \in leased'
    BY DEF CancelRecord, SettleRecord, BlockSettlement, ReleaseLease, TypeOK
  <2> QED BY <2>1, <2>2, OthersWork
<1> QED BY <1>1, <1>2

LEMMA ResultWorks ==
    ASSUME PoolInv, \A d \in Children : WorkInv(d), NEW c \in Children, RunnerSettled(c)
    PROVE  \A d \in Children : WorkInv(d)' /\ RowStands(d)
<1>1. TypeOK /\ \A d \in Children : WorkInv(d) /\ RowOK(sess[d])
  BY Parts
<1>2. /\ result[c] \in Result
      /\ runner'[c] = "idle"
      /\ \A d \in Children \ {c} : runner'[d] = runner[d]
      /\ opened' = opened
  BY ConsumeFacts DEF RunnerSettled, SettleResult, SettleCancelled, MarkCancellationUnacknowledged,
     MarkBackendQuiescenceUnacknowledged
<1>3. CASE c \in Isolated
  <2>1. runner[c] = "returned" /\ Uncleaned(sess[c]) /\ RowOK(sess[c])
    BY <1>1, <1>3 DEF RunnerSettled, SettleResult, SettleCancelled, MarkCancellationUnacknowledged,
       MarkBackendQuiescenceUnacknowledged, Consume, WorkInv
  <2>2. CASE SettleResult(c)
    <3> DEFINE why == IF result[c].status = "cancelled" THEN BackendReason ELSE NoReason
               p   == Verdict(result[c].status, why, NoReceipt, result[c].outcome)
    <3>1. PICK fail \in SUBSET Calls : SettleRecord(c, sess[c], p, fail)
      BY <2>2 DEF SettleResult
    <3>2. p \in Patch
      BY <1>2, <2>2, PoolAssumption, ReasonAssumption DEF SettleResult, Verdict, Patch, Result
    <3> HIDE DEF p
    <3> QED BY <1>1, <1>2, <2>1, <3>1, <3>2, SettleWorks
  <2>3. CASE SettleCancelled(c)
    <3> DEFINE to == IF result[c].outcome = "partial" THEN "failed" ELSE "cancelled"
               p  == Verdict(to, reason[c], result[c].receipt, result[c].outcome)
    <3>1. PICK fail \in SUBSET Calls : SettleRecord(c, sess[c], p, fail)
      BY <2>3 DEF SettleCancelled
    <3>2. p \in Patch
      <4>1. reason[c] \in Reasons
        BY <1>1, <2>3 DEF SettleCancelled, CancelRequested, TypeOK
      <4> QED
        BY <1>2, <4>1, ReasonAssumption DEF Verdict, Patch, Result, TerminalStates
    <3> HIDE DEF p
    <3> QED BY <1>1, <1>2, <2>1, <3>1, <3>2, SettleWorks
  <2>4. CASE MarkCancellationUnacknowledged(c) \/ MarkBackendQuiescenceUnacknowledged(c)
    <3>1. sess[c] \in Session /\ UNCHANGED <<pend, leased>>
      BY <1>1, <2>4 DEF TypeOK, MarkCancellationUnacknowledged, MarkBackendQuiescenceUnacknowledged,
         capacity
    <3>2. PICK r \in Session, fail \in SUBSET Calls :
             /\ r = sess[c] \/ \E why \in Reasons : r = Requested(sess[c], why)
             /\ sess' = [sess EXCEPT ![c] = Recorded(c, r, fail)]
      <4>1. CASE MarkCancellationUnacknowledged(c)
        <5>1. PICK fail \in SUBSET Calls : sess' = [sess EXCEPT ![c] = Recorded(c, sess[c], fail)]
          BY <4>1 DEF MarkCancellationUnacknowledged
        <5> QED BY <3>1, <5>1
      <4>2. CASE MarkBackendQuiescenceUnacknowledged(c)
        <5>1. PICK fail \in SUBSET Calls :
                 sess' = [sess EXCEPT ![c] =
                    Recorded(c, IF "transition" \in fail THEN sess[c]
                                ELSE Requested(sess[c], BackendReason), fail)]
          BY <4>2 DEF MarkBackendQuiescenceUnacknowledged
        <5>2. BackendReason \in Reasons /\ Requested(sess[c], BackendReason) \in Session
          BY <2>1, PoolAssumption, RequestedRow DEF RowOK
        <5>3. CASE "transition" \in fail
          BY <3>1, <5>1, <5>3
        <5>4. CASE "transition" \notin fail
          BY <5>1, <5>2, <5>4
        <5> QED BY <5>3, <5>4
      <4> QED BY <2>4, <4>1, <4>2
    <3>3. /\ Uncleaned(r) /\ r \in Session
          /\ sess[c].state \in TerminalStates => r = sess[c]
      BY <2>1, <3>1, <3>2, RequestedPlace
    <3>4. Recorded(c, r, fail).state = r.state
      BY <3>3 DEF Recorded, RecordMutationOutcome, Session
    <3>5. sess'[c].state = r.state /\ \A d \in Children \ {c} : sess'[d] = sess[d]
      BY <1>1, <3>2, <3>4 DEF TypeOK
    <3>6. WorkInv(c)' /\ RowStands(c)
      BY <1>2, <3>3, <3>5 DEF WorkInv, RowStands, Uncleaned
    <3> QED BY <1>1, <1>2, <3>1, <3>5, <3>6, OthersWork
  <2> QED BY <2>2, <2>3, <2>4 DEF RunnerSettled
<1>4. CASE c \notin Isolated
  <2>1. WorkInv(c)' /\ RowStands(c)
    BY <1>4 DEF WorkInv, RowStands
  <2>2. \A d \in Children \ {c} : /\ pend'[d] = pend[d] /\ sess'[d] = sess[d]
                                  /\ d \in leased => d \in leased'
    BY <1>1 DEF RunnerSettled, SettleResult, SettleCancelled, MarkCancellationUnacknowledged,
       MarkBackendQuiescenceUnacknowledged, SettleRecord, BlockSettlement, ReleaseLease, capacity,
       TypeOK
  <2> QED BY <1>1, <1>2, <2>1, <2>2, OthersWork
<1> QED BY <1>3, <1>4

LEMMA LaunchWorks ==
    ASSUME PoolInv, \A d \in Children : WorkInv(d), NEW c \in Children,
           \/ LaunchAccepted(c) \/ LaunchQueued(c) \/ LaunchReplayed(c)
           \/ \E r \in TypedReasons : LaunchAborted(c, r)
    PROVE  \A d \in Children : WorkInv(d)' /\ RowStands(d)
<1>1. TypeOK /\ \A d \in Children : WorkInv(d) /\ ChildInv(d) /\ RowOK(sess[d])
  BY Parts
<1>2. /\ runner[c] = "idle" /\ pend[c] = NoPatch
      /\ opened \subseteq opened'
      /\ \A d \in Children \ {c} : d \in opened => d \in opened'
  BY <1>1 DEF LaunchAccepted, LaunchQueued, LaunchReplayed, LaunchAborted, Admissible, Resident,
     Opens, ChildInv, FreshInv, durable
<1>3. RowOK(NewSession) /\ Uncleaned(NewSession)
  BY NewSessionOK DEF Uncleaned, NewSession, LiveStates
<1>4. CASE LaunchAccepted(c)
  <2>1. PICK fail \in SUBSET Calls : StartRecord(c, NewSession, fail)
    BY <1>4 DEF LaunchAccepted
  <2>2. c \notin opened
    BY <1>4 DEF LaunchAccepted, Admissible
  <2> QED BY <1>1, <1>2, <1>3, <2>1, <2>2, StartWorks
<1>5. CASE LaunchQueued(c)
  <2>1. /\ sess' = [sess EXCEPT ![c] = NewSession]
        /\ UNCHANGED <<pend, runner, leased>>
        /\ c \notin opened
    BY <1>5 DEF LaunchQueued, Admissible
  <2>2. WorkInv(c)' /\ RowStands(c)
    BY <1>1, <1>2, <1>3, <2>1 DEF WorkInv, RowStands, TypeOK
  <2> QED BY <1>1, <1>2, <2>1, <2>2, OthersWork DEF TypeOK
<1>6. CASE LaunchReplayed(c)
  BY <1>1, <1>6 DEF LaunchReplayed, capacity, durable, WorkInv, RowStands
<1>7. ASSUME NEW why \in TypedReasons, LaunchAborted(c, why)
      PROVE  \A d \in Children : WorkInv(d)' /\ RowStands(d)
  <2>1. PICK fail \in SUBSET Calls : CancelRecord(c, NewSession, why, fail)
    BY <1>7 DEF LaunchAborted
  <2>2. c \notin opened /\ why \in Reasons
    BY <1>7, PoolAssumption DEF LaunchAborted, Admissible
  <2> QED BY <1>1, <1>2, <1>3, <2>1, <2>2, CancelWorks
<1> QED BY <1>4, <1>5, <1>6, <1>7

LEMMA LoopWorks ==
    ASSUME PoolInv, \A d \in Children : WorkInv(d), LoopStep
    PROVE  \A d \in Children : WorkInv(d)' /\ RowStands(d)
<1>1. TypeOK /\ \A d \in Children : WorkInv(d) /\ ChildInv(d) /\ RowOK(sess[d])
  BY Parts
<1>2. CASE DrainStep
  <2>1. PICK c \in Children : c = Head(queue)
    BY <1>1, <1>2, TailQueue DEF DrainStep, TypeOK
  <2>2. CASE st[c] = "queued"
    <3>1. PICK fail \in SUBSET Calls : StartRecord(c, sess[c], fail)
      BY <1>2, <2>1, <2>2 DEF DrainStep
    <3>2. runner[c] = "idle" /\ pend[c] = NoPatch
      BY <1>1, <2>1, <2>2 DEF ChildInv, FreshInv
    <3>3. opened' = opened
      BY <1>2 DEF DrainStep
    <3>4. CASE c \in Isolated
      <4>1. Uncleaned(sess[c])
        BY <1>1, <2>1, <3>4 DEF WorkInv
      <4> QED BY <1>1, <2>1, <3>1, <3>2, <3>3, <4>1, StartWorks
    <3>5. CASE c \notin Isolated
      <4>1. /\ Aside(c)
            /\ Started(c) \/ StartBlocked(c) \/ StartFailed(c)
        BY <1>1, <2>1, <3>1, StartShape
      <4>2. \A d \in Children \ {c} : runner'[d] = runner[d] /\ (d \in leased => d \in leased')
        BY <1>1, <4>1 DEF Started, StartBlocked, StartFailed, TypeOK
      <4>3. WorkInv(c)' /\ RowStands(c)
        BY <3>5 DEF WorkInv, RowStands
      <4> QED BY <1>1, <2>1, <3>3, <4>1, <4>2, <4>3, OthersWork DEF Aside
    <3> QED BY <3>4, <3>5
  <2>3. CASE st[c] # "queued"
    BY <1>1, <1>2, <2>1, <2>3 DEF DrainStep, records, WorkInv, RowStands
  <2> QED BY <2>2, <2>3
<1>3. CASE DrainDone \/ SweepDone
  BY <1>1, <1>3 DEF DrainDone, SweepDone, records, capacity, durable, WorkInv, RowStands
<1>4. CASE RetryDone
  BY <1>1, <1>4 DEF RetryDone, records, durable, WorkInv, RowStands
<1>5. ASSUME NEW c \in Children, RetryStep(c)
      PROVE  \A d \in Children : WorkInv(d)' /\ RowStands(d)
  <2>1. PICK fail \in SUBSET Calls : SettleRecord(c, sess[c], pend[c], fail)
    BY <1>5 DEF RetryStep
  <2>2. pend[c] # NoPatch /\ runner' = runner /\ opened' = opened
    BY <1>5 DEF RetryStep, Retryable, Pending
  <2>3. pend[c] \in Patch
    BY <1>1, <2>2 DEF TypeOK
  <2>4. CASE c \in Isolated
    <3>1. runner'[c] = "idle" /\ Uncleaned(sess[c])
      BY <1>1, <2>2, <2>4 DEF WorkInv
    <3> QED BY <1>1, <2>1, <2>2, <2>3, <3>1, SettleWorks
  <2>5. CASE c \notin Isolated
    <3>1. WorkInv(c)' /\ RowStands(c)
      BY <2>5 DEF WorkInv, RowStands
    <3>2. \A d \in Children \ {c} : /\ pend'[d] = pend[d] /\ sess'[d] = sess[d]
                                    /\ d \in leased => d \in leased'
      BY <1>1, <2>1 DEF SettleRecord, BlockSettlement, ReleaseLease, TypeOK
    <3> QED BY <1>1, <2>2, <3>1, <3>2, OthersWork
  <2> QED BY <2>4, <2>5
<1>6. ASSUME NEW c \in Children, NEW why \in TypedReasons, SweepStep(c, why)
      PROVE  \A d \in Children : WorkInv(d)' /\ RowStands(d)
  <2>1. CASE CancelRequested(c)
    BY <1>1, <1>6, <2>1 DEF SweepStep, records, capacity, WorkInv, RowStands
  <2>2. CASE ~CancelRequested(c)
    <3>1. PICK fail \in SUBSET Calls : CancelRecord(c, sess[c], why, fail)
      BY <1>6, <2>2 DEF SweepStep
    <3>2. opened' = opened /\ why \in Reasons
      BY <1>6, PoolAssumption DEF SweepStep
    <3>3. st[c] # "none"
      BY <1>1, <1>6 DEF SweepStep, ChildInv, SweepInv
    <3>4. c \in Isolated => c \in opened
      BY <1>1, <3>3 DEF ChildInv, RunInv
    <3> QED BY <1>1, <3>1, <3>2, <3>4, InterruptWorks
  <2> QED BY <2>1, <2>2
<1> QED BY <1>2, <1>3, <1>4, <1>5, <1>6 DEF LoopStep

LEMMA WorkStep ==
    ASSUME PoolInv, \A d \in Children : WorkInv(d), [Next]_vars
    PROVE  \A d \in Children : WorkInv(d)' /\ RowStands(d)
<1>1. TypeOK /\ RecoveryInv /\ \A d \in Children : WorkInv(d) /\ ChildInv(d) /\ RowOK(sess[d])
  BY Parts
<1>2. ASSUME NEW c \in Children, RunnerBegin(c) \/ RunnerReturn(c)
      PROVE  \A d \in Children : WorkInv(d)' /\ RowStands(d)
  <2>1. /\ runner[c] # "idle"
        /\ \A d \in Children \ {c} : runner'[d] = runner[d]
        /\ UNCHANGED <<pend, leased, opened, sess>>
    BY <1>1, <1>2 DEF RunnerBegin, RunnerReturn, capacity, durable, TypeOK
  <2>2. WorkInv(c)' /\ RowStands(c)
    BY <1>1, <2>1 DEF WorkInv, RowStands
  <2> QED BY <1>1, <2>1, <2>2, OthersWork
<1>3. ASSUME NEW c \in Children, NEW why \in Reasons, Interrupt(c, why)
      PROVE  \A d \in Children : WorkInv(d)' /\ RowStands(d)
  <2>1. PICK fail \in SUBSET Calls : CancelRecord(c, sess[c], why, fail)
    BY <1>3 DEF Interrupt
  <2>2. opened' = opened /\ (c \in Isolated => c \in opened)
    BY <1>1, <1>3 DEF Interrupt, Resident, ChildInv, RunInv
  <2> QED BY <1>1, <2>1, <2>2, InterruptWorks
<1>4. ASSUME NEW c \in Children, ReconcileRecoveredSession(c)
      PROVE  \A d \in Children : WorkInv(d)' /\ RowStands(d)
  <2>1. c \in Recovery /\ sess[c].state \in LiveStates
    BY <1>4 DEF ReconcileRecoveredSession, CanReconcile, Recovery, NeedsReconciliation
  <2>2. c \in Isolated /\ st[c] = "none"
    BY <1>1, <1>4, <2>1 DEF RecoveryInv, Resident, ReconcileRecoveredSession, TypeOK
  <2>3. runner[c] = "idle"
    BY <1>1, <2>2 DEF ChildInv, FreshInv
  <2>4. /\ sess'[c] = ReconcileInterruptedSession(sess[c])
        /\ \A d \in Children \ {c} : sess'[d] = sess[d]
        /\ UNCHANGED <<pend, runner, leased, opened>>
    BY <1>1, <1>4 DEF ReconcileRecoveredSession, records, capacity, TypeOK
  <2>5. sess'[c].state \in {"cancelled", "failed"}
    BY <1>1, <2>4 DEF ReconcileInterruptedSession, ReconciledState, Released, RowOK, Session
  <2>6. WorkInv(c)' /\ RowStands(c)
    BY <2>1, <2>3, <2>4, <2>5 DEF WorkInv, RowStands, Uncleaned, LiveStates, TerminalStates
  <2> QED BY <1>1, <2>4, <2>6, OthersWork
<1>5. CASE StopAccepting \/ RequestCancellationForAll \/ RetryPendingSettlements \/ UNCHANGED vars
  <2>1. UNCHANGED <<pend, runner, leased, opened, sess>>
    BY <1>5 DEF StopAccepting, RequestCancellationForAll, RetryPendingSettlements, vars, records,
       capacity, durable
  <2> QED BY <1>1, <2>1 DEF WorkInv, RowStands
<1>6. CASE Restart
  BY <1>1, <1>6 DEF Restart, durable, WorkInv, RowStands
<1> QED
  BY <1>2, <1>3, <1>4, <1>5, <1>6, LaunchWorks, LoopWorks, ResultWorks DEF Next

Works == \A c \in Children : WorkInv(c)

LEMMA Working == Spec => []Works
<1>1. Init => Works
  BY PoolAssumption DEF Init, Works, WorkInv, Uncleaned, NewSession, LiveStates
<1>2. PoolInv /\ Works /\ [Next]_vars => Works'
  BY WorkStep DEF Works
<1> QED BY <1>1, <1>2, Invariance, PTL DEF Spec

LEMMA ContractStep ==
    ASSUME PoolInv, PoolInv', Works, Works', [Next]_vars
    PROVE  Contract!Next
<1>1. /\ TypeOK /\ TypeOK'
      /\ \A c \in Isolated : /\ c \in Children
                             /\ ChildInv(c) /\ ChildInv(c)'
                             /\ WorkInv(c) /\ WorkInv(c)'
                             /\ RowStands(c)
  BY WorkStep, PoolAssumption DEF PoolInv, Works
<1>2. Contract!TypeOK'
  <2>1. ASSUME NEW c \in Isolated
        PROVE  WorktreeOf(c)' \in {"free", "held", "removed"} \cup Contract!Verdicts
    <3>1. Uncleaned(sess'[c])
      BY <1>1 DEF WorkInv
    <3> QED BY <3>1 DEF WorktreeOf, Contract!Verdicts, Uncleaned, NeedsReconciliation, LiveStates,
               TerminalStates
  <2>2. ASSUME NEW c \in Isolated, Settled(c)'
        PROVE  st'[c] \in Contract!Verdicts
    BY <2>2 DEF Settled, TerminalStates, Contract!Verdicts
  <2> QED BY <2>1, <2>2 DEF Contract!TypeOK
<1>3. ASSUME NEW c \in Isolated
      PROVE  Contract!Step(c)
  <2> DEFINE at   == WorktreeOf(c)
             use  == IF runner[c] = "idle" THEN {} ELSE {c}
             told == IF Settled(c) THEN st[c] ELSE "nothing"
  <2>1. /\ sess[c].state \in LiveStates \cup TerminalStates
        /\ sess'[c].state \in LiveStates \cup TerminalStates
        /\ c \in opened => c \in opened'
        /\ c \in opened /\ sess[c].state \in TerminalStates => sess'[c].state = sess[c].state
    BY <1>1 DEF WorkInv, Uncleaned, RowStands
  <2>2. /\ runner[c] # "idle" => c \in opened /\ sess[c].state \in LiveStates
        /\ runner'[c] # "idle" => c \in opened' /\ sess'[c].state \in LiveStates
    <3>1. runner[c] # "idle" => st[c] # "none" /\ sess[c].state \in {"active", "cancelling"}
      BY <1>1 DEF WorkInv, ChildInv, FreshInv
    <3>2. runner'[c] # "idle" => st'[c] # "none" /\ sess'[c].state \in {"active", "cancelling"}
      BY <1>1 DEF WorkInv, ChildInv, FreshInv
    <3> QED BY <1>1, <3>1, <3>2 DEF ChildInv, RunInv, LiveStates
  <2>3. /\ Settled(c) => c \in opened /\ sess[c].state = st[c] /\ st[c] \in TerminalStates
        /\ Settled(c)' => c \in opened' /\ sess'[c].state = st'[c] /\ st'[c] \in TerminalStates
    BY <1>1 DEF ChildInv, DurableInv, RunInv, Settled, TerminalStates
  <2>4. /\ at = IF c \notin opened THEN "free"
                ELSE IF sess[c].state \in LiveStates THEN "held" ELSE sess[c].state
        /\ at' = IF c \notin opened' THEN "free"
                 ELSE IF sess'[c].state \in LiveStates THEN "held" ELSE sess'[c].state
    <3>1. /\ NeedsReconciliation(sess[c]) <=> sess[c].state \in LiveStates
          /\ NeedsReconciliation(sess'[c]) <=> sess'[c].state \in LiveStates
      BY <1>1 DEF ChildInv, RowOK, RowConsistent, Session, SessionStates, NeedsReconciliation,
         LiveStates, TerminalStates, CleanupStates
    <3>2. CASE c \notin opened
      BY <3>1, <3>2 DEF WorktreeOf
    <3>3. CASE c \in opened
      BY <3>1, <3>3 DEF WorktreeOf
    <3>4. CASE c \notin opened'
      BY <3>1, <3>4 DEF WorktreeOf
    <3>5. CASE c \in opened'
      BY <3>1, <3>5 DEF WorktreeOf
    <3> QED BY <3>2, <3>3, <3>4, <3>5
  <2>5. \A x : ~(x \in LiveStates /\ x \in TerminalStates)
    BY DEF LiveStates, TerminalStates
  <2>6. TerminalStates \subseteq Contract!Verdicts
    BY DEF TerminalStates, Contract!Verdicts
  <2>7. CASE c \notin opened'
    <3>1. Contract!Same(c)
      BY <2>1, <2>2, <2>3, <2>4, <2>7 DEF Contract!Same
    <3> QED BY <3>1 DEF Contract!Step
  <2>8. CASE c \notin opened /\ c \in opened' /\ sess'[c].state \in LiveStates
    <3>1. Contract!Take(c)
      BY <2>2, <2>3, <2>4, <2>5, <2>8 DEF Contract!Take, Contract!AtMostOne
    <3> QED BY <3>1 DEF Contract!Step
  <2>9. CASE c \in opened' /\ sess'[c].state \in TerminalStates
              /\ (c \notin opened \/ sess[c].state \in LiveStates)
    <3>1. Contract!Conclude(c)
      BY <2>2, <2>3, <2>4, <2>5, <2>6, <2>9 DEF Contract!Conclude
    <3> QED BY <3>1 DEF Contract!Step
  <2>10. CASE c \in opened /\ sess[c].state \in LiveStates /\ sess'[c].state \in LiveStates
    <3>1. Contract!Use(c) \/ Contract!Same(c)
      BY <2>1, <2>3, <2>4, <2>5, <2>10 DEF Contract!Use, Contract!Same, Contract!AtMostOne
    <3> QED BY <3>1 DEF Contract!Step
  <2>11. CASE c \in opened /\ sess[c].state \in TerminalStates
    <3>1. sess'[c].state = sess[c].state /\ c \in opened' /\ runner[c] = "idle" /\ runner'[c] = "idle"
      BY <2>1, <2>2, <2>5, <2>11
    <3>2. Contract!Tell(c) \/ Contract!Forget(c)
      BY <2>3, <2>4, <2>5, <2>6, <2>11, <3>1 DEF Contract!Tell, Contract!Forget
    <3> QED BY <3>2 DEF Contract!Step
  <2> QED BY <2>1, <2>7, <2>8, <2>9, <2>10, <2>11
<1> QED BY <1>2, <1>3 DEF Contract!Next

LEMMA ContractInit == Init => Contract!Init
<1> SUFFICES ASSUME Init PROVE Contract!Init
  OBVIOUS
<1>1. \A c \in Isolated : WorktreeOf(c) = "free" /\ runner[c] = "idle" /\ ~Settled(c)
  BY PoolAssumption DEF Init, WorktreeOf, Settled, TerminalStates
<1> QED BY <1>1 DEF Contract!Init

\* Pool and rows implement the custody contract: no verdict is durable while a
\* runner may still work in the worktree, none is reported before it is
\* durable, and none changes, whatever registry call fails and whenever the
\* process is restarted (settleRecord, cancelRecord, startRecord, launch).
THEOREM PoolKeepsCustody == Spec => KeepsCustody
<1>1. PoolInv /\ PoolInv' /\ Works /\ Works' /\ [Next]_vars => [Contract!Next]_(Contract!vars)
  BY ContractStep
<1> QED BY <1>1, ContractInit, Working, Invariance, PTL
           DEF Spec, KeepsCustody, Contract!Spec

\* A runner works only in a worktree the registry knows to be held, and what a
\* settled record reports is the registry's verdict for good.
THEOREM PoolWorksInHeld == Spec => []Contract!WorkIsHeld
<1>1. Contract!Init => Contract!WorkIsHeld
  BY DEF Contract!Init, Contract!WorkIsHeld
<1>2. Contract!WorkIsHeld /\ [Contract!Next]_(Contract!vars) => Contract!WorkIsHeld'
  <2> SUFFICES ASSUME Contract!WorkIsHeld, [Contract!Next]_(Contract!vars)
               PROVE  Contract!WorkIsHeld'
    OBVIOUS
  <2>1. CASE UNCHANGED Contract!vars
    BY <2>1 DEF Contract!vars, Contract!WorkIsHeld
  <2>2. ASSUME Contract!Next, NEW c \in Isolated
        PROVE  /\ runner'[c] # "idle" => (WorktreeOf(c))' = "held"
               /\ Settled(c)' => (WorktreeOf(c))' \in {st'[c], "removed"}
    <3> DEFINE at   == WorktreeOf(c)
               use  == IF runner[c] = "idle" THEN {} ELSE {c}
               told == IF Settled(c) THEN st[c] ELSE "nothing"
    <3>1. Contract!Step(c)
      BY <2>2 DEF Contract!Next
    <3>2. /\ use # {} => at = "held"
          /\ told # "nothing" => at \in {told, "removed"}
      BY DEF Contract!WorkIsHeld
    <3>3. use' # {} => at' = "held"
      <4>1. CASE Contract!Take(c) \/ Contract!Use(c)
        BY <4>1 DEF Contract!Take, Contract!Use
      <4>2. CASE Contract!Conclude(c)
        BY <4>2 DEF Contract!Conclude
      <4>3. CASE Contract!Tell(c) \/ Contract!Forget(c) \/ Contract!Same(c)
        BY <3>2, <4>3 DEF Contract!Tell, Contract!Forget, Contract!Same
      <4>4. CASE Contract!Remove(c)
        BY <3>2, <4>4 DEF Contract!Remove, Contract!Verdicts
      <4> QED BY <3>1, <4>1, <4>2, <4>3, <4>4 DEF Contract!Step
    <3>4. told \in {"nothing", "completed", "failed", "cancelled"}
      BY DEF Settled, TerminalStates
    <3>5. told' # "nothing" => at' \in {told', "removed"}
      <4>1. CASE Contract!Take(c) \/ Contract!Use(c)
        BY <3>2, <3>4, <4>1 DEF Contract!Take, Contract!Use
      <4>2. CASE Contract!Conclude(c)
        BY <3>2, <3>4, <4>2 DEF Contract!Conclude
      <4>3. CASE Contract!Tell(c) \/ Contract!Forget(c) \/ Contract!Same(c)
        BY <3>2, <4>3 DEF Contract!Tell, Contract!Forget, Contract!Same
      <4>4. CASE Contract!Remove(c)
        BY <4>4 DEF Contract!Remove
      <4> QED BY <3>1, <4>1, <4>2, <4>3, <4>4 DEF Contract!Step
    <3>6. Settled(c)' => st'[c] # "nothing"
      BY DEF Settled, TerminalStates
    <3> QED BY <3>3, <3>5, <3>6
  <2>3. ASSUME Contract!Next PROVE Contract!WorkIsHeld'
    BY <2>2, <2>3 DEF Contract!WorkIsHeld
  <2> QED BY <2>1, <2>3
<1> QED BY <1>1, <1>2, PoolKeepsCustody, PTL DEF KeepsCustody, Contract!Spec

\* A worktree that was given up stays given up under the verdict it was given
\* up with, across restarts and repeated launches (launch, commitLifecycleSettlement).
THEOREM PoolGivesUpForGood == Spec => Contract!GivenUpForGood
<1> DEFINE at == [c \in Isolated |-> WorktreeOf(c)]
           ForGood == \A w \in Isolated :
              /\ at[w] \in Contract!Verdicts => at'[w] \in {at[w], "removed"}
              /\ at[w] = "removed" => at'[w] = "removed"
<1>1. [Contract!Next]_(Contract!vars) => [ForGood]_(Contract!vars)
  BY DEF Contract!Next, Contract!Step, Contract!Take, Contract!Use, Contract!Conclude,
     Contract!Tell, Contract!Forget, Contract!Remove, Contract!Same, Contract!Verdicts, Contract!vars
<1> QED BY <1>1, PoolKeepsCustody, PTL DEF KeepsCustody, Contract!Spec, Contract!GivenUpForGood

-----------------------------------------------------------------------------
(***************************************************************************)
(* A shutdown reaches everyone                                             *)
(***************************************************************************)
\* Neither settled nor with a verdict on its way to the registry.
Owing(c) == Resident(c) /\ ~Settled(c) /\ pend[c] = NoPatch

\* Told to stop and still owing an account means that the child has a slot,
\* and during a shutdown every child that owes one was told or will be by the
\* sweep in progress.
StopInv(c) ==
    Owing(c) =>
        /\ CancelRequested(c) => c \in leased
        /\ cancelAll => CancelRequested(c) \/ c \in sweep

Stopping ==
    /\ cancelAll => closed
    /\ \A c \in Children : StopInv(c)

LEMMA OthersStop ==
    ASSUME NEW c \in Children, \A d \in Children : StopInv(d), StopInv(c)',
           cancelAll' = cancelAll,
           \A d \in Children \ {c} :
               /\ st'[d] = st[d] /\ pend'[d] = pend[d] /\ reason'[d] = reason[d]
               /\ d \in leased => d \in leased'
               /\ d \in sweep => d \in sweep'
    PROVE  \A d \in Children : StopInv(d)'
BY DEF StopInv, Owing, Resident, Settled, CancelRequested

\* After an attempt to settle, durable or not, a child owes nothing more.
LEMMA SettleStops ==
    ASSUME TypeOK, \A d \in Children : StopInv(d), NEW c \in Children, NEW r, NEW p, NEW fail,
           SettleRecord(c, r, p, fail), p.to \in TerminalStates,
           cancelAll' = cancelAll,
           \A d \in Children \ {c} : reason'[d] = reason[d] /\ (d \in sweep => d \in sweep')
    PROVE  \A d \in Children : StopInv(d)'
<1>1. CASE Commits(c, r, p, fail)
  <2>1. /\ st' = [st EXCEPT ![c] = p.to]
        /\ pend' = [pend EXCEPT ![c] = NoPatch]
        /\ leased' = leased \ {c}
    BY <1>1 DEF SettleRecord, ReleaseLease
  <2>2. StopInv(c)'
    BY <2>1 DEF StopInv, Owing, Settled, TypeOK
  <2> QED
    BY <2>1, <2>2, OthersStop DEF TypeOK
<1>2. CASE ~Commits(c, r, p, fail)
  <2>1. /\ st' = [st EXCEPT ![c] = "settlement_blocked"]
        /\ pend' = [pend EXCEPT ![c] = p]
        /\ leased' = leased
    BY <1>2 DEF SettleRecord, BlockSettlement
  <2>2. p # NoPatch
    BY DEF NoPatch, TerminalStates
  <2>3. StopInv(c)'
    BY <2>1, <2>2 DEF StopInv, Owing, TypeOK
  <2> QED
    BY <2>1, <2>3, OthersStop DEF TypeOK
<1> QED
  BY <1>1, <1>2

LEMMA CancelStops ==
    ASSUME TypeOK, \A d \in Children : StopInv(d), NEW c \in Children, NEW r,
           NEW why \in Reasons, NEW fail, CancelRecord(c, r, why, fail),
           cancelAll' = cancelAll,
           \A d \in Children \ {c} : d \in sweep => d \in sweep'
    PROVE  \A d \in Children : StopInv(d)'
<1> DEFINE asked == IF c \in Isolated /\ "transition" \notin fail THEN Requested(r, why) ELSE r
           p     == Verdict("cancelled", why, NoReceipt, "none")
<1>1. reason' = [reason EXCEPT ![c] = why]
  BY DEF CancelRecord
<1>2. reason'[c] # NoReason /\ \A d \in Children \ {c} : reason'[d] = reason[d]
  BY <1>1, ReasonAssumption DEF TypeOK
<1>3. CASE c \in leased
  <2>1. st' = [st EXCEPT ![c] = "cancelling"] /\ pend' = pend /\ leased' = leased
    BY <1>3 DEF CancelRecord
  <2>2. StopInv(c)'
    BY <1>2, <1>3, <2>1 DEF StopInv, CancelRequested
  <2> QED
    BY <1>2, <2>1, <2>2, OthersStop DEF TypeOK
<1>4. CASE c \notin leased
  <2>1. SettleRecord(c, asked, p, fail)
    BY <1>4 DEF CancelRecord
  <2>2. p.to \in TerminalStates
    BY DEF Verdict, TerminalStates
  <2> HIDE DEF asked, p
  <2> QED
    BY <1>2, <2>1, <2>2, SettleStops
<1> QED
  BY <1>3, <1>4

\* Nobody is started who was told to stop.
LEMMA StartStops ==
    ASSUME TypeOK, \A d \in Children : StopInv(d), NEW c \in Children, NEW r, RowOK(r),
           NEW fail, StartRecord(c, r, fail),
           ~cancelAll, UNCHANGED <<cancelAll, sweep>>
    PROVE  \A d \in Children : StopInv(d)'
<1>1. /\ reason' = reason
      /\ Aside(c)
      /\ Started(c) \/ StartBlocked(c) \/ StartFailed(c)
  BY StartShape
<1>2. StopInv(c)'
  BY <1>1 DEF StopInv, Owing, Started, StartBlocked, StartFailed, Settled, TerminalStates
<1>3. \A d \in Children \ {c} : d \in leased => d \in leased'
  BY <1>1 DEF Started, StartBlocked, StartFailed
<1> QED
  BY <1>1, <1>2, <1>3, OthersStop DEF Aside

LEMMA LaunchStops ==
    ASSUME PoolInv, Stopping, NEW c \in Children,
           \/ LaunchAccepted(c) \/ LaunchQueued(c) \/ LaunchReplayed(c)
           \/ \E r \in TypedReasons : LaunchAborted(c, r)
    PROVE  Stopping'
<1>1. TypeOK /\ ChildInv(c) /\ \A d \in Children : StopInv(d)
  BY Parts DEF Stopping
<1>2. /\ ~closed /\ ~cancelAll /\ st[c] = "none"
      /\ UNCHANGED <<closed, cancelAll, sweep>>
  BY DEF LaunchAccepted, LaunchQueued, LaunchReplayed, LaunchAborted, Admissible, Resident,
     control, Stopping
<1>3. CASE LaunchAccepted(c)
  BY <1>1, <1>2, <1>3, NewSessionOK, StartStops DEF LaunchAccepted, Stopping
<1>4. CASE LaunchQueued(c)
  <2>1. st' = [st EXCEPT ![c] = "queued"] /\ UNCHANGED <<reason, pend, leased>>
    BY <1>4 DEF LaunchQueued
  <2>2. reason[c] = NoReason
    BY <1>1, <1>2 DEF ChildInv, FreshInv
  <2>3. StopInv(c)'
    BY <1>2, <2>1, <2>2 DEF StopInv, CancelRequested
  <2> QED
    BY <1>1, <1>2, <2>1, <2>3, OthersStop DEF Stopping, TypeOK
<1>5. CASE LaunchReplayed(c)
  <2>1. /\ st' = [st EXCEPT ![c] = sess[c].state]
        /\ sess[c].state \in TerminalStates
        /\ reason' = [reason EXCEPT ![c] = sess[c].reason]
        /\ UNCHANGED <<pend, leased>>
    BY <1>5 DEF LaunchReplayed, capacity
  <2>2. StopInv(c)'
    BY <1>1, <2>1 DEF StopInv, Owing, Settled, TypeOK
  <2> QED
    BY <1>1, <1>2, <2>1, <2>2, OthersStop DEF Stopping, TypeOK
<1>6. ASSUME NEW why \in TypedReasons, LaunchAborted(c, why)
      PROVE  Stopping'
  <2>1. PICK fail \in SUBSET Calls : CancelRecord(c, NewSession, why, fail)
    BY <1>6 DEF LaunchAborted
  <2> QED
    BY <1>1, <1>2, <2>1, PoolAssumption, CancelStops DEF Stopping
<1> QED
  BY <1>3, <1>4, <1>5, <1>6

\* What is consumed settles its child or marks it as told to stop; a mark
\* keeps the slot (a child without isolation is quiescent when it returns).
LEMMA ResultStops ==
    ASSUME PoolInv, Works, Stopping, NEW c \in Children, RunnerSettled(c)
    PROVE  Stopping'
<1>1. TypeOK /\ \A d \in Children : StopInv(d)
  BY Parts DEF Stopping
<1>2. result[c] \in Result /\ runner[c] = "returned" /\ UNCHANGED <<closed, cancelAll, sweep>>
  BY ConsumeFacts DEF RunnerSettled, SettleResult, SettleCancelled, MarkCancellationUnacknowledged,
     MarkBackendQuiescenceUnacknowledged, Consume
<1>3. CASE SettleResult(c)
  <2> DEFINE why == IF result[c].status = "cancelled" THEN BackendReason ELSE NoReason
             p   == Verdict(result[c].status, why, NoReceipt, result[c].outcome)
  <2>1. PICK fail \in SUBSET Calls : SettleRecord(c, sess[c], p, fail)
    BY <1>3 DEF SettleResult
  <2>2. reason' = reason /\ p.to \in TerminalStates
    BY <1>2, <1>3 DEF SettleResult, Result, Verdict
  <2> HIDE DEF p
  <2> QED
    BY <1>1, <1>2, <2>1, <2>2, SettleStops DEF Stopping
<1>4. CASE SettleCancelled(c)
  <2> DEFINE to == IF result[c].outcome = "partial" THEN "failed" ELSE "cancelled"
             p  == Verdict(to, reason[c], result[c].receipt, result[c].outcome)
  <2>1. PICK fail \in SUBSET Calls : SettleRecord(c, sess[c], p, fail)
    BY <1>4 DEF SettleCancelled
  <2>2. reason' = reason /\ p.to \in TerminalStates
    BY <1>4 DEF SettleCancelled, Verdict, TerminalStates
  <2> HIDE DEF p
  <2> QED
    BY <1>1, <1>2, <2>1, <2>2, SettleStops DEF Stopping
<1>5. CASE MarkCancellationUnacknowledged(c) \/ MarkBackendQuiescenceUnacknowledged(c)
  <2>1. c \in leased
    BY <1>2, <1>5 DEF MarkCancellationUnacknowledged, MarkBackendQuiescenceUnacknowledged, Quiesced,
       Works, WorkInv
  <2>2. /\ \A d \in Children \ {c} : st'[d] = st[d] /\ reason'[d] = reason[d]
        /\ UNCHANGED <<pend, leased>>
    BY <1>1, <1>5 DEF MarkCancellationUnacknowledged, MarkBackendQuiescenceUnacknowledged, capacity,
       TypeOK
  <2>3. reason'[c] # NoReason
    BY <1>1, <1>5, PoolAssumption, ReasonAssumption DEF MarkCancellationUnacknowledged,
       MarkBackendQuiescenceUnacknowledged, CancelRequested, TypeOK
  <2>4. StopInv(c)'
    BY <2>1, <2>2, <2>3 DEF StopInv, CancelRequested
  <2> QED
    BY <1>1, <1>2, <2>2, <2>4, OthersStop DEF Stopping
<1> QED
  BY <1>3, <1>4, <1>5 DEF RunnerSettled

LEMMA LoopStops ==
    ASSUME PoolInv, Stopping, LoopStep
    PROVE  Stopping'
<1>1. /\ TypeOK /\ LoopInv /\ (cancelAll => closed)
      /\ \A d \in Children : StopInv(d) /\ ChildInv(d) /\ RowOK(sess[d])
  BY Parts DEF Stopping
<1>2. CASE DrainStep
  <2>1. PICK c \in Children : c = Head(queue)
    BY <1>1, <1>2, TailQueue DEF DrainStep, TypeOK
  <2>2. UNCHANGED <<closed, cancelAll, sweep>> /\ sweep = {}
    BY <1>1, <1>2 DEF DrainStep, control, LoopInv
  <2>3. CASE st[c] = "queued"
    <3>1. PICK fail \in SUBSET Calls : StartRecord(c, sess[c], fail)
      BY <1>2, <2>1, <2>3 DEF DrainStep
    <3>2. pend[c] = NoPatch /\ reason[c] = NoReason
      BY <1>1, <2>1, <2>3 DEF ChildInv, FreshInv
    <3>3. Owing(c)
      BY <2>3, <3>2 DEF Owing, Resident, Settled, TerminalStates
    <3>4. ~cancelAll
      BY <1>1, <2>2, <3>2, <3>3 DEF StopInv, CancelRequested
    <3> QED
      BY <1>1, <2>2, <3>1, <3>4, StartStops DEF Stopping
  <2>4. CASE st[c] # "queued"
    BY <1>1, <1>2, <2>1, <2>2, <2>4 DEF DrainStep, records, Stopping, StopInv, Owing, Resident,
       Settled, CancelRequested
  <2> QED
    BY <2>3, <2>4
<1>3. CASE DrainDone \/ SweepDone
  BY <1>1, <1>3 DEF DrainDone, SweepDone, records, capacity, Stopping, StopInv, Owing, Resident,
     Settled, CancelRequested
<1>4. CASE RetryDone
  <2>1. UNCHANGED <<st, pend, reason, leased, closed>>
    BY <1>4 DEF RetryDone, records
  <2>2. CASE loop = "retry"
    <3>1. UNCHANGED <<cancelAll, sweep>>
      BY <1>4, <2>2 DEF RetryDone
    <3> QED
      BY <1>1, <2>1, <3>1 DEF Stopping, StopInv, Owing, Resident, Settled, CancelRequested
  <2>3. CASE loop = "close"
    <3>1. sweep' = {c \in Children : Resident(c) /\ ~Settled(c) /\ ~Pending(c)} /\ closed
      BY <1>1, <1>4, <2>3 DEF RetryDone, LoopInv
    <3> QED
      BY <1>1, <2>1, <3>1 DEF Stopping, StopInv, Owing, Resident, Settled, Pending,
         CancelRequested
  <2> QED
    BY <1>4, <2>2, <2>3 DEF RetryDone
<1>5. ASSUME NEW c \in Children, RetryStep(c)
      PROVE  Stopping'
  <2>1. PICK fail \in SUBSET Calls : SettleRecord(c, sess[c], pend[c], fail)
    BY <1>5 DEF RetryStep
  <2>2. pend[c] # NoPatch /\ UNCHANGED <<reason, closed, cancelAll, sweep>>
    BY <1>5 DEF RetryStep, Retryable, Pending
  <2>3. pend[c].to \in TerminalStates
    BY <1>1, <2>2, PatchType DEF TypeOK
  <2> QED
    BY <1>1, <2>1, <2>2, <2>3, SettleStops DEF Stopping
<1>6. ASSUME NEW c \in Children, NEW why \in TypedReasons, SweepStep(c, why)
      PROVE  Stopping'
  <2>1. sweep' = sweep \ {c} /\ UNCHANGED <<closed, cancelAll>>
    BY <1>6 DEF SweepStep
  <2>2. CASE CancelRequested(c)
    <3>1. UNCHANGED <<st, pend, reason, leased>>
      BY <1>6, <2>2 DEF SweepStep, records, capacity
    <3> QED
      BY <1>1, <2>1, <2>2, <3>1 DEF Stopping, StopInv, Owing, Resident, Settled, CancelRequested
  <2>3. CASE ~CancelRequested(c)
    <3>1. PICK fail \in SUBSET Calls : CancelRecord(c, sess[c], why, fail)
      BY <1>6, <2>3 DEF SweepStep
    <3> QED
      BY <1>1, <2>1, <3>1, PoolAssumption, CancelStops DEF Stopping
  <2> QED
    BY <2>2, <2>3
<1> QED
  BY <1>2, <1>3, <1>4, <1>5, <1>6 DEF LoopStep

LEMMA StopKeeps == PoolInv /\ Works /\ Stopping /\ [Next]_vars => Stopping'
<1> SUFFICES ASSUME PoolInv, Works, Stopping, [Next]_vars
             PROVE  Stopping'
  OBVIOUS
<1>1. TypeOK /\ LoopInv /\ (cancelAll => closed) /\ \A d \in Children : StopInv(d)
  BY Parts DEF Stopping
<1>2. ASSUME UNCHANGED <<st, pend, reason, leased, cancelAll, sweep>>, closed => closed'
      PROVE  Stopping'
  BY <1>1, <1>2 DEF Stopping, StopInv, Owing, Resident, Settled, CancelRequested
<1>3. ASSUME NEW c \in Children, RunnerBegin(c) \/ RunnerReturn(c) \/ ReconcileRecoveredSession(c)
      PROVE  Stopping'
  BY <1>2, <1>3 DEF RunnerBegin, RunnerReturn, ReconcileRecoveredSession, records, capacity, control
<1>4. ASSUME NEW c \in Children, NEW why \in Reasons, Interrupt(c, why)
      PROVE  Stopping'
  <2>1. PICK fail \in SUBSET Calls : CancelRecord(c, sess[c], why, fail)
    BY <1>4 DEF Interrupt
  <2>2. UNCHANGED <<closed, cancelAll, sweep>>
    BY <1>4 DEF Interrupt
  <2> QED
    BY <1>1, <2>1, <2>2, CancelStops DEF Stopping
<1>5. CASE StopAccepting \/ RequestCancellationForAll \/ RetryPendingSettlements \/ UNCHANGED vars
  BY <1>2, <1>5 DEF StopAccepting, RequestCancellationForAll, RetryPendingSettlements, vars, records,
     capacity, control
<1>6. CASE Restart
  BY <1>6 DEF Restart, Stopping, StopInv, Owing, Resident
<1> QED
  BY <1>3, <1>4, <1>5, <1>6, LaunchStops, LoopStops, ResultStops DEF Next

\* A shutdown tells everyone (requestCancellationForAll, cancelRecord): once
\* its sweep is over, a child that has neither settled nor a verdict waiting
\* for the registry keeps its slot and was told to stop.  So drainAndClose
\* waits only for what can still end; that it does end is ShutdownConcludes.
THEOREM ShutdownTellsEveryone == Spec => []StopReachesEveryone
<1>1. Init => Stopping
  BY DEF Init, Stopping, StopInv, Owing, Resident
<1>2. PoolInv /\ Stopping => StopReachesEveryone
  BY Parts DEF Stopping, StopInv, Owing, Pending, StopReachesEveryone
<1> QED
  BY <1>1, <1>2, StopKeeps, Invariance, Working, PTL DEF Spec
=============================================================================
