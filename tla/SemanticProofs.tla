--------------------------- MODULE SemanticProofs ---------------------------
(***************************************************************************)
(* The custody core and its delivery, proved for any jobs, keys, attempts, *)
(* polls, limits and bounds.  The inductive invariant has a part for each  *)
(* of the records recovery compares: the leases of a job, its ledger and   *)
(* boundary, the two counters, the subscriptions with their offers, and    *)
(* the polls with the notifications queued for them.                       *)
(***************************************************************************)
EXTENDS SemanticDelivery, FiniteSetTheorems, SequenceTheorems, TLAPS

\* A row is held only at the end of a job's leases, where the newest token is.
LeasesOrdered(rows) ==
    \A i \in DOMAIN rows :
        /\ rows[i].active => i = Len(rows)
        /\ \A n \in DOMAIN rows : n < i => rows[n].token < rows[i].token

\* What a job's state, boundary, hand-off and ledger say of each other.
Recorded(j) ==
    /\ state[j] = "UNSEEN" <=> boundary[j] = "none"
    /\ boundary[j] = "HANDOFF_COMMITTED" => state[j] = "HANDOFF_COMMITTED"
    /\ state[j] = "HANDOFF_COMMITTED" =>
           /\ boundary[j] \in {"HANDOFF_COMMITTED", "AMBIGUOUS"}
           /\ Has(j, "later_tranche_handoff_committed")
    /\ handed[j] # NoHandoff => boundary[j] \in {"HANDOFF_COMMITTED", "AMBIGUOUS"}
    /\ state[j] \in {"UNSEEN", "ADMITTED"} =>
           ~Has(j, "job_cancelled_before_dispatch")
    /\ state[j] = "CANCELLED_BEFORE_DISPATCH" =>
           Has(j, "job_cancelled_before_dispatch")

\* The jobs the counter still holds: a cancellation gives a job back for good.
Uncancelled == {j \in Admitted : ~Has(j, "job_cancelled_before_dispatch")}

CustodyInv ==
    /\ CustodyTypeOK
    /\ \A j \in Jobs : LeasesOrdered(leases[j]) /\ Recorded(j)
    /\ {binding[k] : k \in Keys} \ {NoJob} = Admitted
    /\ openJobs = Cardinality(Uncancelled)

DeliveryTyped ==
    /\ sub \in [Jobs -> Subscription \cup {NoSub}]
    /\ offer \in [Attempts -> Offer \cup {NoOffer}]
    /\ offered \in Nat
    /\ offerLimit \in OfferLimits \cup {0}
    /\ waiting \in [Waits -> [job : Jobs, after : Nat] \cup {NoWait}]
    /\ notices \subseteq Jobs \X Nat

\* Only the start of a subscription may lie beyond the ledger.
SubOrdered(j) ==
    sub[j] # NoSub => /\ sub[j].start <= sub[j].acked
                      /\ sub[j].cursor = sub[j].acked
                      /\ sub[j].acked = sub[j].start \/ sub[j].acked <= Len(events[j])

OfferInLedger(a) ==
    offer[a] # NoOffer =>
        /\ sub[offer[a].job] # NoSub
        /\ sub[offer[a].job].start < offer[a].first
        /\ offer[a].first <= offer[a].last
        /\ offer[a].last <= Len(events[offer[a].job])
        /\ offer[a].state = "ACKNOWLEDGED" => offer[a].last <= sub[offer[a].job].acked

Covered(j) ==
    sub[j] # NoSub =>
        /\ \A n \in sub[j].start + 1 .. sub[j].acked : \E a \in AckedOf(j) : Covers(a, n)
        /\ \A a, b \in AckedOf(j) : a # b =>
             offer[a].last < offer[b].first \/ offer[b].last < offer[a].first

DeliveryInv ==
    /\ DeliveryTyped
    /\ \A j \in Jobs : SubOrdered(j) /\ Covered(j)
    /\ \A a \in Attempts : OfferInLedger(a)
    /\ \A w \in Waits : waiting[w] # NoWait => sub[waiting[w].job] # NoSub
    /\ offered = Cardinality(Outstanding)
    /\ NoMissedEvent

IInv == CustodyInv /\ DeliveryInv

-----------------------------------------------------------------------------
(* Ledgers and counters *)

LEMMA HasAppend ==
    ASSUME NEW j \in Jobs, NEW what \in EventTypes,
           events[j] \in Seq(EventTypes), events'[j] = Append(events[j], what)
    PROVE  \A type : Has(j, type)' <=> Has(j, type) \/ type = what
<1> SUFFICES ASSUME NEW type
             PROVE  Has(j, type)' <=> Has(j, type) \/ type = what
  OBVIOUS
<1>1. /\ Len(events'[j]) = Len(events[j]) + 1 /\ Len(events[j]) \in Nat
      /\ DOMAIN events'[j] = 1 .. Len(events[j]) + 1
      /\ DOMAIN events[j] = 1 .. Len(events[j])
      /\ \A n \in 1 .. Len(events[j]) : events'[j][n] = events[j][n]
      /\ events'[j][Len(events[j]) + 1] = what
  BY AppendProperties, LenProperties
<1>2. Has(j, type)' => Has(j, type) \/ type = what
  <2> SUFFICES ASSUME NEW n \in DOMAIN events'[j], events'[j][n] = type, type # what
               PROVE  \E m \in DOMAIN events[j] : events[j][m] = type
    BY DEF Has
  <2> QED BY <1>1
<1>3. Has(j, type) => Has(j, type)'
  BY <1>1 DEF Has
<1>4. type = what => Has(j, type)'
  BY <1>1 DEF Has
<1> QED BY <1>2, <1>3, <1>4

LEMMA UncancelledFinite == IsFiniteSet(Uncancelled)
BY CustodyAssumption, FS_Subset DEF Uncancelled, Admitted

\* The custody records of a job.
JobKept(i) ==
    /\ state'[i] = state[i] /\ boundary'[i] = boundary[i]
    /\ handed'[i] = handed[i] /\ events'[i] = events[i]
    /\ leases'[i] = leases[i]

LEMMA JobFrame ==
    ASSUME NEW i \in Jobs, JobKept(i), LeasesOrdered(leases[i]), Recorded(i)
    PROVE  LeasesOrdered(leases'[i]) /\ Recorded(i)'
BY DEF JobKept, LeasesOrdered, Recorded, Has

\* Steps that touch one job's ledger and leave the leases alone.
LEMMA LedgerStep ==
    ASSUME CustodyInv, NEW j \in Jobs, leases' = leases, CustodyTypeOK',
           \A i \in Jobs \ {j} : JobKept(i),
           Recorded(j)',
           {binding'[k] : k \in Keys} \ {NoJob} = Admitted',
           openJobs' = Cardinality(Uncancelled')
    PROVE  CustodyInv'
<1>1. \A i \in Jobs : LeasesOrdered(leases'[i])
  BY DEF CustodyInv
<1>2. \A i \in Jobs \ {j} : Recorded(i)'
  BY JobFrame DEF CustodyInv
<1> QED BY <1>1, <1>2 DEF CustodyInv

LEMMA SubmitInv ==
    ASSUME CustodyInv, NEW k \in Keys, NEW j \in Jobs, Submit(k, j)
    PROVE  CustodyInv'
<1>1. /\ binding[k] = NoJob /\ state[j] = "UNSEEN"
      /\ binding' = [binding EXCEPT ![k] = j]
      /\ state' = [state EXCEPT ![j] = "ADMITTED"]
      /\ events' = [events EXCEPT ![j] = Append(@, "job_admitted")]
      /\ boundary' = [boundary EXCEPT ![j] = "NOT_DISPATCHED"]
      /\ openJobs' = openJobs + 1
      /\ UNCHANGED <<daemon, generation, jobLimit, handed, leases>>
  BY DEF Submit
<1>2. /\ binding \in [Keys -> Jobs \cup {NoJob}] /\ state \in [Jobs -> JobStates]
      /\ events \in [Jobs -> Seq(EventTypes)] /\ boundary \in [Jobs -> Boundaries]
      /\ openJobs \in Nat
  BY DEF CustodyInv, CustodyTypeOK
<1>3. "job_admitted" \in EventTypes
  BY DEF EventTypes
<1>4. /\ state'[j] = "ADMITTED" /\ boundary'[j] = "NOT_DISPATCHED"
      /\ events'[j] = Append(events[j], "job_admitted") /\ handed'[j] = handed[j]
      /\ \A i \in Jobs \ {j} : JobKept(i)
  BY <1>1, <1>2 DEF JobKept
<1>5. CustodyTypeOK'
  <2>1. events' \in [Jobs -> Seq(EventTypes)]
    BY <1>1, <1>2, <1>3, AppendProperties
  <2>2. state' \in [Jobs -> JobStates] /\ boundary' \in [Jobs -> Boundaries]
    BY <1>1, <1>2 DEF JobStates, Boundaries
  <2>3. binding' \in [Keys -> Jobs \cup {NoJob}] /\ openJobs' \in Nat
    BY <1>1, <1>2
  <2> QED BY <1>1, <2>1, <2>2, <2>3 DEF CustodyInv, CustodyTypeOK
<1>6. \A type : Has(j, type)' <=> Has(j, type) \/ type = "job_admitted"
  BY <1>2, <1>3, <1>4, HasAppend
<1>7. Recorded(j)'
  <2>1. Recorded(j)
    BY DEF CustodyInv
  <2> QED BY <1>1, <1>4, <1>6, <2>1 DEF Recorded
<1>8. Admitted' = Admitted \cup {j} /\ j \notin Admitted
  BY <1>1, <1>4 DEF Admitted, JobKept
<1>9. {binding'[h] : h \in Keys} \ {NoJob} = Admitted'
  <2>1. \A h \in Keys \ {k} : binding'[h] = binding[h]
    BY <1>1, <1>2
  <2>2. binding'[k] = j /\ j # NoJob
    BY <1>1, <1>2, CustodyAssumption
  <2> QED BY <1>1, <1>8, <2>1, <2>2 DEF CustodyInv
<1>10. openJobs' = Cardinality(Uncancelled')
  <2>1. Recorded(j)
    BY DEF CustodyInv
  <2>2. ~Has(j, "job_cancelled_before_dispatch")'
    BY <1>1, <1>6, <2>1 DEF Recorded
  <2>3. \A i \in Jobs \ {j} :
          Has(i, "job_cancelled_before_dispatch")' <=> Has(i, "job_cancelled_before_dispatch")
    BY <1>4 DEF JobKept, Has
  <2>4. Uncancelled' = Uncancelled \cup {j} /\ j \notin Uncancelled
    BY <1>8, <2>2, <2>3 DEF Uncancelled, Admitted
  <2> QED BY <1>1, <2>4, UncancelledFinite, FS_AddElement DEF CustodyInv
<1> QED BY <1>1, <1>4, <1>5, <1>7, <1>9, <1>10, LedgerStep

LEMMA CancelInv ==
    ASSUME CustodyInv, NEW j \in Jobs, Cancel(j)
    PROVE  CustodyInv'
<1>1. /\ boundary[j] = "NOT_DISPATCHED"
      /\ state[j] \notin {"CANCELLED_BEFORE_DISPATCH", "HANDOFF_COMMITTED"}
      /\ openJobs - 1 \in 0 .. jobLimit
      /\ state' = [state EXCEPT ![j] = "CANCELLED_BEFORE_DISPATCH"]
      /\ events' = [events EXCEPT ![j] = Append(@, "job_cancelled_before_dispatch")]
      /\ openJobs' = openJobs - 1
      /\ UNCHANGED <<daemon, generation, jobLimit, binding, boundary, handed, leases>>
  BY DEF Cancel
<1>2. /\ state \in [Jobs -> JobStates] /\ events \in [Jobs -> Seq(EventTypes)]
      /\ openJobs \in Nat
  BY DEF CustodyInv, CustodyTypeOK
<1>3. "job_cancelled_before_dispatch" \in EventTypes
  BY DEF EventTypes
<1>4. /\ state'[j] = "CANCELLED_BEFORE_DISPATCH" /\ boundary'[j] = boundary[j]
      /\ events'[j] = Append(events[j], "job_cancelled_before_dispatch")
      /\ handed'[j] = handed[j]
      /\ \A i \in Jobs \ {j} : JobKept(i)
  BY <1>1, <1>2 DEF JobKept
<1>5. CustodyTypeOK'
  <2>1. events' \in [Jobs -> Seq(EventTypes)]
    BY <1>1, <1>2, <1>3, AppendProperties
  <2>2. state' \in [Jobs -> JobStates]
    BY <1>1, <1>2 DEF JobStates
  <2>3. openJobs' \in Nat
    BY <1>1, <1>2
  <2> QED BY <1>1, <2>1, <2>2, <2>3 DEF CustodyInv, CustodyTypeOK
<1>6. \A type : Has(j, type)' <=> Has(j, type) \/ type = "job_cancelled_before_dispatch"
  BY <1>2, <1>3, <1>4, HasAppend
<1>7. Recorded(j)
  BY DEF CustodyInv
<1>8. state[j] = "ADMITTED"
  BY <1>1, <1>2, <1>7 DEF Recorded, JobStates
<1>9. Recorded(j)'
  BY <1>1, <1>4, <1>6, <1>7 DEF Recorded
<1>10. Admitted' = Admitted
  BY <1>4, <1>8 DEF Admitted, JobKept
<1>11. openJobs' = Cardinality(Uncancelled')
  <2>1. \A i \in Jobs \ {j} :
          Has(i, "job_cancelled_before_dispatch")' <=> Has(i, "job_cancelled_before_dispatch")
    BY <1>4 DEF JobKept, Has
  <2>2. Has(j, "job_cancelled_before_dispatch")' /\ j \in Uncancelled
    BY <1>6, <1>7, <1>8 DEF Recorded, Uncancelled, Admitted
  <2>3. Uncancelled' = Uncancelled \ {j}
    BY <1>10, <2>1, <2>2 DEF Uncancelled, Admitted
  <2> QED BY <1>1, <2>2, <2>3, UncancelledFinite, FS_RemoveElement DEF CustodyInv
<1>12. {binding'[h] : h \in Keys} \ {NoJob} = Admitted'
  BY <1>1, <1>10 DEF CustodyInv
<1> QED BY <1>1, <1>4, <1>5, <1>9, <1>11, <1>12, LedgerStep

LEMMA HandOffInv ==
    ASSUME CustodyInv, NEW j \in Jobs, NEW i, NEW token \in 1 .. MaxFence,
           HandOff(j, i, token)
    PROVE  CustodyInv'
<1>1. /\ boundary[j] = "NOT_DISPATCHED"
      /\ state' = [state EXCEPT ![j] = "HANDOFF_COMMITTED"]
      /\ events' = [events EXCEPT ![j] = Append(@, "later_tranche_handoff_committed")]
      /\ boundary' = [boundary EXCEPT ![j] = "HANDOFF_COMMITTED"]
      /\ handed' = [handed EXCEPT ![j] = [generation |-> generation, token |-> token]]
      /\ UNCHANGED <<daemon, generation, jobLimit, binding, leases, openJobs>>
  BY DEF HandOff
<1>2. /\ state \in [Jobs -> JobStates] /\ events \in [Jobs -> Seq(EventTypes)]
      /\ boundary \in [Jobs -> Boundaries] /\ generation \in Nat
      /\ handed \in [Jobs -> [generation : Nat, token : Nat] \cup {NoHandoff}]
  BY DEF CustodyInv, CustodyTypeOK
<1>3. "later_tranche_handoff_committed" \in EventTypes
  BY DEF EventTypes
<1>4. /\ state'[j] = "HANDOFF_COMMITTED" /\ boundary'[j] = "HANDOFF_COMMITTED"
      /\ events'[j] = Append(events[j], "later_tranche_handoff_committed")
      /\ \A n \in Jobs \ {j} : JobKept(n)
  BY <1>1, <1>2 DEF JobKept
<1>5. CustodyTypeOK'
  <2>1. events' \in [Jobs -> Seq(EventTypes)]
    BY <1>1, <1>2, <1>3, AppendProperties
  <2>2. state' \in [Jobs -> JobStates] /\ boundary' \in [Jobs -> Boundaries]
    BY <1>1, <1>2 DEF JobStates, Boundaries
  <2>3. handed' \in [Jobs -> [generation : Nat, token : Nat] \cup {NoHandoff}]
    <3>1. token \in Nat
      BY CustodyAssumption
    <3> QED BY <1>1, <1>2, <3>1
  <2> QED BY <1>1, <2>1, <2>2, <2>3 DEF CustodyInv, CustodyTypeOK
<1>6. \A type : Has(j, type)' <=> Has(j, type) \/ type = "later_tranche_handoff_committed"
  BY <1>2, <1>3, <1>4, HasAppend
<1>7. Recorded(j)'
  BY <1>4, <1>6 DEF Recorded
<1>8. Admitted' = Admitted
  <2>1. state[j] # "UNSEEN"
    BY <1>1 DEF CustodyInv, Recorded
  <2> QED BY <1>4, <2>1 DEF Admitted, JobKept
<1>9. openJobs' = Cardinality(Uncancelled')
  <2>1. \A n \in Jobs :
          Has(n, "job_cancelled_before_dispatch")' <=> Has(n, "job_cancelled_before_dispatch")
    BY <1>4, <1>6 DEF JobKept, Has
  <2>2. Uncancelled' = Uncancelled
    BY <1>8, <2>1 DEF Uncancelled, Admitted
  <2> QED BY <1>1, <2>2 DEF CustodyInv
<1>10. {binding'[h] : h \in Keys} \ {NoJob} = Admitted'
  BY <1>1, <1>8 DEF CustodyInv
<1> QED BY <1>1, <1>4, <1>5, <1>7, <1>9, <1>10, LedgerStep

LEMMA AmbiguousInv ==
    ASSUME CustodyInv, NEW j \in Jobs, MarkAmbiguous(j)
    PROVE  CustodyInv'
<1>1. /\ boundary[j] # "none" /\ boundary' = [boundary EXCEPT ![j] = "AMBIGUOUS"]
      /\ UNCHANGED <<daemon, generation, jobLimit, binding, state, events,
                     handed, leases, openJobs>>
  BY DEF MarkAmbiguous
<1>2. /\ boundary \in [Jobs -> Boundaries] /\ boundary' \in [Jobs -> Boundaries]
      /\ boundary'[j] = "AMBIGUOUS" /\ \A i \in Jobs \ {j} : JobKept(i)
  BY <1>1 DEF CustodyInv, CustodyTypeOK, Boundaries, JobKept
<1>3. CustodyTypeOK'
  BY <1>1, <1>2 DEF CustodyInv, CustodyTypeOK
<1>4. Recorded(j)'
  <2>1. Recorded(j)
    BY DEF CustodyInv
  <2> QED BY <1>1, <1>2, <2>1 DEF Recorded, Has
<1>5. Admitted' = Admitted /\ Uncancelled' = Uncancelled
  BY <1>1 DEF Admitted, Uncancelled, Has
<1> QED BY <1>1, <1>2, <1>3, <1>4, <1>5, LedgerStep DEF CustodyInv

\* An acknowledgment is one more event of its job.
LEMMA AcknowledgmentInv ==
    ASSUME CustodyInv, NEW j \in Jobs,
           events' = [events EXCEPT ![j] = Append(@, "delivery_offer_acknowledged")],
           UNCHANGED <<daemon, generation, jobLimit, binding, state, boundary,
                       handed, leases, openJobs>>
    PROVE  CustodyInv'
<1>1. events \in [Jobs -> Seq(EventTypes)] /\ "delivery_offer_acknowledged" \in EventTypes
  BY DEF CustodyInv, CustodyTypeOK, EventTypes
<1>2. /\ events'[j] = Append(events[j], "delivery_offer_acknowledged")
      /\ \A i \in Jobs \ {j} : JobKept(i)
  BY <1>1 DEF JobKept
<1>3. CustodyTypeOK'
  <2>1. events' \in [Jobs -> Seq(EventTypes)]
    BY <1>1, AppendProperties
  <2> QED BY <2>1 DEF CustodyInv, CustodyTypeOK
<1>4. \A type : Has(j, type)' <=> Has(j, type) \/ type = "delivery_offer_acknowledged"
  BY <1>1, <1>2, HasAppend
<1>5. Recorded(j)'
  <2>1. Recorded(j)
    BY DEF CustodyInv
  <2> QED BY <1>4, <2>1 DEF Recorded
<1>6. Admitted' = Admitted
  BY DEF Admitted
<1>7. Uncancelled' = Uncancelled
  <2>1. \A n \in Jobs :
          Has(n, "job_cancelled_before_dispatch")' <=> Has(n, "job_cancelled_before_dispatch")
    BY <1>2, <1>4 DEF JobKept, Has
  <2> QED BY <1>6, <2>1 DEF Uncancelled, Admitted
<1> QED BY <1>2, <1>3, <1>5, <1>6, <1>7, LedgerStep DEF CustodyInv

-----------------------------------------------------------------------------
(* Leases *)

\* Every token of old is below the tokens that new has and old had not.
Fresh(old, new) ==
    \A i \in DOMAIN new :
        (i \in DOMAIN old => new[i].token # old[i].token) =>
            \A n \in DOMAIN old : old[n].token < new[i].token

LEMMA RowTyped ==
    ASSUME NEW rows \in Seq(Lease)
    PROVE  \A i \in DOMAIN rows : rows[i] \in Lease /\ rows[i].token \in Nat
<1>1. \A i \in DOMAIN rows : rows[i] \in Lease
  BY ElementOfSeq, LenProperties
<1> QED BY <1>1 DEF Lease

LEMMA EndedTyped ==
    ASSUME NEW row \in Lease
    PROVE  /\ Ended(row) \in Lease /\ ~Ended(row).active
           /\ Ended(row).token = row.token
           /\ Ended(row).generation = row.generation
BY DEF Ended, Lease

\* One row ends or turns late, or all rows of some kind end.
LEMMA RowsSameTokens ==
    ASSUME NEW rows \in Seq(Lease), LeasesOrdered(rows), NEW new \in Seq(Lease),
           Len(new) = Len(rows),
           \A i \in 1 .. Len(rows) : /\ new[i].token = rows[i].token
                                     /\ new[i].active => rows[i].active
    PROVE  LeasesOrdered(new) /\ Fresh(rows, new)
<1>1. DOMAIN new = 1 .. Len(rows) /\ DOMAIN rows = 1 .. Len(rows)
  BY LenProperties
<1> QED BY <1>1 DEF LeasesOrdered, Fresh

\* The held row is the last one.
LEMMA HeldIsLast ==
    ASSUME NEW rows \in Seq(Lease), LeasesOrdered(rows),
           NEW i \in DOMAIN rows, rows[i].active
    PROVE  /\ i = Len(rows)
           /\ \A n \in DOMAIN rows : rows[n].token <= rows[i].token
<1>1. DOMAIN rows = 1 .. Len(rows) /\ Len(rows) \in Nat
  BY LenProperties
<1>2. \A n \in DOMAIN rows : rows[n].token \in Nat
  BY RowTyped
<1>3. i = Len(rows)
  BY DEF LeasesOrdered
<1>4. \A n \in DOMAIN rows : n < i => rows[n].token < rows[i].token
  BY DEF LeasesOrdered
<1> QED BY <1>1, <1>2, <1>3, <1>4

LEMMA RenewedRows ==
    ASSUME NEW rows \in Seq(Lease), LeasesOrdered(rows),
           NEW i \in DOMAIN rows, rows[i].active
    PROVE  LET new == [rows EXCEPT ![i].token = @ + 1]
           IN  new \in Seq(Lease) /\ LeasesOrdered(new) /\ Fresh(rows, new)
<1> DEFINE row == [rows[i] EXCEPT !.token = @ + 1]
           new == [rows EXCEPT ![i] = row]
<1>1. DOMAIN rows = 1 .. Len(rows) /\ Len(rows) \in Nat
  BY LenProperties
<1>2. \A n \in DOMAIN rows : rows[n] \in Lease /\ rows[n].token \in Nat
  BY RowTyped
<1>3. row \in Lease /\ row.token = rows[i].token + 1
  BY <1>2 DEF Lease
<1>4. i = Len(rows) /\ \A n \in DOMAIN rows : rows[n].token <= rows[i].token
  BY HeldIsLast
<1> HIDE DEF row
<1>5. /\ new \in Seq(Lease) /\ Len(new) = Len(rows)
      /\ DOMAIN new = 1 .. Len(rows)
      /\ new[i] = row
      /\ \A n \in 1 .. Len(rows) : n # i => new[n] = rows[n]
  BY <1>1, <1>3, ExceptSeq, LenProperties
<1> HIDE DEF new
<1>6. LeasesOrdered(new)
  <2>1. \A n, m \in 1 .. Len(rows) : m < n => new[m].token < new[n].token
    <3> SUFFICES ASSUME NEW n \in 1 .. Len(rows), NEW m \in 1 .. Len(rows), m < n
                 PROVE  new[m].token < new[n].token
      OBVIOUS
    <3>1. rows[m].token < rows[n].token
      BY <1>1 DEF LeasesOrdered
    <3>2. m # i /\ new[m] = rows[m]
      <4>1. n \in Int /\ m \in Int /\ n <= i
        BY <1>1, <1>4
      <4>2. m # i
        BY <4>1
      <4> QED BY <1>5, <4>2
    <3>3. CASE n = i
      <4>1. new[n].token = rows[n].token + 1
        BY <1>3, <1>5, <3>3
      <4> QED BY <1>1, <1>2, <3>1, <3>2, <4>1
    <3>4. CASE n # i
      BY <1>5, <3>1, <3>2, <3>4
    <3> QED BY <3>3, <3>4
  <2>2. \A n \in 1 .. Len(rows) : new[n].active => n = Len(new)
    BY <1>1, <1>4, <1>5 DEF LeasesOrdered
  <2> QED BY <1>5, <2>1, <2>2 DEF LeasesOrdered
<1>7. Fresh(rows, new)
  <2> SUFFICES ASSUME NEW n \in 1 .. Len(rows), new[n].token # rows[n].token,
                      NEW m \in 1 .. Len(rows)
               PROVE  rows[m].token < new[n].token
    BY <1>1, <1>5 DEF Fresh
  <2>1. n = i
    BY <1>5
  <2>2. new[n].token = rows[i].token + 1
    BY <1>3, <1>5, <2>1
  <2>3. rows[m].token <= rows[i].token /\ rows[m].token \in Nat /\ rows[i].token \in Nat
    BY <1>1, <1>2, <1>4
  <2> QED BY <2>2, <2>3
<1>8. new = [rows EXCEPT ![i].token = @ + 1]
  BY DEF new, row
<1> QED BY <1>5, <1>6, <1>7, <1>8

\* A lease after the newest token, once no row is held.
LEMMA AcquiredRows ==
    ASSUME NEW rows \in Seq(Lease), LeasesOrdered(rows),
           \A i \in DOMAIN rows : ~rows[i].active,
           NEW row \in Lease,
           \A i \in DOMAIN rows : rows[i].token < row.token
    PROVE  /\ Append(rows, row) \in Seq(Lease)
           /\ LeasesOrdered(Append(rows, row))
           /\ Fresh(rows, Append(rows, row))
<1> DEFINE new == Append(rows, row)
<1>1. DOMAIN rows = 1 .. Len(rows) /\ Len(rows) \in Nat
  BY LenProperties
<1>2. /\ new \in Seq(Lease) /\ Len(new) = Len(rows) + 1
      /\ \A i \in 1 .. Len(rows) : new[i] = rows[i]
      /\ new[Len(rows) + 1] = row
      /\ DOMAIN new = 1 .. Len(rows) + 1
  BY AppendProperties, LenProperties
<1> HIDE DEF new
<1>3. LeasesOrdered(new)
  <2>1. \A n \in 1 .. Len(rows) + 1 : new[n].active => n = Len(new)
    BY <1>1, <1>2
  <2>2. \A n, m \in 1 .. Len(rows) + 1 : m < n => new[m].token < new[n].token
    <3> SUFFICES ASSUME NEW n \in 1 .. Len(rows) + 1, NEW m \in 1 .. Len(rows) + 1, m < n
                 PROVE  new[m].token < new[n].token
      OBVIOUS
    <3>1. m \in 1 .. Len(rows) /\ new[m] = rows[m]
      BY <1>1, <1>2
    <3>2. CASE n \in 1 .. Len(rows)
      BY <1>1, <1>2, <3>1, <3>2 DEF LeasesOrdered
    <3>3. CASE n = Len(rows) + 1
      BY <1>1, <1>2, <3>1, <3>3
    <3> QED BY <1>1, <3>2, <3>3
  <2> QED BY <1>2, <2>1, <2>2 DEF LeasesOrdered
<1>4. Fresh(rows, new)
  <2> SUFFICES ASSUME NEW n \in 1 .. Len(rows) + 1, NEW m \in 1 .. Len(rows),
                      n \in 1 .. Len(rows) => new[n].token # rows[n].token
               PROVE  rows[m].token < new[n].token
    BY <1>1, <1>2 DEF Fresh
  <2>1. n = Len(rows) + 1
    BY <1>1, <1>2
  <2> QED BY <1>1, <1>2, <2>1
<1> QED BY <1>2, <1>3, <1>4 DEF new

LEMMA FreshOverSame ==
    ASSUME NEW rows \in Seq(Lease), NEW ended \in Seq(Lease), NEW new \in Seq(Lease),
           Len(ended) = Len(rows),
           \A i \in 1 .. Len(rows) : ended[i].token = rows[i].token,
           Fresh(ended, new)
    PROVE  Fresh(rows, new)
<1>1. DOMAIN ended = 1 .. Len(rows) /\ DOMAIN rows = 1 .. Len(rows)
  BY LenProperties
<1> QED BY <1>1 DEF Fresh

\* Steps on the leases of one job, and nothing else.
LEMMA LeaseFrame ==
    ASSUME CustodyInv, NEW j \in Jobs, NEW new \in Seq(Lease),
           leases' = [leases EXCEPT ![j] = new],
           LeasesOrdered(new), Fresh(leases[j], new),
           UNCHANGED <<daemon, generation, jobLimit, binding, state, events,
                       boundary, handed, openJobs>>
    PROVE  CustodyInv' /\ \A i \in Jobs : Fresh(leases[i], leases'[i])
<1>1. leases \in [Jobs -> Seq(Lease)]
  BY DEF CustodyInv, CustodyTypeOK
<1>2. leases' \in [Jobs -> Seq(Lease)]
  BY <1>1
<1>3. leases'[j] = new /\ \A i \in Jobs \ {j} : leases'[i] = leases[i]
  BY <1>1
<1>4. CustodyTypeOK'
  BY <1>2 DEF CustodyInv, CustodyTypeOK
<1>5. \A i \in Jobs : LeasesOrdered(leases'[i])
  BY <1>3 DEF CustodyInv
<1>6. \A i \in Jobs : Recorded(i)'
  BY DEF CustodyInv, Recorded, Has
<1>7. Admitted' = Admitted /\ Uncancelled' = Uncancelled
  BY DEF Admitted, Uncancelled, Has
<1>8. \A i \in Jobs : Fresh(leases[i], leases'[i])
  BY <1>3 DEF Fresh
<1> QED BY <1>4, <1>5, <1>6, <1>7, <1>8 DEF CustodyInv

\* What one row of the leases becomes: ended or late, its token as it was.
LEMMA RowStep ==
    ASSUME CustodyInv, NEW j \in Jobs, NEW i \in DOMAIN leases[j], NEW row \in Lease,
           row.token = leases[j][i].token,
           row.active => leases[j][i].active,
           leases' = [leases EXCEPT ![j] = [leases[j] EXCEPT ![i] = row]],
           UNCHANGED <<daemon, generation, jobLimit, binding, state, events,
                       boundary, handed, openJobs>>
    PROVE  CustodyInv' /\ \A n \in Jobs : Fresh(leases[n], leases'[n])
<1> DEFINE rows == leases[j]
           new == [rows EXCEPT ![i] = row]
<1>1. rows \in Seq(Lease) /\ LeasesOrdered(rows)
  BY DEF CustodyInv, CustodyTypeOK
<1>2. DOMAIN rows = 1 .. Len(rows)
  BY <1>1, LenProperties
<1>3. /\ new \in Seq(Lease) /\ Len(new) = Len(rows)
      /\ \A n \in 1 .. Len(rows) : new[n] = IF n = i THEN row ELSE rows[n]
  BY <1>1, <1>2, ExceptSeq
<1> HIDE DEF new
<1>4. LeasesOrdered(new) /\ Fresh(rows, new)
  BY <1>1, <1>3, RowsSameTokens
<1>5. leases' = [leases EXCEPT ![j] = new]
  BY DEF new
<1> QED BY <1>3, <1>4, <1>5, LeaseFrame

LEMMA RowSteps ==
    ASSUME CustodyInv, NEW j \in Jobs, NEW i \in DOMAIN leases[j],
           \/ ExpireLease(j, i)
           \/ LeaseElapses(j, i)
           \/ \E token \in 1 .. MaxFence : Release(j, i, token)
    PROVE  CustodyInv' /\ \A n \in Jobs : Fresh(leases[n], leases'[n])
<1>1. leases \in [Jobs -> Seq(Lease)] /\ leases[j][i] \in Lease
  BY RowTyped DEF CustodyInv, CustodyTypeOK
<1>2. CASE ExpireLease(j, i) \/ \E token \in 1 .. MaxFence : Release(j, i, token)
  <2>1. /\ leases' = [leases EXCEPT ![j] = [leases[j] EXCEPT ![i] = Ended(leases[j][i])]]
        /\ UNCHANGED <<daemon, generation, jobLimit, binding, state, events,
                       boundary, handed, openJobs>>
    BY <1>1, <1>2 DEF ExpireLease, Release
  <2> QED BY <1>1, <2>1, EndedTyped, RowStep
<1>3. CASE LeaseElapses(j, i)
  <2> DEFINE row == [leases[j][i] EXCEPT !.late = TRUE]
  <2>1. /\ leases' = [leases EXCEPT ![j] = [leases[j] EXCEPT ![i] = row]]
        /\ UNCHANGED <<daemon, generation, jobLimit, binding, state, events,
                       boundary, handed, openJobs>>
    BY <1>1, <1>3 DEF LeaseElapses
  <2>2. /\ row \in Lease /\ row.token = leases[j][i].token
        /\ row.active => leases[j][i].active
    BY <1>1 DEF Lease
  <2> QED BY <2>1, <2>2, RowStep
<1> QED BY <1>2, <1>3

LEMMA RenewStep ==
    ASSUME CustodyInv, NEW j \in Jobs, NEW i \in DOMAIN leases[j],
           NEW token \in 1 .. MaxFence, Renew(j, i, token)
    PROVE  CustodyInv' /\ \A n \in Jobs : Fresh(leases[n], leases'[n])
<1> DEFINE rows == leases[j]
           new == [rows EXCEPT ![i].token = @ + 1]
<1>1. leases \in [Jobs -> Seq(Lease)] /\ rows \in Seq(Lease) /\ LeasesOrdered(rows)
  BY DEF CustodyInv, CustodyTypeOK
<1>2. rows[i].active
  BY DEF Renew, Holds, ActiveRows
<1>3. new \in Seq(Lease) /\ LeasesOrdered(new) /\ Fresh(rows, new)
  BY <1>1, <1>2, RenewedRows
<1>4. /\ leases' = [leases EXCEPT ![j] = new]
      /\ UNCHANGED <<daemon, generation, jobLimit, binding, state, events,
                     boundary, handed, openJobs>>
  BY <1>1 DEF Renew
<1> HIDE DEF new
<1> QED BY <1>1, <1>3, <1>4, LeaseFrame

LEMMA AcquireStep ==
    ASSUME CustodyInv, NEW j \in Jobs, Acquire(j)
    PROVE  CustodyInv' /\ \A n \in Jobs : Fresh(leases[n], leases'[n])
<1> DEFINE rows == leases[j]
           ended == [i \in DOMAIN rows |-> IF IsCurrentRow(j, i) THEN Ended(rows[i])
                                                                 ELSE rows[i]]
<1>1. /\ leases \in [Jobs -> Seq(Lease)] /\ rows \in Seq(Lease) /\ LeasesOrdered(rows)
      /\ generation \in Nat
  BY DEF CustodyInv, CustodyTypeOK
<1>2. DOMAIN rows = 1 .. Len(rows) /\ Len(rows) \in Nat
  BY <1>1, LenProperties
<1>3. \A i \in DOMAIN rows : rows[i] \in Lease /\ rows[i].token \in Nat
  BY <1>1, RowTyped
<1>4. /\ DOMAIN ended = 1 .. Len(rows)
      /\ \A i \in 1 .. Len(rows) :
           /\ ended[i] \in Lease /\ ended[i].token = rows[i].token
           /\ ended[i].active => rows[i].active /\ ~IsCurrentRow(j, i)
  BY <1>2, <1>3, EndedTyped
<1>5. ended \in Seq(Lease) /\ Len(ended) = Len(rows)
  <2>1. ended \in [1 .. Len(rows) -> Lease]
    BY <1>2, <1>4
  <2>2. ended \in Seq(Lease)
    BY <1>2, <2>1, SeqDef
  <2> QED BY <1>2, <1>4, <2>2, LenProperties
<1>6. PICK top \in 0 .. (MaxFence - 1) :
        /\ IsTopToken(j, top)
        /\ leases' = [leases EXCEPT ![j] =
                        Append(ended, [generation |-> generation, token |-> top + 1,
                                       active |-> TRUE, late |-> FALSE])]
  BY <1>1 DEF Acquire
<1> DEFINE row == [generation |-> generation, token |-> top + 1,
                   active |-> TRUE, late |-> FALSE]
           new == Append(ended, row)
<1>7. row \in Lease /\ row.token = top + 1 /\ top \in Nat
  BY <1>1, <1>6, CustodyAssumption DEF Lease
<1>8. leases' = [leases EXCEPT ![j] = new]
  BY <1>6
<1>9. UNCHANGED <<daemon, generation, jobLimit, binding, state, events,
                  boundary, handed, openJobs>>
  BY DEF Acquire
<1> HIDE DEF ended, row
<1>10. LeasesOrdered(ended) /\ Fresh(rows, ended)
  BY <1>1, <1>4, <1>5, RowsSameTokens
<1>11. \A i \in DOMAIN ended : ~ended[i].active
  <2> SUFFICES ASSUME NEW i \in 1 .. Len(rows), rows[i].active
               PROVE  IsCurrentRow(j, i)
    BY <1>4
  <2>1. \A n \in DOMAIN rows : rows[n].token <= rows[i].token
    BY <1>1, <1>2, HeldIsLast
  <2> QED BY <1>2, <2>1 DEF IsCurrentRow, ActiveRows
<1>12. \A i \in DOMAIN ended : ended[i].token < row.token
  <2>1. \A i \in DOMAIN rows : rows[i].token <= top
    BY <1>6 DEF IsTopToken
  <2> QED BY <1>2, <1>3, <1>4, <1>7, <2>1
<1>13. new \in Seq(Lease) /\ LeasesOrdered(new) /\ Fresh(ended, new)
  BY <1>5, <1>7, <1>10, <1>11, <1>12, AcquiredRows
<1> HIDE DEF new
<1>14. Fresh(rows, new)
  BY <1>1, <1>4, <1>5, <1>13, FreshOverSame
<1> QED BY <1>8, <1>9, <1>13, <1>14, LeaseFrame

LEMMA LeaseSteps ==
    ASSUME CustodyInv, NEW j \in Jobs, LeaseStep(j)
    PROVE  CustodyInv' /\ \A n \in Jobs : Fresh(leases[n], leases'[n])
<1>1. CASE Acquire(j)
  BY <1>1, AcquireStep
<1>2. ASSUME NEW i \in DOMAIN leases[j],
             \/ ExpireLease(j, i)
             \/ LeaseElapses(j, i)
             \/ \E token \in 1 .. MaxFence : Release(j, i, token)
      PROVE  CustodyInv' /\ \A n \in Jobs : Fresh(leases[n], leases'[n])
  BY <1>2, RowSteps
<1>3. ASSUME NEW i \in DOMAIN leases[j], NEW token \in 1 .. MaxFence, Renew(j, i, token)
      PROVE  CustodyInv' /\ \A n \in Jobs : Fresh(leases[n], leases'[n])
  BY <1>3, RenewStep
<1> QED BY <1>1, <1>2, <1>3 DEF LeaseStep

\* Recovery abandons the leases of other generations and keeps their tokens.
LEMMA RecoverStep ==
    ASSUME CustodyInv, RecoverCustody
    PROVE  CustodyInv' /\ \A n \in Jobs : Fresh(leases[n], leases'[n])
<1>1. /\ leases' = [j \in Jobs |-> Abandoned(leases[j])]
      /\ daemon' = "ready"
      /\ UNCHANGED <<generation, jobLimit, binding, state, events, boundary,
                     handed, openJobs>>
  BY DEF RecoverCustody
<1>2. ASSUME NEW j \in Jobs
      PROVE  /\ leases'[j] \in Seq(Lease) /\ LeasesOrdered(leases'[j])
             /\ Fresh(leases[j], leases'[j])
  <2> DEFINE rows == leases[j]
             new == Abandoned(rows)
  <2>1. rows \in Seq(Lease) /\ LeasesOrdered(rows)
    BY DEF CustodyInv, CustodyTypeOK
  <2>2. DOMAIN rows = 1 .. Len(rows) /\ Len(rows) \in Nat
    BY <2>1, LenProperties
  <2>3. \A i \in DOMAIN rows : rows[i] \in Lease
    BY <2>1, RowTyped
  <2>4. /\ DOMAIN new = 1 .. Len(rows)
        /\ new = [i \in 1 .. Len(rows) |-> new[i]]
        /\ \A i \in 1 .. Len(rows) :
             /\ new[i] \in Lease /\ new[i].token = rows[i].token
             /\ new[i].active => rows[i].active
    BY <2>2, <2>3, EndedTyped DEF Abandoned
  <2> HIDE DEF new
  <2>5. new \in [1 .. Len(rows) -> Lease]
    BY <2>4
  <2>6. new \in Seq(Lease)
    BY <2>2, <2>5, SeqDef
  <2>7. Len(new) = Len(rows)
    BY <2>2, <2>4, <2>6, LenProperties
  <2>8. LeasesOrdered(new) /\ Fresh(rows, new)
    BY <2>1, <2>4, <2>6, <2>7, RowsSameTokens
  <2>9. leases'[j] = new
    BY <1>1 DEF new
  <2> QED BY <2>6, <2>8, <2>9
<1>3. leases' \in [Jobs -> Seq(Lease)]
  BY <1>1, <1>2
<1>4. CustodyTypeOK'
  BY <1>1, <1>3 DEF CustodyInv, CustodyTypeOK
<1>5. \A i \in Jobs : Recorded(i)'
  BY <1>1 DEF CustodyInv, Recorded, Has
<1>6. Admitted' = Admitted /\ Uncancelled' = Uncancelled
  BY <1>1 DEF Admitted, Uncancelled, Has
<1> QED BY <1>1, <1>2, <1>4, <1>5, <1>6 DEF CustodyInv

LEMMA FreshItself ==
    ASSUME NEW rows
    PROVE  Fresh(rows, rows)
BY DEF Fresh

LEMMA DaemonStep ==
    ASSUME CustodyInv, Open \/ BlockCustody \/ Stop
    PROVE  CustodyInv' /\ \A n \in Jobs : Fresh(leases[n], leases'[n])
<1>1. /\ UNCHANGED <<binding, state, events, boundary, handed, leases, openJobs>>
      /\ daemon' \in {"down", "opened", "ready", "blocked"}
      /\ generation' \in Nat /\ jobLimit' \in JobLimits \cup {0}
  BY DEF Open, BlockCustody, Stop, CustodyInv, CustodyTypeOK
<1>2. CustodyTypeOK'
  BY <1>1 DEF CustodyInv, CustodyTypeOK
<1>3. \A i \in Jobs : Recorded(i)' /\ LeasesOrdered(leases'[i])
  BY <1>1 DEF CustodyInv, Recorded, Has
<1>4. Admitted' = Admitted /\ Uncancelled' = Uncancelled
  BY <1>1 DEF Admitted, Uncancelled, Has
<1> QED BY <1>1, <1>2, <1>3, <1>4, FreshItself DEF CustodyInv

-----------------------------------------------------------------------------
(* Subscriptions and offers *)

LEMMA OutstandingFinite == IsFiniteSet(Outstanding)
BY DeliveryAssumption, FS_Subset DEF Outstanding

LEMMA OfferTyped ==
    ASSUME DeliveryTyped, NEW a \in Attempts, offer[a] # NoOffer
    PROVE  /\ offer[a] \in Offer /\ offer[a].job \in Jobs
           /\ offer[a].first \in Nat /\ offer[a].last \in Nat
BY DEF DeliveryTyped, Offer

LEMMA SubTyped ==
    ASSUME DeliveryTyped, NEW j \in Jobs, sub[j] # NoSub
    PROVE  /\ sub[j] \in Subscription /\ sub[j].start \in Nat
           /\ sub[j].cursor \in Nat /\ sub[j].acked \in Nat
BY DEF DeliveryTyped, Subscription

\* The acknowledged intervals of a job, and its subscription, as they were.
LEMMA CoveredFrame ==
    ASSUME NEW j \in Jobs, Covered(j), sub'[j] = sub[j],
           AckedOf(j)' = AckedOf(j),
           \A a \in AckedOf(j) : /\ offer'[a].first = offer[a].first
                                 /\ offer'[a].last = offer[a].last
    PROVE  Covered(j)'
BY DEF Covered, Covers

\* Ledgers only grow.
Grown == \A j \in Jobs : Len(events'[j]) \in Nat /\ Len(events[j]) \in Nat
                         /\ Len(events[j]) <= Len(events'[j])

LEMMA SubFrame ==
    ASSUME DeliveryTyped, NEW j \in Jobs, SubOrdered(j), sub'[j] = sub[j], Grown
    PROVE  SubOrdered(j)'
<1>1. CASE sub[j] = NoSub
  BY <1>1 DEF SubOrdered
<1>2. CASE sub[j] # NoSub
  BY <1>2, SubTyped DEF SubOrdered, Grown
<1> QED BY <1>1, <1>2

LEMMA OfferFrame ==
    ASSUME DeliveryTyped, NEW a \in Attempts, OfferInLedger(a),
           sub' = sub, Grown,
           offer'[a] = NoOffer <=> offer[a] = NoOffer,
           offer[a] # NoOffer =>
               /\ offer'[a].job = offer[a].job
               /\ offer'[a].first = offer[a].first
               /\ offer'[a].last = offer[a].last
               /\ offer'[a].state = "ACKNOWLEDGED" => offer[a].state = "ACKNOWLEDGED"
    PROVE  OfferInLedger(a)'
<1>1. CASE offer[a] = NoOffer
  BY <1>1 DEF OfferInLedger
<1>2. CASE offer[a] # NoOffer
  BY <1>2, OfferTyped DEF OfferInLedger, Grown
<1> QED BY <1>1, <1>2

\* Steps that change no offer and no subscription.
LEMMA DeliveryFrame ==
    ASSUME DeliveryInv, UNCHANGED <<sub, offer, offered>>, Grown,
           offerLimit' \in OfferLimits \cup {0}, notices' \subseteq Jobs \X Nat,
           \A w \in Waits : waiting'[w] \in {waiting[w], NoWait},
           waiting' \in [Waits -> [job : Jobs, after : Nat] \cup {NoWait}],
           NoMissedEvent'
    PROVE  DeliveryInv'
<1>1. DeliveryTyped'
  BY DEF DeliveryInv, DeliveryTyped
<1>2. \A j \in Jobs : SubOrdered(j)'
  BY SubFrame DEF DeliveryInv
<1>3. \A j \in Jobs : Covered(j)'
  BY CoveredFrame DEF DeliveryInv, AckedOf
<1>4. \A a \in Attempts : OfferInLedger(a)'
  BY OfferFrame DEF DeliveryInv
<1>5. \A w \in Waits : waiting'[w] # NoWait => sub'[waiting'[w].job] # NoSub
  BY DEF DeliveryInv
<1>6. Outstanding' = Outstanding
  BY DEF Outstanding
<1> QED BY <1>1, <1>2, <1>3, <1>4, <1>5, <1>6 DEF DeliveryInv

\* A poll that waits for an event of the ledger, and the notice it is due.
Awaits(w) == waiting[w] # NoWait /\ Qualifies(waiting[w].job, waiting[w].after)
Due(w) == \E n \in notices : n[1] = waiting[w].job /\ n[2] > waiting[w].after

LEMMA MissedFrame ==
    ASSUME NoMissedEvent, UNCHANGED <<sub, events>>, notices \subseteq notices',
           \A w \in Waits : waiting'[w] = waiting[w] \/ waiting'[w] = NoWait
    PROVE  NoMissedEvent'
<1> SUFFICES ASSUME NEW w \in Waits, Awaits(w)'
             PROVE  Due(w)'
  BY DEF NoMissedEvent, Awaits, Due
<1>1. waiting'[w] = waiting[w] /\ Awaits(w)
  BY DEF Awaits, Qualifies, SafeAfter
<1>2. Due(w)
  BY <1>1 DEF NoMissedEvent, Awaits, Due
<1> QED BY <1>1, <1>2 DEF Due

\* An event that is appended is posted, so whoever waits for it is due.
LEMMA MissedAppend ==
    ASSUME NoMissedEvent, CustodyTypeOK, DeliveryTyped,
           NEW j \in Jobs, NEW what \in EventTypes,
           events' = [events EXCEPT ![j] = Append(@, what)],
           Posted(j), waiting' = waiting,
           \A i \in Jobs \ {j} : sub'[i] = sub[i]
    PROVE  NoMissedEvent' /\ Grown /\ notices' \subseteq Jobs \X Nat
<1>1. events \in [Jobs -> Seq(EventTypes)] /\ notices \subseteq Jobs \X Nat
  BY DEF CustodyTypeOK, DeliveryTyped
<1>2. /\ events'[j] = Append(events[j], what)
      /\ Len(events'[j]) = Len(events[j]) + 1 /\ Len(events[j]) \in Nat
      /\ DOMAIN events'[j] = 1 .. Len(events'[j])
      /\ \A i \in Jobs \ {j} : events'[i] = events[i]
  BY <1>1, AppendProperties, LenProperties
<1>3. Grown
  BY <1>1, <1>2, LenProperties DEF Grown
<1>4. notices' = notices \cup {<<j, Len(events'[j])>>}
  BY DEF Posted
<1>5. notices' \subseteq Jobs \X Nat
  BY <1>1, <1>2, <1>4
<1>6. ASSUME NEW w \in Waits, Awaits(w)'
      PROVE  Due(w)'
  <2>1. waiting'[w] = waiting[w] /\ waiting[w] # NoWait
    BY <1>6 DEF Awaits
  <2>2. waiting[w].job \in Jobs /\ waiting[w].after \in Nat
    BY <2>1 DEF DeliveryTyped
  <2>3. CASE waiting[w].job = j
    <3>1. PICK n \in DOMAIN events'[j] : n > waiting[w].after
      BY <1>6, <2>1, <2>3 DEF Awaits, Qualifies, SafeAfter
    <3>2. Len(events'[j]) > waiting[w].after
      BY <1>2, <2>2, <3>1
    <3>3. <<j, Len(events'[j])>> \in notices'
      BY <1>4
    <3> QED BY <2>1, <2>3, <3>2, <3>3 DEF Due
  <2>4. CASE waiting[w].job # j
    <3>1. Awaits(w)
      BY <1>2, <1>6, <2>1, <2>2, <2>4 DEF Awaits, Qualifies, SafeAfter
    <3>2. Due(w)
      BY <3>1 DEF NoMissedEvent, Awaits, Due
    <3> QED BY <1>4, <2>1, <3>2 DEF Due
  <2> QED BY <2>3, <2>4
<1>7. NoMissedEvent'
  BY <1>6 DEF NoMissedEvent, Awaits, Due
<1> QED BY <1>3, <1>5, <1>7

\* The ledgers as they were.
LEMMA SameLedgers ==
    ASSUME CustodyTypeOK, events' = events
    PROVE  Grown
<1>1. \A j \in Jobs : Len(events[j]) \in Nat
  BY LenProperties DEF CustodyTypeOK
<1> QED BY <1>1 DEF Grown

-----------------------------------------------------------------------------
(* The calls *)

\* A custody call that appends an event.
LEMMA CallStep ==
    ASSUME IInv, CustodyInv', NEW j \in Jobs, NEW what \in EventTypes,
           events' = [events EXCEPT ![j] = Append(@, what)], Posted(j),
           UNCHANGED <<sub, offer, offered, offerLimit, waiting>>
    PROVE  IInv'
<1>1. NoMissedEvent' /\ Grown /\ notices' \subseteq Jobs \X Nat
  BY MissedAppend DEF IInv, CustodyInv, DeliveryInv
<1>2. DeliveryInv'
  BY <1>1, DeliveryFrame DEF IInv, DeliveryInv, DeliveryTyped
<1> QED BY <1>2 DEF IInv

LEMMA CustodyCalls ==
    ASSUME IInv, NEW j \in Jobs,
           \/ \E k \in Keys : SubmitCall(k, j)
           \/ CancelCall(j)
           \/ HandOffCall(j)
    PROVE  IInv'
<1>1. ASSUME NEW k \in Keys, SubmitCall(k, j)
      PROVE  IInv'
  <2>1. CustodyInv'
    BY <1>1, SubmitInv DEF SubmitCall, IInv
  <2>2. /\ events' = [events EXCEPT ![j] = Append(@, "job_admitted")] /\ Posted(j)
        /\ UNCHANGED <<sub, offer, offered, offerLimit, waiting>>
    BY <1>1 DEF SubmitCall, Submit
  <2> QED BY <2>1, <2>2, CallStep DEF EventTypes
<1>2. CASE CancelCall(j)
  <2>1. CustodyInv'
    BY <1>2, CancelInv DEF CancelCall, IInv
  <2>2. /\ events' = [events EXCEPT ![j] = Append(@, "job_cancelled_before_dispatch")]
        /\ Posted(j)
        /\ UNCHANGED <<sub, offer, offered, offerLimit, waiting>>
    BY <1>2 DEF CancelCall, Cancel
  <2> QED BY <2>1, <2>2, CallStep DEF EventTypes
<1>3. CASE HandOffCall(j)
  <2>1. CustodyInv'
    BY <1>3, HandOffInv DEF HandOffCall, IInv
  <2>2. /\ events' = [events EXCEPT ![j] = Append(@, "later_tranche_handoff_committed")]
        /\ Posted(j)
        /\ UNCHANGED <<sub, offer, offered, offerLimit, waiting>>
    BY <1>3 DEF HandOffCall, HandOff
  <2> QED BY <2>1, <2>2, CallStep DEF EventTypes
<1> QED BY <1>1, <1>2, <1>3

\* Steps that leave the ledgers, the subscriptions and the offers alone.
LEMMA PlainStep ==
    ASSUME IInv, CustodyInv', UNCHANGED <<events, sub, offer, offered>>,
           offerLimit' \in OfferLimits \cup {0}, notices' = notices,
           \A w \in Waits : waiting'[w] = waiting[w] \/ waiting'[w] = NoWait,
           waiting' \in [Waits -> [job : Jobs, after : Nat] \cup {NoWait}]
    PROVE  IInv'
<1>1. Grown
  BY SameLedgers DEF IInv, CustodyInv
<1>2. NoMissedEvent'
  BY MissedFrame DEF IInv, DeliveryInv
<1>3. DeliveryInv'
  BY <1>1, <1>2, DeliveryFrame DEF IInv, DeliveryInv, DeliveryTyped
<1> QED BY <1>3 DEF IInv

LEMMA CustodyKept ==
    ASSUME CustodyInv, UNCHANGED custodyVars
    PROVE  CustodyInv'
<1> USE DEF custodyVars
<1>1. CustodyTypeOK'
  BY DEF CustodyInv, CustodyTypeOK
<1>2. \A i \in Jobs : Recorded(i)' /\ LeasesOrdered(leases'[i])
  BY DEF CustodyInv, Recorded, Has
<1>3. Admitted' = Admitted /\ Uncancelled' = Uncancelled
  BY DEF Admitted, Uncancelled, Has
<1> QED BY <1>1, <1>2, <1>3 DEF CustodyInv

LEMMA LeaseCalls ==
    ASSUME IInv, NEW j \in Jobs, LeaseCall(j) \/ AmbiguousCall(j)
    PROVE  IInv'
<1>1. CustodyInv'
  BY LeaseSteps, AmbiguousInv DEF LeaseCall, AmbiguousCall, IInv
<1>2. events' = events
  BY DEF LeaseCall, AmbiguousCall, LeaseStep, Acquire, Renew, Release, ExpireLease,
         LeaseElapses, MarkAmbiguous
<1>3. UNCHANGED deliveryVars
  BY DEF LeaseCall, AmbiguousCall
<1>4. /\ offerLimit \in OfferLimits \cup {0}
      /\ waiting \in [Waits -> [job : Jobs, after : Nat] \cup {NoWait}]
  BY DEF IInv, DeliveryInv, DeliveryTyped
<1> QED BY <1>1, <1>2, <1>3, <1>4, PlainStep DEF deliveryVars

\* A subscription starts without offers, and nobody polls a job before it.
LEMMA SubscribeStep ==
    ASSUME IInv, NEW j \in Jobs, NEW start \in Cursors, Subscribe(j, start)
    PROVE  IInv'
<1> DEFINE new == [start |-> start, cursor |-> start, acked |-> start]
<1>1. /\ sub[j] = NoSub /\ sub' = [sub EXCEPT ![j] = new]
      /\ UNCHANGED <<custodyVars, offer, offered, offerLimit, waiting, notices>>
  BY DEF Subscribe
<1>2. DeliveryTyped /\ CustodyTypeOK /\ start \in Nat
  BY DeliveryAssumption DEF IInv, CustodyInv, DeliveryInv
<1>3. /\ new \in Subscription /\ new # NoSub
      /\ new.start = start /\ new.cursor = start /\ new.acked = start
  BY <1>2, DeliveryAssumption DEF Subscription
<1> HIDE DEF new
<1>4. sub'[j] = new /\ \A i \in Jobs \ {j} : sub'[i] = sub[i]
  BY <1>1, <1>2 DEF DeliveryTyped
<1>5. CustodyInv'
  BY <1>1, CustodyKept DEF IInv
<1>6. events' = events /\ Grown
  BY <1>1, <1>2, SameLedgers DEF custodyVars
<1>7. DeliveryTyped'
  BY <1>1, <1>2, <1>3 DEF DeliveryTyped
<1>8. \A a \in Attempts : offer[a] # NoOffer => offer[a].job \in Jobs \ {j}
  BY <1>1, <1>2, OfferTyped DEF IInv, DeliveryInv, OfferInLedger
<1>9. \A i \in Jobs : SubOrdered(i)' /\ Covered(i)'
  <2>1. ASSUME NEW i \in Jobs \ {j}
        PROVE  SubOrdered(i)' /\ Covered(i)'
    BY <1>1, <1>2, <1>4, <1>6, SubFrame, CoveredFrame DEF IInv, DeliveryInv, AckedOf
  <2>2. SubOrdered(j)'
    BY <1>2, <1>3, <1>4 DEF SubOrdered
  <2>3. Covered(j)'
    <3>1. AckedOf(j)' = {}
      BY <1>1, <1>8 DEF AckedOf
    <3>2. start + 1 .. start = {}
      BY <1>2
    <3> QED BY <1>3, <1>4, <3>1, <3>2 DEF Covered
  <2> QED BY <2>1, <2>2, <2>3
<1>10. \A a \in Attempts : OfferInLedger(a)'
  BY <1>1, <1>4, <1>6, <1>8 DEF IInv, DeliveryInv, OfferInLedger
<1>11. \A w \in Waits : waiting[w] # NoWait => waiting[w].job \in Jobs \ {j}
  BY <1>1, <1>2 DEF IInv, DeliveryInv, DeliveryTyped
<1>12. \A w \in Waits : waiting'[w] # NoWait => sub'[waiting'[w].job] # NoSub
  BY <1>1, <1>4, <1>11 DEF IInv, DeliveryInv
<1>13. Outstanding' = Outstanding
  BY <1>1 DEF Outstanding
<1>14. NoMissedEvent'
  <2> SUFFICES ASSUME NEW w \in Waits, Awaits(w)'
               PROVE  Due(w)'
    BY DEF NoMissedEvent, Awaits, Due
  <2>1. Awaits(w)
    BY <1>1, <1>4, <1>6, <1>11 DEF Awaits, Qualifies, SafeAfter
  <2>2. Due(w)
    BY <2>1 DEF IInv, DeliveryInv, NoMissedEvent, Awaits, Due
  <2> QED BY <1>1, <2>2 DEF Due
<1> QED BY <1>1, <1>5, <1>7, <1>9, <1>10, <1>12, <1>13, <1>14 DEF IInv, DeliveryInv

\* A new offer of what comes after the cursor.
LEMMA MakeOfferStep ==
    ASSUME IInv, NEW j \in Jobs, NEW a \in Attempts, sub[j] # NoSub,
           MakeOffer(j, a), offered' = offered + 1,
           UNCHANGED <<custodyVars, sub, offerLimit, notices>>,
           \A w \in Waits : waiting'[w] = waiting[w] \/ waiting'[w] = NoWait,
           waiting' \in [Waits -> [job : Jobs, after : Nat] \cup {NoWait}]
    PROVE  IInv'
<1>1. DeliveryTyped /\ CustodyTypeOK
  BY DEF IInv, CustodyInv, DeliveryInv
<1>2. PICK last \in SafeAfter(j, sub[j].cursor) :
        /\ offer[a] = NoOffer
        /\ offer' = [offer EXCEPT ![a] =
             [state |-> "OFFERED", job |-> j, first |-> sub[j].cursor + 1,
              last |-> last, generation |-> generation, late |-> FALSE]]
  BY DEF MakeOffer
<1> DEFINE new == [state |-> "OFFERED", job |-> j, first |-> sub[j].cursor + 1,
                   last |-> last, generation |-> generation, late |-> FALSE]
<1>3. /\ last \in 1 .. Len(events[j]) /\ last > sub[j].cursor
      /\ sub[j].cursor \in Nat /\ sub[j].start \in Nat
      /\ sub[j].start <= sub[j].cursor /\ Len(events[j]) \in Nat
  <2>1. events[j] \in Seq(EventTypes)
    BY <1>1 DEF CustodyTypeOK
  <2>2. last \in DOMAIN events[j] /\ last > sub[j].cursor
    BY <1>2 DEF SafeAfter
  <2>3. SubOrdered(j)
    BY DEF IInv, DeliveryInv
  <2> QED BY <1>1, <2>1, <2>2, <2>3, LenProperties, SubTyped DEF SubOrdered
<1>4. new \in Offer /\ new # NoOffer
  <2>1. generation \in Nat
    BY <1>1 DEF CustodyTypeOK
  <2>2. new \in Offer
    BY <1>3, <2>1 DEF Offer, OfferStates
  <2> QED BY <2>2, DeliveryAssumption
<1>5. /\ new.state = "OFFERED" /\ new.job = j /\ new.last = last
      /\ new.first = sub[j].cursor + 1
  OBVIOUS
<1>6. offer' = [offer EXCEPT ![a] = new]
  BY <1>2
<1> HIDE DEF new
<1>7. offer'[a] = new /\ \A b \in Attempts \ {a} : offer'[b] = offer[b]
  BY <1>1, <1>6 DEF DeliveryTyped
<1>8. DeliveryTyped'
  BY <1>1, <1>4, <1>6 DEF DeliveryTyped
<1>9. CustodyInv'
  BY CustodyKept DEF IInv
<1>10. events' = events /\ Grown
  BY <1>1, SameLedgers DEF custodyVars
<1>11. \A i \in Jobs : SubOrdered(i)'
  BY <1>1, <1>10, SubFrame DEF IInv, DeliveryInv
<1>12. \A i \in Jobs : Covered(i)'
  <2> SUFFICES ASSUME NEW i \in Jobs PROVE Covered(i)'
    OBVIOUS
  <2>1. AckedOf(i)' = AckedOf(i) /\ a \notin AckedOf(i)
    BY <1>2, <1>5, <1>7 DEF AckedOf
  <2>2. \A b \in AckedOf(i) : offer'[b] = offer[b]
    BY <1>7, <2>1 DEF AckedOf
  <2>3. Covered(i)
    BY DEF IInv, DeliveryInv
  <2> QED BY <2>1, <2>2, <2>3, CoveredFrame
<1>13. \A b \in Attempts : OfferInLedger(b)'
  <2>1. \A b \in Attempts \ {a} : OfferInLedger(b)'
    BY <1>7, <1>10 DEF IInv, DeliveryInv, OfferInLedger
  <2>2. OfferInLedger(a)'
    BY <1>3, <1>5, <1>7, <1>10 DEF OfferInLedger
  <2> QED BY <2>1, <2>2
<1>14. \A w \in Waits : waiting'[w] # NoWait => sub'[waiting'[w].job] # NoSub
  BY DEF IInv, DeliveryInv
<1>15. offered' = Cardinality(Outstanding')
  <2>1. Outstanding' = Outstanding \cup {a} /\ a \notin Outstanding
    BY <1>2, <1>4, <1>5, <1>7 DEF Outstanding
  <2> QED BY <2>1, OutstandingFinite, FS_AddElement DEF IInv, DeliveryInv
<1>16. NoMissedEvent'
  BY <1>10, MissedFrame DEF IInv, DeliveryInv
<1> QED BY <1>8, <1>9, <1>11, <1>12, <1>13, <1>14, <1>15, <1>16 DEF IInv, DeliveryInv

LEMMA OfferNowStep ==
    ASSUME IInv, NEW j \in Jobs, NEW a \in Attempts, OfferNow(j, a)
    PROVE  IInv'
<1>1. waiting \in [Waits -> [job : Jobs, after : Nat] \cup {NoWait}]
  BY DEF IInv, DeliveryInv, DeliveryTyped
<1> QED BY <1>1, MakeOfferStep DEF OfferNow

\* A poll is answered: with an offer, or with the refusal of the counter.
LEMMA ServeStep ==
    ASSUME IInv, NEW w \in Waits, NEW a \in Attempts, waiting[w] # NoWait, Serve(w, a),
           UNCHANGED <<custodyVars, sub, offerLimit, notices>>
    PROVE  IInv'
<1>1. /\ waiting \in [Waits -> [job : Jobs, after : Nat] \cup {NoWait}]
      /\ offerLimit \in OfferLimits \cup {0}
  BY DEF IInv, DeliveryInv, DeliveryTyped
<1>2. waiting[w].job \in Jobs /\ sub[waiting[w].job] # NoSub
  BY <1>1 DEF IInv, DeliveryInv
<1>3. /\ \A v \in Waits : waiting'[v] = waiting[v] \/ waiting'[v] = NoWait
      /\ waiting' \in [Waits -> [job : Jobs, after : Nat] \cup {NoWait}]
  BY <1>1 DEF Serve
<1>4. CASE MakeOffer(waiting[w].job, a) /\ offered' = offered + 1
  BY <1>2, <1>3, <1>4, MakeOfferStep
<1>5. CASE UNCHANGED <<offer, offered>>
  <2>1. CustodyInv' /\ events' = events
    BY CustodyKept DEF IInv, custodyVars
  <2> QED BY <1>1, <1>3, <1>5, <2>1, PlainStep
<1> QED BY <1>4, <1>5 DEF Serve

LEMMA WaitSteps ==
    ASSUME IInv, NEW w \in Waits, WaitStep(w)
    PROVE  IInv'
<1>1. /\ waiting \in [Waits -> [job : Jobs, after : Nat] \cup {NoWait}]
      /\ offerLimit \in OfferLimits \cup {0}
  BY DEF IInv, DeliveryInv, DeliveryTyped
<1>2. ASSUME NEW j \in Jobs, NEW after \in Cursors, Wait(w, j, after)
      PROVE  IInv'
  <2> DEFINE new == [job |-> j, after |-> after]
  <2>1. /\ sub[j] # NoSub /\ ~Qualifies(j, after)
        /\ waiting' = [waiting EXCEPT ![w] = new]
        /\ UNCHANGED <<custodyVars, sub, offer, offered, offerLimit, notices>>
    BY <1>2 DEF Wait
  <2>2. /\ new \in [job : Jobs, after : Nat] /\ new.job = j /\ new.after = after
    BY DeliveryAssumption
  <2> HIDE DEF new
  <2>3. waiting'[w] = new /\ \A v \in Waits \ {w} : waiting'[v] = waiting[v]
    BY <1>1, <2>1
  <2>4. CustodyInv' /\ events' = events
    BY <2>1, CustodyKept DEF IInv, custodyVars
  <2>5. DeliveryTyped'
    BY <2>1, <2>2 DEF IInv, DeliveryInv, DeliveryTyped
  <2>6. \A i \in Jobs : SubOrdered(i)' /\ Covered(i)'
    BY <2>1, <2>4 DEF IInv, DeliveryInv, SubOrdered, Covered, AckedOf, Covers
  <2>7. \A a \in Attempts : OfferInLedger(a)'
    BY <2>1, <2>4 DEF IInv, DeliveryInv, OfferInLedger
  <2>8. \A v \in Waits : waiting'[v] # NoWait => sub'[waiting'[v].job] # NoSub
    BY <2>1, <2>2, <2>3 DEF IInv, DeliveryInv
  <2>9. Outstanding' = Outstanding
    BY <2>1 DEF Outstanding
  <2>10. NoMissedEvent'
    <3> SUFFICES ASSUME NEW v \in Waits, Awaits(v)'
                 PROVE  Due(v)'
      BY DEF NoMissedEvent, Awaits, Due
    <3>1. v # w
      BY <2>1, <2>2, <2>3, <2>4 DEF Awaits, Qualifies, SafeAfter
    <3>2. Awaits(v)
      BY <2>1, <2>3, <2>4, <3>1 DEF Awaits, Qualifies, SafeAfter
    <3>3. Due(v)
      BY <3>2 DEF IInv, DeliveryInv, NoMissedEvent, Awaits, Due
    <3> QED BY <2>1, <2>3, <3>1, <3>3 DEF Due
  <2> QED BY <2>1, <2>4, <2>5, <2>6, <2>7, <2>8, <2>9, <2>10 DEF IInv, DeliveryInv
<1>3. ASSUME waiting' = [waiting EXCEPT ![w] = NoWait],
             UNCHANGED <<custodyVars, sub, offer, offered, offerLimit, notices>>
      PROVE  IInv'
  <2>1. /\ \A v \in Waits : waiting'[v] = waiting[v] \/ waiting'[v] = NoWait
        /\ waiting' \in [Waits -> [job : Jobs, after : Nat] \cup {NoWait}]
    BY <1>1, <1>3
  <2>2. CustodyInv' /\ events' = events
    BY <1>3, CustodyKept DEF IInv, custodyVars
  <2> QED BY <1>1, <1>3, <2>1, <2>2, PlainStep
<1>4. ASSUME NEW a \in Attempts, WaitTimesOut(w, a)
      PROVE  IInv'
  <2>1. CASE Serve(w, a)
    BY <1>4, <2>1, ServeStep DEF WaitTimesOut
  <2>2. CASE waiting' = [waiting EXCEPT ![w] = NoWait] /\ UNCHANGED <<offer, offered>>
    BY <1>3, <1>4, <2>2 DEF WaitTimesOut
  <2> QED BY <1>4, <2>1, <2>2 DEF WaitTimesOut
<1>5. ASSUME NEW n \in notices, NEW a \in Attempts, NoticeServes(n[1], n[2], w, a)
      PROVE  IInv'
  BY <1>5, ServeStep DEF NoticeServes, Notified
<1>6. CASE Disconnect(w)
  BY <1>3, <1>6 DEF Disconnect
<1> QED BY <1>2, <1>4, <1>5, <1>6 DEF WaitStep

\* A notification is spent when it concerns no poll that waits for an event.
LEMMA NoticeSpentStep ==
    ASSUME IInv, NEW m \in notices, NoticeSpent(m[1], m[2])
    PROVE  IInv'
<1>1. /\ notices \subseteq Jobs \X Nat /\ m = <<m[1], m[2]>>
      /\ waiting \in [Waits -> [job : Jobs, after : Nat] \cup {NoWait}]
  BY DEF IInv, DeliveryInv, DeliveryTyped
<1>2. /\ Notified(m[1], m[2]) = {} /\ notices' = notices \ {m}
      /\ UNCHANGED <<custodyVars, sub, offer, offered, offerLimit, waiting>>
  BY <1>1 DEF NoticeSpent
<1>3. CustodyInv' /\ events' = events /\ Grown
  BY <1>2, CustodyKept, SameLedgers DEF IInv, CustodyInv, custodyVars
<1>4. NoMissedEvent'
  <2> SUFFICES ASSUME NEW w \in Waits, Awaits(w)'
               PROVE  Due(w)'
    BY DEF NoMissedEvent, Awaits, Due
  <2>1. Awaits(w) /\ Due(w)
    BY <1>2, <1>3 DEF IInv, DeliveryInv, NoMissedEvent, Awaits, Due, Qualifies, SafeAfter
  <2>2. PICK n \in notices : n[1] = waiting[w].job /\ n[2] > waiting[w].after
    BY <2>1 DEF Due
  <2>3. n # m
    BY <1>2, <2>1, <2>2 DEF Notified, Awaits
  <2> QED BY <1>2, <2>2, <2>3 DEF Due
<1>5. DeliveryInv'
  BY <1>1, <1>2, <1>3, <1>4, DeliveryFrame DEF IInv, DeliveryInv, DeliveryTyped
<1> QED BY <1>3, <1>5 DEF IInv

-----------------------------------------------------------------------------
(* Offers that end *)

\* Offers that keep their job and interval, and are not acknowledged now.
LEMMA OffersStep ==
    ASSUME IInv, CustodyInv', UNCHANGED <<events, sub, offerLimit, waiting, notices>>,
           offer' \in [Attempts -> Offer \cup {NoOffer}],
           \A a \in Attempts :
             /\ offer'[a] = NoOffer <=> offer[a] = NoOffer
             /\ offer[a] # NoOffer =>
                  /\ offer'[a].job = offer[a].job
                  /\ offer'[a].first = offer[a].first
                  /\ offer'[a].last = offer[a].last
                  /\ offer'[a].state = "ACKNOWLEDGED" <=> offer[a].state = "ACKNOWLEDGED",
           offered' = Cardinality(Outstanding')
    PROVE  IInv'
<1>1. DeliveryTyped /\ CustodyTypeOK
  BY DEF IInv, CustodyInv, DeliveryInv
<1>2. Grown
  BY <1>1, SameLedgers
<1>3. DeliveryTyped'
  <2>1. IsFiniteSet(Outstanding')
    BY DeliveryAssumption, FS_Subset DEF Outstanding
  <2>2. offered' \in Nat
    BY <2>1, FS_CardinalityType
  <2> QED BY <1>1, <2>2 DEF DeliveryTyped
<1>4. \A i \in Jobs : SubOrdered(i)'
  BY <1>1, <1>2, SubFrame DEF IInv, DeliveryInv
<1>5. \A i \in Jobs : Covered(i)'
  <2> SUFFICES ASSUME NEW i \in Jobs PROVE Covered(i)'
    OBVIOUS
  <2>1. AckedOf(i)' = AckedOf(i)
    BY DEF AckedOf
  <2>2. \A b \in AckedOf(i) : offer'[b].first = offer[b].first /\ offer'[b].last = offer[b].last
    BY DEF AckedOf
  <2>3. Covered(i)
    BY DEF IInv, DeliveryInv
  <2> QED BY <2>1, <2>2, <2>3, CoveredFrame
<1>6. \A a \in Attempts : OfferInLedger(a)'
  BY <1>1, <1>2, OfferFrame DEF IInv, DeliveryInv
<1>7. NoMissedEvent'
  BY MissedFrame DEF IInv, DeliveryInv
<1> QED BY <1>3, <1>4, <1>5, <1>6, <1>7 DEF IInv, DeliveryInv

LEMMA OfferElapsesStep ==
    ASSUME IInv, NEW a \in Attempts, OfferElapses(a)
    PROVE  IInv'
<1> DEFINE new == [offer[a] EXCEPT !.late = TRUE]
<1>1. /\ offer[a] # NoOffer /\ offer' = [offer EXCEPT ![a] = new]
      /\ UNCHANGED <<custodyVars, sub, offered, offerLimit, waiting, notices>>
  BY DEF OfferElapses, IInv, DeliveryInv, DeliveryTyped
<1>2. offer \in [Attempts -> Offer \cup {NoOffer}] /\ offer[a] \in Offer
  BY <1>1 DEF IInv, DeliveryInv, DeliveryTyped
<1>3. /\ new \in Offer /\ new.state = offer[a].state /\ new.job = offer[a].job
      /\ new.first = offer[a].first /\ new.last = offer[a].last
  BY <1>2 DEF Offer
<1>4. new # NoOffer
  BY <1>3, DeliveryAssumption
<1> HIDE DEF new
<1>5. /\ offer'[a] = new /\ \A b \in Attempts \ {a} : offer'[b] = offer[b]
      /\ offer' \in [Attempts -> Offer \cup {NoOffer}]
  BY <1>1, <1>2, <1>3
<1>6. Outstanding' = Outstanding
  BY <1>1, <1>3, <1>4, <1>5 DEF Outstanding
<1>7. offered' = Cardinality(Outstanding')
  BY <1>1, <1>6 DEF IInv, DeliveryInv
<1>8. CustodyInv' /\ events' = events
  BY <1>1, CustodyKept DEF IInv, custodyVars
<1> QED BY <1>1, <1>3, <1>4, <1>5, <1>7, <1>8, OffersStep

\* The acknowledged interval starts right after the last one, so it meets no
\* other and leaves no gap.
LEMMA AcknowledgeStep ==
    ASSUME IInv, NEW a \in Attempts, NEW j \in Jobs, offer[a].job = j, Acknowledge(a)
    PROVE  IInv'
<1> DEFINE new == [offer[a] EXCEPT !.state = "ACKNOWLEDGED"]
<1>1. DeliveryTyped /\ CustodyTypeOK /\ CustodyInv /\ NoMissedEvent
  BY DEF IInv, CustodyInv, DeliveryInv
<1>2. /\ offer[a] # NoOffer /\ offer[a].state = "OFFERED"
      /\ sub[j].acked + 1 = offer[a].first
      /\ offer' = [offer EXCEPT ![a].state = "ACKNOWLEDGED"]
      /\ events' = [events EXCEPT ![j] = Append(@, "delivery_offer_acknowledged")]
      /\ sub' = [sub EXCEPT ![j].acked = offer[a].last,
                            ![j].cursor = IF @ = sub[j].acked
                                          THEN offer[a].last ELSE @]
      /\ Posted(j) /\ offered' = offered - 1
      /\ UNCHANGED <<daemon, generation, jobLimit, binding, state, boundary,
                     handed, leases, openJobs, offerLimit, waiting>>
  BY DEF Acknowledge
<1>3. /\ offer[a] \in Offer
      /\ offer[a].first \in Nat /\ offer[a].last \in Nat
  BY <1>1, <1>2, OfferTyped
<1>4. OfferInLedger(a) /\ SubOrdered(j) /\ Covered(j)
  BY <1>3 DEF IInv, DeliveryInv
<1>5. /\ sub[j] # NoSub /\ sub[j] \in Subscription
      /\ sub[j].start \in Nat /\ sub[j].acked \in Nat
      /\ sub[j].cursor = sub[j].acked /\ sub[j].start <= sub[j].acked
      /\ sub[j].start < offer[a].first /\ offer[a].first <= offer[a].last
      /\ offer[a].last <= Len(events[j])
  BY <1>1, <1>2, <1>3, <1>4, SubTyped DEF OfferInLedger, SubOrdered
<1>6. offer' = [offer EXCEPT ![a] = new]
  BY <1>2
<1>7. /\ new \in Offer /\ new.state = "ACKNOWLEDGED" /\ new.job = j
      /\ new.first = offer[a].first /\ new.last = offer[a].last
  BY <1>3 DEF Offer, OfferStates
<1>8. new # NoOffer
  BY <1>7, DeliveryAssumption
<1> HIDE DEF new
<1>9. /\ offer'[a] = new /\ \A b \in Attempts \ {a} : offer'[b] = offer[b]
      /\ offer' \in [Attempts -> Offer \cup {NoOffer}]
  BY <1>1, <1>6, <1>7 DEF DeliveryTyped
<1>10. /\ sub'[j] \in Subscription /\ sub'[j].start = sub[j].start
       /\ sub'[j].acked = offer[a].last /\ sub'[j].cursor = offer[a].last
       /\ \A i \in Jobs \ {j} : sub'[i] = sub[i]
       /\ sub' \in [Jobs -> Subscription \cup {NoSub}]
  <2>1. sub' = [sub EXCEPT ![j] = [sub[j] EXCEPT !.acked = offer[a].last,
                                                 !.cursor = offer[a].last]]
    BY <1>1, <1>2, <1>3, <1>5 DEF DeliveryTyped
  <2>2. [sub[j] EXCEPT !.acked = offer[a].last, !.cursor = offer[a].last] \in Subscription
    BY <1>3, <1>5 DEF Subscription
  <2> QED BY <1>1, <1>3, <1>5, <2>1, <2>2 DEF DeliveryTyped, Subscription
<1>11. sub'[j] # NoSub
  BY <1>10, DeliveryAssumption
<1>12. "delivery_offer_acknowledged" \in EventTypes
  BY DEF EventTypes
<1>13. CustodyInv'
  BY <1>1, <1>2, <1>3, AcknowledgmentInv
<1>14. NoMissedEvent' /\ Grown /\ notices' \subseteq Jobs \X Nat
  BY <1>1, <1>2, <1>3, <1>10, <1>12, MissedAppend
<1>15. Outstanding' = Outstanding \ {a} /\ a \in Outstanding
  BY <1>2, <1>7, <1>9 DEF Outstanding
<1>16. offered' = Cardinality(Outstanding') /\ offered' \in Nat
  <2>1. offered = Cardinality(Outstanding)
    BY DEF IInv, DeliveryInv
  <2>2. Cardinality(Outstanding') = Cardinality(Outstanding) - 1
    BY <1>15, OutstandingFinite, FS_RemoveElement
  <2>3. Cardinality(Outstanding') \in Nat
    BY <1>15, OutstandingFinite, FS_RemoveElement, FS_CardinalityType
  <2> QED BY <1>2, <2>1, <2>2, <2>3
<1>17. DeliveryTyped'
  BY <1>1, <1>2, <1>9, <1>10, <1>14, <1>16 DEF DeliveryTyped
<1>18. AckedOf(j)' = AckedOf(j) \cup {a} /\ a \notin AckedOf(j)
  BY <1>2, <1>7, <1>8, <1>9 DEF AckedOf
<1>19. \A b \in AckedOf(j) :
         /\ b \in Attempts \ {a} /\ offer'[b] = offer[b]
         /\ offer[b].last \in Nat /\ offer[b].last <= sub[j].acked
  <2> SUFFICES ASSUME NEW b \in AckedOf(j)
               PROVE  /\ b \in Attempts \ {a} /\ offer'[b] = offer[b]
                      /\ offer[b].last \in Nat /\ offer[b].last <= sub[j].acked
    OBVIOUS
  <2>1. /\ b \in Attempts \ {a} /\ offer[b] # NoOffer
        /\ offer[b].state = "ACKNOWLEDGED" /\ offer[b].job = j
    BY <1>18 DEF AckedOf
  <2>2. OfferInLedger(b)
    BY <2>1 DEF IInv, DeliveryInv
  <2> QED BY <1>1, <1>9, <2>1, <2>2, OfferTyped DEF OfferInLedger
<1>20. Covered(j)'
  <2>1. ASSUME NEW n \in sub[j].start + 1 .. offer[a].last
        PROVE  \E b \in AckedOf(j)' : Covers(b, n)'
    <3>1. CASE n <= sub[j].acked
      <4>1. PICK b \in AckedOf(j) : Covers(b, n)
        BY <1>4, <1>5, <2>1, <3>1 DEF Covered
      <4> QED BY <1>18, <1>19, <4>1 DEF Covers
    <3>2. CASE n > sub[j].acked
      <4>1. Covers(a, n)'
        BY <1>2, <1>3, <1>5, <1>7, <1>9, <2>1, <3>2 DEF Covers
      <4> QED BY <1>18, <4>1
    <3> QED BY <1>3, <1>5, <2>1, <3>1, <3>2
  <2>2. ASSUME NEW b \in AckedOf(j)', NEW c \in AckedOf(j)', b # c
        PROVE  offer'[b].last < offer'[c].first \/ offer'[c].last < offer'[b].first
    <3>1. CASE b # a /\ c # a
      BY <1>4, <1>5, <1>18, <1>19, <2>2, <3>1 DEF Covered
    <3>2. sub[j].acked + 1 = offer'[a].first
      BY <1>2, <1>7, <1>9
    <3>3. ASSUME NEW d \in AckedOf(j)
          PROVE  offer'[d].last < offer'[a].first
      BY <1>5, <1>19, <3>2
    <3>4. CASE b = a
      BY <1>18, <2>2, <3>3, <3>4
    <3>5. CASE c = a
      BY <1>18, <2>2, <3>3, <3>5
    <3> QED BY <3>1, <3>4, <3>5
  <2> QED BY <1>10, <2>1, <2>2 DEF Covered
<1>21. SubOrdered(j)'
  BY <1>3, <1>5, <1>10, <1>14 DEF SubOrdered, Grown
<1>22. \A i \in Jobs \ {j} : SubOrdered(i)' /\ Covered(i)'
  <2> SUFFICES ASSUME NEW i \in Jobs \ {j} PROVE SubOrdered(i)' /\ Covered(i)'
    OBVIOUS
  <2>1. AckedOf(i)' = AckedOf(i) /\ a \notin AckedOf(i)
    BY <1>7, <1>9 DEF AckedOf
  <2>2. \A b \in AckedOf(i) : offer'[b] = offer[b]
    BY <1>9, <2>1 DEF AckedOf
  <2> QED BY <1>1, <1>10, <1>14, <2>1, <2>2, SubFrame, CoveredFrame DEF IInv, DeliveryInv
<1>23. \A b \in Attempts : OfferInLedger(b)'
  <2> SUFFICES ASSUME NEW b \in Attempts, offer'[b] # NoOffer PROVE OfferInLedger(b)'
    BY DEF OfferInLedger
  <2>1. CASE b = a
    BY <1>3, <1>5, <1>7, <1>9, <1>10, <1>11, <1>14, <2>1 DEF OfferInLedger, Grown
  <2>2. CASE b # a
    <3>1. /\ offer'[b] = offer[b] /\ OfferInLedger(b) /\ offer[b] # NoOffer
          /\ offer[b].job \in Jobs /\ offer[b].last \in Nat
      BY <1>1, <1>9, <2>2, OfferTyped DEF IInv, DeliveryInv
    <3>2. CASE offer[b].job = j
      <4>1. offer[b].state = "ACKNOWLEDGED" => offer[b].last <= offer[a].last
        BY <1>3, <1>5, <1>2, <3>1, <3>2 DEF OfferInLedger
      <4> QED BY <1>3, <1>10, <1>11, <1>14, <3>1, <3>2, <4>1 DEF OfferInLedger, Grown
    <3>3. CASE offer[b].job # j
      BY <1>10, <1>14, <3>1, <3>3 DEF OfferInLedger, Grown
    <3> QED BY <3>2, <3>3
  <2> QED BY <2>1, <2>2
<1>24. \A w \in Waits : waiting'[w] # NoWait => sub'[waiting'[w].job] # NoSub
  BY <1>1, <1>2, <1>10, <1>11 DEF IInv, DeliveryInv, DeliveryTyped
<1> QED BY <1>3, <1>13, <1>14, <1>16, <1>17, <1>20, <1>21, <1>22, <1>23, <1>24
        DEF IInv, DeliveryInv

LEMMA AcknowledgeSteps ==
    ASSUME IInv, NEW a \in Attempts, Acknowledge(a)
    PROVE  IInv'
<1>1. offer[a] # NoOffer
  BY DEF Acknowledge
<1>2. PICK j \in Jobs : offer[a].job = j
  BY <1>1, OfferTyped DEF IInv, DeliveryInv
<1> QED BY <1>2, AcknowledgeStep

-----------------------------------------------------------------------------
(* Starts and stops *)

LEMMA RecoverInv ==
    ASSUME IInv, Recover
    PROVE  IInv'
<1> DEFINE ended(a) == [offer[a] EXCEPT !.state = "EXPIRED_UNACKNOWLEDGED"]
<1>1. /\ RecoverCustody
      /\ offer' = [a \in Attempts |-> IF a \in Foreign THEN ended(a) ELSE offer[a]]
      /\ offered' = offered - Cardinality(Foreign)
      /\ UNCHANGED <<sub, offerLimit, waiting, notices>>
  BY DEF Recover
<1>2. CustodyInv'
  BY <1>1, RecoverStep DEF IInv
<1>3. events' = events
  BY <1>1 DEF RecoverCustody
<1>4. offer \in [Attempts -> Offer \cup {NoOffer}]
  BY DEF IInv, DeliveryInv, DeliveryTyped
<1>5. \A a \in Foreign : /\ a \in Outstanding /\ offer[a] # NoOffer
                         /\ offer[a].state = "OFFERED"
  BY DEF Foreign, Outstanding
<1>6. ASSUME NEW a \in Foreign
      PROVE  /\ ended(a) \in Offer /\ ended(a) # NoOffer
             /\ ended(a).state = "EXPIRED_UNACKNOWLEDGED"
             /\ ended(a).job = offer[a].job /\ ended(a).first = offer[a].first
             /\ ended(a).last = offer[a].last
  <2>1. offer[a] \in Offer
    BY <1>4, <1>5 DEF Outstanding
  <2>2. ended(a) \in Offer
    BY <2>1 DEF Offer, OfferStates
  <2>3. ended(a) # NoOffer
    BY <2>2, DeliveryAssumption
  <2> QED BY <2>1, <2>2, <2>3 DEF Offer
<1> HIDE DEF ended
<1>7. \A a \in Attempts : offer'[a] = IF a \in Foreign THEN ended(a) ELSE offer[a]
  BY <1>1
<1>8. offer' \in [Attempts -> Offer \cup {NoOffer}]
  BY <1>1, <1>4, <1>6
<1>9. \A a \in Attempts :
        /\ offer'[a] = NoOffer <=> offer[a] = NoOffer
        /\ offer[a] # NoOffer =>
             /\ offer'[a].job = offer[a].job
             /\ offer'[a].first = offer[a].first
             /\ offer'[a].last = offer[a].last
             /\ offer'[a].state = "ACKNOWLEDGED" <=> offer[a].state = "ACKNOWLEDGED"
  BY <1>5, <1>6, <1>7
<1>10. offered' = Cardinality(Outstanding')
  <2>1. Outstanding' = Outstanding \ Foreign
    BY <1>5, <1>6, <1>7 DEF Outstanding
  <2>2. Outstanding \cap Foreign = Foreign
    BY <1>5
  <2>3. Cardinality(Outstanding \ Foreign) = Cardinality(Outstanding) - Cardinality(Foreign)
    BY <2>2, OutstandingFinite, FS_Difference
  <2> QED BY <1>1, <2>1, <2>3 DEF IInv, DeliveryInv
<1> QED BY <1>1, <1>2, <1>3, <1>8, <1>9, <1>10, OffersStep

LEMMA ProcessSteps ==
    ASSUME IInv, OpenStore \/ RecoveryBlocked \/ StopDaemon
    PROVE  IInv'
<1>1. /\ waiting \in [Waits -> [job : Jobs, after : Nat] \cup {NoWait}]
      /\ offerLimit \in OfferLimits \cup {0}
  BY DEF IInv, DeliveryInv, DeliveryTyped
<1>2. CustodyInv'
  BY DaemonStep DEF OpenStore, RecoveryBlocked, StopDaemon, IInv
<1>3. events' = events
  BY DEF OpenStore, RecoveryBlocked, StopDaemon, Open, BlockCustody, Stop
<1>4. CASE OpenStore \/ RecoveryBlocked
  <2>1. /\ UNCHANGED <<sub, offer, offered, waiting, notices>>
        /\ offerLimit' \in OfferLimits \cup {0}
    BY <1>1, <1>4 DEF OpenStore, RecoveryBlocked, deliveryVars
  <2> QED BY <1>1, <1>2, <1>3, <2>1, PlainStep
<1>5. CASE StopDaemon
  <2>1. /\ UNCHANGED <<sub, offer, offered, offerLimit>> /\ notices' = {}
        /\ waiting' = [w \in Waits |-> NoWait]
    BY <1>5 DEF StopDaemon
  <2>2. /\ NoMissedEvent'
        /\ \A w \in Waits : waiting'[w] \in {waiting[w], NoWait}
        /\ waiting' \in [Waits -> [job : Jobs, after : Nat] \cup {NoWait}]
    BY <2>1 DEF NoMissedEvent
  <2>3. Grown
    BY <1>3, SameLedgers DEF IInv, CustodyInv
  <2>4. DeliveryInv'
    BY <1>1, <2>1, <2>2, <2>3, DeliveryFrame DEF IInv
  <2> QED BY <1>2, <2>4 DEF IInv
<1> QED BY <1>4, <1>5

LEMMA InitInv == Init => IInv
<1> SUFFICES ASSUME Init PROVE IInv
  OBVIOUS
<1> USE DEF Init, CustodyInit
<1>1. Admitted = {} /\ Uncancelled = {} /\ Outstanding = {}
  BY DEF Admitted, Uncancelled, Outstanding
<1>2. CustodyTypeOK
  BY DEF CustodyTypeOK, JobStates, Boundaries
<1>3. \A j \in Jobs : LeasesOrdered(leases[j]) /\ Recorded(j)
  BY DEF LeasesOrdered, Recorded, Has
<1>4. CustodyInv
  BY <1>1, <1>2, <1>3, FS_EmptySet DEF CustodyInv
<1>5. DeliveryTyped
  BY DEF DeliveryTyped
<1>6. \A j \in Jobs : SubOrdered(j) /\ Covered(j)
  BY DEF SubOrdered, Covered
<1>7. \A a \in Attempts : OfferInLedger(a)
  BY DEF OfferInLedger
<1>8. NoMissedEvent
  BY DEF NoMissedEvent
<1> QED BY <1>1, <1>4, <1>5, <1>6, <1>7, <1>8, FS_EmptySet DEF IInv, DeliveryInv

LEMMA NextInv == IInv /\ [Next]_vars => IInv'
<1> SUFFICES ASSUME IInv, [Next]_vars PROVE IInv'
  OBVIOUS
<1>1. ASSUME NEW j \in Jobs, JobStep(j) PROVE IInv'
  <2>1. CASE (\E k \in Keys : SubmitCall(k, j)) \/ CancelCall(j) \/ HandOffCall(j)
    BY <2>1, CustodyCalls
  <2>2. CASE LeaseCall(j) \/ AmbiguousCall(j)
    BY <2>2, LeaseCalls
  <2>3. ASSUME NEW start \in Cursors, Subscribe(j, start) PROVE IInv'
    BY <2>3, SubscribeStep
  <2>4. ASSUME NEW a \in Attempts, OfferNow(j, a) PROVE IInv'
    BY <2>4, OfferNowStep
  <2> QED BY <1>1, <2>1, <2>2, <2>3, <2>4 DEF JobStep
<1>2. ASSUME NEW w \in Waits, WaitStep(w) PROVE IInv'
  BY <1>2, WaitSteps
<1>3. ASSUME NEW n \in notices, NoticeSpent(n[1], n[2]) PROVE IInv'
  BY <1>3, NoticeSpentStep
<1>4. ASSUME NEW a \in Attempts, OfferElapses(a) \/ Acknowledge(a) PROVE IInv'
  BY <1>4, OfferElapsesStep, AcknowledgeSteps
<1>5. CASE OpenStore \/ RecoveryBlocked \/ StopDaemon
  BY <1>5, ProcessSteps
<1>6. CASE Recover
  BY <1>6, RecoverInv
<1>7. CASE UNCHANGED vars
  <2>1. UNCHANGED custodyVars /\ UNCHANGED deliveryVars /\ events' = events
    BY <1>7 DEF vars, custodyVars
  <2>2. /\ offerLimit \in OfferLimits \cup {0}
        /\ waiting \in [Waits -> [job : Jobs, after : Nat] \cup {NoWait}]
    BY DEF IInv, DeliveryInv, DeliveryTyped
  <2> QED BY <2>1, <2>2, CustodyKept, PlainStep DEF IInv, deliveryVars
<1> QED BY <1>1, <1>2, <1>3, <1>4, <1>5, <1>6, <1>7 DEF Next

LEMMA Invariance == Spec => []IInv
BY InitInv, NextInv, PTL DEF Spec

-----------------------------------------------------------------------------
(* Theorems *)

\* Every reachable state of the daemon's records and polls is well typed
\* (store.js, daemon.js).
THEOREM TypeCorrect == Spec => []TypeOK
<1>1. IInv => TypeOK
  BY DEF IInv, CustodyInv, DeliveryInv, DeliveryTyped, TypeOK
<1> QED BY <1>1, Invariance, PTL

\* Whatever calls, expiries and crashes came before, recovery finds records
\* that reconcile, but for the three histories RecoverySound names
\* (recovery.js reconcileJobs, reconcileDelivery, reconcileCapacity).
THEOREM RecoveryReconciles == Spec => []RecoverySound
<1>1. IInv => RecoverySound
  <2> SUFFICES ASSUME IInv,
                      \A j \in Jobs : /\ ~CancelledThenHandedOff(j)
                                      /\ ~AmbiguousAfterHandoff(j)
                                      /\ ~StartedBeyond(j)
               PROVE  /\ Reconciles
                      /\ CountersAllow(openJobs, offered) => ClassificationFits
    BY DEF RecoverySound
  <2>1. \A j \in Jobs : Recorded(j) /\ SubOrdered(j) /\ state[j] \in JobStates
    BY DEF IInv, CustodyInv, DeliveryInv, CustodyTypeOK
  <2>2. JobsReconcile
    <3>1. ASSUME NEW j \in Admitted
          PROVE  /\ boundary[j] # "none"
                 /\ boundary[j] = "HANDOFF_COMMITTED" <=> state[j] = "HANDOFF_COMMITTED"
      BY <2>1 DEF Admitted, Recorded, AmbiguousAfterHandoff
    <3> QED BY <3>1 DEF JobsReconcile, IInv, CustodyInv
  <2>3. JobCapacityReconciles
    <3>1. ASSUME NEW j \in Jobs
          PROVE  j \in Counted <=> j \in Uncancelled
      BY <2>1 DEF Counted, Uncancelled, Admitted, Recorded, CancelledThenHandedOff, JobStates
    <3>2. Counted = Uncancelled
      BY <3>1 DEF Counted, Uncancelled, Admitted
    <3> QED BY <3>2 DEF JobCapacityReconciles, IInv, CustodyInv
  <2>4. DeliveryReconciles
    <3> SUFFICES ASSUME NEW j \in Jobs, sub[j] # NoSub
                 PROVE  sub[j].start <= sub[j].acked /\ sub[j].acked <= Len(events[j])
      BY DEF DeliveryReconciles
    <3>1. Len(events[j]) \in Nat
      BY LenProperties DEF IInv, CustodyInv, CustodyTypeOK
    <3>2. sub[j].start \in Nat
      BY SubTyped DEF IInv, DeliveryInv
    <3> QED BY <2>1, <3>1, <3>2 DEF SubOrdered, StartedBeyond
  <2>5. OfferCapacityReconciles
    BY DEF OfferCapacityReconciles, IInv, DeliveryInv
  <2>6. CountersAllow(openJobs, offered) => ClassificationFits
    <3>1. offered \in Nat /\ offerLimit \in Nat
      BY DeliveryAssumption DEF IInv, DeliveryInv, DeliveryTyped
    <3> QED BY <3>1 DEF CountersAllow, ClassificationFits
  <2> QED BY <2>2, <2>3, <2>4, <2>5, <2>6 DEF Reconciles
<1> QED BY <1>1, Invariance, PTL

\* The acknowledged intervals tile what lies between the start of a
\* subscription and its cursor (delivery.js offer, acknowledge).
THEOREM DeliveryIsExact == Spec => []DeliveredOnce
<1>1. IInv => DeliveredOnce
  <2> SUFFICES ASSUME IInv, NEW j \in Jobs, sub[j] # NoSub
               PROVE  /\ sub[j].cursor = sub[j].acked
                      /\ \A n \in sub[j].start + 1 .. sub[j].acked :
                           \E a \in AckedOf(j) : Covers(a, n)
                      /\ \A a \in AckedOf(j) :
                           /\ sub[j].start < offer[a].first
                           /\ offer[a].last <= sub[j].acked
                           /\ \A b \in AckedOf(j) \ {a} :
                                offer[a].last < offer[b].first \/ offer[b].last < offer[a].first
    BY DEF DeliveredOnce
  <2>1. SubOrdered(j) /\ Covered(j)
    BY DEF IInv, DeliveryInv
  <2>2. \A a \in AckedOf(j) : sub[j].start < offer[a].first /\ offer[a].last <= sub[j].acked
    BY DEF AckedOf, IInv, DeliveryInv, OfferInLedger
  <2> QED BY <2>1, <2>2 DEF SubOrdered, Covered
<1> QED BY <1>1, Invariance, PTL

\* A poll that waits although its event is in the ledger has a notification
\* queued that will serve it (daemon.js wait, notifyWaiters).
THEOREM NoEventIsMissed == Spec => []NoMissedEvent
<1>1. IInv => NoMissedEvent
  BY DEF IInv, DeliveryInv
<1> QED BY <1>1, Invariance, PTL

\* A hand-off is unique, of the running generation and under the newest token,
\* and tokens are never reissued (leases.js, dispatch.js handoff).
THEOREM LeasesFence == Spec => Fencing
<1>1. ASSUME IInv, [Next]_vars, custodyVars' # custodyVars
      PROVE  \A j \in Jobs : Fresh(leases[j], leases'[j])
  <2>1. CustodyInv
    BY <1>1 DEF IInv
  <2>2. CASE leases' = leases
    BY <2>2, FreshItself
  <2>3. ASSUME NEW j \in Jobs, LeaseCall(j)
        PROVE  \A n \in Jobs : Fresh(leases[n], leases'[n])
    BY <2>1, <2>3, LeaseSteps DEF LeaseCall
  <2>4. CASE Recover
    BY <2>1, <2>4, RecoverStep DEF Recover
  <2>5. CASE leases' # leases
    <3>1. (\E j \in Jobs : LeaseCall(j)) \/ Recover
      <4>1. ASSUME NEW j \in Jobs, JobStep(j) PROVE leases' = leases \/ LeaseCall(j)
        BY <4>1 DEF JobStep, SubmitCall, Submit, CancelCall, Cancel, HandOffCall, HandOff,
                    AmbiguousCall, MarkAmbiguous, Subscribe, OfferNow, custodyVars
      <4>2. ASSUME NEW w \in Waits, WaitStep(w) PROVE leases' = leases
        BY <4>2 DEF WaitStep, Wait, WaitTimesOut, NoticeServes, Disconnect, custodyVars
      <4>3. ASSUME NEW n \in notices, NoticeSpent(n[1], n[2]) PROVE leases' = leases
        BY <4>3 DEF NoticeSpent, custodyVars
      <4>4. ASSUME NEW a \in Attempts, OfferElapses(a) \/ Acknowledge(a)
            PROVE  leases' = leases
        BY <4>4 DEF OfferElapses, Acknowledge, custodyVars
      <4>5. ASSUME OpenStore \/ RecoveryBlocked \/ StopDaemon PROVE leases' = leases
        BY <4>5 DEF OpenStore, RecoveryBlocked, StopDaemon, Open, BlockCustody, Stop
      <4>6. ASSUME UNCHANGED vars PROVE leases' = leases
        BY <4>6 DEF vars, custodyVars
      <4> QED BY <1>1, <2>5, <4>1, <4>2, <4>3, <4>4, <4>5, <4>6 DEF Next
    <3> QED BY <2>3, <2>4, <3>1
  <2> QED BY <2>2, <2>5
<1>2. ASSUME IInv, [Next]_vars, NEW j \in Jobs, handed'[j] # handed[j]
      PROVE  /\ handed[j] = NoHandoff
             /\ handed'[j].generation = generation
             /\ NewestToken(j, handed'[j].token)
  <2>1. \E i \in DOMAIN leases[j], token \in 1 .. MaxFence : HandOff(j, i, token)
    <3>1. ASSUME NEW n \in Jobs, JobStep(n) PROVE handed' = handed \/ HandOffCall(n)
      BY <3>1 DEF JobStep, SubmitCall, Submit, CancelCall, Cancel, LeaseCall, LeaseStep,
                  Acquire, Renew, Release, ExpireLease, LeaseElapses,
                  AmbiguousCall, MarkAmbiguous, Subscribe, OfferNow, custodyVars
    <3>2. ASSUME NEW w \in Waits, WaitStep(w) PROVE handed' = handed
      BY <3>2 DEF WaitStep, Wait, WaitTimesOut, NoticeServes, Disconnect, custodyVars
    <3>3. ASSUME NEW n \in notices, NoticeSpent(n[1], n[2]) PROVE handed' = handed
      BY <3>3 DEF NoticeSpent, custodyVars
    <3>4. ASSUME NEW a \in Attempts, OfferElapses(a) \/ Acknowledge(a)
          PROVE  handed' = handed
      BY <3>4 DEF OfferElapses, Acknowledge, custodyVars
    <3>5. ASSUME OpenStore \/ RecoveryBlocked \/ StopDaemon \/ Recover
          PROVE  handed' = handed
      BY <3>5 DEF OpenStore, RecoveryBlocked, StopDaemon, Open, BlockCustody, Stop,
                  Recover, RecoverCustody
    <3>6. ASSUME UNCHANGED vars PROVE handed' = handed
      BY <3>6 DEF vars, custodyVars
    <3>7. handed' # handed
      BY <1>2
    <3>8. PICK n \in Jobs : HandOffCall(n)
      BY <1>2, <3>1, <3>2, <3>3, <3>4, <3>5, <3>6, <3>7 DEF Next
    <3>9. n = j
      BY <1>2, <3>8 DEF HandOffCall, HandOff, IInv, CustodyInv, CustodyTypeOK
    <3> QED BY <3>8, <3>9 DEF HandOffCall
  <2>2. PICK i \in DOMAIN leases[j], token \in 1 .. MaxFence : HandOff(j, i, token)
    BY <2>1
  <2>3. /\ boundary[j] = "NOT_DISPATCHED" /\ Holds(j, i, token)
        /\ handed'[j] = [generation |-> generation, token |-> token]
    BY <1>2, <2>2 DEF HandOff, IInv, CustodyInv, CustodyTypeOK
  <2>4. Recorded(j) /\ leases[j] \in Seq(Lease) /\ LeasesOrdered(leases[j])
    BY <1>2 DEF IInv, CustodyInv, CustodyTypeOK
  <2>5. handed[j] = NoHandoff
    BY <2>3, <2>4 DEF Recorded
  <2>6. leases[j][i].active /\ leases[j][i].token = token
    BY <2>3 DEF Holds, ActiveRows
  <2>7. NewestToken(j, token)
    BY <2>4, <2>6, HeldIsLast DEF NewestToken
  <2> QED BY <2>3, <2>5, <2>7
<1>3. IInv /\ [Next]_vars =>
        [\A j \in Jobs : HandoffIsFenced(j) /\ TokensAreFresh(j)]_custodyVars
  BY <1>1, <1>2 DEF HandoffIsFenced, TokensAreFresh, Fresh
<1> QED BY <1>3, Invariance, PTL DEF Spec, Fencing
=============================================================================
