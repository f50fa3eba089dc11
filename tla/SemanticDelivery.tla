-------------------------- MODULE SemanticDelivery --------------------------
(***************************************************************************)
(* The daemon around the custody core: subscriptions with a durable cursor *)
(* over one job's ledger, offers of the events after the cursor, their     *)
(* acknowledgment, long polls that wait for an event, and the recovery     *)
(* that also has to reconcile all of this.                                 *)
(*                                                                         *)
(* A ledger event reaches the waiting polls through a microtask queued by  *)
(* the append, so it is a step of its own here, and calls served in the    *)
(* same turn may come between.                                             *)
(***************************************************************************)
EXTENDS SemanticCustody

CONSTANTS Attempts,       \* delivery attempts (one per offer made)
          Waits,          \* long polls
          Cursors,        \* positions a client names: where a subscription
                          \* starts, what a poll has already seen
          OfferLimits,    \* outstanding-offer limits of a start
          NoSub, NoOffer, NoWait

\* current_cursor is kept in the subscription, acknowledged_sequence in its
\* delivery cursor.
Subscription == [start : Nat, cursor : Nat, acked : Nat]

OfferStates == {"OFFERED", "ACKNOWLEDGED", "EXPIRED_UNACKNOWLEDGED"}

Offer == [state : OfferStates, job : Jobs, first : Nat, last : Nat,
          generation : Nat, late : BOOLEAN]

ASSUME DeliveryAssumption ==
    /\ Cursors \subseteq Nat
    /\ OfferLimits \subseteq Nat
    /\ IsFiniteSet(Attempts)
    /\ NoSub \notin Subscription
    /\ NoOffer \notin Offer
    /\ NoWait \notin [job : Jobs, after : Nat]

VARIABLES sub,         \* the job's subscription and its delivery cursor
          offer,       \* delivery_offers, by attempt
          offered,     \* capacity_counters.outstanding_offers
          offerLimit,  \* this generation's outstanding-offer limit
          waiting,     \* this process's registered long polls
          notices      \* queued notifications: <<job, sequence>>

deliveryVars == <<sub, offer, offered, offerLimit, waiting, notices>>
vars == <<custodyVars, deliveryVars>>

TypeOK ==
    /\ CustodyTypeOK
    /\ sub \in [Jobs -> Subscription \cup {NoSub}]
    /\ offer \in [Attempts -> Offer \cup {NoOffer}]
    /\ offered \in Nat
    /\ offerLimit \in OfferLimits \cup {0}
    /\ waiting \in [Waits -> [job : Jobs, after : Nat] \cup {NoWait}]
    /\ notices \subseteq Jobs \X Nat

Init ==
    /\ CustodyInit
    /\ sub = [j \in Jobs |-> NoSub]
    /\ offer = [a \in Attempts |-> NoOffer]
    /\ offered = 0
    /\ offerLimit = 0
    /\ waiting = [w \in Waits |-> NoWait]
    /\ notices = {}

\* Acknowledgments are custody events, not new disclosure to a subscriber.
SafeEventTypes == EventTypes \ {"delivery_offer_acknowledged"}

SafeAfter(j, cursor) ==
    {n \in DOMAIN events[j] : n > cursor /\ events[j][n] \in SafeEventTypes}

\* hasEventsAfter: newer than the durable cursor and than what the poll saw.
Qualifies(j, after) == \E n \in SafeAfter(j, sub[j].cursor) : n > after

\* The capacity check of every transaction covers all counters at once.
CountersAllow(jobs, offers) == jobs <= jobLimit /\ offers <= offerLimit

Posted(j) == notices' = notices \cup {<<j, Len(events'[j])>>}

-----------------------------------------------------------------------------
(* The custody calls, as the daemon serves them *)

SubmitCall(k, j) ==
    /\ Submit(k, j)
    /\ CountersAllow(openJobs', offered)
    /\ Posted(j)
    /\ UNCHANGED <<sub, offer, offered, offerLimit, waiting>>

CancelCall(j) ==
    /\ Cancel(j)
    /\ CountersAllow(openJobs', offered)
    /\ Posted(j)
    /\ UNCHANGED <<sub, offer, offered, offerLimit, waiting>>

HandOffCall(j) ==
    /\ \E i \in DOMAIN leases[j], token \in 1 .. MaxFence :
         HandOff(j, i, token)
    /\ Posted(j)
    /\ UNCHANGED <<sub, offer, offered, offerLimit, waiting>>

LeaseCall(j)     == LeaseStep(j) /\ UNCHANGED deliveryVars
AmbiguousCall(j) == MarkAmbiguous(j) /\ UNCHANGED deliveryVars

-----------------------------------------------------------------------------
(* Subscriptions, offers and acknowledgments *)

\* The starting cursor is stored as it comes, whatever the ledger's length.
Subscribe(j, start) ==
    /\ Serving
    /\ j \in Admitted
    /\ sub[j] = NoSub
    /\ CountersAllow(openJobs, offered)
    /\ sub' = [sub EXCEPT ![j] =
                 [start |-> start, cursor |-> start, acked |-> start]]
    /\ UNCHANGED <<custodyVars, offer, offered, offerLimit, waiting, notices>>

\* offer(): a contiguous interval of the ledger, from the event after the
\* cursor to the last safe one.
MakeOffer(j, a) ==
    /\ offer[a] = NoOffer
    /\ \E last \in SafeAfter(j, sub[j].cursor) :
         /\ \A n \in SafeAfter(j, sub[j].cursor) : n <= last
         /\ offer' = [offer EXCEPT ![a] =
              [state |-> "OFFERED", job |-> j, first |-> sub[j].cursor + 1,
               last |-> last, generation |-> generation, late |-> FALSE]]

\* A poll without timeout, or one that finds a new event at once; polls with
\* nothing new to report change nothing unless they are left to wait.
OfferNow(j, a) ==
    /\ Serving
    /\ sub[j] # NoSub
    /\ MakeOffer(j, a)
    /\ CountersAllow(openJobs, offered + 1)
    /\ offered' = offered + 1
    /\ UNCHANGED <<custodyVars, sub, offerLimit, waiting, notices>>

\* Mutation: the poll is left to wait without a look at the ledger.
WaitUnseen(w, j, after) ==
    /\ Serving
    /\ sub[j] # NoSub
    /\ waiting[w] = NoWait
    /\ waiting' = [waiting EXCEPT ![w] = [job |-> j, after |-> after]]
    /\ UNCHANGED <<custodyVars, sub, offer, offered, offerLimit, notices>>

\* The poll is registered before its first look at the ledger; it stays
\* registered when that look finds nothing.
Wait(w, j, after) ==
    /\ Serving
    /\ sub[j] # NoSub
    /\ waiting[w] = NoWait
    /\ ~Qualifies(j, after)
    /\ waiting' = [waiting EXCEPT ![w] = [job |-> j, after |-> after]]
    /\ UNCHANGED <<custodyVars, sub, offer, offered, offerLimit, notices>>

\* The polls a notification concerns: of its job, with an older position,
\* and with an event to deliver.
Notified(j, sequence) ==
    {w \in Waits : /\ waiting[w] # NoWait
                   /\ waiting[w].job = j
                   /\ sequence > waiting[w].after
                   /\ Qualifies(j, waiting[w].after)}

\* Serve one poll: it gets an offer, or the refusal of the counter.
Serve(w, a) ==
    /\ waiting' = [waiting EXCEPT ![w] = NoWait]
    /\ \/ /\ MakeOffer(waiting[w].job, a)
          /\ CountersAllow(openJobs, offered + 1)
          /\ offered' = offered + 1
       \/ /\ ~CountersAllow(openJobs, offered + 1)
          /\ UNCHANGED <<offer, offered>>

\* notifyWaiters: one notification serves every poll it concerns, and is
\* spent when there is none left.
NoticeServes(j, sequence, w, a) ==
    /\ <<j, sequence>> \in notices
    /\ w \in Notified(j, sequence)
    /\ Serve(w, a)
    /\ UNCHANGED <<custodyVars, sub, offerLimit, notices>>

NoticeSpent(j, sequence) ==
    /\ <<j, sequence>> \in notices
    /\ Notified(j, sequence) = {}
    /\ notices' = notices \ {<<j, sequence>>}
    /\ UNCHANGED <<custodyVars, sub, offer, offered, offerLimit, waiting>>

\* The deadline of a poll: one last look, then "no new events".
WaitTimesOut(w, a) ==
    /\ waiting[w] # NoWait
    /\ \/ /\ Qualifies(waiting[w].job, waiting[w].after)
          /\ Serve(w, a)
       \/ /\ ~Qualifies(waiting[w].job, waiting[w].after)
          /\ waiting' = [waiting EXCEPT ![w] = NoWait]
          /\ UNCHANGED <<offer, offered>>
    /\ UNCHANGED <<custodyVars, sub, offerLimit, notices>>

Disconnect(w) ==
    /\ waiting[w] # NoWait
    /\ waiting' = [waiting EXCEPT ![w] = NoWait]
    /\ UNCHANGED <<custodyVars, sub, offer, offered, offerLimit, notices>>

OfferElapses(a) ==
    /\ offer[a] # NoOffer
    /\ offer[a].state = "OFFERED"
    /\ ~offer[a].late
    /\ offer' = [offer EXCEPT ![a].late = TRUE]
    /\ UNCHANGED <<custodyVars, sub, offered, offerLimit, waiting, notices>>

\* Mutation: an offer is taken wherever it starts.
AcknowledgeAnywhere(a) ==
    /\ Serving
    /\ offer[a] # NoOffer
    /\ LET j == offer[a].job
       IN /\ offer[a].state = "OFFERED"
          /\ ~offer[a].late
          /\ CountersAllow(openJobs, offered - 1)
          /\ offer' = [offer EXCEPT ![a].state = "ACKNOWLEDGED"]
          /\ events' = [events EXCEPT ![j] =
                          Append(@, "delivery_offer_acknowledged")]
          /\ sub' = [sub EXCEPT ![j].acked = offer[a].last,
                                ![j].cursor = offer[a].last]
          /\ Posted(j)
    /\ offered' = offered - 1
    /\ UNCHANGED <<daemon, generation, jobLimit, binding, state, boundary,
                   handed, leases, openJobs, offerLimit, waiting>>

\* Only the offer that starts right after the durable cursor is taken; the
\* acknowledgment is itself an event of the job.
Acknowledge(a) ==
    /\ Serving
    /\ offer[a] # NoOffer
    /\ LET j == offer[a].job
       IN /\ offer[a].state = "OFFERED"
          /\ ~offer[a].late
          /\ sub[j].acked + 1 = offer[a].first
          /\ CountersAllow(openJobs, offered - 1)
          /\ offer' = [offer EXCEPT ![a].state = "ACKNOWLEDGED"]
          /\ events' = [events EXCEPT ![j] =
                          Append(@, "delivery_offer_acknowledged")]
          /\ sub' = [sub EXCEPT ![j].acked = offer[a].last,
                                ![j].cursor = IF @ = sub[j].acked
                                              THEN offer[a].last ELSE @]
          /\ Posted(j)
    /\ offered' = offered - 1
    /\ UNCHANGED <<daemon, generation, jobLimit, binding, state, boundary,
                   handed, leases, openJobs, offerLimit, waiting>>

-----------------------------------------------------------------------------
(* Starts and recovery *)

OpenStore ==
    /\ Open
    /\ offerLimit' \in OfferLimits
    /\ UNCHANGED <<sub, offer, offered, waiting, notices>>

Outstanding == {a \in Attempts : offer[a] # NoOffer /\ offer[a].state = "OFFERED"}

Foreign == {a \in Outstanding : offer[a].generation # generation}

\* reconcileDelivery: a cursor lies between its start and the ledger's end.
DeliveryReconciles ==
    \A j \in Jobs : sub[j] # NoSub =>
        sub[j].start <= sub[j].acked /\ sub[j].acked <= Len(events[j])

OfferCapacityReconciles == offered = Cardinality(Outstanding)

Reconciles == /\ JobsReconcile
              /\ DeliveryReconciles
              /\ JobCapacityReconciles
              /\ OfferCapacityReconciles

\* The classification transaction gives back the offers of dead generations
\* one by one, and every decrement is checked against the new limits.
ClassificationFits ==
    Foreign # {} => CountersAllow(openJobs, offered - 1)

RecoveryPasses == Reconciles /\ ClassificationFits

\* Mutation: the offers are expired and still counted.
RecoverStillCounting ==
    /\ RecoverCustody
    /\ RecoveryPasses
    /\ offer' = [a \in Attempts |->
                   IF a \in Foreign
                   THEN [offer[a] EXCEPT !.state = "EXPIRED_UNACKNOWLEDGED"]
                   ELSE offer[a]]
    /\ UNCHANGED <<sub, offered, offerLimit, waiting, notices>>

Recover ==
    /\ RecoverCustody
    /\ RecoveryPasses
    /\ offer' = [a \in Attempts |->
                   IF a \in Foreign
                   THEN [offer[a] EXCEPT !.state = "EXPIRED_UNACKNOWLEDGED"]
                   ELSE offer[a]]
    /\ offered' = offered - Cardinality(Foreign)
    /\ UNCHANGED <<sub, offerLimit, waiting, notices>>

RecoveryBlocked ==
    /\ BlockCustody
    /\ ~RecoveryPasses
    /\ UNCHANGED deliveryVars

\* The polls and the notifications are the process's, and go with it.
StopDaemon ==
    /\ Stop
    /\ waiting' = [w \in Waits |-> NoWait]
    /\ notices' = {}
    /\ UNCHANGED <<sub, offer, offered, offerLimit>>

-----------------------------------------------------------------------------
JobStep(j) ==
    \/ \E k \in Keys : SubmitCall(k, j)
    \/ CancelCall(j)
    \/ HandOffCall(j)
    \/ LeaseCall(j)
    \/ AmbiguousCall(j)
    \/ \E start \in Cursors : Subscribe(j, start)
    \/ \E a \in Attempts : OfferNow(j, a)

WaitStep(w) ==
    \/ \E j \in Jobs, after \in Cursors : Wait(w, j, after)
    \/ \E a \in Attempts : WaitTimesOut(w, a)
    \/ \E n \in notices, a \in Attempts : NoticeServes(n[1], n[2], w, a)
    \/ Disconnect(w)

Next ==
    \/ \E j \in Jobs : JobStep(j)
    \/ \E w \in Waits : WaitStep(w)
    \/ \E n \in notices : NoticeSpent(n[1], n[2])
    \/ \E a \in Attempts : OfferElapses(a) \/ Acknowledge(a)
    \/ OpenStore
    \/ Recover
    \/ RecoveryBlocked
    \/ StopDaemon

Spec == Init /\ [][Next]_vars

-----------------------------------------------------------------------------
(* Properties *)

\* A subscription that starts beyond the ledger's end.
StartedBeyond(j) == sub[j] # NoSub /\ sub[j].start > Len(events[j])

\* Recovery is sound: whatever calls, expiries and crashes came before, the
\* records reconcile, unless a job was handed off after its cancellation, a
\* boundary was marked ambiguous after its hand-off, or a subscription starts
\* beyond its ledger; nothing else can keep the daemon from serving again
\* under limits its counters fit in (recovery.js reconcileJobs,
\* reconcileDelivery, reconcileCapacity; the transactions of every call).
RecoverySound ==
    (\A j \in Jobs : /\ ~CancelledThenHandedOff(j)
                     /\ ~AmbiguousAfterHandoff(j)
                     /\ ~StartedBeyond(j))
        => /\ Reconciles
           /\ CountersAllow(openJobs, offered) => ClassificationFits

\* Delivery is exact: the acknowledged intervals of a job neither overlap nor
\* leave a gap between the start of its subscription and its cursor, although
\* the same events may have been offered several times (delivery.js offer,
\* acknowledge; the offers expired by recovery.js recover).
AckedOf(j) == {a \in Attempts : /\ offer[a] # NoOffer
                                /\ offer[a].state = "ACKNOWLEDGED"
                                /\ offer[a].job = j}

Covers(a, n) == offer[a].first <= n /\ n <= offer[a].last

DeliveredOnce ==
    \A j \in Jobs : sub[j] # NoSub =>
        /\ sub[j].cursor = sub[j].acked
        /\ \A n \in sub[j].start + 1 .. sub[j].acked :
             \E a \in AckedOf(j) : Covers(a, n)
        /\ \A a \in AckedOf(j) :
             /\ sub[j].start < offer[a].first
             /\ offer[a].last <= sub[j].acked
             /\ \A b \in AckedOf(j) \ {a} :
                  offer[a].last < offer[b].first \/ offer[b].last < offer[a].first

\* No event is missed: while a poll waits although an event it asked for is in
\* the ledger, a notification that will serve it is queued (daemon.js wait,
\* which registers the poll before it reads; event-ledger.js appendInTransaction).
NoMissedEvent ==
    \A w \in Waits :
        (waiting[w] # NoWait /\ Qualifies(waiting[w].job, waiting[w].after))
            => \E n \in notices : n[1] = waiting[w].job /\ n[2] > waiting[w].after
=============================================================================
