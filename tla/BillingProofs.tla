----------------------------- MODULE BillingProofs -----------------------------
(***************************************************************************)
(* For every set of subscriptions and requests, any bounds and any order   *)
(* of delivery: the types, and that the row never shows anything but what  *)
(* Stripe once announced of one subscription.                              *)
(***************************************************************************)
EXTENDS Billing, FiniteSetTheorems, TLAPS

USE OrderedAssumption, BoundsAssumption

EventRecord == [type : Types, sub : Subs, state : Subscription]
Ids(log) == 1..Len(log)

\* A live or ended subscription is as its last event says, and only those have
\* events.
Announced ==
    /\ \A e \in Ids(events) : /\ events[e].state.status \in Statuses
                              /\ stripe[events[e].sub].status \in Statuses
    /\ \A s \in Subs : stripe[s].status \in Statuses =>
          \E e \in Ids(events) : events[e].sub = s /\ events[e].state = stripe[s]

\* What a handler holds between two awaits was announced before.
Holds(q, log) ==
    /\ q.pc \in {"lookup", "retrieve", "find", "reset", "past_due", "record"}
          => q.event \in Ids(log)
    /\ q.event \in 0..Len(log)
    /\ q.pc \in {"checkout", "customer", "save", "session", "update"}
          => q.plan \in PaidPlans
    /\ q.pc \in {"retrieve", "cancel", "update"} =>
          \E e \in Ids(log) : q.sub = {log[e].sub}
    /\ q.pc = "sync" => \E e \in Ids(log) :
                           q.sub = {log[e].sub} /\ q.snapshot = log[e].state
    /\ q.pc \in {"find", "past_due"} =>
          \E f \in Ids(log) : log[f].type = "payment_failed"

BillingInv ==
    /\ TypeOK
    /\ Announced
    /\ RowIsFromStripe
    /\ \A r \in Requests : Holds(request[r], events)

\* The log is only ever extended.
Grows ==
    /\ events \in Seq(EventRecord) /\ events' \in Seq(EventRecord)
    /\ Len(events) <= Len(events')
    /\ \A e \in Ids(events) : events'[e] = events[e]

-----------------------------------------------------------------------------
(* The log.                                                                  *)

LEMMA SameLog == ASSUME TypeOK, UNCHANGED events PROVE Grows
  BY DEF TypeOK, Grows, EventRecord

LEMMA OneMore ==
    ASSUME TypeOK, NEW x \in EventRecord, events' = Append(events, x)
    PROVE  Grows /\ Len(events') = Len(events) + 1 /\ events'[Len(events) + 1] = x
  BY DEF TypeOK, Grows, EventRecord, Ids

LEMMA TwoMore ==
    ASSUME TypeOK, NEW x \in EventRecord, NEW y \in EventRecord,
           events' = Append(Append(events, x), y)
    PROVE  /\ Grows /\ Len(events') = Len(events) + 2
           /\ events'[Len(events) + 1] = x /\ events'[Len(events) + 2] = y
<1>1. events \in Seq(EventRecord)  BY DEF TypeOK, EventRecord
<1>2. Append(events, x) \in Seq(EventRecord)  BY <1>1
<1> QED  BY <1>1, <1>2 DEF Grows, Ids

\* An update of a subscription, announced by every new event of the log.
Announces(s, state) ==
    /\ Grows /\ Len(events') > Len(events)
    /\ \A e \in Ids(events') \ Ids(events) : events'[e].sub = s /\ events'[e].state = state

LEMMA Announcement ==
    ASSUME BillingInv, NEW s \in Subs, NEW state \in Subscription,
           state.status \in Statuses,
           stripe' = [stripe EXCEPT ![s] = state],
           Announces(s, state)
    PROVE  Announced'
<1>0. stripe \in [Subs -> Subscription] /\ Len(events) \in Nat /\ Len(events') \in Nat
  BY DEF BillingInv, TypeOK, Announces, Grows
<1>1. ASSUME NEW e \in Ids(events')
      PROVE  /\ events'[e].state.status \in Statuses
             /\ stripe'[events'[e].sub].status \in Statuses
  <2>1. CASE e \in Ids(events)
    <3>1. events'[e] = events[e] /\ events[e] \in EventRecord
      BY <2>1, <1>0 DEF Announces, Grows, Ids
    <3>2. events[e].sub \in Subs  BY <3>1 DEF EventRecord
    <3>3. /\ events[e].state.status \in Statuses
          /\ stripe[events[e].sub].status \in Statuses
      BY <2>1 DEF BillingInv, Announced
    <3> QED  BY <3>1, <3>2, <3>3, <1>0
  <2>2. CASE e \notin Ids(events)
    BY <2>2, <1>0 DEF Announces
  <2> QED  BY <2>1, <2>2
<1>2. ASSUME NEW t \in Subs, stripe'[t].status \in Statuses
      PROVE  \E e \in Ids(events') : events'[e].sub = t /\ events'[e].state = stripe'[t]
  <2>1. CASE t = s
    <3>1. Len(events) + 1 \in Ids(events') \ Ids(events)
      BY <1>0 DEF Announces, Ids
    <3> QED  BY <2>1, <3>1, <1>0 DEF Announces
  <2>2. CASE t # s
    <3>1. PICK e \in Ids(events) : events[e].sub = t /\ events[e].state = stripe[t]
      BY <2>2, <1>2, <1>0 DEF BillingInv, Announced
    <3>2. e \in Ids(events') /\ events'[e] = events[e]
      BY <1>0 DEF Announces, Grows, Ids
    <3> QED  BY <2>2, <3>1, <3>2, <1>0
  <2> QED  BY <2>1, <2>2
<1> QED  BY <1>1, <1>2 DEF Announced

LEMMA StillAnnounced ==
    ASSUME BillingInv, UNCHANGED <<stripe, events>>
    PROVE  Announced'
  BY DEF BillingInv, Announced, Ids

-----------------------------------------------------------------------------
(* Handlers and the row when the log grows.                                  *)

LEMMA HoldsOn ==
    ASSUME Grows, NEW q, Holds(q, events)
    PROVE  Holds(q, events')
<1>1. Len(events) \in Nat /\ Len(events') \in Nat  BY DEF Grows
<1>2. \A e \in Ids(events) : e \in Ids(events') /\ events'[e] = events[e]
  BY <1>1 DEF Grows, Ids
<1>3. \A n \in 0..Len(events) : n \in 0..Len(events')  BY <1>1 DEF Grows
<1> QED  BY <1>2, <1>3 DEF Holds

LEMMA SetHolds ==
    ASSUME BillingInv, Grows, NEW r \in Requests, NEW v \in Handler, Holds(v, events'),
           Set(r, v)
    PROVE  /\ request' \in [Requests -> Handler]
           /\ \A q \in Requests : Holds(request'[q], events')
<1>1. request \in [Requests -> Handler]  BY DEF BillingInv, TypeOK
<1>2. \A q \in Requests : Holds(request[q], events')  BY HoldsOn DEF BillingInv
<1> QED  BY <1>1, <1>2 DEF Set

LEMMA RowStays ==
    ASSUME BillingInv, Grows, UNCHANGED row
    PROVE  RowIsFromStripe'
<1>1. Len(events) \in Nat /\ Len(events') \in Nat  BY DEF Grows
<1>2. \A e \in 1..Len(events) : e \in 1..Len(events') /\ events'[e] = events[e]
  BY <1>1 DEF Grows, Ids
<1> QED  BY <1>1, <1>2 DEF BillingInv, RowIsFromStripe

LEMMA IdleHolds == Idle \in Handler /\ \A log : Len(log) \in Nat => Holds(Idle, log)
  BY DEF Idle, Handler, Pcs, Plans, PaidPlans, NoSubscription, Subscription, Holds

-----------------------------------------------------------------------------
(* Stripe's steps.                                                           *)

\* What is left to show of a step that touches no handler and no row.
LEMMA StripeStep ==
    ASSUME BillingInv, NEW s \in Subs, NEW state \in Subscription,
           state.status \in Statuses,
           stripe' = [stripe EXCEPT ![s] = state], Announces(s, state),
           UNCHANGED <<workspace, row, customers, answered, recorded, request>>
    PROVE  BillingInv'
<1>1. Announced'  BY Announcement
<1>2. Grows  BY DEF Announces
<1>3. RowIsFromStripe'  BY <1>2, RowStays
<1>4. \A q \in Requests : Holds(request'[q], events')  BY <1>2, HoldsOn DEF BillingInv
<1>5. TypeOK'
  <2>1. stripe' \in [Subs -> Subscription]  BY DEF BillingInv, TypeOK
  <2>2. Len(events) \in Nat /\ Len(events') \in Nat /\ Len(events) <= Len(events')
    BY <1>2 DEF Grows
  <2>3. Ids(events) \subseteq Ids(events')  BY <2>2 DEF Ids
  <2> QED  BY <1>2, <2>1, <2>3 DEF BillingInv, TypeOK, Grows, EventRecord, Ids
<1> QED  BY <1>1, <1>3, <1>4, <1>5 DEF BillingInv

LEMMA NewState ==
    ASSUME TypeOK, NEW s \in Subs, NEW status \in Statuses
    PROVE  /\ [stripe[s] EXCEPT !.status = status] \in Subscription
           /\ [stripe[s] EXCEPT !.status = status].status = status
  BY DEF TypeOK, Subscription

LEMMA EventType ==
    ASSUME NEW type \in Types, NEW s \in Subs, NEW state \in Subscription
    PROVE  /\ Event(type, s, state) \in EventRecord
           /\ Event(type, s, state).sub = s /\ Event(type, s, state).state = state
  BY DEF Event, EventRecord

LEMMA OneAnnounces ==
    ASSUME TypeOK, NEW s \in Subs, NEW state \in Subscription, NEW type \in Types,
           events' = Append(events, Event(type, s, state))
    PROVE  Announces(s, state)
<1>1. Event(type, s, state) \in EventRecord  BY EventType
<1>2. /\ Grows /\ Len(events') = Len(events) + 1
      /\ events'[Len(events) + 1] = Event(type, s, state)
  BY <1>1, OneMore
<1>3. Len(events) \in Nat  BY <1>2 DEF Grows
<1>4. \A e \in Ids(events') \ Ids(events) : e = Len(events) + 1
  BY <1>2, <1>3 DEF Ids
<1> QED  BY <1>2, <1>3, <1>4, EventType DEF Announces

LEMMA TwoAnnounce ==
    ASSUME TypeOK, NEW s \in Subs, NEW state \in Subscription,
           NEW one \in Types, NEW two \in Types,
           events' = Append(Append(events, Event(one, s, state)), Event(two, s, state))
    PROVE  Announces(s, state)
<1>1. Event(one, s, state) \in EventRecord /\ Event(two, s, state) \in EventRecord
  BY EventType
<1>2. /\ Grows /\ Len(events') = Len(events) + 2
      /\ events'[Len(events) + 1] = Event(one, s, state)
      /\ events'[Len(events) + 2] = Event(two, s, state)
  BY <1>1, TwoMore
<1>3. Len(events) \in Nat  BY <1>2 DEF Grows
<1>4. \A e \in Ids(events') \ Ids(events) : e = Len(events) + 1 \/ e = Len(events) + 2
  BY <1>2, <1>3 DEF Ids
<1> QED  BY <1>2, <1>3, <1>4, EventType DEF Announces

LEMMA StripeInv ==
    ASSUME BillingInv, Stripe
    PROVE  BillingInv'
<1>0. TypeOK  BY DEF BillingInv
<1>1. PICK s \in Subs :
         CustomerPays(s) \/ PaymentFails(s) \/ PaymentRecovers(s) \/ Ends(s)
  BY DEF Stripe
<1>2. PICK status \in Statuses :
         /\ stripe' = [stripe EXCEPT ![s] = [stripe[s] EXCEPT !.status = status]]
         /\ UNCHANGED <<workspace, row, customers, answered, recorded, request>>
         /\ \/ \E type \in Types :
                  events' = Append(events, Event(type, s, [stripe[s] EXCEPT !.status = status]))
            \/ \E one, two \in Types :
                  events' = Append(Append(events,
                               Event(one, s, [stripe[s] EXCEPT !.status = status])),
                               Event(two, s, [stripe[s] EXCEPT !.status = status]))
  <2>1. CASE CustomerPays(s)  BY <2>1 DEF CustomerPays, Statuses, Types
  <2>2. CASE PaymentFails(s)  BY <2>2 DEF PaymentFails, Statuses, Types
  <2>3. CASE PaymentRecovers(s)
    BY <2>3 DEF PaymentRecovers, Changes, Statuses, Types
  <2>4. CASE Ends(s)  BY <2>4 DEF Ends, Changes, Statuses, Types
  <2> QED  BY <1>1, <2>1, <2>2, <2>3, <2>4
<1> DEFINE state == [stripe[s] EXCEPT !.status = status]
<1>3. state \in Subscription /\ state.status \in Statuses  BY <1>0, NewState
<1>4. /\ stripe' = [stripe EXCEPT ![s] = state]
      /\ \/ \E type \in Types : events' = Append(events, Event(type, s, state))
         \/ \E one, two \in Types :
               events' = Append(Append(events, Event(one, s, state)), Event(two, s, state))
  BY <1>2
<1> HIDE DEF state
<1>5. Announces(s, state)  BY <1>0, <1>3, <1>4, OneAnnounces, TwoAnnounce
<1> QED  BY <1>2, <1>3, <1>4, <1>5, StripeStep

-----------------------------------------------------------------------------
(* The handlers' steps.                                                      *)

\* What is left to show of a step of a handler that Stripe has no part in.
LEMMA HandlerStep ==
    ASSUME BillingInv, NEW r \in Requests, NEW v \in Handler, Holds(v, events),
           Set(r, v),
           UNCHANGED <<stripe, customers, events>>,
           workspace' \in BOOLEAN, row' \in Row, RowIsFromStripe',
           answered' \subseteq Ids(events), recorded' \subseteq Ids(events)
    PROVE  BillingInv'
<1>1. Grows  BY SameLog DEF BillingInv
<1>2. events' = events  OBVIOUS
<1>3. /\ request' \in [Requests -> Handler]
      /\ \A q \in Requests : Holds(request'[q], events')
  BY <1>1, <1>2, SetHolds
<1>4. Announced'  BY StillAnnounced
<1>5. TypeOK'  BY <1>2, <1>3 DEF BillingInv, TypeOK, Ids
<1> QED  BY <1>3, <1>4, <1>5 DEF BillingInv

\* The same when the row is only read.
LEMMA ReadingStep ==
    ASSUME BillingInv, NEW r \in Requests, NEW v \in Handler, Holds(v, events),
           Set(r, v), UNCHANGED <<workspace, row, stripeVars, recorded>>
    PROVE  BillingInv'
<1>1. Grows  BY SameLog DEF BillingInv, stripeVars
<1>2. RowIsFromStripe'  BY <1>1, RowStays
<1> QED  BY <1>2, HandlerStep DEF BillingInv, TypeOK, stripeVars, Ids

\* The same for a write of the row that may end the handler.
LEMMA WritingStep ==
    ASSUME BillingInv, NEW r \in Requests,
           request[r].pc \in {"sync", "reset", "past_due"},
           \/ Fails(r)
           \/ Written(r) /\ row' \in Row /\ RowIsFromStripe',
           UNCHANGED <<workspace, stripeVars, recorded>>
    PROVE  BillingInv'
<1>0. Len(events) \in Nat /\ request[r] \in Handler /\ Holds(request[r], events)
  BY DEF BillingInv, TypeOK
<1>1. Grows  BY SameLog DEF BillingInv, stripeVars
<1>2. CASE Fails(r)
  BY <1>0, <1>2, IdleHolds, ReadingStep DEF Fails, Done
<1>3. CASE Written(r) /\ row' \in Row /\ RowIsFromStripe'
  <2> DEFINE v == IF request[r].event = 0 THEN Idle ELSE [request[r] EXCEPT !.pc = "record"]
  <2>1. Set(r, v)  BY <1>3 DEF Written, Done, GoTo, Set
  <2>2. v \in Handler /\ Holds(v, events)
    <3>1. CASE request[r].event = 0  BY <1>0, <3>1, IdleHolds
    <3>2. CASE request[r].event # 0
      <4> DEFINE w == [request[r] EXCEPT !.pc = "record"]
      <4>1. w \in Handler  BY <1>0 DEF Handler, Pcs
      <4>2. w.pc = "record" /\ w.event = request[r].event  BY <1>0 DEF Handler
      <4>3. w.event \in Ids(events)  BY <1>0, <3>2, <4>2 DEF Holds, Ids
      <4>4. v = w  BY <3>2
      <4> HIDE DEF w, v
      <4>5. Holds(w, events)  BY <1>0, <4>2, <4>3 DEF Holds, Ids
      <4> QED  BY <4>1, <4>4, <4>5
    <3> QED  BY <3>1, <3>2
  <2> HIDE DEF v
  <2> QED  BY <1>3, <2>1, <2>2, HandlerStep DEF BillingInv, TypeOK, stripeVars, Ids
<1> QED  BY <1>2, <1>3

LEMMA DeliverInv ==
    ASSUME BillingInv, NEW r \in Requests, NEW e \in 1..Len(events), Deliver(r, e)
    PROVE  BillingInv'
<1> DEFINE v == [Idle EXCEPT !.pc = "lookup", !.event = e]
<1>0. Len(events) \in Nat /\ e \in Nat /\ Idle \in Handler
  BY IdleHolds DEF BillingInv, TypeOK
<1>1. v \in Handler  BY <1>0 DEF Handler, Pcs
<1>2. v.pc = "lookup" /\ v.event = e  BY DEF Idle
<1>3. Set(r, v) /\ UNCHANGED <<workspace, row, stripeVars, recorded>>  BY DEF Deliver
<1> HIDE DEF v
<1>4. Holds(v, events)  BY <1>0, <1>2 DEF Holds, Ids
<1> QED  BY <1>1, <1>3, <1>4, ReadingStep

LEMMA LookupInv ==
    ASSUME BillingInv, NEW r \in Requests, Lookup(r)
    PROVE  BillingInv'
<1>0. /\ Len(events) \in Nat /\ request[r] \in Handler /\ Holds(request[r], events)
      /\ events \in Seq(EventRecord)
  BY DEF BillingInv, TypeOK, EventRecord
<1>1. request[r].event \in Ids(events)  BY <1>0 DEF Lookup, At, Holds
<1>2. CASE Done(r) /\ answered' = answered \cup {request[r].event}
  <2>1. Grows  BY SameLog DEF BillingInv, Lookup
  <2>2. RowIsFromStripe'  BY <2>1, RowStays DEF Lookup
  <2> QED
    BY <1>0, <1>1, <1>2, <2>2, IdleHolds, HandlerStep
    DEF Lookup, Done, BillingInv, TypeOK, Ids
<1>3. CASE Set(r, Handling(r)) /\ UNCHANGED answered
  <2> DEFINE event == events[request[r].event]
             v == [request[r] EXCEPT !.pc = HandlerOf(event.type),
                                     !.sub = {event.sub}, !.snapshot = event.state]
  <2>1. event \in EventRecord  BY <1>0, <1>1 DEF Ids
  <2>2. event.type \in Types /\ event.sub \in Subs /\ event.state \in Subscription
    BY <2>1 DEF EventRecord
  <2>3. /\ HandlerOf(event.type) \in {"retrieve", "reset", "find", "sync"}
        /\ HandlerOf(event.type) \in {"find", "past_due"} => event.type = "payment_failed"
    <3> HIDE DEF event
    <3> QED  BY <2>2 DEF HandlerOf, Types
  <2>4. /\ v \in Handler /\ v.pc = HandlerOf(event.type) /\ v.event = request[r].event
        /\ v.sub = {event.sub} /\ v.snapshot = event.state
    <3> HIDE DEF event
    <3> QED  BY <1>0, <2>2, <2>3 DEF Handler, Pcs
  <2>5. Set(r, v)  BY <1>3 DEF Handling
  <2> HIDE DEF v
  <2>6. Holds(v, events)  BY <1>0, <1>1, <2>3, <2>4 DEF Holds, Ids
  <2> QED  BY <1>3, <2>4, <2>5, <2>6, ReadingStep DEF Lookup, stripeVars
<1> QED  BY <1>2, <1>3 DEF Lookup

LEMMA RetrieveInv ==
    ASSUME BillingInv, NEW r \in Requests, RetrieveSubscription(r)
    PROVE  BillingInv'
<1>0. /\ Len(events) \in Nat /\ request[r] \in Handler /\ Holds(request[r], events)
      /\ stripe \in [Subs -> Subscription] /\ events \in Seq(EventRecord)
  BY DEF BillingInv, TypeOK, EventRecord
<1>1. PICK s \in request[r].sub :
         Set(r, [request[r] EXCEPT !.pc = "sync", !.snapshot = stripe[s]])
  BY DEF RetrieveSubscription
<1>2. PICK e \in Ids(events) : request[r].sub = {events[e].sub}
  BY <1>0 DEF RetrieveSubscription, At, Holds
<1>3. events[e].sub = s /\ s \in Subs  BY <1>0, <1>1, <1>2 DEF Handler
<1>4. stripe[s].status \in Statuses  BY <1>3 DEF BillingInv, Announced
<1>5. PICK f \in Ids(events) : events[f].sub = s /\ events[f].state = stripe[s]
  BY <1>3, <1>4 DEF BillingInv, Announced
<1> DEFINE v == [request[r] EXCEPT !.pc = "sync", !.snapshot = stripe[s]]
<1>6. stripe[s] \in Subscription  BY <1>0, <1>3
<1>7. /\ v \in Handler /\ v.pc = "sync" /\ v.event = request[r].event
      /\ v.sub = request[r].sub /\ v.snapshot = stripe[s]
  BY <1>0, <1>6 DEF Handler, Pcs
<1>8. Set(r, v)  BY <1>1
<1> HIDE DEF v
<1>9. Holds(v, events)  BY <1>0, <1>2, <1>3, <1>5, <1>7 DEF Holds
<1> QED  BY <1>7, <1>8, <1>9, ReadingStep DEF RetrieveSubscription

LEMMA SyncInv ==
    ASSUME BillingInv, NEW r \in Requests, SyncSubscription(r)
    PROVE  BillingInv'
<1>0. /\ Len(events) \in Nat /\ request[r] \in Handler /\ Holds(request[r], events)
      /\ request[r].pc = "sync"
  BY DEF BillingInv, TypeOK, SyncSubscription, At
<1>1. CASE Fails(r)
  BY <1>0, <1>1, WritingStep DEF SyncSubscription
<1>2. CASE ~ Fails(r)
  <2>1. PICK e \in Ids(events) :
           request[r].sub = {events[e].sub} /\ request[r].snapshot = events[e].state
    BY <1>0 DEF Holds
  <2> DEFINE shot == request[r].snapshot
  <2>2. /\ row' = [plan |-> shot.plan, status |-> shot.status, sub |-> request[r].sub,
                   cancel |-> shot.cancel, customer |-> shot.customer]
        /\ Written(r)
    BY <1>2 DEF SyncSubscription
  <2>3. shot.status \in Statuses  BY <2>1 DEF BillingInv, Announced
  <2>4. shot \in Subscription /\ request[r].sub \in SUBSET Subs
    BY <1>0 DEF Handler
  <2>5. shot.plan \in Plans /\ shot.cancel \in BOOLEAN /\ shot.customer \in Nat
    BY <2>4 DEF Subscription, Plans
  <2>6. shot = events[e].state  BY <2>1
  <2> HIDE DEF shot
  <2>7. row' \in Row  BY <2>2, <2>3, <2>4, <2>5 DEF Row
  <2>8. events' = events  BY DEF SyncSubscription, stripeVars
  <2>9. /\ row'.sub = {events[e].sub} /\ row'.plan = events[e].state.plan
        /\ row'.cancel = events[e].state.cancel /\ row'.status = events[e].state.status
    BY <2>1, <2>2, <2>6
  <2>10. RowIsFromStripe'  BY <2>8, <2>9 DEF RowIsFromStripe, Ids
  <2> QED  BY <1>0, <2>2, <2>7, <2>10, WritingStep DEF SyncSubscription
<1> QED  BY <1>1, <1>2

LEMMA ResetInv ==
    ASSUME BillingInv, NEW r \in Requests, OnSubscriptionDeleted(r)
    PROVE  BillingInv'
<1>0. row \in Row /\ request[r].pc = "reset"
  BY DEF BillingInv, TypeOK, OnSubscriptionDeleted, At
<1>1. CASE Fails(r)
  BY <1>0, <1>1, WritingStep DEF OnSubscriptionDeleted
<1>2. CASE ~ Fails(r)
  <2> DEFINE reset == [row EXCEPT !.plan = "FREE", !.status = "CANCELED",
                                  !.sub = {}, !.cancel = FALSE]
  <2>1. row' = reset /\ Written(r)  BY <1>2 DEF OnSubscriptionDeleted
  <2>2. /\ reset \in Row /\ reset.plan = "FREE" /\ reset.sub = {}
        /\ reset.cancel = FALSE
    BY <1>0 DEF Row, Plans, Statuses
  <2> HIDE DEF reset
  <2>3. row' \in Row /\ RowIsFromStripe'  BY <2>1, <2>2 DEF RowIsFromStripe
  <2> QED  BY <1>0, <2>1, <2>3, WritingStep DEF OnSubscriptionDeleted
<1> QED  BY <1>1, <1>2

LEMMA FindInv ==
    ASSUME BillingInv, NEW r \in Requests, FindCustomer(r)
    PROVE  BillingInv'
<1>0. /\ Len(events) \in Nat /\ request[r] \in Handler /\ Holds(request[r], events)
      /\ request[r].pc = "find"
  BY DEF BillingInv, TypeOK, FindCustomer, At
<1>1. PICK pc \in {"past_due", "record"} : GoTo(r, pc)
  BY DEF FindCustomer
<1> DEFINE v == [request[r] EXCEPT !.pc = pc]
<1>2. v \in Handler /\ v.pc = pc /\ v.event = request[r].event
  BY <1>0 DEF Handler, Pcs
<1>3. Set(r, v)  BY <1>1 DEF GoTo, Set
<1> HIDE DEF v
<1>4. Holds(v, events)  BY <1>0, <1>2 DEF Holds
<1> QED  BY <1>2, <1>3, <1>4, ReadingStep DEF FindCustomer

LEMMA PastDueInv ==
    ASSUME BillingInv, NEW r \in Requests, OnInvoicePaymentFailed(r)
    PROVE  BillingInv'
<1>0. /\ row \in Row /\ request[r].pc = "past_due" /\ Holds(request[r], events)
  BY DEF BillingInv, TypeOK, OnInvoicePaymentFailed, At
<1>1. CASE Fails(r)
  BY <1>0, <1>1, WritingStep DEF OnInvoicePaymentFailed
<1>2. CASE ~ Fails(r)
  <2> DEFINE late == [row EXCEPT !.status = "PAST_DUE"]
  <2>1. row' = late /\ Written(r)  BY <1>2 DEF OnInvoicePaymentFailed
  <2>2. /\ late \in Row /\ late.plan = row.plan /\ late.sub = row.sub
        /\ late.cancel = row.cancel /\ late.status = "PAST_DUE"
    BY <1>0 DEF Row, Statuses
  <2> HIDE DEF late
  <2>3. \E f \in Ids(events) : events[f].type = "payment_failed"  BY <1>0 DEF Holds
  <2>4. events' = events  BY DEF OnInvoicePaymentFailed, stripeVars
  <2>5. RowIsFromStripe'
    BY <2>1, <2>2, <2>3, <2>4 DEF BillingInv, RowIsFromStripe, Ids
  <2> QED  BY <1>0, <2>1, <2>2, <2>5, WritingStep DEF OnInvoicePaymentFailed
<1> QED  BY <1>1, <1>2

LEMMA RecordInv ==
    ASSUME BillingInv, NEW r \in Requests, RecordEvent(r)
    PROVE  BillingInv'
<1>0. Len(events) \in Nat /\ request[r].event \in Ids(events)
  BY DEF BillingInv, TypeOK, RecordEvent, At, Holds
<1>1. RowIsFromStripe'
  <2>1. Grows  BY SameLog DEF BillingInv, RecordEvent
  <2> QED  BY <2>1, RowStays DEF RecordEvent
<1>2. answered' \subseteq Ids(events) /\ recorded' \subseteq Ids(events)
  BY <1>0 DEF RecordEvent, BillingInv, TypeOK, Ids
<1> QED  BY <1>0, <1>1, <1>2, IdleHolds, HandlerStep
         DEF RecordEvent, Done, BillingInv, TypeOK

-----------------------------------------------------------------------------
(* Plan changes and deletion.                                                *)

LEMMA CheckoutInv ==
    ASSUME BillingInv, NEW r \in Requests,
           \/ \E plan \in PaidPlans : Checkout(r, plan)
           \/ ReadForCheckout(r)
    PROVE  BillingInv'
<1>0. /\ Len(events) \in Nat /\ request[r] \in Handler /\ Holds(request[r], events)
      /\ row \in Row
  BY DEF BillingInv, TypeOK
<1>1. ASSUME NEW plan \in PaidPlans, Checkout(r, plan)
      PROVE  BillingInv'
  <2> DEFINE v == [Idle EXCEPT !.pc = "checkout", !.plan = plan]
  <2>1. v \in Handler  BY IdleHolds DEF Idle, Handler, Pcs, Plans
  <2>2. v.pc = "checkout" /\ v.plan = plan /\ v.event = 0  BY DEF Idle
  <2>3. Set(r, v) /\ UNCHANGED <<workspace, row, stripeVars, recorded>>
    BY <1>1 DEF Checkout
  <2> HIDE DEF v
  <2>4. Holds(v, events)  BY <1>0, <2>2 DEF Holds
  <2> QED  BY <2>1, <2>3, <2>4, ReadingStep
<1>2. CASE ReadForCheckout(r)
  <2>1. CASE Done(r)
    BY <1>0, <1>2, <2>1, IdleHolds, ReadingStep DEF ReadForCheckout, Done
  <2>2. CASE ~ Done(r)
    <3>1. PICK pc \in {"customer", "session"} :
             Set(r, [request[r] EXCEPT !.pc = pc, !.customer = row.customer])
      BY <1>2, <2>2 DEF ReadForCheckout
    <3> DEFINE v == [request[r] EXCEPT !.pc = pc, !.customer = row.customer]
    <3>2. row.customer \in Nat  BY <1>0 DEF Row
    <3>3. /\ v \in Handler /\ v.pc = pc /\ v.plan = request[r].plan
          /\ v.event = request[r].event
      BY <1>0, <3>2 DEF Handler, Pcs
    <3>4. Set(r, v)  BY <3>1
    <3> HIDE DEF v
    <3>5. request[r].plan \in PaidPlans  BY <1>0, <1>2 DEF ReadForCheckout, At, Holds
    <3>6. Holds(v, events)  BY <1>0, <3>3, <3>5 DEF Holds
    <3> QED  BY <1>2, <3>3, <3>4, <3>6, ReadingStep DEF ReadForCheckout
  <2> QED  BY <2>1, <2>2
<1> QED  BY <1>1, <1>2

LEMMA CustomerInv ==
    ASSUME BillingInv, NEW r \in Requests, CreateCustomer(r) \/ SaveCustomer(r)
    PROVE  BillingInv'
<1>0. /\ Len(events) \in Nat /\ request[r] \in Handler /\ Holds(request[r], events)
      /\ row \in Row /\ customers \in Nat
  BY DEF BillingInv, TypeOK
<1>1. CASE CreateCustomer(r)
  <2>0. PICK n \in Nat : n = customers + 1  BY <1>0
  <2> DEFINE v == [request[r] EXCEPT !.pc = "save", !.customer = n]
  <2>1. /\ v \in Handler /\ v.pc = "save" /\ v.plan = request[r].plan
        /\ v.event = request[r].event
    BY <1>0 DEF Handler, Pcs
  <2>2. Set(r, v)  BY <1>1, <2>0 DEF CreateCustomer
  <2> HIDE DEF v
  <2>3. Grows  BY <1>1, SameLog DEF BillingInv, CreateCustomer
  <2>4. RowIsFromStripe'  BY <1>1, <2>3, RowStays DEF CreateCustomer
  <2>5. /\ request' \in [Requests -> Handler]
        /\ \A q \in Requests : Holds(request'[q], events')
    <3>1. request[r].plan \in PaidPlans  BY <1>0, <1>1 DEF CreateCustomer, At, Holds
    <3>2. Holds(v, events)  BY <1>0, <2>1, <3>1 DEF Holds
    <3>3. events' = events  BY <1>1 DEF CreateCustomer
    <3> QED  BY <2>1, <2>2, <2>3, <3>2, <3>3, SetHolds
  <2>6. Announced'  BY <1>1, StillAnnounced DEF CreateCustomer
  <2>7. TypeOK'  BY <1>0, <1>1, <2>5 DEF CreateCustomer, BillingInv, TypeOK
  <2> QED  BY <2>4, <2>5, <2>6, <2>7 DEF BillingInv
<1>2. CASE SaveCustomer(r)
  <2>1. CASE Fails(r)
    BY <1>0, <1>2, <2>1, IdleHolds, ReadingStep DEF SaveCustomer, Fails, Done
  <2>2. CASE ~ Fails(r)
    <3> DEFINE v == [request[r] EXCEPT !.pc = "session"]
               saved == [row EXCEPT !.customer = request[r].customer]
    <3>1. row' = saved /\ GoTo(r, "session")  BY <1>2, <2>2 DEF SaveCustomer
    <3>2. Set(r, v)  BY <3>1 DEF GoTo, Set
    <3>3. /\ v \in Handler /\ v.pc = "session" /\ v.plan = request[r].plan
          /\ v.event = request[r].event
      BY <1>0 DEF Handler, Pcs
    <3>4. request[r].customer \in Nat  BY <1>0 DEF Handler
    <3>5. /\ saved \in Row /\ saved.plan = row.plan /\ saved.sub = row.sub
          /\ saved.cancel = row.cancel /\ saved.status = row.status
      BY <1>0, <3>4 DEF Row
    <3> HIDE DEF v, saved
    <3>6. request[r].plan \in PaidPlans  BY <1>0, <1>2 DEF SaveCustomer, At, Holds
    <3>7. Holds(v, events)  BY <1>0, <3>3, <3>6 DEF Holds
    <3>8. events' = events  BY <1>2 DEF SaveCustomer, stripeVars
    <3>9. RowIsFromStripe'  BY <3>1, <3>5, <3>8 DEF BillingInv, RowIsFromStripe
    <3> QED
      BY <1>2, <3>1, <3>2, <3>3, <3>5, <3>7, <3>9, HandlerStep
      DEF SaveCustomer, stripeVars, BillingInv, TypeOK, Ids
  <2> QED  BY <2>1, <2>2
<1> QED  BY <1>1, <1>2

LEMMA SessionInv ==
    ASSUME BillingInv, NEW r \in Requests, OpenSession(r)
    PROVE  BillingInv'
<1>0. /\ Len(events) \in Nat /\ request[r] \in Handler /\ Holds(request[r], events)
      /\ stripe \in [Subs -> Subscription] /\ events \in Seq(EventRecord)
  BY DEF BillingInv, TypeOK, EventRecord
<1> DEFINE offer == [status |-> "offered", plan |-> request[r].plan, cancel |-> FALSE,
                     customer |-> request[r].customer]
<1>1. PICK s \in Subs : stripe[s].status = "none" /\ stripe' = [stripe EXCEPT ![s] = offer]
  BY DEF OpenSession
<1>2. offer \in Subscription /\ offer.status = "offered"
  <2>1. request[r].plan \in PaidPlans  BY <1>0 DEF OpenSession, At, Holds
  <2>2. request[r].customer \in Nat  BY <1>0 DEF Handler
  <2> QED  BY <2>1, <2>2 DEF Subscription
<1> HIDE DEF offer
<1>3. /\ events' = events
      /\ UNCHANGED <<workspace, row, customers, answered, recorded>>
      /\ Set(r, Idle)
  BY DEF OpenSession, Done
<1>4. Grows  BY <1>3, SameLog DEF BillingInv
<1>5. /\ request' \in [Requests -> Handler]
      /\ \A q \in Requests : Holds(request'[q], events')
  BY <1>0, <1>3, <1>4, IdleHolds, SetHolds
<1>6. RowIsFromStripe'  BY <1>3, <1>4, RowStays
<1>7. Announced'
  <2>1. "offered" \notin Statuses /\ "none" \notin Statuses  BY DEF Statuses
  <2>2. \A e \in Ids(events) : events[e].sub \in Subs /\ events[e].sub # s
    <3> SUFFICES ASSUME NEW e \in Ids(events)
                 PROVE  events[e].sub \in Subs /\ events[e].sub # s
      OBVIOUS
    <3>1. events[e] \in EventRecord  BY <1>0 DEF Ids
    <3>2. stripe[events[e].sub].status \in Statuses  BY DEF BillingInv, Announced
    <3> QED  BY <1>1, <2>1, <3>1, <3>2 DEF EventRecord
  <2>3. \A t \in Subs : stripe'[t] = IF t = s THEN offer ELSE stripe[t]
    BY <1>0, <1>1
  <2> QED  BY <1>2, <1>3, <2>1, <2>2, <2>3 DEF BillingInv, Announced
<1>8. TypeOK'  BY <1>0, <1>1, <1>2, <1>3, <1>5 DEF BillingInv, TypeOK, EventRecord
<1> QED  BY <1>5, <1>6, <1>7, <1>8 DEF BillingInv

LEMMA ChangeInv ==
    ASSUME BillingInv, NEW r \in Requests, NEW plan \in Plans, ChangePlan(r, plan)
    PROVE  BillingInv'
<1>0. Len(events) \in Nat /\ row \in Row /\ Idle \in Handler
  BY IdleHolds DEF BillingInv, TypeOK
<1>1. PICK pc \in {"cancel", "update"} :
         /\ pc = "update" => plan # "FREE"
         /\ Set(r, [Idle EXCEPT !.pc = pc, !.plan = plan, !.sub = row.sub])
  BY DEF ChangePlan
<1> DEFINE v == [Idle EXCEPT !.pc = pc, !.plan = plan, !.sub = row.sub]
<1>2. row.sub \in SUBSET Subs  BY <1>0 DEF Row
<1>3. v \in Handler /\ v.pc = pc /\ v.plan = plan /\ v.event = Idle.event /\ v.sub = row.sub
  BY <1>0, <1>2 DEF Handler, Pcs
<1>4. Set(r, v)  BY <1>1
<1> HIDE DEF v
<1>5. v.event = 0  BY <1>3 DEF Idle
<1>6. v.pc = "update" => v.plan \in PaidPlans  BY <1>1, <1>3 DEF Plans
<1>7. \E e \in Ids(events) : v.sub = {events[e].sub}
  BY <1>3 DEF ChangePlan, BillingInv, RowIsFromStripe, Ids
<1>8. Holds(v, events)  BY <1>0, <1>3, <1>5, <1>6, <1>7 DEF Holds
<1> QED  BY <1>3, <1>4, <1>8, ReadingStep DEF ChangePlan

\* A plan change at Stripe is announced before its handler writes it.
LEMMA UpdatedStep ==
    ASSUME BillingInv, NEW r \in Requests, request[r].pc \in {"cancel", "update"},
           NEW s \in Subs, request[r].sub = {s},
           NEW state \in Subscription, state.status = stripe[s].status,
           Updated(r, s, state),
           UNCHANGED <<workspace, row, customers, answered, recorded>>
    PROVE  BillingInv'
<1>0. /\ Len(events) \in Nat /\ request[r] \in Handler /\ Holds(request[r], events)
      /\ stripe \in [Subs -> Subscription] /\ TypeOK
  BY DEF BillingInv, TypeOK
<1>1. stripe[s].status \in Statuses  BY DEF Updated, Live, Statuses
<1> DEFINE v == [request[r] EXCEPT !.pc = "sync", !.snapshot = state]
<1>2. /\ v \in Handler /\ v.pc = "sync" /\ v.event = request[r].event
      /\ v.sub = {s} /\ v.snapshot = state
  BY <1>0 DEF Handler, Pcs
<1>3. Set(r, v)  BY DEF Updated
<1> HIDE DEF v
<1>4. CASE state = stripe[s] /\ UNCHANGED <<stripe, events>>
  <2>1. PICK e \in Ids(events) : events[e].sub = s /\ events[e].state = stripe[s]
    BY <1>1 DEF BillingInv, Announced
  <2>2. Holds(v, events)  BY <1>0, <1>2, <1>4, <2>1 DEF Holds
  <2> QED  BY <1>2, <1>3, <1>4, <2>2, ReadingStep DEF stripeVars
<1>5. CASE state # stripe[s] /\ Changes(s, state, "updated")
  <2>1. "updated" \in Types  BY DEF Types
  <2>2. /\ stripe' = [stripe EXCEPT ![s] = state]
        /\ events' = Append(events, Event("updated", s, state))
    BY <1>5 DEF Changes
  <2>3. Announces(s, state)  BY <1>0, <2>1, <2>2, OneAnnounces
  <2>4. Grows /\ Len(events') \in Nat  BY <2>3 DEF Announces, Grows
  <2>5. Announced'  BY <1>1, <2>2, <2>3, Announcement
  <2>6. Holds(v, events')
    <3>1. Len(events) + 1 \in Ids(events') \ Ids(events)
      BY <1>0, <2>3, <2>4 DEF Announces, Ids
    <3>2. \E e \in Ids(events') : v.sub = {events'[e].sub} /\ v.snapshot = events'[e].state
      BY <1>2, <2>3, <3>1 DEF Announces
    <3>3. v.event \in 0..Len(events')
      BY <1>0, <1>2, <2>3, <2>4 DEF Announces, Holds
    <3> QED  BY <1>2, <3>2, <3>3 DEF Holds
  <2>7. /\ request' \in [Requests -> Handler]
        /\ \A q \in Requests : Holds(request'[q], events')
    BY <1>2, <1>3, <2>4, <2>6, SetHolds
  <2>8. RowIsFromStripe'  BY <2>4, RowStays
  <2>9. TypeOK'
    <3>1. Ids(events) \subseteq Ids(events')  BY <1>0, <2>3, <2>4 DEF Announces, Ids
    <3> QED  BY <1>0, <2>2, <2>4, <2>7, <3>1
             DEF BillingInv, TypeOK, Grows, EventRecord, Ids
  <2> QED  BY <2>5, <2>7, <2>8, <2>9 DEF BillingInv
<1> QED  BY <1>4, <1>5 DEF Updated

LEMMA UpdateInv ==
    ASSUME BillingInv, NEW r \in Requests,
           CancelAtPeriodEnd(r) \/ UpdateSubscriptionPrice(r)
    PROVE  BillingInv'
<1>0. /\ Len(events) \in Nat /\ request[r] \in Handler /\ Holds(request[r], events)
      /\ stripe \in [Subs -> Subscription] /\ events \in Seq(EventRecord)
  BY DEF BillingInv, TypeOK, EventRecord
<1>a. request[r].pc \in {"cancel", "update"}
  BY DEF CancelAtPeriodEnd, UpdateSubscriptionPrice, At
<1>1. PICK e \in Ids(events) : request[r].sub = {events[e].sub}
  BY <1>0, <1>a DEF Holds
<1>2. PICK s \in Subs : request[r].sub = {s}
  <2>1. events[e] \in EventRecord  BY <1>0 DEF Ids
  <2> QED  BY <1>1, <2>1 DEF EventRecord
<1>3. UNCHANGED <<workspace, row, customers, answered, recorded>>
  BY DEF CancelAtPeriodEnd, UpdateSubscriptionPrice
<1>4. CASE Refused(r, s)
  BY <1>0, <1>3, <1>4, IdleHolds, ReadingStep DEF Refused, Done, stripeVars
<1>5. CASE CancelAtPeriodEnd(r) /\ ~ Refused(r, s)
  <2> DEFINE state == [stripe[s] EXCEPT !.cancel = TRUE]
  <2>1. Updated(r, s, state)  BY <1>2, <1>5 DEF CancelAtPeriodEnd
  <2>2. state \in Subscription /\ state.status = stripe[s].status
    <3>1. stripe[s] \in Subscription  BY <1>0
    <3> QED  BY <3>1 DEF Subscription
  <2> HIDE DEF state
  <2> QED  BY <1>0, <1>a, <1>2, <1>3, <2>1, <2>2, UpdatedStep
<1>6. CASE UpdateSubscriptionPrice(r) /\ ~ Refused(r, s)
  <2> DEFINE state == [stripe[s] EXCEPT !.plan = request[r].plan, !.cancel = FALSE]
  <2>1. Updated(r, s, state)  BY <1>2, <1>6 DEF UpdateSubscriptionPrice
  <2>2. request[r].plan \in PaidPlans
    BY <1>0, <1>6 DEF UpdateSubscriptionPrice, At, Holds
  <2>3. state \in Subscription /\ state.status = stripe[s].status
    <3>1. stripe[s] \in Subscription  BY <1>0
    <3> QED  BY <2>2, <3>1 DEF Subscription
  <2> HIDE DEF state
  <2> QED  BY <1>0, <1>a, <1>2, <1>3, <2>1, <2>3, UpdatedStep
<1> QED  BY <1>4, <1>5, <1>6

LEMMA FreeRowFits == FreeRow \in Row
  BY DEF FreeRow, Row, Plans, Statuses

LEMMA DeletingInv ==
    ASSUME BillingInv, NEW r \in Requests, Deleting(r)
    PROVE  BillingInv'
<1>0. Len(events) \in Nat  BY DEF BillingInv, TypeOK
<1>1. CASE ReadForDelete(r)
  <2> DEFINE v == [Idle EXCEPT !.pc = "delete"]
  <2>1. v \in Handler  BY IdleHolds DEF Handler, Pcs
  <2>2. v.pc = "delete" /\ v.event = 0  BY DEF Idle
  <2>3. Set(r, v)  BY <1>1 DEF ReadForDelete
  <2> HIDE DEF v
  <2>4. Holds(v, events)  BY <1>0, <2>2 DEF Holds
  <2> QED  BY <1>1, <2>1, <2>3, <2>4, ReadingStep DEF ReadForDelete
<1>2. CASE DeleteWorkspace(r)
  <2>1. row' = FreeRow /\ workspace' \in BOOLEAN  BY <1>2 DEF DeleteWorkspace
  <2>2. RowIsFromStripe'  BY <2>1 DEF RowIsFromStripe, FreeRow
  <2> QED
    BY <1>0, <1>2, <2>1, <2>2, FreeRowFits, IdleHolds, HandlerStep
    DEF DeleteWorkspace, Done, stripeVars, BillingInv, TypeOK, Ids
<1> QED  BY <1>1, <1>2 DEF Deleting

LEMMA CrashInv ==
    ASSUME BillingInv, Crash
    PROVE  BillingInv'
<1>0. Len(events) \in Nat /\ events' = events  BY DEF BillingInv, TypeOK, Crash, stripeVars
<1>1. Grows  BY SameLog DEF BillingInv, Crash, stripeVars
<1>2. RowIsFromStripe'  BY <1>1, RowStays DEF Crash
<1>3. Announced'  BY StillAnnounced DEF Crash, stripeVars
<1>4. \A r \in Requests : Holds(request'[r], events')
  BY <1>0, IdleHolds DEF Crash
<1>5. TypeOK'
  BY IdleHolds DEF Crash, stripeVars, BillingInv, TypeOK
<1> QED  BY <1>2, <1>3, <1>4, <1>5 DEF BillingInv

-----------------------------------------------------------------------------
(* The invariant.                                                            *)

LEMMA BillingInit == Init => BillingInv
<1> SUFFICES ASSUME Init PROVE BillingInv
  OBVIOUS
<1> USE DEF Init
<1>1. TypeOK
  BY IdleHolds, FreeRowFits DEF TypeOK, NoSubscription, Subscription, PaidPlans
<1>2. Announced  BY DEF Announced, Ids, NoSubscription, Statuses
<1>3. RowIsFromStripe  BY DEF RowIsFromStripe, FreeRow
<1>4. \A r \in Requests : Holds(request[r], events)  BY IdleHolds
<1> QED  BY <1>1, <1>2, <1>3, <1>4 DEF BillingInv

LEMMA BillingStep == BillingInv /\ [Next]_vars => BillingInv'
<1> SUFFICES ASSUME BillingInv, [Next]_vars
             PROVE  BillingInv'
  OBVIOUS
<1>1. CASE Stripe  BY <1>1, StripeInv
<1>2. ASSUME NEW r \in Requests, HandleWebhook(r)
      PROVE  BillingInv'
  BY <1>2, DeliverInv, LookupInv, RetrieveInv, SyncInv, ResetInv, FindInv, PastDueInv,
     RecordInv DEF HandleWebhook
<1>3. ASSUME NEW r \in Requests, ChangingPlan(r)
      PROVE  BillingInv'
  BY <1>3, CheckoutInv, CustomerInv, SessionInv, ChangeInv, UpdateInv DEF ChangingPlan
<1>4. ASSUME NEW r \in Requests, Deleting(r)
      PROVE  BillingInv'
  BY <1>4, DeletingInv
<1>5. CASE Crash  BY <1>5, CrashInv
<1>6. CASE UNCHANGED vars
  BY <1>6 DEF vars, BillingInv, TypeOK, Announced, RowIsFromStripe, Holds, Ids
<1> QED  BY <1>1, <1>2, <1>3, <1>4, <1>5, <1>6 DEF Next

\* Type correctness of the billing model.
THEOREM BillingTypeCorrect == Spec => []TypeOK
<1>1. BillingInv => TypeOK  BY DEF BillingInv
<1> QED  BY <1>1, BillingInit, BillingStep, PTL DEF Spec

\* Whatever the order of the events, the overlap of requests and the crashes,
\* the row is FREE or one announced state of one subscription, as
\* RowIsFromStripe says of syncSubscriptionFromStripe and the handlers.
THEOREM SpecRowIsFromStripe == Spec => []RowIsFromStripe
<1>1. BillingInv => RowIsFromStripe  BY DEF BillingInv
<1> QED  BY <1>1, BillingInit, BillingStep, PTL DEF Spec

=============================================================================
