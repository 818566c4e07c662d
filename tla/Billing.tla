-------------------------------- MODULE Billing --------------------------------
(***************************************************************************)
(* The plan of one workspace: its Subscription row under BillingService    *)
(* and WorkspaceService.deleteById, against Stripe.  Stripe's side is      *)
(* external: subscriptions change on their own, every change appends an    *)
(* event, and an event is delivered again until it is answered with 200.   *)
(* Every await of a handler is a step.  Prices are their plans, statuses   *)
(* are those that a subscription started by Checkout goes through, periods *)
(* are left out, and customers are numbered as Stripe creates them.        *)
(***************************************************************************)
EXTENDS Naturals, Sequences, FiniteSets

CONSTANTS
    Subs,          \* ids of Stripe subscriptions, one per checkout session
    Requests,      \* handlers in flight at the same time
    Ordered,       \* whether Stripe delivers the events in order
    MaxLive,       \* bound: subscriptions the customer pays for at a time
    MaxCustomers,  \* bound: customers ever created
    MaxEvents      \* bound: events Stripe ever emits

ASSUME OrderedAssumption == Ordered \in BOOLEAN
ASSUME BoundsAssumption == MaxLive \in Nat /\ MaxCustomers \in Nat /\ MaxEvents \in Nat

VARIABLES
    workspace,   \* the workspace exists
    row,         \* its Subscription row
    stripe,      \* the subscriptions, as Stripe has them
    customers,   \* how many customers Stripe has
    events,      \* the events, oldest first; an event's id is its index
    answered,    \* ids of the events answered with 200
    recorded,    \* ids in StripeWebhookEvent
    request      \* the handlers in flight

vars == <<workspace, row, stripe, customers, events, answered, recorded, request>>
stripeVars == <<stripe, customers, events, answered>>

PaidPlans == {"HOBBY", "PRO"}
Plans == PaidPlans \cup {"FREE"}
Statuses == {"ACTIVE", "PAST_DUE", "CANCELED"}
Types == {"completed", "created", "updated", "deleted", "payment_failed"}
Pcs == {"idle", "lookup", "retrieve", "find", "sync", "reset", "past_due", "record",
        "checkout", "customer", "save", "session", "update", "cancel", "delete"}

\* A Stripe subscription; "offered" is a checkout session nobody has paid yet.
NoSubscription == [status |-> "none", plan |-> "HOBBY", cancel |-> FALSE, customer |-> 0]
Live == {s \in Subs : stripe[s].status \in {"ACTIVE", "PAST_DUE"}}

\* stripeSubscriptionId is {} or {id}; customer 0 is a null stripeCustomerId.
FreeRow == [plan |-> "FREE", status |-> "ACTIVE", sub |-> {}, cancel |-> FALSE, customer |-> 0]

\* What a handler holds: the event (0 outside webhooks), the plan asked for, the
\* customer, and the subscription with the snapshot of it that was read.
Idle == [pc |-> "idle", event |-> 0, plan |-> "FREE", customer |-> 0,
         sub |-> {}, snapshot |-> NoSubscription]

Init ==
    /\ workspace = TRUE
    /\ row = FreeRow
    /\ stripe = [s \in Subs |-> NoSubscription]
    /\ customers = 0
    /\ events = <<>>
    /\ answered = {} /\ recorded = {}
    /\ request = [r \in Requests |-> Idle]

At(r, pc) == request[r].pc = pc
Set(r, value) == request' = [request EXCEPT ![r] = value]
GoTo(r, pc) == request' = [request EXCEPT ![r].pc = pc]
Done(r) == Set(r, Idle)

Event(type, s, state) == [type |-> type, sub |-> s, state |-> state]
Room(n) == Len(events) + n <= MaxEvents

-----------------------------------------------------------------------------
(* Stripe.                                                                   *)

\* The customer completes a session: the subscription starts.
CustomerPays(s) ==
    /\ stripe[s].status = "offered"
    /\ Cardinality(Live) < MaxLive
    /\ Room(2)
    /\ LET state == [stripe[s] EXCEPT !.status = "ACTIVE"]
       IN /\ stripe' = [stripe EXCEPT ![s] = state]
          /\ events' = Append(Append(events, Event("created", s, state)),
                              Event("completed", s, state))
    /\ UNCHANGED <<workspace, row, customers, answered, recorded, request>>

\* A live subscription changes, and the event carries the result.
Changes(s, state, type) ==
    /\ s \in Live
    /\ Room(1)
    /\ stripe' = [stripe EXCEPT ![s] = state]
    /\ events' = Append(events, Event(type, s, state))

PaymentFails(s) ==
    /\ stripe[s].status = "ACTIVE"
    /\ Room(2)
    /\ LET state == [stripe[s] EXCEPT !.status = "PAST_DUE"]
       IN /\ stripe' = [stripe EXCEPT ![s] = state]
          /\ events' = Append(Append(events, Event("updated", s, state)),
                              Event("payment_failed", s, state))
    /\ UNCHANGED <<workspace, row, customers, answered, recorded, request>>

PaymentRecovers(s) ==
    /\ stripe[s].status = "PAST_DUE"
    /\ Changes(s, [stripe[s] EXCEPT !.status = "ACTIVE"], "updated")
    /\ UNCHANGED <<workspace, row, customers, answered, recorded, request>>

\* The period of a subscription set to end does end, or Stripe gives up on the
\* payments.
Ends(s) ==
    /\ stripe[s].cancel \/ stripe[s].status = "PAST_DUE"
    /\ Changes(s, [stripe[s] EXCEPT !.status = "CANCELED"], "deleted")
    /\ UNCHANGED <<workspace, row, customers, answered, recorded, request>>

-----------------------------------------------------------------------------
(* BillingService.handleWebhook.                                             *)

\* In order, an event is not sent before the earlier ones are answered; in any
\* case an answered one may come again.
Deliver(r, e) ==
    /\ At(r, "idle")
    /\ e \in 1..Len(events)
    /\ Ordered => \A d \in 1..(e - 1) : d \in answered
    /\ Set(r, [Idle EXCEPT !.pc = "lookup", !.event = e])
    /\ UNCHANGED <<workspace, row, stripeVars, recorded>>

\* The pc of the first step of the handler of each type of event.
HandlerOf(type) ==
    CASE type = "completed" -> "retrieve"
      [] type = "deleted" -> "reset"
      [] type = "payment_failed" -> "find"
      [] OTHER -> "sync"

\* What the handler of the event holds: its subscription and the snapshot.
Handling(r) ==
    LET event == events[request[r].event]
    IN [request[r] EXCEPT !.pc = HandlerOf(event.type),
                          !.sub = {event.sub}, !.snapshot = event.state]

LookupForgotten(r) ==
    /\ At(r, "lookup")
    /\ Set(r, Handling(r))
    /\ UNCHANGED <<workspace, row, stripeVars, recorded>>

Lookup(r) ==
    /\ At(r, "lookup")
    /\ \/ /\ request[r].event \in recorded
          /\ answered' = answered \cup {request[r].event}
          /\ Done(r)
       \/ /\ request[r].event \notin recorded
          /\ Set(r, Handling(r))
          /\ UNCHANGED answered
    /\ UNCHANGED <<workspace, row, stripe, customers, events, recorded>>

\* onCheckoutSessionCompleted asks Stripe for the subscription as it is now.
RetrieveSubscription(r) ==
    /\ At(r, "retrieve")
    /\ \E s \in request[r].sub :
          Set(r, [request[r] EXCEPT !.pc = "sync", !.snapshot = stripe[s]])
    /\ UNCHANGED <<workspace, row, stripeVars, recorded>>

\* The end of a handler: a webhook goes on to store the event id.
Written(r) == IF request[r].event = 0 THEN Done(r) ELSE GoTo(r, "record")

\* A write of the row of a deleted workspace fails, and the handler with it.
Fails(r) ==
    /\ ~ workspace
    /\ Done(r)
    /\ UNCHANGED row

\* syncSubscriptionFromStripe writes the snapshot, however old it is.
SyncSubscription(r) ==
    /\ At(r, "sync")
    /\ \/ Fails(r)
       \/ /\ workspace
          /\ row' = [plan |-> request[r].snapshot.plan,
                     status |-> request[r].snapshot.status,
                     sub |-> request[r].sub,
                     cancel |-> request[r].snapshot.cancel,
                     customer |-> request[r].snapshot.customer]
          /\ Written(r)
    /\ UNCHANGED <<workspace, stripeVars, recorded>>

ResetKeepsSubscription(r) ==
    /\ At(r, "reset")
    /\ \/ Fails(r)
       \/ /\ workspace
          /\ row' = [row EXCEPT !.plan = "FREE", !.status = "CANCELED", !.cancel = FALSE]
          /\ Written(r)
    /\ UNCHANGED <<workspace, stripeVars, recorded>>

\* onSubscriptionDeleted does not compare the id with the row's.
OnSubscriptionDeleted(r) ==
    /\ At(r, "reset")
    /\ \/ Fails(r)
       \/ /\ workspace
          /\ row' = [row EXCEPT !.plan = "FREE", !.status = "CANCELED",
                                !.sub = {}, !.cancel = FALSE]
          /\ Written(r)
    /\ UNCHANGED <<workspace, stripeVars, recorded>>

\* onInvoicePaymentFailed looks for a row with the invoice's customer.
FindCustomer(r) ==
    /\ At(r, "find")
    /\ GoTo(r, IF workspace /\ row.customer = request[r].snapshot.customer
               THEN "past_due" ELSE "record")
    /\ UNCHANGED <<workspace, row, stripeVars, recorded>>

OnInvoicePaymentFailed(r) ==
    /\ At(r, "past_due")
    /\ \/ Fails(r)
       \/ /\ workspace
          /\ row' = [row EXCEPT !.status = "PAST_DUE"]
          /\ Written(r)
    /\ UNCHANGED <<workspace, stripeVars, recorded>>

\* stripeEventId is unique: the slower of two handlers of an event fails.
RecordEvent(r) ==
    /\ At(r, "record")
    /\ IF request[r].event \in recorded
       THEN UNCHANGED <<answered, recorded>>
       ELSE /\ recorded' = recorded \cup {request[r].event}
            /\ answered' = answered \cup {request[r].event}
    /\ Done(r)
    /\ UNCHANGED <<workspace, row, stripe, customers, events>>

-----------------------------------------------------------------------------
(* createCheckoutSession and changePlan.  A refusal changes nothing.         *)

\* POST /billing/checkout; changePlan comes here too and reads the row again.
Checkout(r, plan) ==
    /\ At(r, "idle")
    /\ workspace
    /\ Set(r, [Idle EXCEPT !.pc = "checkout", !.plan = plan])
    /\ UNCHANGED <<workspace, row, stripeVars, recorded>>

ReadForCheckout(r) ==
    /\ At(r, "checkout")
    /\ \/ /\ ~ workspace \/ (row.plan = request[r].plan /\ row.sub # {})
          /\ Done(r)
       \/ /\ workspace
          /\ row.plan # request[r].plan \/ row.sub = {}
          /\ Set(r, [request[r] EXCEPT !.pc = IF row.customer = 0 THEN "customer"
                                              ELSE "session",
                                       !.customer = row.customer])
    /\ UNCHANGED <<workspace, row, stripeVars, recorded>>

CreateCustomer(r) ==
    /\ At(r, "customer")
    /\ customers < MaxCustomers
    /\ customers' = customers + 1
    /\ Set(r, [request[r] EXCEPT !.pc = "save", !.customer = customers + 1])
    /\ UNCHANGED <<workspace, row, stripe, events, answered, recorded>>

SaveCustomer(r) ==
    /\ At(r, "save")
    /\ \/ Fails(r)
       \/ /\ workspace
          /\ row' = [row EXCEPT !.customer = request[r].customer]
          /\ GoTo(r, "session")
    /\ UNCHANGED <<workspace, stripeVars, recorded>>

OpenSession(r) ==
    /\ At(r, "session")
    /\ \E s \in Subs :
          /\ stripe[s].status = "none"
          /\ stripe' = [stripe EXCEPT ![s] =
                [status |-> "offered", plan |-> request[r].plan, cancel |-> FALSE,
                 customer |-> request[r].customer]]
    /\ Done(r)
    /\ UNCHANGED <<workspace, row, customers, events, answered, recorded>>

\* changePlan of a paid plan: to FREE it cancels, to the other it updates.
ChangePlan(r, plan) ==
    /\ At(r, "idle")
    /\ workspace
    /\ row.plan # "FREE" /\ row.sub # {}
    /\ row.plan # plan \/ row.cancel
    /\ Set(r, [Idle EXCEPT !.pc = IF plan = "FREE" THEN "cancel" ELSE "update",
                           !.plan = plan, !.sub = row.sub])
    /\ UNCHANGED <<workspace, row, stripeVars, recorded>>

\* Stripe refuses to update a subscription that has ended; an update that
\* changes nothing emits no event.
Updated(r, s, state) ==
    /\ s \in Live
    /\ \/ state = stripe[s] /\ UNCHANGED <<stripe, events>>
       \/ state # stripe[s] /\ Changes(s, state, "updated")
    /\ Set(r, [request[r] EXCEPT !.pc = "sync", !.snapshot = state])

Refused(r, s) ==
    /\ s \notin Live
    /\ Done(r)
    /\ UNCHANGED <<stripe, events>>

CancelAtPeriodEnd(r) ==
    /\ At(r, "cancel")
    /\ \E s \in request[r].sub :
          Refused(r, s) \/ Updated(r, s, [stripe[s] EXCEPT !.cancel = TRUE])
    /\ UNCHANGED <<workspace, row, customers, answered, recorded>>

UpdateSubscriptionPrice(r) ==
    /\ At(r, "update")
    /\ \E s \in request[r].sub :
          \/ Refused(r, s)
          \/ Updated(r, s, [stripe[s] EXCEPT !.plan = request[r].plan, !.cancel = FALSE])
    /\ UNCHANGED <<workspace, row, customers, answered, recorded>>

-----------------------------------------------------------------------------
(* WorkspaceService.deleteById; the row goes with the workspace.             *)

ReadForDelete(r) ==
    /\ At(r, "idle")
    /\ workspace
    /\ row.sub = {} /\ row.plan = "FREE"
    /\ Set(r, [Idle EXCEPT !.pc = "delete"])
    /\ UNCHANGED <<workspace, row, stripeVars, recorded>>

DeleteWorkspace(r) ==
    /\ At(r, "delete")
    /\ workspace' = FALSE
    /\ row' = FreeRow
    /\ Done(r)
    /\ UNCHANGED <<stripeVars, recorded>>

\* The API process dies, with every request in it.
Crash ==
    /\ request' = [r \in Requests |-> Idle]
    /\ UNCHANGED <<workspace, row, stripeVars, recorded>>

-----------------------------------------------------------------------------
Stripe == \E s \in Subs :
             CustomerPays(s) \/ PaymentFails(s) \/ PaymentRecovers(s) \/ Ends(s)

HandleWebhook(r) ==
    \/ \E e \in 1..Len(events) : Deliver(r, e)
    \/ Lookup(r)
    \/ RetrieveSubscription(r)
    \/ SyncSubscription(r)
    \/ OnSubscriptionDeleted(r)
    \/ FindCustomer(r)
    \/ OnInvoicePaymentFailed(r)
    \/ RecordEvent(r)

ChangingPlan(r) ==
    \/ \E plan \in PaidPlans : Checkout(r, plan)
    \/ ReadForCheckout(r)
    \/ CreateCustomer(r)
    \/ SaveCustomer(r)
    \/ OpenSession(r)
    \/ \E plan \in Plans : ChangePlan(r, plan)
    \/ CancelAtPeriodEnd(r)
    \/ UpdateSubscriptionPrice(r)

Deleting(r) == ReadForDelete(r) \/ DeleteWorkspace(r)

Next ==
    \/ Stripe
    \/ \E r \in Requests : HandleWebhook(r) \/ ChangingPlan(r) \/ Deleting(r)
    \/ Crash

Spec == Init /\ [][Next]_vars

-----------------------------------------------------------------------------
(* Properties.                                                               *)

Subscription == [status : Statuses \cup {"none", "offered"}, plan : PaidPlans,
                 cancel : BOOLEAN, customer : Nat]
Row == [plan : Plans, status : Statuses, sub : SUBSET Subs, cancel : BOOLEAN,
        customer : Nat]
Handler == [pc : Pcs, event : Nat, plan : Plans, customer : Nat,
            sub : SUBSET Subs, snapshot : Subscription]

TypeOK ==
    /\ workspace \in BOOLEAN
    /\ row \in Row
    /\ stripe \in [Subs -> Subscription]
    /\ customers \in Nat
    /\ events \in Seq([type : Types, sub : Subs, state : Subscription])
    /\ answered \subseteq 1..Len(events) /\ recorded \subseteq 1..Len(events)
    /\ request \in [Requests -> Handler]

\* No plan without a payment: a paid row shows one subscription as Stripe once
\* announced it in an event, plan and cancellation together; the status is that
\* event's, or PAST_DUE after a failed payment.  No overlap of webhooks in any
\* order, plan changes, retries and crashes leaves a mixture in the row.
RowIsFromStripe ==
    \/ row.plan = "FREE" /\ row.sub = {} /\ ~ row.cancel
    \/ \E e \in 1..Len(events) :
          /\ row.sub = {events[e].sub}
          /\ row.plan = events[e].state.plan
          /\ row.cancel = events[e].state.cancel
          /\ \/ row.status = events[e].state.status
             \/ /\ row.status = "PAST_DUE"
                /\ \E f \in 1..Len(events) : events[f].type = "payment_failed"

\* "Webhook is source of truth" (billing.service.ts): when every event has been
\* answered and no request is under way, the row is that of the subscription the
\* customer pays for, and FREE when there is none.
Quiet ==
    /\ workspace
    /\ answered = 1..Len(events)
    /\ \A r \in Requests : At(r, "idle")
WebhookIsSourceOfTruth ==
    Quiet =>
        /\ Live = {} => row.plan = "FREE" /\ row.sub = {}
        /\ \A s \in Live :
              /\ row.sub = {s}
              /\ row.plan = stripe[s].plan
              /\ row.status = stripe[s].status
              /\ row.cancel = stripe[s].cancel

\* "You'll keep paid features until then", until the end of the current billing period
\* (plans-settings-view.tsx, before a downgrade): while a subscription that was set to
\* cancel is still live, and every event has been answered, the plan is not FREE.
KeepsPaidFeatures ==
    (Quiet /\ \E s \in Live : stripe[s].cancel) => row.plan # "FREE"

=============================================================================
