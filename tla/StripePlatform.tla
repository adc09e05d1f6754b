---------------------------- MODULE StripePlatform ----------------------------
(***************************************************************************)
(* Stripe as the billing code sees it (external): customers with the tenant *)
(* id in their metadata, Checkout sessions, subscriptions, and the log of   *)
(* webhook events it emits.  An event of a subscription carries a snapshot  *)
(* of the subscription at the time it was emitted.                         *)
(*                                                                         *)
(* Stripe delivers an event until it gets a 2xx, may deliver it again after *)
(* that, and promises no order: delivery is an action of StripeWebhook that *)
(* may pick any event of the log, unless InOrder forbids it.               *)
(***************************************************************************)
EXTENDS SubscriptionStore, Sequences

CONSTANTS
  MaxEvents,      \* bound on the length of the event log
  PeriodChoices,  \* which period dates Stripe reports on a subscription
  Changes,        \* the states an update moves a live subscription to
  Deletable,      \* the customers that may be deleted in the dashboard
  Unrelated       \* the event types in use that write no row

ASSUME MaxEventsAssumption == MaxEvents \in Nat
ASSUME PeriodAssumption == PeriodChoices \subseteq SUBSET {"start", "end"}
ASSUME ChangesAssumption ==
  Changes \subseteq [status : {"active", "past_due"}, price : Prices, atEnd : BOOLEAN]
ASSUME DeletableAssumption == Deletable \subseteq Customers
ASSUME UnrelatedAssumption == Unrelated \subseteq {"invoice", "other"}

VARIABLES
  custTenant,   \* metadata.tenantId of each customer, None: never created
  deleted,      \* customers deleted in Stripe
  sessions,     \* Checkout sessions
  subs,         \* the subscriptions' current state
  events,       \* every event emitted, the index is the event id
  seen          \* history: the statuses each subscription has been in

stripeVars == <<custTenant, deleted, sessions, subs, events, seen>>

Snapshot == [status : RowStatus, cust : Opt(Customers), price : Opt(Prices),
             period : Periods, atEnd : BOOLEAN]
NoSub == [status |-> "none", cust |-> None, price |-> None,
          period |-> {}, atEnd |-> FALSE]

Session == [tenant : Tenants, cust : Customers, sub : Opt(Subs)]

EventTypes == {"checkout.session.completed", "customer.subscription.updated",
               "customer.subscription.deleted", "invoice", "other"}
Event == [type : EventTypes, sub : Subs, tenant : Opt(Tenants), snap : Snapshot]

StripeTypeOK ==
  /\ custTenant \in [Customers -> Opt(Tenants)]
  /\ deleted \in SUBSET Customers
  /\ sessions \in SUBSET Session
  /\ subs \in [Subs -> Snapshot]
  /\ events \in Seq(Event)
  /\ seen \in [Subs -> SUBSET RowStatus]

StripeInit ==
  /\ custTenant = [c \in Customers |-> None]
  /\ deleted = {}
  /\ sessions = {}
  /\ subs = [s \in Subs |-> NoSub]
  /\ events = <<>>
  /\ seen = [s \in Subs |-> {}]

Live(s) == subs[s].status \in {"active", "past_due"}

\* metadata.tenantId of a customer that still exists.
TenantOfCustomer(c) == IF c \in deleted THEN None ELSE custTenant[c]

emit(type, s, t, snap) ==
  /\ Len(events) < MaxEvents
  /\ events' = Append(events, [type |-> type, sub |-> s, tenant |-> t, snap |-> snap])

SetSub(s, state) ==
  /\ subs' = [subs EXCEPT ![s] = state]
  /\ seen' = [seen EXCEPT ![s] = @ \cup {state.status}]

\* The customer pays in the hosted Checkout page.
StripeCompleteCheckout(ses, s, price, period) ==
  /\ ses \in sessions
  /\ ses.sub = None
  /\ ses.cust \notin deleted
  /\ subs[s].status = "none"
  /\ SetSub(s, [status |-> "active", cust |-> ses.cust, price |-> price,
                period |-> period, atEnd |-> FALSE])
  /\ sessions' = (sessions \ {ses}) \cup {[ses EXCEPT !.sub = s]}
  /\ emit("checkout.session.completed", s, ses.tenant, NoSub)
  /\ UNCHANGED <<custTenant, deleted>>

\* A renewal fails or succeeds, the plan changes in the billing portal, a
\* cancellation at period end is set or withdrawn.
StripeUpdate(s, to) ==
  LET state == [subs[s] EXCEPT !.status = to.status, !.price = to.price, !.atEnd = to.atEnd]
  IN  /\ Live(s)
      /\ state # subs[s]
      /\ SetSub(s, state)
      /\ emit("customer.subscription.updated", s, None, state)
      /\ UNCHANGED <<custTenant, deleted, sessions>>

\* The subscription ends: period end reached, canceled by the customer or by dunning.
StripeEnd(s) ==
  LET state == [subs[s] EXCEPT !.status = "canceled", !.atEnd = FALSE]
  IN  /\ Live(s)
      /\ SetSub(s, state)
      /\ emit("customer.subscription.deleted", s, None, state)
      /\ UNCHANGED <<custTenant, deleted, sessions>>

\* invoice.paid, invoice.payment_failed, or a type the dispatcher ignores.
StripeOtherEvent(s, type) ==
  /\ subs[s].status # "none"
  /\ emit(type, s, None, subs[s])
  /\ UNCHANGED <<custTenant, deleted, sessions, subs, seen>>

\* A customer is deleted in the dashboard, after its subscriptions ended.
StripeDeleteCustomer(c) ==
  /\ custTenant[c] # None
  /\ c \notin deleted
  /\ \A s \in Subs : subs[s].cust = c => ~Live(s)
  /\ deleted' = deleted \cup {c}
  /\ UNCHANGED <<custTenant, sessions, subs, events, seen>>

StripeNext ==
  \/ \E ses \in sessions, s \in Subs, price \in Prices, period \in PeriodChoices :
        StripeCompleteCheckout(ses, s, price, period)
  \/ \E s \in Subs, to \in Changes : StripeUpdate(s, to)
  \/ \E s \in Subs : StripeEnd(s)
  \/ \E s \in Subs, type \in Unrelated : StripeOtherEvent(s, type)
  \/ \E c \in Deletable : StripeDeleteCustomer(c)
===============================================================================
