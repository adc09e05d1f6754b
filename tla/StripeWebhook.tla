----------------------------- MODULE StripeWebhook -----------------------------
(***************************************************************************)
(* POST /stripe/webhook: StripeWebhookService.handleRawEvent and the        *)
(* handlers it dispatches to.  Every await of a handler is a step, so the   *)
(* deliveries that several Workers process interleave between them.        *)
(*                                                                         *)
(*   idle -> retrieve -> lookup -> write -> publish -> idle   (checkout)    *)
(*        -> resolve -> find -> lookup -> write -> publish    (updated)     *)
(*        -> resolve -> find -> write -> publish              (deleted)     *)
(*        -> resolve -> publish                               (invoice)     *)
(***************************************************************************)
EXTENDS StripePlatform, PlanNames, FiniteSets

CONSTANTS
  Workers,   \* concurrent webhook requests
  Faults,    \* BOOLEAN: do processes crash, and database or Stripe calls fail?
  InOrder    \* BOOLEAN: does Stripe deliver one event at a time, oldest first?

ASSUME SwitchAssumption == Faults \in BOOLEAN /\ InOrder \in BOOLEAN

VARIABLES
  ledger,      \* event ids in stripe_webhook_events (unique index)
  acked,       \* event ids Stripe got a 200 for
  published,   \* event ids whose domain event reached the listeners
  hook,        \* the state of each webhook request
  rows         \* the subscriptions collection

hookVars == <<ledger, acked, published, hook>>

HookPc == {"idle", "retrieve", "resolve", "find", "lookup", "write", "publish"}
Hook == [pc : HookPc, ev : Nat, tenant : Opt(Tenants), snap : Snapshot,
         plan : Opt(PlanKeys)]
IdleHook == [pc |-> "idle", ev |-> 0, tenant |-> None, snap |-> NoSub, plan |-> None]

HookTypeOK ==
  /\ ledger \in SUBSET Nat
  /\ acked \in SUBSET Nat
  /\ published \in SUBSET Nat
  /\ hook \in [Workers -> Hook]
  /\ rows \in [Tenants -> Row]

HookInit ==
  /\ ledger = {}
  /\ acked = {}
  /\ published = {}
  /\ hook = [w \in Workers |-> IdleHook]
  /\ rows = [t \in Tenants |-> NoRow]

EventOf(w) == events[hook[w].ev]

Goto(w, pc) == hook' = [hook EXCEPT ![w].pc = pc]

\* The request is answered 200, whatever the handler did.
Answer(w) ==
  /\ acked' = acked \cup {hook[w].ev}
  /\ hook' = [hook EXCEPT ![w] = IdleHook]

\* Stripe posts an event: one it has no 200 for, or again one it has.
DeliverableInOrder(e) ==
  /\ \A w \in Workers : hook[w].pc = "idle"
  /\ \A f \in 1 .. e - 1 : f \in acked

NextPc(type) ==
  IF type = "checkout.session.completed" THEN "retrieve" ELSE "resolve"

Handling(e) ==
  [pc |-> NextPc(events[e].type), ev |-> e, tenant |-> events[e].tenant, snap |-> NoSub,
   plan |-> None]

\* Mutant: eventId without its unique index.
ClaimWithoutIndex(w, e) ==
  /\ ledger' = ledger \cup {e}
  /\ hook' = [hook EXCEPT ![w] = Handling(e)]
  /\ UNCHANGED acked

\* claimEvent inserts the id, and dispatch starts on the event.
ClaimOwned(w, e) ==
  /\ e \notin ledger
  /\ ledger' = ledger \cup {e}
  /\ IF events[e].type = "other"
     THEN acked' = acked \cup {e} /\ UNCHANGED hook
     ELSE /\ hook' = [hook EXCEPT ![w] = Handling(e)]
          /\ UNCHANGED acked

\* claimEvent's insert fails: a duplicate key and a database error look the same.
ClaimRefused(e) ==
  /\ e \in ledger \/ Faults
  /\ acked' = acked \cup {e}
  /\ UNCHANGED <<ledger, hook>>

\* handleRawEvent up to the claim, its only effect before the handlers.
Deliver(w, e) ==
  /\ hook[w].pc = "idle"
  /\ InOrder => DeliverableInOrder(e)
  /\ ClaimOwned(w, e) \/ ClaimRefused(e)
  /\ UNCHANGED <<published, rows>>

\* onCheckoutSessionCompleted: subscriptions.retrieve returns the current state.
CheckoutRetrieve(w) ==
  /\ hook[w].pc = "retrieve"
  /\ hook' = [hook EXCEPT ![w].pc = "lookup", ![w].snap = subs[EventOf(w).sub]]
  /\ UNCHANGED <<ledger, acked, published, rows>>

\* resolveTenantIdFromCustomer, in the other handlers.
ResolveTenant(w) ==
  LET tenant == TenantOfCustomer(EventOf(w).snap.cust)
  IN  /\ hook[w].pc = "resolve"
      /\ IF EventOf(w).type # "invoice"
         THEN /\ hook' = [hook EXCEPT ![w].pc = "find", ![w].tenant = tenant]
              /\ UNCHANGED acked
         ELSE IF tenant = None
         THEN Answer(w)
         ELSE /\ hook' = [hook EXCEPT ![w].pc = "publish", ![w].tenant = tenant]
              /\ UNCHANGED acked
      /\ UNCHANGED <<ledger, published, rows>>

\* What a found tenant's event leads to: the row is written with a plan key, or ended.
FoundPc(type) == IF type = "customer.subscription.deleted" THEN "write" ELSE "lookup"

\* Mutant: no fallback to the row when the customer has no tenant.
FindNothing(w) ==
  /\ hook[w].pc = "find"
  /\ IF hook[w].tenant = None
     THEN Answer(w)
     ELSE /\ hook' = [hook EXCEPT ![w].pc = FoundPc(EventOf(w).type),
                                  ![w].snap = EventOf(w).snap]
          /\ UNCHANGED acked
  /\ UNCHANGED <<ledger, published, rows>>

\* findByStripeSubscriptionId: the row is the fallback for a customer without tenant.
FindExisting(w) ==
  LET tenant == Given(hook[w].tenant, findByStripeSubscriptionId(rows, EventOf(w).sub))
  IN  /\ hook[w].pc = "find"
      /\ IF tenant = None
         THEN Answer(w)
         ELSE /\ hook' = [hook EXCEPT ![w].pc = FoundPc(EventOf(w).type),
                                      ![w].tenant = tenant, ![w].snap = EventOf(w).snap]
              /\ UNCHANGED acked
      /\ UNCHANGED <<ledger, published, rows>>

\* The price's plan is looked up between Stripe's answer and the write.  A subscription
\* always has a price, so the fallbacks for one without (the row's key, "") are never met.
LookupPlan(w) ==
  /\ hook[w].pc = "lookup"
  /\ hook' = [hook EXCEPT ![w].pc = "write", ![w].plan = PlanKey(hook[w].snap.price)]
  /\ UNCHANGED <<ledger, acked, published, rows>>

\* What the checkout and updated handlers pass to upsertForTenant.
UpsertInput(s, snap, plan) ==
  [status |-> snap.status, sub |-> s, cust |-> snap.cust, price |-> snap.price,
   plan |-> plan, period |-> snap.period, atEnd |-> snap.atEnd]

\* Mutant: only an active subscription is worth a domain event.
PublishActive(w, row) ==
  IF "end" \in row.period /\ row.status \in ActiveStatuses
  THEN Goto(w, "publish") /\ UNCHANGED acked
  ELSE Answer(w)

\* The domain event of a subscription write needs the period end, from Stripe or the row.
PublishOrAnswer(w, row) ==
  IF "end" \in row.period THEN Goto(w, "publish") /\ UNCHANGED acked ELSE Answer(w)

WriteUpsert(w) ==
  LET row == upsertForTenant(rows[hook[w].tenant],
                             UpsertInput(EventOf(w).sub, hook[w].snap, hook[w].plan))
  IN  /\ hook[w].pc = "write"
      /\ EventOf(w).type # "customer.subscription.deleted"
      /\ rows' = [rows EXCEPT ![hook[w].tenant] = row]
      /\ PublishOrAnswer(w, row)
      /\ UNCHANGED <<ledger, published>>

\* Mutant: the end of a subscription is not published.
WriteCanceledSilently(w) ==
  /\ hook[w].pc = "write"
  /\ EventOf(w).type = "customer.subscription.deleted"
  /\ rows' = [rows EXCEPT ![hook[w].tenant] =
                markCanceledByTenant(@, hook[w].snap.cust, hook[w].snap.period)]
  /\ Answer(w)
  /\ UNCHANGED <<ledger, published>>

\* onSubscriptionDeleted: the row is matched by tenant, not by subscription.
WriteCanceled(w) ==
  /\ hook[w].pc = "write"
  /\ EventOf(w).type = "customer.subscription.deleted"
  /\ rows' = [rows EXCEPT ![hook[w].tenant] =
                markCanceledByTenant(@, hook[w].snap.cust, hook[w].snap.period)]
  /\ Goto(w, "publish")
  /\ UNCHANGED <<ledger, acked, published>>

\* emitAsync awaits the listeners, then the request is answered.
Publish(w) ==
  /\ hook[w].pc = "publish"
  /\ published' = published \cup {hook[w].ev}
  /\ Answer(w)
  /\ UNCHANGED <<ledger, rows>>

\* A call of the handler throws: logged, and answered 200 all the same.
HandlerFails(w) ==
  /\ Faults
  /\ hook[w].pc # "idle"
  /\ Answer(w)
  /\ UNCHANGED <<ledger, published, rows>>

\* The process dies: no answer, so Stripe will deliver again.
Crash(w) ==
  /\ Faults
  /\ hook[w].pc # "idle"
  /\ hook' = [hook EXCEPT ![w] = IdleHook]
  /\ UNCHANGED <<ledger, acked, published, rows>>

HookStep(w) ==
  \/ CheckoutRetrieve(w) \/ ResolveTenant(w) \/ FindExisting(w) \/ LookupPlan(w)
  \/ WriteUpsert(w) \/ WriteCanceled(w) \/ Publish(w)

HookNext ==
  \/ \E w \in Workers, e \in 1 .. Len(events) : Deliver(w, e)
  \/ \E w \in Workers : HookStep(w) \/ HandlerFails(w) \/ Crash(w)
===============================================================================
