------------------------------- MODULE RowProofs -------------------------------
(***************************************************************************)
(* Proofs about the rows of BillingSystem, for any number of tenants,      *)
(* customers, subscriptions, events, webhook workers and requests: what a  *)
(* row says of a subscription was once so, its plan key is a name the plan *)
(* of its price has had, nobody is entitled who never paid; and, where events come in     *)
(* order or nothing fails, rows follow what Stripe says and every event    *)
(* that has something to tell is told.                                     *)
(***************************************************************************)
EXTENDS BillingProofs

-----------------------------------------------------------------------------
(* Whoever holds a subscription's state, a row, an event, a handler or a request,     *)
(* holds one that it was in; whoever will write a plan key holds a name that the plan  *)
(* of its price has had.                                                            *)

Honest(s, state) == s \in Subs /\ state.status \in seen[s] /\ state.price # None

Named(price, plan) == price \in Catalog => plan \in Names \cap named[price]

SubsHonest ==
  \A s \in Subs : /\ "none" \notin seen[s]
                  /\ subs[s].status # "none" => Honest(s, subs[s])

EventHonest(ev) == ev.type # "checkout.session.completed" => Honest(ev.sub, ev.snap)
EventsHonest == \A e \in 1 .. Len(events) : EventHonest(events[e])

HookHonest(w) ==
  LET ev == events[hook[w].ev]
  IN  /\ hook[w].pc \in {"lookup", "write"} => Honest(ev.sub, hook[w].snap)
      /\ hook[w].pc = "write" /\ ev.type # "customer.subscription.deleted" =>
            Named(hook[w].snap.price, hook[w].plan)

RequestHonest(q) ==
  /\ /\ q.sub # None
     /\ q.pc \in {"confirmLookup", "confirmWrite", "cancelWrite", "backfillRetrieve",
                  "backfillLookup", "backfillWrite", "backfillUpcoming"}
     => Honest(q.sub, q.snap)
  /\ q.pc \in {"cancelStripe", "cancelWrite"} => q.price # None /\ Named(q.price, q.plan)
  /\ q.pc \in {"confirmWrite", "backfillRetrieve", "backfillWrite", "backfillUpcoming"}
     => Named(q.snap.price, q.plan)

RowHonest(row) == /\ row.sub # None => Honest(row.sub, row)
                /\ Named(row.price, row.plan)

RowInv ==
  /\ SubsHonest
  /\ EventsHonest
  /\ \A w \in Workers : HookHonest(w)
  /\ \A r \in Requests : RequestHonest(req[r])
  /\ \A t \in Tenants : RowHonest(rows[t])

-----------------------------------------------------------------------------
(* The frame: what Stripe has done is not undone, a name a plan has had stays one it    *)
(* has had, and the rest of a step is described by what it changes.                  *)

NamesKept == \A p \in Catalog : named[p] \subseteq named'[p]

History ==
  /\ NamesKept
  /\ \A s \in Subs : seen[s] \subseteq seen'[s]
  /\ Len(events) <= Len(events')
  /\ \A e \in 1 .. Len(events) : events'[e] = events[e]
  /\ \A e \in 1 .. Len(events') : e > Len(events) => EventHonest(events[e])'
  /\ SubsHonest'

LEMMA HonestStays ==
  ASSUME History, NEW s, NEW state, Honest(s, state)
  PROVE  Honest(s, state)'
BY DEF History, Honest

LEMMA NamedStays ==
  ASSUME NamesKept, NEW price, NEW plan, Named(price, plan)
  PROVE  Named(price, plan)'
BY DEF NamesKept, Named

LEMMA OldEventsHonest ==
  ASSUME IsolationInv, RowInv, History, NEW e \in 1 .. Len(events)
  PROVE  EventHonest(events[e])'
<1>1. PICK ev : ev = events[e]
  OBVIOUS
<1>2. EventHonest(ev)
  BY <1>1 DEF RowInv, EventsHonest
<1>3. EventHonest(ev)'
  BY <1>2, HonestStays DEF EventHonest
<1>4. events'[e] = ev
  BY <1>1 DEF History
<1> QED
  BY <1>3, <1>4 DEF EventHonest, Honest

LEMMA OldHooksHonest ==
  ASSUME IsolationInv, RowInv, History, NEW w \in Workers, hook'[w] = hook[w]
  PROVE  HookHonest(w)'
<1> SUFFICES ASSUME hook[w].pc \in {"lookup", "write"}
             PROVE  HookHonest(w)'
  BY DEF HookHonest
<1>1. hook[w].ev \in 1 .. Len(events)
  BY DEF IsolationInv, HooksBelong, HookBelongs
<1>2. PICK ev, snap, plan :
        ev = events[hook[w].ev] /\ snap = hook[w].snap /\ plan = hook[w].plan
  OBVIOUS
<1>3. Honest(ev.sub, snap)'
  BY <1>2, HonestStays DEF RowInv, HookHonest
<1>4. hook[w].pc = "write" /\ ev.type # "customer.subscription.deleted" =>
         Named(snap.price, plan)'
  BY <1>2, NamedStays DEF RowInv, HookHonest, History
<1>5. ev = events'[hook'[w].ev] /\ snap = hook'[w].snap /\ plan = hook'[w].plan
  BY <1>1, <1>2 DEF History
<1> QED
  BY <1>3, <1>4, <1>5 DEF HookHonest, Honest, Named

LEMMA OldRequestsHonest ==
  ASSUME RowInv, History, NEW r \in Requests, req'[r] = req[r]
  PROVE  RequestHonest(req[r])'
<1>1. PICK q : q = req[r]
  OBVIOUS
<1>2. RequestHonest(q)'
  BY <1>1, HonestStays, NamedStays DEF RowInv, RequestHonest, History
<1> QED
  BY <1>1, <1>2 DEF RequestHonest, Honest, Named

LEMMA OldRowsHonest ==
  ASSUME RowInv, History, NEW t \in Tenants, rows'[t] = rows[t]
  PROVE  RowHonest(rows[t])'
<1>1. PICK row : row = rows[t]
  OBVIOUS
<1>2. RowHonest(row)'
  BY <1>1, HonestStays, NamedStays DEF RowInv, RowHonest, History
<1> QED
  BY <1>1, <1>2 DEF RowHonest, Honest, Named

LEMMA RowFrame ==
  ASSUME IsolationInv, RowInv, History,
         \A w \in Workers : hook'[w] = hook[w] \/ HookHonest(w)',
         \A r \in Requests : req'[r] = req[r] \/ RequestHonest(req[r])',
         \A t \in Tenants : rows'[t] = rows[t] \/ RowHonest(rows[t])'
  PROVE  RowInv'
<1>1. EventsHonest'
  <2> SUFFICES ASSUME NEW e \in 1 .. Len(events') PROVE EventHonest(events[e])'
    BY DEF EventsHonest
  <2>1. Len(events) \in Nat
    BY DEF IsolationInv, BillingTypeOK, StripeTypeOK
  <2> QED
    BY <2>1, OldEventsHonest DEF History
<1>2. SubsHonest'
  BY DEF History
<1> QED
  BY <1>1, <1>2, OldHooksHonest, OldRequestsHonest, OldRowsHonest DEF RowInv

-----------------------------------------------------------------------------
(* The steps of Stripe.                                                             *)

\* A subscription takes a state, and an event may carry it.
LEMMA SetSubHistory ==
  ASSUME IsolationInv, RowInv, NamesKept,
         NEW s \in Subs, NEW state \in Snapshot, SetSub(s, state),
         state.status # "none", state.price # None,
         NEW type \in EventTypes, NEW t \in Opt(Tenants), NEW snap \in Snapshot,
         events' = events \/ emit(type, s, t, snap),
         type # "checkout.session.completed" => snap = state
  PROVE  History
<1>1. /\ subs \in [Subs -> Snapshot] /\ seen \in [Subs -> SUBSET RowStatus]
      /\ events \in Seq(Event) /\ Len(events) \in Nat
  BY DEF IsolationInv, BillingTypeOK, StripeTypeOK
<1>2. /\ subs'[s] = state /\ seen'[s] = seen[s] \cup {state.status}
      /\ \A u \in Subs : u # s => subs'[u] = subs[u] /\ seen'[u] = seen[u]
  BY <1>1 DEF SetSub
<1>3. \A u \in Subs : seen[u] \subseteq seen'[u]
  BY <1>2
<1>4. SubsHonest'
  BY <1>2 DEF SubsHonest, Honest, RowInv
<1>5. /\ Len(events') \in Nat /\ Len(events) <= Len(events')
      /\ \A e \in 1 .. Len(events) : events'[e] = events[e]
      /\ \A e \in 1 .. Len(events') : e > Len(events) =>
            events'[e] = [type |-> type, sub |-> s, tenant |-> t, snap |-> snap]
  BY <1>1, EmitAppends
<1>6. ASSUME NEW e \in 1 .. Len(events'), e > Len(events)
      PROVE  EventHonest(events[e])'
  <2>1. events'[e] = [type |-> type, sub |-> s, tenant |-> t, snap |-> snap]
    BY <1>5, <1>6
  <2> QED
    BY <1>2, <2>1 DEF EventHonest, Honest
<1> QED
  BY <1>3, <1>4, <1>5, <1>6 DEF History

\* A step that changes neither subscriptions nor events.
LEMMA SameHistory ==
  ASSUME IsolationInv, RowInv, NamesKept, UNCHANGED <<subs, events, seen>>
  PROVE  History
<1>1. Len(events) \in Nat
  BY DEF IsolationInv, BillingTypeOK, StripeTypeOK
<1>2. SubsHonest'
  BY DEF RowInv, SubsHonest, Honest
<1> QED
  BY <1>1, <1>2 DEF History

LEMMA PriceGiven == \A price \in Prices : price # None
BY NoneAssumption

LEMMA StripeHistory ==
  ASSUME IsolationInv, RowInv, NamesKept, StripeNext
  PROVE  History
<1>1. subs \in [Subs -> Snapshot] /\ None \in Opt(Tenants)
  BY DEF IsolationInv, BillingTypeOK, StripeTypeOK, Opt
<1>2. ASSUME NEW ses \in sessions, NEW s \in Subs, NEW price \in Prices,
             NEW period \in PeriodChoices, StripeCompleteCheckout(ses, s, price, period)
      PROVE  History
  <2> DEFINE state == [status |-> "active", cust |-> ses.cust, price |-> price,
                       period |-> period, atEnd |-> FALSE]
             type == "checkout.session.completed"
  <2>1. ses \in Session
    BY DEF IsolationInv, BillingTypeOK, StripeTypeOK
  <2>2. state \in Snapshot /\ NoSub \in Snapshot /\ state.status # "none" /\ state.price # None
    BY <2>1, PeriodAssumption, PriceGiven
       DEF Snapshot, Session, Opt, RowStatus, SubStatus, Periods, NoSub
  <2>3. SetSub(s, state) /\ emit(type, s, ses.tenant, NoSub)
    BY <1>2 DEF StripeCompleteCheckout
  <2>4. type \in EventTypes /\ ses.tenant \in Opt(Tenants)
    BY <2>1 DEF EventTypes, Session, Opt
  <2> HIDE DEF state
  <2> QED
    BY <2>2, <2>3, <2>4, SetSubHistory
<1>3. ASSUME NEW s \in Subs, Live(s), NEW state \in Snapshot, SetSub(s, state),
             state.status # "none", state.price # None,
             NEW type \in EventTypes \ {"checkout.session.completed"},
             emit(type, s, None, state)
      PROVE  History
  BY <1>1, <1>3, SetSubHistory
<1>4. ASSUME NEW s \in Subs, NEW to \in Changes, StripeUpdate(s, to)
      PROVE  History
  <2> DEFINE state == [subs[s] EXCEPT !.status = to.status, !.price = to.price,
                                      !.atEnd = to.atEnd]
  <2>1. /\ Live(s) /\ SetSub(s, state)
        /\ emit("customer.subscription.updated", s, None, state)
    BY <1>4 DEF StripeUpdate
  <2>2. state \in Snapshot /\ state.status # "none" /\ state.price # None
    BY <1>1, ChangesAssumption, PriceGiven DEF Snapshot, RowStatus, SubStatus, Opt
  <2>3. "customer.subscription.updated" \in EventTypes \ {"checkout.session.completed"}
    BY DEF EventTypes
  <2> HIDE DEF state
  <2> QED
    BY <2>1, <2>2, <2>3, <1>3
<1>5. ASSUME NEW s \in Subs, StripeEnd(s)
      PROVE  History
  <2> DEFINE state == [subs[s] EXCEPT !.status = "canceled", !.atEnd = FALSE]
  <2>1. /\ Live(s) /\ SetSub(s, state)
        /\ emit("customer.subscription.deleted", s, None, state)
    BY <1>5 DEF StripeEnd
  <2>2. state \in Snapshot /\ state.status # "none" /\ state.price # None
    BY <1>1, <2>1 DEF Snapshot, RowStatus, SubStatus, Live, RowInv, SubsHonest, Honest
  <2>3. "customer.subscription.deleted" \in EventTypes \ {"checkout.session.completed"}
    BY DEF EventTypes
  <2> HIDE DEF state
  <2> QED
    BY <2>1, <2>2, <2>3, <1>3
<1>6. ASSUME NEW s \in Subs, NEW type \in Unrelated, StripeOtherEvent(s, type)
      PROVE  History
  <2>1. /\ subs[s].status # "none" /\ emit(type, s, None, subs[s]) /\ UNCHANGED <<subs, seen>>
    BY <1>6 DEF StripeOtherEvent
  <2>2. type \in EventTypes /\ events \in Seq(Event) /\ subs[s] \in Snapshot
    BY <1>1, UnrelatedAssumption DEF EventTypes, IsolationInv, BillingTypeOK, StripeTypeOK
  <2>3. PICK snap \in Snapshot : snap = subs[s]
    BY <2>2
  <2>4. /\ Len(events') = Len(events) + 1 /\ Len(events) \in Nat
        /\ \A e \in 1 .. Len(events) : events'[e] = events[e]
        /\ events'[Len(events')] = [type |-> type, sub |-> s, tenant |-> None, snap |-> snap]
    BY <1>1, <2>1, <2>2, <2>3, EmitAppends
  <2>5. Honest(s, snap)'
    BY <2>1, <2>3 DEF RowInv, SubsHonest, Honest
  <2>6. ASSUME NEW e \in 1 .. Len(events'), e > Len(events)
        PROVE  EventHonest(events[e])'
    <3>1. events'[e] = [type |-> type, sub |-> s, tenant |-> None, snap |-> snap]
      BY <2>4, <2>6
    <3> QED
      BY <2>5, <3>1 DEF EventHonest, Honest
  <2>7. SubsHonest'
    BY <2>1 DEF RowInv, SubsHonest, Honest
  <2> QED
    BY <2>1, <2>4, <2>6, <2>7 DEF History
<1>7. ASSUME NEW c \in Deletable, StripeDeleteCustomer(c)
      PROVE  History
  BY <1>7, SameHistory DEF StripeDeleteCustomer
<1> QED
  BY <1>2, <1>4, <1>5, <1>6, <1>7 DEF StripeNext

-----------------------------------------------------------------------------
(* The steps of the handlers.                                                       *)

\* Whatever the row, an upsert of an honest state makes it honest.
LEMMA UpsertHonest ==
  ASSUME NEW row \in Row, NEW in \in Row, in.sub # None, Honest(in.sub, in),
         Named(in.price, in.plan)
  PROVE  RowHonest(upsertForTenant(row, in))
<1>1. in.price \in Catalog => in.plan # None
  BY NoneAssumption DEF Named
<1> QED
  BY <1>1 DEF upsertForTenant, Given, RowHonest, Honest, Named

LEMMA MarkCanceledHonest ==
  ASSUME NEW row \in Row, RowHonest(row), NEW c, NEW period
  PROVE  RowHonest(markCanceledByTenant(row, c, period))
<1>1. None \notin Catalog
  BY NoneAssumption, CatalogAssumption
<1> QED
  BY <1>1 DEF markCanceledByTenant, RowHonest, Named, Row

LEMMA SetCustomerHonest ==
  ASSUME RowInv, NEW row \in Row, RowHonest(row), NEW c
  PROVE  RowHonest(setStripeCustomerId(row, c))
<1>1. row.sub # None => row.sub \in Subs /\ row.status # "none"
  BY DEF RowHonest, Honest, RowInv, SubsHonest
<1> QED
  BY <1>1 DEF setStripeCustomerId, RowHonest, Named, Honest, Row

\* A step of one handler, and what it does to the rows.
LEMMA HandlerHonest ==
  ASSUME IsolationInv, RowInv, NamesKept, UNCHANGED <<stripeVars, req>>,
         NEW w \in Workers, NEW h \in Hook, hook' = [hook EXCEPT ![w] = h],
         h.pc \in {"lookup", "write"} => Honest(events[h.ev].sub, h.snap),
         h.pc = "write" /\ events[h.ev].type # "customer.subscription.deleted" =>
            Named(h.snap.price, h.plan),
         \A t \in Tenants : rows'[t] = rows[t] \/ RowHonest(rows'[t])
  PROVE  RowInv'
<1>1. UNCHANGED <<subs, events, seen>>
  BY DEF stripeVars
<1>2. History
  BY <1>1, SameHistory
<1>3. hook'[w] = h /\ \A v \in Workers : v # w => hook'[v] = hook[v]
  BY DEF IsolationInv, BillingTypeOK, HookTypeOK
<1>4. HookHonest(w)'
  BY <1>1, <1>3 DEF HookHonest, Honest, Named, NamesKept
<1>5. ASSUME NEW t \in Tenants PROVE rows'[t] = rows[t] \/ RowHonest(rows[t])'
  BY <1>1 DEF RowHonest, Honest, Named, NamesKept
<1> QED
  BY <1>2, <1>3, <1>4, <1>5, RowFrame

\* What a lookup finds is a name the plan has had.
LEMMA PlanKeyNamed ==
  ASSUME PlanTypeOK, NEW price
  PROVE  Named(price, PlanKey(price))
BY DEF PlanTypeOK, PlanKey, Named

LEMMA IdleHookType == IdleHook \in Hook /\ IdleHook.pc = "idle"
BY DEF IdleHook, Hook, HookPc, NoSub, Snapshot, Opt, RowStatus, SubStatus, Periods

LEMMA DeliverHonest ==
  ASSUME IsolationInv, RowInv, NamesKept, NEW w \in Workers,
         NEW e \in 1 .. Len(events), Deliver(w, e), UNCHANGED <<stripeVars, req>>
  PROVE  RowInv'
<1> DEFINE h == Handling(e)
<1>1. UNCHANGED <<subs, events, seen, rows, req>>
  BY DEF stripeVars, Deliver
<1>2. hook' = hook \/ hook' = [hook EXCEPT ![w] = h]
  BY DEF Deliver, ClaimOwned, ClaimRefused
<1>3. \A v \in Workers : hook'[v] = hook[v] \/ hook'[v].pc \notin {"lookup", "write"}
  BY <1>2 DEF NextPc, Handling, IsolationInv, BillingTypeOK, HookTypeOK
<1>4. \A v \in Workers : hook'[v] = hook[v] \/ HookHonest(v)'
  BY <1>3 DEF HookHonest
<1> QED
  BY <1>1, <1>4, SameHistory, RowFrame

LEMMA HandlerStepHonest ==
  ASSUME IsolationInv, RowInv, NamesKept, PlanTypeOK, NEW w \in Workers,
         HookStep(w) \/ HandlerFails(w) \/ Crash(w), UNCHANGED <<stripeVars, req>>
  PROVE  RowInv'
<1>1. hook[w].pc # "idle" /\ hook \in [Workers -> Hook]
  BY DEF HookStep, HandlerFails, Crash, CheckoutRetrieve, ResolveTenant, FindExisting,
         LookupPlan, WriteUpsert, WriteCanceled, Publish, IsolationInv, BillingTypeOK, HookTypeOK
<1>2. /\ hook[w] \in Hook /\ HookBelongs(w) /\ EventOf(w) \in Event /\ EventBelongs(EventOf(w))
      /\ EventOf(w).sub \in Subs /\ EventOf(w).snap \in Snapshot
      /\ subs[EventOf(w).sub] \in Snapshot /\ hook[w].ev \in 1 .. Len(events)
  BY <1>1, HookFacts
<1>3. ASSUME hook' = [hook EXCEPT ![w] = IdleHook], UNCHANGED rows
      PROVE  RowInv'
  <2> HIDE DEF IdleHook
  <2> QED
    BY <1>3, IdleHookType, HandlerHonest
<1>4. ASSUME NEW h \in Hook, hook' = [hook EXCEPT ![w] = h], h.pc \notin {"lookup", "write"},
             UNCHANGED rows
      PROVE  RowInv'
  BY <1>4, HandlerHonest
<1>5. ASSUME NEW h \in Hook, hook' = [hook EXCEPT ![w] = h], h.ev = hook[w].ev,
             Honest(EventOf(w).sub, h.snap), UNCHANGED rows,
             h.pc = "write" /\ EventOf(w).type # "customer.subscription.deleted" =>
                Named(h.snap.price, h.plan)
      PROVE  RowInv'
  BY <1>5, HandlerHonest DEF EventOf
<1>6. CASE CheckoutRetrieve(w)
  <2> DEFINE h == [hook[w] EXCEPT !.pc = "lookup", !.snap = subs[EventOf(w).sub]]
  <2>1. /\ h \in Hook /\ hook' = [hook EXCEPT ![w] = h] /\ h.ev = hook[w].ev /\ h.pc = "lookup"
        /\ h.snap = subs[EventOf(w).sub] /\ UNCHANGED rows
    BY <1>1, <1>2, <1>6 DEF CheckoutRetrieve, Hook, HookPc
  <2>2. Honest(EventOf(w).sub, subs[EventOf(w).sub])
    BY <1>2 DEF EventBelongs, RowInv, SubsHonest
  <2> HIDE DEF h
  <2> QED
    BY <1>5, <2>1, <2>2
<1>7. CASE ResolveTenant(w)
  <2> DEFINE tenant == TenantOfCustomer(EventOf(w).snap.cust)
             h(pc)  == [hook[w] EXCEPT !.pc = pc, !.tenant = tenant]
  <2>1. tenant \in Opt(Tenants) \/ EventOf(w).snap.cust = None
    BY <1>2 DEF TenantOfCustomer, Opt, Snapshot, IsolationInv, BillingTypeOK, StripeTypeOK
  <2>2. CASE hook' = [hook EXCEPT ![w] = IdleHook]
    BY <1>3, <1>7, <2>2 DEF ResolveTenant
  <2>3. EventOf(w).snap.cust # None
    BY <1>2, <1>7, NoneAssumption
       DEF ResolveTenant, HookBelongs, EventOf, EventBelongs, IsolationInv, SubsHaveOwners,
           OwnsSub, OwnsCustomer
  <2>4. ASSUME NEW pc \in {"find", "publish"}, hook' = [hook EXCEPT ![w] = h(pc)]
        PROVE  RowInv'
    <3>1. h(pc) \in Hook /\ h(pc).pc \notin {"lookup", "write"} /\ UNCHANGED rows
      BY <1>2, <1>7, <2>1, <2>3 DEF Hook, HookPc, ResolveTenant
    <3> QED
      BY <1>4, <2>4, <3>1
  <2> QED
    BY <1>2, <1>7, <2>2, <2>4 DEF ResolveTenant, Answer
<1>8. CASE FindExisting(w)
  <2> DEFINE tenant == Given(hook[w].tenant, findByStripeSubscriptionId(rows, EventOf(w).sub))
             h == [hook[w] EXCEPT !.pc = FoundPc(EventOf(w).type), !.tenant = tenant,
                                  !.snap = EventOf(w).snap]
  <2>1. tenant \in Opt(Tenants)
    BY <1>2, FindExistingType DEF Given, Hook
  <2>2. CASE hook' = [hook EXCEPT ![w] = IdleHook]
    BY <1>3, <1>8, <2>2 DEF FindExisting
  <2>3. CASE hook' = [hook EXCEPT ![w] = h]
    <3>1. /\ h \in Hook /\ h.ev = hook[w].ev /\ h.snap = EventOf(w).snap /\ UNCHANGED rows
          /\ h.pc = FoundPc(EventOf(w).type)
      BY <1>2, <1>8, <2>1 DEF Hook, HookPc, FoundPc, FindExisting
    <3>2. EventOf(w).type # "checkout.session.completed"
      BY <1>2, <1>8 DEF FindExisting, HookBelongs, EventOf
    <3>3. Honest(EventOf(w).sub, EventOf(w).snap)
      BY <1>2, <3>2 DEF RowInv, EventsHonest, EventHonest, EventOf
    <3> HIDE DEF h
    <3>4. h.pc = "write" => EventOf(w).type = "customer.subscription.deleted"
      BY <3>1 DEF FoundPc
    <3> QED
      BY <1>5, <2>3, <3>1, <3>3, <3>4
  <2> QED
    BY <1>2, <1>8, <2>2, <2>3 DEF FindExisting, Answer
<1>9. CASE WriteUpsert(w) \/ WriteCanceled(w)
  <2>1. /\ hook[w].pc = "write" /\ hook[w].tenant \in Tenants
        /\ Honest(EventOf(w).sub, hook[w].snap) /\ hook[w].snap \in Snapshot
    BY <1>2, <1>9 DEF WriteUpsert, WriteCanceled, HookBelongs, RowInv, HookHonest, EventOf, Hook
  <2>2. rows \in [Tenants -> Row] /\ rows[hook[w].tenant] \in Row
        /\ RowHonest(rows[hook[w].tenant])
    BY <2>1 DEF IsolationInv, BillingTypeOK, HookTypeOK, RowInv
  <2>3. PICK row : rows' = [rows EXCEPT ![hook[w].tenant] = row] /\ RowHonest(row)
    <3>1. CASE WriteUpsert(w)
      <4> DEFINE in == UpsertInput(EventOf(w).sub, hook[w].snap, hook[w].plan)
      <4>0. hook[w].plan \in Opt(PlanKeys) /\ Named(hook[w].snap.price, hook[w].plan)
        BY <1>2, <3>1 DEF WriteUpsert, RowInv, HookHonest, EventOf, Hook
      <4>1. in \in Row
        BY <1>2, <2>1, <4>0, UpsertInputType DEF Opt
      <4>2. in.sub = EventOf(w).sub /\ in.sub # None /\ Honest(in.sub, in)
            /\ Named(in.price, in.plan)
        BY <1>2, <2>1, <4>0, NoneAssumption DEF UpsertInput, Honest
      <4> HIDE DEF in
      <4>3. RowHonest(upsertForTenant(rows[hook[w].tenant], in))
        BY <2>2, <4>1, <4>2, UpsertHonest
      <4> QED
        BY <3>1, <4>3 DEF WriteUpsert, in
    <3>2. CASE WriteCanceled(w)
      <4>1. RowHonest(markCanceledByTenant(rows[hook[w].tenant], hook[w].snap.cust,
                                           hook[w].snap.period))
        BY <2>2, MarkCanceledHonest
      <4> QED
        BY <3>2, <4>1 DEF WriteCanceled
    <3> QED
      BY <1>9, <3>1, <3>2
  <2>4. \A t \in Tenants : rows'[t] = rows[t] \/ RowHonest(rows'[t])
    BY <2>1, <2>2, <2>3
  <2>5. CASE hook' = [hook EXCEPT ![w] = IdleHook]
    <3> HIDE DEF IdleHook
    <3> QED
      BY <2>4, <2>5, IdleHookType, HandlerHonest
  <2>6. CASE Goto(w, "publish")
    <3> DEFINE h == [hook[w] EXCEPT !.pc = "publish"]
    <3>1. h \in Hook /\ h.pc = "publish" /\ hook' = [hook EXCEPT ![w] = h]
      BY <1>1, <1>2, <2>6 DEF Goto, Hook, HookPc
    <3> HIDE DEF h
    <3> QED
      BY <2>4, <3>1, HandlerHonest
  <2> QED
    BY <1>9, <2>5, <2>6 DEF WriteUpsert, WriteCanceled, PublishOrAnswer, Answer
<1>10. CASE Publish(w) \/ HandlerFails(w) \/ Crash(w)
  BY <1>3, <1>10 DEF Publish, HandlerFails, Crash, Answer
<1>11. CASE LookupPlan(w)
  <2> DEFINE plan == PlanKey(hook[w].snap.price)
             h    == [hook[w] EXCEPT !.pc = "write", !.plan = plan]
  <2>1. plan \in Opt(PlanKeys) /\ Named(hook[w].snap.price, plan)
    BY <1>2, PlanKeyType, PlanKeyNamed DEF Hook, Snapshot
  <2> HIDE DEF plan
  <2>2. /\ h \in Hook /\ hook' = [hook EXCEPT ![w] = h] /\ h.ev = hook[w].ev
        /\ h.snap = hook[w].snap /\ h.plan = plan /\ UNCHANGED rows
    BY <1>1, <1>2, <1>11, <2>1 DEF LookupPlan, Hook, HookPc, plan
  <2>3. Honest(EventOf(w).sub, hook[w].snap)
    BY <1>11 DEF LookupPlan, RowInv, HookHonest, EventOf
  <2> HIDE DEF h
  <2> QED
    BY <1>5, <2>1, <2>2, <2>3
<1> QED
  BY <1>6, <1>7, <1>8, <1>9, <1>10, <1>11 DEF HookStep

-----------------------------------------------------------------------------
(* The steps of the requests.                                                       *)

\* A step of one request, and what it does to the rows.
LEMMA RequestHonestStep ==
  ASSUME IsolationInv, RowInv, History, UNCHANGED hookVars,
         NEW r \in Requests, NEW q \in Request, req' = [req EXCEPT ![r] = q],
         RequestHonest(q)',
         \A t \in Tenants : rows'[t] = rows[t] \/ RowHonest(rows[t])'
  PROVE  RowInv'
<1>1. hook' = hook
  BY DEF hookVars
<1>2. req'[r] = q /\ \A v \in Requests : v # r => req'[v] = req[v]
  BY DEF IsolationInv, BillingTypeOK, RequestTypeOK
<1>3. RequestHonest(req[r])'
  BY <1>2 DEF RequestHonest, Honest, Named
<1> QED
  BY <1>1, <1>2, <1>3, RowFrame

LEMMA RequestMovesHonest ==
  ASSUME IsolationInv, RowInv, NamesKept, UNCHANGED <<subs, events, seen, hookVars, rows>>,
         NEW r \in Requests, NEW q \in Request, req' = [req EXCEPT ![r] = q],
         RequestHonest(q)
  PROVE  RowInv'
<1>1. History
  BY SameHistory
<1>2. RequestHonest(q)'
  BY NamedStays DEF RequestHonest, Honest
<1> QED
  BY <1>1, <1>2, RequestHonestStep

LEMMA RequestWritesHonest ==
  ASSUME IsolationInv, RowInv, NamesKept, UNCHANGED <<stripeVars, hookVars>>,
         NEW r \in Requests, req[r].pc # "idle",
         NEW row, RowHonest(row), rows' = [rows EXCEPT ![req[r].tenant] = row],
         NEW q \in Request, req' = [req EXCEPT ![r] = q], RequestHonest(q)
  PROVE  RowInv'
<1>1. UNCHANGED <<subs, events, seen>>
  BY DEF stripeVars
<1>2. History
  BY <1>1, SameHistory
<1>3. RequestHonest(q)' /\ RowHonest(row)'
  BY <1>1, NamedStays DEF RequestHonest, RowHonest, Honest
<1>4. rows \in [Tenants -> Row] /\ req[r].tenant \in Tenants
  BY RequestFacts
<1>5. \A t \in Tenants : rows'[t] = rows[t] \/ rows'[t] = row
  BY <1>4
<1>6. \A t \in Tenants : rows'[t] = rows[t] \/ RowHonest(rows[t])'
  BY <1>3, <1>5 DEF RowHonest, Honest, Named
<1> QED
  BY <1>2, <1>3, <1>6, RequestHonestStep

LEMMA IdleHonest == IdleRequest \in Request /\ RequestHonest(IdleRequest)
BY IdleRequestType DEF RequestHonest

\* A request upserts an honest state, and ends.
LEMMA UpsertEndsHonest ==
  ASSUME IsolationInv, RowInv, NamesKept, UNCHANGED <<stripeVars, hookVars>>,
         NEW r \in Requests, req[r].pc # "idle",
         NEW in \in Row, in.sub # None, Honest(in.sub, in), Named(in.price, in.plan),
         WriteRow(r, in),
         NEW q \in Request, req' = [req EXCEPT ![r] = q], RequestHonest(q)
  PROVE  RowInv'
<1>1. rows \in [Tenants -> Row] /\ req[r].tenant \in Tenants
  BY RequestFacts
<1>2. RowHonest(upsertForTenant(rows[req[r].tenant], in))
  BY <1>1, UpsertHonest
<1>3. rows' = [rows EXCEPT ![req[r].tenant] = upsertForTenant(rows[req[r].tenant], in)]
  BY DEF WriteRow
<1> QED
  BY <1>2, <1>3, RequestWritesHonest

\* A request learns the plan key of an honest state, and will write it.
LEMMA RequestLooksUpHonest ==
  ASSUME IsolationInv, RowInv, NamesKept, UNCHANGED <<subs, events, seen, hookVars, rows>>,
         NEW r \in Requests, req[r] \in Request, Honest(req[r].sub, req[r].snap),
         NEW plan \in Opt(PlanKeys), Named(req[r].snap.price, plan),
         NEW pc \in {"confirmWrite", "backfillWrite"},
         req' = [req EXCEPT ![r].pc = pc, ![r].plan = plan]
  PROVE  RowInv'
<1> DEFINE q == [req[r] EXCEPT !.pc = pc, !.plan = plan]
<1>1. /\ q \in Request /\ q.pc = pc /\ q.plan = plan
      /\ q.sub = req[r].sub /\ q.snap = req[r].snap
  BY DEF Request, RequestPc
<1>2. req' = [req EXCEPT ![r] = q]
  BY DEF IsolationInv, BillingTypeOK, RequestTypeOK, Request
<1> HIDE DEF q
<1>3. RequestHonest(q)
  BY <1>1 DEF RequestHonest
<1> QED
  BY <1>1, <1>2, <1>3, RequestMovesHonest

\* The subscription a tenant owns has a state Stripe has shown.
LEMMA OwnedHonest ==
  ASSUME IsolationInv, RowInv, NEW t \in Tenants, NEW s \in Subs, OwnsSub(t, s)
  PROVE  Honest(s, subs[s])
BY NoneAssumption DEF IsolationInv, SubsHaveOwners, OwnsSub, OwnsCustomer, RowInv, SubsHonest

LEMMA ReadsHonest ==
  ASSUME IsolationInv, RowInv, NamesKept, NEW r \in Requests, NEW t \in Tenants,
         CheckoutRead(r, t) \/ CancelRead(r, t) \/ BackfillRead(r, t)
  PROVE  RowInv'
<1>1. UNCHANGED <<subs, events, seen, hookVars, rows>>
  BY DEF CheckoutRead, CancelRead, BackfillRead, stripeVars
<1>2. rows[t] \in Row /\ RowHonest(rows[t])
  BY DEF IsolationInv, BillingTypeOK, HookTypeOK, RowInv
<1>3. ASSUME NEW pc \in RequestPc
      PROVE  /\ Loaded(t, pc) \in Request /\ Loaded(t, pc).pc = pc
             /\ Loaded(t, pc).sub = rows[t].sub
             /\ Loaded(t, pc).price = rows[t].price /\ Loaded(t, pc).plan = rows[t].plan
  BY <1>2, IdleRequestType DEF Loaded, Request, Row, Opt
<1>4. CASE CheckoutRead(r, t)
  <2>1. PICK pc \in {"createCustomer", "updateCustomer"} :
               req' = [req EXCEPT ![r] = Loaded(t, pc)]
    BY <1>4 DEF CheckoutRead
  <2>2. Loaded(t, pc) \in Request /\ RequestHonest(Loaded(t, pc))
    BY <1>3, <2>1 DEF RequestPc, RequestHonest
  <2> QED
    BY <1>1, <2>1, <2>2, RequestMovesHonest
<1>5. CASE CancelRead(r, t)
  <2> DEFINE q == Loaded(t, "cancelStripe")
  <2>1. req' = [req EXCEPT ![r] = q] /\ rows[t].sub # None
    BY <1>5 DEF CancelRead
  <2>2. q \in Request /\ RequestHonest(q)
    BY <1>2, <1>3, <2>1 DEF RequestPc, RequestHonest, RowHonest, Honest
  <2> QED
    BY <1>1, <2>1, <2>2, RequestMovesHonest
<1>6. CASE BackfillRead(r, t)
  <2> DEFINE loaded == Loaded(t, "backfillRetrieve")
             q      == [loaded EXCEPT !.snap = Shown(rows[t])]
  <2>1. req' = [req EXCEPT ![r] = q]
    BY <1>6 DEF BackfillRead
  <2>2. Shown(rows[t]) \in Snapshot
    BY <1>2 DEF Shown, Snapshot, Row
  <2>3. /\ loaded \in Request /\ loaded.pc = "backfillRetrieve" /\ loaded.sub = rows[t].sub
        /\ loaded.plan = rows[t].plan
    BY <1>3 DEF RequestPc
  <2> HIDE DEF loaded
  <2>4. /\ q \in Request /\ q.pc = "backfillRetrieve" /\ q.sub = rows[t].sub
        /\ q.plan = rows[t].plan /\ q.snap.price = rows[t].price
        /\ q.snap.status = rows[t].status
    BY <2>2, <2>3 DEF Request, Shown
  <2> HIDE DEF q
  <2>5. RequestHonest(q)
    BY <1>2, <2>4 DEF RequestHonest, RowHonest, Honest
  <2> QED
    BY <1>1, <2>1, <2>4, <2>5, RequestMovesHonest
<1> QED
  BY <1>4, <1>5, <1>6

LEMMA ConfirmSessionHonest ==
  ASSUME IsolationInv, RowInv, NamesKept, NEW r \in Requests, NEW t \in Tenants, 
         NEW ses \in sessions, ConfirmSession(r, t, ses)
  PROVE  RowInv'
<1> DEFINE q == [IdleRequest EXCEPT !.pc = "confirmRetrieve", !.tenant = t, !.sub = ses.sub]
<1>1. req' = [req EXCEPT ![r] = q] /\ UNCHANGED <<subs, events, seen, hookVars, rows>>
  BY DEF ConfirmSession, stripeVars
<1>2. ses.sub \in Opt(Subs)
  BY DEF IsolationInv, BillingTypeOK, StripeTypeOK, Session
<1>3. q \in Request /\ q.pc = "confirmRetrieve"
  BY <1>2, IdleRequestType DEF Request, RequestPc, Opt
<1> HIDE DEF q
<1>4. RequestHonest(q)
  BY <1>3 DEF RequestHonest
<1> QED
  BY <1>1, <1>3, <1>4, RequestMovesHonest

LEMMA CheckoutHonest ==
  ASSUME IsolationInv, RowInv, NamesKept, NEW r \in Requests,
         \/ \E c \in Customers : CheckoutCreateCustomer(r, c)
         \/ CheckoutUpdateCustomer(r) \/ CheckoutCreateSession(r)
         \/ CheckoutSetCustomer(r)
  PROVE  RowInv'
<1>1. req[r].pc # "idle" /\ UNCHANGED <<subs, events, seen, hookVars>>
  BY DEF CheckoutCreateCustomer, CheckoutUpdateCustomer, CheckoutCreateSession,
         CheckoutSetCustomer, stripeVars
<1>2. /\ req[r] \in Request /\ req \in [Requests -> Request] /\ req[r].tenant \in Tenants
      /\ rows \in [Tenants -> Row]
  BY <1>1, RequestFacts
<1>3. ASSUME NEW c \in Customers, CheckoutCreateCustomer(r, c)
      PROVE  RowInv'
  <2> DEFINE q == [req[r] EXCEPT !.pc = "setCustomer", !.cust = c]
  <2>1. q \in Request /\ q.pc = "setCustomer" /\ req' = [req EXCEPT ![r] = q] /\ UNCHANGED rows
    BY <1>2, <1>3 DEF CheckoutCreateCustomer, Request, RequestPc, Opt
  <2> HIDE DEF q
  <2>2. RequestHonest(q)
    BY <2>1 DEF RequestHonest
  <2> QED
    BY <1>1, <2>1, <2>2, RequestMovesHonest
<1> DEFINE q == [req[r] EXCEPT !.pc = "createSession"]
<1>4. q \in Request /\ q.pc = "createSession"
  BY <1>2 DEF Request, RequestPc
<1>5. RequestHonest(q)
  BY <1>4 DEF RequestHonest
<1>6. CASE CheckoutUpdateCustomer(r)
  <2>1. req' = [req EXCEPT ![r] = q] /\ UNCHANGED rows
    BY <1>2, <1>6 DEF CheckoutUpdateCustomer
  <2> HIDE DEF q
  <2> QED
    BY <1>1, <1>4, <1>5, <2>1, RequestMovesHonest
<1>7. CASE CheckoutCreateSession(r)
  BY <1>1, <1>7, IdleHonest, RequestMovesHonest DEF CheckoutCreateSession, Finish
<1>8. CASE CheckoutSetCustomer(r)
  <2>1. /\ req' = [req EXCEPT ![r] = q] /\ UNCHANGED stripeVars
        /\ rows' = [rows EXCEPT ![req[r].tenant] =
                      setStripeCustomerId(rows[req[r].tenant], req[r].cust)]
    BY <1>2, <1>8 DEF CheckoutSetCustomer
  <2>2. RowHonest(rows[req[r].tenant]) /\ rows[req[r].tenant] \in Row
    BY <1>2 DEF RowInv
  <2>3. RowHonest(setStripeCustomerId(rows[req[r].tenant], req[r].cust))
    BY <2>2, SetCustomerHonest
  <2> HIDE DEF q
  <2> QED
    BY <1>1, <1>4, <1>5, <2>1, <2>3, RequestWritesHonest
<1> QED
  BY <1>3, <1>6, <1>7, <1>8

LEMMA ConfirmHonest ==
  ASSUME IsolationInv, RowInv, NamesKept, PlanTypeOK, NEW r \in Requests,
         ConfirmRetrieve(r) \/ ConfirmLookup(r) \/ ConfirmWrite(r)
  PROVE  RowInv'
<1>1. /\ req[r].pc \in {"confirmRetrieve", "confirmLookup", "confirmWrite"}
      /\ UNCHANGED <<subs, events, seen, stripeVars, hookVars>>
  BY DEF ConfirmRetrieve, ConfirmLookup, ConfirmWrite, stripeVars
<1>2. /\ req[r] \in Request /\ RequestBelongs(req[r]) /\ req \in [Requests -> Request]
      /\ req[r].tenant \in Tenants
  BY <1>1, RequestFacts
<1>3. req[r].sub \in Subs /\ OwnsSub(req[r].tenant, req[r].sub) /\ req[r].sub # None
  BY <1>1, <1>2 DEF RequestBelongs, Request, Opt
<1>4. CASE ConfirmRetrieve(r)
  <2> DEFINE q == [req[r] EXCEPT !.pc = "confirmLookup", !.snap = subs[req[r].sub]]
  <2>1. /\ q \in Request /\ req' = [req EXCEPT ![r] = q] /\ UNCHANGED rows
        /\ q.pc = "confirmLookup" /\ q.sub = req[r].sub /\ q.snap = subs[req[r].sub]
    BY <1>2, <1>3, <1>4 DEF ConfirmRetrieve, Request, RequestPc, IsolationInv, BillingTypeOK, StripeTypeOK
  <2> HIDE DEF q
  <2>2. Honest(q.sub, q.snap)
    BY <1>2, <1>3, <2>1, OwnedHonest
  <2>3. RequestHonest(q)
    BY <2>1, <2>2 DEF RequestHonest
  <2> QED
    BY <1>1, <2>1, <2>3, RequestMovesHonest
<1>5. CASE ConfirmWrite(r)
  <2> DEFINE in == UpsertInput(req[r].sub, req[r].snap, req[r].plan)
  <2>1. Honest(req[r].sub, req[r].snap) /\ Named(req[r].snap.price, req[r].plan)
    BY <1>3, <1>5 DEF ConfirmWrite, RowInv, RequestHonest
  <2>2. in \in Row
    BY <1>2, UpsertInputType DEF Request
  <2>3. in.sub # None /\ Honest(in.sub, in) /\ Named(in.price, in.plan)
    BY <1>3, <2>1 DEF UpsertInput, Honest
  <2>4. WriteRow(r, in) /\ req' = [req EXCEPT ![r] = IdleRequest]
    BY <1>5 DEF ConfirmWrite, Finish
  <2> HIDE DEF in
  <2> QED
    BY <1>1, <2>2, <2>3, <2>4, IdleHonest, UpsertEndsHonest
<1>6. CASE ConfirmLookup(r)
  <2> DEFINE plan == PlanKey(req[r].snap.price)
  <2>1. plan \in Opt(PlanKeys) /\ Named(req[r].snap.price, plan)
    BY <1>2, PlanKeyType, PlanKeyNamed DEF Request, Snapshot
  <2>2. Honest(req[r].sub, req[r].snap)
    BY <1>3, <1>6 DEF ConfirmLookup, RowInv, RequestHonest
  <2>3. req' = [req EXCEPT ![r].pc = "confirmWrite", ![r].plan = plan] /\ UNCHANGED rows
    BY <1>6 DEF ConfirmLookup
  <2> HIDE DEF plan
  <2> QED
    BY <1>1, <1>2, <2>1, <2>2, <2>3, RequestLooksUpHonest
<1> QED
  BY <1>4, <1>5, <1>6

LEMMA CancelHonest ==
  ASSUME IsolationInv, RowInv, NamesKept, NEW r \in Requests,
         (\E immediate \in BOOLEAN : CancelStripe(r, immediate)) \/ CancelWrite(r)
  PROVE  RowInv'
<1>1. req[r].pc \in {"cancelStripe", "cancelWrite"} /\ UNCHANGED hookVars
  BY DEF CancelStripe, CancelWrite
<1>2. /\ req[r] \in Request /\ RequestBelongs(req[r]) /\ req \in [Requests -> Request]
      /\ req[r].tenant \in Tenants /\ RequestHonest(req[r])
  BY <1>1, RequestFacts DEF RowInv
<1>3. /\ req[r].sub \in Subs /\ req[r].sub # None
      /\ req[r].price # None /\ Named(req[r].price, req[r].plan)
  BY <1>1, <1>2 DEF RequestBelongs, RequestHonest, Request, Opt
<1>4. ASSUME NEW immediate \in BOOLEAN, CancelStripe(r, immediate)
      PROVE  RowInv'
  <2>1. PICK s \in Subs : s = req[r].sub
    BY <1>3
  <2>2. PICK state : state = IF immediate THEN [subs[s] EXCEPT !.status = "canceled", !.atEnd = FALSE]
                                          ELSE [subs[s] EXCEPT !.atEnd = TRUE]
    OBVIOUS
  <2>3. PICK type \in {"customer.subscription.updated", "customer.subscription.deleted"} :
               /\ SetSub(s, state) /\ Live(s) /\ UNCHANGED rows
               /\ events' = events \/ emit(type, s, None, state)
               /\ req' = [req EXCEPT ![r].pc = "cancelWrite", ![r].snap = state]
    BY <1>4, <2>1, <2>2 DEF CancelStripe
  <2>4. subs \in [Subs -> Snapshot] /\ seen \in [Subs -> SUBSET RowStatus]
    BY DEF IsolationInv, BillingTypeOK, StripeTypeOK
  <2>5. state \in Snapshot /\ state.status # "none" /\ state.price = subs[s].price
    BY <2>2, <2>3, <2>4 DEF Snapshot, RowStatus, SubStatus, Live
  <2>6. state.price # None
    BY <2>3, <2>5 DEF Live, RowInv, SubsHonest, Honest
  <2>7. type \in EventTypes /\ type # "checkout.session.completed" /\ None \in Opt(Tenants)
    BY DEF EventTypes, Opt
  <2>8. History
    BY <2>3, <2>5, <2>6, <2>7, SetSubHistory
  <2>9. PICK q \in Request : q = [req[r] EXCEPT !.pc = "cancelWrite", !.snap = state]
    BY <1>2, <2>5 DEF Request, RequestPc
  <2>10. /\ req' = [req EXCEPT ![r] = q] /\ q.pc = "cancelWrite" /\ q.sub = s /\ q.snap = state
         /\ q.price = req[r].price /\ q.plan = req[r].plan
    BY <1>2, <2>1, <2>3, <2>9 DEF Request
  <2>11. state.status \in seen'[s]
    BY <2>3, <2>4 DEF SetSub
  <2>12. Named(q.price, q.plan)'
    BY <1>3, <2>10, NamedStays
  <2>13. RequestHonest(q)'
    BY <1>3, <2>6, <2>10, <2>11, <2>12 DEF RequestHonest, Honest
  <2> QED
    BY <1>1, <2>3, <2>8, <2>10, <2>13, RequestHonestStep
<1>5. CASE CancelWrite(r)
  <2> DEFINE in == CancelInput(req[r])
  <2>1. Honest(req[r].sub, req[r].snap)
    BY <1>2, <1>3, <1>5 DEF CancelWrite, RequestHonest
  <2>2. in \in Row
    BY <1>2, CancelInputType
  <2>3. in.sub # None /\ Honest(in.sub, in) /\ Named(in.price, in.plan)
    BY <1>3, <2>1 DEF CancelInput, Honest
  <2>4. /\ WriteRow(r, in) /\ req' = [req EXCEPT ![r] = IdleRequest]
        /\ UNCHANGED <<stripeVars, hookVars>>
    BY <1>5 DEF CancelWrite, Finish
  <2> HIDE DEF in
  <2> QED
    BY <1>1, <2>2, <2>3, <2>4, IdleHonest, UpsertEndsHonest
<1> QED
  BY <1>4, <1>5

LEMMA BackfillHonest ==
  ASSUME IsolationInv, RowInv, NamesKept, PlanTypeOK, NEW r \in Requests,
         \/ \E s \in Subs : BackfillRetrieve(r, s)
         \/ BackfillLookup(r) \/ BackfillWrite(r) \/ BackfillNothing(r) \/ BackfillUpcoming(r)
  PROVE  RowInv'
<1>1. /\ req[r].pc \in {"backfillRetrieve", "backfillLookup", "backfillWrite", "backfillUpcoming"}
      /\ UNCHANGED <<subs, events, seen, stripeVars, hookVars>>
  BY DEF BackfillRetrieve, BackfillLookup, BackfillWrite, BackfillNothing, BackfillUpcoming, stripeVars
<1>2. /\ req[r] \in Request /\ RequestBelongs(req[r]) /\ req \in [Requests -> Request]
      /\ req[r].tenant \in Tenants /\ RequestHonest(req[r])
  BY <1>1, RequestFacts DEF RowInv
<1>3. ASSUME NEW s \in Subs, BackfillRetrieve(r, s)
      PROVE  RowInv'
  <2> DEFINE q == [req[r] EXCEPT !.pc = "backfillLookup", !.sub = s, !.snap = subs[s]]
  <2>1. /\ q \in Request /\ req' = [req EXCEPT ![r] = q] /\ UNCHANGED rows
        /\ q.pc = "backfillLookup" /\ q.sub = s /\ q.snap = subs[s]
    BY <1>2, <1>3 DEF BackfillRetrieve, Request, RequestPc, Opt, IsolationInv, BillingTypeOK, StripeTypeOK
  <2> HIDE DEF q
  <2>2. OwnsSub(req[r].tenant, s)
    BY <1>2, <1>3, ResolvedBelongs DEF BackfillRetrieve
  <2>3. Honest(s, subs[s])
    BY <1>2, <2>2, OwnedHonest
  <2>4. RequestHonest(q)
    BY <2>1, <2>3 DEF RequestHonest
  <2> QED
    BY <1>1, <2>1, <2>4, RequestMovesHonest
<1>4. ASSUME req[r].pc \in {"backfillWrite", "backfillUpcoming"}, NEW period \in Periods,
             WriteRow(r, BackfillInput(req[r], period)),
             NEW q \in Request, req' = [req EXCEPT ![r] = q], RequestHonest(q)
      PROVE  RowInv'
  <2> DEFINE in == BackfillInput(req[r], period)
  <2>1. in \in Row
    BY <1>2, BackfillInputType
  <2>2. in.sub # None /\ Honest(in.sub, in) /\ Named(in.price, in.plan)
    BY <1>2, <1>4 DEF RequestBelongs, RequestHonest, BackfillInput, Honest
  <2> HIDE DEF in
  <2>3. WriteRow(r, in)
    BY <1>4 DEF in
  <2> QED
    BY <1>1, <1>4, <2>1, <2>2, <2>3, UpsertEndsHonest
<1>5. CASE BackfillWrite(r)
  <2> DEFINE q == [req[r] EXCEPT !.pc = "backfillUpcoming"]
  <2>1. /\ req[r].pc = "backfillWrite" /\ req[r].snap.period \in Periods
        /\ WriteRow(r, BackfillInput(req[r], req[r].snap.period))
    BY <1>2, <1>5 DEF BackfillWrite, Request, Snapshot
  <2>2. CASE req' = [req EXCEPT ![r] = IdleRequest]
    BY <1>4, <2>1, <2>2, IdleHonest
  <2>3. CASE req' = [req EXCEPT ![r] = q]
    <3>1. /\ q \in Request /\ q.pc = "backfillUpcoming" /\ q.sub = req[r].sub
          /\ q.snap = req[r].snap /\ q.plan = req[r].plan
      BY <1>2 DEF Request, RequestPc
    <3> HIDE DEF q
    <3>2. RequestHonest(q)
      BY <1>2, <2>1, <3>1 DEF RequestHonest
    <3> QED
      BY <1>4, <2>1, <2>3, <3>1, <3>2
  <2> QED
    BY <1>2, <1>5, <2>2, <2>3 DEF BackfillWrite, Finish
<1>6. CASE BackfillNothing(r)
  <2> DEFINE q == [req[r] EXCEPT !.pc = "backfillUpcoming"]
  <2>1. /\ q \in Request /\ req' = [req EXCEPT ![r] = q] /\ q.pc = "backfillUpcoming"
        /\ q.sub = req[r].sub /\ q.snap = req[r].snap /\ q.plan = req[r].plan
        /\ UNCHANGED rows /\ req[r].pc = "backfillRetrieve"
    BY <1>2, <1>6 DEF BackfillNothing, Request, RequestPc
  <2> HIDE DEF q
  <2>2. RequestHonest(q)
    BY <1>2, <2>1 DEF RequestHonest
  <2> QED
    BY <1>1, <2>1, <2>2, RequestMovesHonest
<1>7. CASE BackfillUpcoming(r)
  <2>1. /\ req[r].pc = "backfillUpcoming" /\ req' = [req EXCEPT ![r] = IdleRequest]
        /\ WriteRow(r, BackfillInput(req[r], {"end"})) /\ {"end"} \in Periods
    BY <1>7 DEF BackfillUpcoming, Finish, Periods
  <2> QED
    BY <1>4, <2>1, IdleHonest
<1>8. CASE BackfillLookup(r)
  <2> DEFINE plan == BackfillPlan(req[r])
  <2>1. plan \in Opt(PlanKeys)
    BY <1>2, PlanKeyType DEF BackfillPlan, Request, Snapshot
  <2>2. Named(req[r].snap.price, plan)
    <3>1. CASE req[r].snap.price \in Catalog
      BY <3>1, PlanKeyNamed DEF BackfillPlan
    <3> QED
      BY <3>1 DEF Named
  <2>3. Honest(req[r].sub, req[r].snap)
    BY <1>2, <1>8 DEF BackfillLookup, RequestBelongs, RequestHonest
  <2>4. req' = [req EXCEPT ![r].pc = "backfillWrite", ![r].plan = plan] /\ UNCHANGED rows
    BY <1>8 DEF BackfillLookup
  <2> HIDE DEF plan
  <2> QED
    BY <1>1, <1>2, <2>1, <2>2, <2>3, <2>4, RequestLooksUpHonest
<1> QED
  BY <1>3, <1>5, <1>6, <1>7, <1>8

-----------------------------------------------------------------------------
LEMMA RowInit == Init => RowInv
<1> SUFFICES ASSUME Init
             PROVE  RowInv
  OBVIOUS
<1>1. /\ subs = [s \in Subs |-> NoSub] /\ events = <<>> /\ seen = [s \in Subs |-> {}]
      /\ hook = [w \in Workers |-> IdleHook]
      /\ rows = [t \in Tenants |-> NoRow]
      /\ req = [r \in Requests |-> IdleRequest]
  BY DEF Init, StripeInit, HookInit, RequestInit
<1>2. None \notin Catalog
  BY NoneAssumption, CatalogAssumption
<1>3. SubsHonest /\ EventsHonest
  BY <1>1 DEF SubsHonest, EventsHonest, NoSub
<1>4. \A w \in Workers : HookHonest(w)
  BY <1>1 DEF HookHonest, IdleHook
<1>5. \A r \in Requests : RequestHonest(req[r])
  BY <1>1, IdleHonest
<1>6. \A t \in Tenants : RowHonest(rows[t])
  BY <1>1, <1>2 DEF RowHonest, Named, NoRow
<1> QED
  BY <1>3, <1>4, <1>5, <1>6 DEF RowInv

\* Only a renaming changes the names of plans, and it drops none they had.
LEMMA NamesStay == PlanTypeOK /\ [Next]_vars => NamesKept
<1>1. UNCHANGED planVars => NamesKept
  BY DEF planVars, NamesKept
<1> QED
  BY <1>1, RenameStep DEF Next, vars, NamesKept

LEMMA RowStep == IsolationInv /\ PlanTypeOK /\ RowInv /\ [Next]_vars => RowInv'
<1> SUFFICES ASSUME IsolationInv, PlanTypeOK, RowInv, [Next]_vars
             PROVE  RowInv'
  OBVIOUS
<1>0. NamesKept
  BY NamesStay
<1>1. CASE StripeNext /\ UNCHANGED <<hookVars, rows, req>>
  <2>1. UNCHANGED <<hook, rows, req>>
    BY <1>1 DEF hookVars
  <2> QED
    BY <1>0, <1>1, <2>1, StripeHistory, RowFrame
<1>2. CASE HookNext /\ UNCHANGED <<stripeVars, req>>
  BY <1>0, <1>2, DeliverHonest, HandlerStepHonest DEF HookNext
<1>3. CASE RequestNext
  <2>1. ASSUME NEW r \in Requests, RequestEnds(r)
        PROVE  RowInv'
    <3>1. UNCHANGED <<subs, events, seen, hookVars, rows>>
      BY <2>1 DEF RequestEnds, stripeVars
    <3> QED
      BY <1>0, <2>1, <3>1, IdleHonest, RequestMovesHonest DEF RequestEnds, Finish
  <2>2. ASSUME NEW r \in Requests, RequestStep(r)
        PROVE  RowInv'
    BY <1>0, <2>1, <2>2, CheckoutHonest, ConfirmHonest, CancelHonest, BackfillHonest
       DEF RequestStep
  <2> QED
    BY <1>0, <1>3, <2>2, ReadsHonest, ConfirmSessionHonest DEF RequestNext
<1>4. CASE UNCHANGED <<stripeVars, hookVars, rows, req>>
  <2>1. UNCHANGED <<subs, events, seen, hook, rows, req>>
    BY <1>4 DEF stripeVars, hookVars
  <2> QED
    BY <1>0, <2>1, SameHistory, RowFrame
<1> QED
  BY <1>1, <1>2, <1>3, <1>4 DEF Next, vars

LEMMA RowInvariant == Spec => []RowInv
<1>1. Init => RowInv
  BY RowInit
<1> QED
  BY <1>1, RowStep, IsolationInvariant, PlanTypeInvariant, PTL DEF Spec

\* A row that names a subscription has a status that subscription was in, whatever
\* handlers and requests of the tenant write between a read and a write.
THEOREM StatusWasReal == Spec => []StatusComesFromStripe
<1>1. RowInv => StatusComesFromStripe
  BY DEF RowInv, RowHonest, Honest, StatusComesFromStripe
<1> QED
  BY <1>1, RowInvariant, PTL

\* A row with a price of the catalog keeps a name that the plan of that price has had,
\* whenever administrators rename plans, although name and price come from two reads and
\* cancelSubscription and the backfill write them back from an earlier read of the row.
THEOREM PlanKeyIsAName == Spec => []PlanKeyNamesPlan
<1>1. RowInv => PlanKeyNamesPlan
  BY DEF RowInv, RowHonest, Named, PlanKeyNamesPlan
<1> QED
  BY <1>1, RowInvariant, PTL

-----------------------------------------------------------------------------
(* When Stripe delivers in order, nothing fails and tenants only check out, the row    *)
(* follows the subscription.  The proof relates every row to the last event of the     *)
(* tenant's subscription, and to how far the handlers have come in the log.            *)

Telling == {"checkout.session.completed", "customer.subscription.updated",
            "customer.subscription.deleted"}

Begun(s)   == subs[s].status # "none"
OwnerOf(s) == custTenant[subs[s].cust]
Paid(s) == subs[s].status \in ActiveStatuses
Entitled(t) == rows[t].status \in ActiveStatuses

\* No later event of the same subscription has anything to tell the row.
Tells(e) == events[e].type \in Telling
Last(e) ==
  /\ Tells(e)
  /\ \A f \in 1 .. Len(events) : f > e /\ events[f].sub = events[e].sub => ~Tells(f)

\* The handler of event e is past its write.
Written(e) == e \in acked \/ \E w \in Workers : hook[w].ev = e /\ hook[w].pc = "publish"

\* The log is worked off from its start, one event at a time.
Claims == acked \subseteq ledger /\ ledger \subseteq 1 .. Len(events)
OldestFirst == \A e \in ledger : \A f \in 1 .. Len(events) : f < e => f \in acked
Attended == \A e \in ledger : e \in acked \/ \E w \in Workers : Working(w) /\ hook[w].ev = e
AtWork(w) == Working(w) => hook[w].ev \in ledger /\ hook[w].ev \notin acked
OneAtATime == \A w, v \in Workers : Working(w) /\ Working(v) => w = v

QueueInv ==
  Claims /\ OldestFirst /\ Attended /\ (\A w \in Workers : AtWork(w)) /\ OneAtATime

\* What an event says of its subscription is so until a later one is emitted, and the
\* end of a subscription is the last thing that is said of it.
EventTells(e) ==
  LET ev == events[e]
  IN  /\ Last(e) /\ ev.type # "checkout.session.completed" => ev.snap.status = subs[ev.sub].status
      /\ ev.type = "customer.subscription.deleted" => Last(e) /\ ev.snap.status = "canceled"
      /\ Tells(e) /\ ev.type # "checkout.session.completed" =>
           \E f \in 1 .. Len(events) : /\ f < e /\ events[f].sub = ev.sub
                                       /\ events[f].type = "checkout.session.completed"

Announced(s) == \E e \in 1 .. Len(events) : Last(e) /\ events[e].sub = s

LogInv ==
  /\ \A e \in 1 .. Len(events) : EventTells(e)
  /\ \A s \in Subs : Begun(s) => Announced(s)

\* A handler that is about to write the last event of a subscription holds its status.
HandHolds(w) ==
  /\ Working(w) => events[hook[w].ev].type # "other"
  /\ hook[w].pc \in {"find", "lookup", "write"} => Tells(hook[w].ev)
  /\ hook[w].pc \in {"lookup", "write"} /\ Last(hook[w].ev) =>
        hook[w].snap.status = subs[events[hook[w].ev].sub].status

\* Tenants only check out.
AskInv ==
  \A r \in Requests :
     req[r].pc \in {"idle", "createCustomer", "setCustomer", "updateCustomer", "createSession"}

\* A tenant buys one subscription at most.
OneSubscription ==
  \A s, u \in Subs : Begun(s) /\ Begun(u) /\ OwnerOf(s) = OwnerOf(u) => s = u

\* Once the last event of a subscription is written, its tenant is entitled as it pays.
RowTells(e) ==
  Last(e) /\ Written(e) => (Entitled(OwnerOf(events[e].sub)) <=> Paid(events[e].sub))

\* From its checkout to its end, the row of the tenant names the subscription.
RowNames(e) ==
  /\ events[e].type = "checkout.session.completed"
  /\ Written(e)
  /\ \A f \in 1 .. Len(events) :
        events[f].sub = events[e].sub /\ events[f].type = "customer.subscription.deleted"
          => ~Written(f)
  => rows[OwnerOf(events[e].sub)].sub = events[e].sub

RowBought(t) == Entitled(t) => \E s \in Subs : Begun(s) /\ OwnerOf(s) = t

RowFollows ==
  /\ \A e \in 1 .. Len(events) : RowTells(e) /\ RowNames(e)
  /\ \A t \in Tenants : RowBought(t)

FollowInv ==
  /\ QueueInv
  /\ LogInv
  /\ \A w \in Workers : HandHolds(w)
  /\ AskInv
  /\ OneSubscription => RowFollows

Orderly == InOrder /\ ~Faults /\ RequestKinds \subseteq {"checkout"}

\* The owner of a subscription never changes once there is one.
LEMMA OwnerStays ==
  ASSUME IsolationInv, Stable, NEW s \in Subs, Begun(s)
  PROVE  /\ OwnerOf(s) \in Tenants /\ OwnerOf(s)' = OwnerOf(s) /\ Begun(s)'
<1>1. PICK t \in Tenants : OwnsSub(t, s)
  BY DEF IsolationInv, SubsHaveOwners, Begun
<1> QED
  BY <1>1, NoneAssumption DEF Stable, OwnsSub, OwnsCustomer, OwnerOf, Begun

LEMMA OneBefore == IsolationInv /\ Stable /\ OneSubscription' => OneSubscription
BY OwnerStays DEF OneSubscription

\* An event, and the subscription it is about.
LEMMA EventFacts ==
  ASSUME IsolationInv, NEW e \in 1 .. Len(events)
  PROVE  /\ events[e] \in Event /\ events[e].sub \in Subs /\ Begun(events[e].sub)
         /\ OwnerOf(events[e].sub) \in Tenants /\ e \in Nat
<1>1. events[e] \in Event /\ EventBelongs(events[e]) /\ e \in Nat
  BY DEF IsolationInv, BillingTypeOK, StripeTypeOK, EventsBelong
<1>2. events[e].sub \in Subs /\ Begun(events[e].sub)
  BY <1>1 DEF Event, EventBelongs, Begun
<1>3. PICK t \in Tenants : OwnsSub(t, events[e].sub)
  BY <1>2 DEF IsolationInv, SubsHaveOwners, Begun
<1> QED
  BY <1>1, <1>2, <1>3 DEF OwnsSub, OwnsCustomer, OwnerOf

\* An event that a handler is past, or at, was claimed.
LEMMA WrittenClaimed ==
  ASSUME QueueInv, NEW e, Written(e)
  PROVE  e \in ledger
<1>1. CASE e \in acked
  BY <1>1 DEF QueueInv, Claims
<1>2. ASSUME NEW w \in Workers, hook[w].ev = e, hook[w].pc = "publish"
      PROVE  e \in ledger
  BY <1>2 DEF QueueInv, AtWork, Working
<1> QED
  BY <1>1, <1>2 DEF Written

\* A step that leaves the log and the handlers alone, and of a row neither the
\* subscription nor whether it is active.
LEMMA SameFollows ==
  ASSUME IsolationInv, FollowInv, Stable, UNCHANGED <<subs, events, hookVars>>, AskInv',
         \A t \in Tenants : rows'[t].sub = rows[t].sub /\ Entitled(t)' = Entitled(t)
  PROVE  FollowInv'
<1>1. UNCHANGED <<subs, events, ledger, acked, hook>>
  BY DEF hookVars
<1>2. QueueInv'
  BY <1>1 DEF FollowInv, QueueInv, Claims, OldestFirst, Attended, AtWork, OneAtATime, Working
<1>3. LogInv'
  BY <1>1 DEF FollowInv, LogInv, EventTells, Announced, Last, Tells, Begun
<1>4. \A w \in Workers : HandHolds(w)'
  BY <1>1 DEF FollowInv, HandHolds, Last, Tells, Working
<1>5. ASSUME OneSubscription'
      PROVE  RowFollows'
  <2>1. RowFollows
    BY <1>5, OneBefore DEF FollowInv
  <2>2. ASSUME NEW e \in 1 .. Len(events')
        PROVE  RowTells(e)' /\ RowNames(e)'
    <3>1. PICK s \in Subs : s = events[e].sub /\ s = events'[e].sub /\ Begun(s)
      BY <1>1, <2>2, EventFacts
    <3>2. PICK t \in Tenants : t = OwnerOf(s) /\ t = OwnerOf(s)'
      BY <3>1, OwnerStays
    <3>3. RowTells(e) /\ RowNames(e)
      BY <1>1, <2>1, <2>2 DEF RowFollows
    <3>4. RowTells(e)'
      BY <1>1, <3>1, <3>2, <3>3 DEF RowTells, Last, Tells, Written, Paid, Entitled
    <3>5. RowNames(e)'
      BY <1>1, <3>1, <3>2, <3>3 DEF RowNames, Written
    <3> QED
      BY <3>4, <3>5
  <2>3. ASSUME NEW t \in Tenants
        PROVE  RowBought(t)'
    BY <2>1, <2>3, OwnerStays DEF RowFollows, RowBought
  <2> QED
    BY <2>2, <2>3 DEF RowFollows
<1> QED
  BY <1>2, <1>3, <1>4, <1>5 DEF FollowInv

-----------------------------------------------------------------------------
(* The steps of Stripe: an event is emitted, and the state it tells of was just set.  *)

Emits(s, type) ==
  /\ Len(events') = Len(events) + 1
  /\ \A e \in 1 .. Len(events) : events'[e] = events[e]
  /\ events'[Len(events')].type = type /\ events'[Len(events')].sub = s
  /\ custTenant' = custTenant
  /\ \A u \in Subs : u # s => subs'[u] = subs[u]
  /\ subs'[s].status # "none"
  /\ Begun(s) => subs'[s].cust = subs[s].cust /\ subs'[s].period = subs[s].period
  /\ type # "checkout.session.completed" => events'[Len(events')].snap.period = subs'[s].period
  /\ IF type = "checkout.session.completed" THEN ~Begun(s) ELSE Begun(s)
  /\ type \notin Telling => subs'[s] = subs[s]
  /\ type \in {"customer.subscription.updated", "customer.subscription.deleted"} =>
        Live(s) /\ events'[Len(events')].snap.status = subs'[s].status
  /\ type = "customer.subscription.deleted" => subs'[s].status = "canceled"

LEMMA SetSubEmits ==
  ASSUME IsolationInv, NEW s \in Subs, NEW state \in Snapshot, state.status # "none",
         SetSub(s, state),
         NEW type \in Telling, NEW t \in Opt(Tenants), NEW snap \in Snapshot,
         emit(type, s, t, snap),
         IF type = "checkout.session.completed"
         THEN ~Begun(s)
         ELSE /\ Live(s) /\ snap = state
              /\ state.cust = subs[s].cust /\ state.period = subs[s].period,
         type = "customer.subscription.deleted" => state.status = "canceled",
         UNCHANGED custTenant
  PROVE  Emits(s, type)
<1>1. subs \in [Subs -> Snapshot] /\ events \in Seq(Event)
  BY DEF IsolationInv, BillingTypeOK, StripeTypeOK
<1>2. subs'[s] = state /\ \A u \in Subs : u # s => subs'[u] = subs[u]
  BY <1>1 DEF SetSub
<1>3. type \in EventTypes
  BY DEF Telling, EventTypes
<1>4. /\ Len(events') = Len(events) + 1
      /\ \A e \in 1 .. Len(events) : events'[e] = events[e]
      /\ events'[Len(events')] = [type |-> type, sub |-> s, tenant |-> t, snap |-> snap]
  BY <1>1, <1>3, EmitAppends
<1>5. Live(s) => Begun(s)
  BY DEF Live, Begun
<1> QED
  BY <1>2, <1>4, <1>5 DEF Emits

LEMMA StripeEmits ==
  ASSUME IsolationInv, StripeNext
  PROVE  \/ UNCHANGED <<subs, events, custTenant>>
         \/ \E s \in Subs, type \in EventTypes : Emits(s, type)
<1>1. subs \in [Subs -> Snapshot] /\ events \in Seq(Event) /\ None \in Opt(Tenants)
  BY DEF IsolationInv, BillingTypeOK, StripeTypeOK, Opt
<1>2. Telling \subseteq EventTypes
  BY DEF Telling, EventTypes
<1>3. ASSUME NEW ses \in sessions, NEW s \in Subs, NEW price \in Prices,
             NEW period \in PeriodChoices, StripeCompleteCheckout(ses, s, price, period)
      PROVE  Emits(s, "checkout.session.completed")
  <2> DEFINE state == [status |-> "active", cust |-> ses.cust, price |-> price,
                       period |-> period, atEnd |-> FALSE]
             type == "checkout.session.completed"
  <2>1. ses \in Session
    BY DEF IsolationInv, BillingTypeOK, StripeTypeOK
  <2>2. state \in Snapshot /\ NoSub \in Snapshot /\ state.status # "none"
    BY <2>1, PeriodAssumption DEF Snapshot, Session, Opt, RowStatus, SubStatus, Periods, NoSub
  <2>3. SetSub(s, state) /\ emit(type, s, ses.tenant, NoSub) /\ UNCHANGED custTenant /\ ~Begun(s)
    BY <1>3 DEF StripeCompleteCheckout, Begun
  <2>4. type \in Telling /\ ses.tenant \in Opt(Tenants) /\ type # "customer.subscription.deleted"
    BY <2>1 DEF Telling, Session, Opt
  <2> HIDE DEF state
  <2> QED
    BY <2>2, <2>3, <2>4, SetSubEmits
<1>4. ASSUME NEW s \in Subs, NEW to \in Changes, StripeUpdate(s, to)
      PROVE  Emits(s, "customer.subscription.updated")
  <2> DEFINE state == [subs[s] EXCEPT !.status = to.status, !.price = to.price,
                                      !.atEnd = to.atEnd]
             type == "customer.subscription.updated"
  <2>1. /\ Live(s) /\ SetSub(s, state) /\ emit(type, s, None, state) /\ UNCHANGED custTenant
    BY <1>4 DEF StripeUpdate
  <2>2. /\ state \in Snapshot /\ state.status # "none"
        /\ state.cust = subs[s].cust /\ state.period = subs[s].period
    BY <1>1, ChangesAssumption DEF Snapshot, RowStatus, SubStatus, Opt
  <2>3. type \in Telling /\ type \notin {"checkout.session.completed", "customer.subscription.deleted"}
    BY DEF Telling
  <2> HIDE DEF state
  <2> QED
    BY <1>1, <2>1, <2>2, <2>3, SetSubEmits
<1>5. ASSUME NEW s \in Subs, StripeEnd(s)
      PROVE  Emits(s, "customer.subscription.deleted")
  <2> DEFINE state == [subs[s] EXCEPT !.status = "canceled", !.atEnd = FALSE]
             type == "customer.subscription.deleted"
  <2>1. /\ Live(s) /\ SetSub(s, state) /\ emit(type, s, None, state) /\ UNCHANGED custTenant
    BY <1>5 DEF StripeEnd
  <2>2. /\ state \in Snapshot /\ state.status # "none" /\ state.status = "canceled"
        /\ state.cust = subs[s].cust /\ state.period = subs[s].period
    BY <1>1 DEF Snapshot, RowStatus, SubStatus
  <2>3. type \in Telling /\ type # "checkout.session.completed"
    BY DEF Telling
  <2> HIDE DEF state
  <2> QED
    BY <1>1, <2>1, <2>2, <2>3, SetSubEmits
<1>6. ASSUME NEW s \in Subs, NEW type \in Unrelated, StripeOtherEvent(s, type)
      PROVE  type \in EventTypes /\ Emits(s, type)
  <2>1. Begun(s) /\ emit(type, s, None, subs[s]) /\ UNCHANGED <<custTenant, subs>>
    BY <1>6 DEF StripeOtherEvent, Begun
  <2>2. type \in EventTypes /\ type \notin Telling
    BY UnrelatedAssumption DEF EventTypes, Telling
  <2>3. PICK snap \in Snapshot : snap = subs[s]
    BY <1>1
  <2>4. /\ Len(events') = Len(events) + 1
        /\ \A e \in 1 .. Len(events) : events'[e] = events[e]
        /\ events'[Len(events')] = [type |-> type, sub |-> s, tenant |-> None, snap |-> snap]
    BY <1>1, <2>1, <2>2, <2>3, EmitAppends
  <2>5. /\ events'[Len(events')].type = type /\ events'[Len(events')].sub = s
        /\ events'[Len(events')].snap.period = subs'[s].period
    BY <2>1, <2>3, <2>4
  <2> QED
    BY <2>1, <2>2, <2>4, <2>5 DEF Emits, Begun, Telling
<1>7. ASSUME NEW c \in Deletable, StripeDeleteCustomer(c)
      PROVE  UNCHANGED <<subs, events, custTenant>>
  BY <1>7 DEF StripeDeleteCustomer
<1>8. {"checkout.session.completed", "customer.subscription.updated",
       "customer.subscription.deleted"} \subseteq EventTypes
  BY DEF EventTypes
<1> QED
  BY <1>3, <1>4, <1>5, <1>6, <1>7, <1>8 DEF StripeNext

LEMMA EmitStable ==
  ASSUME IsolationInv, NEW s \in Subs, NEW type \in EventTypes, Emits(s, type)
  PROVE  /\ Stable /\ Len(events) \in Nat
         /\ \A e \in 1 .. Len(events') : e \in 1 .. Len(events) \/ e = Len(events')
<1>1. Len(events) \in Nat
  BY DEF IsolationInv, BillingTypeOK, StripeTypeOK
<1>2. ~Begun(s) => subs[s].cust = None
  BY DEF IsolationInv, SubsHaveOwners, Begun
<1> QED
  BY <1>1, <1>2 DEF Emits, Stable

\* An event that is still the last one of its subscription tells of an unchanged state.
LEMMA StillLast ==
  ASSUME IsolationInv, NEW s \in Subs, NEW type \in EventTypes, Emits(s, type),
         NEW e \in 1 .. Len(events)
  PROVE  /\ events'[e] = events[e] /\ e \in 1 .. Len(events') /\ Tells(e)' = Tells(e)
         /\ Last(e)' => Last(e) /\ subs'[events[e].sub] = subs[events[e].sub]
         /\ Last(e) /\ ~(type \in Telling /\ events[e].sub = s) => Last(e)'
<1>0. PICK n : n = Len(events')
  OBVIOUS
<1>1. Len(events) \in Nat /\ n = Len(events) + 1 /\ events[e].sub \in Subs
  BY <1>0, EventFacts DEF IsolationInv, BillingTypeOK, StripeTypeOK, Emits
<1>2. \A f \in 1 .. Len(events) : events'[f] = events[f] /\ Tells(f)' = Tells(f)
  BY DEF Emits, Tells
<1>3. events'[n].sub = s /\ (Tells(n)' <=> type \in Telling)
  BY <1>0 DEF Emits, Tells
<1>4. n \in 1 .. Len(events') /\ n > e /\ \A f \in 1 .. Len(events) : f \in 1 .. Len(events')
  BY <1>0, <1>1
<1>5. ASSUME Last(e)'
      PROVE  Last(e) /\ subs'[events[e].sub] = subs[events[e].sub]
  <2>1. Last(e)
    BY <1>2, <1>4, <1>5 DEF Last
  <2>2. events[e].sub = s => type \notin Telling
    BY <1>2, <1>3, <1>4, <1>5 DEF Last
  <2> QED
    BY <1>1, <2>1, <2>2 DEF Emits
<1>6. ASSUME Last(e), ~(type \in Telling /\ events[e].sub = s)
      PROVE  Last(e)'
  <2>1. \A f \in 1 .. Len(events') : f \in 1 .. Len(events) \/ f = n
    BY <1>0, EmitStable
  <2> QED
    BY <1>2, <1>3, <1>6, <2>1 DEF Last
<1> QED
  BY <1>2, <1>4, <1>5, <1>6

LEMMA NewIsLast ==
  ASSUME IsolationInv, NEW s \in Subs, NEW type \in Telling, Emits(s, type),
         NEW n, n = Len(events')
  PROVE  Last(n)' /\ n \in 1 .. Len(events')
<1>1. Len(events) \in Nat /\ Len(events') = Len(events) + 1
  BY DEF IsolationInv, BillingTypeOK, StripeTypeOK, Emits
<1> QED
  BY <1>1 DEF Last, Tells, Emits

LEMMA EmitLog ==
  ASSUME IsolationInv, LogInv, NEW s \in Subs, NEW type \in EventTypes, Emits(s, type)
  PROVE  LogInv'
<1>0. PICK n : n = Len(events')
  OBVIOUS
<1>1. /\ \A e \in 1 .. Len(events') : e \in 1 .. Len(events) \/ e = n
      /\ n \in Nat /\ \A e \in 1 .. Len(events) : e < n
  BY <1>0, EmitStable DEF Emits
<1>2. ASSUME NEW e \in 1 .. Len(events)
      PROVE  EventTells(e)'
  <2>1. /\ events'[e] = events[e] /\ Tells(e)' = Tells(e) /\ EventTells(e)
        /\ \A f \in 1 .. Len(events) : events'[f] = events[f] /\ f \in 1 .. Len(events')
    BY StillLast DEF LogInv
  <2>2. PICK ev \in Event : ev = events[e] /\ ev = events'[e]
    BY <2>1, EventFacts
  <2>3. Last(e)' => Last(e) /\ subs'[ev.sub] = subs[ev.sub]
    BY <2>2, StillLast
  <2>4. ASSUME ev.type = "customer.subscription.deleted"
        PROVE  Last(e)'
    <3>1. Last(e) /\ subs[ev.sub].status = "canceled" /\ Begun(ev.sub)
      BY <2>1, <2>2, <2>4, EventFacts DEF EventTells
    <3>2. ~(type \in Telling /\ ev.sub = s)
      BY <3>1 DEF Telling, Emits, Live
    <3> QED
      BY <2>2, <3>1, <3>2, StillLast
  <2>5. EventTells(e)
    BY <2>1
  <2>6. /\ Last(e)' /\ ev.type # "checkout.session.completed" => ev.snap.status = subs'[ev.sub].status
        /\ ev.type = "customer.subscription.deleted" => Last(e)' /\ ev.snap.status = "canceled"
    BY <2>2, <2>3, <2>4, <2>5 DEF EventTells
  <2>7. Tells(e)' /\ ev.type # "checkout.session.completed" =>
           \E f \in 1 .. Len(events') : /\ f < e /\ events'[f].sub = ev.sub
                                        /\ events'[f].type = "checkout.session.completed"
    BY <2>1, <2>2, <2>5 DEF EventTells
  <2> QED
    BY <2>2, <2>6, <2>7 DEF EventTells
<1>3. ASSUME Begun(s)
      PROVE  \E f \in 1 .. Len(events) : /\ events[f].sub = s
                                         /\ events[f].type = "checkout.session.completed"
  <2>1. PICK e \in 1 .. Len(events) : Last(e) /\ events[e].sub = s
    BY <1>3 DEF LogInv, Announced
  <2>2. EventTells(e)
    BY DEF LogInv
  <2> QED
    BY <2>1, <2>2 DEF EventTells, Last
<1>4. EventTells(n)'
  <2>1. events'[n].type = type /\ events'[n].sub = s
    BY <1>0 DEF Emits
  <2>2. CASE type = "checkout.session.completed"
    BY <2>1, <2>2 DEF EventTells
  <2>3. CASE type \in {"customer.subscription.updated", "customer.subscription.deleted"}
    <3>1. Last(n)'
      BY <1>0, <2>3, NewIsLast DEF Telling
    <3>2. /\ events'[n].snap.status = subs'[s].status
          /\ type = "customer.subscription.deleted" => subs'[s].status = "canceled"
      BY <1>0, <2>3 DEF Emits
    <3>3. \E f \in 1 .. Len(events') : /\ f < n /\ events'[f].sub = s
                                       /\ events'[f].type = "checkout.session.completed"
      <4>1. Begun(s)
        BY <2>3 DEF Emits
      <4>2. PICK f \in 1 .. Len(events) : /\ events[f].sub = s
                                          /\ events[f].type = "checkout.session.completed"
        BY <1>3, <4>1
      <4> QED
        BY <1>1, <4>2, StillLast
    <3> QED
      BY <2>1, <3>1, <3>2, <3>3 DEF EventTells
  <2>4. CASE type \notin Telling
    <3>1. ~Tells(n)'
      BY <2>1, <2>4 DEF Tells
    <3>2. ~Last(n)' /\ type # "customer.subscription.deleted"
      BY <2>4, <3>1 DEF Last, Telling
    <3> QED
      BY <2>1, <3>1, <3>2 DEF EventTells
  <2> QED
    BY <2>2, <2>3, <2>4 DEF Telling
<1>5. ASSUME NEW u \in Subs, Begun(u)'
      PROVE  Announced(u)'
  <2>1. CASE u = s /\ type \in Telling
    <3>1. Last(n)' /\ n \in 1 .. Len(events') /\ events'[n].sub = s
      BY <1>0, <2>1, NewIsLast DEF Emits
    <3> QED
      BY <2>1, <3>1 DEF Announced
  <2>2. CASE ~(u = s /\ type \in Telling)
    <3>1. Begun(u)
      BY <1>5, <2>2 DEF Begun, Emits
    <3>2. PICK e \in 1 .. Len(events) : Last(e) /\ events[e].sub = u
      BY <3>1 DEF LogInv, Announced
    <3>3. Last(e)' /\ events'[e].sub = u /\ e \in 1 .. Len(events')
      BY <2>2, <3>2, StillLast
    <3> QED
      BY <3>3 DEF Announced
  <2> QED
    BY <2>1, <2>2
<1> QED
  BY <1>1, <1>2, <1>4, <1>5 DEF LogInv

LEMMA EmitFollows ==
  ASSUME IsolationInv, FollowInv, NEW s \in Subs, NEW type \in EventTypes, Emits(s, type),
         UNCHANGED <<hookVars, rows, req>>
  PROVE  FollowInv'
<1>1. UNCHANGED <<ledger, acked, hook, rows, req>>
  BY DEF hookVars
<1>2. /\ Stable /\ Len(events) \in Nat /\ Len(events') \in Nat /\ Len(events) <= Len(events')
      /\ \A e \in 1 .. Len(events) : e \in 1 .. Len(events')
  BY EmitStable DEF Emits
<1>3. LogInv'
  BY EmitLog DEF FollowInv
<1>4. QueueInv'
  <2>1. ledger \subseteq 1 .. Len(events)
    BY DEF FollowInv, QueueInv, Claims
  <2>2. Claims' /\ \A w \in Workers : AtWork(w)'
    BY <1>1, <1>2 DEF FollowInv, QueueInv, Claims, AtWork, Working
  <2>3. OldestFirst'
    BY <1>1, <1>2, <2>1 DEF FollowInv, QueueInv, OldestFirst
  <2> QED
    BY <1>1, <2>2, <2>3 DEF FollowInv, QueueInv, Attended, OneAtATime, Working
<1>5. AskInv'
  BY <1>1 DEF FollowInv, AskInv
<1>6. ASSUME NEW w \in Workers
      PROVE  HandHolds(w)'
  <2>1. CASE hook[w].pc = "idle"
    BY <1>1, <2>1 DEF HandHolds, Working
  <2>2. CASE hook[w].pc # "idle"
    <3>1. PICK e \in 1 .. Len(events) : e = hook[w].ev /\ e = hook'[w].ev
      BY <1>1, <2>2, HookFacts
    <3>2. HandHolds(w)
      BY DEF FollowInv
    <3>3. /\ events'[e] = events[e] /\ Tells(e)' = Tells(e)
          /\ Last(e)' => Last(e) /\ subs'[events[e].sub] = subs[events[e].sub]
      BY StillLast
    <3> QED
      BY <1>1, <3>1, <3>2, <3>3 DEF HandHolds, Working
  <2> QED
    BY <2>1, <2>2
<1>7. \A e : Written(e)' => Written(e) /\ e \in 1 .. Len(events)
  <2>1. \A e : Written(e)' <=> Written(e)
    BY <1>1 DEF Written
  <2> QED
    BY <2>1, WrittenClaimed DEF FollowInv, QueueInv, Claims
<1>8. ASSUME OneSubscription'
      PROVE  RowFollows'
  <2>1. RowFollows
    BY <1>2, <1>8, OneBefore DEF FollowInv
  <2>2. ASSUME NEW e \in 1 .. Len(events'), Written(e)'
        PROVE  RowTells(e)' /\ RowNames(e)'
    <3>1. Written(e) /\ e \in 1 .. Len(events)
      BY <1>7, <2>2
    <3>2. PICK u \in Subs : u = events[e].sub /\ u = events'[e].sub /\ Begun(u)
      BY <3>1, EventFacts, StillLast
    <3>3. PICK t \in Tenants : t = OwnerOf(u) /\ t = OwnerOf(u)'
      BY <1>2, <3>2, OwnerStays
    <3>4. RowTells(e) /\ RowNames(e)
      BY <2>1, <3>1 DEF RowFollows
    <3>5. events'[e] = events[e] /\ (Last(e)' => Last(e) /\ subs'[u] = subs[u])
      BY <3>1, <3>2, StillLast
    <3>6. RowTells(e)'
      BY <1>1, <3>1, <3>2, <3>3, <3>4, <3>5 DEF RowTells, Paid, Entitled
    <3>7. ASSUME NEW f \in 1 .. Len(events), Written(f)
          PROVE  Written(f)' /\ f \in 1 .. Len(events') /\ events'[f] = events[f]
      BY <1>1, <1>2, <3>7, StillLast DEF Written
    <3>8. RowNames(e)'
      BY <1>1, <3>1, <3>2, <3>3, <3>4, <3>5, <3>7 DEF RowNames
    <3> QED
      BY <3>6, <3>8
  <2>3. ASSUME NEW e \in 1 .. Len(events'), ~Written(e)'
        PROVE  RowTells(e)' /\ RowNames(e)'
    BY <2>3 DEF RowTells, RowNames
  <2>4. ASSUME NEW t \in Tenants
        PROVE  RowBought(t)'
    BY <1>1, <1>2, <2>1, OwnerStays DEF RowFollows, RowBought, Entitled
  <2> QED
    BY <2>2, <2>3, <2>4 DEF RowFollows
<1> QED
  BY <1>3, <1>4, <1>5, <1>6, <1>8 DEF FollowInv

LEMMA StripeFollows ==
  ASSUME IsolationInv, FollowInv, StripeNext, UNCHANGED <<hookVars, rows, req>>
  PROVE  FollowInv'
<1>1. CASE UNCHANGED <<subs, events, custTenant>>
  <2>1. Stable
    BY <1>1 DEF Stable, IsolationInv, BillingTypeOK, StripeTypeOK
  <2>2. AskInv' /\ \A t \in Tenants : rows'[t].sub = rows[t].sub /\ Entitled(t)' = Entitled(t)
    BY DEF FollowInv, AskInv, Entitled
  <2> QED
    BY <1>1, <2>1, <2>2, SameFollows
<1>2. CASE \E s \in Subs, type \in EventTypes : Emits(s, type)
  BY <1>2, EmitFollows
<1> QED
  BY <1>1, <1>2, StripeEmits

-----------------------------------------------------------------------------
(* The steps of the requests: a checkout changes nothing the webhook relies on.       *)

LEMMA AskStep ==
  ASSUME IsolationInv, FollowInv, NEW r \in Requests, NEW q,
         req' = [req EXCEPT ![r] = q],
         q.pc \in {"idle", "createCustomer", "setCustomer", "updateCustomer", "createSession"}
  PROVE  AskInv'
BY DEF IsolationInv, BillingTypeOK, RequestTypeOK, FollowInv, AskInv

\* A request that leaves Stripe's customers and the rows alone.
LEMMA AskMoves ==
  ASSUME IsolationInv, FollowInv, AskInv', UNCHANGED <<custTenant, subs, events, hookVars, rows>>
  PROVE  FollowInv'
<1>1. Stable
  BY DEF Stable, IsolationInv, BillingTypeOK, StripeTypeOK
<1> QED
  BY <1>1, SameFollows DEF Entitled

LEMMA SetCustomerFollows ==
  ASSUME IsolationInv, FollowInv, NEW r \in Requests, CheckoutSetCustomer(r)
  PROVE  FollowInv'
<1>1. /\ req[r].pc = "setCustomer" /\ UNCHANGED <<custTenant, subs, events, hookVars>>
      /\ rows' = [rows EXCEPT ![req[r].tenant] = setStripeCustomerId(@, req[r].cust)]
  BY DEF CheckoutSetCustomer, stripeVars
<1>2. /\ req[r] \in Request /\ req \in [Requests -> Request]
      /\ rows \in [Tenants -> Row] /\ req[r].tenant \in Tenants
  BY <1>1, RequestFacts
<1> DEFINE q == [req[r] EXCEPT !.pc = "createSession"]
<1>3. req' = [req EXCEPT ![r] = q] /\ q.pc = "createSession"
  BY <1>2 DEF CheckoutSetCustomer, Request
<1> HIDE DEF q
<1>4. AskInv'
  BY <1>3, AskStep
<1>5. Stable
  BY <1>1 DEF Stable, IsolationInv, BillingTypeOK, StripeTypeOK
<1>6. ASSUME NEW row \in Row, NEW c
      PROVE  /\ setStripeCustomerId(row, c).sub = row.sub
             /\ setStripeCustomerId(row, c).status \in ActiveStatuses <=> row.status \in ActiveStatuses
  BY DEF setStripeCustomerId, Row, ActiveStatuses
<1>7. ASSUME NEW t \in Tenants
      PROVE  rows'[t].sub = rows[t].sub /\ Entitled(t)' = Entitled(t)
  BY <1>1, <1>2, <1>6 DEF Entitled
<1> QED
  BY <1>1, <1>4, <1>5, <1>7, SameFollows

LEMMA CreateCustomerFollows ==
  ASSUME IsolationInv, FollowInv, NEW r \in Requests, NEW c \in Customers,
         CheckoutCreateCustomer(r, c)
  PROVE  FollowInv'
<1>1. /\ req[r].pc = "createCustomer" /\ custTenant[c] = None
      /\ custTenant' = [custTenant EXCEPT ![c] = req[r].tenant]
      /\ UNCHANGED <<subs, events, hookVars, rows>>
  BY DEF CheckoutCreateCustomer
<1>2. req[r] \in Request /\ req \in [Requests -> Request]
  BY <1>1, RequestFacts
<1> DEFINE q == [req[r] EXCEPT !.pc = "setCustomer", !.cust = c]
<1>3. req' = [req EXCEPT ![r] = q] /\ q.pc = "setCustomer"
  BY <1>2 DEF CheckoutCreateCustomer, Request
<1> HIDE DEF q
<1>4. AskInv'
  BY <1>3, AskStep
<1>5. Stable
  BY <1>1 DEF Stable, IsolationInv, BillingTypeOK, StripeTypeOK
<1> QED
  BY <1>1, <1>4, <1>5, SameFollows DEF Entitled

LEMMA UpdateCustomerFollows ==
  ASSUME IsolationInv, FollowInv, NEW r \in Requests, CheckoutUpdateCustomer(r)
  PROVE  FollowInv'
<1>1. /\ req[r].pc = "updateCustomer" /\ UNCHANGED <<subs, events, hookVars, rows>>
      /\ custTenant' = [custTenant EXCEPT ![req[r].cust] = req[r].tenant]
  BY DEF CheckoutUpdateCustomer
<1>2. /\ req[r] \in Request /\ req \in [Requests -> Request]
      /\ OwnsCustomer(req[r].tenant, req[r].cust)
  BY <1>1, RequestFacts DEF RequestBelongs
<1>3. custTenant' = custTenant
  BY <1>1, <1>2 DEF OwnsCustomer, IsolationInv, BillingTypeOK, StripeTypeOK
<1> DEFINE q == [req[r] EXCEPT !.pc = "createSession"]
<1>4. req' = [req EXCEPT ![r] = q] /\ q.pc = "createSession"
  BY <1>2 DEF CheckoutUpdateCustomer, Request
<1> HIDE DEF q
<1> QED
  BY <1>1, <1>3, <1>4, AskStep, AskMoves

LEMMA RequestFollows ==
  ASSUME IsolationInv, FollowInv, Orderly, RequestNext
  PROVE  FollowInv'
<1>1. ASSUME NEW r \in Requests, NEW t \in Tenants, CheckoutRead(r, t)
      PROVE  FollowInv'
  <2>1. PICK pc \in {"createCustomer", "updateCustomer"} :
               req' = [req EXCEPT ![r] = Loaded(t, pc)]
    BY <1>1 DEF CheckoutRead
  <2>2. Loaded(t, pc).pc = pc
    BY IdleRequestType DEF Loaded, Request
  <2>3. UNCHANGED <<custTenant, subs, events, hookVars, rows>>
    BY <1>1 DEF CheckoutRead, stripeVars
  <2> QED
    BY <2>1, <2>2, <2>3, AskStep, AskMoves
<1>2. ASSUME NEW r \in Requests, NEW t \in Tenants,
             \/ CancelRead(r, t) \/ BackfillRead(r, t)
             \/ \E ses \in sessions : ConfirmSession(r, t, ses)
      PROVE  FALSE
  BY <1>2 DEF CancelRead, BackfillRead, ConfirmSession, Orderly
<1>3. ASSUME NEW r \in Requests, RequestStep(r)
      PROVE  FollowInv'
  <2>1. req[r].pc \in {"idle", "createCustomer", "setCustomer", "updateCustomer", "createSession"}
    BY DEF FollowInv, AskInv
  <2>2. CASE CheckoutCreateSession(r) \/ RequestEnds(r)
    <3>1. /\ req' = [req EXCEPT ![r] = IdleRequest]
          /\ UNCHANGED <<custTenant, subs, events, hookVars, rows>>
      BY <2>2 DEF CheckoutCreateSession, RequestEnds, Finish, stripeVars
    <3> QED
      BY <3>1, IdleRequestType, AskStep, AskMoves
  <2>3. ASSUME NEW immediate \in BOOLEAN
        PROVE  ~CancelStripe(r, immediate)
    BY <2>1 DEF CancelStripe
  <2>4. ASSUME NEW s \in Subs
        PROVE  ~BackfillRetrieve(r, s)
    BY <2>1 DEF BackfillRetrieve
  <2>5. /\ ~ConfirmRetrieve(r) /\ ~ConfirmLookup(r) /\ ~ConfirmWrite(r) /\ ~CancelWrite(r)
        /\ ~BackfillLookup(r) /\ ~BackfillWrite(r) /\ ~BackfillNothing(r)
        /\ ~BackfillUpcoming(r)
    BY <2>1 DEF ConfirmRetrieve, ConfirmLookup, ConfirmWrite, CancelWrite, BackfillLookup,
                BackfillWrite, BackfillNothing, BackfillUpcoming
  <2> QED
    BY <1>3, <2>2, <2>3, <2>4, <2>5, SetCustomerFollows, CreateCustomerFollows,
       UpdateCustomerFollows DEF RequestStep
<1> QED
  BY <1>1, <1>2, <1>3 DEF RequestNext

-----------------------------------------------------------------------------
(* The steps of the handlers.                                                       *)

\* Handler w goes on with its event in state h, or answers and forgets it.
Progress(w, h) ==
  /\ Working(w)
  /\ hook' = [hook EXCEPT ![w] = h]
  /\ ledger' = ledger
  /\ \/ acked' = acked /\ h.pc # "idle" /\ h.ev = hook[w].ev
     \/ acked' = acked \cup {hook[w].ev} /\ h.pc = "idle"
  /\ hook[w].pc = "publish" => h.pc \in {"publish", "idle"}

LEMMA ProgressHooks ==
  ASSUME IsolationInv, NEW w \in Workers, NEW h \in Hook, Progress(w, h)
  PROVE  hook'[w] = h /\ \A v \in Workers : v # w => hook'[v] = hook[v]
BY DEF Progress, IsolationInv, BillingTypeOK, HookTypeOK

LEMMA ProgressQueue ==
  ASSUME IsolationInv, QueueInv, NEW w \in Workers, NEW h \in Hook, Progress(w, h),
         UNCHANGED events
  PROVE  QueueInv'
<1>1. hook'[w] = h /\ \A v \in Workers : v # w => hook'[v] = hook[v]
  BY ProgressHooks
<1>2. /\ Working(w) /\ hook[w].ev \in ledger /\ hook[w].ev \notin acked
      /\ \A v \in Workers : v # w => hook[v].pc = "idle"
  BY DEF Progress, QueueInv, AtWork, OneAtATime, Working
<1>3. Claims' /\ OldestFirst'
  BY <1>2 DEF Progress, QueueInv, Claims, OldestFirst
<1>4. CASE acked' = acked /\ h.pc # "idle" /\ h.ev = hook[w].ev
  <2>1. Attended'
    BY <1>1, <1>2, <1>4 DEF Progress, QueueInv, Attended, Working
  <2>2. (\A v \in Workers : AtWork(v)') /\ OneAtATime'
    BY <1>1, <1>2, <1>4 DEF Progress, AtWork, OneAtATime, Working
  <2> QED
    BY <1>3, <2>1, <2>2 DEF QueueInv
<1>5. CASE acked' = acked \cup {hook[w].ev} /\ h.pc = "idle"
  <2>1. Attended'
    BY <1>1, <1>2, <1>5 DEF Progress, QueueInv, Attended, Working
  <2>2. (\A v \in Workers : AtWork(v)') /\ OneAtATime'
    BY <1>1, <1>2, <1>5 DEF AtWork, OneAtATime, Working
  <2> QED
    BY <1>3, <2>1, <2>2 DEF QueueInv
<1> QED
  BY <1>4, <1>5 DEF Progress

LEMMA ProgressWritten ==
  ASSUME IsolationInv, NEW w \in Workers, NEW h \in Hook, Progress(w, h), NEW e
  PROVE  Written(e)' <=> \/ Written(e)
                         \/ e = hook[w].ev /\ h.pc \in {"publish", "idle"}
<1>1. hook'[w] = h /\ \A v \in Workers : v # w => hook'[v] = hook[v]
  BY ProgressHooks
<1>2. ASSUME Written(e)'
      PROVE  Written(e) \/ (e = hook[w].ev /\ h.pc \in {"publish", "idle"})
  BY <1>1, <1>2 DEF Progress, Written
<1>3. ASSUME Written(e)
      PROVE  Written(e)'
  BY <1>1, <1>3 DEF Progress, Written
<1>4. ASSUME e = hook[w].ev, h.pc \in {"publish", "idle"}
      PROVE  Written(e)'
  BY <1>1, <1>4 DEF Progress, Written
<1> QED
  BY <1>2, <1>3, <1>4

\* What remains to be shown of a handler's step.
LEMMA HandlerFollows ==
  ASSUME IsolationInv, FollowInv, UNCHANGED <<stripeVars, req>>,
         NEW w \in Workers, NEW h \in Hook, Progress(w, h), HandHolds(w)',
         OneSubscription => RowFollows'
  PROVE  FollowInv'
<1>1. UNCHANGED <<custTenant, subs, events, req>>
  BY DEF stripeVars
<1>2. QueueInv'
  BY <1>1, ProgressQueue DEF FollowInv
<1>3. LogInv' /\ AskInv'
  BY <1>1 DEF FollowInv, LogInv, EventTells, Announced, Last, Tells, Begun, AskInv
<1>4. ASSUME NEW v \in Workers
      PROVE  HandHolds(v)'
  <2>1. CASE v # w
    <3>1. hook'[v] = hook[v] /\ HandHolds(v)
      BY <2>1, ProgressHooks DEF FollowInv
    <3> QED
      BY <1>1, <3>1 DEF HandHolds, Last, Tells, Working
  <2> QED
    BY <2>1
<1>5. OneSubscription' => OneSubscription
  BY <1>1 DEF OneSubscription, Begun, OwnerOf
<1> QED
  BY <1>2, <1>3, <1>4, <1>5 DEF FollowInv

\* A step that writes no row, of an event that no row follows or that was written.
LEMMA RowsKept ==
  ASSUME IsolationInv, RowFollows, UNCHANGED <<stripeVars, rows>>,
         \A e \in 1 .. Len(events) : Tells(e) => (Written(e)' <=> Written(e))
  PROVE  RowFollows'
<1>1. UNCHANGED <<custTenant, subs, events, rows>>
  BY DEF stripeVars
<1>2. ASSUME NEW e \in 1 .. Len(events)
      PROVE  RowTells(e)' /\ RowNames(e)'
  <2>1. RowTells(e) /\ RowNames(e)
    BY DEF RowFollows
  <2>2. RowTells(e)'
    BY <1>1, <2>1 DEF RowTells, Last, Tells, Paid, Entitled, OwnerOf
  <2>3. RowNames(e)'
    BY <1>1, <2>1 DEF RowNames, Tells, Telling, OwnerOf
  <2> QED
    BY <2>2, <2>3
<1>3. \A t \in Tenants : RowBought(t)'
  BY <1>1 DEF RowFollows, RowBought, Entitled, Begun, OwnerOf
<1> QED
  BY <1>1, <1>2, <1>3 DEF RowFollows

\* While a handler works, what is claimed is no younger than its event.
LEMMA NoneYounger ==
  ASSUME IsolationInv, QueueInv, NEW w \in Workers, Working(w), NEW e \in ledger
  PROVE  e \in 1 .. Len(events) /\ e <= hook[w].ev
<1>1. ledger \subseteq 1 .. Len(events) /\ Len(events) \in Nat
  BY DEF QueueInv, Claims, IsolationInv, BillingTypeOK, StripeTypeOK
<1>2. PICK n \in 1 .. Len(events) : n = hook[w].ev /\ n \notin acked
  BY <1>1 DEF QueueInv, AtWork
<1>3. ~(n < e)
  BY <1>2 DEF QueueInv, OldestFirst
<1> QED
  BY <1>1, <1>2, <1>3

\* A handler writes the row of its tenant from the state it holds.
LEMMA RowsWritten ==
  ASSUME IsolationInv, FollowInv, UNCHANGED stripeVars, OneSubscription,
         NEW w \in Workers, NEW h \in Hook, Progress(w, h), h.pc \in {"publish", "idle"},
         hook[w].pc = "write",
         NEW row, rows' = [rows EXCEPT ![hook[w].tenant] = row],
         Last(hook[w].ev) =>
           (row.status \in ActiveStatuses <=> Paid(events[hook[w].ev].sub)),
         events[hook[w].ev].type # "customer.subscription.deleted" =>
           row.sub = events[hook[w].ev].sub
  PROVE  RowFollows'
<1>1. UNCHANGED <<custTenant, subs, events>> /\ RowFollows
  BY DEF stripeVars, FollowInv
<1>2. PICK n \in 1 .. Len(events), s \in Subs, t \in Tenants :
              n = hook[w].ev /\ s = events[n].sub /\ t = hook[w].tenant /\ OwnsSub(t, s)
  BY HookFacts DEF HookBelongs, EventOf
<1>3. t = OwnerOf(s) /\ Begun(s) /\ Tells(n) /\ n \in Nat
  BY <1>2, EventFacts DEF OwnsSub, OwnsCustomer, OwnerOf, FollowInv, HandHolds
<1>4. rows'[t] = row /\ \A v \in Tenants : v # t => rows'[v] = rows[v]
  BY <1>2 DEF IsolationInv, BillingTypeOK, HookTypeOK
<1>5. \A e : Written(e)' <=> Written(e) \/ e = n
  BY <1>2, ProgressWritten
<1>6. /\ Last(n) => (row.status \in ActiveStatuses <=> Paid(s))
      /\ events[n].type # "customer.subscription.deleted" => row.sub = s
  BY <1>2
<1>7. ASSUME NEW e \in 1 .. Len(events), Written(e)', Tells(e)
      PROVE  RowTells(e)' /\ RowNames(e)'
  <2>1. PICK u \in Subs : u = events[e].sub /\ Begun(u) /\ OwnerOf(u) \in Tenants
    BY EventFacts
  <2>2. CASE OwnerOf(u) = t
    <3>1. u = s
      BY <1>3, <2>1, <2>2 DEF OneSubscription
    <3>2. e <= n
      BY <1>2, <1>3, <1>5, <1>7, WrittenClaimed, NoneYounger DEF FollowInv, Progress
    <3>3. Last(e) => e = n
      <4>1. events[n].sub = events[e].sub
        BY <1>2, <2>1, <3>1
      <4>2. e \in Nat
        OBVIOUS
      <4> QED
        BY <1>2, <1>3, <3>2, <4>1, <4>2 DEF Last
    <3>4. RowTells(e)'
      <4>1. Last(e)' = Last(e) /\ OwnerOf(u)' = t /\ Paid(u)' = Paid(u)
        BY <1>1, <2>2 DEF Last, Tells, Paid, OwnerOf
      <4>2. Last(e) => (Entitled(t)' <=> Paid(u))
        BY <1>4, <1>6, <3>1, <3>3 DEF Entitled
      <4> QED
        BY <1>1, <2>1, <4>1, <4>2 DEF RowTells
    <3>5. RowNames(e)'
      <4>1. events[n].type = "customer.subscription.deleted" => RowNames(e)'
        BY <1>1, <1>2, <1>5, <2>1, <3>1 DEF RowNames
      <4>2. OwnerOf(u)' = t /\ rows'[t] = row
        BY <1>1, <1>4, <2>2 DEF OwnerOf
      <4> QED
        BY <1>1, <1>6, <2>1, <3>1, <4>1, <4>2 DEF RowNames
    <3> QED
      BY <3>4, <3>5
  <2>3. CASE OwnerOf(u) # t
    <3>1. e # n
      BY <1>2, <1>3, <2>1, <2>3
    <3>2. Written(e) /\ RowTells(e) /\ RowNames(e)
      BY <1>1, <1>5, <1>7, <3>1 DEF RowFollows
    <3>3. RowTells(e)'
      BY <1>1, <1>4, <2>1, <2>3, <3>2 DEF RowTells, Last, Tells, Paid, Entitled, OwnerOf
    <3>4. RowNames(e)'
      BY <1>1, <1>4, <1>5, <2>1, <2>3, <3>2 DEF RowNames, OwnerOf
    <3> QED
      BY <3>3, <3>4
  <2> QED
    BY <2>2, <2>3
<1>8. ASSUME NEW e \in 1 .. Len(events), ~Written(e)' \/ ~Tells(e)
      PROVE  RowTells(e)' /\ RowNames(e)'
  BY <1>1, <1>8 DEF RowTells, RowNames, Last, Tells, Telling
<1>9. ASSUME NEW v \in Tenants
      PROVE  RowBought(v)'
  <2>1. CASE v = t
    BY <1>1, <1>3, <2>1 DEF RowBought, Begun, OwnerOf
  <2>2. CASE v # t
    BY <1>1, <1>4, <2>2 DEF RowFollows, RowBought, Entitled, Begun, OwnerOf
  <2> QED
    BY <2>1, <2>2
<1> QED
  BY <1>1, <1>7, <1>8, <1>9 DEF RowFollows

LEMMA DeliverFollows ==
  ASSUME IsolationInv, FollowInv, Orderly, NEW w \in Workers, NEW e \in 1 .. Len(events),
         Deliver(w, e), UNCHANGED <<stripeVars, req>>
  PROVE  FollowInv'
<1>1. /\ \A v \in Workers : hook[v].pc = "idle"
      /\ \A f \in 1 .. e - 1 : f \in acked
      /\ UNCHANGED <<custTenant, subs, events, published, rows, req>>
      /\ ClaimOwned(w, e) \/ (ClaimRefused(e) /\ e \in ledger)
  BY DEF Deliver, DeliverableInOrder, ClaimRefused, Orderly, stripeVars
<1>2. AskInv' /\ LogInv'
  BY <1>1 DEF FollowInv, AskInv, LogInv, EventTells, Announced, Last, Tells, Begun
<1>3. CASE ClaimRefused(e) /\ e \in ledger
  <2>1. e \in acked
    BY <1>1, <1>3 DEF FollowInv, QueueInv, Attended, Working
  <2>2. UNCHANGED <<ledger, acked, published, hook>>
    BY <1>1, <1>3, <2>1 DEF ClaimRefused
  <2> QED
    BY <1>1, <1>2, <2>2, AskMoves DEF hookVars
<1>4. ASSUME ledger' = ledger \cup {e},
             \A v \in Workers : hook'[v] = hook[v] \/ (hook'[v].ev = e /\ v = w),
             \A v \in Workers : HandHolds(v)' /\ hook'[v].pc # "publish",
             \/ acked' = acked /\ Working(w)' /\ hook'[w].ev = e /\ e \notin acked
             \/ acked' = acked \cup {e} /\ UNCHANGED hook /\ ~Tells(e)
      PROVE  FollowInv'
  <2>1. Claims' /\ OldestFirst'
    <3>1. \A f \in 1 .. Len(events) : f < e => f \in acked
      BY <1>1
    <3> QED
      BY <1>1, <1>4, <3>1 DEF FollowInv, QueueInv, Claims, OldestFirst
  <2>2. \A x \in ledger : x \in acked
    BY <1>1 DEF FollowInv, QueueInv, Attended, Working
  <2>3. Attended'
    BY <1>4, <2>2 DEF Attended
  <2>4. (\A v \in Workers : AtWork(v)') /\ OneAtATime'
    BY <1>1, <1>4 DEF AtWork, OneAtATime, Working
  <2>5. \A x \in 1 .. Len(events) : Tells(x) => (Written(x)' <=> Written(x))
    BY <1>1, <1>4 DEF Written
  <2>6. OneSubscription' => OneSubscription
    BY <1>1 DEF OneSubscription, Begun, OwnerOf
  <2>7. OneSubscription' => RowFollows'
    BY <1>1, <2>5, <2>6, RowsKept DEF FollowInv
  <2> QED
    BY <1>2, <1>4, <2>1, <2>3, <2>4, <2>7 DEF FollowInv, QueueInv
<1>5. CASE ClaimOwned(w, e)
  <2>1. CASE events[e].type = "other"
    <3>1. /\ ledger' = ledger \cup {e} /\ acked' = acked \cup {e} /\ UNCHANGED hook /\ ~Tells(e)
      BY <1>5, <2>1 DEF ClaimOwned, Tells, Telling
    <3>2. \A v \in Workers : HandHolds(v)' /\ hook'[v].pc # "publish"
      BY <1>1, <3>1 DEF HandHolds, Working
    <3> QED
      BY <1>4, <3>1, <3>2
  <2>2. CASE events[e].type # "other"
    <3> DEFINE h == Handling(e)
    <3>1. /\ ledger' = ledger \cup {e} /\ acked' = acked /\ e \notin ledger
          /\ hook' = [hook EXCEPT ![w] = h]
      BY <1>5, <2>2 DEF ClaimOwned
    <3>2. h.pc \in {"retrieve", "resolve"} /\ h.ev = e
      BY DEF NextPc, Handling
    <3> HIDE DEF h
    <3>3. hook'[w] = h /\ \A v \in Workers : v # w => hook'[v] = hook[v]
      BY <3>1 DEF IsolationInv, BillingTypeOK, HookTypeOK
    <3>4. \A v \in Workers : HandHolds(v)' /\ hook'[v].pc # "publish"
      BY <1>1, <2>2, <3>2, <3>3 DEF HandHolds, Working
    <3>5. e \notin acked
      BY <3>1 DEF FollowInv, QueueInv, Claims
    <3> QED
      BY <1>4, <3>1, <3>2, <3>3, <3>4, <3>5 DEF Working
  <2> QED
    BY <2>1, <2>2
<1> QED
  BY <1>1, <1>3, <1>5

\* A handler moves on without writing.
LEMMA MoveFollows ==
  ASSUME IsolationInv, FollowInv, UNCHANGED <<stripeVars, req, rows>>,
         NEW w \in Workers, NEW h \in Hook, Progress(w, h), HandHolds(w)',
         \/ h.pc \notin {"publish", "idle"}
         \/ hook[w].pc = "publish"
         \/ ~Tells(hook[w].ev)
  PROVE  FollowInv'
<1>1. ASSUME NEW e \in 1 .. Len(events), Tells(e)
      PROVE  Written(e)' <=> Written(e)
  <2>1. hook[w].pc = "publish" => Written(hook[w].ev)
    BY DEF Written
  <2> QED
    BY <1>1, <2>1, ProgressWritten
<1>2. OneSubscription => RowFollows'
  BY <1>1, RowsKept DEF FollowInv
<1> QED
  BY <1>2, HandlerFollows

LEMMA IdleHolds ==
  ASSUME NEW w, hook'[w].pc = "idle"
  PROVE  HandHolds(w)'
BY DEF HandHolds, Working

\* When a handler looks for the row of a subscription, the row is there: the checkout
\* was worked off before, and the end of the subscription was not.
LEMMA RowIsFound ==
  ASSUME IsolationInv, FollowInv, OneSubscription, NEW w \in Workers, hook[w].pc = "find"
  PROVE  findByStripeSubscriptionId(rows, EventOf(w).sub) # None
<1>1. PICK n \in 1 .. Len(events), s \in Subs :
              /\ n = hook[w].ev /\ s = events[n].sub /\ s = EventOf(w).sub
              /\ events[n].type # "checkout.session.completed" /\ OwnerOf(s) \in Tenants
  BY HookFacts, EventFacts DEF HookBelongs, EventOf
<1>2. /\ Working(w) /\ Tells(n) /\ n \in ledger /\ n \notin acked /\ EventTells(n)
      /\ OldestFirst /\ RowFollows
  BY <1>1 DEF Working, FollowInv, HandHolds, QueueInv, AtWork, LogInv
<1>3. PICK f \in 1 .. Len(events) : /\ f < n /\ events[f].sub = s
                                    /\ events[f].type = "checkout.session.completed"
  BY <1>1, <1>2 DEF EventTells
<1>4. Written(f)
  BY <1>2, <1>3 DEF OldestFirst, Written
<1>5. ASSUME NEW g \in 1 .. Len(events), events[g].sub = s,
             events[g].type = "customer.subscription.deleted"
      PROVE  ~Written(g)
  <2>1. Last(g)
    BY <1>5 DEF FollowInv, LogInv, EventTells
  <2>2. ~(n > g)
    BY <1>1, <1>2, <1>5, <2>1 DEF Last
  <2>3. Written(g) => g <= n
    BY <1>1, <1>2, WrittenClaimed, NoneYounger DEF FollowInv
  <2>4. ~Written(n)
    BY <1>1, <1>2 DEF Written, FollowInv, QueueInv, OneAtATime, Working
  <2> QED
    BY <1>1, <2>2, <2>3, <2>4
<1>6. rows[OwnerOf(s)].sub = s
  <2>1. RowNames(f)
    BY <1>2 DEF RowFollows
  <2> QED
    BY <1>3, <1>4, <1>5, <2>1 DEF RowNames
<1> QED
  BY <1>1, <1>6, NoneAssumption DEF findByStripeSubscriptionId

LEMMA RetrieveFollows ==
  ASSUME IsolationInv, FollowInv, NEW w \in Workers, CheckoutRetrieve(w),
         UNCHANGED <<stripeVars, req>>
  PROVE  FollowInv'
<1> DEFINE h == [hook[w] EXCEPT !.pc = "lookup", !.snap = subs[EventOf(w).sub]]
<1>1. /\ hook[w].pc = "retrieve" /\ UNCHANGED <<ledger, acked, rows>>
      /\ UNCHANGED <<events, subs>>
  BY DEF CheckoutRetrieve, stripeVars
<1>2. /\ hook[w] \in Hook /\ hook \in [Workers -> Hook] /\ subs[EventOf(w).sub] \in Snapshot
      /\ EventOf(w).type = "checkout.session.completed"
  BY <1>1, HookFacts DEF IsolationInv, BillingTypeOK, HookTypeOK, HookBelongs, EventOf
<1>3. /\ h \in Hook /\ hook' = [hook EXCEPT ![w] = h]
      /\ h.pc = "lookup" /\ h.ev = hook[w].ev /\ h.snap = subs[events[h.ev].sub]
  BY <1>2 DEF CheckoutRetrieve, Hook, HookPc, EventOf
<1> HIDE DEF h
<1>4. Progress(w, h)
  BY <1>1, <1>3 DEF Progress, Working
<1>5. HandHolds(w)'
  BY <1>1, <1>2, <1>3, <1>4, ProgressHooks DEF HandHolds, Tells, Telling, EventOf
<1> QED
  BY <1>1, <1>3, <1>4, <1>5, MoveFollows

\* A handler that is done with its event.
LEMMA AnswerProgress ==
  ASSUME IsolationInv, NEW w \in Workers, Working(w), Answer(w), UNCHANGED ledger
  PROVE  /\ Progress(w, IdleHook) /\ HandHolds(w)'
         /\ IdleHook \in Hook /\ IdleHook.pc = "idle"
<1>1. IdleHook \in Hook /\ IdleHook.pc = "idle"
  BY IdleHookType
<1>2. Progress(w, IdleHook)
  BY <1>1 DEF Progress, Answer
<1>3. hook'[w] = IdleHook
  BY <1>1, <1>2, ProgressHooks
<1> QED
  BY <1>1, <1>2, <1>3, IdleHolds

LEMMA PublishFollows ==
  ASSUME IsolationInv, FollowInv, NEW w \in Workers, Publish(w), UNCHANGED <<stripeVars, req>>
  PROVE  FollowInv'
<1>1. hook[w].pc = "publish" /\ Working(w) /\ Answer(w) /\ UNCHANGED <<ledger, rows>>
  BY DEF Publish, Working
<1> QED
  BY <1>1, AnswerProgress, MoveFollows

LEMMA ResolveFollows ==
  ASSUME IsolationInv, FollowInv, NEW w \in Workers, ResolveTenant(w),
         UNCHANGED <<stripeVars, req>>
  PROVE  FollowInv'
<1>1. /\ hook[w].pc = "resolve" /\ Working(w) /\ UNCHANGED <<ledger, rows>>
      /\ UNCHANGED <<events, subs, custTenant>>
  BY DEF ResolveTenant, stripeVars, Working
<1>2. /\ hook[w] \in Hook /\ hook \in [Workers -> Hook] /\ EventOf(w) \in Event
      /\ EventOf(w).type # "checkout.session.completed" /\ EventOf(w).type # "other"
  BY <1>1, HookFacts
     DEF IsolationInv, BillingTypeOK, HookTypeOK, HookBelongs, EventOf, FollowInv, HandHolds
<1>3. CASE Answer(w) /\ EventOf(w).type = "invoice"
  <2>1. ~Tells(hook[w].ev)
    BY <1>3 DEF Tells, Telling, EventOf
  <2> QED
    BY <1>1, <1>3, <2>1, AnswerProgress, MoveFollows
<1>4. ASSUME NEW pc \in {"find", "publish"}, NEW tenant,
             hook' = [hook EXCEPT ![w].pc = pc, ![w].tenant = tenant], UNCHANGED acked,
             pc = "publish" <=> EventOf(w).type = "invoice"
      PROVE  FollowInv'
  <2>1. hook' \in [Workers -> Hook]
    <3>1. IsolationInv'
      BY ResolveTenantStep
    <3> QED
      BY <3>1 DEF IsolationInv, BillingTypeOK, HookTypeOK
  <2>2. PICK h \in Hook : h = hook'[w]
    BY <2>1
  <2>3. hook' = [hook EXCEPT ![w] = h] /\ h.pc = pc /\ h.ev = hook[w].ev
    BY <1>2, <1>4, <2>2 DEF Hook
  <2>4. Progress(w, h)
    BY <1>1, <1>4, <2>3 DEF Progress
  <2>5. Tells(hook[w].ev) <=> pc = "find"
    BY <1>2, <1>4 DEF Tells, Telling, EventOf, Event, EventTypes
  <2>6. HandHolds(w)'
    BY <1>1, <1>2, <2>2, <2>3, <2>5 DEF HandHolds, Tells, EventOf, Working
  <2> QED
    BY <1>1, <2>3, <2>4, <2>5, <2>6, MoveFollows
<1> QED
  BY <1>3, <1>4 DEF ResolveTenant

LEMMA FindFollows ==
  ASSUME IsolationInv, FollowInv, NEW w \in Workers, FindExisting(w), UNCHANGED <<stripeVars, req>>
  PROVE  FollowInv'
<1> DEFINE found  == findByStripeSubscriptionId(rows, EventOf(w).sub)
           tenant == Given(hook[w].tenant, found)
           h == [hook[w] EXCEPT !.pc = FoundPc(EventOf(w).type), !.tenant = tenant,
                                !.snap = EventOf(w).snap]
<1>1. /\ hook[w].pc = "find" /\ Working(w) /\ UNCHANGED <<ledger, rows, events, subs>>
  BY DEF FindExisting, stripeVars, Working
<1>2. /\ hook[w] \in Hook /\ hook \in [Workers -> Hook] /\ EventOf(w).sub \in Subs
      /\ EventOf(w).snap \in Snapshot /\ EventOf(w).type # "checkout.session.completed"
      /\ hook[w].ev \in 1 .. Len(events)
  BY <1>1, HookFacts DEF IsolationInv, BillingTypeOK, HookTypeOK, HookBelongs, EventOf
<1>3. CASE Answer(w) /\ tenant = None
  <2>1. ~OneSubscription
    BY <1>1, <1>3, RowIsFound DEF Given
  <2> QED
    BY <1>1, <1>3, <2>1, AnswerProgress, HandlerFollows
<1>4. CASE hook' = [hook EXCEPT ![w] = h] /\ UNCHANGED acked
  <2>1. tenant \in Opt(Tenants)
    BY <1>2, FindExistingType DEF Given, Hook
  <2> HIDE DEF tenant
  <2>2. /\ h \in Hook /\ h.pc \in {"lookup", "write"} /\ h.ev = hook[w].ev
        /\ h.snap = EventOf(w).snap
    BY <1>2, <2>1 DEF Hook, HookPc, FoundPc
  <2> HIDE DEF h
  <2>3. PICK g \in Hook, n \in 1 .. Len(events) :
               /\ g = h /\ g.pc \in {"lookup", "write"} /\ g.ev = n /\ n = hook[w].ev
               /\ g.snap = events[n].snap /\ events[n].type # "checkout.session.completed"
    BY <1>2, <2>2 DEF EventOf
  <2>4. hook' = [hook EXCEPT ![w] = g] /\ hook'[w] = g
    BY <1>2, <1>4, <2>3
  <2>5. Progress(w, g)
    BY <1>1, <1>4, <2>3, <2>4 DEF Progress
  <2>6. HandHolds(w) /\ EventTells(n)
    BY <2>3 DEF FollowInv, LogInv
  <2>7. Last(n)' = Last(n) /\ Tells(n)' = Tells(n)
    BY <1>1 DEF Last, Tells
  <2>8. Last(n) => g.snap.status = subs[events[n].sub].status
    BY <2>3, <2>6 DEF EventTells
  <2>9. HandHolds(w)'
    BY <1>1, <2>3, <2>4, <2>6, <2>7, <2>8 DEF HandHolds, Working
  <2> QED
    BY <1>1, <2>3, <2>4, <2>5, <2>9, MoveFollows
<1> HIDE DEF found
<1>5. hook[w] \in Hook /\ (tenant # None => hook' = [hook EXCEPT ![w] = h] /\ UNCHANGED acked)
  BY <1>2 DEF FindExisting, Hook, found
<1> QED
  BY <1>3, <1>4, <1>5 DEF FindExisting, found

LEMMA LookupFollows ==
  ASSUME IsolationInv, PlanTypeOK, FollowInv, NEW w \in Workers, LookupPlan(w),
         UNCHANGED <<stripeVars, req>>
  PROVE  FollowInv'
<1> DEFINE plan == PlanKey(hook[w].snap.price)
           h    == [hook[w] EXCEPT !.pc = "write", !.plan = plan]
<1>1. /\ hook[w].pc = "lookup" /\ Working(w)
      /\ UNCHANGED <<ledger, acked, rows, events, subs>>
  BY DEF LookupPlan, stripeVars, Working
<1>2. hook[w] \in Hook /\ hook \in [Workers -> Hook]
  BY <1>1, HookFacts DEF IsolationInv, BillingTypeOK, HookTypeOK
<1>3. plan \in Opt(PlanKeys)
  BY <1>2, PlanKeyType DEF Hook, Snapshot
<1> HIDE DEF plan
<1>4. /\ h \in Hook /\ hook' = [hook EXCEPT ![w] = h]
      /\ h.pc = "write" /\ h.ev = hook[w].ev /\ h.snap = hook[w].snap
  BY <1>2, <1>3 DEF LookupPlan, Hook, HookPc, plan
<1> HIDE DEF h
<1>5. Progress(w, h)
  BY <1>1, <1>4 DEF Progress
<1>6. HandHolds(w) /\ hook'[w] = h
  BY <1>4, <1>5, ProgressHooks DEF FollowInv
<1>7. HandHolds(w)'
  BY <1>1, <1>4, <1>6 DEF HandHolds, Last, Tells, Working
<1> QED
  BY <1>1, <1>4, <1>5, <1>7, MoveFollows

\* A handler that wrote its row, and goes on to publish or answers.
LEMMA WroteProgress ==
  ASSUME IsolationInv, NEW w \in Workers, hook[w].pc = "write",
         (Goto(w, "publish") /\ UNCHANGED acked) \/ Answer(w),
         UNCHANGED <<ledger, events, subs>>, FollowInv
  PROVE  \E h \in Hook : Progress(w, h) /\ h.pc \in {"publish", "idle"} /\ HandHolds(w)'
<1>1. Working(w) /\ hook[w] \in Hook /\ hook \in [Workers -> Hook]
  BY HookFacts DEF Working, IsolationInv, BillingTypeOK, HookTypeOK
<1>2. CASE Answer(w)
  BY <1>1, <1>2, AnswerProgress
<1>3. CASE Goto(w, "publish") /\ UNCHANGED acked
  <2> DEFINE h == [hook[w] EXCEPT !.pc = "publish"]
  <2>1. h \in Hook /\ h.pc = "publish" /\ h.ev = hook[w].ev /\ hook' = [hook EXCEPT ![w] = h]
    BY <1>1, <1>3 DEF Goto, Hook, HookPc
  <2> HIDE DEF h
  <2>2. Progress(w, h)
    BY <1>1, <1>3, <2>1 DEF Progress
  <2>3. HandHolds(w)'
    BY <1>1, <2>1, <2>2, ProgressHooks DEF FollowInv, HandHolds, Working
  <2> QED
    BY <2>1, <2>2, <2>3
<1> QED
  BY <1>2, <1>3

LEMMA WriteFollows ==
  ASSUME IsolationInv, FollowInv, NEW w \in Workers, WriteUpsert(w) \/ WriteCanceled(w),
         UNCHANGED <<stripeVars, req>>
  PROVE  FollowInv'
<1>1. /\ hook[w].pc = "write" /\ Working(w) /\ UNCHANGED <<ledger, events, subs>>
      /\ (Goto(w, "publish") /\ UNCHANGED acked) \/ Answer(w)
  BY DEF WriteUpsert, WriteCanceled, PublishOrAnswer, stripeVars, Working
<1>2. PICK h \in Hook : Progress(w, h) /\ h.pc \in {"publish", "idle"} /\ HandHolds(w)'
  BY <1>1, WroteProgress
<1>3. PICK n \in 1 .. Len(events), s \in Subs :
              n = hook[w].ev /\ s = events[n].sub /\ s = EventOf(w).sub
              /\ EventOf(w).type = events[n].type
  BY <1>1, HookFacts DEF EventOf
<1>4. /\ Last(n) => hook[w].snap.status = subs[s].status
      /\ events[n].type = "customer.subscription.deleted" =>
            Last(n) /\ subs[s].status = "canceled"
  BY <1>1, <1>3 DEF FollowInv, HandHolds, LogInv, EventTells
<1>5. /\ hook[w].tenant \in Tenants /\ rows[hook[w].tenant] \in Row
  BY <1>1, HookFacts DEF HookBelongs, IsolationInv, BillingTypeOK, HookTypeOK
<1>6. PICK row : /\ rows' = [rows EXCEPT ![hook[w].tenant] = row]
                 /\ Last(n) => (row.status \in ActiveStatuses <=> Paid(s))
                 /\ events[n].type # "customer.subscription.deleted" => row.sub = s
  <2>1. CASE WriteUpsert(w)
    <3> DEFINE row == upsertForTenant(rows[hook[w].tenant],
                                      UpsertInput(EventOf(w).sub, hook[w].snap, hook[w].plan))
    <3>1. rows' = [rows EXCEPT ![hook[w].tenant] = row]
      BY <2>1 DEF WriteUpsert
    <3>2. row.status = hook[w].snap.status /\ row.sub = s
      BY <1>3, NoneAssumption DEF upsertForTenant, UpsertInput, Given
    <3> HIDE DEF row
    <3> QED
      BY <1>4, <3>1, <3>2 DEF Paid
  <2>2. CASE WriteCanceled(w)
    <3> DEFINE row == markCanceledByTenant(rows[hook[w].tenant], hook[w].snap.cust, hook[w].snap.period)
    <3>1. /\ rows' = [rows EXCEPT ![hook[w].tenant] = row]
          /\ events[n].type = "customer.subscription.deleted"
      BY <1>3, <2>2 DEF WriteCanceled
    <3>2. row.status \in {"none", "canceled"}
      BY <1>5 DEF markCanceledByTenant, Row
    <3> HIDE DEF row
    <3> QED
      BY <1>4, <3>1, <3>2 DEF Paid, ActiveStatuses
  <2> QED
    BY <2>1, <2>2
<1>7. OneSubscription => RowFollows'
  BY <1>1, <1>2, <1>3, <1>6, RowsWritten
<1> QED
  BY <1>2, <1>7, HandlerFollows

-----------------------------------------------------------------------------
LEMMA FollowInit == Init => FollowInv
<1> SUFFICES ASSUME Init
             PROVE  FollowInv
  OBVIOUS
<1>1. /\ subs = [s \in Subs |-> NoSub] /\ events = <<>> /\ ledger = {} /\ acked = {}
      /\ hook = [w \in Workers |-> IdleHook]
      /\ rows = [t \in Tenants |-> NoRow]
      /\ req = [r \in Requests |-> IdleRequest]
  BY DEF Init, StripeInit, HookInit, RequestInit
<1>2. QueueInv
  BY <1>1, IdleHookType
     DEF QueueInv, Claims, OldestFirst, Attended, AtWork, OneAtATime, Working
<1>3. LogInv
  BY <1>1 DEF LogInv, Begun, NoSub
<1>4. \A w \in Workers : HandHolds(w)
  BY <1>1 DEF HandHolds, Working, IdleHook
<1>5. AskInv
  BY <1>1, IdleRequestType DEF AskInv
<1>6. RowFollows
  BY <1>1 DEF RowFollows, RowBought, Entitled, NoRow, ActiveStatuses
<1> QED
  BY <1>2, <1>3, <1>4, <1>5, <1>6 DEF FollowInv

LEMMA FollowStep ==
  ASSUME Orderly
  PROVE  IsolationInv /\ PlanTypeOK /\ FollowInv /\ [Next]_vars => FollowInv'
<1> SUFFICES ASSUME IsolationInv, PlanTypeOK, FollowInv, [Next]_vars
             PROVE  FollowInv'
  OBVIOUS
<1>1. CASE StripeNext /\ UNCHANGED <<hookVars, rows, req>>
  BY <1>1, StripeFollows
<1>2. CASE HookNext /\ UNCHANGED <<stripeVars, req>>
  <2>1. ASSUME NEW w \in Workers
        PROVE  ~HandlerFails(w) /\ ~Crash(w)
    BY DEF HandlerFails, Crash, Orderly
  <2> QED
    BY <1>2, <2>1, DeliverFollows, RetrieveFollows, ResolveFollows, FindFollows, LookupFollows,
       WriteFollows, PublishFollows DEF HookNext, HookStep
<1>3. CASE RequestNext
  BY <1>3, RequestFollows
<1>4. CASE UNCHANGED <<stripeVars, hookVars, rows, req>>
  <2>1. UNCHANGED <<custTenant, subs, events, hookVars, rows, req>>
    BY <1>4 DEF stripeVars
  <2>2. AskInv'
    BY <2>1 DEF FollowInv, AskInv
  <2> QED
    BY <2>1, <2>2, AskMoves
<1> QED
  BY <1>1, <1>2, <1>3, <1>4 DEF Next, vars

\* Nothing under way: the row of every tenant is where the last event put it.
LEMMA FollowReconciles ==
  ASSUME IsolationInv, FollowInv, OneSubscription
  PROVE  PaidStateReconciled
<1> SUFFICES ASSUME Quiescent, NEW t \in Tenants
             PROVE  Entitled(t) <=> Pays(t)
  BY DEF PaidStateReconciled, Entitled
<1>1. ASSUME NEW s \in Subs, Begun(s), OwnerOf(s) = t
      PROVE  Entitled(t) <=> Paid(s)
  <2>1. PICK e \in 1 .. Len(events) : Last(e) /\ events[e].sub = s
    BY <1>1 DEF FollowInv, LogInv, Announced
  <2>2. Written(e)
    BY DEF Quiescent, Written
  <2>3. RowTells(e)
    BY DEF FollowInv, RowFollows
  <2> QED
    BY <1>1, <2>1, <2>2, <2>3 DEF RowTells
<1>2. \A s \in Subs : Begun(s) <=> subs[s].cust # None
  BY NoneAssumption DEF IsolationInv, SubsHaveOwners, Begun, OwnsSub, OwnsCustomer
<1>3. ASSUME Entitled(t)
      PROVE  Pays(t)
  <2>1. PICK s \in Subs : Begun(s) /\ OwnerOf(s) = t
    BY <1>3 DEF FollowInv, RowFollows, RowBought
  <2> QED
    BY <1>1, <1>2, <1>3, <2>1 DEF Pays, Paid, OwnerOf
<1>4. ASSUME Pays(t)
      PROVE  Entitled(t)
  BY <1>1, <1>2, <1>4 DEF Pays, Paid, OwnerOf
<1> QED
  BY <1>3, <1>4

\* Once everything Stripe sent was answered, a tenant that bought one subscription at
\* most is entitled exactly when it pays, provided that Stripe delivers in order, that no
\* process dies and no call fails, and that tenants do not confirm, cancel or backfill.
\* Without the order, the run billing_unordered shows otherwise.
THEOREM PaidStateFollows ==
  ASSUME Orderly
  PROVE  Spec => [](OneSubscription => PaidStateReconciled)
<1>1. IsolationInv /\ PlanTypeOK /\ FollowInv /\ [Next]_vars => FollowInv'
  BY FollowStep
<1>2. IsolationInv /\ FollowInv => (OneSubscription => PaidStateReconciled)
  BY FollowReconciles
<1> QED
  BY <1>1, <1>2, FollowInit, IsolationInvariant, PlanTypeInvariant, PTL DEF Spec

-----------------------------------------------------------------------------
(* Nobody is entitled who never paid: together with what was proved of isolation and  *)
(* of statuses, it remains that no write makes a row active without a subscription.   *)

NamesSub(row) == row.status \in ActiveStatuses => row.sub # None
ActiveIsNamed == \A t \in Tenants : NamesSub(rows[t])

LEMMA UpsertNames ==
  ASSUME NEW row, NEW in, in.sub # None
  PROVE  NamesSub(upsertForTenant(row, in))
BY DEF NamesSub, upsertForTenant, Given

LEMMA HandlerNames ==
  ASSUME IsolationInv, ActiveIsNamed, NEW w \in Workers, WriteUpsert(w) \/ WriteCanceled(w)
  PROVE  ActiveIsNamed'
<1>1. hook[w].pc = "write"
  BY DEF WriteUpsert, WriteCanceled
<1>2. /\ EventOf(w).sub # None /\ rows \in [Tenants -> Row] /\ hook[w].tenant \in Tenants
      /\ rows[hook[w].tenant] \in Row
  BY <1>1, HookFacts, NoneAssumption DEF HookBelongs, IsolationInv, BillingTypeOK, HookTypeOK
<1>3. PICK row : rows' = [rows EXCEPT ![hook[w].tenant] = row] /\ NamesSub(row)
  <2>1. CASE WriteUpsert(w)
    BY <1>2, <2>1, UpsertNames DEF WriteUpsert, UpsertInput
  <2>2. CASE WriteCanceled(w)
    <3>1. markCanceledByTenant(rows[hook[w].tenant], hook[w].snap.cust, hook[w].snap.period).status
            \in {"none", "canceled"}
      BY <1>2 DEF markCanceledByTenant, Row
    <3> QED
      BY <2>2, <3>1 DEF WriteCanceled, NamesSub, ActiveStatuses
  <2> QED
    BY <2>1, <2>2
<1>4. \A t \in Tenants : rows'[t] = rows[t] \/ rows'[t] = row
  BY <1>2, <1>3
<1> QED
  BY <1>3, <1>4 DEF ActiveIsNamed, NamesSub

LEMMA RequestNames ==
  ASSUME IsolationInv, ActiveIsNamed, NEW r \in Requests, RequestStep(r)
  PROVE  ActiveIsNamed'
<1>1. CASE UNCHANGED rows
  BY <1>1 DEF ActiveIsNamed, NamesSub
<1>2. ASSUME req[r].pc # "idle", NEW row, NamesSub(row),
             rows' = [rows EXCEPT ![req[r].tenant] = row]
      PROVE  ActiveIsNamed'
  <2>1. \A t \in Tenants : rows'[t] = rows[t] \/ rows'[t] = row
    BY <1>2, RequestFacts
  <2> QED
    BY <1>2, <2>1 DEF ActiveIsNamed, NamesSub
<1>3. ASSUME req[r].pc # "idle", NEW in, in.sub # None, WriteRow(r, in)
      PROVE  ActiveIsNamed'
  BY <1>2, <1>3, UpsertNames DEF WriteRow
<1>4. req[r].pc # "idle" => RequestBelongs(req[r])
  BY RequestFacts
<1>5. CASE CheckoutSetCustomer(r)
  <2>1. req[r].pc # "idle" /\ rows[req[r].tenant] \in Row /\ NamesSub(rows[req[r].tenant])
    BY <1>5, RequestFacts DEF CheckoutSetCustomer, ActiveIsNamed
  <2>2. NamesSub(setStripeCustomerId(rows[req[r].tenant], req[r].cust))
    BY <2>1 DEF setStripeCustomerId, NamesSub, Row, ActiveStatuses
  <2> QED
    BY <1>2, <1>5, <2>1, <2>2 DEF CheckoutSetCustomer
<1>6. CASE ConfirmWrite(r)
  BY <1>3, <1>4, <1>6 DEF ConfirmWrite, UpsertInput, RequestBelongs
<1>7. CASE CancelWrite(r)
  BY <1>3, <1>4, <1>7 DEF CancelWrite, CancelInput, RequestBelongs
<1>8. CASE BackfillWrite(r)
  <2>1. WriteRow(r, BackfillInput(req[r], req[r].snap.period))
    BY <1>8 DEF BackfillWrite
  <2>2. req[r].pc = "backfillWrite" /\ req[r].sub # None
    BY <1>4, <1>8 DEF BackfillWrite, RequestBelongs
  <2>3. BackfillInput(req[r], req[r].snap.period).sub # None
    BY <2>2 DEF BackfillInput
  <2> QED
    BY <1>3, <2>1, <2>2, <2>3
<1>9. CASE BackfillUpcoming(r)
  BY <1>3, <1>4, <1>9 DEF BackfillUpcoming, BackfillInput, RequestBelongs
<1>10. CASE \/ \E c \in Customers : CheckoutCreateCustomer(r, c)
            \/ CheckoutUpdateCustomer(r) \/ CheckoutCreateSession(r)
            \/ ConfirmRetrieve(r) \/ ConfirmLookup(r)
            \/ \E immediate \in BOOLEAN : CancelStripe(r, immediate)
            \/ \E s \in Subs : BackfillRetrieve(r, s)
            \/ BackfillLookup(r) \/ BackfillNothing(r) \/ RequestEnds(r)
  BY <1>1, <1>10 DEF CheckoutCreateCustomer, CheckoutUpdateCustomer, CheckoutCreateSession,
     ConfirmRetrieve, ConfirmLookup, CancelStripe, BackfillRetrieve, BackfillLookup,
     BackfillNothing, RequestEnds
<1> QED
  BY <1>5, <1>6, <1>7, <1>8, <1>9, <1>10 DEF RequestStep

LEMMA NamedStep == IsolationInv /\ ActiveIsNamed /\ [Next]_vars => ActiveIsNamed'
<1> SUFFICES ASSUME IsolationInv, ActiveIsNamed, [Next]_vars
             PROVE  ActiveIsNamed'
  OBVIOUS
<1>1. CASE UNCHANGED rows
  BY <1>1 DEF ActiveIsNamed, NamesSub
<1>2. CASE HookNext
  BY <1>1, <1>2, HandlerNames
     DEF HookNext, Deliver, HookStep, CheckoutRetrieve, ResolveTenant, FindExisting, LookupPlan,
         Publish, HandlerFails, Crash
<1>3. CASE RequestNext
  BY <1>1, <1>3, RequestNames
     DEF RequestNext, CheckoutRead, CancelRead, BackfillRead, ConfirmSession
<1>4. CASE UNCHANGED vars
  BY <1>1, <1>4 DEF vars
<1> QED
  BY <1>1, <1>2, <1>3, <1>4 DEF Next

\* A tenant whose row is active owns the subscription the row names, and that
\* subscription was active in Stripe: no interleaving of partial writes, redeliveries,
\* crashes and stale reads entitles a tenant that never paid.
THEOREM EntitledHavePaid == Spec => []EntitlementWasPaid
<1>1. Init => ActiveIsNamed
  BY DEF Init, HookInit, ActiveIsNamed, NamesSub, NoRow, ActiveStatuses
<1>2. IsolationInv /\ RowInv /\ ActiveIsNamed => EntitlementWasPaid
  <2> SUFFICES ASSUME IsolationInv, RowInv, ActiveIsNamed,
                      NEW t \in Tenants, rows[t].status \in ActiveStatuses
               PROVE  /\ rows[t].sub \in Subs /\ OwnsSub(t, rows[t].sub)
                      /\ seen[rows[t].sub] \cap ActiveStatuses # {}
    BY DEF EntitlementWasPaid
  <2>1. rows[t].sub # None
    BY DEF ActiveIsNamed, NamesSub
  <2> QED
    BY <2>1 DEF IsolationInv, RowsBelong, RowInv, RowHonest, Honest
<1> QED
  BY <1>1, <1>2, IsolationInvariant, RowInvariant, NamedStep, PTL DEF Spec

-----------------------------------------------------------------------------
(* Without faults a claim is as good as a publication, in whatever order events come   *)
(* and whatever the tenants request: a handler that gives an event up has nothing to    *)
(* tell, because the period of a subscription and the loss of its customer are final.   *)

EventDated(e) ==
  events[e].type # "checkout.session.completed" =>
    events[e].snap.period = subs[events[e].sub].period

HookInformed(w) ==
  LET ev == events[hook[w].ev]
  IN  /\ ev.type # "other"
      /\ hook[w].pc \in {"find", "lookup", "write"} => ev.type # "invoice"
      /\ hook[w].pc = "find" /\ hook[w].tenant = None => subs[ev.sub].cust \in deleted
      /\ hook[w].pc \in {"lookup", "write"} => hook[w].snap.period = subs[ev.sub].period

PublishInv ==
  /\ ledger \subseteq 1 .. Len(events)
  /\ \A e \in 1 .. Len(events) : EventDated(e)
  /\ \A w \in Workers : Working(w) => HookInformed(w)
  /\ ClaimedIsPublished

\* What Stripe, or a request, does is never taken back.
Onward ==
  /\ deleted \subseteq deleted'
  /\ \A s \in Subs : Begun(s) => /\ subs'[s].cust = subs[s].cust
                                 /\ subs'[s].period = subs[s].period
  /\ Len(events') \in Nat /\ Len(events) <= Len(events')
  /\ \A e \in 1 .. Len(events) : events'[e] = events[e]
  /\ \A e \in 1 .. Len(events') : e > Len(events) => EventDated(e)'

LEMMA OnwardPublishes ==
  ASSUME IsolationInv, PublishInv, Onward, UNCHANGED hookVars
  PROVE  PublishInv'
<1>1. UNCHANGED <<ledger, acked, published, hook>> /\ Len(events) \in Nat
  BY DEF hookVars, IsolationInv, BillingTypeOK, StripeTypeOK
<1>2. ledger' \subseteq 1 .. Len(events')
  BY <1>1 DEF PublishInv, Onward
<1>3. ASSUME NEW e \in 1 .. Len(events)
      PROVE  /\ events'[e] = events[e]
             /\ subs'[events[e].sub].cust = subs[events[e].sub].cust
             /\ subs'[events[e].sub].period = subs[events[e].sub].period
  BY EventFacts DEF Onward
<1>4. ASSUME NEW e \in 1 .. Len(events')
      PROVE  EventDated(e)'
  <2>1. CASE e \in 1 .. Len(events)
    BY <1>3, <2>1 DEF PublishInv, EventDated
  <2>2. CASE e > Len(events)
    BY <2>2 DEF Onward
  <2> QED
    BY <1>1, <2>1, <2>2
<1>5. ASSUME NEW w \in Workers, Working(w)'
      PROVE  HookInformed(w)'
  <2>1. Working(w) /\ HookInformed(w)
    BY <1>1, <1>5 DEF PublishInv, Working
  <2>2. PICK n \in 1 .. Len(events) : n = hook[w].ev /\ n = hook'[w].ev
    BY <1>1, <2>1, HookFacts DEF Working
  <2>3. PICK ev : ev = events[n] /\ ev = events'[n]
    BY <1>3
  <2> QED
    BY SMTT(30), <1>1, <1>3, <2>1, <2>2, <2>3 DEF HookInformed, Onward
<1>6. ASSUME NEW e \in ledger, Publishable(e)'
      PROVE  e \in published \/ \E w \in Workers : Working(w) /\ hook[w].ev = e
  <2>1. e \in 1 .. Len(events)
    BY DEF PublishInv
  <2>2. Publishable(e)
    BY <1>3, <1>6, <2>1 DEF Publishable, Onward
  <2> QED
    BY <2>2 DEF PublishInv, ClaimedIsPublished
<1>7. ClaimedIsPublished'
  BY <1>1, <1>6 DEF ClaimedIsPublished, Working
<1> QED
  BY <1>2, <1>4, <1>5, <1>7 DEF PublishInv

LEMMA EmitOnward ==
  ASSUME IsolationInv, NEW s \in Subs, NEW type \in EventTypes, Emits(s, type),
         deleted \subseteq deleted'
  PROVE  Onward
<1>1. Len(events) \in Nat /\ Len(events') = Len(events) + 1
  BY DEF IsolationInv, BillingTypeOK, StripeTypeOK, Emits
<1>2. \A u \in Subs : Begun(u) => /\ subs'[u].cust = subs[u].cust
                                  /\ subs'[u].period = subs[u].period
  BY DEF Emits
<1>3. ASSUME NEW e \in 1 .. Len(events'), e > Len(events)
      PROVE  EventDated(e)'
  <2>1. e = Len(events')
    BY <1>1, <1>3
  <2> QED
    BY <2>1 DEF Emits, EventDated
<1> QED
  BY <1>1, <1>2, <1>3 DEF Emits, Onward

LEMMA StillOnward ==
  ASSUME IsolationInv, UNCHANGED <<subs, events>>, deleted \subseteq deleted'
  PROVE  Onward
BY DEF Onward, IsolationInv, BillingTypeOK, StripeTypeOK

LEMMA CancelOnward ==
  ASSUME IsolationInv, NEW r \in Requests, NEW immediate \in BOOLEAN, CancelStripe(r, immediate)
  PROVE  Onward
<1>1. PICK s : s = req[r].sub
  OBVIOUS
<1>2. PICK state : state = IF immediate THEN [subs[s] EXCEPT !.status = "canceled", !.atEnd = FALSE]
                                        ELSE [subs[s] EXCEPT !.atEnd = TRUE]
  OBVIOUS
<1>3. PICK type \in Telling :
             /\ type # "checkout.session.completed"
             /\ type = "customer.subscription.deleted" => immediate
             /\ SetSub(s, state) /\ Live(s) /\ UNCHANGED <<custTenant, deleted>>
             /\ IF state = subs[s] THEN UNCHANGED events ELSE emit(type, s, None, state)
             /\ req[r].pc = "cancelStripe"
  BY <1>1, <1>2 DEF CancelStripe, Telling
<1>4. s \in Subs /\ subs \in [Subs -> Snapshot] /\ None \in Opt(Tenants)
  BY <1>1, <1>3, RequestFacts
     DEF RequestBelongs, Request, Opt, IsolationInv, BillingTypeOK, StripeTypeOK
<1>5. /\ state \in Snapshot /\ state.cust = subs[s].cust /\ state.period = subs[s].period
      /\ state.status # "none"
      /\ type = "customer.subscription.deleted" => state.status = "canceled"
  BY <1>2, <1>3, <1>4 DEF Snapshot, RowStatus, SubStatus, Live
<1>6. CASE emit(type, s, None, state)
  <2>1. Emits(s, type)
    BY <1>3, <1>4, <1>5, <1>6, SetSubEmits
  <2>2. type \in EventTypes
    BY DEF Telling, EventTypes
  <2> QED
    BY <1>3, <1>4, <2>1, <2>2, EmitOnward
<1>7. CASE state = subs[s] /\ UNCHANGED events
  <2>1. subs' = subs
    BY <1>3, <1>4, <1>7 DEF SetSub
  <2> QED
    BY <1>3, <1>7, <2>1, StillOnward
<1> QED
  BY <1>3, <1>6, <1>7

LEMMA StripeOnward ==
  ASSUME IsolationInv, StripeNext
  PROVE  Onward
<1>1. deleted \subseteq deleted'
  BY DEF StripeNext, StripeCompleteCheckout, StripeUpdate, StripeEnd, StripeOtherEvent,
         StripeDeleteCustomer
<1> QED
  BY <1>1, StripeEmits, EmitOnward, StillOnward

LEMMA RequestOnward ==
  ASSUME IsolationInv, RequestNext
  PROVE  Onward /\ UNCHANGED hookVars
<1>1. ASSUME NEW r \in Requests, RequestStep(r)
      PROVE  Onward /\ UNCHANGED hookVars
  <2>1. ASSUME NEW immediate \in BOOLEAN, CancelStripe(r, immediate)
        PROVE  Onward /\ UNCHANGED hookVars
    BY <2>1, CancelOnward DEF CancelStripe
  <2>2. ASSUME ~\E immediate \in BOOLEAN : CancelStripe(r, immediate)
        PROVE  UNCHANGED <<subs, events, deleted, hookVars>>
    BY <1>1, <2>2
       DEF RequestStep, CheckoutCreateCustomer, CheckoutSetCustomer, CheckoutUpdateCustomer,
           CheckoutCreateSession, ConfirmRetrieve, ConfirmLookup, ConfirmWrite, CancelWrite,
           BackfillRetrieve, BackfillLookup, BackfillWrite, BackfillNothing, BackfillUpcoming, RequestEnds, stripeVars
  <2> QED
    BY <2>1, <2>2, StillOnward
<1>2. ASSUME ~\E r \in Requests : RequestStep(r)
      PROVE  UNCHANGED <<subs, events, deleted, hookVars>>
  BY <1>2 DEF RequestNext, CheckoutRead, CancelRead, BackfillRead, ConfirmSession, stripeVars
<1> QED
  BY <1>1, <1>2, StillOnward

\* What remains to be shown of a handler's step: it knows what it needs, or the event it
\* is done with was published or is not to be.
LEMMA HandlerPublishes ==
  ASSUME IsolationInv, PublishInv, UNCHANGED stripeVars,
         NEW w \in Workers, NEW h \in Hook, Working(w), hook' = [hook EXCEPT ![w] = h],
         ledger' = ledger, published \subseteq published',
         \/ h.pc # "idle" /\ h.ev = hook[w].ev /\ HookInformed(w)'
         \/ h.pc = "idle" /\ (Publishable(hook[w].ev) => hook[w].ev \in published')
  PROVE  PublishInv'
<1>1. UNCHANGED <<subs, events, deleted>>
  BY DEF stripeVars
<1>2. hook'[w] = h /\ \A v \in Workers : v # w => hook'[v] = hook[v]
  BY DEF IsolationInv, BillingTypeOK, HookTypeOK
<1>3. ledger' \subseteq 1 .. Len(events') /\ \A e \in 1 .. Len(events') : EventDated(e)'
  BY <1>1 DEF PublishInv, EventDated
<1>4. ASSUME NEW v \in Workers, Working(v)'
      PROVE  HookInformed(v)'
  <2>1. CASE v = w
    BY <1>2, <1>4, <2>1 DEF Working
  <2>2. CASE v # w
    <3>1. Working(v) /\ hook'[v] = hook[v]
      BY <1>2, <1>4, <2>2 DEF Working
    <3>2. HookInformed(v)
      BY <3>1 DEF PublishInv
    <3> QED
      BY <1>1, <3>1, <3>2 DEF HookInformed
  <2> QED
    BY <2>1, <2>2
<1>5. ASSUME NEW e \in ledger, Publishable(e)', e \notin published'
      PROVE  \E v \in Workers : Working(v)' /\ hook'[v].ev = e
  <2>1. Publishable(e)
    BY <1>1, <1>5 DEF Publishable
  <2>2. PICK v \in Workers : Working(v) /\ hook[v].ev = e
    BY <1>5, <2>1 DEF PublishInv, ClaimedIsPublished
  <2>3. CASE v = w
    BY <1>2, <1>5, <2>1, <2>2, <2>3 DEF Working
  <2>4. CASE v # w
    BY <1>2, <2>2, <2>4 DEF Working
  <2> QED
    BY <2>3, <2>4
<1>6. ClaimedIsPublished'
  BY <1>5 DEF ClaimedIsPublished
<1> QED
  BY <1>3, <1>4, <1>6 DEF PublishInv

LEMMA DeliverPublishes ==
  ASSUME IsolationInv, PublishInv, ~Faults, UNCHANGED stripeVars,
         NEW w \in Workers, NEW e \in 1 .. Len(events), Deliver(w, e)
  PROVE  PublishInv'
<1>1. UNCHANGED <<subs, events, deleted, published>> /\ hook[w].pc = "idle"
  BY DEF stripeVars, Deliver
<1>2. \A d \in 1 .. Len(events') : EventDated(d)'
  BY <1>1 DEF PublishInv, EventDated
<1>3. \A d : Publishable(d)' <=> Publishable(d)
  BY <1>1 DEF Publishable
<1>4. CASE UNCHANGED <<ledger, hook>>
  <2>1. \A v \in Workers : Working(v)' => HookInformed(v)'
    BY <1>1, <1>4 DEF PublishInv, Working, HookInformed
  <2>2. ClaimedIsPublished'
    BY <1>1, <1>3, <1>4 DEF PublishInv, ClaimedIsPublished, Working
  <2> QED
    BY <1>1, <1>2, <1>4, <2>1, <2>2 DEF PublishInv
<1>5. ASSUME ledger' = ledger \cup {e}, NEW h, h.ev = e, h.pc \in {"retrieve", "resolve"},
             events[e].type # "other", hook' = [hook EXCEPT ![w] = h]
      PROVE  PublishInv'
  <2>1. hook'[w] = h /\ \A v \in Workers : v # w => hook'[v] = hook[v]
    BY <1>5 DEF IsolationInv, BillingTypeOK, HookTypeOK
  <2>2. ASSUME NEW v \in Workers, Working(v)'
        PROVE  HookInformed(v)'
    <3>1. CASE v = w
      BY <1>1, <1>5, <2>1, <3>1 DEF HookInformed
    <3>2. CASE v # w
      BY <1>1, <2>1, <2>2, <3>2 DEF PublishInv, HookInformed, Working
    <3> QED
      BY <3>1, <3>2
  <2>3. ASSUME NEW d \in ledger', Publishable(d)', d \notin published'
        PROVE  \E v \in Workers : Working(v)' /\ hook'[v].ev = d
    <3>1. CASE d = e
      BY <1>5, <2>1, <3>1 DEF Working
    <3>2. CASE d # e
      <4>1. PICK v \in Workers : Working(v) /\ hook[v].ev = d
        BY <1>1, <1>3, <1>5, <2>3, <3>2 DEF PublishInv, ClaimedIsPublished
      <4> QED
        BY <1>1, <2>1, <4>1 DEF Working
    <3> QED
      BY <3>1, <3>2
  <2>4. ClaimedIsPublished'
    BY <2>3 DEF ClaimedIsPublished
  <2> QED
    BY <1>1, <1>2, <1>5, <2>2, <2>4 DEF PublishInv
<1>6. CASE ledger' = ledger \cup {e} /\ UNCHANGED hook /\ events[e].type = "other"
  <2>1. \A v \in Workers : Working(v)' => HookInformed(v)'
    BY <1>1, <1>6 DEF PublishInv, Working, HookInformed
  <2>2. ~Publishable(e)
    BY <1>6 DEF Publishable
  <2>3. ClaimedIsPublished'
    BY <1>1, <1>3, <1>6, <2>2 DEF PublishInv, ClaimedIsPublished, Working
  <2> QED
    BY <1>1, <1>2, <1>6, <2>1, <2>3 DEF PublishInv
<1>7. CASE ClaimOwned(w, e)
  <2>1. PICK h : h = Handling(e)
    OBVIOUS
  <2>2. h.ev = e /\ h.pc \in {"retrieve", "resolve"}
    BY <2>1 DEF NextPc, Handling
  <2> QED
    BY <1>5, <1>6, <1>7, <2>1, <2>2 DEF ClaimOwned
<1> QED
  BY <1>4, <1>7 DEF Deliver, ClaimRefused

LEMMA HookStepPublishes ==
  ASSUME IsolationInv, PlanTypeOK, PublishInv, UNCHANGED stripeVars, NEW w \in Workers,
         HookStep(w)
  PROVE  PublishInv'
<1>1. Working(w)
  BY DEF HookStep, CheckoutRetrieve, ResolveTenant, FindExisting, LookupPlan, WriteUpsert,
         WriteCanceled, Publish, Working
<1>2. /\ hook[w] \in Hook /\ HookBelongs(w) /\ hook[w].ev \in 1 .. Len(events)
      /\ EventOf(w) \in Event /\ EventBelongs(EventOf(w)) /\ EventOf(w).sub \in Subs
      /\ EventOf(w).snap \in Snapshot /\ subs[EventOf(w).sub] \in Snapshot
  BY <1>1, HookFacts DEF Working
<1>3. PICK g \in Hook : g = hook[w]
  BY <1>2
<1>4. PICK ev \in Event : ev = EventOf(w) /\ ev = events[g.ev]
  BY <1>2, <1>3 DEF EventOf
<1>5. PICK sub : sub = subs[ev.sub]
  OBVIOUS
<1>6. UNCHANGED <<subs, events, deleted, custTenant>>
  BY DEF stripeVars
<1>7. /\ ev.type # "other"
      /\ g.pc \in {"find", "lookup", "write"} => ev.type # "invoice"
      /\ g.pc = "find" /\ g.tenant = None => sub.cust \in deleted
      /\ g.pc \in {"lookup", "write"} => g.snap.period = sub.period
  BY <1>1, <1>3, <1>4, <1>5 DEF PublishInv, HookInformed
<1>8. ev.type # "checkout.session.completed" => ev.snap.period = sub.period
  BY <1>2, <1>3, <1>4, <1>5 DEF PublishInv, EventDated
<1>9. ASSUME NEW h \in Hook, hook' = [hook EXCEPT ![w] = h], ledger' = ledger,
             published' = published, h.pc # "idle", h.ev = g.ev,
             h.pc \in {"find", "lookup", "write"} => ev.type # "invoice",
             h.pc = "find" /\ h.tenant = None => sub.cust \in deleted,
             h.pc \in {"lookup", "write"} => h.snap.period = sub.period
      PROVE  PublishInv'
  <2>1. hook'[w] = h
    BY <1>9 DEF IsolationInv, BillingTypeOK, HookTypeOK
  <2>2. HookInformed(w)'
    BY <1>4, <1>5, <1>6, <1>7, <1>9, <2>1 DEF HookInformed
  <2> QED
    BY <1>1, <1>3, <1>9, <2>2, HandlerPublishes
<1>10. ASSUME Answer(w), ledger' = ledger, published \subseteq published',
              Publishable(g.ev) => g.ev \in published'
       PROVE  PublishInv'
  <2>1. IdleHook \in Hook /\ IdleHook.pc = "idle"
    BY DEF IdleHook, Hook, HookPc, NoSub, Snapshot, Opt, RowStatus, SubStatus, Periods
  <2> QED
    BY <1>1, <1>3, <1>10, <2>1, HandlerPublishes DEF Answer
<1>11. Publishable(g.ev) => /\ sub.cust \notin deleted
                            /\ ev.type \in {"checkout.session.completed",
                                            "customer.subscription.updated"} =>
                                 "end" \in sub.period
  BY <1>4, <1>5 DEF Publishable
<1>12. CASE CheckoutRetrieve(w)
  <2>1. g.pc = "retrieve" /\ ev.type = "checkout.session.completed"
    BY <1>2, <1>3, <1>4, <1>12 DEF CheckoutRetrieve, HookBelongs
  <2>2. PICK h : h = [g EXCEPT !.pc = "lookup", !.snap = sub]
    OBVIOUS
  <2>3. h \in Hook /\ h.pc = "lookup" /\ h.ev = g.ev /\ h.snap = sub
    BY <1>2, <1>4, <1>5, <2>2 DEF Hook, HookPc
  <2>4. /\ hook' = [hook EXCEPT ![w] = h] /\ UNCHANGED <<ledger, published>>
    BY <1>3, <1>4, <1>5, <1>12, <2>2 DEF CheckoutRetrieve
  <2> QED
    BY <1>9, <2>1, <2>3, <2>4
<1>13. CASE ResolveTenant(w)
  <2>1. g.pc = "resolve" /\ ev.type # "checkout.session.completed" /\ UNCHANGED <<ledger, published>>
    BY <1>2, <1>3, <1>4, <1>13 DEF ResolveTenant, HookBelongs
  <2>2. ev.snap.cust = sub.cust
    BY <1>2, <1>4, <1>5, <2>1 DEF EventBelongs
  <2>3. sub.cust \in Customers /\ custTenant[sub.cust] \in Tenants
    BY <1>2, <1>4, <1>5 DEF EventBelongs, IsolationInv, SubsHaveOwners, OwnsSub, OwnsCustomer
  <2>4. PICK tenant \in Opt(Tenants) :
               /\ tenant = TenantOfCustomer(ev.snap.cust)
               /\ tenant = None => sub.cust \in deleted
    BY <2>2, <2>3, NoneAssumption DEF TenantOfCustomer, Opt
  <2>5. ASSUME NEW pc \in {"find", "publish"}, pc = "find" => ev.type # "invoice",
               hook' = [hook EXCEPT ![w].pc = pc, ![w].tenant = tenant]
        PROVE  PublishInv'
    <3>1. PICK h : h = [g EXCEPT !.pc = pc, !.tenant = tenant]
      OBVIOUS
    <3>2. h \in Hook /\ h.pc = pc /\ h.ev = g.ev /\ h.tenant = tenant
      BY <2>5, <3>1 DEF Hook, HookPc
    <3>3. hook' = [hook EXCEPT ![w] = h]
      BY <1>3, <2>5, <3>1
    <3> QED
      BY <1>9, <2>1, <2>4, <2>5, <3>2, <3>3
  <2>6. CASE Answer(w) /\ tenant = None
    BY <1>10, <1>11, <2>1, <2>4, <2>6
  <2> QED
    BY <1>4, <1>13, <2>4, <2>5, <2>6 DEF ResolveTenant
<1>14. CASE FindExisting(w)
  <2>1. g.pc = "find" /\ ev.type # "checkout.session.completed" /\ UNCHANGED <<ledger, published>>
    BY <1>2, <1>3, <1>4, <1>14 DEF FindExisting, HookBelongs
  <2>2. PICK tenant \in Opt(Tenants) :
               tenant = Given(g.tenant, findByStripeSubscriptionId(rows, ev.sub))
    BY <1>3 DEF Given, findByStripeSubscriptionId, Opt, Hook
  <2>3. CASE tenant = None /\ Answer(w)
    BY <1>7, <1>10, <1>11, <2>1, <2>2, <2>3 DEF Given
  <2>4. ASSUME NEW pc \in {"lookup", "write"},
               hook' = [hook EXCEPT ![w].pc = pc, ![w].tenant = tenant, ![w].snap = ev.snap]
        PROVE  PublishInv'
    <3>1. PICK h : h = [g EXCEPT !.pc = pc, !.tenant = tenant, !.snap = ev.snap]
      OBVIOUS
    <3>2. h \in Hook /\ h.pc = pc /\ h.ev = g.ev /\ h.snap = ev.snap
      BY <1>2, <1>4, <2>2, <3>1 DEF Hook, HookPc
    <3>3. hook' = [hook EXCEPT ![w] = h]
      BY <1>3, <2>4, <3>1
    <3> QED
      BY <1>7, <1>8, <1>9, <2>1, <3>2, <3>3
  <2> QED
    BY <1>3, <1>4, <1>14, <2>2, <2>3, <2>4 DEF FindExisting, FoundPc
<1>15. ASSUME Goto(w, "publish"), UNCHANGED <<ledger, published>>
       PROVE  PublishInv'
  <2>1. PICK h : h = [g EXCEPT !.pc = "publish"]
    OBVIOUS
  <2>2. h \in Hook /\ h.pc = "publish" /\ h.ev = g.ev
    BY <2>1 DEF Hook, HookPc
  <2>3. hook' = [hook EXCEPT ![w] = h]
    BY <1>3, <1>15, <2>1 DEF Goto
  <2> QED
    BY <1>9, <1>15, <2>2, <2>3
<1>16. CASE WriteUpsert(w)
  <2>1. PICK row : /\ row = upsertForTenant(rows[hook[w].tenant],
                                           UpsertInput(EventOf(w).sub, hook[w].snap,
                                                       hook[w].plan))
                   /\ PublishOrAnswer(w, row)
    BY <1>16 DEF WriteUpsert
  <2>2. /\ g.pc = "write" /\ ev.type # "customer.subscription.deleted"
        /\ UNCHANGED <<ledger, published>>
    BY <1>3, <1>4, <1>16 DEF WriteUpsert
  <2>3. ev.type \in {"checkout.session.completed", "customer.subscription.updated"}
    BY <1>7, <2>2 DEF Event, EventTypes
  <2>4. sub.period \subseteq row.period
    BY <1>3, <1>7, <2>1, <2>2 DEF upsertForTenant, UpsertInput
  <2>5. CASE "end" \notin row.period /\ Answer(w)
    BY <1>10, <1>11, <2>2, <2>3, <2>4, <2>5
  <2>6. CASE Goto(w, "publish")
    BY <1>15, <2>2, <2>6
  <2> QED
    BY <2>1, <2>5, <2>6 DEF PublishOrAnswer
<1>17. CASE WriteCanceled(w)
  BY <1>15, <1>17 DEF WriteCanceled
<1>18. CASE Publish(w)
  BY <1>3, <1>10, <1>18 DEF Publish
<1>19. CASE LookupPlan(w)
  <2>1. PICK plan \in Opt(PlanKeys) : plan = PlanKey(hook[w].snap.price)
    BY <1>2, PlanKeyType DEF Hook, Snapshot
  <2>2. PICK h : h = [g EXCEPT !.pc = "write", !.plan = plan]
    OBVIOUS
  <2>3. h \in Hook /\ h.pc = "write" /\ h.ev = g.ev /\ h.snap = g.snap
    BY <2>2 DEF Hook, HookPc
  <2>4. g.pc = "lookup" /\ UNCHANGED <<ledger, published>>
    BY <1>3, <1>19 DEF LookupPlan
  <2>5. hook' = [hook EXCEPT ![w] = h]
    BY <1>3, <1>19, <2>1, <2>2 DEF LookupPlan
  <2> QED
    BY <1>7, <1>9, <2>3, <2>4, <2>5
<1> QED
  BY <1>12, <1>13, <1>14, <1>16, <1>17, <1>18, <1>19 DEF HookStep

LEMMA PublishStep ==
  ASSUME ~Faults
  PROVE  IsolationInv /\ PlanTypeOK /\ PublishInv /\ [Next]_vars => PublishInv'
<1> SUFFICES ASSUME IsolationInv, PlanTypeOK, PublishInv, [Next]_vars
             PROVE  PublishInv'
  OBVIOUS
<1>1. CASE Onward /\ UNCHANGED hookVars
  BY <1>1, OnwardPublishes
<1>2. CASE StripeNext /\ UNCHANGED hookVars
  BY <1>1, <1>2, StripeOnward
<1>3. CASE HookNext /\ UNCHANGED stripeVars
  BY <1>3, DeliverPublishes, HookStepPublishes DEF HookNext, HandlerFails, Crash
<1>4. CASE RequestNext
  BY <1>1, <1>4, RequestOnward
<1>5. CASE UNCHANGED <<stripeVars, hookVars>>
  BY <1>1, <1>5, StillOnward DEF stripeVars
<1> QED
  BY <1>2, <1>3, <1>4, <1>5 DEF Next, vars

\* While no process dies and no call fails, every event whose id was claimed and that has
\* something to tell was published or is being worked on: a duplicate that claimEvent
\* turns away, or a handler that gives up, loses nothing, in whatever order Stripe
\* delivers, how often it does, and whatever the tenants request meanwhile.
THEOREM ClaimsArePublished ==
  ASSUME ~Faults
  PROVE  Spec => []ClaimedIsPublished
<1>1. Init => PublishInv
  <2> SUFFICES ASSUME Init
               PROVE  PublishInv
    OBVIOUS
  <2>1. ledger = {} /\ events = <<>> /\ \A w \in Workers : hook[w] = IdleHook
    BY DEF Init, StripeInit, HookInit
  <2> QED
    BY <2>1 DEF PublishInv, ClaimedIsPublished, Working, IdleHook
<1>2. IsolationInv /\ PlanTypeOK /\ PublishInv /\ [Next]_vars => PublishInv'
  BY PublishStep
<1>3. PublishInv => ClaimedIsPublished
  BY DEF PublishInv
<1> QED
  BY <1>1, <1>2, <1>3, IsolationInvariant, PlanTypeInvariant, PTL DEF Spec
===============================================================================
