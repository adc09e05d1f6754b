----------------------------- MODULE BillingProofs -----------------------------
(***************************************************************************)
(* Proofs about BillingSystem, for any number of tenants, customers,       *)
(* subscriptions, events, webhook workers and requests.                    *)
(***************************************************************************)
EXTENDS BillingSystem, SequenceTheorems, TLAPS

\* What a step never does to the facts that requests and handlers remember.
Stable ==
  /\ \A c \in Customers : custTenant[c] # None => custTenant'[c] = custTenant[c]
  /\ \A s \in Subs : subs[s].cust # None => subs'[s].cust = subs[s].cust
  /\ \A s \in Subs : subs[s].status # "none" => subs'[s].status # "none"
  /\ Len(events) <= Len(events')
  /\ \A e \in 1 .. Len(events) : events'[e] = events[e]

\* The rows of the repository keep their type.
LEMMA UpsertType ==
  ASSUME NEW row \in Row, NEW in \in Row
  PROVE  upsertForTenant(row, in) \in Row
BY DEF upsertForTenant, Row, Given, Opt, PlanKeys, Periods

LEMMA SetCustomerType ==
  ASSUME NEW row \in Row, NEW c \in Customers
  PROVE  setStripeCustomerId(row, c) \in Row
BY DEF setStripeCustomerId, Row, RowStatus, SubStatus, Opt

LEMMA MarkCanceledType ==
  ASSUME NEW row \in Row, NEW c \in Opt(Customers), NEW period \in Periods
  PROVE  markCanceledByTenant(row, c, period) \in Row
BY DEF markCanceledByTenant, Row, RowStatus, SubStatus, Opt, Periods

\* The plan's name, or the price.
LEMMA PlanKeyType ==
  ASSUME PlanTypeOK, NEW price \in Opt(Prices)
  PROVE  PlanKey(price) \in Opt(PlanKeys)
BY CatalogAssumption DEF PlanTypeOK, PlanKey, PlanKeys, Opt

\* What the handlers and confirmCheckoutSession pass to upsertForTenant.
LEMMA UpsertInputType ==
  ASSUME NEW s \in Opt(Subs), NEW snap \in Snapshot, NEW plan \in Opt(PlanKeys)
  PROVE  UpsertInput(s, snap, plan) \in Row
BY DEF UpsertInput, Row, RowStatus, Snapshot, Opt, Periods

LEMMA CancelInputType ==
  ASSUME NEW q \in Request
  PROVE  CancelInput(q) \in Row
BY DEF CancelInput, Request, Row, RowStatus, Snapshot, Opt, Periods

LEMMA BackfillInputType ==
  ASSUME NEW q \in Request, NEW period \in Periods
  PROVE  BackfillInput(q, period) \in Row
BY DEF BackfillInput, Request, Row, RowStatus, Snapshot, Opt, Periods

LEMMA FindExistingType ==
  ASSUME NEW s \in Subs
  PROVE  findByStripeSubscriptionId(rows, s) \in Opt(Tenants)
BY DEF findByStripeSubscriptionId, Opt

\* Appending an event keeps the log's type and its earlier events.
LEMMA EmitAppends ==
  ASSUME events \in Seq(Event), NEW type \in EventTypes, NEW s \in Subs,
         NEW t \in Opt(Tenants), NEW snap \in Snapshot, emit(type, s, t, snap)
  PROVE  /\ events' \in Seq(Event)
         /\ Len(events') = Len(events) + 1
         /\ \A e \in 1 .. Len(events) : events'[e] = events[e]
         /\ events'[Len(events')] = [type |-> type, sub |-> s, tenant |-> t, snap |-> snap]
BY DEF emit, Event

-----------------------------------------------------------------------------
(* What was true of a session, an event, a handler, a request or a row stays true    *)
(* across a stable step.                                                            *)

LEMMA OwnsStable ==
  ASSUME IsolationInv, Stable, NEW t \in Tenants
  PROVE  /\ \A c : OwnsCustomer(t, c) => OwnsCustomer(t, c)'
         /\ \A s \in Subs : OwnsSub(t, s) => OwnsSub(t, s)' /\ subs'[s].cust = subs[s].cust
BY NoneAssumption DEF IsolationInv, Stable, OwnsCustomer, OwnsSub

LEMMA EventStable ==
  ASSUME IsolationInv, Stable, NEW ev \in Event, EventBelongs(ev)
  PROVE  EventBelongs(ev)'
<1>1. ev.sub \in Subs
  BY DEF Event
<1>2. PICK t \in Tenants : OwnsSub(t, ev.sub)
  BY <1>1 DEF IsolationInv, SubsHaveOwners, EventBelongs
<1>3. subs'[ev.sub].cust = subs[ev.sub].cust /\ subs'[ev.sub].status # "none"
  BY <1>1, <1>2, OwnsStable DEF Stable, EventBelongs
<1> QED
  BY <1>1, <1>3, OwnsStable DEF EventBelongs

LEMMA OldEventsBelong ==
  ASSUME IsolationInv, Stable, NEW e \in 1 .. Len(events)
  PROVE  EventBelongs(events[e])'
<1>1. events[e] \in Event /\ EventBelongs(events[e])
  BY DEF IsolationInv, BillingTypeOK, StripeTypeOK, EventsBelong
<1>2. PICK ev \in Event : ev = events[e]
  BY <1>1
<1>3. EventBelongs(ev)'
  BY <1>1, <1>2, EventStable
<1>4. ev = events'[e]
  BY <1>2 DEF Stable
<1> QED
  BY <1>3, <1>4 DEF EventBelongs, OwnsSub, OwnsCustomer

LEMMA HookStable ==
  ASSUME IsolationInv, Stable, NEW w \in Workers, hook'[w] = hook[w],
         hook[w].pc # "idle"
  PROVE  HookBelongs(w)'
<1> DEFINE ev == events[hook[w].ev]
<1>1. HookBelongs(w) /\ hook[w] \in Hook
  BY DEF IsolationInv, HooksBelong, BillingTypeOK, HookTypeOK
<1>2. hook[w].ev \in 1 .. Len(events) /\ ev \in Event /\ EventBelongs(ev)
  BY <1>1 DEF HookBelongs, IsolationInv, BillingTypeOK, StripeTypeOK, EventsBelong
<1>3. ev' = ev /\ hook[w].ev \in 1 .. Len(events')
  BY <1>1, <1>2 DEF Stable, IsolationInv, BillingTypeOK, StripeTypeOK
<1>4. ev.sub \in Subs
  BY <1>2 DEF Event
<1>5. hook[w].tenant \in Tenants \/ hook[w].tenant = None
  BY <1>1 DEF Hook, Opt
<1> QED
  BY <1>1, <1>3, <1>4, <1>5, OwnsStable DEF HookBelongs

LEMMA RequestStable ==
  ASSUME IsolationInv, Stable, NEW q \in Request, RequestBelongs(q)
  PROVE  RequestBelongs(q)'
<1>1. q.sub \in Opt(Subs) /\ q.tenant \in Tenants
  BY DEF Request, RequestBelongs
<1> QED
  BY <1>1, OwnsStable DEF RequestBelongs, Opt

RowBelongs(t) ==
  /\ rows[t].cust # None => OwnsCustomer(t, rows[t].cust)
  /\ rows[t].sub # None => OwnsSub(t, rows[t].sub)

LEMMA RowStable ==
  ASSUME IsolationInv, Stable, NEW t \in Tenants, rows'[t] = rows[t]
  PROVE  RowBelongs(t)'
<1>1. rows[t].sub \in Opt(Subs) /\ RowBelongs(t)
  BY DEF IsolationInv, BillingTypeOK, HookTypeOK, Row, RowsBelong, RowBelongs
<1>2. PICK row : row = rows[t]
  OBVIOUS
<1>3. row.cust # None => OwnsCustomer(t, row.cust)'
  BY <1>1, <1>2, OwnsStable DEF RowBelongs
<1>4. row.sub # None => OwnsSub(t, row.sub)'
  BY <1>1, <1>2, OwnsStable DEF RowBelongs, Opt
<1> QED
  BY <1>2, <1>3, <1>4 DEF RowBelongs, OwnsSub, OwnsCustomer

-----------------------------------------------------------------------------
(* The frame: a step is described by what it changes.                               *)

LEMMA Frame ==
  ASSUME IsolationInv, Stable, BillingTypeOK', SubsHaveOwners', SessionsBelong',
         \A e \in 1 .. Len(events') : e > Len(events) => EventBelongs(events[e])',
         \A w \in Workers : hook'[w] = hook[w] \/ hook'[w].pc = "idle" \/ HookBelongs(w)',
         \A r \in Requests : req'[r] = req[r] \/ req'[r].pc = "idle" \/ RequestBelongs(req[r])',
         \A t \in Tenants : rows'[t] = rows[t] \/ RowBelongs(t)'
  PROVE  IsolationInv'
<1>1. EventsBelong'
  <2> SUFFICES ASSUME NEW e \in 1 .. Len(events')
               PROVE  EventBelongs(events[e])'
    BY DEF EventsBelong
  <2>1. Len(events) \in Nat /\ Len(events') \in Nat
    BY DEF IsolationInv, BillingTypeOK, StripeTypeOK
  <2> QED
    BY <2>1, OldEventsBelong DEF Stable
<1>2. HooksBelong'
  <2> SUFFICES ASSUME NEW w \in Workers, hook'[w].pc # "idle"
               PROVE  HookBelongs(w)'
    BY DEF HooksBelong
  <2> QED
    BY HookStable
<1>3. RequestsBelong'
  <2> SUFFICES ASSUME NEW r \in Requests, req'[r].pc # "idle"
               PROVE  RequestBelongs(req[r])'
    BY DEF RequestsBelong
  <2>1. CASE req'[r] = req[r]
    <3>1. PICK q \in Request : q = req[r]
      BY DEF IsolationInv, BillingTypeOK, RequestTypeOK
    <3>2. RequestBelongs(q)
      BY <2>1, <3>1 DEF IsolationInv, RequestsBelong
    <3>3. RequestBelongs(q)'
      BY <3>1, <3>2, RequestStable
    <3> QED
      BY <2>1, <3>1, <3>3 DEF RequestBelongs, OwnsSub, OwnsCustomer
  <2> QED
    BY <2>1
<1>4. RowsBelong'
  BY RowStable DEF RowsBelong, RowBelongs
<1> QED
  BY <1>1, <1>2, <1>3, <1>4 DEF IsolationInv

\* A step that leaves Stripe alone.
LEMMA StripeUnchanged ==
  ASSUME IsolationInv, UNCHANGED stripeVars
  PROVE  /\ Stable /\ StripeTypeOK' /\ SubsHaveOwners' /\ SessionsBelong'
         /\ \A e \in 1 .. Len(events') : e > Len(events) => EventBelongs(events[e])'
<1>1. UNCHANGED <<custTenant, deleted, sessions, subs, events, seen>>
  BY DEF stripeVars
<1>2. Stable
  BY <1>1 DEF Stable, IsolationInv, BillingTypeOK, StripeTypeOK
<1>3. StripeTypeOK'
  BY <1>1 DEF StripeTypeOK, IsolationInv, BillingTypeOK
<1>4. SubsHaveOwners' /\ SessionsBelong'
  BY <1>1 DEF SubsHaveOwners, SessionsBelong, OwnsSub, OwnsCustomer, IsolationInv
<1>5. Len(events) \in Nat
  BY DEF IsolationInv, BillingTypeOK, StripeTypeOK
<1> QED
  BY <1>1, <1>2, <1>3, <1>4, <1>5

-----------------------------------------------------------------------------
(* The steps of Stripe.                                                             *)

\* A subscription changes state, keeping its customer, and an event may say so.
LEMMA SubscriptionStep ==
  ASSUME IsolationInv, NEW s \in Subs, NEW state \in Snapshot, SetSub(s, state),
         state.status # "none",
         subs[s].status # "none" => state.cust = subs[s].cust,
         NEW owner \in Tenants, OwnsCustomer(owner, state.cust),
         NEW type \in EventTypes, NEW t \in Opt(Tenants), NEW snap \in Snapshot,
         events' = events \/ emit(type, s, t, snap),
         IF type = "checkout.session.completed" THEN t = owner ELSE snap.cust = state.cust,
         UNCHANGED <<custTenant, deleted>>
  PROVE  /\ Stable /\ SubsHaveOwners'
         /\ subs' \in [Subs -> Snapshot] /\ seen' \in [Subs -> SUBSET RowStatus]
         /\ events' \in Seq(Event)
         /\ OwnsSub(owner, s)'
         /\ \A e \in 1 .. Len(events') : e > Len(events) => EventBelongs(events[e])'
<1>1. /\ subs \in [Subs -> Snapshot] /\ seen \in [Subs -> SUBSET RowStatus]
      /\ events \in Seq(Event) /\ Len(events) \in Nat
  BY DEF IsolationInv, BillingTypeOK, StripeTypeOK
<1>2. /\ subs' \in [Subs -> Snapshot] /\ subs'[s] = state
      /\ \A u \in Subs : u # s => subs'[u] = subs[u]
  BY <1>1 DEF SetSub
<1>3. seen' \in [Subs -> SUBSET RowStatus]
  BY <1>1 DEF SetSub, Snapshot
<1>4. /\ events' \in Seq(Event) /\ Len(events') \in Nat /\ Len(events) <= Len(events')
      /\ \A e \in 1 .. Len(events) : events'[e] = events[e]
      /\ \A e \in 1 .. Len(events') : e > Len(events) =>
            events'[e] = [type |-> type, sub |-> s, tenant |-> t, snap |-> snap]
  BY <1>1, EmitAppends
<1>5. subs[s].status = "none" => subs[s].cust = None
  BY DEF IsolationInv, SubsHaveOwners
<1>6. Stable
  BY <1>2, <1>4, <1>5 DEF Stable
<1>7. OwnsSub(owner, s)'
  BY <1>2 DEF OwnsSub, OwnsCustomer
<1>8. SubsHaveOwners'
  <2> SUFFICES ASSUME NEW u \in Subs
               PROVE  IF subs'[u].status = "none" THEN subs'[u].cust = None
                      ELSE \E tt \in Tenants : OwnsSub(tt, u)'
    BY DEF SubsHaveOwners
  <2>1. CASE u = s
    BY <2>1, <1>2, <1>7
  <2>2. CASE u # s
    BY <2>2, <1>2, <1>6, OwnsStable DEF IsolationInv, SubsHaveOwners
  <2> QED
    BY <2>1, <2>2
<1>9. ASSUME NEW e \in 1 .. Len(events'), e > Len(events)
      PROVE  EventBelongs(events[e])'
  BY <1>9, <1>2, <1>4, <1>7 DEF EventBelongs, OwnsSub
<1> QED
  BY <1>2, <1>3, <1>4, <1>6, <1>7, <1>8, <1>9

\* Sessions stay in the hands of their tenant.
LEMMA SessionsStable ==
  ASSUME IsolationInv, Stable, NEW ses \in sessions
  PROVE  /\ OwnsCustomer(ses.tenant, ses.cust)'
         /\ ses.sub # None => OwnsSub(ses.tenant, ses.sub)'
<1>1. ses \in Session /\ OwnsCustomer(ses.tenant, ses.cust)
  BY DEF IsolationInv, BillingTypeOK, StripeTypeOK, SessionsBelong
<1>2. ses.sub # None => OwnsSub(ses.tenant, ses.sub)
  BY DEF IsolationInv, SessionsBelong
<1> QED
  BY <1>1, <1>2, OwnsStable DEF Session, Opt

LEMMA OthersUnchanged ==
  ASSUME IsolationInv, StripeTypeOK', Stable, SubsHaveOwners', SessionsBelong',
         \A e \in 1 .. Len(events') : e > Len(events) => EventBelongs(events[e])',
         UNCHANGED <<hookVars, rows, req>>
  PROVE  IsolationInv'
<1>1. UNCHANGED <<ledger, acked, published, hook>>
  BY DEF hookVars
<1>2. BillingTypeOK'
  BY <1>1 DEF IsolationInv, BillingTypeOK, HookTypeOK, RequestTypeOK
<1> QED
  BY <1>1, <1>2, Frame

LEMMA CompleteCheckoutStep ==
  ASSUME IsolationInv, NEW ses \in sessions, NEW s \in Subs, NEW price \in Prices,
         NEW period \in PeriodChoices, StripeCompleteCheckout(ses, s, price, period),
         UNCHANGED <<hookVars, rows, req>>
  PROVE  IsolationInv'
<1> DEFINE state == [status |-> "active", cust |-> ses.cust, price |-> price,
                     period |-> period, atEnd |-> FALSE]
<1>1. ses \in Session /\ OwnsCustomer(ses.tenant, ses.cust)
  BY DEF IsolationInv, BillingTypeOK, StripeTypeOK, SessionsBelong
<1>2. state \in Snapshot /\ NoSub \in Snapshot
  BY <1>1, PeriodAssumption DEF Snapshot, Session, Opt, RowStatus, SubStatus, Periods, NoSub
<1>3. ses.tenant \in Tenants /\ ses.tenant \in Opt(Tenants) /\ ses.cust \in Customers
  BY <1>1 DEF Session, Opt
<1>4. "checkout.session.completed" \in EventTypes
  BY DEF EventTypes
<1>5. /\ subs[s].status = "none" /\ SetSub(s, state) /\ UNCHANGED <<custTenant, deleted>>
      /\ emit("checkout.session.completed", s, ses.tenant, NoSub)
  BY DEF StripeCompleteCheckout
<1>6. /\ Stable /\ SubsHaveOwners'
      /\ subs' \in [Subs -> Snapshot] /\ seen' \in [Subs -> SUBSET RowStatus]
      /\ events' \in Seq(Event)
      /\ OwnsSub(ses.tenant, s)'
      /\ \A e \in 1 .. Len(events') : e > Len(events) => EventBelongs(events[e])'
  <2> HIDE DEF state
  <2>1. state.status # "none" /\ state.cust = ses.cust
    BY DEF state
  <2> QED
    BY <1>1, <1>2, <1>3, <1>4, <1>5, <2>1, SubscriptionStep
<1>7. sessions' = (sessions \ {ses}) \cup {[ses EXCEPT !.sub = s]}
  BY DEF StripeCompleteCheckout
<1>8. StripeTypeOK'
  BY <1>1, <1>5, <1>6, <1>7 DEF IsolationInv, BillingTypeOK, StripeTypeOK, Session, Opt
<1>9. SessionsBelong'
  <2> SUFFICES ASSUME NEW x \in sessions'
               PROVE  /\ OwnsCustomer(x.tenant, x.cust)'
                      /\ x.sub # None => OwnsSub(x.tenant, x.sub)'
    BY DEF SessionsBelong
  <2>1. CASE x \in sessions
    BY <2>1, <1>6, SessionsStable
  <2>2. CASE x = [ses EXCEPT !.sub = s]
    BY <2>2, <1>1, <1>6, SessionsStable DEF Session
  <2> QED
    BY <2>1, <2>2, <1>7
<1> QED
  BY <1>6, <1>8, <1>9, OthersUnchanged

\* A live subscription is updated or ends.
LEMMA LiveSubStep ==
  ASSUME IsolationInv, NEW s \in Subs, Live(s), NEW state \in Snapshot, SetSub(s, state),
         state.status # "none", state.cust = subs[s].cust,
         NEW type \in {"customer.subscription.updated", "customer.subscription.deleted"},
         events' = events \/ emit(type, s, None, state),
         UNCHANGED <<custTenant, deleted, sessions>>
  PROVE  /\ Stable /\ StripeTypeOK' /\ SubsHaveOwners' /\ SessionsBelong'
         /\ \A e \in 1 .. Len(events') : e > Len(events) => EventBelongs(events[e])'
<1>1. PICK owner \in Tenants : OwnsCustomer(owner, state.cust)
  BY DEF IsolationInv, SubsHaveOwners, Live, OwnsSub
<1>2. type \in EventTypes /\ type # "checkout.session.completed" /\ None \in Opt(Tenants)
  BY DEF EventTypes, Opt
<1>3. /\ Stable /\ SubsHaveOwners'
      /\ subs' \in [Subs -> Snapshot] /\ seen' \in [Subs -> SUBSET RowStatus]
      /\ events' \in Seq(Event)
      /\ \A e \in 1 .. Len(events') : e > Len(events) => EventBelongs(events[e])'
  BY <1>1, <1>2, SubscriptionStep
<1>4. StripeTypeOK'
  BY <1>3 DEF IsolationInv, BillingTypeOK, StripeTypeOK
<1>5. SessionsBelong'
  BY <1>3, SessionsStable DEF SessionsBelong
<1> QED
  BY <1>3, <1>4, <1>5

LEMMA UpdateStep ==
  ASSUME IsolationInv, NEW s \in Subs, NEW to \in Changes, StripeUpdate(s, to),
         UNCHANGED <<hookVars, rows, req>>
  PROVE  IsolationInv'
<1> DEFINE state == [subs[s] EXCEPT !.status = to.status, !.price = to.price,
                                    !.atEnd = to.atEnd]
<1>1. /\ Live(s) /\ SetSub(s, state) /\ UNCHANGED <<custTenant, deleted, sessions>>
      /\ emit("customer.subscription.updated", s, None, state)
  BY DEF StripeUpdate
<1>2. subs[s] \in Snapshot
  BY DEF IsolationInv, BillingTypeOK, StripeTypeOK
<1>3. /\ state \in Snapshot /\ state.status # "none"
      /\ state.cust = subs[s].cust
  BY <1>2, ChangesAssumption DEF Snapshot, RowStatus, SubStatus, Opt
<1> HIDE DEF state
<1> QED
  BY <1>1, <1>3, LiveSubStep, OthersUnchanged

LEMMA EndStep ==
  ASSUME IsolationInv, NEW s \in Subs, StripeEnd(s), UNCHANGED <<hookVars, rows, req>>
  PROVE  IsolationInv'
<1> DEFINE state == [subs[s] EXCEPT !.status = "canceled", !.atEnd = FALSE]
<1>1. /\ Live(s) /\ SetSub(s, state) /\ UNCHANGED <<custTenant, deleted, sessions>>
      /\ emit("customer.subscription.deleted", s, None, state)
  BY DEF StripeEnd
<1>2. subs[s] \in Snapshot
  BY DEF IsolationInv, BillingTypeOK, StripeTypeOK
<1>3. /\ state \in Snapshot /\ state.status # "none"
      /\ state.cust = subs[s].cust
  BY <1>2 DEF Snapshot, RowStatus, SubStatus
<1> HIDE DEF state
<1> QED
  BY <1>1, <1>3, LiveSubStep, OthersUnchanged

LEMMA OtherEventStep ==
  ASSUME IsolationInv, NEW s \in Subs, NEW type \in Unrelated, StripeOtherEvent(s, type),
         UNCHANGED <<hookVars, rows, req>>
  PROVE  IsolationInv'
<1>1. /\ subs[s].status # "none" /\ emit(type, s, None, subs[s])
      /\ UNCHANGED <<custTenant, deleted, sessions, subs, seen>>
  BY DEF StripeOtherEvent
<1>2. /\ type \in EventTypes /\ type # "checkout.session.completed"
      /\ None \in Opt(Tenants) /\ subs[s] \in Snapshot
      /\ events \in Seq(Event) /\ Len(events) \in Nat
  BY UnrelatedAssumption DEF EventTypes, Opt, IsolationInv, BillingTypeOK, StripeTypeOK
<1>3. /\ events' \in Seq(Event) /\ Len(events') = Len(events) + 1
      /\ \A e \in 1 .. Len(events) : events'[e] = events[e]
      /\ events'[Len(events')] = [type |-> type, sub |-> s, tenant |-> None,
                                  snap |-> subs[s]]
  BY <1>1, <1>2, EmitAppends
<1>4. Stable
  BY <1>1, <1>2, <1>3 DEF Stable
<1>5. StripeTypeOK'
  BY <1>1, <1>3 DEF IsolationInv, BillingTypeOK, StripeTypeOK
<1>6. SubsHaveOwners' /\ SessionsBelong'
  BY <1>1 DEF IsolationInv, SubsHaveOwners, SessionsBelong, OwnsSub, OwnsCustomer
<1>7. \A e \in 1 .. Len(events') : e > Len(events) => EventBelongs(events[e])'
  BY <1>1, <1>2, <1>3 DEF EventBelongs
<1> QED
  BY <1>4, <1>5, <1>6, <1>7, OthersUnchanged

LEMMA DeleteCustomerStep ==
  ASSUME IsolationInv, NEW c \in Deletable, StripeDeleteCustomer(c),
         UNCHANGED <<hookVars, rows, req>>
  PROVE  IsolationInv'
<1>1. deleted' = deleted \cup {c} /\ UNCHANGED <<custTenant, sessions, subs, events, seen>>
  BY DEF StripeDeleteCustomer
<1>2. Len(events) \in Nat
  BY DEF IsolationInv, BillingTypeOK, StripeTypeOK
<1>3. Stable
  BY <1>1, <1>2 DEF Stable
<1>4. StripeTypeOK'
  BY <1>1, DeletableAssumption DEF IsolationInv, BillingTypeOK, StripeTypeOK
<1>5. SubsHaveOwners' /\ SessionsBelong'
  BY <1>1 DEF IsolationInv, SubsHaveOwners, SessionsBelong, OwnsSub, OwnsCustomer
<1> QED
  BY <1>1, <1>2, <1>3, <1>4, <1>5, OthersUnchanged

LEMMA StripeStep ==
  ASSUME IsolationInv, StripeNext, UNCHANGED <<hookVars, rows, req>>
  PROVE  IsolationInv'
BY CompleteCheckoutStep, UpdateStep, EndStep, OtherEventStep, DeleteCustomerStep
   DEF StripeNext

-----------------------------------------------------------------------------
(* The steps of the webhook handlers.                                               *)

\* A step of handler w: its state becomes h, the rows it writes stay with their tenant.
LEMMA HookChange ==
  ASSUME IsolationInv, UNCHANGED <<stripeVars, req>>,
         ledger' \in SUBSET Nat, acked' \in SUBSET Nat, published' \in SUBSET Nat,
         NEW w \in Workers, NEW h \in Hook, hook' = [hook EXCEPT ![w] = h],
         h.pc = "idle" \/ HookBelongs(w)',
         rows' \in [Tenants -> Row],
         \A t \in Tenants : rows'[t] = rows[t] \/ RowBelongs(t)'
  PROVE  IsolationInv'
<1>1. hook \in [Workers -> Hook] /\ req \in [Requests -> Request]
  BY DEF IsolationInv, BillingTypeOK, HookTypeOK, RequestTypeOK
<1>2. /\ hook' \in [Workers -> Hook] /\ hook'[w] = h
      /\ \A v \in Workers : v # w => hook'[v] = hook[v]
  BY <1>1
<1>3. BillingTypeOK'
  BY <1>1, <1>2, StripeUnchanged DEF BillingTypeOK, HookTypeOK, RequestTypeOK
<1> QED
  BY <1>2, <1>3, StripeUnchanged, Frame

\* What is known of a handler at work and of its event.
LEMMA HookFacts ==
  ASSUME IsolationInv, NEW w \in Workers, hook[w].pc # "idle"
  PROVE  /\ hook[w] \in Hook /\ HookBelongs(w) /\ hook[w].ev \in 1 .. Len(events)
         /\ hook[w].ev \in Nat
         /\ EventOf(w) \in Event /\ EventBelongs(EventOf(w)) /\ EventOf(w).sub \in Subs
         /\ EventOf(w).snap \in Snapshot
         /\ subs[EventOf(w).sub] \in Snapshot
<1>1. hook[w] \in Hook /\ HookBelongs(w)
  BY DEF IsolationInv, BillingTypeOK, HookTypeOK, HooksBelong
<1>2. hook[w].ev \in 1 .. Len(events)
  BY <1>1 DEF HookBelongs
<1>3. EventOf(w) \in Event /\ EventBelongs(EventOf(w))
  BY <1>2 DEF EventOf, IsolationInv, BillingTypeOK, StripeTypeOK, EventsBelong
<1>4. EventOf(w).sub \in Subs /\ EventOf(w).snap \in Snapshot
  BY <1>3 DEF Event
<1> QED
  BY <1>1, <1>2, <1>3, <1>4 DEF IsolationInv, BillingTypeOK, StripeTypeOK, Hook

\* Every step that ends with the answer, or with the handler's death, and writes no row.
LEMMA HookEnds ==
  ASSUME IsolationInv, NEW w \in Workers, hook[w].pc # "idle",
         hook' = [hook EXCEPT ![w] = IdleHook],
         acked' \in {acked, acked \cup {hook[w].ev}},
         published' \in {published, published \cup {hook[w].ev}},
         UNCHANGED <<stripeVars, req, ledger, rows>>
  PROVE  IsolationInv'
<1>1. IdleHook \in Hook /\ IdleHook.pc = "idle"
  BY DEF IdleHook, Hook, HookPc, NoSub, Snapshot, Opt, RowStatus, SubStatus, Periods
<1>2. acked' \in SUBSET Nat /\ published' \in SUBSET Nat /\ ledger' \in SUBSET Nat
  BY HookFacts DEF IsolationInv, BillingTypeOK, HookTypeOK
<1>3. rows' \in [Tenants -> Row]
  BY DEF IsolationInv, BillingTypeOK, HookTypeOK
<1> HIDE DEF IdleHook
<1> QED
  BY <1>1, <1>2, <1>3, HookChange

LEMMA DeliverStep ==
  ASSUME IsolationInv, NEW w \in Workers, NEW e \in 1 .. Len(events), Deliver(w, e),
         UNCHANGED <<stripeVars, req>>
  PROVE  IsolationInv'
<1>1. /\ events[e] \in Event /\ EventBelongs(events[e]) /\ e \in Nat
      /\ hook \in [Workers -> Hook] /\ hook[w] \in Hook
      /\ rows \in [Tenants -> Row]
      /\ ledger \in SUBSET Nat /\ acked \in SUBSET Nat /\ published \in SUBSET Nat
  BY DEF IsolationInv, BillingTypeOK, StripeTypeOK, EventsBelong, HookTypeOK
<1>2. ledger' \in SUBSET Nat /\ acked' \in SUBSET Nat
  BY <1>1 DEF Deliver, ClaimOwned, ClaimRefused
<1>3. UNCHANGED <<published, rows>>
  BY DEF Deliver
<1>4. CASE UNCHANGED hook
  <2>1. hook' = [hook EXCEPT ![w] = hook[w]]
    BY <1>1, <1>4
  <2>2. hook[w].pc = "idle"
    BY DEF Deliver
  <2> QED
    BY <1>1, <1>2, <1>3, <2>1, <2>2, HookChange
<1>5. CASE /\ hook' = [hook EXCEPT ![w] = Handling(e)]
           /\ events[e].type # "other"
  <2> DEFINE h == Handling(e)
  <2>1. h \in Hook
    BY <1>1 DEF Handling, Hook, HookPc, NextPc, NoSub, Snapshot, Opt, RowStatus, SubStatus, Periods, Event
  <2>2. hook'[w] = h /\ UNCHANGED <<events, subs, custTenant>>
    BY <1>1, <1>5 DEF stripeVars
  <2>3. HookBelongs(w)'
    BY <1>1, <2>2 DEF Handling, HookBelongs, EventBelongs, NextPc, OwnsSub, OwnsCustomer
  <2> HIDE DEF h
  <2>4. hook' = [hook EXCEPT ![w] = h]
    BY <1>5 DEF h
  <2> QED
    BY <1>1, <1>2, <1>3, <2>1, <2>3, <2>4, HookChange
<1> QED
  BY <1>4, <1>5 DEF Deliver, ClaimOwned, ClaimRefused

\* A step of a working handler that changes only its own state, or answers.
LEMMA HookMoves ==
  ASSUME IsolationInv, NEW w \in Workers, hook[w].pc # "idle", NEW h \in Hook,
         hook' = [hook EXCEPT ![w] = h], HookBelongs(w)',
         UNCHANGED <<stripeVars, req, ledger, acked, published, rows>>
  PROVE  IsolationInv'
<1>1. ledger' \in SUBSET Nat /\ acked' \in SUBSET Nat /\ published' \in SUBSET Nat
  BY DEF IsolationInv, BillingTypeOK, HookTypeOK
<1>2. rows' \in [Tenants -> Row]
  BY DEF IsolationInv, BillingTypeOK, HookTypeOK
<1> QED
  BY <1>1, <1>2, HookChange

LEMMA CheckoutRetrieveStep ==
  ASSUME IsolationInv, NEW w \in Workers, CheckoutRetrieve(w), UNCHANGED <<stripeVars, req>>
  PROVE  IsolationInv'
<1> DEFINE h == [hook[w] EXCEPT !.pc = "lookup", !.snap = subs[EventOf(w).sub]]
<1>1. /\ hook[w].pc = "retrieve" /\ UNCHANGED <<ledger, acked, published, rows>>
      /\ UNCHANGED <<events, subs, custTenant>>
  BY DEF CheckoutRetrieve, stripeVars
<1>2. /\ hook[w] \in Hook /\ HookBelongs(w) /\ subs[EventOf(w).sub] \in Snapshot
      /\ hook \in [Workers -> Hook]
  BY <1>1, HookFacts DEF IsolationInv, BillingTypeOK, HookTypeOK
<1>3. h \in Hook
  BY <1>2 DEF Hook, HookPc
<1>4. hook' = [hook EXCEPT ![w] = h]
  BY <1>2 DEF CheckoutRetrieve, Hook
<1>5. h.pc = "lookup" /\ h.ev = hook[w].ev /\ h.tenant = hook[w].tenant
      /\ h.snap = subs[events[hook[w].ev].sub] /\ hook'[w] = h
  BY <1>2, <1>4 DEF Hook, EventOf
<1>6. HookBelongs(w)'
  BY <1>1, <1>2, <1>5 DEF HookBelongs, OwnsSub, OwnsCustomer
<1> HIDE DEF h
<1> QED
  BY <1>1, <1>3, <1>4, <1>6, HookMoves

LEMMA ResolveTenantStep ==
  ASSUME IsolationInv, NEW w \in Workers, ResolveTenant(w), UNCHANGED <<stripeVars, req>>
  PROVE  IsolationInv'
<1> DEFINE tenant == TenantOfCustomer(EventOf(w).snap.cust)
<1>1. /\ hook[w].pc = "resolve" /\ UNCHANGED <<ledger, published, rows>>
      /\ UNCHANGED <<events, subs, custTenant>>
  BY DEF ResolveTenant, stripeVars
<1>2. /\ hook[w] \in Hook /\ HookBelongs(w) /\ hook \in [Workers -> Hook]
      /\ EventOf(w).type # "checkout.session.completed"
      /\ EventOf(w).sub \in Subs /\ EventBelongs(EventOf(w))
  BY <1>1, HookFacts DEF IsolationInv, BillingTypeOK, HookTypeOK, HookBelongs, EventOf
<1>3. /\ EventOf(w).snap.cust = subs[EventOf(w).sub].cust
      /\ \E t \in Tenants : OwnsSub(t, EventOf(w).sub)
  BY <1>2 DEF EventBelongs, IsolationInv, SubsHaveOwners
<1>4. tenant = None \/ (tenant \in Tenants /\ OwnsSub(tenant, EventOf(w).sub))
  BY <1>3 DEF TenantOfCustomer, OwnsSub, OwnsCustomer
<1> HIDE DEF tenant
<1>5. CASE Answer(w)
  BY <1>1, <1>5, HookEnds DEF Answer
<1>6. CASE /\ UNCHANGED acked
           /\ \E pc \in {"find", "publish"} :
                 hook' = [hook EXCEPT ![w].pc = pc, ![w].tenant = tenant]
  <2>1. PICK pc \in {"find", "publish"} :
               hook' = [hook EXCEPT ![w].pc = pc, ![w].tenant = tenant]
    BY <1>6
  <2> DEFINE h == [hook[w] EXCEPT !.pc = pc, !.tenant = tenant]
  <2>2. h \in Hook
    BY <1>2, <1>4 DEF Hook, HookPc, Opt
  <2>3. hook' = [hook EXCEPT ![w] = h]
    BY <1>2, <2>1 DEF Hook
  <2>4. h.pc = pc /\ h.ev = hook[w].ev /\ h.tenant = tenant /\ hook'[w] = h
    BY <1>2, <2>3 DEF Hook
  <2>5. HookBelongs(w)'
    BY <1>1, <1>2, <1>4, <2>4 DEF HookBelongs, EventOf, OwnsSub, OwnsCustomer
  <2> HIDE DEF h
  <2> QED
    BY <1>1, <1>6, <2>2, <2>3, <2>5, HookMoves
<1> QED
  BY <1>5, <1>6 DEF ResolveTenant, tenant

LEMMA FindExistingStep ==
  ASSUME IsolationInv, NEW w \in Workers, FindExisting(w), UNCHANGED <<stripeVars, req>>
  PROVE  IsolationInv'
<1> DEFINE found  == findByStripeSubscriptionId(rows, EventOf(w).sub)
           tenant == Given(hook[w].tenant, found)
<1>1. /\ hook[w].pc = "find" /\ UNCHANGED <<ledger, published, rows>>
      /\ UNCHANGED <<events, subs, custTenant>>
  BY DEF FindExisting, stripeVars
<1>2. /\ hook[w] \in Hook /\ HookBelongs(w) /\ hook \in [Workers -> Hook]
      /\ EventOf(w).type # "checkout.session.completed"
      /\ EventOf(w).sub \in Subs /\ EventBelongs(EventOf(w)) /\ EventOf(w).snap \in Snapshot
  BY <1>1, HookFacts DEF IsolationInv, BillingTypeOK, HookTypeOK, HookBelongs, EventOf
<1>3. found = None \/ (found \in Tenants /\ OwnsSub(found, EventOf(w).sub))
  BY <1>2, NoneAssumption
     DEF findByStripeSubscriptionId, IsolationInv, RowsBelong
<1>4. hook[w].tenant = None \/ (hook[w].tenant \in Tenants /\ OwnsSub(hook[w].tenant, EventOf(w).sub))
  BY <1>1, <1>2 DEF HookBelongs, EventOf, Hook, Opt
<1>5. tenant = None \/ (tenant \in Tenants /\ OwnsSub(tenant, EventOf(w).sub))
  BY <1>3, <1>4 DEF Given
<1> HIDE DEF found, tenant
<1>6. CASE Answer(w)
  BY <1>1, <1>6, HookEnds DEF Answer
<1>7. CASE /\ UNCHANGED acked /\ tenant # None
           /\ hook' = [hook EXCEPT ![w].pc = FoundPc(EventOf(w).type), ![w].tenant = tenant,
                                   ![w].snap = EventOf(w).snap]
  <2> PICK pc \in {"lookup", "write"} : pc = FoundPc(EventOf(w).type)
    BY DEF FoundPc
  <2> DEFINE h == [hook[w] EXCEPT !.pc = pc, !.tenant = tenant,
                                  !.snap = EventOf(w).snap]
  <2>1. h \in Hook
    BY <1>2, <1>5 DEF Hook, HookPc, Opt
  <2>2. hook' = [hook EXCEPT ![w] = h]
    BY <1>2, <1>7 DEF Hook
  <2>3. /\ h.pc = pc /\ h.ev = hook[w].ev /\ h.tenant = tenant /\ hook'[w] = h
        /\ h.snap = EventOf(w).snap
    BY <1>2, <2>2 DEF Hook
  <2>4. /\ hook[w].ev \in 1 .. Len(events)
        /\ EventOf(w).snap.cust = subs[EventOf(w).sub].cust
    BY <1>2 DEF HookBelongs, EventBelongs, EventOf
  <2>5. tenant \in Tenants /\ OwnsSub(tenant, EventOf(w).sub)
    BY <1>5, <1>7
  <2> HIDE DEF h
  <2>6. HookBelongs(w)'
    BY <1>1, <2>3, <2>4, <2>5 DEF HookBelongs, EventOf, OwnsSub, OwnsCustomer
  <2> QED
    BY <1>1, <1>7, <2>1, <2>2, <2>6, HookMoves
<1> QED
  BY <1>6, <1>7 DEF FindExisting, tenant, found

LEMMA LookupPlanStep ==
  ASSUME IsolationInv, PlanTypeOK, NEW w \in Workers, LookupPlan(w),
         UNCHANGED <<stripeVars, req>>
  PROVE  IsolationInv'
<1> DEFINE plan == PlanKey(hook[w].snap.price)
           h    == [hook[w] EXCEPT !.pc = "write", !.plan = plan]
<1>1. /\ hook[w].pc = "lookup" /\ UNCHANGED <<ledger, acked, published, rows>>
      /\ UNCHANGED <<events, subs, custTenant>>
  BY DEF LookupPlan, stripeVars
<1>2. hook[w] \in Hook /\ HookBelongs(w) /\ hook \in [Workers -> Hook]
  BY <1>1, HookFacts DEF IsolationInv, BillingTypeOK, HookTypeOK
<1>3. plan \in Opt(PlanKeys)
  BY <1>2, PlanKeyType DEF Hook, Snapshot
<1> HIDE DEF plan
<1>4. h \in Hook
  BY <1>2, <1>3 DEF Hook, HookPc
<1>5. hook' = [hook EXCEPT ![w] = h]
  BY <1>2 DEF LookupPlan, Hook, plan
<1>6. /\ h.pc = "write" /\ h.ev = hook[w].ev /\ h.tenant = hook[w].tenant
      /\ h.snap = hook[w].snap /\ hook'[w] = h
  BY <1>2, <1>5 DEF Hook
<1>7. HookBelongs(w)'
  BY <1>1, <1>2, <1>6 DEF HookBelongs, OwnsSub, OwnsCustomer
<1> HIDE DEF h
<1> QED
  BY <1>1, <1>4, <1>5, <1>7, HookMoves

\* A handler writes the row of its tenant, then publishes or answers.
LEMMA HookWrites ==
  ASSUME IsolationInv, NEW w \in Workers, hook[w].pc = "write",
         NEW row \in Row, rows' = [rows EXCEPT ![hook[w].tenant] = row],
         row.cust # None => OwnsCustomer(hook[w].tenant, row.cust),
         row.sub # None => OwnsSub(hook[w].tenant, row.sub),
         Answer(w) \/ (Goto(w, "publish") /\ UNCHANGED acked),
         UNCHANGED <<stripeVars, req, ledger, published>>
  PROVE  IsolationInv'
<1>1. /\ hook[w] \in Hook /\ HookBelongs(w) /\ hook[w].ev \in Nat
      /\ hook \in [Workers -> Hook] /\ rows \in [Tenants -> Row]
      /\ ledger \in SUBSET Nat /\ acked \in SUBSET Nat /\ published \in SUBSET Nat
  BY HookFacts DEF IsolationInv, BillingTypeOK, HookTypeOK
<1>2. hook[w].tenant \in Tenants
  BY <1>1 DEF HookBelongs
<1>3. UNCHANGED <<custTenant, subs, events>>
  BY DEF stripeVars
<1>4. /\ rows' \in [Tenants -> Row] /\ rows'[hook[w].tenant] = row
      /\ \A t \in Tenants : t # hook[w].tenant => rows'[t] = rows[t]
  BY <1>1, <1>2
<1>6. \A t \in Tenants : rows'[t] = rows[t] \/ RowBelongs(t)'
  <2> SUFFICES ASSUME NEW t \in Tenants, t = hook[w].tenant
               PROVE  RowBelongs(t)'
    BY <1>4
  <2> QED
    BY <1>3, <1>4 DEF RowBelongs, OwnsSub, OwnsCustomer
<1>7. acked' \in SUBSET Nat
  BY <1>1 DEF Answer
<1>8. CASE Answer(w)
  <2>1. IdleHook \in Hook /\ IdleHook.pc = "idle" /\ hook' = [hook EXCEPT ![w] = IdleHook]
    BY <1>8 DEF Answer, IdleHook, Hook, HookPc, NoSub, Snapshot, Opt, RowStatus, SubStatus, Periods
  <2> HIDE DEF IdleHook
  <2> QED
    BY <1>1, <1>4, <1>6, <1>7, <2>1, HookChange
<1>9. CASE Goto(w, "publish")
  <2> DEFINE h == [hook[w] EXCEPT !.pc = "publish"]
  <2>1. h \in Hook /\ hook' = [hook EXCEPT ![w] = h]
    BY <1>1, <1>9 DEF Goto, Hook, HookPc
  <2>2. h.pc = "publish" /\ h.ev = hook[w].ev /\ hook'[w] = h
    BY <1>1, <2>1 DEF Hook
  <2>3. HookBelongs(w)'
    BY <1>1, <1>3, <2>2 DEF HookBelongs
  <2> HIDE DEF h
  <2> QED
    BY <1>1, <1>4, <1>6, <1>7, <2>1, <2>3, HookChange
<1> QED
  BY <1>8, <1>9

LEMMA WriteUpsertStep ==
  ASSUME IsolationInv, NEW w \in Workers, WriteUpsert(w), UNCHANGED <<stripeVars, req>>
  PROVE  IsolationInv'
<1> DEFINE t   == hook[w].tenant
           in  == UpsertInput(EventOf(w).sub, hook[w].snap, hook[w].plan)
           row == upsertForTenant(rows[t], in)
<1>1. /\ hook[w].pc = "write" /\ rows' = [rows EXCEPT ![t] = row]
      /\ PublishOrAnswer(w, row) /\ UNCHANGED <<ledger, published>>
  BY DEF WriteUpsert
<1>2. /\ hook[w] \in Hook /\ HookBelongs(w) /\ EventOf(w).sub \in Subs
      /\ rows \in [Tenants -> Row]
  BY <1>1, HookFacts DEF IsolationInv, BillingTypeOK, HookTypeOK
<1>3. /\ t \in Tenants /\ OwnsSub(t, EventOf(w).sub)
      /\ hook[w].snap.cust = subs[EventOf(w).sub].cust /\ hook[w].snap \in Snapshot
      /\ hook[w].plan \in Opt(PlanKeys)
  BY <1>1, <1>2 DEF HookBelongs, EventOf, Hook
<1>4. in \in Row /\ rows[t] \in Row
  BY <1>2, <1>3, UpsertInputType DEF Opt
<1>5. row \in Row
  BY <1>4, UpsertType
<1>6. row.cust = hook[w].snap.cust /\ row.sub = EventOf(w).sub
  BY <1>2, <1>3, NoneAssumption DEF upsertForTenant, UpsertInput, Given, OwnsSub, OwnsCustomer
<1>7. OwnsCustomer(t, row.cust) /\ OwnsSub(t, row.sub)
  BY <1>3, <1>6 DEF OwnsSub
<1>8. Answer(w) \/ (Goto(w, "publish") /\ UNCHANGED acked)
  BY <1>1 DEF PublishOrAnswer
<1> HIDE DEF row
<1> QED
  BY <1>1, <1>5, <1>7, <1>8, HookWrites

LEMMA WriteCanceledStep ==
  ASSUME IsolationInv, NEW w \in Workers, WriteCanceled(w), UNCHANGED <<stripeVars, req>>
  PROVE  IsolationInv'
<1> DEFINE t   == hook[w].tenant
           row == markCanceledByTenant(rows[t], hook[w].snap.cust, hook[w].snap.period)
<1>1. /\ hook[w].pc = "write" /\ rows' = [rows EXCEPT ![t] = row]
      /\ Goto(w, "publish") /\ UNCHANGED <<ledger, acked, published>>
  BY DEF WriteCanceled
<1>2. hook[w] \in Hook /\ HookBelongs(w) /\ rows \in [Tenants -> Row]
  BY <1>1, HookFacts DEF IsolationInv, BillingTypeOK, HookTypeOK
<1>3. /\ t \in Tenants /\ OwnsSub(t, EventOf(w).sub)
      /\ hook[w].snap.cust = subs[EventOf(w).sub].cust /\ hook[w].snap \in Snapshot
  BY <1>1, <1>2 DEF HookBelongs, EventOf, Hook
<1>4. hook[w].snap.cust \in Opt(Customers) /\ hook[w].snap.period \in Periods
  BY <1>3 DEF Snapshot
<1>5. row \in Row /\ rows[t] \in Row
  BY <1>2, <1>3, <1>4, MarkCanceledType
<1>6. RowBelongs(t) /\ OwnsCustomer(t, hook[w].snap.cust)
  BY <1>3 DEF IsolationInv, RowsBelong, RowBelongs, OwnsSub
<1>7. row.cust \in {rows[t].cust, hook[w].snap.cust} /\ row.sub \in {rows[t].sub, None}
  BY <1>5 DEF markCanceledByTenant, Row
<1>8. (row.cust # None => OwnsCustomer(t, row.cust)) /\ (row.sub # None => OwnsSub(t, row.sub))
  BY <1>6, <1>7 DEF RowBelongs
<1> HIDE DEF row
<1> QED
  BY <1>1, <1>5, <1>8, HookWrites

LEMMA WebhookStep ==
  ASSUME IsolationInv, PlanTypeOK, HookNext, UNCHANGED <<stripeVars, req>>
  PROVE  IsolationInv'
<1>1. CASE \E w \in Workers, e \in 1 .. Len(events) : Deliver(w, e)
  BY <1>1, DeliverStep
<1>2. ASSUME NEW w \in Workers, HookStep(w)
      PROVE  IsolationInv'
  <2>1. CASE Publish(w)
    BY <2>1, HookEnds DEF Publish, Answer
  <2> QED
    BY <1>2, <2>1, CheckoutRetrieveStep, ResolveTenantStep, FindExistingStep, LookupPlanStep,
       WriteUpsertStep, WriteCanceledStep DEF HookStep
<1>3. ASSUME NEW w \in Workers, HandlerFails(w)
      PROVE  IsolationInv'
  BY <1>3, HookEnds DEF HandlerFails, Answer
<1>4. ASSUME NEW w \in Workers, Crash(w)
      PROVE  IsolationInv'
  BY <1>4, HookEnds DEF Crash
<1> QED
  BY <1>1, <1>2, <1>3, <1>4 DEF HookNext

-----------------------------------------------------------------------------
(* The steps of the tenants' requests.                                              *)

\* Request r moves to state q; Stripe and the rows may change with it.
LEMMA RequestChange ==
  ASSUME IsolationInv, Stable, StripeTypeOK', SubsHaveOwners', SessionsBelong',
         \A e \in 1 .. Len(events') : e > Len(events) => EventBelongs(events[e])',
         UNCHANGED hookVars,
         NEW r \in Requests, NEW q \in Request, req' = [req EXCEPT ![r] = q],
         q.pc = "idle" \/ RequestBelongs(q)',
         rows' \in [Tenants -> Row],
         \A t \in Tenants : rows'[t] = rows[t] \/ RowBelongs(t)'
  PROVE  IsolationInv'
<1>1. req \in [Requests -> Request] /\ UNCHANGED <<ledger, acked, published, hook>>
  BY DEF IsolationInv, BillingTypeOK, RequestTypeOK, hookVars
<1>2. /\ req' \in [Requests -> Request] /\ req'[r] = q
      /\ \A v \in Requests : v # r => req'[v] = req[v]
  BY <1>1
<1>3. BillingTypeOK'
  BY <1>1, <1>2 DEF BillingTypeOK, HookTypeOK, RequestTypeOK, IsolationInv
<1>4. q.pc = "idle" \/ RequestBelongs(req[r])'
  BY <1>2 DEF RequestBelongs, OwnsSub, OwnsCustomer
<1> QED
  BY <1>1, <1>2, <1>3, <1>4, Frame

\* A request that changes neither Stripe nor the rows.
LEMMA RequestMoves ==
  ASSUME IsolationInv, UNCHANGED <<stripeVars, hookVars, rows>>,
         NEW r \in Requests, NEW q \in Request, req' = [req EXCEPT ![r] = q],
         q.pc = "idle" \/ RequestBelongs(q)
  PROVE  IsolationInv'
<1>1. rows' \in [Tenants -> Row]
  BY DEF IsolationInv, BillingTypeOK, HookTypeOK
<1>2. q.pc = "idle" \/ RequestBelongs(q)'
  BY StripeUnchanged, RequestStable
<1> QED
  BY <1>1, <1>2, StripeUnchanged, RequestChange

LEMMA IdleRequestType == IdleRequest \in Request /\ IdleRequest.pc = "idle"
BY DEF IdleRequest, Request, RequestPc, NoSub, Snapshot, Opt, RowStatus, SubStatus, Periods

\* What is known of a request under way.
LEMMA RequestFacts ==
  ASSUME IsolationInv, NEW r \in Requests, req[r].pc # "idle"
  PROVE  /\ req[r] \in Request /\ RequestBelongs(req[r]) /\ req[r].tenant \in Tenants
         /\ req \in [Requests -> Request] /\ rows \in [Tenants -> Row]
BY DEF IsolationInv, BillingTypeOK, HookTypeOK, RequestTypeOK, RequestsBelong, RequestBelongs

\* What a request reads of the row of its tenant belongs to that tenant.
LEMMA LoadedBelongs ==
  ASSUME IsolationInv, NEW t \in Tenants, NEW pc \in RequestPc,
         pc \in {"setCustomer", "updateCustomer", "createSession"} => rows[t].cust # None,
         pc = "cancelStripe" => rows[t].sub # None,
         pc \notin {"confirmRetrieve", "confirmLookup", "confirmWrite", "cancelWrite",
                    "backfillLookup", "backfillWrite", "backfillUpcoming"}
  PROVE  Loaded(t, pc) \in Request /\ RequestBelongs(Loaded(t, pc))
<1>1. /\ rows[t] \in Row /\ RowBelongs(t)
  BY DEF IsolationInv, BillingTypeOK, HookTypeOK, RowsBelong, RowBelongs
<1>2. IdleRequest \in Request
  BY IdleRequestType
<1>3. /\ Loaded(t, pc) \in Request
      /\ Loaded(t, pc).pc = pc /\ Loaded(t, pc).tenant = t
      /\ Loaded(t, pc).cust = rows[t].cust /\ Loaded(t, pc).sub = rows[t].sub
  BY <1>1, <1>2 DEF Loaded, Request, Row, Opt, PlanKeys
<1> QED
  BY <1>1, <1>3 DEF RequestBelongs, RowBelongs

LEMMA ReadSteps ==
  ASSUME IsolationInv, NEW r \in Requests, NEW t \in Tenants,
         CheckoutRead(r, t) \/ CancelRead(r, t) \/ BackfillRead(r, t)
  PROVE  IsolationInv'
<1>1. UNCHANGED <<stripeVars, hookVars, rows>>
  BY DEF CheckoutRead, CancelRead, BackfillRead
<1>2. CASE CheckoutRead(r, t)
  <2>1. PICK pc \in {"createCustomer", "updateCustomer"} :
               /\ req' = [req EXCEPT ![r] = Loaded(t, pc)]
               /\ pc = "updateCustomer" => rows[t].cust # None
    BY <1>2 DEF CheckoutRead
  <2>2. Loaded(t, pc) \in Request /\ RequestBelongs(Loaded(t, pc))
    BY <2>1, LoadedBelongs DEF RequestPc
  <2> QED
    BY <1>1, <2>1, <2>2, RequestMoves
<1>3. CASE CancelRead(r, t)
  <2>1. req' = [req EXCEPT ![r] = Loaded(t, "cancelStripe")] /\ rows[t].sub # None
    BY <1>3 DEF CancelRead
  <2>2. Loaded(t, "cancelStripe") \in Request /\ RequestBelongs(Loaded(t, "cancelStripe"))
    BY <2>1, LoadedBelongs DEF RequestPc
  <2> QED
    BY <1>1, <2>1, <2>2, RequestMoves
<1>4. CASE BackfillRead(r, t)
  <2> DEFINE loaded == Loaded(t, "backfillRetrieve")
             q      == [loaded EXCEPT !.snap = Shown(rows[t])]
  <2>1. req' = [req EXCEPT ![r] = q]
    BY <1>4 DEF BackfillRead
  <2>2. loaded \in Request /\ RequestBelongs(loaded)
    BY LoadedBelongs DEF RequestPc
  <2>3. Shown(rows[t]) \in Snapshot
    BY DEF Shown, Snapshot, Row, IsolationInv, BillingTypeOK, HookTypeOK
  <2> HIDE DEF loaded
  <2>4. loaded.pc = "backfillRetrieve"
    BY IdleRequestType DEF loaded, Loaded, Request
  <2>5. q \in Request /\ RequestBelongs(q)
    BY <2>2, <2>3, <2>4 DEF Request, RequestBelongs
  <2> HIDE DEF q
  <2> QED
    BY <1>1, <2>1, <2>5, RequestMoves
<1> QED
  BY <1>2, <1>3, <1>4

LEMMA ConfirmSessionStep ==
  ASSUME IsolationInv, NEW r \in Requests, NEW t \in Tenants, NEW ses \in sessions,
         ConfirmSession(r, t, ses)
  PROVE  IsolationInv'
<1> DEFINE q == [IdleRequest EXCEPT !.pc = "confirmRetrieve", !.tenant = t, !.sub = ses.sub]
<1>1. /\ ses.tenant = t /\ ses.sub # None /\ UNCHANGED <<stripeVars, hookVars, rows>>
      /\ req' = [req EXCEPT ![r] = q]
  BY DEF ConfirmSession, CheckoutBelongs
<1>2. ses \in Session /\ OwnsSub(t, ses.sub)
  BY <1>1 DEF IsolationInv, BillingTypeOK, StripeTypeOK, SessionsBelong
<1>3. /\ q \in Request /\ q.pc = "confirmRetrieve" /\ q.tenant = t
      /\ q.sub = ses.sub /\ q.cust = None
  BY <1>2, IdleRequestType DEF Request, RequestPc, Session, Opt, IdleRequest
<1>4. RequestBelongs(q)
  BY <1>1, <1>2, <1>3 DEF RequestBelongs
<1> HIDE DEF q
<1> QED
  BY <1>1, <1>3, <1>4, RequestMoves

LEMMA CreateCustomerStep ==
  ASSUME IsolationInv, NEW r \in Requests, NEW c \in Customers, CheckoutCreateCustomer(r, c)
  PROVE  IsolationInv'
<1> PICK t : t = req[r].tenant
  OBVIOUS
<1>1. /\ req[r].pc = "createCustomer" /\ custTenant[c] = None
      /\ custTenant' = [custTenant EXCEPT ![c] = t]
      /\ UNCHANGED <<deleted, sessions, subs, events, seen, hookVars, rows>>
  BY DEF CheckoutCreateCustomer
<1>2. /\ req[r] \in Request /\ RequestBelongs(req[r]) /\ t \in Tenants
      /\ req \in [Requests -> Request] /\ rows \in [Tenants -> Row]
  BY <1>1, RequestFacts
<1>3. custTenant \in [Customers -> Opt(Tenants)] /\ Len(events) \in Nat
  BY DEF IsolationInv, BillingTypeOK, StripeTypeOK
<1>4. Stable
  BY <1>1, <1>3 DEF Stable
<1>5. /\ custTenant' \in [Customers -> Opt(Tenants)]
      /\ custTenant'[c] = t /\ UNCHANGED <<deleted, sessions, subs, events, seen>>
  BY <1>1, <1>2, <1>3 DEF Opt
<1>6. StripeTypeOK'
  BY <1>5 DEF StripeTypeOK, IsolationInv, BillingTypeOK
<1>7. SubsHaveOwners'
  BY <1>4, <1>5, OwnsStable DEF SubsHaveOwners, IsolationInv
<1>8. SessionsBelong'
  BY <1>4, <1>5, SessionsStable DEF SessionsBelong
<1>9. PICK q \in Request : q = [req[r] EXCEPT !.pc = "setCustomer", !.cust = c]
  BY <1>2 DEF Request, RequestPc, Opt
<1>10. /\ req' = [req EXCEPT ![r] = q]
       /\ q.pc = "setCustomer" /\ q.cust = c /\ q.tenant = t /\ q.sub = req[r].sub
  BY <1>2, <1>9 DEF CheckoutCreateCustomer, Request
<1>11. q.sub # None => OwnsSub(t, q.sub)'
  BY <1>2, <1>4, <1>9, <1>10, OwnsStable DEF RequestBelongs, Request, Opt
<1>12. RequestBelongs(q)'
  BY <1>2, <1>5, <1>10, <1>11, NoneAssumption DEF RequestBelongs, OwnsCustomer
<1>13. \A e \in 1 .. Len(events') : e > Len(events) => EventBelongs(events[e])'
  BY <1>3, <1>5
<1> QED
  BY <1>1, <1>2, <1>4, <1>6, <1>7, <1>8, <1>9, <1>10, <1>12, <1>13, RequestChange

LEMMA UpdateCustomerStep ==
  ASSUME IsolationInv, NEW r \in Requests, CheckoutUpdateCustomer(r)
  PROVE  IsolationInv'
<1> DEFINE q == [req[r] EXCEPT !.pc = "createSession"]
<1>1. /\ req[r].pc = "updateCustomer"
      /\ custTenant' = [custTenant EXCEPT ![req[r].cust] = req[r].tenant]
      /\ UNCHANGED <<deleted, sessions, subs, events, seen, hookVars, rows>>
  BY DEF CheckoutUpdateCustomer
<1>2. /\ req[r] \in Request /\ RequestBelongs(req[r]) /\ req \in [Requests -> Request]
  BY <1>1, RequestFacts
<1>3. req[r].cust \in Customers /\ custTenant[req[r].cust] = req[r].tenant
  BY <1>1, <1>2 DEF RequestBelongs, OwnsCustomer
<1>4. UNCHANGED custTenant
  BY <1>1, <1>3 DEF IsolationInv, BillingTypeOK, StripeTypeOK
<1>5. q \in Request /\ req' = [req EXCEPT ![r] = q]
  BY <1>2 DEF CheckoutUpdateCustomer, Request, RequestPc
<1>6. RequestBelongs(q)
  BY <1>1, <1>2 DEF RequestBelongs, Request
<1> HIDE DEF q
<1>7. UNCHANGED <<stripeVars, hookVars, rows>>
  BY <1>1, <1>4 DEF stripeVars
<1> QED
  BY <1>5, <1>6, <1>7, RequestMoves

LEMMA CreateSessionStep ==
  ASSUME IsolationInv, NEW r \in Requests, CheckoutCreateSession(r)
  PROVE  IsolationInv'
<1> DEFINE new == [tenant |-> req[r].tenant, cust |-> req[r].cust, sub |-> None]
<1>1. /\ req[r].pc = "createSession" /\ sessions' = sessions \cup {new} /\ Finish(r)
      /\ UNCHANGED <<custTenant, deleted, subs, events, seen, hookVars, rows>>
  BY DEF CheckoutCreateSession
<1>2. /\ req[r] \in Request /\ RequestBelongs(req[r]) /\ req \in [Requests -> Request]
      /\ rows \in [Tenants -> Row]
  BY <1>1, RequestFacts
<1>3. OwnsCustomer(req[r].tenant, req[r].cust) /\ req[r].tenant \in Tenants
  BY <1>1, <1>2 DEF RequestBelongs
<1>4. Len(events) \in Nat
  BY DEF IsolationInv, BillingTypeOK, StripeTypeOK
<1>5. Stable
  BY <1>1, <1>4 DEF Stable
<1>6. StripeTypeOK'
  BY <1>1, <1>3 DEF IsolationInv, BillingTypeOK, StripeTypeOK, Session, Opt, OwnsCustomer
<1>7. SubsHaveOwners' /\ SessionsBelong'
  BY <1>1, <1>3 DEF SubsHaveOwners, SessionsBelong, IsolationInv, OwnsSub, OwnsCustomer
<1>8. IdleRequest \in Request /\ IdleRequest.pc = "idle" /\ req' = [req EXCEPT ![r] = IdleRequest]
  BY <1>1, IdleRequestType DEF Finish
<1> HIDE DEF IdleRequest
<1>9. \A e \in 1 .. Len(events') : e > Len(events) => EventBelongs(events[e])'
  BY <1>1, <1>4
<1> QED
  BY <1>1, <1>2, <1>5, <1>6, <1>7, <1>8, <1>9, RequestChange

LEMMA ConfirmRetrieveStep ==
  ASSUME IsolationInv, NEW r \in Requests, ConfirmRetrieve(r)
  PROVE  IsolationInv'
<1> DEFINE q == [req[r] EXCEPT !.pc = "confirmLookup", !.snap = subs[req[r].sub]]
<1>1. req[r].pc = "confirmRetrieve" /\ UNCHANGED <<stripeVars, hookVars, rows>>
  BY DEF ConfirmRetrieve
<1>2. /\ req[r] \in Request /\ RequestBelongs(req[r]) /\ req \in [Requests -> Request]
  BY <1>1, RequestFacts
<1>3. req[r].sub \in Subs /\ subs[req[r].sub] \in Snapshot
  BY <1>1, <1>2 DEF RequestBelongs, Request, Opt, IsolationInv, BillingTypeOK, StripeTypeOK
<1>4. q \in Request /\ req' = [req EXCEPT ![r] = q]
  BY <1>2, <1>3 DEF ConfirmRetrieve, Request, RequestPc
<1>5. RequestBelongs(q)
  BY <1>1, <1>2 DEF RequestBelongs, Request
<1> HIDE DEF q
<1> QED
  BY <1>1, <1>4, <1>5, RequestMoves

\* Both requests that look a plan key up.
LEMMA RequestLooksUp ==
  ASSUME IsolationInv, NEW r \in Requests, NEW plan \in Opt(PlanKeys),
         NEW pc \in {"confirmWrite", "backfillWrite"},
         req[r].pc \in {"confirmLookup", "backfillLookup"},
         pc = "confirmWrite" => req[r].pc = "confirmLookup",
         req' = [req EXCEPT ![r].pc = pc, ![r].plan = plan],
         UNCHANGED <<stripeVars, hookVars, rows>>
  PROVE  IsolationInv'
<1> DEFINE q == [req[r] EXCEPT !.pc = pc, !.plan = plan]
<1>1. req[r] \in Request /\ RequestBelongs(req[r]) /\ req \in [Requests -> Request]
  BY RequestFacts
<1>2. q \in Request /\ req' = [req EXCEPT ![r] = q]
  BY <1>1 DEF Request, RequestPc
<1>3. /\ q.pc = pc /\ q.tenant = req[r].tenant /\ q.cust = req[r].cust
      /\ q.sub = req[r].sub /\ q.snap = req[r].snap
  BY <1>1 DEF Request
<1> HIDE DEF q
<1>4. RequestBelongs(q)
  BY <1>1, <1>3 DEF RequestBelongs
<1> QED
  BY <1>2, <1>4, RequestMoves

LEMMA ConfirmLookupStep ==
  ASSUME IsolationInv, PlanTypeOK, NEW r \in Requests, ConfirmLookup(r)
  PROVE  IsolationInv'
<1> DEFINE plan == PlanKey(req[r].snap.price)
<1>1. /\ req[r].pc = "confirmLookup" /\ UNCHANGED <<stripeVars, hookVars, rows>>
      /\ req' = [req EXCEPT ![r].pc = "confirmWrite", ![r].plan = plan]
  BY DEF ConfirmLookup
<1>2. plan \in Opt(PlanKeys)
  BY <1>1, RequestFacts, PlanKeyType DEF Request, Snapshot
<1> HIDE DEF plan
<1> QED
  BY <1>1, <1>2, RequestLooksUp

\* A request writes the row of its tenant and moves to state q.
LEMMA RequestWrites ==
  ASSUME IsolationInv, NEW r \in Requests, req[r].pc # "idle",
         NEW row \in Row, rows' = [rows EXCEPT ![req[r].tenant] = row],
         row.cust # None => OwnsCustomer(req[r].tenant, row.cust),
         row.sub # None => OwnsSub(req[r].tenant, row.sub),
         NEW q \in Request, req' = [req EXCEPT ![r] = q],
         q.pc = "idle" \/ RequestBelongs(q),
         UNCHANGED <<stripeVars, hookVars>>
  PROVE  IsolationInv'
<1>1. rows \in [Tenants -> Row] /\ req[r].tenant \in Tenants
  BY RequestFacts
<1>2. /\ rows' \in [Tenants -> Row] /\ rows'[req[r].tenant] = row
      /\ \A t \in Tenants : t # req[r].tenant => rows'[t] = rows[t]
  BY <1>1
<1>3. UNCHANGED <<custTenant, subs>>
  BY DEF stripeVars
<1>4. \A t \in Tenants : rows'[t] = rows[t] \/ RowBelongs(t)'
  <2> SUFFICES ASSUME NEW t \in Tenants, t = req[r].tenant
               PROVE  RowBelongs(t)'
    BY <1>2
  <2> QED
    BY <1>2, <1>3 DEF RowBelongs, OwnsSub, OwnsCustomer
<1>5. q.pc = "idle" \/ RequestBelongs(q)'
  BY StripeUnchanged, RequestStable
<1> QED
  BY <1>2, <1>4, <1>5, StripeUnchanged, RequestChange

\* A request upserts a row from what it remembers of its own customer and subscription.
LEMMA UpsertBelongs ==
  ASSUME IsolationInv, NEW t \in Tenants, NEW in \in Row,
         in.cust # None => OwnsCustomer(t, in.cust),
         in.sub # None => OwnsSub(t, in.sub)
  PROVE  /\ upsertForTenant(rows[t], in) \in Row
         /\ upsertForTenant(rows[t], in).cust # None =>
               OwnsCustomer(t, upsertForTenant(rows[t], in).cust)
         /\ upsertForTenant(rows[t], in).sub # None =>
               OwnsSub(t, upsertForTenant(rows[t], in).sub)
<1>1. rows[t] \in Row /\ RowBelongs(t)
  BY DEF IsolationInv, BillingTypeOK, HookTypeOK, RowsBelong, RowBelongs
<1>2. upsertForTenant(rows[t], in) \in Row
  BY <1>1, UpsertType
<1> QED
  BY <1>1, <1>2 DEF upsertForTenant, Given, RowBelongs

LEMMA SetCustomerStep ==
  ASSUME IsolationInv, NEW r \in Requests, CheckoutSetCustomer(r)
  PROVE  IsolationInv'
<1> DEFINE t   == req[r].tenant
           row == setStripeCustomerId(rows[t], req[r].cust)
           q   == [req[r] EXCEPT !.pc = "createSession"]
<1>1. /\ req[r].pc = "setCustomer" /\ rows' = [rows EXCEPT ![t] = row]
      /\ UNCHANGED <<stripeVars, hookVars>>
  BY DEF CheckoutSetCustomer
<1>2. /\ req[r] \in Request /\ RequestBelongs(req[r]) /\ req \in [Requests -> Request]
      /\ t \in Tenants /\ rows \in [Tenants -> Row]
  BY <1>1, RequestFacts
<1>3. OwnsCustomer(t, req[r].cust) /\ rows[t] \in Row /\ RowBelongs(t)
  BY <1>1, <1>2 DEF RequestBelongs, IsolationInv, RowsBelong, RowBelongs
<1>4. row \in Row /\ row.cust = req[r].cust /\ row.sub = rows[t].sub
  BY <1>3, SetCustomerType DEF OwnsCustomer, setStripeCustomerId, Row
<1>5. q \in Request /\ req' = [req EXCEPT ![r] = q]
  BY <1>2 DEF CheckoutSetCustomer, Request, RequestPc
<1>6. RequestBelongs(q)
  BY <1>1, <1>2 DEF RequestBelongs, Request
<1>7. row.sub # None => OwnsSub(t, row.sub)
  BY <1>3, <1>4 DEF RowBelongs
<1>8. OwnsCustomer(t, row.cust)
  BY <1>3, <1>4
<1> HIDE DEF row, q
<1> QED
  BY <1>1, <1>4, <1>5, <1>6, <1>7, <1>8, RequestWrites

LEMMA ConfirmWriteStep ==
  ASSUME IsolationInv, NEW r \in Requests, ConfirmWrite(r)
  PROVE  IsolationInv'
<1> DEFINE t  == req[r].tenant
           in == UpsertInput(req[r].sub, req[r].snap, req[r].plan)
<1>1. /\ req[r].pc = "confirmWrite" /\ UNCHANGED <<stripeVars, hookVars>>
      /\ rows' = [rows EXCEPT ![t] = upsertForTenant(rows[t], in)]
      /\ req' = [req EXCEPT ![r] = IdleRequest]
  BY DEF ConfirmWrite, WriteRow, Finish
<1>2. req[r] \in Request /\ RequestBelongs(req[r]) /\ t \in Tenants
  BY <1>1, RequestFacts
<1>3. OwnsSub(t, req[r].sub) /\ req[r].snap.cust = subs[req[r].sub].cust
  BY <1>1, <1>2 DEF RequestBelongs
<1>4. in \in Row /\ in.cust = req[r].snap.cust /\ in.sub = req[r].sub
  BY <1>2, UpsertInputType DEF Request, UpsertInput
<1>5. OwnsCustomer(t, in.cust) /\ OwnsSub(t, in.sub)
  BY <1>3, <1>4 DEF OwnsSub
<1> HIDE DEF in
<1> QED
  BY <1>1, <1>2, <1>4, <1>5, UpsertBelongs, IdleRequestType, RequestWrites

LEMMA CancelStripeStep ==
  ASSUME IsolationInv, NEW r \in Requests, NEW immediate \in BOOLEAN,
         CancelStripe(r, immediate)
  PROVE  IsolationInv'
<1>1. /\ req[r].pc = "cancelStripe" /\ Live(req[r].sub)
      /\ UNCHANGED <<custTenant, deleted, sessions, hookVars, rows>>
  BY DEF CancelStripe
<1>2. /\ req[r] \in Request /\ RequestBelongs(req[r]) /\ req \in [Requests -> Request]
      /\ rows \in [Tenants -> Row]
  BY <1>1, RequestFacts
<1>3. PICK s \in Subs : s = req[r].sub
  BY <1>1, <1>2 DEF RequestBelongs, Request, Opt
<1>4. PICK state : state = IF immediate THEN [subs[s] EXCEPT !.status = "canceled", !.atEnd = FALSE]
                                        ELSE [subs[s] EXCEPT !.atEnd = TRUE]
  OBVIOUS
<1>5. PICK type \in {"customer.subscription.updated", "customer.subscription.deleted"} :
             /\ SetSub(s, state)
             /\ events' = events \/ emit(type, s, None, state)
             /\ req' = [req EXCEPT ![r].pc = "cancelWrite", ![r].snap = state]
  BY <1>3, <1>4 DEF CancelStripe
<1>6. subs[s] \in Snapshot
  BY DEF IsolationInv, BillingTypeOK, StripeTypeOK
<1>7. state \in Snapshot /\ state.status # "none" /\ state.cust = subs[s].cust
  BY <1>1, <1>3, <1>4, <1>6 DEF Snapshot, RowStatus, SubStatus, Live
<1>8. /\ Stable /\ StripeTypeOK' /\ SubsHaveOwners' /\ SessionsBelong'
      /\ \A e \in 1 .. Len(events') : e > Len(events) => EventBelongs(events[e])'
  BY <1>1, <1>3, <1>5, <1>7, LiveSubStep
<1>9. PICK q \in Request : q = [req[r] EXCEPT !.pc = "cancelWrite", !.snap = state]
  BY <1>2, <1>7 DEF Request, RequestPc
<1>10. req' = [req EXCEPT ![r] = q]
  BY <1>2, <1>5, <1>9 DEF Request
<1>11. RequestBelongs(q)
  BY <1>1, <1>2, <1>9 DEF RequestBelongs, Request
<1>12. RequestBelongs(q)'
  BY <1>8, <1>11, RequestStable
<1> QED
  BY <1>1, <1>2, <1>8, <1>10, <1>12, RequestChange

LEMMA CancelWriteStep ==
  ASSUME IsolationInv, NEW r \in Requests, CancelWrite(r)
  PROVE  IsolationInv'
<1> DEFINE t  == req[r].tenant
           in == CancelInput(req[r])
<1>1. /\ req[r].pc = "cancelWrite" /\ UNCHANGED <<stripeVars, hookVars>>
      /\ rows' = [rows EXCEPT ![t] = upsertForTenant(rows[t], in)]
      /\ req' = [req EXCEPT ![r] = IdleRequest]
  BY DEF CancelWrite, WriteRow, Finish
<1>2. req[r] \in Request /\ RequestBelongs(req[r]) /\ t \in Tenants
  BY <1>1, RequestFacts
<1>3. in \in Row /\ in.cust = req[r].cust /\ in.sub = req[r].sub
  BY <1>2, CancelInputType DEF CancelInput
<1>4. in.cust # None => OwnsCustomer(t, in.cust)
  BY <1>2, <1>3 DEF RequestBelongs
<1>5. in.sub # None => OwnsSub(t, in.sub)
  BY <1>2, <1>3 DEF RequestBelongs
<1> HIDE DEF in
<1> QED
  BY <1>1, <1>2, <1>3, <1>4, <1>5, UpsertBelongs, IdleRequestType, RequestWrites

\* Whatever resolveStripeSubscriptionForTenant finds is the tenant's.
LEMMA ResolvedBelongs ==
  ASSUME IsolationInv, NEW q \in Request, RequestBelongs(q), NEW s \in Subs, s \in Resolved(q)
  PROVE  OwnsSub(q.tenant, s)
<1>1. s = q.sub \/ s \in SubsOfCustomer(q.cust)
  BY DEF Resolved
<1> QED
  BY <1>1, NoneAssumption DEF SubsOfCustomer, RequestBelongs, OwnsSub

LEMMA BackfillRetrieveStep ==
  ASSUME IsolationInv, NEW r \in Requests, NEW s \in Subs, BackfillRetrieve(r, s)
  PROVE  IsolationInv'
<1> DEFINE q == [req[r] EXCEPT !.pc = "backfillLookup", !.sub = s, !.snap = subs[s]]
<1>1. /\ req[r].pc = "backfillRetrieve" /\ s \in Resolved(req[r])
      /\ UNCHANGED <<stripeVars, hookVars, rows>>
  BY DEF BackfillRetrieve
<1>2. /\ req[r] \in Request /\ RequestBelongs(req[r]) /\ req \in [Requests -> Request]
  BY <1>1, RequestFacts
<1>3. OwnsSub(req[r].tenant, s) /\ subs[s] \in Snapshot
  BY <1>1, <1>2, ResolvedBelongs DEF IsolationInv, BillingTypeOK, StripeTypeOK
<1>4. q \in Request /\ req' = [req EXCEPT ![r] = q]
  BY <1>2, <1>3 DEF BackfillRetrieve, Request, RequestPc, Opt
<1>5. RequestBelongs(q)
  BY <1>1, <1>2, <1>3, NoneAssumption DEF RequestBelongs, Request
<1> HIDE DEF q
<1> QED
  BY <1>1, <1>4, <1>5, RequestMoves

LEMMA BackfillLookupStep ==
  ASSUME IsolationInv, PlanTypeOK, NEW r \in Requests, BackfillLookup(r)
  PROVE  IsolationInv'
<1> DEFINE plan == BackfillPlan(req[r])
<1>1. /\ req[r].pc = "backfillLookup" /\ UNCHANGED <<stripeVars, hookVars, rows>>
      /\ req' = [req EXCEPT ![r].pc = "backfillWrite", ![r].plan = plan]
  BY DEF BackfillLookup
<1>2. req[r].snap.price \in Opt(Prices) /\ req[r].plan \in Opt(PlanKeys)
  BY <1>1, RequestFacts DEF Request, Snapshot
<1>3. plan \in Opt(PlanKeys)
  BY <1>2, PlanKeyType DEF BackfillPlan
<1> HIDE DEF plan
<1> QED
  BY <1>1, <1>3, RequestLooksUp

\* Both writes of the backfill.
LEMMA BackfillWrites ==
  ASSUME IsolationInv, NEW r \in Requests, NEW period \in Periods,
         req[r].pc \in {"backfillWrite", "backfillUpcoming"},
         WriteRow(r, BackfillInput(req[r], period)),
         NEW q \in Request, req' = [req EXCEPT ![r] = q],
         q.pc = "idle" \/ RequestBelongs(q),
         UNCHANGED <<stripeVars, hookVars>>
  PROVE  IsolationInv'
<1> DEFINE t  == req[r].tenant
           in == BackfillInput(req[r], period)
<1>1. rows' = [rows EXCEPT ![t] = upsertForTenant(rows[t], in)]
  BY DEF WriteRow
<1>2. req[r] \in Request /\ RequestBelongs(req[r]) /\ t \in Tenants
  BY RequestFacts
<1>3. in \in Row /\ in.cust = req[r].cust /\ in.sub = req[r].sub
  BY <1>2, BackfillInputType DEF BackfillInput
<1>4. in.cust # None => OwnsCustomer(t, in.cust)
  BY <1>2, <1>3 DEF RequestBelongs
<1>5. in.sub # None => OwnsSub(t, in.sub)
  BY <1>2, <1>3 DEF RequestBelongs
<1> HIDE DEF in
<1> QED
  BY <1>1, <1>2, <1>3, <1>4, <1>5, UpsertBelongs, RequestWrites

LEMMA BackfillWriteStep ==
  ASSUME IsolationInv, NEW r \in Requests, BackfillWrite(r)
  PROVE  IsolationInv'
<1> DEFINE q == [req[r] EXCEPT !.pc = "backfillUpcoming"]
<1>1. /\ req[r].pc = "backfillWrite" /\ UNCHANGED <<stripeVars, hookVars>>
      /\ WriteRow(r, BackfillInput(req[r], req[r].snap.period))
      /\ \/ req' = [req EXCEPT ![r].pc = "backfillUpcoming"]
         \/ req' = [req EXCEPT ![r] = IdleRequest]
  BY DEF BackfillWrite, Finish
<1>2. /\ req[r] \in Request /\ RequestBelongs(req[r]) /\ req \in [Requests -> Request]
  BY <1>1, RequestFacts
<1>3. req[r].snap.period \in Periods
  BY <1>2 DEF Request, Snapshot
<1>4. q \in Request
  BY <1>2, <1>3 DEF Request, RequestPc
<1>5. RequestBelongs(q)
  BY <1>1, <1>2 DEF RequestBelongs, Request
<1>6. req' = [req EXCEPT ![r] = q] \/ req' = [req EXCEPT ![r] = IdleRequest]
  BY <1>1, <1>2 DEF Request
<1> HIDE DEF q
<1> QED
  BY <1>1, <1>3, <1>4, <1>5, <1>6, IdleRequestType, BackfillWrites

LEMMA BackfillUpcomingStep ==
  ASSUME IsolationInv, NEW r \in Requests, BackfillUpcoming(r)
  PROVE  IsolationInv'
<1>1. /\ req[r].pc = "backfillUpcoming" /\ UNCHANGED <<stripeVars, hookVars>>
      /\ WriteRow(r, BackfillInput(req[r], {"end"}))
      /\ req' = [req EXCEPT ![r] = IdleRequest]
  BY DEF BackfillUpcoming, Finish
<1>2. {"end"} \in Periods
  BY DEF Periods
<1> QED
  BY <1>1, <1>2, IdleRequestType, BackfillWrites

LEMMA BackfillNothingStep ==
  ASSUME IsolationInv, NEW r \in Requests, BackfillNothing(r)
  PROVE  IsolationInv'
<1> DEFINE q == [req[r] EXCEPT !.pc = "backfillUpcoming"]
<1>1. /\ req[r].pc = "backfillRetrieve" /\ req[r].sub # None
      /\ UNCHANGED <<stripeVars, hookVars, rows>>
  BY DEF BackfillNothing
<1>2. /\ req[r] \in Request /\ RequestBelongs(req[r]) /\ req \in [Requests -> Request]
  BY <1>1, RequestFacts
<1>3. q \in Request /\ req' = [req EXCEPT ![r] = q]
  BY <1>2 DEF BackfillNothing, Request, RequestPc
<1>4. RequestBelongs(q)
  BY <1>1, <1>2 DEF RequestBelongs, Request
<1> HIDE DEF q
<1> QED
  BY <1>1, <1>3, <1>4, RequestMoves

LEMMA RequestEndsStep ==
  ASSUME IsolationInv, NEW r \in Requests, RequestEnds(r)
  PROVE  IsolationInv'
BY IdleRequestType, RequestMoves DEF RequestEnds, Finish

LEMMA RequestNextStep ==
  ASSUME IsolationInv, PlanTypeOK, RequestNext
  PROVE  IsolationInv'
<1>1. ASSUME NEW r \in Requests, RequestStep(r)
      PROVE  IsolationInv'
  BY <1>1, CreateCustomerStep, SetCustomerStep, UpdateCustomerStep, CreateSessionStep,
     ConfirmRetrieveStep, ConfirmLookupStep, ConfirmWriteStep, CancelStripeStep, CancelWriteStep,
     BackfillRetrieveStep, BackfillLookupStep, BackfillWriteStep, BackfillNothingStep, BackfillUpcomingStep,
     RequestEndsStep
     DEF RequestStep
<1> QED
  BY <1>1, ReadSteps, ConfirmSessionStep DEF RequestNext

-----------------------------------------------------------------------------
LEMMA IsolationInit == Init => IsolationInv
<1> SUFFICES ASSUME Init
             PROVE  IsolationInv
  OBVIOUS
<1>1. /\ custTenant = [c \in Customers |-> None] /\ deleted = {} /\ sessions = {}
      /\ subs = [s \in Subs |-> NoSub] /\ events = <<>> /\ seen = [s \in Subs |-> {}]
      /\ ledger = {} /\ acked = {} /\ published = {}
      /\ hook = [w \in Workers |-> IdleHook]
      /\ rows = [t \in Tenants |-> NoRow]
      /\ req = [r \in Requests |-> IdleRequest]
  BY DEF Init, StripeInit, HookInit, RequestInit
<1>2. NoSub \in Snapshot /\ IdleHook \in Hook /\ NoRow \in Row
  BY DEF NoSub, Snapshot, IdleHook, Hook, HookPc, NoRow, Row, Opt, SubStatus, RowStatus, Periods
<1>3. StripeTypeOK
  BY <1>1, <1>2 DEF StripeTypeOK, Opt
<1>4. HookTypeOK /\ RequestTypeOK
  BY <1>1, <1>2, IdleRequestType DEF HookTypeOK, RequestTypeOK
<1>5. SubsHaveOwners
  BY <1>1 DEF SubsHaveOwners, NoSub
<1>6. SessionsBelong /\ EventsBelong
  BY <1>1 DEF SessionsBelong, EventsBelong
<1>7. HooksBelong /\ RequestsBelong
  BY <1>1, IdleRequestType DEF HooksBelong, RequestsBelong, IdleHook
<1>8. RowsBelong
  BY <1>1 DEF RowsBelong, NoRow
<1> QED
  BY <1>3, <1>4, <1>5, <1>6, <1>7, <1>8 DEF IsolationInv, BillingTypeOK

\* The plans' names: only renames change them, and none forgets a name.
LEMMA PlanTypeInit == Init => PlanTypeOK
BY DEF Init, PlanInit, PlanTypeOK

LEMMA RenameStep ==
  ASSUME PlanTypeOK, PlanNext
  PROVE  PlanTypeOK' /\ \A p \in Catalog : named[p] \subseteq named'[p]
BY DEF PlanTypeOK, PlanNext, RenamePlan

LEMMA PlanTypeStep == PlanTypeOK /\ [Next]_vars => PlanTypeOK'
<1>1. PlanTypeOK /\ UNCHANGED planVars => PlanTypeOK'
  BY DEF PlanTypeOK, planVars
<1> QED
  BY <1>1, RenameStep DEF Next, vars

LEMMA PlanTypeInvariant == Spec => []PlanTypeOK
BY PlanTypeInit, PlanTypeStep, PTL DEF Spec

LEMMA IsolationStep == IsolationInv /\ PlanTypeOK /\ [Next]_vars => IsolationInv'
<1> SUFFICES ASSUME IsolationInv, PlanTypeOK, [Next]_vars
             PROVE  IsolationInv'
  OBVIOUS
<1>1. CASE StripeNext /\ UNCHANGED <<hookVars, rows, req>>
  BY <1>1, StripeStep
<1>2. CASE HookNext /\ UNCHANGED <<stripeVars, req>>
  BY <1>2, WebhookStep
<1>3. CASE RequestNext
  BY <1>3, RequestNextStep
<1>4. CASE UNCHANGED <<stripeVars, hookVars, rows, req>>
  BY <1>4, StripeUnchanged, OthersUnchanged
<1> QED
  BY <1>1, <1>2, <1>3, <1>4 DEF Next, vars

\* Everything the tenants' isolation rests on holds in every reachable state.
THEOREM IsolationInvariant == Spec => []IsolationInv
BY IsolationInit, IsolationStep, PlanTypeInvariant, PTL DEF Spec

\* The system's variables keep their types.
THEOREM TypeCorrect == Spec => []TypeOK
<1>1. IsolationInv /\ PlanTypeOK => TypeOK
  BY DEF IsolationInv, TypeOK
<1> QED
  BY <1>1, IsolationInvariant, PlanTypeInvariant, PTL

\* A tenant's row points at no customer or subscription of another tenant, however its
\* requests, other tenants' requests and webhook deliveries interleave.
THEOREM Isolation == Spec => []TenantIsolation
<1>1. IsolationInv => TenantIsolation
  BY NoneAssumption
     DEF IsolationInv, RowsBelong, TenantIsolation, OwnsSub, OwnsCustomer
<1> QED
  BY <1>1, IsolationInvariant, PTL

-----------------------------------------------------------------------------
(* The event ledger implements EventOwnership.                                      *)

Owns(w) == IF Working(w) THEN hook[w].ev ELSE 0
Owners == [w \in Workers |-> Owns(w)]

LEMMA OwnershipInitially == Init => Ownership!OwnershipInit
BY DEF Init, HookInit, Ownership!OwnershipInit, Working, IdleHook

\* Steps that move no handler and claim nothing.
LEMMA OwnershipStutters ==
  ASSUME UNCHANGED <<ledger, hook>>
  PROVE  UNCHANGED Ownership!ownershipVars
BY DEF Ownership!ownershipVars, Working

\* A claim owns the event, or is done with it at once, or is refused.
LEMMA ClaimOwns ==
  ASSUME IsolationInv, NEW w \in Workers, NEW e \in 1 .. Len(events), Deliver(w, e)
  PROVE  Ownership!OwnershipNext \/ UNCHANGED Ownership!ownershipVars
<1>1. hook \in [Workers -> Hook] /\ hook[w].pc = "idle"
  BY DEF IsolationInv, BillingTypeOK, HookTypeOK, Deliver
<1>2. CASE ClaimRefused(e)
  BY <1>2, OwnershipStutters DEF ClaimRefused
<1>3. CASE ClaimOwned(w, e) /\ UNCHANGED hook
  <2>1. e \notin ledger /\ ledger' = ledger \cup {e}
    BY <1>3 DEF ClaimOwned
  <2>2. Ownership!OwnAndRelease(w, e)
    BY <1>1, <1>3, <2>1 DEF Ownership!OwnAndRelease, Working
  <2> QED
    BY <2>1, <2>2 DEF Ownership!OwnershipNext
<1>4. CASE ClaimOwned(w, e) /\ hook' # hook
  <2>1. /\ e \notin ledger /\ ledger' = ledger \cup {e}
        /\ hook' = [hook EXCEPT ![w] = Handling(e)]
    BY <1>4 DEF ClaimOwned
  <2>2. /\ hook'[w].pc # "idle" /\ hook'[w].ev = e
        /\ \A v \in Workers : v # w => hook'[v] = hook[v]
    BY <1>1, <2>1 DEF Handling, NextPc
  <2>3. Owners' = [Owners EXCEPT ![w] = e]
    BY <1>1, <2>2 DEF Owners, Owns, Working
  <2>4. Owners[w] = 0
    BY <1>1 DEF Owners, Owns, Working
  <2>5. Ownership!Own(w, e)
    BY <2>1, <2>3, <2>4 DEF Ownership!Own, Owners, Owns
  <2> QED
    BY <2>1, <2>5 DEF Ownership!OwnershipNext
<1> QED
  BY <1>2, <1>3, <1>4 DEF Deliver

\* A handler that ends, by an answer or a crash, gives its event up.
LEMMA EndReleases ==
  ASSUME IsolationInv, NEW w \in Workers, hook[w].pc # "idle",
         hook' = [hook EXCEPT ![w] = IdleHook], UNCHANGED ledger
  PROVE  Ownership!OwnershipNext
<1>1. hook \in [Workers -> Hook] /\ hook[w].ev # 0
  BY HookFacts DEF IsolationInv, BillingTypeOK, HookTypeOK
<1>2. hook'[w].pc = "idle" /\ \A v \in Workers : v # w => hook'[v] = hook[v]
  BY <1>1 DEF IdleHook
<1>3. Owners' = [Owners EXCEPT ![w] = 0]
  BY <1>1, <1>2 DEF Owners, Owns, Working
<1>4. Owners[w] # 0
  BY <1>1 DEF Owners, Owns, Working
<1>5. Ownership!Release(w)
  BY <1>3, <1>4 DEF Ownership!Release, Owners, Owns
<1> QED
  BY <1>5 DEF Ownership!OwnershipNext

\* A handler that goes on keeps its event.
LEMMA WorkKeeps ==
  ASSUME IsolationInv, NEW w \in Workers, hook[w].pc # "idle",
         NEW h, hook' = [hook EXCEPT ![w] = h], h.pc # "idle", h.ev = hook[w].ev,
         UNCHANGED ledger
  PROVE  UNCHANGED Ownership!ownershipVars
<1>1. hook \in [Workers -> Hook]
  BY DEF IsolationInv, BillingTypeOK, HookTypeOK
<1>2. hook'[w] = h /\ \A v \in Workers : v # w => hook'[v] = hook[v]
  BY <1>1
<1>3. Owners' = Owners
  BY <1>2 DEF Owners, Owns, Working
<1> QED
  BY <1>3 DEF Ownership!ownershipVars, Owners, Owns

LEMMA HandlerOwns ==
  ASSUME IsolationInv, NEW w \in Workers, HookStep(w) \/ HandlerFails(w) \/ Crash(w)
  PROVE  Ownership!OwnershipNext \/ UNCHANGED Ownership!ownershipVars
<1>1. /\ hook[w].pc # "idle" /\ UNCHANGED ledger
      /\ hook \in [Workers -> Hook] /\ hook[w] \in Hook
  BY DEF HookStep, HandlerFails, Crash, CheckoutRetrieve, ResolveTenant, FindExisting,
         LookupPlan, WriteUpsert, WriteCanceled, Publish, IsolationInv, BillingTypeOK, HookTypeOK
<1>2. CASE hook' = [hook EXCEPT ![w] = IdleHook]
  BY <1>1, <1>2, EndReleases
<1>3. CASE \E h : hook' = [hook EXCEPT ![w] = h] /\ h.pc # "idle" /\ h.ev = hook[w].ev
  BY <1>1, <1>3, WorkKeeps
<1>4. CASE CheckoutRetrieve(w)
  <2> DEFINE h == [hook[w] EXCEPT !.pc = "lookup", !.snap = subs[EventOf(w).sub]]
  <2>1. hook' = [hook EXCEPT ![w] = h] /\ h.pc = "lookup" /\ h.ev = hook[w].ev
    BY <1>1, <1>4 DEF CheckoutRetrieve, Hook
  <2> QED
    BY <2>1, <1>3
<1>5. CASE ResolveTenant(w)
  <2> DEFINE h(pc) == [hook[w] EXCEPT !.pc = pc, !.tenant = TenantOfCustomer(EventOf(w).snap.cust)]
  <2>1. \A pc : h(pc).pc = pc /\ h(pc).ev = hook[w].ev
    BY <1>1 DEF Hook
  <2>2. \/ hook' = [hook EXCEPT ![w] = IdleHook]
        \/ hook' = [hook EXCEPT ![w] = h("find")]
        \/ hook' = [hook EXCEPT ![w] = h("publish")]
    BY <1>1, <1>5 DEF ResolveTenant, Answer
  <2> HIDE DEF h
  <2> QED
    BY <2>1, <2>2, <1>2, <1>3
<1>6. CASE FindExisting(w)
  <2> DEFINE tenant == Given(hook[w].tenant, findByStripeSubscriptionId(rows, EventOf(w).sub))
             h == [hook[w] EXCEPT !.pc = FoundPc(EventOf(w).type), !.tenant = tenant,
                                  !.snap = EventOf(w).snap]
  <2>1. h.pc # "idle" /\ h.ev = hook[w].ev
    BY <1>1 DEF Hook, FoundPc
  <2>2. hook' = [hook EXCEPT ![w] = IdleHook] \/ hook' = [hook EXCEPT ![w] = h]
    BY <1>1, <1>6 DEF FindExisting, Answer
  <2> HIDE DEF h
  <2> QED
    BY <2>1, <2>2, <1>2, <1>3
<1>7. CASE WriteUpsert(w) \/ WriteCanceled(w)
  <2> DEFINE h == [hook[w] EXCEPT !.pc = "publish"]
  <2>1. h.pc = "publish" /\ h.ev = hook[w].ev
    BY <1>1 DEF Hook
  <2>2. hook' = [hook EXCEPT ![w] = IdleHook] \/ hook' = [hook EXCEPT ![w] = h]
    BY <1>1, <1>7 DEF WriteUpsert, WriteCanceled, PublishOrAnswer, Goto, Answer
  <2> HIDE DEF h
  <2> QED
    BY <2>1, <2>2, <1>2, <1>3
<1>8. CASE Publish(w) \/ HandlerFails(w) \/ Crash(w)
  BY <1>8, <1>2 DEF Publish, HandlerFails, Crash, Answer
<1>9. CASE LookupPlan(w)
  <2> DEFINE h == [hook[w] EXCEPT !.pc = "write", !.plan = PlanKey(hook[w].snap.price)]
  <2>1. hook' = [hook EXCEPT ![w] = h] /\ h.pc = "write" /\ h.ev = hook[w].ev
    BY <1>1, <1>9 DEF LookupPlan, Hook
  <2> QED
    BY <2>1, <1>3
<1> QED
  BY <1>4, <1>5, <1>6, <1>7, <1>8, <1>9 DEF HookStep

LEMMA OwnershipStep ==
  IsolationInv /\ [Next]_vars => [Ownership!OwnershipNext]_Ownership!ownershipVars
<1> SUFFICES ASSUME IsolationInv, [Next]_vars
             PROVE  Ownership!OwnershipNext \/ UNCHANGED Ownership!ownershipVars
  OBVIOUS
<1>1. CASE HookNext
  BY <1>1, ClaimOwns, HandlerOwns DEF HookNext
<1>2. CASE UNCHANGED hookVars
  BY <1>2, OwnershipStutters DEF hookVars
<1>3. ASSUME NEW r \in Requests, RequestStep(r)
      PROVE  UNCHANGED hookVars
  BY <1>3
     DEF RequestStep, hookVars, CheckoutCreateCustomer, CheckoutSetCustomer,
         CheckoutUpdateCustomer, CheckoutCreateSession, ConfirmRetrieve, ConfirmLookup,
         ConfirmWrite, CancelStripe, CancelWrite, BackfillRetrieve, BackfillLookup,
         BackfillWrite, BackfillNothing,
         BackfillUpcoming, RequestEnds
<1>4. ASSUME NEW r \in Requests, NEW t \in Tenants,
             \/ CheckoutRead(r, t) \/ CancelRead(r, t) \/ BackfillRead(r, t)
             \/ \E ses \in sessions : ConfirmSession(r, t, ses)
      PROVE  UNCHANGED hookVars
  BY <1>4 DEF hookVars, CheckoutRead, CancelRead, BackfillRead, ConfirmSession
<1>5. CASE RequestNext
  BY <1>2, <1>3, <1>4, <1>5 DEF RequestNext
<1> QED
  BY <1>1, <1>2, <1>5 DEF Next, vars

\* However often, concurrently and late Stripe delivers an event, and whatever crashes,
\* one handler at most ever works on it: the ledger implements EventOwnership.
THEOREM OwnedOnce == Spec => EachEventOwnedOnce
<1>1. Spec => []IsolationInv
  BY IsolationInvariant
<1> QED
  BY <1>1, OwnershipInitially, OwnershipStep, PTL
     DEF Spec, EachEventOwnedOnce, Ownership!OwnershipSpec
===============================================================================
