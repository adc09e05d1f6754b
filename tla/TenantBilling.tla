----------------------------- MODULE TenantBilling -----------------------------
(***************************************************************************)
(* TenantBillingService: the requests a tenant makes about its own          *)
(* subscription.  Each reads the row, calls Stripe, and writes the row back,*)
(* with an await between any two of these, so webhooks and other requests   *)
(* interleave with it.                                                     *)
(***************************************************************************)
EXTENDS StripeWebhook

CONSTANTS
  Requests,       \* concurrent tenant requests
  RequestKinds    \* which of the four operations tenants use

ASSUME KindAssumption ==
  RequestKinds \subseteq {"checkout", "confirm", "cancel", "backfill"}

VARIABLE req

RequestPc == {"idle", "createCustomer", "setCustomer", "updateCustomer", "createSession",
              "confirmRetrieve", "confirmLookup", "confirmWrite",
              "cancelStripe", "cancelWrite",
              "backfillRetrieve", "backfillLookup", "backfillWrite", "backfillUpcoming"}
Request == [pc : RequestPc, tenant : Opt(Tenants), cust : Opt(Customers),
            sub : Opt(Subs), price : Opt(Prices), plan : Opt(PlanKeys), snap : Snapshot]
IdleRequest == [pc |-> "idle", tenant |-> None, cust |-> None, sub |-> None,
                price |-> None, plan |-> None, snap |-> NoSub]

RequestTypeOK == req \in [Requests -> Request]
RequestInit == req = [r \in Requests |-> IdleRequest]

Finish(r) == req' = [req EXCEPT ![r] = IdleRequest]

\* What a request keeps of the row it read.
Loaded(t, pc) ==
  [IdleRequest EXCEPT !.pc = pc, !.tenant = t, !.cust = rows[t].cust, !.sub = rows[t].sub,
                      !.price = rows[t].price, !.plan = rows[t].plan]

RowOf(r) == rows[req[r].tenant]

WriteRow(r, input) ==
  rows' = [rows EXCEPT ![req[r].tenant] = upsertForTenant(@, input)]

-----------------------------------------------------------------------------
(* createCheckoutSession *)

CheckoutRead(r, t) ==
  /\ "checkout" \in RequestKinds
  /\ req[r].pc = "idle"
  /\ req' = [req EXCEPT ![r] =
               Loaded(t, IF rows[t].cust = None THEN "createCustomer" ELSE "updateCustomer")]
  /\ UNCHANGED <<stripeVars, hookVars, rows>>

CheckoutCreateCustomer(r, c) ==
  /\ req[r].pc = "createCustomer"
  /\ custTenant[c] = None
  /\ custTenant' = [custTenant EXCEPT ![c] = req[r].tenant]
  /\ req' = [req EXCEPT ![r].pc = "setCustomer", ![r].cust = c]
  /\ UNCHANGED <<deleted, sessions, subs, events, seen, hookVars, rows>>

CheckoutSetCustomer(r) ==
  /\ req[r].pc = "setCustomer"
  /\ rows' = [rows EXCEPT ![req[r].tenant] = setStripeCustomerId(@, req[r].cust)]
  /\ req' = [req EXCEPT ![r].pc = "createSession"]
  /\ UNCHANGED <<stripeVars, hookVars>>

CheckoutUpdateCustomer(r) ==
  /\ req[r].pc = "updateCustomer"
  /\ req[r].cust \notin deleted
  /\ custTenant' = [custTenant EXCEPT ![req[r].cust] = req[r].tenant]
  /\ req' = [req EXCEPT ![r].pc = "createSession"]
  /\ UNCHANGED <<deleted, sessions, subs, events, seen, hookVars, rows>>

CheckoutCreateSession(r) ==
  /\ req[r].pc = "createSession"
  /\ req[r].cust \notin deleted
  /\ sessions' = sessions \cup
       {[tenant |-> req[r].tenant, cust |-> req[r].cust, sub |-> None]}
  /\ Finish(r)
  /\ UNCHANGED <<custTenant, deleted, subs, events, seen, hookVars, rows>>

-----------------------------------------------------------------------------
(* confirmCheckoutSession *)

\* Mutant: the session's tenant is not compared.
CheckoutUnchecked(t, ses) == t \in Tenants

\* A session of another tenant is refused with 403.
CheckoutBelongs(t, ses) == ses.tenant = t

ConfirmSession(r, t, ses) ==
  /\ "confirm" \in RequestKinds
  /\ req[r].pc = "idle"
  /\ CheckoutBelongs(t, ses)
  /\ ses.sub # None
  /\ req' = [req EXCEPT ![r] = [IdleRequest EXCEPT !.pc = "confirmRetrieve",
                                                   !.tenant = t, !.sub = ses.sub]]
  /\ UNCHANGED <<stripeVars, hookVars, rows>>

ConfirmRetrieve(r) ==
  /\ req[r].pc = "confirmRetrieve"
  /\ req' = [req EXCEPT ![r].pc = "confirmLookup", ![r].snap = subs[req[r].sub]]
  /\ UNCHANGED <<stripeVars, hookVars, rows>>

ConfirmLookup(r) ==
  /\ req[r].pc = "confirmLookup"
  /\ req' = [req EXCEPT ![r].pc = "confirmWrite", ![r].plan = PlanKey(req[r].snap.price)]
  /\ UNCHANGED <<stripeVars, hookVars, rows>>

ConfirmWrite(r) ==
  /\ req[r].pc = "confirmWrite"
  /\ WriteRow(r, UpsertInput(req[r].sub, req[r].snap, req[r].plan))
  /\ Finish(r)
  /\ UNCHANGED <<stripeVars, hookVars>>

-----------------------------------------------------------------------------
(* cancelSubscription *)

CancelRead(r, t) ==
  /\ "cancel" \in RequestKinds
  /\ req[r].pc = "idle"
  /\ rows[t].sub # None
  /\ req' = [req EXCEPT ![r] = Loaded(t, "cancelStripe")]
  /\ UNCHANGED <<stripeVars, hookVars, rows>>

\* The state Stripe answers with, which the write below copies into the row.
CancelStripe(r, immediate) ==
  LET s     == req[r].sub
      state == IF immediate THEN [subs[s] EXCEPT !.status = "canceled", !.atEnd = FALSE]
                            ELSE [subs[s] EXCEPT !.atEnd = TRUE]
      type  == IF immediate THEN "customer.subscription.deleted"
                            ELSE "customer.subscription.updated"
  IN  /\ req[r].pc = "cancelStripe"
      /\ Live(s)
      /\ SetSub(s, state)
      /\ IF state = subs[s] THEN UNCHANGED events ELSE emit(type, s, None, state)
      /\ req' = [req EXCEPT ![r].pc = "cancelWrite", ![r].snap = state]
      /\ UNCHANGED <<custTenant, deleted, sessions, hookVars, rows>>

\* Mutant: a cancellation at period end is recorded as canceled at once.
CancelAtOnce(q) ==
  [status |-> "canceled", sub |-> q.sub, cust |-> q.cust, price |-> q.price,
   plan |-> q.plan, period |-> q.snap.period, atEnd |-> q.snap.atEnd]

\* Mutant: the price comes from Stripe's answer too, the plan key does not.
CancelWithNewPrice(q) ==
  [status |-> q.snap.status, sub |-> q.sub, cust |-> q.cust, price |-> q.snap.price,
   plan |-> q.plan, period |-> q.snap.period, atEnd |-> q.snap.atEnd]

\* Status and dates come from Stripe's answer, plan, price and customer from the earlier read.
CancelInput(q) ==
  [status |-> q.snap.status, sub |-> q.sub, cust |-> q.cust, price |-> q.price,
   plan |-> q.plan, period |-> q.snap.period, atEnd |-> q.snap.atEnd]

CancelWrite(r) ==
  /\ req[r].pc = "cancelWrite"
  /\ WriteRow(r, CancelInput(req[r]))
  /\ Finish(r)
  /\ UNCHANGED <<stripeVars, hookVars>>

-----------------------------------------------------------------------------
(* getTenantSubscription: a row without its dates or price is filled in from Stripe *)

NeedsBackfill(row) ==
  /\ row.status # "none"
  /\ row.period # {"start", "end"} \/ row.price = None

\* What the row itself says of its subscription.
Shown(row) == [status |-> row.status, cust |-> row.cust, price |-> row.price,
               period |-> row.period, atEnd |-> row.atEnd]

BackfillRead(r, t) ==
  /\ "backfill" \in RequestKinds
  /\ req[r].pc = "idle"
  /\ NeedsBackfill(rows[t])
  /\ req' = [req EXCEPT ![r] = [Loaded(t, "backfillRetrieve") EXCEPT !.snap = Shown(rows[t])]]
  /\ UNCHANGED <<stripeVars, hookVars, rows>>

Rank(status) ==
  CASE status = "active" -> 4 [] status = "past_due" -> 3
    [] status = "canceled" -> 1 [] OTHER -> 0

SubsOfCustomer(c) == {s \in Subs : c # None /\ subs[s].cust = c}

\* resolveStripeSubscriptionForTenant: by id, else the best of the customer's.
Resolved(q) ==
  LET listed == SubsOfCustomer(q.cust)
      best   == {s \in listed : \A u \in listed : Rank(subs[u].status) <= Rank(subs[s].status)}
  IN  IF q.sub = None THEN best
      ELSE {q.sub} \cup (IF Faults THEN best ELSE {})

BackfillRetrieve(r, s) ==
  /\ req[r].pc = "backfillRetrieve"
  /\ s \in Resolved(req[r])
  /\ req' = [req EXCEPT ![r].pc = "backfillLookup", ![r].sub = s, ![r].snap = subs[s]]
  /\ UNCHANGED <<stripeVars, hookVars, rows>>

\* The plan key follows the price when a plan carries it, or when there was no key.
BackfillPlan(q) ==
  IF q.snap.price \in Catalog \/ q.plan = None THEN PlanKey(q.snap.price) ELSE q.plan

BackfillLookup(r) ==
  /\ req[r].pc = "backfillLookup"
  /\ req' = [req EXCEPT ![r].pc = "backfillWrite", ![r].plan = BackfillPlan(req[r])]
  /\ UNCHANGED <<stripeVars, hookVars, rows>>

BackfillInput(q, period) ==
  [status |-> q.snap.status, sub |-> q.sub, cust |-> q.cust, price |-> q.snap.price,
   plan |-> q.plan, period |-> period, atEnd |-> q.snap.atEnd]

BackfillWrite(r) ==
  /\ req[r].pc = "backfillWrite"
  /\ WriteRow(r, BackfillInput(req[r], req[r].snap.period))
  /\ IF "end" \notin req[r].snap.period /\ req[r].cust # None
     THEN req' = [req EXCEPT ![r].pc = "backfillUpcoming"]
     ELSE Finish(r)
  /\ UNCHANGED <<stripeVars, hookVars>>

\* Its retrieve fails and its customer lists no subscription: the row's own values go on.
BackfillNothing(r) ==
  /\ Faults
  /\ req[r].pc = "backfillRetrieve"
  /\ req[r].sub # None /\ req[r].cust # None
  /\ SubsOfCustomer(req[r].cust) = {}
  /\ "end" \notin req[r].snap.period
  /\ req' = [req EXCEPT ![r].pc = "backfillUpcoming"]
  /\ UNCHANGED <<stripeVars, hookVars, rows>>

\* resolveNextBillingFromUpcomingInvoice found a date.
BackfillUpcoming(r) ==
  /\ req[r].pc = "backfillUpcoming"
  /\ WriteRow(r, BackfillInput(req[r], {"end"}))
  /\ Finish(r)
  /\ UNCHANGED <<stripeVars, hookVars>>

-----------------------------------------------------------------------------
\* The request ends early: Stripe refuses, finds nothing, or (Faults) any call fails.
StripeRefuses(q) ==
  \/ q.pc \in {"updateCustomer", "createSession"} /\ q.cust \in deleted
  \/ q.pc = "cancelStripe" /\ ~Live(q.sub)
  \/ q.pc = "backfillRetrieve" /\ Resolved(q) = {}
  \/ q.pc = "backfillUpcoming"

RequestEnds(r) ==
  /\ req[r].pc # "idle"
  /\ Faults \/ StripeRefuses(req[r])
  /\ Finish(r)
  /\ UNCHANGED <<stripeVars, hookVars, rows>>

RequestStep(r) ==
  \/ \E c \in Customers : CheckoutCreateCustomer(r, c)
  \/ CheckoutSetCustomer(r) \/ CheckoutUpdateCustomer(r) \/ CheckoutCreateSession(r)
  \/ ConfirmRetrieve(r) \/ ConfirmLookup(r) \/ ConfirmWrite(r)
  \/ \E immediate \in BOOLEAN : CancelStripe(r, immediate)
  \/ CancelWrite(r)
  \/ \E s \in Subs : BackfillRetrieve(r, s)
  \/ BackfillLookup(r) \/ BackfillWrite(r) \/ BackfillNothing(r) \/ BackfillUpcoming(r)
  \/ RequestEnds(r)

RequestNext ==
  \/ \E r \in Requests, t \in Tenants :
        \/ CheckoutRead(r, t) \/ CancelRead(r, t) \/ BackfillRead(r, t)
        \/ \E ses \in sessions : ConfirmSession(r, t, ses)
  \/ \E r \in Requests : RequestStep(r)
===============================================================================
