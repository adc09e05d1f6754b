----------------------------- MODULE BillingSystem -----------------------------
(***************************************************************************)
(* Stripe, the webhook handlers and the tenants' requests over one         *)
(* `subscriptions' collection, and what the composition guarantees.        *)
(***************************************************************************)
EXTENDS TenantBilling

vars == <<stripeVars, hookVars, rows, req, planVars>>

Init == StripeInit /\ HookInit /\ RequestInit /\ PlanInit

Next ==
  \/ StripeNext /\ UNCHANGED <<hookVars, rows, req, planVars>>
  \/ HookNext /\ UNCHANGED <<stripeVars, req, planVars>>
  \/ RequestNext /\ UNCHANGED planVars
  \/ PlanNext /\ UNCHANGED <<stripeVars, hookVars, rows, req>>

Spec == Init /\ [][Next]_vars

\* The server runs what it accepted, and Stripe redelivers what it has no 200 for.
Redeliver(w, e) == e \notin acked /\ Deliver(w, e)

Fairness ==
  /\ \A w \in Workers :
        WF_vars(HookStep(w) /\ UNCHANGED <<stripeVars, req, planVars>>)
  /\ \A e \in 1 .. MaxEvents :
        SF_vars(e <= Len(events) /\ (\E w \in Workers : Redeliver(w, e))
                /\ UNCHANGED <<stripeVars, req, planVars>>)

FairSpec == Spec /\ Fairness

-----------------------------------------------------------------------------
BillingTypeOK == StripeTypeOK /\ HookTypeOK /\ RequestTypeOK

TypeOK == BillingTypeOK /\ PlanTypeOK

\* The event ledger implements EventOwnership: a handler owns its event from the
\* claim to the answer.
Working(w) == hook[w].pc # "idle"

Ownership == INSTANCE EventOwnership WITH
  Handlers <- Workers,
  claimed <- ledger,
  owners <- [w \in Workers |-> IF Working(w) THEN hook[w].ev ELSE 0]

\* However often, concurrently and late Stripe delivers an event, one handler at most
\* ever works on it (claimEvent).
EachEventOwnedOnce == Ownership!OwnershipSpec

\* Tenant isolation: what a tenant's row points at in Stripe belongs to that tenant,
\* although webhooks find the tenant through customer metadata and through rows, and a
\* session, a customer or a subscription may be stale by the time the row is written.
TenantIsolation ==
  \A t \in Tenants :
     /\ rows[t].cust # None => custTenant[rows[t].cust] = t
     /\ rows[t].sub # None => /\ subs[rows[t].sub].cust # None
                              /\ custTenant[subs[rows[t].sub].cust] = t

\* A row never shows a subscription in a status it was never in: no interleaving of
\* partial writes pairs one subscription's id with another one's status.
StatusComesFromStripe ==
  \A t \in Tenants : rows[t].sub # None => rows[t].status \in seen[rows[t].sub]

\* A row's plan key may lag behind a rename, but it names the plan of the row's price:
\* while that price is of the catalog the key is a name its plan has had, although name
\* and price come from two reads, cancelSubscription writes both back from a third one
\* that plan changes may have overtaken, and the backfill may keep an older key.
PlanKeyNamesPlan ==
  \A t \in Tenants : rows[t].price \in Catalog => rows[t].plan \in named[rows[t].price]

-----------------------------------------------------------------------------
(* Why isolation is inductive: the customer of a subscription and the tenant of a   *)
(* customer never change once set, so whatever a session, an event, a handler or a   *)
(* request remembers of them stays true while it waits.                             *)

OwnsCustomer(t, c) == c \in Customers /\ custTenant[c] = t
OwnsSub(t, s) == OwnsCustomer(t, subs[s].cust)

SubsHaveOwners ==
  \A s \in Subs : IF subs[s].status = "none" THEN subs[s].cust = None
                 ELSE \E t \in Tenants : OwnsSub(t, s)

SessionsBelong ==
  \A ses \in sessions : /\ OwnsCustomer(ses.tenant, ses.cust)
                        /\ ses.sub # None => OwnsSub(ses.tenant, ses.sub)

EventBelongs(ev) ==
  /\ subs[ev.sub].status # "none"
  /\ IF ev.type = "checkout.session.completed"
     THEN ev.tenant \in Tenants /\ OwnsSub(ev.tenant, ev.sub)
     ELSE ev.snap.cust = subs[ev.sub].cust

EventsBelong == \A e \in 1 .. Len(events) : EventBelongs(events[e])

HookBelongs(w) ==
  LET ev == events[hook[w].ev]
  IN  /\ hook[w].ev \in 1 .. Len(events)
      /\ hook[w].pc = "retrieve" => ev.type = "checkout.session.completed"
      /\ hook[w].pc \in {"resolve", "find"} => ev.type # "checkout.session.completed"
      /\ hook[w].pc \in {"retrieve", "lookup", "write"} =>
            hook[w].tenant \in Tenants /\ OwnsSub(hook[w].tenant, ev.sub)
      /\ hook[w].pc = "find" => hook[w].tenant = None \/ OwnsSub(hook[w].tenant, ev.sub)
      /\ hook[w].pc \in {"lookup", "write"} => hook[w].snap.cust = subs[ev.sub].cust

HooksBelong == \A w \in Workers : hook[w].pc # "idle" => HookBelongs(w)

RequestBelongs(q) ==
  /\ q.tenant \in Tenants
  /\ q.cust # None => OwnsCustomer(q.tenant, q.cust)
  /\ q.pc \in {"setCustomer", "updateCustomer", "createSession"} => q.cust # None
  /\ q.sub # None => OwnsSub(q.tenant, q.sub)
  /\ q.pc \in {"confirmRetrieve", "confirmLookup", "confirmWrite", "cancelStripe",
               "cancelWrite", "backfillLookup", "backfillWrite", "backfillUpcoming"}
     => q.sub # None
  /\ q.pc \in {"confirmLookup", "confirmWrite"} => q.snap.cust = subs[q.sub].cust

RequestsBelong == \A r \in Requests : req[r].pc # "idle" => RequestBelongs(req[r])

RowsBelong ==
  \A t \in Tenants : /\ rows[t].cust # None => OwnsCustomer(t, rows[t].cust)
                     /\ rows[t].sub # None => OwnsSub(t, rows[t].sub)

IsolationInv ==
  /\ BillingTypeOK
  /\ SubsHaveOwners
  /\ SessionsBelong
  /\ EventsBelong
  /\ HooksBelong
  /\ RequestsBelong
  /\ RowsBelong

-----------------------------------------------------------------------------
\* Nobody is entitled who never paid: an active row names a subscription of its own
\* tenant that was active in Stripe, although checkout and cancellation write the row in
\* parts and the end of a subscription clears the id of whichever the row names.
EntitlementWasPaid ==
  \A t \in Tenants : rows[t].status \in ActiveStatuses =>
     /\ rows[t].sub \in Subs
     /\ OwnsSub(t, rows[t].sub)
     /\ seen[rows[t].sub] \cap ActiveStatuses # {}

\* Nothing is under way: every event was answered and no request is running.
Quiescent ==
  /\ 1 .. Len(events) \subseteq acked
  /\ \A w \in Workers : hook[w].pc = "idle"
  /\ \A r \in Requests : req[r].pc = "idle"

Pays(t) ==
  \E s \in Subs : /\ subs[s].cust # None
                  /\ custTenant[subs[s].cust] = t
                  /\ subs[s].status \in ActiveStatuses

\* KNOWLEDGE-TRANSFER.md 8.2: the webhook is the "source of truth for paid state".  Once
\* everything Stripe sent was answered, a tenant is entitled exactly when it pays.
PaidStateReconciled ==
  Quiescent => \A t \in Tenants : rows[t].status \in ActiveStatuses <=> Pays(t)

\* Every event with something to tell the tenant reaches the listeners.
Publishable(e) ==
  /\ e <= Len(events)
  /\ events[e].type # "other"
  /\ events[e].type \in {"checkout.session.completed", "customer.subscription.updated"} =>
        "end" \in subs[events[e].sub].period
  /\ subs[events[e].sub].cust \notin deleted

\* While nothing fails, the claim of an event is as good as its publication: whatever
\* order events come in, a claimed one was published or a handler is at it.
ClaimedIsPublished ==
  \A e \in ledger : Publishable(e) =>
     e \in published \/ \E w \in Workers : Working(w) /\ hook[w].ev = e

\* Stripe redelivers until it is answered, so what can be told is told in the end.
EventuallyPublished ==
  \A e \in 1 .. MaxEvents :
     Publishable(e) ~> (e \in published \/ ~Publishable(e))
===============================================================================
