-------------------------- MODULE SubscriptionStore --------------------------
(***************************************************************************)
(* The `subscriptions` collection: one row per tenant (unique tenantId),   *)
(* and the writes the repository offers.  Each write is one findOneAndUpdate*)
(* or updateOne, atomic in MongoDB, so it is one operator on the row.      *)
(*                                                                         *)
(* A field the code leaves undefined is None.  The two period dates are    *)
(* abstracted to the set of those that are known.  planKey (`plan') is a    *)
(* copy of the name of the plan that carries the price, or the price id    *)
(* when no plan does.                                                      *)
(***************************************************************************)
EXTENDS Naturals

CONSTANTS
  Tenants,     \* tenant ids
  Customers,   \* Stripe customer ids
  Subs,        \* Stripe subscription ids
  Prices,      \* Stripe price ids
  Catalog,     \* the prices some subscription plan (archived or not) carries
  Names,       \* the names plans are given
  None         \* undefined / null / ""

ASSUME CatalogAssumption == Catalog \subseteq Prices
ASSUME NoneAssumption == None \notin Tenants \cup Customers \cup Subs \cup Prices \cup Names

Opt(S) == S \cup {None}   \* a value of S or undefined

\* Row statuses: "none" stands for no row, "inactive" is the schema default.
SubStatus == {"none", "active", "past_due", "canceled"}
RowStatus == SubStatus \cup {"inactive"}
ActiveStatuses == {"active"}   \* active and trialing, which no code here tells apart
Periods == SUBSET {"start", "end"}

PlanKeys == Names \cup Prices   \* what a planKey holds

Row == [status : RowStatus, sub : Opt(Subs), cust : Opt(Customers),
        price : Opt(Prices), plan : Opt(PlanKeys), period : Periods, atEnd : BOOLEAN]

NoRow == [status |-> "none", sub |-> None, cust |-> None, price |-> None,
          plan |-> None, period |-> {}, atEnd |-> FALSE]

Given(new, old) == IF new = None THEN old ELSE new

\* upsertForTenant: $set of the defined fields only, inserting the row when absent.
upsertForTenant(row, in) ==
  [status |-> in.status,
   sub    |-> Given(in.sub, row.sub),
   cust   |-> Given(in.cust, row.cust),
   price  |-> Given(in.price, row.price),
   plan   |-> Given(in.plan, row.plan),
   period |-> row.period \cup in.period,
   atEnd  |-> in.atEnd]

\* setStripeCustomerId: upsert of the customer id alone.
setStripeCustomerId(row, c) ==
  [row EXCEPT !.cust = c, !.status = IF @ = "none" THEN "inactive" ELSE @]

\* Mutant: writes a status of its own for a deleted subscription.
MarkDeleted(row, c, period) ==
  IF row.status = "none" THEN row ELSE [row EXCEPT !.status = "deleted", !.sub = None]

\* Mutant: clears what names the subscription and leaves the status to another write.
MarkUnsubscribed(row, c, period) ==
  IF row.status = "none" THEN row
  ELSE [row EXCEPT !.cust = c, !.atEnd = FALSE, !.sub = None, !.price = None]

\* markCanceledByTenant: updateOne without upsert, so nothing when there is no row.
markCanceledByTenant(row, c, period) ==
  IF row.status = "none" THEN row
  ELSE [row EXCEPT !.status = "canceled", !.cust = c, !.atEnd = FALSE,
                   !.sub = None, !.price = None,
                   !.period = @ \cup (period \cap {"end"})]

\* Does any row point at Stripe subscription s, and whose is it?
findByStripeSubscriptionId(rows, s) ==
  IF \E t \in Tenants : rows[t].sub = s
  THEN CHOOSE t \in Tenants : rows[t].sub = s
  ELSE None

===============================================================================
