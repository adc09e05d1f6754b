------------------------------ MODULE PlanNames ------------------------------
(***************************************************************************)
(* The names of the plans in `subscription_plans', as the billing code     *)
(* reads and an administrator changes them.  A subscription row copies the *)
(* name its plan has when the row is written and nobody refreshes the      *)
(* copy, so it may lag behind; `named' remembers every name a plan had.    *)
(***************************************************************************)
EXTENDS SubscriptionStore

VARIABLES
  planName,   \* the name of the plan each catalog price belongs to
  named       \* history: the names each of these plans has had

planVars == <<planName, named>>

PlanTypeOK ==
  /\ planName \in [Catalog -> Names]
  /\ named \in [Catalog -> SUBSET Names]
  /\ \A p \in Catalog : planName[p] \in named[p]

PlanInit ==
  /\ planName \in [Catalog -> Names]
  /\ named = [p \in Catalog |-> {planName[p]}]

\* findByStripePriceIdIncludingArchived: the plan's name now, or the price id without one.
PlanKey(price) == IF price \in Catalog THEN planName[price] ELSE price

\* SubscriptionPlanAdminService.update writes the plan alone, no subscription row.  That
\* a plan takes a name once only is the bound on renames.
RenamePlan(p, name) ==
  /\ name \notin named[p]
  /\ planName' = [planName EXCEPT ![p] = name]
  /\ named' = [named EXCEPT ![p] = @ \cup {name}]

PlanNext == \E p \in Catalog, name \in Names : RenamePlan(p, name)
===============================================================================
