----------------------------- MODULE Entitlements -----------------------------
(***************************************************************************)
(* SubscriptionEntitlementsService: what a tenant's subscription and the   *)
(* plan row of its price allow.  A limit of NoCap is the `null' of the     *)
(* code, no limit; FreeLimits are its floor for everybody.                 *)
(***************************************************************************)
EXTENDS Integers

CONSTANTS NoCap, FreeLimits

Dimensions == {"maxWorkspaces", "maxUsers", "maxFileAssets", "maxStorageMb"}
FeatureLimits == [Dimensions -> Nat \cup {NoCap}]

ASSUME NoCapAssumption == NoCap \notin Nat
ASSUME FreeLimitsAssumption ==
  FreeLimits \in [Dimensions -> Nat] /\ \A d \in Dimensions : FreeLimits[d] > 0

\* A plan row: whether its name is that of a tier with the AI assistant (Pro,
\* Enterprise), the override of that, and the limits if it has features.  `present' is
\* FALSE when no row has the price.
Overrides == {"unset", "on", "off"}
PlanView == [present : BOOLEAN, featured : BOOLEAN, aiTier : BOOLEAN,
             aiChatbot : Overrides, limits : FeatureLimits]
NoPlan == [present |-> FALSE, featured |-> FALSE, aiTier |-> FALSE, aiChatbot |-> "unset",
           limits |-> [d \in Dimensions |-> NoCap]]

\* A subscription row: `live' when its status is active or trialing, its price (0 if it
\* has none), and whether its planKey is a Pro or Enterprise name.
SubscriptionView == [live : BOOLEAN, price : Nat, aiTierKey : BOOLEAN]
NoSubscription == [live |-> FALSE, price |-> 0, aiTierKey |-> FALSE]

HasActiveSubscription(sub) == sub.live /\ sub.price # 0

resolveFeatureLimits(sub, plan) ==
  IF HasActiveSubscription(sub) /\ plan.present /\ plan.featured THEN plan.limits ELSE FreeLimits

\* Mutant: one more than the plan allows passes.
WithinLimitByOne(cap, count) == cap = NoCap \/ count <= cap

\* assertWithinUserLimit, assertWithinFileAssetLimit and assertWithinWorkspaceLimit.
WithinLimit(cap, count) == cap = NoCap \/ count < cap

\* assertWithinStorageLimit: the incoming file counts in full.
WithinStorage(cap, stored, incoming) == cap = NoCap \/ stored + incoming <= cap

\* resolveAiChatbotAccess: a row decides alone; without one the planKey of the
\* subscription does.
resolveAiChatbotAccess(sub, plan) ==
  /\ HasActiveSubscription(sub)
  /\ IF plan.present
     THEN plan.aiChatbot = "on" \/ (plan.aiChatbot = "unset" /\ plan.aiTier)
     ELSE sub.aiTierKey
===============================================================================
