------------------------------ MODULE PlanCatalog ------------------------------
(***************************************************************************)
(* SubscriptionPlanAdminService: a plan is a product and a price at Stripe *)
(* and a row in MongoDB, written one after the other.                      *)
(***************************************************************************)
EXTENDS TenantDirectory

\* What a platform admin may ask for: the AI override goes with the tiers only.
OverrideAllowed(override, tier) == override = "on" => tier

\* create: the product, the price, the row.
CreatePlan(r) ==
  /\ Len(catalog) < MaxPlans
  /\ Begin(r, "create",
           [IdleRequest EXCEPT !.op = "create", !.pc = "price", !.plan = Len(catalog) + 1])
  /\ \E dto \in scenario.plans :
       /\ OverrideAllowed(dto.aiChatbot, dto.aiTier)
       /\ catalog' = Append(catalog,
            [product |-> "active", productTier |-> dto.aiTier, price |-> "none",
             row |-> "none", aiTier |-> dto.aiTier, aiChatbot |-> dto.aiChatbot,
             maxUsers |-> dto.maxUsers])
  /\ UNCHANGED <<tenants, users, invites, issued, subscriptions, interrupted>>

CreatePrice(r) ==
  /\ At(r, "price") /\ req[r].op = "create"
  /\ catalog' = [catalog EXCEPT ![req[r].plan].price = "active"]
  /\ Goto(r, "row")
  /\ UNCHANGED <<tenants, users, invites, issued, subscriptions, interrupted>>

CreateRow(r) ==
  /\ At(r, "row") /\ req[r].op = "create"
  /\ catalog' = [catalog EXCEPT ![req[r].plan].row = "live"]
  /\ Finish(r)
  /\ UNCHANGED <<tenants, users, invites, issued, subscriptions, interrupted>>

\* update: name and features of a plan that was not archived when it was read.  `on' is
\* the tier of the name the override was checked against, `seen' is 1 when the plan is
\* renamed.
UpdatePlan(r, p) ==
  /\ catalog[p].row = "live"
  /\ \E dto \in scenario.plans :
       Begin(r, "update",
             [IdleRequest EXCEPT !.op = "update", !.pc = "product", !.plan = p,
                !.on = dto.aiTier, !.seen = 1])
     \/ Begin(r, "update",
             [IdleRequest EXCEPT !.op = "update", !.pc = "row", !.plan = p,
                !.on = catalog[p].aiTier])
  /\ UNCHANGED <<tenants, users, invites, issued, catalog, subscriptions, interrupted>>

RenameProduct(r) ==
  /\ At(r, "product") /\ req[r].op = "update"
  /\ catalog' = [catalog EXCEPT ![req[r].plan].productTier = req[r].on]
  /\ Goto(r, "row")
  /\ UNCHANGED <<tenants, users, invites, issued, subscriptions, interrupted>>

\* Mutant: the row is written back as it was read, live.
RevivedRow(r, row) ==
  [row EXCEPT !.aiTier = IF req[r].seen = 1 THEN req[r].on ELSE @, !.row = "live"]

RenamedRow(r, row) == [row EXCEPT !.aiTier = IF req[r].seen = 1 THEN req[r].on ELSE @]

\* updateById sets what the request gave, by id: the row may be archived by now.
UpdateRow(r) ==
  LET p == req[r].plan
      renamed == RenamedRow(r, catalog[p])
  IN  /\ At(r, "row") /\ req[r].op = "update"
      /\ \/ catalog' = [catalog EXCEPT ![p] = renamed]
         \/ \E dto \in scenario.plans :
              /\ OverrideAllowed(dto.aiChatbot, req[r].on)
              /\ catalog' = [catalog EXCEPT ![p] =
                   [renamed EXCEPT !.aiChatbot = dto.aiChatbot, !.maxUsers = dto.maxUsers]]
      /\ Finish(r)
      /\ UNCHANGED <<tenants, users, invites, issued, subscriptions, interrupted>>

\* Mutant: the price stays on sale.
ArchiveProductOnly(r, p) ==
  /\ catalog[p].row = "live"
  /\ Begin(r, "archive",
           [IdleRequest EXCEPT !.op = "archive", !.pc = "product", !.plan = p])
  /\ UNCHANGED <<tenants, users, invites, issued, catalog, subscriptions, interrupted>>

\* archive: price and product go off sale before the row is archived.
ArchivePlan(r, p) ==
  /\ catalog[p].row = "live"
  /\ Begin(r, "archive",
           [IdleRequest EXCEPT !.op = "archive", !.pc = "price", !.plan = p])
  /\ UNCHANGED <<tenants, users, invites, issued, catalog, subscriptions, interrupted>>

RetirePrice(r) ==
  /\ At(r, "price") /\ req[r].op = "archive"
  /\ catalog' = [catalog EXCEPT ![req[r].plan].price = "inactive"]
  /\ Goto(r, "product")
  /\ UNCHANGED <<tenants, users, invites, issued, subscriptions, interrupted>>

RetireProduct(r) ==
  /\ At(r, "product") /\ req[r].op = "archive"
  /\ catalog' = [catalog EXCEPT ![req[r].plan].product = "inactive"]
  /\ Goto(r, "row")
  /\ UNCHANGED <<tenants, users, invites, issued, subscriptions, interrupted>>

ArchiveRow(r) ==
  /\ At(r, "row") /\ req[r].op = "archive"
  /\ catalog' = [catalog EXCEPT ![req[r].plan].row = "archived"]
  /\ Finish(r)
  /\ UNCHANGED <<tenants, users, invites, issued, subscriptions, interrupted>>

CatalogStep(r) ==
  \/ CreatePrice(r) \/ CreateRow(r) \/ RenameProduct(r) \/ UpdateRow(r)
  \/ RetirePrice(r) \/ RetireProduct(r) \/ ArchiveRow(r)
===============================================================================
