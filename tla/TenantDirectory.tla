---------------------------- MODULE TenantDirectory ----------------------------
(***************************************************************************)
(* TenantService and PlatformService: an organization's own update, the    *)
(* operators' update and soft deletion, and the purge MongoDB does once    *)
(* the retention window is over.                                           *)
(***************************************************************************)
EXTENDS TenantUsers

\* updateByTenantId and softDeleteByTenantId: one conditional write each.
updateByTenantId(k, on) ==
  IF tenantActiveFilter(k) THEN [tenants EXCEPT ![k].active = on] ELSE tenants
softDeleteByTenantId(k) ==
  IF tenantActiveFilter(k)
  THEN [tenants EXCEPT ![k].stage = "deleted", ![k].active = FALSE]
  ELSE tenants

\* updateCurrentTenant, by an admin of the organization: a single write.
UpdateCurrentTenant(r, u) ==
  /\ "updateCurrentTenant" \in scenario.operations
  /\ At(r, "idle") /\ MayAct(u)
  /\ \E on \in BOOLEAN : tenants' = updateByTenantId(users[u].tenant, on)
  /\ UNCHANGED <<users, invites, issued, catalog, subscriptions, interrupted, req>>

\* updateTenant and softDeleteTenant of an operator read the tenant first.
PlatformRead(r, k, op) ==
  /\ findByTenantId(k) /\ tenants[k].stage # "deleted"
  /\ Begin(r, op, [IdleRequest EXCEPT !.op = op, !.pc = "write", !.tenant = k])
  /\ UNCHANGED <<tenants, users, invites, issued, catalog, subscriptions, interrupted>>

UpdateTenant(r) ==
  /\ At(r, "write") /\ req[r].op = "updateTenant"
  /\ \E on \in BOOLEAN : tenants' = updateByTenantId(req[r].tenant, on)
  /\ Finish(r)
  /\ UNCHANGED <<users, invites, issued, catalog, subscriptions, interrupted>>

SoftDeleteTenant(r) ==
  /\ At(r, "write") /\ req[r].op = "softDeleteTenant"
  /\ tenants' = softDeleteByTenantId(req[r].tenant)
  /\ Finish(r)
  /\ UNCHANGED <<users, invites, issued, catalog, subscriptions, interrupted>>

\* The TTL index on purgeAt removes the tenant's row and nothing else.
PurgeTenant(k) ==
  /\ tenants[k].stage = "deleted"
  /\ tenants' = [tenants EXCEPT ![k].stage = "purged"]
  /\ UNCHANGED <<users, invites, issued, catalog, subscriptions, interrupted, req>>

DirectoryStep(r) == UpdateTenant(r) \/ SoftDeleteTenant(r)
===============================================================================
