----------------------------- MODULE Registration -----------------------------
(***************************************************************************)
(* AuthService.register and verifyEmail: an organization and its first     *)
(* user in one transaction, or in two writes with a compensating one when  *)
(* MongoDB has no transactions; the mail with the verification link, and   *)
(* the removal of both when it cannot be sent.                             *)
(***************************************************************************)
EXTENDS TenancyStore

Register(r, e) ==
  /\ EmailIsFree(e)
  /\ Begin(r, "register", [IdleRequest EXCEPT !.op = "register", !.pc = "create", !.email = e])
  /\ UNCHANGED <<tenants, users, invites, issued, catalog, subscriptions, interrupted>>

\* tenantService.create and userRepository.createUser in a transaction: a duplicate
\* address aborts it.
RegisterInTransaction(r) ==
  /\ At(r, "create") /\ transactions
  /\ IF EmailIsFree(req[r].email)
     THEN /\ Len(tenants) < scenario.organizations /\ Len(users) < scenario.users
          /\ users' = Append(users, Founder(Len(tenants) + 1, req[r].email))
          /\ tenants' = Append(tenants, NewTenant(Len(users) + 1))
          /\ req' = [req EXCEPT ![r].pc = "mail", ![r].tenant = Len(tenants) + 1,
                                ![r].user = Len(users) + 1]
     ELSE Finish(r) /\ UNCHANGED <<tenants, users>>
  /\ UNCHANGED <<invites, issued, catalog, subscriptions, interrupted>>

\* registerWithoutTransaction
CreateTenant(r) ==
  /\ At(r, "create") /\ ~transactions
  /\ Len(tenants) < scenario.organizations
  /\ tenants' = Append(tenants, NewTenant(0))
  /\ req' = [req EXCEPT ![r].pc = "founder", ![r].tenant = Len(tenants) + 1]
  /\ UNCHANGED <<users, invites, issued, catalog, subscriptions, interrupted>>

\* Mutant: the failing insert is answered without removing the tenant.
GiveUpFounder(r) == Finish(r)

FounderRefused(r) == Goto(r, "dropTenant")

CreateFounder(r) ==
  /\ At(r, "founder")
  /\ \/ /\ EmailIsFree(req[r].email) /\ Len(users) < scenario.users
        /\ users' = Append(users, Founder(req[r].tenant, req[r].email))
        /\ tenants' = [tenants EXCEPT ![req[r].tenant].founder = Len(users) + 1]
        /\ req' = [req EXCEPT ![r].pc = "mail", ![r].user = Len(users) + 1]
     \/ /\ ~EmailIsFree(req[r].email) \/ MayFail
        /\ FounderRefused(r)
        /\ UNCHANGED <<users, tenants>>
  /\ UNCHANGED <<invites, issued, catalog, subscriptions, interrupted>>

DropTenant(r) ==
  /\ At(r, "dropTenant")
  /\ tenants' = deleteTenantById(req[r].tenant)
  /\ Finish(r)
  /\ UNCHANGED <<users, invites, issued, catalog, subscriptions, interrupted>>

\* sendOrganizerRegistrationVerificationEmail: skipped without a mail service, sent, or
\* failed, and then the mail may have gone out all the same.
SendVerification(r) ==
  /\ At(r, "mail")
  /\ \E arrives \in Arrives :
       /\ users' = updateById(req[r].user, [users[req[r].user] EXCEPT !.mailed = arrives])
       /\ Finish(r) \/ ("mail" \in scenario.faults /\ Goto(r, "undo"))
  /\ UNCHANGED <<tenants, invites, issued, catalog, subscriptions, interrupted>>

\* Mutant: the sequential deletes in the other order.
UndoTenantFirst(r) ==
  /\ At(r, "undo")
  /\ tenants' = deleteTenantById(req[r].tenant)
  /\ IF transactions
     THEN users' = deleteByIdAndTenantId(req[r].user, "undone") /\ Finish(r)
     ELSE Goto(r, "undoTenant") /\ UNCHANGED users
  /\ UNCHANGED <<invites, issued, catalog, subscriptions, interrupted>>

\* compensateFailedRegistration: in a transaction, or the user before the tenant.
UndoRegistration(r) ==
  /\ At(r, "undo")
  /\ users' = deleteByIdAndTenantId(req[r].user, "undone")
  /\ IF transactions
     THEN tenants' = deleteTenantById(req[r].tenant) /\ Finish(r)
     ELSE Goto(r, "undoTenant") /\ UNCHANGED tenants
  /\ UNCHANGED <<invites, issued, catalog, subscriptions, interrupted>>

UndoTenant(r) ==
  /\ At(r, "undoTenant")
  /\ tenants' = deleteTenantById(req[r].tenant)
  /\ Finish(r)
  /\ UNCHANGED <<users, invites, issued, catalog, subscriptions, interrupted>>

\* verifyEmail, by whoever has the mailed link.
VerifyEmail(r, u) ==
  /\ StoredUser(u)
  /\ ~users[u].verified /\ users[u].mailed /\ users[u].link = "valid"
  /\ Begin(r, "verifyEmail",
           [IdleRequest EXCEPT !.op = "verifyEmail", !.pc = "verify", !.user = u])
  /\ UNCHANGED <<tenants, users, invites, issued, catalog, subscriptions, interrupted>>

MarkVerified(r) ==
  /\ At(r, "verify")
  /\ users' = markEmailVerified(req[r].user)
  /\ Finish(r)
  /\ UNCHANGED <<tenants, invites, issued, catalog, subscriptions, interrupted>>

RegistrationStep(r) ==
  \/ RegisterInTransaction(r) \/ CreateTenant(r) \/ CreateFounder(r) \/ DropTenant(r)
  \/ SendVerification(r) \/ UndoRegistration(r) \/ UndoTenant(r) \/ MarkVerified(r)
===============================================================================
