------------------------------ MODULE TenantUsers ------------------------------
(***************************************************************************)
(* TenantUserService: invitations, their acceptance, and the removal of    *)
(* users, each with its transaction or with its compensating writes.       *)
(***************************************************************************)
EXTENDS Registration

\* inviteUser: an inactive user of the same tenant is invited again, any other user with
\* the address is refused.
InviteUser(r, u, e) ==
  LET existing == findByEmail(e)
  IN  /\ MayAct(u)
      /\ \A x \in existing : users[x].tenant = users[u].tenant /\ ~users[x].active
      /\ \E x \in existing \cup {0} :
           /\ existing # {} => x # 0
           /\ Begin(r, "inviteUser",
                    [IdleRequest EXCEPT !.op = "inviteUser", !.pc = "tenant", !.email = e,
                       !.tenant = users[u].tenant, !.user = x])
      /\ UNCHANGED <<tenants, users, invites, issued, catalog, subscriptions, interrupted>>

\* getCurrentTenant
InviteReadTenant(r) ==
  /\ At(r, "tenant")
  /\ IF findActiveByTenantId(req[r].tenant)
     THEN Goto(r, IF req[r].user = 0 THEN "count" ELSE "invite")
     ELSE Finish(r)
  /\ UNCHANGED <<tenants, users, invites, issued, catalog, subscriptions, interrupted>>

InviteCount(r) ==
  /\ At(r, "count")
  /\ req' = [req EXCEPT ![r].pc = "subscription", ![r].seen = countByTenantId(req[r].tenant)]
  /\ UNCHANGED <<tenants, users, invites, issued, catalog, subscriptions, interrupted>>

\* resolveFeatureLimits reads the subscription, and then the plan of its price.
ReadSubscription(r) ==
  LET sub == subscriptions[req[r].tenant].row
  IN  /\ At(r, "subscription")
      /\ req' = [req EXCEPT ![r].pc = "limit",
                            ![r].price = IF HasActiveSubscription(sub) THEN sub.price ELSE 0]
      /\ UNCHANGED <<tenants, users, invites, issued, catalog, subscriptions, interrupted>>

\* findByStripePriceIdIncludingArchived
PlanOfPrice(p) ==
  IF p \in DOMAIN catalog /\ catalog[p].row # "none"
  THEN [present |-> TRUE, featured |-> TRUE, aiTier |-> catalog[p].aiTier,
        aiChatbot |-> catalog[p].aiChatbot,
        limits |-> [NoPlan.limits EXCEPT !.maxUsers = catalog[p].maxUsers]]
  ELSE NoPlan
UserLimit(p) ==
  resolveFeatureLimits([live |-> p # 0, price |-> p, aiTierKey |-> FALSE],
                       PlanOfPrice(p)).maxUsers

\* assertWithinUserLimit
AssertWithinUserLimit(r) ==
  /\ At(r, "limit")
  /\ IF WithinLimit(UserLimit(req[r].price), req[r].seen) THEN Goto(r, "invite") ELSE Finish(r)
  /\ UNCHANGED <<tenants, users, invites, issued, catalog, subscriptions, interrupted>>

\* The user and the invitation, in a transaction.  A re-invitation of a user that is
\* gone writes the invitation alone.
IssueTo(r) ==
  Append(issued, [tenant |-> req[r].tenant, email |-> req[r].email,
                  mailed |-> FALSE, dangling |-> FALSE])
InvitedUsers(r, role) ==
  IF req[r].user = 0 THEN Append(users, Invitee(req[r].tenant, req[r].email, role))
  ELSE updateById(req[r].user, [users[req[r].user] EXCEPT !.role = role])
EmailRefused(r) == req[r].user = 0 /\ ~EmailIsFree(req[r].email)
InviteeCreated(r) == IF req[r].user = 0 THEN Len(users) + 1 ELSE req[r].user

InviteInTransaction(r) ==
  LET token == Len(issued) + 1
  IN  /\ At(r, "invite") /\ transactions
      /\ IF EmailRefused(r)
         THEN Finish(r) /\ UNCHANGED <<users, invites, issued>>
         ELSE /\ token <= scenario.tokens /\ InviteeCreated(r) <= scenario.users
              /\ \E role \in scenario.roles : users' = InvitedUsers(r, role)
              /\ invites' = upsert(req[r].tenant, req[r].email, token)
              /\ issued' = IssueTo(r)
              /\ req' = [req EXCEPT ![r].pc = "send", ![r].token = token]
      /\ UNCHANGED <<tenants, catalog, subscriptions, interrupted>>

\* inviteWithoutTransaction: the user, then the invitation, then on its failure the
\* removal of a user just created, which may fail as well.
InviteWriteUser(r) ==
  /\ At(r, "invite") /\ ~transactions
  /\ IF EmailRefused(r)
     THEN Finish(r) /\ UNCHANGED users
     ELSE /\ InviteeCreated(r) <= scenario.users
          /\ \E role \in scenario.roles : users' = InvitedUsers(r, role)
          /\ req' = [req EXCEPT ![r].pc = "upsert", ![r].user = InviteeCreated(r),
                                ![r].on = req[r].user = 0]
  /\ UNCHANGED <<tenants, invites, issued, catalog, subscriptions, interrupted>>

UpsertInvite(r) ==
  LET token == Len(issued) + 1
  IN  /\ At(r, "upsert")
      /\ \/ /\ token <= scenario.tokens
            /\ invites' = upsert(req[r].tenant, req[r].email, token)
            /\ issued' = IssueTo(r)
            /\ req' = [req EXCEPT ![r].pc = "send", ![r].token = token]
         \/ /\ MayFail
            /\ IF req[r].on THEN Goto(r, "undoInvitee") ELSE Finish(r)
            /\ UNCHANGED <<invites, issued>>
      /\ UNCHANGED <<tenants, users, catalog, subscriptions, interrupted>>

UndoInvitee(r) ==
  /\ At(r, "undoInvitee")
  /\ users' = deleteByIdAndTenantId(req[r].user, "undone") \/ users' = users
  /\ Finish(r)
  /\ UNCHANGED <<tenants, invites, issued, catalog, subscriptions, interrupted>>

\* The UserInvited event: its listener mails the token, or fails without anybody knowing.
SendInvite(r) ==
  /\ At(r, "send")
  /\ \E arrives \in Arrives : issued' = [issued EXCEPT ![req[r].token].mailed = arrives]
  /\ Finish(r)
  /\ UNCHANGED <<tenants, users, invites, catalog, subscriptions, interrupted>>

-----------------------------------------------------------------------------
\* acceptInvite, by whoever was mailed token t: the address finds an invitation, of any
\* tenant, and its hash has to match.
AcceptInvite(r, t) ==
  /\ issued[t].mailed
  /\ \E i \in findByEmailWithToken(issued[t].email) :
       /\ invites[i].token = t /\ ~invites[i].expired
       /\ Begin(r, "acceptInvite",
                [IdleRequest EXCEPT !.op = "acceptInvite", !.pc = "account",
                   !.email = issued[t].email, !.tenant = invites[i].tenant,
                   !.invite = i, !.token = t])
  /\ UNCHANGED <<tenants, users, invites, issued, catalog, subscriptions, interrupted>>

AcceptFindAccount(r) ==
  LET found == findByEmailInTenant(req[r].email, req[r].tenant)
  IN  /\ At(r, "account")
      /\ \/ found = {} /\ Finish(r)
         \/ \E u \in found :
              req' = [req EXCEPT ![r].pc = "activate", ![r].user = u]
      /\ UNCHANGED <<tenants, users, invites, issued, catalog, subscriptions, interrupted>>

\* Mutant: with a transaction at hand the invitation is left to its expiry.
KeepInvite(r) == invites

SpendInvite(r) == deleteInvites({req[r].invite})

Activated(u, t, p) ==
  [users[u] EXCEPT !.password = p, !.key = t, !.verified = TRUE, !.active = TRUE]

\* The password, then the invitation that was read: in a transaction, or one by one.
Activate(r) ==
  /\ At(r, "activate")
  /\ \E p \in Passwords :
       users' = updateById(req[r].user, Activated(req[r].user, req[r].token, p))
  /\ IF transactions
     THEN invites' = SpendInvite(r) /\ Finish(r)
     ELSE Goto(r, "dropInvite") /\ UNCHANGED invites
  /\ UNCHANGED <<tenants, issued, catalog, subscriptions, interrupted>>

\* acceptInviteWithoutTransaction: "dangling invite is benign".
DropInvite(r) ==
  /\ At(r, "dropInvite")
  /\ \/ invites' = SpendInvite(r) /\ UNCHANGED issued
     \/ /\ MayFail
        /\ issued' = [issued EXCEPT ![req[r].token].dangling = TRUE]
        /\ UNCHANGED invites
  /\ Finish(r)
  /\ UNCHANGED <<tenants, users, catalog, subscriptions, interrupted>>

-----------------------------------------------------------------------------
DeleteUser(r, u, target) ==
  /\ MayAct(u) /\ target # u
  /\ StoredUser(target) /\ users[target].tenant = users[u].tenant
  /\ Begin(r, "deleteUser",
           [IdleRequest EXCEPT !.op = "deleteUser", !.pc = "delete", !.user = target,
              !.tenant = users[u].tenant, !.email = users[target].email])
  /\ UNCHANGED <<tenants, users, invites, issued, catalog, subscriptions, interrupted>>

RemoveUser(r) ==
  /\ At(r, "delete")
  /\ users' = deleteByIdAndTenantId(req[r].user, "deleted")
  /\ IF transactions
     THEN invites' = deleteInvites(inviteOf(req[r].email, req[r].tenant)) /\ Finish(r)
     ELSE Goto(r, "dropInvitesOf") /\ UNCHANGED invites
  /\ UNCHANGED <<tenants, issued, catalog, subscriptions, interrupted>>

\* deleteUserWithoutTransaction
DropInvitesOf(r) ==
  /\ At(r, "dropInvitesOf")
  /\ \/ invites' = deleteInvites(inviteOf(req[r].email, req[r].tenant))
     \/ MayFail /\ UNCHANGED invites
  /\ Finish(r)
  /\ UNCHANGED <<tenants, users, issued, catalog, subscriptions, interrupted>>

\* updateUser: the row is read for its existence, and written by id.
UpdateUser(r, u, target) ==
  /\ MayAct(u)
  /\ StoredUser(target) /\ users[target].tenant = users[u].tenant
  /\ Begin(r, "updateUser",
           [IdleRequest EXCEPT !.op = "updateUser", !.pc = "write", !.user = target])
  /\ UNCHANGED <<tenants, users, invites, issued, catalog, subscriptions, interrupted>>

WriteUser(r) ==
  LET u == req[r].user
  IN  /\ At(r, "write") /\ req[r].op = "updateUser"
      /\ \/ \E role \in scenario.roles : users' = updateById(u, [users[u] EXCEPT !.role = role])
         \/ \E on \in BOOLEAN : users' = updateById(u, [users[u] EXCEPT !.active = on])
      /\ Finish(r)
      /\ UNCHANGED <<tenants, invites, issued, catalog, subscriptions, interrupted>>

TenantUserStep(r) ==
  \/ InviteReadTenant(r) \/ InviteCount(r) \/ ReadSubscription(r) \/ AssertWithinUserLimit(r)
  \/ InviteInTransaction(r) \/ InviteWriteUser(r) \/ UpsertInvite(r) \/ UndoInvitee(r)
  \/ SendInvite(r) \/ AcceptFindAccount(r) \/ Activate(r) \/ DropInvite(r)
  \/ RemoveUser(r) \/ DropInvitesOf(r) \/ WriteUser(r)
===============================================================================
