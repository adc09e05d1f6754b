----------------------------- MODULE TenancySystem -----------------------------
(***************************************************************************)
(* Organizations, their users and the plans that limit them, together with *)
(* what goes on around them: subscriptions that change, tokens that expire,*)
(* the TTL monitor, and crashes.                                           *)
(***************************************************************************)
EXTENDS PlanCatalog

\* Billing gives the tenant a subscription to a price on sale, or takes it away.
ChangeSubscription(k) ==
  /\ "billing" \in scenario.faults
  /\ \E p \in {q \in DOMAIN catalog : catalog[q].price = "active"} \cup {0} :
       subscriptions' = [subscriptions EXCEPT
         ![k] = [row |-> [NoSubscription EXCEPT !.live = p # 0, !.price = p],
                 held |-> @.held \cup {p}]]
  /\ UNCHANGED <<tenants, users, invites, issued, catalog, interrupted, req>>

ExpireLink(u) ==
  /\ "expiry" \in scenario.faults
  /\ users[u].link = "valid"
  /\ users' = [users EXCEPT ![u].link = "expired"]
  /\ UNCHANGED <<tenants, invites, issued, catalog, subscriptions, interrupted, req>>

ExpireInvite(i) ==
  /\ "expiry" \in scenario.faults
  /\ invites[i].stored /\ ~invites[i].expired
  /\ invites' = [invites EXCEPT ![i].expired = TRUE]
  /\ UNCHANGED <<tenants, users, issued, catalog, subscriptions, interrupted, req>>

\* The TTL index of the invitations.
PurgeInvite(i) ==
  /\ invites[i].stored /\ invites[i].expired
  /\ invites' = deleteInvites({i})
  /\ UNCHANGED <<tenants, users, issued, catalog, subscriptions, interrupted, req>>

\* The server dies, or the call of the step fails in a way the code does not handle.
Crash(r) ==
  /\ "crash" \in scenario.faults
  /\ ~At(r, "idle")
  /\ Finish(r)
  /\ interrupted' = interrupted \cup
       IF req[r].op = "register" /\ req[r].tenant # 0 THEN {req[r].tenant} ELSE {}
  /\ issued' = IF At(r, "dropInvite") THEN [issued EXCEPT ![req[r].token].dangling = TRUE]
               ELSE issued
  /\ UNCHANGED <<tenants, users, invites, catalog, subscriptions>>

Environment ==
  \/ \E k \in DOMAIN tenants : ChangeSubscription(k) \/ PurgeTenant(k)
  \/ \E u \in DOMAIN users : ExpireLink(u)
  \/ \E i \in DOMAIN invites : ExpireInvite(i) \/ PurgeInvite(i)

Arrival(r) ==
  \/ \E e \in {a \in Emails : a <= scenario.addresses} :
        Register(r, e) \/ \E u \in DOMAIN users : InviteUser(r, u, e)
  \/ \E u \in DOMAIN users : VerifyEmail(r, u) \/ UpdateCurrentTenant(r, u)
  \/ \E u, target \in DOMAIN users : DeleteUser(r, u, target) \/ UpdateUser(r, u, target)
  \/ \E t \in DOMAIN issued : AcceptInvite(r, t)
  \/ \E k \in DOMAIN tenants, op \in {"updateTenant", "softDeleteTenant"} :
        PlatformRead(r, k, op)
  \/ CreatePlan(r)
  \/ \E p \in DOMAIN catalog : UpdatePlan(r, p) \/ ArchivePlan(r, p)

Progress(r) == RegistrationStep(r) \/ TenantUserStep(r) \/ DirectoryStep(r) \/ CatalogStep(r)

\* What the tenant's plans allow at most, of all it ever had.
Highest(S) ==
  IF NoCap \in S THEN NoCap ELSE CHOOSE c \in S : \A d \in S : d <= c
RecordCeiling ==
  ceiling' = [k \in DOMAIN ceiling |->
    Highest({ceiling[k]} \cup {UserLimit(p)' : p \in subscriptions'[k].held})]

RecordAdmins ==
  admins' = {u \in DOMAIN users' : u \in admins \/ SignedAsAdmin(u)'}

Next ==
  /\ \/ \E r \in Requests : Arrival(r) \/ Progress(r) \/ Crash(r)
     \/ Environment
  /\ RecordCeiling /\ RecordAdmins
  /\ UNCHANGED <<scenario, transactions>>

Spec == TenancyInit /\ [][Next]_tenancyVars

-----------------------------------------------------------------------------
TypeOK == TenancyTypeOK

\* A registration leaves an organization with its first user or leaves none, whichever
\* call fails on the way: once no request works on it, an organization without a user of
\* its own making is one whose registration was cut short.
Working(k) == \E r \in Requests : req[r].op = "register" /\ req[r].tenant = k

RegistrationIsAllOrNothing ==
  \A k \in DOMAIN tenants :
     findByTenantId(k) /\ ~Working(k) /\ k \notin interrupted
       => tenants[k].founder # 0 /\ users[tenants[k].founder].fate # "undone"

\* The compensation removes the user before the organization, so a crash between the two
\* never leaves a user whose organization does not exist.
FounderHasTenant ==
  \A k \in DOMAIN tenants :
     tenants[k].stage = "undone" /\ tenants[k].founder # 0
       => users[tenants[k].founder].fate # "stored"

\* A soft-deleted organization stays inactive until it is purged, although its admins'
\* tokens still work and an operator may have read it before the deletion.
DeletedTenantIsInactive ==
  \A k \in DOMAIN tenants : tenants[k].stage = "deleted" => ~tenants[k].active

\* An invitation activates an account of the organization that issued it, although the
\* address alone finds the invitation and other organizations may have left one.
InvitationStaysInTenant ==
  \A u \in DOMAIN users :
     users[u].key # 0 =>
       /\ issued[users[u].key].tenant = users[u].tenant
       /\ issued[users[u].key].email = users[u].email

\* No row holds the token an account was activated with, so that a request which presents
\* it from then on is refused.  Without transactions the request that activated may still
\* have to delete the row, or have failed to.  A request that read the row earlier is not
\* refused: it activates the account again.
InvitationIsSpent ==
  \A u \in DOMAIN users, i \in DOMAIN invites :
     invites[i].stored /\ invites[i].token = users[u].key =>
       /\ ~transactions
       /\ \/ issued[users[u].key].dangling
          \/ \E r \in Requests : At(r, "dropInvite") /\ req[r].invite = i

\* A plan whose row is archived cannot be bought at Stripe, and no update that read it
\* earlier brings it back.
ArchivedPlanIsOffSale ==
  \A p \in DOMAIN catalog :
     catalog[p].row = "archived" =>
       catalog[p].price = "inactive" /\ catalog[p].product = "inactive"

ArchivedStaysArchived ==
  [][\A p \in DOMAIN catalog :
        catalog[p].row = "archived" => catalog'[p].row = "archived"]_tenancyVars

\* Seats: the limit of users is a Quota.  A request holds a count from the step that
\* counts until the user it invites is created.
CountedFor(r) ==
  IF req[r].op = "inviteUser"
       /\ \/ req[r].pc \in {"subscription", "limit"}
          \/ req[r].pc = "invite" /\ req[r].user = 0
  THEN req[r].tenant ELSE 0

Seats == INSTANCE Quota WITH
  Owners <- 1 .. MaxTenants, Nobody <- 0,
  used <- [k \in 1 .. MaxTenants |-> countByTenantId(k)],
  owner <- [r \in Requests |-> CountedFor(r)],
  seen <- [r \in Requests |-> IF CountedFor(r) = 0 THEN 0 ELSE req[r].seen]

SeatQuota == Seats!Spec

\* "a repeat accept attempt with the same token will still verify correctly but find an
\* already-active user (safe no-op from the user's perspective)"
RepeatAcceptIsNoOp ==
  [][\A r \in Requests :
        At(r, "activate") /\ StoredUser(req[r].user) /\ req'[r].pc # "activate"
          /\ users[req[r].user].active /\ users[req[r].user].key = req[r].token
        => users' = users]_tenancyVars
===============================================================================
