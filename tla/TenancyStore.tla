----------------------------- MODULE TenancyStore -----------------------------
(***************************************************************************)
(* The collections behind organizations: tenants, users, invitations, the  *)
(* plan catalog with its Stripe side, and the subscriptions that limit a   *)
(* tenant; the requests on them, interrupted at every await; and the       *)
(* repository methods as operators.  A request that is refused without a   *)
(* write takes no step.                                                    *)
(***************************************************************************)
EXTENDS Entitlements, Sequences, FiniteSets

CONSTANTS
  Emails,        \* addresses; the founder of an initial tenant k has address k
  Requests,
  Scenarios,     \* what goes on: operations, faults and bounds; a behaviour has one
  Passwords, PlanCaps,
  MaxTenants, MaxPlans   \* bounds

ASSUME EmailsAssumption == Emails \subseteq Nat \ {0}
ASSUME TenancyRequestsAssumption == IsFiniteSet(Requests) /\ Requests # {}
ASSUME PlanCapsAssumption == PlanCaps \subseteq Nat \cup {NoCap}
ASSUME TenantsAssumption == MaxTenants \in Nat
ASSUME PasswordsAssumption == Passwords # {}
ASSUME ScenariosAssumption ==
  \A s \in Scenarios :
     /\ s.organizations \in 0 .. MaxTenants /\ s.tenants \in 0 .. s.organizations
     /\ 1 .. s.tenants \subseteq Emails
     /\ s.roles \subseteq {"admin", "member"} /\ s.deployments \subseteq BOOLEAN
     /\ \A dto \in s.plans : /\ dto.aiTier \in BOOLEAN /\ dto.aiChatbot \in Overrides
                             /\ dto.maxUsers \in PlanCaps

VARIABLES
  scenario,
  transactions,   \* multi-document transactions are available
  tenants,        \* every tenant ever created
  users,          \* every user ever created
  invites,        \* every invitation row ever created
  issued,         \* every invitation token ever issued
  catalog,        \* every plan: its Stripe product and price, and its row
  subscriptions,  \* by tenant
  ceiling,        \* history: the highest seat limit a tenant's plans ever had
  interrupted,    \* history: tenants whose registration was cut short
  admins,         \* history: who was ever signed an admin's access token
  req

tenancyVars == <<scenario, transactions, tenants, users, invites, issued, catalog,
                 subscriptions, ceiling, interrupted, admins, req>>

\* `deletedAt' is set while the tenant waits for its purge; `active' is the isActive flag.
\* `founder' is its first user (0 until there is one).
Stages == {"stored", "deleted", "purged", "undone"}
Tenant == [stage : Stages, active : BOOLEAN, founder : Nat]

\* `link' is the verification token of a founder, `mailed' whether it reached him; `key'
\* the invitation token the password was last set with (0 if none).
User == [tenant : Nat \ {0}, email : Emails, role : {"admin", "member"}, active : BOOLEAN,
         verified : BOOLEAN, password : Passwords \cup {"none"}, key : Nat,
         link : {"none", "valid", "expired"}, mailed : BOOLEAN,
         fate : {"stored", "deleted", "undone"}]
Invite == [tenant : Nat \ {0}, email : Emails, token : Nat, expired : BOOLEAN,
           stored : BOOLEAN]
IssuedToken == [tenant : Nat \ {0}, email : Emails, mailed : BOOLEAN, dangling : BOOLEAN]

\* The plan's product and price at Stripe, and its row; `productTier' and `aiTier' tell
\* whether the name there is that of a tier with the AI assistant.
Plan == [product : {"active", "inactive"}, productTier : BOOLEAN,
         price : {"none", "active", "inactive"},
         row : {"none", "live", "archived"}, aiTier : BOOLEAN, aiChatbot : Overrides,
         maxUsers : PlanCaps]
Subscription == [row : SubscriptionView, held : SUBSET Nat]

Ops == {"none", "register", "verifyEmail", "inviteUser", "acceptInvite", "deleteUser",
        "updateUser", "updateCurrentTenant", "updateTenant", "softDeleteTenant", "create",
        "update", "archive"}
Pcs == {"idle", "create", "founder", "dropTenant", "mail", "undo", "undoTenant", "verify",
        "tenant", "count", "subscription", "limit", "invite", "upsert", "undoInvitee",
        "send", "account", "activate", "dropInvite", "delete", "dropInvitesOf", "write",
        "price", "row", "product"}
Request == [op : Ops, pc : Pcs, tenant : Nat, user : Nat, email : Emails \cup {0},
            invite : Nat, token : Nat, seen : Nat, price : Nat, plan : Nat,
            on : BOOLEAN]
IdleRequest == [op |-> "none", pc |-> "idle", tenant |-> 0, user |-> 0, email |-> 0,
                invite |-> 0, token |-> 0, seen |-> 0, price |-> 0, plan |-> 0,
                on |-> FALSE]

TenancyTypeOK ==
  /\ scenario \in Scenarios
  /\ transactions \in BOOLEAN
  /\ tenants \in Seq(Tenant)
  /\ users \in Seq(User)
  /\ invites \in Seq(Invite)
  /\ issued \in Seq(IssuedToken)
  /\ catalog \in Seq(Plan)
  /\ subscriptions \in [1 .. MaxTenants -> Subscription]
  /\ ceiling \in [1 .. MaxTenants -> Nat \cup {NoCap}]
  /\ interrupted \subseteq 1 .. MaxTenants
  /\ admins \subseteq DOMAIN users
  /\ req \in [Requests -> Request]

-----------------------------------------------------------------------------
(* users *)

StoredUser(u) == u \in DOMAIN users /\ users[u].fate = "stored"
findByEmail(e) == {u \in DOMAIN users : users[u].fate = "stored" /\ users[u].email = e}

\* Mutant: the owner of an invitation is looked up by address alone.
findByEmailAnywhere(e, k) == findByEmail(e)

findByEmailInTenant(e, k) == {u \in findByEmail(e) : users[u].tenant = k}
countByTenantId(k) ==
  Cardinality({u \in DOMAIN users : users[u].fate = "stored" /\ users[u].tenant = k})

\* createUser of a founder and of an invited user; the unique index on the address makes
\* it fail when the address is taken.
EmailIsFree(e) == findByEmail(e) = {}

\* Mutant: the founder is created before his organization has an id.
FounderOfNobody(k, e) ==
  [tenant |-> 0, email |-> e, role |-> "admin", active |-> TRUE, verified |-> FALSE,
   password |-> CHOOSE p \in Passwords : TRUE, key |-> 0, link |-> "valid",
   mailed |-> FALSE, fate |-> "stored"]

Founder(k, e) ==
  [tenant |-> k, email |-> e, role |-> "admin", active |-> TRUE, verified |-> FALSE,
   password |-> CHOOSE p \in Passwords : TRUE, key |-> 0, link |-> "valid",
   mailed |-> FALSE, fate |-> "stored"]
Invitee(k, e, role) ==
  [tenant |-> k, email |-> e, role |-> role, active |-> FALSE, verified |-> FALSE,
   password |-> "none", key |-> 0, link |-> "none", mailed |-> FALSE, fate |-> "stored"]

\* updateById: a user that is gone is not written, and nobody is told.
updateById(u, row) == IF StoredUser(u) THEN [users EXCEPT ![u] = row] ELSE users
deleteByIdAndTenantId(u, fate) ==
  IF StoredUser(u) THEN [users EXCEPT ![u].fate = fate] ELSE users
markEmailVerified(u) ==
  updateById(u, [users[u] EXCEPT !.verified = TRUE, !.link = "none"])

(* tenants *)

NewTenant(founder) == [stage |-> "stored", active |-> TRUE, founder |-> founder]

\* Mutant: the filter of the update forgets the soft deletion.
StoredTenant(k) == tenants[k].stage \in {"stored", "deleted"}

findActiveByTenantId(k) == tenants[k].stage = "stored"
findByTenantId(k) == tenants[k].stage \in {"stored", "deleted"}
tenantActiveFilter(k) == tenants[k].stage = "stored"
deleteTenantById(k) == [tenants EXCEPT ![k].stage = "undone"]

(* tenant_user_invites *)

findByEmailWithToken(e) ==
  {i \in DOMAIN invites : invites[i].stored /\ invites[i].email = e}
inviteOf(e, k) == {i \in findByEmailWithToken(e) : invites[i].tenant = k}

\* upsert: an invitation for the same address and tenant keeps its row, and its _id.
upsert(k, e, token) ==
  IF inviteOf(e, k) = {}
  THEN Append(invites, [tenant |-> k, email |-> e, token |-> token, expired |-> FALSE,
                        stored |-> TRUE])
  ELSE [i \in DOMAIN invites |->
          IF i \in inviteOf(e, k)
          THEN [invites[i] EXCEPT !.token = token, !.expired = FALSE]
          ELSE invites[i]]
deleteInvites(S) ==
  [i \in DOMAIN invites |->
     IF i \in S THEN [invites[i] EXCEPT !.stored = FALSE] ELSE invites[i]]

-----------------------------------------------------------------------------
At(r, pc) == req[r].pc = pc
Goto(r, pc) == req' = [req EXCEPT ![r].pc = pc]
Finish(r) == req' = [req EXCEPT ![r] = IdleRequest]
Begin(r, op, locals) ==
  /\ op \in scenario.operations
  /\ At(r, "idle")
  /\ req' = [req EXCEPT ![r] = locals]

\* A failing call, other than one that a unique index refuses.
MayFail == "failure" \in scenario.faults
Arrives == IF "mail" \in scenario.faults THEN BOOLEAN ELSE {TRUE}

\* Who may be signed a token that says admin: at a sign-in or a refresh, which look at the
\* role and at the verification of the moment.
SignedAsAdmin(u) == users[u].role = "admin" /\ users[u].verified

\* An access token is not checked against the database until it expires: it says admin
\* although its owner is demoted, inactive or gone.
MayAct(u) == u \in admins

initialUser(k) == [Founder(k, k) EXCEPT !.verified = TRUE, !.link = "none"]

TenancyInit ==
  /\ scenario \in Scenarios
  /\ transactions \in scenario.deployments
  /\ tenants = [k \in 1 .. scenario.tenants |-> NewTenant(k)]
  /\ users = [k \in 1 .. scenario.tenants |-> initialUser(k)]
  /\ invites = <<>>
  /\ issued = <<>>
  /\ catalog = <<>>
  /\ subscriptions = [k \in 1 .. MaxTenants |-> [row |-> NoSubscription, held |-> {}]]
  /\ ceiling = [k \in 1 .. MaxTenants |-> FreeLimits.maxUsers]
  /\ interrupted = {}
  /\ admins = {u \in DOMAIN users : SignedAsAdmin(u)}
  /\ req = [r \in Requests |-> IdleRequest]
===============================================================================
