------------------------------- MODULE SeatProofs -------------------------------
(***************************************************************************)
(* The limit on users is a Quota: every step of TenancySystem on requests  *)
(* and users is a step of Quota on the seats, for any number of            *)
(* organizations, users and requests and any scenario.  What the proof     *)
(* needs besides the types: the ceiling covers every limit that a request  *)
(* can come to compare with, a request that passed the comparison counted  *)
(* fewer seats than the ceiling, and nobody joins an organization before   *)
(* its founder.                                                            *)
(***************************************************************************)
EXTENDS TenancyProofs

CeilingHolds ==
  \A k \in 1 .. MaxTenants :
     /\ ceiling[k] # 0
     /\ \A p \in subscriptions[k].held \cup {0} : Covers(ceiling[k], UserLimit(p))
     /\ HasActiveSubscription(subscriptions[k].row) =>
          subscriptions[k].row.price \in subscriptions[k].held

\* Only a new user is counted, and nobody joins an organization before its founder.
Seated(q) ==
  /\ q.pc \in {"count", "subscription", "limit"} => q.user = 0
  /\ q.pc = "limit" => q.price \in subscriptions[q.tenant].held \cup {0}
  /\ q.pc = "invite" /\ q.user = 0 => Seats!Below(q.seen, ceiling[q.tenant])
  /\ q.pc = "founder" =>
       /\ \A u \in DOMAIN users : users[u].tenant # q.tenant
       /\ \A r \in Requests : req[r].op = "inviteUser" => req[r].tenant # q.tenant

SeatInv == CeilingHolds /\ \A r \in Requests : Seated(req[r])

-----------------------------------------------------------------------------
(* The ceiling. *)

LEMMA SameFunction ==
  ASSUME NEW S, NEW T, NEW f \in [S -> T], NEW g \in [S -> T], \A x \in S : f[x] = g[x]
  PROVE  f = g
OBVIOUS

LEMMA CoversOrder ==
  ASSUME NEW a \in Nat \cup {NoCap}, NEW b \in Nat \cup {NoCap}, NEW c \in Nat \cup {NoCap},
         Covers(a, b)
  PROVE  /\ Covers(b, c) => Covers(a, c)
         /\ b # 0 => a # 0
BY NoCapAssumption DEF Covers

LEMMA FreeLimit ==
  LimitOf(catalog, 0) = FreeLimits.maxUsers /\ LimitOf(catalog', 0) = FreeLimits.maxUsers
BY DEF LimitOf

LEMMA CeilingType ==
  ASSUME TypeInv, NEW k \in 1 .. MaxTenants
  PROVE  ceiling[k] \in Nat \cup {NoCap} /\ subscriptions[k] \in Subscription
BY DEF TypeInv, TypeOK, TenancyTypeOK

\* The ceiling only rises, and covers the limits of the moment.
LEMMA CeilingRises ==
  ASSUME TypeInv, CeilingHolds, Next, NEW k \in 1 .. MaxTenants
  PROVE  /\ ceiling'[k] \in Nat \cup {NoCap} /\ ceiling'[k] # 0
         /\ Covers(ceiling'[k], ceiling[k])
         /\ \A p \in subscriptions'[k].held \cup {0} : Covers(ceiling'[k], LimitOf(catalog', p))
<1>1. RowsKept /\ RecordCeiling
  BY StepTyped DEF Typed, Next
<1>2. /\ ceiling'[k] \in Nat \cup {NoCap} /\ Covers(ceiling'[k], ceiling[k])
      /\ \A p \in subscriptions'[k].held : Covers(ceiling'[k], LimitOf(catalog', p))
  BY <1>1, CeilingRecorded DEF Limits
<1>3. /\ ceiling[k] # 0 /\ Covers(ceiling[k], LimitOf(catalog, 0))
      /\ ceiling[k] \in Nat \cup {NoCap}
  BY LimitIs, CeilingType DEF CeilingHolds
<1>4. FreeLimits.maxUsers \in Nat \cup {NoCap}
  BY FreeLimitsAssumption DEF Dimensions
<1>5. Covers(ceiling'[k], LimitOf(catalog', 0))
  <2>1. LimitOf(catalog', 0) = LimitOf(catalog, 0) /\ LimitOf(catalog, 0) \in Nat \cup {NoCap}
    BY <1>4, FreeLimit
  <2> QED BY <1>2, <1>3, <2>1, CoversOrder
<1> QED BY <1>2, <1>3, <1>5, CoversOrder

LEMMA CeilingStays ==
  ASSUME TypeInv, CeilingHolds, Next, UNCHANGED <<catalog, subscriptions>>
  PROVE  ceiling' = ceiling
<1>1. RowsKept /\ RecordCeiling
  BY StepTyped DEF Typed, Next
<1>2. /\ ceiling' \in [1 .. MaxTenants -> Nat \cup {NoCap}]
      /\ ceiling \in [1 .. MaxTenants -> Nat \cup {NoCap}]
  BY <1>1, CeilingRecorded DEF TypeInv, TypeOK, TenancyTypeOK
<1>3. ASSUME NEW k \in 1 .. MaxTenants PROVE ceiling'[k] = ceiling[k]
  <2>1. \/ ceiling'[k] = ceiling[k]
        \/ \E p \in subscriptions[k].held : ceiling'[k] = LimitOf(catalog, p)
    BY <1>1, CeilingRecorded DEF Limits
  <2>2. \A p \in subscriptions[k].held : Covers(ceiling[k], LimitOf(catalog, p))
    BY LimitIs DEF CeilingHolds
  <2>3. ceiling'[k] = ceiling[k] \/ Covers(ceiling[k], ceiling'[k])
    BY <2>1, <2>2
  <2>4. Covers(ceiling'[k], ceiling[k])
    BY CeilingRises
  <2>5. ceiling[k] \in Nat \cup {NoCap} /\ ceiling'[k] \in Nat \cup {NoCap}
    BY <1>2
  <2> QED BY <2>3, <2>4, <2>5, NoCapAssumption DEF Covers
<1> DEFINE S == 1 .. MaxTenants
           T == Nat \cup {NoCap}
<1>4. ceiling' \in [S -> T] /\ ceiling \in [S -> T] /\ \A k \in S : ceiling'[k] = ceiling[k]
  BY <1>2, <1>3
<1> HIDE DEF S, T
<1> QED BY <1>4, SameFunction

\* Only billing changes a subscription, and what a tenant once had stays on record.
LEMMA StepSubscriptions ==
  ASSUME Next
  PROVE  subscriptions' = subscriptions \/ \E k \in DOMAIN tenants : ChangeSubscription(k)
<1>1. ASSUME NEW r \in Requests, Arrival(r) PROVE subscriptions' = subscriptions
  BY <1>1 DEF Arrival, Register, InviteUser, VerifyEmail, UpdateCurrentTenant, DeleteUser,
     UpdateUser, AcceptInvite, PlatformRead, CreatePlan, UpdatePlan, ArchivePlan
<1>2. ASSUME NEW r \in Requests, RegistrationStep(r) PROVE subscriptions' = subscriptions
  BY <1>2 DEF RegistrationStep, RegisterInTransaction, CreateTenant, CreateFounder,
     DropTenant, SendVerification, UndoRegistration, UndoTenant, MarkVerified
<1>3. ASSUME NEW r \in Requests, DirectoryStep(r) PROVE subscriptions' = subscriptions
  BY <1>3 DEF DirectoryStep, UpdateTenant, SoftDeleteTenant
<1>4. ASSUME NEW r \in Requests, Progress(r) \/ Crash(r) PROVE subscriptions' = subscriptions
  BY <1>2, <1>3, <1>4, TenantUserStepTenants, CatalogStepRows DEF Progress, Crash
<1>5. CASE Environment
  BY <1>5 DEF Environment, PurgeTenant, ExpireLink, ExpireInvite, PurgeInvite
<1> QED BY <1>1, <1>4, <1>5 DEF Next

LEMMA SubscriptionsHold ==
  ASSUME TypeInv, CeilingHolds, Next, NEW k \in 1 .. MaxTenants
  PROVE  /\ subscriptions[k].held \subseteq subscriptions'[k].held
         /\ HasActiveSubscription(subscriptions'[k].row) =>
              subscriptions'[k].row.price \in subscriptions'[k].held
<1>1. CASE subscriptions' = subscriptions
  BY <1>1 DEF CeilingHolds
<1>2. ASSUME NEW n \in DOMAIN tenants, ChangeSubscription(n)
      PROVE  \/ subscriptions'[k] = subscriptions[k]
             \/ \E p : /\ subscriptions'[k].held = subscriptions[k].held \cup {p}
                       /\ subscriptions'[k].row.price = p
  <2>1. PICK p \in DOMAIN catalog \cup {0} : subscriptions' = [subscriptions EXCEPT
                   ![n] = [row |-> [NoSubscription EXCEPT !.live = p # 0, !.price = p],
                           held |-> @.held \cup {p}]]
    BY <1>2 DEF ChangeSubscription
  <2> DEFINE row == [NoSubscription EXCEPT !.live = p # 0, !.price = p]
             sub == [row |-> row, held |-> subscriptions[n].held \cup {p}]
  <2>2. row.price = p
    BY DEF NoSubscription
  <2> HIDE DEF row
  <2>3. sub.row.price = p /\ sub.held = subscriptions[n].held \cup {p}
    BY <2>2
  <2>4. subscriptions' = [subscriptions EXCEPT ![n] = sub]
    BY <2>1 DEF row
  <2> HIDE DEF sub
  <2>5. subscriptions'[k] = IF k = n THEN sub ELSE subscriptions[k]
    BY <2>4 DEF TypeInv, TypeOK, TenancyTypeOK
  <2> QED BY <2>3, <2>5
<1> QED BY <1>1, <1>2, StepSubscriptions DEF CeilingHolds

LEMMA CeilingHoldsNext == ASSUME TypeInv, CeilingHolds, Next PROVE CeilingHolds'
BY CeilingRises, SubscriptionsHold, LimitIs DEF CeilingHolds

-----------------------------------------------------------------------------
(* Where a request stands. *)

\* Whoever is invited is invited by somebody of the organization.
Joins(p) ==
  req'[p].op = "inviteUser" =>
    \/ req[p].op = "inviteUser" /\ req'[p].tenant = req[p].tenant
    \/ \E u \in DOMAIN users : req'[p].tenant = users[u].tenant

NobodyJoins(k) == \A u \in DOMAIN users' \ DOMAIN users : users'[u].tenant # k

SeatsNext ==
  /\ SameOwner
  /\ \A p \in Requests :
       \/ req'[p] = req[p] /\ (req[p].pc = "founder" => NobodyJoins(req[p].tenant))
       \/ Seated(req[p])' /\ Joins(p)

LEMMA InvitesHere ==
  ASSUME TypeInv, NEW r \in Requests, req[r].pc \in InvitePcs
  PROVE  req[r].tenant \in 1 .. MaxTenants /\ req[r].seen \in Nat
<1>1. req[r] \in Request /\ req[r].tenant \in DOMAIN tenants
  BY ReqFacts DEF RequestFits
<1> QED BY <1>1, PriceRead DEF Request

LEMMA NextKeepsSeats ==
  ASSUME TypeInv, SeatInv, Next, SeatsNext PROVE SeatInv'
<1>1. CeilingHolds'
  BY CeilingHoldsNext DEF SeatInv
<1>2. ASSUME NEW p \in Requests, req'[p] = req[p],
             req[p].pc = "founder" => NobodyJoins(req[p].tenant)
      PROVE  Seated(req[p])'
  <2>1. Seated(req[p])
    BY DEF SeatInv
  <2>2. ASSUME req[p].pc = "limit"
        PROVE  req[p].price \in subscriptions'[req[p].tenant].held \cup {0}
    <3>1. req[p].tenant \in 1 .. MaxTenants
      BY <2>2, InvitesHere DEF InvitePcs
    <3>2. subscriptions[req[p].tenant].held \subseteq subscriptions'[req[p].tenant].held
      BY <3>1, SubscriptionsHold DEF SeatInv
    <3> QED BY <2>1, <2>2, <3>2 DEF Seated
  <2>3. ASSUME req[p].pc = "invite", req[p].user = 0
        PROVE  Seats!Below(req[p].seen, ceiling'[req[p].tenant])
    <3> DEFINE k == req[p].tenant
    <3>1. k \in 1 .. MaxTenants /\ req[p].seen \in Nat
      BY <2>3, InvitesHere DEF InvitePcs
    <3>2. /\ ceiling[k] \in Nat \cup {NoCap} /\ ceiling'[k] \in Nat \cup {NoCap}
          /\ Covers(ceiling'[k], ceiling[k])
      BY <3>1, CeilingType, CeilingRises DEF SeatInv
    <3>3. Seats!Below(req[p].seen, ceiling[k])
      BY <2>1, <2>3 DEF Seated
    <3> QED BY <3>1, <3>2, <3>3, NoCapAssumption DEF Covers, Seats!Below
  <2>4. ASSUME req[p].pc = "founder", NEW u \in DOMAIN users' PROVE users'[u].tenant # req[p].tenant
    BY <1>2, <2>1, <2>4 DEF Seated, NobodyJoins, SeatsNext, SameOwner
  <2>5. ASSUME req[p].pc = "founder", NEW r \in Requests, req'[r].op = "inviteUser"
        PROVE  req'[r].tenant # req[p].tenant
    BY <2>1, <2>5 DEF Seated, SeatsNext, Joins
  <2> QED BY <1>2, <2>1, <2>2, <2>3, <2>4, <2>5 DEF Seated
<1> QED BY <1>1, <1>2 DEF SeatsNext, SeatInv

LEMMA StandsElsewhere ==
  ASSUME TypeInv', NEW r \in Requests, req'[r].op \notin {"register", "inviteUser"}
  PROVE  Seated(req[r])' /\ Joins(r)
<1>1. RequestFits(req[r])'
  BY DEF TypeInv
<1> QED BY <1>1 DEF RequestFits, RegisterPcs, InvitePcs, Seated, Joins

LEMMA ReadingJoins ==
  ASSUME TypeInv, TypeInv', NEW r \in Requests, Reading(r)
  PROVE  Seated(req[r])' /\ Joins(r)
<1>0. req \in [Requests -> Request]
  BY ReqFacts
<1> DEFINE Fine == Joins(r)
<1>1. ASSUME NEW e \in Emails, Register(r, e) PROVE Fine
  BY <1>0, <1>1 DEF Register, Begin, IdleRequest, Joins
<1>2. ASSUME NEW u \in DOMAIN users, NEW e \in Emails, InviteUser(r, u, e) PROVE Fine
  BY <1>0, <1>2 DEF InviteUser, Begin, IdleRequest, Joins
<1>3. ASSUME NEW u \in DOMAIN users, VerifyEmail(r, u) PROVE Fine
  BY <1>0, <1>3 DEF VerifyEmail, Begin, IdleRequest, Joins
<1>4. ASSUME NEW u \in DOMAIN users, NEW t \in DOMAIN users, DeleteUser(r, u, t) PROVE Fine
  BY <1>0, <1>4 DEF DeleteUser, Begin, IdleRequest, Joins
<1>5. ASSUME NEW u \in DOMAIN users, NEW t \in DOMAIN users, UpdateUser(r, u, t) PROVE Fine
  BY <1>0, <1>5 DEF UpdateUser, Begin, IdleRequest, Joins
<1>6. ASSUME NEW t \in DOMAIN issued, AcceptInvite(r, t) PROVE Fine
  BY <1>0, <1>6 DEF AcceptInvite, Begin, IdleRequest, Joins
<1>7. ASSUME NEW k \in DOMAIN tenants, NEW op \in {"updateTenant", "softDeleteTenant"},
             PlatformRead(r, k, op)
      PROVE  Fine
  BY <1>0, <1>7 DEF PlatformRead, Begin, IdleRequest, Joins
<1>8. ASSUME NEW p \in DOMAIN catalog, UpdatePlan(r, p) PROVE Fine
  <2>1. ASSUME NEW dto,
          \/ req' = [req EXCEPT ![r] = [IdleRequest EXCEPT !.op = "update", !.pc = "product",
                                          !.plan = p, !.on = dto.aiTier, !.seen = 1]]
          \/ req' = [req EXCEPT ![r] = [IdleRequest EXCEPT !.op = "update", !.pc = "row",
                                          !.plan = p, !.on = catalog[p].aiTier]]
        PROVE req'[r].op = "update"
    BY <1>0, <2>1 DEF IdleRequest
  <2> QED BY <1>8, <2>1 DEF UpdatePlan, Begin, Joins
<1>9. ASSUME NEW p \in DOMAIN catalog, ArchivePlan(r, p) PROVE Fine
  BY <1>0, <1>9 DEF ArchivePlan, Begin, IdleRequest, Joins
<1>10. Joins(r)
  <2> HIDE DEF Fine
  <2>1. Fine
    BY <1>1, <1>2, <1>3, <1>4, <1>5, <1>6, <1>7, <1>8, <1>9 DEF Reading
  <2> QED BY <2>1 DEF Fine
<1>11. req'[r].pc \in FirstPcs
  BY ReadingStarts
<1> QED BY <1>10, <1>11 DEF FirstPcs, Seated

\* An organization is created before its founder, and known to nobody else.
LEMMA FounderAwaited ==
  ASSUME TypeInv, NEW r \in Requests, CreateTenant(r) PROVE Seated(req[r])'
<1> DEFINE n == Len(tenants) + 1
           q == [req[r] EXCEPT !.pc = "founder", !.tenant = n]
<1>1. req' = [req EXCEPT ![r] = q] /\ users' = users
  BY DEF CreateTenant
<1>2. q.pc = "founder" /\ q.tenant = n /\ q.op = req[r].op
  BY ReqFacts DEF Request
<1> HIDE DEF q
<1>3. req'[r] = q /\ \A p \in Requests \ {r} : req'[p] = req[p]
  BY <1>1, ReqFacts
<1>4. n \notin DOMAIN tenants /\ \A u \in DOMAIN users : users[u].tenant \in DOMAIN tenants
  BY RowFacts DEF TypeInv, RowsFit
<1>5. req[r].op # "inviteUser"
  BY ReqFacts DEF CreateTenant, At, RequestFits, RegisterPcs
<1>6. ASSUME NEW p \in Requests, req'[p].op = "inviteUser" PROVE req'[p].tenant # n
  <2>1. req'[p] = req[p] /\ RequestFits(req[p])
    BY <1>2, <1>3, <1>5, <1>6, ReqFacts
  <2> QED BY <1>4, <1>6, <2>1 DEF RequestFits
<1> QED BY <1>1, <1>2, <1>3, <1>4, <1>6 DEF Seated

LEMMA FounderStep ==
  ASSUME TypeInv, NEW r \in Requests, RegistrationStep(r), req'[r].pc = "founder"
  PROVE  CreateTenant(r)
<1>1. ASSUME NEW pc, pc # "founder" PROVE ~Goto(r, pc)
  BY <1>1, ReqFacts DEF Goto, Request
<1>2. ~Finish(r)
  BY ReqFacts DEF Finish, IdleRequest
<1>3. ~RegisterInTransaction(r)
  <2> DEFINE q == [req[r] EXCEPT !.pc = "mail", !.tenant = Len(tenants) + 1,
                                 !.user = Len(users) + 1]
  <2>1. RegisterInTransaction(r) => Finish(r) \/ req' = [req EXCEPT ![r] = q]
    BY DEF RegisterInTransaction
  <2>2. q.pc = "mail"
    BY ReqFacts DEF Request
  <2> HIDE DEF q
  <2> QED BY <1>2, <2>1, <2>2, ReqFacts
<1>4. ~CreateFounder(r)
  <2> DEFINE q == [req[r] EXCEPT !.pc = "mail", !.user = Len(users) + 1]
  <2>1. CreateFounder(r) => Goto(r, "dropTenant") \/ req' = [req EXCEPT ![r] = q]
    BY DEF CreateFounder, FounderRefused
  <2>2. q.pc = "mail"
    BY ReqFacts DEF Request
  <2> HIDE DEF q
  <2> QED BY <1>1, <2>1, <2>2, ReqFacts
<1>5. ~(DropTenant(r) \/ SendVerification(r) \/ UndoRegistration(r) \/ UndoTenant(r) \/ MarkVerified(r))
  BY <1>1, <1>2 DEF DropTenant, SendVerification, UndoRegistration, UndoTenant, MarkVerified
<1> QED BY <1>3, <1>4, <1>5 DEF RegistrationStep

\* A founder joins his own organization, for which no other registration waits.
LEMMA FounderJoinsHisOwn ==
  ASSUME TypeInv, RegistrationInv, NEW r \in Requests, RegistrationStep(r),
         NEW p \in Requests \ {r}, req[p].pc = "founder"
  PROVE  NobodyJoins(req[p].tenant)
<1>1. /\ req[p].op = "register" /\ req[p].tenant \in DOMAIN tenants /\ req[p].tenant # 0
  BY ReqFacts, RowFacts DEF RequestFits, RegisterPcs
<1>2. ASSUME NEW k \in Nat \ {0}, NEW e \in Emails, users' = Append(users, Founder(k, e)),
             k # req[p].tenant
      PROVE  NobodyJoins(req[p].tenant)
  <2>1. Founder(k, e) \in User /\ Founder(k, e).tenant = k
    BY FounderType
  <2>2. DOMAIN users' = DOMAIN users \cup {Len(users) + 1} /\ users'[Len(users) + 1].tenant = k
    BY <1>2, <2>1, UserAdded
  <2> QED BY <1>2, <2>2 DEF NobodyJoins
<1>3. CASE RegisterInTransaction(r)
  <2>1. req[r].email \in Emails /\ Len(tenants) + 1 \in Nat \ {0} /\ Len(tenants) + 1 # req[p].tenant
    BY <1>1, <1>3, ReqFacts, RowFacts DEF RegisterInTransaction, At, RequestFits, RegisterPcs
  <2>2. users' = users \/ users' = Append(users, Founder(Len(tenants) + 1, req[r].email))
    BY <1>3 DEF RegisterInTransaction
  <2> QED BY <1>2, <2>1, <2>2 DEF NobodyJoins
<1>4. CASE CreateFounder(r)
  <2>1. req[r].email \in Emails /\ req[r].tenant \in Nat \ {0} /\ req[r].op = "register"
    BY <1>4, ReqFacts, RowFacts DEF CreateFounder, At, RequestFits, RegisterPcs
  <2>2. req[r].tenant # req[p].tenant
    BY <1>1, <2>1 DEF RegistrationInv, OneRegistration
  <2>3. users' = users \/ users' = Append(users, Founder(req[r].tenant, req[r].email))
    BY <1>4 DEF CreateFounder
  <2> QED BY <1>2, <2>1, <2>2, <2>3 DEF NobodyJoins
<1>5. CASE UndoRegistration(r)
  BY <1>5, UserTakenAway DEF UndoRegistration, NobodyJoins
<1>6. CASE SendVerification(r) \/ MarkVerified(r)
  BY <1>6, RowChanged DEF NobodyJoins
<1>7. CASE CreateTenant(r) \/ DropTenant(r) \/ UndoTenant(r)
  BY <1>7 DEF CreateTenant, DropTenant, UndoTenant, NobodyJoins
<1> QED BY <1>3, <1>4, <1>5, <1>6, <1>7 DEF RegistrationStep

LEMMA RegistrationSeats ==
  ASSUME TypeInv, TypeInv', RegistrationInv, NEW r \in Requests, RegistrationStep(r)
  PROVE  SeatsNext
<1>1. Moves(r, RegisterOps)
  BY RegistrationStepMoves
<1>2. RequestFits(req[r])'
  BY DEF TypeInv
<1>3. Joins(r) /\ req'[r].pc \notin InvitePcs
  BY <1>1, <1>2 DEF Moves, RegisterOps, Joins, RequestFits
<1>4. Seated(req[r])'
  <2>1. CASE req'[r].pc = "founder"
    BY <2>1, FounderStep, FounderAwaited
  <2>2. CASE req'[r].pc # "founder"
    BY <1>3, <2>2 DEF Seated, InvitePcs
  <2> QED BY <2>1, <2>2
<1> QED BY <1>1, <1>3, <1>4, RegistrationUsers, FounderJoinsHisOwn DEF SeatsNext, Moves

\* A request is limited by what a subscription once allowed, and the ceiling covers that.
LEMMA WithinCeiling ==
  ASSUME TypeInv, SeatInv, NEW r \in Requests, At(r, "limit"),
         WithinLimit(UserLimit(req[r].price), req[r].seen)
  PROVE  Seats!Below(req[r].seen, ceiling[req[r].tenant])
<1> DEFINE k == req[r].tenant
           m == LimitOf(catalog, req[r].price)
<1>1. k \in 1 .. MaxTenants /\ req[r].seen \in Nat
  BY InvitesHere DEF At, InvitePcs
<1>2. req[r].price \in subscriptions[k].held \cup {0}
  BY DEF SeatInv, Seated, At
<1>3. Covers(ceiling[k], m) /\ ceiling[k] \in Nat \cup {NoCap}
  BY <1>1, <1>2, LimitIs, CeilingType DEF SeatInv, CeilingHolds
<1>4. m \in Nat \cup {NoCap}
  BY LimitType DEF TypeInv, TypeOK, TenancyTypeOK
<1>5. m = NoCap \/ req[r].seen < m
  BY LimitIs DEF WithinLimit
<1> HIDE DEF m
<1> QED BY <1>1, <1>3, <1>4, <1>5, NoCapAssumption DEF Covers, Seats!Below

LEMMA InviteStands ==
  ASSUME TypeInv, TypeInv', SeatInv, Next, NEW r \in Requests, TenantUserStep(r)
  PROVE  Seated(req[r])' /\ Joins(r)
<1>1. UserMove(r)
  BY TenantUserMoves
<1>2. CASE req'[r].op # "inviteUser"
  <2>1. req'[r].op # "register"
    BY <1>1 DEF UserMove, Moves, UserOps
  <2> QED BY <1>2, <2>1, StandsElsewhere
<1>3. CASE req'[r].op = "inviteUser"
  <2>0. req[r].op = "inviteUser" /\ req[r].pc \in InvitePcs
    BY <1>1, <1>3, ReqFacts DEF UserMove, RequestFits
  <2> DEFINE k == req[r].tenant
             Stands(q) ==
               \/ q.pc \in {"send", "upsert", "undoInvitee"}
               \/ q.pc \in {"count", "subscription"} /\ q.user = 0
               \/ q.pc = "limit" /\ q.user = 0 /\ q.price \in subscriptions[k].held \cup {0}
               \/ q.pc = "invite" /\ (q.user = 0 => Seats!Below(q.seen, ceiling[k]))
             Fine == Seated(req[r])' /\ Joins(r)
  <2>1. ASSUME NEW q, req' = [req EXCEPT ![r] = q], q.tenant = k, Stands(q) PROVE Fine
    <3>1. req'[r] = q
      BY <2>1, ReqFacts
    <3>2. subscriptions' = subscriptions /\ ceiling' = ceiling
      BY TenantUserStepTenants, CeilingStays DEF SeatInv
    <3> QED BY <2>0, <2>1, <3>1, <3>2 DEF Seated, Joins
  <2>2. ~Finish(r)
    BY <1>3, ReqFacts DEF Finish, IdleRequest
  <2>3. ASSUME NEW pc, Goto(r, pc),
               \/ pc = "count" /\ req[r].user = 0
               \/ pc = "undoInvitee"
               \/ pc = "invite" /\ (req[r].user = 0 => Seats!Below(req[r].seen, ceiling[k]))
        PROVE  Fine
    <3> DEFINE q == [req[r] EXCEPT !.pc = pc]
    <3>1. q.pc = pc /\ q.tenant = k /\ q.user = req[r].user /\ q.seen = req[r].seen
      BY ReqFacts DEF Request
    <3>2. req' = [req EXCEPT ![r] = q]
      BY <2>3 DEF Goto
    <3> HIDE DEF q, Fine
    <3> QED BY <2>1, <2>3, <3>1, <3>2
  <2>4. CASE InviteReadTenant(r)
    <3>1. Goto(r, IF req[r].user = 0 THEN "count" ELSE "invite")
      BY <2>2, <2>4 DEF InviteReadTenant
    <3> QED BY <2>3, <3>1
  <2>5. CASE AssertWithinUserLimit(r)
    BY <2>2, <2>3, <2>5, WithinCeiling DEF AssertWithinUserLimit
  <2>6. CASE InviteCount(r)
    <3> DEFINE q == [req[r] EXCEPT !.pc = "subscription", !.seen = countByTenantId(req[r].tenant)]
    <3>1. req' = [req EXCEPT ![r] = q] /\ req[r].pc = "count"
      BY <2>6 DEF InviteCount, At
    <3>2. q.tenant = k /\ q.pc = "subscription" /\ q.user = req[r].user
      BY ReqFacts DEF Request
    <3> HIDE DEF q
    <3>3. req[r].user = 0
      BY <3>1 DEF SeatInv, Seated
    <3> QED BY <2>1, <3>1, <3>2, <3>3
  <2>7. CASE ReadSubscription(r)
    <3> DEFINE sub == subscriptions[k].row
               c == IF HasActiveSubscription(sub) THEN sub.price ELSE 0
               q == [req[r] EXCEPT !.pc = "limit", !.price = c]
    <3>1. req' = [req EXCEPT ![r] = q] /\ req[r].pc = "subscription"
      BY <2>7 DEF ReadSubscription, At
    <3>2. c \in subscriptions[k].held \cup {0} /\ req[r].user = 0
      BY <3>1, InvitesHere DEF InvitePcs, SeatInv, CeilingHolds, Seated
    <3> HIDE DEF c
    <3>3. q.tenant = k /\ q.pc = "limit" /\ q.user = req[r].user /\ q.price = c
      BY ReqFacts DEF Request
    <3> HIDE DEF q
    <3> QED BY <2>1, <3>1, <3>2, <3>3
  <2>8. CASE InviteInTransaction(r) \/ UpsertInvite(r)
    <3> DEFINE q == [req[r] EXCEPT !.pc = "send", !.token = Len(issued) + 1]
    <3>1. Goto(r, "undoInvitee") \/ req' = [req EXCEPT ![r] = q]
      BY <2>2, <2>8 DEF InviteInTransaction, UpsertInvite
    <3>2. q.tenant = k /\ q.pc = "send"
      BY ReqFacts DEF Request
    <3> HIDE DEF q
    <3> QED BY <2>1, <2>3, <3>1, <3>2
  <2>9. CASE InviteWriteUser(r)
    <3> DEFINE q == [req[r] EXCEPT !.pc = "upsert", !.user = InviteeCreated(r),
                                   !.on = req[r].user = 0]
    <3>1. req' = [req EXCEPT ![r] = q]
      BY <2>2, <2>9 DEF InviteWriteUser
    <3>2. q.tenant = k /\ q.pc = "upsert"
      BY ReqFacts DEF Request
    <3> HIDE DEF q
    <3> QED BY <2>1, <3>1, <3>2
  <2>10. ~(UndoInvitee(r) \/ SendInvite(r))
    BY <2>2 DEF UndoInvitee, SendInvite
  <2>11. ~(\/ AcceptFindAccount(r) \/ Activate(r) \/ DropInvite(r) \/ RemoveUser(r)
           \/ DropInvitesOf(r) \/ WriteUser(r))
    BY <2>0 DEF AcceptFindAccount, Activate, DropInvite, RemoveUser, DropInvitesOf, WriteUser,
       At, InvitePcs
  <2> QED BY <2>4, <2>5, <2>6, <2>7, <2>8, <2>9, <2>10, <2>11 DEF TenantUserStep
<1> QED BY <1>2, <1>3

LEMMA InvitedJoinHere ==
  ASSUME TypeInv, SeatInv, NEW r \in Requests, TenantUserStep(r), NEW p \in Requests,
         req[p].pc = "founder"
  PROVE  SameOwner /\ NobodyJoins(req[p].tenant)
<1>1. CASE DOMAIN users' = DOMAIN users /\ SameOwner
  BY <1>1 DEF NobodyJoins
<1>2. CASE users' = users
  BY <1>1, <1>2, UsersUntouched
<1>3. CASE InviteInTransaction(r) \/ InviteWriteUser(r)
  <2>1. At(r, "invite")
        /\ (users' = users \/ \E role \in {"admin", "member"} : users' = InvitedUsers(r, role))
    BY <1>3, RolesOfScenario DEF InviteInTransaction, InviteWriteUser
  <2>2. req[r].op = "inviteUser"
    BY <2>1, ReqFacts DEF At, RequestFits, InvitePcs
  <2>3. req[r].tenant # req[p].tenant
    BY <2>2 DEF SeatInv, Seated
  <2>4. ASSUME NEW role \in {"admin", "member"}, users' = InvitedUsers(r, role)
        PROVE  SameOwner /\ NobodyJoins(req[p].tenant)
    <3>1. SameOwner
          /\ \A u \in DOMAIN users' \ DOMAIN users :
               users'[u] = Invitee(req[r].tenant, req[r].email, role)
      BY <2>1, <2>4, InvitedUsersFrame
    <3> QED BY <2>3, <3>1 DEF NobodyJoins, Invitee
  <2> QED BY <1>2, <2>1, <2>4
<1>4. CASE WriteUser(r) \/ Activate(r)
  BY <1>1, <1>4, RowChanged, Activation
<1>5. CASE UndoInvitee(r) \/ RemoveUser(r)
  BY <1>1, <1>2, <1>5, UserTakenAway DEF UndoInvitee, RemoveUser
<1>6. CASE InviteReadTenant(r) \/ InviteCount(r) \/ ReadSubscription(r) \/ AssertWithinUserLimit(r)
  BY <1>2, <1>6 DEF InviteReadTenant, InviteCount, ReadSubscription, AssertWithinUserLimit
<1>7. CASE UpsertInvite(r) \/ SendInvite(r) \/ AcceptFindAccount(r) \/ DropInvite(r) \/ DropInvitesOf(r)
  BY <1>2, <1>7 DEF UpsertInvite, SendInvite, AcceptFindAccount, DropInvite, DropInvitesOf
<1> QED BY <1>3, <1>4, <1>5, <1>6, <1>7 DEF TenantUserStep

LEMMA OtherSeats ==
  ASSUME TypeInv, TypeInv', NEW r \in Requests, SameOwner, DOMAIN users' = DOMAIN users,
         \A p \in Requests \ {r} : req'[p] = req[p],
         req'[r] = req[r] \/ req'[r].op \notin {"register", "inviteUser"}
  PROVE  SeatsNext
BY StandsElsewhere DEF SeatsNext, NobodyJoins

LEMMA UsersStay ==
  ASSUME TypeInv, NEW r \in Requests,
         \/ DirectoryStep(r) \/ CatalogStep(r) \/ CreatePlan(r) \/ Crash(r)
         \/ (\E u \in DOMAIN users : UpdateCurrentTenant(r, u)) \/ Environment
  PROVE  SameOwner /\ SameFate /\ DOMAIN users' = DOMAIN users
<1>1. CASE users' = users
  BY <1>1, UsersUntouched
<1>2. CASE DirectoryStep(r) \/ CreatePlan(r) \/ Crash(r) \/ \E u \in DOMAIN users : UpdateCurrentTenant(r, u)
  BY <1>1, <1>2 DEF DirectoryStep, UpdateTenant, SoftDeleteTenant, CreatePlan, Crash, UpdateCurrentTenant
<1>3. CASE CatalogStep(r)
  BY <1>1, <1>3, CatalogStepRows
<1>4. ASSUME NEW u \in DOMAIN users, users' = [users EXCEPT ![u].link = "expired"]
      PROVE  SameOwner /\ SameFate /\ DOMAIN users' = DOMAIN users
  BY <1>4, RowFacts DEF SameOwner, SameFate, User
<1>5. CASE Environment
  BY <1>1, <1>4, <1>5 DEF Environment, ChangeSubscription, PurgeTenant, ExpireLink,
     ExpireInvite, PurgeInvite
<1> QED BY <1>2, <1>3, <1>5

\* The requests of those steps are not invitations.
LEMMA ElsewhereMoves ==
  ASSUME TypeInv, NEW r \in Requests,
         \/ DirectoryStep(r) \/ CatalogStep(r) \/ CreatePlan(r) \/ Crash(r)
         \/ (\E u \in DOMAIN users : UpdateCurrentTenant(r, u)) \/ Environment
  PROVE  /\ \A p \in Requests \ {r} : req'[p] = req[p]
         /\ req'[r] = req[r] \/ req'[r].op \notin {"register", "inviteUser"}
<1>1. CASE DirectoryStep(r)
  BY <1>1, DirectoryMoves DEF Moves, PlatformOps, IdleRequest
<1>2. CASE CatalogStep(r)
  BY <1>2, CatalogMoves DEF Moves, PlanOps
<1>3. CASE CreatePlan(r)
  <2> DEFINE q == [IdleRequest EXCEPT !.op = "create", !.pc = "price", !.plan = Len(catalog) + 1]
  <2>1. req[r] = IdleRequest /\ req'[r] = q /\ \A p \in Requests \ {r} : req'[p] = req[p]
    BY <1>3, BeginMoves DEF CreatePlan
  <2>2. q.op = "create" /\ req[r].op = "none"
    BY <2>1 DEF IdleRequest
  <2> HIDE DEF q
  <2> QED BY <2>1, <2>2
<1>4. CASE Crash(r)
  BY <1>4, ReqFacts DEF Crash, Finish, IdleRequest
<1>5. CASE \E u \in DOMAIN users : UpdateCurrentTenant(r, u)
  BY <1>5 DEF UpdateCurrentTenant
<1>6. CASE Environment
  BY <1>6 DEF Environment, ChangeSubscription, PurgeTenant, ExpireLink, ExpireInvite, PurgeInvite
<1> QED BY <1>1, <1>2, <1>3, <1>4, <1>5, <1>6

LEMMA ElsewhereWasNoInvitation ==
  ASSUME TypeInv, NEW r \in Requests,
         \/ DirectoryStep(r) \/ CatalogStep(r) \/ CreatePlan(r)
         \/ (\E u \in DOMAIN users : UpdateCurrentTenant(r, u)) \/ Environment
  PROVE  req'[r] = req[r] \/ req[r].op # "inviteUser"
<1>1. DirectoryStep(r) \/ CatalogStep(r) => req[r].op # "inviteUser"
  BY DirectoryMoves, CatalogMoves DEF Moves, PlatformOps, PlanOps
<1>2. CreatePlan(r) => req[r].op # "inviteUser"
  BY BeginMoves DEF CreatePlan, IdleRequest
<1>3. (\E u \in DOMAIN users : UpdateCurrentTenant(r, u)) \/ Environment => req' = req
  BY DEF UpdateCurrentTenant, Environment, ChangeSubscription, PurgeTenant, ExpireLink,
     ExpireInvite, PurgeInvite
<1> QED BY <1>1, <1>2, <1>3

LEMMA SeatStep ==
  ASSUME TypeInv, RegistrationInv, SeatInv, [Next]_tenancyVars PROVE SeatInv'
<1>1. TypeInv'
  BY TypeStep
<1>2. ASSUME NEW r \in Requests, SameOwner, DOMAIN users' = DOMAIN users,
             \A p \in Requests \ {r} : req'[p] = req[p], Seated(req[r])', Joins(r)
      PROVE  SeatsNext
  BY <1>2 DEF SeatsNext, NobodyJoins
<1>3. ASSUME NEW r \in Requests, Arrival(r) PROVE SeatsNext
  <2>1. CASE Reading(r) /\ users' = users
    BY <1>1, <1>2, <2>1, ReadingStarts, ReadingJoins, UsersUntouched
  <2> QED BY <1>1, <1>3, <2>1, ArrivalReads, UsersStay, ElsewhereMoves, OtherSeats
<1>4. ASSUME NEW r \in Requests, TenantUserStep(r), Next PROVE SeatsNext
  <2>1. Seated(req[r])' /\ Joins(r) /\ SameOwner
    BY <1>1, <1>4, InviteStands, TenantUserRows, UserTakenAway
  <2>2. \A p \in Requests \ {r} : req'[p] = req[p]
    BY <1>4, TenantUserMoves DEF UserMove, Moves
  <2> QED BY <1>4, <2>1, <2>2, InvitedJoinHere DEF SeatsNext
<1>5. ASSUME NEW r \in Requests, Progress(r) \/ Crash(r), Next PROVE SeatsNext
  BY <1>1, <1>4, <1>5, RegistrationSeats, UsersStay, ElsewhereMoves, OtherSeats DEF Progress
<1>6. ASSUME Environment PROVE SeatsNext
  <2>1. PICK r \in Requests : TRUE
    BY TenancyRequestsAssumption
  <2> QED BY <1>1, <1>6, <2>1, UsersStay, ElsewhereMoves, OtherSeats
<1>7. CASE Next
  <2>1. SeatsNext
    BY <1>3, <1>5, <1>6, <1>7 DEF Next
  <2> QED BY <1>7, <2>1, NextKeepsSeats
<1>8. CASE UNCHANGED tenancyVars
  <2>1. UNCHANGED <<users, catalog, subscriptions, ceiling, req>>
    BY <1>8 DEF tenancyVars
  <2>2. \A p : UserLimit(p)' = UserLimit(p)
    BY <2>1, LimitIs
  <2>3. CeilingHolds'
    BY <2>1, <2>2 DEF SeatInv, CeilingHolds
  <2>4. \A r \in Requests : Seated(req[r])'
    BY <2>1 DEF SeatInv, Seated
  <2> QED BY <2>3, <2>4 DEF SeatInv
<1> QED BY <1>7, <1>8

LEMMA SeatInit == ASSUME TenancyInit PROVE SeatInv
<1>1. \A r \in Requests : req[r] = IdleRequest
  BY DEF TenancyInit
<1>2. FreeLimits.maxUsers \in Nat \ {0}
  BY FreeLimitsAssumption DEF Dimensions
<1>3. ASSUME NEW k \in 1 .. MaxTenants
      PROVE  /\ ceiling[k] = FreeLimits.maxUsers /\ subscriptions[k].held = {}
             /\ ~HasActiveSubscription(subscriptions[k].row)
  BY DEF TenancyInit, HasActiveSubscription, NoSubscription
<1>4. CeilingHolds
  BY <1>2, <1>3, LimitIs, FreeLimit DEF CeilingHolds, Covers
<1> QED BY <1>1, <1>4 DEF SeatInv, Seated, IdleRequest

-----------------------------------------------------------------------------
(* The steps of Quota. *)

SeenBy(r) == IF CountedFor(r) = 0 THEN 0 ELSE req[r].seen

LEMMA CountedType ==
  ASSUME TypeInv, NEW r \in Requests
  PROVE  /\ CountedFor(r) \in 1 .. MaxTenants \cup {0} /\ SeenBy(r) \in Nat
         /\ CountedFor(r) # 0 => req[r].op = "inviteUser" /\ CountedFor(r) = req[r].tenant
<1>1. req[r] \in Request /\ RequestFits(req[r])
  BY ReqFacts
<1>2. req[r].op = "inviteUser" => req[r].tenant \in 1 .. MaxTenants
  BY <1>1, InvitesHere DEF RequestFits
<1> QED BY <1>1, <1>2 DEF CountedFor, SeenBy, Request

\* A step that neither counts seats nor takes nor gives one back may raise the ceiling.
LEMMA SeatsRaise ==
  ASSUME TypeInv, SeatInv, Next,
         \A k \in 1 .. MaxTenants : countByTenantId(k)' = countByTenantId(k),
         \A p \in Requests : CountedFor(p)' = CountedFor(p) /\ SeenBy(p)' = SeenBy(p)
  PROVE  Seats!Next
<1>1. ceiling' \in [1 .. MaxTenants -> Seats!Caps]
  <2>1. TypeInv'
    BY TypeStep
  <2>2. \A k \in 1 .. MaxTenants : ceiling'[k] \in (Nat \ {0}) \cup {NoCap}
    BY CeilingRises DEF SeatInv
  <2>3. ceiling' \in [1 .. MaxTenants -> Nat \cup {NoCap}]
    BY <2>1 DEF TypeInv, TypeOK, TenancyTypeOK
  <2> QED BY <2>2, <2>3 DEF Seats!Caps
<1>2. ASSUME NEW k \in 1 .. MaxTenants
      PROVE  IF ceiling[k] = NoCap THEN ceiling'[k] = NoCap
             ELSE ceiling'[k] = NoCap \/ ceiling[k] <= ceiling'[k]
  <2>1. Covers(ceiling'[k], ceiling[k])
    BY CeilingRises DEF SeatInv
  <2> QED BY <2>1 DEF Covers
<1>3. [k \in 1 .. MaxTenants |-> countByTenantId(k)]' = [k \in 1 .. MaxTenants |-> countByTenantId(k)]
  OBVIOUS
<1>4. [r \in Requests |-> CountedFor(r)]' = [r \in Requests |-> CountedFor(r)]
  OBVIOUS
<1>5. [r \in Requests |-> IF CountedFor(r) = 0 THEN 0 ELSE req[r].seen]'
        = [r \in Requests |-> IF CountedFor(r) = 0 THEN 0 ELSE req[r].seen]
  BY DEF SeenBy
<1>6. Seats!Raise
  BY <1>1, <1>2, <1>3, <1>4, <1>5 DEF Seats!Raise
<1> QED BY <1>6 DEF Seats!Next

LEMMA SeatsSame ==
  ASSUME SameOwner, SameFate, DOMAIN users' = DOMAIN users, NEW k
  PROVE  countByTenantId(k)' = countByTenantId(k)
<1>1. SeatsOf(k)' = SeatsOf(k)
  BY DEF SeatsOf, SameOwner, SameFate
<1> QED BY <1>1 DEF SeatsOf, countByTenantId

LEMMA SeatAdded ==
  ASSUME TypeInv, SameOwner, SameFate, NEW n, n \notin DOMAIN users,
         DOMAIN users' = DOMAIN users \cup {n}, users'[n].fate = "stored", NEW k
  PROVE  countByTenantId(k)' = countByTenantId(k) + IF users'[n].tenant = k THEN 1 ELSE 0
<1>1. CASE users'[n].tenant = k
  <2>1. SeatsOf(k)' = SeatsOf(k) \cup {n} /\ n \notin SeatsOf(k)
    BY <1>1 DEF SeatsOf, SameOwner, SameFate
  <2>2. Cardinality(SeatsOf(k) \cup {n}) = Cardinality(SeatsOf(k)) + 1
    BY <2>1, SeatsAreFinite, FS_AddElement
  <2> QED BY <1>1, <2>1, <2>2 DEF SeatsOf, countByTenantId
<1>2. CASE users'[n].tenant # k
  <2>1. SeatsOf(k)' = SeatsOf(k)
    BY <1>2 DEF SeatsOf, SameOwner, SameFate
  <2>2. countByTenantId(k)' = countByTenantId(k)
    BY <2>1 DEF SeatsOf, countByTenantId
  <2> QED BY <1>2, <2>2, SeatsAreFinite
<1> QED BY <1>1, <1>2

LEMMA SeatRemoved ==
  ASSUME TypeInv, NEW u, NEW fate, fate # "stored", users' = deleteByIdAndTenantId(u, fate), NEW k
  PROVE  /\ ~StoredUser(u) \/ users[u].tenant # k => countByTenantId(k)' = countByTenantId(k)
         /\ StoredUser(u) /\ users[u].tenant = k =>
              countByTenantId(k) > 0 /\ countByTenantId(k)' = countByTenantId(k) - 1
<1>1. /\ SameOwner /\ DOMAIN users' = DOMAIN users
      /\ \A x \in DOMAIN users :
           users'[x].fate = IF x = u /\ users[x].fate = "stored" THEN fate ELSE users[x].fate
  BY UserTakenAway
<1>2. SeatsOf(k)' = SeatsOf(k) \ {u}
  BY <1>1 DEF SeatsOf, SameOwner
<1>3. CASE ~StoredUser(u) \/ users[u].tenant # k
  <2>1. u \notin SeatsOf(k)
    BY <1>3 DEF SeatsOf, StoredUser
  <2>2. SeatsOf(k)' = SeatsOf(k)
    BY <1>2, <2>1
  <2> QED BY <1>3, <2>2 DEF SeatsOf, countByTenantId
<1>4. CASE StoredUser(u) /\ users[u].tenant = k
  <2>1. u \in SeatsOf(k)
    BY <1>4 DEF SeatsOf, StoredUser
  <2>2. Cardinality(SeatsOf(k) \ {u}) = Cardinality(SeatsOf(k)) - 1
    BY <2>1, SeatsAreFinite, FS_RemoveElement
  <2>3. Cardinality(SeatsOf(k) \ {u}) \in Nat
    BY SeatsAreFinite, FS_RemoveElement, FS_CardinalityType
  <2>4. Cardinality(SeatsOf(k)) \in Nat
    BY SeatsAreFinite, FS_CardinalityType
  <2>5. Cardinality(SeatsOf(k)) > 0
    BY <2>2, <2>3, <2>4
  <2> QED BY <1>2, <1>4, <2>2, <2>5 DEF SeatsOf, countByTenantId
<1> QED BY <1>3, <1>4

\* What a step leaves of the counts of requests other than one.
OthersCount(r) ==
  \A p \in Requests \ {r} : CountedFor(p)' = CountedFor(p) /\ SeenBy(p)' = SeenBy(p)

LEMMA OthersCountOn ==
  ASSUME NEW r \in Requests, \A p \in Requests \ {r} : req'[p] = req[p]
  PROVE  OthersCount(r)
BY DEF OthersCount, CountedFor, SeenBy

\* The state of the Quota: seats taken, and who counted how many.
Used == [k \in 1 .. MaxTenants |-> countByTenantId(k)]
Owner == [p \in Requests |-> CountedFor(p)]
Seen == [p \in Requests |-> SeenBy(p)]

LEMMA UsedPut ==
  ASSUME NEW k \in 1 .. MaxTenants, NEW v, countByTenantId(k)' = v,
         \A n \in 1 .. MaxTenants : n # k => countByTenantId(n)' = countByTenantId(n)
  PROVE  Used' = [Used EXCEPT ![k] = v] /\ Used[k] = countByTenantId(k)
BY DEF Used

LEMMA UsedSame ==
  ASSUME \A k \in 1 .. MaxTenants : countByTenantId(k)' = countByTenantId(k)
  PROVE  Used' = Used
BY DEF Used

LEMMA OwnerPut ==
  ASSUME NEW r \in Requests, OthersCount(r)
  PROVE  /\ Owner' = [Owner EXCEPT ![r] = CountedFor(r)'] /\ Owner[r] = CountedFor(r)
         /\ Seen' = [Seen EXCEPT ![r] = SeenBy(r)'] /\ Seen[r] = SeenBy(r)
BY DEF Owner, Seen, OthersCount

LEMMA SeatsCount ==
  ASSUME TypeInv, SeatInv, NEW r \in Requests, NEW k \in 1 .. MaxTenants, OthersCount(r),
         CountedFor(r) = 0, CountedFor(r)' = k, SeenBy(r)' = countByTenantId(k),
         ceiling' = ceiling, users' = users
  PROVE  Seats!Next
<1>1. Used' = Used /\ Used[k] = countByTenantId(k)
  BY UsedSame DEF countByTenantId, Used
<1>2. Owner[r] = 0 /\ Owner' = [Owner EXCEPT ![r] = k] /\ Seen' = [Seen EXCEPT ![r] = Used[k]]
  BY <1>1, OwnerPut
<1>3. Seats!Count(r, k)
  BY <1>1, <1>2 DEF Seats!Count, Used, Owner, Seen, SeenBy
<1> QED BY <1>3 DEF Seats!Next

LEMMA SeatsTake ==
  ASSUME TypeInv, NEW r \in Requests, NEW k \in 1 .. MaxTenants, OthersCount(r),
         CountedFor(r) = k, CountedFor(r)' = 0, Seats!Below(req[r].seen, ceiling[k]),
         ceiling' = ceiling, countByTenantId(k)' = countByTenantId(k) + 1,
         \A n \in 1 .. MaxTenants : n # k => countByTenantId(n)' = countByTenantId(n)
  PROVE  Seats!Next
<1>1. k # 0
  OBVIOUS
<1>2. Owner[r] = k /\ Seen[r] = req[r].seen /\ SeenBy(r)' = 0
  BY <1>1, OwnerPut DEF SeenBy
<1>3. Used' = [Used EXCEPT ![Owner[r]] = Used[Owner[r]] + 1]
  BY <1>2, UsedPut
<1>4. Owner' = [Owner EXCEPT ![r] = 0] /\ Seen' = [Seen EXCEPT ![r] = 0]
  BY <1>2, OwnerPut
<1>5. Owner[r] # 0 /\ Seats!Below(Seen[r], ceiling[Owner[r]])
  BY <1>1, <1>2
<1>6. Seats!Take(r)
  BY <1>3, <1>4, <1>5 DEF Seats!Take, Used, Owner, Seen, SeenBy
<1> QED BY <1>6 DEF Seats!Next

LEMMA SeatsGiveUp ==
  ASSUME TypeInv, SeatInv, NEW r \in Requests, OthersCount(r), CountedFor(r) # 0,
         CountedFor(r)' = 0, ceiling' = ceiling, users' = users
  PROVE  Seats!Next
<1>1. Used' = Used
  BY UsedSame DEF countByTenantId
<1>2. Owner[r] # 0 /\ Owner' = [Owner EXCEPT ![r] = 0] /\ Seen' = [Seen EXCEPT ![r] = 0]
  BY OwnerPut DEF SeenBy
<1>3. Seats!GiveUp(r)
  BY <1>1, <1>2 DEF Seats!GiveUp, Used, Owner, Seen, SeenBy
<1> QED BY <1>3 DEF Seats!Next

\* The seats of one organization change, and no request had counted or counts them.
SeatsOnly(r) == OthersCount(r) /\ CountedFor(r) = 0 /\ CountedFor(r)' = 0

LEMMA SeatsOnlyOwners ==
  ASSUME NEW r \in Requests, SeatsOnly(r)
  PROVE  /\ Owner' = Owner /\ Seen' = Seen
         /\ \A p \in Requests : CountedFor(p)' = CountedFor(p) /\ SeenBy(p)' = SeenBy(p)
<1>1. \A p \in Requests : CountedFor(p)' = CountedFor(p) /\ SeenBy(p)' = SeenBy(p)
  BY DEF SeatsOnly, OthersCount, SeenBy
<1> QED BY <1>1 DEF Owner, Seen

LEMMA SeatsRelease ==
  ASSUME TypeInv, NEW r \in Requests, SeatsOnly(r), ceiling' = ceiling,
         NEW u, StoredUser(u), NEW fate, fate # "stored", users' = deleteByIdAndTenantId(u, fate)
  PROVE  Seats!Next
<1>1. PICK k \in 1 .. MaxTenants : k = users[u].tenant
  BY PriceRead DEF StoredUser, TypeInv, RowsFit
<1>2. /\ \A n \in 1 .. MaxTenants : n # k => countByTenantId(n)' = countByTenantId(n)
      /\ countByTenantId(k) > 0 /\ countByTenantId(k)' = countByTenantId(k) - 1
  BY <1>1, SeatRemoved
<1>3. Used' = [Used EXCEPT ![k] = Used[k] - 1] /\ Used[k] > 0
  BY <1>1, <1>2, UsedPut
<1>4. Seats!Release(k)
  BY <1>1, <1>3, SeatsOnlyOwners DEF Seats!Release, Used, Owner, Seen, SeenBy
<1> QED BY <1>1, <1>4 DEF Seats!Next

LEMMA SeatsFound ==
  ASSUME TypeInv, NEW r \in Requests, SeatsOnly(r), ceiling' = ceiling,
         NEW k \in 1 .. MaxTenants, countByTenantId(k) = 0,
         \A p \in Requests : CountedFor(p) # k,
         \A n \in 1 .. MaxTenants :
           countByTenantId(n)' = countByTenantId(n) + IF k = n THEN 1 ELSE 0
  PROVE  Seats!Next
<1>1. \A n : countByTenantId(n) \in Nat
  BY SeatsAreFinite
<1>2. /\ countByTenantId(k)' = 1
      /\ \A n \in 1 .. MaxTenants : n # k => countByTenantId(n)' = countByTenantId(n)
  BY <1>1
<1>3. Used' = [Used EXCEPT ![k] = 1] /\ Used[k] = 0
  BY <1>2, UsedPut
<1>4. \A p \in Requests : Owner[p] # k
  BY DEF Owner
<1>5. Seats!Found(k)
  BY <1>3, <1>4, SeatsOnlyOwners DEF Seats!Found, Used, Owner, Seen, SeenBy
<1> QED BY <1>5 DEF Seats!Next

-----------------------------------------------------------------------------
(* Every step is one of Quota. *)

LEMMA SeatsRest ==
  ASSUME TypeInv, SeatInv, Next, NEW r \in Requests, \A p \in Requests \ {r} : req'[p] = req[p],
         CountedFor(r)' = CountedFor(r), SeenBy(r)' = SeenBy(r),
         SameOwner, SameFate, DOMAIN users' = DOMAIN users
  PROVE  Seats!Next
<1>1. \A k \in 1 .. MaxTenants : countByTenantId(k)' = countByTenantId(k)
  BY SeatsSame
<1>2. \A p \in Requests : CountedFor(p)' = CountedFor(p) /\ SeenBy(p)' = SeenBy(p)
  BY OthersCountOn DEF OthersCount
<1> QED BY <1>1, <1>2, SeatsRaise

\* A request that is not an invitation has counted nothing.
LEMMA CountsNothing ==
  ASSUME NEW r \in Requests
  PROVE  /\ req[r].op # "inviteUser" => CountedFor(r) = 0 /\ SeenBy(r) = 0
         /\ req'[r].op # "inviteUser" => CountedFor(r)' = 0 /\ SeenBy(r)' = 0
BY DEF CountedFor, SeenBy

LEMMA SeatsElsewhere ==
  ASSUME TypeInv, SeatInv, Next, NEW r \in Requests,
         \/ DirectoryStep(r) \/ CatalogStep(r) \/ CreatePlan(r)
         \/ (\E u \in DOMAIN users : UpdateCurrentTenant(r, u)) \/ Environment
  PROVE  Seats!Next
<1>1. SameOwner /\ SameFate /\ DOMAIN users' = DOMAIN users
  BY UsersStay
<1>2. /\ \A p \in Requests \ {r} : req'[p] = req[p]
      /\ req'[r] = req[r] \/ (req'[r].op # "inviteUser" /\ req[r].op # "inviteUser")
  BY ElsewhereMoves, ElsewhereWasNoInvitation
<1>3. CountedFor(r)' = CountedFor(r) /\ SeenBy(r)' = SeenBy(r)
  BY <1>2, CountsNothing DEF CountedFor, SeenBy
<1> QED BY <1>1, <1>2, <1>3, SeatsRest

LEMMA SeatsCrash ==
  ASSUME TypeInv, SeatInv, Next, NEW r \in Requests, Crash(r) PROVE Seats!Next
<1>1. /\ UNCHANGED <<users, catalog, subscriptions>> /\ req'[r] = IdleRequest
      /\ \A p \in Requests \ {r} : req'[p] = req[p]
  BY ReqFacts DEF Crash, Finish
<1>2. ceiling' = ceiling
  BY <1>1, CeilingStays DEF SeatInv
<1>3. CountedFor(r)' = 0 /\ SeenBy(r)' = 0
  BY <1>1, CountsNothing DEF IdleRequest
<1>4. CASE CountedFor(r) = 0
  <2>1. SeenBy(r) = 0
    BY <1>4 DEF SeenBy
  <2> QED BY <1>1, <1>3, <1>4, <2>1, UsersUntouched, SeatsRest
<1>5. CASE CountedFor(r) # 0
  BY <1>1, <1>2, <1>3, <1>5, OthersCountOn, SeatsGiveUp
<1> QED BY <1>4, <1>5

LEMMA SeatsReading ==
  ASSUME TypeInv, SeatInv, Next, NEW r \in Requests, Reading(r), users' = users
  PROVE  Seats!Next
<1>1. /\ req[r] = IdleRequest /\ req'[r].pc \in FirstPcs
      /\ \A p \in Requests \ {r} : req'[p] = req[p]
  BY ReadingStarts
<1>2. CountedFor(r) = 0 /\ CountedFor(r)' = 0
  BY <1>1 DEF CountedFor, IdleRequest, FirstPcs
<1> QED BY <1>1, <1>2, UsersUntouched, SeatsRest DEF SeenBy

\* The first seat of an organization is its founder's.
LEMMA SeatsFounder ==
  ASSUME TypeInv, NEW r \in Requests, SeatsOnly(r), ceiling' = ceiling,
         NEW k \in 1 .. MaxTenants, NEW e \in Emails, users' = Append(users, Founder(k, e)),
         \A u \in DOMAIN users : users[u].tenant # k,
         \A p \in Requests : req[p].op = "inviteUser" => req[p].tenant # k
  PROVE  Seats!Next
<1> DEFINE n == Len(users) + 1
<1>1. /\ Founder(k, e) \in User /\ Founder(k, e).tenant = k /\ Founder(k, e).fate = "stored"
  BY TenantsAssumption, FounderType
<1>2. /\ SameOwner /\ SameFate /\ DOMAIN users' = DOMAIN users \cup {n} /\ n \notin DOMAIN users
      /\ users'[n].tenant = k /\ users'[n].fate = "stored"
  BY <1>1, UserAdded
<1> HIDE DEF n
<1>3. PICK i : i = n
  OBVIOUS
<1>4. \A m \in 1 .. MaxTenants :
        countByTenantId(m)' = countByTenantId(m) + IF k = m THEN 1 ELSE 0
  <2>1. /\ DOMAIN users' = DOMAIN users \cup {i} /\ i \notin DOMAIN users
        /\ users'[i].tenant = k /\ users'[i].fate = "stored"
    BY <1>2, <1>3
  <2> QED BY <1>2, <2>1, SeatAdded
<1>5. countByTenantId(k) = 0
  <2>1. SeatsOf(k) = {}
    BY DEF SeatsOf
  <2> QED BY <2>1, FS_EmptySet DEF SeatsOf, countByTenantId
<1>6. \A p \in Requests : CountedFor(p) # k
  BY DEF CountedFor
<1> QED BY <1>4, <1>5, <1>6, SeatsFound

LEMMA SeatsRegistration ==
  ASSUME TypeInv, SeatInv, Next, NEW r \in Requests, RegistrationStep(r)
  PROVE  Seats!Next
<1>1. /\ \A p \in Requests \ {r} : req'[p] = req[p]
      /\ req[r].op # "inviteUser" /\ req'[r].op # "inviteUser"
  BY RegistrationStepMoves DEF Moves, RegisterOps
<1>2. SeatsOnly(r)
  BY <1>1, CountsNothing, OthersCountOn DEF SeatsOnly
<1>3. UNCHANGED <<catalog, subscriptions>>
  BY DEF RegistrationStep, RegisterInTransaction, CreateTenant, CreateFounder,
     DropTenant, SendVerification, UndoRegistration, UndoTenant, MarkVerified
<1>4. ceiling' = ceiling
  BY <1>3, CeilingStays DEF SeatInv
<1>5. ASSUME SameOwner, SameFate, DOMAIN users' = DOMAIN users PROVE Seats!Next
  BY <1>1, <1>5, CountsNothing, SeatsRest
<1>6. CASE users' = users
  BY <1>5, <1>6, UsersUntouched
<1>7. CASE RegisterInTransaction(r) /\ users' # users
  <2>1. PICK k \in 1 .. MaxTenants : k = Len(tenants) + 1
    <3>1. Len(tenants) < MaxTenants /\ Len(tenants) \in Nat
      BY <1>7, RoomForTenant, RowFacts DEF RegisterInTransaction
    <3> QED BY <3>1, TenantsAssumption
  <2>2. req[r].email \in Emails /\ users' = Append(users, Founder(k, req[r].email))
    BY <1>7, <2>1, ReqFacts DEF RegisterInTransaction, At, RequestFits, RegisterPcs
  <2>3. k \notin DOMAIN tenants
    BY <2>1, RowFacts
  <2>4. \A u \in DOMAIN users : users[u].tenant # k
    BY <2>3 DEF TypeInv, RowsFit
  <2>5. \A p \in Requests : req[p].op = "inviteUser" => req[p].tenant # k
    BY <2>3, ReqFacts DEF RequestFits
  <2> QED BY <1>2, <1>4, <2>2, <2>4, <2>5, SeatsFounder
<1>8. CASE CreateFounder(r) /\ users' # users
  <2>1. req[r].pc = "founder"
    BY <1>8 DEF CreateFounder, At
  <2>2. req[r].email \in Emails /\ req[r].tenant \in DOMAIN tenants
    BY <2>1, ReqFacts DEF RequestFits, RegisterPcs
  <2>3. PICK k \in 1 .. MaxTenants : k = req[r].tenant
    BY <2>2, PriceRead
  <2>4. users' = Append(users, Founder(k, req[r].email))
    BY <1>8, <2>3 DEF CreateFounder
  <2>5. /\ \A u \in DOMAIN users : users[u].tenant # k
        /\ \A p \in Requests : req[p].op = "inviteUser" => req[p].tenant # k
    BY <2>1, <2>3 DEF SeatInv, Seated
  <2> QED BY <1>2, <1>4, <2>2, <2>4, <2>5, SeatsFounder
<1>9. CASE UndoRegistration(r)
  <2>1. PICK u : u = req[r].user
    OBVIOUS
  <2>2. users' = deleteByIdAndTenantId(u, "undone")
    BY <1>9, <2>1 DEF UndoRegistration
  <2>3. CASE StoredUser(u)
    BY <1>2, <1>4, <2>2, <2>3, SeatsRelease
  <2>4. CASE ~StoredUser(u)
    BY <1>6, <2>2, <2>4 DEF deleteByIdAndTenantId
  <2> QED BY <2>3, <2>4
<1>10. CASE SendVerification(r) \/ MarkVerified(r)
  BY <1>5, <1>10, RowChanged
<1>11. CASE CreateTenant(r) \/ DropTenant(r) \/ UndoTenant(r)
  BY <1>6, <1>11 DEF CreateTenant, DropTenant, UndoTenant
<1> QED BY <1>6, <1>7, <1>8, <1>9, <1>10, <1>11 DEF RegistrationStep

\* An invitation takes a seat of its organization, if it is of a new user.
LEMMA SeatsInvited ==
  ASSUME TypeInv, SeatInv, Next, NEW r \in Requests, At(r, "invite"),
         \A p \in Requests \ {r} : req'[p] = req[p],
         UNCHANGED <<catalog, subscriptions>>, req'[r].pc \in {"idle", "send", "upsert"},
         NEW role \in {"admin", "member"}, users' = InvitedUsers(r, role)
  PROVE  Seats!Next
<1>1. /\ req[r].op = "inviteUser" /\ req[r].pc = "invite" /\ req[r].email \in Emails
      /\ req[r].tenant \in 1 .. MaxTenants
  BY ReqFacts, InvitesHere DEF At, RequestFits, InvitePcs
<1>2. CountedFor(r)' = 0 /\ SeenBy(r)' = 0
  BY DEF CountedFor, SeenBy
<1>3. ceiling' = ceiling
  BY CeilingStays DEF SeatInv
<1>4. CASE req[r].user # 0
  <2>1. CountedFor(r) = 0 /\ SeenBy(r) = 0
    BY <1>1, <1>4 DEF CountedFor, SeenBy
  <2> QED BY <1>2, <1>4, <2>1, InvitedUsersFrame, SeatsRest
<1>5. CASE req[r].user = 0
  <2>1. PICK k \in 1 .. MaxTenants : k = req[r].tenant
    BY <1>1
  <2>2. CountedFor(r) = k
    BY <1>1, <1>5, <2>1 DEF CountedFor
  <2>3. Seats!Below(req[r].seen, ceiling[k])
    BY <1>1, <1>5, <2>1 DEF SeatInv, Seated
  <2>4. PICK n : n = InviteeCreated(r)
    OBVIOUS
  <2>5. /\ SameOwner /\ SameFate /\ n \notin DOMAIN users /\ DOMAIN users' = DOMAIN users \cup {n}
        /\ users'[n] = Invitee(k, req[r].email, role)
    BY <1>5, <2>1, <2>4, InvitedUsersFrame
  <2>6. users'[n].tenant = k /\ users'[n].fate = "stored"
    BY <2>5 DEF Invitee
  <2>7. \A m \in 1 .. MaxTenants :
          countByTenantId(m)' = countByTenantId(m) + IF k = m THEN 1 ELSE 0
    BY <2>5, <2>6, SeatAdded
  <2>8. /\ countByTenantId(k)' = countByTenantId(k) + 1
        /\ \A m \in 1 .. MaxTenants : m # k => countByTenantId(m)' = countByTenantId(m)
    <3>1. \A m : countByTenantId(m) \in Nat
      BY SeatsAreFinite
    <3> QED BY <2>7, <3>1
  <2> QED BY <1>2, <1>3, <2>2, <2>3, <2>8, OthersCountOn, SeatsTake
<1> QED BY <1>4, <1>5

\* The steps of an invitation before the user is written.
LEMMA SeatsLookedUp ==
  ASSUME TypeInv, SeatInv, Next, NEW r \in Requests,
         \/ InviteReadTenant(r) \/ InviteCount(r) \/ ReadSubscription(r) \/ AssertWithinUserLimit(r)
  PROVE  Seats!Next
<1>1. \A p \in Requests \ {r} : req'[p] = req[p]
  <2>1. TenantUserStep(r)
    BY DEF TenantUserStep
  <2> QED BY <2>1, TenantUserMoves DEF UserMove, Moves
<1>2. UNCHANGED <<users, catalog, subscriptions>>
  BY DEF InviteReadTenant, InviteCount, ReadSubscription, AssertWithinUserLimit
<1>3. ceiling' = ceiling
  BY <1>2, CeilingStays DEF SeatInv
<1>4. /\ req[r] \in Request /\ req \in [Requests -> Request]
      /\ req[r].op = "inviteUser" /\ req[r].tenant \in 1 .. MaxTenants
  <2>1. req[r].pc \in InvitePcs
    BY DEF InviteReadTenant, InviteCount, ReadSubscription, AssertWithinUserLimit, At, InvitePcs
  <2> QED BY <2>1, ReqFacts, InvitesHere DEF RequestFits
<1>5. ASSUME CountedFor(r)' = CountedFor(r), SeenBy(r)' = SeenBy(r) PROVE Seats!Next
  BY <1>1, <1>2, <1>5, UsersUntouched, SeatsRest
<1>6. ASSUME Finish(r) PROVE CountedFor(r)' = 0 /\ SeenBy(r)' = 0
  BY <1>4, <1>6 DEF Finish, IdleRequest, CountedFor, SeenBy
<1>7. ASSUME NEW pc, Goto(r, pc)
      PROVE  /\ req'[r].pc = pc /\ req'[r].op = "inviteUser" /\ req'[r].user = req[r].user
             /\ req'[r].tenant = req[r].tenant /\ req'[r].seen = req[r].seen
  BY <1>4, <1>7 DEF Goto, Request
<1>8. CASE InviteReadTenant(r)
  <2>1. CountedFor(r) = 0 /\ SeenBy(r) = 0
    BY <1>8 DEF InviteReadTenant, At, CountedFor, SeenBy
  <2>2. Finish(r) \/ Goto(r, IF req[r].user = 0 THEN "count" ELSE "invite")
    BY <1>8 DEF InviteReadTenant
  <2>3. CountedFor(r)' = 0 /\ SeenBy(r)' = 0
    BY <1>6, <1>7, <2>2 DEF CountedFor, SeenBy
  <2> QED BY <1>5, <2>1, <2>3
<1>9. CASE InviteCount(r)
  <2> DEFINE q == [req[r] EXCEPT !.pc = "subscription", !.seen = countByTenantId(req[r].tenant)]
  <2>1. q.pc = "subscription" /\ q.op = "inviteUser" /\ q.tenant = req[r].tenant
        /\ q.seen = countByTenantId(req[r].tenant)
    BY <1>4 DEF Request
  <2>2. req'[r] = q
    BY <1>4, <1>9 DEF InviteCount
  <2> HIDE DEF q
  <2>3. PICK k \in 1 .. MaxTenants : k = req[r].tenant
    BY <1>4
  <2>4. CountedFor(r)' = k /\ SeenBy(r)' = countByTenantId(k)
    BY <2>1, <2>2, <2>3 DEF CountedFor, SeenBy
  <2>5. CountedFor(r) = 0
    BY <1>9 DEF InviteCount, At, CountedFor
  <2> QED BY <1>1, <1>2, <1>3, <2>4, <2>5, OthersCountOn, SeatsCount
<1>10. CASE ReadSubscription(r)
  <2> DEFINE sub == subscriptions[req[r].tenant].row
             c == IF HasActiveSubscription(sub) THEN sub.price ELSE 0
             q == [req[r] EXCEPT !.pc = "limit", !.price = c]
  <2>1. req' = [req EXCEPT ![r] = q] /\ req[r].pc = "subscription"
    BY <1>10 DEF ReadSubscription, At
  <2> HIDE DEF c
  <2>2. q.pc = "limit" /\ q.op = "inviteUser" /\ q.tenant = req[r].tenant /\ q.seen = req[r].seen
    BY <1>4 DEF Request
  <2> HIDE DEF q
  <2>3. req'[r] = q
    BY <1>4, <2>1
  <2>4. CountedFor(r)' = CountedFor(r) /\ SeenBy(r)' = SeenBy(r)
    BY <1>4, <2>1, <2>2, <2>3 DEF CountedFor, SeenBy
  <2> QED BY <1>5, <2>4
<1>11. CASE AssertWithinUserLimit(r) /\ Goto(r, "invite")
  <2>1. req[r].pc = "limit" /\ req[r].user = 0
    BY <1>11 DEF AssertWithinUserLimit, At, SeatInv, Seated
  <2>2. CountedFor(r)' = CountedFor(r) /\ SeenBy(r)' = SeenBy(r)
    BY <1>4, <1>7, <1>11, <2>1 DEF CountedFor, SeenBy
  <2> QED BY <1>5, <2>2
<1>12. CASE AssertWithinUserLimit(r) /\ Finish(r)
  <2>1. CountedFor(r) # 0
    BY <1>4, <1>12 DEF AssertWithinUserLimit, At, CountedFor
  <2> QED BY <1>1, <1>2, <1>3, <1>6, <1>12, <2>1, OthersCountOn, SeatsGiveUp
<1> QED BY <1>8, <1>9, <1>10, <1>11, <1>12 DEF AssertWithinUserLimit

LEMMA SeatsOfUsers ==
  ASSUME TypeInv, SeatInv, Next, NEW r \in Requests, TenantUserStep(r)
  PROVE  Seats!Next
<1>1. \A p \in Requests \ {r} : req'[p] = req[p]
  BY TenantUserMoves DEF UserMove, Moves
<1>2. UNCHANGED <<catalog, subscriptions>>
  BY TenantUserStepTenants
<1>3. ceiling' = ceiling
  BY <1>2, CeilingStays DEF SeatInv
<1>4. req \in [Requests -> Request] /\ req[r] \in Request
  BY ReqFacts
<1>5. ASSUME Finish(r) PROVE req'[r].pc = "idle"
  BY <1>4, <1>5 DEF Finish, IdleRequest
<1>6. CASE InviteInTransaction(r) \/ InviteWriteUser(r)
  <2>1. At(r, "invite")
    BY <1>6 DEF InviteInTransaction, InviteWriteUser
  <2>2. CASE EmailRefused(r)
    <3>1. Finish(r) /\ users' = users /\ req[r].user = 0
      BY <1>6, <2>2 DEF InviteInTransaction, InviteWriteUser, EmailRefused
    <3>2. CountedFor(r) # 0 /\ CountedFor(r)' = 0
      <4>1. req[r].op = "inviteUser" /\ req[r].tenant \in 1 .. MaxTenants /\ req[r].pc = "invite"
        BY <2>1, ReqFacts, InvitesHere DEF At, RequestFits, InvitePcs
      <4> QED BY <1>5, <3>1, <4>1 DEF CountedFor
    <3> QED BY <1>1, <1>3, <3>1, <3>2, OthersCountOn, SeatsGiveUp
  <2>3. CASE ~EmailRefused(r)
    <3>1. \E role \in {"admin", "member"} : users' = InvitedUsers(r, role)
      BY <1>6, <2>3, RolesOfScenario DEF InviteInTransaction, InviteWriteUser
    <3>2. req'[r].pc \in {"send", "upsert"}
      <4> DEFINE q == [req[r] EXCEPT !.pc = "send", !.token = Len(issued) + 1]
                 p == [req[r] EXCEPT !.pc = "upsert", !.user = InviteeCreated(r),
                                     !.on = req[r].user = 0]
      <4>1. req' = [req EXCEPT ![r] = q] \/ req' = [req EXCEPT ![r] = p]
        BY <1>6, <2>3 DEF InviteInTransaction, InviteWriteUser
      <4>2. q.pc = "send" /\ p.pc = "upsert"
        BY <1>4 DEF Request
      <4> HIDE DEF q, p
      <4> QED BY <1>4, <4>1, <4>2
    <3> QED BY <1>1, <1>2, <2>1, <3>1, <3>2, SeatsInvited
  <2> QED BY <2>2, <2>3
<1>7. ASSUME ~(InviteInTransaction(r) \/ InviteWriteUser(r)),
             ~(\/ InviteReadTenant(r) \/ InviteCount(r) \/ ReadSubscription(r)
               \/ AssertWithinUserLimit(r))
      PROVE  SeatsOnly(r)
  <2>1. req[r].pc \notin {"subscription", "limit", "invite"}
    BY <1>7 DEF TenantUserStep, UpsertInvite, UndoInvitee, SendInvite, AcceptFindAccount,
       Activate, DropInvite, RemoveUser, DropInvitesOf, WriteUser, At
  <2>2. ASSUME NEW pc, Goto(r, pc) PROVE req'[r].pc = pc
    BY <1>4, <2>2 DEF Goto, Request
  <2>3. CASE UpsertInvite(r)
    <3> DEFINE q == [req[r] EXCEPT !.pc = "send", !.token = Len(issued) + 1]
    <3>1. q.pc = "send"
      BY <1>4 DEF Request
    <3>2. Finish(r) \/ Goto(r, "undoInvitee") \/ req' = [req EXCEPT ![r] = q]
      BY <2>3 DEF UpsertInvite
    <3> HIDE DEF q
    <3>3. req'[r].pc \in {"idle", "send", "undoInvitee"}
      BY <1>4, <1>5, <2>2, <3>1, <3>2
    <3> QED BY <1>1, <2>1, <3>3, OthersCountOn DEF SeatsOnly, CountedFor
  <2>4. CASE \/ UndoInvitee(r) \/ SendInvite(r) \/ DropInvite(r) \/ DropInvitesOf(r)
             \/ WriteUser(r) \/ Activate(r) \/ RemoveUser(r)
    <3>1. Finish(r) \/ Goto(r, "dropInvite") \/ Goto(r, "dropInvitesOf")
      BY <2>4 DEF UndoInvitee, SendInvite, DropInvite, DropInvitesOf, WriteUser, Activate,
         RemoveUser
    <3>2. req'[r].pc \in {"idle", "dropInvite", "dropInvitesOf"}
      BY <1>5, <2>2, <3>1
    <3> QED BY <1>1, <2>1, <3>2, OthersCountOn DEF SeatsOnly, CountedFor
  <2>5. CASE AcceptFindAccount(r)
    <3>1. req[r].op = "acceptInvite"
      BY <2>5, ReqFacts DEF AcceptFindAccount, At, RequestFits, AcceptPcs
    <3>2. req'[r].op # "inviteUser"
      BY <3>1, TenantUserMoves DEF UserMove
    <3> QED BY <1>1, <3>1, <3>2, OthersCountOn, CountsNothing DEF SeatsOnly
  <2> QED BY <1>7, <2>3, <2>4, <2>5 DEF TenantUserStep
<1>8. ASSUME SeatsOnly(r), SameOwner, SameFate, DOMAIN users' = DOMAIN users PROVE Seats!Next
  BY <1>1, <1>8, SeatsOnlyOwners, SeatsRest
<1>9. CASE SeatsOnly(r) /\ (WriteUser(r) \/ Activate(r))
  BY <1>8, <1>9, RowChanged, Activation
<1>10. CASE SeatsOnly(r) /\ (UndoInvitee(r) \/ RemoveUser(r))
  <2>1. PICK u : u = req[r].user
    OBVIOUS
  <2>2. \/ users' = users
        \/ \E fate \in {"undone", "deleted"} : users' = deleteByIdAndTenantId(u, fate)
    BY <1>10, <2>1 DEF UndoInvitee, RemoveUser
  <2>3. CASE users' = users
    BY <1>8, <1>10, <2>3, UsersUntouched
  <2>4. ASSUME NEW fate \in {"undone", "deleted"}, users' = deleteByIdAndTenantId(u, fate),
               StoredUser(u)
        PROVE  Seats!Next
    BY <1>3, <1>10, <2>4, SeatsRelease
  <2>5. ASSUME NEW fate, users' = deleteByIdAndTenantId(u, fate), ~StoredUser(u)
        PROVE  users' = users
    BY <2>5 DEF deleteByIdAndTenantId
  <2> QED BY <2>2, <2>3, <2>4, <2>5
<1>11. CASE SeatsOnly(r)
            /\ (UpsertInvite(r) \/ SendInvite(r) \/ AcceptFindAccount(r) \/ DropInvite(r)
                  \/ DropInvitesOf(r))
  <2>1. users' = users
    BY <1>11 DEF UpsertInvite, SendInvite, AcceptFindAccount, DropInvite, DropInvitesOf
  <2> QED BY <1>8, <1>11, <2>1, UsersUntouched
<1> QED BY <1>6, <1>7, <1>9, <1>10, <1>11, SeatsLookedUp DEF TenantUserStep

LEMMA QuotaStep ==
  ASSUME TypeInv, SeatInv, [Next]_tenancyVars PROVE [Seats!Next]_Seats!quotaVars
<1>1. ASSUME NEW r \in Requests, Arrival(r), Next PROVE Seats!Next
  BY <1>1, ArrivalReads, SeatsReading, SeatsElsewhere
<1>2. ASSUME NEW r \in Requests, Progress(r) \/ Crash(r), Next PROVE Seats!Next
  BY <1>2, SeatsRegistration, SeatsOfUsers, SeatsElsewhere, SeatsCrash DEF Progress
<1>3. ASSUME Environment, Next PROVE Seats!Next
  <2>1. PICK r \in Requests : TRUE
    BY TenancyRequestsAssumption
  <2> QED BY <1>3, <2>1, SeatsElsewhere
<1>4. ASSUME Next PROVE Seats!Next
  BY <1>1, <1>2, <1>3, <1>4 DEF Next
<1>5. ASSUME UNCHANGED tenancyVars PROVE UNCHANGED Seats!quotaVars
  <2>1. UNCHANGED <<users, req, ceiling>>
    BY <1>5 DEF tenancyVars
  <2>2. Used' = Used /\ Owner' = Owner /\ Seen' = Seen
    BY <2>1 DEF Used, Owner, Seen, countByTenantId, CountedFor, SeenBy
  <2> QED BY <2>1, <2>2 DEF Seats!quotaVars, Used, Owner, Seen, SeenBy
<1> QED BY <1>4, <1>5

LEMMA QuotaInit == ASSUME TenancyInit PROVE Seats!Init
<1>1. TypeInv /\ \A r \in Requests : req[r] = IdleRequest
  BY TypeInit DEF TenancyInit
<1>2. FreeLimits.maxUsers \in Nat \ {0}
  BY FreeLimitsAssumption DEF Dimensions
<1>3. ceiling \in [1 .. MaxTenants -> Seats!Caps]
      /\ \A k \in 1 .. MaxTenants : ceiling[k] = FreeLimits.maxUsers
  BY <1>2 DEF TenancyInit, Seats!Caps
<1>4. ASSUME NEW k PROVE countByTenantId(k) \in Nat /\ countByTenantId(k) <= 1
  <2>1. SeatsOf(k) \subseteq {k}
    BY InitialRows DEF SeatsOf
  <2>2. IsFiniteSet({k}) /\ Cardinality({k}) = 1
    BY FS_Singleton
  <2>3. Cardinality(SeatsOf(k)) <= 1
    BY <2>1, <2>2, FS_Subset
  <2> QED BY <1>1, <2>3, SeatsAreFinite DEF SeatsOf, countByTenantId
<1>5. Used \in [1 .. MaxTenants -> Nat]
      /\ \A k \in 1 .. MaxTenants : ceiling[k] # NoCap => Used[k] <= ceiling[k]
  BY <1>2, <1>3, <1>4 DEF Used
<1>6. Owner = [r \in Requests |-> 0] /\ Seen \in [Requests -> Nat]
  BY <1>1 DEF Owner, Seen, SeenBy, CountedFor, IdleRequest
<1> QED BY <1>3, <1>5, <1>6 DEF Seats!Init, Used, Owner, Seen, SeenBy

LEMMA SeatsInductive ==
  /\ TenancyInit => TypeInv /\ RegistrationInv /\ SeatInv
  /\ TypeInv /\ RegistrationInv /\ SeatInv /\ [Next]_tenancyVars
       => TypeInv' /\ RegistrationInv' /\ SeatInv'
BY TypeInit, RegistrationInit, SeatInit, TypeStep, RegistrationInvStep, SeatStep

\* The limit on users is a Quota: an invitation counts, compares and takes one seat, and
\* whatever else happens to users gives one back or founds an organization.
THEOREM SeatsAreAQuota == Spec => SeatQuota
<1>1. TenancyInit => Seats!Init
  BY QuotaInit
<1>2. TypeInv /\ SeatInv /\ [Next]_tenancyVars => [Seats!Next]_Seats!quotaVars
  BY QuotaStep
<1> QED BY <1>1, <1>2, SeatsInductive, PTL DEF Spec, SeatQuota, Seats!Spec

-----------------------------------------------------------------------------
(* And a Quota stays near its ceiling. *)

SeatLimit == INSTANCE QuotaProofs WITH
  Owners <- 1 .. MaxTenants, Nobody <- 0,
  used <- [k \in 1 .. MaxTenants |-> countByTenantId(k)],
  owner <- [r \in Requests |-> CountedFor(r)],
  seen <- [r \in Requests |-> IF CountedFor(r) = 0 THEN 0 ELSE req[r].seen]

\* The limit on users may be passed, by one user less than there are requests at once.
SeatsNearCeiling ==
  \A k \in 1 .. MaxTenants :
     ceiling[k] # NoCap => countByTenantId(k) <= ceiling[k] + Cardinality(Requests) - 1

\* However invitations, registrations, plans and subscriptions interleave, an organization
\* has fewer users above the highest limit its plans ever had than there are requests at
\* once: what inviteUser counts is stale by no more than the other requests under way.
THEOREM SeatsStayNearCeiling == Spec => []SeatsNearCeiling
<1>1. SeatLimit!Finite /\ SeatLimit!Distinct
  BY TenancyRequestsAssumption, NoCapAssumption
  DEF SeatLimit!Finite, SeatLimit!Distinct, SeatLimit!IsFiniteSet, IsFiniteSet
<1>2. SeatLimit!Spec => []SeatLimit!NearCeiling
  BY <1>1, SeatLimit!QuotaHolds
<1>3. Seats!Init => SeatLimit!Init
  BY DEF Seats!Init, SeatLimit!Init, Seats!Caps, SeatLimit!Caps
<1>4. Seats!Next => SeatLimit!Next
  BY DEF Seats!Next, SeatLimit!Next, Seats!Count, SeatLimit!Count, Seats!Take, SeatLimit!Take,
     Seats!GiveUp, SeatLimit!GiveUp, Seats!Release, SeatLimit!Release, Seats!Found,
     SeatLimit!Found, Seats!Raise, SeatLimit!Raise, Seats!Caps, SeatLimit!Caps,
     Seats!Below, SeatLimit!Below
<1>5. UNCHANGED Seats!quotaVars => UNCHANGED SeatLimit!quotaVars
  BY DEF Seats!quotaVars, SeatLimit!quotaVars
<1>6. SeatLimit!NearCeiling => SeatsNearCeiling
  BY DEF SeatLimit!NearCeiling, SeatsNearCeiling, Cardinality, SeatLimit!Cardinality
<1> QED BY <1>2, <1>3, <1>4, <1>5, <1>6, SeatsAreAQuota, PTL DEF SeatQuota, Seats!Spec, SeatLimit!Spec
===============================================================================
