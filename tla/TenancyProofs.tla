----------------------------- MODULE TenancyProofs -----------------------------
(***************************************************************************)
(* Proofs about TenancySystem, for any number of organizations, users,     *)
(* requests, invitations and plans, and any scenario: the types, what a    *)
(* failing registration leaves behind, what an invitation is good for, and *)
(* what an archived plan promises.                                         *)
(***************************************************************************)
EXTENDS TenancySystem, SequenceTheorems, FiniteSetTheorems, TLAPS

-----------------------------------------------------------------------------
(* Types: what the references of rows and requests point to. *)

RegisterPcs == {"create", "founder", "dropTenant", "mail", "undo", "undoTenant"}
InvitePcs == {"tenant", "count", "subscription", "limit", "invite", "upsert", "undoInvitee",
              "send"}
AcceptPcs == {"account", "activate", "dropInvite"}

RequestFits(q) ==
  /\ q.pc = "idle" => q = IdleRequest
  /\ q.pc \in RegisterPcs => q.op = "register" /\ q.email \in Emails
  /\ q.op = "register" => q.pc \in RegisterPcs
  /\ q.op = "inviteUser" => q.pc \in InvitePcs
  /\ q.op \in {"create", "update", "archive"} => q.pc \in {"price", "product", "row"}
  /\ q.pc = "create" => q.tenant = 0
  /\ q.pc \in RegisterPcs \ {"create"} => q.tenant \in DOMAIN tenants
  /\ q.pc \in {"mail", "undo", "undoTenant"} => q.user \in DOMAIN users
  /\ q.pc = "verify" => q.op = "verifyEmail"
  /\ q.pc \in InvitePcs =>
       /\ q.op = "inviteUser" /\ q.email \in Emails
       /\ q.tenant \in DOMAIN tenants /\ q.user \in DOMAIN users \cup {0}
  /\ q.pc \in {"upsert", "undoInvitee"} => q.user # 0
  /\ q.pc = "send" => q.token \in DOMAIN issued
  /\ q.pc \in AcceptPcs =>
       q.op = "acceptInvite" /\ q.token \in DOMAIN issued /\ q.invite \in DOMAIN invites
  /\ q.pc \in {"activate", "dropInvite"} => q.user \in DOMAIN users
  /\ q.pc \in {"delete", "dropInvitesOf"} => q.op = "deleteUser"
  /\ q.pc = "write" => q.op \in {"updateUser", "updateTenant", "softDeleteTenant"}
  /\ q.pc = "write" /\ q.op # "updateUser" => q.tenant \in DOMAIN tenants
  /\ q.pc \in {"price", "product", "row"} =>
       q.op \in {"create", "update", "archive"} /\ q.plan \in DOMAIN catalog

RowsFit ==
  /\ Len(tenants) <= MaxTenants
  /\ \A k \in DOMAIN tenants : tenants[k].founder \in DOMAIN users \cup {0}
  /\ \A u \in DOMAIN users :
       users[u].tenant \in DOMAIN tenants /\ users[u].key \in DOMAIN issued \cup {0}
  /\ \A i \in DOMAIN invites : invites[i].token \in DOMAIN issued
  /\ \A k \in 1 .. MaxTenants : IsFiniteSet(subscriptions[k].held)

TypeInv == TypeOK /\ RowsFit /\ \A r \in Requests : RequestFits(req[r])

-----------------------------------------------------------------------------
(* Registration. *)

FounderBelongs ==
  \A k \in DOMAIN tenants :
     tenants[k].founder # 0 => users[tenants[k].founder].tenant = k

\* The user that an invitation is to remove again is nobody's founder.
NotFounder(q) ==
  /\ q.pc = "undoInvitee" => q.on
  /\ q.pc \in {"upsert", "undoInvitee"} /\ q.on =>
       \A k \in DOMAIN tenants : tenants[k].founder # q.user

\* How far a registration has got.
RegistrationOf(q) ==
  /\ q.pc \in {"founder", "dropTenant"} => tenants[q.tenant].founder = 0
  /\ q.pc = "founder" => tenants[q.tenant].stage # "undone"
  /\ q.pc \in {"mail", "undo", "undoTenant"} => tenants[q.tenant].founder = q.user
  /\ q.pc \in {"mail", "undo"} => users[q.user].fate # "undone"
  /\ q.pc = "undoTenant" => users[q.user].fate # "stored"
  /\ NotFounder(q)

OneRegistration ==
  \A r, p \in Requests :
     /\ req[r].op = "register" /\ req[p].op = "register"
     /\ req[r].tenant = req[p].tenant /\ req[r].tenant # 0
     => r = p

RegistrationInv ==
  /\ FounderBelongs /\ OneRegistration
  /\ \A r \in Requests : RegistrationOf(req[r])
  /\ RegistrationIsAllOrNothing /\ FounderHasTenant

-----------------------------------------------------------------------------
(* Invitations. *)

TokenOf(t, row) == issued[t].tenant = row.tenant /\ issued[t].email = row.email

InvitesTraced == \A i \in DOMAIN invites : TokenOf(invites[i].token, invites[i])

\* The unique index on address and organization.
OneInvitation ==
  \A i, j \in DOMAIN invites :
     /\ invites[i].stored /\ invites[j].stored
     /\ invites[i].tenant = invites[j].tenant /\ invites[i].email = invites[j].email
     => i = j

Accepting(q) ==
  /\ q.pc \in AcceptPcs =>
       /\ TokenOf(q.token, q)
       /\ \A i \in DOMAIN invites :
            invites[i].stored /\ invites[i].token = q.token => i = q.invite
  /\ q.pc = "activate" => TokenOf(q.token, users[q.user])
  /\ q.pc = "dropInvite" => ~transactions

\* Whoever is to delete the invitation is the one that spent the token.
Spending(u, i) ==
  \E r \in Requests :
     At(r, "dropInvite") /\ req[r].invite = i /\ req[r].token = users[u].key

SpentOrSpending ==
  \A u \in DOMAIN users, i \in DOMAIN invites :
     invites[i].stored /\ invites[i].token = users[u].key =>
       \/ issued[users[u].key].dangling /\ ~transactions
       \/ Spending(u, i)

InvitationInv ==
  /\ InvitesTraced /\ OneInvitation
  /\ \A r \in Requests : Accepting(req[r])
  /\ InvitationStaysInTenant /\ SpentOrSpending

-----------------------------------------------------------------------------
(* Plans. *)

OnPlan(q) ==
  /\ q.op = "create" /\ q.pc # "idle" => catalog[q.plan].row = "none"
  /\ q.op \in {"update", "archive"} => catalog[q.plan].row # "none"
  /\ q.op = "archive" /\ q.pc \in {"product", "row"} => catalog[q.plan].price = "inactive"
  /\ q.op = "archive" /\ q.pc = "row" => catalog[q.plan].product = "inactive"

OneCreation ==
  \A r, p \in Requests :
     req[r].op = "create" /\ req[p].op = "create" /\ req[r].plan = req[p].plan => r = p

PlanInv ==
  /\ OneCreation /\ \A r \in Requests : OnPlan(req[r])
  /\ ArchivedPlanIsOffSale

-----------------------------------------------------------------------------
(* Limits on users, of which the ceiling is the highest. *)

Covers(cap, limit) == cap = NoCap \/ (limit # NoCap /\ limit <= cap)

-----------------------------------------------------------------------------
(* Sequences, and the largest of finitely many numbers. *)

LEMMA SeqFacts ==
  ASSUME NEW T, NEW s \in Seq(T)
  PROVE  /\ Len(s) \in Nat /\ DOMAIN s = 1 .. Len(s)
         /\ \A i \in DOMAIN s : s[i] \in T
BY LenProperties, ElementOfSeq

LEMMA SeqPut ==
  ASSUME NEW T, NEW s \in Seq(T), NEW i \in DOMAIN s, NEW e \in T
  PROVE  /\ [s EXCEPT ![i] = e] \in Seq(T)
         /\ Len([s EXCEPT ![i] = e]) = Len(s)
         /\ DOMAIN [s EXCEPT ![i] = e] = DOMAIN s
BY ExceptSeq, LenProperties

LEMMA SeqAdd ==
  ASSUME NEW T, NEW s \in Seq(T), NEW e \in T
  PROVE  /\ Append(s, e) \in Seq(T)
         /\ Len(Append(s, e)) = Len(s) + 1
         /\ DOMAIN Append(s, e) = 1 .. Len(s) + 1
         /\ \A i \in DOMAIN s : Append(s, e)[i] = s[i]
         /\ Append(s, e)[Len(s) + 1] = e
<1>1. Append(s, e) \in Seq(T) /\ Len(Append(s, e)) = Len(s) + 1
  BY AppendProperties
<1>2. DOMAIN Append(s, e) = 1 .. Len(s) + 1
  BY <1>1, LenProperties
<1> QED BY <1>1, <1>2, AppendProperties, SeqFacts

LEMMA SeqOn ==
  ASSUME NEW T, NEW n \in Nat, NEW s \in [1 .. n -> T]
  PROVE  s \in Seq(T) /\ Len(s) = n /\ DOMAIN s = 1 .. n
<1>1. s \in Seq(T) BY SeqDef
<1> QED BY <1>1, LenProperties

\* Among the finite sets of numbers a smallest one without a largest member would lose
\* it by losing any member.
LEMMA FiniteMax ==
  ASSUME NEW S \in SUBSET Nat, IsFiniteSet(S), S # {}
  PROVE  \E c \in S : \A d \in S : d <= c
<1> DEFINE Maxless == {X \in FiniteSubsetsOf(Nat) : X # {} /\ ~ \E c \in X : \A d \in X : d <= c}
<1>1. SUFFICES ASSUME Maxless # {} PROVE FALSE
  BY DEF FiniteSubsetsOf
<1>2. PICK X \in Maxless : \A Y \in Maxless : ~(<<Y, X>> \in StrictSubsetOrdering(Nat))
  BY <1>1, FS_StrictSubsetOrderingWellFounded, WFMin
<1>3. PICK x \in X : TRUE
  OBVIOUS
<1>4. /\ X \subseteq Nat /\ IsFiniteSet(X) /\ x \in Nat
      /\ X \ {x} \subseteq Nat /\ IsFiniteSet(X \ {x})
  BY <1>3, FS_RemoveElement DEF FiniteSubsetsOf
<1>5. X \ {x} \notin Maxless
  BY <1>2, <1>3, <1>4 DEF StrictSubsetOrdering
<1>6. CASE X \ {x} = {}
  BY <1>3, <1>4, <1>6
<1>7. CASE X \ {x} # {}
  <2>1. PICK m \in X \ {x} : \A d \in X \ {x} : d <= m
    BY <1>4, <1>5, <1>7 DEF FiniteSubsetsOf
  <2>2. \A d \in X : d <= IF m <= x THEN x ELSE m
    BY <1>4, <2>1
  <2> QED BY <1>3, <1>4, <2>1, <2>2
<1> QED BY <1>6, <1>7

-----------------------------------------------------------------------------
(* What a request may become. *)

\* Rows are never taken out of the model's sequences.
Grows ==
  /\ DOMAIN tenants \subseteq DOMAIN tenants' /\ DOMAIN users \subseteq DOMAIN users'
  /\ DOMAIN invites \subseteq DOMAIN invites' /\ DOMAIN issued \subseteq DOMAIN issued'
  /\ DOMAIN catalog \subseteq DOMAIN catalog'

LEMMA IdleFits == IdleRequest \in Request /\ RequestFits(IdleRequest)
BY DEF IdleRequest, Request, Ops, Pcs, RequestFits, RegisterPcs, InvitePcs, AcceptPcs

LEMMA MoveFits ==
  ASSUME TypeInv, Grows, NEW r \in Requests, NEW q \in Request, RequestFits(q),
         req' = [req EXCEPT ![r] = q]
  PROVE  req' \in [Requests -> Request] /\ \A p \in Requests : RequestFits(req[p])'
<1>1. req \in [Requests -> Request]
  BY DEF TypeInv, TypeOK, TenancyTypeOK
<1>2. req' \in [Requests -> Request] /\ \A p \in Requests : req'[p] = IF p = r THEN q ELSE req[p]
  BY <1>1
<1>3. ASSUME NEW p \in Requests PROVE RequestFits(req[p])'
  <2>1. PICK o : o = req'[p] /\ RequestFits(o)
    BY <1>2 DEF TypeInv
  <2> QED BY <2>1 DEF RequestFits, Grows, IdleRequest
<1> QED BY <1>2, <1>3

\* The rows stay as they are.
Pure == UNCHANGED <<scenario, transactions, tenants, users, invites, issued, catalog,
                    subscriptions, interrupted>>

LEMMA PureGrows == ASSUME Pure PROVE Grows
BY DEF Pure, Grows

LEMMA FinishFits ==
  ASSUME TypeInv, Grows, NEW r \in Requests, Finish(r)
  PROVE  req' \in [Requests -> Request] /\ \A p \in Requests : RequestFits(req[p])'
BY IdleFits, MoveFits DEF Finish

\* A request goes on to a later point of its operation that needs nothing new.
LEMMA GotoFits ==
  ASSUME TypeInv, Grows, NEW r \in Requests, NEW pc, Goto(r, pc),
         \/ req[r].pc \in InvitePcs /\ pc \in InvitePcs \ {"upsert", "undoInvitee", "send"}
         \/ req[r].pc = "upsert" /\ pc = "undoInvitee"
         \/ req[r].pc = "founder" /\ pc = "dropTenant"
         \/ req[r].pc = "mail" /\ pc = "undo"
         \/ req[r].pc = "undo" /\ pc = "undoTenant"
         \/ req[r].pc = "activate" /\ pc = "dropInvite"
         \/ req[r].pc = "delete" /\ pc = "dropInvitesOf"
         \/ req[r].pc \in {"price", "product", "row"} /\ pc \in {"price", "product", "row"}
  PROVE  req' \in [Requests -> Request] /\ \A p \in Requests : RequestFits(req[p])'
<1>1. req[r] \in Request /\ RequestFits(req[r])
  BY DEF TypeInv, TypeOK, TenancyTypeOK
<1> DEFINE q == [req[r] EXCEPT !.pc = pc]
<1>2. pc \in Pcs
  BY DEF Pcs, InvitePcs
<1>3. q \in Request
  BY <1>1, <1>2 DEF Request
<1>4. RequestFits(q)
  BY <1>1 DEF RequestFits, Request, RegisterPcs, InvitePcs, AcceptPcs
<1>5. req' = [req EXCEPT ![r] = q]
  BY DEF Goto
<1> HIDE DEF q
<1> QED BY <1>3, <1>4, <1>5, MoveFits

\* What the pieces of TypeInv say of one request and of the rows.
LEMMA ReqFacts ==
  ASSUME TypeInv, NEW r \in Requests
  PROVE  req[r] \in Request /\ RequestFits(req[r]) /\ req \in [Requests -> Request]
BY DEF TypeInv, TypeOK, TenancyTypeOK

LEMMA RowFacts ==
  ASSUME TypeInv
  PROVE  /\ Len(tenants) \in Nat /\ DOMAIN tenants = 1 .. Len(tenants)
         /\ Len(users) \in Nat /\ DOMAIN users = 1 .. Len(users)
         /\ Len(invites) \in Nat /\ DOMAIN invites = 1 .. Len(invites)
         /\ Len(issued) \in Nat /\ DOMAIN issued = 1 .. Len(issued)
         /\ Len(catalog) \in Nat /\ DOMAIN catalog = 1 .. Len(catalog)
         /\ \A k \in DOMAIN tenants : tenants[k] \in Tenant
         /\ \A u \in DOMAIN users : users[u] \in User
         /\ \A i \in DOMAIN invites : invites[i] \in Invite
         /\ \A t \in DOMAIN issued : issued[t] \in IssuedToken
         /\ \A p \in DOMAIN catalog : catalog[p] \in Plan
BY SeqFacts DEF TypeInv, TypeOK, TenancyTypeOK

SeatsOf(k) == {u \in DOMAIN users : users[u].fate = "stored" /\ users[u].tenant = k}

LEMMA SeatsAreFinite ==
  ASSUME TypeInv, NEW k PROVE IsFiniteSet(SeatsOf(k)) /\ countByTenantId(k) \in Nat
<1>1. SeatsOf(k) \subseteq DOMAIN users
  BY DEF SeatsOf
<1>2. IsFiniteSet(SeatsOf(k))
  <2>1. DOMAIN users = 1 .. Len(users) /\ Len(users) \in Nat
    BY RowFacts
  <2>2. IsFiniteSet(1 .. Len(users))
    BY <2>1, FS_Interval
  <2> QED BY <1>1, <2>1, <2>2, FS_Subset
<1> QED BY <1>2, FS_CardinalityType DEF SeatsOf, countByTenantId

LEMMA BeginFits ==
  ASSUME TypeInv, Grows, NEW r \in Requests, NEW op, NEW q \in Request, RequestFits(q),
         Begin(r, op, q)
  PROVE  req' \in [Requests -> Request] /\ \A p \in Requests : RequestFits(req[p])'
BY MoveFits DEF Begin

\* The operations that begin with a read.
Reading(r) ==
  \/ \E e \in Emails : Register(r, e)
  \/ \E u \in DOMAIN users, e \in Emails : InviteUser(r, u, e)
  \/ \E u \in DOMAIN users : VerifyEmail(r, u)
  \/ \E u, t \in DOMAIN users : DeleteUser(r, u, t) \/ UpdateUser(r, u, t)
  \/ \E t \in DOMAIN issued : AcceptInvite(r, t)
  \/ \E k \in DOMAIN tenants, op \in {"updateTenant", "softDeleteTenant"} :
       PlatformRead(r, k, op)
  \/ \E p \in DOMAIN catalog : UpdatePlan(r, p) \/ ArchivePlan(r, p)

LEMMA ReadingFits ==
  ASSUME TypeInv, Grows, NEW r \in Requests, Reading(r)
  PROVE  req' \in [Requests -> Request] /\ \A p \in Requests : RequestFits(req[p])'
<1>0. /\ \A u \in DOMAIN users : u \in Nat /\ users[u] \in User
      /\ \A i \in DOMAIN invites : i \in Nat /\ invites[i] \in Invite
      /\ \A t \in DOMAIN issued : t \in Nat /\ issued[t] \in IssuedToken
      /\ \A p \in DOMAIN catalog : p \in Nat /\ catalog[p] \in Plan
      /\ \A k \in DOMAIN tenants : k \in Nat
  BY RowFacts
<1>1. ASSUME NEW e \in Emails, Register(r, e)
      PROVE  \E q \in Request : RequestFits(q) /\ \E op : Begin(r, op, q)
  <2> DEFINE q == [IdleRequest EXCEPT !.op = "register", !.pc = "create", !.email = e]
  <2>1. q \in Request /\ RequestFits(q)
    BY <1>0 DEF IdleRequest, Request, Ops, Pcs, RequestFits, RegisterPcs, InvitePcs, AcceptPcs
  <2>2. Begin(r, "register", q) BY <1>1 DEF Register
  <2> QED BY <2>1, <2>2
<1>2. ASSUME NEW u \in DOMAIN users, NEW e \in Emails, InviteUser(r, u, e)
      PROVE  \E q \in Request : RequestFits(q) /\ \E op : Begin(r, op, q)
  <2>1. PICK x \in findByEmail(e) \cup {0} :
             Begin(r, "inviteUser", [IdleRequest EXCEPT !.op = "inviteUser", !.pc = "tenant",
                                       !.email = e, !.tenant = users[u].tenant, !.user = x])
    BY <1>2 DEF InviteUser
  <2>2. x \in DOMAIN users \cup {0} /\ users[u].tenant \in DOMAIN tenants
    BY DEF findByEmail, TypeInv, RowsFit
  <2> DEFINE q == [IdleRequest EXCEPT !.op = "inviteUser", !.pc = "tenant",
                                       !.email = e, !.tenant = users[u].tenant, !.user = x]
  <2>3. /\ q.op = "inviteUser" /\ q.pc = "tenant" /\ q.email = e
        /\ q.tenant = users[u].tenant /\ q.user = x
    BY DEF IdleRequest
  <2>4. x \in Nat /\ users[u].tenant \in Nat
    BY <1>0, <2>2
  <2>5. q \in Request
    BY <2>4 DEF IdleRequest, Request, Ops, Pcs
  <2> HIDE DEF q
  <2>6. RequestFits(q)
    BY <2>2, <2>3 DEF RequestFits, RegisterPcs, InvitePcs, AcceptPcs
  <2>7. Begin(r, "inviteUser", q)
    BY <2>1 DEF q
  <2> QED BY <2>5, <2>6, <2>7
<1>3. ASSUME NEW u \in DOMAIN users, VerifyEmail(r, u)
      PROVE  \E q \in Request : RequestFits(q) /\ \E op : Begin(r, op, q)
  <2> DEFINE q == [IdleRequest EXCEPT !.op = "verifyEmail", !.pc = "verify", !.user = u]
  <2>1. q \in Request /\ RequestFits(q)
    BY <1>0 DEF IdleRequest, Request, Ops, Pcs, RequestFits, RegisterPcs, InvitePcs, AcceptPcs
  <2>2. Begin(r, "verifyEmail", q) BY <1>3 DEF VerifyEmail
  <2> QED BY <2>1, <2>2
<1>4. ASSUME NEW u \in DOMAIN users, NEW t \in DOMAIN users, DeleteUser(r, u, t)
      PROVE  \E q \in Request : RequestFits(q) /\ \E op : Begin(r, op, q)
  <2> DEFINE q == [IdleRequest EXCEPT !.op = "deleteUser", !.pc = "delete", !.user = t,
                     !.tenant = users[u].tenant, !.email = users[t].email]
  <2>1. users[u] \in User /\ users[t] \in User /\ t \in Nat
    BY <1>0
  <2>2. q \in Request /\ RequestFits(q)
    BY ZenonT(60), <2>1 DEF IdleRequest, Request, User, Ops, Pcs, RequestFits, RegisterPcs, InvitePcs,
                AcceptPcs
  <2>3. Begin(r, "deleteUser", q) BY <1>4 DEF DeleteUser
  <2> QED BY <2>2, <2>3
<1>5. ASSUME NEW u \in DOMAIN users, NEW t \in DOMAIN users, UpdateUser(r, u, t)
      PROVE  \E q \in Request : RequestFits(q) /\ \E op : Begin(r, op, q)
  <2> DEFINE q == [IdleRequest EXCEPT !.op = "updateUser", !.pc = "write", !.user = t]
  <2>1. q \in Request /\ RequestFits(q)
    BY <1>0 DEF IdleRequest, Request, Ops, Pcs, RequestFits, RegisterPcs, InvitePcs, AcceptPcs
  <2>2. Begin(r, "updateUser", q) BY <1>5 DEF UpdateUser
  <2> QED BY <2>1, <2>2
<1>6. ASSUME NEW t \in DOMAIN issued, AcceptInvite(r, t)
      PROVE  \E q \in Request : RequestFits(q) /\ \E op : Begin(r, op, q)
  <2>1. PICK i \in DOMAIN invites :
             Begin(r, "acceptInvite",
                [IdleRequest EXCEPT !.op = "acceptInvite", !.pc = "account",
                   !.email = issued[t].email, !.tenant = invites[i].tenant,
                   !.invite = i, !.token = t])
    BY <1>6 DEF AcceptInvite, findByEmailWithToken
  <2> DEFINE q == [IdleRequest EXCEPT !.op = "acceptInvite", !.pc = "account",
                   !.email = issued[t].email, !.tenant = invites[i].tenant,
                   !.invite = i, !.token = t]
  <2>2. issued[t] \in IssuedToken /\ invites[i] \in Invite /\ i \in Nat /\ t \in Nat
    BY <1>0
  <2>3. q \in Request /\ RequestFits(q)
    BY <2>2 DEF IdleRequest, Request, IssuedToken, Invite, Ops, Pcs, RequestFits,
                RegisterPcs, InvitePcs, AcceptPcs
  <2> QED BY <2>1, <2>3
<1>7. ASSUME NEW k \in DOMAIN tenants, NEW op \in {"updateTenant", "softDeleteTenant"},
             PlatformRead(r, k, op)
      PROVE  \E q \in Request : RequestFits(q) /\ \E o : Begin(r, o, q)
  <2> DEFINE q == [IdleRequest EXCEPT !.op = op, !.pc = "write", !.tenant = k]
  <2>1. q \in Request /\ RequestFits(q)
    BY <1>0 DEF IdleRequest, Request, Ops, Pcs, RequestFits, RegisterPcs, InvitePcs, AcceptPcs
  <2>2. Begin(r, op, q) BY <1>7 DEF PlatformRead
  <2> QED BY <2>1, <2>2
<1>8. ASSUME NEW p \in DOMAIN catalog, UpdatePlan(r, p)
      PROVE  \E q \in Request : RequestFits(q) /\ \E op : Begin(r, op, q)
  <2>1. PICK q : /\ Begin(r, "update", q)
                 /\ \/ \E dto \in scenario.plans :
                         q = [IdleRequest EXCEPT !.op = "update", !.pc = "product", !.plan = p,
                                                 !.on = dto.aiTier, !.seen = 1]
                    \/ q = [IdleRequest EXCEPT !.op = "update", !.pc = "row", !.plan = p,
                                               !.on = catalog[p].aiTier]
    BY <1>8 DEF UpdatePlan
  <2>2. catalog[p].aiTier \in BOOLEAN /\ \A dto \in scenario.plans : dto.aiTier \in BOOLEAN
    BY <1>0, ScenariosAssumption DEF TypeInv, TypeOK, TenancyTypeOK, Plan
  <2>3. q.op = "update" /\ q.pc \in {"product", "row"} /\ q.plan = p
    BY <2>1 DEF IdleRequest
  <2>4. p \in Nat
    BY <1>0
  <2>5. CASE q = [IdleRequest EXCEPT !.op = "update", !.pc = "row", !.plan = p,
                                     !.on = catalog[p].aiTier]
    <3>1. q \in Request
      BY <2>2, <2>4, <2>5 DEF IdleRequest, Request, Ops, Pcs
    <3> QED BY <2>1, <2>3, <3>1 DEF RequestFits, RegisterPcs, InvitePcs, AcceptPcs
  <2>6. ASSUME NEW dto \in scenario.plans,
               q = [IdleRequest EXCEPT !.op = "update", !.pc = "product", !.plan = p,
                                       !.on = dto.aiTier, !.seen = 1]
        PROVE  q \in Request /\ RequestFits(q)
    <3>1. q \in Request
      BY <2>2, <2>4, <2>6 DEF IdleRequest, Request, Ops, Pcs
    <3> QED BY <2>1, <2>3, <3>1 DEF RequestFits, RegisterPcs, InvitePcs, AcceptPcs
  <2> QED BY <2>1, <2>5, <2>6
<1>9. ASSUME NEW p \in DOMAIN catalog, ArchivePlan(r, p)
      PROVE  \E q \in Request : RequestFits(q) /\ \E op : Begin(r, op, q)
  <2> DEFINE q == [IdleRequest EXCEPT !.op = "archive", !.pc = "price", !.plan = p]
  <2>1. q \in Request /\ RequestFits(q)
    BY <1>0 DEF IdleRequest, Request, Ops, Pcs, RequestFits, RegisterPcs, InvitePcs, AcceptPcs
  <2>2. Begin(r, "archive", q) BY <1>9 DEF ArchivePlan
  <2> QED BY <2>1, <2>2
<1>10. \E q \in Request : RequestFits(q) /\ \E op : Begin(r, op, q)
  BY <1>1, <1>2, <1>3, <1>4, <1>5, <1>6, <1>7, <1>8, <1>9 DEF Reading
<1> QED BY <1>10, BeginFits

-----------------------------------------------------------------------------
(* What a step does to the rows. *)

TenantsKept ==
  /\ tenants' \in Seq(Tenant) /\ DOMAIN tenants \subseteq DOMAIN tenants'
  /\ Len(tenants') <= MaxTenants
  /\ \A k \in DOMAIN tenants' : tenants'[k].founder \in DOMAIN users' \cup {0}
UsersKept ==
  /\ users' \in Seq(User) /\ DOMAIN users \subseteq DOMAIN users'
  /\ \A u \in DOMAIN users' :
       users'[u].tenant \in DOMAIN tenants' /\ users'[u].key \in DOMAIN issued' \cup {0}
InvitesKept ==
  /\ invites' \in Seq(Invite) /\ DOMAIN invites \subseteq DOMAIN invites'
  /\ \A i \in DOMAIN invites' : invites'[i].token \in DOMAIN issued'
IssuedKept == issued' \in Seq(IssuedToken) /\ DOMAIN issued \subseteq DOMAIN issued'
CatalogKept == catalog' \in Seq(Plan) /\ DOMAIN catalog \subseteq DOMAIN catalog'
SubscriptionsKept ==
  /\ subscriptions' \in [1 .. MaxTenants -> Subscription]
  /\ \A k \in 1 .. MaxTenants : IsFiniteSet(subscriptions'[k].held)

RowsKept ==
  /\ TenantsKept /\ UsersKept /\ InvitesKept /\ IssuedKept /\ CatalogKept
  /\ SubscriptionsKept /\ interrupted' \subseteq 1 .. MaxTenants

RequestsKept == req' \in [Requests -> Request] /\ \A p \in Requests : RequestFits(req[p])'

LEMMA RowsGrow == ASSUME RowsKept PROVE Grows
BY DEF RowsKept, Grows, TenantsKept, UsersKept, InvitesKept, IssuedKept, CatalogKept

LEMMA TenantsSame ==
  ASSUME TypeInv, tenants' = tenants, DOMAIN users \subseteq DOMAIN users' PROVE TenantsKept
BY DEF TypeInv, TypeOK, TenancyTypeOK, RowsFit, TenantsKept
LEMMA UsersSame ==
  ASSUME TypeInv, users' = users, DOMAIN tenants \subseteq DOMAIN tenants',
         DOMAIN issued \subseteq DOMAIN issued'
  PROVE  UsersKept
BY DEF TypeInv, TypeOK, TenancyTypeOK, RowsFit, UsersKept
LEMMA InvitesSame ==
  ASSUME TypeInv, invites' = invites, DOMAIN issued \subseteq DOMAIN issued' PROVE InvitesKept
BY DEF TypeInv, TypeOK, TenancyTypeOK, RowsFit, InvitesKept
LEMMA IssuedSame == ASSUME TypeInv, issued' = issued PROVE IssuedKept
BY DEF TypeInv, TypeOK, TenancyTypeOK, IssuedKept
LEMMA CatalogSame == ASSUME TypeInv, catalog' = catalog PROVE CatalogKept
BY DEF TypeInv, TypeOK, TenancyTypeOK, CatalogKept
LEMMA SubscriptionsSame ==
  ASSUME TypeInv, subscriptions' = subscriptions PROVE SubscriptionsKept
BY DEF TypeInv, TypeOK, TenancyTypeOK, RowsFit, SubscriptionsKept
LEMMA InterruptedSame ==
  ASSUME TypeInv, interrupted' = interrupted PROVE interrupted' \subseteq 1 .. MaxTenants
BY DEF TypeInv, TypeOK, TenancyTypeOK

LEMMA TenantPut ==
  ASSUME TypeInv, NEW k \in DOMAIN tenants, NEW row \in Tenant,
         row.founder \in DOMAIN users' \cup {0}, DOMAIN users \subseteq DOMAIN users',
         tenants' = [tenants EXCEPT ![k] = row]
  PROVE  TenantsKept
<1>1. tenants \in Seq(Tenant) /\ Len(tenants) <= MaxTenants
      /\ \A n \in DOMAIN tenants : tenants[n].founder \in DOMAIN users \cup {0}
  BY DEF TypeInv, TypeOK, TenancyTypeOK, RowsFit
<1>2. /\ tenants' \in Seq(Tenant) /\ Len(tenants') = Len(tenants)
      /\ DOMAIN tenants' = DOMAIN tenants
  BY <1>1, SeqPut
<1>3. \A n \in DOMAIN tenants : tenants'[n] = IF n = k THEN row ELSE tenants[n]
  BY <1>1, RowFacts
<1> QED BY <1>1, <1>2, <1>3 DEF TenantsKept

LEMMA TenantAdd ==
  ASSUME TypeInv, NEW row \in Tenant, row.founder \in DOMAIN users' \cup {0},
         DOMAIN users \subseteq DOMAIN users', Len(tenants) < MaxTenants,
         tenants' = Append(tenants, row)
  PROVE  TenantsKept /\ DOMAIN tenants' = 1 .. Len(tenants) + 1
<1>1. tenants \in Seq(Tenant) /\ Len(tenants) \in Nat /\ DOMAIN tenants = 1 .. Len(tenants)
      /\ \A n \in DOMAIN tenants : tenants[n].founder \in DOMAIN users \cup {0}
  BY RowFacts DEF TypeInv, TypeOK, TenancyTypeOK, RowsFit
<1>2. /\ tenants' \in Seq(Tenant) /\ Len(tenants') = Len(tenants) + 1
      /\ DOMAIN tenants' = 1 .. Len(tenants) + 1
      /\ \A i \in DOMAIN tenants : tenants'[i] = tenants[i]
      /\ tenants'[Len(tenants) + 1] = row
  BY <1>1, SeqAdd
<1>3. \A n \in DOMAIN tenants' : n \in DOMAIN tenants \/ n = Len(tenants) + 1
  BY <1>1, <1>2
<1>4. Len(tenants') <= MaxTenants
  BY <1>1, <1>2, TenantsAssumption
<1>5. DOMAIN tenants \subseteq DOMAIN tenants'
  BY <1>1, <1>2
<1> QED BY <1>1, <1>2, <1>3, <1>4, <1>5 DEF TenantsKept

LEMMA UserPut ==
  ASSUME TypeInv, NEW u \in DOMAIN users, NEW row \in User,
         row.tenant = users[u].tenant, row.key \in DOMAIN issued' \cup {0},
         DOMAIN tenants \subseteq DOMAIN tenants', DOMAIN issued \subseteq DOMAIN issued',
         users' = [users EXCEPT ![u] = row]
  PROVE  UsersKept
<1>1. users \in Seq(User)
      /\ \A n \in DOMAIN users : users[n].tenant \in DOMAIN tenants
                                   /\ users[n].key \in DOMAIN issued \cup {0}
  BY DEF TypeInv, TypeOK, TenancyTypeOK, RowsFit
<1>2. users' \in Seq(User) /\ DOMAIN users' = DOMAIN users
  BY <1>1, SeqPut
<1>3. \A n \in DOMAIN users : users'[n] = IF n = u THEN row ELSE users[n]
  BY <1>1, RowFacts
<1> QED BY <1>1, <1>2, <1>3 DEF UsersKept

LEMMA UserAdd ==
  ASSUME TypeInv, NEW row \in User, row.tenant \in DOMAIN tenants', row.key = 0,
         DOMAIN tenants \subseteq DOMAIN tenants', DOMAIN issued \subseteq DOMAIN issued',
         users' = Append(users, row)
  PROVE  UsersKept /\ DOMAIN users' = 1 .. Len(users) + 1
<1>1. users \in Seq(User) /\ Len(users) \in Nat /\ DOMAIN users = 1 .. Len(users)
      /\ \A n \in DOMAIN users : users[n].tenant \in DOMAIN tenants
                                   /\ users[n].key \in DOMAIN issued \cup {0}
  BY RowFacts DEF TypeInv, TypeOK, TenancyTypeOK, RowsFit
<1>2. /\ users' \in Seq(User) /\ DOMAIN users' = 1 .. Len(users) + 1
      /\ \A i \in DOMAIN users : users'[i] = users[i]
      /\ users'[Len(users) + 1] = row
  BY <1>1, SeqAdd
<1>3. \A n \in DOMAIN users' : n \in DOMAIN users \/ n = Len(users) + 1
  BY <1>1, <1>2
<1>4. DOMAIN users \subseteq DOMAIN users'
  BY <1>1, <1>2
<1> QED BY <1>1, <1>2, <1>3, <1>4 DEF UsersKept

LEMMA UpdateByIdKeeps ==
  ASSUME TypeInv, NEW u, NEW row, users' = updateById(u, row),
         DOMAIN tenants \subseteq DOMAIN tenants', DOMAIN issued \subseteq DOMAIN issued',
         StoredUser(u) => /\ row \in User /\ row.tenant = users[u].tenant
                          /\ row.key \in DOMAIN issued' \cup {0}
  PROVE  UsersKept
<1>1. CASE StoredUser(u)
  BY <1>1, UserPut DEF updateById, StoredUser
<1>2. CASE ~StoredUser(u)
  BY <1>2, UsersSame DEF updateById
<1> QED BY <1>1, <1>2

LEMMA DeleteUserKeeps ==
  ASSUME TypeInv, NEW u, NEW fate \in {"deleted", "undone"},
         users' = deleteByIdAndTenantId(u, fate),
         DOMAIN tenants \subseteq DOMAIN tenants', DOMAIN issued \subseteq DOMAIN issued'
  PROVE  UsersKept
<1>1. CASE StoredUser(u)
  <2> DEFINE row == [users[u] EXCEPT !.fate = fate]
  <2>1. u \in DOMAIN users /\ users[u] \in User /\ users[u].key \in DOMAIN issued \cup {0}
    BY <1>1, RowFacts DEF StoredUser, TypeInv, RowsFit
  <2>2. row \in User /\ row.tenant = users[u].tenant /\ row.key = users[u].key
    BY <2>1 DEF User
  <2>3. users' = [users EXCEPT ![u] = row]
    BY <1>1 DEF deleteByIdAndTenantId
  <2> HIDE DEF row
  <2> QED BY <2>1, <2>2, <2>3, UserPut
<1>2. CASE ~StoredUser(u)
  BY <1>2, UsersSame DEF deleteByIdAndTenantId
<1> QED BY <1>1, <1>2

\* A change of the invitations row by row.
LEMMA InvitesOn ==
  ASSUME TypeInv, DOMAIN issued \subseteq DOMAIN issued',
         invites' \in [DOMAIN invites -> Invite],
         \A i \in DOMAIN invites : invites'[i].token \in DOMAIN issued'
  PROVE  InvitesKept
<1>1. Len(invites) \in Nat /\ DOMAIN invites = 1 .. Len(invites)
  BY RowFacts
<1>2. invites' \in Seq(Invite) /\ DOMAIN invites' = DOMAIN invites
  BY <1>1, SeqOn
<1> QED BY <1>2 DEF InvitesKept

LEMMA DeleteInvitesKeeps ==
  ASSUME TypeInv, NEW S, invites' = deleteInvites(S), DOMAIN issued \subseteq DOMAIN issued'
  PROVE  InvitesKept
<1>1. \A i \in DOMAIN invites : invites[i] \in Invite /\ invites[i].token \in DOMAIN issued
  BY RowFacts DEF TypeInv, RowsFit
<1>2. \A i \in DOMAIN invites : [invites[i] EXCEPT !.stored = FALSE] \in Invite
  BY <1>1 DEF Invite
<1>3. \A i \in DOMAIN invites :
         invites'[i] = IF i \in S THEN [invites[i] EXCEPT !.stored = FALSE] ELSE invites[i]
  BY DEF deleteInvites
<1>4. \A i \in DOMAIN invites : invites'[i].token = invites[i].token
  BY <1>1, <1>3 DEF Invite
<1>5. invites' \in [DOMAIN invites -> Invite]
  BY <1>1, <1>2 DEF deleteInvites
<1> QED BY <1>1, <1>4, <1>5, InvitesOn

LEMMA UpsertKeeps ==
  ASSUME TypeInv, NEW k \in Nat \ {0}, NEW e \in Emails, NEW t \in DOMAIN issued',
         t \in Nat, DOMAIN issued \subseteq DOMAIN issued', invites' = upsert(k, e, t)
  PROVE  InvitesKept
<1>1. \A i \in DOMAIN invites : invites[i] \in Invite /\ invites[i].token \in DOMAIN issued
  BY RowFacts DEF TypeInv, RowsFit
<1>2. CASE inviteOf(e, k) = {}
  <2> DEFINE row == [tenant |-> k, email |-> e, token |-> t, expired |-> FALSE,
                     stored |-> TRUE]
  <2>1. row \in Invite /\ row.token = t
    BY DEF Invite
  <2>2. invites \in Seq(Invite) /\ invites' = Append(invites, row)
    BY <1>2 DEF upsert, TypeInv, TypeOK, TenancyTypeOK
  <2> HIDE DEF row
  <2>3. Len(invites) \in Nat /\ DOMAIN invites = 1 .. Len(invites)
    BY RowFacts
  <2>4. /\ invites' \in Seq(Invite) /\ DOMAIN invites' = 1 .. Len(invites) + 1
        /\ \A i \in DOMAIN invites : invites'[i] = invites[i]
        /\ invites'[Len(invites) + 1] = row
    BY <2>1, <2>2, SeqAdd
  <2>5. \A i \in DOMAIN invites' : i \in DOMAIN invites \/ i = Len(invites) + 1
    BY <2>3, <2>4
  <2>6. DOMAIN invites \subseteq DOMAIN invites'
    BY <2>3, <2>4
  <2> QED BY <1>1, <2>1, <2>4, <2>5, <2>6 DEF InvitesKept
<1>3. CASE inviteOf(e, k) # {}
  <2>1. invites' = [i \in DOMAIN invites |->
                      IF i \in inviteOf(e, k)
                      THEN [invites[i] EXCEPT !.token = t, !.expired = FALSE] ELSE invites[i]]
    BY <1>3 DEF upsert
  <2>2. \A i \in DOMAIN invites :
           /\ [invites[i] EXCEPT !.token = t, !.expired = FALSE] \in Invite
           /\ [invites[i] EXCEPT !.token = t, !.expired = FALSE].token = t
    BY <1>1 DEF Invite
  <2>3. invites' \in [DOMAIN invites -> Invite]
    BY <1>1, <2>1, <2>2
  <2>4. \A i \in DOMAIN invites : invites'[i].token \in DOMAIN issued'
    BY <1>1, <2>1, <2>2
  <2> QED BY <2>3, <2>4, InvitesOn
<1> QED BY <1>2, <1>3

LEMMA IssuedPut ==
  ASSUME TypeInv, NEW t \in DOMAIN issued, NEW row \in IssuedToken,
         issued' = [issued EXCEPT ![t] = row]
  PROVE  IssuedKept /\ DOMAIN issued' = DOMAIN issued
<1>1. issued \in Seq(IssuedToken)
  BY DEF TypeInv, TypeOK, TenancyTypeOK
<1> QED BY <1>1, SeqPut DEF IssuedKept

LEMMA IssuedAdd ==
  ASSUME TypeInv, NEW row \in IssuedToken, issued' = Append(issued, row)
  PROVE  IssuedKept /\ DOMAIN issued' = 1 .. Len(issued) + 1
<1>1. issued \in Seq(IssuedToken) /\ Len(issued) \in Nat /\ DOMAIN issued = 1 .. Len(issued)
  BY RowFacts DEF TypeInv, TypeOK, TenancyTypeOK
<1>2. issued' \in Seq(IssuedToken) /\ DOMAIN issued' = 1 .. Len(issued) + 1
  BY <1>1, SeqAdd
<1>3. DOMAIN issued \subseteq DOMAIN issued'
  BY <1>1, <1>2
<1> QED BY <1>2, <1>3 DEF IssuedKept

LEMMA PlanPut ==
  ASSUME TypeInv, NEW p \in DOMAIN catalog, NEW row \in Plan,
         catalog' = [catalog EXCEPT ![p] = row]
  PROVE  CatalogKept
<1>1. catalog \in Seq(Plan)
  BY DEF TypeInv, TypeOK, TenancyTypeOK
<1> QED BY <1>1, SeqPut DEF CatalogKept

LEMMA PlanAdd ==
  ASSUME TypeInv, NEW row \in Plan, catalog' = Append(catalog, row)
  PROVE  CatalogKept /\ DOMAIN catalog' = 1 .. Len(catalog) + 1
<1>1. catalog \in Seq(Plan) /\ Len(catalog) \in Nat /\ DOMAIN catalog = 1 .. Len(catalog)
  BY RowFacts DEF TypeInv, TypeOK, TenancyTypeOK
<1>2. catalog' \in Seq(Plan) /\ DOMAIN catalog' = 1 .. Len(catalog) + 1
  BY <1>1, SeqAdd
<1>3. DOMAIN catalog \subseteq DOMAIN catalog'
  BY <1>1, <1>2
<1> QED BY <1>2, <1>3 DEF CatalogKept

LEMMA Together ==
  ASSUME TypeInv,
         tenants' = tenants \/ TenantsKept, users' = users \/ UsersKept,
         invites' = invites \/ InvitesKept, issued' = issued \/ IssuedKept,
         catalog' = catalog \/ CatalogKept,
         subscriptions' = subscriptions \/ SubscriptionsKept,
         interrupted' = interrupted \/ interrupted' \subseteq 1 .. MaxTenants
  PROVE  RowsKept /\ Grows
<1>1. DOMAIN tenants \subseteq DOMAIN tenants' /\ DOMAIN users \subseteq DOMAIN users'
      /\ DOMAIN issued \subseteq DOMAIN issued'
  BY DEF TenantsKept, UsersKept, IssuedKept
<1>2. TenantsKept /\ UsersKept /\ InvitesKept /\ IssuedKept /\ CatalogKept
      /\ SubscriptionsKept /\ interrupted' \subseteq 1 .. MaxTenants
  BY <1>1, TenantsSame, UsersSame, InvitesSame, IssuedSame, CatalogSame, SubscriptionsSame,
     InterruptedSame
<1>3. RowsKept
  BY <1>2 DEF RowsKept
<1> QED BY <1>3, RowsGrow

Typed == RowsKept /\ RequestsKept

\* Of a step that leaves the rows alone only the request matters.
LEMMA PureTyped == ASSUME TypeInv, Pure PROVE RowsKept /\ Grows
BY Together DEF Pure

(* Registration. *)

LEMMA FounderType ==
  ASSUME NEW k \in Nat \ {0}, NEW e \in Emails
  PROVE  /\ Founder(k, e) \in User /\ Founder(k, e).tenant = k /\ Founder(k, e).key = 0
         /\ Founder(k, e).fate = "stored" /\ Founder(k, e).email = e
BY PasswordsAssumption DEF Founder, User

LEMMA NewTenantType ==
  ASSUME NEW u \in Nat PROVE NewTenant(u) \in Tenant /\ NewTenant(u).founder = u
BY DEF NewTenant, Tenant, Stages

LEMMA RoomForTenant ==
  ASSUME TypeInv, Len(tenants) < scenario.organizations PROVE Len(tenants) < MaxTenants
<1>1. scenario \in Scenarios /\ Len(tenants) \in Nat
  BY RowFacts DEF TypeInv, TypeOK, TenancyTypeOK
<1> QED BY <1>1, ScenariosAssumption, TenantsAssumption

LEMMA RegisterInTransactionTyped ==
  ASSUME TypeInv, NEW r \in Requests, RegisterInTransaction(r) PROVE Typed
<1>1. CASE ~EmailIsFree(req[r].email)
  <2>1. RowsKept /\ Grows /\ Finish(r)
    BY <1>1, Together DEF RegisterInTransaction
  <2> QED BY <2>1, FinishFits DEF Typed, RequestsKept
<1>2. CASE EmailIsFree(req[r].email)
  <2> DEFINE k == Len(tenants) + 1
             u == Len(users) + 1
             q == [req[r] EXCEPT !.pc = "mail", !.tenant = k, !.user = u]
  <2>1. /\ req[r] \in Request /\ RequestFits(req[r]) /\ req \in [Requests -> Request]
        /\ req[r].email \in Emails /\ req[r].op = "register"
    BY ReqFacts DEF RegisterInTransaction, At, RequestFits, RegisterPcs
  <2>2. k \in Nat \ {0} /\ u \in Nat \ {0} /\ DOMAIN tenants = 1 .. Len(tenants)
        /\ DOMAIN users = 1 .. Len(users) /\ Len(tenants) \in Nat /\ Len(users) \in Nat
    BY RowFacts
  <2>3. /\ users' = Append(users, Founder(k, req[r].email))
        /\ tenants' = Append(tenants, NewTenant(u))
        /\ req' = [req EXCEPT ![r] = q] /\ Len(tenants) < MaxTenants
        /\ UNCHANGED <<invites, issued, catalog, subscriptions, interrupted>>
    BY <1>2, RoomForTenant DEF RegisterInTransaction
  <2>4. users \in Seq(User) /\ tenants \in Seq(Tenant)
    BY DEF TypeInv, TypeOK, TenancyTypeOK
  <2>5. DOMAIN users' = 1 .. u /\ DOMAIN tenants' = 1 .. k
    BY <2>1, <2>2, <2>3, <2>4, FounderType, NewTenantType, SeqAdd
  <2>6. DOMAIN users \subseteq DOMAIN users' /\ DOMAIN tenants \subseteq DOMAIN tenants'
        /\ u \in DOMAIN users' /\ k \in DOMAIN tenants'
    BY <2>2, <2>5
  <2>7. TenantsKept
    BY <2>2, <2>3, <2>6, NewTenantType, TenantAdd
  <2>8. UsersKept
    BY <2>1, <2>2, <2>3, <2>6, FounderType, UserAdd
  <2>9. RowsKept /\ Grows
    BY <2>3, <2>7, <2>8, Together
  <2>10. q \in Request /\ q.pc = "mail" /\ q.op = "register" /\ q.email \in Emails
         /\ q.tenant = k /\ q.user = u
    BY <2>1, <2>2 DEF Request, Pcs
  <2> HIDE DEF q, u, k
  <2>11. req' \in [Requests -> Request]
    BY <2>1, <2>3, <2>10
  <2>12. RequestFits(req[r])'
    BY <2>1, <2>3, <2>6, <2>10 DEF RequestFits, RegisterPcs, InvitePcs, AcceptPcs
  <2>13. ASSUME NEW p \in Requests PROVE RequestFits(req[p])'
    <3>1. CASE p = r BY <2>12, <3>1
    <3>2. CASE p # r
      <4>1. req'[p] = req[p] /\ RequestFits(req[p])
        BY <2>1, <2>3, <3>2, ReqFacts
      <4> QED BY <2>9, <4>1 DEF RequestFits, Grows, IdleRequest
    <3> QED BY <3>1, <3>2
  <2> QED BY <2>9, <2>11, <2>13 DEF Typed, RequestsKept
<1> QED BY <1>1, <1>2

\* The request moves on to a point that needs what the step wrote.
LEMMA StepFits ==
  ASSUME TypeInv, Grows, NEW r \in Requests, NEW q \in Request,
         req' = [req EXCEPT ![r] = q], RequestFits(req[r])'
  PROVE  RequestsKept
<1>1. req \in [Requests -> Request]
  BY ReqFacts DEF TypeInv, TypeOK, TenancyTypeOK
<1>2. req' \in [Requests -> Request]
  BY <1>1
<1>3. ASSUME NEW p \in Requests PROVE RequestFits(req[p])'
  <2>1. CASE p = r BY <2>1
  <2>2. CASE p # r
    <3>1. req'[p] = req[p] /\ RequestFits(req[p])
      BY <1>1, <2>2, ReqFacts
    <3> QED BY <3>1 DEF RequestFits, Grows, IdleRequest
  <2> QED BY <2>1, <2>2
<1> QED BY <1>2, <1>3 DEF RequestsKept

LEMMA RestFits == ASSUME TypeInv, Grows, req' = req PROVE RequestsKept
<1>1. ASSUME NEW p \in Requests PROVE RequestFits(req[p])'
  <2>1. req'[p] = req[p] /\ RequestFits(req[p])
    BY ReqFacts
  <2> QED BY <2>1 DEF RequestFits, Grows, IdleRequest
<1> QED BY <1>1 DEF RequestsKept, TypeInv, TypeOK, TenancyTypeOK

LEMMA FinishTyped ==
  ASSUME TypeInv, RowsKept, Grows, NEW r \in Requests, Finish(r) PROVE Typed
BY FinishFits DEF Typed, RequestsKept

LEMMA TenantStage ==
  ASSUME TypeInv, NEW k \in DOMAIN tenants, NEW stage \in Stages, NEW on \in BOOLEAN,
         tenants' = [tenants EXCEPT ![k] = [@ EXCEPT !.stage = stage, !.active = on]],
         DOMAIN users \subseteq DOMAIN users'
  PROVE  TenantsKept
<1> DEFINE row == [tenants[k] EXCEPT !.stage = stage, !.active = on]
<1>1. tenants[k] \in Tenant /\ tenants[k].founder \in DOMAIN users \cup {0}
  BY RowFacts DEF TypeInv, RowsFit
<1>2. row \in Tenant /\ row.founder = tenants[k].founder
  BY <1>1 DEF Tenant
<1>3. tenants' = [tenants EXCEPT ![k] = row]
  OBVIOUS
<1> HIDE DEF row
<1> QED BY <1>1, <1>2, <1>3, TenantPut

LEMMA DeleteTenantKeeps ==
  ASSUME TypeInv, NEW k \in DOMAIN tenants, tenants' = deleteTenantById(k),
         DOMAIN users \subseteq DOMAIN users'
  PROVE  TenantsKept
<1>1. tenants[k] \in Tenant
  BY RowFacts
<1>2. tenants' = [tenants EXCEPT ![k] = [@ EXCEPT !.stage = "undone",
                                                  !.active = tenants[k].active]]
  BY <1>1 DEF deleteTenantById, Tenant
<1> QED BY <1>1, <1>2, TenantStage DEF Tenant, Stages

LEMMA CreateTenantTyped ==
  ASSUME TypeInv, NEW r \in Requests, CreateTenant(r) PROVE Typed
<1> DEFINE k == Len(tenants) + 1
           q == [req[r] EXCEPT !.pc = "founder", !.tenant = k]
<1>1. /\ req[r] \in Request /\ req[r].email \in Emails /\ req[r].op = "register"
  BY ReqFacts DEF CreateTenant, At, RequestFits, RegisterPcs
<1>2. k \in Nat \ {0} /\ Len(tenants) \in Nat /\ Len(tenants) < MaxTenants
      /\ k \in 1 .. Len(tenants) + 1
  BY RowFacts, RoomForTenant DEF CreateTenant
<1>3. TenantsKept /\ DOMAIN tenants' = 1 .. Len(tenants) + 1
  BY <1>2, NewTenantType, TenantAdd DEF CreateTenant
<1>4. RowsKept /\ Grows
  BY <1>3, Together DEF CreateTenant
<1>5. /\ q \in Request /\ q.pc = "founder" /\ q.tenant = k
      /\ q.op = "register" /\ q.email \in Emails
  BY <1>1, <1>2 DEF Request, Pcs
<1>6. req' = [req EXCEPT ![r] = q]
  BY DEF CreateTenant
<1> HIDE DEF q, k
<1>7. req'[r] = q
  BY <1>6, ReqFacts
<1>8. RequestFits(req[r])'
  BY <1>2, <1>3, <1>5, <1>7 DEF RequestFits, RegisterPcs, InvitePcs, AcceptPcs
<1> QED BY <1>4, <1>5, <1>6, <1>8, StepFits DEF Typed

LEMMA CreateFounderTyped ==
  ASSUME TypeInv, NEW r \in Requests, CreateFounder(r) PROVE Typed
<1> DEFINE k == req[r].tenant
           u == Len(users) + 1
           q == [req[r] EXCEPT !.pc = "mail", !.user = u]
<1>1. /\ req[r] \in Request /\ req[r].email \in Emails /\ req[r].op = "register"
      /\ k \in DOMAIN tenants /\ req[r].pc = "founder"
  BY ReqFacts DEF CreateFounder, At, RequestFits, RegisterPcs
<1>2. k \in Nat \ {0} /\ u \in Nat \ {0} /\ Len(users) \in Nat /\ u \in 1 .. Len(users) + 1
      /\ tenants[k] \in Tenant /\ DOMAIN users = 1 .. Len(users)
      /\ DOMAIN users \subseteq 1 .. Len(users) + 1
  BY <1>1, RowFacts
<1>3. CASE FounderRefused(r) /\ UNCHANGED <<users, tenants>>
  <2>1. RowsKept /\ Grows
    BY <1>3, Together DEF CreateFounder
  <2> QED BY <1>1, <1>3, <2>1, GotoFits DEF FounderRefused, Typed, RequestsKept
<1>4. CASE /\ users' = Append(users, Founder(k, req[r].email))
           /\ tenants' = [tenants EXCEPT ![k].founder = u]
           /\ req' = [req EXCEPT ![r] = q]
  <2> DEFINE row == [tenants[k] EXCEPT !.founder = u]
  <2>1. row \in Tenant /\ row.founder = u /\ tenants' = [tenants EXCEPT ![k] = row]
    BY <1>2, <1>4 DEF Tenant
  <2>2. users \in Seq(User) /\ tenants \in Seq(Tenant)
    BY DEF TypeInv, TypeOK, TenancyTypeOK
  <2>3. DOMAIN tenants' = DOMAIN tenants /\ issued' = issued
    BY <1>1, <1>4 DEF CreateFounder
  <2> HIDE DEF row
  <2>4. DOMAIN users' = 1 .. Len(users) + 1
    BY <1>1, <1>2, <1>4, <2>2, FounderType, SeqAdd
  <2>5. TenantsKept
    BY <1>1, <1>2, <2>1, <2>4, TenantPut
  <2>6. UsersKept
    BY <1>1, <1>2, <1>4, <2>3, FounderType, UserAdd
  <2>7. RowsKept /\ Grows
    BY <2>5, <2>6, Together DEF CreateFounder
  <2>8. /\ q \in Request /\ q.pc = "mail" /\ q.tenant = k /\ q.user = u
        /\ q.op = "register" /\ q.email \in Emails
    BY <1>1, <1>2 DEF Request, Pcs
  <2> HIDE DEF q, u, k
  <2>9. req'[r] = q
    BY <1>4, ReqFacts
  <2>10. RequestFits(req[r])'
    BY <1>1, <1>2, <2>3, <2>4, <2>8, <2>9 DEF RequestFits, RegisterPcs, InvitePcs, AcceptPcs
  <2> QED BY <1>4, <2>7, <2>8, <2>10, StepFits DEF Typed
<1> QED BY <1>3, <1>4 DEF CreateFounder

LEMMA DropTenantTyped ==
  ASSUME TypeInv, NEW r \in Requests, DropTenant(r) \/ UndoTenant(r) PROVE Typed
<1>1. req[r].tenant \in DOMAIN tenants
  BY ReqFacts DEF DropTenant, UndoTenant, At, RequestFits, RegisterPcs
<1>2. TenantsKept
  BY <1>1, DeleteTenantKeeps DEF DropTenant, UndoTenant
<1>3. RowsKept /\ Grows
  BY <1>2, Together DEF DropTenant, UndoTenant
<1> QED BY <1>3, FinishTyped DEF DropTenant, UndoTenant

LEMMA SendVerificationTyped ==
  ASSUME TypeInv, NEW r \in Requests, SendVerification(r) PROVE Typed
<1>1. PICK a \in BOOLEAN :
           users' = updateById(req[r].user, [users[req[r].user] EXCEPT !.mailed = a])
  BY DEF SendVerification, Arrives
<1>2. req[r].pc = "mail" /\ req[r].user \in DOMAIN users
  BY ReqFacts DEF SendVerification, At, RequestFits
<1> DEFINE u == req[r].user
           row == [users[u] EXCEPT !.mailed = a]
<1>3. users[u] \in User /\ users[u].key \in DOMAIN issued \cup {0}
  BY <1>2, RowFacts DEF TypeInv, RowsFit
<1>4. row \in User /\ row.tenant = users[u].tenant /\ row.key = users[u].key
  BY <1>3 DEF User
<1> HIDE DEF row
<1>5. UsersKept
  BY <1>1, <1>3, <1>4, UpdateByIdKeeps DEF SendVerification, row
<1>6. RowsKept /\ Grows
  BY <1>5, Together DEF SendVerification
<1>7. CASE Finish(r)
  BY <1>6, <1>7, FinishTyped
<1>8. CASE Goto(r, "undo")
  BY <1>2, <1>6, <1>8, GotoFits DEF Typed, RequestsKept
<1> QED BY <1>7, <1>8 DEF SendVerification

LEMMA UndoRegistrationTyped ==
  ASSUME TypeInv, NEW r \in Requests, UndoRegistration(r) PROVE Typed
<1>1. req[r].pc = "undo" /\ req[r].tenant \in DOMAIN tenants
  BY ReqFacts DEF UndoRegistration, At, RequestFits, RegisterPcs
<1>2. /\ users' = deleteByIdAndTenantId(req[r].user, "undone")
      /\ UNCHANGED <<invites, issued, catalog, subscriptions, interrupted>>
      /\ \/ tenants' = deleteTenantById(req[r].tenant) /\ Finish(r)
         \/ Goto(r, "undoTenant") /\ UNCHANGED tenants
  BY DEF UndoRegistration
<1>3. DOMAIN tenants' = DOMAIN tenants
  BY <1>2 DEF deleteTenantById
<1>4. UsersKept
  BY <1>2, <1>3, DeleteUserKeeps
<1>5. tenants' = tenants \/ TenantsKept
  BY <1>1, <1>2, <1>4, DeleteTenantKeeps DEF UsersKept
<1>6. RowsKept /\ Grows
  BY <1>2, <1>4, <1>5, Together
<1>7. CASE Finish(r)
  BY <1>6, <1>7, FinishTyped
<1>8. CASE Goto(r, "undoTenant")
  BY <1>1, <1>6, <1>8, GotoFits DEF Typed, RequestsKept
<1> QED BY <1>2, <1>7, <1>8

LEMMA MarkVerifiedTyped ==
  ASSUME TypeInv, NEW r \in Requests, MarkVerified(r) PROVE Typed
<1> DEFINE u == req[r].user
           row == [users[u] EXCEPT !.verified = TRUE, !.link = "none"]
<1>1. StoredUser(u) => /\ users[u] \in User /\ users[u].key \in DOMAIN issued \cup {0}
  BY RowFacts DEF StoredUser, TypeInv, RowsFit
<1>2. StoredUser(u) => row \in User /\ row.tenant = users[u].tenant /\ row.key = users[u].key
  BY <1>1 DEF User
<1>3. users' = updateById(u, row)
  BY DEF MarkVerified, markEmailVerified
<1> HIDE DEF row
<1>4. UsersKept
  BY <1>1, <1>2, <1>3, UpdateByIdKeeps DEF MarkVerified
<1>5. RowsKept /\ Grows
  BY <1>4, Together DEF MarkVerified
<1> QED BY <1>5, FinishTyped DEF MarkVerified

(* Invitations, and the users they make. *)

LEMMA InviteReadTyped ==
  ASSUME TypeInv, NEW r \in Requests,
         InviteReadTenant(r) \/ AssertWithinUserLimit(r)
  PROVE  Typed
<1>1. RowsKept /\ Grows
  BY Together DEF InviteReadTenant, AssertWithinUserLimit
<1>2. req[r].pc \in {"tenant", "limit"}
  BY DEF InviteReadTenant, AssertWithinUserLimit, At
<1>3. Finish(r) \/ \E pc \in {"count", "invite"} : Goto(r, pc)
  BY DEF InviteReadTenant, AssertWithinUserLimit
<1>4. CASE Finish(r)
  BY <1>1, <1>4, FinishTyped
<1>5. ASSUME NEW pc \in {"count", "invite"}, Goto(r, pc) PROVE Typed
  <2>1. req[r].pc \in InvitePcs /\ pc \in InvitePcs \ {"upsert", "undoInvitee", "send"}
    BY <1>2, <1>5 DEF InvitePcs
  <2> QED BY <1>1, <1>5, <2>1, GotoFits DEF Typed, RequestsKept
<1> QED BY <1>3, <1>4, <1>5

LEMMA PriceRead ==
  ASSUME TypeInv, NEW k \in DOMAIN tenants
  PROVE  /\ subscriptions[k].row \in SubscriptionView /\ subscriptions[k].held \subseteq Nat
         /\ k \in 1 .. MaxTenants
<1>1. k \in 1 .. MaxTenants
  BY RowFacts, TenantsAssumption DEF TypeInv, RowsFit
<1> QED BY <1>1 DEF TypeInv, TypeOK, TenancyTypeOK, Subscription

LEMMA InviteCountTyped ==
  ASSUME TypeInv, NEW r \in Requests, InviteCount(r) \/ ReadSubscription(r) PROVE Typed
<1>1. RowsKept /\ Grows
  BY Together DEF InviteCount, ReadSubscription
<1>2. /\ req[r] \in Request /\ RequestFits(req[r]) /\ req[r].pc \in {"count", "subscription"}
      /\ req[r].tenant \in DOMAIN tenants
  BY ReqFacts DEF InviteCount, ReadSubscription, At, RequestFits, InvitePcs
<1>3. PICK q \in Request :
           /\ req' = [req EXCEPT ![r] = q] /\ q.pc \in {"subscription", "limit"}
           /\ q.op = req[r].op /\ q.email = req[r].email /\ q.tenant = req[r].tenant
           /\ q.user = req[r].user
  <2>1. CASE InviteCount(r)
    <3> DEFINE q == [req[r] EXCEPT !.pc = "subscription", !.seen = countByTenantId(req[r].tenant)]
    <3>1. countByTenantId(req[r].tenant) \in Nat
      BY SeatsAreFinite
    <3>2. q \in Request /\ req' = [req EXCEPT ![r] = q] /\ q.pc \in {"subscription", "limit"}
           /\ q.op = req[r].op /\ q.email = req[r].email /\ q.tenant = req[r].tenant
           /\ q.user = req[r].user
      BY <1>2, <2>1, <3>1 DEF InviteCount, Request, Pcs
    <3> HIDE DEF q
    <3> QED BY <3>2
  <2>2. CASE ReadSubscription(r)
    <3> DEFINE sub == subscriptions[req[r].tenant].row
               c == IF HasActiveSubscription(sub) THEN sub.price ELSE 0
               q == [req[r] EXCEPT !.pc = "limit", !.price = c]
    <3>1. c \in Nat
      BY <1>2, PriceRead DEF SubscriptionView
    <3>2. req' = [req EXCEPT ![r] = q]
      BY <2>2 DEF ReadSubscription
    <3> HIDE DEF c
    <3>3. q \in Request /\ q.pc \in {"subscription", "limit"}
           /\ q.op = req[r].op /\ q.email = req[r].email /\ q.tenant = req[r].tenant
           /\ q.user = req[r].user
      BY <1>2, <3>1 DEF Request, Pcs
    <3> HIDE DEF q
    <3> QED BY <3>2, <3>3
  <2> QED BY <2>1, <2>2 DEF InviteCount, ReadSubscription
<1>4. RequestFits(q)
  BY <1>2, <1>3 DEF RequestFits, RegisterPcs, InvitePcs, AcceptPcs
<1> QED BY <1>1, <1>3, <1>4, MoveFits DEF Typed, RequestsKept

LEMMA InviteeType ==
  ASSUME NEW k \in Nat \ {0}, NEW e \in Emails, NEW role \in {"admin", "member"}
  PROVE  /\ Invitee(k, e, role) \in User /\ Invitee(k, e, role).tenant = k
         /\ Invitee(k, e, role).key = 0
BY DEF Invitee, User

LEMMA RolesOfScenario ==
  ASSUME TypeInv, NEW role \in scenario.roles PROVE role \in {"admin", "member"}
<1>1. scenario \in Scenarios
  BY DEF TypeInv, TypeOK, TenancyTypeOK
<1> QED BY <1>1, ScenariosAssumption

LEMMA InvitedUsersKept ==
  ASSUME TypeInv, NEW r \in Requests, At(r, "invite"), NEW role \in {"admin", "member"},
         users' = InvitedUsers(r, role), UNCHANGED tenants,
         DOMAIN issued \subseteq DOMAIN issued'
  PROVE  /\ UsersKept /\ InviteeCreated(r) \in DOMAIN users' /\ InviteeCreated(r) \in Nat \ {0}
<1>1. /\ req[r] \in Request /\ req[r].email \in Emails /\ req[r].tenant \in DOMAIN tenants
      /\ req[r].user \in DOMAIN users \cup {0}
  BY ReqFacts DEF At, RequestFits, InvitePcs
<1>2. req[r].tenant \in Nat \ {0} /\ DOMAIN users = 1 .. Len(users) /\ Len(users) \in Nat
  BY <1>1, RowFacts
<1>3. CASE req[r].user = 0
  <2> DEFINE row == Invitee(req[r].tenant, req[r].email, role)
  <2>1. /\ row \in User /\ row.tenant = req[r].tenant /\ row.key = 0
    BY <1>1, <1>2, InviteeType
  <2>2. users' = Append(users, row) /\ InviteeCreated(r) = Len(users) + 1
    BY <1>3 DEF InvitedUsers, InviteeCreated
  <2> HIDE DEF row
  <2> QED BY <1>1, <1>2, <2>1, <2>2, UserAdd
<1>4. CASE req[r].user # 0
  <2> DEFINE u == req[r].user
             row == [users[u] EXCEPT !.role = role]
  <2>1. users[u] \in User /\ u \in DOMAIN users /\ users[u].key \in DOMAIN issued \cup {0}
    BY <1>1, <1>4, RowFacts DEF TypeInv, RowsFit
  <2>2. row \in User /\ row.tenant = users[u].tenant /\ row.key = users[u].key
    BY <2>1 DEF User
  <2>3. users' = updateById(u, row) /\ InviteeCreated(r) = u
    BY <1>4 DEF InvitedUsers, InviteeCreated
  <2> HIDE DEF row, u
  <2>4. UsersKept
    BY <2>1, <2>2, <2>3, UpdateByIdKeeps
  <2> QED BY <1>2, <2>1, <2>3, <2>4 DEF UsersKept
<1> QED BY <1>3, <1>4

LEMMA IssueKept ==
  ASSUME TypeInv, NEW r \in Requests, req[r].pc \in {"invite", "upsert"}, issued' = IssueTo(r),
         invites' = upsert(req[r].tenant, req[r].email, Len(issued) + 1)
  PROVE  /\ IssuedKept /\ InvitesKept
         /\ Len(issued) + 1 \in Nat /\ Len(issued) + 1 \in DOMAIN issued'
<1> DEFINE row == [tenant |-> req[r].tenant, email |-> req[r].email,
                   mailed |-> FALSE, dangling |-> FALSE]
<1>1. /\ req[r].email \in Emails /\ req[r].tenant \in DOMAIN tenants
  BY ReqFacts DEF RequestFits, InvitePcs
<1>2. req[r].tenant \in Nat \ {0} /\ Len(issued) \in Nat /\ DOMAIN issued = 1 .. Len(issued)
  BY <1>1, RowFacts
<1>3. row \in IssuedToken /\ issued' = Append(issued, row)
  BY <1>1, <1>2 DEF IssuedToken, IssueTo
<1> HIDE DEF row
<1>4. IssuedKept /\ DOMAIN issued' = 1 .. Len(issued) + 1
  BY <1>3, IssuedAdd
<1>5. Len(issued) + 1 \in DOMAIN issued' /\ Len(issued) + 1 \in Nat
      /\ DOMAIN issued \subseteq DOMAIN issued'
  BY <1>2, <1>4
<1>6. InvitesKept
  BY <1>1, <1>2, <1>5, UpsertKeeps
<1> QED BY <1>4, <1>5, <1>6

LEMMA InviteInTransactionTyped ==
  ASSUME TypeInv, NEW r \in Requests, InviteInTransaction(r) PROVE Typed
<1>1. CASE EmailRefused(r)
  <2>1. RowsKept /\ Grows
    BY <1>1, Together DEF InviteInTransaction
  <2> QED BY <1>1, <2>1, FinishTyped DEF InviteInTransaction
<1>2. CASE ~EmailRefused(r)
  <2> DEFINE t == Len(issued) + 1
             q == [req[r] EXCEPT !.pc = "send", !.token = t]
  <2>1. /\ req[r] \in Request /\ RequestFits(req[r]) /\ req[r].pc = "invite"
    BY ReqFacts DEF InviteInTransaction, At
  <2>2. IssuedKept /\ InvitesKept /\ t \in Nat /\ t \in DOMAIN issued'
    BY <1>2, <2>1, IssueKept DEF InviteInTransaction
  <2>3. PICK role \in {"admin", "member"} : users' = InvitedUsers(r, role)
    BY <1>2, RolesOfScenario DEF InviteInTransaction
  <2>4. UsersKept
    BY <2>2, <2>3, InvitedUsersKept DEF InviteInTransaction, IssuedKept
  <2>5. RowsKept /\ Grows
    BY <2>2, <2>4, Together DEF InviteInTransaction
  <2>6. req' = [req EXCEPT ![r] = q]
    BY <1>2 DEF InviteInTransaction
  <2>7. /\ q \in Request /\ q.pc = "send" /\ q.op = req[r].op /\ q.email = req[r].email
        /\ q.tenant = req[r].tenant /\ q.user = req[r].user /\ q.token = t
    BY <2>1, <2>2 DEF Request, Pcs
  <2> HIDE DEF q, t
  <2>8. req'[r] = q
    BY <2>6, ReqFacts
  <2>9. RequestFits(req[r])'
    BY <2>1, <2>2, <2>5, <2>7, <2>8 DEF RequestFits, RegisterPcs, InvitePcs, AcceptPcs, Grows
  <2> QED BY <2>5, <2>6, <2>7, <2>9, StepFits DEF Typed
<1> QED BY <1>1, <1>2

LEMMA InviteWriteUserTyped ==
  ASSUME TypeInv, NEW r \in Requests, InviteWriteUser(r) PROVE Typed
<1>1. CASE EmailRefused(r)
  <2>1. RowsKept /\ Grows
    BY <1>1, Together DEF InviteWriteUser
  <2> QED BY <1>1, <2>1, FinishTyped DEF InviteWriteUser
<1>2. CASE ~EmailRefused(r)
  <2> DEFINE u == InviteeCreated(r)
             q == [req[r] EXCEPT !.pc = "upsert", !.user = u, !.on = req[r].user = 0]
  <2>1. /\ req[r] \in Request /\ RequestFits(req[r]) /\ req[r].pc = "invite"
    BY ReqFacts DEF InviteWriteUser, At
  <2>2. PICK role \in {"admin", "member"} : users' = InvitedUsers(r, role)
    BY <1>2, RolesOfScenario DEF InviteWriteUser
  <2>3. UsersKept /\ u \in DOMAIN users' /\ u \in Nat \ {0}
    BY <2>2, InvitedUsersKept DEF InviteWriteUser
  <2>4. RowsKept /\ Grows
    BY <2>3, Together DEF InviteWriteUser
  <2>5. req' = [req EXCEPT ![r] = q]
    BY <1>2 DEF InviteWriteUser
  <2> HIDE DEF u
  <2>6. /\ q \in Request /\ q.pc = "upsert" /\ q.op = req[r].op /\ q.email = req[r].email
        /\ q.tenant = req[r].tenant /\ q.user = u
    BY <2>1, <2>3 DEF Request, Pcs
  <2> HIDE DEF q
  <2>7. req'[r] = q
    BY <2>5, ReqFacts
  <2>8. RequestFits(req[r])'
    BY <2>1, <2>3, <2>4, <2>6, <2>7 DEF RequestFits, RegisterPcs, InvitePcs, AcceptPcs, Grows
  <2> QED BY <2>4, <2>5, <2>6, <2>8, StepFits DEF Typed
<1> QED BY <1>1, <1>2

LEMMA UpsertInviteTyped ==
  ASSUME TypeInv, NEW r \in Requests, UpsertInvite(r) PROVE Typed
<1> DEFINE t == Len(issued) + 1
           q == [req[r] EXCEPT !.pc = "send", !.token = t]
<1>1. /\ req[r] \in Request /\ RequestFits(req[r]) /\ req[r].pc = "upsert"
  BY ReqFacts DEF UpsertInvite, At
<1>2. \/ UNCHANGED <<invites, issued>> /\ (Finish(r) \/ Goto(r, "undoInvitee"))
      \/ /\ invites' = upsert(req[r].tenant, req[r].email, t)
         /\ issued' = IssueTo(r) /\ req' = [req EXCEPT ![r] = q]
  BY DEF UpsertInvite
<1>3. CASE UNCHANGED <<invites, issued>> /\ (Finish(r) \/ Goto(r, "undoInvitee"))
  <2>1. RowsKept /\ Grows
    BY <1>3, Together DEF UpsertInvite
  <2> QED BY <1>1, <1>3, <2>1, FinishTyped, GotoFits DEF Typed, RequestsKept
<1>4. CASE /\ invites' = upsert(req[r].tenant, req[r].email, t)
           /\ issued' = IssueTo(r) /\ req' = [req EXCEPT ![r] = q]
  <2>1. IssuedKept /\ InvitesKept /\ t \in Nat /\ t \in DOMAIN issued'
    BY <1>1, <1>4, IssueKept
  <2>2. RowsKept /\ Grows
    BY <2>1, Together DEF UpsertInvite
  <2>3. /\ q \in Request /\ q.pc = "send" /\ q.op = req[r].op /\ q.email = req[r].email
        /\ q.tenant = req[r].tenant /\ q.user = req[r].user /\ q.token = t
    BY <1>1, <2>1 DEF Request, Pcs
  <2> HIDE DEF q, t
  <2>4. req'[r] = q
    BY <1>4, ReqFacts
  <2>5. RequestFits(req[r])'
    BY <1>1, <2>1, <2>2, <2>3, <2>4 DEF RequestFits, RegisterPcs, InvitePcs, AcceptPcs, Grows
  <2> QED BY <1>4, <2>2, <2>3, <2>5, StepFits DEF Typed
<1> QED BY <1>2, <1>3, <1>4

LEMMA UndoInviteeTyped ==
  ASSUME TypeInv, NEW r \in Requests, UndoInvitee(r) PROVE Typed
<1>1. users' = users \/ UsersKept
  BY DeleteUserKeeps DEF UndoInvitee
<1>2. RowsKept /\ Grows
  BY <1>1, Together DEF UndoInvitee
<1> QED BY <1>2, FinishTyped DEF UndoInvitee

LEMMA IssuedMarked ==
  ASSUME TypeInv, NEW t \in DOMAIN issued, NEW on \in BOOLEAN,
         issued' = [issued EXCEPT ![t].mailed = on] \/ issued' = [issued EXCEPT ![t].dangling = on]
  PROVE  IssuedKept /\ DOMAIN issued' = DOMAIN issued
<1>1. issued[t] \in IssuedToken
  BY RowFacts
<1>2. /\ [issued[t] EXCEPT !.mailed = on] \in IssuedToken
      /\ [issued[t] EXCEPT !.dangling = on] \in IssuedToken
  BY <1>1 DEF IssuedToken
<1>3. PICK row \in IssuedToken : issued' = [issued EXCEPT ![t] = row]
  BY <1>2
<1> QED BY <1>3, IssuedPut

LEMMA SendInviteTyped ==
  ASSUME TypeInv, NEW r \in Requests, SendInvite(r) PROVE Typed
<1>1. req[r].token \in DOMAIN issued
  BY ReqFacts DEF SendInvite, At, RequestFits
<1>2. PICK a \in BOOLEAN : issued' = [issued EXCEPT ![req[r].token].mailed = a]
  BY DEF SendInvite, Arrives
<1>3. IssuedKept
  BY <1>1, <1>2, IssuedMarked
<1>4. RowsKept /\ Grows
  BY <1>3, Together DEF SendInvite
<1> QED BY <1>4, FinishTyped DEF SendInvite

LEMMA AcceptFindAccountTyped ==
  ASSUME TypeInv, NEW r \in Requests, AcceptFindAccount(r) PROVE Typed
<1>1. RowsKept /\ Grows
  BY Together DEF AcceptFindAccount
<1>2. CASE Finish(r)
  BY <1>1, <1>2, FinishTyped
<1>3. ASSUME NEW u \in DOMAIN users,
             req' = [req EXCEPT ![r].pc = "activate", ![r].user = u]
      PROVE  Typed
  <2> DEFINE q == [req[r] EXCEPT !.pc = "activate", !.user = u]
  <2>1. req[r] \in Request /\ RequestFits(req[r]) /\ req[r].pc = "account" /\ u \in Nat
    BY ReqFacts, RowFacts DEF AcceptFindAccount, At
  <2>2. /\ q \in Request /\ q.pc = "activate" /\ q.op = req[r].op /\ q.user = u
        /\ q.token = req[r].token /\ q.invite = req[r].invite
    BY <2>1 DEF Request, Pcs
  <2>3. req' = [req EXCEPT ![r] = q]
    BY <1>3
  <2> HIDE DEF q
  <2>4. RequestFits(q)
    BY <2>1, <2>2 DEF RequestFits, RegisterPcs, InvitePcs, AcceptPcs
  <2> QED BY <1>1, <2>2, <2>3, <2>4, MoveFits DEF Typed, RequestsKept
<1>4. findByEmailInTenant(req[r].email, req[r].tenant) \subseteq DOMAIN users
  BY DEF findByEmailInTenant, findByEmail
<1> QED BY <1>2, <1>3, <1>4 DEF AcceptFindAccount

LEMMA ActivateTyped ==
  ASSUME TypeInv, NEW r \in Requests, Activate(r) PROVE Typed
<1> DEFINE u == req[r].user
           t == req[r].token
<1>1. /\ req[r].pc = "activate" /\ t \in DOMAIN issued /\ u \in DOMAIN users
  BY ReqFacts DEF Activate, At, RequestFits, AcceptPcs
<1>2. PICK p \in Passwords : users' = updateById(u, Activated(u, t, p))
  BY DEF Activate
<1>3. users[u] \in User /\ t \in Nat
  BY <1>1, RowFacts
<1>4. /\ Activated(u, t, p) \in User /\ Activated(u, t, p).tenant = users[u].tenant
      /\ Activated(u, t, p).key = t
  BY <1>3 DEF Activated, User
<1> HIDE DEF u, t
<1>5. UsersKept
  BY <1>1, <1>2, <1>4, UpdateByIdKeeps DEF Activate
<1>6. invites' = invites \/ InvitesKept
  BY DeleteInvitesKeeps DEF Activate, SpendInvite
<1>7. RowsKept /\ Grows
  BY <1>5, <1>6, Together DEF Activate
<1>8. Finish(r) \/ Goto(r, "dropInvite")
  BY DEF Activate
<1> QED BY <1>1, <1>7, <1>8, FinishTyped, GotoFits DEF Typed, RequestsKept

LEMMA DropInviteTyped ==
  ASSUME TypeInv, NEW r \in Requests, DropInvite(r) PROVE Typed
<1>1. req[r].token \in DOMAIN issued
  BY ReqFacts DEF DropInvite, At, RequestFits, AcceptPcs
<1>2. issued' = issued \/ IssuedKept
  BY <1>1, IssuedMarked DEF DropInvite
<1>3. invites' = invites \/ InvitesKept
  BY DeleteInvitesKeeps DEF DropInvite, SpendInvite
<1>4. RowsKept /\ Grows
  BY <1>2, <1>3, Together DEF DropInvite
<1> QED BY <1>4, FinishTyped DEF DropInvite

LEMMA RemoveUserTyped ==
  ASSUME TypeInv, NEW r \in Requests, RemoveUser(r) \/ DropInvitesOf(r) PROVE Typed
<1>1. users' = users \/ UsersKept
  BY DeleteUserKeeps DEF RemoveUser, DropInvitesOf
<1>2. invites' = invites \/ InvitesKept
  BY DeleteInvitesKeeps DEF RemoveUser, DropInvitesOf
<1>3. RowsKept /\ Grows
  BY <1>1, <1>2, Together DEF RemoveUser, DropInvitesOf
<1>4. Finish(r) \/ (req[r].pc = "delete" /\ Goto(r, "dropInvitesOf"))
  BY DEF RemoveUser, DropInvitesOf, At
<1> QED BY <1>3, <1>4, FinishTyped, GotoFits DEF Typed, RequestsKept

LEMMA WriteUserTyped ==
  ASSUME TypeInv, NEW r \in Requests, WriteUser(r) PROVE Typed
<1> DEFINE u == req[r].user
<1>1. \/ \E role \in {"admin", "member"} : users' = updateById(u, [users[u] EXCEPT !.role = role])
      \/ \E on \in BOOLEAN : users' = updateById(u, [users[u] EXCEPT !.active = on])
  BY RolesOfScenario DEF WriteUser
<1>2. StoredUser(u) => users[u] \in User /\ users[u].key \in DOMAIN issued \cup {0}
  BY RowFacts DEF StoredUser, TypeInv, RowsFit
<1>3. PICK row : /\ users' = updateById(u, row)
                 /\ StoredUser(u) => /\ row \in User /\ row.tenant = users[u].tenant
                                     /\ row.key = users[u].key
  <2>1. ASSUME NEW role \in {"admin", "member"},
               users' = updateById(u, [users[u] EXCEPT !.role = role])
        PROVE  \E row : /\ users' = updateById(u, row)
                        /\ StoredUser(u) => /\ row \in User /\ row.tenant = users[u].tenant
                                            /\ row.key = users[u].key
    <3> DEFINE row == [users[u] EXCEPT !.role = role]
    <3>1. StoredUser(u) => /\ row \in User /\ row.tenant = users[u].tenant
                           /\ row.key = users[u].key
      BY <1>2 DEF User
    <3> HIDE DEF row
    <3>2. users' = updateById(u, row)
      BY <2>1 DEF row
    <3> QED BY <3>1, <3>2
  <2>2. ASSUME NEW on \in BOOLEAN,
               users' = updateById(u, [users[u] EXCEPT !.active = on])
        PROVE  \E row : /\ users' = updateById(u, row)
                        /\ StoredUser(u) => /\ row \in User /\ row.tenant = users[u].tenant
                                            /\ row.key = users[u].key
    <3> DEFINE row == [users[u] EXCEPT !.active = on]
    <3>1. StoredUser(u) => /\ row \in User /\ row.tenant = users[u].tenant
                           /\ row.key = users[u].key
      BY <1>2 DEF User
    <3> HIDE DEF row
    <3>2. users' = updateById(u, row)
      BY <2>2 DEF row
    <3> QED BY <3>1, <3>2
  <2> QED BY <1>1, <2>1, <2>2
<1>4. UsersKept
  BY <1>2, <1>3, UpdateByIdKeeps DEF WriteUser
<1>5. RowsKept /\ Grows
  BY <1>4, Together DEF WriteUser
<1> QED BY <1>5, FinishTyped DEF WriteUser

(* Organizations and plans. *)

\* The rows that the steps on users, and those on plans, leave alone.
LEMMA TenantUserStepTenants ==
  ASSUME NEW r, TenantUserStep(r)
  PROVE  UNCHANGED <<tenants, catalog, subscriptions, interrupted>>
<1>1. CASE InviteReadTenant(r) \/ InviteCount(r) \/ ReadSubscription(r) \/ AssertWithinUserLimit(r)
  BY <1>1 DEF InviteReadTenant, InviteCount, ReadSubscription, AssertWithinUserLimit
<1>2. CASE InviteInTransaction(r) \/ InviteWriteUser(r) \/ UpsertInvite(r)
  BY <1>2 DEF InviteInTransaction, InviteWriteUser, UpsertInvite
<1>3. CASE UndoInvitee(r) \/ SendInvite(r) \/ AcceptFindAccount(r) \/ Activate(r)
  BY <1>3 DEF UndoInvitee, SendInvite, AcceptFindAccount, Activate
<1>4. CASE DropInvite(r) \/ RemoveUser(r) \/ DropInvitesOf(r) \/ WriteUser(r)
  BY <1>4 DEF DropInvite, RemoveUser, DropInvitesOf, WriteUser
<1> QED BY <1>1, <1>2, <1>3, <1>4 DEF TenantUserStep

LEMMA CatalogStepRows ==
  ASSUME NEW r, CatalogStep(r)
  PROVE  UNCHANGED <<tenants, users, invites, issued, subscriptions, interrupted>>
<1>1. CASE CreatePrice(r) \/ CreateRow(r)
  BY <1>1 DEF CreatePrice, CreateRow
<1>2. CASE RenameProduct(r) \/ RetirePrice(r)
  BY <1>2 DEF RenameProduct, RetirePrice
<1>3. CASE UpdateRow(r)
  BY <1>3 DEF UpdateRow
<1>4. CASE RetireProduct(r) \/ ArchiveRow(r)
  BY <1>4 DEF RetireProduct, ArchiveRow
<1> QED BY <1>1, <1>2, <1>3, <1>4 DEF CatalogStep

LEMMA TenantUpdatedKept ==
  ASSUME TypeInv, NEW k \in DOMAIN tenants, UNCHANGED users,
         (\E on \in BOOLEAN : tenants' = updateByTenantId(k, on))
           \/ tenants' = softDeleteByTenantId(k)
           \/ tenants' = [tenants EXCEPT ![k].stage = "purged"]
  PROVE  TenantsKept
<1>1. tenants[k] \in Tenant
  BY RowFacts
<1>2. \/ tenants' = tenants
      \/ \E stage \in Stages, on \in BOOLEAN :
           tenants' = [tenants EXCEPT ![k] = [@ EXCEPT !.stage = stage, !.active = on]]
  <2>1. ASSUME NEW on \in BOOLEAN, tenants' = updateByTenantId(k, on), tenantActiveFilter(k)
        PROVE  tenants' = [tenants EXCEPT ![k] = [@ EXCEPT !.stage = tenants[k].stage,
                                                             !.active = on]]
    BY <1>1, <2>1 DEF updateByTenantId, Tenant
  <2>2. ASSUME tenants' = softDeleteByTenantId(k), tenantActiveFilter(k)
        PROVE  tenants' = [tenants EXCEPT ![k] = [@ EXCEPT !.stage = "deleted",
                                                             !.active = FALSE]]
    BY <1>1, <2>2 DEF softDeleteByTenantId, Tenant
  <2>3. ASSUME tenants' = [tenants EXCEPT ![k].stage = "purged"]
        PROVE  tenants' = [tenants EXCEPT ![k] = [@ EXCEPT !.stage = "purged",
                                                             !.active = tenants[k].active]]
    BY <1>1, <2>3 DEF Tenant
  <2>4. tenants[k].stage \in Stages /\ tenants[k].active \in BOOLEAN
        /\ "deleted" \in Stages /\ "purged" \in Stages
    BY <1>1 DEF Tenant, Stages
  <2>5. CASE ~tenantActiveFilter(k)
    BY <2>3, <2>4, <2>5 DEF updateByTenantId, softDeleteByTenantId
  <2> QED BY <2>1, <2>2, <2>3, <2>4, <2>5
<1>3. CASE tenants' = tenants
  BY <1>3, TenantsSame
<1>4. ASSUME NEW stage \in Stages, NEW on \in BOOLEAN,
             tenants' = [tenants EXCEPT ![k] = [@ EXCEPT !.stage = stage, !.active = on]]
      PROVE  TenantsKept
  BY <1>4, TenantStage
<1> QED BY <1>2, <1>3, <1>4

LEMMA TenantWriteTyped ==
  ASSUME TypeInv, NEW r \in Requests, UpdateTenant(r) \/ SoftDeleteTenant(r) PROVE Typed
<1>1. req[r].tenant \in DOMAIN tenants
  BY ReqFacts DEF UpdateTenant, SoftDeleteTenant, At, RequestFits
<1>2. TenantsKept
  BY <1>1, TenantUpdatedKept DEF UpdateTenant, SoftDeleteTenant
<1>3. RowsKept /\ Grows
  BY <1>2, Together DEF UpdateTenant, SoftDeleteTenant
<1> QED BY <1>3, FinishTyped DEF UpdateTenant, SoftDeleteTenant

LEMMA UpdateCurrentTenantTyped ==
  ASSUME TypeInv, NEW r \in Requests, NEW u \in DOMAIN users, UpdateCurrentTenant(r, u)
  PROVE  Typed
<1>1. users[u].tenant \in DOMAIN tenants
  BY DEF TypeInv, RowsFit
<1>2. TenantsKept
  BY <1>1, TenantUpdatedKept DEF UpdateCurrentTenant
<1>3. RowsKept /\ Grows
  BY <1>2, Together DEF UpdateCurrentTenant
<1> QED BY <1>3, RestFits DEF UpdateCurrentTenant, Typed

LEMMA PurgeTenantTyped ==
  ASSUME TypeInv, NEW k \in DOMAIN tenants, PurgeTenant(k) PROVE Typed
<1>1. TenantsKept
  BY TenantUpdatedKept DEF PurgeTenant
<1>2. RowsKept /\ Grows
  BY <1>1, Together DEF PurgeTenant
<1> QED BY <1>2, RestFits DEF PurgeTenant, Typed

LEMMA DtoType ==
  ASSUME TypeInv, NEW dto \in scenario.plans
  PROVE  dto.aiTier \in BOOLEAN /\ dto.aiChatbot \in Overrides /\ dto.maxUsers \in PlanCaps
<1>1. scenario \in Scenarios
  BY DEF TypeInv, TypeOK, TenancyTypeOK
<1> QED BY <1>1, ScenariosAssumption

LEMMA CreatePlanTyped ==
  ASSUME TypeInv, NEW r \in Requests, CreatePlan(r) PROVE Typed
<1> DEFINE p == Len(catalog) + 1
           q == [IdleRequest EXCEPT !.op = "create", !.pc = "price", !.plan = p]
<1>1. PICK dto \in scenario.plans :
           catalog' = Append(catalog,
            [product |-> "active", productTier |-> dto.aiTier, price |-> "none",
             row |-> "none", aiTier |-> dto.aiTier, aiChatbot |-> dto.aiChatbot,
             maxUsers |-> dto.maxUsers])
  BY DEF CreatePlan
<1> DEFINE row == [product |-> "active", productTier |-> dto.aiTier, price |-> "none",
             row |-> "none", aiTier |-> dto.aiTier, aiChatbot |-> dto.aiChatbot,
             maxUsers |-> dto.maxUsers]
<1>2. row \in Plan /\ catalog' = Append(catalog, row)
  BY <1>1, DtoType DEF Plan
<1> HIDE DEF row
<1>3. CatalogKept /\ DOMAIN catalog' = 1 .. Len(catalog) + 1
  BY <1>2, PlanAdd
<1>4. RowsKept /\ Grows
  BY <1>3, Together DEF CreatePlan
<1>5. p \in Nat /\ p \in DOMAIN catalog'
  BY <1>3, RowFacts
<1>6. req' = [req EXCEPT ![r] = q]
  BY DEF CreatePlan, Begin
<1>7. /\ q \in Request /\ q.pc = "price" /\ q.op = "create" /\ q.plan = p
  BY <1>5 DEF IdleRequest, Request, Pcs, Ops
<1> HIDE DEF q, p
<1>8. req'[r] = q
  BY <1>6, ReqFacts
<1>9. RequestFits(req[r])'
  BY <1>5, <1>7, <1>8 DEF RequestFits, RegisterPcs, InvitePcs, AcceptPcs
<1> QED BY <1>4, <1>6, <1>7, <1>9, StepFits DEF Typed

\* What a step on a plan writes to it.
PlanStep(r, row) ==
  LET old == catalog[req[r].plan]
  IN  \/ CreatePrice(r) /\ row = [old EXCEPT !.price = "active"]
      \/ CreateRow(r) /\ row = [old EXCEPT !.row = "live"]
      \/ RenameProduct(r) /\ row = [old EXCEPT !.productTier = req[r].on]
      \/ /\ UpdateRow(r)
         /\ \/ row = RenamedRow(r, old)
            \/ \E dto \in scenario.plans :
                 row = [RenamedRow(r, old) EXCEPT !.aiChatbot = dto.aiChatbot,
                                                  !.maxUsers = dto.maxUsers]
      \/ RetirePrice(r) /\ row = [old EXCEPT !.price = "inactive"]
      \/ RetireProduct(r) /\ row = [old EXCEPT !.product = "inactive"]
      \/ ArchiveRow(r) /\ row = [old EXCEPT !.row = "archived"]

LEMMA PlanStepWrites ==
  ASSUME TypeInv, NEW r \in Requests, CatalogStep(r)
  PROVE  \E row : PlanStep(r, row) /\ catalog' = [catalog EXCEPT ![req[r].plan] = row]
<1> DEFINE p == req[r].plan
           Goal == \E row : PlanStep(r, row) /\ catalog' = [catalog EXCEPT ![p] = row]
<1>1. CASE CreatePrice(r)
  BY <1>1 DEF PlanStep, CreatePrice
<1>2. CASE CreateRow(r)
  BY <1>2 DEF PlanStep, CreateRow
<1>3. CASE RenameProduct(r)
  BY <1>3 DEF PlanStep, RenameProduct
<1>4. CASE UpdateRow(r)
  <2>1. PICK row : /\ catalog' = [catalog EXCEPT ![p] = row]
                   /\ \/ row = RenamedRow(r, catalog[p])
                      \/ \E dto \in scenario.plans :
                           row = [RenamedRow(r, catalog[p]) EXCEPT
                                    !.aiChatbot = dto.aiChatbot, !.maxUsers = dto.maxUsers]
    BY <1>4 DEF UpdateRow
  <2> QED BY <1>4, <2>1 DEF PlanStep
<1>5. CASE RetirePrice(r)
  BY <1>5 DEF PlanStep, RetirePrice
<1>6. CASE RetireProduct(r)
  BY <1>6 DEF PlanStep, RetireProduct
<1>7. CASE ArchiveRow(r)
  BY <1>7 DEF PlanStep, ArchiveRow
<1> QED BY <1>1, <1>2, <1>3, <1>4, <1>5, <1>6, <1>7 DEF CatalogStep

LEMMA RenamedRowType ==
  ASSUME TypeInv, NEW r \in Requests, NEW row \in Plan
  PROVE  /\ RenamedRow(r, row) \in Plan
         /\ RenamedRow(r, row).row = row.row /\ RenamedRow(r, row).price = row.price
         /\ RenamedRow(r, row).product = row.product
         /\ RenamedRow(r, row).maxUsers = row.maxUsers
<1>1. req[r].on \in BOOLEAN
  BY ReqFacts DEF Request
<1> DEFINE tier == IF req[r].seen = 1 THEN req[r].on ELSE row.aiTier
<1>2. tier \in BOOLEAN
  BY <1>1 DEF Plan
<1>3. RenamedRow(r, row) = [row EXCEPT !.aiTier = tier]
  BY DEF RenamedRow
<1> HIDE DEF tier
<1> QED BY <1>2, <1>3 DEF Plan

LEMMA PlanStepTyped ==
  ASSUME TypeInv, NEW r \in Requests, CatalogStep(r) PROVE Typed
<1> DEFINE p == req[r].plan
           old == catalog[p]
<1>1. PICK row : PlanStep(r, row) /\ catalog' = [catalog EXCEPT ![p] = row]
  BY PlanStepWrites
<1>2. req[r].pc \in {"price", "product", "row"}
  BY DEF CatalogStep, CreatePrice, CreateRow, RenameProduct, UpdateRow, RetirePrice,
         RetireProduct, ArchiveRow, At
<1>3. p \in DOMAIN catalog /\ old \in Plan /\ req[r].on \in BOOLEAN
  BY <1>2, ReqFacts, RowFacts DEF RequestFits, Request
<1>4. row \in Plan
  <2>1. CASE row = RenamedRow(r, old)
    BY <1>3, <2>1, RenamedRowType
  <2>2. ASSUME NEW dto \in scenario.plans,
               row = [RenamedRow(r, old) EXCEPT !.aiChatbot = dto.aiChatbot,
                                                !.maxUsers = dto.maxUsers]
        PROVE  row \in Plan
    <3>1. RenamedRow(r, old) \in Plan
      BY <1>3, RenamedRowType
    <3> QED BY <2>2, <3>1, DtoType DEF Plan
  <2>3. CASE \/ row = [old EXCEPT !.price = "active"] \/ row = [old EXCEPT !.row = "live"]
             \/ row = [old EXCEPT !.productTier = req[r].on]
             \/ row = [old EXCEPT !.price = "inactive"]
             \/ row = [old EXCEPT !.product = "inactive"]
             \/ row = [old EXCEPT !.row = "archived"]
    BY <1>3, <2>3 DEF Plan
  <2> QED BY <1>1, <2>1, <2>2, <2>3 DEF PlanStep
<1> HIDE DEF p, old
<1>5. CatalogKept
  BY <1>1, <1>3, <1>4, PlanPut
<1>6. UNCHANGED <<tenants, users, invites, issued, subscriptions, interrupted>>
  BY CatalogStepRows
<1>7. RowsKept /\ Grows
  BY <1>5, <1>6, Together
<1>8. Finish(r) \/ \E pc \in {"product", "row"} : Goto(r, pc)
  BY DEF CatalogStep, CreatePrice, CreateRow, RenameProduct, UpdateRow, RetirePrice,
         RetireProduct, ArchiveRow
<1>9. CASE Finish(r)
  BY <1>7, <1>9, FinishTyped
<1>10. ASSUME NEW pc \in {"product", "row"}, Goto(r, pc) PROVE Typed
  BY <1>2, <1>7, <1>10, GotoFits DEF Typed, RequestsKept
<1> QED BY <1>8, <1>9, <1>10

(* The environment. *)

LEMMA ChangeSubscriptionTyped ==
  ASSUME TypeInv, NEW k \in DOMAIN tenants, ChangeSubscription(k) PROVE Typed
<1>1. PICK p \in {q \in DOMAIN catalog : catalog[q].price = "active"} \cup {0} :
       subscriptions' = [subscriptions EXCEPT
         ![k] = [row |-> [NoSubscription EXCEPT !.live = p # 0, !.price = p],
                 held |-> @.held \cup {p}]]
  BY DEF ChangeSubscription
<1>2. k \in 1 .. MaxTenants
  BY PriceRead
<1>3. p \in Nat
  BY RowFacts
<1> DEFINE sub == [row |-> [NoSubscription EXCEPT !.live = p # 0, !.price = p],
                   held |-> subscriptions[k].held \cup {p}]
<1>4. /\ subscriptions \in [1 .. MaxTenants -> Subscription]
      /\ \A n \in 1 .. MaxTenants : IsFiniteSet(subscriptions[n].held)
  BY DEF TypeInv, TypeOK, TenancyTypeOK, RowsFit
<1>5. subscriptions' = [subscriptions EXCEPT ![k] = sub]
  BY <1>1, <1>2, <1>4
<1>6. sub \in Subscription
  BY <1>2, <1>3, <1>4 DEF Subscription, NoSubscription, SubscriptionView
<1>7. IsFiniteSet(sub.held)
  BY <1>2, <1>4, FS_AddElement
<1> HIDE DEF sub
<1>8. SubscriptionsKept
  BY <1>2, <1>4, <1>5, <1>6, <1>7 DEF SubscriptionsKept
<1>9. RowsKept /\ Grows
  BY <1>8, Together DEF ChangeSubscription
<1> QED BY <1>9, RestFits DEF ChangeSubscription, Typed

LEMMA ExpireLinkTyped ==
  ASSUME TypeInv, NEW u \in DOMAIN users, ExpireLink(u) PROVE Typed
<1> DEFINE row == [users[u] EXCEPT !.link = "expired"]
<1>1. users[u] \in User /\ users[u].key \in DOMAIN issued \cup {0}
  BY RowFacts DEF TypeInv, RowsFit
<1>2. row \in User /\ row.tenant = users[u].tenant /\ row.key = users[u].key
  BY <1>1 DEF User
<1>3. users' = [users EXCEPT ![u] = row]
  BY DEF ExpireLink
<1> HIDE DEF row
<1>4. UsersKept
  BY <1>1, <1>2, <1>3, UserPut DEF ExpireLink
<1>5. RowsKept /\ Grows
  BY <1>4, Together DEF ExpireLink
<1> QED BY <1>5, RestFits DEF ExpireLink, Typed

LEMMA ExpireInviteTyped ==
  ASSUME TypeInv, NEW i \in DOMAIN invites, ExpireInvite(i) \/ PurgeInvite(i) PROVE Typed
<1>1. \A j \in DOMAIN invites : invites[j] \in Invite /\ invites[j].token \in DOMAIN issued
  BY RowFacts DEF TypeInv, RowsFit
<1>2. InvitesKept
  <2>1. CASE ExpireInvite(i)
    <3> DEFINE row == [invites[i] EXCEPT !.expired = TRUE]
    <3>1. row \in Invite /\ row.token = invites[i].token
      BY <1>1 DEF Invite
    <3>2. invites' = [invites EXCEPT ![i] = row]
      BY <2>1 DEF ExpireInvite
    <3> HIDE DEF row
    <3>3. invites \in Seq(Invite) /\ issued' = issued
      BY <2>1 DEF ExpireInvite, TypeInv, TypeOK, TenancyTypeOK
    <3>4. invites' \in Seq(Invite) /\ DOMAIN invites' = DOMAIN invites
      BY <3>1, <3>2, <3>3, SeqPut
    <3>5. \A j \in DOMAIN invites : invites'[j] = IF j = i THEN row ELSE invites[j]
      BY <3>2, <3>3, SeqFacts
    <3> QED BY <1>1, <3>1, <3>3, <3>4, <3>5 DEF InvitesKept
  <2>2. CASE PurgeInvite(i)
    BY <2>2, DeleteInvitesKeeps DEF PurgeInvite
  <2> QED BY <2>1, <2>2
<1>3. RowsKept /\ Grows
  BY <1>2, Together DEF ExpireInvite, PurgeInvite
<1> QED BY <1>3, RestFits DEF ExpireInvite, PurgeInvite, Typed

LEMMA CrashTyped ==
  ASSUME TypeInv, NEW r \in Requests, Crash(r) PROVE Typed
<1>1. issued' = issued \/ IssuedKept
  <2>1. CASE req[r].pc = "dropInvite"
    <3>1. req[r].token \in DOMAIN issued
      BY <2>1, ReqFacts DEF RequestFits, AcceptPcs
    <3>2. issued' = [issued EXCEPT ![req[r].token].dangling = TRUE]
      BY <2>1 DEF Crash, At
    <3> QED BY <3>1, <3>2, IssuedMarked
  <2>2. CASE req[r].pc # "dropInvite"
    BY <2>2 DEF Crash, At
  <2> QED BY <2>1, <2>2
<1>2. interrupted' \subseteq 1 .. MaxTenants
  <2>1. interrupted \subseteq 1 .. MaxTenants
    BY DEF TypeInv, TypeOK, TenancyTypeOK
  <2>2. ASSUME req[r].op = "register", req[r].tenant # 0 PROVE req[r].tenant \in 1 .. MaxTenants
    <3>1. req[r].tenant \in DOMAIN tenants
      BY <2>2, ReqFacts DEF RequestFits
    <3> QED BY <3>1, PriceRead
  <2> QED BY <2>1, <2>2 DEF Crash
<1>3. RowsKept /\ Grows
  BY <1>1, <1>2, Together DEF Crash
<1> QED BY <1>3, FinishTyped DEF Crash

(* Limits. *)

LimitOf(plans, p) ==
  IF p # 0 /\ p \in DOMAIN plans /\ plans[p].row # "none" THEN plans[p].maxUsers
  ELSE FreeLimits.maxUsers

LEMMA LimitIs == \A p : UserLimit(p) = LimitOf(catalog, p) /\ UserLimit(p)' = LimitOf(catalog', p)
<1> SUFFICES ASSUME NEW p
             PROVE  UserLimit(p) = LimitOf(catalog, p) /\ UserLimit(p)' = LimitOf(catalog', p)
  OBVIOUS
<1>1. ASSUME NEW m PROVE [NoPlan.limits EXCEPT !.maxUsers = m].maxUsers = m
  BY DEF NoPlan, Dimensions
<1>2. UserLimit(p) = LimitOf(catalog, p)
  BY <1>1 DEF UserLimit, LimitOf, PlanOfPrice, resolveFeatureLimits, HasActiveSubscription, NoPlan
<1>3. UserLimit(p)' = LimitOf(catalog', p)
  BY <1>1 DEF UserLimit, LimitOf, PlanOfPrice, resolveFeatureLimits, HasActiveSubscription, NoPlan
<1> QED BY <1>2, <1>3

LEMMA LimitType ==
  ASSUME NEW plans \in Seq(Plan), NEW p PROVE LimitOf(plans, p) \in Nat \cup {NoCap}
<1>1. FreeLimits.maxUsers \in Nat
  BY FreeLimitsAssumption DEF Dimensions
<1>2. p \in DOMAIN plans => plans[p] \in Plan
  BY SeqFacts
<1>3. p \in DOMAIN plans => plans[p].maxUsers \in Nat \cup {NoCap}
  BY <1>2, PlanCapsAssumption DEF Plan
<1> QED BY <1>1, <1>3 DEF LimitOf

LEMMA HighestCovers ==
  ASSUME NEW S \in SUBSET (Nat \cup {NoCap}), IsFiniteSet(S), S # {}
  PROVE  Highest(S) \in S /\ \A c \in S : Covers(Highest(S), c)
<1>1. CASE NoCap \in S
  BY <1>1 DEF Highest, Covers
<1>2. CASE NoCap \notin S
  <2>1. S \in SUBSET Nat
    BY <1>2
  <2>2. \E c \in S : \A d \in S : d <= c
    BY <2>1, FiniteMax
  <2>3. Highest(S) = CHOOSE c \in S : \A d \in S : d <= c
    BY <1>2 DEF Highest
  <2> QED BY <1>2, <2>2, <2>3 DEF Covers
<1> QED BY <1>1, <1>2

Limits(plans, held) == {LimitOf(plans, p) : p \in held}

LEMMA LimitsAreFinite ==
  ASSUME NEW plans, NEW held, IsFiniteSet(held) PROVE IsFiniteSet(Limits(plans, held))
<1> DEFINE f == [p \in held |-> LimitOf(plans, p)]
<1>1. f \in Surjection(held, Limits(plans, held))
  BY DEF Surjection, Limits
<1> QED BY <1>1, FS_Surjection

LEMMA CeilingRecorded ==
  ASSUME TypeInv, RowsKept, RecordCeiling
  PROVE  /\ ceiling' \in [1 .. MaxTenants -> Nat \cup {NoCap}]
         /\ \A k \in 1 .. MaxTenants :
              /\ ceiling'[k] \in {ceiling[k]} \cup Limits(catalog', subscriptions'[k].held)
              /\ \A c \in {ceiling[k]} \cup Limits(catalog', subscriptions'[k].held) :
                   Covers(ceiling'[k], c)
<1>1. /\ ceiling \in [1 .. MaxTenants -> Nat \cup {NoCap}]
      /\ catalog' \in Seq(Plan)
      /\ \A k \in 1 .. MaxTenants : IsFiniteSet(subscriptions'[k].held)
  BY DEF TypeInv, TypeOK, TenancyTypeOK, RowsKept, CatalogKept, SubscriptionsKept
<1> DEFINE S(k) == {ceiling[k]} \cup Limits(catalog', subscriptions'[k].held)
<1>2. ASSUME NEW k \in 1 .. MaxTenants
      PROVE  S(k) \in SUBSET (Nat \cup {NoCap}) /\ IsFiniteSet(S(k)) /\ S(k) # {}
  <2>1. IsFiniteSet(Limits(catalog', subscriptions'[k].held))
    BY <1>1, LimitsAreFinite
  <2>2. IsFiniteSet(S(k))
    BY <2>1, FS_AddElement
  <2>3. S(k) \in SUBSET (Nat \cup {NoCap})
    BY <1>1, LimitType DEF Limits
  <2> QED BY <2>2, <2>3
<1>3. \A k \in 1 .. MaxTenants : ceiling'[k] = Highest(S(k))
  BY <1>1, LimitIs DEF RecordCeiling, Limits
<1>4. ASSUME NEW k \in 1 .. MaxTenants
      PROVE  ceiling'[k] \in S(k) /\ \A c \in S(k) : Covers(ceiling'[k], c)
  <2>1. ceiling'[k] = Highest(S(k))
    BY <1>3
  <2>2. S(k) \in SUBSET (Nat \cup {NoCap}) /\ IsFiniteSet(S(k)) /\ S(k) # {}
    BY <1>2
  <2> HIDE DEF S
  <2> QED BY <2>1, <2>2, HighestCovers
<1>5. ceiling' = [k \in 1 .. MaxTenants |-> ceiling'[k]]
  BY <1>1 DEF RecordCeiling
<1>6. \A k \in 1 .. MaxTenants : ceiling'[k] \in Nat \cup {NoCap}
  BY <1>2, <1>4
<1> HIDE DEF S
<1>7. ceiling' \in [1 .. MaxTenants -> Nat \cup {NoCap}]
  BY <1>5, <1>6
<1> QED BY <1>4, <1>7 DEF S

-----------------------------------------------------------------------------
(* Every step keeps the types. *)

LEMMA ProgressTyped ==
  ASSUME TypeInv, NEW r \in Requests, Progress(r) PROVE Typed
<1>1. CASE RegistrationStep(r)
  BY <1>1, RegisterInTransactionTyped, CreateTenantTyped, CreateFounderTyped, DropTenantTyped,
     SendVerificationTyped, UndoRegistrationTyped, MarkVerifiedTyped DEF RegistrationStep
<1>2. CASE TenantUserStep(r)
  BY <1>2, InviteReadTyped, InviteCountTyped, InviteInTransactionTyped, InviteWriteUserTyped,
     UpsertInviteTyped, UndoInviteeTyped, SendInviteTyped, AcceptFindAccountTyped,
     ActivateTyped, DropInviteTyped, RemoveUserTyped, WriteUserTyped DEF TenantUserStep
<1>3. CASE DirectoryStep(r)
  BY <1>3, TenantWriteTyped DEF DirectoryStep
<1>4. CASE CatalogStep(r)
  BY <1>4, PlanStepTyped
<1> QED BY <1>1, <1>2, <1>3, <1>4 DEF Progress

\* An arrival only reads, but for the two operations that begin with their write.
LEMMA ArrivalReads ==
  ASSUME TypeInv, NEW r \in Requests, Arrival(r)
  PROVE  \/ Reading(r) /\ UNCHANGED <<tenants, users, invites, issued, catalog, subscriptions,
                                      interrupted>>
         \/ \E u \in DOMAIN users : UpdateCurrentTenant(r, u)
         \/ CreatePlan(r)
<1> DEFINE Same == UNCHANGED <<tenants, users, invites, issued, catalog, subscriptions,
                               interrupted>>
<1>1. ASSUME NEW e \in Emails, Register(r, e) PROVE Reading(r) /\ Same
  BY <1>1 DEF Reading, Register
<1>2. ASSUME NEW e \in Emails, NEW u \in DOMAIN users, InviteUser(r, u, e)
      PROVE  Reading(r) /\ Same
  BY <1>2 DEF Reading, InviteUser
<1>3. ASSUME NEW u \in DOMAIN users, VerifyEmail(r, u) PROVE Reading(r) /\ Same
  BY <1>3 DEF Reading, VerifyEmail
<1>4. ASSUME NEW u \in DOMAIN users, NEW t \in DOMAIN users, DeleteUser(r, u, t)
      PROVE  Reading(r) /\ Same
  BY <1>4 DEF Reading, DeleteUser
<1>5. ASSUME NEW u \in DOMAIN users, NEW t \in DOMAIN users, UpdateUser(r, u, t)
      PROVE  Reading(r) /\ Same
  BY <1>5 DEF Reading, UpdateUser
<1>6. ASSUME NEW t \in DOMAIN issued, AcceptInvite(r, t) PROVE Reading(r) /\ Same
  BY <1>6 DEF Reading, AcceptInvite
<1>7. ASSUME NEW k \in DOMAIN tenants, NEW op \in {"updateTenant", "softDeleteTenant"},
             PlatformRead(r, k, op)
      PROVE  Reading(r) /\ Same
  BY <1>7 DEF Reading, PlatformRead
<1>8. ASSUME NEW p \in DOMAIN catalog, UpdatePlan(r, p) PROVE Reading(r) /\ Same
  BY <1>8 DEF Reading, UpdatePlan
<1>9. ASSUME NEW p \in DOMAIN catalog, ArchivePlan(r, p) PROVE Reading(r) /\ Same
  BY <1>9 DEF Reading, ArchivePlan
<1> HIDE DEF Same
<1>10. (Reading(r) /\ Same) \/ (\E u \in DOMAIN users : UpdateCurrentTenant(r, u)) \/ CreatePlan(r)
  BY <1>1, <1>2, <1>3, <1>4, <1>5, <1>6, <1>7, <1>8, <1>9 DEF Arrival
<1> QED BY <1>10 DEF Same

LEMMA StepTyped ==
  ASSUME TypeInv, Next PROVE Typed
<1>1. ASSUME NEW r \in Requests, Arrival(r) PROVE Typed
  <2>1. CASE Reading(r) /\ UNCHANGED <<tenants, users, invites, issued, catalog,
                                       subscriptions, interrupted>>
    <3>1. RowsKept /\ Grows
      BY <2>1, Together
    <3> QED BY <2>1, <3>1, ReadingFits DEF Typed, RequestsKept
  <2>2. CASE (\E u \in DOMAIN users : UpdateCurrentTenant(r, u)) \/ CreatePlan(r)
    BY <2>2, UpdateCurrentTenantTyped, CreatePlanTyped
  <2> QED BY <1>1, <2>1, <2>2, ArrivalReads
<1>2. ASSUME NEW r \in Requests, Progress(r) \/ Crash(r) PROVE Typed
  BY <1>2, ProgressTyped, CrashTyped
<1>3. CASE Environment
  BY <1>3, ChangeSubscriptionTyped, PurgeTenantTyped, ExpireLinkTyped, ExpireInviteTyped
     DEF Environment
<1> QED BY <1>1, <1>2, <1>3 DEF Next

LEMMA TypeStep ==
  ASSUME TypeInv, [Next]_tenancyVars PROVE TypeInv'
<1>1. CASE Next
  <2>1. RowsKept /\ RequestsKept
    BY <1>1, StepTyped DEF Typed
  <2>2. ceiling' \in [1 .. MaxTenants -> Nat \cup {NoCap}]
    BY <1>1, <2>1, CeilingRecorded DEF Next
  <2>3. scenario' \in Scenarios /\ transactions' \in BOOLEAN
    BY <1>1 DEF Next, TypeInv, TypeOK, TenancyTypeOK
  <2>4. admins' \subseteq DOMAIN users'
    BY <1>1 DEF Next, RecordAdmins
  <2>5. TypeOK'
    BY <2>1, <2>2, <2>3, <2>4 DEF TypeOK, TenancyTypeOK, RowsKept, TenantsKept, UsersKept,
       InvitesKept, IssuedKept, CatalogKept, SubscriptionsKept, RequestsKept
  <2>6. RowsFit'
    BY <2>1 DEF RowsFit, RowsKept, TenantsKept, UsersKept, InvitesKept, SubscriptionsKept
  <2> QED BY <2>1, <2>5, <2>6 DEF TypeInv, RequestsKept
<1>2. CASE UNCHANGED tenancyVars
  <2>1. TypeOK' /\ RowsFit'
    BY <1>2 DEF TypeInv, TypeOK, TenancyTypeOK, RowsFit, tenancyVars
  <2>2. Grows /\ req' = req
    BY <1>2 DEF Grows, tenancyVars
  <2>3. RequestsKept
    BY <2>2, RestFits
  <2> QED BY <2>1, <2>3 DEF TypeInv, RequestsKept
<1> QED BY <1>1, <1>2

LEMMA InitialRows ==
  ASSUME TenancyInit
  PROVE  /\ scenario.tenants \in Nat /\ scenario.tenants <= MaxTenants
         /\ tenants \in Seq(Tenant) /\ DOMAIN tenants = 1 .. scenario.tenants
         /\ Len(tenants) = scenario.tenants
         /\ users \in Seq(User) /\ DOMAIN users = 1 .. scenario.tenants
         /\ \A k \in DOMAIN tenants : tenants[k] = NewTenant(k)
         /\ \A u \in DOMAIN users :
              /\ users[u] \in User /\ users[u].tenant = u /\ users[u].key = 0
              /\ users[u].fate = "stored" /\ users[u].email = u
         /\ DOMAIN invites = {} /\ DOMAIN issued = {} /\ DOMAIN catalog = {}
<1> DEFINE n == scenario.tenants
<1>1. /\ scenario \in Scenarios /\ tenants = [k \in 1 .. n |-> NewTenant(k)]
      /\ users = [k \in 1 .. n |-> initialUser(k)]
  BY DEF TenancyInit
<1>2. n \in Nat /\ n <= MaxTenants /\ 1 .. n \subseteq Emails
  BY <1>1, ScenariosAssumption, TenantsAssumption
<1>3. \A k \in 1 .. n : NewTenant(k) \in Tenant
  BY <1>2, NewTenantType
<1>4. ASSUME NEW k \in 1 .. n
      PROVE  /\ initialUser(k) \in User /\ initialUser(k).tenant = k /\ initialUser(k).key = 0
             /\ initialUser(k).fate = "stored" /\ initialUser(k).email = k
  <2>1. k \in Nat \ {0} /\ k \in Emails
    BY <1>2
  <2>2. /\ Founder(k, k) \in User /\ Founder(k, k).tenant = k /\ Founder(k, k).key = 0
        /\ Founder(k, k).fate = "stored" /\ Founder(k, k).email = k
    BY <2>1, FounderType
  <2>3. initialUser(k) = [Founder(k, k) EXCEPT !.verified = TRUE, !.link = "none"]
    BY DEF initialUser
  <2> QED BY <2>2, <2>3 DEF User
<1>5. tenants \in [1 .. n -> Tenant] /\ users \in [1 .. n -> User]
  BY <1>1, <1>3, <1>4
<1>6. DOMAIN invites = {} /\ DOMAIN issued = {} /\ DOMAIN catalog = {}
  BY EmptySeq DEF TenancyInit
<1> HIDE DEF n
<1>7. /\ tenants \in Seq(Tenant) /\ DOMAIN tenants = 1 .. n /\ Len(tenants) = n
      /\ users \in Seq(User) /\ DOMAIN users = 1 .. n
  BY <1>2, <1>5, SeqOn
<1> QED BY <1>1, <1>2, <1>4, <1>6, <1>7 DEF n

LEMMA TypeInit == ASSUME TenancyInit PROVE TypeInv
<1>1. subscriptions \in [1 .. MaxTenants -> Subscription]
      /\ \A k \in 1 .. MaxTenants : IsFiniteSet(subscriptions[k].held)
  BY FS_EmptySet DEF TenancyInit, Subscription, SubscriptionView, NoSubscription
<1>2. ceiling \in [1 .. MaxTenants -> Nat \cup {NoCap}]
  BY FreeLimitsAssumption DEF TenancyInit, Dimensions
<1>3. req \in [Requests -> Request] /\ \A r \in Requests : req[r] = IdleRequest
  BY IdleFits DEF TenancyInit
<1>4. scenario \in Scenarios /\ transactions \in BOOLEAN /\ interrupted \subseteq 1 .. MaxTenants
  BY ScenariosAssumption DEF TenancyInit
<1>5. invites \in Seq(Invite) /\ issued \in Seq(IssuedToken) /\ catalog \in Seq(Plan)
  BY EmptySeq DEF TenancyInit
<1>6. admins \subseteq DOMAIN users
  BY DEF TenancyInit
<1>7. TypeOK
  BY <1>1, <1>2, <1>3, <1>4, <1>5, <1>6, InitialRows DEF TypeOK, TenancyTypeOK
<1>8. \A k \in DOMAIN tenants : tenants[k].founder = k
  BY InitialRows DEF NewTenant
<1>9. RowsFit
  BY <1>1, <1>8, InitialRows DEF RowsFit
<1>10. \A r \in Requests : RequestFits(req[r])
  BY <1>3, IdleFits
<1> QED BY <1>7, <1>9, <1>10 DEF TypeInv

\* What the collections and the requests of the organization services hold is well typed,
\* in every state.
THEOREM TypesHold == Spec => []TypeOK
<1>1. TenancyInit => TypeInv
  BY TypeInit
<1>2. TypeInv /\ [Next]_tenancyVars => TypeInv'
  BY TypeStep
<1>3. TypeInv => TypeOK
  BY DEF TypeInv
<1> QED BY <1>1, <1>2, <1>3, PTL DEF Spec

-----------------------------------------------------------------------------
(* What a step moves: one request, and which fields of the rows. *)

Moves(r, ops) ==
  /\ req[r].op \in ops /\ req'[r].op \in ops \cup {"none"}
  /\ \A p \in Requests \ {r} : req'[p] = req[p]

LEMMA FinishMoves ==
  ASSUME TypeInv, NEW r \in Requests, Finish(r), NEW ops, req[r].op \in ops
  PROVE  Moves(r, ops) /\ req'[r] = IdleRequest
BY ReqFacts DEF Finish, Moves, IdleRequest

LEMMA GotoMoves ==
  ASSUME TypeInv, NEW r \in Requests, NEW pc, Goto(r, pc), NEW ops, req[r].op \in ops
  PROVE  Moves(r, ops) /\ req'[r] = [req[r] EXCEPT !.pc = pc]
<1>1. req'[r] = [req[r] EXCEPT !.pc = pc] /\ \A p \in Requests \ {r} : req'[p] = req[p]
  BY ReqFacts DEF Goto
<1>2. req'[r].op = req[r].op
  BY <1>1, ReqFacts DEF Request
<1> QED BY <1>1, <1>2 DEF Moves

LEMMA ReqMoves ==
  ASSUME TypeInv, NEW r \in Requests, NEW q, req' = [req EXCEPT ![r] = q],
         NEW ops, req[r].op \in ops, q.op = req[r].op
  PROVE  Moves(r, ops) /\ req'[r] = q
<1>1. req'[r] = q /\ \A p \in Requests \ {r} : req'[p] = req[p]
  BY ReqFacts
<1> QED BY <1>1 DEF Moves

\* Whose a user is does not change, and a user that is there is not taken away unless
\* the step says so.
SameOwner ==
  \A u \in DOMAIN users :
     u \in DOMAIN users' /\ users'[u].tenant = users[u].tenant /\ users'[u].email = users[u].email
SameFate == \A u \in DOMAIN users : users'[u].fate = users[u].fate
SameKeys ==
  /\ \A u \in DOMAIN users : users'[u].key = users[u].key
  /\ \A u \in DOMAIN users' \ DOMAIN users : users'[u].key = 0

LEMMA UsersUntouched ==
  ASSUME UNCHANGED users PROVE SameOwner /\ SameFate /\ SameKeys
BY DEF SameOwner, SameFate, SameKeys

LEMMA UserWritten ==
  ASSUME TypeInv, NEW u, NEW row, users' = updateById(u, row),
         StoredUser(u) => /\ row.tenant = users[u].tenant /\ row.email = users[u].email
                          /\ row.fate = users[u].fate
  PROVE  /\ SameOwner /\ SameFate /\ DOMAIN users' = DOMAIN users
         /\ \A x \in DOMAIN users :
              \/ users'[x].key = users[x].key
              \/ x = u /\ StoredUser(u) /\ users'[x].key = row.key
         /\ (StoredUser(u) => row.key = users[u].key) => SameKeys
<1>1. \A x \in DOMAIN users : users'[x] = IF x = u /\ StoredUser(u) THEN row ELSE users[x]
  BY RowFacts DEF updateById, StoredUser
<1>2. DOMAIN users' = DOMAIN users
  BY DEF updateById
<1> QED BY <1>1, <1>2 DEF SameOwner, SameFate, SameKeys

LEMMA UserTakenAway ==
  ASSUME TypeInv, NEW u, NEW fate, users' = deleteByIdAndTenantId(u, fate)
  PROVE  /\ SameOwner /\ SameKeys /\ DOMAIN users' = DOMAIN users
         /\ \A x \in DOMAIN users :
              users'[x].fate = IF x = u /\ users[x].fate = "stored" THEN fate ELSE users[x].fate
<1>1. CASE StoredUser(u)
  <2> DEFINE row == [users[u] EXCEPT !.fate = fate]
  <2>1. users' = [users EXCEPT ![u] = row] /\ u \in DOMAIN users /\ users[u].fate = "stored"
    BY <1>1 DEF deleteByIdAndTenantId, StoredUser
  <2>2. /\ row.tenant = users[u].tenant /\ row.email = users[u].email
        /\ row.key = users[u].key /\ row.fate = fate
    BY <2>1, RowFacts DEF User
  <2> HIDE DEF row
  <2>3. \A x \in DOMAIN users : users'[x] = IF x = u THEN row ELSE users[x]
    BY <2>1, RowFacts
  <2>4. DOMAIN users' = DOMAIN users
    BY <2>1
  <2> QED BY <2>1, <2>2, <2>3, <2>4 DEF SameOwner, SameKeys
<1>2. CASE ~StoredUser(u)
  BY <1>2 DEF deleteByIdAndTenantId, StoredUser, SameOwner, SameKeys
<1> QED BY <1>1, <1>2

LEMMA UserAdded ==
  ASSUME TypeInv, NEW row \in User, users' = Append(users, row)
  PROVE  /\ SameOwner /\ SameFate /\ DOMAIN users' = 1 .. Len(users) + 1
         /\ users'[Len(users) + 1] = row
         /\ Len(users) + 1 \notin DOMAIN users /\ Len(users) + 1 # 0
         /\ DOMAIN users' = DOMAIN users \cup {Len(users) + 1}
         /\ row.key = 0 => SameKeys
<1>1. users \in Seq(User) /\ Len(users) \in Nat /\ DOMAIN users = 1 .. Len(users)
  BY RowFacts DEF TypeInv, TypeOK, TenancyTypeOK
<1>2. /\ DOMAIN users' = 1 .. Len(users) + 1
      /\ \A u \in DOMAIN users : users'[u] = users[u]
      /\ users'[Len(users) + 1] = row
  BY <1>1, SeqAdd
<1>3. /\ DOMAIN users' = DOMAIN users \cup {Len(users) + 1}
      /\ Len(users) + 1 \notin DOMAIN users /\ Len(users) + 1 # 0
  BY <1>1, <1>2
<1> QED BY <1>2, <1>3 DEF SameOwner, SameFate, SameKeys

\* The user rows an invitation writes.
LEMMA InvitedUsersFrame ==
  ASSUME TypeInv, NEW r \in Requests, At(r, "invite"), NEW role \in {"admin", "member"},
         users' = InvitedUsers(r, role)
  PROVE  /\ SameOwner /\ SameFate /\ SameKeys
         /\ req[r].user = 0 =>
              /\ InviteeCreated(r) \notin DOMAIN users /\ InviteeCreated(r) # 0
              /\ DOMAIN users' = DOMAIN users \cup {InviteeCreated(r)}
              /\ users'[InviteeCreated(r)] = Invitee(req[r].tenant, req[r].email, role)
         /\ req[r].user # 0 => DOMAIN users' = DOMAIN users
<1>1. /\ req[r].email \in Emails /\ req[r].tenant \in Nat \ {0}
  BY ReqFacts, RowFacts DEF At, RequestFits, InvitePcs
<1>2. CASE req[r].user = 0
  BY <1>1, <1>2, InviteeType, UserAdded DEF InvitedUsers, InviteeCreated
<1>3. CASE req[r].user # 0
  <2> DEFINE u == req[r].user
             row == [users[u] EXCEPT !.role = role]
  <2>1. users' = updateById(u, row)
    BY <1>3 DEF InvitedUsers
  <2>2. StoredUser(u) => /\ row.tenant = users[u].tenant /\ row.email = users[u].email
                         /\ row.fate = users[u].fate /\ row.key = users[u].key
    BY RowFacts DEF StoredUser, User
  <2> HIDE DEF row
  <2> QED BY <1>3, <2>1, <2>2, UserWritten
<1> QED BY <1>2, <1>3

\* The user rows of the steps that only change what is in a row.
LEMMA RowChanged ==
  ASSUME TypeInv, NEW r \in Requests,
         SendVerification(r) \/ MarkVerified(r) \/ WriteUser(r)
  PROVE  SameOwner /\ SameFate /\ SameKeys /\ DOMAIN users' = DOMAIN users
<1> DEFINE u == req[r].user
           Kept(row) == StoredUser(u) => /\ row.tenant = users[u].tenant
                                         /\ row.email = users[u].email
                                         /\ row.fate = users[u].fate /\ row.key = users[u].key
<1>0. StoredUser(u) => users[u] \in User
  BY RowFacts DEF StoredUser
<1>1. \E row : users' = updateById(u, row) /\ Kept(row)
  <2>1. CASE SendVerification(r)
    <3>1. PICK a : users' = updateById(u, [users[u] EXCEPT !.mailed = a])
      BY <2>1 DEF SendVerification
    <3>2. Kept([users[u] EXCEPT !.mailed = a])
      BY <1>0 DEF User
    <3> QED BY <3>1, <3>2
  <2>2. CASE MarkVerified(r)
    <3>1. users' = updateById(u, [users[u] EXCEPT !.verified = TRUE, !.link = "none"])
      BY <2>2 DEF MarkVerified, markEmailVerified
    <3>2. Kept([users[u] EXCEPT !.verified = TRUE, !.link = "none"])
      BY <1>0 DEF User
    <3> QED BY <3>1, <3>2
  <2>3. CASE WriteUser(r)
    <3>1. \/ \E role : users' = updateById(u, [users[u] EXCEPT !.role = role])
          \/ \E on : users' = updateById(u, [users[u] EXCEPT !.active = on])
      BY <2>3 DEF WriteUser
    <3>2. ASSUME NEW x
          PROVE  Kept([users[u] EXCEPT !.role = x]) /\ Kept([users[u] EXCEPT !.active = x])
      BY <1>0 DEF User
    <3> HIDE DEF Kept
    <3> QED BY <3>1, <3>2
  <2> QED BY <2>1, <2>2, <2>3
<1>2. PICK row : users' = updateById(u, row) /\ Kept(row)
  BY <1>1
<1> QED BY <1>2, UserWritten

LEMMA Activation ==
  ASSUME TypeInv, NEW r \in Requests, Activate(r)
  PROVE  /\ SameOwner /\ SameFate /\ DOMAIN users' = DOMAIN users
         /\ \A x \in DOMAIN users :
              \/ users'[x].key = users[x].key
              \/ x = req[r].user /\ users'[x].key = req[r].token
<1> DEFINE u == req[r].user
           t == req[r].token
<1>1. PICK p \in Passwords : users' = updateById(u, Activated(u, t, p))
  BY DEF Activate
<1>2. StoredUser(u) => users[u] \in User
  BY RowFacts DEF StoredUser
<1>3. StoredUser(u) => /\ Activated(u, t, p).tenant = users[u].tenant
                       /\ Activated(u, t, p).email = users[u].email
                       /\ Activated(u, t, p).fate = users[u].fate
                       /\ Activated(u, t, p).key = t
  BY <1>2 DEF Activated, User
<1> HIDE DEF u, t
<1>4. /\ SameOwner /\ SameFate /\ DOMAIN users' = DOMAIN users
      /\ \A x \in DOMAIN users :
           \/ users'[x].key = users[x].key
           \/ x = u /\ StoredUser(u) /\ users'[x].key = Activated(u, t, p).key
  BY <1>1, <1>3, UserWritten
<1> QED BY <1>3, <1>4 DEF u, t

\* Where an operation that begins with a read begins.
FirstPcs == {"create", "tenant", "verify", "delete", "write", "account", "price", "product", "row"}

LEMMA BeginMoves ==
  ASSUME TypeInv, NEW r \in Requests, NEW op, NEW q, Begin(r, op, q)
  PROVE  /\ req[r] = IdleRequest /\ req'[r] = q
         /\ \A p \in Requests \ {r} : req'[p] = req[p]
BY ReqFacts DEF Begin, At, RequestFits

LEMMA ReadingStarts ==
  ASSUME TypeInv, NEW r \in Requests, Reading(r)
  PROVE  /\ req[r] = IdleRequest /\ req'[r].pc \in FirstPcs
         /\ \A p \in Requests \ {r} : req'[p] = req[p]
<1>0. req \in [Requests -> Request] /\ (At(r, "idle") => req[r] = IdleRequest)
  BY ReqFacts DEF At, RequestFits
<1> DEFINE Starts == /\ req[r] = IdleRequest /\ req'[r].pc \in FirstPcs
                     /\ \A p \in Requests \ {r} : req'[p] = req[p]
<1>1. ASSUME NEW e \in Emails, Register(r, e) PROVE Starts
  BY <1>0, <1>1 DEF Register, Begin, IdleRequest, FirstPcs
<1>2. ASSUME NEW u \in DOMAIN users, NEW e \in Emails, InviteUser(r, u, e) PROVE Starts
  BY <1>0, <1>2 DEF InviteUser, Begin, IdleRequest, FirstPcs
<1>3. ASSUME NEW u \in DOMAIN users, VerifyEmail(r, u) PROVE Starts
  BY <1>0, <1>3 DEF VerifyEmail, Begin, IdleRequest, FirstPcs
<1>4. ASSUME NEW u \in DOMAIN users, NEW t \in DOMAIN users, DeleteUser(r, u, t) PROVE Starts
  BY <1>0, <1>4 DEF DeleteUser, Begin, IdleRequest, FirstPcs
<1>5. ASSUME NEW u \in DOMAIN users, NEW t \in DOMAIN users, UpdateUser(r, u, t) PROVE Starts
  BY <1>0, <1>5 DEF UpdateUser, Begin, IdleRequest, FirstPcs
<1>6. ASSUME NEW t \in DOMAIN issued, AcceptInvite(r, t) PROVE Starts
  BY <1>0, <1>6 DEF AcceptInvite, Begin, IdleRequest, FirstPcs
<1>7. ASSUME NEW k \in DOMAIN tenants, NEW op \in {"updateTenant", "softDeleteTenant"},
             PlatformRead(r, k, op)
      PROVE  Starts
  BY <1>0, <1>7 DEF PlatformRead, Begin, IdleRequest, FirstPcs
<1>8. ASSUME NEW p \in DOMAIN catalog, UpdatePlan(r, p) PROVE Starts
  BY ZenonT(60), <1>0, <1>8 DEF UpdatePlan, Begin, IdleRequest, FirstPcs
<1>9. ASSUME NEW p \in DOMAIN catalog, ArchivePlan(r, p) PROVE Starts
  BY <1>0, <1>9 DEF ArchivePlan, Begin, IdleRequest, FirstPcs
<1>10. Starts
  <2> HIDE DEF Starts
  <2> QED BY <1>1, <1>2, <1>3, <1>4, <1>5, <1>6, <1>7, <1>8, <1>9 DEF Reading
<1> QED BY <1>10

-----------------------------------------------------------------------------
(* A deleted organization stays inactive, and is not found again. *)

LEMMA DirectoryFrame ==
  ASSUME TypeInv, NEW k \in DOMAIN tenants,
         (\E on \in BOOLEAN : tenants' = updateByTenantId(k, on))
           \/ tenants' = softDeleteByTenantId(k)
           \/ (tenants[k].stage = "deleted" /\ tenants' = [tenants EXCEPT ![k].stage = "purged"])
  PROVE  /\ DOMAIN tenants' = DOMAIN tenants
         /\ \A n \in DOMAIN tenants :
              /\ tenants'[n].founder = tenants[n].founder
              /\ tenants'[n].stage = "undone" => tenants[n].stage = "undone"
              /\ tenants'[n].stage \in {"stored", "deleted"} =>
                   tenants[n].stage \in {"stored", "deleted"}
              /\ tenants'[n].stage = "deleted" =>
                   ~tenants'[n].active \/ tenants'[n] = tenants[n]
<1>1. \A n \in DOMAIN tenants : tenants[n] \in Tenant
  BY RowFacts
<1>2. ASSUME NEW on \in BOOLEAN, tenants' = updateByTenantId(k, on), tenants[k].stage = "stored"
      PROVE  /\ DOMAIN tenants' = DOMAIN tenants
             /\ tenants'[k].founder = tenants[k].founder /\ tenants'[k].stage = "stored"
             /\ \A n \in DOMAIN tenants \ {k} : tenants'[n] = tenants[n]
  BY <1>1, <1>2 DEF updateByTenantId, tenantActiveFilter, Tenant
<1>3. ASSUME tenants' = softDeleteByTenantId(k), tenants[k].stage = "stored"
      PROVE  /\ DOMAIN tenants' = DOMAIN tenants
             /\ tenants'[k].founder = tenants[k].founder /\ tenants'[k].stage = "deleted"
             /\ ~tenants'[k].active
             /\ \A n \in DOMAIN tenants \ {k} : tenants'[n] = tenants[n]
  BY <1>1, <1>3 DEF softDeleteByTenantId, tenantActiveFilter, Tenant
<1>4. ASSUME tenants' = [tenants EXCEPT ![k].stage = "purged"]
      PROVE  /\ DOMAIN tenants' = DOMAIN tenants
             /\ tenants'[k].founder = tenants[k].founder /\ tenants'[k].stage = "purged"
             /\ \A n \in DOMAIN tenants \ {k} : tenants'[n] = tenants[n]
  BY <1>1, <1>4 DEF Tenant
<1>5. CASE tenants' = tenants
  BY <1>5
<1>6. tenants[k].stage # "stored" /\ tenants[k].stage # "deleted" => tenants' = tenants
  BY DEF updateByTenantId, softDeleteByTenantId, tenantActiveFilter
<1>7. tenants[k].stage = "deleted" =>
        tenants' = tenants \/ tenants' = [tenants EXCEPT ![k].stage = "purged"]
  BY DEF updateByTenantId, softDeleteByTenantId, tenantActiveFilter
<1> QED BY <1>2, <1>3, <1>4, <1>5, <1>6, <1>7

LEMMA TenantUndone ==
  ASSUME TypeInv, NEW k \in DOMAIN tenants, tenants' = deleteTenantById(k)
  PROVE  /\ DOMAIN tenants' = DOMAIN tenants
         /\ \A n \in DOMAIN tenants :
              /\ tenants'[n].founder = tenants[n].founder
              /\ n = k => tenants'[n].stage = "undone"
              /\ n # k => tenants'[n] = tenants[n]
BY RowFacts DEF deleteTenantById, Tenant

LEMMA TenantAdded ==
  ASSUME TypeInv, NEW u \in Nat, tenants' = Append(tenants, NewTenant(u))
  PROVE  /\ DOMAIN tenants' = DOMAIN tenants \cup {Len(tenants) + 1}
         /\ Len(tenants) + 1 \notin DOMAIN tenants /\ Len(tenants) + 1 # 0
         /\ \A k \in DOMAIN tenants : tenants'[k] = tenants[k]
         /\ tenants'[Len(tenants) + 1] = NewTenant(u)
<1>1. tenants \in Seq(Tenant) /\ Len(tenants) \in Nat /\ DOMAIN tenants = 1 .. Len(tenants)
  BY RowFacts DEF TypeInv, TypeOK, TenancyTypeOK
<1>2. /\ DOMAIN tenants' = 1 .. Len(tenants) + 1
      /\ \A k \in DOMAIN tenants : tenants'[k] = tenants[k]
      /\ tenants'[Len(tenants) + 1] = NewTenant(u)
  BY <1>1, NewTenantType, SeqAdd
<1> QED BY <1>1, <1>2

LEMMA FounderSet ==
  ASSUME TypeInv, NEW k \in DOMAIN tenants, NEW u,
         tenants' = [tenants EXCEPT ![k].founder = u]
  PROVE  /\ DOMAIN tenants' = DOMAIN tenants
         /\ tenants'[k].founder = u /\ tenants'[k].stage = tenants[k].stage
         /\ tenants'[k].active = tenants[k].active
         /\ \A n \in DOMAIN tenants \ {k} : tenants'[n] = tenants[n]
BY RowFacts DEF Tenant

TenantWrite ==
  \/ \E r \in Requests :
       \/ RegisterInTransaction(r) \/ CreateTenant(r) \/ CreateFounder(r) \/ DropTenant(r)
       \/ UndoRegistration(r) \/ UndoTenant(r) \/ UpdateTenant(r) \/ SoftDeleteTenant(r)
       \/ \E u \in DOMAIN users : UpdateCurrentTenant(r, u)
  \/ \E k \in DOMAIN tenants : PurgeTenant(k)

LEMMA TenantsTouched ==
  ASSUME TypeInv, Next PROVE tenants' = tenants \/ TenantWrite
<1>1. ASSUME NEW r \in Requests, Arrival(r) PROVE tenants' = tenants \/ TenantWrite
  BY <1>1, ArrivalReads DEF TenantWrite, CreatePlan
<1>2. ASSUME NEW r \in Requests, Progress(r) PROVE tenants' = tenants \/ TenantWrite
  <2>1. CASE RegistrationStep(r)
    BY <2>1 DEF RegistrationStep, TenantWrite, SendVerification, MarkVerified
  <2>2. CASE TenantUserStep(r)
    BY <2>2, TenantUserStepTenants
  <2>3. CASE DirectoryStep(r)
    BY <2>3 DEF DirectoryStep, TenantWrite
  <2>4. CASE CatalogStep(r)
    BY <2>4, CatalogStepRows
  <2> QED BY <1>2, <2>1, <2>2, <2>3, <2>4 DEF Progress
<1>3. ASSUME NEW r \in Requests, Crash(r) PROVE tenants' = tenants
  BY <1>3 DEF Crash
<1>4. CASE Environment
  BY <1>4 DEF Environment, TenantWrite, ChangeSubscription, ExpireLink, ExpireInvite, PurgeInvite
<1> QED BY <1>1, <1>2, <1>3, <1>4 DEF Next

\* A write to an organization by its own or the operators' update, or by the purge.
LEMMA DirectoryWrites ==
  ASSUME TypeInv, NEW r \in Requests,
         \/ UpdateTenant(r) \/ SoftDeleteTenant(r)
         \/ \E u \in DOMAIN users : UpdateCurrentTenant(r, u)
         \/ \E k \in DOMAIN tenants : PurgeTenant(k)
  PROVE  /\ DOMAIN tenants' = DOMAIN tenants
         /\ \A n \in DOMAIN tenants :
              /\ tenants'[n].founder = tenants[n].founder
              /\ tenants'[n].stage = "undone" => tenants[n].stage = "undone"
              /\ tenants'[n].stage \in {"stored", "deleted"} =>
                   tenants[n].stage \in {"stored", "deleted"}
              /\ tenants'[n].stage = "deleted" =>
                   ~tenants'[n].active \/ tenants'[n] = tenants[n]
<1>1. CASE UpdateTenant(r) \/ SoftDeleteTenant(r)
  <2>1. req[r].tenant \in DOMAIN tenants
    BY <1>1, ReqFacts DEF UpdateTenant, SoftDeleteTenant, At, RequestFits
  <2> QED BY <1>1, <2>1, DirectoryFrame DEF UpdateTenant, SoftDeleteTenant
<1>2. ASSUME NEW u \in DOMAIN users, UpdateCurrentTenant(r, u)
      PROVE  \E k \in DOMAIN tenants, on \in BOOLEAN : tenants' = updateByTenantId(k, on)
  <2>1. users[u].tenant \in DOMAIN tenants
    BY DEF TypeInv, RowsFit
  <2> QED BY <1>2, <2>1 DEF UpdateCurrentTenant
<1>3. ASSUME NEW k \in DOMAIN tenants, PurgeTenant(k)
      PROVE  tenants[k].stage = "deleted" /\ tenants' = [tenants EXCEPT ![k].stage = "purged"]
  BY <1>3 DEF PurgeTenant
<1> QED BY <1>1, <1>2, <1>3, DirectoryFrame

LEMMA DeletedStep ==
  ASSUME TypeInv, DeletedTenantIsInactive, [Next]_tenancyVars PROVE DeletedTenantIsInactive'
<1> USE DEF DeletedTenantIsInactive
<1>1. CASE tenants' = tenants
  BY <1>1
<1>2. ASSUME NEW r \in Requests, RegisterInTransaction(r) \/ CreateTenant(r)
      PROVE  DeletedTenantIsInactive'
  <2>1. \/ tenants' = tenants \/ tenants' = Append(tenants, NewTenant(0))
        \/ tenants' = Append(tenants, NewTenant(Len(users) + 1))
    BY <1>2 DEF RegisterInTransaction, CreateTenant
  <2>3. 0 \in Nat /\ Len(users) + 1 \in Nat
    BY RowFacts
  <2>2. \A u : NewTenant(u).stage # "deleted"
    BY DEF NewTenant
  <2> QED BY <1>1, <2>1, <2>2, <2>3, TenantAdded
<1>3. ASSUME NEW r \in Requests, CreateFounder(r) PROVE DeletedTenantIsInactive'
  <2>1. req[r].tenant \in DOMAIN tenants
    BY <1>3, ReqFacts DEF CreateFounder, At, RequestFits, RegisterPcs
  <2>2. tenants' = tenants \/ tenants' = [tenants EXCEPT ![req[r].tenant].founder = Len(users) + 1]
    BY <1>3 DEF CreateFounder
  <2> QED BY <1>1, <2>1, <2>2, FounderSet
<1>4. ASSUME NEW r \in Requests, DropTenant(r) \/ UndoRegistration(r) \/ UndoTenant(r)
      PROVE  DeletedTenantIsInactive'
  <2>1. req[r].tenant \in DOMAIN tenants
    BY <1>4, ReqFacts DEF DropTenant, UndoRegistration, UndoTenant, At, RequestFits, RegisterPcs
  <2>2. tenants' = tenants \/ tenants' = deleteTenantById(req[r].tenant)
    BY <1>4 DEF DropTenant, UndoRegistration, UndoTenant
  <2> QED BY <1>1, <2>1, <2>2, TenantUndone
<1>5. ASSUME NEW r \in Requests,
             \/ UpdateTenant(r) \/ SoftDeleteTenant(r)
             \/ \E u \in DOMAIN users : UpdateCurrentTenant(r, u)
             \/ \E k \in DOMAIN tenants : PurgeTenant(k)
      PROVE  DeletedTenantIsInactive'
  BY <1>5, DirectoryWrites
<1>6. PICK r \in Requests : TRUE
  BY TenancyRequestsAssumption
<1>7. CASE TenantWrite
  BY <1>2, <1>3, <1>4, <1>5, <1>6, <1>7 DEF TenantWrite
<1>8. CASE UNCHANGED tenancyVars
  BY <1>8 DEF tenancyVars
<1> QED BY <1>1, <1>7, <1>8, TenantsTouched

\* An organization that was soft-deleted stays inactive: neither its admins, whose tokens
\* still work, nor an operator who had read it before the deletion makes it active again.
THEOREM DeletedStaysInactive == Spec => []DeletedTenantIsInactive
<1>1. TenancyInit => DeletedTenantIsInactive
  <2>1. \A u : NewTenant(u).stage = "stored"
    BY DEF NewTenant
  <2> QED BY <2>1, InitialRows DEF DeletedTenantIsInactive
<1>2. TenancyInit => TypeInv
  BY TypeInit
<1>3. TypeInv /\ [Next]_tenancyVars => TypeInv'
  BY TypeStep
<1>4. TypeInv /\ DeletedTenantIsInactive /\ [Next]_tenancyVars => DeletedTenantIsInactive'
  BY DeletedStep
<1> QED BY <1>1, <1>2, <1>3, <1>4, PTL DEF Spec

-----------------------------------------------------------------------------
(* Registration: the steps that no registration notices. *)

SoundNext(k) ==
  tenants'[k].stage \in {"stored", "deleted"} =>
    tenants'[k].founder # 0 /\ users'[tenants'[k].founder].fate # "undone"

Registers(p, k) == req[p].op = "register" /\ req[p].tenant = k

\* No organization is at stake yet.
Aside(q) == q.op = "register" => q.pc = "create"

TenantsQuiet ==
  /\ DOMAIN tenants' = DOMAIN tenants
  /\ \A k \in DOMAIN tenants :
       /\ tenants'[k].founder = tenants[k].founder
       /\ tenants'[k].stage \in {"stored", "deleted"} => tenants[k].stage \in {"stored", "deleted"}
       /\ tenants'[k].stage = "undone" =>
            \/ tenants[k].stage = "undone"
            \/ /\ tenants[k].founder = 0 \/ users'[tenants[k].founder].fate # "stored"
               /\ \E p \in Requests : Registers(p, k) /\ req'[p] # req[p]

UsersQuiet ==
  /\ SameOwner
  /\ \A u \in DOMAIN users : users'[u].fate = "stored" => users[u].fate = "stored"
  /\ \A k \in DOMAIN tenants :
       tenants[k].founder # 0 /\ users'[tenants[k].founder].fate = "undone" =>
         \/ users[tenants[k].founder].fate = "undone"
         \/ \E p \in Requests : Registers(p, k) /\ req'[p] # req[p]

RequestsQuiet ==
  \A p \in Requests :
     \/ req'[p] = req[p]
     \/ Aside(req[p]) /\ Aside(req'[p]) /\ NotFounder(req'[p])
     \/ /\ req[p].op = "register" /\ req'[p] = IdleRequest
        /\ req[p].tenant \in interrupted' \/ SoundNext(req[p].tenant)
     \/ /\ req[p].op = "register" /\ req'[p].op = "register"
        /\ req'[p].tenant = req[p].tenant /\ RegistrationOf(req[p])'

LEMMA QuietKeepsRegistration ==
  ASSUME TypeInv, TypeInv', RegistrationInv, TenantsQuiet, UsersQuiet, RequestsQuiet,
         interrupted \subseteq interrupted'
  PROVE  RegistrationInv'
<1>1. \A k \in DOMAIN tenants :
         /\ tenants[k].founder \in DOMAIN users \cup {0} /\ k # 0
         /\ tenants'[k].founder = tenants[k].founder
  BY RowFacts DEF TypeInv, RowsFit, TenantsQuiet
<1>2. \A u \in DOMAIN users :
         /\ u # 0 /\ u \in DOMAIN users' /\ users'[u].tenant = users[u].tenant
         /\ users'[u].fate = "stored" => users[u].fate = "stored"
  BY RowFacts DEF UsersQuiet, SameOwner
<1>3. \A p \in Requests : RequestFits(req[p]) /\ RequestFits(req[p])'
  BY ReqFacts DEF TypeInv
<1>4. FounderBelongs'
  BY <1>1, <1>2 DEF RegistrationInv, FounderBelongs, TenantsQuiet
<1>5. ASSUME NEW p \in Requests, req'[p].op = "register", req'[p].tenant # 0
      PROVE  req[p].op = "register" /\ req[p].tenant = req'[p].tenant
  BY <1>3, <1>5 DEF RequestsQuiet, Aside, RequestFits, IdleRequest
<1>6. OneRegistration'
  BY <1>5 DEF RegistrationInv, OneRegistration
<1>7. ASSUME NEW p \in Requests PROVE RegistrationOf(req[p])'
  <2>1. CASE req'[p] = req[p]
    <3>1. RegistrationOf(req[p])
      BY DEF RegistrationInv
    <3>2. req[p].pc \in RegisterPcs \ {"create"} =>
            req[p].op = "register" /\ req[p].tenant \in DOMAIN tenants
      BY <1>3 DEF RequestFits
    <3>3. req[p].pc \in {"mail", "undo"} => users'[req[p].user].fate # "undone"
      <4> SUFFICES ASSUME req[p].pc \in {"mail", "undo"} PROVE users'[req[p].user].fate # "undone"
        OBVIOUS
      <4>1. /\ req[p].tenant \in DOMAIN tenants /\ req[p].op = "register"
            /\ tenants[req[p].tenant].founder = req[p].user /\ req[p].user # 0
            /\ users[req[p].user].fate # "undone"
        BY <1>2, <1>3, <3>1, <3>2 DEF RegistrationOf, RequestFits, RegisterPcs
      <4>2. ASSUME NEW o \in Requests, Registers(o, req[p].tenant), req'[o] # req[o] PROVE FALSE
        BY <1>1, <2>1, <4>1, <4>2 DEF Registers, RegistrationInv, OneRegistration
      <4> QED BY <4>1, <4>2 DEF UsersQuiet
    <3>4. req[p].pc = "undoTenant" => users'[req[p].user].fate # "stored"
      BY <1>2, <1>3, <3>1 DEF RegistrationOf, RequestFits, RegisterPcs
    <3>5. /\ req[p].pc \in {"founder", "dropTenant"} => tenants'[req[p].tenant].founder = 0
          /\ req[p].pc \in {"mail", "undo", "undoTenant"} =>
               tenants'[req[p].tenant].founder = req[p].user
      BY <1>1, <3>1, <3>2 DEF RegistrationOf, RegisterPcs
    <3>6. NotFounder(req[p])'
      BY <1>1, <2>1, <3>1 DEF RegistrationOf, NotFounder, TenantsQuiet
    <3>7. req[p].pc = "founder" => tenants'[req[p].tenant].stage # "undone"
      <4> SUFFICES ASSUME req[p].pc = "founder" PROVE tenants'[req[p].tenant].stage # "undone"
        OBVIOUS
      <4>1. /\ req[p].tenant \in DOMAIN tenants /\ req[p].op = "register"
            /\ tenants[req[p].tenant].stage # "undone"
        BY <3>1, <3>2 DEF RegistrationOf, RegisterPcs
      <4>2. ASSUME NEW o \in Requests, Registers(o, req[p].tenant), req'[o] # req[o] PROVE FALSE
        BY <1>1, <2>1, <4>1, <4>2 DEF Registers, RegistrationInv, OneRegistration
      <4> QED BY <4>1, <4>2 DEF TenantsQuiet
    <3> QED BY <2>1, <3>3, <3>4, <3>5, <3>6, <3>7 DEF RegistrationOf
  <2>2. CASE Aside(req[p]) /\ Aside(req'[p]) /\ NotFounder(req'[p])
    <3>1. req'[p].pc \notin RegisterPcs \ {"create"}
      BY <1>3, <2>2 DEF RequestFits, Aside
    <3>2. NotFounder(req[p])'
      BY <1>1, <2>2 DEF NotFounder, TenantsQuiet
    <3> QED BY <3>1, <3>2 DEF RegistrationOf, RegisterPcs
  <2>3. CASE req'[p] = IdleRequest
    BY <2>3 DEF RegistrationOf, NotFounder, IdleRequest
  <2> QED BY <2>1, <2>2, <2>3 DEF RequestsQuiet
<1>8. RegistrationIsAllOrNothing'
  <2> SUFFICES ASSUME NEW k \in DOMAIN tenants', findByTenantId(k)', ~Working(k)', k \notin interrupted'
               PROVE  SoundNext(k)
    BY DEF RegistrationIsAllOrNothing, SoundNext, findByTenantId
  <2>1. k \in DOMAIN tenants /\ k # 0 /\ findByTenantId(k) /\ k \notin interrupted
    BY <1>1 DEF TenantsQuiet, findByTenantId
  <2>2. ASSUME NEW p \in Requests, Registers(p, k) PROVE SoundNext(k)
    BY <1>3, <2>1, <2>2 DEF Registers, Working, RequestsQuiet, Aside, RequestFits
  <2>3. CASE ~ \E p \in Requests : Registers(p, k)
    <3>1. /\ tenants[k].founder # 0 /\ users[tenants[k].founder].fate # "undone"
      BY <2>1, <2>3 DEF Registers, Working, RegistrationInv, RegistrationIsAllOrNothing
    <3>2. users'[tenants[k].founder].fate # "undone"
      BY <2>1, <2>3, <3>1 DEF UsersQuiet
    <3> QED BY <1>1, <2>1, <3>1, <3>2 DEF SoundNext
  <2> QED BY <2>2, <2>3
<1>9. FounderHasTenant'
  BY <1>1, <1>2 DEF RegistrationInv, FounderHasTenant, TenantsQuiet
<1> QED BY <1>4, <1>6, <1>7, <1>8, <1>9 DEF RegistrationInv

\* The requests that the steps of one part of the system move.
UserOps == {"inviteUser", "acceptInvite", "deleteUser", "updateUser"}
PlatformOps == {"updateTenant", "softDeleteTenant"}
PlanOps == {"create", "update", "archive"}

UserMove(r) ==
  /\ Moves(r, UserOps) /\ req'[r].op \in {req[r].op, "none"}
  /\ req'[r].pc = "upsert" => InviteWriteUser(r)
  /\ req'[r].pc = "undoInvitee" =>
       UpsertInvite(r) /\ req[r].pc = "upsert" /\ req[r].on
         /\ req'[r] = [req[r] EXCEPT !.pc = "undoInvitee"]

LEMMA TenantUserMoves ==
  ASSUME TypeInv, NEW r \in Requests, TenantUserStep(r) PROVE UserMove(r)
<1>1. req[r].op \in UserOps
  <2>1. RequestFits(req[r])
    BY ReqFacts
  <2>2. CASE InviteReadTenant(r) \/ InviteCount(r) \/ ReadSubscription(r) \/ AssertWithinUserLimit(r)
    BY <2>1, <2>2 DEF InviteReadTenant, InviteCount, ReadSubscription, AssertWithinUserLimit,
       At, RequestFits, InvitePcs, UserOps
  <2>3. CASE \/ InviteInTransaction(r) \/ InviteWriteUser(r) \/ UpsertInvite(r) \/ UndoInvitee(r)
             \/ SendInvite(r)
    BY <2>1, <2>3 DEF InviteInTransaction, InviteWriteUser, UpsertInvite, UndoInvitee, SendInvite,
       At, RequestFits, InvitePcs, UserOps
  <2>4. CASE AcceptFindAccount(r) \/ Activate(r) \/ DropInvite(r)
    BY <2>1, <2>4 DEF AcceptFindAccount, Activate, DropInvite, At, RequestFits, AcceptPcs, UserOps
  <2>5. CASE RemoveUser(r) \/ DropInvitesOf(r) \/ WriteUser(r)
    BY <2>1, <2>5 DEF RemoveUser, DropInvitesOf, WriteUser, At, RequestFits, UserOps
  <2> QED BY <2>2, <2>3, <2>4, <2>5 DEF TenantUserStep
<1>2. CASE Finish(r)
  BY <1>1, <1>2, FinishMoves DEF UserMove, IdleRequest
<1>3. ASSUME NEW pc \in {"count", "invite", "dropInvite", "dropInvitesOf"}, Goto(r, pc)
      PROVE  UserMove(r)
  <2>1. Moves(r, UserOps) /\ req'[r] = [req[r] EXCEPT !.pc = pc]
    BY <1>1, <1>3, GotoMoves
  <2>2. req'[r].pc = pc /\ req'[r].op = req[r].op
    BY <2>1, ReqFacts DEF Request
  <2> QED BY <2>1, <2>2 DEF UserMove
<1>4. ASSUME Goto(r, "undoInvitee"), UpsertInvite(r), req[r].on PROVE UserMove(r)
  <2>1. Moves(r, UserOps) /\ req'[r] = [req[r] EXCEPT !.pc = "undoInvitee"]
    BY <1>1, <1>4, GotoMoves
  <2>2. req'[r].pc = "undoInvitee" /\ req[r].pc = "upsert" /\ req'[r].op = req[r].op
    BY <1>4, <2>1, ReqFacts DEF Request, UpsertInvite, At
  <2> QED BY <1>4, <2>1, <2>2 DEF UserMove
<1>5. ASSUME NEW q, req' = [req EXCEPT ![r] = q], q.op = req[r].op,
             q.pc \in {"subscription", "limit", "send", "activate"} \/ (q.pc = "upsert" /\ InviteWriteUser(r))
      PROVE  UserMove(r)
  BY <1>1, <1>5, ReqMoves DEF UserMove
<1>6. CASE InviteReadTenant(r) \/ AssertWithinUserLimit(r)
  BY <1>2, <1>3, <1>6 DEF InviteReadTenant, AssertWithinUserLimit
<1>7. CASE UndoInvitee(r) \/ SendInvite(r) \/ DropInvite(r) \/ DropInvitesOf(r) \/ WriteUser(r)
  BY <1>2, <1>7 DEF UndoInvitee, SendInvite, DropInvite, DropInvitesOf, WriteUser
<1>8. CASE Activate(r) \/ RemoveUser(r)
  BY <1>2, <1>3, <1>8 DEF Activate, RemoveUser
<1>9. CASE InviteCount(r)
  <2> DEFINE q == [req[r] EXCEPT !.pc = "subscription", !.seen = countByTenantId(req[r].tenant)]
  <2>1. req' = [req EXCEPT ![r] = q] /\ q.op = req[r].op /\ q.pc = "subscription"
    BY <1>9, ReqFacts DEF InviteCount, Request
  <2> HIDE DEF q
  <2> QED BY <1>5, <2>1
<1>10. CASE ReadSubscription(r)
  <2> DEFINE c == IF HasActiveSubscription(subscriptions[req[r].tenant].row)
                  THEN subscriptions[req[r].tenant].row.price ELSE 0
             q == [req[r] EXCEPT !.pc = "limit", !.price = c]
  <2>1. req' = [req EXCEPT ![r] = q]
    BY <1>10 DEF ReadSubscription
  <2> HIDE DEF c
  <2>2. q.op = req[r].op /\ q.pc = "limit"
    BY ReqFacts DEF Request
  <2> HIDE DEF q
  <2> QED BY <1>5, <2>1, <2>2
<1>11. CASE InviteInTransaction(r) \/ UpsertInvite(r)
  <2> DEFINE q == [req[r] EXCEPT !.pc = "send", !.token = Len(issued) + 1]
  <2>1. \/ Finish(r) \/ (Goto(r, "undoInvitee") /\ UpsertInvite(r) /\ req[r].on)
        \/ req' = [req EXCEPT ![r] = q]
    BY <1>11 DEF InviteInTransaction, UpsertInvite
  <2>2. q.op = req[r].op /\ q.pc = "send"
    BY ReqFacts DEF Request
  <2> HIDE DEF q
  <2> QED BY <1>2, <1>4, <1>5, <2>1, <2>2
<1>12. CASE InviteWriteUser(r)
  <2> DEFINE q == [req[r] EXCEPT !.pc = "upsert", !.user = InviteeCreated(r),
                                 !.on = req[r].user = 0]
  <2>1. Finish(r) \/ req' = [req EXCEPT ![r] = q]
    BY <1>12 DEF InviteWriteUser
  <2>2. q.op = req[r].op /\ q.pc = "upsert"
    BY ReqFacts DEF Request
  <2> HIDE DEF q
  <2> QED BY <1>2, <1>5, <1>12, <2>1, <2>2
<1>13. CASE AcceptFindAccount(r)
  <2>1. Finish(r) \/ \E u : req' = [req EXCEPT ![r] = [req[r] EXCEPT !.pc = "activate", !.user = u]]
    BY <1>13 DEF AcceptFindAccount
  <2>2. ASSUME NEW u
        PROVE  /\ [req[r] EXCEPT !.pc = "activate", !.user = u].op = req[r].op
               /\ [req[r] EXCEPT !.pc = "activate", !.user = u].pc = "activate"
    BY ReqFacts DEF Request
  <2> QED BY <1>2, <1>5, <2>1, <2>2
<1> HIDE DEF UserMove
<1> QED BY <1>6, <1>7, <1>8, <1>9, <1>10, <1>11, <1>12, <1>13 DEF TenantUserStep

LEMMA DirectoryMoves ==
  ASSUME TypeInv, NEW r \in Requests, DirectoryStep(r)
  PROVE  Moves(r, PlatformOps) /\ req'[r] = IdleRequest
BY FinishMoves DEF DirectoryStep, UpdateTenant, SoftDeleteTenant, PlatformOps

LEMMA CatalogMoves ==
  ASSUME TypeInv, NEW r \in Requests, CatalogStep(r)
  PROVE  /\ Moves(r, PlanOps)
         /\ \/ req'[r] = IdleRequest
            \/ \E pc \in {"row", "product"} : req'[r] = [req[r] EXCEPT !.pc = pc]
<1>1. req[r].op \in PlanOps
  BY DEF CatalogStep, CreatePrice, CreateRow, RenameProduct, UpdateRow, RetirePrice,
         RetireProduct, ArchiveRow, PlanOps
<1>2. Finish(r) \/ \E pc \in {"product", "row"} : Goto(r, pc)
  BY DEF CatalogStep, CreatePrice, CreateRow, RenameProduct, UpdateRow, RetirePrice,
         RetireProduct, ArchiveRow
<1> QED BY <1>1, <1>2, FinishMoves, GotoMoves

\* The user rows under the steps on users.
LEMMA TenantUserRows ==
  ASSUME TypeInv, NEW r \in Requests, TenantUserStep(r)
  PROVE  \/ SameOwner /\ SameFate
         \/ UndoInvitee(r) /\ users' = deleteByIdAndTenantId(req[r].user, "undone")
         \/ RemoveUser(r) /\ users' = deleteByIdAndTenantId(req[r].user, "deleted")
<1>1. CASE users' = users
  BY <1>1, UsersUntouched
<1>2. CASE InviteInTransaction(r) \/ InviteWriteUser(r)
  <2>1. At(r, "invite")
        /\ (users' = users \/ \E role \in {"admin", "member"} : users' = InvitedUsers(r, role))
    BY <1>2, RolesOfScenario DEF InviteInTransaction, InviteWriteUser
  <2> QED BY <1>1, <2>1, InvitedUsersFrame
<1>3. CASE WriteUser(r) \/ Activate(r)
  BY <1>3, RowChanged, Activation
<1>4. CASE UndoInvitee(r) \/ RemoveUser(r)
  BY <1>1, <1>4 DEF UndoInvitee, RemoveUser
<1>5. CASE InviteReadTenant(r) \/ InviteCount(r) \/ ReadSubscription(r) \/ AssertWithinUserLimit(r)
  BY <1>1, <1>5 DEF InviteReadTenant, InviteCount, ReadSubscription, AssertWithinUserLimit
<1>6. CASE UpsertInvite(r) \/ SendInvite(r) \/ AcceptFindAccount(r) \/ DropInvite(r) \/ DropInvitesOf(r)
  BY <1>1, <1>6 DEF UpsertInvite, SendInvite, AcceptFindAccount, DropInvite, DropInvitesOf
<1> QED BY <1>2, <1>3, <1>4, <1>5, <1>6 DEF TenantUserStep

LEMMA QuietRows ==
  ASSUME TypeInv, SameOwner, SameFate PROVE UsersQuiet
<1>1. \A k \in DOMAIN tenants : tenants[k].founder \in DOMAIN users \cup {0}
  BY DEF TypeInv, RowsFit
<1> QED BY <1>1 DEF UsersQuiet, SameFate

LEMMA QuietTenants == ASSUME UNCHANGED tenants PROVE TenantsQuiet
BY DEF TenantsQuiet

\* A step of a request that is not a registration.
LEMMA QuietMove ==
  ASSUME NEW r \in Requests, NEW ops, Moves(r, ops), "register" \notin ops,
         NotFounder(req'[r])
  PROVE  RequestsQuiet
BY DEF RequestsQuiet, Moves, Aside

LEMMA TenantUserStepQuiet ==
  ASSUME TypeInv, TypeInv', RegistrationInv, NEW r \in Requests, TenantUserStep(r)
  PROVE  RegistrationInv'
<1>1. UserMove(r)
  BY TenantUserMoves
<1>2. TenantsQuiet /\ interrupted' = interrupted
  BY TenantUserStepTenants, QuietTenants
<1>3. /\ RegistrationOf(req[r]) /\ req[r] \in Request
      /\ \A k \in DOMAIN tenants : tenants[k].founder \in DOMAIN users \cup {0}
  BY ReqFacts DEF RegistrationInv, TypeInv, RowsFit
<1>4. UsersQuiet
  <2>1. CASE SameOwner /\ SameFate
    BY <2>1, QuietRows
  <2>2. CASE UndoInvitee(r) /\ users' = deleteByIdAndTenantId(req[r].user, "undone")
    <3>1. \A k \in DOMAIN tenants : tenants[k].founder # req[r].user
      BY <1>3, <2>2 DEF UndoInvitee, At, RegistrationOf, NotFounder
    <3> QED BY <1>3, <2>2, <3>1, UserTakenAway DEF UsersQuiet
  <2>3. CASE users' = deleteByIdAndTenantId(req[r].user, "deleted")
    BY <1>3, <2>3, UserTakenAway DEF UsersQuiet
  <2> QED BY <2>1, <2>2, <2>3, TenantUserRows
<1>5. NotFounder(req'[r])
  <2>1. CASE req'[r].pc = "upsert"
    <3>1. InviteWriteUser(r)
      BY <1>1, <2>1 DEF UserMove
    <3> DEFINE q == [req[r] EXCEPT !.pc = "upsert", !.user = InviteeCreated(r),
                                   !.on = req[r].user = 0]
    <3>2. Finish(r) \/ req' = [req EXCEPT ![r] = q]
      BY <3>1 DEF InviteWriteUser
    <3>3. ~Finish(r)
      BY <2>1, ReqFacts DEF Finish, IdleRequest
    <3>4. q.on = (req[r].user = 0) /\ q.user = InviteeCreated(r)
      BY <1>3 DEF Request
    <3> HIDE DEF q
    <3>5. req'[r] = q
      BY <3>2, <3>3, ReqFacts
    <3>6. req[r].user = 0 => InviteeCreated(r) \notin DOMAIN users \cup {0}
      BY RowFacts DEF InviteeCreated
    <3> QED BY <1>3, <2>1, <3>4, <3>5, <3>6 DEF NotFounder
  <2>2. CASE req'[r].pc = "undoInvitee"
    <3>1. /\ req[r].pc = "upsert" /\ req[r].on
          /\ req'[r] = [req[r] EXCEPT !.pc = "undoInvitee"]
      BY <1>1, <2>2 DEF UserMove
    <3>2. req'[r].on = req[r].on /\ req'[r].user = req[r].user
      BY ZenonT(60), <1>3, <3>1 DEF Request
    <3> QED BY <1>3, <3>1, <3>2 DEF RegistrationOf, NotFounder
  <2> QED BY <2>1, <2>2 DEF NotFounder
<1>6. RequestsQuiet
  <2>1. Moves(r, UserOps) /\ "register" \notin UserOps
    BY <1>1 DEF UserMove, UserOps
  <2> QED BY <1>5, <2>1, QuietMove
<1> QED BY <1>2, <1>4, <1>6, QuietKeepsRegistration

\* The steps on organizations and plans, and what the environment does.
LEMMA OtherStepsQuiet ==
  ASSUME TypeInv, TypeInv', RegistrationInv, NEW r \in Requests,
         \/ DirectoryStep(r) \/ CatalogStep(r) \/ CreatePlan(r)
         \/ \E u \in DOMAIN users : UpdateCurrentTenant(r, u)
         \/ Environment
  PROVE  RegistrationInv'
<1>1. CASE DirectoryStep(r)
  <2>1. TenantsQuiet
    BY <1>1, DirectoryWrites DEF DirectoryStep, TenantsQuiet
  <2>2. UNCHANGED <<users, interrupted>>
    BY <1>1 DEF DirectoryStep, UpdateTenant, SoftDeleteTenant
  <2>3. NotFounder(req'[r]) /\ Moves(r, PlatformOps) /\ "register" \notin PlatformOps
    BY <1>1, DirectoryMoves DEF NotFounder, IdleRequest, PlatformOps
  <2> QED BY <2>1, <2>2, <2>3, UsersUntouched, QuietRows, QuietMove, QuietKeepsRegistration
<1>2. CASE CatalogStep(r)
  <2>1. TenantsQuiet /\ UNCHANGED <<users, interrupted>>
    BY <1>2, CatalogStepRows, QuietTenants
  <2>2. Moves(r, PlanOps) /\ "register" \notin PlanOps
    BY <1>2, CatalogMoves DEF PlanOps
  <2>3. req'[r].pc \notin {"upsert", "undoInvitee"}
    <3>1. CASE req'[r] = IdleRequest
      BY <3>1 DEF IdleRequest
    <3>2. ASSUME NEW pc \in {"row", "product"}, req'[r] = [req[r] EXCEPT !.pc = pc]
          PROVE  req'[r].pc = pc
      BY <3>2, ReqFacts DEF Request
    <3> QED BY <1>2, <3>1, <3>2, CatalogMoves
  <2>4. NotFounder(req'[r])
    BY <2>3 DEF NotFounder
  <2> QED BY <2>1, <2>2, <2>4, UsersUntouched, QuietRows, QuietMove, QuietKeepsRegistration
<1>3. CASE CreatePlan(r)
  <2>1. TenantsQuiet /\ UNCHANGED <<users, interrupted>>
    BY <1>3, QuietTenants DEF CreatePlan
  <2> DEFINE q == [IdleRequest EXCEPT !.op = "create", !.pc = "price", !.plan = Len(catalog) + 1]
  <2>2. req[r] = IdleRequest /\ req'[r] = q /\ \A p \in Requests \ {r} : req'[p] = req[p]
    BY <1>3, BeginMoves DEF CreatePlan
  <2>3. q.op = "create" /\ q.pc = "price" /\ req[r].op = "none"
    BY <2>2 DEF IdleRequest
  <2> HIDE DEF q
  <2>4. RequestsQuiet
    BY <2>2, <2>3 DEF RequestsQuiet, Aside, NotFounder
  <2> QED BY <2>1, <2>4, UsersUntouched, QuietRows, QuietKeepsRegistration
<1>4. ASSUME NEW u \in DOMAIN users, UpdateCurrentTenant(r, u) PROVE RegistrationInv'
  <2>1. TenantsQuiet
    BY <1>4, DirectoryWrites DEF TenantsQuiet
  <2>2. UNCHANGED <<users, interrupted, req>>
    BY <1>4 DEF UpdateCurrentTenant
  <2>3. RequestsQuiet
    BY <2>2 DEF RequestsQuiet
  <2> QED BY <2>1, <2>2, <2>3, UsersUntouched, QuietRows, QuietKeepsRegistration
<1>5. CASE Environment
  <2>1. UNCHANGED <<interrupted, req>>
    BY <1>5 DEF Environment, ChangeSubscription, PurgeTenant, ExpireLink, ExpireInvite, PurgeInvite
  <2>2. TenantsQuiet
    <3>1. ASSUME NEW k \in DOMAIN tenants, PurgeTenant(k) PROVE TenantsQuiet
      BY <3>1, DirectoryWrites DEF TenantsQuiet
    <3>2. tenants' = tenants \/ \E k \in DOMAIN tenants : PurgeTenant(k)
      BY <1>5 DEF Environment, ChangeSubscription, ExpireLink, ExpireInvite, PurgeInvite
    <3> QED BY <3>1, <3>2, QuietTenants
  <2>3. SameOwner /\ SameFate
    <3>1. users' = users \/ \E u \in DOMAIN users : users' = [users EXCEPT ![u].link = "expired"]
      BY <1>5 DEF Environment, ChangeSubscription, PurgeTenant, ExpireLink, ExpireInvite, PurgeInvite
    <3>2. ASSUME NEW u \in DOMAIN users, users' = [users EXCEPT ![u].link = "expired"]
          PROVE  SameOwner /\ SameFate
      BY <3>2, RowFacts DEF SameOwner, SameFate, User
    <3> QED BY <3>1, <3>2, UsersUntouched
  <2>4. RequestsQuiet
    BY <2>1 DEF RequestsQuiet
  <2> QED BY <2>1, <2>2, <2>3, <2>4, QuietRows, QuietKeepsRegistration
<1> QED BY <1>1, <1>2, <1>3, <1>4, <1>5

LEMMA ReadingQuiet ==
  ASSUME TypeInv, TypeInv', RegistrationInv, NEW r \in Requests, Reading(r),
         UNCHANGED <<tenants, users, interrupted>>
  PROVE  RegistrationInv'
<1>1. /\ req[r] = IdleRequest /\ req'[r].pc \in FirstPcs /\ RequestFits(req[r])'
      /\ \A p \in Requests \ {r} : req'[p] = req[p]
  BY ReadingStarts DEF TypeInv
<1>2. Aside(req[r]) /\ Aside(req'[r]) /\ NotFounder(req'[r])
  BY <1>1 DEF Aside, NotFounder, IdleRequest, FirstPcs, RequestFits, RegisterPcs
<1>3. RequestsQuiet
  BY <1>1, <1>2 DEF RequestsQuiet
<1> QED BY <1>3, UsersUntouched, QuietRows, QuietTenants, QuietKeepsRegistration

LEMMA CrashQuiet ==
  ASSUME TypeInv, TypeInv', RegistrationInv, NEW r \in Requests, Crash(r)
  PROVE  RegistrationInv'
<1>1. /\ req'[r] = IdleRequest /\ \A p \in Requests \ {r} : req'[p] = req[p]
      /\ RequestFits(req[r])
      /\ UNCHANGED <<tenants, users>> /\ interrupted \subseteq interrupted'
      /\ req[r].op = "register" /\ req[r].tenant # 0 => req[r].tenant \in interrupted'
  BY ReqFacts DEF Crash, Finish
<1>2. \/ Aside(req[r]) /\ Aside(req'[r]) /\ NotFounder(req'[r])
      \/ /\ req[r].op = "register" /\ req'[r] = IdleRequest
         /\ req[r].tenant \in interrupted'
  <2>1. DOMAIN tenants = 1 .. Len(tenants)
    BY RowFacts
  <2> QED BY <1>1, <2>1 DEF Aside, NotFounder, IdleRequest, RequestFits, RegisterPcs
<1>3. RequestsQuiet
  BY <1>1, <1>2 DEF RequestsQuiet
<1> QED BY <1>1, <1>3, UsersUntouched, QuietRows, QuietTenants, QuietKeepsRegistration

(* Registration: its own steps. *)

LEMMA RegistrationMoves ==
  ASSUME TypeInv, NEW r \in Requests, RegistrationStep(r), ~MarkVerified(r)
  PROVE  /\ req[r].op = "register" /\ req[r].email \in Emails
         /\ \A p \in Requests \ {r} : req'[p] = req[p]
<1>1. req[r].op = "register" /\ req[r].email \in Emails
  BY ReqFacts DEF RegistrationStep, RegisterInTransaction, CreateTenant, CreateFounder,
     DropTenant, SendVerification, UndoRegistration, UndoTenant, At, RequestFits, RegisterPcs
<1>2. \E q : req' = [req EXCEPT ![r] = q]
  <2>1. CASE RegisterInTransaction(r) \/ CreateTenant(r)
    BY <2>1 DEF RegisterInTransaction, CreateTenant, Finish
  <2>2. CASE CreateFounder(r)
    BY <2>2 DEF CreateFounder, FounderRefused, Goto
  <2>3. CASE DropTenant(r) \/ UndoTenant(r)
    BY <2>3 DEF DropTenant, UndoTenant, Finish
  <2>4. CASE SendVerification(r) \/ UndoRegistration(r)
    BY <2>4 DEF SendVerification, UndoRegistration, Finish, Goto
  <2> QED BY <2>1, <2>2, <2>3, <2>4 DEF RegistrationStep
<1> QED BY <1>1, <1>2, ReqFacts

\* An organization is created, with its founder or before him, or gets its founder.
LEMMA FoundingKeeps ==
  ASSUME TypeInv, TypeInv', RegistrationInv, NEW r \in Requests, NEW k, k # 0,
         SameOwner, SameFate, UNCHANGED interrupted,
         DOMAIN tenants' = DOMAIN tenants \cup {k},
         \A n \in DOMAIN tenants \ {k} : tenants'[n] = tenants[n],
         tenants'[k].stage # "undone",
         k \in DOMAIN tenants => tenants[k].founder = 0 /\ Registers(r, k),
         k \notin DOMAIN tenants => req[r].tenant = 0,
         \/ tenants'[k].founder = 0 /\ req'[r].pc = "founder"
         \/ /\ tenants'[k].founder \in DOMAIN users' \ (DOMAIN users \cup {0})
            /\ users'[tenants'[k].founder].tenant = k
            /\ users'[tenants'[k].founder].fate = "stored"
            /\ req'[r].pc = "mail" /\ req'[r].user = tenants'[k].founder,
         req'[r].op = "register", req'[r].tenant = k,
         \A p \in Requests \ {r} : req'[p] = req[p]
  PROVE  RegistrationInv'
<1>1. /\ \A n \in DOMAIN tenants : tenants[n].founder \in DOMAIN users \cup {0}
      /\ \A u \in DOMAIN users : /\ u # 0 /\ u \in DOMAIN users'
                                 /\ users'[u].tenant = users[u].tenant
                                 /\ users'[u].fate = users[u].fate
      /\ \A p \in Requests : RequestFits(req[p]) /\ RegistrationOf(req[p])
      /\ 0 \notin DOMAIN tenants
  BY RowFacts DEF TypeInv, RowsFit, SameOwner, SameFate, RegistrationInv
<1>2. FounderBelongs'
  BY <1>1 DEF RegistrationInv, FounderBelongs
<1>3. ASSUME NEW p \in Requests \ {r}, req[p].op = "register" PROVE req[p].tenant # k
  <2>1. CASE k \in DOMAIN tenants
    BY <1>3, <2>1 DEF RegistrationInv, OneRegistration, Registers
  <2>2. CASE k \notin DOMAIN tenants
    BY <1>1, <1>3, <2>2 DEF RequestFits, RegisterPcs
  <2> QED BY <2>1, <2>2
<1>4. OneRegistration'
  BY <1>3 DEF RegistrationInv, OneRegistration
<1>5. ASSUME NEW p \in Requests PROVE RegistrationOf(req[p])'
  <2>1. CASE p = r
    BY <2>1 DEF RegistrationOf, NotFounder
  <2>2. CASE p # r
    <3>1. req'[p] = req[p] /\ RequestFits(req[p]) /\ RegistrationOf(req[p])
      BY <1>1, <2>2
    <3>2. req[p].pc \in RegisterPcs \ {"create"} =>
            /\ req[p].tenant \in DOMAIN tenants \ {k}
            /\ tenants'[req[p].tenant] = tenants[req[p].tenant]
      BY <1>3, <2>2, <3>1 DEF RequestFits
    <3>3. NotFounder(req[p])'
      <4>1. req[p].pc \in {"upsert", "undoInvitee"} => req[p].user \in DOMAIN users
        BY <3>1 DEF RequestFits, InvitePcs
      <4>2. \A n \in DOMAIN tenants' : n = k \/ (n \in DOMAIN tenants /\ tenants'[n] = tenants[n])
        OBVIOUS
      <4>3. tenants'[k].founder \notin DOMAIN users
        BY <1>1
      <4> QED BY <3>1, <4>1, <4>2, <4>3 DEF RegistrationOf, NotFounder
    <3>4. req[p].pc \in {"mail", "undo", "undoTenant"} =>
            users'[req[p].user].fate = users[req[p].user].fate
      BY <1>1, <3>1 DEF RequestFits
    <3> QED BY <3>1, <3>2, <3>3, <3>4 DEF RegistrationOf, RegisterPcs
  <2> QED BY <2>1, <2>2
<1>6. RegistrationIsAllOrNothing'
  <2> SUFFICES ASSUME NEW n \in DOMAIN tenants', findByTenantId(n)', ~Working(n)', n \notin interrupted'
               PROVE  tenants'[n].founder # 0 /\ users'[tenants'[n].founder].fate # "undone"
    BY DEF RegistrationIsAllOrNothing
  <2>1. n # k
    BY DEF Working
  <2>2. n \in DOMAIN tenants /\ tenants'[n] = tenants[n] /\ findByTenantId(n)
        /\ n \notin interrupted /\ n # 0
    BY <1>1, <2>1 DEF findByTenantId
  <2>3. ~Working(n)
    <3> SUFFICES ASSUME NEW p \in Requests, req[p].op = "register", req[p].tenant = n PROVE FALSE
      BY DEF Working
    <3>1. p # r
      BY <2>1, <2>2 DEF Registers
    <3> QED BY <3>1 DEF Working
  <2> QED BY <1>1, <2>2, <2>3 DEF RegistrationInv, RegistrationIsAllOrNothing
<1>7. FounderHasTenant'
  BY <1>1 DEF RegistrationInv, FounderHasTenant
<1> QED BY <1>2, <1>4, <1>5, <1>6, <1>7 DEF RegistrationInv

LEMMA RegistrationStepKeeps ==
  ASSUME TypeInv, TypeInv', RegistrationInv, NEW r \in Requests, RegistrationStep(r)
  PROVE  RegistrationInv'
<1> DEFINE k == req[r].tenant
           u == req[r].user
<1>0. /\ req[r] \in Request /\ RequestFits(req[r]) /\ RegistrationOf(req[r])
      /\ req \in [Requests -> Request]
      /\ \A n \in DOMAIN tenants : n # 0 /\ tenants[n].founder \in DOMAIN users \cup {0}
      /\ \A x \in DOMAIN users : x # 0
  BY ReqFacts, RowFacts DEF RegistrationInv, TypeInv, RowsFit
<1>1. CASE MarkVerified(r)
  <2>1. SameOwner /\ SameFate /\ UNCHANGED <<tenants, interrupted>>
    BY <1>1, RowChanged DEF MarkVerified
  <2>2. req[r].op = "verifyEmail"
    BY <1>0, <1>1 DEF MarkVerified, At, RequestFits
  <2>3. Moves(r, {"verifyEmail"}) /\ NotFounder(req'[r])
    BY <1>1, <2>2, FinishMoves DEF MarkVerified, NotFounder, IdleRequest
  <2> QED BY <2>1, <2>3, QuietRows, QuietTenants, QuietMove, QuietKeepsRegistration
<1>2. CASE RegisterInTransaction(r) \/ CreateTenant(r)
  <2>1. req[r].op = "register" /\ req[r].pc = "create" /\ k = 0 /\ req[r].email \in Emails
        /\ \A p \in Requests \ {r} : req'[p] = req[p]
    <3>1. RegistrationStep(r) /\ req[r].pc = "create"
      BY <1>2 DEF RegistrationStep, RegisterInTransaction, CreateTenant, At
    <3>2. ~MarkVerified(r)
      BY <3>1 DEF MarkVerified, At
    <3> QED BY <1>0, <3>1, <3>2, RegistrationMoves DEF RequestFits
  <2> DEFINE n == Len(tenants) + 1
             x == Len(users) + 1
  <2>2. n \in Nat \ {0} /\ x \in Nat \ {0}
    BY RowFacts
  <2>3. CASE Finish(r) /\ UNCHANGED <<tenants, users, interrupted>>
    <3>1. req'[r] = IdleRequest
      BY <2>1, <2>3, FinishMoves
    <3>2. RequestsQuiet
      BY <2>1, <3>1 DEF RequestsQuiet, Aside, NotFounder, IdleRequest
    <3> QED BY <2>3, <3>2, UsersUntouched, QuietRows, QuietTenants, QuietKeepsRegistration
  <2>4. CASE CreateTenant(r)
    <3> DEFINE q == [req[r] EXCEPT !.pc = "founder", !.tenant = n]
    <3>1. tenants' = Append(tenants, NewTenant(0)) /\ UNCHANGED <<users, interrupted>>
          /\ req' = [req EXCEPT ![r] = q]
      BY <2>4 DEF CreateTenant
    <3>2. q.pc = "founder" /\ q.tenant = n /\ q.op = "register"
      BY <1>0, <2>1 DEF Request
    <3> HIDE DEF q
    <3>3. req'[r] = q
      BY <1>0, <3>1
    <3>4. NewTenant(0).stage # "undone" /\ NewTenant(0).founder = 0
      BY DEF NewTenant
    <3>5. /\ DOMAIN tenants' = DOMAIN tenants \cup {n} /\ n \notin DOMAIN tenants
          /\ \A m \in DOMAIN tenants : tenants'[m] = tenants[m]
          /\ tenants'[n] = NewTenant(0)
      BY <3>1, TenantAdded
    <3> HIDE DEF n, x
    <3> QED BY <2>1, <2>2, <3>1, <3>2, <3>3, <3>4, <3>5, UsersUntouched, FoundingKeeps
  <2>5. CASE RegisterInTransaction(r) /\ EmailIsFree(req[r].email)
    <3> DEFINE q == [req[r] EXCEPT !.pc = "mail", !.tenant = n, !.user = x]
    <3>1. /\ tenants' = Append(tenants, NewTenant(x)) /\ UNCHANGED interrupted
          /\ users' = Append(users, Founder(n, req[r].email))
          /\ req' = [req EXCEPT ![r] = q]
      BY <2>5 DEF RegisterInTransaction
    <3>2. q.pc = "mail" /\ q.tenant = n /\ q.op = "register" /\ q.user = x
      BY <1>0, <2>1 DEF Request
    <3> HIDE DEF q
    <3>3. req'[r] = q
      BY <1>0, <3>1
    <3>4. NewTenant(x).stage # "undone" /\ NewTenant(x).founder = x
      BY DEF NewTenant
    <3>5. /\ DOMAIN tenants' = DOMAIN tenants \cup {n} /\ n \notin DOMAIN tenants
          /\ \A m \in DOMAIN tenants : tenants'[m] = tenants[m]
          /\ tenants'[n] = NewTenant(x)
      BY <2>2, <3>1, TenantAdded
    <3>6. /\ SameOwner /\ SameFate /\ x \notin DOMAIN users /\ x \in DOMAIN users'
          /\ users'[x].tenant = n /\ users'[x].fate = "stored"
      BY <2>1, <2>2, <3>1, FounderType, UserAdded
    <3> HIDE DEF n, x
    <3> QED BY <2>1, <2>2, <3>1, <3>2, <3>3, <3>4, <3>5, <3>6, FoundingKeeps
  <2> QED BY <1>2, <2>3, <2>4, <2>5 DEF RegisterInTransaction
<1>3. CASE CreateFounder(r)
  <2>1. /\ req[r].op = "register" /\ req[r].pc = "founder" /\ k \in DOMAIN tenants
        /\ req[r].email \in Emails /\ tenants[k].founder = 0 /\ tenants[k].stage # "undone"
        /\ \A p \in Requests \ {r} : req'[p] = req[p]
    <3>1. req[r].pc = "founder" /\ ~MarkVerified(r)
      BY <1>3 DEF CreateFounder, MarkVerified, At
    <3>2. k \in DOMAIN tenants /\ tenants[k].founder = 0 /\ tenants[k].stage # "undone"
      BY <1>0, <3>1 DEF RequestFits, RegistrationOf, RegisterPcs
    <3> QED BY <3>1, <3>2, RegistrationMoves
  <2>2. CASE FounderRefused(r) /\ UNCHANGED <<users, tenants, interrupted>>
    <3>1. req'[r] = [req[r] EXCEPT !.pc = "dropTenant"]
      BY <1>0, <2>2 DEF FounderRefused, Goto
    <3>2. req'[r].pc = "dropTenant" /\ req'[r].tenant = k /\ req'[r].op = "register"
      BY <1>0, <2>1, <3>1 DEF Request
    <3>3. RegistrationOf(req[r])'
      BY <2>1, <2>2, <3>2 DEF RegistrationOf, NotFounder
    <3>4. RequestsQuiet
      BY <2>1, <3>2, <3>3 DEF RequestsQuiet
    <3> QED BY <2>2, <3>4, UsersUntouched, QuietRows, QuietTenants, QuietKeepsRegistration
  <2> DEFINE x == Len(users) + 1
             q == [req[r] EXCEPT !.pc = "mail", !.user = x]
  <2>3. CASE /\ users' = Append(users, Founder(k, req[r].email))
             /\ tenants' = [tenants EXCEPT ![k].founder = x]
             /\ req' = [req EXCEPT ![r] = q] /\ UNCHANGED interrupted
    <3>1. q.pc = "mail" /\ q.tenant = k /\ q.op = "register" /\ q.user = x /\ req'[r] = q
      BY <1>0, <2>1, <2>3 DEF Request
    <3>2. k \in Nat \ {0}
      BY <2>1, RowFacts
    <3>3. /\ SameOwner /\ SameFate /\ x \notin DOMAIN users /\ x \in DOMAIN users' /\ x # 0
          /\ users'[x].tenant = k /\ users'[x].fate = "stored"
      BY <2>1, <2>3, <3>2, FounderType, UserAdded
    <3>4. /\ DOMAIN tenants' = DOMAIN tenants
          /\ tenants'[k].founder = x /\ tenants'[k].stage = tenants[k].stage
          /\ \A n \in DOMAIN tenants \ {k} : tenants'[n] = tenants[n]
      BY <2>1, <2>3, FounderSet
    <3>5. Registers(r, k)
      BY <2>1 DEF Registers
    <3> HIDE DEF q, x, k
    <3>6. DOMAIN tenants' = DOMAIN tenants \cup {k} /\ interrupted' = interrupted
      BY <2>1, <2>3, <3>4
    <3> QED BY <2>1, <3>1, <3>2, <3>3, <3>4, <3>5, <3>6, FoundingKeeps
  <2>4. \/ FounderRefused(r) /\ UNCHANGED <<users, tenants, interrupted>>
        \/ /\ users' = Append(users, Founder(k, req[r].email))
           /\ tenants' = [tenants EXCEPT ![k].founder = x]
           /\ req' = [req EXCEPT ![r] = q] /\ UNCHANGED interrupted
    BY <1>3 DEF CreateFounder
  <2> QED BY <2>2, <2>3, <2>4
<1>4. CASE DropTenant(r) \/ UndoTenant(r)
  <2>1. /\ req[r].op = "register" /\ k \in DOMAIN tenants
        /\ tenants[k].founder = 0 \/ users[tenants[k].founder].fate # "stored"
        /\ req[r].pc \in {"dropTenant", "undoTenant"}
        /\ \A p \in Requests \ {r} : req'[p] = req[p]
    <3>1. req[r].pc \in {"dropTenant", "undoTenant"} /\ ~MarkVerified(r)
      BY <1>4 DEF DropTenant, UndoTenant, MarkVerified, At
    <3>2. k \in DOMAIN tenants /\ (tenants[k].founder = 0 \/ users[tenants[k].founder].fate # "stored")
      BY <1>0, <3>1 DEF RequestFits, RegistrationOf, RegisterPcs
    <3> QED BY <3>1, <3>2, RegistrationMoves
  <2>2. req'[r] = IdleRequest /\ UNCHANGED <<users, interrupted>>
    BY <1>4, <2>1, FinishMoves DEF DropTenant, UndoTenant
  <2>3. /\ DOMAIN tenants' = DOMAIN tenants
        /\ \A n \in DOMAIN tenants :
             /\ tenants'[n].founder = tenants[n].founder
             /\ n = k => tenants'[n].stage = "undone"
             /\ n # k => tenants'[n] = tenants[n]
    BY <1>4, <2>1, TenantUndone DEF DropTenant, UndoTenant
  <2>4. Registers(r, k) /\ req'[r] # req[r]
    BY <2>1, <2>2 DEF Registers, IdleRequest
  <2>5. SoundNext(k)
    BY <2>1, <2>3 DEF SoundNext
  <2> HIDE DEF k
  <2>6. TenantsQuiet
    <3> SUFFICES ASSUME NEW n \in DOMAIN tenants
                 PROVE  /\ tenants'[n].founder = tenants[n].founder
                        /\ tenants'[n].stage \in {"stored", "deleted"} =>
                             tenants[n].stage \in {"stored", "deleted"}
                        /\ tenants'[n].stage = "undone" =>
                             \/ tenants[n].stage = "undone"
                             \/ /\ \/ tenants[n].founder = 0
                                   \/ users'[tenants[n].founder].fate # "stored"
                                /\ \E p \in Requests : Registers(p, n) /\ req'[p] # req[p]
      BY <2>3 DEF TenantsQuiet
    <3>1. CASE n = k
      BY <2>1, <2>2, <2>3, <2>4, <3>1
    <3>2. CASE n # k
      BY <2>3, <3>2
    <3> QED BY <3>1, <3>2
  <2>7. RequestsQuiet
    BY <2>1, <2>2, <2>5 DEF RequestsQuiet, k
  <2> QED BY <2>2, <2>6, <2>7, UsersUntouched, QuietRows, QuietKeepsRegistration
<1>5. CASE SendVerification(r)
  <2>1. SameOwner /\ SameFate /\ UNCHANGED <<tenants, interrupted>>
    BY <1>5, RowChanged DEF SendVerification
  <2>2. /\ req[r].op = "register" /\ k \in DOMAIN tenants /\ u \in DOMAIN users
        /\ tenants[k].founder = u /\ users[u].fate # "undone"
        /\ \A p \in Requests \ {r} : req'[p] = req[p]
    <3>1. req[r].pc = "mail" /\ ~MarkVerified(r)
      BY <1>5 DEF SendVerification, MarkVerified, At
    <3>2. /\ k \in DOMAIN tenants /\ u \in DOMAIN users
          /\ tenants[k].founder = u /\ users[u].fate # "undone"
      BY <1>0, <3>1 DEF RequestFits, RegistrationOf, RegisterPcs
    <3> QED BY <3>1, <3>2, RegistrationMoves
  <2>3. users'[u].fate # "undone" /\ u # 0
    BY <1>0, <2>1, <2>2 DEF SameFate
  <2>4. SoundNext(k)
    BY <2>1, <2>2, <2>3 DEF SoundNext
  <2>5. CASE Finish(r)
    <3>1. req'[r] = IdleRequest
      BY <2>2, <2>5, FinishMoves
    <3>2. RequestsQuiet
      BY <2>2, <2>4, <3>1 DEF RequestsQuiet
    <3> QED BY <2>1, <3>2, QuietRows, QuietTenants, QuietKeepsRegistration
  <2>6. CASE Goto(r, "undo")
    <3>1. req'[r] = [req[r] EXCEPT !.pc = "undo"]
      BY <1>0, <2>6 DEF Goto
    <3>2. req'[r].pc = "undo" /\ req'[r].tenant = k /\ req'[r].user = u /\ req'[r].op = "register"
      BY <1>0, <2>2, <3>1 DEF Request
    <3>3. RegistrationOf(req[r])'
      BY <2>1, <2>2, <2>3, <3>2 DEF RegistrationOf, NotFounder
    <3>4. RequestsQuiet
      BY <2>2, <3>2, <3>3 DEF RequestsQuiet
    <3> QED BY <2>1, <3>4, QuietRows, QuietTenants, QuietKeepsRegistration
  <2> QED BY <1>5, <2>5, <2>6 DEF SendVerification
<1>6. CASE UndoRegistration(r)
  <2>1. /\ req[r].op = "register" /\ k \in DOMAIN tenants /\ u \in DOMAIN users
        /\ tenants[k].founder = u /\ users[u].tenant = k /\ u # 0
        /\ req[r].pc = "undo"
        /\ \A p \in Requests \ {r} : req'[p] = req[p]
    <3>1. req[r].pc = "undo" /\ ~MarkVerified(r)
      BY <1>6 DEF UndoRegistration, MarkVerified, At
    <3>2. k \in DOMAIN tenants /\ u \in DOMAIN users /\ tenants[k].founder = u
      BY <1>0, <3>1 DEF RequestFits, RegistrationOf, RegisterPcs
    <3>3. users[u].tenant = k /\ u # 0
      BY <1>0, <3>2 DEF RegistrationInv, FounderBelongs
    <3> QED BY <3>1, <3>2, <3>3, RegistrationMoves
  <2>2. /\ SameOwner /\ UNCHANGED interrupted
        /\ \A x \in DOMAIN users :
             users'[x].fate = IF x = u /\ users[x].fate = "stored" THEN "undone" ELSE users[x].fate
    BY <1>6, UserTakenAway DEF UndoRegistration
  <2>3. \/ Finish(r) /\ tenants' = deleteTenantById(k)
        \/ Goto(r, "undoTenant") /\ UNCHANGED tenants
    BY <1>6 DEF UndoRegistration
  <2>4. req'[r] # req[r] /\ Registers(r, k)
    BY <1>0, <2>1, <2>3 DEF Finish, Goto, Registers, IdleRequest, Request
  <2> HIDE DEF k, u
  <2>5. UsersQuiet
    <3>1. ASSUME NEW n \in DOMAIN tenants, tenants[n].founder # 0,
                 users'[tenants[n].founder].fate = "undone",
                 users[tenants[n].founder].fate # "undone"
          PROVE  n = k
      <4>1. tenants[n].founder = u
        BY <1>0, <2>2, <3>1
      <4>2. users[tenants[n].founder].tenant = n
        BY <3>1 DEF RegistrationInv, FounderBelongs
      <4> QED BY <2>1, <4>1, <4>2
    <3> QED BY <2>2, <2>4, <3>1 DEF UsersQuiet
  <2>6. users'[u].fate # "stored"
    BY <2>1, <2>2
  <2>7. CASE Finish(r) /\ tenants' = deleteTenantById(k)
    <3>1. req'[r] = IdleRequest
      BY <2>1, <2>7, FinishMoves
    <3>2. /\ DOMAIN tenants' = DOMAIN tenants
          /\ \A n \in DOMAIN tenants :
               /\ tenants'[n].founder = tenants[n].founder
               /\ n = k => tenants'[n].stage = "undone"
               /\ n # k => tenants'[n] = tenants[n]
      BY <2>1, <2>7, TenantUndone
    <3>3. SoundNext(k)
      BY <2>1, <3>2 DEF SoundNext
    <3>4. TenantsQuiet
      <4> SUFFICES ASSUME NEW n \in DOMAIN tenants
                   PROVE  /\ tenants'[n].founder = tenants[n].founder
                          /\ tenants'[n].stage \in {"stored", "deleted"} =>
                               tenants[n].stage \in {"stored", "deleted"}
                          /\ tenants'[n].stage = "undone" =>
                               \/ tenants[n].stage = "undone"
                               \/ /\ \/ tenants[n].founder = 0
                                     \/ users'[tenants[n].founder].fate # "stored"
                                  /\ \E p \in Requests : Registers(p, n) /\ req'[p] # req[p]
        BY <3>2 DEF TenantsQuiet
      <4>1. CASE n = k
        BY <2>1, <2>4, <2>6, <3>2, <4>1
      <4>2. CASE n # k
        BY <3>2, <4>2
      <4> QED BY <4>1, <4>2
    <3>5. RequestsQuiet
      BY <2>1, <3>1, <3>3 DEF RequestsQuiet, k
    <3> QED BY <2>2, <2>5, <3>4, <3>5, QuietKeepsRegistration
  <2>8. CASE Goto(r, "undoTenant") /\ UNCHANGED tenants
    <3>1. req'[r] = [req[r] EXCEPT !.pc = "undoTenant"]
      BY <1>0, <2>8 DEF Goto
    <3>2. req'[r].pc = "undoTenant" /\ req'[r].tenant = k /\ req'[r].user = u
          /\ req'[r].op = "register"
      BY <1>0, <2>1, <3>1 DEF Request, k, u
    <3>3. RegistrationOf(req[r])'
      BY <2>1, <2>6, <2>8, <3>2 DEF RegistrationOf, NotFounder
    <3>4. RequestsQuiet
      BY <2>1, <3>2, <3>3 DEF RequestsQuiet, k
    <3> QED BY <2>2, <2>5, <2>8, <3>4, QuietTenants, QuietKeepsRegistration
  <2> QED BY <2>3, <2>7, <2>8
<1> QED BY <1>1, <1>2, <1>3, <1>4, <1>5, <1>6 DEF RegistrationStep

LEMMA RegistrationInvStep ==
  ASSUME TypeInv, RegistrationInv, [Next]_tenancyVars PROVE RegistrationInv'
<1>1. TypeInv'
  BY TypeStep
<1>2. ASSUME NEW r \in Requests, Arrival(r) PROVE RegistrationInv'
  <2>1. CASE Reading(r) /\ UNCHANGED <<tenants, users, invites, issued, catalog,
                                       subscriptions, interrupted>>
    BY <1>1, <2>1, ReadingQuiet
  <2> QED BY <1>1, <1>2, <2>1, ArrivalReads, OtherStepsQuiet
<1>3. ASSUME NEW r \in Requests, Progress(r) PROVE RegistrationInv'
  BY <1>1, <1>3, RegistrationStepKeeps, TenantUserStepQuiet, OtherStepsQuiet DEF Progress
<1>4. ASSUME NEW r \in Requests, Crash(r) PROVE RegistrationInv'
  BY <1>1, <1>4, CrashQuiet
<1>5. CASE Environment
  <2>1. PICK r \in Requests : TRUE
    BY TenancyRequestsAssumption
  <2> QED BY <1>1, <1>5, <2>1, OtherStepsQuiet
<1>6. CASE UNCHANGED tenancyVars
  <2>1. TenantsQuiet /\ SameOwner /\ SameFate /\ interrupted' = interrupted /\ req' = req
    BY <1>6, QuietTenants, UsersUntouched DEF tenancyVars
  <2>2. RequestsQuiet
    BY <2>1 DEF RequestsQuiet
  <2> QED BY <1>1, <2>1, <2>2, QuietRows, QuietKeepsRegistration
<1> QED BY <1>2, <1>3, <1>4, <1>5, <1>6 DEF Next

LEMMA RegistrationInit == ASSUME TenancyInit PROVE RegistrationInv
<1>1. \A k \in DOMAIN tenants : tenants[k].founder = k /\ tenants[k].stage = "stored" /\ k # 0
  BY InitialRows DEF NewTenant
<1>2. \A r \in Requests : req[r] = IdleRequest
  BY DEF TenancyInit
<1>3. FounderBelongs /\ RegistrationIsAllOrNothing /\ FounderHasTenant
  BY <1>1, InitialRows DEF FounderBelongs, RegistrationIsAllOrNothing, FounderHasTenant
<1>4. OneRegistration
  BY <1>2 DEF OneRegistration, IdleRequest
<1>5. \A r \in Requests : RegistrationOf(req[r])
  BY <1>2 DEF RegistrationOf, NotFounder, IdleRequest
<1> QED BY <1>3, <1>4, <1>5 DEF RegistrationInv

LEMMA RegistrationHolds == Spec => []RegistrationInv
<1>1. TenancyInit => TypeInv /\ RegistrationInv
  BY TypeInit, RegistrationInit
<1>2. TypeInv /\ RegistrationInv /\ [Next]_tenancyVars => TypeInv' /\ RegistrationInv'
  BY TypeStep, RegistrationInvStep
<1> QED BY <1>1, <1>2, PTL DEF Spec

\* Whichever call of a registration fails, with transactions or without, and whatever the
\* other requests do meanwhile: an organization on which no registration works any more,
\* and whose registration no crash cut short, has its founder, and he was not taken back.
THEOREM RegistersAllOrNothing == Spec => []RegistrationIsAllOrNothing
<1>1. RegistrationInv => RegistrationIsAllOrNothing
  BY DEF RegistrationInv
<1> QED BY <1>1, RegistrationHolds, PTL

\* No founder is left in an organization that the compensation has removed.
THEOREM FoundersHaveTenants == Spec => []FounderHasTenant
<1>1. RegistrationInv => FounderHasTenant
  BY DEF RegistrationInv
<1> QED BY <1>1, RegistrationHolds, PTL

-----------------------------------------------------------------------------
(* Plans. *)

RegisterOps == {"register", "verifyEmail"}

LEMMA RegistrationStepMoves ==
  ASSUME TypeInv, NEW r \in Requests, RegistrationStep(r)
  PROVE  Moves(r, RegisterOps)
<1>1. req[r].op \in RegisterOps
  BY RegistrationMoves, ReqFacts DEF MarkVerified, At, RequestFits, RegisterOps
<1>2. CASE Finish(r)
  BY <1>1, <1>2, FinishMoves
<1>3. ASSUME NEW pc, Goto(r, pc) PROVE Moves(r, RegisterOps)
  BY <1>1, <1>3, GotoMoves
<1>4. ASSUME NEW q, req' = [req EXCEPT ![r] = q], q.op = req[r].op PROVE Moves(r, RegisterOps)
  BY <1>1, <1>4, ReqMoves
<1>5. CASE RegisterInTransaction(r)
  <2> DEFINE q == [req[r] EXCEPT !.pc = "mail", !.tenant = Len(tenants) + 1,
                                 !.user = Len(users) + 1]
  <2>1. Finish(r) \/ req' = [req EXCEPT ![r] = q]
    BY <1>5 DEF RegisterInTransaction
  <2>2. q.op = req[r].op
    BY ReqFacts DEF Request
  <2> HIDE DEF q
  <2> QED BY <1>2, <1>4, <2>1, <2>2
<1>6. CASE CreateTenant(r)
  <2> DEFINE q == [req[r] EXCEPT !.pc = "founder", !.tenant = Len(tenants) + 1]
  <2>1. req' = [req EXCEPT ![r] = q]
    BY <1>6 DEF CreateTenant
  <2>2. q.op = req[r].op
    BY ReqFacts DEF Request
  <2> HIDE DEF q
  <2> QED BY <1>4, <2>1, <2>2
<1>7. CASE CreateFounder(r)
  <2> DEFINE q == [req[r] EXCEPT !.pc = "mail", !.user = Len(users) + 1]
  <2>1. Goto(r, "dropTenant") \/ req' = [req EXCEPT ![r] = q]
    BY <1>7 DEF CreateFounder, FounderRefused
  <2>2. q.op = req[r].op
    BY ReqFacts DEF Request
  <2> HIDE DEF q
  <2> QED BY <1>3, <1>4, <2>1, <2>2
<1>8. CASE DropTenant(r) \/ SendVerification(r) \/ UndoRegistration(r) \/ UndoTenant(r) \/ MarkVerified(r)
  BY <1>2, <1>3, <1>8 DEF DropTenant, SendVerification, UndoRegistration, UndoTenant, MarkVerified
<1> QED BY <1>5, <1>6, <1>7, <1>8 DEF RegistrationStep

\* No plan changes, and no request on a plan moves but to be done with.
PlansQuiet ==
  /\ catalog' = catalog
  /\ \A p \in Requests : req'[p] = req[p] \/ req'[p].op \notin PlanOps

LEMMA QuietKeepsPlans ==
  ASSUME PlanInv, PlansQuiet PROVE PlanInv'
BY DEF PlanInv, PlansQuiet, OneCreation, OnPlan, ArchivedPlanIsOffSale, PlanOps

LEMMA MovesPlansQuietly ==
  ASSUME NEW r \in Requests, NEW ops, Moves(r, ops), ops \cap PlanOps = {}, catalog' = catalog
  PROVE  PlansQuiet
BY DEF PlansQuiet, Moves, PlanOps

\* The write of each step on a plan, and where the request goes.
PlanWrite(r, new) ==
  LET old == catalog[req[r].plan]
      next == req'[r].pc
  IN  \/ /\ req[r].op = "create" /\ next = "row" /\ new.row = old.row
      \/ /\ req[r].op = "create" /\ next = "idle" /\ new.row = "live"
      \/ /\ req[r].op = "update" /\ next \in {"row", "idle"}
         /\ new.row = old.row /\ new.price = old.price /\ new.product = old.product
      \/ /\ req[r].op = "archive" /\ next = "product"
         /\ new.row = old.row /\ new.price = "inactive" /\ new.product = old.product
      \/ /\ req[r].op = "archive" /\ req[r].pc = "product" /\ next = "row"
         /\ new.row = old.row /\ new.price = old.price /\ new.product = "inactive"
      \/ /\ req[r].op = "archive" /\ req[r].pc = "row" /\ next = "idle"
         /\ new.row = "archived" /\ new.price = old.price /\ new.product = old.product

LEMMA PlanWritten ==
  ASSUME TypeInv, NEW r \in Requests, CatalogStep(r)
  PROVE  /\ req[r].plan \in DOMAIN catalog /\ DOMAIN catalog' = DOMAIN catalog
         /\ \A p \in DOMAIN catalog \ {req[r].plan} : catalog'[p] = catalog[p]
         /\ PlanWrite(r, catalog'[req[r].plan])
         /\ \A p \in Requests \ {r} : req'[p] = req[p]
         /\ \/ req'[r] = IdleRequest
            \/ /\ req'[r].op = req[r].op /\ req'[r].plan = req[r].plan
               /\ req'[r].pc \in {"row", "product"}
<1> DEFINE p == req[r].plan
           old == catalog[p]
<1>1. PICK new : PlanStep(r, new) /\ catalog' = [catalog EXCEPT ![p] = new]
  BY PlanStepWrites
<1>2. req[r].pc \in {"price", "product", "row"} /\ req[r] \in Request
  BY ReqFacts DEF CatalogStep, CreatePrice, CreateRow, RenameProduct, UpdateRow, RetirePrice,
         RetireProduct, ArchiveRow, At
<1>3. p \in DOMAIN catalog /\ old \in Plan
  BY <1>2, ReqFacts, RowFacts DEF RequestFits
<1>4. ASSUME NEW pc, Goto(r, pc)
      PROVE  req'[r].pc = pc /\ req'[r].op = req[r].op /\ req'[r].plan = req[r].plan
  <2>1. req'[r] = [req[r] EXCEPT !.pc = pc]
    BY <1>4, ReqFacts DEF Goto
  <2> QED BY <1>2, <2>1 DEF Request
<1>5. Finish(r) => req'[r] = IdleRequest /\ req'[r].pc = "idle"
  BY ReqFacts DEF Finish, IdleRequest
<1>6. PlanWrite(r, new)
  <2>1. CASE CreatePrice(r) /\ new = [old EXCEPT !.price = "active"]
    BY <1>3, <1>4, <2>1 DEF CreatePrice, PlanWrite, Plan
  <2>2. CASE CreateRow(r) /\ new = [old EXCEPT !.row = "live"]
    BY <1>3, <1>5, <2>2 DEF CreateRow, PlanWrite, Plan
  <2>3. CASE RenameProduct(r) /\ new = [old EXCEPT !.productTier = req[r].on]
    BY <1>3, <1>4, <2>3 DEF RenameProduct, PlanWrite, Plan
  <2>4. ASSUME UpdateRow(r), new.row = old.row, new.price = old.price, new.product = old.product
        PROVE  PlanWrite(r, new)
    <3>1. req[r].op = "update" /\ Finish(r)
      BY <2>4, Zenon DEF UpdateRow
    <3> QED BY <1>5, <2>4, <3>1 DEF PlanWrite
  <2>5. CASE UpdateRow(r) /\ new = RenamedRow(r, old)
    BY <1>3, <2>4, <2>5, RenamedRowType
  <2>6. ASSUME NEW dto, UpdateRow(r),
               new = [RenamedRow(r, old) EXCEPT !.aiChatbot = dto.aiChatbot,
                                                !.maxUsers = dto.maxUsers]
        PROVE  PlanWrite(r, new)
    <3>1. /\ RenamedRow(r, old) \in Plan /\ RenamedRow(r, old).row = old.row
          /\ RenamedRow(r, old).price = old.price /\ RenamedRow(r, old).product = old.product
      BY <1>3, RenamedRowType
    <3>2. new.row = old.row /\ new.price = old.price /\ new.product = old.product
      BY <2>6, <3>1 DEF Plan
    <3> QED BY <2>4, <2>6, <3>2
  <2>7. CASE RetirePrice(r) /\ new = [old EXCEPT !.price = "inactive"]
    BY <1>3, <1>4, <2>7 DEF RetirePrice, PlanWrite, Plan
  <2>8. CASE RetireProduct(r) /\ new = [old EXCEPT !.product = "inactive"]
    BY <1>3, <1>4, <2>8 DEF RetireProduct, PlanWrite, Plan, At
  <2>9. CASE ArchiveRow(r) /\ new = [old EXCEPT !.row = "archived"]
    BY <1>3, <1>5, <2>9 DEF ArchiveRow, PlanWrite, Plan, At
  <2> HIDE DEF old, p
  <2> QED BY <1>1, <2>1, <2>2, <2>3, <2>5, <2>6, <2>7, <2>8, <2>9 DEF PlanStep, old, p
<1> HIDE DEF p, old
<1>7. /\ DOMAIN catalog' = DOMAIN catalog /\ catalog'[p] = new
      /\ \A n \in DOMAIN catalog \ {p} : catalog'[n] = catalog[n]
  BY <1>1, <1>3, RowFacts
<1>8. /\ \A n \in Requests \ {r} : req'[n] = req[n]
      /\ \/ req'[r] = IdleRequest
         \/ req'[r].op = req[r].op /\ req'[r].plan = p /\ req'[r].pc \in {"row", "product"}
  <2>1. \A n \in Requests \ {r} : req'[n] = req[n]
    BY CatalogMoves DEF Moves
  <2>2. Finish(r) \/ \E pc \in {"product", "row"} : Goto(r, pc)
    BY DEF CatalogStep, CreatePrice, CreateRow, RenameProduct, UpdateRow, RetirePrice,
           RetireProduct, ArchiveRow
  <2> QED BY <1>4, <1>5, <2>1, <2>2 DEF p
<1> QED BY <1>3, <1>6, <1>7, <1>8 DEF p

\* A step of another part of the system, or of nobody.
LEMMA OtherStepsLeavePlans ==
  ASSUME TypeInv, NEW r \in Requests,
         \/ RegistrationStep(r) \/ TenantUserStep(r) \/ DirectoryStep(r) \/ Crash(r)
         \/ (\E u \in DOMAIN users : UpdateCurrentTenant(r, u)) \/ Environment
  PROVE  PlansQuiet
<1>1. CASE RegistrationStep(r)
  <2>1. catalog' = catalog
    BY <1>1 DEF RegistrationStep, RegisterInTransaction, CreateTenant, CreateFounder,
       DropTenant, SendVerification, UndoRegistration, UndoTenant, MarkVerified
  <2> QED BY <1>1, <2>1, RegistrationStepMoves, MovesPlansQuietly DEF RegisterOps, PlanOps
<1>2. CASE TenantUserStep(r)
  <2>1. catalog' = catalog
    BY <1>2, TenantUserStepTenants
  <2> QED BY <1>2, <2>1, TenantUserMoves, MovesPlansQuietly DEF UserMove, UserOps, PlanOps
<1>3. CASE DirectoryStep(r)
  <2>1. catalog' = catalog
    BY <1>3 DEF DirectoryStep, UpdateTenant, SoftDeleteTenant
  <2> QED BY <1>3, <2>1, DirectoryMoves, MovesPlansQuietly DEF PlatformOps, PlanOps
<1>4. CASE Crash(r)
  <2>1. catalog' = catalog /\ req'[r] = IdleRequest /\ \A p \in Requests \ {r} : req'[p] = req[p]
    BY <1>4, ReqFacts DEF Crash, Finish
  <2> QED BY <2>1 DEF PlansQuiet, IdleRequest, PlanOps
<1>5. ASSUME NEW u \in DOMAIN users, UpdateCurrentTenant(r, u) PROVE PlansQuiet
  BY <1>5 DEF UpdateCurrentTenant, PlansQuiet
<1>6. CASE Environment
  BY <1>6 DEF Environment, ChangeSubscription, PurgeTenant, ExpireLink, ExpireInvite,
     PurgeInvite, PlansQuiet
<1> QED BY <1>1, <1>2, <1>3, <1>4, <1>5, <1>6

\* What a request on a plan begins with.
PlanBegun(q) ==
  q.op \in {"update", "archive"} /\ q.plan \in DOMAIN catalog /\ catalog[q.plan].row = "live"
    /\ (q.op = "archive" => q.pc = "price")

LEMMA ReadingBegins ==
  ASSUME TypeInv, NEW r \in Requests, Reading(r)
  PROVE  req'[r].op \notin PlanOps \/ PlanBegun(req'[r])
<1> DEFINE Fine == req'[r].op \notin PlanOps \/ PlanBegun(req'[r])
<1>0. req \in [Requests -> Request]
  BY ReqFacts
<1>1. ASSUME NEW e \in Emails, Register(r, e) PROVE Fine
  BY <1>0, <1>1 DEF Register, Begin, IdleRequest, PlanOps
<1>2. ASSUME NEW u \in DOMAIN users, NEW e \in Emails, InviteUser(r, u, e) PROVE Fine
  BY <1>0, <1>2 DEF InviteUser, Begin, IdleRequest, PlanOps
<1>3. ASSUME NEW u \in DOMAIN users, VerifyEmail(r, u) PROVE Fine
  BY <1>0, <1>3 DEF VerifyEmail, Begin, IdleRequest, PlanOps
<1>4. ASSUME NEW u \in DOMAIN users, NEW t \in DOMAIN users, DeleteUser(r, u, t) PROVE Fine
  BY <1>0, <1>4 DEF DeleteUser, Begin, IdleRequest, PlanOps
<1>5. ASSUME NEW u \in DOMAIN users, NEW t \in DOMAIN users, UpdateUser(r, u, t) PROVE Fine
  BY <1>0, <1>5 DEF UpdateUser, Begin, IdleRequest, PlanOps
<1>6. ASSUME NEW t \in DOMAIN issued, AcceptInvite(r, t) PROVE Fine
  BY <1>0, <1>6 DEF AcceptInvite, Begin, IdleRequest, PlanOps
<1>7. ASSUME NEW k \in DOMAIN tenants, NEW op \in {"updateTenant", "softDeleteTenant"},
             PlatformRead(r, k, op)
      PROVE  Fine
  BY <1>0, <1>7 DEF PlatformRead, Begin, IdleRequest, PlanOps
<1>8. ASSUME NEW p \in DOMAIN catalog, UpdatePlan(r, p) PROVE Fine
  <2>1. \E dto \in scenario.plans :
           \/ req' = [req EXCEPT ![r] = [IdleRequest EXCEPT !.op = "update", !.pc = "product",
                                           !.plan = p, !.on = dto.aiTier, !.seen = 1]]
           \/ req' = [req EXCEPT ![r] = [IdleRequest EXCEPT !.op = "update", !.pc = "row",
                                           !.plan = p, !.on = catalog[p].aiTier]]
    BY <1>8 DEF UpdatePlan, Begin
  <2>2. req'[r].op = "update" /\ req'[r].plan = p
    BY ZenonT(60), <1>0, <2>1 DEF IdleRequest
  <2>3. catalog[p].row = "live"
    BY <1>8 DEF UpdatePlan
  <2> QED BY <2>2, <2>3 DEF PlanBegun
<1>9. ASSUME NEW p \in DOMAIN catalog, ArchivePlan(r, p) PROVE Fine
  BY <1>0, <1>9 DEF ArchivePlan, Begin, IdleRequest, PlanBegun
<1>10. Fine
  <2> HIDE DEF Fine
  <2> QED BY <1>1, <1>2, <1>3, <1>4, <1>5, <1>6, <1>7, <1>8, <1>9 DEF Reading
<1> QED BY <1>10

\* The requests on a plan that are under way.
LEMMA PlanInHand ==
  ASSUME TypeInv, NEW r \in Requests, req[r].op \in PlanOps
  PROVE  req[r].plan \in DOMAIN catalog /\ req[r].pc # "idle"
BY ReqFacts DEF RequestFits, PlanOps

LEMMA ArrivalKeepsPlans ==
  ASSUME TypeInv, PlanInv, NEW r \in Requests, Arrival(r)
  PROVE  /\ PlanInv'
         /\ \A p \in DOMAIN catalog : catalog'[p] = catalog[p]
<1>1. CASE Reading(r) /\ catalog' = catalog
  <2>1. req[r] = IdleRequest /\ \A p \in Requests \ {r} : req'[p] = req[p]
    BY <1>1, ReadingStarts
  <2>2. req'[r].op \notin PlanOps \/ PlanBegun(req'[r])
    BY <1>1, ReadingBegins
  <2>3. OneCreation'
    BY <2>1, <2>2 DEF PlanInv, OneCreation, PlanOps, PlanBegun
  <2>4. ASSUME NEW p \in Requests PROVE OnPlan(req[p])'
    BY <1>1, <2>1, <2>2, <2>4 DEF PlanInv, OnPlan, PlanOps, PlanBegun
  <2> QED BY <1>1, <2>3, <2>4 DEF PlanInv, ArchivedPlanIsOffSale
<1>2. ASSUME NEW u \in DOMAIN users, UpdateCurrentTenant(r, u)
      PROVE  PlanInv' /\ catalog' = catalog
  BY <1>2, OtherStepsLeavePlans, QuietKeepsPlans DEF PlansQuiet
<1>3. CASE CreatePlan(r)
  <2> DEFINE n == Len(catalog) + 1
             q == [IdleRequest EXCEPT !.op = "create", !.pc = "price", !.plan = n]
  <2>1. PICK dto \in scenario.plans :
           catalog' = Append(catalog,
            [product |-> "active", productTier |-> dto.aiTier, price |-> "none",
             row |-> "none", aiTier |-> dto.aiTier, aiChatbot |-> dto.aiChatbot,
             maxUsers |-> dto.maxUsers])
    BY <1>3 DEF CreatePlan
  <2> DEFINE new == [product |-> "active", productTier |-> dto.aiTier, price |-> "none",
             row |-> "none", aiTier |-> dto.aiTier, aiChatbot |-> dto.aiChatbot,
             maxUsers |-> dto.maxUsers]
  <2>2. new \in Plan /\ new.row = "none" /\ catalog' = Append(catalog, new)
    BY <2>1, DtoType DEF Plan
  <2>3. catalog \in Seq(Plan) /\ Len(catalog) \in Nat /\ DOMAIN catalog = 1 .. Len(catalog)
    BY RowFacts DEF TypeInv, TypeOK, TenancyTypeOK
  <2> HIDE DEF new
  <2>4. /\ DOMAIN catalog' = DOMAIN catalog \cup {n} /\ n \notin DOMAIN catalog
        /\ \A p \in DOMAIN catalog : catalog'[p] = catalog[p]
        /\ catalog'[n].row = "none"
    <3>1. DOMAIN catalog' = 1 .. n /\ catalog'[n] = new
          /\ \A p \in DOMAIN catalog : catalog'[p] = catalog[p]
      BY <2>2, <2>3, SeqAdd
    <3> QED BY <2>2, <2>3, <3>1
  <2>5. req[r] = IdleRequest /\ req'[r] = q /\ \A p \in Requests \ {r} : req'[p] = req[p]
    BY <1>3, BeginMoves DEF CreatePlan
  <2>6. q.op = "create" /\ q.plan = n
    BY DEF IdleRequest
  <2> HIDE DEF q, n
  <2>7. \A p \in Requests : req[p].op \in PlanOps => req[p].plan \in DOMAIN catalog
    BY PlanInHand
  <2>8. OneCreation'
    BY <2>4, <2>5, <2>6, <2>7 DEF PlanInv, OneCreation, PlanOps
  <2>9. ASSUME NEW p \in Requests PROVE OnPlan(req[p])'
    <3>1. CASE p = r
      BY <2>4, <2>5, <2>6, <3>1 DEF OnPlan
    <3>2. CASE p # r
      BY <2>4, <2>5, <2>7, <3>2 DEF PlanInv, OnPlan, PlanOps
    <3> QED BY <3>1, <3>2
  <2>10. ArchivedPlanIsOffSale'
    BY <2>4 DEF PlanInv, ArchivedPlanIsOffSale
  <2> QED BY <2>4, <2>8, <2>9, <2>10 DEF PlanInv
<1> QED BY <1>1, <1>2, <1>3, ArrivalReads

LEMMA CatalogStepKeepsPlans ==
  ASSUME TypeInv, PlanInv, NEW r \in Requests, CatalogStep(r)
  PROVE  /\ PlanInv'
         /\ \A p \in DOMAIN catalog : catalog[p].row = "archived" => catalog'[p].row = "archived"
<1> DEFINE n == req[r].plan
<1>1. /\ n \in DOMAIN catalog /\ DOMAIN catalog' = DOMAIN catalog
      /\ \A p \in DOMAIN catalog \ {n} : catalog'[p] = catalog[p]
      /\ PlanWrite(r, catalog'[n])
      /\ \A p \in Requests \ {r} : req'[p] = req[p]
      /\ \/ req'[r] = IdleRequest
         \/ req'[r].op = req[r].op /\ req'[r].plan = n /\ req'[r].pc \in {"row", "product"}
  BY PlanWritten
<1>2. OnPlan(req[r]) /\ req[r].op \in PlanOps /\ req[r].pc # "idle"
      /\ (req'[r] = IdleRequest => req'[r].op = "none" /\ req'[r].pc = "idle")
  <2>1. req[r].op \in PlanOps
    BY CatalogMoves DEF Moves
  <2>2. OnPlan(req[r]) /\ IdleRequest.op = "none" /\ IdleRequest.pc = "idle"
    BY DEF PlanInv, IdleRequest
  <2> QED BY <2>1, <2>2, PlanInHand
<1>3. \A p \in Requests : req[p].op \in PlanOps => req[p].plan \in DOMAIN catalog /\ req[p].pc # "idle"
  BY PlanInHand
<1> HIDE DEF n
<1>4. OneCreation'
  BY <1>1, <1>2 DEF PlanInv, OneCreation, n
<1>5. OnPlan(req[r])'
  BY <1>1, <1>2 DEF OnPlan, PlanWrite, n
<1>6. ASSUME NEW p \in Requests \ {r} PROVE OnPlan(req[p])'
  <2>1. OnPlan(req[p]) /\ req'[p] = req[p]
    BY <1>1 DEF PlanInv
  <2>2. CASE req[p].plan # n \/ req[p].op \notin PlanOps
    BY <1>1, <1>3, <2>1, <2>2 DEF OnPlan, PlanOps
  <2>3. CASE req[p].plan = n /\ req[p].op \in PlanOps
    <3>1. req[p].op = "create" => req[r].op # "create"
      BY <2>3 DEF PlanInv, OneCreation, n
    <3>2. req[p].op # "create" /\ req[r].op # "create"
      BY <1>2, <1>3, <2>1, <2>3, <3>1 DEF OnPlan, PlanOps, n
    <3> QED BY <1>1, <1>2, <2>1, <2>3, <3>2 DEF OnPlan, PlanWrite, PlanOps, n
  <2> QED BY <2>2, <2>3
<1>7. ArchivedPlanIsOffSale'
  BY <1>1, <1>2 DEF PlanInv, ArchivedPlanIsOffSale, OnPlan, PlanWrite, n
<1>8. \A p \in DOMAIN catalog : catalog[p].row = "archived" => catalog'[p].row = "archived"
  BY <1>1, <1>2 DEF OnPlan, PlanWrite, n
<1> QED BY <1>4, <1>5, <1>6, <1>7, <1>8 DEF PlanInv

NoRevival ==
  \A p \in DOMAIN catalog : catalog[p].row = "archived" => catalog'[p].row = "archived"

LEMMA PlanStepKeeps ==
  ASSUME TypeInv, PlanInv, [Next]_tenancyVars
  PROVE  PlanInv' /\ NoRevival
<1>1. PlansQuiet => PlanInv' /\ NoRevival
  BY QuietKeepsPlans DEF PlansQuiet, NoRevival
<1>2. ASSUME NEW r \in Requests, Arrival(r) PROVE PlanInv' /\ NoRevival
  BY <1>2, ArrivalKeepsPlans DEF NoRevival
<1>3. ASSUME NEW r \in Requests, Progress(r) \/ Crash(r) PROVE PlanInv' /\ NoRevival
  BY <1>1, <1>3, CatalogStepKeepsPlans, OtherStepsLeavePlans DEF Progress, NoRevival
<1>4. CASE Environment
  <2>1. PICK r \in Requests : TRUE
    BY TenancyRequestsAssumption
  <2> QED BY <1>1, <1>4, <2>1, OtherStepsLeavePlans
<1>5. CASE UNCHANGED tenancyVars
  BY <1>1, <1>5 DEF tenancyVars, PlansQuiet
<1> QED BY <1>2, <1>3, <1>4, <1>5 DEF Next

LEMMA PlanInit == ASSUME TenancyInit PROVE PlanInv
<1>1. \A r \in Requests : req[r] = IdleRequest
  BY DEF TenancyInit
<1>2. DOMAIN catalog = {}
  BY InitialRows
<1> QED BY <1>1, <1>2 DEF PlanInv, OneCreation, OnPlan, ArchivedPlanIsOffSale, IdleRequest

\* A plan whose row is archived is off sale at Stripe, whatever updates had read it before.
THEOREM ArchivedIsOffSale == Spec => []ArchivedPlanIsOffSale
<1>1. TenancyInit => TypeInv /\ PlanInv
  BY TypeInit, PlanInit
<1>2. TypeInv /\ PlanInv /\ [Next]_tenancyVars => TypeInv' /\ PlanInv'
  BY TypeStep, PlanStepKeeps
<1>3. PlanInv => ArchivedPlanIsOffSale
  BY DEF PlanInv
<1> QED BY <1>1, <1>2, <1>3, PTL DEF Spec

\* No step brings an archived plan back: an update that read it live writes its name and
\* features and leaves the archive flag alone.
THEOREM ArchivedStays == Spec => ArchivedStaysArchived
<1>1. TenancyInit => TypeInv /\ PlanInv
  BY TypeInit, PlanInit
<1>2. TypeInv /\ PlanInv /\ [Next]_tenancyVars => TypeInv' /\ PlanInv'
  BY TypeStep, PlanStepKeeps
<1>3. TypeInv /\ PlanInv /\ [Next]_tenancyVars =>
        [\A p \in DOMAIN catalog :
           catalog[p].row = "archived" => catalog'[p].row = "archived"]_tenancyVars
  BY PlanStepKeeps DEF NoRevival
<1> QED BY <1>1, <1>2, <1>3, PTL DEF Spec, ArchivedStaysArchived

-----------------------------------------------------------------------------
(* Invitations. *)

\* A token is for the same organization and address as long as it lasts.
IssuedNext ==
  \A t \in DOMAIN issued :
     /\ t \in DOMAIN issued'
     /\ issued'[t].tenant = issued[t].tenant /\ issued'[t].email = issued[t].email
     /\ issued[t].dangling => issued'[t].dangling

TokenNext(t, row) == issued'[t].tenant = row.tenant /\ issued'[t].email = row.email
SpendingNext(u, i) ==
  \E r \in Requests :
     req'[r].pc = "dropInvite" /\ req'[r].invite = i /\ req'[r].token = users'[u].key

\* A row holds the token it held, or one that was not issued before.
InvitesNext ==
  \A i \in DOMAIN invites' :
     \/ /\ i \in DOMAIN invites /\ invites'[i].token = invites[i].token
        /\ invites'[i].tenant = invites[i].tenant /\ invites'[i].email = invites[i].email
        /\ invites'[i].stored => invites[i].stored
     \/ /\ invites'[i].token \notin DOMAIN issued \cup {0}
        /\ TokenNext(invites'[i].token, invites'[i])

\* An account keeps its key, or gets that of an invitation which is being spent.
KeysNext ==
  \A u \in DOMAIN users' :
     \/ u \in DOMAIN users /\ users'[u].key = users[u].key
     \/ users'[u].key = 0
     \/ /\ TokenNext(users'[u].key, users'[u])
        /\ \A i \in DOMAIN invites' :
             invites'[i].stored /\ invites'[i].token = users'[u].key => SpendingNext(u, i)

\* A request that was to delete an invitation has deleted it, or it stays for good.
SpentNext(q) == ~invites'[q.invite].stored \/ issued'[q.token].dangling

AcceptsNext ==
  \A p \in Requests :
     \/ req'[p] = req[p]
     \/ /\ req'[p].pc \in AcceptPcs => Accepting(req[p])'
        /\ req[p].pc = "dropInvite" => SpentNext(req[p])

LEMMA NextKeepsInvitations ==
  ASSUME TypeInv, TypeInv', UNCHANGED transactions, InvitationInv, SameOwner, IssuedNext,
         InvitesNext, KeysNext, AcceptsNext, OneInvitation'
  PROVE  InvitationInv'
<1>1. /\ \A i \in DOMAIN invites : invites[i].token \in DOMAIN issued
      /\ \A u \in DOMAIN users : users[u].key \in DOMAIN issued \cup {0}
      /\ 0 \notin DOMAIN issued
  BY RowFacts DEF TypeInv, RowsFit
<1>2. InvitesTraced'
  BY <1>1 DEF InvitationInv, InvitesTraced, InvitesNext, IssuedNext, TokenOf, TokenNext
<1>3. ASSUME NEW p \in Requests PROVE Accepting(req[p])'
  <2>1. CASE req'[p] = req[p]
    <3>1. Accepting(req[p])
      BY DEF InvitationInv
    <3>2. /\ req[p].pc \in AcceptPcs => req[p].token \in DOMAIN issued
          /\ req[p].pc = "activate" => req[p].user \in DOMAIN users
      BY ReqFacts DEF RequestFits
    <3>3. req[p].pc \in AcceptPcs =>
            /\ TokenNext(req[p].token, req[p])
            /\ \A i \in DOMAIN invites' :
                 invites'[i].stored /\ invites'[i].token = req[p].token => i = req[p].invite
      BY <3>1, <3>2 DEF Accepting, InvitesNext, IssuedNext, TokenOf, TokenNext
    <3>4. req[p].pc = "activate" => TokenNext(req[p].token, users'[req[p].user])
      BY <3>1, <3>2 DEF Accepting, IssuedNext, TokenOf, TokenNext, SameOwner, AcceptPcs
    <3>5. req[p].pc = "dropInvite" => ~transactions'
      BY Zenon, <3>1 DEF Accepting
    <3> QED BY <2>1, <3>3, <3>4, <3>5 DEF Accepting, TokenOf, TokenNext
  <2>2. CASE req'[p].pc \notin AcceptPcs
    BY <2>2 DEF Accepting, AcceptPcs
  <2> QED BY <2>1, <2>2 DEF AcceptsNext
<1>4. InvitationStaysInTenant'
  <2>1. ASSUME NEW u \in DOMAIN users', users'[u].key # 0
        PROVE  TokenNext(users'[u].key, users'[u])
    BY <1>1, <2>1 DEF InvitationInv, InvitationStaysInTenant, KeysNext, SameOwner, IssuedNext, TokenNext
  <2> QED BY <2>1 DEF InvitationStaysInTenant, TokenNext
<1>5. SpentOrSpending'
  <2>1. ASSUME NEW u \in DOMAIN users', NEW i \in DOMAIN invites', invites'[i].stored,
               invites'[i].token = users'[u].key,
               ~(issued'[users'[u].key].dangling /\ ~transactions)
        PROVE  SpendingNext(u, i)
    <3>1. invites'[i].token # 0
      <4>1. invites'[i].token \in DOMAIN issued'
        BY DEF TypeInv, RowsFit
      <4>2. 0 \notin DOMAIN issued'
        <5>1. issued' \in Seq(IssuedToken)
          BY DEF TypeInv, TypeOK, TenancyTypeOK
        <5> QED BY <5>1, SeqFacts
      <4> QED BY <4>1, <4>2
    <3>2. CASE u \in DOMAIN users /\ users'[u].key = users[u].key
      <4>1. users[u].key \in DOMAIN issued
        BY <1>1, <2>1, <3>1, <3>2
      <4>2. /\ i \in DOMAIN invites /\ invites[i].stored
            /\ invites[i].token = users[u].key
            /\ ~(issued[users[u].key].dangling /\ ~transactions)
        BY <2>1, <3>2, <4>1 DEF InvitesNext, IssuedNext
      <4>3. Spending(u, i)
        BY <3>2, <4>2 DEF InvitationInv, SpentOrSpending
      <4>4. PICK r \in Requests : /\ req[r].pc = "dropInvite" /\ req[r].invite = i
                                  /\ req[r].token = users[u].key
        BY <4>3 DEF Spending, At
      <4>5. ~SpentNext(req[r])
        <5>1. ~transactions
          BY <4>4 DEF InvitationInv, Accepting
        <5> QED BY <2>1, <3>2, <4>4, <5>1 DEF SpentNext
      <4>6. req'[r] = req[r]
        BY <4>4, <4>5 DEF AcceptsNext
      <4> QED BY <3>2, <4>4, <4>6 DEF SpendingNext
    <3> QED BY <2>1, <3>1, <3>2 DEF KeysNext
  <2> QED BY <2>1 DEF SpentOrSpending, Spending, SpendingNext, At
<1> QED BY <1>2, <1>3, <1>4, <1>5 DEF InvitationInv

LEMMA KeysStay == ASSUME SameKeys PROVE KeysNext
BY DEF SameKeys, KeysNext

LEMMA IssuedStay ==
  ASSUME TypeInv,
         \/ UNCHANGED issued
         \/ \E t \in DOMAIN issued, a \in BOOLEAN : issued' = [issued EXCEPT ![t].mailed = a]
         \/ \E t \in DOMAIN issued : issued' = [issued EXCEPT ![t].dangling = TRUE]
  PROVE  IssuedNext
<1>1. ASSUME NEW t \in DOMAIN issued, NEW a \in BOOLEAN, issued' = [issued EXCEPT ![t].mailed = a]
      PROVE  IssuedNext
  BY <1>1, RowFacts DEF IssuedNext, IssuedToken
<1>2. ASSUME NEW t \in DOMAIN issued, issued' = [issued EXCEPT ![t].dangling = TRUE]
      PROVE  IssuedNext /\ issued'[t].dangling
  BY <1>2, RowFacts DEF IssuedNext, IssuedToken
<1> QED BY <1>1, <1>2 DEF IssuedNext

LEMMA InvitesStay ==
  ASSUME InvitationInv, UNCHANGED invites PROVE InvitesNext /\ OneInvitation'
BY DEF InvitationInv, InvitesNext, OneInvitation

LEMMA InvitesDeleted ==
  ASSUME TypeInv, InvitationInv, NEW S, invites' = deleteInvites(S)
  PROVE  /\ InvitesNext /\ OneInvitation'
         /\ \A i \in DOMAIN invites' : i \in S => ~invites'[i].stored
<1>1. \A i \in DOMAIN invites :
         invites'[i] = IF i \in S THEN [invites[i] EXCEPT !.stored = FALSE] ELSE invites[i]
  BY DEF deleteInvites
<1>2. DOMAIN invites' = DOMAIN invites
  BY DEF deleteInvites
<1>3. \A i \in DOMAIN invites :
         /\ invites'[i].token = invites[i].token /\ invites'[i].tenant = invites[i].tenant
         /\ invites'[i].email = invites[i].email
         /\ invites'[i].stored => invites[i].stored /\ i \notin S
  BY <1>1, RowFacts DEF Invite
<1> QED BY <1>2, <1>3 DEF InvitesNext, InvitationInv, OneInvitation

LEMMA OthersApart ==
  ASSUME TypeInv, TypeInv',
         \A p \in Requests : \/ req'[p] = req[p]
                             \/ req[p].op # "acceptInvite" /\ req'[p].op # "acceptInvite"
  PROVE  AcceptsNext
<1>1. ASSUME NEW p \in Requests
      PROVE  /\ req[p].pc \in AcceptPcs => req[p].op = "acceptInvite"
             /\ req'[p].pc \in AcceptPcs => req'[p].op = "acceptInvite"
  BY DEF TypeInv, RequestFits
<1> QED BY <1>1 DEF AcceptsNext, AcceptPcs

LEMMA MoveApart ==
  ASSUME TypeInv, TypeInv', NEW r \in Requests, NEW ops, Moves(r, ops), "acceptInvite" \notin ops
  PROVE  AcceptsNext
<1>1. \A p \in Requests : \/ req'[p] = req[p]
                          \/ req[p].op # "acceptInvite" /\ req'[p].op # "acceptInvite"
  BY DEF Moves
<1> QED BY <1>1, OthersApart

\* The row of an invitation that is sent, with its fresh token.
LEMMA InvitationUpserted ==
  ASSUME TypeInv, InvitationInv, NEW r \in Requests, req[r].pc \in {"invite", "upsert"},
         invites' = upsert(req[r].tenant, req[r].email, Len(issued) + 1),
         issued' = IssueTo(r)
  PROVE  IssuedNext /\ InvitesNext /\ OneInvitation'
<1> DEFINE k == req[r].tenant
           e == req[r].email
           t == Len(issued) + 1
           token == [tenant |-> k, email |-> e, mailed |-> FALSE, dangling |-> FALSE]
<1>1. e \in Emails /\ k \in Nat \ {0}
  BY ReqFacts, RowFacts DEF RequestFits, InvitePcs
<1>2. /\ issued \in Seq(IssuedToken) /\ Len(issued) \in Nat /\ DOMAIN issued = 1 .. Len(issued)
      /\ invites \in Seq(Invite) /\ Len(invites) \in Nat /\ DOMAIN invites = 1 .. Len(invites)
  BY RowFacts DEF TypeInv, TypeOK, TenancyTypeOK
<1>3. token \in IssuedToken /\ issued' = Append(issued, token) /\ token.tenant = k /\ token.email = e
  BY <1>1 DEF IssueTo, IssuedToken
<1> HIDE DEF token
<1>4. /\ \A i \in DOMAIN issued : issued'[i] = issued[i] /\ i \in DOMAIN issued'
      /\ issued'[t] = token /\ t \notin DOMAIN issued \cup {0}
  <2>1. /\ DOMAIN issued' = 1 .. Len(issued) + 1 /\ issued'[Len(issued) + 1] = token
        /\ \A i \in DOMAIN issued : issued'[i] = issued[i]
    BY <1>2, <1>3, SeqAdd
  <2> QED BY <1>2, <2>1
<1>5. IssuedNext
  BY <1>4 DEF IssuedNext
<1>6. inviteOf(e, k) =
        {i \in DOMAIN invites : invites[i].stored /\ invites[i].email = e /\ invites[i].tenant = k}
  BY DEF inviteOf, findByEmailWithToken
<1> HIDE DEF k, e, t
<1>7. CASE inviteOf(e, k) = {}
  <2> DEFINE row == [tenant |-> k, email |-> e, token |-> t, expired |-> FALSE, stored |-> TRUE]
             n == Len(invites) + 1
  <2>1. /\ row \in Invite /\ row.token = t /\ row.tenant = k /\ row.email = e /\ row.stored
    BY <1>1, <1>2 DEF Invite, t
  <2>2. invites' = Append(invites, row)
    BY <1>7 DEF upsert, k, e, t
  <2> HIDE DEF row
  <2>3. /\ DOMAIN invites' = 1 .. n /\ invites'[n] = row
        /\ \A i \in DOMAIN invites : invites'[i] = invites[i]
    BY <1>2, <2>1, <2>2, SeqAdd
  <2>4. DOMAIN invites' = DOMAIN invites \cup {n}
    <3>1. 1 .. n = 1 .. Len(invites) \cup {n}
      BY <1>2
    <3> QED BY <1>2, <2>3, <3>1
  <2> HIDE DEF n
  <2>5. InvitesNext
    BY <1>3, <1>4, <2>1, <2>3, <2>4 DEF InvitesNext, TokenNext
  <2>6. OneInvitation'
    BY <1>6, <1>7, <2>1, <2>3, <2>4 DEF InvitationInv, OneInvitation
  <2> QED BY <1>5, <2>5, <2>6
<1>8. CASE inviteOf(e, k) # {}
  <2>1. invites' = [i \in DOMAIN invites |->
                      IF i \in inviteOf(e, k)
                      THEN [invites[i] EXCEPT !.token = t, !.expired = FALSE] ELSE invites[i]]
    BY <1>8 DEF upsert, k, e, t
  <2>2. ASSUME NEW i \in DOMAIN invites
        PROVE  /\ invites'[i].tenant = invites[i].tenant /\ invites'[i].email = invites[i].email
               /\ invites'[i].stored = invites[i].stored
               /\ invites'[i].token = IF i \in inviteOf(e, k) THEN t ELSE invites[i].token
    BY <2>1, RowFacts DEF Invite
  <2>3. DOMAIN invites' = DOMAIN invites
    BY <2>1
  <2>4. InvitesNext
    BY ZenonT(60), <1>3, <1>4, <1>6, <2>2, <2>3 DEF InvitesNext, TokenNext
  <2>5. OneInvitation'
    BY <2>2, <2>3 DEF InvitationInv, OneInvitation
  <2> QED BY <1>5, <2>4, <2>5
<1> QED BY <1>7, <1>8

LEMMA RegistrationUsers ==
  ASSUME TypeInv, NEW r \in Requests, RegistrationStep(r)
  PROVE  SameOwner /\ SameKeys /\ UNCHANGED <<invites, issued>>
<1>1. UNCHANGED <<invites, issued>>
  BY DEF RegistrationStep, RegisterInTransaction, CreateTenant, CreateFounder,
     DropTenant, SendVerification, UndoRegistration, UndoTenant, MarkVerified
<1>2. ASSUME NEW k \in Nat \ {0}, NEW e \in Emails, users' = Append(users, Founder(k, e))
      PROVE  SameOwner /\ SameKeys
  BY <1>2, FounderType, UserAdded
<1>3. CASE RegisterInTransaction(r)
  <2>1. req[r].email \in Emails /\ Len(tenants) + 1 \in Nat \ {0}
    BY <1>3, ReqFacts, RowFacts DEF RegisterInTransaction, At, RequestFits, RegisterPcs
  <2>2. users' = users \/ users' = Append(users, Founder(Len(tenants) + 1, req[r].email))
    BY <1>3 DEF RegisterInTransaction
  <2> QED BY <1>1, <1>2, <2>1, <2>2, UsersUntouched
<1>4. CASE CreateFounder(r)
  <2>1. req[r].email \in Emails /\ req[r].tenant \in Nat \ {0}
    BY <1>4, ReqFacts, RowFacts DEF CreateFounder, At, RequestFits, RegisterPcs
  <2>2. users' = users \/ users' = Append(users, Founder(req[r].tenant, req[r].email))
    BY <1>4 DEF CreateFounder
  <2> QED BY <1>1, <1>2, <2>1, <2>2, UsersUntouched
<1>5. CASE UndoRegistration(r)
  BY <1>1, <1>5, UserTakenAway DEF UndoRegistration
<1>6. CASE SendVerification(r) \/ MarkVerified(r)
  BY <1>1, <1>6, RowChanged
<1>7. CASE CreateTenant(r) \/ DropTenant(r) \/ UndoTenant(r)
  BY <1>1, <1>7, UsersUntouched DEF CreateTenant, DropTenant, UndoTenant
<1> QED BY <1>1, <1>3, <1>4, <1>5, <1>6, <1>7 DEF RegistrationStep

\* The steps that leave invitations and their tokens alone.
LEMMA OtherStepsKeepInvitations ==
  ASSUME TypeInv, TypeInv', UNCHANGED transactions, InvitationInv, NEW r \in Requests,
         \/ RegistrationStep(r) \/ DirectoryStep(r) \/ CatalogStep(r) \/ CreatePlan(r)
         \/ \E u \in DOMAIN users : UpdateCurrentTenant(r, u)
  PROVE  InvitationInv'
<1>1. SameOwner /\ SameKeys /\ UNCHANGED <<invites, issued>>
  <2>1. CASE RegistrationStep(r)
    BY <2>1, RegistrationUsers
  <2>2. CASE UNCHANGED <<users, invites, issued>>
    BY <2>2, UsersUntouched
  <2>3. CASE DirectoryStep(r) \/ CreatePlan(r) \/ \E u \in DOMAIN users : UpdateCurrentTenant(r, u)
    BY <2>2, <2>3 DEF DirectoryStep, UpdateTenant, SoftDeleteTenant, CreatePlan, UpdateCurrentTenant
  <2>4. CASE CatalogStep(r)
    BY <2>2, <2>4, CatalogStepRows
  <2> QED BY <2>1, <2>3, <2>4
<1>2. AcceptsNext
  <2>1. CASE RegistrationStep(r)
    BY <2>1, RegistrationStepMoves, MoveApart DEF RegisterOps
  <2>2. CASE DirectoryStep(r)
    BY <2>2, DirectoryMoves, MoveApart DEF PlatformOps
  <2>3. CASE CatalogStep(r)
    BY <2>3, CatalogMoves, MoveApart DEF PlanOps
  <2>4. CASE CreatePlan(r)
    <3> DEFINE q == [IdleRequest EXCEPT !.op = "create", !.pc = "price", !.plan = Len(catalog) + 1]
    <3>1. req[r] = IdleRequest /\ req'[r] = q /\ \A p \in Requests \ {r} : req'[p] = req[p]
      BY <2>4, BeginMoves DEF CreatePlan
    <3>2. q.op = "create" /\ req[r].op = "none"
      BY <3>1 DEF IdleRequest
    <3> HIDE DEF q
    <3> QED BY <3>1, <3>2, OthersApart
  <2>5. CASE \E u \in DOMAIN users : UpdateCurrentTenant(r, u)
    BY <2>5 DEF UpdateCurrentTenant, AcceptsNext
  <2> QED BY <2>1, <2>2, <2>3, <2>4, <2>5
<1> QED BY <1>1, <1>2, KeysStay, IssuedStay, InvitesStay, NextKeepsInvitations

LEMMA EnvironmentKeepsInvitations ==
  ASSUME TypeInv, TypeInv', UNCHANGED transactions, InvitationInv, Environment PROVE InvitationInv'
<1>1. UNCHANGED <<issued, req>>
  BY DEF Environment, ChangeSubscription, PurgeTenant, ExpireLink, ExpireInvite, PurgeInvite
<1>2. SameOwner /\ SameKeys
  <2>1. users' = users \/ \E u \in DOMAIN users : users' = [users EXCEPT ![u].link = "expired"]
    BY DEF Environment, ChangeSubscription, PurgeTenant, ExpireLink, ExpireInvite, PurgeInvite
  <2>2. ASSUME NEW u \in DOMAIN users, users' = [users EXCEPT ![u].link = "expired"]
        PROVE  SameOwner /\ SameKeys
    BY <2>2, RowFacts DEF SameOwner, SameKeys, User
  <2> QED BY <2>1, <2>2, UsersUntouched
<1>3. InvitesNext /\ OneInvitation'
  <2>1. \/ invites' = invites \/ \E S : invites' = deleteInvites(S)
        \/ \E i \in DOMAIN invites : invites' = [invites EXCEPT ![i].expired = TRUE]
    BY DEF Environment, ChangeSubscription, PurgeTenant, ExpireLink, ExpireInvite, PurgeInvite
  <2>2. ASSUME NEW i \in DOMAIN invites, invites' = [invites EXCEPT ![i].expired = TRUE]
        PROVE  InvitesNext /\ OneInvitation'
    <3>1. /\ DOMAIN invites' = DOMAIN invites
          /\ \A j \in DOMAIN invites :
               /\ invites'[j].token = invites[j].token /\ invites'[j].tenant = invites[j].tenant
               /\ invites'[j].email = invites[j].email /\ invites'[j].stored = invites[j].stored
      BY <2>2, RowFacts DEF Invite
    <3> QED BY <3>1 DEF InvitesNext, InvitationInv, OneInvitation
  <2> QED BY <2>1, <2>2, InvitesStay, InvitesDeleted
<1>4. AcceptsNext
  BY <1>1 DEF AcceptsNext
<1> QED BY <1>1, <1>2, <1>3, <1>4, KeysStay, IssuedStay, NextKeepsInvitations

LEMMA AcceptInviteAccepts ==
  ASSUME TypeInv, InvitationInv, NEW r \in Requests, NEW t \in DOMAIN issued, AcceptInvite(r, t)
  PROVE  Accepting(req[r])'
<1>1. PICK i \in findByEmailWithToken(issued[t].email) :
         /\ invites[i].token = t
         /\ Begin(r, "acceptInvite",
                [IdleRequest EXCEPT !.op = "acceptInvite", !.pc = "account",
                   !.email = issued[t].email, !.tenant = invites[i].tenant,
                   !.invite = i, !.token = t])
  BY DEF AcceptInvite
<1> DEFINE q == [IdleRequest EXCEPT !.op = "acceptInvite", !.pc = "account",
                   !.email = issued[t].email, !.tenant = invites[i].tenant,
                   !.invite = i, !.token = t]
<1>2. req'[r] = q
  BY <1>1, BeginMoves
<1>3. /\ q.pc = "account" /\ q.email = issued[t].email /\ q.tenant = invites[i].tenant
      /\ q.invite = i /\ q.token = t
  BY DEF IdleRequest
<1> HIDE DEF q
<1>4. i \in DOMAIN invites /\ invites[i].stored /\ invites[i].email = issued[t].email
  BY DEF findByEmailWithToken
<1>5. issued[t].tenant = invites[i].tenant
  BY <1>1, <1>4 DEF InvitationInv, InvitesTraced, TokenOf
<1>6. ASSUME NEW j \in DOMAIN invites, invites[j].stored, invites[j].token = t PROVE j = i
  <2>1. invites[j].tenant = issued[t].tenant /\ invites[j].email = issued[t].email
    BY <1>6 DEF InvitationInv, InvitesTraced, TokenOf
  <2> QED BY <1>4, <1>5, <1>6, <2>1 DEF InvitationInv, OneInvitation
<1>7. UNCHANGED <<invites, issued>>
  BY DEF AcceptInvite
<1> QED BY <1>2, <1>3, <1>5, <1>6, <1>7 DEF Accepting, TokenOf

LEMMA ReadingKeepsInvitations ==
  ASSUME TypeInv, TypeInv', UNCHANGED transactions, InvitationInv, NEW r \in Requests, Reading(r),
         UNCHANGED <<users, invites, issued>>
  PROVE  InvitationInv'
<1>1. /\ req[r] = IdleRequest /\ req'[r].pc \in FirstPcs
      /\ \A p \in Requests \ {r} : req'[p] = req[p]
  BY ReadingStarts
<1>2. req'[r].pc = "account" => \E t \in DOMAIN issued : AcceptInvite(r, t)
  <2>0. req \in [Requests -> Request]
    BY ReqFacts
  <2>1. ASSUME NEW e \in Emails, Register(r, e) PROVE req'[r].pc # "account"
    BY <2>0, <2>1 DEF Register, Begin, IdleRequest
  <2>2. ASSUME NEW u \in DOMAIN users, NEW e \in Emails, InviteUser(r, u, e)
        PROVE  req'[r].pc # "account"
    BY <2>0, <2>2 DEF InviteUser, Begin, IdleRequest
  <2>3. ASSUME NEW u \in DOMAIN users, VerifyEmail(r, u) PROVE req'[r].pc # "account"
    BY <2>0, <2>3 DEF VerifyEmail, Begin, IdleRequest
  <2>4. ASSUME NEW u \in DOMAIN users, NEW t \in DOMAIN users, DeleteUser(r, u, t)
        PROVE  req'[r].pc # "account"
    BY <2>0, <2>4 DEF DeleteUser, Begin, IdleRequest
  <2>5. ASSUME NEW u \in DOMAIN users, NEW t \in DOMAIN users, UpdateUser(r, u, t)
        PROVE  req'[r].pc # "account"
    BY <2>0, <2>5 DEF UpdateUser, Begin, IdleRequest
  <2>6. ASSUME NEW k \in DOMAIN tenants, NEW op \in {"updateTenant", "softDeleteTenant"},
               PlatformRead(r, k, op)
        PROVE  req'[r].pc # "account"
    BY <2>0, <2>6 DEF PlatformRead, Begin, IdleRequest
  <2>7. ASSUME NEW p \in DOMAIN catalog, UpdatePlan(r, p) \/ ArchivePlan(r, p)
        PROVE  req'[r].pc # "account"
    <3>1. req'[r].op \in {"update", "archive"}
      <4>1. CASE ArchivePlan(r, p)
        BY <2>0, <4>1 DEF ArchivePlan, Begin, IdleRequest
      <4>2. ASSUME NEW dto,
              \/ req' = [req EXCEPT ![r] = [IdleRequest EXCEPT !.op = "update", !.pc = "product",
                                              !.plan = p, !.on = dto.aiTier, !.seen = 1]]
              \/ req' = [req EXCEPT ![r] = [IdleRequest EXCEPT !.op = "update", !.pc = "row",
                                              !.plan = p, !.on = catalog[p].aiTier]]
            PROVE req'[r].op = "update"
        BY <2>0, <4>2 DEF IdleRequest
      <4>3. CASE UpdatePlan(r, p)
        BY <4>2, <4>3 DEF UpdatePlan, Begin
      <4> QED BY <2>7, <4>1, <4>3
    <3>2. RequestFits(req[r])'
      BY DEF TypeInv
    <3> QED BY <3>1, <3>2 DEF RequestFits
  <2> QED BY <2>1, <2>2, <2>3, <2>4, <2>5, <2>6, <2>7 DEF Reading
<1>3. req'[r].pc \in AcceptPcs => Accepting(req[r])'
  <2>1. req'[r].pc \in AcceptPcs => req'[r].pc = "account"
    BY <1>1 DEF AcceptPcs, FirstPcs
  <2> QED BY <1>2, <2>1, AcceptInviteAccepts
<1>4. AcceptsNext
  <2>1. req[r].pc # "dropInvite"
    BY <1>1 DEF IdleRequest
  <2> QED BY <1>1, <1>3, <2>1 DEF AcceptsNext
<1> QED BY <1>4, UsersUntouched, KeysStay, IssuedStay, InvitesStay, NextKeepsInvitations

LEMMA CrashKeepsInvitations ==
  ASSUME TypeInv, TypeInv', UNCHANGED transactions, InvitationInv, NEW r \in Requests, Crash(r) PROVE InvitationInv'
<1>1. /\ UNCHANGED <<users, invites>> /\ req'[r] = IdleRequest
      /\ \A p \in Requests \ {r} : req'[p] = req[p]
  BY ReqFacts DEF Crash, Finish
<1>2. CASE req[r].pc # "dropInvite"
  <2>1. AcceptsNext
    BY <1>1, <1>2 DEF AcceptsNext, AcceptPcs, IdleRequest
  <2>2. issued' = issued
    BY <1>2 DEF Crash, At
  <2> QED BY <1>1, <2>1, <2>2, UsersUntouched, KeysStay, IssuedStay, InvitesStay, NextKeepsInvitations
<1>3. CASE req[r].pc = "dropInvite"
  <2>1. req[r].token \in DOMAIN issued /\ issued' = [issued EXCEPT ![req[r].token].dangling = TRUE]
    BY <1>3, ReqFacts DEF Crash, At, RequestFits, AcceptPcs
  <2>2. issued'[req[r].token].dangling
    BY <2>1, RowFacts DEF IssuedToken
  <2>3. AcceptsNext
    BY <1>1, <2>2 DEF AcceptsNext, AcceptPcs, IdleRequest, SpentNext
  <2> QED BY <1>1, <2>1, <2>3, UsersUntouched, KeysStay, IssuedStay, InvitesStay, NextKeepsInvitations
<1> QED BY <1>2, <1>3

\* Inviting, removing and updating users.
LEMMA InvitingWrites ==
  ASSUME TypeInv, InvitationInv, NEW r \in Requests, TenantUserStep(r),
         req[r].pc \notin AcceptPcs
  PROVE  SameOwner /\ SameKeys /\ IssuedNext /\ InvitesNext /\ OneInvitation'
<1>1. (UNCHANGED issued => IssuedNext) /\ (UNCHANGED invites => InvitesNext /\ OneInvitation')
      /\ (UNCHANGED users => SameOwner /\ SameKeys)
  BY IssuedStay, InvitesStay, UsersUntouched
<1>2. ASSUME NEW S, invites' = deleteInvites(S) PROVE InvitesNext /\ OneInvitation'
  BY <1>2, InvitesDeleted
<1>3. CASE InviteInTransaction(r) \/ InviteWriteUser(r)
  <2>1. At(r, "invite")
        /\ (users' = users \/ \E role \in {"admin", "member"} : users' = InvitedUsers(r, role))
    BY <1>3, RolesOfScenario DEF InviteInTransaction, InviteWriteUser
  <2>2. SameOwner /\ SameKeys
    BY <1>1, <2>1, InvitedUsersFrame
  <2>3. \/ UNCHANGED <<invites, issued>>
        \/ /\ invites' = upsert(req[r].tenant, req[r].email, Len(issued) + 1)
           /\ issued' = IssueTo(r)
    BY <1>3 DEF InviteInTransaction, InviteWriteUser
  <2>4. IssuedNext /\ InvitesNext /\ OneInvitation'
    BY <1>1, <2>1, <2>3, InvitationUpserted DEF At
  <2> QED BY <2>2, <2>4
<1>4. CASE UpsertInvite(r)
  <2>1. /\ req[r].pc = "upsert" /\ users' = users
        /\ \/ UNCHANGED <<invites, issued>>
           \/ /\ invites' = upsert(req[r].tenant, req[r].email, Len(issued) + 1)
              /\ issued' = IssueTo(r)
    BY <1>4 DEF UpsertInvite, At
  <2> QED BY <1>1, <2>1, InvitationUpserted
<1>5. CASE UndoInvitee(r) \/ RemoveUser(r)
  <2>1. users' = users \/ \E fate : users' = deleteByIdAndTenantId(req[r].user, fate)
    BY <1>5 DEF UndoInvitee, RemoveUser
  <2>2. issued' = issued /\ (invites' = invites \/ \E S : invites' = deleteInvites(S))
    BY <1>5 DEF UndoInvitee, RemoveUser
  <2> QED BY <1>1, <1>2, <2>1, <2>2, UserTakenAway
<1>6. CASE SendInvite(r)
  <2>1. UNCHANGED <<users, invites>> /\ req[r].token \in DOMAIN issued
        /\ \E a \in BOOLEAN : issued' = [issued EXCEPT ![req[r].token].mailed = a]
    BY <1>6, ReqFacts DEF SendInvite, At, RequestFits, Arrives
  <2> QED BY <1>1, <2>1, IssuedStay
<1>7. CASE DropInvitesOf(r)
  BY <1>1, <1>2, <1>7 DEF DropInvitesOf
<1>8. CASE WriteUser(r)
  BY <1>1, <1>8, RowChanged DEF WriteUser
<1>9. CASE InviteReadTenant(r) \/ InviteCount(r) \/ ReadSubscription(r) \/ AssertWithinUserLimit(r)
  BY <1>1, <1>9 DEF InviteReadTenant, InviteCount, ReadSubscription, AssertWithinUserLimit
<1>10. ~(AcceptFindAccount(r) \/ Activate(r) \/ DropInvite(r))
  BY DEF AcceptFindAccount, Activate, DropInvite, At, AcceptPcs
<1> QED BY <1>3, <1>4, <1>5, <1>6, <1>7, <1>8, <1>9, <1>10 DEF TenantUserStep

LEMMA InvitingKeepsInvitations ==
  ASSUME TypeInv, TypeInv', UNCHANGED transactions, InvitationInv, NEW r \in Requests, TenantUserStep(r),
         req[r].pc \notin AcceptPcs
  PROVE  InvitationInv'
<1>1. AcceptsNext
  <2>1. req[r].op # "acceptInvite"
    BY ReqFacts DEF TenantUserStep, InviteReadTenant, InviteCount, ReadSubscription,
       AssertWithinUserLimit, InviteInTransaction, InviteWriteUser, UpsertInvite, UndoInvitee,
       SendInvite, AcceptFindAccount, Activate, DropInvite, RemoveUser, DropInvitesOf, WriteUser,
       At, RequestFits, InvitePcs, AcceptPcs
  <2>2. UserMove(r)
    BY TenantUserMoves
  <2> QED BY <2>1, <2>2, OthersApart DEF UserMove, Moves
<1> QED BY <1>1, InvitingWrites, KeysStay, NextKeepsInvitations

LEMMA AcceptFindAccountKeeps ==
  ASSUME TypeInv, TypeInv', UNCHANGED transactions, InvitationInv, NEW r \in Requests, AcceptFindAccount(r)
  PROVE  InvitationInv'
<1>1. UNCHANGED <<users, invites, issued>> /\ req[r].pc = "account" /\ Accepting(req[r])
  BY DEF AcceptFindAccount, At, InvitationInv
<1>2. req'[r].pc \in AcceptPcs => Accepting(req[r])'
  <2>1. CASE Finish(r)
    BY <2>1, ReqFacts DEF Finish, IdleRequest, AcceptPcs
  <2>2. ASSUME NEW u \in findByEmailInTenant(req[r].email, req[r].tenant),
               req' = [req EXCEPT ![r] = [req[r] EXCEPT !.pc = "activate", !.user = u]]
        PROVE  Accepting(req[r])'
    <3> DEFINE q == [req[r] EXCEPT !.pc = "activate", !.user = u]
    <3>1. /\ q.pc = "activate" /\ q.user = u /\ q.token = req[r].token /\ q.invite = req[r].invite
          /\ q.tenant = req[r].tenant /\ q.email = req[r].email
      BY ReqFacts DEF Request
    <3>2. req'[r] = q
      BY <2>2, ReqFacts
    <3> HIDE DEF q
    <3>3. u \in DOMAIN users /\ users[u].email = req[r].email /\ users[u].tenant = req[r].tenant
      BY DEF findByEmailInTenant, findByEmail
    <3> QED BY <1>1, <3>1, <3>2, <3>3 DEF Accepting, TokenOf, AcceptPcs
  <2>3. Finish(r) \/ \E u \in findByEmailInTenant(req[r].email, req[r].tenant) :
           req' = [req EXCEPT ![r] = [req[r] EXCEPT !.pc = "activate", !.user = u]]
    BY DEF AcceptFindAccount
  <2> QED BY <2>1, <2>2, <2>3
<1>3. \A p \in Requests \ {r} : req'[p] = req[p]
  <2>1. UserMove(r)
    BY TenantUserMoves DEF TenantUserStep
  <2> QED BY <2>1 DEF UserMove, Moves
<1>4. AcceptsNext
  BY <1>1, <1>2, <1>3 DEF AcceptsNext
<1> QED BY <1>1, <1>4, UsersUntouched, KeysStay, IssuedStay, InvitesStay, NextKeepsInvitations

\* The account gets the token as its key; its invitation goes in the same step, or the
\* request goes on to delete it.
LEMMA ActivateKeepsInvitations ==
  ASSUME TypeInv, TypeInv', UNCHANGED transactions, InvitationInv, NEW r \in Requests, Activate(r)
  PROVE  InvitationInv'
<1> DEFINE q == req[r]
<1>1. /\ q.pc = "activate" /\ Accepting(q) /\ issued' = issued
      /\ q.token \in DOMAIN issued /\ q.user \in DOMAIN users
  BY ReqFacts DEF Activate, At, InvitationInv, RequestFits, AcceptPcs
<1>2. /\ SameOwner /\ DOMAIN users' = DOMAIN users
      /\ \A x \in DOMAIN users :
           users'[x].key = users[x].key \/ (x = q.user /\ users'[x].key = q.token)
  BY Activation
<1>3. \A p \in Requests \ {r} : req'[p] = req[p]
  <2>1. UserMove(r)
    BY TenantUserMoves DEF TenantUserStep
  <2> QED BY <2>1 DEF UserMove, Moves
<1>4. /\ TokenOf(q.token, users[q.user]) /\ TokenOf(q.token, q)
      /\ \A i \in DOMAIN invites :
           invites[i].stored /\ invites[i].token = q.token => i = q.invite
  BY <1>1 DEF Accepting, AcceptPcs
<1>5. TokenNext(q.token, users'[q.user])
  BY <1>1, <1>2, <1>4 DEF TokenOf, TokenNext, SameOwner
<1>6. CASE invites' = SpendInvite(r) /\ Finish(r)
  <2>1. /\ InvitesNext /\ OneInvitation'
        /\ \A i \in DOMAIN invites' : i = q.invite => ~invites'[i].stored
    BY <1>6, InvitesDeleted DEF SpendInvite
  <2>2. \A i \in DOMAIN invites' : ~(invites'[i].stored /\ invites'[i].token = q.token)
    BY <1>1, <1>4, <2>1 DEF InvitesNext
  <2>3. KeysNext
    BY <1>2, <1>5, <2>2 DEF KeysNext
  <2>4. AcceptsNext
    BY <1>1, <1>3, <1>6, ReqFacts DEF AcceptsNext, Finish, IdleRequest, AcceptPcs
  <2> QED BY <1>1, <1>2, <2>1, <2>3, <2>4, IssuedStay, NextKeepsInvitations
<1>7. CASE ~transactions /\ Goto(r, "dropInvite") /\ invites' = invites
  <2>1. req'[r] = [q EXCEPT !.pc = "dropInvite"]
    BY <1>7, ReqFacts DEF Goto
  <2>2. /\ req'[r].pc = "dropInvite" /\ req'[r].invite = q.invite /\ req'[r].token = q.token
        /\ req'[r].tenant = q.tenant /\ req'[r].email = q.email
    BY <2>1, ReqFacts DEF Request
  <2>3. KeysNext
    <3>1. ASSUME NEW i \in DOMAIN invites, invites[i].stored, invites[i].token = q.token,
                 users'[q.user].key = q.token
          PROVE  SpendingNext(q.user, i)
      BY <1>4, <2>2, <3>1 DEF SpendingNext
    <3> QED BY <1>2, <1>5, <1>7, <3>1 DEF KeysNext
  <2>4. Accepting(req[r])'
    BY <1>1, <1>4, <1>7, <2>2 DEF Accepting, TokenOf, AcceptPcs
  <2>5. AcceptsNext
    BY <1>1, <1>3, <2>4 DEF AcceptsNext
  <2> QED BY <1>1, <1>2, <1>7, <2>3, <2>5, IssuedStay, InvitesStay, NextKeepsInvitations
<1> HIDE DEF q
<1> QED BY <1>6, <1>7 DEF Activate

LEMMA DropInviteKeepsInvitations ==
  ASSUME TypeInv, TypeInv', UNCHANGED transactions, InvitationInv, NEW r \in Requests, DropInvite(r)
  PROVE  InvitationInv'
<1>1. /\ req[r].pc = "dropInvite" /\ users' = users
      /\ req[r].token \in DOMAIN issued /\ req[r].invite \in DOMAIN invites
      /\ req'[r] = IdleRequest /\ \A p \in Requests \ {r} : req'[p] = req[p]
  BY ReqFacts DEF DropInvite, At, RequestFits, AcceptPcs, Finish
<1>2. SpentNext(req[r]) => AcceptsNext
  BY <1>1 DEF AcceptsNext, AcceptPcs, IdleRequest
<1>3. CASE invites' = SpendInvite(r) /\ UNCHANGED issued
  <2>1. DOMAIN invites' = DOMAIN invites
    BY <1>3 DEF SpendInvite, deleteInvites
  <2>2. InvitesNext /\ OneInvitation' /\ ~invites'[req[r].invite].stored
    BY <1>1, <1>3, <2>1, InvitesDeleted DEF SpendInvite
  <2> QED BY <1>1, <1>2, <1>3, <2>2, UsersUntouched, KeysStay, IssuedStay, NextKeepsInvitations
           DEF SpentNext
<1>4. CASE issued' = [issued EXCEPT ![req[r].token].dangling = TRUE] /\ UNCHANGED invites
  <2>1. issued'[req[r].token].dangling
    BY <1>1, <1>4, RowFacts DEF IssuedToken
  <2> QED BY <1>1, <1>2, <1>4, <2>1, UsersUntouched, KeysStay, IssuedStay, InvitesStay,
             NextKeepsInvitations DEF SpentNext
<1> QED BY <1>3, <1>4 DEF DropInvite

LEMMA InvitationStep ==
  ASSUME TypeInv, InvitationInv, [Next]_tenancyVars PROVE InvitationInv'
<1>1. TypeInv' /\ UNCHANGED transactions
  BY TypeStep DEF Next, tenancyVars
<1>2. ASSUME NEW r \in Requests, Arrival(r) PROVE InvitationInv'
  <2>1. CASE Reading(r) /\ UNCHANGED <<tenants, users, invites, issued, catalog,
                                       subscriptions, interrupted>>
    BY <1>1, <2>1, ReadingKeepsInvitations
  <2> QED BY <1>1, <1>2, <2>1, ArrivalReads, OtherStepsKeepInvitations
<1>3. ASSUME NEW r \in Requests, TenantUserStep(r) PROVE InvitationInv'
  <2>1. req[r].pc \in AcceptPcs => AcceptFindAccount(r) \/ Activate(r) \/ DropInvite(r)
    BY <1>3 DEF TenantUserStep, InviteReadTenant, InviteCount, ReadSubscription,
       AssertWithinUserLimit, InviteInTransaction, InviteWriteUser, UpsertInvite, UndoInvitee,
       SendInvite, RemoveUser, DropInvitesOf, WriteUser, At, AcceptPcs
  <2> QED BY <1>1, <1>3, <2>1, InvitingKeepsInvitations, AcceptFindAccountKeeps,
             ActivateKeepsInvitations, DropInviteKeepsInvitations
<1>4. ASSUME NEW r \in Requests, Progress(r) \/ Crash(r) PROVE InvitationInv'
  BY <1>1, <1>3, <1>4, OtherStepsKeepInvitations, CrashKeepsInvitations DEF Progress
<1>5. CASE Environment
  BY <1>1, <1>5, EnvironmentKeepsInvitations
<1>6. CASE UNCHANGED tenancyVars
  <2>1. UNCHANGED <<users, invites, issued, req>>
    BY <1>6 DEF tenancyVars
  <2>2. AcceptsNext
    BY <2>1 DEF AcceptsNext
  <2> QED BY <1>1, <2>1, <2>2, UsersUntouched, KeysStay, IssuedStay, InvitesStay, NextKeepsInvitations
<1> QED BY <1>2, <1>4, <1>5, <1>6 DEF Next

LEMMA InvitationInit == ASSUME TenancyInit PROVE InvitationInv
<1>1. \A r \in Requests : req[r] = IdleRequest
  BY DEF TenancyInit
<1>2. DOMAIN invites = {} /\ \A u \in DOMAIN users : users[u].key = 0
  BY InitialRows
<1> QED BY <1>1, <1>2 DEF InvitationInv, InvitesTraced, OneInvitation, Accepting,
           InvitationStaysInTenant, SpentOrSpending, IdleRequest, AcceptPcs

LEMMA InvitationHolds == Spec => []InvitationInv
<1>1. TenancyInit => TypeInv /\ InvitationInv
  BY TypeInit, InvitationInit
<1>2. TypeInv /\ InvitationInv /\ [Next]_tenancyVars => TypeInv' /\ InvitationInv'
  BY TypeStep, InvitationStep
<1> QED BY <1>1, <1>2, PTL DEF Spec

\* An account is only ever activated with an invitation of its own organization, sent to
\* its own address, although the address alone finds the invitation.
THEOREM InvitationsStayInTenant == Spec => []InvitationStaysInTenant
<1>1. InvitationInv => InvitationStaysInTenant
  BY DEF InvitationInv
<1> QED BY <1>1, InvitationHolds, PTL

LEMMA SpentOnceActivated == ASSUME InvitationInv PROVE InvitationIsSpent
<1>1. ASSUME NEW u \in DOMAIN users, NEW i \in DOMAIN invites, Spending(u, i)
      PROVE  ~transactions /\ \E r \in Requests : At(r, "dropInvite") /\ req[r].invite = i
  BY <1>1 DEF Spending, At, InvitationInv, Accepting
<1> QED BY <1>1 DEF InvitationInv, SpentOrSpending, InvitationIsSpent

\* With transactions no row holds the token an account was activated with; without them a
\* row does only while the request that activated is about to delete it, or after that
\* deletion failed.  This does not bound how often the token activates: requests that had
\* read the row by then go on to activate the account again.
THEOREM InvitationsAreSpent == Spec => []InvitationIsSpent
<1>1. InvitationInv => InvitationIsSpent
  BY SpentOnceActivated
<1> QED BY <1>1, InvitationHolds, PTL

\* With transactions, whoever presents a token that an account was activated with is
\* refused: an acceptance begins only with a token nobody was activated with.
THEOREM SpentInvitationsAreRefused ==
  Spec => [][\A r \in Requests, t \in DOMAIN issued :
               transactions /\ AcceptInvite(r, t)
                 => \A u \in DOMAIN users : users[u].key # t]_tenancyVars
<1>1. ASSUME InvitationInv, transactions, NEW r \in Requests, NEW t \in DOMAIN issued,
             AcceptInvite(r, t), NEW u \in DOMAIN users
      PROVE  users[u].key # t
  <2>1. PICK i \in DOMAIN invites : invites[i].stored /\ invites[i].token = t
    BY <1>1 DEF AcceptInvite, findByEmailWithToken
  <2>2. InvitationIsSpent
    BY <1>1, SpentOnceActivated
  <2> QED BY <1>1, <2>1, <2>2 DEF InvitationIsSpent
<1>2. InvitationInv => [\A r \in Requests, t \in DOMAIN issued :
               transactions /\ AcceptInvite(r, t)
                 => \A u \in DOMAIN users : users[u].key # t]_tenancyVars
  BY <1>1
<1> QED BY <1>2, InvitationHolds, PTL
===============================================================================
