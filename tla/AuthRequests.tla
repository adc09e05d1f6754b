----------------------------- MODULE AuthRequests -----------------------------
(***************************************************************************)
(* What the requests of AuthService and MfaService share: the collections  *)
(* they read and write, and the program counter and locals of each request.*)
(* A request is interrupted at every await, so each database call is one   *)
(* step; a request that is refused without a write takes no step at all.   *)
(***************************************************************************)
EXTENDS UserMfaStore, Sequences, FiniteSets

CONSTANTS
  Users, Tenants, None,
  TenantOf,       \* the user's tenant; None for a platform operator
  Requests,       \* concurrent requests
  Operations,     \* which operations clients call
  Faults,         \* what else goes on: "expiry", "crash", "deletion"
  MaxAttempts,    \* wrong codes a challenge survives, MFA_MAX_VERIFY_ATTEMPTS
  MaxChallenges, MaxTokens, MaxSerial, MaxStep   \* bounds

ASSUME TenantOfAssumption == TenantOf \in [Users -> Tenants \cup {None}]
ASSUME AttemptsAssumption == MaxAttempts \in Nat \ {0}
ASSUME FaultsAssumption == Faults \subseteq {"expiry", "crash", "deletion"}
ASSUME NobodyAssumption == None \notin Users \cup Tenants
ASSUME RequestsAssumption == IsFiniteSet(Requests)

VARIABLES
  users,        \* the users that exist
  openTenants,  \* tenants that are not soft-deleted
  mfa,          \* user_mfa, by user
  challenges,   \* mfa_challenges ever issued, in order; `stored' while MongoDB has them
  tokens,       \* refresh_tokens ever created, likewise
  serial,       \* serial numbers drawn so far
  now,          \* the current TOTP time step
  redeemed,     \* history: the second factors accepted so far
  req

dataVars == <<users, openTenants, mfa, challenges, tokens, serial, now, redeemed>>
authVars == <<users, openTenants, mfa, challenges, tokens, serial, now, redeemed, req>>

Purposes == {"totp", "email_code"}
Challenge == [user : Users \cup {None}, purpose : Purposes, attempts : Nat,
              consumed : BOOLEAN, expired : BOOLEAN, stored : BOOLEAN]

\* `parent' is the token this one was rotated from (0 after a sign-in), `via' the
\* challenge that was completed for it (0 if none).  `late': its user or tenant was
\* gone when it was created.
Token == [user : Users, parent : Nat, via : Nat, late : BOOLEAN,
          expired : BOOLEAN, stored : BOOLEAN]

Codes == [kind : {"none", "totp", "backup_code"}, id : Nat]
NoCode == [kind |-> "none", id |-> 0]

Pcs == {"idle", "mfa", "eligible", "issue", "user", "secrets", "claim", "fail", "drop",
        "consume", "tenant", "create", "clear", "revoke", "owner", "rotate", "dropToken",
        "enrol", "activate", "password", "disable", "replace"}
Ops == {"none", "login", "requestLoginCode", "verifyMfaChallenge", "refresh", "logout",
        "startTotpEnrollment", "enableTotp", "disableTotp", "regenerateBackupCodes",
        "updatePreferences", "resetMfaForUser"}
Request == [op : Ops, pc : Pcs, user : Users \cup {None}, challenge : Nat, token : Nat,
            code : Codes]
IdleRequest == [op |-> "none", pc |-> "idle", user |-> None, challenge |-> 0, token |-> 0,
                code |-> NoCode]

AuthTypeOK ==
  /\ users \subseteq Users
  /\ openTenants \subseteq Tenants
  /\ mfa \in [Users -> MfaRow]
  /\ challenges \in Seq(Challenge)
  /\ tokens \in Seq(Token)
  /\ serial \in Nat
  /\ now \in Nat
  /\ redeemed \subseteq (Codes \X Nat)
  /\ req \in [Requests -> Request]

AuthInit ==
  /\ users = Users
  /\ openTenants = Tenants
  /\ mfa = [u \in Users |-> NoMfa]
  /\ challenges = <<>>
  /\ tokens = <<>>
  /\ serial = 0
  /\ now = 1
  /\ redeemed = {}
  /\ req = [r \in Requests |-> IdleRequest]

-----------------------------------------------------------------------------
At(r, pc) == req[r].pc = pc
UserOf(r) == req[r].user
Goto(r, pc) == req' = [req EXCEPT ![r].pc = pc]
Finish(r) == req' = [req EXCEPT ![r] = IdleRequest]

\* A request arrives and makes its first read.
Begin(r, op, pc, u) ==
  /\ op \in Operations
  /\ At(r, "idle")
  /\ req' = [req EXCEPT ![r] = [IdleRequest EXCEPT !.op = op, !.pc = pc, !.user = u]]

TenantIsOpen(u) == TenantOf[u] = None \/ TenantOf[u] \in openTenants

\* Mutant: the cap is off by one.
LockedTooLate(c) == challenges[c].attempts > MaxAttempts

Locked(c) == challenges[c].attempts >= MaxAttempts

\* The records of S are deleted.
Unstored(records, S) ==
  [i \in DOMAIN records |-> IF i \in S THEN [records[i] EXCEPT !.stored = FALSE] ELSE records[i]]
===============================================================================
