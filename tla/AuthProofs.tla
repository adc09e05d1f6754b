------------------------------ MODULE AuthProofs ------------------------------
(***************************************************************************)
(* Proofs about AuthSystem: types, what deletion does to sessions, what a  *)
(* challenge buys and how often a second factor is accepted, for any       *)
(* number of users, tenants, requests, challenges and tokens.              *)
(***************************************************************************)
EXTENDS AuthSystem, SequenceTheorems, FiniteSetTheorems, TLAPS

-----------------------------------------------------------------------------
(* Types *)

\* A request knows its user, except one that issues a decoy or drops one.
UserKnown ==
  \A r \in Requests : req[r].pc \notin {"idle", "issue", "drop"} => req[r].user \in Users

TypeInv == TypeOK /\ UserKnown

LEMMA IdleType == IdleRequest \in Request /\ IdleRequest.pc = "idle"
BY DEF IdleRequest, Request, Ops, Pcs, Codes, NoCode

LEMMA MoveType ==
  ASSUME TypeInv, NEW r \in Requests, NEW q \in Request,
         q.pc \notin {"idle", "issue", "drop"} => q.user \in Users,
         req' = [req EXCEPT ![r] = q]
  PROVE  req' \in [Requests -> Request] /\ UserKnown'
BY DEF TypeInv, TypeOK, AuthTypeOK, UserKnown

LEMMA FinishType ==
  ASSUME TypeInv, NEW r \in Requests, Finish(r)
  PROVE  req' \in [Requests -> Request] /\ UserKnown'
BY IdleType, MoveType DEF Finish

LEMMA GotoType ==
  ASSUME TypeInv, NEW r \in Requests, NEW pc \in Pcs, Goto(r, pc),
         req[r].pc \notin {"idle", "issue", "drop"}
  PROVE  req' \in [Requests -> Request] /\ UserKnown'
<1> DEFINE q == [req[r] EXCEPT !.pc = pc]
<1>1. req[r] \in Request /\ req[r].user \in Users /\ req \in [Requests -> Request]
  BY DEF TypeInv, TypeOK, AuthTypeOK, UserKnown
<1>2. q \in Request /\ q.user \in Users
  BY <1>1 DEF Request
<1>3. req' = [req EXCEPT ![r] = q]
  BY <1>1 DEF Goto, Request
<1> HIDE DEF q
<1> QED
  BY <1>2, <1>3, MoveType

LEMMA BeginType ==
  ASSUME TypeInv, NEW r \in Requests, NEW op \in Ops, NEW pc \in Pcs,
         NEW u \in Users \cup {None}, u \in Users \/ pc = "issue", Begin(r, op, pc, u)
  PROVE  req' \in [Requests -> Request] /\ UserKnown'
<1> DEFINE q == [IdleRequest EXCEPT !.op = op, !.pc = pc, !.user = u]
<1>1. q \in Request /\ q.pc = pc /\ q.user = u
  BY IdleType DEF Request
<1>2. req' = [req EXCEPT ![r] = q]
  BY DEF Begin
<1> HIDE DEF q
<1> QED
  BY <1>1, <1>2, MoveType

LEMMA UnstoredType ==
  ASSUME NEW T, NEW s \in Seq(T), NEW S,
         \A x \in T : [x EXCEPT !.stored = FALSE] \in T
  PROVE  Unstored(s, S) \in Seq(T) /\ Len(Unstored(s, S)) = Len(s)
<1>1. /\ Len(s) \in Nat /\ DOMAIN s = 1 .. Len(s)
      /\ \A i \in 1 .. Len(s) : s[i] \in T
  BY LenProperties, ElementOfSeq
<1>2. Unstored(s, S) \in [1 .. Len(s) -> T]
  BY <1>1 DEF Unstored
<1>3. Unstored(s, S) \in Seq(T)
  BY <1>1, <1>2, SeqDef
<1> QED
  BY <1>1, <1>2, <1>3, LenProperties

LEMMA StoreTypes ==
  /\ \A x \in Challenge : [x EXCEPT !.stored = FALSE] \in Challenge
  /\ \A x \in Token : [x EXCEPT !.stored = FALSE] \in Token
BY DEF Challenge, Token

-----------------------------------------------------------------------------
\* The steps of a request, each typed.

LEMMA IssueType ==
  ASSUME TypeInv, NEW r \in Requests, IssueChallenge(r)
  PROVE  TypeInv'
<1> DEFINE ch == [user |-> UserOf(r), attempts |-> 0, consumed |-> FALSE, expired |-> FALSE,
                  stored |-> TRUE,
                  purpose |-> IF req[r].op = "login" THEN "totp" ELSE "email_code"]
<1>1. ch \in Challenge
  BY DEF TypeInv, TypeOK, AuthTypeOK, Request, Challenge, Purposes, UserOf
<1>2. challenges' = Append(challenges, ch) /\ Finish(r)
      /\ UNCHANGED <<users, openTenants, mfa, tokens, serial, now, redeemed>>
  BY DEF IssueChallenge
<1> HIDE DEF ch
<1>3. challenges' \in Seq(Challenge)
  BY <1>1, <1>2 DEF TypeInv, TypeOK, AuthTypeOK
<1> QED
  BY <1>2, <1>3, FinishType DEF TypeInv, TypeOK, AuthTypeOK

LEMMA LoadType ==
  ASSUME TypeInv, NEW r \in Requests, NEW c \in DOMAIN challenges, LoadChallenge(r, c)
  PROVE  TypeInv'
<1>1. challenges[c] \in Challenge /\ c \in Nat
  BY LenProperties, ElementOfSeq DEF TypeInv, TypeOK, AuthTypeOK
<1> DEFINE pc == IF challenges[c].expired \/ Locked(c) THEN "drop" ELSE "user"
           q == [IdleRequest EXCEPT !.op = "verifyMfaChallenge", !.user = challenges[c].user,
                                    !.challenge = c, !.pc = pc]
<1>3. req' = [req EXCEPT ![r] = q] /\ UNCHANGED dataVars
  BY DEF LoadChallenge
<1>4. pc \in Pcs /\ (challenges[c].user \in Users \/ pc \in {"issue", "drop"})
  BY <1>1 DEF LoadChallenge, Pcs, Challenge
<1>5. challenges[c].user \in Users \cup {None}
  BY <1>1 DEF Challenge
<1>6. q \in Request /\ q.pc = pc /\ q.user = challenges[c].user
  BY <1>1, <1>4, <1>5, IdleType DEF Request, Ops
<1> HIDE DEF q, pc
<1>7. req' \in [Requests -> Request] /\ UserKnown'
  BY <1>3, <1>4, <1>6, MoveType
<1> QED
  BY <1>3, <1>7 DEF TypeInv, TypeOK, AuthTypeOK, dataVars

\* A step that moves a request and changes nothing else.
LEMMA PureMoveType ==
  ASSUME TypeInv, UNCHANGED dataVars,
         req' \in [Requests -> Request] /\ UserKnown'
  PROVE  TypeInv'
BY DEF TypeInv, TypeOK, AuthTypeOK, dataVars

LEMMA PureStepType ==
  ASSUME TypeInv, NEW r \in Requests,
         \/ CheckUser(r) \/ LoginReadMfa(r) \/ AssertTenantActive(r)
         \/ RefreshReadUser(r) \/ CheckPassword(r) \/ Crash(r)
  PROVE  TypeInv'
<1>1. UNCHANGED dataVars
  BY DEF CheckUser, LoginReadMfa, AssertTenantActive, RefreshReadUser, CheckPassword, Crash
<1>2. Finish(r) \/ (req[r].pc \notin {"idle", "issue", "drop"} /\ \E pc \in Pcs : Goto(r, pc))
  BY DEF CheckUser, LoginReadMfa, AssertTenantActive, RefreshReadUser, CheckPassword, Crash,
         At, Pcs
<1> QED
  BY <1>1, <1>2, FinishType, GotoType, PureMoveType

LEMMA ReadSecretsType ==
  ASSUME TypeInv, NEW r \in Requests, ReadSecrets(r)
  PROVE  TypeInv'
<1>1. UNCHANGED dataVars /\ req[r].pc = "secrets" /\ serial \in Nat /\ now \in Nat
  BY DEF ReadSecrets, At, TypeInv, TypeOK, AuthTypeOK
<1>2. CASE Reject(r)
  BY <1>1, <1>2, FinishType, GotoType, PureMoveType DEF Reject, Pcs
<1>3. ASSUME NEW kind \in {"totp", "backup_code"}, NEW id \in Nat,
             req' = [req EXCEPT ![r].pc = "claim", ![r].code = [kind |-> kind, id |-> id]]
      PROVE  TypeInv'
  <2> DEFINE q == [req[r] EXCEPT !.pc = "claim", !.code = [kind |-> kind, id |-> id]]
  <2>1. req[r] \in Request /\ req[r].user \in Users /\ req \in [Requests -> Request]
    BY <1>1 DEF TypeInv, TypeOK, AuthTypeOK, UserKnown
  <2>2. q \in Request /\ q.user \in Users
    BY <2>1 DEF Request, Pcs, Codes
  <2>3. req' = [req EXCEPT ![r] = q]
    BY <1>3, <2>1 DEF Request
  <2> HIDE DEF q
  <2> QED
    BY <1>1, <2>2, <2>3, MoveType, PureMoveType
<1>4. CASE ~Reject(r)
  <2>1. PICK kind \in {"totp", "backup_code"}, id \in Nat :
           req' = [req EXCEPT ![r].pc = "claim", ![r].code = [kind |-> kind, id |-> id]]
    BY <1>1, <1>4 DEF ReadSecrets
  <2> QED
    BY <1>3, <2>1
<1> QED
  BY <1>2, <1>4

LEMMA UserRow ==
  ASSUME TypeInv, NEW r \in Requests, req[r].pc \notin {"idle", "issue", "drop"}
  PROVE  /\ UserOf(r) \in Users /\ mfa[UserOf(r)] \in MfaRow
         /\ req[r] \in Request
BY DEF TypeInv, TypeOK, AuthTypeOK, UserKnown, UserOf

\* Each write of the store yields a row.
LEMMA RowWrites ==
  ASSUME NEW row \in MfaRow, NEW n \in Nat, NEW k \in Nat, NEW on \in BOOLEAN
  PROVE  /\ startTotpEnrollment(row, n) \in MfaRow
         /\ activateTotp(row, n, k, k) \in MfaRow
         /\ disableTotp(row) \in MfaRow
         /\ tryConsumeTotpStep(row, n) \in MfaRow
         /\ markBackupCodeUsed(row, n) \in MfaRow
         /\ replaceBackupCodes(row, n) \in MfaRow
         /\ setEmailCodeLoginEnabled(row, on) \in MfaRow
         /\ [row EXCEPT !.pendingExpired = TRUE] \in MfaRow
<1>1. startTotpEnrollment(row, n) \in MfaRow
  BY DEF MfaRow, startTotpEnrollment
<1>2. activateTotp(row, n, k, k) \in MfaRow
  BY DEF MfaRow, activateTotp
<1>3. disableTotp(row) \in MfaRow
  BY DEF MfaRow, disableTotp, NoMfa
<1>4. tryConsumeTotpStep(row, n) \in MfaRow
  BY DEF MfaRow, tryConsumeTotpStep
<1>5. markBackupCodeUsed(row, n) \in MfaRow
  BY DEF MfaRow, markBackupCodeUsed
<1>6. replaceBackupCodes(row, n) \in MfaRow
  BY DEF MfaRow, replaceBackupCodes
<1>7. setEmailCodeLoginEnabled(row, on) \in MfaRow
  BY DEF MfaRow, setEmailCodeLoginEnabled
<1>8. [row EXCEPT !.pendingExpired = TRUE] \in MfaRow
  BY DEF MfaRow
<1> QED
  BY <1>1, <1>2, <1>3, <1>4, <1>5, <1>6, <1>7, <1>8

\* A sequence stays one of its type when one element is overwritten.
LEMMA OverwriteType ==
  ASSUME NEW T, NEW s \in Seq(T), NEW i, NEW x, i \in DOMAIN s => x \in T
  PROVE  /\ [s EXCEPT ![i] = x] \in Seq(T) /\ Len([s EXCEPT ![i] = x]) = Len(s)
<1> DEFINE w == [s EXCEPT ![i] = x]
<1>1. /\ Len(s) \in Nat /\ DOMAIN s = 1 .. Len(s)
      /\ \A j \in 1 .. Len(s) : s[j] \in T
  BY LenProperties, ElementOfSeq
<1>2. w \in [1 .. Len(s) -> T]
  BY <1>1
<1>3. w \in Seq(T)
  BY <1>1, <1>2, SeqDef
<1> QED
  BY <1>1, <1>2, <1>3, LenProperties

LEMMA RejectAcceptType ==
  ASSUME TypeInv, NEW r \in Requests, At(r, "claim"), Reject(r) \/ Accept(r)
  PROVE  req' \in [Requests -> Request] /\ UserKnown'
<1>1. Finish(r) \/ \E pc \in Pcs : Goto(r, pc)
  BY DEF Reject, Accept, Pcs
<1> QED
  BY <1>1, FinishType, GotoType DEF At

LEMMA ClaimType ==
  ASSUME TypeInv, NEW r \in Requests, ClaimTotpStep(r) \/ ClaimBackupCode(r)
  PROVE  TypeInv'
<1>1. At(r, "claim") /\ (Reject(r) \/ Accept(r))
  BY DEF ClaimTotpStep, ClaimBackupCode
<1>2. req' \in [Requests -> Request] /\ UserKnown'
  BY <1>1, RejectAcceptType
<1>3. UserOf(r) \in Users /\ mfa[UserOf(r)] \in MfaRow /\ req[r] \in Request
  BY <1>1, UserRow DEF At
<1>4. req[r].code \in Codes /\ req[r].code.id \in Nat /\ mfa[UserOf(r)].enabledAt \in Nat
  BY <1>3 DEF Request, Codes, MfaRow
<1>5. mfa' \in [Users -> MfaRow]
  <2>1. CASE UNCHANGED mfa
    BY <2>1 DEF TypeInv, TypeOK, AuthTypeOK
  <2>2. ASSUME NEW row \in MfaRow, mfa' = [mfa EXCEPT ![UserOf(r)] = row]
        PROVE  mfa' \in [Users -> MfaRow]
    BY <2>2, <1>3 DEF TypeInv, TypeOK, AuthTypeOK
  <2>3. /\ tryConsumeTotpStep(mfa[UserOf(r)], req[r].code.id) \in MfaRow
        /\ markBackupCodeUsed(mfa[UserOf(r)], req[r].code.id) \in MfaRow
    BY <1>3, <1>4, RowWrites
  <2> QED
    BY <2>1, <2>2, <2>3 DEF ClaimTotpStep, ClaimBackupCode
<1>6. redeemed' \subseteq (Codes \X Nat)
  BY <1>4 DEF ClaimTotpStep, ClaimBackupCode, TypeInv, TypeOK, AuthTypeOK
<1>7. UNCHANGED <<users, openTenants, challenges, tokens, serial, now>>
  BY DEF ClaimTotpStep, ClaimBackupCode
<1> QED
  BY <1>2, <1>5, <1>6, <1>7 DEF TypeInv, TypeOK, AuthTypeOK

\* A step on the challenges only.
LEMMA ChallengeStepType ==
  ASSUME TypeInv, NEW r \in Requests,
         \/ RecordFailedAttempt(r) \/ DropChallenge(r) \/ ConsumeChallenge(r) \/ ClearChallenges(r)
  PROVE  TypeInv'
<1>1. Finish(r) \/ (req[r].pc \notin {"idle", "issue", "drop"} /\ \E pc \in Pcs : Goto(r, pc))
  BY DEF RecordFailedAttempt, DropChallenge, ConsumeChallenge, ClearChallenges, At, Pcs
<1>2. req' \in [Requests -> Request] /\ UserKnown'
  BY <1>1, FinishType, GotoType
<1>3. challenges \in Seq(Challenge)
      /\ \A i \in DOMAIN challenges : challenges[i] \in Challenge
  BY LenProperties, ElementOfSeq DEF TypeInv, TypeOK, AuthTypeOK
<1>4. challenges' \in Seq(Challenge)
  <2>1. CASE UNCHANGED challenges
    BY <2>1, <1>3
  <2>2. ASSUME NEW S, challenges' = Unstored(challenges, S)
        PROVE  challenges' \in Seq(Challenge)
    BY <2>2, <1>3, StoreTypes, UnstoredType
  <2>3. ASSUME NEW c, NEW x, c \in DOMAIN challenges => x \in Challenge,
               challenges' = [challenges EXCEPT ![c] = x]
        PROVE  challenges' \in Seq(Challenge)
    BY <2>3, <1>3, OverwriteType
  <2>4. \A c \in DOMAIN challenges :
           /\ recordFailedAttempt(challenges[c]) \in Challenge
           /\ [challenges[c] EXCEPT !.consumed = TRUE] \in Challenge
    <3> SUFFICES ASSUME NEW ch \in Challenge
                 PROVE  /\ recordFailedAttempt(ch) \in Challenge
                        /\ [ch EXCEPT !.consumed = TRUE] \in Challenge
      BY <1>3
    <3>1. recordFailedAttempt(ch) = [ch EXCEPT !.attempts = ch.attempts + 1]
      BY DEF recordFailedAttempt
    <3>2. ch.attempts + 1 \in Nat
      BY DEF Challenge
    <3> QED
      BY <3>1, <3>2 DEF Challenge
  <2>5. \/ UNCHANGED challenges
        \/ \E S : challenges' = Unstored(challenges, S)
        \/ \E c : challenges' = [challenges EXCEPT ![c] = recordFailedAttempt(challenges[c])]
        \/ \E c : challenges' = [challenges EXCEPT ![c] = [challenges[c] EXCEPT !.consumed = TRUE]]
    BY DEF RecordFailedAttempt, DropChallenge, ConsumeChallenge, ClearChallenges
  <2> QED
    BY <2>1, <2>2, <2>3, <2>4, <2>5
<1>5. UNCHANGED <<users, openTenants, mfa, tokens, serial, now, redeemed>>
  BY DEF RecordFailedAttempt, DropChallenge, ConsumeChallenge, ClearChallenges
<1> QED
  BY <1>2, <1>4, <1>5 DEF TypeInv, TypeOK, AuthTypeOK

-----------------------------------------------------------------------------
\* Sign-in and sessions.

LEMMA ArrivalType ==
  ASSUME TypeInv, NEW r \in Requests, Arrival(r)
  PROVE  TypeInv'
<1>1. ASSUME NEW op \in Ops, NEW pc \in Pcs, NEW u \in Users \cup {None},
             u \in Users \/ pc = "issue", Begin(r, op, pc, u), UNCHANGED dataVars
      PROVE  TypeInv'
  BY <1>1, BeginType, PureMoveType
<1>2. users \subseteq Users
  BY DEF TypeInv, TypeOK, AuthTypeOK
<1>3. CASE \E u \in Users : \/ Login(r, u) \/ StartEnrollment(r, u) \/ ResetMfa(r, u)
                            \/ ChangeProtected(r, u, "disableTotp")
                            \/ ChangeProtected(r, u, "regenerateBackupCodes")
  <2>1. PICK u \in Users, op \in Ops, pc \in Pcs : Begin(r, op, pc, u) /\ UNCHANGED dataVars
    BY <1>3 DEF Login, StartEnrollment, ResetMfa, ChangeProtected, Ops, Pcs
  <2> QED
    BY <1>1, <2>1
<1>4. CASE RequestLoginCode(r)
  <2>1. UNCHANGED dataVars
    BY <1>4 DEF RequestLoginCode
  <2>2. CASE Begin(r, "requestLoginCode", "issue", None)
    BY <1>1, <2>1, <2>2 DEF Ops, Pcs
  <2>3. CASE \E u \in users : Begin(r, "requestLoginCode", "eligible", u)
    BY <1>1, <1>2, <2>1, <2>3 DEF Ops, Pcs
  <2> QED
    BY <1>4, <2>2, <2>3 DEF RequestLoginCode
<1>5. CASE \E c \in DOMAIN challenges : LoadChallenge(r, c)
  BY <1>5, LoadType
<1>6. ASSUME NEW q \in Request, q.user \in Users, req' = [req EXCEPT ![r] = q],
             UNCHANGED dataVars
      PROVE  TypeInv'
  BY <1>6, MoveType, PureMoveType
<1>7. CASE \E u \in Users : EnableTotp(r, u)
  <2>1. PICK u \in Users : EnableTotp(r, u)
    BY <1>7
  <2> DEFINE q == [IdleRequest EXCEPT !.op = "enableTotp", !.pc = "activate", !.user = u,
                                      !.code = [kind |-> "totp", id |-> mfa[u].pending]]
  <2>2. mfa[u].pending \in Nat
    BY DEF TypeInv, TypeOK, AuthTypeOK, MfaRow
  <2>3. q \in Request /\ q.user \in Users
    BY <2>2, IdleType DEF Request, Ops, Pcs, Codes
  <2>4. req' = [req EXCEPT ![r] = q] /\ UNCHANGED dataVars
    BY <2>1 DEF EnableTotp
  <2> HIDE DEF q
  <2> QED
    BY <1>6, <2>3, <2>4
<1>8. CASE \E t \in DOMAIN tokens : Refresh(r, t) \/ Logout(r, t)
  <2>1. PICK t \in DOMAIN tokens : Refresh(r, t) \/ Logout(r, t)
    BY <1>8
  <2>2. t \in Nat /\ tokens[t].user \in Users
    <3>1. tokens \in Seq(Token)
      BY DEF TypeInv, TypeOK, AuthTypeOK
    <3>2. t \in 1 .. Len(tokens) /\ Len(tokens) \in Nat /\ tokens[t] \in Token
      BY <3>1, LenProperties, ElementOfSeq
    <3> QED
      BY <3>2 DEF Token
  <2>3. ASSUME NEW op \in Ops, NEW pc \in Pcs, UNCHANGED dataVars,
               req' = [req EXCEPT ![r] = [IdleRequest EXCEPT !.op = op, !.user = tokens[t].user,
                                                             !.token = t, !.pc = pc]]
        PROVE  TypeInv'
    <3> DEFINE q == [IdleRequest EXCEPT !.op = op, !.user = tokens[t].user, !.token = t, !.pc = pc]
    <3>1. q \in Request /\ q.user \in Users
      BY <2>2, IdleType DEF Request
    <3>2. req' = [req EXCEPT ![r] = q] /\ UNCHANGED dataVars
      BY <2>3
    <3> HIDE DEF q
    <3> QED
      BY <1>6, <3>1, <3>2
  <2>4. CASE Refresh(r, t)
    <3> DEFINE pc == IF tokens[t].expired THEN "dropToken" ELSE "owner"
    <3>1. "refresh" \in Ops /\ pc \in Pcs
      BY DEF Ops, Pcs
    <3>2. /\ UNCHANGED dataVars
          /\ req' = [req EXCEPT ![r] = [IdleRequest EXCEPT !.op = "refresh", !.token = t,
                                          !.user = tokens[t].user, !.pc = pc]]
      BY <2>4 DEF Refresh
    <3> HIDE DEF pc
    <3> QED
      BY <2>3, <3>1, <3>2
  <2>5. CASE Logout(r, t)
    <3>1. "logout" \in Ops /\ "dropToken" \in Pcs
      BY DEF Ops, Pcs
    <3>2. /\ UNCHANGED dataVars
          /\ req' = [req EXCEPT ![r] = [IdleRequest EXCEPT !.op = "logout", !.token = t,
                                          !.user = tokens[t].user, !.pc = "dropToken"]]
      BY <2>5 DEF Logout
    <3> QED
      BY <2>3, <3>1, <3>2
  <2> QED
    BY <2>1, <2>4, <2>5
<1> QED
  BY <1>3, <1>4, <1>5, <1>7, <1>8 DEF Arrival

LEMMA CheckEligibleType ==
  ASSUME TypeInv, NEW r \in Requests, CheckEligible(r)
  PROVE  TypeInv'
<1>1. UserOf(r) \in Users /\ req[r] \in Request /\ req \in [Requests -> Request]
  BY UserRow DEF CheckEligible, At, TypeInv, TypeOK, AuthTypeOK
<1>2. PICK u \in Users \cup {None} :
        req' = [req EXCEPT ![r].pc = "issue", ![r].user = u] /\ UNCHANGED dataVars
  BY <1>1 DEF CheckEligible, UserOf
<1> DEFINE q == [req[r] EXCEPT !.pc = "issue", !.user = u]
<1>3. q \in Request /\ q.pc = "issue" /\ req' = [req EXCEPT ![r] = q]
  BY <1>1, <1>2 DEF Request, Pcs
<1> HIDE DEF q
<1> QED
  BY <1>2, <1>3, MoveType, PureMoveType

\* A step on the tokens only.
LEMMA TokenStepType ==
  ASSUME TypeInv, NEW r \in Requests,
         CreateToken(r) \/ RotateToken(r) \/ DropToken(r) \/ RevokeTokens(r)
  PROVE  TypeInv'
<1>1. /\ req[r].pc \notin {"idle", "issue", "drop"}
      /\ Finish(r) \/ \E pc \in Pcs : Goto(r, pc)
  BY DEF CreateToken, RotateToken, DropToken, RevokeTokens, At, Pcs
<1>2. req' \in [Requests -> Request] /\ UserKnown'
  BY <1>1, FinishType, GotoType
<1>3. tokens \in Seq(Token) /\ UserOf(r) \in Users /\ req[r] \in Request
  BY <1>1, UserRow DEF TypeInv, TypeOK, AuthTypeOK
<1>4. tokens' \in Seq(Token)
  <2>1. CASE CreateToken(r)
    <3> DEFINE token == [user |-> UserOf(r), parent |-> req[r].token, via |-> req[r].challenge,
                         late |-> UserOf(r) \notin users \/ ~TenantIsOpen(UserOf(r)),
                         expired |-> FALSE, stored |-> TRUE]
    <3>1. token \in Token
      BY <1>3 DEF Token, Request
    <3>2. tokens' = Append(tokens, token)
      BY <2>1 DEF CreateToken
    <3> HIDE DEF token
    <3> QED
      BY <1>3, <3>1, <3>2
  <2>2. ASSUME NEW S, tokens' = Unstored(tokens, S)
        PROVE  tokens' \in Seq(Token)
    BY <2>2, <1>3, StoreTypes, UnstoredType
  <2> QED
    BY <2>1, <2>2 DEF RotateToken, DropToken, RevokeTokens
<1>5. UNCHANGED <<users, openTenants, mfa, challenges, serial, now, redeemed>>
  BY DEF CreateToken, RotateToken, DropToken, RevokeTokens
<1> QED
  BY <1>2, <1>4, <1>5 DEF TypeInv, TypeOK, AuthTypeOK

LEMMA SettingsStepType ==
  ASSUME TypeInv, NEW r \in Requests,
         WriteEnrollment(r) \/ ActivateTotp(r) \/ ReplaceBackupCodes(r) \/ WriteDisabled(r)
  PROVE  TypeInv'
<1>1. /\ req[r].pc \notin {"idle", "issue", "drop"}
      /\ Finish(r) \/ \E pc \in Pcs : Goto(r, pc)
  BY DEF WriteEnrollment, ActivateTotp, ReplaceBackupCodes, WriteDisabled, At, Pcs
<1>2. req' \in [Requests -> Request] /\ UserKnown'
  BY <1>1, FinishType, GotoType
<1>3. /\ UserOf(r) \in Users /\ mfa[UserOf(r)] \in MfaRow /\ req[r].code.id \in Nat
      /\ serial \in Nat /\ serial + 1 \in Nat
  BY <1>1, UserRow DEF TypeInv, TypeOK, AuthTypeOK, Request, Codes
<1>4. PICK row \in MfaRow : SetMfa(r, row)
  BY <1>3, RowWrites DEF WriteEnrollment, ActivateTotp, ReplaceBackupCodes, WriteDisabled
<1>5. mfa' \in [Users -> MfaRow]
  BY <1>3, <1>4 DEF SetMfa, TypeInv, TypeOK, AuthTypeOK
<1>6. serial' \in Nat /\ UNCHANGED <<users, openTenants, challenges, tokens, now, redeemed>>
  BY <1>3 DEF WriteEnrollment, ActivateTotp, ReplaceBackupCodes, WriteDisabled
<1> QED
  BY <1>2, <1>5, <1>6 DEF TypeInv, TypeOK, AuthTypeOK

LEMMA ProgressType ==
  ASSUME TypeInv, NEW r \in Requests, Progress(r)
  PROVE  TypeInv'
BY IssueType, PureStepType, ReadSecretsType, ClaimType, ChallengeStepType, CheckEligibleType,
   TokenStepType, SettingsStepType DEF Progress

-----------------------------------------------------------------------------
\* What happens around the requests.

LEMMA PreferencesType ==
  ASSUME TypeInv, NEW u \in Users, NEW on \in BOOLEAN, UpdatePreferences(u, on)
  PROVE  TypeInv'
<1>1. mfa[u] \in MfaRow
  BY DEF TypeInv, TypeOK, AuthTypeOK
<1>2. setEmailCodeLoginEnabled(mfa[u], on) \in MfaRow
  BY <1>1, RowWrites
<1>3. mfa' = [mfa EXCEPT ![u] = setEmailCodeLoginEnabled(mfa[u], on)]
  BY DEF UpdatePreferences
<1>4. mfa' \in [Users -> MfaRow]
  BY <1>2, <1>3 DEF TypeInv, TypeOK, AuthTypeOK
<1> QED
  BY <1>4 DEF UpdatePreferences, TypeInv, TypeOK, AuthTypeOK, UserKnown

LEMMA EnvironmentType ==
  ASSUME TypeInv, Environment
  PROVE  TypeInv'
<1>1. /\ challenges \in Seq(Challenge) /\ tokens \in Seq(Token)
      /\ \A i \in DOMAIN challenges : challenges[i] \in Challenge
      /\ \A i \in DOMAIN tokens : tokens[i] \in Token
  BY LenProperties, ElementOfSeq DEF TypeInv, TypeOK, AuthTypeOK
<1>2. CASE Tick
  BY <1>2 DEF Tick, TypeInv, TypeOK, AuthTypeOK, UserKnown
<1>3. ASSUME NEW c \in DOMAIN challenges, ExpireChallenge(c) \/ PurgeChallenge(c)
      PROVE  TypeInv'
  <2>1. UNCHANGED <<users, openTenants, mfa, tokens, serial, now, redeemed, req>>
    BY <1>3 DEF ExpireChallenge, PurgeChallenge
  <2>2. challenges' \in Seq(Challenge)
    <3>1. CASE PurgeChallenge(c)
      BY <3>1, <1>1, StoreTypes, UnstoredType DEF PurgeChallenge
    <3>2. CASE ExpireChallenge(c)
      <4>1. [challenges[c] EXCEPT !.expired = TRUE] \in Challenge
        BY <1>1 DEF Challenge
      <4>2. challenges' = [challenges EXCEPT ![c] = [challenges[c] EXCEPT !.expired = TRUE]]
        BY <3>2 DEF ExpireChallenge
      <4> QED
        BY <1>1, <4>1, <4>2, OverwriteType
    <3> QED
      BY <1>3, <3>1, <3>2
  <2> QED
    BY <2>1, <2>2 DEF TypeInv, TypeOK, AuthTypeOK, UserKnown
<1>4. ASSUME NEW t \in DOMAIN tokens, ExpireToken(t) \/ PurgeToken(t)
      PROVE  TypeInv'
  <2>1. UNCHANGED <<users, openTenants, mfa, challenges, serial, now, redeemed, req>>
    BY <1>4 DEF ExpireToken, PurgeToken
  <2>2. tokens' \in Seq(Token)
    <3>1. CASE PurgeToken(t)
      BY <3>1, <1>1, StoreTypes, UnstoredType DEF PurgeToken
    <3>2. CASE ExpireToken(t)
      <4>1. [tokens[t] EXCEPT !.expired = TRUE] \in Token
        BY <1>1 DEF Token
      <4>2. tokens' = [tokens EXCEPT ![t] = [tokens[t] EXCEPT !.expired = TRUE]]
        BY <3>2 DEF ExpireToken
      <4> QED
        BY <1>1, <4>1, <4>2, OverwriteType
    <3> QED
      BY <1>4, <3>1, <3>2
  <2> QED
    BY <2>1, <2>2 DEF TypeInv, TypeOK, AuthTypeOK, UserKnown
<1>5. ASSUME NEW u \in Users, ExpireEnrollment(u)
      PROVE  TypeInv'
  <2>1. mfa' = [mfa EXCEPT ![u] = [mfa[u] EXCEPT !.pendingExpired = TRUE]]
    BY <1>5 DEF ExpireEnrollment
  <2>2. [mfa[u] EXCEPT !.pendingExpired = TRUE] \in MfaRow
    BY DEF TypeInv, TypeOK, AuthTypeOK, MfaRow
  <2>3. mfa' \in [Users -> MfaRow]
    BY <2>1, <2>2 DEF TypeInv, TypeOK, AuthTypeOK
  <2> QED
    BY <1>5, <2>3 DEF ExpireEnrollment, TypeInv, TypeOK, AuthTypeOK, UserKnown
<1>6. ASSUME \/ \E u \in Users : DeleteUser(u)
             \/ \E k \in Tenants : SoftDeleteTenant(k)
      PROVE  TypeInv'
  BY <1>6 DEF DeleteUser, SoftDeleteTenant, TypeInv, TypeOK, AuthTypeOK, UserKnown
<1> QED
  BY <1>2, <1>3, <1>4, <1>5, <1>6 DEF Environment

LEMMA InitType == AuthInit => TypeInv
<1> SUFFICES ASSUME AuthInit PROVE TypeInv
  OBVIOUS
<1>1. NoMfa \in MfaRow
  BY DEF NoMfa, MfaRow
<1>2. challenges \in Seq(Challenge) /\ tokens \in Seq(Token)
  BY DEF AuthInit
<1> QED
  BY <1>1, <1>2, IdleType DEF AuthInit, TypeInv, TypeOK, AuthTypeOK, UserKnown

LEMMA StepType == TypeInv /\ [Next]_authVars => TypeInv'
<1> SUFFICES ASSUME TypeInv, [Next]_authVars PROVE TypeInv'
  OBVIOUS
<1>1. CASE UNCHANGED authVars
  BY <1>1 DEF authVars, TypeInv, TypeOK, AuthTypeOK, UserKnown
<1>2. CASE Next
  BY <1>2, ArrivalType, ProgressType, PureStepType, PreferencesType, EnvironmentType DEF Next
<1> QED
  BY <1>1, <1>2

LEMMA TypeInvariant == Spec => []TypeInv
BY InitType, StepType, PTL DEF Spec

\* The collections of AuthService and MfaService keep their types, whatever their
\* requests do to one another's rows, and so do the locals of every request.
THEOREM TypeCorrect == Spec => []TypeOK
<1>1. TypeInv => TypeOK
  BY DEF TypeInv
<1> QED
  BY <1>1, TypeInvariant, PTL

-----------------------------------------------------------------------------
(* What a step of one request leaves alone *)

LEMMA Locality ==
  ASSUME TypeInv, NEW r \in Requests, Arrival(r) \/ Progress(r) \/ Crash(r)
  PROVE  \A s \in Requests \ {r} : req'[s] = req[s]
<1>1. req \in [Requests -> Request]
  BY DEF TypeInv, TypeOK, AuthTypeOK
<1>2. \E q : req' = [req EXCEPT ![r] = q]
  <2>1. CASE Arrival(r)
    BY <1>1, <2>1 DEF Arrival, Begin, Login, StartEnrollment, EnableTotp, ResetMfa, ChangeProtected,
                RequestLoginCode, LoadChallenge, Refresh, Logout
  <2>2. CASE Progress(r) \/ Crash(r)
    <3>1. ASSUME \/ IssueChallenge(r) \/ CheckUser(r) \/ ClaimTotpStep(r)
                 \/ ClaimBackupCode(r) \/ RecordFailedAttempt(r) \/ DropChallenge(r)
                 \/ ConsumeChallenge(r) \/ ClearChallenges(r)
          PROVE  \E q : req' = [req EXCEPT ![r] = q]
      BY <1>1, <3>1 DEF IssueChallenge, CheckUser, ClaimTotpStep, ClaimBackupCode, Accept, Reject,
                  RecordFailedAttempt, DropChallenge, ConsumeChallenge, ClearChallenges, Finish, Goto
    <3>2. ASSUME \/ LoginReadMfa(r) \/ AssertTenantActive(r) \/ CreateToken(r)
                 \/ RefreshReadUser(r) \/ RotateToken(r) \/ DropToken(r) \/ RevokeTokens(r)
                 \/ WriteEnrollment(r) \/ ActivateTotp(r) \/ CheckPassword(r)
                 \/ ReplaceBackupCodes(r) \/ WriteDisabled(r) \/ Crash(r)
          PROVE  \E q : req' = [req EXCEPT ![r] = q]
      BY <1>1, <3>2 DEF LoginReadMfa, AssertTenantActive, CreateToken, RefreshReadUser, RotateToken,
                  DropToken, RevokeTokens, WriteEnrollment, ActivateTotp, CheckPassword,
                  ReplaceBackupCodes, WriteDisabled, Crash, Finish, Goto
    <3>3. ASSUME ReadSecrets(r) \/ CheckEligible(r)
          PROVE  \E q : req' = [req EXCEPT ![r] = q]
      BY <1>1, <3>3 DEF ReadSecrets, CheckEligible, Reject, Finish, Goto
    <3> QED
      BY <2>2, <3>1, <3>2, <3>3 DEF Progress
  <2> QED
    BY <2>1, <2>2
<1> QED
  BY <1>1, <1>2

LEMMA GotoLocals ==
  ASSUME TypeInv, NEW r \in Requests, NEW pc, Goto(r, pc)
  PROVE  /\ req'[r].pc = pc /\ req'[r].op = req[r].op /\ req'[r].user = req[r].user
         /\ req'[r].challenge = req[r].challenge /\ req'[r].token = req[r].token
         /\ req'[r].code = req[r].code
BY DEF TypeInv, TypeOK, AuthTypeOK, Request, Goto

LEMMA FinishLocals ==
  ASSUME TypeInv, NEW r \in Requests, Finish(r)
  PROVE  req'[r].pc = "idle" /\ req'[r].challenge = 0 /\ req'[r].token = 0
BY DEF TypeInv, TypeOK, AuthTypeOK, Finish, IdleRequest

\* What a request holds when it arrives: nothing, a token or a challenge.
LEMMA ArrivalLocals ==
  ASSUME TypeInv, NEW r \in Requests, Arrival(r)
  PROVE  /\ req'[r].pc # "claim"
         /\ \/ req'[r].challenge = 0 /\ req'[r].token = 0
            \/ /\ req'[r].challenge = 0
               /\ \E t \in DOMAIN tokens :
                     /\ req'[r].token = t /\ req'[r].user = tokens[t].user
                     /\ req'[r].pc \in {"owner", "dropToken"}
                     /\ req'[r].op \in {"refresh", "logout"}
            \/ /\ req'[r].token = 0
               /\ \E c \in DOMAIN challenges :
                     /\ req'[r].challenge = c /\ req'[r].op = "verifyMfaChallenge"
                     /\ req'[r].pc \in {"user", "drop"}
                     /\ req'[r].pc = "user" => ~Locked(c)
<1>1. req \in [Requests -> Request]
  BY DEF TypeInv, TypeOK, AuthTypeOK
<1>2. \A q : req' = [req EXCEPT ![r] = q] => req'[r] = q
  BY <1>1
<1>3. IdleRequest.challenge = 0 /\ IdleRequest.token = 0
  BY DEF IdleRequest
<1>4. ASSUME NEW op, NEW pc, NEW u, Begin(r, op, pc, u)
      PROVE  req'[r].pc = pc /\ req'[r].challenge = 0 /\ req'[r].token = 0
  <2>1. req'[r] = [IdleRequest EXCEPT !.op = op, !.pc = pc, !.user = u]
    BY <1>2, <1>4 DEF Begin
  <2> QED
    BY <2>1 DEF IdleRequest
<1>5. CASE \E op, u : \E pc \in Pcs \ {"claim"} : Begin(r, op, pc, u)
  BY <1>4, <1>5
<1>6. CASE \E u \in Users : EnableTotp(r, u)
  <2>1. PICK u \in Users : EnableTotp(r, u)
    BY <1>6
  <2>2. req'[r] = [IdleRequest EXCEPT !.op = "enableTotp", !.pc = "activate", !.user = u,
                                      !.code = [kind |-> "totp", id |-> mfa[u].pending]]
    BY <1>2, <2>1 DEF EnableTotp
  <2>3. req'[r].pc = "activate" /\ req'[r].challenge = 0 /\ req'[r].token = 0
    BY <2>2 DEF IdleRequest
  <2> QED
    BY <2>3
<1>7. ASSUME NEW t \in DOMAIN tokens, NEW op \in {"refresh", "logout"},
             NEW pc \in {"owner", "dropToken"},
             req' = [req EXCEPT ![r] = [IdleRequest EXCEPT !.op = op, !.pc = pc,
                                                           !.user = tokens[t].user, !.token = t]]
      PROVE  /\ req'[r].challenge = 0 /\ req'[r].token = t /\ req'[r].user = tokens[t].user
             /\ req'[r].pc = pc /\ req'[r].op = op
  <2>1. req'[r] = [IdleRequest EXCEPT !.op = op, !.pc = pc, !.user = tokens[t].user, !.token = t]
    BY <1>2, <1>7
  <2> QED
    BY <2>1 DEF IdleRequest
<1>8. CASE \E t \in DOMAIN tokens : Refresh(r, t)
  <2>1. PICK t \in DOMAIN tokens : Refresh(r, t)
    BY <1>8
  <2>2. PICK pc \in {"owner", "dropToken"} :
          req' = [req EXCEPT ![r] = [IdleRequest EXCEPT !.op = "refresh", !.pc = pc,
                                                        !.user = tokens[t].user, !.token = t]]
    BY <2>1 DEF Refresh
  <2> QED
    BY <1>7, <2>2
<1>9. CASE \E t \in DOMAIN tokens : Logout(r, t)
  <2>1. PICK t \in DOMAIN tokens : Logout(r, t)
    BY <1>9
  <2>2. req' = [req EXCEPT ![r] = [IdleRequest EXCEPT !.op = "logout", !.pc = "dropToken",
                                                      !.user = tokens[t].user, !.token = t]]
    BY <2>1 DEF Logout
  <2> QED
    BY <1>7, <2>2
<1>10. CASE \E c \in DOMAIN challenges : LoadChallenge(r, c)
  <2>1. PICK c \in DOMAIN challenges : LoadChallenge(r, c)
    BY <1>10
  <2>2. PICK pc \in {"user", "drop"} :
          /\ pc = "user" => ~Locked(c)
          /\ req' = [req EXCEPT ![r] = [IdleRequest EXCEPT !.op = "verifyMfaChallenge", !.pc = pc,
                                           !.user = challenges[c].user, !.challenge = c]]
    BY <2>1 DEF LoadChallenge
  <2>3. req'[r] = [IdleRequest EXCEPT !.op = "verifyMfaChallenge", !.pc = pc,
                                      !.user = challenges[c].user, !.challenge = c]
    BY <1>2, <2>2
  <2>4. /\ req'[r].challenge = c /\ req'[r].op = "verifyMfaChallenge" /\ req'[r].token = 0
        /\ req'[r].pc = pc
    BY <2>3 DEF IdleRequest
  <2> QED
    BY <2>2, <2>4
<1>11. ASSUME \/ \E u \in Users : \/ Login(r, u) \/ StartEnrollment(r, u) \/ ResetMfa(r, u)
                                  \/ ChangeProtected(r, u, "disableTotp")
                                  \/ ChangeProtected(r, u, "regenerateBackupCodes")
              \/ RequestLoginCode(r)
       PROVE  \E op, u : \E pc \in Pcs \ {"claim"} : Begin(r, op, pc, u)
  BY <1>11 DEF Login, StartEnrollment, ResetMfa, ChangeProtected, RequestLoginCode, Pcs
<1> QED
  BY <1>5, <1>6, <1>8, <1>9, <1>10, <1>11 DEF Arrival

\* The steps by which a request that is under way keeps or gives up what it holds.
LEMMA ProgressLocals ==
  ASSUME TypeInv, NEW r \in Requests, Progress(r) \/ Crash(r)
  PROVE  \/ req'[r].pc = "idle" /\ req'[r].challenge = 0 /\ req'[r].token = 0
         \/ /\ req'[r].challenge = req[r].challenge /\ req'[r].token = req[r].token
            /\ req'[r].op = req[r].op
<1>1. CASE Finish(r) \/ \E pc : Goto(r, pc)
  BY <1>1, FinishLocals, GotoLocals
<1>2. CASE ReadSecrets(r)
  <2>1. CASE Reject(r)
    BY <1>1, <2>1 DEF Reject
  <2>2. ASSUME NEW code, req' = [req EXCEPT ![r].pc = "claim", ![r].code = code]
        PROVE  req'[r].challenge = req[r].challenge /\ req'[r].token = req[r].token
               /\ req'[r].op = req[r].op
    BY <2>2 DEF TypeInv, TypeOK, AuthTypeOK, Request
  <2> QED
    BY <1>2, <2>1, <2>2 DEF ReadSecrets
<1>3. CASE CheckEligible(r)
  BY <1>3 DEF CheckEligible, TypeInv, TypeOK, AuthTypeOK, Request
<1>4. ASSUME \/ IssueChallenge(r) \/ CheckUser(r) \/ ClaimTotpStep(r) \/ ClaimBackupCode(r)
             \/ RecordFailedAttempt(r) \/ DropChallenge(r)
             \/ ConsumeChallenge(r) \/ ClearChallenges(r)
             \/ LoginReadMfa(r) \/ AssertTenantActive(r) \/ CreateToken(r)
             \/ RefreshReadUser(r) \/ RotateToken(r) \/ DropToken(r) \/ RevokeTokens(r)
             \/ WriteEnrollment(r) \/ ActivateTotp(r) \/ CheckPassword(r)
             \/ ReplaceBackupCodes(r) \/ WriteDisabled(r) \/ Crash(r)
      PROVE  Finish(r) \/ \E pc : Goto(r, pc)
  BY <1>4 DEF IssueChallenge, CheckUser, ClaimTotpStep, ClaimBackupCode, Reject, Accept,
       RecordFailedAttempt, DropChallenge, ConsumeChallenge, ClearChallenges, LoginReadMfa,
       AssertTenantActive, CreateToken, RefreshReadUser, RotateToken, DropToken, RevokeTokens,
       WriteEnrollment, ActivateTotp, CheckPassword, ReplaceBackupCodes, WriteDisabled, Crash
<1> QED
  BY <1>1, <1>2, <1>3, <1>4 DEF Progress

\* Of a token on record only `expired' and `stored' change.
SameTokens ==
  /\ DOMAIN tokens' = DOMAIN tokens
  /\ \A t \in DOMAIN tokens :
        /\ tokens'[t].user = tokens[t].user /\ tokens'[t].parent = tokens[t].parent
        /\ tokens'[t].via = tokens[t].via /\ tokens'[t].late = tokens[t].late

\* A challenge on record stays there, and stays consumed.
ChallengesStay ==
  /\ DOMAIN challenges \subseteq DOMAIN challenges'
  /\ \A c \in DOMAIN challenges : challenges[c].consumed => challenges'[c].consumed

LEMMA SeqFacts ==
  ASSUME TypeInv
  PROVE  /\ tokens \in Seq(Token) /\ Len(tokens) \in Nat /\ DOMAIN tokens = 1 .. Len(tokens)
         /\ \A t \in DOMAIN tokens : tokens[t] \in Token
         /\ challenges \in Seq(Challenge) /\ Len(challenges) \in Nat
         /\ DOMAIN challenges = 1 .. Len(challenges)
         /\ \A c \in DOMAIN challenges : challenges[c] \in Challenge
BY LenProperties, ElementOfSeq DEF TypeInv, TypeOK, AuthTypeOK

LEMMA UnstoredTokens ==
  ASSUME TypeInv, NEW S, tokens' = Unstored(tokens, S)
  PROVE  SameTokens
BY SeqFacts DEF Unstored, SameTokens, Token

LEMMA TokensStay ==
  ASSUME TypeInv, [Next]_authVars, \A r \in Requests : ~CreateToken(r)
  PROVE  SameTokens
<1>1. CASE UNCHANGED tokens
  BY <1>1 DEF SameTokens
<1>2. CASE \E S : tokens' = Unstored(tokens, S)
  BY <1>2, UnstoredTokens
<1>3. CASE \E t \in DOMAIN tokens : tokens' = [tokens EXCEPT ![t].expired = TRUE]
  BY <1>3, SeqFacts DEF SameTokens, Token
<1>4. CASE UNCHANGED authVars
  BY <1>1, <1>4 DEF authVars
<1>5. CASE Environment
  <2>1. CASE \/ Tick
             \/ \E c \in DOMAIN challenges : ExpireChallenge(c) \/ PurgeChallenge(c)
             \/ \E u \in Users : ExpireEnrollment(u) \/ DeleteUser(u)
             \/ \E k \in Tenants : SoftDeleteTenant(k)
    BY <1>1, <2>1 DEF Tick, ExpireChallenge, PurgeChallenge, ExpireEnrollment, DeleteUser, SoftDeleteTenant
  <2>2. CASE \E t \in DOMAIN tokens : ExpireToken(t) \/ PurgeToken(t)
    BY <1>2, <1>3, <2>2 DEF ExpireToken, PurgeToken
  <2> QED
    BY <1>5, <2>1, <2>2 DEF Environment
<1>6. CASE \E u \in Users, on \in BOOLEAN : UpdatePreferences(u, on)
  BY <1>1, <1>6 DEF UpdatePreferences
<1>7. ASSUME NEW r \in Requests, Arrival(r) \/ Crash(r)
      PROVE  UNCHANGED tokens
  BY <1>7 DEF Arrival, Login, StartEnrollment, EnableTotp, ResetMfa, ChangeProtected,
       RequestLoginCode, LoadChallenge, Refresh, Logout, Crash, dataVars
<1>8. ASSUME NEW r \in Requests, Progress(r)
      PROVE  UNCHANGED tokens \/ \E S : tokens' = Unstored(tokens, S)
  BY <1>8 DEF Progress, IssueChallenge, CheckUser, ReadSecrets, ClaimTotpStep, ClaimBackupCode,
       RecordFailedAttempt, DropChallenge, ConsumeChallenge, ClearChallenges, LoginReadMfa,
       CheckEligible, AssertTenantActive, RefreshReadUser, RotateToken, DropToken, RevokeTokens,
       WriteEnrollment, ActivateTotp, CheckPassword, ReplaceBackupCodes, WriteDisabled, dataVars
<1> QED
  BY <1>1, <1>2, <1>4, <1>5, <1>6, <1>7, <1>8 DEF Next

LEMMA DeletionsStay ==
  ASSUME TypeInv, [Next]_authVars
  PROVE  users' \subseteq users /\ openTenants' \subseteq openTenants
<1>1. CASE UNCHANGED <<users, openTenants>>
  BY <1>1
<1>2. CASE UNCHANGED authVars
  BY <1>1, <1>2 DEF authVars
<1>3. CASE Environment
  BY <1>3 DEF Environment, Tick, ExpireChallenge, PurgeChallenge, ExpireEnrollment, DeleteUser,
       SoftDeleteTenant, ExpireToken, PurgeToken
<1>4. CASE \E u \in Users, on \in BOOLEAN : UpdatePreferences(u, on)
  BY <1>1, <1>4 DEF UpdatePreferences
<1>5. ASSUME NEW r \in Requests, Arrival(r) \/ Crash(r)
      PROVE  UNCHANGED <<users, openTenants>>
  BY <1>5 DEF Arrival, Login, StartEnrollment, EnableTotp, ResetMfa, ChangeProtected,
       RequestLoginCode, LoadChallenge, Refresh, Logout, Crash, dataVars
<1>6. ASSUME NEW r \in Requests, Progress(r)
      PROVE  UNCHANGED <<users, openTenants>>
  BY <1>6 DEF Progress, IssueChallenge, CheckUser, ReadSecrets, ClaimTotpStep, ClaimBackupCode,
       RecordFailedAttempt, DropChallenge, ConsumeChallenge, ClearChallenges, LoginReadMfa,
       CheckEligible, AssertTenantActive, CreateToken, RefreshReadUser, RotateToken, DropToken,
       RevokeTokens, WriteEnrollment, ActivateTotp, CheckPassword, ReplaceBackupCodes,
       WriteDisabled, dataVars
<1> QED
  BY <1>1, <1>2, <1>3, <1>4, <1>5, <1>6 DEF Next

-----------------------------------------------------------------------------
(* Deletion ends sessions *)

Gone(u) == u \notin users \/ ~TenantIsOpen(u)

\* A request that holds a token is rotating or dropping it, on behalf of its owner; once
\* past the look-up of the user, a late token means that the tenant is closed, which the
\* check before the next token is created finds out.
Rotating(q) ==
  q.token # 0 =>
    /\ q.pc \in {"owner", "rotate", "tenant", "create", "dropToken"}
    /\ q.op # "verifyMfaChallenge"
    /\ q.token \in DOMAIN tokens /\ q.user = tokens[q.token].user
    /\ q.pc \in {"rotate", "tenant"} /\ tokens[q.token].late => ~TenantIsOpen(q.user)
    /\ q.pc = "create" => ~tokens[q.token].late

LateTokens ==
  \A t \in DOMAIN tokens :
     /\ tokens[t].late => Gone(tokens[t].user)
     /\ tokens[t].parent # 0 =>
          tokens[t].parent \in DOMAIN tokens /\ ~tokens[tokens[t].parent].late

SessionInv == LateTokens /\ \A r \in Requests : Rotating(req[r])

LEMMA CreatedToken ==
  ASSUME TypeInv, NEW r \in Requests, CreateToken(r)
  PROVE  LET n == Len(tokens) + 1
         IN  /\ DOMAIN tokens' = DOMAIN tokens \cup {n} /\ n \notin DOMAIN tokens
             /\ tokens'[n].user = UserOf(r) /\ tokens'[n].late = Gone(UserOf(r))
             /\ tokens'[n].parent = req[r].token /\ tokens'[n].via = req[r].challenge
             /\ \A t \in DOMAIN tokens : tokens'[t] = tokens[t]
<1> DEFINE token == [user |-> UserOf(r), parent |-> req[r].token, via |-> req[r].challenge,
                     late |-> Gone(UserOf(r)), expired |-> FALSE, stored |-> TRUE]
           n == Len(tokens) + 1
<1>1. tokens' = Append(tokens, token)
  BY DEF CreateToken, Gone
<1>2. /\ token.late = Gone(UserOf(r)) /\ token.user = UserOf(r) /\ token.parent = req[r].token
      /\ token.via = req[r].challenge
  OBVIOUS
<1> HIDE DEF token
<1>3. Len(tokens) \in Nat /\ DOMAIN tokens = 1 .. Len(tokens) /\ tokens \in Seq(Token)
  BY SeqFacts
<1>4. /\ DOMAIN tokens' = 1 .. n /\ tokens'[n] = token
      /\ \A t \in 1 .. Len(tokens) : tokens'[t] = tokens[t]
  BY <1>1, <1>3
<1> QED
  BY <1>2, <1>3, <1>4

\* What is gone stays gone, and tokens keep what the invariant says of them.
LEMMA SessionFrame ==
  ASSUME TypeInv, SessionInv, SameTokens,
         users' \subseteq users, openTenants' \subseteq openTenants
  PROVE  /\ LateTokens'
         /\ \A r \in Requests : req'[r] = req[r] => Rotating(req[r])'
<1>1. /\ \A u : Gone(u) => Gone(u)'
      /\ \A u : ~TenantIsOpen(u) => ~TenantIsOpen(u)'
  BY DEF Gone, TenantIsOpen
<1>2. LateTokens'
  BY <1>1 DEF SessionInv, LateTokens, SameTokens
<1>3. ASSUME NEW r \in Requests, req'[r] = req[r]
      PROVE  Rotating(req[r])'
  BY <1>1, <1>3 DEF SessionInv, Rotating, SameTokens
<1> QED
  BY <1>2, <1>3

\* So a step preserves the invariant if it does for the request that takes it.
LEMMA SessionStep ==
  ASSUME TypeInv, SessionInv, SameTokens, [Next]_authVars, NEW r \in Requests,
         \A s \in Requests \ {r} : req'[s] = req[s], Rotating(req[r])'
  PROVE  SessionInv'
BY SessionFrame, DeletionsStay DEF SessionInv

LEMMA ArrivalSessions ==
  ASSUME TypeInv, SessionInv, NEW r \in Requests, Arrival(r)
  PROVE  SessionInv'
<1>1. /\ [Next]_authVars /\ SameTokens
      /\ \A s \in Requests \ {r} : req'[s] = req[s]
      /\ req \in [Requests -> Request]
  <2>1. UNCHANGED tokens
    BY DEF Arrival, Login, StartEnrollment, EnableTotp, ResetMfa, ChangeProtected,
       RequestLoginCode, LoadChallenge, Refresh, Logout, dataVars
  <2> QED
    BY <2>1, Locality DEF Next, SameTokens, TypeInv, TypeOK, AuthTypeOK
<1>2. Rotating(req[r])'
  BY <1>1, ArrivalLocals DEF Rotating, SameTokens
<1> QED
  BY <1>1, <1>2, SessionStep

LEMMA ProgressSessions ==
  ASSUME TypeInv, SessionInv, NEW r \in Requests, Progress(r) \/ Crash(r)
  PROVE  SessionInv'
<1>1. /\ [Next]_authVars
      /\ \A s \in Requests \ {r} : req'[s] = req[s]
      /\ req \in [Requests -> Request]
      /\ Rotating(req[r]) /\ LateTokens
  BY Locality DEF Next, TypeInv, TypeOK, AuthTypeOK, SessionInv
<1>2. CASE CreateToken(r)
  <2> DEFINE n == Len(tokens) + 1
  <2>1. req[r].pc = "create" /\ UNCHANGED <<users, openTenants>>
    BY <1>2 DEF CreateToken, At
  <2>2. /\ DOMAIN tokens' = DOMAIN tokens \cup {n} /\ n \notin DOMAIN tokens
        /\ \A t \in DOMAIN tokens : tokens'[t] = tokens[t]
        /\ tokens'[n].user = UserOf(r) /\ tokens'[n].late = Gone(UserOf(r))
        /\ tokens'[n].parent = req[r].token
    BY <1>2, CreatedToken
  <2> HIDE DEF n
  <2>4. req[r].token # 0 => req[r].token \in DOMAIN tokens /\ ~tokens[req[r].token].late
    BY <1>1, <2>1 DEF Rotating
  <2>5. LateTokens'
    <3> SUFFICES ASSUME NEW t \in DOMAIN tokens'
                 PROVE  /\ tokens'[t].late => Gone(tokens[t].user)'
                        /\ tokens'[t].parent # 0 =>
                             /\ tokens'[t].parent \in DOMAIN tokens'
                             /\ ~tokens'[tokens'[t].parent].late
      BY DEF LateTokens
    <3>1. Gone(tokens[t].user)' <=> tokens'[t].user \notin users \/ ~TenantIsOpen(tokens'[t].user)
      BY <2>1 DEF Gone, TenantIsOpen
    <3>2. CASE t = n
      BY <2>2, <2>4, <3>1, <3>2 DEF Gone
    <3>3. CASE t \in DOMAIN tokens
      BY <1>1, <2>2, <3>1, <3>3 DEF LateTokens, Gone
    <3> QED
      BY <2>2, <3>2, <3>3
  <2>6. ASSUME NEW q, Rotating(q)
        PROVE  Rotating(q)'
    BY <2>1, <2>2, <2>6 DEF Rotating, TenantIsOpen
  <2>7. Rotating(req[r])'
    <3>1. CASE req'[r].token = 0
      BY <3>1 DEF Rotating
    <3>2. CASE req'[r].token # 0
      <4>1. req[r].op = "verifyMfaChallenge"
        BY <1>2, <3>2, FinishLocals DEF CreateToken
      <4>2. req[r].token = 0
        BY <1>1, <4>1 DEF Rotating
      <4>3. req'[r].token = req[r].token
        BY <1>2, <3>2, FinishLocals, GotoLocals DEF CreateToken
      <4> QED
        BY <3>2, <4>2, <4>3
    <3> QED
      BY <3>1, <3>2
  <2> QED
    BY <1>1, <2>5, <2>6, <2>7 DEF SessionInv
<1>3. CASE ~CreateToken(r)
  <2>1. SameTokens
    <3>1. \A s \in Requests \ {r} : ~CreateToken(s)
      <4> SUFFICES ASSUME NEW s \in Requests \ {r}, CreateToken(s) PROVE FALSE
        OBVIOUS
      <4>1. req[s].pc = "create" /\ req'[s].pc \in {"clear", "idle"}
        BY FinishLocals, GotoLocals DEF CreateToken, At
      <4> QED
        BY <1>1, <4>1
    <3> QED
      BY <1>1, <1>3, <3>1, TokensStay
  <2>2. users' \subseteq users /\ openTenants' \subseteq openTenants
        /\ \A u : ~TenantIsOpen(u) => ~TenantIsOpen(u)'
    BY <1>1, DeletionsStay DEF TenantIsOpen
  <2>3. Rotating(req[r])'
    <3>1. CASE req'[r].token = 0
      BY <3>1 DEF Rotating
    <3>2. CASE req'[r].token # 0
      <4>1. req'[r].token = req[r].token /\ req[r].token # 0 /\ req'[r].op = req[r].op
        BY <3>2, ProgressLocals
      <4>2. req[r].pc \in {"owner", "rotate", "tenant", "create", "dropToken"}
        BY <1>1, <4>1 DEF Rotating
      <4>3. RefreshReadUser(r) \/ RotateToken(r) \/ AssertTenantActive(r) \/ Finish(r)
        BY <1>3, <4>2 DEF Progress, At, IssueChallenge, CheckUser, ReadSecrets, ClaimTotpStep,
           ClaimBackupCode, RecordFailedAttempt, DropChallenge, ConsumeChallenge, ClearChallenges,
           LoginReadMfa, CheckEligible, DropToken, RevokeTokens, WriteEnrollment, ActivateTotp,
           CheckPassword, ReplaceBackupCodes, WriteDisabled, Crash
      <4>4. ~Finish(r)
        BY <3>2, FinishLocals
      <4>5. /\ req[r].token \in DOMAIN tokens /\ req[r].user = tokens[req[r].token].user
            /\ tokens[req[r].token].late => Gone(req[r].user)
            /\ req[r].op # "verifyMfaChallenge"
        BY <1>1, <4>1 DEF Rotating, LateTokens
      <4>6. CASE RefreshReadUser(r)
        <5>1. /\ req'[r].user = req[r].user
              /\ req'[r].pc = (IF req[r].user \in users THEN "rotate" ELSE "dropToken")
          BY <4>6, GotoLocals DEF RefreshReadUser, UserOf
        <5> QED
          BY <2>1, <2>2, <4>1, <4>5, <5>1 DEF Rotating, Gone, SameTokens
      <4>7. CASE RotateToken(r)
        <5>1. req'[r].user = req[r].user /\ req'[r].pc = "tenant" /\ req[r].pc = "rotate"
          BY <4>7, GotoLocals DEF RotateToken, At
        <5> QED
          BY <1>1, <2>1, <2>2, <4>1, <4>5, <5>1 DEF Rotating, SameTokens
      <4>8. CASE AssertTenantActive(r)
        <5>1. /\ req[r].pc = "tenant" /\ TenantIsOpen(req[r].user)
              /\ req'[r].user = req[r].user /\ req'[r].pc = "create"
          BY <4>4, <4>8, GotoLocals DEF AssertTenantActive, UserOf, At
        <5> QED
          BY <1>1, <2>1, <4>1, <4>5, <5>1 DEF Rotating, SameTokens
      <4> QED
        BY <4>3, <4>4, <4>6, <4>7, <4>8
    <3> QED
      BY <3>1, <3>2
  <2> QED
    BY <1>1, <2>1, <2>3, SessionStep
<1> QED
  BY <1>2, <1>3

LEMMA SessionInvariant == Spec => []SessionInv
<1>1. AuthInit => SessionInv
  <2> SUFFICES ASSUME AuthInit PROVE SessionInv
    OBVIOUS
  <2>1. DOMAIN tokens = {}
    BY DEF AuthInit
  <2>2. \A r \in Requests : req[r].token = 0
    BY DEF AuthInit, IdleRequest
  <2> QED
    BY <2>1, <2>2 DEF SessionInv, LateTokens, Rotating
<1>2. TypeInv /\ SessionInv /\ [Next]_authVars => SessionInv'
  <2> SUFFICES ASSUME TypeInv, SessionInv, [Next]_authVars PROVE SessionInv'
    OBVIOUS
  <2>1. CASE \E r \in Requests : Arrival(r) \/ Progress(r) \/ Crash(r)
    BY <2>1, ArrivalSessions, ProgressSessions
  <2>2. CASE ~\E r \in Requests : Arrival(r) \/ Progress(r) \/ Crash(r)
    <3>1. UNCHANGED req
      BY <2>2 DEF Next, authVars, UpdatePreferences, Environment, Tick, ExpireChallenge,
         PurgeChallenge, ExpireToken, PurgeToken, ExpireEnrollment, DeleteUser, SoftDeleteTenant
    <3>2. SameTokens
      BY <2>2, TokensStay DEF Progress
    <3> QED
      BY <3>1, <3>2, SessionFrame, DeletionsStay DEF SessionInv
  <2> QED
    BY <2>1, <2>2
<1> QED
  BY <1>1, <1>2, TypeInvariant, PTL DEF Spec

\* Deleting a user or a tenant ends its sessions: nothing revokes the tokens, and a
\* request in flight may still create one, but none of those is ever rotated.
THEOREM DeletionIsFinal == Spec => []DeletionEndsSessions
<1>1. SessionInv => DeletionEndsSessions
  BY DEF SessionInv, LateTokens, DeletionEndsSessions
<1> QED
  BY <1>1, SessionInvariant, PTL

-----------------------------------------------------------------------------
(* A challenge buys one session *)

LEMMA ChallengeRecords ==
  ASSUME TypeInv, [Next]_authVars
  PROVE  ChallengesStay
<1>1. CASE UNCHANGED challenges
  BY <1>1 DEF ChallengesStay
<1>2. CASE \E S : challenges' = Unstored(challenges, S)
  BY <1>2, SeqFacts DEF ChallengesStay, Unstored, Challenge
<1>3. CASE \E c \in DOMAIN challenges : challenges' = [challenges EXCEPT ![c].expired = TRUE]
  BY <1>3, SeqFacts DEF ChallengesStay, Challenge
<1>4. CASE UNCHANGED authVars
  BY <1>1, <1>4 DEF authVars
<1>5. CASE Environment
  <2>1. CASE \/ Tick
             \/ \E t \in DOMAIN tokens : ExpireToken(t) \/ PurgeToken(t)
             \/ \E u \in Users : ExpireEnrollment(u) \/ DeleteUser(u)
             \/ \E k \in Tenants : SoftDeleteTenant(k)
    BY <1>1, <2>1 DEF Tick, ExpireToken, PurgeToken, ExpireEnrollment, DeleteUser, SoftDeleteTenant
  <2>2. CASE \E c \in DOMAIN challenges : ExpireChallenge(c) \/ PurgeChallenge(c)
    BY <1>2, <1>3, <2>2 DEF ExpireChallenge, PurgeChallenge
  <2> QED
    BY <1>5, <2>1, <2>2 DEF Environment
<1>6. CASE \E u \in Users, on \in BOOLEAN : UpdatePreferences(u, on)
  BY <1>1, <1>6 DEF UpdatePreferences
<1>7. ASSUME NEW r \in Requests, Arrival(r) \/ Crash(r)
      PROVE  UNCHANGED challenges
  BY <1>7 DEF Arrival, Login, StartEnrollment, EnableTotp, ResetMfa, ChangeProtected,
       RequestLoginCode, LoadChallenge, Refresh, Logout, Crash, dataVars
<1>8. ASSUME NEW r \in Requests, IssueChallenge(r)
      PROVE  ChallengesStay
  <2>1. PICK ch : challenges' = Append(challenges, ch)
    BY <1>8 DEF IssueChallenge
  <2>2. /\ DOMAIN challenges \subseteq DOMAIN challenges'
        /\ \A c \in DOMAIN challenges : challenges'[c] = challenges[c]
    BY <2>1, SeqFacts
  <2> QED
    BY <2>2 DEF ChallengesStay
<1>9. ASSUME NEW r \in Requests, RecordFailedAttempt(r) \/ ConsumeChallenge(r)
      PROVE  ChallengesStay
  <2>1. CASE UNCHANGED challenges
    BY <1>1, <2>1
  <2>2. ASSUME NEW c, challenges' = [challenges EXCEPT ![c] = recordFailedAttempt(challenges[c])]
        PROVE  ChallengesStay
    BY <2>2, SeqFacts DEF ChallengesStay, recordFailedAttempt, Challenge
  <2>3. ASSUME NEW c, challenges' = [challenges EXCEPT ![c].consumed = TRUE]
        PROVE  ChallengesStay
    BY <2>3, SeqFacts DEF ChallengesStay, Challenge
  <2> QED
    BY <1>9, <2>1, <2>2, <2>3 DEF RecordFailedAttempt, ConsumeChallenge
<1>10. ASSUME NEW r \in Requests, Progress(r), ~IssueChallenge(r), ~RecordFailedAttempt(r),
              ~ConsumeChallenge(r)
       PROVE  UNCHANGED challenges \/ \E S : challenges' = Unstored(challenges, S)
  BY <1>10 DEF Progress, CheckUser, ReadSecrets, ClaimTotpStep, ClaimBackupCode,
       DropChallenge, ClearChallenges, LoginReadMfa, CheckEligible, AssertTenantActive,
       CreateToken, RefreshReadUser, RotateToken, DropToken, RevokeTokens,
       WriteEnrollment, ActivateTotp, CheckPassword, ReplaceBackupCodes, WriteDisabled, dataVars
<1> QED
  BY <1>1, <1>2, <1>4, <1>5, <1>6, <1>7, <1>8, <1>9, <1>10 DEF Next

\* A request that holds a challenge is on its way through verifyMfaChallenge, and past
\* the consuming update the challenge is consumed.
Presenting(q) ==
  q.challenge # 0 =>
    /\ q.challenge \in DOMAIN challenges
    /\ q.op = "verifyMfaChallenge"
    /\ q.pc \in {"user", "secrets", "claim", "fail", "drop", "consume", "tenant", "create", "clear"}
    /\ q.pc \in {"tenant", "create"} => challenges[q.challenge].consumed

Buys(r) == req[r].pc \in {"tenant", "create"} /\ req[r].challenge # 0

ChallengeInv ==
  /\ \A r \in Requests : Presenting(req[r])
  /\ \A t \in DOMAIN tokens : tokens[t].via # 0 =>
        tokens[t].via \in DOMAIN challenges /\ challenges[tokens[t].via].consumed
  /\ \A s, t \in DOMAIN tokens : tokens[s].via # 0 /\ tokens[s].via = tokens[t].via => s = t
  /\ \A r, s \in Requests :
        Buys(r) /\ Buys(s) /\ req[r].challenge = req[s].challenge => r = s
  /\ \A r \in Requests, t \in DOMAIN tokens : Buys(r) => tokens[t].via # req[r].challenge

\* A step that neither consumes a challenge nor creates a token preserves this if the
\* request that takes it still presents what it did.
LEMMA ChallengeStep ==
  ASSUME TypeInv, ChallengeInv, SameTokens, ChallengesStay, NEW r \in Requests,
         \A s \in Requests \ {r} : req'[s] = req[s],
         Presenting(req[r])',
         Buys(r)' => Buys(r) /\ req'[r].challenge = req[r].challenge
  PROVE  ChallengeInv'
<1>1. \A s \in Requests : Presenting(req[s])'
  <2>1. ASSUME NEW s \in Requests \ {r} PROVE Presenting(req[s])'
    BY DEF ChallengeInv, Presenting, ChallengesStay
  <2> QED
    BY <2>1
<1>2. \A s \in Requests : Buys(s)' => Buys(s) /\ req'[s].challenge = req[s].challenge
  BY DEF Buys
<1>3. \A t \in DOMAIN tokens' : t \in DOMAIN tokens /\ tokens'[t].via = tokens[t].via
  BY DEF SameTokens
<1>4. (\A t \in DOMAIN tokens : tokens[t].via # 0 =>
        tokens[t].via \in DOMAIN challenges /\ challenges[tokens[t].via].consumed)'
  BY <1>3 DEF ChallengeInv, ChallengesStay
<1> QED
  BY <1>1, <1>2, <1>3, <1>4 DEF ChallengeInv

LEMMA ArrivalChallenges ==
  ASSUME TypeInv, ChallengeInv, NEW r \in Requests, Arrival(r)
  PROVE  ChallengeInv'
<1>1. /\ UNCHANGED dataVars
      /\ \A s \in Requests \ {r} : req'[s] = req[s]
      /\ req \in [Requests -> Request]
  BY Locality DEF TypeInv, TypeOK, AuthTypeOK, Arrival, Login, StartEnrollment, EnableTotp,
     ResetMfa, ChangeProtected, RequestLoginCode, LoadChallenge, Refresh, Logout
<1>2. SameTokens /\ ChallengesStay
  BY <1>1 DEF SameTokens, ChallengesStay, dataVars
<1>3. Presenting(req[r])' /\ ~Buys(r)'
  BY <1>2, ArrivalLocals DEF Presenting, Buys, ChallengesStay
<1> QED
  BY <1>1, <1>2, <1>3, ChallengeStep

LEMMA ConsumeStep ==
  ASSUME TypeInv, ChallengeInv, NEW r \in Requests, ConsumeChallenge(r),
         CanConsume(req[r].challenge)
  PROVE  ChallengeInv'
<1> DEFINE c == req[r].challenge
<1>1. /\ challenges' = [challenges EXCEPT ![c].consumed = TRUE] /\ Goto(r, "tenant")
      /\ UNCHANGED tokens /\ ~challenges[c].consumed /\ req[r].pc = "consume"
  BY DEF ConsumeChallenge, CanConsume, At
<1>2. /\ req'[r].challenge = c /\ req'[r].op = req[r].op /\ req'[r].pc = "tenant"
      /\ \A s \in Requests \ {r} : req'[s] = req[s]
  BY <1>1, GotoLocals, Locality DEF Progress
<1>3. DOMAIN challenges' = DOMAIN challenges
      /\ \A i \in DOMAIN challenges : challenges'[i].consumed = (i = c \/ challenges[i].consumed)
  BY <1>1, SeqFacts DEF Challenge
<1>4. \A s \in Requests : Presenting(req[s])
  BY DEF ChallengeInv
<1> HIDE DEF c
<1>5. \A s \in Requests : Presenting(req[s])'
  <2>1. Presenting(req[r])'
    BY <1>2, <1>3, <1>4 DEF Presenting, c
  <2>2. ASSUME NEW s \in Requests \ {r} PROVE Presenting(req[s])'
    BY <1>2, <1>3, <1>4 DEF Presenting
  <2> QED
    BY <2>1, <2>2
<1>6. /\ \A s \in Requests : Buys(s) => req[s].challenge # c
      /\ \A t \in DOMAIN tokens : c # 0 => tokens[t].via # c
  BY <1>1, <1>4 DEF Presenting, Buys, ChallengeInv
<1>7. /\ Buys(r)' <=> c # 0
      /\ \A s \in Requests \ {r} : Buys(s)' <=> Buys(s)
  BY <1>2 DEF Buys
<1>8. (\A t \in DOMAIN tokens : tokens[t].via # 0 =>
        tokens[t].via \in DOMAIN challenges /\ challenges[tokens[t].via].consumed)'
  BY <1>1, <1>3 DEF ChallengeInv
<1>9. (\A s, t \in Requests :
        Buys(s) /\ Buys(t) /\ req[s].challenge = req[t].challenge => s = t)'
  BY <1>2, <1>6, <1>7 DEF ChallengeInv
<1>10. (\A s \in Requests, t \in DOMAIN tokens : Buys(s) => tokens[t].via # req[s].challenge)'
  BY <1>1, <1>2, <1>6, <1>7 DEF ChallengeInv
<1> QED
  BY <1>1, <1>5, <1>8, <1>9, <1>10 DEF ChallengeInv

LEMMA CreateStep ==
  ASSUME TypeInv, ChallengeInv, NEW r \in Requests, CreateToken(r)
  PROVE  ChallengeInv'
<1> DEFINE c == req[r].challenge
           n == Len(tokens) + 1
<1>1. /\ DOMAIN tokens' = DOMAIN tokens \cup {n} /\ n \notin DOMAIN tokens
      /\ tokens'[n].via = c
      /\ \A t \in DOMAIN tokens : tokens'[t] = tokens[t]
  BY CreatedToken
<1>2. UNCHANGED challenges /\ req[r].pc = "create"
  BY DEF CreateToken, At
<1>3. \A s \in Requests \ {r} : req'[s] = req[s]
  BY Locality DEF Progress
<1>4. /\ \A s \in Requests : Presenting(req[s])
      /\ Buys(r) <=> c # 0
  BY <1>2 DEF ChallengeInv, Buys
<1>5. Presenting(req[r])' /\ ~Buys(r)'
  <2>1. CASE c = 0
    <3>1. req'[r].challenge = 0
      BY <2>1, FinishLocals, GotoLocals DEF CreateToken
    <3> QED
      BY <3>1 DEF Presenting, Buys
  <2>2. CASE c # 0
    <3>1. req[r].op = "verifyMfaChallenge" /\ c \in DOMAIN challenges
      BY <1>4, <2>2 DEF Presenting
    <3>2. /\ req'[r].pc = "clear" /\ req'[r].challenge = c
          /\ req'[r].op = "verifyMfaChallenge"
      BY <3>1, GotoLocals DEF CreateToken
    <3> QED
      BY <1>2, <3>1, <3>2 DEF Presenting, Buys
  <2> QED
    BY <2>1, <2>2
<1> HIDE DEF n, c
<1>6. \A s \in Requests \ {r} : Presenting(req[s])' /\ (Buys(s)' <=> Buys(s))
  BY <1>2, <1>3, <1>4 DEF Presenting, Buys
<1>7. (\A t \in DOMAIN tokens : tokens[t].via # 0 =>
        tokens[t].via \in DOMAIN challenges /\ challenges[tokens[t].via].consumed)'
  <2>1. c # 0 => c \in DOMAIN challenges /\ challenges[c].consumed
    BY <1>2, <1>4 DEF Presenting, c
  <2> QED
    BY <1>1, <1>2, <2>1 DEF ChallengeInv
<1>8. (\A s, t \in DOMAIN tokens : tokens[s].via # 0 /\ tokens[s].via = tokens[t].via => s = t)'
  <2>1. \A t \in DOMAIN tokens : c # 0 => tokens[t].via # c
    BY <1>4 DEF ChallengeInv, c
  <2> QED
    BY <1>1, <2>1 DEF ChallengeInv
<1>9. (\A s, t \in Requests :
        Buys(s) /\ Buys(t) /\ req[s].challenge = req[t].challenge => s = t)'
  BY <1>3, <1>5, <1>6 DEF ChallengeInv
<1>10. (\A s \in Requests, t \in DOMAIN tokens : Buys(s) => tokens[t].via # req[s].challenge)'
  <2>1. \A s \in Requests \ {r} : Buys(s) => req[s].challenge # c
    BY <1>4 DEF ChallengeInv, Buys, c
  <2> QED
    BY <1>1, <1>3, <1>5, <1>6, <2>1 DEF ChallengeInv
<1> QED
  BY <1>5, <1>6, <1>7, <1>8, <1>9, <1>10 DEF ChallengeInv

LEMMA ProgressChallenges ==
  ASSUME TypeInv, ChallengeInv, NEW r \in Requests, Progress(r) \/ Crash(r)
  PROVE  ChallengeInv'
<1>1. CASE CreateToken(r)
  BY <1>1, CreateStep
<1>2. CASE ConsumeChallenge(r) /\ CanConsume(req[r].challenge)
  BY <1>2, ConsumeStep
<1>3. CASE ~CreateToken(r) /\ ~(ConsumeChallenge(r) /\ CanConsume(req[r].challenge))
  <2>1. /\ ChallengesStay
        /\ \A s \in Requests \ {r} : req'[s] = req[s]
        /\ Presenting(req[r])
    BY Locality, ChallengeRecords DEF Next, ChallengeInv
  <2>2. SameTokens
    <3>1. UNCHANGED tokens \/ \E S : tokens' = Unstored(tokens, S)
      BY <1>3 DEF Progress, IssueChallenge, CheckUser, ReadSecrets, ClaimTotpStep, ClaimBackupCode,
         RecordFailedAttempt, DropChallenge, ConsumeChallenge, ClearChallenges, LoginReadMfa,
         CheckEligible, AssertTenantActive, RefreshReadUser, RotateToken, DropToken, RevokeTokens,
         WriteEnrollment, ActivateTotp, CheckPassword, ReplaceBackupCodes, WriteDisabled, Crash,
         dataVars
    <3> QED
      BY <3>1, UnstoredTokens DEF SameTokens
  <2>3. CASE req'[r].challenge = 0
    BY <2>1, <2>2, <2>3, ChallengeStep DEF Presenting, Buys
  <2>4. CASE req'[r].challenge # 0
    <3>1. /\ req'[r].challenge = req[r].challenge /\ req[r].challenge # 0
          /\ req'[r].op = req[r].op /\ ~Finish(r)
      BY <2>4, ProgressLocals, FinishLocals
    <3>2. /\ req[r].op = "verifyMfaChallenge" /\ req[r].challenge \in DOMAIN challenges
          /\ req[r].pc \in {"user", "secrets", "claim", "fail", "drop", "consume", "tenant",
                            "create", "clear"}
      BY <2>1, <3>1 DEF Presenting
    <3>3. req'[r].pc \in {"secrets", "claim", "fail", "drop", "consume"}
          \/ (req[r].pc = "tenant" /\ req'[r].pc = "create")
      <4>1. CASE ReadSecrets(r)
        <5>1. CASE Reject(r)
          BY <3>2, <5>1, GotoLocals DEF Reject
        <5>2. ASSUME NEW code, req' = [req EXCEPT ![r].pc = "claim", ![r].code = code]
              PROVE  req'[r].pc = "claim"
          BY <5>2 DEF TypeInv, TypeOK, AuthTypeOK, Request
        <5> QED
          BY <4>1, <5>1, <5>2 DEF ReadSecrets
      <4>2. CASE \/ CheckUser(r) \/ ClaimTotpStep(r) \/ ClaimBackupCode(r)
                 \/ RecordFailedAttempt(r) \/ AssertTenantActive(r)
        BY <3>1, <3>2, <4>2, GotoLocals DEF CheckUser, ClaimTotpStep, ClaimBackupCode,
           RecordFailedAttempt, AssertTenantActive, Accept, Reject, At
      <4>3. CASE ~\/ ReadSecrets(r) \/ CheckUser(r) \/ ClaimTotpStep(r) \/ ClaimBackupCode(r)
                  \/ RecordFailedAttempt(r) \/ AssertTenantActive(r)
        BY <1>3, <3>1, <3>2, <4>3 DEF Progress, At, IssueChallenge, DropChallenge,
           ConsumeChallenge, ClearChallenges, LoginReadMfa, CheckEligible, RefreshReadUser,
           RotateToken, DropToken, RevokeTokens, WriteEnrollment, ActivateTotp, CheckPassword,
           ReplaceBackupCodes, WriteDisabled, Crash
      <4> QED
        BY <4>1, <4>2, <4>3
    <3>4. Presenting(req[r])'
      BY <2>1, <3>1, <3>2, <3>3 DEF Presenting, ChallengesStay
    <3>5. Buys(r)' => Buys(r)
      BY <3>1, <3>3 DEF Buys
    <3> QED
      BY <2>1, <2>2, <3>1, <3>4, <3>5, ChallengeStep
  <2> QED
    BY <2>3, <2>4
<1> QED
  BY <1>1, <1>2, <1>3

LEMMA ChallengeInvariant == Spec => []ChallengeInv
<1>1. AuthInit => ChallengeInv
  <2> SUFFICES ASSUME AuthInit PROVE ChallengeInv
    OBVIOUS
  <2>1. DOMAIN tokens = {}
    BY DEF AuthInit
  <2>2. \A r \in Requests : req[r].challenge = 0
    BY DEF AuthInit, IdleRequest
  <2> QED
    BY <2>1, <2>2 DEF ChallengeInv, Presenting, Buys
<1>2. TypeInv /\ ChallengeInv /\ [Next]_authVars => ChallengeInv'
  <2> SUFFICES ASSUME TypeInv, ChallengeInv, [Next]_authVars PROVE ChallengeInv'
    OBVIOUS
  <2>1. CASE \E r \in Requests : Arrival(r) \/ Progress(r) \/ Crash(r)
    BY <2>1, ArrivalChallenges, ProgressChallenges
  <2>2. CASE ~\E r \in Requests : Arrival(r) \/ Progress(r) \/ Crash(r)
    <3>1. UNCHANGED req
      BY <2>2 DEF Next, authVars, UpdatePreferences, Environment, Tick, ExpireChallenge,
         PurgeChallenge, ExpireToken, PurgeToken, ExpireEnrollment, DeleteUser, SoftDeleteTenant
    <3>2. SameTokens /\ ChallengesStay
      BY <2>2, TokensStay, ChallengeRecords DEF Progress
    <3>3. \A r \in Requests : Presenting(req[r])' /\ (Buys(r)' <=> Buys(r))
      BY <3>1, <3>2 DEF ChallengeInv, Presenting, Buys, ChallengesStay
    <3>4. (\A t \in DOMAIN tokens : tokens[t].via # 0 =>
            tokens[t].via \in DOMAIN challenges /\ challenges[tokens[t].via].consumed)'
      BY <3>2 DEF ChallengeInv, SameTokens, ChallengesStay
    <3> QED
      BY <3>1, <3>2, <3>3, <3>4 DEF ChallengeInv, SameTokens
  <2> QED
    BY <2>1, <2>2
<1> QED
  BY <1>1, <1>2, TypeInvariant, PTL DEF Spec

LEMMA OneAtMost ==
  ASSUME NEW S, \A x, y \in S : x = y
  PROVE  IsFiniteSet(S) /\ Cardinality(S) = IF S = {} THEN 0 ELSE 1
<1>1. CASE S = {}
  BY <1>1, FS_EmptySet
<1>2. CASE S # {}
  <2>1. PICK x \in S : TRUE
    BY <1>2
  <2>2. S = {x}
    BY <2>1
  <2> QED
    BY <1>2, <2>2, FS_Singleton
<1> QED
  BY <1>1, <1>2

\* A challenge buys one session, whatever the number of requests that present it and
\* the order of their steps: the conditional update of tryConsume decides which one.
THEOREM SingleUseChallenge == Spec => []ChallengeBuysOneSession
<1>1. TypeInv /\ ChallengeInv => ChallengeBuysOneSession
  <2> SUFFICES ASSUME TypeInv, ChallengeInv, NEW c \in DOMAIN challenges
               PROVE  Cardinality(BoughtWith(c)) + Cardinality(BuyingWith(c)) <= 1
    BY DEF ChallengeBuysOneSession
  <2>1. c # 0
    BY SeqFacts
  <2>2. \A s, t \in BoughtWith(c) : s = t
    BY <2>1 DEF BoughtWith, ChallengeInv
  <2>3. \A r, s \in BuyingWith(c) : r = s
    BY <2>1 DEF BuyingWith, Buys, ChallengeInv
  <2>4. BoughtWith(c) = {} \/ BuyingWith(c) = {}
    BY <2>1 DEF BoughtWith, BuyingWith, Buys, ChallengeInv
  <2>5. /\ Cardinality(BoughtWith(c)) = IF BoughtWith(c) = {} THEN 0 ELSE 1
        /\ Cardinality(BuyingWith(c)) = IF BuyingWith(c) = {} THEN 0 ELSE 1
    BY <2>2, <2>3, OneAtMost
  <2> QED
    BY <2>4, <2>5
<1> QED
  BY <1>1, TypeInvariant, ChallengeInvariant, PTL

-----------------------------------------------------------------------------
(* The attempt cap *)

\* The requests that were let past the cap and may still record a failure.
LetPast(c) ==
  {r \in Requests : req[r].challenge = c
                    /\ req[r].pc \in {"user", "secrets", "claim", "fail", "consume"}}

CapOf(c) ==
  challenges[c].stored =>
    challenges[c].attempts + Cardinality(LetPast(c)) <= MaxAttempts + Cardinality(Requests) - 1

CapInv == \A c \in DOMAIN challenges : CapOf(c)

LEMMA LetPastFinite ==
  /\ \A c : IsFiniteSet(LetPast(c)) /\ Cardinality(LetPast(c)) \in Nat
            /\ Cardinality(LetPast(c)) <= Cardinality(Requests)
  /\ \A c : IsFiniteSet(LetPast(c)') /\ Cardinality(LetPast(c)') \in Nat
            /\ Cardinality(LetPast(c)') <= Cardinality(Requests)
  /\ Cardinality(Requests) \in Nat
<1>1. /\ \A c : LetPast(c) \subseteq Requests
      /\ \A c : LetPast(c)' \subseteq Requests
  BY DEF LetPast
<1>2. \A c : IsFiniteSet(LetPast(c)) /\ Cardinality(LetPast(c)) <= Cardinality(Requests)
  BY <1>1, FS_Subset, RequestsAssumption
<1>3. \A c : IsFiniteSet(LetPast(c)') /\ Cardinality(LetPast(c)') <= Cardinality(Requests)
  BY <1>1, FS_Subset, RequestsAssumption
<1> QED
  BY <1>2, <1>3, FS_CardinalityType, RequestsAssumption

LEMMA CapKept ==
  ASSUME TypeInv, CapInv, NEW c \in DOMAIN challenges,
         challenges'[c].stored => challenges[c].stored,
         challenges'[c].attempts = challenges[c].attempts,
         LetPast(c)' \subseteq LetPast(c)
  PROVE  CapOf(c)'
<1>1. Cardinality(LetPast(c)') <= Cardinality(LetPast(c))
  BY LetPastFinite, FS_Subset
<1>2. challenges[c].attempts \in Nat
  BY SeqFacts DEF Challenge
<1> QED
  BY <1>1, <1>2, LetPastFinite, AttemptsAssumption DEF CapInv, CapOf

\* Below the cap even all requests together cannot exceed it by more than the bound.
LEMMA CapNotReached ==
  ASSUME NEW c, challenges'[c].attempts \in Nat, challenges'[c].attempts < MaxAttempts
  PROVE  CapOf(c)'
BY LetPastFinite, AttemptsAssumption DEF CapOf

\* A request under way is let past once.
LEMMA LetPastOnce ==
  ASSUME TypeInv, ChallengeInv, NEW r \in Requests, Progress(r) \/ Crash(r), NEW c, c # 0
  PROVE  LetPast(c)' \subseteq LetPast(c)
<1>1. \A s \in Requests \ {r} : req'[s] = req[s]
  BY Locality
<1>2. ASSUME r \in LetPast(c)'
      PROVE  r \in LetPast(c)
  <2>1. req'[r].challenge = c /\ req'[r].pc \in {"user", "secrets", "claim", "fail", "consume"}
    BY <1>2 DEF LetPast
  <2>2. req[r].challenge = c /\ req'[r].op = req[r].op
    BY <2>1, ProgressLocals
  <2>3. /\ req[r].op = "verifyMfaChallenge"
        /\ req[r].pc \in {"user", "secrets", "claim", "fail", "drop", "consume", "tenant",
                          "create", "clear"}
    BY <2>2 DEF ChallengeInv, Presenting
  <2>4. CASE req[r].pc \in {"drop", "tenant", "create", "clear"}
    <3>1. \/ DropChallenge(r) \/ AssertTenantActive(r) \/ CreateToken(r)
          \/ ClearChallenges(r) \/ Crash(r)
      BY <2>4 DEF Progress, At, IssueChallenge, CheckUser, ReadSecrets, ClaimTotpStep,
         ClaimBackupCode, RecordFailedAttempt, ConsumeChallenge, LoginReadMfa, CheckEligible,
         RefreshReadUser, RotateToken, DropToken, RevokeTokens, WriteEnrollment, ActivateTotp,
         CheckPassword, ReplaceBackupCodes, WriteDisabled
    <3>2. Finish(r) \/ Goto(r, "create") \/ Goto(r, "clear") \/ Goto(r, "revoke")
      BY <3>1 DEF DropChallenge, AssertTenantActive, CreateToken, ClearChallenges, Crash
    <3>3. req'[r].pc \in {"idle", "create", "clear", "revoke"}
      BY <3>2, FinishLocals, GotoLocals
    <3> QED
      BY <2>1, <3>3
  <2> QED
    BY <2>2, <2>3, <2>4 DEF LetPast
<1> QED
  BY <1>1, <1>2 DEF LetPast

LEMMA FailureCounts ==
  ASSUME TypeInv, ChallengeInv, CapInv, NEW r \in Requests, RecordFailedAttempt(r)
  PROVE  CapInv'
<1>0. PICK c : c = req[r].challenge
  OBVIOUS
<1>1. /\ req[r].pc = "fail" /\ (Finish(r) \/ Goto(r, "drop"))
      /\ \/ UNCHANGED challenges
         \/ /\ challenges' = [challenges EXCEPT ![c] = recordFailedAttempt(challenges[c])]
            /\ challenges[c].stored
  BY <1>0 DEF RecordFailedAttempt, At
<1>2. DOMAIN challenges' = DOMAIN challenges /\ \A i \in DOMAIN challenges : i # 0 /\ i \in Nat
  BY <1>1, SeqFacts
<1>3. ASSUME NEW i \in DOMAIN challenges, i # c \/ UNCHANGED challenges
      PROVE  CapOf(i)'
  <2>1. challenges'[i] = challenges[i]
    BY <1>1, <1>3
  <2>2. LetPast(i)' \subseteq LetPast(i)
    BY <1>2, LetPastOnce DEF Progress
  <2> QED
    BY <2>1, <2>2, CapKept
<1>4. ASSUME c \in DOMAIN challenges, ~UNCHANGED challenges
      PROVE  CapOf(c)'
  <2>1. challenges[c] \in Challenge
    BY <1>4, SeqFacts
  <2>2. challenges'[c] = [challenges[c] EXCEPT !.attempts = challenges[c].attempts + 1]
        /\ challenges[c].stored
    BY <1>1, <1>4 DEF recordFailedAttempt
  <2>3. /\ challenges[c].attempts \in Nat
        /\ challenges'[c].attempts = challenges[c].attempts + 1
    BY <2>1, <2>2 DEF Challenge
  <2>4. r \in LetPast(c) /\ r \notin LetPast(c)'
    <3>1. req'[r].pc \in {"idle", "drop"}
      BY <1>1, FinishLocals, GotoLocals
    <3> QED
      BY <1>0, <1>1, <3>1 DEF LetPast
  <2>5. LetPast(c)' \subseteq LetPast(c) \ {r}
    BY <1>2, <1>4, <2>4, LetPastOnce DEF Progress
  <2>6. /\ IsFiniteSet(LetPast(c) \ {r})
        /\ Cardinality(LetPast(c) \ {r}) = Cardinality(LetPast(c)) - 1
    BY <2>4, LetPastFinite, FS_RemoveElement
  <2>7. Cardinality(LetPast(c)') <= Cardinality(LetPast(c)) - 1
    BY <2>5, <2>6, FS_Subset
  <2>8. challenges[c].attempts + Cardinality(LetPast(c))
          <= MaxAttempts + Cardinality(Requests) - 1
    BY <1>4, <2>2 DEF CapInv, CapOf
  <2> QED
    BY <2>3, <2>7, <2>8, LetPastFinite, AttemptsAssumption DEF CapOf
<1> QED
  BY <1>2, <1>3, <1>4 DEF CapInv

\* Every write but those of issue and recordFailedAttempt leaves the counters alone.
LEMMA CountersKept ==
  ASSUME TypeInv,
         \/ UNCHANGED challenges \/ \E S : challenges' = Unstored(challenges, S)
         \/ \E c : challenges' = [challenges EXCEPT ![c].consumed = TRUE]
         \/ \E c : challenges' = [challenges EXCEPT ![c].expired = TRUE]
  PROVE  /\ DOMAIN challenges' = DOMAIN challenges
         /\ \A c \in DOMAIN challenges :
               /\ challenges'[c].stored => challenges[c].stored
               /\ challenges'[c].attempts = challenges[c].attempts
<1>1. CASE UNCHANGED challenges
  BY <1>1
<1>2. ASSUME NEW S, challenges' = Unstored(challenges, S)
      PROVE  /\ DOMAIN challenges' = DOMAIN challenges
             /\ \A c \in DOMAIN challenges :
                   /\ challenges'[c].stored => challenges[c].stored
                   /\ challenges'[c].attempts = challenges[c].attempts
  BY <1>2, SeqFacts DEF Unstored, Challenge
<1>3. ASSUME NEW i, \/ challenges' = [challenges EXCEPT ![i].consumed = TRUE]
                    \/ challenges' = [challenges EXCEPT ![i].expired = TRUE]
      PROVE  /\ DOMAIN challenges' = DOMAIN challenges
             /\ \A c \in DOMAIN challenges :
                   /\ challenges'[c].stored => challenges[c].stored
                   /\ challenges'[c].attempts = challenges[c].attempts
  <2>1. /\ DOMAIN challenges' = DOMAIN challenges
        /\ \A c \in DOMAIN challenges :
              challenges'[c] \in {challenges[c], [challenges[c] EXCEPT !.consumed = TRUE],
                                  [challenges[c] EXCEPT !.expired = TRUE]}
    BY <1>3, SeqFacts
  <2>2. \A ch \in Challenge :
           /\ [ch EXCEPT !.consumed = TRUE].stored = ch.stored
           /\ [ch EXCEPT !.consumed = TRUE].attempts = ch.attempts
           /\ [ch EXCEPT !.expired = TRUE].stored = ch.stored
           /\ [ch EXCEPT !.expired = TRUE].attempts = ch.attempts
    BY DEF Challenge
  <2> QED
    BY <2>1, <2>2, SeqFacts
<1> QED
  BY <1>1, <1>2, <1>3

LEMMA ProgressCap ==
  ASSUME TypeInv, ChallengeInv, CapInv, NEW r \in Requests, Progress(r) \/ Crash(r)
  PROVE  CapInv'
<1>1. CASE RecordFailedAttempt(r)
  BY <1>1, FailureCounts
<1>2. CASE IssueChallenge(r)
  <2>0. PICK n : n = Len(challenges) + 1
    OBVIOUS
  <2>1. PICK ch : challenges' = Append(challenges, ch) /\ ch.attempts = 0
    BY <1>2 DEF IssueChallenge
  <2>2. /\ DOMAIN challenges' = DOMAIN challenges \cup {n} /\ challenges'[n] = ch
        /\ \A c \in DOMAIN challenges : challenges'[c] = challenges[c] /\ c # 0
    BY <2>0, <2>1, SeqFacts
  <2>3. CapOf(n)'
    BY <2>1, <2>2, CapNotReached, AttemptsAssumption
  <2>4. \A c \in DOMAIN challenges : CapOf(c)'
    BY <2>2, CapKept, LetPastOnce
  <2> QED
    BY <2>2, <2>3, <2>4 DEF CapInv
<1>3. CASE ~RecordFailedAttempt(r) /\ ~IssueChallenge(r)
  <2>1. \/ UNCHANGED challenges \/ \E S : challenges' = Unstored(challenges, S)
        \/ \E c : challenges' = [challenges EXCEPT ![c].consumed = TRUE]
    BY <1>3 DEF Progress, CheckUser, ReadSecrets, ClaimTotpStep, ClaimBackupCode,
       DropChallenge, ConsumeChallenge, ClearChallenges, LoginReadMfa, CheckEligible,
       AssertTenantActive, CreateToken, RefreshReadUser, RotateToken, DropToken, RevokeTokens,
       WriteEnrollment, ActivateTotp, CheckPassword, ReplaceBackupCodes, WriteDisabled, Crash,
       dataVars
  <2>2. /\ DOMAIN challenges' = DOMAIN challenges
        /\ \A c \in DOMAIN challenges :
              /\ challenges'[c].stored => challenges[c].stored
              /\ challenges'[c].attempts = challenges[c].attempts
    BY <2>1, CountersKept
  <2>3. \A c \in DOMAIN challenges : LetPast(c)' \subseteq LetPast(c)
    BY SeqFacts, LetPastOnce
  <2> QED
    BY <2>2, <2>3, CapKept DEF CapInv
<1> QED
  BY <1>1, <1>2, <1>3

LEMMA ArrivalCap ==
  ASSUME TypeInv, CapInv, NEW r \in Requests, Arrival(r)
  PROVE  CapInv'
<1>1. /\ UNCHANGED challenges
      /\ \A s \in Requests \ {r} : req'[s] = req[s]
      /\ req \in [Requests -> Request]
  BY Locality DEF TypeInv, TypeOK, AuthTypeOK, Arrival, Login, StartEnrollment, EnableTotp,
     ResetMfa, ChangeProtected, RequestLoginCode, LoadChallenge, Refresh, Logout, dataVars
<1>2. SUFFICES ASSUME NEW c \in DOMAIN challenges PROVE CapOf(c)'
  BY <1>1 DEF CapInv
<1>3. CASE r \notin LetPast(c)'
  <2>1. LetPast(c)' \subseteq LetPast(c)
    BY <1>1, <1>3 DEF LetPast
  <2> QED
    BY <1>1, <2>1, CapKept
<1>4. CASE r \in LetPast(c)'
  <2>1. /\ req'[r].challenge = c /\ c # 0
        /\ req'[r].pc \in {"user", "secrets", "claim", "fail", "consume"}
    BY <1>4, SeqFacts DEF LetPast
  <2>4. ~Locked(c)
    BY <2>1, ArrivalLocals
  <2>5. challenges[c].attempts \in Nat
    BY SeqFacts DEF Challenge
  <2> QED
    BY <1>1, <2>4, <2>5, CapNotReached, AttemptsAssumption DEF Locked
<1> QED
  BY <1>3, <1>4

LEMMA CapInvariant == Spec => []CapInv
<1>1. AuthInit => CapInv
  BY DEF AuthInit, CapInv
<1>2. TypeInv /\ ChallengeInv /\ CapInv /\ [Next]_authVars => CapInv'
  <2> SUFFICES ASSUME TypeInv, ChallengeInv, CapInv, [Next]_authVars PROVE CapInv'
    OBVIOUS
  <2>1. CASE \E r \in Requests : Arrival(r) \/ Progress(r) \/ Crash(r)
    BY <2>1, ArrivalCap, ProgressCap
  <2>2. CASE ~\E r \in Requests : Arrival(r) \/ Progress(r) \/ Crash(r)
    <3>1. UNCHANGED req
      BY <2>2 DEF Next, authVars, UpdatePreferences, Environment, Tick, ExpireChallenge,
         PurgeChallenge, ExpireToken, PurgeToken, ExpireEnrollment, DeleteUser, SoftDeleteTenant
    <3>2. \/ UNCHANGED challenges \/ \E S : challenges' = Unstored(challenges, S)
          \/ \E c : challenges' = [challenges EXCEPT ![c].expired = TRUE]
      BY <2>2 DEF Next, authVars, UpdatePreferences, Environment, Tick, ExpireChallenge,
         PurgeChallenge, ExpireToken, PurgeToken, ExpireEnrollment, DeleteUser, SoftDeleteTenant
    <3>3. /\ DOMAIN challenges' = DOMAIN challenges
          /\ \A c \in DOMAIN challenges :
                /\ challenges'[c].stored => challenges[c].stored
                /\ challenges'[c].attempts = challenges[c].attempts
      BY <3>2, CountersKept
    <3>4. \A c : LetPast(c)' = LetPast(c)
      BY <3>1 DEF LetPast
    <3> QED
      BY <3>3, <3>4, CapKept DEF CapInv
  <2> QED
    BY <2>1, <2>2
<1> QED
  BY <1>1, <1>2, TypeInvariant, ChallengeInvariant, PTL DEF Spec

\* The attempt cap holds under concurrency: the wrong codes a challenge may still meet
\* exceed it by no more than the requests that were let past before it was reached.
THEOREM CapUnderConcurrency == Spec => []AttemptsAreCapped
<1>1. TypeInv /\ CapInv => AttemptsAreCapped
  <2> SUFFICES ASSUME TypeInv, CapInv, NEW c \in DOMAIN challenges, challenges[c].stored
               PROVE  challenges[c].attempts + Cardinality(FailingOn(c))
                        <= MaxAttempts + Cardinality(Requests) - 1
    BY DEF AttemptsAreCapped
  <2>1. FailingOn(c) \subseteq LetPast(c)
    BY DEF FailingOn, LetPast, At
  <2>2. /\ Cardinality(FailingOn(c)) <= Cardinality(LetPast(c))
        /\ Cardinality(FailingOn(c)) \in Nat
    BY <2>1, LetPastFinite, FS_Subset, FS_CardinalityType
  <2>3. challenges[c].attempts \in Nat
    BY SeqFacts DEF Challenge
  <2> QED
    BY <2>2, <2>3, LetPastFinite, AttemptsAssumption DEF CapInv, CapOf
<1> QED
  BY <1>1, TypeInvariant, CapInvariant, PTL

-----------------------------------------------------------------------------
(* A second factor is accepted once *)

\* Activations and recovery codes are drawn from the supply, and no two users share one.
Drawn ==
  /\ \A u \in Users :
        /\ mfa[u].enabledAt <= serial /\ mfa[u].backupCodes \subseteq 0 .. serial
        /\ mfa[u].isTotpEnabled => mfa[u].enabledAt # 0
  /\ \A u, v \in Users :
        /\ mfa[u].enabledAt # 0 /\ mfa[u].enabledAt = mfa[v].enabledAt => u = v
        /\ mfa[u].backupCodes \cap mfa[v].backupCodes # {} => u = v

\* What was accepted is spent: a step is no later than the last one of its activation,
\* a recovery code is in no set.
Spent ==
  /\ \A code \in Codes, e \in Nat : <<code, e>> \in redeemed => e <= serial
  /\ \A step \in Nat, u \in Users :
        /\ mfa[u].enabledAt # 0
        /\ <<[kind |-> "totp", id |-> step], mfa[u].enabledAt>> \in redeemed
        => mfa[u].lastUsedStep # 0 /\ step <= mfa[u].lastUsedStep
  /\ \A k \in Nat :
        <<[kind |-> "backup_code", id |-> k], 0>> \in redeemed
        => k <= serial /\ \A u \in Users : k \notin mfa[u].backupCodes

\* Steps are counted from 1, so that 0 can stand for none.
ClaimsAStep(r) == req[r].pc = "claim" /\ req[r].code.kind = "totp" => req[r].code.id # 0

FactorInv == Drawn /\ Spent /\ \A r \in Requests : ClaimsAStep(r)

LEMMA ClaimsKept ==
  ASSUME TypeInv, \A r \in Requests : ClaimsAStep(r), [Next]_authVars
  PROVE  \A r \in Requests : ClaimsAStep(r)'
<1>1. CASE \E r \in Requests : Arrival(r) \/ Progress(r) \/ Crash(r)
  <2>1. PICK r \in Requests : Arrival(r) \/ Progress(r) \/ Crash(r)
    BY <1>1
  <2>2. ASSUME NEW s \in Requests \ {r} PROVE ClaimsAStep(s)'
    BY <2>1, Locality DEF ClaimsAStep
  <2>3. ClaimsAStep(r)'
    <3>1. CASE Finish(r) \/ \E pc \in Pcs \ {"claim"} : Goto(r, pc)
      BY <3>1, FinishLocals, GotoLocals DEF ClaimsAStep
    <3>2. CASE ReadSecrets(r)
      <4>1. CASE Reject(r)
        BY <3>1, <4>1 DEF Reject, Pcs
      <4>3. CASE ~Reject(r)
        <5>1. ASSUME NEW k,
                     req' = [req EXCEPT ![r].pc = "claim",
                                        ![r].code = [kind |-> "backup_code", id |-> k]]
              PROVE  ClaimsAStep(r)'
          <6>1. req'[r].code = [kind |-> "backup_code", id |-> k]
            BY <5>1 DEF TypeInv, TypeOK, AuthTypeOK, Request
          <6> QED
            BY <6>1 DEF ClaimsAStep
        <5>2. ASSUME NEW step \in 1 .. now + 1,
                     req' = [req EXCEPT ![r].pc = "claim",
                                        ![r].code = [kind |-> "totp", id |-> step]]
              PROVE  ClaimsAStep(r)'
          <6>1. req'[r].code = [kind |-> "totp", id |-> step]
            BY <5>2 DEF TypeInv, TypeOK, AuthTypeOK, Request
          <6> QED
            BY <6>1 DEF ClaimsAStep
        <5> QED
          BY <3>2, <4>3, <5>1, <5>2 DEF ReadSecrets
      <4> QED
        BY <4>1, <4>3
    <3>3. CASE Arrival(r)
      BY <3>3, ArrivalLocals DEF ClaimsAStep
    <3>4. CASE CheckEligible(r)
      BY <3>4 DEF CheckEligible, ClaimsAStep, TypeInv, TypeOK, AuthTypeOK, Request
    <3>5. ASSUME Progress(r) \/ Crash(r), ~ReadSecrets(r), ~CheckEligible(r)
          PROVE  Finish(r) \/ \E pc \in Pcs \ {"claim"} : Goto(r, pc)
      BY <3>5 DEF Progress, IssueChallenge, CheckUser, ClaimTotpStep, ClaimBackupCode, Reject,
         Accept, RecordFailedAttempt, DropChallenge, ConsumeChallenge, ClearChallenges,
         LoginReadMfa, AssertTenantActive, CreateToken, RefreshReadUser, RotateToken, DropToken,
         RevokeTokens, WriteEnrollment, ActivateTotp, CheckPassword, ReplaceBackupCodes,
         WriteDisabled, Crash, Pcs
    <3> QED
      BY <2>1, <3>1, <3>2, <3>3, <3>4, <3>5
  <2> QED
    BY <2>2, <2>3
<1>2. CASE ~\E r \in Requests : Arrival(r) \/ Progress(r) \/ Crash(r)
  <2>1. UNCHANGED req
    BY <1>2 DEF Next, authVars, UpdatePreferences, Environment, Tick, ExpireChallenge,
       PurgeChallenge, ExpireToken, PurgeToken, ExpireEnrollment, DeleteUser, SoftDeleteTenant
  <2> QED
    BY <2>1 DEF ClaimsAStep
<1> QED
  BY <1>1, <1>2

LEMMA RowFacts ==
  ASSUME TypeInv
  PROVE  /\ serial \in Nat
         /\ \A u \in Users : /\ mfa[u].enabledAt \in Nat /\ mfa[u].lastUsedStep \in Nat
                             /\ mfa[u].backupCodes \subseteq Nat
         /\ \A u \in Users : \A w : mfa' = [mfa EXCEPT ![u] = w]
               => mfa'[u] = w /\ \A v \in Users \ {u} : mfa'[v] = mfa[v]
BY DEF TypeInv, TypeOK, AuthTypeOK, MfaRow

\* A write that leaves the factors of a row alone, or takes them away.
LEMMA QuietRow ==
  ASSUME TypeInv, Drawn, Spent, NEW u \in Users, NEW w,
         mfa' = [mfa EXCEPT ![u] = w], UNCHANGED redeemed, serial' \in Nat, serial' >= serial,
         \/ /\ w.isTotpEnabled = mfa[u].isTotpEnabled /\ w.enabledAt = mfa[u].enabledAt
            /\ w.lastUsedStep = mfa[u].lastUsedStep /\ w.backupCodes = mfa[u].backupCodes
         \/ ~w.isTotpEnabled /\ w.enabledAt = 0 /\ w.backupCodes = {}
  PROVE  Drawn' /\ Spent'
<1>1. /\ \A v \in Users \ {u} : mfa'[v] = mfa[v]
      /\ mfa'[u] = w
  BY RowFacts
<1>2. \A v \in Users :
        /\ mfa'[v].enabledAt \in {0, mfa[v].enabledAt}
        /\ mfa'[v].backupCodes \subseteq mfa[v].backupCodes
        /\ mfa'[v].isTotpEnabled => mfa[v].isTotpEnabled /\ mfa'[v].enabledAt = mfa[v].enabledAt
        /\ mfa'[v].enabledAt # 0 => mfa'[v].lastUsedStep = mfa[v].lastUsedStep
  BY <1>1
<1>3. Drawn'
  BY <1>2, RowFacts DEF Drawn
<1>4. Spent'
  BY <1>2, RowFacts DEF Spent
<1> QED
  BY <1>3, <1>4

\* A fresh activation, and a fresh set of recovery codes.
LEMMA FreshRow ==
  ASSUME TypeInv, Drawn, Spent, NEW u \in Users, NEW w,
         mfa' = [mfa EXCEPT ![u] = w], UNCHANGED redeemed, serial' = serial + 1,
         w.backupCodes = {serial + 1},
         \/ w.enabledAt = serial + 1
         \/ /\ w.isTotpEnabled = mfa[u].isTotpEnabled /\ w.enabledAt = mfa[u].enabledAt
            /\ w.lastUsedStep = mfa[u].lastUsedStep
  PROVE  Drawn' /\ Spent'
<1>1. /\ \A v \in Users \ {u} : mfa'[v] = mfa[v]
      /\ mfa'[u] = w /\ serial \in Nat
  BY RowFacts
<1>2. Drawn'
  BY <1>1, RowFacts DEF Drawn
<1>3. Spent'
  BY <1>1, RowFacts DEF Spent, Codes
<1> QED
  BY <1>2, <1>3

\* Accepting a TOTP step, and accepting a recovery code.
LEMMA AcceptStep ==
  ASSUME TypeInv, FactorInv, NEW r \in Requests, ClaimTotpStep(r)
  PROVE  Drawn' /\ Spent'
<1>1. CASE UNCHANGED <<mfa, redeemed>>
  BY <1>1 DEF ClaimTotpStep, FactorInv, Drawn, Spent
<1>2. CASE ~UNCHANGED <<mfa, redeemed>>
  <2>1. PICK u \in Users, step \in Nat, row \in MfaRow :
           /\ u = UserOf(r) /\ req[r].code = [kind |-> "totp", id |-> step]
           /\ step # 0
           /\ mfa[u].lastUsedStep = 0 \/ mfa[u].lastUsedStep < step
           /\ row = [mfa[u] EXCEPT !.lastUsedStep = step]
           /\ mfa' = [mfa EXCEPT ![u] = row]
           /\ redeemed' = redeemed \cup {<<req[r].code, mfa[u].enabledAt>>}
    <3>1. UserOf(r) \in Users /\ req[r].code \in Codes /\ req[r].code.id # 0
          /\ req[r].code.kind = "totp"
      BY UserRow DEF ClaimTotpStep, At, Request, FactorInv, ClaimsAStep
    <3>2. req[r].code = [kind |-> "totp", id |-> req[r].code.id] /\ req[r].code.id \in Nat
      BY <3>1 DEF Codes
    <3>3. [mfa[UserOf(r)] EXCEPT !.lastUsedStep = req[r].code.id] \in MfaRow
      BY <3>1, <3>2 DEF TypeInv, TypeOK, AuthTypeOK, MfaRow
    <3> QED
      BY <1>2, <3>1, <3>2, <3>3 DEF ClaimTotpStep, StepIsUnused, tryConsumeTotpStep
  <2>2. UNCHANGED serial /\ Drawn /\ Spent
    BY DEF ClaimTotpStep, FactorInv
  <2>3. /\ row.enabledAt = mfa[u].enabledAt /\ row.backupCodes = mfa[u].backupCodes
        /\ row.isTotpEnabled = mfa[u].isTotpEnabled /\ row.lastUsedStep = step
    BY <2>1 DEF TypeInv, TypeOK, AuthTypeOK, MfaRow
  <2>4. mfa'[u] = row /\ \A v \in Users \ {u} : mfa'[v] = mfa[v]
    BY <2>1, RowFacts
  <2>5. Drawn'
    BY <2>2, <2>3, <2>4 DEF Drawn
  <2>6. (\A code \in Codes, e \in Nat : <<code, e>> \in redeemed => e <= serial)'
    BY <2>1, <2>2 DEF Spent, Drawn
  <2>7. (\A k \in Nat : <<[kind |-> "backup_code", id |-> k], 0>> \in redeemed
           => k <= serial /\ \A v \in Users : k \notin mfa[v].backupCodes)'
    <3>1. \A k \in Nat : [kind |-> "backup_code", id |-> k] # req[r].code
      BY <2>1
    <3> QED
      BY <2>1, <2>2, <2>3, <2>4, <3>1 DEF Spent
  <2>8. ASSUME NEW n \in Nat, NEW v \in Users, mfa'[v].enabledAt # 0,
               <<[kind |-> "totp", id |-> n], mfa'[v].enabledAt>> \in redeemed'
        PROVE  mfa'[v].lastUsedStep # 0 /\ n <= mfa'[v].lastUsedStep
    <3>1. mfa'[v].enabledAt = mfa[v].enabledAt
      BY <2>3, <2>4
    <3>2. CASE <<[kind |-> "totp", id |-> n], mfa[v].enabledAt>> \in redeemed
      <4>1. mfa[v].lastUsedStep # 0 /\ n <= mfa[v].lastUsedStep
        BY <2>2, <2>8, <3>1, <3>2 DEF Spent
      <4> QED
        BY <2>1, <2>3, <2>4, <4>1, RowFacts
    <3>3. CASE <<[kind |-> "totp", id |-> n], mfa[v].enabledAt>> \notin redeemed
      <4>1. [kind |-> "totp", id |-> n] = [kind |-> "totp", id |-> step]
            /\ mfa[v].enabledAt = mfa[u].enabledAt
        BY <2>1, <2>8, <3>1, <3>3
      <4>2. n = step /\ v = u
        BY <2>2, <2>8, <3>1, <4>1 DEF Drawn
      <4>3. mfa'[v].lastUsedStep = step
        BY <2>3, <2>4, <4>2
      <4> QED
        BY <2>1, <4>2, <4>3
    <3> QED
      BY <3>2, <3>3
  <2> QED
    BY <2>5, <2>6, <2>7, <2>8 DEF Spent
<1> QED
  BY <1>1, <1>2

LEMMA AcceptCode ==
  ASSUME TypeInv, FactorInv, NEW r \in Requests, ClaimBackupCode(r)
  PROVE  Drawn' /\ Spent'
<1>1. CASE UNCHANGED <<mfa, redeemed>>
  BY <1>1 DEF ClaimBackupCode, FactorInv, Drawn, Spent
<1>2. CASE ~UNCHANGED <<mfa, redeemed>>
  <2>1. PICK u \in Users, k \in Nat, row \in MfaRow :
           /\ u = UserOf(r) /\ req[r].code = [kind |-> "backup_code", id |-> k]
           /\ k \in mfa[u].backupCodes
           /\ row = [mfa[u] EXCEPT !.backupCodes = mfa[u].backupCodes \ {k}]
           /\ mfa' = [mfa EXCEPT ![u] = row]
           /\ redeemed' = redeemed \cup {<<req[r].code, 0>>}
    <3>1. UserOf(r) \in Users /\ req[r].code \in Codes /\ req[r].code.kind = "backup_code"
      BY UserRow DEF ClaimBackupCode, At, Request
    <3>2. req[r].code = [kind |-> "backup_code", id |-> req[r].code.id] /\ req[r].code.id \in Nat
      BY <3>1 DEF Codes
    <3>3. [mfa[UserOf(r)] EXCEPT !.backupCodes = mfa[UserOf(r)].backupCodes \ {req[r].code.id}]
            \in MfaRow
      BY <3>1, <3>2 DEF TypeInv, TypeOK, AuthTypeOK, MfaRow
    <3> QED
      BY <1>2, <3>1, <3>2, <3>3 DEF ClaimBackupCode, CodeIsUnused, markBackupCodeUsed
  <2>2. UNCHANGED serial /\ Drawn /\ Spent
    BY DEF ClaimBackupCode, FactorInv
  <2>3. /\ row.enabledAt = mfa[u].enabledAt /\ row.backupCodes = mfa[u].backupCodes \ {k}
        /\ row.isTotpEnabled = mfa[u].isTotpEnabled /\ row.lastUsedStep = mfa[u].lastUsedStep
    BY <2>1 DEF TypeInv, TypeOK, AuthTypeOK, MfaRow
  <2>4. mfa'[u] = row /\ \A v \in Users \ {u} : mfa'[v] = mfa[v]
    BY <2>1, RowFacts
  <2>5. Drawn'
    BY <2>2, <2>3, <2>4 DEF Drawn
  <2>6. (\A code \in Codes, e \in Nat : <<code, e>> \in redeemed => e <= serial)'
    BY <2>1, <2>2, RowFacts DEF Spent
  <2>7. (\A n \in Nat : <<[kind |-> "backup_code", id |-> n], 0>> \in redeemed
           => n <= serial /\ \A v \in Users : n \notin mfa[v].backupCodes)'
    <3>1. k <= serial /\ \A v \in Users \ {u} : k \notin mfa[v].backupCodes
      BY <2>1, <2>2 DEF Drawn
    <3>2. \A v \in Users : mfa'[v].backupCodes \subseteq mfa[v].backupCodes
                             /\ k \notin mfa'[v].backupCodes
      BY <2>3, <2>4, <3>1
    <3>3. ASSUME NEW n \in Nat, <<[kind |-> "backup_code", id |-> n], 0>> \in redeemed'
          PROVE  n = k \/ <<[kind |-> "backup_code", id |-> n], 0>> \in redeemed
      BY <2>1, <3>3
    <3> QED
      BY <2>2, <3>1, <3>2, <3>3 DEF Spent
  <2>8. (\A step \in Nat, v \in Users :
           /\ mfa[v].enabledAt # 0
           /\ <<[kind |-> "totp", id |-> step], mfa[v].enabledAt>> \in redeemed
           => mfa[v].lastUsedStep # 0 /\ step <= mfa[v].lastUsedStep)'
    <3>1. \A step \in Nat : [kind |-> "totp", id |-> step] # req[r].code
      BY <2>1
    <3> QED
      BY <2>1, <2>2, <2>3, <2>4, <3>1 DEF Spent
  <2> QED
    BY <2>5, <2>6, <2>7, <2>8 DEF Spent
<1> QED
  BY <1>1, <1>2

\* The other writes of a row.
LEMMA SettingsFactors ==
  ASSUME TypeInv, Drawn, Spent, NEW r \in Requests,
         WriteEnrollment(r) \/ ActivateTotp(r) \/ ReplaceBackupCodes(r) \/ WriteDisabled(r)
  PROVE  Drawn' /\ Spent'
<1>1. PICK u \in Users : u = UserOf(r)
  BY UserRow DEF WriteEnrollment, ActivateTotp, ReplaceBackupCodes, WriteDisabled, At
<1>2. mfa[u] \in MfaRow /\ serial \in Nat
  BY DEF TypeInv, TypeOK, AuthTypeOK
<1>3. UNCHANGED redeemed
  BY DEF WriteEnrollment, ActivateTotp, ReplaceBackupCodes, WriteDisabled
<1>4. CASE WriteEnrollment(r)
  <2>1. PICK w : w = startTotpEnrollment(mfa[u], serial + 1)
    OBVIOUS
  <2>2. mfa' = [mfa EXCEPT ![u] = w] /\ serial' = serial + 1
    BY <1>1, <1>4, <2>1 DEF WriteEnrollment, SetMfa
  <2>3. /\ w.isTotpEnabled = mfa[u].isTotpEnabled /\ w.enabledAt = mfa[u].enabledAt
        /\ w.lastUsedStep = mfa[u].lastUsedStep /\ w.backupCodes = mfa[u].backupCodes
    BY <1>2, <2>1 DEF startTotpEnrollment, MfaRow
  <2>4. serial' \in Nat /\ serial' >= serial
    BY <1>2, <2>2
  <2> QED
    BY <1>3, <2>2, <2>3, <2>4, QuietRow
<1>5. CASE WriteDisabled(r)
  <2>1. PICK w : w = disableTotp(mfa[u])
    OBVIOUS
  <2>2. mfa' = [mfa EXCEPT ![u] = w] /\ serial' = serial
    BY <1>1, <1>5, <2>1 DEF WriteDisabled, SetMfa
  <2>3. ~w.isTotpEnabled /\ w.enabledAt = 0 /\ w.backupCodes = {}
    BY <2>1 DEF disableTotp, NoMfa
  <2>4. serial' \in Nat /\ serial' >= serial
    BY <1>2, <2>2
  <2> QED
    BY <1>3, <2>2, <2>3, <2>4, QuietRow
<1>6. CASE ActivateTotp(r)
  <2>1. PICK w : w = activateTotp(mfa[u], req[r].code.id, serial + 1, serial + 1)
    OBVIOUS
  <2>2. mfa' = [mfa EXCEPT ![u] = w] /\ serial' = serial + 1
    BY <1>1, <1>6, <2>1 DEF ActivateTotp, SetMfa
  <2>3. w.enabledAt = serial + 1 /\ w.backupCodes = {serial + 1}
    BY <1>2, <2>1 DEF activateTotp, MfaRow
  <2> QED
    BY <1>3, <2>2, <2>3, FreshRow
<1>7. CASE ReplaceBackupCodes(r)
  <2>1. PICK w : w = replaceBackupCodes(mfa[u], serial + 1)
    OBVIOUS
  <2>2. mfa' = [mfa EXCEPT ![u] = w] /\ serial' = serial + 1
    BY <1>1, <1>7, <2>1 DEF ReplaceBackupCodes, SetMfa
  <2>3. /\ w.isTotpEnabled = mfa[u].isTotpEnabled /\ w.enabledAt = mfa[u].enabledAt
        /\ w.lastUsedStep = mfa[u].lastUsedStep /\ w.backupCodes = {serial + 1}
    BY <1>2, <2>1 DEF replaceBackupCodes, MfaRow
  <2> QED
    BY <1>3, <2>2, <2>3, FreshRow
<1> QED
  BY <1>4, <1>5, <1>6, <1>7

LEMMA FactorStep ==
  ASSUME TypeInv, FactorInv, [Next]_authVars
  PROVE  FactorInv'
<1>1. \A r \in Requests : ClaimsAStep(r)'
  BY ClaimsKept DEF FactorInv
<1>2. SUFFICES Drawn' /\ Spent'
  BY <1>1 DEF FactorInv
<1>3. Drawn /\ Spent
  BY DEF FactorInv
<1>4. CASE UNCHANGED <<mfa, redeemed, serial>>
  BY <1>3, <1>4 DEF Drawn, Spent
<1>5. ASSUME NEW u \in Users, NEW w, mfa' = [mfa EXCEPT ![u] = w], UNCHANGED <<redeemed, serial>>,
             /\ w.isTotpEnabled = mfa[u].isTotpEnabled /\ w.enabledAt = mfa[u].enabledAt
             /\ w.lastUsedStep = mfa[u].lastUsedStep /\ w.backupCodes = mfa[u].backupCodes
      PROVE  Drawn' /\ Spent'
  <2>1. serial' \in Nat /\ serial' >= serial
    BY <1>5, RowFacts
  <2> QED
    BY <1>3, <1>5, <2>1, QuietRow
<1>6. ASSUME NEW u \in Users, NEW on \in BOOLEAN, UpdatePreferences(u, on)
      PROVE  Drawn' /\ Spent'
  <2>1. PICK w : w = setEmailCodeLoginEnabled(mfa[u], on)
    OBVIOUS
  <2>2. mfa' = [mfa EXCEPT ![u] = w] /\ UNCHANGED <<redeemed, serial>>
    BY <1>6, <2>1 DEF UpdatePreferences
  <2>3. /\ w.isTotpEnabled = mfa[u].isTotpEnabled /\ w.enabledAt = mfa[u].enabledAt
        /\ w.lastUsedStep = mfa[u].lastUsedStep /\ w.backupCodes = mfa[u].backupCodes
    BY <2>1 DEF setEmailCodeLoginEnabled, TypeInv, TypeOK, AuthTypeOK, MfaRow
  <2> QED
    BY <1>5, <2>2, <2>3
<1>7. ASSUME NEW u \in Users, ExpireEnrollment(u)
      PROVE  Drawn' /\ Spent'
  <2>1. PICK w : w = [mfa[u] EXCEPT !.pendingExpired = TRUE]
    OBVIOUS
  <2>2. mfa' = [mfa EXCEPT ![u] = w] /\ UNCHANGED <<redeemed, serial>>
    BY <1>7, <2>1 DEF ExpireEnrollment
  <2>3. /\ w.isTotpEnabled = mfa[u].isTotpEnabled /\ w.enabledAt = mfa[u].enabledAt
        /\ w.lastUsedStep = mfa[u].lastUsedStep /\ w.backupCodes = mfa[u].backupCodes
    BY <2>1 DEF TypeInv, TypeOK, AuthTypeOK, MfaRow
  <2> QED
    BY <1>5, <2>2, <2>3
<1>8. ASSUME NEW r \in Requests, Progress(r) \/ Arrival(r) \/ Crash(r)
      PROVE  Drawn' /\ Spent'
  <2>1. CASE ClaimTotpStep(r)
    BY <2>1, AcceptStep
  <2>2. CASE ClaimBackupCode(r)
    BY <2>2, AcceptCode
  <2>3. CASE WriteEnrollment(r) \/ ActivateTotp(r) \/ ReplaceBackupCodes(r) \/ WriteDisabled(r)
    BY <1>3, <2>3, SettingsFactors
  <2>4. ASSUME Arrival(r) \/ Crash(r)
        PROVE  UNCHANGED <<mfa, redeemed, serial>>
    BY <2>4 DEF Arrival, Login, StartEnrollment, EnableTotp, ResetMfa, ChangeProtected,
       RequestLoginCode, LoadChallenge, Refresh, Logout, Crash, dataVars
  <2>5. ASSUME Progress(r), ~ClaimTotpStep(r), ~ClaimBackupCode(r), ~WriteEnrollment(r),
               ~ActivateTotp(r), ~ReplaceBackupCodes(r), ~WriteDisabled(r)
        PROVE  UNCHANGED <<mfa, redeemed, serial>>
    BY <2>5 DEF Progress, IssueChallenge, CheckUser, ReadSecrets, RecordFailedAttempt,
       DropChallenge, ConsumeChallenge, ClearChallenges, LoginReadMfa, CheckEligible,
       AssertTenantActive, CreateToken, RefreshReadUser, RotateToken, DropToken, RevokeTokens,
       CheckPassword, dataVars
  <2> QED
    BY <1>4, <1>8, <2>1, <2>2, <2>3, <2>4, <2>5
<1>9. ASSUME Environment, \A u \in Users : ~ExpireEnrollment(u)
      PROVE  UNCHANGED <<mfa, redeemed, serial>>
  BY <1>9 DEF Environment, Tick, ExpireChallenge, PurgeChallenge, ExpireToken, PurgeToken,
     DeleteUser, SoftDeleteTenant
<1>10. CASE UNCHANGED authVars
  BY <1>4, <1>10 DEF authVars
<1> QED
  BY <1>4, <1>6, <1>7, <1>8, <1>9, <1>10 DEF Next

LEMMA FactorInvariant == Spec => []FactorInv
<1>1. AuthInit => FactorInv
  BY DEF AuthInit, FactorInv, Drawn, Spent, ClaimsAStep, NoMfa, IdleRequest
<1> QED
  BY <1>1, FactorStep, TypeInvariant, PTL DEF Spec

\* A second factor is accepted once: requests compare with rows they read earlier, and
\* TOTP may have been switched off and on in between, but the claiming update accepts
\* no step of an activation again, and no recovery code.
THEOREM FactorsAreSpent == Spec => FactorAcceptedOnce
<1> DEFINE Once == \A r \in Requests :
        At(r, "claim") /\ req'[r].pc \in {"consume", "disable"}
          /\ (req[r].code.kind = "totp" => mfa[UserOf(r)].isTotpEnabled)
        => Redemption(r) \notin redeemed
<1>1. ASSUME TypeInv, FactorInv, [Next]_authVars
      PROVE  [Once]_authVars
  <2> SUFFICES ASSUME NEW r \in Requests, At(r, "claim"), Next,
                      req'[r].pc \in {"consume", "disable"},
                      req[r].code.kind = "totp" => mfa[UserOf(r)].isTotpEnabled
               PROVE  Redemption(r) \notin redeemed
    BY <1>1 DEF At, authVars
  <2>1. Arrival(r) \/ Progress(r) \/ Crash(r)
    <3>1. ASSUME NEW s \in Requests \ {r}, Arrival(s) \/ Progress(s) \/ Crash(s)
          PROVE  FALSE
      BY <1>1, <3>1, Locality DEF At
    <3>2. req'[r] # req[r]
      BY DEF At
    <3>3. \/ \E s \in Requests : Arrival(s) \/ Progress(s) \/ Crash(s)
          \/ UNCHANGED req
      BY DEF Next, UpdatePreferences, Environment, Tick, ExpireChallenge,
         PurgeChallenge, ExpireToken, PurgeToken, ExpireEnrollment, DeleteUser, SoftDeleteTenant
    <3> QED
      BY <3>1, <3>2, <3>3
  <2>2. ClaimTotpStep(r) \/ ClaimBackupCode(r)
    <3>1. ~Crash(r)
      BY <1>1, FinishLocals DEF Crash
    <3> QED
      BY <2>1, <3>1 DEF At, Arrival, Login, StartEnrollment, EnableTotp, ResetMfa, ChangeProtected,
         RequestLoginCode, LoadChallenge, Refresh, Logout, Begin, Progress, IssueChallenge,
         CheckUser, ReadSecrets, RecordFailedAttempt, DropChallenge, ConsumeChallenge,
         ClearChallenges, LoginReadMfa, CheckEligible, AssertTenantActive, CreateToken,
         RefreshReadUser, RotateToken, DropToken, RevokeTokens, WriteEnrollment, ActivateTotp,
         CheckPassword, ReplaceBackupCodes, WriteDisabled
  <2>3. ~Reject(r)
    BY <1>1, FinishLocals, GotoLocals DEF Reject
  <2>4. UserOf(r) \in Users /\ req[r].code \in Codes
    BY <1>1, UserRow DEF At, Request
  <2>5. req[r].code = [kind |-> req[r].code.kind, id |-> req[r].code.id] /\ req[r].code.id \in Nat
    BY <2>4 DEF Codes
  <2>6. CASE ClaimTotpStep(r)
    <3>1. /\ req[r].code.kind = "totp" /\ mfa[UserOf(r)].isTotpEnabled
          /\ StepIsUnused(mfa[UserOf(r)], req[r].code.id)
      BY <2>3, <2>6 DEF ClaimTotpStep
    <3>2. mfa[UserOf(r)].enabledAt # 0
      BY <1>1, <2>4, <3>1 DEF FactorInv, Drawn
    <3>3. ASSUME <<req[r].code, mfa[UserOf(r)].enabledAt>> \in redeemed
          PROVE  FALSE
      <4>1. mfa[UserOf(r)].lastUsedStep # 0 /\ req[r].code.id <= mfa[UserOf(r)].lastUsedStep
        BY <1>1, <2>4, <2>5, <3>1, <3>2, <3>3 DEF FactorInv, Spent
      <4> QED
        BY <1>1, <2>4, <2>5, <3>1, <4>1, RowFacts DEF StepIsUnused
    <3> QED
      BY <3>1, <3>3 DEF Redemption
  <2>7. CASE ClaimBackupCode(r)
    <3>1. /\ req[r].code.kind = "backup_code"
          /\ req[r].code.id \in mfa[UserOf(r)].backupCodes
      BY <2>3, <2>7 DEF ClaimBackupCode, CodeIsUnused
    <3>2. <<req[r].code, 0>> \notin redeemed
      BY <1>1, <2>4, <2>5, <3>1 DEF FactorInv, Spent
    <3> QED
      BY <3>1, <3>2 DEF Redemption
  <2> QED
    BY <2>2, <2>6, <2>7
<1>2. Spec => [][Once]_authVars
  BY <1>1, TypeInvariant, FactorInvariant, PTL DEF Spec
<1> QED
  BY <1>2 DEF FactorAcceptedOnce
===============================================================================
