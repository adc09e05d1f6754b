------------------------------ MODULE AuthSystem ------------------------------
(***************************************************************************)
(* Sign-in, sessions and the second factor together, with what happens     *)
(* around them: time, MongoDB's TTL monitor, deleted users, soft-deleted   *)
(* tenants and crashes of the server.                                      *)
(***************************************************************************)
EXTENDS MfaSettings

\* Time passes: TOTP steps, and the expiry of challenges, tokens and enrolments.
Tick ==
  /\ now < MaxStep
  /\ now' = now + 1
  /\ UNCHANGED <<users, openTenants, mfa, challenges, tokens, serial, redeemed, req>>

ExpireChallenge(c) ==
  /\ "expiry" \in Faults
  /\ challenges[c].stored /\ ~challenges[c].expired
  /\ challenges' = [challenges EXCEPT ![c].expired = TRUE]
  /\ UNCHANGED <<users, openTenants, mfa, tokens, serial, now, redeemed, req>>

ExpireToken(t) ==
  /\ "expiry" \in Faults
  /\ tokens[t].stored /\ ~tokens[t].expired
  /\ tokens' = [tokens EXCEPT ![t].expired = TRUE]
  /\ UNCHANGED <<users, openTenants, mfa, challenges, serial, now, redeemed, req>>

ExpireEnrollment(u) ==
  /\ "expiry" \in Faults
  /\ mfa[u].pending # 0 /\ ~mfa[u].pendingExpired
  /\ mfa' = [mfa EXCEPT ![u].pendingExpired = TRUE]
  /\ UNCHANGED <<users, openTenants, challenges, tokens, serial, now, redeemed, req>>

\* The TTL indexes of the two collections.
PurgeChallenge(c) ==
  /\ challenges[c].stored /\ challenges[c].expired
  /\ challenges' = Unstored(challenges, {c})
  /\ UNCHANGED <<users, openTenants, mfa, tokens, serial, now, redeemed, req>>

PurgeToken(t) ==
  /\ tokens[t].stored /\ tokens[t].expired
  /\ tokens' = Unstored(tokens, {t})
  /\ UNCHANGED <<users, openTenants, mfa, challenges, serial, now, redeemed, req>>

\* TenantUserService.deleteUser leaves the user's MFA row and tokens behind.
DeleteUser(u) ==
  /\ "deletion" \in Faults
  /\ u \in users /\ TenantOf[u] # None
  /\ users' = users \ {u}
  /\ UNCHANGED <<openTenants, mfa, challenges, tokens, serial, now, redeemed, req>>

\* PlatformService.softDeleteTenant
SoftDeleteTenant(k) ==
  /\ "deletion" \in Faults
  /\ k \in openTenants
  /\ openTenants' = openTenants \ {k}
  /\ UNCHANGED <<users, mfa, challenges, tokens, serial, now, redeemed, req>>

\* The server dies, or the database call of the step fails: the request ends here.
Crash(r) ==
  /\ "crash" \in Faults
  /\ ~At(r, "idle")
  /\ Finish(r)
  /\ UNCHANGED dataVars

Environment ==
  \/ Tick
  \/ \E c \in DOMAIN challenges : ExpireChallenge(c) \/ PurgeChallenge(c)
  \/ \E t \in DOMAIN tokens : ExpireToken(t) \/ PurgeToken(t)
  \/ \E u \in Users : ExpireEnrollment(u) \/ DeleteUser(u)
  \/ \E k \in Tenants : SoftDeleteTenant(k)

Arrival(r) ==
  \/ \E u \in Users : \/ Login(r, u) \/ StartEnrollment(r, u) \/ EnableTotp(r, u)
                      \/ ResetMfa(r, u)
                      \/ ChangeProtected(r, u, "disableTotp")
                      \/ ChangeProtected(r, u, "regenerateBackupCodes")
  \/ RequestLoginCode(r)
  \/ \E c \in DOMAIN challenges : LoadChallenge(r, c)
  \/ \E t \in DOMAIN tokens : Refresh(r, t) \/ Logout(r, t)

Progress(r) ==
  \/ IssueChallenge(r) \/ CheckUser(r) \/ ReadSecrets(r) \/ ClaimTotpStep(r)
  \/ ClaimBackupCode(r) \/ RecordFailedAttempt(r) \/ DropChallenge(r)
  \/ ConsumeChallenge(r) \/ ClearChallenges(r)
  \/ LoginReadMfa(r) \/ CheckEligible(r) \/ AssertTenantActive(r) \/ CreateToken(r)
  \/ RefreshReadUser(r) \/ RotateToken(r) \/ DropToken(r) \/ RevokeTokens(r)
  \/ WriteEnrollment(r) \/ ActivateTotp(r) \/ CheckPassword(r) \/ ReplaceBackupCodes(r)
  \/ WriteDisabled(r)

Next ==
  \/ \E r \in Requests : Arrival(r) \/ Progress(r) \/ Crash(r)
  \/ \E u \in Users, on \in BOOLEAN : UpdatePreferences(u, on)
  \/ Environment

Spec == AuthInit /\ [][Next]_authVars

-----------------------------------------------------------------------------
TypeOK == AuthTypeOK

\* A challenge buys one session: of all requests that present it, in whatever order
\* they load, verify and consume it, one creates a token ("Single-use: only the first
\* caller to consume a challenge may finish the login").
BoughtWith(c) == {t \in DOMAIN tokens : tokens[t].via = c}
BuyingWith(c) == {r \in Requests : req[r].pc \in {"tenant", "create"} /\ req[r].challenge = c}

ChallengeBuysOneSession ==
  \A c \in DOMAIN challenges :
     Cardinality(BoughtWith(c)) + Cardinality(BuyingWith(c)) <= 1

\* The attempt cap bites under concurrency: requests that loaded the challenge before
\* the cap may each add one failure, and no other does, crashes notwithstanding.
FailingOn(c) == {r \in Requests : At(r, "fail") /\ req[r].challenge = c}

AttemptsAreCapped ==
  \A c \in DOMAIN challenges :
     challenges[c].stored =>
        challenges[c].attempts + Cardinality(FailingOn(c))
           <= MaxAttempts + Cardinality(Requests) - 1

\* A second factor is accepted once: a recovery code ever, a TOTP step within one
\* activation of TOTP, although requests compare with the row they read earlier.
Redemption(r) ==
  <<req[r].code,
    IF req[r].code.kind = "totp" THEN mfa[UserOf(r)].enabledAt ELSE 0>>

FactorAcceptedOnce ==
  [][\A r \in Requests :
        At(r, "claim") /\ req'[r].pc \in {"consume", "disable"}
          /\ (req[r].code.kind = "totp" => mfa[UserOf(r)].isTotpEnabled)
        => Redemption(r) \notin redeemed]_authVars

\* Deleting a user or a tenant ends its sessions, although nothing revokes the tokens: a
\* token that a request in flight created after the deletion is never rotated again.
DeletionEndsSessions ==
  \A t \in DOMAIN tokens : tokens[t].parent # 0 => ~tokens[tokens[t].parent].late

\* "Rotate refresh token and issue a new access token (single-use refresh)".
SingleUseRefresh ==
  \A s, t \in DOMAIN tokens : tokens[s].parent # 0 /\ tokens[s].parent = tokens[t].parent => s = t
===============================================================================
