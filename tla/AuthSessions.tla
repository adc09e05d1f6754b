----------------------------- MODULE AuthSessions -----------------------------
(***************************************************************************)
(* AuthService: signing in, rotating and revoking refresh tokens.          *)
(* Credentials are right: a wrong password or token secret is refused      *)
(* without a write.  Users are active and verified, and sign in on the     *)
(* portal of their role.                                                   *)
(***************************************************************************)
EXTENDS MfaChallenges

\* login: the password matched; the MFA row decides between a challenge and a session.
Login(r, u) ==
  /\ u \in users
  /\ Begin(r, "login", "mfa", u)
  /\ UNCHANGED dataVars

LoginReadMfa(r) ==
  /\ At(r, "mfa")
  /\ Goto(r, IF mfa[UserOf(r)].isTotpEnabled THEN "issue" ELSE "tenant")
  /\ UNCHANGED dataVars

\* requestLoginCode: an unknown address, or one that opted out, gets a decoy.
RequestLoginCode(r) ==
  /\ \/ Begin(r, "requestLoginCode", "issue", None)
     \/ \E u \in users : Begin(r, "requestLoginCode", "eligible", u)
  /\ UNCHANGED dataVars

CheckEligible(r) ==
  /\ At(r, "eligible")
  /\ req' = [req EXCEPT ![r].pc = "issue",
                        ![r].user = IF mfa[@].emailCodeLogin THEN @ ELSE None]
  /\ UNCHANGED dataVars

\* issueTokenPair: the tenant is checked, then the token created.
AssertTenantActive(r) ==
  /\ At(r, "tenant")
  /\ IF TenantIsOpen(UserOf(r)) THEN Goto(r, "create") ELSE Finish(r)
  /\ UNCHANGED dataVars

CreateToken(r) ==
  /\ At(r, "create")
  /\ Len(tokens) < MaxTokens
  /\ tokens' = Append(tokens,
       [user |-> UserOf(r), parent |-> req[r].token, via |-> req[r].challenge,
        late |-> UserOf(r) \notin users \/ ~TenantIsOpen(UserOf(r)),
        expired |-> FALSE, stored |-> TRUE])
  /\ IF req[r].op = "verifyMfaChallenge" THEN Goto(r, "clear") ELSE Finish(r)
  /\ UNCHANGED <<users, openTenants, mfa, challenges, serial, now, redeemed>>

\* refresh: find the token, find its user, delete the token, issue the next one.
Refresh(r, t) ==
  LET token == tokens[t]
  IN  /\ "refresh" \in Operations
      /\ At(r, "idle")
      /\ token.stored
      /\ req' = [req EXCEPT ![r] =
                   [IdleRequest EXCEPT !.op = "refresh", !.user = token.user, !.token = t,
                                       !.pc = IF token.expired THEN "dropToken" ELSE "owner"]]
      /\ UNCHANGED dataVars

\* Mutant: the user is not looked up.
RefreshAnyUser(r) ==
  /\ At(r, "owner")
  /\ Goto(r, "rotate")
  /\ UNCHANGED dataVars

RefreshReadUser(r) ==
  /\ At(r, "owner")
  /\ Goto(r, IF UserOf(r) \in users THEN "rotate" ELSE "dropToken")
  /\ UNCHANGED dataVars

\* deleteByJti: whether the token was still there is not asked.
RotateToken(r) ==
  /\ At(r, "rotate")
  /\ tokens' = Unstored(tokens, {req[r].token})
  /\ Goto(r, "tenant")
  /\ UNCHANGED <<users, openTenants, mfa, challenges, serial, now, redeemed>>

\* logout: find the token, delete it.
Logout(r, t) ==
  /\ "logout" \in Operations
  /\ At(r, "idle")
  /\ tokens[t].stored
  /\ req' = [req EXCEPT ![r] = [IdleRequest EXCEPT !.op = "logout", !.pc = "dropToken",
                                                   !.user = tokens[t].user, !.token = t]]
  /\ UNCHANGED dataVars

DropToken(r) ==
  /\ At(r, "dropToken")
  /\ tokens' = Unstored(tokens, {req[r].token})
  /\ Finish(r)
  /\ UNCHANGED <<users, openTenants, mfa, challenges, serial, now, redeemed>>

\* deleteByUserId: the user is signed out of every device.
RevokeTokens(r) ==
  /\ At(r, "revoke")
  /\ tokens' = Unstored(tokens, {t \in DOMAIN tokens : tokens[t].user = UserOf(r)})
  /\ Finish(r)
  /\ UNCHANGED <<users, openTenants, mfa, challenges, serial, now, redeemed>>
===============================================================================
