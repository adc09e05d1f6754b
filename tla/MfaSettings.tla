----------------------------- MODULE MfaSettings -----------------------------
(***************************************************************************)
(* MfaService: the owner of an account turns its second factor on and off, *)
(* and AuthService.resetMfaForUser, where a platform operator does.  The   *)
(* caller holds an access token, which stays good when the user is deleted.*)
(***************************************************************************)
EXTENDS AuthSessions

SetMfa(r, row) == mfa' = [mfa EXCEPT ![UserOf(r)] = row]

\* startTotpEnrollment
StartEnrollment(r, u) ==
  /\ ~mfa[u].isTotpEnabled
  /\ Begin(r, "startTotpEnrollment", "enrol", u)
  /\ UNCHANGED dataVars

WriteEnrollment(r) ==
  /\ At(r, "enrol")
  /\ serial < MaxSerial
  /\ serial' = serial + 1
  /\ SetMfa(r, startTotpEnrollment(mfa[UserOf(r)], serial + 1))
  /\ Finish(r)
  /\ UNCHANGED <<users, openTenants, challenges, tokens, now, redeemed>>

\* enableTotp: the confirmed secret is the pending one of the row just read.
EnableTotp(r, u) ==
  LET row == mfa[u]
  IN  /\ "enableTotp" \in Operations
      /\ At(r, "idle")
      /\ ~row.isTotpEnabled /\ row.pending # 0 /\ ~row.pendingExpired
      /\ req' = [req EXCEPT ![r] =
                   [IdleRequest EXCEPT !.op = "enableTotp", !.pc = "activate", !.user = u,
                                       !.code = [kind |-> "totp", id |-> row.pending]]]
      /\ UNCHANGED dataVars

ActivateTotp(r) ==
  /\ At(r, "activate")
  /\ serial < MaxSerial
  /\ serial' = serial + 1
  /\ SetMfa(r, activateTotp(mfa[UserOf(r)], req[r].code.id, serial + 1, serial + 1))
  /\ Finish(r)
  /\ UNCHANGED <<users, openTenants, challenges, tokens, now, redeemed>>

\* disableTotp and regenerateBackupCodes read the row, then check the password; the
\* former goes on to a second factor.
ChangeProtected(r, u, op) ==
  /\ mfa[u].isTotpEnabled
  /\ Begin(r, op, "password", u)
  /\ UNCHANGED dataVars

CheckPassword(r) ==
  /\ At(r, "password")
  /\ IF UserOf(r) \notin users THEN Finish(r)
     ELSE Goto(r, IF req[r].op = "disableTotp" THEN "secrets" ELSE "replace")
  /\ UNCHANGED dataVars

\* Nothing looks at what became of the row since.
ReplaceBackupCodes(r) ==
  /\ At(r, "replace")
  /\ serial < MaxSerial
  /\ serial' = serial + 1
  /\ SetMfa(r, replaceBackupCodes(mfa[UserOf(r)], serial + 1))
  /\ Finish(r)
  /\ UNCHANGED <<users, openTenants, challenges, tokens, now, redeemed>>

\* disableTotp, then clearForUser and deleteByUserId.
WriteDisabled(r) ==
  /\ At(r, "disable")
  /\ SetMfa(r, disableTotp(mfa[UserOf(r)]))
  /\ Goto(r, "clear")
  /\ UNCHANGED <<users, openTenants, challenges, tokens, serial, now, redeemed>>

\* resetMfaForUser asks for no factor of the account.
ResetMfa(r, u) ==
  /\ u \in users
  /\ Begin(r, "resetMfaForUser", "disable", u)
  /\ UNCHANGED dataVars

UpdatePreferences(u, on) ==
  /\ "updatePreferences" \in Operations
  /\ mfa' = [mfa EXCEPT ![u] = setEmailCodeLoginEnabled(@, on)]
  /\ UNCHANGED <<users, openTenants, challenges, tokens, serial, now, redeemed, req>>
===============================================================================
