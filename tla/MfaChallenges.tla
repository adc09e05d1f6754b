----------------------------- MODULE MfaChallenges -----------------------------
(***************************************************************************)
(* MfaChallengeService and MfaVerificationService: the ticket between the  *)
(* first factor and the session, and the check of a second factor.         *)
(***************************************************************************)
EXTENDS AuthRequests

\* issue: password login of a user with TOTP, or a request for an emailed code.  A
\* request for an address that may not sign in so gets a decoy, without a user.
IssueChallenge(r) ==
  /\ At(r, "issue")
  /\ Len(challenges) < MaxChallenges
  /\ challenges' = Append(challenges,
       [user |-> UserOf(r), attempts |-> 0, consumed |-> FALSE, expired |-> FALSE,
        stored |-> TRUE,
        purpose |-> IF req[r].op = "login" THEN "totp" ELSE "email_code"])
  /\ Finish(r)
  /\ UNCHANGED <<users, openTenants, mfa, tokens, serial, now, redeemed>>

\* load: a missing or consumed challenge, and a decoy, are refused at once.
LoadChallenge(r, c) ==
  LET ch == challenges[c]
  IN  /\ "verifyMfaChallenge" \in Operations
      /\ At(r, "idle")
      /\ ch.stored /\ ~ch.consumed
      /\ ch.user # None \/ ch.expired \/ Locked(c)
      /\ req' = [req EXCEPT ![r] =
                   [IdleRequest EXCEPT !.op = "verifyMfaChallenge", !.user = ch.user,
                      !.challenge = c,
                      !.pc = IF ch.expired \/ Locked(c) THEN "drop" ELSE "user"]]
      /\ UNCHANGED dataVars

\* verifyMfaChallenge reads the user, then compares an emailed code with the hash it
\* loaded with the challenge.
CheckUser(r) ==
  LET purpose == challenges[req[r].challenge].purpose
  IN  /\ At(r, "user")
      /\ \/ UserOf(r) \notin users /\ Finish(r)
         \/ UserOf(r) \in users /\ purpose = "totp" /\ Goto(r, "secrets")
         \/ /\ UserOf(r) \in users /\ purpose = "email_code"
            /\ \E answer \in {"consume", "fail"} : Goto(r, answer)
      /\ UNCHANGED dataVars

\* A code that is not accepted counts against the challenge; elsewhere it only refuses.
Reject(r) == IF req[r].op = "verifyMfaChallenge" THEN Goto(r, "fail") ELSE Finish(r)

Accept(r) == Goto(r, IF req[r].op = "verifyMfaChallenge" THEN "consume" ELSE "disable")

\* verify reads the row; a recovery code is looked up by the update itself, a TOTP code
\* is compared with the secret and the last step just read.
ReadSecrets(r) ==
  LET row == mfa[UserOf(r)]
      Claiming(kind, id) == req' = [req EXCEPT ![r].pc = "claim",
                                               ![r].code = [kind |-> kind, id |-> id]]
  IN  /\ At(r, "secrets")
      /\ \/ Reject(r)
         \/ row.isTotpEnabled /\ \E code \in 1 .. serial : Claiming("backup_code", code)
         \/ /\ row.isTotpEnabled /\ row.secret # 0
            /\ \E step \in 1 .. now + 1 :
                  TotpMatches(step, now, row.lastUsedStep) /\ Claiming("totp", step)
      /\ UNCHANGED dataVars

\* tryConsumeTotpStep and markBackupCodeUsed: one conditional update each.
ClaimTotpStep(r) ==
  LET u == UserOf(r)  step == req[r].code.id
  IN  /\ At(r, "claim") /\ req[r].code.kind = "totp"
      /\ IF StepIsUnused(mfa[u], step)
         THEN /\ mfa' = [mfa EXCEPT ![u] = tryConsumeTotpStep(@, step)]
              /\ redeemed' = redeemed \cup {<<req[r].code, mfa[u].enabledAt>>}
              /\ Accept(r)
         ELSE Reject(r) /\ UNCHANGED <<mfa, redeemed>>
      /\ UNCHANGED <<users, openTenants, challenges, tokens, serial, now>>

ClaimBackupCode(r) ==
  LET u == UserOf(r)  code == req[r].code.id
  IN  /\ At(r, "claim") /\ req[r].code.kind = "backup_code"
      /\ IF CodeIsUnused(mfa[u], code)
         THEN /\ mfa' = [mfa EXCEPT ![u] = markBackupCodeUsed(@, code)]
              /\ redeemed' = redeemed \cup {<<req[r].code, 0>>}
              /\ Accept(r)
         ELSE Reject(r) /\ UNCHANGED <<mfa, redeemed>>
      /\ UNCHANGED <<users, openTenants, challenges, tokens, serial, now>>

\* Mutant: the counter runs the wrong way.
CountDown(ch) == [ch EXCEPT !.attempts = @ - 1]

\* recordFailedAttempt: an atomic increment.
recordFailedAttempt(ch) == [ch EXCEPT !.attempts = @ + 1]

\* registerFailedAttempt: the increment, then the deletion of a spent budget.  A challenge
\* that is gone by now counts as spent.
RecordFailedAttempt(r) ==
  LET c == req[r].challenge
      counted == recordFailedAttempt(challenges[c])
  IN  /\ At(r, "fail")
      /\ IF challenges[c].stored
         THEN /\ challenges' = [challenges EXCEPT ![c] = counted]
              /\ IF counted.attempts < MaxAttempts THEN Finish(r) ELSE Goto(r, "drop")
         ELSE Goto(r, "drop") /\ UNCHANGED challenges
      /\ UNCHANGED <<users, openTenants, mfa, tokens, serial, now, redeemed>>

DropChallenge(r) ==
  /\ At(r, "drop")
  /\ challenges' = Unstored(challenges, {req[r].challenge})
  /\ Finish(r)
  /\ UNCHANGED <<users, openTenants, mfa, tokens, serial, now, redeemed>>

\* Mutant: the update forgets to ask whether the challenge was consumed.
ConsumeAgain(c) == challenges[c].stored

\* tryConsume: the update matches a stored challenge that nobody consumed.
CanConsume(c) == challenges[c].stored /\ ~challenges[c].consumed

ConsumeChallenge(r) ==
  LET c == req[r].challenge
  IN  /\ At(r, "consume")
      /\ IF CanConsume(c)
         THEN challenges' = [challenges EXCEPT ![c].consumed = TRUE] /\ Goto(r, "tenant")
         ELSE Finish(r) /\ UNCHANGED challenges
      /\ UNCHANGED <<users, openTenants, mfa, tokens, serial, now, redeemed>>

\* clearForUser, after a sign-in or before the sessions are revoked.
ClearChallenges(r) ==
  /\ At(r, "clear")
  /\ challenges' = Unstored(challenges, {c \in DOMAIN challenges : challenges[c].user = UserOf(r)})
  /\ IF req[r].op = "verifyMfaChallenge" THEN Finish(r) ELSE Goto(r, "revoke")
  /\ UNCHANGED <<users, openTenants, mfa, tokens, serial, now, redeemed>>
===============================================================================
