----------------------------- MODULE UserMfaStore -----------------------------
(***************************************************************************)
(* The `user_mfa` collection: one row per user, and the writes its         *)
(* repository offers.  Each is one MongoDB update, so it is one operator   *)
(* on the row.  A user without a row reads as NoMfa: every write either    *)
(* upserts, or leaves a missing row as it is when it would reset it.       *)
(*                                                                         *)
(* Secrets, recovery codes and activation times are drawn from one growing *)
(* supply of serial numbers; 0 stands for a field that is unset.  The ten  *)
(* recovery codes of a set differ in nothing, so a set holds one.          *)
(***************************************************************************)
EXTENDS Naturals

MfaRow == [isTotpEnabled : BOOLEAN, secret : Nat, pending : Nat, pendingExpired : BOOLEAN,
           enabledAt : Nat, lastUsedStep : Nat, backupCodes : SUBSET Nat,
           emailCodeLogin : BOOLEAN]

NoMfa == [isTotpEnabled |-> FALSE, secret |-> 0, pending |-> 0, pendingExpired |-> FALSE,
          enabledAt |-> 0, lastUsedStep |-> 0, backupCodes |-> {}, emailCodeLogin |-> TRUE]

startTotpEnrollment(row, secret) ==
  [row EXCEPT !.pending = secret, !.pendingExpired = FALSE]

\* Matches the user whatever the row holds by now, and forgets the last step.
activateTotp(row, secret, code, time) ==
  [row EXCEPT !.isTotpEnabled = TRUE, !.secret = secret, !.enabledAt = time,
              !.backupCodes = {code}, !.pending = 0, !.pendingExpired = FALSE,
              !.lastUsedStep = 0]

disableTotp(row) == [NoMfa EXCEPT !.emailCodeLogin = row.emailCodeLogin]

\* Mutant: the update has no filter.
StepUnchecked(row, step) == TRUE

\* The filter of the update: the step was never used, nor a later one.
StepIsUnused(row, step) == row.lastUsedStep = 0 \/ row.lastUsedStep < step
tryConsumeTotpStep(row, step) == [row EXCEPT !.lastUsedStep = step]

CodeIsUnused(row, code) == code \in row.backupCodes
markBackupCodeUsed(row, code) == [row EXCEPT !.backupCodes = @ \ {code}]

replaceBackupCodes(row, code) == [row EXCEPT !.backupCodes = {code}]
setEmailCodeLoginEnabled(row, on) == [row EXCEPT !.emailCodeLogin = on]

\* TotpService.verify: the code of `step' matches within one period either side of
\* now, unless that step was already accepted for this user.
TotpMatches(step, now, afterStep) ==
  /\ step \in now - 1 .. now + 1
  /\ afterStep = 0 \/ step > afterStep
===============================================================================
