SPECIFICATION Spec
CONSTANTS
  Users = {u1}
  Tenants = {k1}
  None = None
  operator = operator
  TenantOf <- TenantOfMembers
  Requests = {r1, r2}
  Operations = {"requestLoginCode", "verifyMfaChallenge", "updatePreferences"}
  Faults = {"expiry", "crash"}
  MaxAttempts = 2
  MaxChallenges = 2
  MaxTokens = 1
  MaxSerial = 0
  MaxStep = 2
SYMMETRY Interchangeable
CHECK_DEADLOCK FALSE
INVARIANTS TypeOK ChallengeBuysOneSession AttemptsAreCapped
