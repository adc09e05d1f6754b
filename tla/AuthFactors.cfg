SPECIFICATION Spec
CONSTANTS
  Users = {u1}
  Tenants = {k1}
  None = None
  operator = operator
  TenantOf <- TenantOfMembers
  Requests = {r1, r2}
  Operations = {"login", "verifyMfaChallenge", "startTotpEnrollment",
                "enableTotp", "disableTotp", "regenerateBackupCodes"}
  Faults = {}
  MaxAttempts = 2
  MaxChallenges = 1
  MaxTokens = 1
  MaxSerial = 4
  MaxStep = 1
SYMMETRY Interchangeable
CHECK_DEADLOCK FALSE
PROPERTIES FactorAcceptedOnce
