SPECIFICATION Spec
CONSTANTS
  Users = {u1}
  Tenants = {k1}
  None = None
  operator = operator
  TenantOf <- TenantOfMembers
  Requests = {r1, r2}
  Operations = {"login", "refresh", "logout",
                "resetMfaForUser", "startTotpEnrollment"}
  Faults = {"expiry", "crash", "deletion"}
  MaxAttempts = 2
  MaxChallenges = 0
  MaxTokens = 3
  MaxSerial = 1
  MaxStep = 1
SYMMETRY Interchangeable
CHECK_DEADLOCK FALSE
INVARIANTS DeletionEndsSessions
