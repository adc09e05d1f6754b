SPECIFICATION Spec
CONSTANTS
  Users = {u1}
  Tenants = {k1}
  None = None
  operator = operator
  TenantOf <- TenantOfMembers
  Requests = {r1, r2}
  Operations = {"login", "refresh"}
  Faults = {}
  MaxAttempts = 2
  MaxChallenges = 0
  MaxTokens = 3
  MaxSerial = 0
  MaxStep = 1
SYMMETRY Interchangeable
CHECK_DEADLOCK FALSE
INVARIANTS SingleUseRefresh
