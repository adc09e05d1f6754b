SPECIFICATION Spec
CONSTANTS
  NoCap = NoCap
  FreeLimits <- OneTier
  Emails = {1, 2}
  Requests = {r1}
  Scenarios <- RepeatedAcceptance
  Passwords = {p1, p2}
  PlanCaps = {1, 3}
  MaxTenants = 1
  MaxPlans = 1
CHECK_DEADLOCK FALSE
PROPERTIES
  RepeatAcceptIsNoOp
