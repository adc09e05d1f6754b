SPECIFICATION Spec
CONSTANTS
  NoCap = NoCap
  FreeLimits <- OneTier
  Emails = {1, 2, 3}
  Requests = {r1, r2}
  Scenarios <- SeveralScenarios
  Passwords = {p1}
  PlanCaps = {1, 3}
  MaxTenants = 2
  MaxPlans = 1
SYMMETRY Interchangeable
CHECK_DEADLOCK FALSE
INVARIANTS
  TypeOK
  RegistrationIsAllOrNothing
  FounderHasTenant
  DeletedTenantIsInactive
  InvitationStaysInTenant
  InvitationIsSpent
  ArchivedPlanIsOffSale
PROPERTIES
  ArchivedStaysArchived
  SeatQuota
