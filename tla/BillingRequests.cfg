SPECIFICATION Spec
CONSTANTS
  Tenants = {t1, t2}
  Customers = {c1, c2}
  Subs = {s1, s2}
  Prices = {p2}
  Catalog = {p2}
  None = None
  Names = {n1}
  MaxEvents = 2
  PeriodChoices = {{}}
  Deletable = {c1, c2}
  Unrelated = {}
  Changes <- PastDueOrEnding
  p1 = p1
  p2 = p2
  Workers = {w1}
  Requests = {r1}
  RequestKinds = {"checkout", "confirm", "cancel", "backfill"}
  Faults = TRUE
  InOrder = FALSE
SYMMETRY Interchangeable
INVARIANTS TypeOK TenantIsolation StatusComesFromStripe EntitlementWasPaid
