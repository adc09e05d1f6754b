SPECIFICATION Spec
CONSTANTS
  Tenants = {t1}
  Customers = {c1, c2}
  Subs = {s1}
  Prices = {p2}
  Catalog = {p2}
  None = None
  Names = {n1}
  MaxEvents = 2
  PeriodChoices = {{}}
  Deletable = {}
  Unrelated = {}
  Changes <- PastDue
  p1 = p1
  p2 = p2
  Workers = {w1}
  Requests = {r1, r2}
  RequestKinds = {"checkout", "cancel", "backfill"}
  Faults = FALSE
  InOrder = FALSE
SYMMETRY Interchangeable
INVARIANTS StatusComesFromStripe
