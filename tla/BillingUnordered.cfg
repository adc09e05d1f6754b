SPECIFICATION Spec
CONSTANTS
  Tenants = {t1}
  Customers = {c1}
  Subs = {s1}
  Prices = {p1, p2}
  Catalog = {p1}
  None = None
  Names = {n1}
  p1 = p1
  p2 = p2
  MaxEvents = 3
  PeriodChoices <- BothPeriods
  Changes <- PastDueOrPlanChange
  Deletable = {}
  Unrelated = {}
  Workers = {w1}
  Requests = {r1}
  RequestKinds = {"checkout"}
  Faults = FALSE
  InOrder = FALSE
INVARIANTS PaidStateReconciled
