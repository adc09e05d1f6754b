SPECIFICATION Spec
CONSTANTS
  Tenants = {t1}
  Customers = {c1}
  Subs = {s1}
  Prices = {p1, p2}
  Catalog = {p2}
  None = None
  Names = {n1, n2}
  p1 = p1
  p2 = p2
  MaxEvents = 2
  PeriodChoices <- BothPeriods
  Changes <- PastDueOrPlanChange
  Deletable = {c1}
  Unrelated = {"invoice", "other"}
  Workers = {w1, w2}
  Requests = {r1}
  RequestKinds = {"checkout", "cancel", "backfill"}
  Faults = TRUE
  InOrder = FALSE
SYMMETRY Interchangeable
INVARIANTS PlanKeyNamesPlan
PROPERTIES EachEventOwnedOnce
