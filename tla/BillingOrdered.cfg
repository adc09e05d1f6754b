SPECIFICATION FairSpec
CONSTANTS
  Tenants = {t1}
  Customers = {c1, c2}
  Subs = {s1}
  Prices = {p1, p2}
  Catalog = {p1}
  None = None
  Names = {n1}
  p1 = p1
  p2 = p2
  MaxEvents = 3
  PeriodChoices <- NoneOrBothPeriods
  Changes <- PastDueOrPlanChange
  Deletable = {c1, c2}
  Unrelated = {"invoice", "other"}
  Workers = {w1}
  Requests = {r1}
  RequestKinds = {"checkout"}
  Faults = FALSE
  InOrder = TRUE
INVARIANTS PaidStateReconciled ClaimedIsPublished
PROPERTIES EventuallyPublished
