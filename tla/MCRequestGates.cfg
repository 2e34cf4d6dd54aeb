SPECIFICATION FairSpec
CONSTANTS
  r1 = r1
  r2 = r2
  r3 = r3
  x = x
  y = y
  None = None
  Requests = {r1, r2, r3}
  Plan <- PlanOf
  MaxInflight = 2
  Concurrency = 2
  PerHost = 1
CHECK_DEADLOCK FALSE
INVARIANTS PermitsKept NothingGoesOn
PROPERTY EveryRequestAnswered
