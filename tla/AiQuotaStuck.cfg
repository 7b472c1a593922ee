CONSTANTS
  c1 = c1
  c2 = c2
  c3 = c3
  Tokens = 3
  Estimate = 2
  MaxCost = 2
CHECK_DEADLOCK FALSE
SPECIFICATION FairSpec
CONSTANTS
  Callers = {c1, c2}
  MaxCalls = 2
PROPERTY QuotaReturns
