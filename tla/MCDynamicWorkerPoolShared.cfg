SPECIFICATION FairSpec
CONSTANTS
  Run = {r1, r2}
  MaxWorkers = 2
  Items = 1
  Expires = FALSE
PROPERTIES
  RunReturns
CHECK_DEADLOCK FALSE
