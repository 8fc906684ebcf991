SPECIFICATION FairSpec
CONSTANTS
  Run = {r1, r2}
  MaxWorkers = 2
  Items = 2
  Expires = TRUE
INVARIANTS
  TypeOK
  AtMostMaxWorkers
  WorkersExitFirst
PROPERTIES
  AloneReturns
CHECK_DEADLOCK FALSE
