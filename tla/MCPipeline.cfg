SPECIFICATION Spec
CONSTANTS
  N = 2
  PoolSize <- PoolAndFIFO
  Items = 3
INVARIANTS
  TypeOK
  MarkedIsFinal
  StagesKeepOrder
  NothingLost
  FirstErrorKept
