SPECIFICATION FairSpec
CONSTANTS
  N = 1
  PoolSize <- OneFIFO
  Items = 1
PROPERTY
  ProcessReturns
