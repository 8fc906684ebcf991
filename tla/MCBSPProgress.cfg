SPECIFICATION FairSpec
CONSTANTS
  VertexID = {v1, v2}
  NoVertex = NoVertex
  Worker = {w1, w2}
  Relayer = FALSE
  MaxRound = 3
  MaxQueue = 0
  MaxEdges = 0
  MaxCalls = 1
INVARIANTS
  StepInv
PROPERTIES
  StepReturns
  CloseReturns
  ImplementsSuperstep
