SPECIFICATION Spec
CONSTANTS
  VertexID = {v1, v2}
  NoVertex = NoVertex
  Worker = {w1, w2}
  Relayer = TRUE
  MaxRound = 2
  MaxQueue = 1
  MaxEdges = 1
  MaxCalls = 1
SYMMETRY Symmetry
INVARIANTS
  BarrierHolds
  SuperstepIsolation
  ReadBuffersDrained
  HaltIsSafe
  ReadInNextStep
PROPERTIES
  OncePerStep
  NoMessageLost
