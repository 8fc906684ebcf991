SPECIFICATION Spec
CONSTANTS
  VertexID = {v1, v2}
  NoVertex = NoVertex
  Worker = {w1, w2}
  Relayer = FALSE
  MaxRound = 2
  MaxQueue = 0
  MaxEdges = 0
  MaxCalls = 1
SYMMETRY Symmetry
INVARIANT
  ErrorEndsRun
