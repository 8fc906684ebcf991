SPECIFICATION ReadSpec
CONSTANTS
  URL = {u1, u2}
  LinkID = {l1, l2, l3}
  EdgeID = {e1, e2}
  Nil = Nil
  MaxTime = 2
SYMMETRY Symmetry
INVARIANTS
  EdgeMapsAgree
  EdgesWellFormed
  IndexFindsLink
  IteratorLeadsToLinks
PROPERTIES
  LinksMoveForward
  OldestGoFirst
