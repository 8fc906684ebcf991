SPECIFICATION ReadSpec
CONSTANTS
  URL = {u1, u2}
  LinkID = {l1, l2, l3}
  EdgeID = {e1}
  Nil = Nil
  MaxTime = 1
SYMMETRY Symmetry
INVARIANT
  OneLinkPerURL
