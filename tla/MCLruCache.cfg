SPECIFICATION Spec
CONSTANTS
  Key = {k1, k2, k3, k4}
  Val = {v1, v2}
  MaxSize = 3
  Node = {n1, n2, n3, n4}
  NULL = NULL
  MISS = MISS
INVARIANT MapMatchesList
PROPERTY ImplementsRecency
SYMMETRY Symmetry
