SPECIFICATION Spec
CONSTANTS
  Proc = {p1, p2}
  Name = {n1, n2}
  Value = {v1, v2}
  NONE = NONE
  DEAD = DEAD
  OK = OK
  ERROR = ERROR
  MaxStatements = 2
INVARIANT StatementsAreLeft
PROPERTY ImplementsRegister
SYMMETRY Symmetry
