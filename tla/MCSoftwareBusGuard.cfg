SPECIFICATION Spec
CONSTANTS
  Size = 3
  Client = {c1, c2}
  NULL = NULL
  LOST = LOST
  MaxSends = 3
  MaxFailures = 0
  MaxDrops = 0
INVARIANT
  GuardWordsIntact
CHECK_DEADLOCK FALSE
