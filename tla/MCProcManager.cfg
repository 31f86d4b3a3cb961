SPECIFICATION FairManagerSpec
CONSTANTS
  Name = {n1, n2}
  Pid = {p1, p2, p3, p4}
  NIL = NIL
INVARIANTS OnlyOwnSignalled RunningAreKnown
PROPERTIES StopAllReaches StopAllEnds
