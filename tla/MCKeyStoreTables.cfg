\* All starts may be used up and every process stopped.
SPECIFICATION Spec
CONSTANTS
  RouterProc = {}
  PeerProc = {p1}
  NONE = NONE
  MaxStarts = 2
INVARIANT
  TablesAreThere
CHECK_DEADLOCK FALSE
