SPECIFICATION FairScanSpec
CONSTANTS
  Process = {c1, c2}
  OTHERS = OTHERS
  NONE = NONE
  MaxPort = 4
  Limit = 3
  MaxFiles = 2
INVARIANT SocketsAreFailures
PROPERTY ScanEnds
