\* All starts may be used up and every process stopped.
SPECIFICATION Spec
CONSTANTS
  RouterProc = {r1, r2}
  PeerProc = {p1}
  NONE = NONE
  MaxStarts = 3
INVARIANTS
  PublicHasPrivate
  ReadyIsStored
PROPERTIES
  StoredKeysStay
  HalfPairStays
  ImplementsVault
CHECK_DEADLOCK FALSE
