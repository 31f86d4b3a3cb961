SPECIFICATION FairSpec
CONSTANTS
  Size = 3
  Client = {c1, c2}
  NULL = NULL
  LOST = LOST
  MaxSends = 4
  MaxFailures = 2
  MaxDrops = 1
INVARIANTS
  LeaksAreFailures
  ReceiveSlotReserved
  ForwardsNeedFreshSlots
  DeliveredAsAddressed
  OnlyKnownReceive
PROPERTIES
  ImplementsRelay
  LossIsPermanent
  EveryMessageRead
  SignalEndsLoop
CHECK_DEADLOCK FALSE
