SPECIFICATION FairSpec
CONSTANTS
  Size = 3
  NULL = NULL
  NONE = NONE
  GARBAGE = GARBAGE
  MaxPayload = 2
  HighWater = 1
  MaxFailures = 3
INVARIANTS
  SlotsComeBack
  MessagesEndInData
  NamesLead
PROPERTIES
  ImplementsMailbox
  RegistersAgain
  SignalEndsClient
