CONSTANTS
  MaxMessages = 4
  MaxPayload = 2
  MaxRead = 2
SPECIFICATION FairSession
INVARIANTS
  DeliveredExactly
  NothingLeftBehind
PROPERTIES
  CloseIsNoticed
  StopEnds
