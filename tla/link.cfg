SPECIFICATION FairSpec
CONSTANTS
  HangupIsReadable = FALSE
  ConnectTime = 2
  MaxRequests = 1
  MaxEvents = 1
  MaxFaults = 2
  Infinity = Infinity
  NoTimeLeave = 9
INVARIANTS
  DownIsBeingHandled
PROPERTIES
  LostIsReplaced
CHECK_DEADLOCK FALSE
