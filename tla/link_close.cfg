SPECIFICATION FairSpec
CONSTANTS
  HangupIsReadable = FALSE
  ConnectTime = 2
  MaxRequests = 1
  MaxEvents = 1
  MaxFaults = 1
  Infinity = Infinity
  NoTimeLeave = 9
PROPERTIES
  CloseIsNoticed
CHECK_DEADLOCK FALSE
