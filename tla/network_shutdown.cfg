SPECIFICATION FairSpec
CONSTANTS
  MaxConns = 1
  MaxWork = 1
  None = None
CHECK_DEADLOCK FALSE
PROPERTIES
  ShutDownCloses
