SPECIFICATION FairSpec
CONSTANTS
  MaxConns = 2
  MaxWork = 2
  None = None
CHECK_DEADLOCK FALSE
INVARIANTS
  StoreIsExact
  HandlersArePending
  InOrder
  ToOthersOnlyAfterShut
  RequestsMissOnlyTheEnded
PROPERTIES
  Implements
  LeaverIsReported
