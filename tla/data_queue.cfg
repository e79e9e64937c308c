SPECIFICATION AsynchSpec
CONSTANTS
  Network = Network
  Timer = Timer
  Nobody = Nobody
  Packets <- PacketsOfSizes
  Growth = 2
  MaxBuffer = 40
  MaxPending = 2
  Blank = Blank
INVARIANTS
  DataIsWhereItCounts
  CallbackPerPacket
PROPERTIES
  Implements
  PostedIsHandled
