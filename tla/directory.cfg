SPECIFICATION Spec
CONSTANTS
  Servers = {1, 2}
  Users = {u1, u2}
  Indexes = {0, 1, 2}
  MaxFaults = 1
  MaxVisits = 2
  MaxInbox = 2
  Leftover = {1}
  Junk = Junk
  None = None
CHECK_DEADLOCK FALSE
INVARIANTS
  RoomsAreBound
  CollectIsExact
  UsersAreInLiveRooms
  ListFollowsChanges
