SPECIFICATION Spec
CONSTANTS
  Servers = {1}
  Users = {u1, u2}
  Indexes = {0, 1}
  MaxFaults = 0
  MaxVisits = 3
  MaxInbox = 1
  Leftover = {}
  Junk = Junk
  None = None
CHECK_DEADLOCK FALSE
INVARIANTS
  EnterIsTaken
