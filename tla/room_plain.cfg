SPECIFICATION FairSpec
CONSTANTS
  Users = {u1, u2}
  Items = {i1, i2}
  LinkCount = 3
  MaxPlayer = 2
  ChairCount = 2
  Areas = {0}
  OffLineTrustee = FALSE
  EnterLimit = TRUE
  ChipsSet = FALSE
  Relogon = FALSE
  NoItem = NoItem
  NoUser = NoUser
INVARIANTS
  TypeOK
  BindConsistent
  SeatConsistent
  StatusConsistent
PROPERTIES
  EvictedIsShutDown
  OfflineIsResolved
  SitterPlays
