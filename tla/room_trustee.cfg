SPECIFICATION Spec
CONSTANTS
  Users = {u1, u2}
  Items = {i1, i2}
  LinkCount = 2
  MaxPlayer = 2
  ChairCount = 2
  Areas = {0}
  OffLineTrustee = TRUE
  EnterLimit = TRUE
  ChipsSet = FALSE
  Relogon = TRUE
  NoItem = NoItem
  NoUser = NoUser
SYMMETRY Symmetry
INVARIANTS
  ItemAccounting
PROPERTIES
  LostOnlyToSecondLogon
  BettorKeepsSeat
  EvictedIsShutDownButZero
