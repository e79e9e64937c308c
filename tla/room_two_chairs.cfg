SPECIFICATION Spec
CONSTANTS
  Users = {u1, u2}
  Items = {i1, i2, i3}
  LinkCount = 2
  MaxPlayer = 2
  ChairCount = 2
  Areas = {0}
  OffLineTrustee = TRUE
  EnterLimit = FALSE
  ChipsSet = FALSE
  Relogon = FALSE
  NoItem = NoItem
  NoUser = NoUser
SYMMETRY Symmetry
INVARIANTS
  OneSeatPerUser
