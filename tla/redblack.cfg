SPECIFICATION Spec
CONSTANTS
  Users = {u1, u2}
  NoUser = NoUser
  ChairCount = 2
  Scores = {1000, 2000}
  Bets = {1000}
  Deals <- DealsOfNote
  lUserLimitScore = 2000
  lAreaLimitScore = 2000
  wRevenueRatio = 500
  OffLineTrustee = TRUE
  ChipsSet = FALSE
  Deck <- SmallDeck
  MaxRounds = 2
INVARIANTS
  TypeOK
  BetsAddUp
  LimitsHold
  OneTimerPending
  ComparisonFollowsTheRules
PROPERTIES
  BettorIsPaid
  StrongerHandPays
SYMMETRY UserSymmetry
