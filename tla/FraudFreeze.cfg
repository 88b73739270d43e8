SPECIFICATION Spec
CONSTANTS
  Accounts = {a1, a2}
  Amounts <- AmountsMC
  FeePercent = 5
  MlScores <- MlScoresMC
  NoScore = NoScore
  MaxVersion = 6
  a1 = a1
  a2 = a2
INVARIANT
  FlaggedReleaseFreezes
CHECK_DEADLOCK FALSE
