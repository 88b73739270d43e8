SPECIFICATION Spec
CONSTANTS
  Accounts = {a1}
  Amounts = {10}
  FeePercent = 5
  MlScores <- NoScores
  NoScore = NoScore
  MaxVersion = 6
  Workers = {w1, w2}
  Free = Free
  Nothing = Nothing
  MaxFailures = 2
  a1 = a1
  w1 = w1
  w2 = w2
INVARIANTS
  LockIsExclusive
PROPERTIES
  OnlyUntouchedIsConfirmed
  LockIsReleased
CHECK_DEADLOCK FALSE
