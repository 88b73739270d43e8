SPECIFICATION Spec
CONSTANTS
  TheOrder = o1
  FeePercent = 5
  MlScores <- NoScores
  NoScore = NoScore
  MaxVersion = 2
  Total = 10
  MaxAttempts = 2
  ViaAirtel = {1, 2}
  Handlers = {h1}
  HoldWorkers = {w1, w2}
  Nobody = Nobody
  MaxRetries = 1
  MaxCrashes = 1
  o1 = o1
  h1 = h1
  w1 = w1
  w2 = w2
INVARIANTS
  SuccessWasPaid
CHECK_DEADLOCK FALSE
