SPECIFICATION Spec
CONSTANTS
  Orders = {o1}
  Amounts = {4, 10}
  FeePercent = 5
  MlScores <- NoScores
  NoScore = NoScore
  MaxVersion = 8
  Total = 10
  DisputeRows = {d1, d2}
  Requests = {p1, p2}
  NoRequest = NoRequest
  o1 = o1
  d1 = d1
  d2 = d2
  p1 = p1
  p2 = p2
INVARIANTS
  NoFulfilmentUnpaid
  ClosedOrderMovedMoney
  DisputeOutcomeMatchesMoney
  DisputeStopsAutoConfirm
PROPERTIES
  SaleSpec
CHECK_DEADLOCK FALSE
