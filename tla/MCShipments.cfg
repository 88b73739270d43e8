SPECIFICATION ShipmentSpec
CONSTANTS
  Orders = {o1}
  Requests = {r1, r2}
  NoRequest = NoRequest
  o1 = o1
  r1 = r1
  r2 = r2
SYMMETRY Slots
INVARIANTS
  IInv
  LogHasNoGap
  DeliveryIsOnLog
CHECK_DEADLOCK FALSE
