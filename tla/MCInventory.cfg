SPECIFICATION Spec
CONSTANTS
  Products = {a, b}
  Orders = {o1, o2, o3}
  Submitted = {o1}
  Requests = {r1, r2}
  NoRequest = NoRequest
  Qty <- Quantities
  LineRank <- LinesAsAsked
  NameRank <- Names
  InitialStock <- TwoOfEach
  a = a
  b = b
  o1 = o1
  o2 = o2
  o3 = o3
  r1 = r1
  r2 = r2
INVARIANTS
  IInv
PROPERTIES
  OrdersMoveWhole
  RequestsEnd
CHECK_DEADLOCK FALSE
