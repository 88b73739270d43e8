SPECIFICATION Spec
CONSTANTS
  Users = {u1, u2}
  Nrcs = {n1, n2}
  NoNrc = NoNrc
  NoUser = NoUser
  Requests = {r1, r2}
  NoRequest = NoRequest
  u1 = u1
  u2 = u2
  n1 = n1
  n2 = n2
  r1 = r1
  r2 = r2
SYMMETRY Slots
INVARIANTS
  IInv
  VerifiedWasReviewed
  OneAccountPerCard
PROPERTIES
  OrdersFollowReview
CHECK_DEADLOCK FALSE
