SPECIFICATION Spec
CONSTANTS
  Products = {p1}
  Requests = {r1, r2}
  Worker = w
  MaxRetries = 1
  NoRow = NoRow
  NoRequest = NoRequest
  p1 = p1
  r1 = r1
  r2 = r2
  w = w
SYMMETRY Same
INVARIANTS
  IInv
  OfferedWasReviewed
  CompletedHasContent
PROPERTIES
  SalesFollowReview
CHECK_DEADLOCK FALSE
