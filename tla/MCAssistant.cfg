SPECIFICATION Spec
CONSTANTS
  Items = {i1}
  Quantities <- MCQuantities
  MaxCalls = 2
  NoRow = NoRow
  Queries = {q1, q2}
  MaxPosts = 1
  i1 = i1
  q1 = q1
  q2 = q2
SYMMETRY Same
INVARIANTS
  IInv
  CartHoldsWhatWasAdded
  RefusedIsForgotten
CHECK_DEADLOCK FALSE
