SPECIFICATION Spec
CONSTANTS
  r1 = r1
  r2 = r2
  b1 = b1
  b2 = b2
  p1 = p1
  p2 = p2
  p3 = p3
  v1 = v1
  v2 = v2
  Unset = Unset
  Requests = {r1, r2}
  Buyers = {b1, b2}
  Properties = {p1, p2, p3}
  Visits = {v1, v2}
  VisitOf <- MCVisitOf
  Limits = {Unset, 3}
  DefaultLimit = 1
  AdminLimit = 2
  MaxLimit = 2
  Prices = {1, 2}
  MaxChanges = 3
  Mixes <- MCMixes
INVARIANTS
  TypeOK
  NothingSkipped
  ReviewedIsVisited
SYMMETRY MCSymmetry
CHECK_DEADLOCK FALSE
