SPECIFICATION Spec
CONSTANTS
  Requests = {r1, r2, r3}
  r1 = r1
  r2 = r2
  r3 = r3
  Places = {p1, p2}
  MaxCycle = 1
  MaxDay = 1
  Limit <- MCLimit
  NoLimit = NoLimit
  Unset = Unset
  MayAsk <- MCMayAsk
INVARIANTS
  UsageCounted
  LimitHoldsUnlessOvertaken
  DuplicatesOnlyOvertaken
  FeaturedOncePerDay
SYMMETRY MCSymmetry
CHECK_DEADLOCK FALSE
