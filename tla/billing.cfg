SPECIFICATION Spec
CONSTANTS
  r1 = r1
  r2 = r2
  r3 = r3
  r4 = r4
  c1 = c1
  c2 = c2
  Unset = Unset
  Requests = {r1, r2, r3, r4}
  Cards = {c1, c2}
  MayAsk <- MCMayAsk
  MaxEvents = 2
  MaxFaults = 1
INVARIANTS
  TypeOK
  LiveIsOurs
  EntitledIsLive
  PaidIsEntitled
  RowFollowsStripe
PROPERTIES
  DefaultKept
SYMMETRY MCSymmetry
CHECK_DEADLOCK FALSE
