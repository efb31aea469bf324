SPECIFICATION Spec
CONSTANTS
  Deliveries = {d1, d2}
  Events = {paid1, paid2, unpaid, updated, cancelled, cancelledUnpaid, notice, featured1, featured2, notFeatured, other, unmapped}
  paid1 = paid1
  paid2 = paid2
  unpaid = unpaid
  updated = updated
  cancelled = cancelled
  cancelledUnpaid = cancelledUnpaid
  notice = notice
  featured1 = featured1
  featured2 = featured2
  notFeatured = notFeatured
  other = other
  unmapped = unmapped
  s1 = s1
  s2 = s2
  c0 = c0
  c1 = c1
  c2 = c2
  Kind <- MCKind
  StripeSubs = {s1, s2}
  SubOf <- MCSubOf
  Cycles = {c0, c1}
  CycleOf <- MCCycleOf1
  TrialCycle = c0
  NewStatus <- MCNewStatus
  Properties = {p1}
  Unset = Unset
  MaxFaults = 1
INVARIANTS
  CycleHasPackage
  ProcessedIsBooked
  FeaturedOnce
  UsageIsFeatured
  AppliedAgainOnlyAfterTrouble
SYMMETRY MCSymmetry
CHECK_DEADLOCK FALSE
