SPECIFICATION Spec
CONSTANTS
  r1 = r1
  r2 = r2
  r3 = r3
  r4 = r4
  f1 = f1
  f2 = f2
  f3 = f3
  Requests = {r1, r2, r3, r4}
  Files = {f1, f2, f3}
  Targets = {"ACTIVE"}
  PageLimit = 2
  MaxFaults = 1
  MayAsk <- MCMayAsk
INVARIANTS
  OnePrimary
  PrimaryChosen
  RowHasFile
SYMMETRY MCSymmetry
CHECK_DEADLOCK FALSE
