SPECIFICATION Spec
CONSTANTS
  Requests = {r1, r2, r3, r4}
  r1 = r1
  r2 = r2
  r3 = r3
  r4 = r4
  Emails = {e1}
  Passwords = {w1, w2}
  Unset = Unset
  MayAsk <- MCMayAsk
INVARIANTS
  LoggedOutLoginIsOver
  ResetEndsSessions
PROPERTY
  ImplementsLogins
SYMMETRY MCSymmetry
CHECK_DEADLOCK FALSE
