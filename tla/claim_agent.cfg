SPECIFICATION Spec
CONSTANTS
  Requests = {r1, r2, r3, r4}
  Agents = {a1}
  a1 = a1
  a2 = a2
  p1 = p1
  p2 = p2
  Buyers = {u1}
  Properties = {p1}
  AgentOf <- MCAgentOf1
  LockKeys = {1, 2}
  LockKey <- MCLockKey1
  Unset = Unset
  PropertyMinutes <- MCNoMinutes1
  AgentMinutes <- MCNoAgentMinutes1
  DefaultMinutes = 2
  Starts = {0, 2}
  CancelDelay = 2
  ReminderDelay = 1
  Horizon = 2
  MaxAttempts = 5
  MaxFaults = 0
  ListingStatuses = {"ACTIVE"}
INVARIANT NoDoubleBooking
SYMMETRY MCSymmetry
CHECK_DEADLOCK FALSE
