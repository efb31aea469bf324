SPECIFICATION MarketSpec
CONSTANTS
  Requests = {r1, r2}
  Agents = {a1}
  a1 = a1
  p1 = p1
  p2 = p2
  Buyers = {u1}
  Properties = {p1, p2}
  AgentOf <- MCAgentOf
  LockKeys = {1}
  LockKey <- MCLockKey
  Unset = Unset
  PropertyMinutes <- MCNoMinutes
  AgentMinutes <- MCAgentMinutes
  DefaultMinutes = 1
  Starts = {0, 1}
  CancelDelay = 1
  ReminderDelay = 2
  Horizon = 1
  MaxAttempts = 1
  MaxFaults = 0
  ListingStatuses = {}
  Closings = {x1}
  ClosingKinds = {"close", "deactivate"}
  PageLimit = 1
INVARIANTS
  ClosingTypeOK
  ClosingEndsBookings
  StrippedIsCancelled
PROPERTY MarketImplementsCalendar
SYMMETRY MCSymmetry
CHECK_DEADLOCK FALSE
