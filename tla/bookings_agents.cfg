SPECIFICATION Spec
CONSTANTS
  Requests = {r1, r2, r3}
  Agents = {a1, a2}
  a1 = a1
  a2 = a2
  p1 = p1
  p2 = p2
  Buyers = {u1}
  Properties = {p1, p2}
  AgentOf <- MCAgentOf2
  LockKeys = {1, 2}
  LockKey <- MCLockKeySame
  Unset = Unset
  PropertyMinutes <- MCNoMinutes2
  AgentMinutes <- MCNoAgentMinutes2
  DefaultMinutes = 2
  Starts = {0, 1}
  CancelDelay = 1
  ReminderDelay = 1
  Horizon = 1
  MaxAttempts = 1
  MaxFaults = 0
  ListingStatuses = {"SOLD"}
INVARIANTS
  BuyerNeverDoubleBookedBehindOneLock
  PendingHasAutoCancel
  RecordedJobIsLive
  RemindersAreOnRecord
SYMMETRY MCSymmetry
CHECK_DEADLOCK FALSE
