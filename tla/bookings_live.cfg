SPECIFICATION FairSpec
CONSTANTS
  Requests = {r1, r2}
  Agents = {a1}
  a1 = a1
  a2 = a2
  p1 = p1
  p2 = p2
  Buyers = {u1}
  Properties = {p1}
  AgentOf <- MCAgentOf1
  LockKeys = {1, 2}
  LockKey <- MCLockKey1
  Unset = Unset
  PropertyMinutes <- MCNoMinutes1
  AgentMinutes <- MCNoAgentMinutes1
  DefaultMinutes = 2
  Starts = {0, 1}
  CancelDelay = 1
  ReminderDelay = 1
  Horizon = 1
  MaxAttempts = 2
  MaxFaults = 1
  ListingStatuses = {"ACTIVE"}
PROPERTIES
  EveryRequestEnds
  PendingIsDecided
CHECK_DEADLOCK FALSE
