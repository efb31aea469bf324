SPECIFICATION FairSpec
CONSTANTS
  Requests = {r1, r2, r3}
  r1 = r1
  r2 = r2
  r3 = r3
  Detail = detail
  Lists = {list}
  MayAsk <- MCMayAsk
INVARIANTS
  OneReaderFills
  StaleOnlyAfterRace
PROPERTIES
  EveryReaderReturns
  CacheConverges
CHECK_DEADLOCK FALSE
