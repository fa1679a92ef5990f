SPECIFICATION FairSpec
CONSTANTS
  r1 = r1
  r2 = r2
  r3 = r3
  Request = {r1, r2, r3}
  Kinds <- MCKinds
  Keyed = {key}
  Anonymous = {ip}
  Limit <- MCLimit
  Minute = 2
  LastTick = 3
  PoolSize = 1
INVARIANTS
  QuotaHolds
  NobodyRefusedEarly
  RetryLandsLater
PROPERTIES
  ReadsEnd
CHECK_DEADLOCK FALSE
