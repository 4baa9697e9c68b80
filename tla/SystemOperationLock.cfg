SPECIFICATION FairSpec
CONSTANTS
  o1 = o1
  o2 = o2
  o3 = o3
  a = a
  b = b
  Callers = {o1, o2, o3}
  Payloads = {a, b}
  OperationID <- MCOperationID
  TTL = 4
  Lease = 3
  Slack = 1
  RenewWithin = 1
  MaxFaults = 1
CHECK_DEADLOCK FALSE
INVARIANTS
  OneOperationAtATime
PROPERTIES
  CreatorKeepsLock
  LockOpens
