SPECIFICATION FairSpec
CONSTANTS
  r1 = r1
  r2 = r2
  r3 = r3
  a = a
  b = b
  Callers = {r1, r2, r3}
  Payloads = {a, b}
  Assignments <- MCAssignments
  Detached = {r1}
  TTL = 3
  Lease = 2
  Slack = 1
  Backoff = 1
  RenewWithin = 1
  MaxFaults = 1
CHECK_DEADLOCK FALSE
INVARIANTS
  OneExecution
  ReplayIsGenuine
PROPERTIES
  DetachedKeepsRow
  SuccessIsFinal
  KeyIsFreed
