SPECIFICATION Spec
CONSTANTS
  o1 = o1
  o2 = o2
  o3 = o3
  a = a
  b = b
  Callers = {o1, o2, o3}
  Payloads = {a, b}
  OperationID <- MCOperationID
  TTL = 4
  Lease = 3
  Slack = 0
  RenewWithin = 1
  MaxFaults = 0
CHECK_DEADLOCK FALSE
INVARIANT
  RenewedWhileHeld
