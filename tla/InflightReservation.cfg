SPECIFICATION Spec
CONSTANTS
  Requests = {q1, q2}
  Amounts = {1, 2}
  StartBalance = 2
  TTL = 2
  RenewWithin = 1
  MaxFaults = 1
CHECK_DEADLOCK FALSE
SYMMETRY RequestSymmetry
INVARIANTS
  TypeOK
  HeldWithinBalance
  HeldUntilSettled
  NoLapseWhileServed
PROPERTIES
  HoldOnlyGrowsOrEnds
