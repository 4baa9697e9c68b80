SPECIFICATION PayFairSpec
CONSTANTS
  Handlers = {h1, h2}
  h1 = h1
  h2 = h2
  MaxFaults = 2
INVARIANT AckedIsSettled
PROPERTY ImplementsContract
PROPERTY PaidIsCredited
CHECK_DEADLOCK FALSE
