SPECIFICATION FairSpec
CONSTANTS
  Handlers = {h1}
  h1 = h1
  MaxFaults = 0
  Admins = {a1}
  a1 = a1
  Queriers = {q1}
  q1 = q1
  Amount = 2
PROPERTY PendingConverges
CHECK_DEADLOCK FALSE
