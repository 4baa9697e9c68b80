SPECIFICATION FairSpec
CONSTANTS
  Handlers = {h1}
  h1 = h1
  MaxFaults = 1
  Admins = {a1}
  a1 = a1
  Queriers = {q1, q2}
  q1 = q1
  q2 = q2
  Amount = 2
INVARIANT RefundBooksAgree
INVARIANT PendingKeepsDeduction
PROPERTY FirstPendingConverges
CHECK_DEADLOCK FALSE
