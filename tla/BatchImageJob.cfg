SPECIFICATION FairSpec
CONSTANTS
  Workers = {w1, w2}
  w1 = w1
  w2 = w2
  Balance = 2
  OtherFrozen = 2
  HoldAmount = 2
  Costs <- MCCosts
  MaxRetries = 2
  MaxCalls = 1
  MaxFaults = 1
INVARIANT SubmittedIsFunded
INVARIANT HoldEndsOnce
INVARIANT LiveBatchKeepsCapacity
INVARIANT QueueKeepsJob
PROPERTY EndIsFinal
PROPERTY QueuedJobsSettle
CHECK_DEADLOCK FALSE
