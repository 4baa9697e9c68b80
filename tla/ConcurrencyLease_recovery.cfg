SPECIFICATION Spec
CONSTANTS
  r1 = r1
  r2 = r2
  r3 = r3
  i1 = i1
  i2 = i2
  u = u
  a = a
  Instances = {i1}
  Requests = {r1, r2, r3}
  Pools = {u, a}
  UserPools = {u}
  Home <- HomeOne
  Pool <- PoolTwo
  Limits = {0, 1}
  SlotTTL = 3
  OpTimeout = 1
  RefreshWithin = 1
  OwnerCapacity = 2
  RecoveryBatch = 1
  MaxFaults = 2
CHECK_DEADLOCK FALSE
SYMMETRY PairSymmetry
INVARIANTS
  ExecutionHoldsSlot
  SlotsAreRecorded
  RecordOutlivesSlot
  BusyHasOneWorker
  OwnersWithinCapacity
PROPERTIES
  LoweredLimitSeesEarlierWork
