SPECIFICATION FairSpec
CONSTANTS
  r1 = r1
  r2 = r2
  r3 = r3
  i1 = i1
  i2 = i2
  u = u
  a = a
  Instances = {i1, i2}
  Requests = {r1, r3}
  Pools = {u}
  UserPools = {u}
  Home <- HomeTwo
  Pool <- PoolOne
  Limits = {1}
  SlotTTL = 3
  OpTimeout = 1
  RefreshWithin = 1
  OwnerCapacity = 1
  RecoveryBatch = 1
  MaxFaults = 2
CHECK_DEADLOCK FALSE
INVARIANTS
  ExecutionsWithinLimit
PROPERTIES
  NoResurrection
  EndedSlotsVanish
  RecordsDrain
