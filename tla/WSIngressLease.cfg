SPECIFICATION FairSpec
CONSTANTS
  Sessions = {s1, s2}
  MaxConnections = 1
  LeaseTTL = 6
  Interval = 2
  OpTimeout = 1
INVARIANTS
  ConfirmedWithinCap
PROPERTIES
  NoResurrection
  LostSessionsClose
  LeakedLeasesVanish
