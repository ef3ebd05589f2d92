SPECIFICATION TableSpec
CONSTANTS
  self = self
  a = a
  b = b
  c = c
  d = d
  e = e
  f = f
  Ids <- MCIds
  Self = self
  LogDist <- MCLogDist
  ADDRBITS = 4
  NUMBUCKETS = 2
  BUCKETSIZE = 3
  REPSIZE = 2
INVARIANTS TableTypeOK ReplacementsOnlyWhenFull NoDuplicates
PROPERTIES AgeOrder Eviction
