SPECIFICATION NodeFairSpec
CONSTANTS
  self = self
  n1 = n1
  n2 = n2
  n3 = n3
  Ids = {self, n1, n2, n3}
  Self = self
  LogDist <- MCLogDist
  ADDRBITS = 4
  NUMBUCKETS = 2
  BUCKETSIZE = 2
  REPSIZE = 1
  Workers = {w1}
  Bootnodes = {n1, n2, n3}
  Alpha = 0
  MaxSeen = 0
  Drops = FALSE
PROPERTIES RepliesHandled
CHECK_DEADLOCK FALSE
