SPECIFICATION NodeSpec
CONSTANTS
  self = self
  n1 = n1
  n2 = n2
  n3 = n3
  Ids = {self, n1, n2}
  Self = self
  LogDist <- MCLogDist
  ADDRBITS = 4
  NUMBUCKETS = 2
  BUCKETSIZE = 1
  REPSIZE = 1
  Workers = {w1}
  Bootnodes = {n1, n2}
  Alpha = 1
  MaxSeen = 1
  Drops = TRUE
SYMMETRY Symmetry
INVARIANTS SignalsNeverBlock NoLostWakeup AskingHasJob 
PROPERTIES TableSpec
CHECK_DEADLOCK FALSE
