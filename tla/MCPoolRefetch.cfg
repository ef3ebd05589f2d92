SPECIFICATION FairSpec
CONSTANTS
  j1 = j1
  j2 = j2
  j3 = j3
  j4 = j4
  j5 = j5
  Workers = {w1, w2}
  Jobs = {j1, j2, j3, j4, j5}
  NoJob = NoJob
  Child <- Refetching
  EarlyStop = FALSE
  CallStop = FALSE
PROPERTIES ExecutionEnds
CHECK_DEADLOCK FALSE
