SPECIFICATION FairSpec
CONSTANTS
  j1 = j1
  j2 = j2
  j3 = j3
  j4 = j4
  j5 = j5
  Workers = {w1, w2}
  Jobs = {j1, j2, j3, j4}
  NoJob = NoJob
  Child <- OneRefetch
  EarlyStop = FALSE
  CallStop = TRUE
INVARIANTS NeverBlocked 
PROPERTIES  StopTerminates AcceptedJobRuns
CHECK_DEADLOCK FALSE
