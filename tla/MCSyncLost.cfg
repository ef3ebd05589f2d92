SPECIFICATION FairSpec
CONSTANTS
  Last = 1
  MaxHeaders = 1
  Signals = 1
  BWorkers = 1
  BQueue = 1
  Tries = 1
PROPERTIES
  HeadersExit
CHECK_DEADLOCK FALSE
