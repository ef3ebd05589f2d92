SPECIFICATION FairSpec
CONSTANTS
  Last = 2
  MaxHeaders = 1
  Signals = 1
  BWorkers = 2
  BQueue = 1
  Tries = 2
INVARIANTS
  NoLostSignal
  NoSendAfterClose
  
  
  NeverStuck
  StoppedIsIdle
PROPERTIES
  OneSync
  SyncEnds
  CallsReturn
CHECK_DEADLOCK FALSE
