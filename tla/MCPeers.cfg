SPECIFICATION FairSpec
CONSTANTS
  Ids = {i1,i2}
  Objs = {o1,o2}
  Handlers = {h1, h2}
  None = None
  MaxIns = 1
  MaxOuts = 1
INVARIANTS Counts LoopOwnsEntry NoLockCycle
PROPERTIES CloseReturns
CHECK_DEADLOCK FALSE
