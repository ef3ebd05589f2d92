SPECIFICATION Spec
CONSTANTS
  Ids = {i1,i2}
  Objs = {o1,o2}
  Handlers = {h1, h2}
  None = None
  MaxIns = 1
  MaxOuts = 1
INVARIANTS RegisteredHasLoop
CHECK_DEADLOCK FALSE
