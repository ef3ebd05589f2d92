SPECIFICATION Spec
CONSTANTS
  Height = 3
  Announced = {3}
  Pushed = {1}
  Works = {1, 2}
  MAX_QUEUE_DIST = 2
  SigCap = 1
INVARIANTS PartsMeet Awake ListedIsAlive NoDoubleFetch
CHECK_DEADLOCK FALSE
