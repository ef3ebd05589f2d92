SPECIFICATION Spec
CONSTANTS
  a = a
  b = b
  x = x
  None = None
  Interests = {a, b}
  Names = {x}
  NameOf <- MCNameOf
  RecvCap = 1
INVARIANTS Attended PendingListed
PROPERTIES AnswerComes FaceCloses
CHECK_DEADLOCK FALSE
