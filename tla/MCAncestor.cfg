SPECIFICATION Spec
CONSTANTS
  Heights <- HeightsUsed
INVARIANTS AncestorIsShared AncestorIsGreatest FewRounds
PROPERTIES RangeShrinks
CHECK_DEADLOCK FALSE
