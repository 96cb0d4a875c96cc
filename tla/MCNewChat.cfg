SPECIFICATION Spec
CONSTANTS
  MaxSlots = 4
  MaxLies = 5
INVARIANTS
  NewTakesFourLies
  WalkReachesTheEnd
CHECK_DEADLOCK FALSE
