SPECIFICATION Spec
CONSTANTS
  MaxRows = 4
  MaxMessages = 2
  MaxBoots = 2
INVARIANT
  NeverBlocked
CHECK_DEADLOCK FALSE
