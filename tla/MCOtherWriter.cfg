SPECIFICATION OtherSpec
CONSTANTS
  Message = {m1, m2}
  MaxSlots = 3
  Window = 2
  QueueLimit = 2
  MaxBoots = 2
  Misses = FALSE
  AtRestOnly = TRUE
  NoEntry = NoEntry
  NoCheckpoint = NoCheckpoint
  Damaged = Damaged
SYMMETRY Symmetry
PROPERTIES
  NeverSendsOver
  DamagedStaysSilent
CHECK_DEADLOCK FALSE
