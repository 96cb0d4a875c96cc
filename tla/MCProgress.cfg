SPECIFICATION OrderedFairSpec
CONSTANTS
  Message = {1, 2, 3}
  MaxSlots = 3
  Window = 2
  QueueLimit = 1
  MaxBoots = 2
  Misses = FALSE
  NoEntry = NoEntry
  NoCheckpoint = NoCheckpoint
  Damaged = Damaged
PROPERTIES
  SentConfirms
  QueuedPublishes
  ShutdownEnds
CHECK_DEADLOCK FALSE
