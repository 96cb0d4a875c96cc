SPECIFICATION Spec
CONSTANTS
  Message = {m1, m2, m3}
  MaxSlots = 3
  Window = 2
  QueueLimit = 2
  MaxBoots = 2
  Misses = TRUE
  NoEntry = NoEntry
  NoCheckpoint = NoCheckpoint
  Damaged = Damaged
SYMMETRY Symmetry
INVARIANTS
  TypeOK
  OneEntryPerSlot
  WriteAhead
  ConfirmedHolds
  CheckpointResumable
  NeverBlocksAlone
  DrainedIsEmpty
  NoLostWakeUp
PROPERTIES
  ImplementsLog
  CheckpointMovesForward
  SilentOnceStopped
CHECK_DEADLOCK FALSE
