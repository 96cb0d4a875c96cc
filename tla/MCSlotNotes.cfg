SPECIFICATION FairSpec
CONSTANTS
  SlotTicks = 3
  Heartbeat = 6
  Early = 1
  Late = 1
  WriteTicks = 4
  MaxConfirmed = 2
  MaxBoots = 2
INVARIANTS
  SilenceIsBounded
PROPERTIES
  OneTryPerAddress
  NewestNamed
