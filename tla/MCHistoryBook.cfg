SPECIFICATION FairSpec
CONSTANTS
  MaxRows = 4
  MaxMessages = 2
  MaxBoots = 2
INVARIANTS
  RowsKept
  CheckpointCompletes
  LinksLeadBack
PROPERTY
  SavedInTheEnd
CHECK_DEADLOCK FALSE
