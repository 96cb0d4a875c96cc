SPECIFICATION FairSpec
CONSTANTS
  Instance = {a, b}
  Slow = {a}
  Stale = 7
  Refresh = 2
  Settle = 1
  Nobody = Nobody
INVARIANTS
  HolderKeepsIt
PROPERTIES
  TwoHoldersEnd
  AloneAcquires
