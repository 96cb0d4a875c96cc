SPECIFICATION Spec
CONSTANTS
  Chat = chat
  Other = {other, listed}
  Listed = {listed}
  MaxActive = 1
  IdleEvict = 1
  Publisher = {p1, p2}
  None = None
  MaxMessages = 2
  MaxEvictions = 1
  MaxCrashes = 1
  MaxBoots = 2
INVARIANTS
  ContinuesWhereItStood
  AccountedFor
  LockCoversRecords
  WholeUnlessOverlapped
CHECK_DEADLOCK FALSE
