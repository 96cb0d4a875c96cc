SPECIFICATION Spec
CONSTANTS
  Sender = {alice, bob}
  Id = {a, b}
  TheChat = chat
  PerSender = 1
  PerChat = 2
  Window = 2
  QueueLimit = 2
  InFlight = 2
  RecentLimit = 2
  FileLimit = 2
  MaxTaken = 4
  MaxSlots = 4
  MaxTime = 2
  MaxOpenings = 2
SYMMETRY Symmetry
INVARIANTS
  RatesAreExact
  DuplicatesWereTaken
  TakenOnce
CHECK_DEADLOCK FALSE
