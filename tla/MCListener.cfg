SPECIFICATION FairSpec
CONSTANTS
  Subscription = {s1, s2, s3, s4}
  None = None
  Idle = 4
  GraceCap = 1
  Connect = 2
  NonceLimit = 1
  MaxFaults = 3
  MaxHeartbeats = 2
INVARIANTS
  NoneLeaks
  ReconnectsWhenClosed
  HeartbeatsAreToldApart
PROPERTIES
  NeverDeafByItself
  HearsAgain
