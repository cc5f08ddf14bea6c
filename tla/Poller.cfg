SPECIFICATION ReachableSpec
CONSTANTS
  Timeout = 15
  PollDelay = 2
INVARIANTS
  TypeOK
  NackHidesNoAnswer
PROPERTIES
  IsBlockingCall
  ReturnsIfReachable
CHECK_DEADLOCK FALSE
