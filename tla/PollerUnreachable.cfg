SPECIFICATION Spec
CONSTANTS
  Timeout = 15
  PollDelay = 2
PROPERTY TimeoutIsApplied
CHECK_DEADLOCK FALSE
