SPECIFICATION FairSpec
CONSTANTS
  Vm = {v1, v2}
  Host = host
  MaxCommands = 3
  Retries = 2
INVARIANT NoResetUnderVms
PROPERTY GroupEnds
CHECK_DEADLOCK FALSE
