SPECIFICATION Spec
CONSTANTS
  MaxJobs = 2
  Action <- KvmAction
  Pipe <- KvmPipe
  Outer = "job"
  Actions <- KvmActions
  Inner <- KvmInner
  Conn = {"shell"}
  NoConn = "None"
INVARIANTS
  TypeOK
  InterruptEndsJob
  BootedIsOverlaid
  NoSilentWrongTests
  ShellEnds
CHECK_DEADLOCK FALSE
