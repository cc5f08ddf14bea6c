SPECIFICATION Spec
CONSTANTS
  Kind <- MCKind
  Program <- MCProgram
  PowerOff <- MCPowerOff
  Fresh <- MCFresh
  Literals <- MCLiterals
  Sure <- MCSure
  Refused <- MCRefused
  View <- MCView
  Outline <- MCOutline
  MaxCommands = 4
  MaxFaults = 1
INVARIANTS
  TypeOK
  DeployedIsWritten
  TestsWhatWasDeployed
  RunsWhatWasCopied
  ChangesApplied
  HostClean
  BoardClean
  CardIsHosts
  MasterOnGoodFirmware
  CancelEnds
  Unprovoked
CHECK_DEADLOCK FALSE
