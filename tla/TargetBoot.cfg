SPECIFICATION Spec
CONSTANTS
  Kind <- OneUboot
  Program <- MCProgram
  PowerOff <- MCPowerOff
  Fresh <- MCFresh
  Refused <- MCRefused
  MaxCommands = 4
  MaxFaults = 0
INVARIANTS
  BootsTheTestImage
CHECK_DEADLOCK FALSE
