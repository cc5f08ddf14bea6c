SPECIFICATION JobSpec
CONSTANTS
  Node = {n1}
  Programs <- MCPrograms
  Faults = {"ADBConnect", "Timeout", "Critical", "General", "Interrupt", "Other"}
  MaxTerms <- MCMaxTerms
INVARIANTS
  JobTypeOK
  ResultPerAction
  CompleteMeansAllRan
  DeviceOffAtEnd
PROPERTY TermStopsTheLoop
CHECK_DEADLOCK FALSE
