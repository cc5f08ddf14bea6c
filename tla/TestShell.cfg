SPECIFICATION FairSpec
CONSTANTS
  n1 = n1
  n2 = n2
  Node = {n1, n2}
  Meeting = "m"
  Script <- MCScript
INVARIANTS
  NeverStuck
  BackupIsTrue
  ExitMeansAll
PROPERTIES
  SyncIsBarrier
  HealthyEnds
CHECK_DEADLOCK FALSE
