SPECIFICATION FairSpec
CONSTANTS
  Node = {n1, n2}
  Programs <- MCAndroid
  Faults = {"ADBConnect", "Critical"}
  MaxTerms <- MCMaxTerms
INVARIANTS
  GroupListAfterAllCalls
  OnlyCollectedBundles
PROPERTIES
  IsBarrier
  EveryNodeEnds
CHECK_DEADLOCK FALSE
