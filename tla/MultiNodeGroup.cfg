SPECIFICATION Spec
CONSTANTS
  Node = {n1, n2}
  Programs <- MCPrograms
  Faults = {"Critical"}
  MaxTerms <- MCNoTerms
INVARIANT GroupListHoldsEveryBundle
CHECK_DEADLOCK FALSE
