SPECIFICATION FairSpec
CONSTANTS
  Dispatcher = {d1, d2}
  u1 = u1
  u2 = u2
  k1 = k1
  k2 = k2
  Url = {u1, u2}
  Key = {k1, k2}
  KeyOf <- MCKeyOf
  Deploys = 1
  MaxRuns = 2
  NoFile = NoFile
  Torn = Torn
  NoOne = NoOne
INVARIANTS
  CompleteIsSound
  RightImage
PROPERTIES
  BuiltOnce
  GetReturns
CHECK_DEADLOCK FALSE
