SPECIFICATION Spec
CONSTANTS
  Dispatcher = {d1, d2}
  u1 = u1
  u2 = u2
  k1 = k1
  k2 = k2
  Url = {u1, u2}
  Key = {k1, k2}
  KeyOf <- MCKeyOf
  Deploys = 2
  MaxRuns = 1
  NoFile = NoFile
  Torn = Torn
  NoOne = NoOne
INVARIANT RightImage
CHECK_DEADLOCK FALSE
