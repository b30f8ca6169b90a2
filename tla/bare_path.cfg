SPECIFICATION Spec
CONSTANTS
  k1 = k1
  k2 = k2
  i1 = i1
  i2 = i2
  Pids = {p1, p2}
  Keys <- MCKeys
  NoKey = NoKey
  Ids <- MCIds
  User = User
  Originals <- MCOriginals
  Parents <- MCBare
  Overlap = FALSE
  IoErrors = FALSE
  PowerFails = FALSE
  MaxRuns = 1
CHECK_DEADLOCK FALSE
INVARIANT
  EditsSucceed
