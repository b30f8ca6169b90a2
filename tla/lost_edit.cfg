SPECIFICATION Spec
CONSTANTS
  k1 = k1
  k2 = k2
  i1 = i1
  i2 = i2
  Pids = {p1, p2}
  Keys <- MCKeys
  NoKey = NoKey
  Ids <- MCIds
  User = User
  Originals <- MCOriginals
  Parents <- MCParents
  Overlap = TRUE
  IoErrors = FALSE
  PowerFails = FALSE
  MaxRuns = 2
CHECK_DEADLOCK FALSE
INVARIANT
  EnrollmentIsTerminal
