SPECIFICATION Spec
CONSTANTS
  k1 = k1
  k2 = k2
  Keys <- MCKeys
  Tries = 2
  NoKey = NoKey
CHECK_DEADLOCK FALSE
INVARIANTS
  SignalUnwinds
