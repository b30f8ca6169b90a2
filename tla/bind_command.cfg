SPECIFICATION FairSpec
CONSTANTS
  k1 = k1
  k2 = k2
  Keys <- MCKeys
  Tries = 2
  NoKey = NoKey
CHECK_DEADLOCK FALSE
INVARIANTS
  TypeOK
  ExitTellsTruth
  NoSilentKey
  GoodbyeSaid
  OfflineKeyAccounted
PROPERTIES
  BindEnds
