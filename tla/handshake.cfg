SPECIFICATION Spec
CONSTANTS
  a1 = a1
  a2 = a2
  k1 = k1
  Epubs <- MCEpubs
  Bodies <- MCBodies
  Nobody = Nobody
  Keys <- MCKeys
  Ed25519Keys <- MCEd25519Keys
  Unparseable = Unparseable
  NoKey = NoKey
  MaxPinAttempts = 1
  PreauthTimeout = 1
  PostauthTimeout = 1
  Deadline = 1
  MaxTime = 1
CONSTRAINTS OneRepeated SignalAlone KeyIsNew
SYMMETRY MCSymmetry
INVARIANTS
  TypeOK
  ChannelInv
  NonceOnce
  HoldersOnly
  ToldTheTruth
PROPERTY
  ImplementsStreams
