SPECIFICATION FairSpec
CONSTANTS
  k1 = k1
  rsa = rsa
  Keys <- MCKeys
  Ed25519Keys <- MCEd25519Keys
  Unparseable = Unparseable
  NoKey = NoKey
  MaxPinAttempts = 3
  PreauthTimeout = 2
  PostauthTimeout = 3
  Deadline = 5
  MaxTime = 6
INVARIANTS
  TypeOK
  RetiredPinNeverProves
  NoticesCountDown
  EnrolledOnlyWithConsent
  OutcomeTellsTruth
  ReceiptTellsTruth
  PreauthWindow
  SessionInv
PROPERTIES
  StrangersEndNothing
  ImplementsOffer
  SessionEnds
