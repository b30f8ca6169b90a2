SPECIFICATION Spec
CONSTANTS
  Binds <- MCBinds
  MaxListed = 3
  Standard = 2
  MaxAddrs = 2
  MaxName = 3
  MaxText = 4
CHECK_DEADLOCK FALSE
INVARIANTS
  RoundTrip
  CutIsRefused
  BestAddressesArrive
  PinsAgree
  PayloadIsShown
