SPECIFICATION FairSpec
CONSTANTS
  r1 = r1
  r2 = r2
  r3 = r3
  None = None
  Request <- MCRequest
  MaxPieces = 2
  MaxFds = 7
INVARIANTS
  TypeOK
  OwnResponse
  HeldByAbandoned
  PassedOnOnce
  Lag
  Leaks
PROPERTIES
  ComesBack
  KeepsPromise
CHECK_DEADLOCK FALSE
