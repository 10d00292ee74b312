SPECIFICATION Spec
CONSTANTS
  r1 = r1
  r2 = r2
  r3 = r3
  None = None
  Request <- MCRequest
  MaxPieces = 2
  MaxFds = 20
PROPERTY OneBlockIsEof
CHECK_DEADLOCK FALSE
