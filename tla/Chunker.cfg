SPECIFICATION Spec
CONSTANTS
  Byte <- MCByte
  Inputs <- MCInputs
  Rabin <- MCRabin
  MaxLength = 8
  MaxBytes = 4
  max_bytes = 4
  UIntRange = 16
  UIntMod = 65536
  max_size = 10007
INVARIANTS
  TypeOK
  Tiled
  Bounded
  ContentCut
CHECK_DEADLOCK FALSE
