SPECIFICATION Spec
CONSTANTS
  Byte <- MCByte
  Heads <- MCHeads
  Tails <- MCTails
  Rabin <- MCRabin
  MaxLength = 6
  MaxBytes = 4
  max_bytes = 4
  UIntRange = 16
  UIntMod = 65536
  max_size = 10007
INVARIANT Resynced
CHECK_DEADLOCK FALSE
