SPECIFICATION FairSpec
CONSTANTS
  b1 = b1
  b2 = b2
  Browser <- MCBrowser
  Parent = Parent
  MaxProcs = 2
  MaxParts = 2
INVARIANTS
  TypeOK
  OwnOnly
  WholeAnswer
  SilentClose
PROPERTIES
  QueueMoves
  NotHeldUp
  Implements
CHECK_DEADLOCK FALSE
