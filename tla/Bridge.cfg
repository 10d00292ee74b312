SPECIFICATION Spec
CONSTANTS
  b1 = b1
  b2 = b2
  None = None
  Browser <- MCBrowser
  Faults = {"accept", "die", "more"}
  MaxFiles = 2
SYMMETRY MCSymmetry
INVARIANTS
  TypeOK
  PassesOn
  AloneWhole
PROPERTY KeepsPromise
CHECK_DEADLOCK FALSE
