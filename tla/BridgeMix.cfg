SPECIFICATION Spec
CONSTANTS
  b1 = b1
  b2 = b2
  None = None
  Browser <- MCBrowser
  Faults = {}
  MaxFiles = 2
INVARIANT ForwardsOwn
CHECK_DEADLOCK FALSE
