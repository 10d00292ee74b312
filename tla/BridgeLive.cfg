SPECIFICATION FairSpec
CONSTANTS
  b1 = b1
  b2 = b2
  None = None
  Browser <- MCBrowser
  Faults = {"accept", "die"}
  MaxFiles = 1
PROPERTY BridgesEnd
CHECK_DEADLOCK FALSE
