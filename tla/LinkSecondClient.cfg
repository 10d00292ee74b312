SPECIFICATION Spec
CONSTANTS
  d1 = d1
  d2 = d2
  d3 = d3
  EOF = EOF
  Absent = Absent
  Junk = Junk
  Data <- MCData
  Number <- MCNumber
  Length <- MCLength
  Hash <- MCHash
  Size <- MCSize
  HdrSize = 2
  Files <- MCFiles
  MaxFiles = 2
  SlowNetwork = FALSE
  MaxConns = 2
INVARIANT OldIsCached
CHECK_DEADLOCK FALSE
