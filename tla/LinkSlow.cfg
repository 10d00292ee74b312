SPECIFICATION Spec
CONSTANTS
  d1 = d1
  d2 = d2
  d3 = d3
  EOF = EOF
  Absent = Absent
  Junk = Junk
  Data <- MCData
  Number <- MCNumber
  Length <- MCLength
  Hash <- MCHash
  Size <- MCSize
  HdrSize = 2
  Files <- MCShortFiles
  MaxFiles = 2
  SlowNetwork = TRUE
  MaxConns = 2
INVARIANTS
  TypeOK
  NeverMisses
  CachesConverge
  SentOnce
  IInv
PROPERTY ImplementsOnCourse
CHECK_DEADLOCK FALSE
