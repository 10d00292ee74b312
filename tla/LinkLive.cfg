SPECIFICATION FairSpec
CONSTANTS
  d1 = d1
  d2 = d2
  d3 = d3
  EOF = EOF
  Absent = Absent
  Junk = Junk
  Data <- MCData
  Number <- MCNumber
  Length <- MCLength
  Hash <- MCHash
  Size <- MCSize
  HdrSize = 2
  Files <- MCLongFiles
  MaxFiles = 2
  SlowNetwork = FALSE
  MaxConns = 1
PROPERTIES
  ReceiveReturns
  Delivered
CHECK_DEADLOCK FALSE
