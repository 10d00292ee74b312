SPECIFICATION FileSpec
CONSTANTS
  d1 = d1
  d2 = d2
  d3 = d3
  EOF = EOF
  Absent = Absent
  Junk = Junk
  Data <- MCData
  Number <- MCNumber
  Length <- MCLength
  Hash <- MCHash
  Size <- MCSize
  HdrSize = 2
  Files <- MCFiles
  MaxFiles = 3
  SlowNetwork = FALSE
  MaxConns = 2
INVARIANTS
  IInv
  CachesConverge
  StaysOnCourse
  Reassembly
  FilesWhole
PROPERTIES Implements FilesCross
CHECK_DEADLOCK FALSE
