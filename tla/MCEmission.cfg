SPECIFICATION ESpec
CONSTANTS
  PageSize = 8
  PtrSize = 4
  VMStart = 16
  HeaderSize = 3
  SegCmdSize = 2
  SectCmdSize = 1
  RelocSize = 1
  MaxSect = 3
  Aligns = {1, 2, 4, 8}
  LebBase = 4
  LebMax = 3
  Archives <- MCArchives
INVARIANTS
  TypeOK
  InStep
  PageAligned
  SegmentsHold
  NumbersAreRanks
  LoadedWhereAddressed
  OpcodesWhereCounted
  NothingLost
  WrittenIsMapped
PROPERTY
  EventuallyEmitted
CHECK_DEADLOCK FALSE
