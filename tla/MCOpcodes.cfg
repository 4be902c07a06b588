SPECIFICATION DyldInfoSpec
CONSTANTS
  ImmLimit = 4
  LebBase = 8
  LebBytes = 3
  Word = 128
  PtrSize = 4
  Align = 4
  Extent = 16
  Places <- MCPlaces
  Tables <- MCTables
INVARIANTS
  TypeOK
  EndIsMet
  ReadAsLinked
  ReadsBack
  ExportsKept
  ExportsFit
CHECK_DEADLOCK FALSE
