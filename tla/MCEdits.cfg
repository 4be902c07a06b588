SPECIFICATION Spec
CONSTANTS
  Files <- MCFiles
  Header <- MCHeader
  Dylibs = {"libabiconv", "program"}
  Suffix = "$UNIX2003"
  Rebinds <- MCRebinds
  Droppable <- MCDroppable
  Removable = {"PAGEZERO"}
  MaxCommands = 12
  MaxRuns = 2
  MaxEdits = 3
INVARIANTS
  TypeOK
  Partition
  IndirectFollows
PROPERTY
  Implements
CHECK_DEADLOCK FALSE
