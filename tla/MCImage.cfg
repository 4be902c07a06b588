CONSTANTS
  PageSize = 4
  Lengths <- MCLengths
  Offsets <- MCOffsets
  Sizes <- MCSizes
  Byte = {a, b}
  None = None
SPECIFICATION Spec
INVARIANTS TypeOK NoFault
PROPERTY Implements
CHECK_DEADLOCK FALSE
