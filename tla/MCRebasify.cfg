SPECIFICATION Spec
CONSTANTS
  Programs <- MCPrograms
  Data <- MCData
INVARIANTS
  TypeOK
  NothingSkipped
  SameOperands
PROPERTY Terminates
CHECK_DEADLOCK FALSE
