CONSTANTS
  Null = Null
  Binaries <- MCBinaries
SPECIFICATION Spec
INVARIANTS Placed BoundToStart RebasedPoints
PROPERTY Ends
CHECK_DEADLOCK FALSE
