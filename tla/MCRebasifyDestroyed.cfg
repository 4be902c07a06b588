SPECIFICATION Spec
CONSTANTS
  Programs <- MCOverwriting
  Data <- MCData
INVARIANT DestroyedIsForgotten
CHECK_DEADLOCK FALSE
