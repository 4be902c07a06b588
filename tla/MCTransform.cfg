CONSTANTS
  Null = Null
  Programs <- MCPrograms
  Numbers = 4
  Stack = 32
SPECIFICATION Spec
INVARIANTS PointersToFirst SameEffect
CHECK_DEADLOCK FALSE
