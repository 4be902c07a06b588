CONSTANTS
  Null = Null
  Keys = {k1, k2}
  Objects = {a, b}
  Pointers = {p1, p2, p3}
SPECIFICATION Spec
INVARIANTS TypeOK Accounted Prompt
PROPERTY Implements
CHECK_DEADLOCK FALSE
