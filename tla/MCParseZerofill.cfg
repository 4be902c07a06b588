CONSTANTS
  Null = Null
  Binaries <- ZeroFilled
SPECIFICATION Spec
INVARIANT NoClash
CHECK_DEADLOCK FALSE
