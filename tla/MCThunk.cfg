SPECIFICATION Spec
CONSTANTS
  Signatures <- MCSignatures
  Entries <- MCEntries
INVARIANTS
  ArgumentsArrive
  ResultsReturn
  CallerPreserved
CHECK_DEADLOCK FALSE
