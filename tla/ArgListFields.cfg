SPECIFICATION Spec
CONSTANTS
  Actual <- MCActual
  MaxArgs <- MCMaxArgs
INVARIANTS
  ScanComplete
CHECK_DEADLOCK FALSE
