SPECIFICATION Spec
CONSTANTS
  Actual <- MCActual
  MaxArgs <- MCMaxArgs
INVARIANTS
  ArgvFilled
CHECK_DEADLOCK FALSE
