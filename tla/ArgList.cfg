SPECIFICATION Spec
CONSTANTS
  Actual <- MCActual
  MaxArgs <- MCMaxArgs
INVARIANTS
  TypeOK
  ListSorted
  ArgvFits
  AccessPreserved
  AlignedScanComplete
  RemovalSound
  ContainedSound
CHECK_DEADLOCK FALSE
