SPECIFICATION Spec
CONSTANTS
  Block = {b1, b2, b3}
  Proc = {p1, p2}
  Nil = Nil
  ChunkSize = 1
  Tags = 4
  ListMax = 2
INVARIANTS
  ListIsFree
  OneOwner
PROPERTY
  ImplementsBlockStack
SYMMETRY MCSymmetry
CHECK_DEADLOCK FALSE
