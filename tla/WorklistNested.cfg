SPECIFICATION ReclaimFairSpec
CONSTANTS
  Task <- NestedTask
  t1 = t1  t2 = t2  t3 = t3  t4 = t4  t5 = t5
  Nil = Nil
  Body <- NestedBody
  Uses <- NestedUses
  Lucky <- LuckyFather
  MinDeletable = 0
INVARIANTS
  ReclaimTypeOK
  SafeWalks
  FreedUnlinked
  EraserFindsHint
  InsertionSafe
PROPERTIES
  ImplementsTaskGraph
  EveryTaskFinishes
  EraserEnds
