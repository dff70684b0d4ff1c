SPECIFICATION ReclaimFairSpec
CONSTANTS
  Task <- FamilyTask
  t1 = t1  t2 = t2  t3 = t3  t4 = t4  t5 = t5
  Nil = Nil
  Body <- FamilyBody
  Uses <- FamilyUses
  Lucky <- LuckyFamily
  MinDeletable = 0
INVARIANTS
  ReclaimTypeOK
  SafeWalks
  EraserFindsHint
  InsertionSafe
PROPERTIES
  ImplementsTaskGraph
  EveryTaskFinishes
  EraserEnds
