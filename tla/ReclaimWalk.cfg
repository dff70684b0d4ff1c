SPECIFICATION ReclaimSpec
CONSTANTS
  Task <- NestedTask
  t1 = t1  t2 = t2  t3 = t3  t4 = t4  t5 = t5
  Nil = Nil
  Body <- NestedBody
  Uses <- NestedUses
  Lucky <- LuckyChild
  MinDeletable = 0
INVARIANTS
  SafeWalks
