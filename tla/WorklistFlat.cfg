SPECIFICATION FairSpec
CONSTANTS
  Task <- FlatTask
  t1 = t1  t2 = t2  t3 = t3  t4 = t4  t5 = t5
  Nil = Nil
  Body <- FlatBody
  Uses <- FlatUses
INVARIANTS
  TypeOK
  ArgsAlive
  NothingLost
  PostedOnce
  CountExact
PROPERTIES
  StatusForward
  ImplementsTaskGraph
  EveryTaskFinishes
