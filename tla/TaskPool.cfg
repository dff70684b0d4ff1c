SPECIFICATION FairSpec
CONSTANTS
  Thread = {w1, w2}
  Main = Main
  a = a  b = b  c = c  d = d  e = e  g = g
  Task <- MCTask
  Kids <- MCKids
  Hp <- MCHp
  Soft <- MCSoft
  QueueSize = 1
INVARIANTS
  TypeOK
  WaitIsQuiescent
PROPERTIES
  ImplementsTaskBag
  EveryTaskRuns
  WaitEnds
