SPECIFICATION ObserverSpec
CONSTANTS
  Task <- TrioTask
  t1 = t1  t2 = t2  t3 = t3  t4 = t4  t5 = t5
  Nil = Nil
  Body <- TrioBody
  Uses <- TrioUses
  Lucky <- LuckySecond
  MinDeletable = 0
  Observed <- InsideObserved
  Joined <- NoScope
  Awaited <- Nobody
  Priority <- First
INVARIANTS
  NoEraserMeanwhile
