SPECIFICATION ObserverSpec
CONSTANTS
  Task <- CrossTask
  t1 = t1  t2 = t2  t3 = t3  t4 = t4  t5 = t5
  Nil = Nil
  Body <- CrossBody
  Uses <- CrossUses
  Lucky <- Nobody
  MinDeletable = 0
  Observed <- NoScope
  Joined <- CrossJoined
  Awaited <- Nobody
  Priority <- First
INVARIANTS
  HelpReturns
