SPECIFICATION ObserverFairSpec
CONSTANTS
  Task <- TrioTask
  t1 = t1  t2 = t2  t3 = t3  t4 = t4  t5 = t5
  Nil = Nil
  Body <- TrioBody
  Uses <- TrioUses
  Lucky <- Nobody
  MinDeletable = 0
  Observed <- TrioObserved
  Joined <- TrioJoined
  Awaited <- TrioAwaited
  Priority <- First
INVARIANTS
  ObserverTypeOK
  LimitIsSafe
PROPERTIES
  ObserverWaits
  WaitsEnd
