SPECIFICATION ObserverFairSpec
CONSTANTS
  Task <- DeepTask
  t1 = t1  t2 = t2  t3 = t3  t4 = t4  t5 = t5
  Nil = Nil
  Body <- DeepBody
  Uses <- DeepUses
  Lucky <- Nobody
  MinDeletable = 0
  Observed <- DeepObserved
  Joined <- DeepJoined
  Awaited <- DeepAwaited
  Priority <- Any
INVARIANTS
  ObserverTypeOK
PROPERTIES
  ObserverWaits
  ImplementsTaskGraph
  EveryTaskFinishes
