SPECIFICATION FairSpec
CONSTANT
  Thread = {t1, t2, t3}
INVARIANTS
  TypeOK
  OnceEach
  WaitIsComplete
PROPERTIES
  LaunchEnds
  CallsReturn
CHECK_DEADLOCK FALSE
