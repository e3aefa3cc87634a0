CONSTANTS
  Workers = {w1, w2}
  Clients = {c1}
  Tasks = {t1, t2, t3}
  Owner = Owner
  None = None
SPECIFICATION FairSpec
INVARIANTS
  FifoExactlyOnce
  DestroyDropsNothing
  NoUseAfterFree
  NoLostWakeup
PROPERTIES
  AcceptedTaskFinishes
  CallsReturn
  ImplementsExecutor
