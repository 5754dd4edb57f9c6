SPECIFICATION FairSpec
CONSTANTS
  Workers = {w1, w2}
  Callers = {c1, c2}
  Tasks = {t1, t2}
  Nobody = nobody
  MaxToggles = 1
INVARIANTS
  TypeOK
  TaskInOnePlace
  NoLostWakeup
  StopDrains
PROPERTIES
  UnpausedTasksRun
  ImplementsQueue
CHECK_DEADLOCK FALSE
