SPECIFICATION FairSpec
CONSTANTS
  Workers = {w1}
  Callers = {c1}
  Tasks = {t1}
  Nobody = nobody
  MaxToggles = 0
PROPERTY StopReturns
CHECK_DEADLOCK FALSE
