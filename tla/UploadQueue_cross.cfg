SPECIFICATION Spec
CONSTANTS
  Task = {t1, t2}
  CrossTask = {t1, t2}
  Caller = {c1}
  Limits = {1, 2}
  MaxRuns = 2
INVARIANTS
  SlotsReturned
PROPERTIES
  SlotsPooled
  DownloadOnce
CHECK_DEADLOCK FALSE
