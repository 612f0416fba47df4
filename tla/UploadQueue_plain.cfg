SPECIFICATION FairSpec
CONSTANTS
  Task = {t1, t2}
  CrossTask = {}
  Caller = {c1}
  Limits = {1, 2}
  MaxRuns = 2
INVARIANTS
  OneRunPerTask
  ActiveIsServed
  PauseHolds
PROPERTIES
  StopDrains
  SuccessStays
  PendingLeavesQueue
  WaitsEnd
CHECK_DEADLOCK FALSE
