SPECIFICATION Spec
CONSTANTS
  Runner = {r1, r2}
  Task = {t1, t2}
  Caller = {c1, c2}
  None = none
  MaxCalls = 2
  CallWindow = 2
  CallPause = 2
  WorkLimit = 1
  WorkPause = 3
  MaxPause = 3
  MaxTime = 4
  MaxRestarts = 1
SYMMETRY BreakerSymmetry
INVARIANTS PauseBounded BurstBounded PauseStored
PROPERTIES LongRunTrips
CHECK_DEADLOCK FALSE
