SPECIFICATION Spec
CONSTANTS
  Caller = {c1, c2}
  Free = free
  Threshold = 2
  Cooldown = 1
  FailedRetry = 1
  Window = 1
  MaxInstances = 2
  MaxToken = 2
  MaxEdits = 1
SYMMETRY CallerSymmetry
CONSTRAINT Claimed
INVARIANTS
  LockReturned
  TokenKept
  TasksFollow
PROPERTIES
  ReuseWindow
  BackoffHolds
