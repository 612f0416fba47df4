SPECIFICATION Spec
CONSTANTS
  Task = {t1}
  Kinds = {"temp", "own"}
  MaxCrashes = 1
  MaxFaults = 1
  MaxAsks = 1
INVARIANTS
  NothingLost
  RowFollows
  UploadedOnce
PROPERTIES
  PauseSurvives
CHECK_DEADLOCK FALSE
