SPECIFICATION Spec
CONSTANTS
  Dir = {d1, d2}
  Root = d1
  Item = {i1, i2}
  Caller = {c1, c2}
  Cleaner = cleaner
  None = none
  QueueCap = 1
  MaxMutations = 2
INVARIANTS
  LoadOnce
  FollowersLed
  ApartFresh
CONSTRAINT OneOverlap
SYMMETRY CacheSymmetry
CHECK_DEADLOCK FALSE
