SPECIFICATION FairSpec
CONSTANTS
  Caller = {c1, c2}
  MaxLoops = 3
INVARIANTS
  OneLoop
PROPERTIES
  GateOpens
  StopTakes
CHECK_DEADLOCK FALSE
