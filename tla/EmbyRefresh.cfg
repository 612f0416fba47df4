SPECIFICATION FairSpec
CONSTANTS
  Item = {i1}
  Lib = {lib}
  LibOf <- MCLibOf
  Source = {scan, hook}
  Debounce = 1
  MaxWait = 2
  Threshold = 1
  MaxFaults = 1
INVARIANTS
  OwedIsShown
  RefreshingIsExecuted
PROPERTIES
  OneClaimPerEvent
  PendingResolves
