SPECIFICATION Spec
CONSTANTS
  Notice = {n1}
  Event = {n1}
  NoEvent = NoEvent
  NoNotice = NoNotice
  Capacity = 1
  Loop = loop
  Request = {q1}
  Backoff <- MCBackoff
INVARIANTS
  FailureFiled
CHECK_DEADLOCK FALSE
