SPECIFICATION FairSpec
CONSTANTS
  Notice = {n1}
  Event = {n1, e1}
  NoEvent = NoEvent
  NoNotice = NoNotice
  Capacity = 1
  Loop = loop
  Request = {q1}
  Backoff <- MCBackoff
INVARIANTS
  Accounted
  ConfirmedIsFinal
  RetriedInFull
PROPERTIES
  BusIsMailbox
  RetriedWhenDue
  RowResolves
  PublishReturns
CHECK_DEADLOCK FALSE
