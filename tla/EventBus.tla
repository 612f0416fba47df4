------------------------------ MODULE EventBus ------------------------------
(* The event bus (internal/eventbus/bus.go): a bounded channel that one        *)
(* goroutine empties, handing each event to its subscribers one after the      *)
(* other.  The subscribers are those of the module that extends this one: it   *)
(* says what happens between Take and Handled.                                 *)
EXTENDS Naturals, Sequences

CONSTANTS Event, NoEvent,
          Capacity       \* defaultQueueSize

ASSUME BusAssumption == NoEvent \notin Event /\ Capacity \in Nat \ {0}

VARIABLES queue,         \* the channel of events
          closed,        \* its channel `closed' is closed
          draining,      \* run has seen that, and is in drain
          gone,          \* run has returned: `done' is closed
          current        \* the event being dispatched

busVars == <<queue, closed, draining, gone, current>>

BusTypeOK ==
  /\ queue \in Seq(Event) /\ Len(queue) <= Capacity
  /\ closed \in BOOLEAN /\ draining \in BOOLEAN /\ gone \in BOOLEAN
  /\ current \in Event \cup {NoEvent}

BusInit ==
  /\ queue = <<>> /\ current = NoEvent
  /\ closed = FALSE /\ draining = FALSE /\ gone = FALSE

\* Publish's select, its two cases: where both are open either may be taken.
Accept(e) ==
  /\ Len(queue) < Capacity
  /\ queue' = Append(queue, e)
  /\ UNCHANGED <<closed, draining, gone, current>>

\* Mutant: Publish waits for room only.
RefuseNever == FALSE /\ UNCHANGED busVars

Refuse == closed /\ UNCHANGED busVars

\* The next event, for run's select as for drain's.
Take ==
  /\ current = NoEvent /\ ~gone /\ queue # <<>>
  /\ current' = Head(queue) /\ queue' = Tail(queue)
  /\ UNCHANGED <<closed, draining, gone>>

\* dispatch has called every subscriber of the event.
Handled == current' = NoEvent /\ UNCHANGED <<queue, closed, draining, gone>>

\* run's select sees that the bus is closed, whatever the queue holds.
SeeClosed ==
  /\ current = NoEvent /\ closed /\ ~draining
  /\ draining' = TRUE
  /\ UNCHANGED <<queue, closed, gone, current>>

\* Mutant: the goroutine leaves without draining the queue.
ExitAtOnce ==
  /\ current = NoEvent /\ draining /\ ~gone
  /\ gone' = TRUE
  /\ UNCHANGED <<queue, closed, draining, current>>

\* drain finds the queue empty.
Exit ==
  /\ current = NoEvent /\ draining /\ ~gone /\ queue = <<>>
  /\ gone' = TRUE
  /\ UNCHANGED <<queue, closed, draining, current>>

Close == closed' = TRUE /\ UNCHANGED <<queue, draining, gone, current>>

=============================================================================
