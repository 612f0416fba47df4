------------------------------ MODULE Mailbox ------------------------------
(* What the event bus (internal/eventbus) promises those who publish and those *)
(* who subscribe: events are handled one at a time, each once and in the order *)
(* in which they were accepted, and a bus that was closed is not left before   *)
(* everything that waits has been handled.  Only the end of the process takes  *)
(* events away.                                                                *)
EXTENDS Naturals, Sequences

CONSTANTS Event,
          Capacity   \* how many events wait behind the one that is being handled

VARIABLES pending,   \* accepted and not handled yet, the one at hand first
          closed,    \* Close has been called
          gone       \* Close may tell its caller that all is handled

vars == <<pending, closed, gone>>

Init == pending = <<>> /\ closed = FALSE /\ gone = FALSE

Put(e) == /\ Len(pending) <= Capacity
          /\ pending' = Append(pending, e)
          /\ UNCHANGED <<closed, gone>>

Handle == /\ pending # <<>> /\ ~gone
          /\ pending' = Tail(pending)
          /\ UNCHANGED <<closed, gone>>

Close == closed' = TRUE /\ UNCHANGED <<pending, gone>>

Leave == /\ closed /\ pending = <<>>
         /\ gone' = TRUE
         /\ UNCHANGED <<pending, closed>>

ProcessEnds == pending' = <<>> /\ closed' = FALSE /\ gone' = FALSE

Next == Handle \/ Close \/ Leave \/ ProcessEnds \/ \E e \in Event : Put(e)

Spec == Init /\ [][Next]_vars
=============================================================================
