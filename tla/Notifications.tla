--------------------------- MODULE Notifications ---------------------------
(* External notifications from end to end: publishers (notification.Service    *)
(* and others), the bus, the Dispatcher (notifychannel/dispatcher.go) that it  *)
(* calls with the publisher's context, the outbox, the order of a shutdown     *)
(* (app/app.go), and restarts.  There is one channel, an enabled webhook.      *)
EXTENDS EventBus, NotifyRetry

ASSUME NotificationsAssumption == Notice \subseteq Event

VARIABLES pub,       \* what has become of the publication of each notice
          over,      \* notices whose publisher's context has ended
          at,        \* the Dispatcher, in the bus's goroutine
          phase,     \* the process: how far Shutdown has come, or off
          kept,      \* history: accepted in this run of the process, before Close
          handled,   \* history: handled by their subscriber in this run
          filed      \* history: notices that were put into the outbox

appHistory == <<kept, handled, filed>>
vars == <<busVars, outboxVars, pub, over, at, phase, appHistory>>

TypeOK ==
  /\ BusTypeOK /\ OutboxTypeOK
  /\ pub \in [Event -> {"idle", "publishing", "accepted", "dropped"}]
  /\ over \subseteq Notice
  /\ at \in {"idle", "send", "enqueue"}
  /\ phase \in {"up", "cancelled", "stopping", "closing", "down", "off"}
  /\ kept \subseteq Event /\ handled \subseteq Event /\ filed \subseteq Notice

Init ==
  /\ BusInit /\ OutboxInit
  /\ pub = [n \in Event |-> "idle"] /\ over = {} /\ at = "idle" /\ phase = "up"
  /\ kept = {} /\ handled = {} /\ filed = {}

appVars == <<pub, over, at, phase, appHistory>>

-----------------------------------------------------------------------------
\* Notices on their way from a publisher to the Dispatcher's last word.
Underway == {n \in Notice \ handled : pub[n] \in {"publishing", "accepted"}}

Serving == phase \in {"up", "cancelled", "stopping", "closing"}

(* Publishers.                                                                 *)

Publish(n) ==
  /\ pub[n] = "idle" /\ Serving
  /\ pub' = [pub EXCEPT ![n] = "publishing"]
  /\ UNCHANGED <<busVars, outboxVars, over, at, phase, appHistory>>

PublishAccepted(n) ==
  /\ pub[n] = "publishing" /\ Accept(n)
  /\ pub' = [pub EXCEPT ![n] = "accepted"]
  /\ kept' = IF closed THEN kept ELSE kept \cup {n}
  /\ UNCHANGED <<outboxVars, over, at, phase, handled, filed>>

PublishDropped(n) ==
  /\ pub[n] = "publishing" /\ Refuse
  /\ pub' = [pub EXCEPT ![n] = "dropped"]
  /\ UNCHANGED <<outboxVars, over, at, phase, appHistory>>

\* The request is over, or its client has left: with Publish behind it or not.
RequestEnds(n) ==
  /\ n \in Underway \ over
  /\ over' = over \cup {n}
  /\ UNCHANGED <<busVars, outboxVars, pub, at, phase, appHistory>>

-----------------------------------------------------------------------------
(* The Dispatcher: onNotificationCreated, under the publisher's context.       *)

Dispatch ==
  /\ Take /\ at' = IF current' \in Notice THEN "send" ELSE "idle"
  /\ UNCHANGED <<outboxVars, pub, over, phase, appHistory>>

Done(n) == Handled /\ at' = "idle" /\ handled' = handled \cup {n}

\* Events of other kinds are for other subscribers.
OtherHandled ==
  /\ current \in Event \ Notice /\ Done(current)
  /\ UNCHANGED <<outboxVars, pub, over, phase, kept, filed>>

\* Mutant: a failure is logged, and that is all.
DispatchSendOnly(out) ==
  /\ at = "send"
  /\ current \in over => out \in {"temporary", "refused"}
  /\ Called(current, out)
  /\ Done(current)
  /\ failures' = [failures EXCEPT ![current] =
                    IF out = "refused" THEN MaxAttempts + 1 ELSE @]
  /\ UNCHANGED <<rowVars, roundVars, ended, clash, unsaved>>
  /\ UNCHANGED <<pub, over, phase, kept, filed>>

\* Send, under a timeout of its own: what is filed may have been taken already.
DispatchSend(out) ==
  /\ at = "send"
  /\ current \in over => out \in {"temporary", "refused"}
  /\ Called(current, out)
  /\ IF Learned(out) = "temporary"
       THEN at' = "enqueue" /\ UNCHANGED <<busVars, handled>>
       ELSE Done(current)
  /\ failures' = [failures EXCEPT ![current] =
                    IF out = "refused" THEN MaxAttempts + 1 ELSE @]
  /\ UNCHANGED <<rowVars, roundVars, ended, clash, unsaved>>
  /\ UNCHANGED <<pub, over, phase, kept, filed>>

\* maybeEnqueueRetry: the INSERT fails under a context that has ended, and once
\* the database is closed.
DispatchEnqueue ==
  /\ at = "enqueue"
  /\ Done(current)
  /\ IF current \in over \/ phase = "down"
       THEN UNCHANGED <<rowVars, filed>>
       ELSE File(current) /\ filed' = filed \cup {current}
  /\ UNCHANGED <<roundVars, ended, outboxHistory, pub, over, phase, kept>>

BusEnds ==
  /\ SeeClosed \/ Exit
  /\ UNCHANGED <<outboxVars, appVars>>

-----------------------------------------------------------------------------
(* The outbox while the process runs.                                          *)

LoopRound ==
  /\ LoopTicks
  /\ UNCHANGED <<busVars, appVars>>

RoundStep(r) ==
  /\ \/ \E n \in Notice, out \in Outcome : Retry(r, n, out)
     \/ Save(r)
     \/ RoundOver(r)
  /\ UNCHANGED <<busVars, appVars>>

RequestStep(q) ==
  /\ RequestRound(q) \/ RequestGivesUp(q)
  /\ UNCHANGED <<busVars, appVars>>

Administer(q) ==
  /\ Serving
  /\ \/ \E n \in Notice : Redrive(q, n)
     \/ ClientLeaves(q)
     \/ phase = "up" /\ NextRequest(q)
  /\ UNCHANGED <<busVars, appVars>>

ClearRows ==
  /\ Serving
  /\ \E s \in {{"pending"}, {"sent"}, {"failed"}, Status \ {"none"}} : Clear(s)
  /\ UNCHANGED <<busVars, appVars>>

Time == Tick /\ UNCHANGED <<busVars, appVars>>

-----------------------------------------------------------------------------
(* Shutdown, and what comes after it or after a crash.                         *)

\* httpBaseCancel: the contexts of all requests end, those of other publishers
\* do not.
CancelHTTP ==
  /\ phase = "up" /\ phase' = "cancelled"
  /\ \E requests \in SUBSET Underway : over' = over \cup requests
  /\ ended' = ended \cup Request
  /\ UNCHANGED <<busVars, rowVars, roundVars, outboxHistory>>
  /\ UNCHANGED <<pub, at, appHistory>>

\* RetryWorker.Stop ends the loop's context ...
StopLoop ==
  /\ phase = "cancelled" /\ phase' = "stopping"
  /\ ended' = ended \cup {Loop}
  /\ UNCHANGED <<busVars, rowVars, roundVars, outboxHistory>>
  /\ UNCHANGED <<pub, over, at, appHistory>>

\* ... and waits for its goroutine.  Publishers are stopped then, and the bus
\* closed.
CloseBus ==
  /\ phase = "stopping" /\ pc[Loop] = "idle"
  /\ phase' = "closing" /\ Close
  /\ UNCHANGED <<outboxVars, pub, over, at, appHistory>>

\* Close returns, for the goroutine has gone or for its time is up; the database
\* is closed next.
CloseReturns ==
  /\ phase = "closing" /\ phase' = "down"
  /\ UNCHANGED <<busVars, outboxVars, pub, over, at, appHistory>>

\* The process ends, after Shutdown or at any moment before.
ProcessEnds ==
  /\ phase # "off" /\ phase' = "off"
  /\ pub' = [e \in Event |-> IF pub[e] = "idle" THEN "idle" ELSE "dropped"]
  /\ queue' = <<>> /\ current' = NoEvent /\ at' = "idle"
  /\ closed' = FALSE /\ draining' = FALSE /\ gone' = FALSE
  /\ over' = {} /\ kept' = {} /\ handled' = {}
  /\ unsaved' = unsaved \cup {n \in Notice : \E r \in Runner : cur[r] = n}
  /\ pc' = [r \in Runner |-> "idle"] /\ todo' = [r \in Runner |-> {}]
  /\ seen' = [r \in Runner |-> [n \in Notice |-> 0]]
  /\ cur' = [r \in Runner |-> NoNotice] /\ result' = [r \in Runner |-> "ok"]
  /\ ended' = Runner
  /\ UNCHANGED <<rowVars, confirmed, repeated, failures, clash, filed>>

Starts ==
  /\ phase = "off" /\ phase' = "up" /\ ended' = {}
  /\ UNCHANGED <<busVars, rowVars, roundVars, outboxHistory>>
  /\ UNCHANGED <<pub, over, at, appHistory>>

-----------------------------------------------------------------------------
Next ==
  \/ \E e \in Event : Publish(e) \/ PublishAccepted(e) \/ PublishDropped(e)
  \/ \E n \in Notice : RequestEnds(n)
  \/ Dispatch \/ OtherHandled \/ DispatchEnqueue \/ BusEnds
  \/ \E out \in Outcome : DispatchSend(out)
  \/ LoopRound
  \/ \E r \in Runner : RoundStep(r)
  \/ \E q \in Request : RequestStep(q) \/ Administer(q)
  \/ ClearRows \/ Time
  \/ CancelHTTP \/ StopLoop \/ CloseBus \/ CloseReturns \/ ProcessEnds \/ Starts

Spec == Init /\ [][Next]_vars

FairSpec ==
  /\ Spec
  /\ \A e \in Event : WF_vars(PublishAccepted(e) \/ PublishDropped(e))
  /\ WF_vars(Dispatch) /\ WF_vars(OtherHandled) /\ WF_vars(DispatchEnqueue) /\ WF_vars(BusEnds)
  /\ WF_vars(\E out \in Outcome : DispatchSend(out))
  /\ WF_vars(LoopRound) /\ WF_vars(Time)
  /\ \A r \in Runner : WF_vars(RoundStep(r))
  /\ \A q \in Request : WF_vars(RequestStep(q))

-----------------------------------------------------------------------------
(* What is promised.                                                           *)

\* When Close has seen the bus's goroutine go, every event accepted before it was
\* called has been handled by its subscribers.
CloseDrains == gone => kept \subseteq handled

\* What waits at the bus: the event that is being dispatched, and the queue.
Pending == IF current = NoEvent THEN queue ELSE <<current>> \o queue

Mail == INSTANCE Mailbox WITH pending <- Pending

\* From publisher to subscriber the bus is a Mailbox: its goroutine hands on every
\* event once, in the order of the Publish calls that were accepted, and has drained
\* the queue when Close sees it gone, whenever the close comes.
BusIsMailbox == Mail!Spec

\* A notice the Dispatcher is through with was confirmed by its receiver, was refused
\* for good, or went into the outbox, unless its publisher's context had ended or
\* the process was at its end.
Accounted ==
  \A n \in handled \cap Notice :
    n \in confirmed \/ failures[n] > 0 \/ n \in filed \/ n \in over \/ phase = "down"

\* Without the exception of the ended context, which is the code's to lose.
FailureFiled ==
  phase # "down" =>
    \A n \in handled \cap Notice : n \in confirmed \/ failures[n] > 0 \/ n \in filed

\* A receiver that has confirmed a notice is not given it again, whatever failures,
\* lost answers, waits and re-drives come before and after: `sent' is final.  Excepted
\* are a row that two rounds have held at once (the loop's and that of a re-drive) and
\* a result that was not written.  No more is promised, since an answer may be lost:
\* delivery is at least once.
ConfirmedIsFinal == repeated \subseteq clash \cup unsaved

\* A row counts no more attempts than have failed since it was filed or re-driven,
\* and is given up only when the receiver has refused it for good or all its
\* attempts have failed.
RetriedInFull ==
  \A n \in Notice \ clash :
    /\ status[n] = "pending" => attempts[n] <= failures[n]
    /\ status[n] = "failed" => failures[n] > MaxAttempts

\* A retry is made of a row that is still pending, and due, however long ago its
\* round has read it, or that was cleared meanwhile; sent and failed are final.
RetriedWhenDue ==
  [][\A r \in Runner, n \in Notice \ clash :
       cur[r] # n /\ cur'[r] = n =>
         status[n] = "none" \/ (status[n] = "pending" /\ wait[n] = 0)]_vars

\* What waits in the outbox is delivered, given up or cleared, while the process
\* is up.
RowResolves ==
  \A n \in Notice : status[n] = "pending" ~> status[n] # "pending" \/ phase # "up"

\* Publish returns: the bus finds room for the event, or is closed.
PublishReturns ==
  \A e \in Event : pub[e] = "publishing" ~> pub[e] # "publishing"

=============================================================================
