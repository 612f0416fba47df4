------------------------ MODULE Notifications_proofs ------------------------
(* What is promised of the external notifications, for any notices, events,    *)
(* requests, queue capacity and table of waits.                                *)
EXTENDS Notifications, TLAPS

LEMMA Waits ==
  /\ MaxAttempts \in Nat /\ MaxAttempts >= 1
  /\ \A k \in 1..MaxAttempts : Backoff[k] \in Nat
BY OutboxAssumption DEF OutboxAssumption, MaxAttempts

LEMMA Names ==
  /\ NoEvent \notin Event /\ Notice \subseteq Event /\ NoEvent \notin Notice
  /\ NoNotice \notin Notice
  /\ Loop \in Runner /\ Request \subseteq Runner /\ Loop \notin Request
  /\ Capacity \in Nat
BY BusAssumption, OutboxAssumption, NotificationsAssumption
DEF BusAssumption, OutboxAssumption, NotificationsAssumption, Runner

LEMMA Tallied ==
  ASSUME NEW k \in Nat, NEW res \in Result
  PROVE  /\ Tally(k, res) \in Nat /\ Tally(k, res) >= k
         /\ res = "temporary" /\ k <= MaxAttempts => Tally(k, res) = k + 1
         /\ res = "refused" \/ (res = "temporary" /\ k > MaxAttempts) =>
              Tally(k, res) > MaxAttempts
BY Waits DEF Tally, Result

-----------------------------------------------------------------------------
(* The queue of the bus.                                                       *)

Queued(e) == \E i \in DOMAIN queue : queue[i] = e

Distinct == \A i, j \in DOMAIN queue : queue[i] = queue[j] => i = j

LEMMA Appended ==
  ASSUME queue \in Seq(Event), NEW e \in Event, queue' = Append(queue, e)
  PROVE  /\ queue' \in Seq(Event) /\ Len(queue') = Len(queue) + 1
         /\ \A x : Queued(x)' <=> Queued(x) \/ x = e
         /\ Distinct /\ ~Queued(e) => Distinct'
<1>1. /\ queue' \in Seq(Event) /\ Len(queue') = Len(queue) + 1
      /\ DOMAIN queue' = 1..Len(queue) + 1 /\ DOMAIN queue = 1..Len(queue)
      /\ Len(queue) \in Nat
      /\ \A i \in 1..Len(queue) : queue'[i] = queue[i]
      /\ queue'[Len(queue) + 1] = e
  OBVIOUS
<1>2. ASSUME NEW x PROVE Queued(x)' <=> Queued(x) \/ x = e
  BY <1>1 DEF Queued
<1>3. Distinct /\ ~Queued(e) => Distinct'
  BY <1>1 DEF Queued, Distinct
<1> QED BY <1>1, <1>2, <1>3

LEMMA Taken ==
  ASSUME queue \in Seq(Event), queue # <<>>, queue' = Tail(queue),
         NEW h, h = Head(queue)
  PROVE  /\ queue' \in Seq(Event) /\ h \in Event
         /\ Len(queue') <= Len(queue)
         /\ \A x : Queued(x) <=> Queued(x)' \/ x = h
         /\ Distinct => Distinct' /\ ~Queued(h)'
<1>1. /\ queue' \in Seq(Event) /\ Len(queue') = Len(queue) - 1
      /\ DOMAIN queue' = 1..Len(queue) - 1 /\ DOMAIN queue = 1..Len(queue)
      /\ Len(queue) \in Nat \ {0}
      /\ \A i \in 1..Len(queue) - 1 : queue'[i] = queue[i + 1]
      /\ h = queue[1] /\ h \in Event
  OBVIOUS
<1>2. ASSUME NEW x PROVE Queued(x) <=> Queued(x)' \/ x = h
  <2>1. Queued(x)' => Queued(x)
    <3> SUFFICES ASSUME NEW i \in DOMAIN queue', queue'[i] = x PROVE Queued(x)
      BY DEF Queued
    <3>1. i + 1 \in DOMAIN queue /\ queue[i + 1] = x BY <1>1
    <3> QED BY <3>1 DEF Queued
  <2>2. x = h => Queued(x)
    <3>1. 1 \in DOMAIN queue BY <1>1
    <3> QED BY <1>1, <3>1 DEF Queued
  <2>3. ASSUME Queued(x), x # h PROVE Queued(x)'
    <3>1. PICK i \in DOMAIN queue : queue[i] = x BY <2>3 DEF Queued
    <3>2. i # 1 BY <1>1, <2>3, <3>1
    <3>3. i - 1 \in DOMAIN queue' /\ queue'[i - 1] = x BY <1>1, <3>1, <3>2
    <3> QED BY <3>3 DEF Queued
  <2> QED BY <2>1, <2>2, <2>3
<1>3. ASSUME Distinct PROVE Distinct' /\ ~Queued(h)'
  <2>1. Distinct'
    <3> SUFFICES ASSUME NEW i \in DOMAIN queue', NEW j \in DOMAIN queue',
                        queue'[i] = queue'[j]
                 PROVE  i = j
      BY DEF Distinct
    <3>1. i + 1 \in DOMAIN queue /\ j + 1 \in DOMAIN queue /\ queue[i + 1] = queue[j + 1]
      BY <1>1
    <3>2. i + 1 = j + 1 BY <1>3, <3>1 DEF Distinct
    <3> QED BY <1>1, <3>2
  <2>2. ASSUME Queued(h)' PROVE FALSE
    <3>1. PICK i \in DOMAIN queue' : queue'[i] = h BY <2>2 DEF Queued
    <3>2. i + 1 \in DOMAIN queue /\ 1 \in DOMAIN queue /\ queue[i + 1] = queue[1]
      BY <1>1, <3>1
    <3>3. i + 1 = 1 BY <1>3, <3>2 DEF Distinct
    <3> QED BY <1>1, <3>1, <3>3
  <2> QED BY <2>1, <2>2
<1> QED BY <1>1, <1>2, <1>3

-----------------------------------------------------------------------------
(* The inductive invariant.                                                    *)

Busy(e) == Queued(e) \/ current = e

\* The bus's goroutine and what it still has before it.
BusInv ==
  /\ at # "idle" <=> current \in Notice
  /\ draining => closed
  /\ gone => draining /\ current = NoEvent /\ kept \subseteq handled
  /\ \A e \in kept : Busy(e) \/ e \in handled

\* An event is in one place, once.
FlowInv ==
  /\ Distinct /\ ~Queued(current)
  /\ \A e \in Event : Busy(e) => pub[e] = "accepted" /\ e \notin handled
  /\ \A e \in handled : pub[e] = "accepted"

\* Nothing has come of a notice yet.
Untouched(n) ==
  /\ n \notin confirmed /\ failures[n] = 0 /\ status[n] = "none" /\ n \notin filed
  /\ \A r \in Runner : ~Holds(r, n)

FreshInv ==
  \A n \in Notice : Busy(n) \/ pub[n] \in {"idle", "publishing"} => Untouched(n)

RoundInv ==
  \A r \in Runner :
    /\ pc[r] \in {"idle", "redriven"} => todo[r] = {}
    /\ pc[r] = "saving" <=> cur[r] \in Notice
    /\ cur[r] \notin todo[r]
    /\ phase = "off" => r \in ended /\ pc[r] = "idle"

FiledInv == \A n \in Notice : status[n] # "none" => n \in filed

\* What the round that holds a row knows of it.
ListedInv(r, n) ==
  n \in todo[r] =>
    /\ \/ status[n] = "none"
       \/ status[n] = "pending" /\ wait[n] = 0 /\ attempts[n] = seen[r][n]
    /\ seen[r][n] <= failures[n] /\ seen[r][n] <= MaxAttempts

SavedInv(r, n) ==
  cur[r] = n =>
    /\ status[n] \in {"none", "pending"}
    /\ r \notin ended => /\ result[r] = "temporary" => failures[n] >= seen[r][n] + 1
                         /\ result[r] = "refused" => failures[n] > MaxAttempts

CountInv(n) ==
  /\ status[n] = "pending" => attempts[n] <= failures[n] /\ attempts[n] <= MaxAttempts
  /\ status[n] = "failed" => failures[n] > MaxAttempts

RowInv(n) ==
  /\ \A r, s \in Runner : Holds(r, n) /\ Holds(s, n) => r = s
  /\ \A r \in Runner : ListedInv(r, n) /\ SavedInv(r, n)
  /\ CountInv(n)

OutboxInv == \A n \in Notice \ clash : RowInv(n)

\* A confirmed notice is on nobody's list, and its row is sent or about to be; so
\* nobody has given it to its receiver again.
ConfirmedInv(n) ==
  /\ n \notin repeated
  /\ n \in confirmed =>
       /\ \A r \in Runner : n \notin todo[r]
       /\ status[n] \in {"none", "sent"} \/ \E r \in Runner : cur[r] = n /\ result[r] = "ok"

DeliveryInv == \A n \in Notice \ (clash \cup unsaved) : ConfirmedInv(n)

IInv ==
  /\ TypeOK /\ BusInv /\ FlowInv /\ FreshInv /\ RoundInv /\ FiledInv
  /\ OutboxInv /\ DeliveryInv /\ Accounted

-----------------------------------------------------------------------------
(* The steps, by what they leave alone.                                        *)

OutboxStep ==
  \/ LoopRound \/ ClearRows \/ Time
  \/ \E r \in Runner : RoundStep(r)
  \/ \E q \in Request : RequestStep(q) \/ Administer(q)

BusStep ==
  \/ \E e \in Event : Publish(e) \/ PublishAccepted(e) \/ PublishDropped(e)
  \/ \E n \in Notice : RequestEnds(n)
  \/ Dispatch \/ OtherHandled \/ BusEnds \/ CloseBus \/ CloseReturns

LEMMA StepKinds ==
  Next => \/ OutboxStep \/ BusStep
          \/ DispatchEnqueue \/ \E out \in Outcome : DispatchSend(out)
          \/ CancelHTTP \/ StopLoop \/ ProcessEnds \/ Starts
BY DEF Next, OutboxStep, BusStep

LEMMA OutboxFrame == OutboxStep => UNCHANGED <<busVars, appVars>>
BY DEF OutboxStep, LoopRound, ClearRows, Time, RoundStep, RequestStep, Administer

LEMMA BusFrame == BusStep => UNCHANGED outboxVars
BY DEF BusStep, Publish, PublishAccepted, PublishDropped, RequestEnds, Dispatch,
       OtherHandled, BusEnds, CloseBus, CloseReturns

\* The steps of the outbox, one by one.
LEMMA OutboxSteps ==
  OutboxStep =>
    \/ \E r \in Runner : QueryDue(r) /\ pc[r] \in {"idle", "redriven"}
    \/ \E r \in Runner, n \in Notice, out \in Outcome : Retry(r, n, out)
    \/ \E r \in Runner : Save(r) \/ RoundOver(r)
    \/ \E q \in Request, n \in Notice : Serving /\ Redrive(q, n)
    \/ \E q \in Request : \/ RequestGivesUp(q)
                          \/ Serving /\ ClientLeaves(q)
                          \/ phase = "up" /\ NextRequest(q)
    \/ \E s \in SUBSET (Status \ {"none"}) : Clear(s)
    \/ Tick
BY Names DEF OutboxStep, LoopRound, LoopTicks, ClearRows, Time, RoundStep, RequestStep,
             RequestRound, Administer, Status

-----------------------------------------------------------------------------
(* Types.                                                                      *)

LEMMA InitType == Init => TypeOK
<1> USE Names
<1>1. BusInit => BusTypeOK
  <2> SUFFICES ASSUME BusInit PROVE BusTypeOK OBVIOUS
  <2>1. queue \in Seq(Event) /\ Len(queue) = 0 BY DEF BusInit
  <2>2. Len(queue) <= Capacity BY <2>1
  <2>3. closed \in BOOLEAN /\ draining \in BOOLEAN /\ gone \in BOOLEAN BY DEF BusInit
  <2>4. current \in Event \cup {NoEvent} BY DEF BusInit
  <2> QED BY <2>1, <2>2, <2>3, <2>4 DEF BusTypeOK
<1>2. OutboxInit => OutboxTypeOK
  BY DEF OutboxInit, NoRound, OutboxTypeOK, Status, Result
<1> QED BY <1>1, <1>2 DEF Init, TypeOK

\* The sender takes a lost answer for a failure, and nothing else for one.
LEMMA Learns ==
  ASSUME NEW out \in Outcome
  PROVE  /\ Learned(out) \in Result
         /\ Learned(out) = "ok" <=> out = "ok"
         /\ Learned(out) = "refused" <=> out = "refused"
BY DEF Learned, Outcome, Result

\* What one call does to the confirmations: it adds the notice at most, and repeats
\* none that is not confirmed.
LEMMA Confirmed ==
  ASSUME OutboxTypeOK, NEW m \in Notice, NEW out \in Outcome, Called(m, out)
  PROVE  /\ confirmed' \subseteq Notice /\ repeated' \subseteq Notice
         /\ confirmed \subseteq confirmed' /\ confirmed' \subseteq confirmed \cup {m}
         /\ m \in confirmed' => m \in confirmed \/ out = "ok"
         /\ repeated' \subseteq repeated \cup {m}
         /\ m \notin confirmed => repeated' = repeated
BY DEF OutboxTypeOK, Called

LEMMA OutboxStepType == OutboxTypeOK /\ RoundInv /\ OutboxStep => OutboxTypeOK'
<1> SUFFICES ASSUME OutboxTypeOK, RoundInv, OutboxStep PROVE OutboxTypeOK'
  OBVIOUS
<1> USE Names, Waits DEF OutboxTypeOK, Status, Result
<1>1. ASSUME NEW r \in Runner, QueryDue(r) PROVE OutboxTypeOK'
  <2>1. Due \subseteq Notice BY DEF Due
  <2> QED BY <1>1, <2>1 DEF QueryDue, rowVars
<1>2. ASSUME NEW r \in Runner, NEW n \in Notice, NEW out \in Outcome, Retry(r, n, out)
      PROVE  OutboxTypeOK'
  <2>1. confirmed' \subseteq Notice /\ repeated' \subseteq Notice
    BY <1>2, Confirmed DEF Retry
  <2>2. failures' \in [Notice -> Nat]
    BY <1>2, Tallied, Learns DEF Retry
  <2>3. Learned(out) \in Result BY Learns
  <2> QED BY <1>2, <2>1, <2>2, <2>3 DEF Retry, rowVars
<1>3. ASSUME NEW r \in Runner, Save(r) PROVE OutboxTypeOK'
  <2> DEFINE n == cur[r]
  <2>1. n \in Notice /\ seen[r][n] \in Nat
    BY <1>3 DEF Save, RoundInv
  <2>2. /\ status' \in [Notice -> Status] /\ attempts' \in [Notice -> Nat]
        /\ wait' \in [Notice -> Nat]
    <3>1. CASE UNCHANGED rowVars BY <3>1 DEF rowVars
    <3>2. CASE Settle(n, seen[r][n] + 1, result[r])
      <4> DEFINE tries == seen[r][n] + 1
                 again == result[r] = "temporary" /\ tries <= MaxAttempts
      <4>1. tries \in Nat /\ (again => Backoff[tries] \in Nat) BY <2>1
      <4>2. /\ status' = [status EXCEPT ![n] = IF result[r] = "ok" THEN "sent"
                                               ELSE IF again THEN "pending" ELSE "failed"]
            /\ attempts' = [attempts EXCEPT ![n] = tries]
            /\ wait' = [wait EXCEPT ![n] = IF again THEN Backoff[tries] ELSE 0]
        BY <3>2 DEF Settle
      <4> HIDE DEF tries, again
      <4> QED BY <2>1, <4>1, <4>2
    <3> QED BY <1>3, <3>1, <3>2 DEF Save
  <2>3. seen' \in [Runner -> [Notice -> Nat]]
    BY <1>3, <2>1 DEF Save
  <2> QED BY <1>3, <2>1, <2>2, <2>3 DEF Save
<1>4. ASSUME NEW r \in Runner, RoundOver(r) PROVE OutboxTypeOK'
  BY <1>4 DEF RoundOver, rowVars, outboxHistory
<1>5. ASSUME NEW q \in Request, NEW n \in Notice, Redrive(q, n) PROVE OutboxTypeOK'
  BY <1>5 DEF Redrive
<1>6. ASSUME NEW q \in Request, RequestGivesUp(q) \/ ClientLeaves(q) \/ NextRequest(q)
      PROVE  OutboxTypeOK'
  BY <1>6 DEF RequestGivesUp, ClientLeaves, NextRequest, rowVars, roundVars, outboxHistory
<1>7. ASSUME NEW s \in SUBSET (Status \ {"none"}), Clear(s) PROVE OutboxTypeOK'
  BY <1>7 DEF Clear, roundVars, outboxHistory
<1>8. ASSUME Tick PROVE OutboxTypeOK'
  BY <1>8 DEF Tick, roundVars, outboxHistory
<1> QED BY <1>1, <1>2, <1>3, <1>4, <1>5, <1>6, <1>7, <1>8, OutboxSteps

LEMMA SameOutboxType == OutboxTypeOK /\ UNCHANGED outboxVars => OutboxTypeOK'
BY DEF OutboxTypeOK, outboxVars, rowVars, roundVars, outboxHistory

LEMMA SameBusType == BusTypeOK /\ UNCHANGED busVars => BusTypeOK'
BY DEF BusTypeOK, busVars

LEMMA TypeStep == TypeOK /\ BusInv /\ RoundInv /\ [Next]_vars => TypeOK'
<1> SUFFICES ASSUME TypeOK, BusInv, RoundInv, [Next]_vars PROVE TypeOK'
  OBVIOUS
<1> USE Names
<1>1. CASE OutboxStep
  BY <1>1, OutboxStepType, OutboxFrame, SameBusType DEF TypeOK, appVars, appHistory
<1>2. CASE BusStep
  <2>1. OutboxTypeOK' BY <1>2, BusFrame, SameOutboxType DEF TypeOK
  <2> USE DEF TypeOK
  <2>2. ASSUME NEW e \in Event, Publish(e) \/ PublishDropped(e) PROVE TypeOK'
    BY <2>1, <2>2, SameBusType
    DEF Publish, PublishDropped, Refuse, busVars, appHistory
  <2>3. ASSUME NEW e \in Event, PublishAccepted(e) PROVE TypeOK'
    <3>1. BusTypeOK'
      BY <2>3, Appended DEF PublishAccepted, Accept, BusTypeOK
    <3> QED BY <2>1, <2>3, <3>1 DEF PublishAccepted
  <2>4. ASSUME NEW n \in Notice, RequestEnds(n) PROVE TypeOK'
    BY <2>1, <2>4, SameBusType DEF RequestEnds, appHistory
  <2>5. CASE Dispatch
    <3>1. BusTypeOK'
      BY <2>5, Taken DEF Dispatch, Take, BusTypeOK
    <3> QED BY <2>1, <2>5, <3>1 DEF Dispatch, appHistory
  <2>6. CASE OtherHandled
    BY <2>1, <2>6 DEF OtherHandled, Done, Handled, BusTypeOK
  <2>7. CASE BusEnds
    BY <2>1, <2>7 DEF BusEnds, SeeClosed, Exit, BusTypeOK, appVars, appHistory
  <2>8. CASE CloseBus \/ CloseReturns
    BY <2>1, <2>8 DEF CloseBus, CloseReturns, Close, BusTypeOK, busVars, appHistory
  <2> QED BY <1>2, <2>2, <2>3, <2>4, <2>5, <2>6, <2>7, <2>8 DEF BusStep
<1>3. ASSUME NEW out \in Outcome, DispatchSend(out) PROVE TypeOK'
  <2> USE <1>3 DEF TypeOK
  <2>0. current \in Notice BY DEF BusInv, DispatchSend
  <2>1. BusTypeOK' /\ at' \in {"idle", "enqueue"} /\ handled' \subseteq Event
    BY <2>0 DEF DispatchSend, Done, Handled, busVars, BusTypeOK
  <2>2. /\ confirmed' \subseteq Notice /\ repeated' \subseteq Notice
        /\ failures' \in [Notice -> Nat]
    BY <2>0, Waits, Confirmed DEF DispatchSend, OutboxTypeOK
  <2>3. OutboxTypeOK'
    BY <2>2 DEF DispatchSend, rowVars, roundVars, OutboxTypeOK
  <2> QED BY <2>1, <2>3 DEF DispatchSend
<1>4. CASE DispatchEnqueue
  <2> USE <1>4 DEF TypeOK
  <2>0. current \in Notice BY DEF BusInv, DispatchEnqueue
  <2>1. BusTypeOK' /\ at' = "idle" /\ handled' \subseteq Event
    BY <2>0 DEF DispatchEnqueue, Done, Handled, BusTypeOK
  <2>2. Backoff[1] \in Nat BY Waits
  <2>3. /\ status' \in [Notice -> Status] /\ attempts' \in [Notice -> Nat]
        /\ wait' \in [Notice -> Nat] /\ filed' \subseteq Notice
    <3>1. CASE UNCHANGED <<rowVars, filed>>
      BY <3>1 DEF rowVars, OutboxTypeOK
    <3>2. CASE File(current) /\ filed' = filed \cup {current}
      BY <2>0, <2>2, <3>2 DEF File, OutboxTypeOK, Status
    <3> QED BY <3>1, <3>2 DEF DispatchEnqueue
  <2>4. OutboxTypeOK'
    BY <2>3 DEF DispatchEnqueue, roundVars, outboxHistory, OutboxTypeOK
  <2> QED BY <2>1, <2>3, <2>4 DEF DispatchEnqueue
<1>5. CASE CancelHTTP \/ StopLoop \/ Starts
  <2> USE <1>5 DEF TypeOK
  <2>1. ended' \subseteq Runner /\ over' \subseteq Notice
    BY DEF CancelHTTP, Underway, StopLoop, Starts, OutboxTypeOK
  <2>2. OutboxTypeOK'
    BY <2>1 DEF CancelHTTP, StopLoop, Starts, rowVars, roundVars, outboxHistory, OutboxTypeOK
  <2> QED BY <2>1, <2>2, SameBusType DEF CancelHTTP, StopLoop, Starts, appHistory
<1>6. CASE ProcessEnds
  <2> USE <1>6 DEF TypeOK
  <2>1. queue' \in Seq(Event) /\ Len(queue') = 0 BY DEF ProcessEnds
  <2>2. BusTypeOK'
    <3>1. Len(queue') <= Capacity BY <2>1
    <3>2. current' = NoEvent /\ closed' = FALSE /\ draining' = FALSE /\ gone' = FALSE
      BY DEF ProcessEnds
    <3> QED BY <2>1, <3>1, <3>2 DEF BusTypeOK
  <2>3. OutboxTypeOK' BY DEF ProcessEnds, OutboxTypeOK, rowVars, Result
  <2> QED BY <2>2, <2>3 DEF ProcessEnds
<1>7. CASE UNCHANGED vars
  BY <1>7, SameOutboxType, SameBusType DEF vars, TypeOK, appHistory
<1> QED BY <1>1, <1>2, <1>3, <1>4, <1>5, <1>6, <1>7, StepKinds

-----------------------------------------------------------------------------
(* The bus.                                                                    *)

LEMMA BusInvStep == TypeOK /\ BusInv /\ FlowInv /\ [Next]_vars => BusInv' /\ FlowInv'
<1> SUFFICES ASSUME TypeOK, BusInv, FlowInv, [Next]_vars PROVE BusInv' /\ FlowInv'
  OBVIOUS
<1> USE Names
<1>0. ASSUME UNCHANGED <<queue, draining, closed, gone, current, at, pub, kept, handled>>
      PROVE  BusInv' /\ FlowInv'
  BY <1>0 DEF BusInv, FlowInv, Busy, Queued, Distinct
<1>1. CASE OutboxStep \/ UNCHANGED vars
  BY <1>0, <1>1, OutboxFrame DEF vars, busVars, appVars, appHistory
<1>2. CASE BusStep
  <2>1. ASSUME NEW e \in Event, Publish(e) \/ PublishDropped(e) PROVE BusInv' /\ FlowInv'
    <3>1. UNCHANGED <<queue, draining, closed, gone, current, at, kept, handled>>
      BY <2>1 DEF Publish, PublishDropped, Refuse, busVars, appHistory
    <3>2. pub[e] \in {"idle", "publishing"} /\ \A x \in Event \ {e} : pub'[x] = pub[x]
      BY <2>1 DEF Publish, PublishDropped, TypeOK
    <3>3. BusInv' BY <3>1 DEF BusInv, Busy, Queued
    <3>4. ASSUME NEW x PROVE Busy(x)' <=> Busy(x)
      BY <3>1 DEF Busy, Queued
    <3>5. ~Busy(e) /\ e \notin handled BY <3>2 DEF FlowInv
    <3>6. Distinct' /\ ~Queued(current)' BY <3>1 DEF FlowInv, Distinct, Queued
    <3>7. handled \subseteq Event BY DEF TypeOK
    <3> QED BY <3>1, <3>2, <3>3, <3>4, <3>5, <3>6, <3>7 DEF FlowInv
  <2>2. ASSUME NEW e \in Event, PublishAccepted(e) PROVE BusInv' /\ FlowInv'
    <3>1. /\ UNCHANGED <<draining, closed, gone, current, at, handled>>
          /\ queue' = Append(queue, e) /\ queue \in Seq(Event)
          /\ pub[e] = "publishing" /\ pub' = [pub EXCEPT ![e] = "accepted"]
          /\ kept' = IF closed THEN kept ELSE kept \cup {e}
      BY <2>2 DEF PublishAccepted, Accept, TypeOK, BusTypeOK
    <3>2. pub'[e] = "accepted" /\ \A x \in Event \ {e} : pub'[x] = pub[x]
      BY <3>1 DEF TypeOK
    <3>3. ~Busy(e) /\ e \notin handled BY <3>1 DEF FlowInv
    <3>4. /\ \A x : Queued(x)' <=> Queued(x) \/ x = e
          /\ Distinct'
      BY <3>1, <3>3, Appended DEF FlowInv, Busy
    <3>5. \A x : Busy(x)' <=> Busy(x) \/ x = e
      BY <3>1, <3>4 DEF Busy
    <3>6. BusInv' BY <3>1, <3>5 DEF BusInv
    <3>7. ~Queued(current)'
      BY <3>1, <3>3, <3>4 DEF FlowInv, Busy
    <3>8. handled \subseteq Event BY DEF TypeOK
    <3> QED BY <3>1, <3>2, <3>3, <3>4, <3>5, <3>6, <3>7, <3>8 DEF FlowInv
  <2>3. ASSUME NEW n \in Notice, RequestEnds(n) PROVE BusInv' /\ FlowInv'
    BY <1>0, <2>3 DEF RequestEnds, busVars, appHistory
  <2>4. CASE Dispatch
    <3> DEFINE h == Head(queue)
    <3>1. /\ UNCHANGED <<draining, closed, gone, pub, kept, handled>>
          /\ queue' = Tail(queue) /\ queue # <<>> /\ queue \in Seq(Event)
          /\ current = NoEvent /\ current' = h /\ ~gone
          /\ at' = IF current' \in Notice THEN "send" ELSE "idle"
      BY <2>4 DEF Dispatch, Take, appHistory, TypeOK, BusTypeOK
    <3>2. /\ h \in Event
          /\ \A x : Queued(x) <=> Queued(x)' \/ x = h
          /\ Distinct' /\ ~Queued(current)'
      BY <3>1, Taken DEF FlowInv, Queued
    <3>3. \A x \in Event : Busy(x)' <=> Busy(x)
      BY <3>1, <3>2 DEF Busy
    <3>4. kept \subseteq Event /\ handled \subseteq Event BY DEF TypeOK
    <3>5. BusInv' BY <3>1, <3>3, <3>4 DEF BusInv
    <3> QED BY <3>1, <3>2, <3>3, <3>4, <3>5 DEF FlowInv
  <2>5. CASE OtherHandled
    <3>1. /\ UNCHANGED <<queue, draining, closed, gone, pub, kept>>
          /\ current \in Event \ Notice /\ current' = NoEvent /\ at' = "idle"
          /\ handled' = handled \cup {current}
      BY <2>5 DEF OtherHandled, Done, Handled
    <3>2. ~Queued(NoEvent)
      BY DEF Queued, TypeOK, BusTypeOK
    <3>3. \A x \in Event : Busy(x)' <=> Busy(x) /\ x # current
      BY <3>1 DEF Busy, Queued, FlowInv
    <3>4. kept \subseteq Event BY DEF TypeOK
    <3>5. BusInv' BY <3>1, <3>3, <3>4 DEF BusInv
    <3>6. Distinct' /\ ~Queued(current)'
      BY <3>1, <3>2 DEF FlowInv, Distinct, Queued
    <3>7. pub[current] = "accepted" BY <3>1 DEF FlowInv, Busy
    <3> QED BY <3>1, <3>3, <3>5, <3>6, <3>7 DEF FlowInv
  <2>6. CASE BusEnds
    <3>1. UNCHANGED <<queue, current, closed, at, pub, kept, handled>>
      BY <2>6 DEF BusEnds, SeeClosed, Exit, appVars, appHistory
    <3>2. FlowInv' BY <3>1 DEF FlowInv, Busy, Queued, Distinct
    <3>3. CASE SeeClosed
      BY <3>1, <3>2, <3>3 DEF SeeClosed, BusInv, Busy, Queued
    <3>4. CASE Exit
      <4>1. queue = <<>> /\ current = NoEvent /\ draining' = draining /\ draining
        BY <3>4 DEF Exit
      <4>2. kept \subseteq handled
        BY <4>1 DEF BusInv, Busy, Queued, TypeOK
      <4> QED BY <3>1, <3>2, <4>1, <4>2 DEF BusInv, Busy, Queued
    <3> QED BY <2>6, <3>3, <3>4 DEF BusEnds
  <2>7. CASE CloseBus
    BY <2>7 DEF CloseBus, Close, appHistory, BusInv, FlowInv, Busy, Queued, Distinct
  <2>8. CASE CloseReturns
    BY <1>0, <2>8 DEF CloseReturns, busVars, appHistory
  <2> QED BY <1>2, <2>1, <2>2, <2>3, <2>4, <2>5, <2>6, <2>7, <2>8 DEF BusStep
<1>3. ASSUME DispatchEnqueue \/ \E out \in Outcome : DispatchSend(out)
      PROVE  BusInv' /\ FlowInv'
  <2>1. /\ UNCHANGED <<queue, draining, closed, gone, pub, kept>> /\ current \in Notice
        /\ \/ current' = current /\ at' = "enqueue" /\ handled' = handled
           \/ /\ current' = NoEvent /\ at' = "idle"
              /\ handled' = handled \cup {current}
    BY <1>3 DEF DispatchEnqueue, DispatchSend, Done, Handled, busVars, BusInv
  <2>2. CASE current' = current /\ at' = "enqueue" /\ handled' = handled
    BY <2>1, <2>2 DEF BusInv, FlowInv, Busy, Queued, Distinct
  <2>3. CASE current' = NoEvent /\ at' = "idle" /\ handled' = handled \cup {current}
    <3>1. ~Queued(NoEvent)
      BY DEF Queued, TypeOK, BusTypeOK
    <3>2. \A x \in Event : Busy(x)' <=> Busy(x) /\ x # current
      BY <2>1, <2>3 DEF Busy, Queued, FlowInv
    <3>3. kept \subseteq Event BY DEF TypeOK
    <3>4. BusInv' BY <2>1, <2>3, <3>2, <3>3 DEF BusInv
    <3>5. Distinct' /\ ~Queued(current)'
      BY <2>1, <2>3, <3>1 DEF FlowInv, Distinct, Queued
    <3>6. pub[current] = "accepted" BY <2>1 DEF FlowInv, Busy
    <3> QED BY <2>1, <2>3, <3>2, <3>4, <3>5, <3>6 DEF FlowInv
  <2> QED BY <2>1, <2>2, <2>3
<1>4. CASE CancelHTTP \/ StopLoop \/ Starts
  BY <1>0, <1>4 DEF CancelHTTP, StopLoop, Starts, busVars, appHistory
<1>5. CASE ProcessEnds
  <2>1. queue' = <<>> /\ current' = NoEvent /\ at' = "idle" /\ kept' = {} /\ handled' = {}
        /\ draining' = FALSE /\ gone' = FALSE
    BY <1>5 DEF ProcessEnds
  <2>2. DOMAIN queue' = {} BY <2>1
  <2>3. \A x \in Event : ~Busy(x)' BY <2>1, <2>2 DEF Busy, Queued
  <2> QED BY <2>1, <2>2, <2>3 DEF BusInv, FlowInv, Queued, Distinct
<1> QED BY <1>1, <1>2, <1>3, <1>4, <1>5, StepKinds

-----------------------------------------------------------------------------
(* The rounds.                                                                 *)

LEMMA RoundInvStep == TypeOK /\ RoundInv /\ [Next]_vars => RoundInv'
<1> SUFFICES ASSUME TypeOK, RoundInv, [Next]_vars PROVE RoundInv'
  OBVIOUS
<1> USE Names DEF TypeOK, OutboxTypeOK
<1>0. ASSUME UNCHANGED <<pc, todo, cur>>, ended \subseteq ended', phase' = phase \/ phase' # "off"
      PROVE  RoundInv'
  BY <1>0 DEF RoundInv
<1>1. CASE OutboxStep
  <2>0. phase' = phase BY <1>1, OutboxFrame DEF appVars
  <2>1. ASSUME NEW r \in Runner, QueryDue(r), pc[r] \in {"idle", "redriven"} PROVE RoundInv'
    <3>1. Due \subseteq Notice BY DEF Due
    <3> QED BY <2>0, <2>1, <3>1 DEF QueryDue, RoundInv
  <2>2. ASSUME NEW r \in Runner, NEW n \in Notice, NEW out \in Outcome, Retry(r, n, out)
        PROVE  RoundInv'
    BY <2>0, <2>2 DEF Retry, RoundInv
  <2>3. ASSUME NEW r \in Runner, Save(r) PROVE RoundInv'
    BY <2>0, <2>3 DEF Save, RoundInv
  <2>4. ASSUME NEW r \in Runner, RoundOver(r) PROVE RoundInv'
    BY <2>0, <2>4 DEF RoundOver, RoundInv
  <2>5. ASSUME NEW q \in Request, NEW n \in Notice, Serving, Redrive(q, n) PROVE RoundInv'
    BY <2>0, <2>5 DEF Serving, Redrive, RoundInv
  <2>6. ASSUME NEW q \in Request, RequestGivesUp(q) PROVE RoundInv'
    BY <2>0, <2>6 DEF RequestGivesUp, RoundInv
  <2>7. ASSUME NEW q \in Request, Serving, ClientLeaves(q) PROVE RoundInv'
    BY <2>0, <2>7 DEF Serving, ClientLeaves, roundVars, RoundInv
  <2>8. ASSUME NEW q \in Request, phase = "up", NextRequest(q) PROVE RoundInv'
    BY <2>0, <2>8 DEF NextRequest, roundVars, RoundInv
  <2>9. ASSUME NEW s \in SUBSET (Status \ {"none"}), Clear(s) PROVE RoundInv'
    BY <1>0, <2>0, <2>9 DEF Clear, roundVars
  <2>10. CASE Tick
    BY <1>0, <2>0, <2>10 DEF Tick, roundVars
  <2> QED BY <1>1, <2>1, <2>2, <2>3, <2>4, <2>5, <2>6, <2>7, <2>8, <2>9, <2>10, OutboxSteps
<1>2. CASE BusStep
  <2>1. UNCHANGED <<pc, todo, cur, ended>>
    BY <1>2, BusFrame DEF outboxVars, roundVars
  <2>2. phase' = phase \/ phase' # "off"
    BY <1>2 DEF BusStep, Publish, PublishAccepted, PublishDropped, RequestEnds, Dispatch,
                OtherHandled, BusEnds, CloseBus, CloseReturns, appVars
  <2> QED BY <1>0, <2>1, <2>2
<1>3. ASSUME DispatchEnqueue \/ \E out \in Outcome : DispatchSend(out) PROVE RoundInv'
  BY <1>0, <1>3 DEF DispatchEnqueue, DispatchSend, roundVars
<1>4. CASE CancelHTTP \/ StopLoop
  BY <1>0, <1>4 DEF CancelHTTP, StopLoop, roundVars
<1>5. CASE Starts
  BY <1>5 DEF Starts, roundVars, RoundInv
<1>6. CASE ProcessEnds
  BY <1>6 DEF ProcessEnds, RoundInv
<1>7. CASE UNCHANGED vars
  BY <1>0, <1>7 DEF vars, outboxVars, roundVars
<1> QED BY <1>1, <1>2, <1>3, <1>4, <1>5, <1>6, <1>7, StepKinds

-----------------------------------------------------------------------------
(* Notices nothing has come of.                                                *)

LEMMA FreshStep ==
  TypeOK /\ BusInv /\ FlowInv /\ FreshInv /\ RoundInv /\ [Next]_vars => FreshInv'
<1> SUFFICES ASSUME TypeOK, BusInv, FlowInv, FreshInv, RoundInv, [Next]_vars PROVE FreshInv'
  OBVIOUS
<1> USE Names
<1>0. ASSUME NEW n \in Notice, Untouched(n), n \notin filed' \ filed,
             \/ UNCHANGED outboxVars
             \/ UNCHANGED <<status, todo, cur, failures, confirmed>>
      PROVE  Untouched(n)'
  BY <1>0 DEF Untouched, Holds, outboxVars, rowVars, roundVars, outboxHistory
<1>1. CASE OutboxStep
  <2>1. UNCHANGED <<queue, current, pub, filed>>
    BY <1>1, OutboxFrame DEF busVars, appVars, appHistory
  <2>2. ASSUME NEW n \in Notice, Untouched(n) PROVE Untouched(n)'
    <3> USE <2>1, <2>2 DEF TypeOK, OutboxTypeOK
    <3>1. ASSUME NEW r \in Runner, QueryDue(r) PROVE Untouched(n)'
      BY <3>1 DEF Untouched, Holds, QueryDue, Due, rowVars
    <3>2. ASSUME NEW r \in Runner, NEW m \in Notice, NEW out \in Outcome, Retry(r, m, out)
          PROVE  Untouched(n)'
      <4>1. m # n BY <3>2 DEF Untouched, Holds, Retry
      <4>2. n \notin confirmed' BY <3>2, <4>1, Confirmed DEF Untouched, Retry
      <4> QED BY <3>2, <4>1, <4>2 DEF Untouched, Holds, Retry, rowVars
    <3>3. ASSUME NEW r \in Runner, Save(r) PROVE Untouched(n)'
      <4>1. cur[r] # n BY DEF Untouched, Holds
      <4>2. status'[n] = status[n]
        BY <3>3, <4>1 DEF Save, Settle, rowVars
      <4> QED BY <3>3, <4>2 DEF Save, Untouched, Holds
    <3>4. ASSUME NEW r \in Runner, RoundOver(r) PROVE Untouched(n)'
      BY <1>0, <3>4 DEF RoundOver, rowVars, outboxHistory
    <3>5. ASSUME NEW q \in Request, NEW m \in Notice, Redrive(q, m) PROVE Untouched(n)'
      BY <3>5 DEF Redrive, Untouched, Holds
    <3>6. ASSUME NEW q \in Request, RequestGivesUp(q) \/ ClientLeaves(q) \/ NextRequest(q)
          PROVE  Untouched(n)'
      BY <1>0, <3>6 DEF RequestGivesUp, ClientLeaves, NextRequest, rowVars, roundVars, outboxHistory
    <3>7. ASSUME NEW s \in SUBSET (Status \ {"none"}), Clear(s) PROVE Untouched(n)'
      BY <3>7 DEF Clear, Untouched, Holds, roundVars, outboxHistory
    <3>8. CASE Tick
      BY <1>0, <3>8 DEF Tick, roundVars, outboxHistory
    <3> QED BY <1>1, <3>1, <3>2, <3>3, <3>4, <3>5, <3>6, <3>7, <3>8, OutboxSteps
  <2> QED BY <2>1, <2>2 DEF FreshInv, Busy, Queued
<1>2. CASE BusStep
  <2>1. filed' = filed
    BY <1>2 DEF BusStep, Publish, PublishAccepted, PublishDropped, RequestEnds, Dispatch,
                OtherHandled, BusEnds, CloseBus, CloseReturns, appVars, appHistory
  <2>2. \A n \in Notice : Untouched(n) => Untouched(n)'
    BY <1>0, <1>2, <2>1, BusFrame
  <2>3. ASSUME NEW n \in Notice, (Busy(n) \/ pub[n] \in {"idle", "publishing"})'
        PROVE  Busy(n) \/ pub[n] \in {"idle", "publishing"}
    <3> USE <2>3 DEF TypeOK, BusTypeOK
    <3>1. ASSUME NEW e \in Event, Publish(e) PROVE Busy(n) \/ pub[n] \in {"idle", "publishing"}
      BY <3>1 DEF Publish, busVars, Busy, Queued
    <3>2. ASSUME NEW e \in Event, PublishAccepted(e)
          PROVE  Busy(n) \/ pub[n] \in {"idle", "publishing"}
      <4>1. Queued(n)' => Queued(n) \/ n = e
        BY <3>2, Appended DEF PublishAccepted, Accept
      <4> QED BY <3>2, <4>1 DEF PublishAccepted, Accept, Busy
    <3>3. ASSUME NEW e \in Event, PublishDropped(e)
          PROVE  Busy(n) \/ pub[n] \in {"idle", "publishing"}
      BY <3>3 DEF PublishDropped, Refuse, busVars, Busy, Queued
    <3>4. CASE Dispatch
      <4> DEFINE h == Head(queue)
      <4>1. Queued(n) <=> Queued(n)' \/ n = h
        BY <3>4, Taken DEF Dispatch, Take
      <4> QED BY <3>4, <4>1 DEF Dispatch, Take, Busy
    <3>5. CASE OtherHandled
      BY <3>5 DEF OtherHandled, Done, Handled, Busy, Queued
    <3>6. ASSUME \/ \E m \in Notice : RequestEnds(m)
                 \/ BusEnds \/ CloseBus \/ CloseReturns
          PROVE  Busy(n) \/ pub[n] \in {"idle", "publishing"}
      BY <3>6 DEF RequestEnds, BusEnds, SeeClosed, Exit, CloseBus, Close, CloseReturns, busVars,
                  appVars, Busy, Queued
    <3> QED BY <1>2, <3>1, <3>2, <3>3, <3>4, <3>5, <3>6 DEF BusStep
  <2> QED BY <2>2, <2>3 DEF FreshInv
<1>3. ASSUME DispatchEnqueue \/ \E out \in Outcome : DispatchSend(out) PROVE FreshInv'
  <2>0. current \in Notice BY <1>3 DEF DispatchEnqueue, DispatchSend, BusInv
  <2>1. UNCHANGED <<queue, pub, todo, cur>>
    BY <1>3 DEF DispatchEnqueue, DispatchSend, Done, Handled, busVars, roundVars
  <2>2. ASSUME NEW n \in Notice, n # current PROVE Untouched(n) => Untouched(n)'
    <3>1. CASE DispatchEnqueue
      BY <2>0, <2>1, <2>2, <3>1
      DEF DispatchEnqueue, File, Untouched, Holds, rowVars, outboxHistory, TypeOK, OutboxTypeOK
    <3>2. ASSUME NEW out \in Outcome, DispatchSend(out) PROVE Untouched(n) => Untouched(n)'
      <4>1. (n \in confirmed' => n \in confirmed) /\ failures'[n] = failures[n]
        BY <2>0, <2>2, <3>2, Confirmed DEF DispatchSend, TypeOK, OutboxTypeOK
      <4>2. UNCHANGED <<status, filed>> BY <3>2 DEF DispatchSend, rowVars
      <4> QED BY <2>1, <4>1, <4>2 DEF Untouched, Holds
    <3> QED BY <1>3, <3>1, <3>2
  <2>3. ASSUME NEW n \in Notice, n # current,
               (Busy(n) \/ pub[n] \in {"idle", "publishing"})'
        PROVE  Busy(n) \/ pub[n] \in {"idle", "publishing"}
    BY <1>3, <2>1, <2>3
    DEF DispatchEnqueue, DispatchSend, Done, Handled, busVars, Busy, Queued
  <2>4. ~Queued(current) /\ pub[current] = "accepted" BY <2>0 DEF FlowInv, Busy
  <2>5. CASE current' = NoEvent
    <3>1. ASSUME NEW n \in Notice, n = current
          PROVE  ~(Busy(n) \/ pub[n] \in {"idle", "publishing"})'
      BY <2>0, <2>1, <2>4, <2>5, <3>1 DEF Busy, Queued
    <3> QED BY <2>2, <2>3, <3>1 DEF FreshInv
  <2>6. CASE current' # NoEvent
    <3>1. PICK out \in Outcome : DispatchSend(out)
      BY <1>3, <2>6 DEF DispatchEnqueue, Done, Handled
    <3>2. Learned(out) = "temporary"
      BY <2>6, <3>1 DEF DispatchSend, Done, Handled
    <3>3. out # "ok" /\ out # "refused" BY <3>2, Learns
    <3>4. UNCHANGED <<confirmed, failures, status, filed, current>>
      BY <2>0, <3>1, <3>2, <3>3
      DEF DispatchSend, Called, rowVars, busVars, TypeOK, OutboxTypeOK
    <3> QED BY <2>1, <3>4 DEF FreshInv, Untouched, Holds, Busy, Queued
  <2> QED BY <2>5, <2>6
<1>4. CASE CancelHTTP \/ StopLoop \/ Starts
  <2>1. UNCHANGED <<queue, current, pub, filed, status, todo, cur, confirmed, failures>>
    BY <1>4 DEF CancelHTTP, StopLoop, Starts, busVars, appHistory, rowVars, roundVars, outboxHistory
  <2> QED BY <2>1 DEF FreshInv, Untouched, Holds, Busy, Queued
<1>5. CASE ProcessEnds
  <2>1. /\ UNCHANGED <<status, confirmed, failures, filed>> /\ queue' = <<>> /\ current' = NoEvent
        /\ todo' = [r \in Runner |-> {}] /\ cur' = [r \in Runner |-> NoNotice]
        /\ pub' = [e \in Event |-> IF pub[e] = "idle" THEN "idle" ELSE "dropped"]
    BY <1>5 DEF ProcessEnds, rowVars
  <2>2. \A n \in Notice : ~Busy(n)' BY <2>1 DEF Busy, Queued
  <2> QED BY <2>1, <2>2 DEF FreshInv, Untouched, Holds
<1>6. CASE UNCHANGED vars
  BY <1>6 DEF vars, busVars, outboxVars, rowVars, roundVars, outboxHistory, appHistory,
              FreshInv, Untouched, Holds, Busy, Queued
<1> QED BY <1>1, <1>2, <1>3, <1>4, <1>5, <1>6, StepKinds

-----------------------------------------------------------------------------
(* The outbox.                                                                 *)

LEMMA FiledStep == TypeOK /\ BusInv /\ FiledInv /\ [Next]_vars => FiledInv'
<1> SUFFICES ASSUME TypeOK, BusInv, FiledInv, [Next]_vars PROVE FiledInv'
  OBVIOUS
<1> USE Names DEF TypeOK, OutboxTypeOK
<1>0. ASSUME status' = status, filed' = filed PROVE FiledInv'
  BY <1>0 DEF FiledInv
<1>1. CASE OutboxStep
  <2>1. filed' = filed BY <1>1, OutboxFrame DEF appVars, appHistory
  <2>2. ASSUME NEW n \in Notice PROVE status'[n] # "none" => status[n] # "none"
    <3>1. ASSUME NEW r \in Runner, Save(r) PROVE status'[n] # "none" => status[n] # "none"
      BY <3>1 DEF Save, Settle, rowVars
    <3>2. ASSUME NEW q \in Request, NEW m \in Notice, Redrive(q, m)
          PROVE  status'[n] # "none" => status[n] # "none"
      BY <3>2 DEF Redrive
    <3>3. ASSUME NEW s \in SUBSET (Status \ {"none"}), Clear(s)
          PROVE  status'[n] # "none" => status[n] # "none"
      BY <3>3 DEF Clear
    <3> QED BY <1>1, <3>1, <3>2, <3>3, OutboxSteps
            DEF QueryDue, Retry, RoundOver, RequestGivesUp, ClientLeaves, NextRequest, Tick, rowVars
  <2> QED BY <2>1, <2>2 DEF FiledInv
<1>2. CASE BusStep
  <2>1. filed' = filed
    BY <1>2 DEF BusStep, Publish, PublishAccepted, PublishDropped, RequestEnds, Dispatch,
                OtherHandled, BusEnds, CloseBus, CloseReturns, appVars, appHistory
  <2> QED BY <1>0, <1>2, <2>1, BusFrame DEF outboxVars, rowVars
<1>3. CASE DispatchEnqueue
  <2>1. current \in Notice BY <1>3 DEF DispatchEnqueue, BusInv
  <2> QED BY <1>3, <2>1 DEF DispatchEnqueue, File, rowVars, FiledInv
<1>4. ASSUME NEW out \in Outcome, DispatchSend(out) PROVE FiledInv'
  BY <1>0, <1>4 DEF DispatchSend, rowVars
<1>5. CASE CancelHTTP \/ StopLoop \/ Starts \/ ProcessEnds \/ UNCHANGED vars
  BY <1>0, <1>5 DEF CancelHTTP, StopLoop, Starts, ProcessEnds, vars, outboxVars, rowVars, appHistory
<1> QED BY <1>1, <1>2, <1>3, <1>4, <1>5, StepKinds

\* What no round holds and nothing is done to stays as it is.
LEMMA SameRow ==
  ASSUME NEW n \in Notice, RowInv(n), UNCHANGED <<todo, cur, result>>, ended \subseteq ended',
         UNCHANGED <<status[n], attempts[n], wait[n], failures[n]>>,
         \A r \in Runner : seen'[r][n] = seen[r][n]
  PROVE  RowInv(n)'
BY DEF RowInv, ListedInv, SavedInv, CountInv, Holds

LEMMA FreeRow ==
  ASSUME NEW n \in Notice, \A r \in Runner : ~Holds(r, n)', CountInv(n)'
  PROVE  RowInv(n)'
BY DEF RowInv, ListedInv, SavedInv, Holds

LEMMA OutboxOutboxStep ==
  TypeOK /\ RoundInv /\ OutboxInv /\ OutboxStep => OutboxInv'
<1> SUFFICES ASSUME TypeOK, RoundInv, OutboxInv, OutboxStep, NEW n \in Notice, n \notin clash'
             PROVE  RowInv(n)'
  BY DEF OutboxInv
<1> USE Names, Waits DEF TypeOK, OutboxTypeOK
<1>0. clash \subseteq clash'
  BY OutboxSteps DEF QueryDue, Retry, Save, RoundOver, Redrive, RequestGivesUp, ClientLeaves,
                     NextRequest, Clear, Tick, outboxHistory
<1>1. RowInv(n) BY <1>0 DEF OutboxInv
<1>2. ASSUME NEW r \in Runner, QueryDue(r), pc[r] \in {"idle", "redriven"} PROVE RowInv(n)'
  <2>1. /\ UNCHANGED <<status, attempts, wait, cur, result, ended, failures>>
        /\ todo' = [todo EXCEPT ![r] = Due]
        /\ seen' = [seen EXCEPT ![r] = [m \in Notice |-> IF m \in Due THEN attempts[m] ELSE 0]]
    BY <1>2 DEF QueryDue, rowVars
  <2>2. todo[r] = {} /\ cur[r] # n BY <1>2 DEF RoundInv
  <2>3. n \in Due => \A s \in Runner \ {r} : ~Holds(s, n)
    BY <1>2 DEF QueryDue
  <2>4. \A s \in Runner \ {r} : todo'[s] = todo[s] /\ seen'[s] = seen[s]
    BY <2>1
  <2>5. todo'[r] = Due /\ (n \in Due => seen'[r][n] = attempts[n])
    BY <2>1 DEF Due
  <2>6. n \in Due => status[n] = "pending" /\ wait[n] = 0 BY DEF Due
  <2> QED BY <1>1, <2>1, <2>2, <2>3, <2>4, <2>5, <2>6
          DEF RowInv, ListedInv, SavedInv, CountInv, Holds
<1>3. ASSUME NEW r \in Runner, NEW m \in Notice, NEW out \in Outcome, Retry(r, m, out)
      PROVE  RowInv(n)'
  <2> DEFINE res == Learned(out)
  <2>0. res \in Result BY Learns
  <2>1. /\ UNCHANGED <<status, attempts, wait, seen, ended>>
        /\ pc[r] = "round" /\ m \in todo[r]
        /\ todo' = [todo EXCEPT ![r] = @ \ {m}] /\ cur' = [cur EXCEPT ![r] = m]
        /\ result' = [result EXCEPT ![r] = res]
        /\ failures' = [failures EXCEPT ![m] = IF r \in ended THEN @ ELSE Tally(@, res)]
    BY <1>3 DEF Retry, rowVars
  <2> HIDE DEF res
  <2>2. cur[r] # n /\ cur[r] \notin Notice BY <2>1 DEF RoundInv
  <2>3. \A s \in Runner \ {r} : todo'[s] = todo[s] /\ cur'[s] = cur[s] /\ result'[s] = result[s]
    BY <2>1
  <2>4. todo'[r] = todo[r] \ {m} /\ cur'[r] = m /\ result'[r] = res
    BY <2>1
  <2>5. CASE m = n
    <3>1. \A s \in Runner \ {r} : ~Holds(s, n) BY <1>1, <2>1, <2>5 DEF RowInv, Holds
    <3>2. \A s \in Runner \ {r} : ~Holds(s, n)' BY <2>3, <3>1 DEF Holds
    <3>3. ListedInv(r, n) /\ n \in todo[r] BY <1>1, <2>1, <2>5 DEF RowInv
    <3>4. /\ seen[r][n] \in Nat /\ attempts[n] \in Nat
          /\ failures[n] \in Nat /\ failures'[n] \in Nat /\ failures'[n] >= failures[n]
      BY <2>0, <2>1, <2>5, Tallied
    <3>5. CountInv(n)'
      <4>1. CountInv(n) BY <1>1 DEF RowInv
      <4> QED BY <2>1, <3>4, <4>1 DEF CountInv
    <3>6. r \notin ended => failures'[n] = Tally(failures[n], res)
      BY <2>1, <2>5
    <3>7. r \notin ended /\ res = "temporary" => failures'[n] >= seen[r][n] + 1
      <4>1. failures[n] >= seen[r][n] /\ seen[r][n] <= MaxAttempts
        BY <3>3 DEF ListedInv
      <4>2. res = "temporary" => Tally(failures[n], res) >= seen[r][n] + 1
        <5>1. MaxAttempts \in Nat BY Waits
        <5>2. /\ failures[n] <= MaxAttempts /\ res = "temporary" =>
                   Tally(failures[n], res) = failures[n] + 1
              /\ failures[n] > MaxAttempts /\ res = "temporary" =>
                   Tally(failures[n], res) > MaxAttempts
              /\ Tally(failures[n], res) \in Nat
          BY <2>0, <3>4, Tallied
        <5> QED BY <3>4, <4>1, <5>1, <5>2
      <4> QED BY <3>6, <4>2
    <3>8. r \notin ended /\ res = "refused" => failures'[n] > MaxAttempts
      BY <2>0, <3>4, <3>6, Tallied
    <3>9. SavedInv(r, n)'
      BY <2>1, <2>4, <3>3, <3>7, <3>8 DEF SavedInv, ListedInv
    <3> QED BY <2>4, <2>5, <3>2, <3>5, <3>9 DEF RowInv, ListedInv, SavedInv, Holds
  <2>6. CASE m # n
    <3>1. failures'[n] = failures[n] BY <2>1, <2>6
    <3> QED BY <1>1, <2>1, <2>2, <2>3, <2>4, <2>6, <3>1
            DEF RowInv, ListedInv, SavedInv, CountInv, Holds
  <2> QED BY <2>5, <2>6
<1>4. ASSUME NEW r \in Runner, Save(r) PROVE RowInv(n)'
  <2> DEFINE m == cur[r]
  <2>1. /\ UNCHANGED <<todo, ended, failures>> /\ pc[r] = "saving"
        /\ cur' = [cur EXCEPT ![r] = NoNotice] /\ result' = [result EXCEPT ![r] = "ok"]
        /\ seen' = [seen EXCEPT ![r][m] = 0]
    BY <1>4 DEF Save
  <2>2. m \in Notice /\ m \notin todo[r] BY <2>1 DEF RoundInv
  <2>3. \A s \in Runner \ {r} : cur'[s] = cur[s] /\ result'[s] = result[s] /\ seen'[s] = seen[s]
    BY <2>1
  <2>4. cur'[r] = NoNotice BY <2>1
  <2>5. CASE m = n
    <3>1. \A s \in Runner \ {r} : ~Holds(s, n) BY <1>1, <2>5 DEF RowInv, Holds
    <3>2. \A s \in Runner : ~Holds(s, n)'
      BY <2>1, <2>2, <2>3, <2>4, <2>5, <3>1 DEF Holds
    <3>3. CASE UNCHANGED rowVars
      BY <1>1, <2>1, <3>2, <3>3, FreeRow DEF rowVars, RowInv, CountInv
    <3>4. CASE r \notin ended /\ status[n] # "none" /\ Settle(n, seen[r][n] + 1, result[r])
      <4>1. /\ result[r] = "temporary" => failures[n] >= seen[r][n] + 1
            /\ result[r] = "refused" => failures[n] > MaxAttempts
        BY <1>1, <2>5, <3>4 DEF RowInv, SavedInv
      <4>2. seen[r][n] \in Nat /\ failures[n] \in Nat /\ result[r] \in Result
        OBVIOUS
      <4>3. /\ result[r] = "ok" => status'[n] = "sent"
            /\ result[r] = "temporary" /\ seen[r][n] + 1 <= MaxAttempts =>
                 status'[n] = "pending" /\ attempts'[n] = seen[r][n] + 1
            /\ result[r] = "temporary" /\ ~(seen[r][n] + 1 <= MaxAttempts) => status'[n] = "failed"
            /\ result[r] = "refused" => status'[n] = "failed"
        BY <3>4 DEF Settle
      <4>4. CountInv(n)' BY <2>1, <4>1, <4>2, <4>3 DEF CountInv, Result
      <4> QED BY <3>2, <4>4, FreeRow
    <3> QED BY <1>4, <2>5, <3>3, <3>4 DEF Save
  <2>6. CASE m # n
    <3>1. UNCHANGED <<status[n], attempts[n], wait[n]>>
      BY <1>4, <2>2, <2>6 DEF Save, Settle, rowVars
    <3>2. seen'[r][n] = seen[r][n] BY <2>1, <2>2, <2>6
    <3> QED BY <1>1, <2>1, <2>3, <2>4, <2>6, <3>1, <3>2
            DEF RowInv, ListedInv, SavedInv, CountInv, Holds
  <2> QED BY <2>5, <2>6
<1>5. ASSUME NEW r \in Runner, RoundOver(r) PROVE RowInv(n)'
  BY <1>1, <1>5, SameRow DEF RoundOver, rowVars, outboxHistory
<1>6. ASSUME NEW q \in Request, NEW m \in Notice, Redrive(q, m) PROVE RowInv(n)'
  <2>1. /\ UNCHANGED <<todo, seen, cur, result, ended>> /\ status[m] = "failed"
        /\ status' = [status EXCEPT ![m] = "pending"] /\ attempts' = [attempts EXCEPT ![m] = 0]
        /\ wait' = [wait EXCEPT ![m] = 0] /\ failures' = [failures EXCEPT ![m] = 0]
    BY <1>6 DEF Redrive
  <2>2. CASE m # n
    BY <1>1, <2>1, <2>2, SameRow
  <2>3. CASE m = n
    <3>1. \A r \in Runner : ~Holds(r, n)
      BY <1>1, <2>1, <2>3 DEF RowInv, ListedInv, SavedInv, Holds
    <3>2. \A r \in Runner : ~Holds(r, n)' BY <2>1, <3>1 DEF Holds
    <3>3. status'[n] = "pending" /\ attempts'[n] = 0 /\ failures'[n] = 0
      BY <2>1, <2>3
    <3>4. CountInv(n)' BY <3>3 DEF CountInv
    <3> QED BY <3>2, <3>4, FreeRow
  <2> QED BY <2>2, <2>3
<1>7. ASSUME NEW q \in Request, RequestGivesUp(q) \/ ClientLeaves(q) PROVE RowInv(n)'
  <2>1. UNCHANGED <<status, attempts, wait, todo, seen, cur, result, failures>> /\ ended \subseteq ended'
    BY <1>7 DEF RequestGivesUp, ClientLeaves, rowVars, roundVars, outboxHistory
  <2> QED BY <1>1, <2>1, SameRow
<1>8. ASSUME NEW q \in Request, NextRequest(q) PROVE RowInv(n)'
  <2>1. /\ UNCHANGED <<status, attempts, wait, todo, cur, result, seen, failures>>
        /\ ended' = ended \ {q} /\ cur[q] # n
    BY <1>8 DEF NextRequest, rowVars, roundVars, outboxHistory, RoundInv
  <2> QED BY <1>1, <2>1 DEF RowInv, ListedInv, SavedInv, CountInv, Holds
<1>9. ASSUME NEW s \in SUBSET (Status \ {"none"}), Clear(s) PROVE RowInv(n)'
  <2>1. /\ UNCHANGED <<todo, cur, result, ended, seen, failures>>
        /\ \/ UNCHANGED <<status[n], attempts[n], wait[n]>>
           \/ status'[n] = "none" /\ attempts'[n] = 0 /\ wait'[n] = 0
    BY <1>9 DEF Clear, roundVars, outboxHistory
  <2> QED BY <1>1, <2>1 DEF RowInv, ListedInv, SavedInv, CountInv, Holds
<1>10. CASE Tick
  <2>1. /\ UNCHANGED <<status, attempts, todo, cur, result, ended, seen, failures>>
        /\ wait[n] = 0 => wait'[n] = 0
    BY <1>10 DEF Tick, roundVars, outboxHistory
  <2> QED BY <1>1, <2>1 DEF RowInv, ListedInv, SavedInv, CountInv, Holds
<1> QED BY <1>2, <1>3, <1>4, <1>5, <1>6, <1>7, <1>8, <1>9, <1>10, OutboxSteps

LEMMA OutboxInvStep ==
  TypeOK /\ BusInv /\ FlowInv /\ FreshInv /\ RoundInv /\ OutboxInv /\ [Next]_vars => OutboxInv'
<1> SUFFICES ASSUME TypeOK, BusInv, FlowInv, FreshInv, RoundInv, OutboxInv, [Next]_vars
             PROVE  OutboxInv'
  OBVIOUS
<1> USE Names, Waits DEF TypeOK, OutboxTypeOK
<1>0. ASSUME UNCHANGED <<rowVars, roundVars, clash, failures>>, ended \subseteq ended'
      PROVE  OutboxInv'
  BY <1>0, SameRow DEF OutboxInv, rowVars, roundVars
<1>1. CASE OutboxStep
  BY <1>1, OutboxOutboxStep
<1>2. CASE BusStep \/ UNCHANGED vars
  BY <1>0, <1>2, BusFrame DEF vars, outboxVars, outboxHistory
<1>3. ASSUME DispatchEnqueue \/ \E out \in Outcome : DispatchSend(out) PROVE OutboxInv'
  <2>1. current \in Notice BY <1>3 DEF DispatchEnqueue, DispatchSend, BusInv
  <2>2. Untouched(current) BY <2>1 DEF FreshInv, Busy
  <2>3. UNCHANGED <<todo, seen, cur, result, ended, clash>>
    BY <1>3 DEF DispatchEnqueue, DispatchSend, roundVars, outboxHistory
  <2>4. ASSUME NEW n \in Notice \ clash PROVE RowInv(n)'
    <3>1. CASE n # current
      <4>1. UNCHANGED <<status[n], attempts[n], wait[n], failures[n]>>
        BY <1>3, <2>1, <3>1 DEF DispatchEnqueue, DispatchSend, File, rowVars, outboxHistory
      <4> QED BY <2>3, <2>4, <4>1, SameRow DEF OutboxInv
    <3>2. CASE n = current
      <4>1. \A r \in Runner : ~Holds(r, n)' BY <2>2, <2>3, <3>2 DEF Untouched, Holds
      <4>2. CASE DispatchEnqueue
        <5>1. status'[n] = "none" \/ (status'[n] = "pending" /\ attempts'[n] = 0)
          BY <2>1, <2>2, <3>2, <4>2 DEF DispatchEnqueue, File, rowVars, Untouched
        <5>2. failures'[n] = 0
          BY <2>2, <3>2, <4>2 DEF DispatchEnqueue, outboxHistory, Untouched
        <5>3. CountInv(n)' BY <5>1, <5>2 DEF CountInv
        <5> QED BY <4>1, <5>3, FreeRow
      <4>3. ASSUME NEW out \in Outcome, DispatchSend(out) PROVE RowInv(n)'
        <5>1. status'[n] = "none"
          BY <2>2, <3>2, <4>3 DEF DispatchSend, rowVars, Untouched
        <5> QED BY <4>1, <5>1, FreeRow DEF CountInv
      <4> QED BY <1>3, <4>2, <4>3
    <3> QED BY <3>1, <3>2
  <2> QED BY <2>3, <2>4 DEF OutboxInv
<1>4. CASE CancelHTTP \/ StopLoop
  BY <1>0, <1>4 DEF CancelHTTP, StopLoop, outboxHistory
<1>5. CASE Starts
  <2>1. /\ UNCHANGED <<status, attempts, wait, todo, cur, clash, failures>>
        /\ \A r \in Runner : todo[r] = {} /\ cur[r] \notin Notice
    BY <1>5 DEF Starts, rowVars, roundVars, outboxHistory, RoundInv
  <2> QED BY <2>1, FreeRow DEF OutboxInv, RowInv, CountInv, Holds
<1>6. CASE ProcessEnds
  <2>1. /\ UNCHANGED <<status, attempts, clash, failures>>
        /\ todo' = [r \in Runner |-> {}] /\ cur' = [r \in Runner |-> NoNotice]
    BY <1>6 DEF ProcessEnds, rowVars
  <2>2. \A n \in Notice, r \in Runner : ~Holds(r, n)' BY <2>1 DEF Holds
  <2> QED BY <2>1, <2>2, FreeRow DEF OutboxInv, RowInv, CountInv
<1> QED BY <1>1, <1>2, <1>3, <1>4, <1>5, <1>6, StepKinds

-----------------------------------------------------------------------------
(* What the receiver has confirmed.                                            *)

LEMMA DeliveryOutboxStep ==
  TypeOK /\ RoundInv /\ OutboxInv /\ DeliveryInv /\ OutboxStep => DeliveryInv'
<1> SUFFICES ASSUME TypeOK, RoundInv, OutboxInv, DeliveryInv, OutboxStep,
                    NEW n \in Notice, n \notin clash', n \notin unsaved'
             PROVE  ConfirmedInv(n)'
  BY DEF DeliveryInv, ConfirmedInv
<1> USE Names DEF TypeOK, OutboxTypeOK
<1>0. clash \subseteq clash' /\ unsaved \subseteq unsaved'
  BY OutboxSteps DEF QueryDue, Retry, Save, RoundOver, Redrive, RequestGivesUp, ClientLeaves,
                     NextRequest, Clear, Tick, outboxHistory
<1>1. RowInv(n) /\ ConfirmedInv(n) BY <1>0 DEF OutboxInv, DeliveryInv
<1>a. ASSUME NEW r \in Runner, NEW m \in Notice, NEW out \in Outcome, Retry(r, m, out)
      PROVE  /\ n \notin repeated' /\ (n \in confirmed' => n \in confirmed \/ m = n)
             /\ m = n /\ n \in confirmed' => n \notin confirmed /\ Learned(out) = "ok"
  <2>1. m \in todo[r] /\ Called(m, out) BY <1>a DEF Retry
  <2>2. m = n => n \notin confirmed BY <1>1, <2>1 DEF ConfirmedInv
  <2> QED BY <1>1, <2>1, <2>2, Confirmed, Learns DEF ConfirmedInv
<1>b. n \notin repeated'
  <2>1. CASE repeated' = repeated BY <1>1, <2>1 DEF ConfirmedInv
  <2> QED BY <1>a, <2>1, OutboxSteps
          DEF QueryDue, Save, RoundOver, Redrive, RequestGivesUp, ClientLeaves, NextRequest,
              Clear, Tick, outboxHistory
<1> SUFFICES ASSUME n \in confirmed' PROVE ConfirmedInv(n)'
  BY <1>b DEF ConfirmedInv
<1>2. ASSUME NEW r \in Runner, QueryDue(r), pc[r] \in {"idle", "redriven"}
      PROVE  ConfirmedInv(n)'
  <2>1. /\ UNCHANGED <<status, cur, result, confirmed>>
        /\ todo' = [todo EXCEPT ![r] = Due]
        /\ n \in Due => \A s \in Runner \ {r} : ~Holds(s, n)
    BY <1>2 DEF QueryDue, rowVars
  <2>2. cur[r] # n BY <1>2 DEF RoundInv
  <2>3. n \notin Due
    BY <1>1, <2>1, <2>2 DEF ConfirmedInv, Due, Holds
  <2> QED BY <1>1, <1>b, <2>1, <2>3 DEF ConfirmedInv
<1>3. ASSUME NEW r \in Runner, NEW m \in Notice, NEW out \in Outcome, Retry(r, m, out)
      PROVE  ConfirmedInv(n)'
  <2>1. /\ UNCHANGED <<status>> /\ pc[r] = "round" /\ m \in todo[r]
        /\ todo' = [todo EXCEPT ![r] = @ \ {m}] /\ cur' = [cur EXCEPT ![r] = m]
        /\ result' = [result EXCEPT ![r] = Learned(out)]
    BY <1>3 DEF Retry, rowVars
  <2>2. cur[r] # n BY <2>1 DEF RoundInv
  <2>3. CASE m = n
    <3>2. Learned(out) = "ok" BY <1>3, <1>a, <2>3
    <3>3. \A s \in Runner : n \notin todo'[s]
      BY <1>1, <2>1, <2>3 DEF RowInv, Holds
    <3>4. cur'[r] = n /\ result'[r] = "ok" BY <2>1, <2>3, <3>2
    <3> QED BY <1>b, <3>3, <3>4 DEF ConfirmedInv
  <2>4. CASE m # n
    <3>1. n \in confirmed BY <1>3, <1>a, <2>4
    <3>2. \A s \in Runner : cur[s] = n => cur'[s] = n /\ result'[s] = result[s]
      BY <2>1, <2>2
    <3>3. \A s \in Runner : n \notin todo[s] => n \notin todo'[s]
      BY <2>1
    <3> QED BY <1>1, <1>b, <2>1, <3>1, <3>2, <3>3 DEF ConfirmedInv
  <2> QED BY <2>3, <2>4
<1>4. ASSUME NEW r \in Runner, Save(r) PROVE ConfirmedInv(n)'
  <2> DEFINE m == cur[r]
  <2>1. /\ UNCHANGED <<todo, confirmed>> /\ pc[r] = "saving"
        /\ cur' = [cur EXCEPT ![r] = NoNotice] /\ result' = [result EXCEPT ![r] = "ok"]
        /\ unsaved' = IF r \in ended THEN unsaved \cup {m} ELSE unsaved
    BY <1>4 DEF Save
  <2>2. m \in Notice BY <2>1 DEF RoundInv
  <2>3. CASE m = n
    <3>1. r \notin ended BY <2>1, <2>3
    <3>2. CASE status[n] = "none"
      <4>1. status'[n] = "none" BY <1>4, <2>3, <3>2 DEF Save, rowVars
      <4> QED BY <1>1, <1>b, <2>1, <4>1 DEF ConfirmedInv
    <3>3. CASE status[n] # "none"
      <4>1. status[n] = "pending" BY <1>1, <2>3, <3>3 DEF RowInv, SavedInv
      <4>2. result[r] = "ok"
        BY <1>1, <2>1, <2>3, <4>1 DEF ConfirmedInv, RowInv, Holds
      <4>3. status'[n] = "sent"
        BY <1>4, <2>3, <3>1, <3>3, <4>2 DEF Save, Settle
      <4> QED BY <1>1, <1>b, <2>1, <4>3 DEF ConfirmedInv
    <3> QED BY <3>2, <3>3
  <2>4. CASE m # n
    <3>1. status'[n] = status[n]
      BY <1>4, <2>2, <2>4 DEF Save, Settle, rowVars
    <3>2. \A s \in Runner : cur[s] = n => cur'[s] = n /\ result'[s] = result[s]
      BY <2>1, <2>4
    <3> QED BY <1>1, <1>b, <2>1, <3>1, <3>2 DEF ConfirmedInv
  <2> QED BY <2>3, <2>4
<1>5. ASSUME NEW q \in Request, NEW m \in Notice, Redrive(q, m) PROVE ConfirmedInv(n)'
  <2>1. /\ UNCHANGED <<todo, cur, result, confirmed>> /\ status[m] = "failed"
        /\ status' = [status EXCEPT ![m] = "pending"]
    BY <1>5 DEF Redrive
  <2>2. m # n
    BY <1>1, <2>1 DEF ConfirmedInv, RowInv, SavedInv
  <2> QED BY <1>1, <1>b, <2>1, <2>2 DEF ConfirmedInv
<1>6. ASSUME NEW s \in SUBSET (Status \ {"none"}), Clear(s) PROVE ConfirmedInv(n)'
  <2>1. /\ UNCHANGED <<todo, cur, result, confirmed>>
        /\ status'[n] = status[n] \/ status'[n] = "none"
    BY <1>6 DEF Clear, roundVars, outboxHistory
  <2> QED BY <1>1, <1>b, <2>1 DEF ConfirmedInv
<1>7. ASSUME UNCHANGED <<status, todo, cur, result, confirmed>> PROVE ConfirmedInv(n)'
  BY <1>1, <1>b, <1>7 DEF ConfirmedInv
<1>8. ASSUME NEW r \in Runner, RoundOver(r) PROVE ConfirmedInv(n)'
  BY <1>7, <1>8 DEF RoundOver, rowVars, outboxHistory
<1>9. ASSUME NEW q \in Request, RequestGivesUp(q) \/ ClientLeaves(q) \/ NextRequest(q)
      PROVE  ConfirmedInv(n)'
  BY <1>7, <1>9
  DEF RequestGivesUp, ClientLeaves, NextRequest, rowVars, roundVars, outboxHistory
<1>10. CASE Tick
  BY <1>7, <1>10 DEF Tick, roundVars, outboxHistory
<1> QED BY <1>2, <1>3, <1>4, <1>5, <1>6, <1>8, <1>9, <1>10, OutboxSteps

LEMMA DeliveryStep ==
  /\ TypeOK /\ BusInv /\ FlowInv /\ FreshInv /\ RoundInv /\ FiledInv /\ OutboxInv /\ DeliveryInv
  /\ [Next]_vars
  => DeliveryInv'
<1> SUFFICES ASSUME TypeOK, BusInv, FlowInv, FreshInv, RoundInv, OutboxInv, DeliveryInv, [Next]_vars
             PROVE  DeliveryInv'
  OBVIOUS
<1> USE Names DEF TypeOK, OutboxTypeOK
<1>0. ASSUME UNCHANGED <<status, todo, cur, result, confirmed, repeated, clash, unsaved>>
      PROVE  DeliveryInv'
  BY <1>0 DEF DeliveryInv, ConfirmedInv
<1>1. CASE OutboxStep
  BY <1>1, DeliveryOutboxStep
<1>2. CASE BusStep \/ UNCHANGED vars
  BY <1>0, <1>2, BusFrame DEF vars, outboxVars, rowVars, roundVars, outboxHistory
<1>3. ASSUME DispatchEnqueue \/ \E out \in Outcome : DispatchSend(out) PROVE DeliveryInv'
  <2>1. current \in Notice BY <1>3 DEF DispatchEnqueue, DispatchSend, BusInv
  <2>2. Untouched(current) BY <2>1 DEF FreshInv, Busy
  <2>3. UNCHANGED <<todo, cur, result, clash, unsaved>>
    BY <1>3 DEF DispatchEnqueue, DispatchSend, roundVars, outboxHistory
  <2>4. ASSUME NEW n \in Notice \ (clash \cup unsaved) PROVE ConfirmedInv(n)'
    <3>1. CASE n # current
      <4>1. /\ status'[n] = status[n] /\ (n \in confirmed' => n \in confirmed)
            /\ n \in repeated' => n \in repeated
        BY <1>3, <2>1, <3>1, Confirmed
        DEF DispatchEnqueue, DispatchSend, File, rowVars, outboxHistory
      <4> QED BY <2>3, <2>4, <4>1 DEF DeliveryInv, ConfirmedInv
    <3>2. CASE n = current
      <4>1. \A r \in Runner : n \notin todo'[r] BY <2>2, <2>3, <3>2 DEF Untouched, Holds
      <4>2. CASE DispatchEnqueue
        BY <2>2, <2>4, <3>2, <4>2
        DEF DispatchEnqueue, outboxHistory, Untouched, ConfirmedInv, DeliveryInv
      <4>3. ASSUME NEW out \in Outcome, DispatchSend(out) PROVE ConfirmedInv(n)'
        <5>1. status'[n] = "none"
          BY <2>2, <3>2, <4>3 DEF DispatchSend, rowVars, Untouched
        <5>2. repeated' = repeated
          BY <2>1, <2>2, <3>2, <4>3, Confirmed DEF DispatchSend, Untouched
        <5>3. n \notin repeated BY <2>4 DEF DeliveryInv, ConfirmedInv
        <5> QED BY <4>1, <5>1, <5>2, <5>3 DEF ConfirmedInv
      <4> QED BY <1>3, <4>2, <4>3
    <3> QED BY <3>1, <3>2
  <2> QED BY <2>3, <2>4 DEF DeliveryInv
<1>4. CASE CancelHTTP \/ StopLoop \/ Starts
  BY <1>0, <1>4 DEF CancelHTTP, StopLoop, Starts, rowVars, roundVars, outboxHistory
<1>5. CASE ProcessEnds
  <2>1. /\ UNCHANGED <<status, confirmed, repeated, clash>> /\ todo' = [r \in Runner |-> {}]
        /\ unsaved' = unsaved \cup {n \in Notice : \E r \in Runner : cur[r] = n}
    BY <1>5 DEF ProcessEnds, rowVars
  <2> QED BY <2>1 DEF DeliveryInv, ConfirmedInv
<1> QED BY <1>1, <1>2, <1>3, <1>4, <1>5, StepKinds

-----------------------------------------------------------------------------
(* What the Dispatcher is through with.                                        *)

LEMMA AccountedStep ==
  TypeOK /\ BusInv /\ FiledInv /\ Accounted /\ [Next]_vars => Accounted'
<1> SUFFICES ASSUME TypeOK, BusInv, FiledInv, Accounted, [Next]_vars PROVE Accounted'
  OBVIOUS
<1> USE Names, Waits DEF TypeOK, OutboxTypeOK
<1>1. CASE OutboxStep
  <2>1. UNCHANGED <<handled, filed, over, phase>>
    BY <1>1, OutboxFrame DEF appVars, appHistory
  <2>2. ASSUME NEW n \in Notice, n \notin filed
        PROVE  (n \in confirmed => n \in confirmed') /\ (failures[n] > 0 => failures'[n] > 0)
    <3>1. ASSUME NEW r \in Runner, NEW m \in Notice, NEW out \in Outcome, Retry(r, m, out)
          PROVE  (n \in confirmed => n \in confirmed') /\ (failures[n] > 0 => failures'[n] > 0)
      <4>1. n \in confirmed => n \in confirmed' BY <3>1, Confirmed DEF Retry
      <4>2. failures'[n] = failures[n] \/ failures'[n] = Tally(failures[n], Learned(out))
        BY <3>1 DEF Retry
      <4> QED BY <4>1, <4>2, Tallied, Learns
    <3>2. ASSUME NEW q \in Request, NEW m \in Notice, Redrive(q, m)
          PROVE  (n \in confirmed => n \in confirmed') /\ (failures[n] > 0 => failures'[n] > 0)
      <4>1. m # n BY <2>2, <3>2 DEF Redrive, FiledInv
      <4> QED BY <3>2, <4>1 DEF Redrive
    <3>3. ASSUME confirmed' = confirmed, failures' = failures
          PROVE  (n \in confirmed => n \in confirmed') /\ (failures[n] > 0 => failures'[n] > 0)
      BY <3>3
    <3> QED BY <1>1, <3>1, <3>2, <3>3, OutboxSteps
            DEF QueryDue, Save, RoundOver, RequestGivesUp, ClientLeaves, NextRequest, Clear, Tick,
                outboxHistory
  <2> QED BY <2>1, <2>2 DEF Accounted
<1>2. CASE BusStep
  <2>1. UNCHANGED <<confirmed, failures>>
    BY <1>2, BusFrame DEF outboxVars, outboxHistory
  <2>2. /\ handled' \cap Notice = handled \cap Notice /\ filed' = filed /\ over \subseteq over'
        /\ phase = "down" => phase' = "down"
    BY <1>2 DEF BusStep, Publish, PublishAccepted, PublishDropped, RequestEnds, Dispatch,
                OtherHandled, Done, BusEnds, CloseBus, CloseReturns, appVars, appHistory
  <2> QED BY <2>1, <2>2 DEF Accounted
<1>3. CASE DispatchEnqueue
  <2>1. current \in Notice BY <1>3 DEF DispatchEnqueue, BusInv
  <2>2. /\ UNCHANGED <<confirmed, failures, over, phase>> /\ handled' = handled \cup {current}
        /\ filed \subseteq filed'
        /\ current \in over \/ phase = "down" \/ current \in filed'
    BY <1>3 DEF DispatchEnqueue, Done, outboxHistory
  <2> QED BY <2>1, <2>2 DEF Accounted
<1>4. ASSUME NEW out \in Outcome, DispatchSend(out) PROVE Accounted'
  <2>1. current \in Notice BY <1>4 DEF DispatchSend, BusInv
  <2>2. UNCHANGED <<over, phase, filed>> BY <1>4 DEF DispatchSend
  <2>3. \A n \in Notice :
          /\ n \in confirmed => n \in confirmed'
          /\ failures[n] > 0 => failures'[n] > 0
    BY <1>4, <2>1, Confirmed DEF DispatchSend
  <2>4. CASE Learned(out) = "temporary"
    BY <1>4, <2>2, <2>3, <2>4 DEF DispatchSend, Accounted
  <2>5. CASE Learned(out) # "temporary"
    <3>1. handled' = handled \cup {current} BY <1>4, <2>5 DEF DispatchSend, Done
    <3>2. current \in confirmed' \/ failures'[current] > 0
      <4>1. out = "ok" \/ out = "refused" BY <2>5 DEF Learned, Outcome, Result
      <4> QED BY <1>4, <2>1, <4>1 DEF DispatchSend, Called
    <3> QED BY <2>1, <2>2, <2>3, <3>1, <3>2 DEF Accounted
  <2> QED BY <2>4, <2>5
<1>5. CASE CancelHTTP \/ StopLoop \/ Starts
  <2>1. /\ UNCHANGED <<handled, filed, confirmed, failures>> /\ over \subseteq over'
        /\ phase # "down"
    BY <1>5 DEF CancelHTTP, StopLoop, Starts, appHistory, outboxHistory
  <2> QED BY <2>1 DEF Accounted
<1>6. CASE ProcessEnds
  BY <1>6 DEF ProcessEnds, Accounted
<1>7. CASE UNCHANGED vars
  BY <1>7 DEF vars, outboxVars, outboxHistory, appHistory, Accounted
<1> QED BY <1>1, <1>2, <1>3, <1>4, <1>5, <1>6, <1>7, StepKinds

-----------------------------------------------------------------------------
(* The theorems.                                                               *)

LEMMA InitIInv == Init => IInv
<1> SUFFICES ASSUME Init PROVE IInv OBVIOUS
<1> USE Names DEF Init, BusInit, OutboxInit, NoRound
<1>1. \A e \in Event : ~Busy(e) BY DEF Busy, Queued
<1>2. BusInv /\ FlowInv BY <1>1 DEF BusInv, FlowInv, Distinct, Queued
<1>3. \A n \in Notice : Untouched(n) BY DEF Untouched, Holds
<1>4. FreshInv /\ FiledInv BY <1>3 DEF FreshInv, FiledInv
<1>5. RoundInv BY DEF RoundInv
<1>6. OutboxInv BY FreeRow DEF OutboxInv, RowInv, ListedInv, SavedInv, CountInv, Holds
<1>7. DeliveryInv BY DEF DeliveryInv, ConfirmedInv
<1>8. Accounted BY DEF Accounted
<1> QED BY <1>2, <1>4, <1>5, <1>6, <1>7, <1>8, InitType DEF IInv

THEOREM Inductive == Spec => []IInv
<1>1. IInv /\ [Next]_vars => IInv'
  BY TypeStep, BusInvStep, FreshStep, RoundInvStep, FiledStep, OutboxInvStep, DeliveryStep,
     AccountedStep
  DEF IInv
<1> QED BY <1>1, InitIInv, PTL DEF Spec

\* Types are kept.
THEOREM TypesKept == Spec => []TypeOK
BY Inductive, PTL DEF IInv

\* When Close has seen the bus's goroutine go, what was accepted before it was
\* called has been handled.
THEOREM ClosingDrains == Spec => []CloseDrains
<1>1. IInv => CloseDrains BY DEF IInv, BusInv, CloseDrains
<1> QED BY <1>1, Inductive, PTL

\* A failed notice is in the outbox, unless it was lost with its publisher's
\* context or with the process.
THEOREM FailuresAccounted == Spec => []Accounted
BY Inductive, PTL DEF IInv

\* Failures, lost answers, waits, re-drives, crashes and restarts do not have a
\* confirmed notice sent again, where no two rounds hold its row and no result is lost.
THEOREM ConfirmationsFinal == Spec => []ConfirmedIsFinal
<1>1. IInv => ConfirmedIsFinal
  BY DEF IInv, TypeOK, OutboxTypeOK, DeliveryInv, ConfirmedInv, ConfirmedIsFinal
<1> QED BY <1>1, Inductive, PTL

\* A row is given up only when it has been refused or has failed MaxAttempts + 1
\* times.
THEOREM GivenUpLate == Spec => []RetriedInFull
<1>1. IInv => RetriedInFull
  BY DEF IInv, OutboxInv, RowInv, CountInv, RetriedInFull
<1> QED BY <1>1, Inductive, PTL

\* A row is retried when it is due.
THEOREM RetriesWhenDue == Spec => RetriedWhenDue
<1>1. ASSUME IInv, [Next]_vars, NEW r \in Runner, NEW n \in Notice \ clash,
             cur[r] # n, cur'[r] = n
      PROVE  status[n] = "none" \/ (status[n] = "pending" /\ wait[n] = 0)
  <2> USE Names DEF IInv, TypeOK, OutboxTypeOK
  <2>1. OutboxStep
    BY <1>1, StepKinds, BusFrame
    DEF DispatchEnqueue, DispatchSend, CancelHTTP, StopLoop, Starts, ProcessEnds, vars, outboxVars,
        roundVars
  <2>2. PICK s \in Runner, m \in Notice, out \in Outcome : Retry(s, m, out)
    BY <1>1, <2>1, OutboxSteps
    DEF QueryDue, Save, RoundOver, Redrive, RequestGivesUp, ClientLeaves, NextRequest, Clear, Tick,
        roundVars
  <2>3. s = r /\ m = n /\ n \in todo[r] BY <1>1, <2>2 DEF Retry
  <2> QED BY <1>1, <2>3 DEF OutboxInv, RowInv, ListedInv
<1>2. IInv /\ [Next]_vars =>
        [\A r \in Runner, n \in Notice \ clash :
           cur[r] # n /\ cur'[r] = n =>
             status[n] = "none" \/ (status[n] = "pending" /\ wait[n] = 0)]_vars
  BY <1>1
<1> QED BY <1>2, Inductive, PTL DEF RetriedWhenDue, Spec

-----------------------------------------------------------------------------
(* The bus is a Mailbox: the event that is being dispatched is the first of    *)
(* what waits.                                                                 *)

LEMMA OneAhead ==
  ASSUME NEW x \in Event, NEW q \in Seq(Event)
  PROVE  /\ <<x>> \o q \in Seq(Event) /\ Len(<<x>> \o q) = Len(q) + 1 /\ <<x>> \o q # <<>>
         /\ Tail(<<x>> \o q) = q
<1>1. /\ <<x>> \o q \in Seq(Event) /\ Len(<<x>> \o q) = Len(q) + 1
      /\ \A i \in 1..Len(q) + 1 : (<<x>> \o q)[i] = IF i = 1 THEN x ELSE q[i - 1]
  OBVIOUS
<1>2. <<x>> \o q # <<>>
  BY <1>1
<1>3. Tail(<<x>> \o q) = q
  <2>1. Tail(<<x>> \o q) \in Seq(Event) /\ Len(Tail(<<x>> \o q)) = Len(q)
    BY <1>1, <1>2
  <2>2. \A i \in 1..Len(q) : Tail(<<x>> \o q)[i] = q[i]
    BY <1>1, <1>2
  <2> QED BY <2>1, <2>2
<1> QED BY <1>1, <1>2, <1>3

LEMMA AppendBehind ==
  ASSUME NEW x \in Event, NEW q \in Seq(Event), NEW e \in Event
  PROVE  Append(<<x>> \o q, e) = <<x>> \o Append(q, e)
<1> DEFINE a == Append(<<x>> \o q, e)
           b == <<x>> \o Append(q, e)
<1>1. a \in Seq(Event) /\ b \in Seq(Event) /\ Len(a) = Len(q) + 2 /\ Len(b) = Len(q) + 2
  OBVIOUS
<1>2. \A i \in 1..Len(q) + 2 : a[i] = b[i]
  OBVIOUS
<1> QED BY <1>1, <1>2

LEMMA HeadAhead ==
  ASSUME NEW q \in Seq(Event), q # <<>> PROVE <<Head(q)>> \o Tail(q) = q
<1>1. Head(q) \in Event /\ Tail(q) \in Seq(Event) /\ Len(Tail(q)) = Len(q) - 1 /\ Len(q) \in Nat \ {0}
      /\ \A i \in 1..Len(q) - 1 : Tail(q)[i] = q[i + 1]
  OBVIOUS
<1>2. Len(<<Head(q)>> \o Tail(q)) = Len(q)
  BY <1>1
<1>3. \A i \in 1..Len(q) : (<<Head(q)>> \o Tail(q))[i] = q[i]
  BY <1>1
<1>4. <<Head(q)>> \o Tail(q) \in Seq(Event)
  BY <1>1
<1> QED BY <1>2, <1>3, <1>4

LEMMA MailStep ==
  ASSUME TypeOK, BusInv, [Next]_vars PROVE Mail!Next \/ UNCHANGED Mail!vars
<1> USE Names
<1>0. queue \in Seq(Event) /\ current \in Event \cup {NoEvent} /\ Len(queue) <= Capacity
  BY DEF TypeOK, BusTypeOK
<1>1. ASSUME UNCHANGED busVars PROVE UNCHANGED Mail!vars
  BY <1>1 DEF busVars, Pending, Mail!vars
<1>2. ASSUME NEW e \in Event, PublishAccepted(e) PROVE Mail!Next
  <2>1. /\ Len(queue) < Capacity /\ queue' = Append(queue, e)
        /\ UNCHANGED <<current, closed, gone>>
    BY <1>2 DEF PublishAccepted, Accept
  <2>2. Len(Pending) <= Capacity /\ Pending' = Append(Pending, e)
    BY <1>0, <2>1, OneAhead, AppendBehind DEF Pending
  <2> QED BY <2>1, <2>2 DEF Mail!Next, Mail!Put
<1>3. CASE Dispatch
  <2>1. /\ current = NoEvent /\ queue # <<>> /\ current' = Head(queue) /\ queue' = Tail(queue)
        /\ UNCHANGED <<closed, gone>>
    BY <1>3 DEF Dispatch, Take
  <2>2. current' \in Event
    BY <1>0, <2>1
  <2>3. Pending' = Pending
    BY <1>0, <2>1, <2>2, HeadAhead DEF Pending
  <2> QED BY <2>1, <2>3 DEF Mail!vars
<1>4. ASSUME current # NoEvent, Handled PROVE Mail!Next
  <2>1. current \in Event /\ current' = NoEvent /\ UNCHANGED <<queue, closed, gone>> /\ ~gone
    BY <1>0, <1>4 DEF Handled, BusInv
  <2>2. Pending # <<>> /\ Pending' = Tail(Pending)
    BY <1>0, <1>4, <2>1, OneAhead DEF Pending
  <2> QED BY <2>1, <2>2 DEF Mail!Next, Mail!Handle
<1>5. ASSUME OtherHandled \/ DispatchEnqueue \/ \E out \in Outcome : DispatchSend(out)
      PROVE  Mail!Next \/ UNCHANGED Mail!vars
  <2>1. (Handled \/ UNCHANGED busVars) /\ current # NoEvent
    BY <1>5 DEF OtherHandled, DispatchEnqueue, DispatchSend, Done, BusInv
  <2> QED BY <1>1, <1>4, <2>1
<1>6. CASE BusEnds
  <2>1. ASSUME SeeClosed PROVE UNCHANGED Mail!vars
    BY <2>1 DEF SeeClosed, Pending, Mail!vars
  <2>2. ASSUME Exit PROVE Mail!Next
    BY <2>2 DEF Exit, BusInv, Pending, Mail!Next, Mail!Leave
  <2> QED BY <1>6, <2>1, <2>2 DEF BusEnds
<1>7. CASE CloseBus
  BY <1>7 DEF CloseBus, Close, Pending, Mail!Next, Mail!Close
<1>8. CASE ProcessEnds
  BY <1>8 DEF ProcessEnds, Pending, Mail!Next, Mail!ProcessEnds
<1>9. CASE OutboxStep \/ CancelHTTP \/ StopLoop \/ Starts \/ CloseReturns \/ UNCHANGED vars
  BY <1>1, <1>9, OutboxFrame DEF CancelHTTP, StopLoop, Starts, CloseReturns, vars
<1>10. CASE \/ \E e \in Event : Publish(e) \/ PublishDropped(e)
            \/ \E n \in Notice : RequestEnds(n)
  BY <1>1, <1>10 DEF Publish, PublishDropped, Refuse, RequestEnds
<1> QED BY <1>2, <1>3, <1>5, <1>6, <1>7, <1>8, <1>9, <1>10, StepKinds DEF BusStep

\* The bus between publisher and Dispatcher implements Mailbox, through shutdowns,
\* crashes and restarts.
THEOREM NoticesInOrder == Spec => BusIsMailbox
<1>1. Init => Mail!Init
  BY DEF Init, BusInit, Pending, Mail!Init
<1>2. IInv /\ [Next]_vars => [Mail!Next]_(Mail!vars)
  BY MailStep DEF IInv
<1> QED BY <1>1, <1>2, Inductive, PTL DEF Spec, BusIsMailbox, Mail!Spec
=============================================================================
