--------------------------- MODULE AuthScheduler ---------------------------
(* The life of the active-refresh loop (internal/auth/scheduler.go): started  *)
(* at boot, stopped and started again by the settings page, stopped at        *)
(* shutdown.  Closing StartupReady is what UploadQueue!OpenGate models.       *)
(*                                                                            *)
(* startLoop makes a stop and a done channel together and starts one          *)
(* goroutine for them, so one number names all three.  The scheduler's fields *)
(* hold only the last pair, and every goroutine reads them through the fields.*)
EXTENDS Integers

CONSTANTS Caller,    \* goroutines that serve a change of the settings
          MaxLoops   \* bound: loops started in one life of the process

ASSUME LoopsAssumption == MaxLoops \in Nat

VARIABLES enabled,    \* the auth_active_refresh setting
          booted,     \* InitActiveRefresh has run: appCtx is set
          ctxDone,    \* the application's context has ended
          down,       \* Shutdown has been called
          running,    \* Scheduler.running
          cur,        \* the pair that Scheduler.stop and Scheduler.done hold; 0: nil
          stopClosed, doneClosed,  \* the channels that have been closed
          ready,      \* startupReady has been closed
          locked,     \* a call panicked while it held Scheduler.mu
          crashed,    \* a loop's goroutine panicked: the process would be gone
          pc,         \* per loop
          call        \* per caller

vars == <<enabled, booted, ctxDone, down, running, cur, stopClosed, doneClosed, ready,
          locked, crashed, pc, call>>

Loop == 1..MaxLoops

\* "leave" and "closing" are the two halves of the loop's deferred function.
PcSet  == {"none", "delay", "first", "main", "check", "leave", "closing", "ended"}
Active == {"delay", "first", "main", "check", "leave"}
CallSet == {"idle", "updated", "start", "stop", "await"}

SwitchType == /\ enabled \in BOOLEAN /\ booted \in BOOLEAN
              /\ ctxDone \in BOOLEAN /\ down \in BOOLEAN
              /\ running \in BOOLEAN /\ ready \in BOOLEAN
              /\ locked \in BOOLEAN /\ crashed \in BOOLEAN
LoopType   == /\ cur \in 0..MaxLoops
              /\ stopClosed \subseteq Loop /\ doneClosed \subseteq Loop
              /\ pc \in [Loop -> PcSet]
CallType   == call \in [Caller -> CallSet]

TypeOK == SwitchType /\ LoopType /\ CallType

Init ==
  /\ enabled \in BOOLEAN
  /\ booted = FALSE /\ ctxDone = FALSE /\ down = FALSE
  /\ running = FALSE /\ cur = 0
  /\ stopClosed = {} /\ doneClosed = {}
  /\ ready = FALSE /\ locked = FALSE /\ crashed = FALSE
  /\ pc = [n \in Loop |-> "none"]
  /\ call = [c \in Caller |-> "idle"]

loopVars == <<running, cur, stopClosed, doneClosed, ready, locked, crashed, pc>>
envVars  == <<enabled, booted, ctxDone, down>>

\* The channels are made and the goroutine starts, at the program point given ...
Launch(at) ==
  /\ cur < MaxLoops
  /\ running' = TRUE
  /\ cur' = cur + 1
  /\ pc' = [pc EXCEPT ![cur + 1] = at]

\* ... unless the last loop still has its flag up.
LaunchIfIdle(at) ==
  \/ running /\ UNCHANGED <<running, cur, pc>>
  \/ ~running /\ Launch(at)

-----------------------------------------------------------------------------
\* At boot, before the HTTP server serves; startLoop(true) delays the loop.
InitActiveRefresh ==
  /\ ~booted /\ booted' = TRUE
  /\ \/ enabled /\ LaunchIfIdle("delay") /\ UNCHANGED ready
     \/ ~enabled /\ ready' = TRUE /\ UNCHANGED <<running, cur, pc>>
  /\ UNCHANGED <<enabled, ctxDone, down, stopClosed, doneClosed, locked, crashed, call>>

\* The settings handler stores what it was sent ...
UpdateSetting(c) ==
  /\ booted /\ call[c] = "idle"
  /\ enabled' \in BOOLEAN
  /\ call' = [call EXCEPT ![c] = "updated"]
  /\ UNCHANGED <<booted, ctxDone, down, loopVars>>

\* ... and passes SetActiveRefreshEnabled what the setting is by then.
SetActiveRefreshEnabled(c) ==
  /\ call[c] = "updated"
  /\ call' = [call EXCEPT ![c] = IF enabled THEN "start" ELSE "stop"]
  /\ UNCHANGED <<envVars, loopVars>>

\* The signal that ends the application, then Shutdown, which stops the loop.
EndContext ==
  /\ booted /\ ~ctxDone /\ ctxDone' = TRUE
  /\ UNCHANGED <<enabled, booted, down, loopVars, call>>

Shutdown(c) ==
  /\ ctxDone /\ ~down /\ call[c] = "idle"
  /\ down' = TRUE
  /\ call' = [call EXCEPT ![c] = "stop"]
  /\ UNCHANGED <<enabled, booted, ctxDone, loopVars>>

\* Mutant: the running flag is not looked at.
StartLoopAlways(c) ==
  /\ call[c] = "start" /\ ~locked
  /\ Launch("main")
  /\ call' = [call EXCEPT ![c] = "idle"]
  /\ UNCHANGED <<envVars, stopClosed, doneClosed, ready, locked, crashed>>

\* startLoop(false).
StartLoop(c) ==
  /\ call[c] = "start" /\ ~locked
  /\ LaunchIfIdle("main")
  /\ call' = [call EXCEPT ![c] = "idle"]
  /\ UNCHANGED <<envVars, stopClosed, doneClosed, ready, locked, crashed>>

\* Closing a closed channel panics, and stopLoop unlocks without a defer.
StopLoop(c) ==
  /\ call[c] = "stop" /\ ~locked
  /\ \/ ~running /\ UNCHANGED <<stopClosed, locked>>
        /\ call' = [call EXCEPT ![c] = "idle"]
     \/ /\ running
        /\ stopClosed' = stopClosed \cup {cur}
        /\ IF cur \in stopClosed THEN locked' = TRUE ELSE UNCHANGED locked
        /\ call' = [call EXCEPT ![c] = IF cur \in stopClosed THEN "idle" ELSE "await"]
  /\ UNCHANGED <<envVars, running, cur, doneClosed, ready, crashed, pc>>

\* The loop is done, or 200 ms have passed.
StopReturns(c) ==
  /\ call[c] = "await"
  /\ call' = [call EXCEPT ![c] = "idle"]
  /\ UNCHANGED <<envVars, loopVars>>

-----------------------------------------------------------------------------
(* The loop's goroutine.                                                      *)

Goto(n, l) == pc' = [pc EXCEPT ![n] = l]

Told == ctxDone \/ cur \in stopClosed

\* Mutant: a loop stopped during its start delay leaves at once.
DelayStoppedSilently(n) ==
  /\ pc[n] = "delay" /\ Told
  /\ Goto(n, "leave")
  /\ UNCHANGED <<envVars, running, cur, stopClosed, doneClosed, ready, locked, crashed, call>>

DelayStopped(n) ==
  /\ pc[n] = "delay" /\ Told
  /\ ready' = TRUE
  /\ Goto(n, "leave")
  /\ UNCHANGED <<envVars, running, cur, stopClosed, doneClosed, locked, crashed, call>>

DelayEnds(n) ==
  /\ pc[n] = "delay"
  /\ Goto(n, "first")
  /\ UNCHANGED <<envVars, running, cur, stopClosed, doneClosed, ready, locked, crashed, call>>

\* The first executeCheck returns, early if it is told to stop.
FirstCheckEnds(n) ==
  /\ pc[n] = "first"
  /\ ready' = TRUE
  /\ Goto(n, "main")
  /\ UNCHANGED <<envVars, running, cur, stopClosed, doneClosed, locked, crashed, call>>

\* mainLoop: the timer fires, and executeCheck refreshes the accounts that are
\* due; a recalculation only sets the timer again.
TimerFires(n) ==
  /\ pc[n] = "main"
  /\ Goto(n, "check")
  /\ UNCHANGED <<envVars, running, cur, stopClosed, doneClosed, ready, locked, crashed, call>>

CheckEnds(n) ==
  /\ pc[n] = "check"
  /\ Goto(n, "main")
  /\ UNCHANGED <<envVars, running, cur, stopClosed, doneClosed, ready, locked, crashed, call>>

\* Mutant: the loop looks at the application's context only.
LoopStopsAtEnd(n) ==
  /\ pc[n] = "main" /\ ctxDone
  /\ Goto(n, "leave")
  /\ UNCHANGED <<envVars, running, cur, stopClosed, doneClosed, ready, locked, crashed, call>>

LoopStops(n) ==
  /\ pc[n] = "main" /\ Told
  /\ Goto(n, "leave")
  /\ UNCHANGED <<envVars, running, cur, stopClosed, doneClosed, ready, locked, crashed, call>>

Leave(n) ==
  /\ pc[n] = "leave" /\ ~locked
  /\ running' = FALSE
  /\ Goto(n, "closing")
  /\ UNCHANGED <<envVars, cur, stopClosed, doneClosed, ready, locked, crashed, call>>

\* The field may hold another loop's channel by now.
CloseDone(n) ==
  /\ pc[n] = "closing"
  /\ doneClosed' = doneClosed \cup {cur}
  /\ IF cur \in doneClosed THEN crashed' = TRUE ELSE UNCHANGED crashed
  /\ Goto(n, "ended")
  /\ UNCHANGED <<envVars, running, cur, stopClosed, ready, locked, call>>

-----------------------------------------------------------------------------
LoopStep(n) ==
  \/ DelayStopped(n) \/ DelayEnds(n) \/ FirstCheckEnds(n) \/ TimerFires(n)
  \/ CheckEnds(n) \/ LoopStops(n) \/ Leave(n) \/ CloseDone(n)

CallStep(c) ==
  \/ UpdateSetting(c) \/ SetActiveRefreshEnabled(c) \/ Shutdown(c)
  \/ StartLoop(c) \/ StopLoop(c) \/ StopReturns(c)

Next ==
  \/ InitActiveRefresh
  \/ EndContext
  \/ \E n \in Loop : LoopStep(n)
  \/ \E c \in Caller : CallStep(c)

Spec == Init /\ [][Next]_vars

\* The application calls InitActiveRefresh, goroutines run, and a check ends:
\* every refresh it makes has a deadline.  A select chooses at random between a
\* timer that has fired and a closed channel, so the channel is chosen in the end.
Fairness ==
  /\ WF_vars(InitActiveRefresh)
  /\ \A n \in Loop :
       /\ WF_vars(DelayStopped(n) \/ DelayEnds(n) \/ FirstCheckEnds(n))
       /\ WF_vars(CheckEnds(n))
       /\ SF_vars(LoopStops(n))
       /\ WF_vars(Leave(n) \/ CloseDone(n))
  /\ \A c \in Caller :
       WF_vars(SetActiveRefreshEnabled(c) \/ StartLoop(c) \/ StopLoop(c) \/ StopReturns(c))

FairSpec == Spec /\ Fairness

-----------------------------------------------------------------------------
(* Properties.                                                                *)

\* Two loops never check accounts at the same time, however the setting is
\* switched: startLoop starts one only when the last has given up its flag.
OneLoop ==
  \A m, n \in Loop : pc[m] \in Active /\ pc[n] \in Active => m = n

\* Whatever becomes of the loop, the business modules that wait for the end of
\* the first check are let go.
GateOpens == <>ready

\* While the gate is shut after the boot, a loop is at work that opens it whether it
\* is stopped or goes on.
GateOwed == booted /\ ~ready => \E n \in Loop : pc[n] \in {"delay", "first"}

\* A loop that is told to stop ends, unless a call took the lock with it.
StopTakes == \A n \in Loop : n \in stopClosed ~> pc[n] = "ended" \/ locked

\* A stop reaches the loop it was meant for: until that loop has given up its flag,
\* the field that it selects on holds the very channel that was closed.
StopReaches == \A n \in stopClosed : pc[n] \in {"closing", "ended"} \/ Told

\* stopLoop never closes a channel twice: a call that stops a loop which has not
\* ended yet would panic and keep the lock for good.
StopOnce == ~locked

\* A loop closes its own done channel, and only once.
DoneOnce == ~crashed

\* When no call is under way and no loop is still on its way out, active refresh
\* has a loop if it is enabled.
EnabledRuns ==
  /\ booted /\ ~ctxDone /\ enabled
  /\ \A c \in Caller : call[c] = "idle"
  /\ \A n \in Loop : pc[n] \notin {"leave", "closing"}
  => running
=============================================================================
