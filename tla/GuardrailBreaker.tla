-------------------------- MODULE GuardrailBreaker --------------------------
(* The breaker that keeps the drives' accounts from being blocked: every API  *)
(* call of every driver is counted, a run of the media organizer is timed, and *)
(* too many calls or too long a run pause all later runs.  The pause outlives  *)
(* a restart through the configs table.  Both limits are set; the settings are *)
(* read once, at the start.  Time is counted in ticks from 1.                  *)
EXTENDS Naturals, Sequences, FiniteSets

CONSTANTS Runner,      \* goroutines that ask for a run of the organizer and then make it
          Task,        \* organizer tasks
          Caller,      \* goroutines that call a drive, with the savers they leave behind
          None,        \* no task
          MaxCalls,    \* Guardrail.MaxCallsPerWindow
          CallWindow,  \* Guardrail.CallWindow
          CallPause,   \* Guardrail.CallPauseDuration
          WorkLimit,   \* Guardrail.MaxWorkMinutes
          WorkPause,   \* Guardrail.WorkPauseDuration
          MaxPause,    \* MaxPauseSecondsCap and MaxPauseMinutesCap
          MaxTime,     \* bound: ticks
          MaxRestarts  \* bound: restarts of the process

ASSUME GuardAssumption ==
  /\ MaxCalls \in Nat \ {0} /\ CallWindow \in Nat \ {0} /\ WorkLimit \in Nat \ {0}
  /\ CallPause \in 1..MaxPause /\ WorkPause \in 1..MaxPause /\ MaxPause \in Nat
ASSUME BoundAssumption == MaxTime \in Nat \ {0} /\ MaxRestarts \in Nat
ASSUME ThreadAssumption == Runner \cap Caller = {} /\ None \notin Task

VARIABLES now,
          inWindow, windowStart, workStart, pausedUntil, stateLoaded,  \* the Breaker; 0 is no time
          stored,       \* the pause in the configs table, 0 for none
          pc, task, saving,  \* per thread: where it is, its task, the pause it is to store
          restarts,
          began, solo,  \* ghosts: when a run began; the run that no other has overlapped
          recent,       \* ghost: when each call came that has been counted since the last trip
          apart         \* ghost: no other pause was decided, stored or read while the last was stored

breakerVars == <<inWindow, windowStart, workStart, pausedUntil, stateLoaded>>
ghostVars == <<began, solo, recent, apart>>
vars == <<now, breakerVars, stored, pc, task, saving, restarts, ghostVars>>

Thread == Runner \cup Caller
Time == 0..MaxTime
Until == 0..(MaxTime + MaxPause)
RunPc == {"idle", "allowed", "admitted", "begun", "working", "trip", "save"}
CallPc == {"idle", "snapshot", "save"}

BreakerType == /\ inWindow \in 0..(MaxCalls - 1)
               /\ windowStart \in Time /\ workStart \in Time
               /\ pausedUntil \in Until /\ stateLoaded \in BOOLEAN
ThreadType  == /\ pc \in [Thread -> RunPc \cup CallPc]
               /\ task \in [Runner -> Task \cup {None}]
               /\ saving \in [Thread -> Until]
GhostType   == /\ began \in [Runner -> Time] /\ solo \subseteq Runner
               /\ recent \in Seq(Time) /\ apart \in BOOLEAN

TypeOK == /\ now \in Time /\ stored \in Until /\ restarts \in 0..MaxRestarts
          /\ BreakerType /\ ThreadType /\ GhostType

\* What NewBreaker makes, and the threads of a process that has just started.
Boot == [inWindow |-> 0, windowStart |-> 0, workStart |-> 0, pausedUntil |-> 0,
         stateLoaded |-> FALSE,
         pc |-> [x \in Thread |-> "idle"], task |-> [r \in Runner |-> None],
         saving |-> [x \in Thread |-> 0],
         began |-> [r \in Runner |-> 0], solo |-> {}, recent |-> <<>>, apart |-> TRUE]

Init ==
  /\ now = 1 /\ stored = 0 /\ restarts = 0
  /\ inWindow = Boot.inWindow /\ windowStart = Boot.windowStart
  /\ workStart = Boot.workStart /\ pausedUntil = Boot.pausedUntil
  /\ stateLoaded = Boot.stateLoaded
  /\ pc = Boot.pc /\ task = Boot.task /\ saving = Boot.saving
  /\ began = Boot.began /\ solo = Boot.solo /\ recent = Boot.recent /\ apart = Boot.apart

Goto(x, l) == pc' = [pc EXCEPT ![x] = l]

\* A pause has been decided and is not in the table yet.
Pending(x) == \/ x \in Runner /\ pc[x] = "save"
              \/ x \in Caller /\ pc[x] \in {"snapshot", "save"}
NonePending(X) == \A x \in X : ~Pending(x)

-----------------------------------------------------------------------------
(* Check.                                                                     *)

\* The first Check reads the table, and does not try again if that fails.  What
\* it finds replaces the pause in memory if it is still in force.
LoadState ==
  /\ stateLoaded' = TRUE
  /\ \/ /\ ~stateLoaded /\ now < stored
        /\ pausedUntil' = stored
        /\ apart' = (apart /\ NonePending(Thread))
     \/ UNCHANGED <<pausedUntil, apart>>

\* A run that is refused is over: it is neither queued nor made up for.
Check(r, passed, asked) ==
  /\ LoadState
  /\ IF now < pausedUntil'
     THEN Goto(r, "idle") /\ task' = [task EXCEPT ![r] = None]
     ELSE Goto(r, passed) /\ task' = asked
  /\ UNCHANGED <<now, inWindow, windowStart, stored, saving, restarts, began, solo, recent>>

-----------------------------------------------------------------------------
(* A run of the organizer: prepareRun and guardRun in the request, the runner  *)
(* goroutine, settleRun at its end.                                           *)

IsRunning(t) == \E r \in Runner : task[r] = t /\ pc[r] \in {"working", "trip", "save"}

\* RunTask and ApplyTask refuse a task that is running, and ask the breaker.
Allow(r, t) ==
  /\ pc[r] = "idle" /\ ~IsRunning(t)
  /\ Check(r, "allowed", [task EXCEPT ![r] = t])
  /\ UNCHANGED workStart

\* Mutant: a run that is refused starts the clock of the work all the same.
BeginRunAnyway(r) ==
  /\ pc[r] = "allowed"
  /\ Check(r, "admitted", task)
  /\ workStart' = now

BeginRun(r) ==
  /\ pc[r] = "allowed"
  /\ Check(r, "admitted", task)
  /\ UNCHANGED workStart

Overlapped(r) == \E q \in Runner \ {r} : pc[q] \in {"begun", "working"}

\* One clock for the work of all runs.
BeginWork(r) ==
  /\ pc[r] = "admitted"
  /\ workStart' = now
  /\ Goto(r, "begun")
  /\ began' = [began EXCEPT ![r] = now]
  /\ solo' = IF Overlapped(r) THEN {} ELSE {r}
  /\ UNCHANGED <<now, inWindow, windowStart, pausedUntil, stateLoaded, stored, task, saving,
                 restarts, recent, apart>>

\* startRunner gives up when another request has started the task in the meantime.
StartRunner(r) ==
  /\ pc[r] = "begun"
  /\ IF IsRunning(task[r])
     THEN Goto(r, "idle") /\ task' = [task EXCEPT ![r] = None] /\ solo' = solo \ {r}
     ELSE Goto(r, "working") /\ UNCHANGED <<task, solo>>
  /\ UNCHANGED <<now, breakerVars, stored, saving, restarts, began, recent, apart>>

\* Whoever ends first takes the clock.
FinishRun(r) ==
  /\ pc[r] = "working"
  /\ workStart' = 0
  /\ IF workStart # 0 /\ now - workStart > WorkLimit
     THEN Goto(r, "trip") /\ UNCHANGED task
     ELSE Goto(r, "idle") /\ task' = [task EXCEPT ![r] = None]
  /\ solo' = solo \ {r}
  /\ UNCHANGED <<now, inWindow, windowStart, pausedUntil, stateLoaded, stored, saving,
                 restarts, began, recent, apart>>

-----------------------------------------------------------------------------
(* A pause: it holds in memory at once and is stored a little later.          *)

\* Mutant: a new pause is added to the one in force.
PauseAdds(x, until) ==
  /\ pausedUntil' = IF now < pausedUntil THEN pausedUntil + (until - now) ELSE until
  /\ inWindow' = 0 /\ windowStart' = now
  /\ recent' = <<>>
  /\ apart' = NonePending(Thread \ {x})

Pause(x, until) ==
  /\ pausedUntil' = until
  /\ inWindow' = 0 /\ windowStart' = now
  /\ recent' = <<>>
  /\ apart' = NonePending(Thread \ {x})

\* FinishRun's trip.
Trip(r) ==
  /\ pc[r] = "trip"
  /\ Pause(r, now + WorkPause)
  /\ saving' = [saving EXCEPT ![r] = now + WorkPause]
  /\ Goto(r, "save")
  /\ UNCHANGED <<now, workStart, stateLoaded, stored, task, restarts, began, solo>>

Expired == windowStart # 0 /\ now - windowStart >= CallWindow

\* Mutant: every call opens a window of its own.
CallsSoFarForgetful == 0

\* rollWindowLocked
CallsSoFar == IF Expired THEN 0 ELSE inWindow

CallLimitReached(calls) == calls >= MaxCalls

\* Every API call of every driver, in a run or not.
RecordAPICall(c) ==
  LET calls == CallsSoFar + 1 IN
  /\ pc[c] = "idle"
  /\ IF CallLimitReached(calls)
     THEN Pause(c, now + CallPause) /\ Goto(c, "snapshot")
     ELSE /\ inWindow' = calls
          /\ windowStart' = IF windowStart = 0 \/ Expired THEN now ELSE windowStart
          /\ recent' = Append(recent, now)
          /\ UNCHANGED <<pausedUntil, pc, apart>>
  /\ UNCHANGED <<now, workStart, stateLoaded, stored, task, saving, restarts, began, solo>>

\* Mutant: what is to be stored is not the pause.
PauseSnapshotEmpty(c) ==
  /\ pc[c] = "snapshot"
  /\ Goto(c, "save")
  /\ UNCHANGED <<now, breakerVars, stored, task, saving, restarts, ghostVars>>

\* RecordAPICall reads the pause again for the goroutine that is to store it.
PauseSnapshot(c) ==
  /\ pc[c] = "snapshot"
  /\ saving' = [saving EXCEPT ![c] = pausedUntil]
  /\ Goto(c, "save")
  /\ UNCHANGED <<now, breakerVars, stored, task, restarts, ghostVars>>

Saved(x) ==
  /\ pc[x] = "save"
  /\ Goto(x, "idle")
  /\ task' = IF x \in Runner THEN [task EXCEPT ![x] = None] ELSE task
  /\ saving' = [saving EXCEPT ![x] = 0]

SaveState(x) ==
  /\ Saved(x)
  /\ stored' = saving[x]
  /\ UNCHANGED <<now, breakerVars, restarts, ghostVars>>

\* A pause that could not be stored stays in force.
SaveFails(x) ==
  /\ Saved(x)
  /\ apart' = FALSE
  /\ UNCHANGED <<now, breakerVars, stored, restarts, began, solo, recent>>

-----------------------------------------------------------------------------
Tick ==
  /\ now < MaxTime /\ now' = now + 1
  /\ UNCHANGED <<breakerVars, stored, pc, task, saving, restarts, ghostVars>>

\* The process ends, with whatever it had not stored, and starts again.
Restart ==
  /\ restarts < MaxRestarts /\ restarts' = restarts + 1
  /\ inWindow' = Boot.inWindow /\ windowStart' = Boot.windowStart
  /\ workStart' = Boot.workStart /\ pausedUntil' = Boot.pausedUntil
  /\ stateLoaded' = Boot.stateLoaded
  /\ pc' = Boot.pc /\ task' = Boot.task /\ saving' = Boot.saving
  /\ began' = Boot.began /\ solo' = Boot.solo /\ recent' = Boot.recent /\ apart' = Boot.apart
  /\ UNCHANGED <<now, stored>>

RunStep(r) == \/ \E t \in Task : Allow(r, t)
              \/ BeginRun(r) \/ BeginWork(r) \/ StartRunner(r) \/ FinishRun(r) \/ Trip(r)

Next ==
  \/ Tick \/ Restart
  \/ \E r \in Runner : RunStep(r)
  \/ \E c \in Caller : RecordAPICall(c) \/ PauseSnapshot(c)
  \/ \E x \in Thread : SaveState(x) \/ SaveFails(x)

Spec == Init /\ [][Next]_vars

-----------------------------------------------------------------------------
(* Properties.                                                                *)

\* No pause, in memory, on its way to the table or in it, lasts longer than the
\* documented cap from now on: neither skipped runs, nor calls made while it is in
\* force, nor restarts add to it.
PauseBounded ==
  /\ pausedUntil <= now + MaxPause
  /\ stored <= now + MaxPause
  /\ \A x \in Thread : saving[x] <= now + MaxPause

CallsWithin(w) == {i \in DOMAIN recent : recent[i] + w > now}

\* The window is a fixed one, so a burst may lie across two of them: but fewer than
\* twice the limit are counted in any span as long as the window without a pause.
BurstBounded == Cardinality(CallsWithin(CallWindow)) <= 2 * (MaxCalls - 1)

\* A run that no other run has overlapped and that took too long pauses the next
\* ones, whatever was refused in the meantime (settleRun, FinishRun).
LongRunTrips ==
  [][\A r \in solo :
       pc[r] = "working" /\ pc'[r] # "working" /\ now - began[r] > WorkLimit /\ restarts' = restarts
       => pc'[r] = "trip"]_vars

\* Once no pause is on its way to the table, the one in force is there, so that a
\* restart finds it, unless it could not be stored or another was decided or read meanwhile.
PauseStored ==
  apart /\ NonePending(Thread) /\ now < pausedUntil => stored >= pausedUntil

\* A pause in force is not cut short while the process lives, neither by the one
\* that the first Check reads nor by a shorter one.
PauseKept ==
  [][restarts' = restarts /\ now < pausedUntil => pausedUntil' >= pausedUntil]_vars
=============================================================================
