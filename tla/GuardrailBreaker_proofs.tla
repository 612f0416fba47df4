----------------------- MODULE GuardrailBreaker_proofs -----------------------
(* Proofs about GuardrailBreaker: type correctness, and that no pause is ever *)
(* longer than the documented cap.  Two facts are proved together because each *)
(* needs the other: what is stored was decided in memory, what is in memory   *)
(* may have been read from the table.                                         *)
EXTENDS GuardrailBreaker, FiniteSetTheorems, TLAPS

IInv == TypeOK /\ PauseBounded

AllAssumptions == GuardAssumption /\ BoundAssumption /\ ThreadAssumption

LEMMA Assumptions == AllAssumptions
  BY GuardAssumption, BoundAssumption, ThreadAssumption DEF AllAssumptions

LEMMA InitIInv == Init => IInv
<1> SUFFICES ASSUME Init PROVE IInv
  OBVIOUS
<1> USE Assumptions DEF AllAssumptions, GuardAssumption, BoundAssumption
<1>1. BreakerType
  BY DEF Init, Boot, BreakerType, Time, Until
<1>2. ThreadType
  BY DEF Init, Boot, ThreadType, Until, RunPc, CallPc
<1>3. GhostType
  BY DEF Init, Boot, GhostType, Time
<1>4. PauseBounded
  BY DEF Init, Boot, PauseBounded
<1> QED
  BY <1>1, <1>2, <1>3, <1>4 DEF IInv, TypeOK, Init, Time, Until

\* What a Check does to the invariant, whatever it lets pass.
LEMMA CheckIInv ==
  ASSUME IInv, NEW r \in Runner, NEW passed \in RunPc,
         NEW asked \in [Runner -> Task \cup {None}],
         Check(r, passed, asked), workStart' = workStart
  PROVE  IInv'
<1> USE Assumptions DEF AllAssumptions, GuardAssumption, BoundAssumption
<1>1. pausedUntil' \in Until /\ pausedUntil' <= now + MaxPause /\ apart' \in BOOLEAN
  BY DEF IInv, TypeOK, BreakerType, GhostType, PauseBounded, Check, LoadState
<1>2. BreakerType'
  BY <1>1 DEF IInv, TypeOK, BreakerType, Check, LoadState
<1>3. ThreadType'
  BY DEF IInv, TypeOK, ThreadType, Check, Goto, Thread, RunPc
<1>4. GhostType'
  BY <1>1 DEF IInv, TypeOK, GhostType, Check
<1>5. PauseBounded'
  BY <1>1 DEF IInv, PauseBounded, Check
<1> QED
  BY <1>2, <1>3, <1>4, <1>5 DEF IInv, TypeOK, Check

\* A pause that starts now and lasts no longer than the cap.
LEMMA PauseIInv ==
  ASSUME IInv, NEW x \in Thread, NEW length \in 1..MaxPause, Pause(x, now + length)
  PROVE  /\ now + length \in Until
         /\ inWindow' \in 0..(MaxCalls - 1) /\ windowStart' \in Time
         /\ pausedUntil' \in Until /\ pausedUntil' <= now + MaxPause
         /\ recent' \in Seq(Time) /\ apart' \in BOOLEAN
<1> USE Assumptions DEF AllAssumptions, GuardAssumption, BoundAssumption
<1>1. now + length \in Until /\ now + length <= now + MaxPause
  BY DEF IInv, TypeOK, Time, Until
<1>2. inWindow' \in 0..(MaxCalls - 1) /\ windowStart' \in Time
  BY DEF IInv, TypeOK, Pause
<1>3. pausedUntil' \in Until /\ pausedUntil' <= now + MaxPause
  BY <1>1 DEF Pause
<1>4. recent' \in Seq(Time)
  BY DEF Pause
<1>5. apart' \in BOOLEAN
  BY DEF Pause, NonePending
<1> QED
  BY <1>1, <1>2, <1>3, <1>4, <1>5

LEMMA StepIInv == IInv /\ [Next]_vars => IInv'
<1> SUFFICES ASSUME IInv, [Next]_vars PROVE IInv'
  OBVIOUS
<1> USE Assumptions DEF AllAssumptions, GuardAssumption, BoundAssumption
<1>1. CASE Tick
  <2>1. now' \in Time /\ now <= now'
    BY <1>1 DEF Tick, IInv, TypeOK, Time
  <2>2. PauseBounded'
    BY <1>1, <2>1 DEF Tick, IInv, TypeOK, BreakerType, ThreadType, PauseBounded, breakerVars,
                      Time, Until
  <2> QED
    BY <1>1, <2>1, <2>2 DEF Tick, IInv, TypeOK, BreakerType, ThreadType, GhostType, breakerVars,
                            ghostVars
<1>2. CASE Restart
  <2>1. BreakerType' /\ restarts' \in 0..MaxRestarts
    BY <1>2 DEF Restart, Boot, IInv, TypeOK, BreakerType, Time, Until
  <2>2. ThreadType'
    BY <1>2 DEF Restart, Boot, ThreadType, Until, RunPc, CallPc
  <2>3. GhostType'
    BY <1>2 DEF Restart, Boot, GhostType, Time
  <2>4. PauseBounded'
    BY <1>2 DEF Restart, Boot, IInv, TypeOK, PauseBounded, Time
  <2> QED
    BY <1>2, <2>1, <2>2, <2>3, <2>4 DEF Restart, IInv, TypeOK
<1>3. ASSUME NEW r \in Runner, NEW t \in Task, Allow(r, t) PROVE IInv'
  <2>1. [task EXCEPT ![r] = t] \in [Runner -> Task \cup {None}]
    BY DEF IInv, TypeOK, ThreadType
  <2> QED
    BY <1>3, <2>1, CheckIInv DEF Allow, RunPc
<1>4. ASSUME NEW r \in Runner, BeginRun(r) PROVE IInv'
  <2>1. task \in [Runner -> Task \cup {None}]
    BY DEF IInv, TypeOK, ThreadType
  <2> QED
    BY <1>4, <2>1, CheckIInv DEF BeginRun, RunPc
<1>5. ASSUME NEW r \in Runner, BeginWork(r) PROVE IInv'
  <2>1. BreakerType'
    BY <1>5 DEF BeginWork, IInv, TypeOK, BreakerType
  <2>2. ThreadType'
    BY <1>5 DEF BeginWork, IInv, TypeOK, ThreadType, Goto, Thread, RunPc
  <2>3. GhostType'
    BY <1>5 DEF BeginWork, IInv, TypeOK, GhostType
  <2>4. PauseBounded'
    BY <1>5 DEF BeginWork, IInv, PauseBounded
  <2> QED
    BY <1>5, <2>1, <2>2, <2>3, <2>4 DEF BeginWork, IInv, TypeOK
<1>6. ASSUME NEW r \in Runner, StartRunner(r) PROVE IInv'
  <2>1. BreakerType' /\ PauseBounded'
    BY <1>6 DEF StartRunner, IInv, TypeOK, BreakerType, PauseBounded, breakerVars
  <2>2. ThreadType'
    BY <1>6 DEF StartRunner, IInv, TypeOK, ThreadType, Goto, Thread, RunPc
  <2>3. GhostType'
    BY <1>6 DEF StartRunner, IInv, TypeOK, GhostType
  <2> QED
    BY <1>6, <2>1, <2>2, <2>3 DEF StartRunner, IInv, TypeOK
<1>7. ASSUME NEW r \in Runner, FinishRun(r) PROVE IInv'
  <2>1. BreakerType' /\ PauseBounded'
    BY <1>7 DEF FinishRun, IInv, TypeOK, BreakerType, PauseBounded, Time
  <2>2. ThreadType'
    BY <1>7 DEF FinishRun, IInv, TypeOK, ThreadType, Goto, Thread, RunPc
  <2>3. GhostType'
    BY <1>7 DEF FinishRun, IInv, TypeOK, GhostType
  <2> QED
    BY <1>7, <2>1, <2>2, <2>3 DEF FinishRun, IInv, TypeOK
<1>8. ASSUME NEW r \in Runner, Trip(r) PROVE IInv'
  <2> r \in Thread
    BY DEF Thread
  <2>1. /\ now + WorkPause \in Until
        /\ inWindow' \in 0..(MaxCalls - 1) /\ windowStart' \in Time
        /\ pausedUntil' \in Until /\ pausedUntil' <= now + MaxPause
        /\ recent' \in Seq(Time) /\ apart' \in BOOLEAN
    BY <1>8, PauseIInv DEF Trip
  <2>2. BreakerType' /\ GhostType'
    BY <1>8, <2>1 DEF Trip, IInv, TypeOK, BreakerType, GhostType
  <2>3. ThreadType'
    BY <1>8, <2>1 DEF Trip, IInv, TypeOK, ThreadType, Goto, RunPc
  <2>4. PauseBounded'
    <3>1. now + WorkPause <= now + MaxPause
      BY DEF IInv, TypeOK, Time
    <3> QED
      BY <1>8, <2>1, <3>1 DEF Trip, IInv, TypeOK, ThreadType, PauseBounded
  <2> QED
    BY <1>8, <2>2, <2>3, <2>4 DEF Trip, IInv, TypeOK
<1>9. ASSUME NEW c \in Caller, RecordAPICall(c) PROVE IInv'
  <2> c \in Thread
    BY DEF Thread
  <2>1. CASE CallLimitReached(CallsSoFar + 1)
    <3>1. /\ inWindow' \in 0..(MaxCalls - 1) /\ windowStart' \in Time
          /\ pausedUntil' \in Until /\ pausedUntil' <= now + MaxPause
          /\ recent' \in Seq(Time) /\ apart' \in BOOLEAN
      BY <1>9, <2>1, PauseIInv DEF RecordAPICall
    <3>2. BreakerType' /\ GhostType' /\ PauseBounded'
      BY <1>9, <3>1 DEF RecordAPICall, IInv, TypeOK, BreakerType, GhostType, PauseBounded
    <3>3. ThreadType'
      BY <1>9, <2>1 DEF RecordAPICall, IInv, TypeOK, ThreadType, Goto, CallPc
    <3> QED
      BY <1>9, <3>2, <3>3 DEF RecordAPICall, IInv, TypeOK
  <2>2. CASE ~CallLimitReached(CallsSoFar + 1)
    <3>1. CallsSoFar + 1 \in 0..(MaxCalls - 1)
      BY <2>2 DEF CallLimitReached, CallsSoFar, IInv, TypeOK, BreakerType
    <3>2. BreakerType' /\ PauseBounded'
      BY <1>9, <2>2, <3>1 DEF RecordAPICall, IInv, TypeOK, BreakerType, PauseBounded
    <3>3. GhostType'
      <4>1. recent' = Append(recent, now)
        BY <1>9, <2>2 DEF RecordAPICall
      <4>2. recent' \in Seq(Time)
        BY <4>1 DEF IInv, TypeOK, GhostType
      <4> QED
        BY <1>9, <2>2, <4>2 DEF RecordAPICall, IInv, TypeOK, GhostType
    <3>4. ThreadType'
      BY <1>9, <2>2 DEF RecordAPICall, IInv, TypeOK, ThreadType
    <3> QED
      BY <1>9, <3>2, <3>3, <3>4 DEF RecordAPICall, IInv, TypeOK
  <2> QED BY <2>1, <2>2
<1>10. ASSUME NEW c \in Caller, PauseSnapshot(c) PROVE IInv'
  <2>1. BreakerType' /\ GhostType'
    BY <1>10 DEF PauseSnapshot, IInv, TypeOK, BreakerType, GhostType, breakerVars, ghostVars
  <2>2. ThreadType'
    BY <1>10 DEF PauseSnapshot, IInv, TypeOK, BreakerType, ThreadType, Goto, CallPc, Thread
  <2>3. PauseBounded'
    BY <1>10 DEF PauseSnapshot, IInv, TypeOK, ThreadType, PauseBounded, breakerVars, Thread
  <2> QED
    BY <1>10, <2>1, <2>2, <2>3 DEF PauseSnapshot, IInv, TypeOK
<1>11. ASSUME NEW x \in Thread, Saved(x)
       PROVE  /\ pc' \in [Thread -> RunPc \cup CallPc]
              /\ task' \in [Runner -> Task \cup {None}]
              /\ saving' \in [Thread -> Until]
              /\ \A y \in Thread : saving'[y] <= now + MaxPause
  BY <1>11 DEF Saved, Goto, IInv, TypeOK, ThreadType, PauseBounded, RunPc, Until, Time
<1>12. ASSUME NEW x \in Thread, SaveState(x) PROVE IInv'
  <2>1. BreakerType' /\ GhostType'
    BY <1>12 DEF SaveState, IInv, TypeOK, BreakerType, GhostType, breakerVars, ghostVars
  <2>2. ThreadType' /\ PauseBounded'
    BY <1>12, <1>11 DEF SaveState, IInv, TypeOK, ThreadType, PauseBounded, breakerVars
  <2>3. stored' \in Until
    BY <1>12 DEF SaveState, IInv, TypeOK, ThreadType
  <2> QED
    BY <1>12, <2>1, <2>2, <2>3 DEF SaveState, IInv, TypeOK
<1>13. ASSUME NEW x \in Thread, SaveFails(x) PROVE IInv'
  <2>1. BreakerType' /\ GhostType'
    BY <1>13 DEF SaveFails, IInv, TypeOK, BreakerType, GhostType, breakerVars
  <2>2. ThreadType' /\ PauseBounded'
    BY <1>13, <1>11 DEF SaveFails, IInv, TypeOK, ThreadType, PauseBounded, breakerVars
  <2> QED
    BY <1>13, <2>1, <2>2 DEF SaveFails, IInv, TypeOK
<1>14. CASE UNCHANGED vars
  BY <1>14 DEF vars, breakerVars, ghostVars, IInv, TypeOK, BreakerType, ThreadType, GhostType,
               PauseBounded
<1> QED
  BY <1>1, <1>2, <1>3, <1>4, <1>5, <1>6, <1>7, <1>8, <1>9, <1>10, <1>12, <1>13, <1>14
     DEF Next, RunStep

LEMMA AlwaysIInv == Spec => []IInv
  BY InitIInv, StepIInv, PTL DEF Spec

\* Every reachable state of the breaker is well typed; in particular a window never
\* holds as many calls as the limit (recordCall).
THEOREM BreakerTypeCorrect == Spec => []TypeOK
<1>1. IInv => TypeOK
  BY DEF IInv
<1> QED BY <1>1, AlwaysIInv, PTL

\* No pause lasts longer than the documented cap from the moment one looks, be it in
\* memory, on its way to the configs table or in it: skipped runs, calls made during
\* the pause and restarts never add to it (trip, recordCall, loadStateLocked).
THEOREM PausesCapped == Spec => []PauseBounded
<1>1. IInv => PauseBounded
  BY DEF IInv
<1> QED BY <1>1, AlwaysIInv, PTL

-----------------------------------------------------------------------------
(* The clock of the work: a run that is alone has it to itself.               *)

AtWork(r) == pc[r] \in {"begun", "working"}

SoloHasClock ==
  \A r \in solo : /\ AtWork(r)
                  /\ workStart = began[r] /\ began[r] # 0
                  /\ \A q \in Runner \ {r} : ~AtWork(q)

\* The clock never shows 0, which is no time.
ClockRuns == now # 0

LEMMA InitSolo == Init => SoloHasClock /\ ClockRuns
  BY DEF Init, Boot, SoloHasClock, ClockRuns

LEMMA StepSolo == IInv /\ SoloHasClock /\ ClockRuns /\ [Next]_vars => SoloHasClock' /\ ClockRuns'
<1> SUFFICES ASSUME IInv, SoloHasClock, ClockRuns, [Next]_vars
             PROVE  SoloHasClock' /\ ClockRuns'
  OBVIOUS
<1> USE Assumptions DEF AllAssumptions, ThreadAssumption
<1>t. pc \in [Thread -> RunPc \cup CallPc] /\ began \in [Runner -> Time] /\ solo \subseteq Runner
  BY DEF IInv, TypeOK, ThreadType, GhostType
<1>r. Runner \subseteq Thread /\ Caller \subseteq Thread
  BY DEF Thread
\* A step that moves one thread, not into work, and leaves the clock and solo alone.
<1>m. ASSUME NEW x \in Thread, NEW l, pc' = [pc EXCEPT ![x] = l], ~AtWork(x),
             l \notin {"begun", "working"},
             workStart' = workStart, began' = began, solo' = solo
      PROVE  SoloHasClock'
  BY <1>m, <1>t, <1>r DEF SoloHasClock, AtWork
<1>1. CASE Tick
  <2>1. ClockRuns'
    BY <1>1 DEF Tick, ClockRuns, IInv, TypeOK, Time
  <2> QED
    BY <1>1, <2>1 DEF Tick, SoloHasClock, AtWork, breakerVars, ghostVars
<1>2. CASE Restart
  BY <1>2 DEF Restart, Boot, SoloHasClock, ClockRuns
<1>3. ASSUME NEW r \in Runner, NEW t \in Task, Allow(r, t) PROVE SoloHasClock' /\ ClockRuns'
  BY <1>3, <1>m, <1>r DEF Allow, Check, Goto, AtWork, ClockRuns
<1>4. ASSUME NEW r \in Runner, BeginRun(r) PROVE SoloHasClock' /\ ClockRuns'
  BY <1>4, <1>m, <1>r DEF BeginRun, Check, Goto, AtWork, ClockRuns
<1>5. ASSUME NEW r \in Runner, BeginWork(r) PROVE SoloHasClock' /\ ClockRuns'
  <2>1. CASE Overlapped(r)
    BY <1>5, <2>1 DEF BeginWork, SoloHasClock, ClockRuns
  <2>2. CASE ~Overlapped(r)
    <3>1. solo' = {r} /\ workStart' = now /\ began'[r] = now /\ AtWork(r)'
      BY <1>5, <2>2, <1>t, <1>r DEF BeginWork, Goto, AtWork
    <3>2. \A q \in Runner \ {r} : ~AtWork(q)'
      BY <1>5, <2>2, <1>t, <1>r DEF BeginWork, Goto, AtWork, Overlapped
    <3> QED
      BY <1>5, <3>1, <3>2 DEF BeginWork, SoloHasClock, ClockRuns
  <2> QED BY <2>1, <2>2
<1>6. ASSUME NEW r \in Runner, StartRunner(r) PROVE SoloHasClock' /\ ClockRuns'
  BY <1>6, <1>t, <1>r DEF StartRunner, Goto, SoloHasClock, AtWork, ClockRuns, breakerVars
<1>7. ASSUME NEW r \in Runner, FinishRun(r) PROVE SoloHasClock' /\ ClockRuns'
  <2>1. solo' = {}
    BY <1>7, <1>t DEF FinishRun, SoloHasClock, AtWork
  <2> QED
    BY <1>7, <2>1 DEF FinishRun, SoloHasClock, ClockRuns
<1>8. ASSUME NEW r \in Runner, Trip(r) PROVE SoloHasClock' /\ ClockRuns'
  BY <1>8, <1>m, <1>r DEF Trip, Goto, AtWork, ClockRuns
<1>9. ASSUME NEW c \in Caller, RecordAPICall(c) PROVE SoloHasClock' /\ ClockRuns'
  <2>1. CASE pc' = [pc EXCEPT ![c] = "snapshot"]
    <3>1. /\ c \in Thread /\ pc[c] \notin {"begun", "working"}
          /\ workStart' = workStart /\ began' = began /\ solo' = solo
      BY <1>9, <1>r DEF RecordAPICall
    <3>2. SoloHasClock'
      BY <2>1, <3>1, <1>m DEF AtWork
    <3> QED
      BY <1>9, <3>2 DEF RecordAPICall, ClockRuns
  <2>2. CASE UNCHANGED pc
    BY <1>9, <2>2 DEF RecordAPICall, SoloHasClock, AtWork, ClockRuns
  <2> QED BY <1>9, <2>1, <2>2 DEF RecordAPICall, Goto
<1>10. ASSUME NEW c \in Caller, PauseSnapshot(c) PROVE SoloHasClock' /\ ClockRuns'
  BY <1>10, <1>m, <1>r DEF PauseSnapshot, Goto, AtWork, ClockRuns, breakerVars, ghostVars
<1>11. ASSUME NEW x \in Thread, SaveState(x) \/ SaveFails(x) PROVE SoloHasClock' /\ ClockRuns'
  BY <1>11, <1>m DEF SaveState, SaveFails, Saved, Goto, AtWork, ClockRuns, breakerVars, ghostVars
<1>12. CASE UNCHANGED vars
  BY <1>12 DEF vars, breakerVars, ghostVars, SoloHasClock, AtWork, ClockRuns
<1> QED
  BY <1>1, <1>2, <1>3, <1>4, <1>5, <1>6, <1>7, <1>8, <1>9, <1>10, <1>11, <1>12 DEF Next, RunStep

\* A run leaves its work by FinishRun only, and that reads the clock: if the run has
\* had it to itself, a long run trips.
LEMMA LongRunStep ==
  IInv /\ SoloHasClock /\ [Next]_vars =>
    \A r \in solo :
      pc[r] = "working" /\ pc'[r] # "working" /\ now - began[r] > WorkLimit /\ restarts' = restarts
      => pc'[r] = "trip"
<1> SUFFICES ASSUME IInv, SoloHasClock, [Next]_vars, NEW r \in solo,
                    pc[r] = "working", pc'[r] # "working", now - began[r] > WorkLimit,
                    restarts' = restarts
             PROVE  pc'[r] = "trip"
  OBVIOUS
<1> USE Assumptions DEF AllAssumptions, BoundAssumption
<1>t. /\ pc \in [Thread -> RunPc \cup CallPc] /\ r \in Runner /\ r \in Thread
      /\ restarts \in Nat
  BY DEF IInv, TypeOK, ThreadType, GhostType, Thread
<1>1. \/ FinishRun(r)
      \/ \E x \in Thread : \E l : pc[x] # "working" /\ pc' = [pc EXCEPT ![x] = l]
      \/ \E q \in Runner \ {r} : \E l : pc' = [pc EXCEPT ![q] = l]
      \/ UNCHANGED pc
  <2>1. ASSUME NEW q \in Runner, RunStep(q)
        PROVE  \/ FinishRun(q)
               \/ \E l : pc[q] # "working" /\ pc' = [pc EXCEPT ![q] = l]
    BY <2>1 DEF RunStep, Allow, BeginRun, Check, BeginWork, StartRunner, Trip, Goto
  <2>2. ASSUME NEW q \in Runner, FinishRun(q) PROVE \E l : pc' = [pc EXCEPT ![q] = l]
    BY <2>2 DEF FinishRun, Goto
  <2>3. ASSUME NEW c \in Caller, RecordAPICall(c) \/ PauseSnapshot(c)
        PROVE  \/ \E l : pc[c] # "working" /\ pc' = [pc EXCEPT ![c] = l]
               \/ UNCHANGED pc
    BY <2>3 DEF RecordAPICall, PauseSnapshot, Goto
  <2>4. ASSUME NEW x \in Thread, SaveState(x) \/ SaveFails(x)
        PROVE  \E l : pc[x] # "working" /\ pc' = [pc EXCEPT ![x] = l]
    BY <2>4 DEF SaveState, SaveFails, Saved, Goto
  <2>5. CASE Tick \/ UNCHANGED vars
    BY <2>5 DEF Tick, vars
  <2>6. ~Restart
    BY <1>t DEF Restart
  <2> QED
    BY <2>1, <2>2, <2>3, <2>4, <2>5, <2>6, <1>t DEF Next, Thread
<1>2. ASSUME NEW x \in Thread, NEW l, x # r, pc' = [pc EXCEPT ![x] = l] PROVE pc'[r] = pc[r]
  BY <1>2, <1>t
<1>3. FinishRun(r)
  BY <1>1, <1>2, <1>t DEF Thread
<1>4. workStart = began[r] /\ workStart # 0
  BY DEF SoloHasClock
<1> QED
  BY <1>3, <1>4, <1>t DEF FinishRun, Goto

\* A run that had the breaker's clock to itself and took longer than the limit trips
\* the breaker when it ends, however many requests were refused while it ran
\* (BeginRun, FinishRun, settleRun).
THEOREM LongRunsTrip == Spec => LongRunTrips
<1>1. Spec => [](SoloHasClock /\ ClockRuns)
  BY InitSolo, StepSolo, AlwaysIInv, PTL DEF Spec
<1> QED
  BY <1>1, AlwaysIInv, LongRunStep, PTL DEF Spec, LongRunTrips

-----------------------------------------------------------------------------
(* What is in the table.  While apart holds, at most one pause is on its way, *)
(* and it is the one in force.                                                *)

InForce(until) == now < pausedUntil => until >= pausedUntil

OnePending   == \A x, y \in Thread : Pending(x) /\ Pending(y) => x = y
SavesCurrent == \A x \in Thread : Pending(x) /\ pc[x] = "save" => InForce(saving[x])
TableCurrent == NonePending(Thread) => InForce(stored)

StoredInv == apart => OnePending /\ SavesCurrent /\ TableCurrent

LEMMA InitStored == Init => StoredInv
<1> SUFFICES ASSUME Init PROVE StoredInv
  OBVIOUS
<1>1. NonePending(Thread)
  BY DEF Init, Boot, NonePending, Pending, Thread
<1>2. InForce(stored)
  BY DEF Init, Boot, InForce
<1> QED
  BY <1>1, <1>2 DEF StoredInv, OnePending, SavesCurrent, TableCurrent, NonePending

\* A step of a thread that has no pause to store and gets none.
LEMMA StoredUntouched ==
  ASSUME IInv, StoredInv, NEW x \in Thread, NEW l,
         pc' = [pc EXCEPT ![x] = l], ~Pending(x), ~Pending(x)',
         now' = now, pausedUntil' = pausedUntil, stored' = stored, saving' = saving, apart' = apart
  PROVE  StoredInv'
<1>t. pc \in [Thread -> RunPc \cup CallPc]
  BY DEF IInv, TypeOK, ThreadType
<1>1. \A y \in Thread : y # x => pc'[y] = pc[y]
  BY <1>t
<1>2. \A y \in Thread : Pending(y)' <=> Pending(y)
  BY <1>1 DEF Pending
<1>3. NonePending(Thread)' <=> NonePending(Thread)
  BY <1>2 DEF NonePending, Thread
<1>4. \A u \in Until : InForce(u)' <=> InForce(u)
  BY DEF InForce
<1>5. SavesCurrent => SavesCurrent'
  <2> SUFFICES ASSUME SavesCurrent, NEW y \in Thread, Pending(y)', pc'[y] = "save"
               PROVE  InForce(saving[y])'
    BY DEF SavesCurrent
  <2>1. y # x /\ Pending(y) /\ pc[y] = "save"
    BY <1>1, <1>2
  <2> QED
    BY <2>1 DEF SavesCurrent, InForce
<1>6. OnePending => OnePending'
  BY <1>2 DEF OnePending
<1>7. TableCurrent => TableCurrent'
  BY <1>3 DEF TableCurrent, InForce
<1> QED
  BY <1>5, <1>6, <1>7 DEF StoredInv

\* A new pause: the thread that decided it is the only one that has one to store, or
\* the pauses are no longer apart.
LEMMA StoredPause ==
  ASSUME IInv, NEW x \in Thread, NEW until \in Until, NEW l, Pause(x, until),
         pc' = [pc EXCEPT ![x] = l], Pending(x)',
         l = "save" => saving' = [saving EXCEPT ![x] = until]
  PROVE  StoredInv'
<1>t. pc \in [Thread -> RunPc \cup CallPc] /\ saving \in [Thread -> Until]
  BY DEF IInv, TypeOK, ThreadType
<1> SUFFICES ASSUME apart' PROVE OnePending' /\ SavesCurrent' /\ TableCurrent'
  BY DEF StoredInv
<1>1. \A y \in Thread : y # x => ~Pending(y)'
  BY <1>t DEF Pause, NonePending, Pending
<1>2. OnePending'
  BY <1>1 DEF OnePending
<1>3. TableCurrent'
  BY DEF TableCurrent, NonePending, Thread
<1>4. SavesCurrent'
  <2> SUFFICES ASSUME NEW y \in Thread, Pending(y)', pc'[y] = "save" PROVE InForce(saving[y])'
    BY DEF SavesCurrent
  <2>1. y = x /\ l = "save"
    BY <1>1, <1>t
  <2>2. saving'[y] = until /\ pausedUntil' = until
    BY <2>1, <1>t DEF Pause
  <2> QED
    BY <2>2 DEF InForce, Until
<1> QED BY <1>2, <1>3, <1>4

LEMMA StepStored == IInv /\ StoredInv /\ [Next]_vars => StoredInv'
<1> SUFFICES ASSUME IInv, StoredInv, [Next]_vars PROVE StoredInv'
  OBVIOUS
<1> USE Assumptions DEF AllAssumptions, GuardAssumption, BoundAssumption
<1>t. /\ pc \in [Thread -> RunPc \cup CallPc] /\ saving \in [Thread -> Until]
      /\ stored \in Until /\ pausedUntil \in Until /\ now \in Time
  BY DEF IInv, TypeOK, BreakerType, ThreadType
<1>r. Runner \subseteq Thread /\ Caller \subseteq Thread /\ Runner \cap Caller = {}
  BY DEF Thread, ThreadAssumption
<1>1. CASE Tick
  <2>1. \A u \in Until : InForce(u) => InForce(u)'
    BY <1>1, <1>t DEF Tick, InForce, breakerVars, Time, Until
  <2>2. NonePending(Thread)' <=> NonePending(Thread)
    BY <1>1 DEF Tick, NonePending, Pending
  <2>3. TableCurrent => TableCurrent'
    BY <1>1, <2>1, <2>2, <1>t DEF Tick, TableCurrent, InForce
  <2>4. OnePending => OnePending'
    BY <1>1 DEF Tick, OnePending, Pending
  <2>5. SavesCurrent => SavesCurrent'
    BY <1>1, <2>1, <1>t DEF Tick, SavesCurrent, Pending, InForce
  <2> QED
    BY <1>1, <2>3, <2>4, <2>5 DEF Tick, StoredInv, ghostVars
<1>2. CASE Restart
  <2>1. NonePending(Thread)'
    BY <1>2 DEF Restart, Boot, NonePending, Pending, Thread
  <2>2. InForce(stored)'
    BY <1>2, <1>t DEF Restart, Boot, InForce, Time
  <2> QED
    BY <2>1, <2>2 DEF StoredInv, OnePending, SavesCurrent, TableCurrent, NonePending, Thread
<1>3. ASSUME NEW r \in Runner, NEW passed \in {"allowed", "admitted"}, NEW asked,
             Check(r, passed, asked), pc[r] \in {"idle", "allowed"}
      PROVE  StoredInv'
  <2>1. PICK l \in {"idle", passed} : pc' = [pc EXCEPT ![r] = l]
    BY <1>3 DEF Check, Goto
  <2>2. ~Pending(r) /\ ~Pending(r)'
    BY <1>3, <2>1, <1>t, <1>r DEF Pending
  <2>3. CASE UNCHANGED <<pausedUntil, apart>>
    BY <1>3, <2>1, <2>2, <2>3, <1>r, StoredUntouched DEF Check
  <2>4. CASE pausedUntil' = stored /\ apart' = (apart /\ NonePending(Thread))
    <3> SUFFICES ASSUME apart' PROVE OnePending' /\ SavesCurrent' /\ TableCurrent'
      BY DEF StoredInv
    <3>1. \A y \in Thread : ~Pending(y)'
      BY <2>1, <2>2, <2>4, <1>t DEF NonePending, Pending
    <3>2. InForce(stored)'
      BY <1>3, <2>4, <1>t DEF InForce, Check, Until
    <3> QED
      BY <3>1, <3>2 DEF OnePending, SavesCurrent, TableCurrent
  <2> QED
    BY <1>3, <2>3, <2>4 DEF Check, LoadState
<1>4. ASSUME NEW r \in Runner, (\E t \in Task : Allow(r, t)) \/ BeginRun(r) PROVE StoredInv'
  BY <1>3, <1>4 DEF Allow, BeginRun
<1>5. ASSUME NEW r \in Runner, BeginWork(r) \/ StartRunner(r) \/ FinishRun(r) PROVE StoredInv'
  <2>1. PICK l \in {"begun", "idle", "working", "trip"} : pc' = [pc EXCEPT ![r] = l]
    BY <1>5 DEF BeginWork, StartRunner, FinishRun, Goto
  <2>2. ~Pending(r) /\ ~Pending(r)'
    BY <1>5, <2>1, <1>t, <1>r DEF Pending, BeginWork, StartRunner, FinishRun
  <2> QED
    BY <1>5, <2>1, <2>2, <1>r, StoredUntouched
       DEF BeginWork, StartRunner, FinishRun, breakerVars
<1>6. ASSUME NEW r \in Runner, Trip(r) PROVE StoredInv'
  <2>1. now + WorkPause \in Until
    BY <1>6, <1>r, PauseIInv DEF Trip
  <2>2. Pending(r)' /\ pc' = [pc EXCEPT ![r] = "save"]
    BY <1>6, <1>t, <1>r DEF Trip, Goto, Pending
  <2> QED
    BY <1>6, <2>1, <2>2, <1>r, StoredPause DEF Trip
<1>7. ASSUME NEW c \in Caller, RecordAPICall(c) PROVE StoredInv'
  <2>1. CASE CallLimitReached(CallsSoFar + 1)
    <3>1. Pause(c, now + CallPause) /\ pc' = [pc EXCEPT ![c] = "snapshot"]
      BY <1>7, <2>1 DEF RecordAPICall, Goto
    <3>2. now + CallPause \in Until
      BY <3>1, <1>r, PauseIInv
    <3>3. Pending(c)'
      BY <3>1, <1>t, <1>r DEF Pending
    <3> QED
      BY <3>1, <3>2, <3>3, <1>r, StoredPause
  <2>2. CASE ~CallLimitReached(CallsSoFar + 1)
    BY <1>7, <2>2 DEF RecordAPICall, StoredInv, OnePending, SavesCurrent, TableCurrent,
                      NonePending, Pending, InForce
  <2> QED BY <2>1, <2>2
<1>8. ASSUME NEW c \in Caller, PauseSnapshot(c) PROVE StoredInv'
  <2>1. /\ pc[c] = "snapshot" /\ pc' = [pc EXCEPT ![c] = "save"]
        /\ saving' = [saving EXCEPT ![c] = pausedUntil]
        /\ UNCHANGED <<now, pausedUntil, stored, apart>>
    BY <1>8 DEF PauseSnapshot, Goto, breakerVars, ghostVars
  <2>2. \A y \in Thread : Pending(y)' <=> Pending(y)
    BY <2>1, <1>t, <1>r DEF Pending
  <2>3. OnePending => OnePending'
    BY <2>2 DEF OnePending
  <2>4. TableCurrent => TableCurrent'
    BY <2>1, <1>t, <1>r DEF TableCurrent, NonePending, Pending
  <2>5. SavesCurrent => SavesCurrent'
    <3> SUFFICES ASSUME SavesCurrent, NEW y \in Thread, Pending(y)', pc'[y] = "save"
                 PROVE  InForce(saving[y])'
      BY DEF SavesCurrent
    <3>1. CASE y = c
      BY <2>1, <3>1, <1>t, <1>r DEF InForce, Until
    <3>2. CASE y # c
      BY <2>1, <2>2, <3>2, <1>t, <1>r DEF InForce, SavesCurrent
    <3> QED BY <3>1, <3>2
  <2> QED
    BY <2>1, <2>3, <2>4, <2>5 DEF StoredInv
<1>9. ASSUME NEW x \in Thread, SaveState(x) PROVE StoredInv'
  <2>1. /\ pc[x] = "save" /\ pc' = [pc EXCEPT ![x] = "idle"]
        /\ stored' = saving[x] /\ UNCHANGED <<now, pausedUntil, apart>>
    BY <1>9 DEF SaveState, Saved, Goto, breakerVars, ghostVars
  <2>2. Pending(x)
    BY <2>1 DEF Pending, Thread
  <2> SUFFICES ASSUME apart' PROVE OnePending' /\ SavesCurrent' /\ TableCurrent'
    BY DEF StoredInv
  <2>3. \A y \in Thread : ~Pending(y)'
    BY <2>1, <2>2, <1>t DEF StoredInv, OnePending, Pending
  <2>4. InForce(stored)'
    BY <2>1, <2>2 DEF StoredInv, SavesCurrent, InForce
  <2> QED
    BY <2>3, <2>4 DEF OnePending, SavesCurrent, TableCurrent
<1>10. ASSUME NEW x \in Thread, SaveFails(x) PROVE StoredInv'
  BY <1>10 DEF SaveFails, StoredInv
<1>11. CASE UNCHANGED vars
  BY <1>11 DEF vars, breakerVars, ghostVars, StoredInv, OnePending, SavesCurrent, TableCurrent,
               NonePending, Pending, InForce
<1> QED
  BY <1>1, <1>2, <1>4, <1>5, <1>6, <1>7, <1>8, <1>9, <1>10, <1>11 DEF Next, RunStep

\* A pause in force is in the table once it has been stored and no other was decided
\* or read while it was (trip, RecordAPICall, persistAsync, loadStateLocked): a restart
\* then finds it.
THEOREM PausesStored == Spec => []PauseStored
<1>1. StoredInv => PauseStored
  BY DEF StoredInv, TableCurrent, NonePending, InForce, PauseStored
<1> QED
  BY <1>1, InitStored, StepStored, AlwaysIInv, PTL DEF Spec

-----------------------------------------------------------------------------
(* Bursts.  The calls of the window of the moment are the last inWindow ones;  *)
(* those of the window before are fewer than the limit, and all others came at *)
(* least the length of a window before it began.                              *)

Before == Len(recent) - inWindow

WindowInv ==
  /\ 1 <= now /\ windowStart <= now /\ inWindow <= Len(recent)
  /\ windowStart = 0 => recent = <<>>
  /\ \A i \in 1..Len(recent) : recent[i] <= now
  /\ \A i \in 1..Before :
       /\ recent[i] <= windowStart
       /\ i <= Before - (MaxCalls - 1) => recent[i] + CallWindow <= windowStart

\* The calls within one length of the window are those of two windows at most.
LEMMA WindowsBound == ASSUME IInv, WindowInv PROVE BurstBounded
<1> USE GuardAssumption DEF GuardAssumption
<1> DEFINE lo == Before - (MaxCalls - 1) + 1
<1>1. /\ recent \in Seq(Nat) /\ Len(recent) \in Nat /\ inWindow \in 0..(MaxCalls - 1)
      /\ now \in Nat /\ windowStart \in Nat
  BY BoundAssumption DEF IInv, TypeOK, GhostType, BreakerType, Time, BoundAssumption
<1>2. lo \in Int /\ Len(recent) - lo + 1 = inWindow + MaxCalls - 1
  BY <1>1 DEF Before
<1>3. CallsWithin(CallWindow) \subseteq lo..Len(recent)
  <2> SUFFICES ASSUME NEW i \in CallsWithin(CallWindow) PROVE lo <= i /\ i \in 1..Len(recent)
    BY <1>2
  <2>1. i \in 1..Len(recent) /\ recent[i] \in Nat /\ recent[i] + CallWindow > now
    BY <1>1 DEF CallsWithin
  <2>2. ASSUME i < lo PROVE FALSE
    <3>1. i \in 1..Before /\ i <= Before - (MaxCalls - 1)
      BY <1>1, <2>1, <2>2 DEF Before
    <3> QED BY <1>1, <2>1, <3>1 DEF WindowInv
  <2> QED BY <1>2, <2>1, <2>2
<1> HIDE DEF lo
<1>4. IsFiniteSet(lo..Len(recent))
  BY <1>1, <1>2, FS_Interval
<1>5. Cardinality(CallsWithin(CallWindow)) <= Cardinality(lo..Len(recent))
  BY <1>3, <1>4, FS_Subset
<1>6. Cardinality(lo..Len(recent)) = IF lo > Len(recent) THEN 0 ELSE Len(recent) - lo + 1
  <2>1. \A a, b \in Int : Cardinality(a..b) = IF a > b THEN 0 ELSE b - a + 1
    BY FS_Interval
  <2>2. Len(recent) \in Int
    BY <1>1
  <2> QED BY <1>2, <2>1, <2>2
<1>7. Cardinality(CallsWithin(CallWindow)) \in Nat
  BY <1>3, <1>4, FS_Subset, FS_CardinalityType
<1> QED BY <1>1, <1>2, <1>5, <1>6, <1>7 DEF BurstBounded

\* A pause begins a window without calls.
LEMMA PauseEmpties ==
  ASSUME IInv, WindowInv, NEW x \in Thread, NEW until, Pause(x, until), now' = now
  PROVE  WindowInv'
<1>1. inWindow' = 0 /\ windowStart' = now /\ recent' = <<>> /\ now \in Nat
  BY BoundAssumption DEF Pause, IInv, TypeOK, Time, BoundAssumption
<1>2. Len(recent') = 0 /\ Before' = 0
  BY <1>1 DEF Before
<1> QED BY <1>1, <1>2 DEF WindowInv

\* A call that is counted, in the window of the moment or in one it opens.
LEMMA CallCounted ==
  ASSUME IInv, WindowInv, NEW c \in Caller, RecordAPICall(c), ~CallLimitReached(CallsSoFar + 1)
  PROVE  WindowInv'
<1> USE GuardAssumption DEF GuardAssumption
<1>1. /\ recent \in Seq(Nat) /\ Len(recent) \in Nat /\ inWindow \in 0..(MaxCalls - 1)
      /\ now \in Nat /\ windowStart \in Nat
  BY BoundAssumption DEF IInv, TypeOK, GhostType, BreakerType, Time, BoundAssumption
<1>2. /\ inWindow' = CallsSoFar + 1 /\ now' = now
      /\ windowStart' = IF windowStart = 0 \/ Expired THEN now ELSE windowStart
      /\ recent' = Append(recent, now)
  BY DEF RecordAPICall
<1>3. Len(recent') = Len(recent) + 1 /\ \A i \in 1..Len(recent) : recent'[i] = recent[i]
  BY <1>1, <1>2
<1>4. \A i \in 1..Len(recent) : recent[i] \in Nat
  BY <1>1
<1>5. CASE Expired
  <2>1. Before' = Len(recent) /\ inWindow' = 1 /\ windowStart' = now
    BY <1>1, <1>2, <1>3, <1>5 DEF Before, CallsSoFar
  <2>2. ASSUME NEW i \in 1..Len(recent), i <= Len(recent) - (MaxCalls - 1)
        PROVE  recent[i] + CallWindow <= now
    <3>1. i \in 1..Before
      BY <1>1, <2>2 DEF Before
    <3> QED BY <1>1, <1>4, <1>5, <3>1 DEF WindowInv, Expired
  <2>3. ASSUME NEW i \in 1..Len(recent) PROVE recent[i] <= now
    BY DEF WindowInv
  <2> QED BY <1>1, <1>2, <1>3, <2>1, <2>2, <2>3 DEF WindowInv
<1>6. CASE windowStart = 0
  <2>1. Len(recent) = 0 /\ inWindow = 0 /\ ~Expired
    BY <1>1, <1>6 DEF WindowInv, Expired
  <2>2. Before' = 0 /\ windowStart' = now
    BY <1>1, <1>2, <1>3, <1>6, <2>1 DEF Before, CallsSoFar
  <2> QED BY <1>1, <1>2, <1>3, <2>1, <2>2 DEF WindowInv, CallsSoFar
<1>7. CASE windowStart # 0 /\ ~Expired
  <2>1. Before' = Before /\ windowStart' = windowStart /\ inWindow' = inWindow + 1
    BY <1>1, <1>2, <1>3, <1>7 DEF Before, CallsSoFar
  <2>2. \A i \in 1..Before : i \in 1..Len(recent)
    BY <1>1 DEF Before
  <2> QED BY <1>1, <1>2, <1>3, <1>7, <2>1, <2>2 DEF WindowInv
<1> QED BY <1>5, <1>6, <1>7

LEMMA StepWindow == IInv /\ WindowInv /\ [Next]_vars => WindowInv'
<1> SUFFICES ASSUME IInv, WindowInv, [Next]_vars PROVE WindowInv'
  OBVIOUS
<1> DEFINE Still == UNCHANGED <<inWindow, windowStart, recent>>
<1>1. ASSUME Still, now' = now PROVE WindowInv'
  BY <1>1 DEF WindowInv, Before
<1>2. CASE Tick
  <2>1. now' = now + 1 /\ Still /\ now \in Nat /\ windowStart \in Nat /\ recent \in Seq(Nat)
    BY <1>2, BoundAssumption DEF Tick, breakerVars, ghostVars, IInv, TypeOK, BreakerType,
       GhostType, Time, BoundAssumption
  <2>2. Len(recent) \in Nat /\ \A i \in 1..Len(recent) : recent[i] \in Nat
    BY <2>1
  <2> QED BY <2>1, <2>2 DEF WindowInv, Before
<1>3. CASE Restart
  <2>1. inWindow' = 0 /\ windowStart' = 0 /\ recent' = <<>> /\ now' = now /\ now \in Nat
    BY <1>3, BoundAssumption DEF Restart, Boot, IInv, TypeOK, Time, BoundAssumption
  <2>2. Len(recent') = 0 /\ Before' = 0
    BY <2>1 DEF Before
  <2> QED BY <2>1, <2>2 DEF WindowInv
<1>4. ASSUME NEW r \in Runner, RunStep(r), ~Trip(r) PROVE WindowInv'
  BY <1>1, <1>4 DEF RunStep, Allow, BeginRun, Check, BeginWork, StartRunner, FinishRun, breakerVars
<1>5. ASSUME NEW r \in Runner, Trip(r) PROVE WindowInv'
  BY <1>5, PauseEmpties DEF Trip, Thread
<1>6. ASSUME NEW c \in Caller, RecordAPICall(c) PROVE WindowInv'
  <2>1. CASE CallLimitReached(CallsSoFar + 1)
    BY <1>6, <2>1, PauseEmpties DEF RecordAPICall, Thread
  <2>2. CASE ~CallLimitReached(CallsSoFar + 1)
    BY <1>6, <2>2, CallCounted
  <2> QED BY <2>1, <2>2
<1>7. ASSUME NEW c \in Caller, PauseSnapshot(c) PROVE WindowInv'
  BY <1>1, <1>7 DEF PauseSnapshot, breakerVars, ghostVars
<1>8. ASSUME NEW x \in Thread, SaveState(x) \/ SaveFails(x) PROVE WindowInv'
  BY <1>1, <1>8 DEF SaveState, SaveFails, breakerVars, ghostVars
<1>9. CASE UNCHANGED vars
  BY <1>1, <1>9 DEF vars, breakerVars, ghostVars
<1> QED BY <1>2, <1>3, <1>4, <1>5, <1>6, <1>7, <1>8, <1>9 DEF Next

\* In any span as long as the window fewer than twice the limit of calls are made
\* without a pause, though the window is a fixed one, for every limit and window
\* (recordCall, rollWindowLocked).
THEOREM BurstsBounded == Spec => []BurstBounded
<1>1. Init => WindowInv
  <2> SUFFICES ASSUME Init PROVE WindowInv
    OBVIOUS
  <2>1. inWindow = 0 /\ windowStart = 0 /\ recent = <<>> /\ now = 1
    BY DEF Init, Boot
  <2>2. Len(recent) = 0 /\ Before = 0
    BY <2>1 DEF Before
  <2> QED BY <2>1, <2>2 DEF WindowInv
<1>2. IInv /\ WindowInv => BurstBounded
  BY WindowsBound
<1> QED BY <1>1, <1>2, StepWindow, AlwaysIInv, PTL DEF Spec
=============================================================================
