------------------------ MODULE AuthScheduler_proofs ------------------------
(* The active-refresh scheduler never runs two loops, for any number of       *)
(* settings requests and of loops started in one life of the process.         *)
EXTENDS AuthScheduler, TLAPS

\* A loop between its launch and the step that clears the flag is the last one
\* launched, and the flag is up for it: startLoop tests the flag, so this is what
\* keeps a second loop from being launched beside it.
FlagIsUp == \A n \in Loop : pc[n] \in Active => n = cur /\ running

\* A channel that is closed has been made: the fields hold a pair as soon as the
\* flag has been up once.
Made == (running => cur > 0) /\ \A n \in Loop : pc[n] # "none" => cur > 0

FlagInv == LoopType /\ FlagIsUp /\ Made

IInv == SwitchType /\ CallType /\ FlagInv

USE LoopsAssumption DEF Loop, Active, PcSet, CallSet, Goto

\* A launch while the flag is down: the loop launched is the only one with a flag.
LEMMA LaunchKeepsFlag ==
  ASSUME FlagInv, ~running, NEW at \in {"delay", "main"}, Launch(at),
         UNCHANGED <<stopClosed, doneClosed>>
  PROVE  FlagInv'
<1>1. cur' \in Loop /\ cur' = cur + 1 /\ pc' = [pc EXCEPT ![cur'] = at] /\ running' = TRUE
  BY SMT DEF Launch, FlagInv, LoopType
<1>2. LoopType'
  BY <1>1, SMT DEF FlagInv, LoopType
<1>3. FlagIsUp'
  <2> SUFFICES ASSUME NEW n \in Loop, pc'[n] \in Active PROVE n = cur'
    BY <1>1 DEF FlagIsUp
  <2>1. pc[n] \notin Active
    BY DEF FlagInv, FlagIsUp
  <2> QED BY <1>1, <2>1, SMT DEF FlagInv, LoopType
<1>4. Made'
  BY <1>1, SMT DEF Made
<1> QED BY <1>2, <1>3, <1>4 DEF FlagInv

LEMMA InitIInv == Init => IInv
<1> SUFFICES ASSUME Init PROVE IInv
  OBVIOUS
<1>1. SwitchType
  BY Zenon DEF Init, SwitchType
<1>2. CallType
  BY SMT DEF Init, CallType
<1>3. FlagInv
  BY SMT DEF Init, FlagInv, LoopType, FlagIsUp, Made
<1> QED BY <1>1, <1>2, <1>3 DEF IInv

\* The booleans stay booleans, and a call goes from one of its stages to another.
LEMMA TypesKept ==
  ASSUME SwitchType, CallType, [Next]_vars
  PROVE  SwitchType' /\ CallType'
<1>1. CASE UNCHANGED vars
  BY <1>1 DEF vars, SwitchType, CallType
<1>2. CASE InitActiveRefresh
  BY <1>2 DEF InitActiveRefresh, LaunchIfIdle, Launch, SwitchType, CallType
<1>3. CASE EndContext
  BY <1>3 DEF EndContext, loopVars, SwitchType, CallType
<1>4. ASSUME NEW n \in Loop, LoopStep(n) PROVE SwitchType' /\ CallType'
  BY <1>4 DEF LoopStep, SwitchType, CallType, envVars, DelayStopped, DelayEnds, FirstCheckEnds, TimerFires, CheckEnds, LoopStops, Leave, CloseDone
<1>5. ASSUME NEW c \in Caller, CallStep(c) PROVE SwitchType' /\ CallType'
  <2>1. SwitchType'
    BY <1>5 DEF CallStep, SwitchType, envVars, loopVars, UpdateSetting, SetActiveRefreshEnabled, Shutdown, StartLoop, LaunchIfIdle, Launch, StopLoop, StopReturns
  <2>2. CallType'
    BY <1>5, SMT DEF CallStep, CallType, UpdateSetting, SetActiveRefreshEnabled, Shutdown, StartLoop, StopLoop, StopReturns
  <2> QED BY <2>1, <2>2
<1> QED BY <1>1, <1>2, <1>3, <1>4, <1>5 DEF Next

\* The calls of the application and of the settings handlers.
LEMMA CallKeepsFlag ==
  ASSUME FlagInv, InitActiveRefresh \/ EndContext \/ \E c \in Caller : CallStep(c)
  PROVE  FlagInv'
<1>a. ASSUME UNCHANGED <<running, cur, stopClosed, doneClosed, pc>> PROVE FlagInv'
  BY <1>a DEF FlagInv, LoopType, FlagIsUp, Made
<1>1. CASE InitActiveRefresh
  <2>1. \/ UNCHANGED <<running, cur, stopClosed, doneClosed, pc>>
        \/ ~running /\ Launch("delay") /\ UNCHANGED <<stopClosed, doneClosed>>
    BY <1>1, Zenon DEF InitActiveRefresh, LaunchIfIdle
  <2> QED BY <2>1, <1>a, LaunchKeepsFlag
<1>2. CASE EndContext
  BY <1>2, <1>a DEF EndContext, loopVars
<1>3. ASSUME NEW c \in Caller, CallStep(c) PROVE FlagInv'
  <2>1. CASE UpdateSetting(c)
    BY <2>1, <1>a DEF UpdateSetting, loopVars
  <2>2. CASE SetActiveRefreshEnabled(c)
    BY <2>2, <1>a DEF SetActiveRefreshEnabled, loopVars, envVars
  <2>3. CASE Shutdown(c)
    BY <2>3, <1>a DEF Shutdown, loopVars
  <2>4. CASE StartLoop(c)
    <3>1. \/ UNCHANGED <<running, cur, stopClosed, doneClosed, pc>>
          \/ ~running /\ Launch("main") /\ UNCHANGED <<stopClosed, doneClosed>>
      BY <2>4, Zenon DEF StartLoop, LaunchIfIdle
    <3>2. ASSUME ~running, Launch("main"), UNCHANGED <<stopClosed, doneClosed>>
          PROVE  FlagInv'
      BY <3>2, LaunchKeepsFlag, Zenon
    <3> QED BY <3>1, <3>2, <1>a, Zenon
  <2>5. CASE StopLoop(c)
    <3>1. UNCHANGED <<running, cur, doneClosed, pc>>
      BY <2>5, Zenon DEF StopLoop
    <3>2. stopClosed' = stopClosed \/ (running /\ stopClosed' = stopClosed \cup {cur})
      BY <2>5, Zenon DEF StopLoop
    <3>3. stopClosed' \subseteq Loop
      <4>1. ASSUME running PROVE cur \in Loop
        BY <4>1, SMT DEF FlagInv, LoopType, Made
      <4>2. stopClosed \subseteq Loop
        BY DEF FlagInv, LoopType
      <4> QED BY <3>2, <4>1, <4>2, Zenon
    <3>4. LoopType'
      BY <3>1, <3>3 DEF FlagInv, LoopType
    <3>5. FlagIsUp' /\ Made'
      BY <3>1 DEF FlagInv, FlagIsUp, Made
    <3> QED BY <3>4, <3>5 DEF FlagInv
  <2>6. CASE StopReturns(c)
    BY <2>6, <1>a DEF StopReturns, loopVars, envVars
  <2> QED BY <1>3, <2>1, <2>2, <2>3, <2>4, <2>5, <2>6 DEF CallStep
<1> QED BY <1>1, <1>2, <1>3

\* The steps of a loop.
LEMMA LoopKeepsFlag ==
  ASSUME FlagInv, NEW n \in Loop, LoopStep(n)
  PROVE  FlagInv'
<1> USE DEF FlagInv, LoopType, FlagIsUp, Made
<1>1. CASE DelayStopped(n)
  BY <1>1, SMT DEF DelayStopped
<1>2. CASE DelayEnds(n)
  BY <1>2, SMT DEF DelayEnds
<1>3. CASE FirstCheckEnds(n)
  BY <1>3, SMT DEF FirstCheckEnds
<1>4. CASE TimerFires(n)
  BY <1>4, SMT DEF TimerFires
<1>5. CASE CheckEnds(n)
  BY <1>5, SMT DEF CheckEnds
<1>6. CASE LoopStops(n)
  BY <1>6, SMT DEF LoopStops
<1>7. CASE Leave(n)
  BY <1>7, SMT DEF Leave
<1>8. CASE CloseDone(n)
  BY <1>8, SMT DEF CloseDone
<1> QED BY <1>1, <1>2, <1>3, <1>4, <1>5, <1>6, <1>7, <1>8 DEF LoopStep

LEMMA NextKeepsIInv == IInv /\ [Next]_vars => IInv'
<1> SUFFICES ASSUME IInv, [Next]_vars PROVE IInv'
  OBVIOUS
<1>1. SwitchType' /\ CallType'
  BY TypesKept DEF IInv
<1>2. FlagInv'
  <2>1. CASE UNCHANGED vars
    BY <2>1 DEF vars, IInv, FlagInv, LoopType, FlagIsUp, Made
  <2>2. CASE Next
    BY <2>2, CallKeepsFlag, LoopKeepsFlag DEF Next, IInv
  <2> QED BY <2>1, <2>2
<1> QED BY <1>1, <1>2 DEF IInv

LEMMA AlwaysIInv == Spec => []IInv
  BY InitIInv, NextKeepsIInv, PTL DEF Spec

\* Every reachable state of the scheduler is well typed; in particular stopLoop
\* never closes the nil channel of a loop that was not started.
THEOREM SchedulerTypeCorrect == Spec => []TypeOK
<1>1. IInv => TypeOK
  BY DEF IInv, FlagInv, TypeOK
<1> QED BY <1>1, AlwaysIInv, PTL

\* Two loops never check accounts at the same time (startLoop, stopLoop).
THEOREM LoopsExclusive == Spec => []OneLoop
<1>1. IInv => OneLoop
  BY DEF IInv, FlagInv, FlagIsUp, OneLoop
<1> QED BY <1>1, AlwaysIInv, PTL

-----------------------------------------------------------------------------
(* The startup gate.  Nothing has started before the boot, so that the boot    *)
(* either opens the gate or launches a loop that owes it.                      *)

BootFirst == ~booted => ~running /\ ~ctxDone /\ \A c \in Caller : call[c] = "idle"

GateInv == BootFirst /\ GateOwed

LEMMA LoopOwesGate ==
  ASSUME IInv, GateInv, NEW n \in Loop, LoopStep(n) PROVE GateInv'
<1>0. UNCHANGED <<booted, ctxDone, call>> /\ (running' = running \/ running' = FALSE)
  BY DEF LoopStep, DelayStopped, DelayEnds, FirstCheckEnds, TimerFires, CheckEnds, LoopStops, Leave,
     CloseDone, envVars
<1>1. BootFirst'
  BY <1>0 DEF GateInv, BootFirst
<1>2. CASE DelayStopped(n) \/ FirstCheckEnds(n)
  <2>1. ready'
    BY <1>2 DEF DelayStopped, FirstCheckEnds
  <2> QED BY <1>1, <2>1 DEF GateInv, GateOwed
<1>3. CASE DelayEnds(n)
  <2>1. pc'[n] = "first"
    BY <1>3 DEF DelayEnds, IInv, FlagInv, LoopType
  <2> QED BY <1>1, <2>1 DEF GateInv, GateOwed
<1>4. CASE TimerFires(n) \/ CheckEnds(n) \/ LoopStops(n) \/ Leave(n) \/ CloseDone(n)
  <2>1. ready' = ready /\ pc[n] \notin {"delay", "first"} /\ \A m \in Loop \ {n} : pc'[m] = pc[m]
    BY <1>4 DEF TimerFires, CheckEnds, LoopStops, Leave, CloseDone, IInv, FlagInv, LoopType
  <2> QED BY <1>0, <1>1, <2>1 DEF GateInv, GateOwed
<1> QED BY <1>1, <1>2, <1>3, <1>4 DEF LoopStep, GateInv

\* A loop is launched with a number of its own.
LEMMA LaunchIsNew ==
  ASSUME IInv, ~running, NEW at \in {"delay", "main"}, Launch(at)
  PROVE  cur' \in Loop /\ pc'[cur'] = at /\ \A m \in Loop : pc[m] \in Active => pc'[m] = pc[m]
<1>1. cur' \in Loop /\ cur' = cur + 1 /\ pc' = [pc EXCEPT ![cur'] = at]
  BY SMT DEF Launch, IInv, FlagInv, LoopType
<1>2. \A m \in Loop : pc[m] \notin Active
  BY DEF IInv, FlagInv, FlagIsUp
<1> QED BY <1>1, <1>2 DEF IInv, FlagInv, LoopType

LEMMA CallOwesGate ==
  ASSUME IInv, GateInv, NEW c \in Caller, CallStep(c) PROVE GateInv'
<1>0. booted' = booted /\ ready' = ready /\ CallType
  BY DEF CallStep, UpdateSetting, SetActiveRefreshEnabled, Shutdown, StartLoop, StopLoop, StopReturns,
     envVars, loopVars, IInv
<1>1. booted
  <2> SUFFICES ASSUME ~booted, call[c] = "idle" PROVE FALSE
    BY DEF GateInv, BootFirst
  <2>1. UpdateSetting(c) \/ Shutdown(c)
    BY DEF CallStep, SetActiveRefreshEnabled, StartLoop, StopLoop, StopReturns
  <2> QED BY <2>1 DEF UpdateSetting, Shutdown, GateInv, BootFirst
<1>2. \A m \in Loop : pc[m] \in {"delay", "first"} => pc'[m] = pc[m]
  <2>1. CASE StartLoop(c)
    BY <2>1, LaunchIsNew DEF StartLoop, LaunchIfIdle
  <2>2. CASE ~StartLoop(c)
    BY <2>2 DEF CallStep, UpdateSetting, SetActiveRefreshEnabled, Shutdown, StopLoop, StopReturns,
       loopVars
  <2> QED BY <2>1, <2>2
<1> QED BY <1>0, <1>1, <1>2 DEF GateInv, BootFirst, GateOwed

\* Whatever stops, restarts and switches there are: while the gate is shut after the
\* boot, a loop is in its start delay or its first check, and either step out of
\* them opens the gate (the deferred close of startupReady).
THEOREM GateIsOwed == Spec => []GateOwed
<1>1. Init => GateInv
  BY DEF Init, GateInv, BootFirst, GateOwed
<1>2. ASSUME IInv, GateInv, [Next]_vars PROVE GateInv'
  <2>1. CASE UNCHANGED vars
    BY <1>2, <2>1 DEF vars, GateInv, BootFirst, GateOwed
  <2>2. CASE EndContext
    BY <1>2, <2>2 DEF EndContext, loopVars, GateInv, BootFirst, GateOwed
  <2>3. CASE InitActiveRefresh
    <3>1. booted' /\ ~running
      BY <1>2, <2>3 DEF InitActiveRefresh, GateInv, BootFirst
    <3>2. ready' \/ Launch("delay")
      BY <2>3, <3>1 DEF InitActiveRefresh, LaunchIfIdle
    <3>3. Launch("delay") => cur' \in Loop /\ pc'[cur'] = "delay"
      BY <1>2, <3>1, LaunchIsNew
    <3> QED BY <3>1, <3>2, <3>3 DEF GateInv, BootFirst, GateOwed
  <2> QED BY <1>2, <2>1, <2>2, <2>3, LoopOwesGate, CallOwesGate DEF Next
<1>3. IInv /\ GateInv /\ [Next]_vars => (IInv /\ GateInv)'
  BY <1>2, NextKeepsIInv
<1>4. GateInv => GateOwed
  BY DEF GateInv
<1> QED BY <1>1, <1>3, <1>4, InitIInv, PTL DEF Spec

-----------------------------------------------------------------------------
(* A stop.  The channels that are closed are those of loops that were made,    *)
(* and a loop that was made has started.                                       *)

Launched == \A n \in Loop : /\ n <= cur => pc[n] # "none"
                            /\ n \in stopClosed => n <= cur

LEMMA LaunchedKept == ASSUME IInv, Launched, [Next]_vars PROVE Launched'
<1>0. LoopType BY DEF IInv, FlagInv
<1>a. ASSUME cur' = cur, stopClosed' \subseteq stopClosed \cup {cur},
             \A n \in Loop : pc[n] # "none" => pc'[n] # "none"
      PROVE  Launched'
  BY <1>0, <1>a, SMT DEF Launched, LoopType
<1>b. ASSUME NEW at \in {"delay", "main"}, Launch(at), stopClosed' = stopClosed PROVE Launched'
  <2>1. cur' = cur + 1 /\ cur' \in Loop /\ pc' = [pc EXCEPT ![cur'] = at]
    BY <1>0, <1>b, SMT DEF Launch, LoopType
  <2> QED BY <1>0, <1>b, <2>1, SMT DEF Launched, LoopType
<1>1. CASE UNCHANGED vars
  BY <1>1, <1>a DEF vars
<1>2. CASE EndContext
  BY <1>2, <1>a DEF EndContext, loopVars
<1>3. CASE InitActiveRefresh
  BY <1>3, <1>a, <1>b DEF InitActiveRefresh, LaunchIfIdle
<1>4. ASSUME NEW n \in Loop, LoopStep(n) PROVE Launched'
  <2>1. cur' = cur /\ stopClosed' = stopClosed
    BY <1>4 DEF LoopStep, DelayStopped, DelayEnds, FirstCheckEnds, TimerFires, CheckEnds, LoopStops,
       Leave, CloseDone
  <2>2. \A m \in Loop : pc[m] # "none" => pc'[m] # "none"
    BY <1>0, <1>4 DEF LoopStep, DelayStopped, DelayEnds, FirstCheckEnds, TimerFires, CheckEnds,
       LoopStops, Leave, CloseDone, LoopType
  <2> QED BY <1>a, <2>1, <2>2
<1>5. ASSUME NEW c \in Caller, CallStep(c) PROVE Launched'
  <2>1. CASE StartLoop(c)
    BY <2>1, <1>a, <1>b DEF StartLoop, LaunchIfIdle
  <2>2. CASE ~StartLoop(c)
    BY <1>5, <2>2, <1>a DEF CallStep, UpdateSetting, SetActiveRefreshEnabled, Shutdown, StopLoop,
       StopReturns, loopVars
  <2> QED BY <2>1, <2>2
<1> QED BY <1>1, <1>2, <1>3, <1>4, <1>5 DEF Next

\* The channels are fields that a restart replaces, yet no stop is lost by that: a
\* stopped loop that has not given up its flag still selects on the channel that was
\* closed (startLoop replaces the pair only when the flag is down).
THEOREM StopsReach == Spec => []StopReaches
<1>1. Init => Launched
  BY SMT DEF Init, Launched
<1>2. IInv /\ Launched /\ [Next]_vars => (IInv /\ Launched)'
  BY LaunchedKept, NextKeepsIInv
<1>3. IInv /\ Launched => StopReaches
  <2> SUFFICES ASSUME IInv, Launched, NEW n \in stopClosed, pc[n] \notin {"closing", "ended"}
               PROVE  cur \in stopClosed
    BY DEF StopReaches, Told
  <2>1. n \in Loop
    BY DEF IInv, FlagInv, LoopType
  <2>2. pc[n] # "none"
    BY <2>1 DEF Launched
  <2>3. pc[n] \in Active
    BY <2>1, <2>2 DEF IInv, FlagInv, LoopType
  <2> QED BY <2>1, <2>3 DEF IInv, FlagInv, FlagIsUp
<1> QED BY <1>1, <1>2, <1>3, InitIInv, PTL DEF Spec
=============================================================================
