------------------------ MODULE UploadPersist_proofs ------------------------
(* Proofs about UploadPersist, for any tasks and any bounds: nothing that is   *)
(* owed to a user is lost, the table follows the map, and a restart neither    *)
(* uploads again what has arrived nor starts what was paused.                  *)
(*                                                                             *)
(* The invariant speaks of one task at a time.  Its parts say where a call and  *)
(* a run may stand together (Placed), what is left of a process that has ended *)
(* (Away), and for the table the two facts the writes rest on: a row that is   *)
(* made says what the map says unless another is due (Followed), and a status  *)
(* that must not be restored as pending is nowhere on its way (Flushing).      *)
EXTENDS UploadPersist, TLAPS

\* A task that has not been created.
Fresh(t) ==
  status[t] = "none" =>
    /\ t \notin present \cup timer \cup acked \cup held \cup finished
    /\ row[t] = "none" /\ source[t] = "none" /\ Quiet(t)
    /\ run[t] = "off" /\ call[t] = "idle"

\* Before the restored tasks are run there is nobody but the restoring goroutine.
Away(t) ==
  /\ ~Serves => run[t] = "off" /\ call[t] = "idle" /\ t \notin timer
  /\ up = "down" => t \notin present
  /\ ~Serves /\ t \notin present => Quiet(t)
  /\ up = "restoring" /\ t \notin present => row[t] = "none"

CallWrites == {"create", "pause", "rename", "resume", "resumeMissing", "deleteMark"}

Placed(t) ==
  /\ call[t] \notin {"idle", "drop", "unlink"} => t \in present
  /\ call[t] \in {"create", "resume", "resumeMissing"} => run[t] = "off"
  /\ call[t] = "resume" => t \notin finished \cup held
  /\ call[t] \in {"pauseCancel", "pause"} => status[t] # "pending"
  /\ call[t] \in {"drop", "unlink"} => t \notin present
  /\ call[t] = "unlink" => t \in deleted
  /\ Serves /\ Waits(t, "call") => call[t] \in CallWrites
  /\ run[t] \in TransferPc => status[t] # "pending"
  /\ run[t] \in {"uploaded", "cleaned"} => t \in finished

\* A task on its way to its first row is in nobody else's hands.
Creating(t) ==
  call[t] = "create" =>
    /\ t \notin timer \cup acked \cup held \cup finished
    /\ ~Waits(t, "run") /\ ~Waits(t, "flush")
    /\ Waits(t, "call") <=> row[t] = "none"
    /\ source[t] # "none"

Kept(t) ==
  /\ t \in acked \ deleted => row[t] # "none"
  /\ t \in acked \ (finished \cup deleted \cup forgotten) => source[t] # "none"

Steady(t) == /\ t \in present /\ run[t] \notin TransferPc /\ call[t] # "pauseCancel"
             /\ \A w \in Writer : write[t][w] # "due"

Followed(t) ==
  up # "down" /\ t \notin spoiled =>
    /\ Steady(t) => /\ \A w \in Writer : Made(t, w) => write[t][w] = status[t]
                    /\ Quiet(t) => row[t] = status[t]
    /\ t \notin present => Quiet(t) /\ (call[t] # "drop" => row[t] = "none")
    /\ \A v, w \in Writer : Made(t, v) /\ Made(t, w) => v = w

NoPending(t) ==
  /\ status[t] # "pending" /\ row[t] # "pending"
  /\ \A w \in Writer : write[t][w] # "pending"

\* Nothing is pending once w's row has reached the table.
Flushing(t, w) ==
  /\ status[t] # "pending"
  /\ row[t] = "pending" => Waits(t, w)
  /\ \A v \in Writer : write[t][v] = "pending" => write[t][w] = "due"

NotAgain(t) ==
  t \notin spoiled =>
    /\ t \in finished => NoPending(t) /\ run[t] \notin {"spawned", "slot", "begun"}
    /\ t \in held => NoPending(t)
    /\ run[t] \in TransferPc => Flushing(t, "run")
    /\ call[t] = "pause" => Flushing(t, "call")

TaskInv(t) == /\ Fresh(t) /\ Away(t) /\ Placed(t) /\ Creating(t)
              /\ Kept(t) /\ Followed(t) /\ NotAgain(t)

IInv == TypeOK /\ (\A t \in Task : TaskInv(t)) /\ UploadedOnce

-----------------------------------------------------------------------------
(* Types.                                                                     *)

Rows      == Status \cup {"none", "due"}
WriteType == [Task -> [Writer -> Rows]]

LEMMA InitType == Init => TypeOK
<1> SUFFICES ASSUME Init PROVE TypeOK
  OBVIOUS
<1>1. NoWrite \in [Writer -> Rows]
  BY DEF NoWrite, Rows
<1>2. write \in WriteType
  BY <1>1 DEF Init, WriteType
<1>3. \A m \in Nat : 0 \in 0..m
  OBVIOUS
<1>4. crashes \in 0..MaxCrashes /\ faults \in 0..MaxFaults /\ asks \in 0..MaxAsks
  BY <1>3, BoundAssumption DEF Init
<1> QED
  BY <1>2, <1>4 DEF Init, TypeOK, WriteType, Rows, RunPc, CallPc

LEMMA Counted ==
  ASSUME NEW m \in Nat, NEW n \in 0..m, n < m
  PROVE  n + 1 \in 0..m
  OBVIOUS

LEMMA BoundsCounted ==
  ASSUME TypeOK
  PROVE  /\ faults < MaxFaults => faults + 1 \in 0..MaxFaults
         /\ crashes < MaxCrashes => crashes + 1 \in 0..MaxCrashes
         /\ asks < MaxAsks => asks + 1 \in 0..MaxAsks
<1>1. faults \in 0..MaxFaults /\ crashes \in 0..MaxCrashes /\ asks \in 0..MaxAsks
  BY DEF TypeOK
<1> QED
  BY <1>1, Counted, BoundAssumption

LEMMA WriteTyped ==
  ASSUME TypeOK, NEW t \in Task, NEW w \in Writer, NEW r \in Rows
  PROVE  [write EXCEPT ![t][w] = r] \in WriteType
<1>1. write \in WriteType /\ write[t] \in [Writer -> Rows]
  BY DEF TypeOK, WriteType, Rows
<1>2. [write[t] EXCEPT ![w] = r] \in [Writer -> Rows]
  BY <1>1
<1> QED
  BY <1>1, <1>2 DEF WriteType

(* The actions with alternatives, taken apart.                                *)

LEMMA BeginCases ==
  ASSUME NEW t \in Task, Begin(t)
  PROVE  /\ run[t] = "slot"
         /\ UNCHANGED <<up, present, call, timer, row, source, history>>
         /\ \/ /\ t \in present /\ status[t] = "pending" /\ SetStatus(t, "running")
               /\ Due(t, "run") /\ Goto(t, "begun")
            \/ t \in present /\ UNCHANGED status /\ Due(t, "run") /\ Goto(t, "ending")
            \/ t \notin present /\ UNCHANGED <<status, write>> /\ Goto(t, "off")
  BY DEF Begin

LEMMA ResumeCases ==
  ASSUME NEW t \in Task, Resume(t)
  PROVE  /\ Serves /\ call[t] = "idle" /\ t \in present /\ run[t] = "off" /\ Due(t, "call")
         /\ UNCHANGED <<up, present, run, timer, row, source, acked, deleted, spoiled, forgotten>>
         /\ \/ /\ SetStatus(t, "failed") /\ Calls(t, "resumeMissing")
               /\ UNCHANGED <<finished, held>>
            \/ /\ source[t] # "none" /\ SetStatus(t, "pending") /\ Calls(t, "resume")
               /\ finished' = finished \ {t} /\ held' = held \ {t}
  BY DEF Resume, CanCall, Called

LEMMA DeleteCases ==
  ASSUME NEW t \in Task, Delete(t)
  PROVE  /\ Serves /\ call[t] = "idle" /\ t \in present
         /\ UNCHANGED <<up, present, run, timer, row, source, history>>
         /\ \/ Calls(t, "remove") /\ UNCHANGED <<status, write>>
            \/ Calls(t, "deleteCancel") /\ UNCHANGED <<status, write>>
            \/ SetStatus(t, "canceled") /\ Due(t, "call") /\ Calls(t, "deleteMark")
  BY DEF Delete, CanCall, Called

LEMMA LeaveQueueType == ASSUME TypeOK, NEW t \in Task, LeaveQueue(t) PROVE TypeOK'
  BY DEF TypeOK, LeaveQueue, Goto, taskVars, bounds, history, RunPc, TransferPc

LEMMA TakeSlotType == ASSUME TypeOK, NEW t \in Task, TakeSlot(t) PROVE TypeOK'
  BY DEF TypeOK, TakeSlot, Goto, taskVars, bounds, history, RunPc, TransferPc

LEMMA BeginType == ASSUME TypeOK, NEW t \in Task, Begin(t) PROVE TypeOK'
<1>1. write' \in WriteType
  <2>1. write' = write \/ write' = [write EXCEPT ![t]["run"] = "due"]
    BY BeginCases DEF Due
  <2>2. [write EXCEPT ![t]["run"] = "due"] \in WriteType
    BY WriteTyped DEF Writer, Rows
  <2> QED
    BY <2>1, <2>2 DEF TypeOK, WriteType, Rows
<1>2. status' \in [Task -> Status \cup {"none"}]
  <2>1. status \in [Task -> Status \cup {"none"}]
    BY DEF TypeOK
  <2> QED
    BY <2>1, BeginCases DEF SetStatus, Status
<1>3. run' \in [Task -> RunPc]
  <2>1. run \in [Task -> RunPc]
    BY DEF TypeOK
  <2> QED
    BY <2>1, BeginCases DEF Goto, RunPc, TransferPc
<1> QED
  BY <1>1, <1>2, <1>3 DEF TypeOK, Begin, bounds, history, WriteType, Rows

LEMMA UploadProgressType == ASSUME TypeOK, NEW t \in Task, UploadProgress(t) PROVE TypeOK'
  BY DEF TypeOK, UploadProgress, SetStatus, bounds, history, Status, Transfers

LEMMA ApplyResumeStateType == ASSUME TypeOK, NEW t \in Task, ApplyResumeState(t) PROVE TypeOK'
  BY DEF TypeOK, ApplyResumeState, taskVars, bounds, history, Transfers

LEMMA FlushResumeType == ASSUME TypeOK, NEW t \in Task, FlushResume(t) PROVE TypeOK'
<1>1. write' = write \/ write' = [write EXCEPT ![t]["flush"] = "due"]
  BY DEF FlushResume, Due, taskVars, bounds, history
<1>2. [write EXCEPT ![t]["flush"] = "due"] \in WriteType
  BY WriteTyped DEF Writer, Rows
<1>3. write' \in WriteType
  BY <1>1, <1>2 DEF TypeOK, WriteType, Rows
<1> QED
  BY <1>3 DEF TypeOK, FlushResume, taskVars, bounds, history, WriteType, Rows

LEMMA UploadDoneType == ASSUME TypeOK, NEW t \in Task, UploadDone(t) PROVE TypeOK'
  BY DEF TypeOK, UploadDone, Goto, taskVars, bounds, RunPc, TransferPc, Transfers

LEMMA UploadFailsType == ASSUME TypeOK, NEW t \in Task, UploadFails(t) PROVE TypeOK'
<1>1. write' = write \/ write' = [write EXCEPT ![t]["run"] = "due"]
  BY DEF UploadFails, Due, bounds, history
<1>2. [write EXCEPT ![t]["run"] = "due"] \in WriteType
  BY WriteTyped DEF Writer, Rows
<1>3. write' \in WriteType
  BY <1>1, <1>2 DEF TypeOK, WriteType, Rows
<1> QED
  BY <1>3 DEF TypeOK, UploadFails, Goto, SetStatus, bounds, history, WriteType, Rows, Status,
     RunPc, TransferPc

LEMMA CleanupLocalSourceType == ASSUME TypeOK, NEW t \in Task, CleanupLocalSource(t) PROVE TypeOK'
  BY DEF TypeOK, CleanupLocalSource, Goto, taskVars, bounds, history, RunPc, TransferPc, Source

LEMMA SucceedType == ASSUME TypeOK, NEW t \in Task, Succeed(t) PROVE TypeOK'
<1>1. write' = write \/ write' = [write EXCEPT ![t]["run"] = "due"]
  BY DEF Succeed, Due, bounds, history
<1>2. [write EXCEPT ![t]["run"] = "due"] \in WriteType
  BY WriteTyped DEF Writer, Rows
<1>3. write' \in WriteType
  BY <1>1, <1>2 DEF TypeOK, WriteType, Rows
<1> QED
  BY <1>3 DEF TypeOK, Succeed, Goto, SetStatus, bounds, history, WriteType, Rows, Status, RunPc,
     TransferPc

LEMMA EndRunType == ASSUME TypeOK, NEW t \in Task, EndRun(t) PROVE TypeOK'
  BY DEF TypeOK, EndRun, Goto, taskVars, bounds, history, RunPc, TransferPc

LEMMA CreateFailsType == ASSUME TypeOK, NEW t \in Task, CreateFails(t) PROVE TypeOK'
<1>1. [write EXCEPT ![t]["call"] = "none"] \in WriteType
  BY WriteTyped DEF Writer, Rows
<1>2. write' \in WriteType
  BY <1>1 DEF CreateFails
<1>3. faults' \in 0..MaxFaults
  BY BoundsCounted DEF CreateFails
<1>4. source' \in [Task -> Source \cup {"none"}] /\ call' \in [Task -> CallPc]
  BY DEF TypeOK, CreateFails, Calls, history, CallPc
<1> QED
  BY <1>2, <1>3, <1>4 DEF TypeOK, CreateFails, Calls, history, WriteType, Rows

LEMMA CreateReturnsType == ASSUME TypeOK, NEW t \in Task, CreateReturns(t) PROVE TypeOK'
  BY DEF TypeOK, CreateReturns, Goto, Calls, taskVars, bounds, RunPc, CallPc, TransferPc, Returned

LEMMA PauseType == ASSUME TypeOK, NEW t \in Task, Pause(t) PROVE TypeOK'
  BY DEF TypeOK, Pause, Calls, SetStatus, bounds, history, Status, CallPc

LEMMA PauseCancelsType == ASSUME TypeOK, NEW t \in Task, PauseCancels(t) PROVE TypeOK'
<1>1. write' = write \/ write' = [write EXCEPT ![t]["call"] = "due"]
  BY DEF PauseCancels, Due, taskVars, bounds, history
<1>2. [write EXCEPT ![t]["call"] = "due"] \in WriteType
  BY WriteTyped DEF Writer, Rows
<1>3. write' \in WriteType
  BY <1>1, <1>2 DEF TypeOK, WriteType, Rows
<1> QED
  BY <1>3 DEF TypeOK, PauseCancels, Calls, taskVars, bounds, history, WriteType, Rows, CallPc

LEMMA PauseReturnsType == ASSUME TypeOK, NEW t \in Task, PauseReturns(t) PROVE TypeOK'
  BY DEF TypeOK, PauseReturns, Calls, taskVars, bounds, CallPc, Returned

LEMMA RenameTaskType == ASSUME TypeOK, NEW t \in Task, RenameTask(t) PROVE TypeOK'
<1>1. write' = write \/ write' = [write EXCEPT ![t]["call"] = "due"]
  BY DEF RenameTask, Due, taskVars, bounds, history
<1>2. [write EXCEPT ![t]["call"] = "due"] \in WriteType
  BY WriteTyped DEF Writer, Rows
<1>3. write' \in WriteType
  BY <1>1, <1>2 DEF TypeOK, WriteType, Rows
<1> QED
  BY <1>3 DEF TypeOK, RenameTask, Calls, taskVars, bounds, history, WriteType, Rows, CallPc

LEMMA ResumeType == ASSUME TypeOK, NEW t \in Task, Resume(t) PROVE TypeOK'
<1>1. write' = write \/ write' = [write EXCEPT ![t]["call"] = "due"]
  BY DEF Resume, Due
<1>2. [write EXCEPT ![t]["call"] = "due"] \in WriteType
  BY WriteTyped DEF Writer, Rows
<1>3. write' \in WriteType
  BY <1>1, <1>2 DEF TypeOK, WriteType, Rows
<1>4. status' \in [Task -> Status \cup {"none"}]
  BY DEF TypeOK, Resume, Calls, SetStatus, Status
<1>5. mode' \in [Task -> {"", "pause", "delete"}] /\ call' \in [Task -> CallPc]
  BY DEF TypeOK, Resume, Calls, SetStatus, CallPc
<1>6. finished' \subseteq Task /\ held' \subseteq Task /\ asks' \in 0..MaxAsks
  BY BoundsCounted DEF TypeOK, Resume
<1> QED
  BY <1>3, <1>4, <1>5, <1>6 DEF TypeOK, Resume, Calls, SetStatus, WriteType, Rows

LEMMA ResumeReturnsType == ASSUME TypeOK, NEW t \in Task, ResumeReturns(t) PROVE TypeOK'
  BY DEF TypeOK, ResumeReturns, Goto, Calls, taskVars, bounds, history, RunPc, CallPc,
     TransferPc, Returned

LEMMA OtherReturnsType == ASSUME TypeOK, NEW t \in Task, OtherReturns(t) PROVE TypeOK'
  BY DEF TypeOK, OtherReturns, Calls, taskVars, bounds, history, CallPc, Returned

LEMMA DeleteType == ASSUME TypeOK, NEW t \in Task, Delete(t) PROVE TypeOK'
<1>1. write' \in WriteType
  <2>1. write' = write \/ write' = [write EXCEPT ![t]["call"] = "due"]
    BY DeleteCases DEF Due
  <2>2. [write EXCEPT ![t]["call"] = "due"] \in WriteType
    BY WriteTyped DEF Writer, Rows
  <2> QED
    BY <2>1, <2>2 DEF TypeOK, WriteType, Rows
<1>2. status' \in [Task -> Status \cup {"none"}]
  <2>1. status \in [Task -> Status \cup {"none"}]
    BY DEF TypeOK
  <2> QED
    BY <2>1, DeleteCases DEF SetStatus, Status
<1>3. call' \in [Task -> CallPc]
  <2>1. call \in [Task -> CallPc]
    BY DEF TypeOK
  <2> QED
    BY <2>1, DeleteCases DEF Calls, CallPc
<1>4. mode' \in [Task -> {"", "pause", "delete"}]
  <2>1. mode \in [Task -> {"", "pause", "delete"}]
    BY DEF TypeOK
  <2>2. mode' = mode \/ mode' = [mode EXCEPT ![t] = "delete"]
    BY DEF Delete
  <2> QED
    BY <2>1, <2>2
<1> QED
  BY <1>1, <1>2, <1>3, <1>4 DEF TypeOK, Delete, bounds, history, WriteType, Rows

LEMMA DeleteCancelsType == ASSUME TypeOK, NEW t \in Task, DeleteCancels(t) PROVE TypeOK'
  BY DEF TypeOK, DeleteCancels, Calls, taskVars, bounds, history, CallPc, Called, Returned

LEMMA DeleteWaitedType == ASSUME TypeOK, NEW t \in Task, DeleteWaited(t) PROVE TypeOK'
  BY DEF TypeOK, DeleteWaited, Calls, taskVars, bounds, history, CallPc, Called

LEMMA DeleteTimeoutType == ASSUME TypeOK, NEW t \in Task, DeleteTimeout(t) PROVE TypeOK'
  BY DEF TypeOK, DeleteTimeout, Calls, taskVars, bounds, history, CallPc, Called

LEMMA RemoveTaskType == ASSUME TypeOK, NEW t \in Task, RemoveTask(t) PROVE TypeOK'
  BY DEF TypeOK, RemoveTask, Calls, bounds, CallPc, Called

LEMMA DeletePersistedType == ASSUME TypeOK, NEW t \in Task, DeletePersisted(t) PROVE TypeOK'
<1>1. row' \in [Task -> Status \cup {"none"}]
  BY DEF TypeOK, DeletePersisted, Calls, taskVars
<1>2. faults' \in 0..MaxFaults
  BY BoundsCounted DEF TypeOK, DeletePersisted
<1>3. spoiled' \subseteq Task /\ deleted' \subseteq Task /\ call' \in [Task -> CallPc]
  BY DEF TypeOK, DeletePersisted, Calls, taskVars, CallPc
<1> QED
  BY <1>1, <1>2, <1>3 DEF TypeOK, DeletePersisted, Calls, taskVars

LEMMA CleanupAfterDeleteType == ASSUME TypeOK, NEW t \in Task, CleanupAfterDelete(t) PROVE TypeOK'
  BY DEF TypeOK, CleanupAfterDelete, Calls, taskVars, bounds, history, CallPc, Source, Called

LEMMA CreateType ==
  ASSUME TypeOK, NEW t \in Task, NEW kind \in Kinds, Create(t, kind) PROVE TypeOK'
<1>1. [write EXCEPT ![t]["call"] = "due"] \in WriteType
  BY WriteTyped DEF Writer, Rows
<1>2. write' \in WriteType
  BY <1>1 DEF Create, Due
<1>3. source' \in [Task -> Source \cup {"none"}]
  BY KindsAssumption DEF TypeOK, Create
<1> QED
  BY <1>2, <1>3 DEF TypeOK, Create, SetStatus, Calls, bounds, history, WriteType, Rows, Status,
     CallPc

LEMMA SnapshotType ==
  ASSUME TypeOK, NEW t \in Task, NEW w \in Writer, Snapshot(t, w) PROVE TypeOK'
<1>1. status[t] \in Rows
  BY DEF TypeOK, Rows
<1>2. write' \in WriteType
  BY <1>1, WriteTyped DEF Snapshot
<1> QED
  BY <1>2 DEF TypeOK, Snapshot, taskVars, bounds, WriteType, Rows

LEMMA UpsertType ==
  ASSUME TypeOK, NEW t \in Task, NEW w \in Writer, Upsert(t, w) PROVE TypeOK'
<1>1. write' \in WriteType
  BY WriteTyped DEF Upsert, Rows
<1>2. row' \in [Task -> Status \cup {"none"}]
  BY DEF TypeOK, Upsert, Made
<1> QED
  BY <1>1, <1>2 DEF TypeOK, Upsert, taskVars, bounds, history, WriteType, Rows

LEMMA UpsertFailsType ==
  ASSUME TypeOK, NEW t \in Task, NEW w \in Writer, UpsertFails(t, w) PROVE TypeOK'
<1>1. write' \in WriteType
  BY WriteTyped DEF UpsertFails, Rows
<1>2. faults' \in 0..MaxFaults
  BY BoundsCounted DEF UpsertFails
<1> QED
  BY <1>1, <1>2 DEF TypeOK, UpsertFails, taskVars, WriteType, Rows

LEMMA StopType == TypeOK /\ Stop => TypeOK'
  BY DEF TypeOK, Stop, bounds, history

LEMMA CrashType == TypeOK /\ Crash => TypeOK'
<1> SUFFICES ASSUME TypeOK, Crash PROVE TypeOK'
  OBVIOUS
<1>1. write' \in WriteType
  BY DEF Crash, NoWrite, WriteType, Rows
<1>2. crashes' \in 0..MaxCrashes
  BY BoundsCounted DEF Crash
<1> QED
  BY <1>1, <1>2 DEF TypeOK, Crash, history, WriteType, Rows, RunPc, CallPc

LEMMA RestoreTasksType == TypeOK /\ RestoreTasks => TypeOK'
<1> SUFFICES ASSUME TypeOK, RestoreTasks PROVE TypeOK'
  OBVIOUS
<1>1. \A r \in {"none", "due"} : [NoWrite EXCEPT !["call"] = r] \in [Writer -> Rows]
  BY DEF NoWrite, Rows
<1>2. NoWrite \in [Writer -> Rows]
  BY DEF NoWrite, Rows
<1>3. write' \in WriteType
  BY <1>1, <1>2 DEF RestoreTasks, WriteType
<1>4. \A t \in Task : row[t] # "none" => Restored(t) \in Status
  BY DEF TypeOK, Restored, Status
<1>5. status' \in [Task -> Status \cup {"none"}]
  BY <1>4 DEF TypeOK, RestoreTasks
<1> QED
  BY <1>3, <1>5 DEF TypeOK, RestoreTasks, bounds, history, WriteType, Rows

LEMMA OrphansTyped == ASSUME TypeOK, NEW kept PROVE Orphans(kept) \in [Task -> Source \cup {"none"}]
  BY DEF TypeOK, Orphans

LEMMA RestoreEndsType == TypeOK /\ RestoreEnds => TypeOK'
<1> SUFFICES ASSUME TypeOK, RestoreEnds PROVE TypeOK'
  OBVIOUS
<1>1. run' \in [Task -> RunPc]
  BY DEF RestoreEnds, RunPc
<1>2. source' \in [Task -> Source \cup {"none"}]
  BY OrphansTyped DEF RestoreEnds
<1> QED
  BY <1>1, <1>2 DEF TypeOK, RestoreEnds, taskVars, bounds, history

LEMMA RestoreFailsType == TypeOK /\ RestoreFails => TypeOK'
<1> SUFFICES ASSUME TypeOK, RestoreFails PROVE TypeOK'
  OBVIOUS
<1>1. faults' \in 0..MaxFaults
  BY BoundsCounted DEF RestoreFails
<1> QED
  BY <1>1, OrphansTyped DEF TypeOK, RestoreFails, taskVars

-----------------------------------------------------------------------------
(* Steps of one task.                                                         *)

\* Of the task's state only the named components change.
SameBut(t, F) ==
  /\ up' = up
  /\ "present" \in F \/ (t \in present' <=> t \in present)
  /\ "status" \in F \/ status'[t] = status[t]
  /\ "run" \in F \/ run'[t] = run[t]
  /\ "call" \in F \/ call'[t] = call[t]
  /\ "timer" \in F \/ (t \in timer' <=> t \in timer)
  /\ "write" \in F \/ \A w \in Writer : write'[t][w] = write[t][w]
  /\ "row" \in F \/ row'[t] = row[t]
  /\ "source" \in F \/ source'[t] = source[t]
  /\ "acked" \in F \/ (t \in acked' <=> t \in acked)
  /\ "deleted" \in F \/ (t \in deleted' <=> t \in deleted)
  /\ "finished" \in F \/ (t \in finished' <=> t \in finished)
  /\ "held" \in F \/ (t \in held' <=> t \in held)
  /\ "spoiled" \in F \/ (t \in spoiled' <=> t \in spoiled)
  /\ t \in forgotten' <=> t \in forgotten

\* A row of the task becomes due.
NowDue(t, w) ==
  /\ w \in Writer
  /\ \A v \in Writer : write'[t][v] = IF v = w THEN "due" ELSE write[t][v]

LEMMA DueWrites ==
  ASSUME TypeOK, NEW t \in Task, NEW w \in Writer, Due(t, w)
  PROVE  /\ NowDue(t, w)
         /\ \A u \in Task \ {t} : \A v \in Writer : write'[u][v] = write[u][v]
<1>1. write \in WriteType /\ write[t] \in [Writer -> Rows]
  BY DEF TypeOK, WriteType, Rows
<1> QED
  BY <1>1 DEF Due, NowDue, WriteType

LEMMA Pointwise ==
  ASSUME TypeOK, NEW t \in Task, NEW x
  PROVE  /\ SetStatus(t, x) => status'[t] = x /\ \A u \in Task \ {t} : status'[u] = status[u]
         /\ Goto(t, x) => run'[t] = x /\ \A u \in Task \ {t} : run'[u] = run[u]
         /\ Calls(t, x) => call'[t] = x /\ \A u \in Task \ {t} : call'[u] = call[u]
  BY DEF TypeOK, SetStatus, Goto, Calls

LEMMA UntouchedTask ==
  ASSUME NEW t \in Task, TaskInv(t), SameBut(t, {})
  PROVE  TaskInv(t)'
<1> USE DEF TaskInv, SameBut
<1>1. Fresh(t)' /\ Away(t)'
  BY DEF Fresh, Away, Serves, Quiet, Waits
<1>2. Placed(t)' /\ Creating(t)' /\ Kept(t)'
  BY DEF Placed, Creating, Kept, Serves, Waits, Writer
<1>3. Followed(t)'
  BY DEF Followed, Steady, Quiet, Waits, Made
<1>4. NotAgain(t)'
  BY DEF NotAgain, NoPending, Flushing, Waits, Writer
<1> QED
  BY <1>1, <1>2, <1>3, <1>4

(* One lemma per action: what it does to its task, and to no other.          *)

LEMMA LeaveQueueInv ==
  ASSUME TypeOK, \A u \in Task : TaskInv(u), NEW t \in Task, LeaveQueue(t)
  PROVE  \A u \in Task : TaskInv(u)'
<1>1. \A u \in Task \ {t} : SameBut(u, {})
  BY DEF TypeOK, SameBut, LeaveQueue, Goto, taskVars, bounds, history
<1>2. /\ SameBut(t, {"run"})
      /\ run[t] = "spawned"
      /\ run'[t] = "off"
  BY DEF TypeOK, SameBut, LeaveQueue, Goto, taskVars, bounds, history
<1> USE <1>2 DEF TaskInv, SameBut
<1>3. TaskInv(t)
  OBVIOUS
<1>4. Fresh(t)'
  BY <1>3 DEF Fresh, Quiet, Waits
<1>5. Away(t)'
  BY <1>3 DEF Away, Serves, Quiet, Waits
<1>6. Placed(t)'
  BY <1>3 DEF Placed, Serves, Waits, CallWrites, TransferPc, Writer
<1>7. Creating(t)'
  BY <1>3 DEF Creating, Placed, Waits, Writer, Made, Status
<1>8. Kept(t)'
  BY <1>3 DEF Kept, Placed, Creating, Waits
<1>9. Followed(t)'
  BY <1>3 DEF Followed, Steady, Quiet, Waits, Made, Placed, Creating, Away, Serves, CallWrites,
     TransferPc, Status, Writer
<1>10. NotAgain(t)'
  BY <1>3 DEF NotAgain, NoPending, Flushing, Waits, Placed, Creating, TransferPc, Writer
<1> QED
  BY <1>1, <1>4, <1>5, <1>6, <1>7, <1>8, <1>9, <1>10, UntouchedTask

LEMMA TakeSlotInv ==
  ASSUME TypeOK, \A u \in Task : TaskInv(u), NEW t \in Task, TakeSlot(t)
  PROVE  \A u \in Task : TaskInv(u)'
<1>1. \A u \in Task \ {t} : SameBut(u, {})
  BY DEF TypeOK, SameBut, TakeSlot, Goto, taskVars, bounds, history
<1>2. /\ SameBut(t, {"run"})
      /\ run[t] = "spawned" /\ t \in present /\ status[t] = "pending"
      /\ run'[t] = "slot"
  BY DEF TypeOK, SameBut, TakeSlot, Goto, taskVars, bounds, history
<1> USE <1>2 DEF TaskInv, SameBut
<1>3. TaskInv(t)
  OBVIOUS
<1>4. Fresh(t)'
  BY <1>3 DEF Fresh, Quiet, Waits
<1>5. Away(t)'
  BY <1>3 DEF Away, Serves, Quiet, Waits
<1>6. Placed(t)'
  BY <1>3 DEF Placed, Serves, Waits, CallWrites, TransferPc, Writer
<1>7. Creating(t)'
  BY <1>3 DEF Creating, Placed, Waits, Writer, Made, Status
<1>8. Kept(t)'
  BY <1>3 DEF Kept, Placed, Creating, Waits
<1>9. Followed(t)'
  BY <1>3 DEF Followed, Steady, Quiet, Waits, Made, Placed, Creating, Away, Serves, CallWrites,
     TransferPc, Status, Writer
<1>10. NotAgain(t)'
  BY <1>3 DEF NotAgain, NoPending, Flushing, Waits, Placed, Creating, TransferPc, Writer
<1> QED
  BY <1>1, <1>4, <1>5, <1>6, <1>7, <1>8, <1>9, <1>10, UntouchedTask

LEMMA BeginInv ==
  ASSUME TypeOK, \A u \in Task : TaskInv(u), NEW t \in Task, Begin(t)
  PROVE  \A u \in Task : TaskInv(u)'
<1>a. Due(t, "run") =>
        /\ NowDue(t, "run")
        /\ \A u \in Task \ {t} : \A v \in Writer : write'[u][v] = write[u][v]
  BY DueWrites DEF Writer
<1>c. \A u \in Task \ {t} : \A v \in Writer : write'[u][v] = write[u][v]
  BY <1>a, BeginCases
<1>1. \A u \in Task \ {t} : SameBut(u, {})
  BY <1>c, BeginCases, Pointwise DEF SameBut, history
<1>2. \/ /\ SameBut(t, {"status", "run", "write"})
         /\ run[t] = "slot" /\ t \in present /\ NowDue(t, "run")
         /\ \/ status[t] = "pending" /\ status'[t] = "running" /\ run'[t] = "begun"
            \/ status'[t] = status[t] /\ run'[t] = "ending"
      \/ /\ SameBut(t, {"run"})
         /\ run[t] = "slot" /\ t \notin present
         /\ run'[t] = "off"
  BY <1>a, BeginCases, Pointwise DEF SameBut, history
<1> USE <1>2 DEF TaskInv, SameBut, NowDue
<1>3. TaskInv(t)
  OBVIOUS
<1>4. Fresh(t)'
  BY <1>3 DEF Fresh, Quiet, Waits
<1>5. Away(t)'
  BY <1>3 DEF Away, Serves, Quiet, Waits
<1>6. Placed(t)'
  BY <1>3 DEF Placed, Serves, Waits, CallWrites, TransferPc, Writer
<1>7. Creating(t)'
  BY <1>3 DEF Creating, Placed, Waits, Writer, Made, Status
<1>8. Kept(t)'
  BY <1>3 DEF Kept, Placed, Creating, Waits
<1>9. Followed(t)'
  BY <1>3 DEF Followed, Steady, Quiet, Waits, Made, Placed, Creating, Away, Serves, CallWrites,
     TransferPc, Status, Writer
<1>10. NotAgain(t)'
  BY <1>3 DEF NotAgain, NoPending, Flushing, Waits, Placed, Creating, TransferPc, Writer
<1> QED
  BY <1>1, <1>4, <1>5, <1>6, <1>7, <1>8, <1>9, <1>10, UntouchedTask

LEMMA UploadProgressInv ==
  ASSUME TypeOK, \A u \in Task : TaskInv(u), NEW t \in Task, UploadProgress(t)
  PROVE  \A u \in Task : TaskInv(u)'
<1>1. \A u \in Task \ {t} : SameBut(u, {})
  BY DEF TypeOK, SameBut, UploadProgress, SetStatus, Transfers, bounds, history
<1>2. /\ SameBut(t, {"status"})
      /\ run[t] = "begun" /\ ~Waits(t, "run") /\ t \in present
      /\ status'[t] = "running"
  BY DEF TypeOK, SameBut, UploadProgress, SetStatus, Transfers, bounds, history
<1> USE <1>2 DEF TaskInv, SameBut
<1>3. TaskInv(t)
  OBVIOUS
<1>4. Fresh(t)'
  BY <1>3 DEF Fresh, Quiet, Waits
<1>5. Away(t)'
  BY <1>3 DEF Away, Serves, Quiet, Waits
<1>6. Placed(t)'
  BY <1>3 DEF Placed, Serves, Waits, CallWrites, TransferPc, Writer
<1>7. Creating(t)'
  BY <1>3 DEF Creating, Placed, Waits, Writer, Made, Status
<1>8. Kept(t)'
  BY <1>3 DEF Kept, Placed, Creating, Waits
<1>9. Followed(t)'
  BY <1>3 DEF Followed, Steady, Quiet, Waits, Made, Placed, Creating, Away, Serves, CallWrites,
     TransferPc, Status, Writer
<1>10. NotAgain(t)'
  BY <1>3 DEF NotAgain, NoPending, Flushing, Waits, Placed, Creating, TransferPc, Writer
<1> QED
  BY <1>1, <1>4, <1>5, <1>6, <1>7, <1>8, <1>9, <1>10, UntouchedTask

LEMMA ApplyResumeStateInv ==
  ASSUME TypeOK, \A u \in Task : TaskInv(u), NEW t \in Task, ApplyResumeState(t)
  PROVE  \A u \in Task : TaskInv(u)'
<1>1. \A u \in Task \ {t} : SameBut(u, {})
  BY DEF TypeOK, SameBut, ApplyResumeState, Transfers, taskVars, bounds, history
<1>2. /\ SameBut(t, {"timer"})
      /\ run[t] = "begun" /\ t \in present
      /\ t \in timer'
  BY DEF TypeOK, SameBut, ApplyResumeState, Transfers, taskVars, bounds, history
<1> USE <1>2 DEF TaskInv, SameBut
<1>3. TaskInv(t)
  OBVIOUS
<1>4. Fresh(t)'
  BY <1>3 DEF Fresh, Quiet, Waits
<1>5. Away(t)'
  BY <1>3 DEF Away, Serves, Quiet, Waits
<1>6. Placed(t)'
  BY <1>3 DEF Placed, Serves, Waits, CallWrites, TransferPc, Writer
<1>7. Creating(t)'
  BY <1>3 DEF Creating, Placed, Waits, Writer, Made, Status
<1>8. Kept(t)'
  BY <1>3 DEF Kept, Placed, Creating, Waits
<1>9. Followed(t)'
  BY <1>3 DEF Followed, Steady, Quiet, Waits, Made, Placed, Creating, Away, Serves, CallWrites,
     TransferPc, Status, Writer
<1>10. NotAgain(t)'
  BY <1>3 DEF NotAgain, NoPending, Flushing, Waits, Placed, Creating, TransferPc, Writer
<1> QED
  BY <1>1, <1>4, <1>5, <1>6, <1>7, <1>8, <1>9, <1>10, UntouchedTask

LEMMA FlushResumeInv ==
  ASSUME TypeOK, \A u \in Task : TaskInv(u), NEW t \in Task, FlushResume(t)
  PROVE  \A u \in Task : TaskInv(u)'
<1>a. Due(t, "flush") =>
        /\ NowDue(t, "flush")
        /\ \A u \in Task \ {t} : \A v \in Writer : write'[u][v] = write[u][v]
  BY DueWrites DEF Writer
<1>b. write' = write \/ Due(t, "flush")
  BY DEF FlushResume
<1>c. \A u \in Task \ {t} : \A v \in Writer : write'[u][v] = write[u][v]
  BY <1>a, <1>b
<1>1. \A u \in Task \ {t} : SameBut(u, {})
  BY <1>c DEF TypeOK, SameBut, FlushResume, Serves, taskVars, bounds, history
<1>2. \/ /\ SameBut(t, {"timer", "write"})
         /\ Serves /\ t \in timer /\ t \in present
         /\ t \notin timer' /\ NowDue(t, "flush")
      \/ /\ SameBut(t, {"timer"})
         /\ Serves /\ t \in timer /\ t \notin present
         /\ t \notin timer'
  BY <1>a DEF TypeOK, SameBut, FlushResume, Serves, taskVars, bounds, history
<1> USE <1>2 DEF TaskInv, SameBut, NowDue
<1>3. TaskInv(t)
  OBVIOUS
<1>4. Fresh(t)'
  BY <1>3 DEF Fresh, Quiet, Waits
<1>5. Away(t)'
  BY <1>3 DEF Away, Serves, Quiet, Waits
<1>6. Placed(t)'
  BY <1>3 DEF Placed, Serves, Waits, CallWrites, TransferPc, Writer
<1>7. Creating(t)'
  BY <1>3 DEF Creating, Placed, Waits, Writer, Made, Status
<1>8. Kept(t)'
  BY <1>3 DEF Kept, Placed, Creating, Waits
<1>9. Followed(t)'
  BY <1>3 DEF Followed, Steady, Quiet, Waits, Made, Placed, Creating, Away, Serves, CallWrites,
     TransferPc, Status, Writer
<1>10. NotAgain(t)'
  BY <1>3 DEF NotAgain, NoPending, Flushing, Waits, Placed, Creating, TransferPc, Writer
<1> QED
  BY <1>1, <1>4, <1>5, <1>6, <1>7, <1>8, <1>9, <1>10, UntouchedTask

LEMMA UploadDoneInv ==
  ASSUME TypeOK, \A u \in Task : TaskInv(u), NEW t \in Task, UploadDone(t)
  PROVE  \A u \in Task : TaskInv(u)'
<1>1. \A u \in Task \ {t} : SameBut(u, {})
  BY DEF TypeOK, SameBut, UploadDone, Goto, Transfers, taskVars, bounds
<1>2. /\ SameBut(t, {"run", "finished"})
      /\ run[t] = "begun" /\ ~Waits(t, "run")
      /\ t \in finished'
      /\ run'[t] = IF t \in present THEN "uploaded" ELSE "off"
  BY DEF TypeOK, SameBut, UploadDone, Goto, Transfers, taskVars, bounds
<1> USE <1>2 DEF TaskInv, SameBut
<1>3. TaskInv(t)
  OBVIOUS
<1>4. Fresh(t)'
  BY <1>3 DEF Fresh, Quiet, Waits
<1>5. Away(t)'
  BY <1>3 DEF Away, Serves, Quiet, Waits
<1>6. Placed(t)'
  BY <1>3 DEF Placed, Serves, Waits, CallWrites, TransferPc, Writer
<1>7. Creating(t)'
  BY <1>3 DEF Creating, Placed, Waits, Writer, Made, Status
<1>8. Kept(t)'
  BY <1>3 DEF Kept, Placed, Creating, Waits
<1>9. Followed(t)'
  BY <1>3 DEF Followed, Steady, Quiet, Waits, Made, Placed, Creating, Away, Serves, CallWrites,
     TransferPc, Status, Writer
<1>10. NotAgain(t)'
  BY <1>3 DEF NotAgain, NoPending, Flushing, Waits, Placed, Creating, TransferPc, Writer
<1> QED
  BY <1>1, <1>4, <1>5, <1>6, <1>7, <1>8, <1>9, <1>10, UntouchedTask

LEMMA UploadFailsInv ==
  ASSUME TypeOK, \A u \in Task : TaskInv(u), NEW t \in Task, UploadFails(t)
  PROVE  \A u \in Task : TaskInv(u)'
<1>a. Due(t, "run") =>
        /\ NowDue(t, "run")
        /\ \A u \in Task \ {t} : \A v \in Writer : write'[u][v] = write[u][v]
  BY DueWrites DEF Writer
<1>b. write' = write \/ Due(t, "run")
  BY DEF UploadFails
<1>c. \A u \in Task \ {t} : \A v \in Writer : write'[u][v] = write[u][v]
  BY <1>a, <1>b
<1>1. \A u \in Task \ {t} : SameBut(u, {})
  BY <1>c DEF TypeOK, SameBut, UploadFails, Goto, SetStatus, Transfers, bounds, history
<1>2. \/ /\ SameBut(t, {"status", "run", "write"})
         /\ run[t] = "begun" /\ t \in present /\ NowDue(t, "run")
         /\ status'[t] \in {"failed", "paused", "canceled"} /\ run'[t] = "ending"
      \/ /\ SameBut(t, {"run"})
         /\ run[t] = "begun" /\ t \notin present
         /\ run'[t] = "off"
  BY <1>a DEF TypeOK, SameBut, UploadFails, Goto, SetStatus, Transfers, bounds, history
<1> USE <1>2 DEF TaskInv, SameBut, NowDue
<1>3. TaskInv(t)
  OBVIOUS
<1>4. Fresh(t)'
  BY <1>3 DEF Fresh, Quiet, Waits
<1>5. Away(t)'
  BY <1>3 DEF Away, Serves, Quiet, Waits
<1>6. Placed(t)'
  BY <1>3 DEF Placed, Serves, Waits, CallWrites, TransferPc, Writer
<1>7. Creating(t)'
  BY <1>3 DEF Creating, Placed, Waits, Writer, Made, Status
<1>8. Kept(t)'
  BY <1>3 DEF Kept, Placed, Creating, Waits
<1>9. Followed(t)'
  BY <1>3 DEF Followed, Steady, Quiet, Waits, Made, Placed, Creating, Away, Serves, CallWrites,
     TransferPc, Status, Writer
<1>10. NotAgain(t)'
  BY <1>3 DEF NotAgain, NoPending, Flushing, Waits, Placed, Creating, TransferPc, Writer
<1> QED
  BY <1>1, <1>4, <1>5, <1>6, <1>7, <1>8, <1>9, <1>10, UntouchedTask

LEMMA CleanupLocalSourceInv ==
  ASSUME TypeOK, \A u \in Task : TaskInv(u), NEW t \in Task, CleanupLocalSource(t)
  PROVE  \A u \in Task : TaskInv(u)'
<1>1. \A u \in Task \ {t} : SameBut(u, {})
  BY DEF TypeOK, SameBut, CleanupLocalSource, Goto, taskVars, bounds, history
<1>2. /\ SameBut(t, {"source", "run"})
      /\ run[t] = "uploaded" /\ run'[t] = "cleaned"
  BY DEF TypeOK, SameBut, CleanupLocalSource, Goto, taskVars, bounds, history
<1> USE <1>2 DEF TaskInv, SameBut
<1>3. TaskInv(t)
  OBVIOUS
<1>4. Fresh(t)'
  BY <1>3 DEF Fresh, Quiet, Waits
<1>5. Away(t)'
  BY <1>3 DEF Away, Serves, Quiet, Waits
<1>6. Placed(t)'
  BY <1>3 DEF Placed, Serves, Waits, CallWrites, TransferPc, Writer
<1>7. Creating(t)'
  BY <1>3 DEF Creating, Placed, Waits, Writer, Made, Status
<1>8. Kept(t)'
  BY <1>3 DEF Kept, Placed, Creating, Waits
<1>9. Followed(t)'
  BY <1>3 DEF Followed, Steady, Quiet, Waits, Made, Placed, Creating, Away, Serves, CallWrites,
     TransferPc, Status, Writer
<1>10. NotAgain(t)'
  BY <1>3 DEF NotAgain, NoPending, Flushing, Waits, Placed, Creating, TransferPc, Writer
<1> QED
  BY <1>1, <1>4, <1>5, <1>6, <1>7, <1>8, <1>9, <1>10, UntouchedTask

LEMMA SucceedInv ==
  ASSUME TypeOK, \A u \in Task : TaskInv(u), NEW t \in Task, Succeed(t)
  PROVE  \A u \in Task : TaskInv(u)'
<1>a. Due(t, "run") =>
        /\ NowDue(t, "run")
        /\ \A u \in Task \ {t} : \A v \in Writer : write'[u][v] = write[u][v]
  BY DueWrites DEF Writer
<1>b. write' = write \/ Due(t, "run")
  BY DEF Succeed
<1>c. \A u \in Task \ {t} : \A v \in Writer : write'[u][v] = write[u][v]
  BY <1>a, <1>b
<1>1. \A u \in Task \ {t} : SameBut(u, {})
  BY <1>c DEF TypeOK, SameBut, Succeed, Goto, SetStatus, bounds, history
<1>2. \/ /\ SameBut(t, {"status", "run", "write"})
         /\ run[t] = "cleaned" /\ t \in present /\ NowDue(t, "run")
         /\ status'[t] = "success" /\ run'[t] = "ending"
      \/ /\ SameBut(t, {"run"})
         /\ run[t] = "cleaned" /\ t \notin present
         /\ run'[t] = "ending"
  BY <1>a DEF TypeOK, SameBut, Succeed, Goto, SetStatus, bounds, history
<1> USE <1>2 DEF TaskInv, SameBut, NowDue
<1>3. TaskInv(t)
  OBVIOUS
<1>4. Fresh(t)'
  BY <1>3 DEF Fresh, Quiet, Waits
<1>5. Away(t)'
  BY <1>3 DEF Away, Serves, Quiet, Waits
<1>6. Placed(t)'
  BY <1>3 DEF Placed, Serves, Waits, CallWrites, TransferPc, Writer
<1>7. Creating(t)'
  BY <1>3 DEF Creating, Placed, Waits, Writer, Made, Status
<1>8. Kept(t)'
  BY <1>3 DEF Kept, Placed, Creating, Waits
<1>9. Followed(t)'
  BY <1>3 DEF Followed, Steady, Quiet, Waits, Made, Placed, Creating, Away, Serves, CallWrites,
     TransferPc, Status, Writer
<1>10. NotAgain(t)'
  BY <1>3 DEF NotAgain, NoPending, Flushing, Waits, Placed, Creating, TransferPc, Writer
<1> QED
  BY <1>1, <1>4, <1>5, <1>6, <1>7, <1>8, <1>9, <1>10, UntouchedTask

LEMMA EndRunInv ==
  ASSUME TypeOK, \A u \in Task : TaskInv(u), NEW t \in Task, EndRun(t)
  PROVE  \A u \in Task : TaskInv(u)'
<1>1. \A u \in Task \ {t} : SameBut(u, {})
  BY DEF TypeOK, SameBut, EndRun, Goto, taskVars, bounds, history
<1>2. /\ SameBut(t, {"run"})
      /\ run[t] = "ending" /\ run'[t] = "off"
  BY DEF TypeOK, SameBut, EndRun, Goto, taskVars, bounds, history
<1> USE <1>2 DEF TaskInv, SameBut
<1>3. TaskInv(t)
  OBVIOUS
<1>4. Fresh(t)'
  BY <1>3 DEF Fresh, Quiet, Waits
<1>5. Away(t)'
  BY <1>3 DEF Away, Serves, Quiet, Waits
<1>6. Placed(t)'
  BY <1>3 DEF Placed, Serves, Waits, CallWrites, TransferPc, Writer
<1>7. Creating(t)'
  BY <1>3 DEF Creating, Placed, Waits, Writer, Made, Status
<1>8. Kept(t)'
  BY <1>3 DEF Kept, Placed, Creating, Waits
<1>9. Followed(t)'
  BY <1>3 DEF Followed, Steady, Quiet, Waits, Made, Placed, Creating, Away, Serves, CallWrites,
     TransferPc, Status, Writer
<1>10. NotAgain(t)'
  BY <1>3 DEF NotAgain, NoPending, Flushing, Waits, Placed, Creating, TransferPc, Writer
<1> QED
  BY <1>1, <1>4, <1>5, <1>6, <1>7, <1>8, <1>9, <1>10, UntouchedTask

LEMMA CreateFailsInv ==
  ASSUME TypeOK, \A u \in Task : TaskInv(u), NEW t \in Task, CreateFails(t)
  PROVE  \A u \in Task : TaskInv(u)'
<1>1. \A u \in Task \ {t} : SameBut(u, {})
  BY DEF TypeOK, SameBut, CreateFails, Calls, Called, history
<1>2. /\ SameBut(t, {"present", "write", "source", "call"})
      /\ call[t] = "create" /\ Made(t, "call")
      /\ t \notin present' /\ call'[t] = "idle"
      /\ \A w \in Writer : write'[t][w] = IF w = "call" THEN "none" ELSE write[t][w]
  BY DEF TypeOK, SameBut, Writer, CreateFails, Calls, Called, history
<1> USE <1>2 DEF TaskInv, SameBut
<1>3. TaskInv(t)
  OBVIOUS
<1>4. Fresh(t)'
  BY <1>3 DEF Fresh, Quiet, Waits
<1>5. Away(t)'
  BY <1>3 DEF Away, Serves, Quiet, Waits
<1>6. Placed(t)'
  BY <1>3 DEF Placed, Serves, Waits, CallWrites, TransferPc, Writer
<1>7. Creating(t)'
  BY <1>3 DEF Creating, Placed, Waits, Writer, Made, Status
<1>8. Kept(t)'
  BY <1>3 DEF Kept, Placed, Creating, Waits
<1>9. Followed(t)'
  BY <1>3 DEF Followed, Steady, Quiet, Waits, Made, Placed, Creating, Away, Serves, CallWrites,
     TransferPc, Status, Writer
<1>10. NotAgain(t)'
  BY <1>3 DEF NotAgain, NoPending, Flushing, Waits, Placed, Creating, TransferPc, Writer
<1> QED
  BY <1>1, <1>4, <1>5, <1>6, <1>7, <1>8, <1>9, <1>10, UntouchedTask

LEMMA CreateReturnsInv ==
  ASSUME TypeOK, \A u \in Task : TaskInv(u), NEW t \in Task, CreateReturns(t)
  PROVE  \A u \in Task : TaskInv(u)'
<1>1. \A u \in Task \ {t} : SameBut(u, {})
  BY DEF TypeOK, SameBut, CreateReturns, Goto, Calls, Returned, taskVars, bounds
<1>2. /\ SameBut(t, {"run", "call", "acked"})
      /\ call[t] = "create" /\ ~Waits(t, "call")
      /\ run'[t] = "spawned" /\ call'[t] = "idle" /\ t \in acked'
  BY DEF TypeOK, SameBut, CreateReturns, Goto, Calls, Returned, taskVars, bounds
<1> USE <1>2 DEF TaskInv, SameBut
<1>3. TaskInv(t)
  OBVIOUS
<1>4. Fresh(t)'
  BY <1>3 DEF Fresh, Quiet, Waits
<1>5. Away(t)'
  BY <1>3 DEF Away, Serves, Quiet, Waits
<1>6. Placed(t)'
  BY <1>3 DEF Placed, Serves, Waits, CallWrites, TransferPc, Writer
<1>7. Creating(t)'
  BY <1>3 DEF Creating, Placed, Waits, Writer, Made, Status
<1>8. Kept(t)'
  BY <1>3 DEF Kept, Placed, Creating, Waits
<1>9. Followed(t)'
  BY <1>3 DEF Followed, Steady, Quiet, Waits, Made, Placed, Creating, Away, Serves, CallWrites,
     TransferPc, Status, Writer
<1>10. NotAgain(t)'
  BY <1>3 DEF NotAgain, NoPending, Flushing, Waits, Placed, Creating, TransferPc, Writer
<1> QED
  BY <1>1, <1>4, <1>5, <1>6, <1>7, <1>8, <1>9, <1>10, UntouchedTask

LEMMA PauseInv ==
  ASSUME TypeOK, \A u \in Task : TaskInv(u), NEW t \in Task, Pause(t)
  PROVE  \A u \in Task : TaskInv(u)'
<1>1. \A u \in Task \ {t} : SameBut(u, {})
  BY DEF TypeOK, SameBut, Pause, Calls, SetStatus, CanCall, Active, bounds, history, Called
<1>2. /\ SameBut(t, {"status", "call"})
      /\ Serves /\ call[t] = "idle" /\ t \in present
      /\ status[t] # "none"
      /\ status'[t] = "paused" /\ call'[t] = "pauseCancel"
  BY DEF TypeOK, SameBut, Pause, Calls, SetStatus, CanCall, Active, bounds, history, Called
<1> USE <1>2 DEF TaskInv, SameBut
<1>3. TaskInv(t)
  OBVIOUS
<1>4. Fresh(t)'
  BY <1>3 DEF Fresh, Quiet, Waits
<1>5. Away(t)'
  BY <1>3 DEF Away, Serves, Quiet, Waits
<1>6. Placed(t)'
  BY <1>3 DEF Placed, Serves, Waits, CallWrites, TransferPc, Writer
<1>7. Creating(t)'
  BY <1>3 DEF Creating, Placed, Waits, Writer, Made, Status
<1>8. Kept(t)'
  BY <1>3 DEF Kept, Placed, Creating, Waits
<1>9. Followed(t)'
  BY <1>3 DEF Followed, Steady, Quiet, Waits, Made, Placed, Creating, Away, Serves, CallWrites,
     TransferPc, Status, Writer
<1>10. NotAgain(t)'
  BY <1>3 DEF NotAgain, NoPending, Flushing, Waits, Placed, Creating, TransferPc, Writer
<1> QED
  BY <1>1, <1>4, <1>5, <1>6, <1>7, <1>8, <1>9, <1>10, UntouchedTask

LEMMA PauseCancelsInv ==
  ASSUME TypeOK, \A u \in Task : TaskInv(u), NEW t \in Task, PauseCancels(t)
  PROVE  \A u \in Task : TaskInv(u)'
<1>a. Due(t, "call") =>
        /\ NowDue(t, "call")
        /\ \A u \in Task \ {t} : \A v \in Writer : write'[u][v] = write[u][v]
  BY DueWrites DEF Writer
<1>1. \A u \in Task \ {t} : SameBut(u, {})
  BY <1>a DEF TypeOK, SameBut, PauseCancels, Calls, Called, taskVars, bounds, history
<1>2. /\ SameBut(t, {"call", "write"})
      /\ call[t] = "pauseCancel" /\ call'[t] = "pause" /\ NowDue(t, "call")
  BY <1>a DEF TypeOK, SameBut, PauseCancels, Calls, Called, taskVars, bounds, history
<1> USE <1>2 DEF TaskInv, SameBut, NowDue
<1>3. TaskInv(t)
  OBVIOUS
<1>4. Fresh(t)'
  BY <1>3 DEF Fresh, Quiet, Waits
<1>5. Away(t)'
  BY <1>3 DEF Away, Serves, Quiet, Waits
<1>6. Placed(t)'
  BY <1>3 DEF Placed, Serves, Waits, CallWrites, TransferPc, Writer
<1>7. Creating(t)'
  BY <1>3 DEF Creating, Placed, Waits, Writer, Made, Status
<1>8. Kept(t)'
  BY <1>3 DEF Kept, Placed, Creating, Waits
<1>9. Followed(t)'
  BY <1>3 DEF Followed, Steady, Quiet, Waits, Made, Placed, Creating, Away, Serves, CallWrites,
     TransferPc, Status, Writer
<1>10. NotAgain(t)'
  BY <1>3 DEF NotAgain, NoPending, Flushing, Waits, Placed, Creating, TransferPc, Writer
<1> QED
  BY <1>1, <1>4, <1>5, <1>6, <1>7, <1>8, <1>9, <1>10, UntouchedTask

LEMMA PauseReturnsInv ==
  ASSUME TypeOK, \A u \in Task : TaskInv(u), NEW t \in Task, PauseReturns(t)
  PROVE  \A u \in Task : TaskInv(u)'
<1>1. \A u \in Task \ {t} : SameBut(u, {})
  BY DEF TypeOK, SameBut, PauseReturns, Calls, Returned, taskVars, bounds
<1>2. /\ SameBut(t, {"call", "held"})
      /\ call[t] = "pause" /\ ~Waits(t, "call")
      /\ call'[t] = "idle" /\ t \in held'
  BY DEF TypeOK, SameBut, PauseReturns, Calls, Returned, taskVars, bounds
<1> USE <1>2 DEF TaskInv, SameBut
<1>3. TaskInv(t)
  OBVIOUS
<1>4. Fresh(t)'
  BY <1>3 DEF Fresh, Quiet, Waits
<1>5. Away(t)'
  BY <1>3 DEF Away, Serves, Quiet, Waits
<1>6. Placed(t)'
  BY <1>3 DEF Placed, Serves, Waits, CallWrites, TransferPc, Writer
<1>7. Creating(t)'
  BY <1>3 DEF Creating, Placed, Waits, Writer, Made, Status
<1>8. Kept(t)'
  BY <1>3 DEF Kept, Placed, Creating, Waits
<1>9. Followed(t)'
  BY <1>3 DEF Followed, Steady, Quiet, Waits, Made, Placed, Creating, Away, Serves, CallWrites,
     TransferPc, Status, Writer
<1>10. NotAgain(t)'
  BY <1>3 DEF NotAgain, NoPending, Flushing, Waits, Placed, Creating, TransferPc, Writer
<1> QED
  BY <1>1, <1>4, <1>5, <1>6, <1>7, <1>8, <1>9, <1>10, UntouchedTask

LEMMA RenameTaskInv ==
  ASSUME TypeOK, \A u \in Task : TaskInv(u), NEW t \in Task, RenameTask(t)
  PROVE  \A u \in Task : TaskInv(u)'
<1>a. Due(t, "call") =>
        /\ NowDue(t, "call")
        /\ \A u \in Task \ {t} : \A v \in Writer : write'[u][v] = write[u][v]
  BY DueWrites DEF Writer
<1>1. \A u \in Task \ {t} : SameBut(u, {})
  BY <1>a DEF TypeOK, SameBut, RenameTask, Calls, CanCall, taskVars, bounds, history, Called
<1>2. /\ SameBut(t, {"call", "write"})
      /\ Serves /\ call[t] = "idle" /\ t \in present
      /\ call'[t] = "rename" /\ NowDue(t, "call")
  BY <1>a DEF TypeOK, SameBut, RenameTask, Calls, CanCall, taskVars, bounds, history, Called
<1> USE <1>2 DEF TaskInv, SameBut, NowDue
<1>3. TaskInv(t)
  OBVIOUS
<1>4. Fresh(t)'
  BY <1>3 DEF Fresh, Quiet, Waits
<1>5. Away(t)'
  BY <1>3 DEF Away, Serves, Quiet, Waits
<1>6. Placed(t)'
  BY <1>3 DEF Placed, Serves, Waits, CallWrites, TransferPc, Writer
<1>7. Creating(t)'
  BY <1>3 DEF Creating, Placed, Waits, Writer, Made, Status
<1>8. Kept(t)'
  BY <1>3 DEF Kept, Placed, Creating, Waits
<1>9. Followed(t)'
  BY <1>3 DEF Followed, Steady, Quiet, Waits, Made, Placed, Creating, Away, Serves, CallWrites,
     TransferPc, Status, Writer
<1>10. NotAgain(t)'
  BY <1>3 DEF NotAgain, NoPending, Flushing, Waits, Placed, Creating, TransferPc, Writer
<1> QED
  BY <1>1, <1>4, <1>5, <1>6, <1>7, <1>8, <1>9, <1>10, UntouchedTask

LEMMA ResumeInv ==
  ASSUME TypeOK, \A u \in Task : TaskInv(u), NEW t \in Task, Resume(t)
  PROVE  \A u \in Task : TaskInv(u)'
<1>a. Due(t, "call") =>
        /\ NowDue(t, "call")
        /\ \A u \in Task \ {t} : \A v \in Writer : write'[u][v] = write[u][v]
  BY DueWrites DEF Writer
<1>c. \A u \in Task \ {t} : \A v \in Writer : write'[u][v] = write[u][v]
  BY <1>a, ResumeCases
<1>1. \A u \in Task \ {t} : SameBut(u, {})
  BY <1>c, ResumeCases, Pointwise DEF SameBut
<1>2. \/ /\ SameBut(t, {"status", "call", "write"})
         /\ Serves /\ call[t] = "idle" /\ t \in present
         /\ run[t] = "off" /\ NowDue(t, "call")
         /\ status'[t] = "failed" /\ call'[t] = "resumeMissing"
      \/ /\ SameBut(t, {"status", "call", "write", "finished", "held"})
         /\ Serves /\ call[t] = "idle" /\ t \in present
         /\ run[t] = "off" /\ source[t] # "none" /\ NowDue(t, "call")
         /\ status'[t] = "pending" /\ call'[t] = "resume"
         /\ t \notin finished' /\ t \notin held'
  BY <1>a, ResumeCases, Pointwise DEF SameBut
<1> USE <1>2 DEF TaskInv, SameBut, NowDue
<1>3. TaskInv(t)
  OBVIOUS
<1>4. Fresh(t)'
  BY <1>3 DEF Fresh, Quiet, Waits
<1>5. Away(t)'
  BY <1>3 DEF Away, Serves, Quiet, Waits
<1>6. Placed(t)'
  BY <1>3 DEF Placed, Serves, Waits, CallWrites, TransferPc, Writer
<1>7. Creating(t)'
  BY <1>3 DEF Creating, Placed, Waits, Writer, Made, Status
<1>8. Kept(t)'
  BY <1>3 DEF Kept, Placed, Creating, Waits
<1>9. Followed(t)'
  BY <1>3 DEF Followed, Steady, Quiet, Waits, Made, Placed, Creating, Away, Serves, CallWrites,
     TransferPc, Status, Writer
<1>10. NotAgain(t)'
  BY <1>3 DEF NotAgain, NoPending, Flushing, Waits, Placed, Creating, TransferPc, Writer
<1> QED
  BY <1>1, <1>4, <1>5, <1>6, <1>7, <1>8, <1>9, <1>10, UntouchedTask

LEMMA ResumeReturnsInv ==
  ASSUME TypeOK, \A u \in Task : TaskInv(u), NEW t \in Task, ResumeReturns(t)
  PROVE  \A u \in Task : TaskInv(u)'
<1>1. \A u \in Task \ {t} : SameBut(u, {})
  BY DEF TypeOK, SameBut, ResumeReturns, Goto, Calls, Returned, taskVars, bounds, history
<1>2. /\ SameBut(t, {"run", "call"})
      /\ call[t] = "resume" /\ ~Waits(t, "call")
      /\ run'[t] = "spawned" /\ call'[t] = "idle"
  BY DEF TypeOK, SameBut, ResumeReturns, Goto, Calls, Returned, taskVars, bounds, history
<1> USE <1>2 DEF TaskInv, SameBut
<1>3. TaskInv(t)
  OBVIOUS
<1>4. Fresh(t)'
  BY <1>3 DEF Fresh, Quiet, Waits
<1>5. Away(t)'
  BY <1>3 DEF Away, Serves, Quiet, Waits
<1>6. Placed(t)'
  BY <1>3 DEF Placed, Serves, Waits, CallWrites, TransferPc, Writer
<1>7. Creating(t)'
  BY <1>3 DEF Creating, Placed, Waits, Writer, Made, Status
<1>8. Kept(t)'
  BY <1>3 DEF Kept, Placed, Creating, Waits
<1>9. Followed(t)'
  BY <1>3 DEF Followed, Steady, Quiet, Waits, Made, Placed, Creating, Away, Serves, CallWrites,
     TransferPc, Status, Writer
<1>10. NotAgain(t)'
  BY <1>3 DEF NotAgain, NoPending, Flushing, Waits, Placed, Creating, TransferPc, Writer
<1> QED
  BY <1>1, <1>4, <1>5, <1>6, <1>7, <1>8, <1>9, <1>10, UntouchedTask

LEMMA OtherReturnsInv ==
  ASSUME TypeOK, \A u \in Task : TaskInv(u), NEW t \in Task, OtherReturns(t)
  PROVE  \A u \in Task : TaskInv(u)'
<1>1. \A u \in Task \ {t} : SameBut(u, {})
  BY DEF TypeOK, SameBut, OtherReturns, Calls, Returned, taskVars, bounds, history
<1>2. /\ SameBut(t, {"call"})
      /\ call[t] \in {"rename", "resumeMissing"} /\ ~Waits(t, "call")
      /\ call'[t] = "idle"
  BY DEF TypeOK, SameBut, OtherReturns, Calls, Returned, taskVars, bounds, history
<1> USE <1>2 DEF TaskInv, SameBut
<1>3. TaskInv(t)
  OBVIOUS
<1>4. Fresh(t)'
  BY <1>3 DEF Fresh, Quiet, Waits
<1>5. Away(t)'
  BY <1>3 DEF Away, Serves, Quiet, Waits
<1>6. Placed(t)'
  BY <1>3 DEF Placed, Serves, Waits, CallWrites, TransferPc, Writer
<1>7. Creating(t)'
  BY <1>3 DEF Creating, Placed, Waits, Writer, Made, Status
<1>8. Kept(t)'
  BY <1>3 DEF Kept, Placed, Creating, Waits
<1>9. Followed(t)'
  BY <1>3 DEF Followed, Steady, Quiet, Waits, Made, Placed, Creating, Away, Serves, CallWrites,
     TransferPc, Status, Writer
<1>10. NotAgain(t)'
  BY <1>3 DEF NotAgain, NoPending, Flushing, Waits, Placed, Creating, TransferPc, Writer
<1> QED
  BY <1>1, <1>4, <1>5, <1>6, <1>7, <1>8, <1>9, <1>10, UntouchedTask

LEMMA DeleteInv ==
  ASSUME TypeOK, \A u \in Task : TaskInv(u), NEW t \in Task, Delete(t)
  PROVE  \A u \in Task : TaskInv(u)'
<1>a. Due(t, "call") =>
        /\ NowDue(t, "call")
        /\ \A u \in Task \ {t} : \A v \in Writer : write'[u][v] = write[u][v]
  BY DueWrites DEF Writer
<1>c. \A u \in Task \ {t} : \A v \in Writer : write'[u][v] = write[u][v]
  BY <1>a, DeleteCases
<1>1. \A u \in Task \ {t} : SameBut(u, {})
  BY <1>c, DeleteCases, Pointwise DEF SameBut, history
<1>2. \/ /\ SameBut(t, {"call"})
         /\ Serves /\ call[t] = "idle" /\ t \in present
         /\ call'[t] \in {"remove", "deleteCancel"}
      \/ /\ SameBut(t, {"status", "call", "write"})
         /\ Serves /\ call[t] = "idle" /\ t \in present
         /\ status'[t] = "canceled" /\ call'[t] = "deleteMark" /\ NowDue(t, "call")
  BY <1>a, DeleteCases, Pointwise DEF SameBut, history
<1> USE <1>2 DEF TaskInv, SameBut, NowDue
<1>3. TaskInv(t)
  OBVIOUS
<1>4. Fresh(t)'
  BY <1>3 DEF Fresh, Quiet, Waits
<1>5. Away(t)'
  BY <1>3 DEF Away, Serves, Quiet, Waits
<1>6. Placed(t)'
  BY <1>3 DEF Placed, Serves, Waits, CallWrites, TransferPc, Writer
<1>7. Creating(t)'
  BY <1>3 DEF Creating, Placed, Waits, Writer, Made, Status
<1>8. Kept(t)'
  BY <1>3 DEF Kept, Placed, Creating, Waits
<1>9. Followed(t)'
  BY <1>3 DEF Followed, Steady, Quiet, Waits, Made, Placed, Creating, Away, Serves, CallWrites,
     TransferPc, Status, Writer
<1>10. NotAgain(t)'
  BY <1>3 DEF NotAgain, NoPending, Flushing, Waits, Placed, Creating, TransferPc, Writer
<1> QED
  BY <1>1, <1>4, <1>5, <1>6, <1>7, <1>8, <1>9, <1>10, UntouchedTask

LEMMA DeleteCancelsInv ==
  ASSUME TypeOK, \A u \in Task : TaskInv(u), NEW t \in Task, DeleteCancels(t)
  PROVE  \A u \in Task : TaskInv(u)'
<1>1. \A u \in Task \ {t} : SameBut(u, {})
  BY DEF TypeOK, SameBut, DeleteCancels, Calls, Called, Returned, taskVars, bounds, history
<1>2. /\ SameBut(t, {"call"})
      /\ \/ call[t] = "deleteMark" /\ ~Waits(t, "call")
         \/ call[t] = "deleteCancel"
      /\ call'[t] = "deleteWait"
  BY DEF TypeOK, SameBut, DeleteCancels, Calls, Called, Returned, taskVars, bounds, history
<1> USE <1>2 DEF TaskInv, SameBut
<1>3. TaskInv(t)
  OBVIOUS
<1>4. Fresh(t)'
  BY <1>3 DEF Fresh, Quiet, Waits
<1>5. Away(t)'
  BY <1>3 DEF Away, Serves, Quiet, Waits
<1>6. Placed(t)'
  BY <1>3 DEF Placed, Serves, Waits, CallWrites, TransferPc, Writer
<1>7. Creating(t)'
  BY <1>3 DEF Creating, Placed, Waits, Writer, Made, Status
<1>8. Kept(t)'
  BY <1>3 DEF Kept, Placed, Creating, Waits
<1>9. Followed(t)'
  BY <1>3 DEF Followed, Steady, Quiet, Waits, Made, Placed, Creating, Away, Serves, CallWrites,
     TransferPc, Status, Writer
<1>10. NotAgain(t)'
  BY <1>3 DEF NotAgain, NoPending, Flushing, Waits, Placed, Creating, TransferPc, Writer
<1> QED
  BY <1>1, <1>4, <1>5, <1>6, <1>7, <1>8, <1>9, <1>10, UntouchedTask

LEMMA DeleteWaitedInv ==
  ASSUME TypeOK, \A u \in Task : TaskInv(u), NEW t \in Task, DeleteWaited(t)
  PROVE  \A u \in Task : TaskInv(u)'
<1>1. \A u \in Task \ {t} : SameBut(u, {})
  BY DEF TypeOK, SameBut, DeleteWaited, Calls, Called, taskVars, bounds, history
<1>2. /\ SameBut(t, {"call"})
      /\ call[t] = "deleteWait" /\ call'[t] = "remove"
  BY DEF TypeOK, SameBut, DeleteWaited, Calls, Called, taskVars, bounds, history
<1> USE <1>2 DEF TaskInv, SameBut
<1>3. TaskInv(t)
  OBVIOUS
<1>4. Fresh(t)'
  BY <1>3 DEF Fresh, Quiet, Waits
<1>5. Away(t)'
  BY <1>3 DEF Away, Serves, Quiet, Waits
<1>6. Placed(t)'
  BY <1>3 DEF Placed, Serves, Waits, CallWrites, TransferPc, Writer
<1>7. Creating(t)'
  BY <1>3 DEF Creating, Placed, Waits, Writer, Made, Status
<1>8. Kept(t)'
  BY <1>3 DEF Kept, Placed, Creating, Waits
<1>9. Followed(t)'
  BY <1>3 DEF Followed, Steady, Quiet, Waits, Made, Placed, Creating, Away, Serves, CallWrites,
     TransferPc, Status, Writer
<1>10. NotAgain(t)'
  BY <1>3 DEF NotAgain, NoPending, Flushing, Waits, Placed, Creating, TransferPc, Writer
<1> QED
  BY <1>1, <1>4, <1>5, <1>6, <1>7, <1>8, <1>9, <1>10, UntouchedTask

LEMMA DeleteTimeoutInv ==
  ASSUME TypeOK, \A u \in Task : TaskInv(u), NEW t \in Task, DeleteTimeout(t)
  PROVE  \A u \in Task : TaskInv(u)'
<1>1. \A u \in Task \ {t} : SameBut(u, {})
  BY DEF TypeOK, SameBut, DeleteTimeout, Calls, Called, taskVars, bounds, history
<1>2. /\ SameBut(t, {"call"})
      /\ call[t] = "deleteWait" /\ call'[t] = "idle"
  BY DEF TypeOK, SameBut, DeleteTimeout, Calls, Called, taskVars, bounds, history
<1> USE <1>2 DEF TaskInv, SameBut
<1>3. TaskInv(t)
  OBVIOUS
<1>4. Fresh(t)'
  BY <1>3 DEF Fresh, Quiet, Waits
<1>5. Away(t)'
  BY <1>3 DEF Away, Serves, Quiet, Waits
<1>6. Placed(t)'
  BY <1>3 DEF Placed, Serves, Waits, CallWrites, TransferPc, Writer
<1>7. Creating(t)'
  BY <1>3 DEF Creating, Placed, Waits, Writer, Made, Status
<1>8. Kept(t)'
  BY <1>3 DEF Kept, Placed, Creating, Waits
<1>9. Followed(t)'
  BY <1>3 DEF Followed, Steady, Quiet, Waits, Made, Placed, Creating, Away, Serves, CallWrites,
     TransferPc, Status, Writer
<1>10. NotAgain(t)'
  BY <1>3 DEF NotAgain, NoPending, Flushing, Waits, Placed, Creating, TransferPc, Writer
<1> QED
  BY <1>1, <1>4, <1>5, <1>6, <1>7, <1>8, <1>9, <1>10, UntouchedTask

LEMMA RemoveTaskInv ==
  ASSUME TypeOK, \A u \in Task : TaskInv(u), NEW t \in Task, RemoveTask(t)
  PROVE  \A u \in Task : TaskInv(u)'
<1>1. \A u \in Task \ {t} : SameBut(u, {})
  BY DEF TypeOK, SameBut, RemoveTask, Calls, Called, Others, bounds
<1>2. /\ SameBut(t, {"present", "call", "spoiled"})
      /\ call[t] = "remove" /\ call'[t] = "drop" /\ t \notin present'
      /\ t \in spoiled' <=> t \in spoiled \/ \E w \in Writer \ {"call"} : Waits(t, w)
  BY DEF TypeOK, SameBut, RemoveTask, Calls, Called, Others, bounds
<1> USE <1>2 DEF TaskInv, SameBut
<1>3. TaskInv(t)
  OBVIOUS
<1>4. Fresh(t)'
  BY <1>3 DEF Fresh, Quiet, Waits
<1>5. Away(t)'
  BY <1>3 DEF Away, Serves, Quiet, Waits
<1>6. Placed(t)'
  BY <1>3 DEF Placed, Serves, Waits, CallWrites, TransferPc, Writer
<1>7. Creating(t)'
  BY <1>3 DEF Creating, Placed, Waits, Writer, Made, Status
<1>8. Kept(t)'
  BY <1>3 DEF Kept, Placed, Creating, Waits
<1>9. Followed(t)'
  BY <1>3 DEF Followed, Steady, Quiet, Waits, Made, Placed, Creating, Away, Serves, CallWrites,
     TransferPc, Status, Writer
<1>10. NotAgain(t)'
  BY <1>3 DEF NotAgain, NoPending, Flushing, Waits, Placed, Creating, TransferPc, Writer
<1> QED
  BY <1>1, <1>4, <1>5, <1>6, <1>7, <1>8, <1>9, <1>10, UntouchedTask

LEMMA DeletePersistedInv ==
  ASSUME TypeOK, \A u \in Task : TaskInv(u), NEW t \in Task, DeletePersisted(t)
  PROVE  \A u \in Task : TaskInv(u)'
<1>1. \A u \in Task \ {t} : SameBut(u, {})
  BY DEF TypeOK, SameBut, DeletePersisted, Calls, Called, taskVars
<1>2. \/ /\ SameBut(t, {"call", "deleted", "row"})
         /\ call[t] = "drop" /\ call'[t] = "unlink"
         /\ t \in deleted' /\ row'[t] = "none"
      \/ /\ SameBut(t, {"call", "deleted", "spoiled"})
         /\ call[t] = "drop" /\ call'[t] = "unlink"
         /\ t \in deleted' /\ t \in spoiled'
  BY DEF TypeOK, SameBut, DeletePersisted, Calls, Called, taskVars
<1> USE <1>2 DEF TaskInv, SameBut
<1>3. TaskInv(t)
  OBVIOUS
<1>4. Fresh(t)'
  BY <1>3 DEF Fresh, Quiet, Waits
<1>5. Away(t)'
  BY <1>3 DEF Away, Serves, Quiet, Waits
<1>6. Placed(t)'
  BY <1>3 DEF Placed, Serves, Waits, CallWrites, TransferPc, Writer
<1>7. Creating(t)'
  BY <1>3 DEF Creating, Placed, Waits, Writer, Made, Status
<1>8. Kept(t)'
  BY <1>3 DEF Kept, Placed, Creating, Waits
<1>9. Followed(t)'
  BY <1>3 DEF Followed, Steady, Quiet, Waits, Made, Placed, Creating, Away, Serves, CallWrites,
     TransferPc, Status, Writer
<1>10. NotAgain(t)'
  BY <1>3 DEF NotAgain, NoPending, Flushing, Waits, Placed, Creating, TransferPc, Writer
<1> QED
  BY <1>1, <1>4, <1>5, <1>6, <1>7, <1>8, <1>9, <1>10, UntouchedTask

LEMMA CleanupAfterDeleteInv ==
  ASSUME TypeOK, \A u \in Task : TaskInv(u), NEW t \in Task, CleanupAfterDelete(t)
  PROVE  \A u \in Task : TaskInv(u)'
<1>1. \A u \in Task \ {t} : SameBut(u, {})
  BY DEF TypeOK, SameBut, CleanupAfterDelete, Calls, Called, taskVars, bounds, history
<1>2. /\ SameBut(t, {"call", "source"})
      /\ call[t] = "unlink" /\ call'[t] = "idle"
  BY DEF TypeOK, SameBut, CleanupAfterDelete, Calls, Called, taskVars, bounds, history
<1> USE <1>2 DEF TaskInv, SameBut
<1>3. TaskInv(t)
  OBVIOUS
<1>4. Fresh(t)'
  BY <1>3 DEF Fresh, Quiet, Waits
<1>5. Away(t)'
  BY <1>3 DEF Away, Serves, Quiet, Waits
<1>6. Placed(t)'
  BY <1>3 DEF Placed, Serves, Waits, CallWrites, TransferPc, Writer
<1>7. Creating(t)'
  BY <1>3 DEF Creating, Placed, Waits, Writer, Made, Status
<1>8. Kept(t)'
  BY <1>3 DEF Kept, Placed, Creating, Waits
<1>9. Followed(t)'
  BY <1>3 DEF Followed, Steady, Quiet, Waits, Made, Placed, Creating, Away, Serves, CallWrites,
     TransferPc, Status, Writer
<1>10. NotAgain(t)'
  BY <1>3 DEF NotAgain, NoPending, Flushing, Waits, Placed, Creating, TransferPc, Writer
<1> QED
  BY <1>1, <1>4, <1>5, <1>6, <1>7, <1>8, <1>9, <1>10, UntouchedTask

LEMMA CreateInv ==
  ASSUME TypeOK, \A u \in Task : TaskInv(u), NEW t \in Task, NEW kind \in Kinds, Create(t, kind)
  PROVE  \A u \in Task : TaskInv(u)'
<1>a. Due(t, "call") =>
        /\ NowDue(t, "call")
        /\ \A u \in Task \ {t} : \A v \in Writer : write'[u][v] = write[u][v]
  BY DueWrites DEF Writer
<1>1. \A u \in Task \ {t} : SameBut(u, {})
  BY <1>a DEF TypeOK, SameBut, Create, SetStatus, Calls, bounds, history
<1>b. kind # "none"
  BY KindsAssumption DEF Source
<1>2. /\ SameBut(t, {"present", "status", "source", "call", "write"})
      /\ Serves /\ status[t] = "none" /\ status'[t] = "pending"
      /\ t \in present' /\ source'[t] # "none"
      /\ call'[t] = "create" /\ NowDue(t, "call")
  BY <1>a, <1>b DEF TypeOK, SameBut, Create, SetStatus, Calls, Serves, bounds, history
<1> USE <1>2 DEF TaskInv, SameBut, NowDue
<1>3. TaskInv(t)
  OBVIOUS
<1>4. Fresh(t)'
  BY <1>3 DEF Fresh, Quiet, Waits
<1>5. Away(t)'
  BY <1>3 DEF Away, Serves, Quiet, Waits
<1>6. Placed(t)'
  BY <1>3 DEF Placed, Fresh, Serves, Waits, CallWrites, TransferPc, Writer
<1>7. Creating(t)'
  BY <1>3 DEF Creating, Fresh, Quiet, Waits, Writer
<1>8. Kept(t)'
  BY <1>3 DEF Kept, Fresh
<1>9. Followed(t)'
  BY <1>3 DEF Followed, Fresh, Steady, Quiet, Waits, Made, Status, Writer
<1>10. NotAgain(t)'
  BY <1>3 DEF NotAgain, Fresh, NoPending, Flushing, Waits, TransferPc, Writer
<1> QED
  BY <1>1, <1>4, <1>5, <1>6, <1>7, <1>8, <1>9, <1>10, UntouchedTask

\* The three steps of persistTask, by any of its writers.
LEMMA WriteStep ==
  ASSUME TypeOK, NEW t \in Task, NEW w \in Writer, NEW r \in Rows,
         write' = [write EXCEPT ![t][w] = r]
  PROVE  /\ \A v \in Writer : write'[t][v] = IF v = w THEN r ELSE write[t][v]
         /\ \A u \in Task \ {t} : \A v \in Writer : write'[u][v] = write[u][v]
<1>1. write \in WriteType /\ write[t] \in [Writer -> Rows]
  BY DEF TypeOK, WriteType, Rows
<1> QED
  BY <1>1 DEF WriteType

LEMMA SnapshotInv ==
  ASSUME TypeOK, \A u \in Task : TaskInv(u), NEW t \in Task, NEW w \in Writer, Snapshot(t, w)
  PROVE  \A u \in Task : TaskInv(u)'
<1>a. status[t] \in Status
  <2>1. status[t] \in Status \cup {"none"}
    BY DEF TypeOK
  <2>2. Fresh(t) /\ ~Quiet(t)
    BY DEF TaskInv, Snapshot, Quiet, Waits
  <2> QED
    BY <2>1, <2>2 DEF Fresh
<1>b. /\ \A v \in Writer : write'[t][v] = IF v = w THEN status[t] ELSE write[t][v]
      /\ \A u \in Task \ {t} : \A v \in Writer : write'[u][v] = write[u][v]
  BY <1>a, WriteStep DEF Snapshot, Rows
<1>1. \A u \in Task \ {t} : SameBut(u, {})
  BY <1>b DEF TypeOK, SameBut, Snapshot, taskVars, bounds
<1>2. /\ SameBut(t, {"write", "spoiled"})
      /\ write[t][w] = "due"
      /\ t \in spoiled' <=> t \in spoiled \/ \E v \in Writer \ {w} : Made(t, v)
  BY DEF TypeOK, SameBut, Snapshot, Others, Waits, Made, Status, taskVars, bounds
<1> USE <1>a, <1>b, <1>2 DEF TaskInv, SameBut
<1>3. TaskInv(t)
  OBVIOUS
<1>4. Fresh(t)'
  BY <1>3 DEF Fresh, Status
<1>5. Away(t)'
  BY <1>3 DEF Away, Serves, Quiet, Waits
<1>6. Placed(t)'
  BY <1>3 DEF Placed, Serves, Waits, CallWrites, TransferPc, Writer
<1>7. Creating(t)'
  BY <1>3 DEF Creating, Waits, Writer, Status
<1>8. Kept(t)'
  BY <1>3 DEF Kept
<1>9. Followed(t)'
  BY <1>3 DEF Followed, Steady, Quiet, Waits, Made, Status, Writer
<1>10. NotAgain(t)'
  BY <1>3 DEF NotAgain, NoPending, Flushing, Waits, Made, Status, TransferPc, Writer
<1> QED
  BY <1>1, <1>4, <1>5, <1>6, <1>7, <1>8, <1>9, <1>10, UntouchedTask

LEMMA UpsertInv ==
  ASSUME TypeOK, \A u \in Task : TaskInv(u), NEW t \in Task, NEW w \in Writer, Upsert(t, w)
  PROVE  \A u \in Task : TaskInv(u)'
<1>b. /\ \A v \in Writer : write'[t][v] = IF v = w THEN "none" ELSE write[t][v]
      /\ \A u \in Task \ {t} : \A v \in Writer : write'[u][v] = write[u][v]
  BY WriteStep DEF Upsert, Rows
<1>1. \A u \in Task \ {t} : SameBut(u, {})
  BY <1>b DEF TypeOK, SameBut, Upsert, taskVars, bounds, history
<1>2. /\ SameBut(t, {"write", "row"})
      /\ Made(t, w) /\ row'[t] = write[t][w]
  BY DEF TypeOK, SameBut, Upsert, taskVars, bounds, history
<1> USE <1>b, <1>2 DEF TaskInv, SameBut
<1>3. TaskInv(t)
  OBVIOUS
<1>4. Fresh(t)'
  BY <1>3 DEF Fresh, Made, Status, Quiet, Waits
<1>5. Away(t)'
  BY <1>3 DEF Away, Serves, Quiet, Waits, Made, Status
<1>6. Placed(t)'
  BY <1>3 DEF Placed, Serves, Waits, CallWrites, TransferPc, Writer
<1>7. Creating(t)'
  BY <1>3 DEF Creating, Waits, Made, Writer, Status
<1>8. Kept(t)'
  BY <1>3 DEF Kept, Made, Status
<1>9. Followed(t)'
  BY <1>3 DEF Followed, Steady, Quiet, Waits, Made, Status, Writer
<1>10. NotAgain(t)'
  BY <1>3 DEF NotAgain, NoPending, Flushing, Waits, Made, Status, TransferPc, Writer
<1> QED
  BY <1>1, <1>4, <1>5, <1>6, <1>7, <1>8, <1>9, <1>10, UntouchedTask

LEMMA UpsertFailsInv ==
  ASSUME TypeOK, \A u \in Task : TaskInv(u), NEW t \in Task, NEW w \in Writer, UpsertFails(t, w)
  PROVE  \A u \in Task : TaskInv(u)'
<1>b. /\ \A v \in Writer : write'[t][v] = IF v = w THEN "none" ELSE write[t][v]
      /\ \A u \in Task \ {t} : \A v \in Writer : write'[u][v] = write[u][v]
  BY WriteStep DEF UpsertFails, Rows
<1>1. \A u \in Task \ {t} : SameBut(u, {})
  BY <1>b DEF TypeOK, SameBut, UpsertFails, taskVars
<1>2. /\ SameBut(t, {"write", "spoiled"})
      /\ Made(t, w) /\ (w = "call" => call[t] # "create") /\ t \in spoiled'
  BY DEF TypeOK, SameBut, UpsertFails, taskVars
<1> USE <1>b, <1>2 DEF TaskInv, SameBut
<1>3. TaskInv(t)
  OBVIOUS
<1>4. Fresh(t)'
  BY <1>3 DEF Fresh, Quiet, Waits
<1>5. Away(t)'
  BY <1>3 DEF Away, Serves, Quiet, Waits
<1>6. Placed(t)'
  BY <1>3 DEF Placed, Serves, Waits, CallWrites, TransferPc, Writer
<1>7. Creating(t)'
  BY <1>3 DEF Creating, Waits, Made, Writer, Status
<1>8. Kept(t)'
  BY <1>3 DEF Kept
<1>9. Followed(t)' /\ NotAgain(t)'
  BY DEF Followed, NotAgain
<1> QED
  BY <1>1, <1>4, <1>5, <1>6, <1>7, <1>8, <1>9, UntouchedTask

-----------------------------------------------------------------------------
(* The end of the process and the restart, for any one task.                  *)

LEMMA StopInv == ASSUME Stop, NEW t \in Task, TaskInv(t) PROVE TaskInv(t)'
<1> USE DEF TaskInv, Stop, bounds, history
<1>1. Fresh(t)' /\ Away(t)'
  BY DEF Fresh, Away, Serves, Quiet, Waits
<1>2. Placed(t)' /\ Creating(t)' /\ Kept(t)'
  BY DEF Placed, Creating, Kept, Serves, Waits
<1>3. Followed(t)'
  BY DEF Followed, Steady, Quiet, Waits, Made
<1>4. NotAgain(t)'
  BY DEF NotAgain, NoPending, Flushing, Waits
<1> QED
  BY <1>1, <1>2, <1>3, <1>4

LEMMA CrashInv == ASSUME TypeOK, Crash, NEW t \in Task, TaskInv(t) PROVE TaskInv(t)'
<1>1. /\ up' = "down" /\ t \notin present' /\ t \notin timer'
      /\ run'[t] = "off" /\ call'[t] = "idle"
      /\ \A w \in Writer : write'[t][w] = "none"
      /\ status' = status /\ row' = row /\ source' = source
      /\ acked' = acked /\ deleted' = deleted /\ finished' = finished
      /\ held' = held /\ spoiled' = spoiled /\ forgotten' = forgotten
  BY DEF Crash, NoWrite, history
<1> USE <1>1 DEF TaskInv
<1>2. Fresh(t)' /\ Away(t)'
  BY DEF Fresh, Away, Serves, Quiet, Waits
<1>3. Placed(t)' /\ Creating(t)' /\ Kept(t)'
  BY DEF Placed, Creating, Kept, Serves, TransferPc
<1>4. Followed(t)' /\ NotAgain(t)'
  BY DEF Followed, NotAgain, NoPending, TransferPc
<1> QED
  BY <1>2, <1>3, <1>4

LEMMA RestoreTasksInv == ASSUME TypeOK, RestoreTasks, NEW t \in Task, TaskInv(t) PROVE TaskInv(t)'
<1>1. /\ up = "down" /\ up' = "restoring"
      /\ t \in present' <=> row[t] # "none"
      /\ status'[t] = IF row[t] # "none" THEN Restored(t) ELSE status[t]
      /\ \A w \in Writer : write'[t][w] =
           IF row[t] # "none" /\ Restored(t) # row[t] /\ w = "call" THEN "due" ELSE "none"
      /\ run' = run /\ call' = call /\ timer' = timer /\ row' = row /\ source' = source
      /\ acked' = acked /\ deleted' = deleted /\ finished' = finished
      /\ held' = held /\ spoiled' = spoiled /\ forgotten' = forgotten
  BY DEF RestoreTasks, NoWrite, Writer, bounds, history
<1>2. /\ row[t] # "none" => Restored(t) \in Status
      /\ Restored(t) = "pending" => row[t] = "pending"
  BY DEF TypeOK, Restored, Status
<1> USE <1>1, <1>2 DEF TaskInv
<1>3. run[t] = "off" /\ call[t] = "idle" /\ t \notin timer
  BY DEF Away, Serves
<1>4. Fresh(t)'
  BY <1>3 DEF Fresh, Quiet, Waits, Status
<1>5. Away(t)'
  BY <1>3 DEF Away, Serves, Quiet, Waits
<1>6. Placed(t)' /\ Creating(t)' /\ Kept(t)'
  BY <1>3 DEF Placed, Creating, Kept, Serves, TransferPc
<1>7. Followed(t)'
  BY <1>3 DEF Followed, Steady, Quiet, Waits, Made, Status, Writer
<1>8. NotAgain(t)'
  BY <1>3 DEF NotAgain, NoPending, TransferPc
<1> QED
  BY <1>4, <1>5, <1>6, <1>7, <1>8

LEMMA RestoreEndsInv == ASSUME TypeOK, RestoreEnds, NEW t \in Task, TaskInv(t) PROVE TaskInv(t)'
<1>1. /\ up = "restoring" /\ up' = "up" /\ ~Waits(t, "call")
      /\ run'[t] = IF t \in present /\ status[t] = "pending" THEN "spawned" ELSE "off"
      /\ source'[t] = IF source[t] = "temp" /\ t \notin present THEN "none" ELSE source[t]
      /\ present' = present /\ status' = status /\ call' = call /\ timer' = timer
      /\ write' = write /\ row' = row
      /\ acked' = acked /\ deleted' = deleted /\ finished' = finished
      /\ held' = held /\ spoiled' = spoiled /\ forgotten' = forgotten
  BY DEF RestoreEnds, Orphans, taskVars, bounds, history
<1> USE <1>1 DEF TaskInv
<1>2. /\ run[t] = "off" /\ call[t] = "idle" /\ t \notin timer
      /\ t \notin present => row[t] = "none"
  BY DEF Away, Serves
<1>3. Fresh(t)' /\ Away(t)'
  BY <1>2 DEF Fresh, Away, Serves, Quiet, Waits
<1>4. Placed(t)' /\ Creating(t)' /\ Kept(t)'
  BY <1>2 DEF Placed, Creating, Kept, Waits, TransferPc
<1>5. Followed(t)'
  BY <1>2 DEF Followed, Steady, Quiet, Waits, Made, TransferPc
<1>6. NotAgain(t)'
  BY <1>2 DEF NotAgain, NoPending, TransferPc
<1> QED
  BY <1>3, <1>4, <1>5, <1>6

LEMMA RestoreFailsInv == ASSUME TypeOK, RestoreFails, NEW t \in Task, TaskInv(t) PROVE TaskInv(t)'
<1>1. /\ up = "down" /\ up' = "up"
      /\ source'[t] \in {source[t], "none"}
      /\ row[t] # "none" => t \in forgotten' /\ t \in spoiled'
      /\ t \in forgotten => t \in forgotten'
      /\ t \in spoiled => t \in spoiled'
      /\ present' = present /\ status' = status /\ run' = run /\ call' = call
      /\ timer' = timer /\ write' = write /\ row' = row
      /\ acked' = acked /\ deleted' = deleted /\ finished' = finished /\ held' = held
  BY DEF RestoreFails, Orphans, taskVars, bounds
<1> USE <1>1 DEF TaskInv
<1>2. run[t] = "off" /\ call[t] = "idle" /\ t \notin timer /\ t \notin present /\ Quiet(t)
  BY DEF Away, Serves
<1>3. Fresh(t)' /\ Away(t)'
  BY <1>2 DEF Fresh, Away, Serves, Quiet, Waits
<1>4. Placed(t)' /\ Creating(t)' /\ Kept(t)'
  BY <1>2 DEF Placed, Creating, Kept, Quiet, Waits, TransferPc, Writer
<1>5. Followed(t)'
  BY <1>2 DEF Followed, Steady, Quiet, Waits, Made, Status
<1>6. NotAgain(t)'
  BY <1>2 DEF NotAgain, NoPending, TransferPc
<1> QED
  BY <1>3, <1>4, <1>5, <1>6

-----------------------------------------------------------------------------
(* The invariant.                                                             *)

LEMMA InitInv == Init => IInv
<1> SUFFICES ASSUME Init PROVE IInv
  OBVIOUS
<1>1. TypeOK /\ UploadedOnce
  BY InitType DEF Init, UploadedOnce
<1>2. ASSUME NEW t \in Task PROVE TaskInv(t)
  <2> USE DEF Init, NoWrite
  <2>1. Fresh(t) /\ Away(t) /\ Placed(t) /\ Creating(t) /\ Kept(t)
    BY DEF Fresh, Away, Placed, Creating, Kept, Serves, Quiet, Waits, TransferPc, Writer
  <2>2. Followed(t) /\ NotAgain(t)
    BY DEF Followed, NotAgain, Steady, Quiet, Waits, Made, Status, TransferPc
  <2> QED
    BY <2>1, <2>2 DEF TaskInv
<1> QED
  BY <1>1, <1>2 DEF IInv

LEMMA RunStepInv ==
  ASSUME TypeOK, \A u \in Task : TaskInv(u), NEW t \in Task, RunStep(t)
  PROVE  TypeOK' /\ \A u \in Task : TaskInv(u)'
<1>1. CASE LeaveQueue(t)
  BY <1>1, LeaveQueueType, LeaveQueueInv
<1>2. CASE TakeSlot(t)
  BY <1>2, TakeSlotType, TakeSlotInv
<1>3. CASE Begin(t)
  BY <1>3, BeginType, BeginInv
<1>4. CASE UploadProgress(t)
  BY <1>4, UploadProgressType, UploadProgressInv
<1>5. CASE ApplyResumeState(t)
  BY <1>5, ApplyResumeStateType, ApplyResumeStateInv
<1>6. CASE FlushResume(t)
  BY <1>6, FlushResumeType, FlushResumeInv
<1>7. CASE UploadDone(t)
  BY <1>7, UploadDoneType, UploadDoneInv
<1>8. CASE UploadFails(t)
  BY <1>8, UploadFailsType, UploadFailsInv
<1>9. CASE CleanupLocalSource(t)
  BY <1>9, CleanupLocalSourceType, CleanupLocalSourceInv
<1>10. CASE Succeed(t)
  BY <1>10, SucceedType, SucceedInv
<1>11. CASE EndRun(t)
  BY <1>11, EndRunType, EndRunInv
<1> QED
  BY <1>1, <1>2, <1>3, <1>4, <1>5, <1>6, <1>7, <1>8, <1>9, <1>10, <1>11 DEF RunStep

LEMMA CallStepInv ==
  ASSUME TypeOK, \A u \in Task : TaskInv(u), NEW t \in Task, CallStep(t)
  PROVE  TypeOK' /\ \A u \in Task : TaskInv(u)'
<1>1. ASSUME NEW kind \in Kinds, Create(t, kind) PROVE TypeOK' /\ \A u \in Task : TaskInv(u)'
  BY <1>1, CreateType, CreateInv
<1>2. CASE CreateFails(t)
  BY <1>2, CreateFailsType, CreateFailsInv
<1>3. CASE CreateReturns(t)
  BY <1>3, CreateReturnsType, CreateReturnsInv
<1>4. CASE Pause(t)
  BY <1>4, PauseType, PauseInv
<1>5. CASE PauseCancels(t)
  BY <1>5, PauseCancelsType, PauseCancelsInv
<1>6. CASE PauseReturns(t)
  BY <1>6, PauseReturnsType, PauseReturnsInv
<1>7. CASE RenameTask(t)
  BY <1>7, RenameTaskType, RenameTaskInv
<1>8. CASE Resume(t)
  BY <1>8, ResumeType, ResumeInv
<1>9. CASE ResumeReturns(t)
  BY <1>9, ResumeReturnsType, ResumeReturnsInv
<1>10. CASE OtherReturns(t)
  BY <1>10, OtherReturnsType, OtherReturnsInv
<1>11. CASE Delete(t)
  BY <1>11, DeleteType, DeleteInv
<1>12. CASE DeleteCancels(t)
  BY <1>12, DeleteCancelsType, DeleteCancelsInv
<1>13. CASE DeleteWaited(t)
  BY <1>13, DeleteWaitedType, DeleteWaitedInv
<1>14. CASE DeleteTimeout(t)
  BY <1>14, DeleteTimeoutType, DeleteTimeoutInv
<1>15. CASE RemoveTask(t)
  BY <1>15, RemoveTaskType, RemoveTaskInv
<1>16. CASE DeletePersisted(t)
  BY <1>16, DeletePersistedType, DeletePersistedInv
<1>17. CASE CleanupAfterDelete(t)
  BY <1>17, CleanupAfterDeleteType, CleanupAfterDeleteInv
<1> QED
  BY <1>1, <1>2, <1>3, <1>4, <1>5, <1>6, <1>7, <1>8, <1>9, <1>10, <1>11, <1>12, <1>13, <1>14,
     <1>15, <1>16, <1>17 DEF CallStep

LEMMA PersistInv ==
  ASSUME TypeOK, \A u \in Task : TaskInv(u), NEW t \in Task, NEW w \in Writer, Persist(t, w)
  PROVE  TypeOK' /\ \A u \in Task : TaskInv(u)'
<1>1. CASE Snapshot(t, w)
  BY <1>1, SnapshotType, SnapshotInv
<1>2. CASE Upsert(t, w)
  BY <1>2, UpsertType, UpsertInv
<1>3. CASE UpsertFails(t, w)
  BY <1>3, UpsertFailsType, UpsertFailsInv
<1> QED
  BY <1>1, <1>2, <1>3 DEF Persist

\* Only UploadDone counts a repetition, and NotAgain says what it then needs.
LEMMA RepeatedStep ==
  ASSUME IInv, Next
  PROVE  UploadedOnce'
<1> USE DEF IInv, UploadedOnce
<1>1. ASSUME NEW t \in Task, UploadDone(t) PROVE UploadedOnce'
  <2>1. t \in finished => t \in spoiled
    BY <1>1 DEF UploadDone, Transfers, TaskInv, NotAgain
  <2> QED
    BY <1>1, <2>1 DEF UploadDone
<1>2. ASSUME NEW t \in Task, RunStep(t), ~UploadDone(t) PROVE UploadedOnce'
  BY <1>2 DEF RunStep, LeaveQueue, TakeSlot, Begin, UploadProgress, ApplyResumeState, FlushResume,
              UploadFails, CleanupLocalSource, Succeed, EndRun, history
<1>3. ASSUME NEW t \in Task, CallStep(t) PROVE UploadedOnce'
  <2>1. repeated' = repeated /\ spoiled \subseteq spoiled'
    BY <1>3 DEF CallStep, Create, CreateFails, CreateReturns, Pause, PauseCancels, PauseReturns,
                RenameTask, Resume, ResumeReturns, OtherReturns, Delete, DeleteCancels, DeleteWaited,
                DeleteTimeout, RemoveTask, DeletePersisted, CleanupAfterDelete, history
  <2> QED
    BY <2>1
<1>4. ASSUME NEW t \in Task, NEW w \in Writer, Persist(t, w) PROVE UploadedOnce'
  BY <1>4 DEF Persist, Snapshot, Upsert, UpsertFails, history
<1>5. ASSUME Stop \/ Crash \/ RestoreTasks \/ RestoreEnds \/ RestoreFails PROVE UploadedOnce'
  BY <1>5 DEF Stop, Crash, RestoreTasks, RestoreEnds, RestoreFails, history
<1> QED
  BY <1>1, <1>2, <1>3, <1>4, <1>5 DEF Next

LEMMA NextInv == IInv /\ [Next]_vars => IInv'
<1> SUFFICES ASSUME IInv, [Next]_vars PROVE IInv'
  OBVIOUS
<1> USE DEF IInv
<1>1. ASSUME NEW t \in Task, RunStep(t) PROVE IInv'
  BY <1>1, RunStepInv, RepeatedStep DEF Next
<1>2. ASSUME NEW t \in Task, CallStep(t) PROVE IInv'
  BY <1>2, CallStepInv, RepeatedStep DEF Next
<1>3. ASSUME NEW t \in Task, NEW w \in Writer, Persist(t, w) PROVE IInv'
  BY <1>3, PersistInv, RepeatedStep DEF Next
<1>4. CASE Stop
  BY <1>4, StopType, StopInv, RepeatedStep DEF Next
<1>5. CASE Crash
  BY <1>5, CrashType, CrashInv, RepeatedStep DEF Next
<1>6. CASE RestoreTasks
  BY <1>6, RestoreTasksType, RestoreTasksInv, RepeatedStep DEF Next
<1>7. CASE RestoreEnds
  BY <1>7, RestoreEndsType, RestoreEndsInv, RepeatedStep DEF Next
<1>8. CASE RestoreFails
  BY <1>8, RestoreFailsType, RestoreFailsInv, RepeatedStep DEF Next
<1>9. CASE UNCHANGED vars
  <2> USE <1>9 DEF vars, taskVars, bounds, history
  <2>1. TypeOK'
    BY DEF TypeOK
  <2>2. ASSUME NEW t \in Task PROVE TaskInv(t)'
    BY UntouchedTask DEF SameBut
  <2> QED
    BY <2>1, <2>2 DEF UploadedOnce
<1> QED
  BY <1>1, <1>2, <1>3, <1>4, <1>5, <1>6, <1>7, <1>8, <1>9 DEF Next

LEMMA Inductive == Spec => []IInv
  BY InitInv, NextInv, PTL DEF Spec

-----------------------------------------------------------------------------
(* The theorems.                                                              *)

\* Every variable keeps its type, whatever the tasks and the bounds.
THEOREM PersistTypeCorrect == Spec => []TypeOK
<1>1. IInv => TypeOK
  BY DEF IInv
<1> QED
  BY <1>1, Inductive, PTL

\* A confirmed upload that has not reached its drive and that nobody deletes keeps
\* its row and its local source, whatever ends or fails (createBatch,
\* cleanupLocalSource, popTask, restoreTasks, initTempCleanup).
THEOREM NothingIsLost == Spec => []NothingLost
<1>1. IInv => NothingLost
  <2> SUFFICES ASSUME IInv,
                      NEW t \in acked \ (finished \cup deleted \cup forgotten)
               PROVE  row[t] # "none" /\ source[t] # "none"
    BY DEF NothingLost
  <2>1. t \in Task
    BY DEF IInv, TypeOK
  <2> QED
    BY <2>1 DEF IInv, TaskInv, Kept
<1> QED
  BY <1>1, Inductive, PTL

\* Once nobody works at a task, upload_tasks says what the map says, if no two
\* writes of persistTask have overlapped and none failed.
THEOREM TableFollows == Spec => []RowFollows
<1>1. IInv => RowFollows
  <2> SUFFICES ASSUME IInv, NEW t \in Task \ spoiled, AtRest(t)
               PROVE  row[t] = IF t \in present THEN status[t] ELSE "none"
    BY DEF RowFollows
  <2>1. Followed(t) /\ up # "down" /\ Quiet(t)
    BY DEF IInv, TaskInv, AtRest, Serves
  <2> QED
    BY <2>1 DEF Followed, Steady, AtRest, Quiet, Waits
<1> QED
  BY <1>1, Inductive, PTL

\* A restart uploads nothing again, under the same condition.
THEOREM UploadsOnce == Spec => []UploadedOnce
<1>1. IInv => UploadedOnce
  BY DEF IInv
<1> QED
  BY <1>1, Inductive, PTL

\* A task that a returned pause has stopped is started by no restart: a run is made
\* by createBatch, by Resume and by restoreTasks, and only of a pending task.
THEOREM PausesSurvive == Spec => PauseSurvives
<1>1. IInv /\ [Next]_vars =>
        [\A t \in Task \ spoiled : run[t] = "off" /\ run'[t] = "spawned" => t \notin held']_vars
  <2> SUFFICES ASSUME IInv, Next, NEW t \in Task \ spoiled, run[t] = "off", run'[t] = "spawned"
               PROVE  t \notin held'
    OBVIOUS
  <2>0. TypeOK /\ TaskInv(t)
    BY DEF IInv
  <2>1. ASSUME NEW u \in Task, RunStep(u) PROVE FALSE
    BY <2>0, <2>1 DEF RunStep, LeaveQueue, TakeSlot, Begin, UploadProgress, ApplyResumeState,
       FlushResume, UploadDone, UploadFails, CleanupLocalSource, Succeed, EndRun, Goto, TypeOK
  <2>2. ASSUME NEW u \in Task, CallStep(u) PROVE t \notin held'
    <3>1. CASE CreateReturns(u)
      BY <3>1, <2>0 DEF CreateReturns, Returned, Goto, TypeOK, TaskInv, Creating
    <3>2. CASE ResumeReturns(u)
      BY <3>2, <2>0 DEF ResumeReturns, Returned, Goto, TypeOK, TaskInv, Placed, history
    <3>3. CASE ~CreateReturns(u) /\ ~ResumeReturns(u)
      <4>1. run' = run
        BY <3>3, <2>2 DEF CallStep, Create, CreateFails, Pause, PauseCancels, PauseReturns,
           RenameTask, Resume, OtherReturns, Delete, DeleteCancels, DeleteWaited, DeleteTimeout,
           RemoveTask, DeletePersisted, CleanupAfterDelete
      <4> QED
        BY <4>1
    <3> QED
      BY <3>1, <3>2, <3>3
  <2>3. ASSUME NEW u \in Task, NEW w \in Writer, Persist(u, w) PROVE FALSE
    BY <2>3 DEF Persist, Snapshot, Upsert, UpsertFails
  <2>4. CASE Stop \/ Crash \/ RestoreTasks \/ RestoreFails
    BY <2>4 DEF Stop, Crash, RestoreTasks, RestoreFails
  <2>5. CASE RestoreEnds
    BY <2>5, <2>0 DEF RestoreEnds, TaskInv, NotAgain, NoPending, history
  <2> QED
    BY <2>1, <2>2, <2>3, <2>4, <2>5 DEF Next
<1> QED
  BY <1>1, Inductive, PTL DEF Spec, PauseSurvives

=============================================================================
