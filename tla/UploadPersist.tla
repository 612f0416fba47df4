---------------------------- MODULE UploadPersist ----------------------------
(* The table under the upload tasks (internal/upload/persist.go): what is      *)
(* written of a task and when, its local source, a crash at any step, and the  *)
(* restart.  UploadQueue has the slots, the queue and the waiting; here a run   *)
(* is a goroutine that either starts its transfer or leaves.                   *)
(*                                                                             *)
(* persistTask makes the row under the lock and writes it after the unlock, so *)
(* a write is three steps: it becomes due, it is made, it reaches the table.   *)
(* The local sources, the drive and the table's file outlive the process.      *)
EXTENDS Integers

CONSTANTS Task,
          Kinds,       \* what the local source of a task may be
          MaxCrashes,  \* bound: ends of the process
          MaxFaults,   \* bound: statements that fail
          MaxAsks      \* bound: resumes of all tasks

\* A file of the temp directory, one of an offline download, one of the user's own.
Source == {"temp", "handoff", "own"}

ASSUME KindsAssumption == Kinds \subseteq Source
ASSUME BoundAssumption == MaxCrashes \in Nat /\ MaxFaults \in Nat /\ MaxAsks \in Nat

VARIABLES up,             \* the process
          present,        \* the tasks in Manager.tasks
          status, mode,   \* per task: Status, cancelMode
          run,            \* per task: its runTask goroutine
          ended,          \* the tasks whose context has ended
          call,           \* per task: the call of the API that is at it
          timer,          \* the tasks in resumePersist
          write,          \* per task and writer: a row that is due, or made and on its way
          row,            \* upload_tasks
          source,         \* per task: its local file
          crashes, faults, asks,
          acked,          \* history: tasks the API has confirmed
          deleted,        \* history: tasks whose row a Delete has gone for
          finished,       \* history: tasks uploaded since they were last asked for
          repeated,       \* history: tasks uploaded again without having been asked for
          held,           \* history: tasks paused by a call that has returned
          spoiled,        \* history: tasks two writes of which overlapped or one failed
          forgotten       \* history: tasks a restart could not read

taskVars == <<present, status, mode>>
bounds   == <<crashes, faults, asks>>
history  == <<acked, deleted, finished, repeated, held, spoiled, forgotten>>
vars == <<up, taskVars, run, ended, call, timer, write, row, source, bounds, history>>

Status == {"pending", "running", "paused", "failed", "canceled", "success"}
Writer == {"run", "call", "flush"}

TransferPc == {"begun", "uploaded", "cleaned"}
RunPc      == {"off", "spawned", "slot", "ending"} \cup TransferPc
CallPc     == {"idle", "create", "pauseCancel", "pause", "rename", "resume", "resumeMissing",
               "deleteMark", "deleteCancel", "deleteWait", "remove", "drop", "unlink"}

TypeOK ==
  /\ up \in {"up", "stopping", "down", "restoring"}
  /\ present \subseteq Task
  /\ status \in [Task -> Status \cup {"none"}]
  /\ mode \in [Task -> {"", "pause", "delete"}]
  /\ run \in [Task -> RunPc] /\ ended \subseteq Task
  /\ call \in [Task -> CallPc] /\ timer \subseteq Task
  /\ write \in [Task -> [Writer -> Status \cup {"none", "due"}]]
  /\ row \in [Task -> Status \cup {"none"}]
  /\ source \in [Task -> Source \cup {"none"}]
  /\ crashes \in 0..MaxCrashes /\ faults \in 0..MaxFaults /\ asks \in 0..MaxAsks
  /\ acked \subseteq Task /\ deleted \subseteq Task /\ finished \subseteq Task
  /\ repeated \subseteq Task /\ held \subseteq Task /\ spoiled \subseteq Task
  /\ forgotten \subseteq Task

NoWrite == [w \in Writer |-> "none"]

Init ==
  /\ up = "up" /\ present = {}
  /\ status = [t \in Task |-> "none"] /\ mode = [t \in Task |-> ""]
  /\ run = [t \in Task |-> "off"] /\ ended = {}
  /\ call = [t \in Task |-> "idle"] /\ timer = {}
  /\ write = [t \in Task |-> NoWrite]
  /\ row = [t \in Task |-> "none"] /\ source = [t \in Task |-> "none"]
  /\ crashes = 0 /\ faults = 0 /\ asks = 0
  /\ acked = {} /\ deleted = {} /\ finished = {} /\ repeated = {}
  /\ held = {} /\ spoiled = {} /\ forgotten = {}

-----------------------------------------------------------------------------
Active(t)    == status[t] \in {"pending", "running"}
Resumable(t) == status[t] \in {"paused", "failed", "canceled"}
Ended(t)     == t \in ended \/ up = "stopping"
Serves       == up \in {"up", "stopping"}

SetStatus(t, s) == status' = [status EXCEPT ![t] = s]
Goto(t, pc)     == run' = [run EXCEPT ![t] = pc]
Calls(t, pc)    == call' = [call EXCEPT ![t] = pc]
Due(t, w)       == write' = [write EXCEPT ![t][w] = "due"]

Made(t, w)   == write[t][w] \in Status                \* on its way to the table
Waits(t, w)  == write[t][w] # "none"                  \* its writer has yet to go on
Quiet(t)     == \A w \in Writer : ~Waits(t, w)
Others(t, w) == {v \in Writer \ {w} : Waits(t, v)}

-----------------------------------------------------------------------------
(* persistTask, whoever runs it.                                              *)

\* recordFromState under the lock.  The task may have been taken out of the map.
Snapshot(t, w) ==
  /\ write[t][w] = "due"
  /\ write' = [write EXCEPT ![t][w] = status[t]]
  /\ spoiled' = IF \E v \in Others(t, w) : Made(t, v) THEN spoiled \cup {t} ELSE spoiled
  /\ UNCHANGED <<up, taskVars, run, ended, call, timer, row, source, bounds,
                 acked, deleted, finished, repeated, held, forgotten>>

Upsert(t, w) ==
  /\ Made(t, w)
  /\ row' = [row EXCEPT ![t] = write[t][w]]
  /\ write' = [write EXCEPT ![t][w] = "none"]
  /\ UNCHANGED <<up, taskVars, run, ended, call, timer, source, bounds, history>>

\* An error is logged, and everyone but createBatch goes on.
UpsertFails(t, w) ==
  /\ Made(t, w) /\ (w = "call" => call[t] # "create")
  /\ faults < MaxFaults /\ faults' = faults + 1
  /\ write' = [write EXCEPT ![t][w] = "none"]
  /\ spoiled' = spoiled \cup {t}
  /\ UNCHANGED <<up, taskVars, run, ended, call, timer, row, source, crashes, asks,
                 acked, deleted, finished, repeated, held, forgotten>>

Persist(t, w) == Snapshot(t, w) \/ Upsert(t, w) \/ UpsertFails(t, w)

-----------------------------------------------------------------------------
(* runTask and executeUpload.                                                 *)

\* acquireRunSlot refuses, or finds the task gone.
LeaveQueue(t) ==
  /\ run[t] = "spawned"
  /\ t \notin present \/ status[t] # "pending" \/ up = "stopping"
  /\ Goto(t, "off")
  /\ UNCHANGED <<up, taskVars, ended, call, timer, write, row, source, bounds, history>>

TakeSlot(t) ==
  /\ run[t] = "spawned" /\ up = "up"
  /\ t \in present /\ status[t] = "pending"
  /\ Goto(t, "slot")
  /\ UNCHANGED <<up, taskVars, ended, call, timer, write, row, source, bounds, history>>

\* The first patch stores the row whether it starts the transfer or not.
Begin(t) ==
  LET starts == ~Ended(t) /\ status[t] = "pending" IN
  /\ run[t] = "slot"
  /\ \/ /\ t \in present
        /\ IF starts THEN SetStatus(t, "running") ELSE UNCHANGED status
        /\ Due(t, "run") /\ Goto(t, IF starts THEN "begun" ELSE "ending")
     \/ t \notin present /\ Goto(t, "off") /\ UNCHANGED <<status, write>>
  /\ UNCHANGED <<up, present, mode, ended, call, timer, row, source, bounds, history>>

Transfers(t) == run[t] = "begun" /\ ~Waits(t, "run")

\* updateProgress: running again whatever it was, and not stored.
UploadProgress(t) ==
  /\ Transfers(t) /\ t \in present
  /\ SetStatus(t, "running")
  /\ UNCHANGED <<up, present, mode, run, ended, call, timer, write, row, source, bounds, history>>

\* applyResumeState: stored in two seconds.
ApplyResumeState(t) ==
  /\ Transfers(t) /\ t \in present
  /\ timer' = timer \cup {t}
  /\ UNCHANGED <<up, taskVars, run, ended, call, write, row, source, bounds, history>>

\* The timer's goroutine, or FlushPendingResume.  Bound: one flush of a task at a time.
FlushResume(t) ==
  /\ t \in timer /\ ~Waits(t, "flush") /\ Serves
  /\ timer' = timer \ {t}
  /\ IF t \in present THEN Due(t, "flush") ELSE UNCHANGED write
  /\ UNCHANGED <<up, taskVars, run, ended, call, row, source, bounds, history>>

\* The driver has the whole file; the task may have been taken away meanwhile.
UploadDone(t) ==
  /\ Transfers(t) /\ source[t] # "none"
  /\ finished' = finished \cup {t}
  /\ repeated' = repeated \cup ({t} \cap finished)
  /\ Goto(t, IF t \in present THEN "uploaded" ELSE "off")
  /\ UNCHANGED <<up, taskVars, ended, call, timer, write, row, source, bounds,
                 acked, deleted, held, spoiled, forgotten>>

\* A context that has ended, or any error of the drive.
UploadFails(t) ==
  /\ Transfers(t)
  /\ \/ /\ t \in present
        /\ SetStatus(t, IF ~Ended(t) THEN "failed"
                        ELSE IF mode[t] = "pause" THEN "paused" ELSE "canceled")
        /\ Due(t, "run") /\ Goto(t, "ending")
     \/ t \notin present /\ Goto(t, "off") /\ UNCHANGED <<status, write>>
  /\ UNCHANGED <<up, present, mode, ended, call, timer, row, source, bounds, history>>

\* Mutant: the source is removed as soon as the transfer has begun.
CleanupEarly(t) ==
  /\ run[t] = "begun"
  /\ source' = [source EXCEPT ![t] = IF @ = "own" THEN @ ELSE "none"]
  /\ Goto(t, "cleaned")
  /\ UNCHANGED <<up, taskVars, ended, call, timer, write, row, bounds, history>>

CleanupLocalSource(t) ==
  /\ run[t] = "uploaded"
  /\ source' = [source EXCEPT ![t] = IF @ = "own" THEN @ ELSE "none"]
  /\ Goto(t, "cleaned")
  /\ UNCHANGED <<up, taskVars, ended, call, timer, write, row, bounds, history>>

\* Mutant: the success is shown and not stored.
SucceedUnstored(t) ==
  /\ run[t] = "cleaned" /\ Goto(t, "ending")
  /\ IF t \in present THEN SetStatus(t, "success") ELSE UNCHANGED status
  /\ UNCHANGED <<up, present, mode, ended, call, timer, write, row, source, bounds, history>>

Succeed(t) ==
  /\ run[t] = "cleaned"
  /\ Goto(t, "ending")
  /\ IF t \in present THEN SetStatus(t, "success") /\ Due(t, "run")
                      ELSE UNCHANGED <<status, write>>
  /\ UNCHANGED <<up, present, mode, ended, call, timer, row, source, bounds, history>>

\* The deferred function closes runDone.
EndRun(t) ==
  /\ run[t] = "ending" /\ ~Waits(t, "run") /\ Goto(t, "off")
  /\ UNCHANGED <<up, taskVars, ended, call, timer, write, row, source, bounds, history>>

RunStep(t) ==
  \/ LeaveQueue(t) \/ TakeSlot(t) \/ Begin(t) \/ UploadProgress(t) \/ ApplyResumeState(t)
  \/ FlushResume(t) \/ UploadDone(t) \/ UploadFails(t) \/ CleanupLocalSource(t)
  \/ Succeed(t) \/ EndRun(t)

-----------------------------------------------------------------------------
(* The calls.  Each task is at one call at a time.                            *)

Called(t, pc)   == call[t] = pc
Returned(t, pc) == call[t] = pc /\ ~Waits(t, "call")   \* its write is over

\* createBatch with a source that has just been put there.
Create(t, kind) ==
  /\ up = "up" /\ status[t] = "none"
  /\ source' = [source EXCEPT ![t] = kind]
  /\ present' = present \cup {t}
  /\ SetStatus(t, "pending") /\ Calls(t, "create") /\ Due(t, "call")
  /\ UNCHANGED <<up, mode, run, ended, timer, row, bounds, history>>

\* The task is taken back, and the handler removes its temp file.
CreateFails(t) ==
  /\ Called(t, "create") /\ Made(t, "call")
  /\ faults < MaxFaults /\ faults' = faults + 1
  /\ present' = present \ {t}
  /\ write' = [write EXCEPT ![t]["call"] = "none"]
  /\ source' = [source EXCEPT ![t] = IF @ = "temp" THEN "none" ELSE @]
  /\ Calls(t, "idle")
  /\ UNCHANGED <<up, status, mode, run, ended, timer, row, crashes, asks, history>>

CreateReturns(t) ==
  /\ Returned(t, "create")
  /\ Goto(t, "spawned") /\ ended' = ended \ {t}
  /\ Calls(t, "idle") /\ acked' = acked \cup {t}
  /\ UNCHANGED <<up, taskVars, timer, write, row, source, bounds,
                 deleted, finished, repeated, held, spoiled, forgotten>>

CanCall(t) == Serves /\ Called(t, "idle") /\ t \in present

Pause(t) ==
  /\ CanCall(t) /\ up = "up" /\ Active(t)
  /\ mode' = [mode EXCEPT ![t] = "pause"]
  /\ SetStatus(t, "paused") /\ Calls(t, "pauseCancel")
  /\ UNCHANGED <<up, present, run, ended, timer, write, row, source, bounds, history>>

\* Mutant: the pause is not stored.
PauseCancelsUnstored(t) ==
  /\ Called(t, "pauseCancel") /\ Calls(t, "pause")
  /\ ended' = ended \cup {t}
  /\ UNCHANGED <<up, taskVars, run, timer, write, row, source, bounds, history>>

PauseCancels(t) ==
  /\ Called(t, "pauseCancel") /\ Calls(t, "pause")
  /\ ended' = ended \cup {t} /\ Due(t, "call")
  /\ UNCHANGED <<up, taskVars, run, timer, row, source, bounds, history>>

PauseReturns(t) ==
  /\ Returned(t, "pause") /\ Calls(t, "idle")
  /\ held' = held \cup {t}
  /\ UNCHANGED <<up, taskVars, run, ended, timer, write, row, source, bounds,
                 acked, deleted, finished, repeated, spoiled, forgotten>>

\* RenameTask patches, and so stores, a task of any status.
RenameTask(t) ==
  /\ CanCall(t) /\ Calls(t, "rename") /\ Due(t, "call")
  /\ UNCHANGED <<up, taskVars, run, ended, timer, row, source, bounds, history>>

\* Once runDone is closed.
Resume(t) ==
  /\ CanCall(t) /\ up = "up" /\ Resumable(t) /\ run[t] = "off"
  /\ asks < MaxAsks /\ asks' = asks + 1
  /\ \/ /\ source[t] = "none"
        /\ SetStatus(t, "failed") /\ Calls(t, "resumeMissing")
        /\ UNCHANGED <<mode, finished, held>>
     \/ /\ source[t] # "none"
        /\ SetStatus(t, "pending") /\ Calls(t, "resume")
        /\ mode' = [mode EXCEPT ![t] = ""]
        /\ finished' = finished \ {t} /\ held' = held \ {t}
  /\ Due(t, "call")
  /\ UNCHANGED <<up, present, run, ended, timer, row, source, crashes, faults,
                 acked, deleted, repeated, spoiled, forgotten>>

ResumeReturns(t) ==
  /\ Returned(t, "resume") /\ Calls(t, "idle")
  /\ Goto(t, "spawned") /\ ended' = ended \ {t}
  /\ UNCHANGED <<up, taskVars, timer, write, row, source, bounds, history>>

\* A rename, or a resume whose file is gone.
OtherReturns(t) ==
  /\ Returned(t, "rename") \/ Returned(t, "resumeMissing")
  /\ Calls(t, "idle")
  /\ UNCHANGED <<up, taskVars, run, ended, timer, write, row, source, bounds, history>>

\* stopTaskForDelete: only a task with a run, or a mark of one, is waited for.
Delete(t) ==
  LET waits == run[t] # "off" /\ (Active(t) \/ run[t] # "spawned") IN
  /\ CanCall(t)
  /\ \/ ~waits /\ Calls(t, "remove") /\ UNCHANGED <<status, mode, write>>
     \/ /\ waits /\ mode' = [mode EXCEPT ![t] = "delete"]
        /\ IF Active(t) THEN SetStatus(t, "canceled") /\ Due(t, "call") /\ Calls(t, "deleteMark")
                        ELSE Calls(t, "deleteCancel") /\ UNCHANGED <<status, write>>
  /\ UNCHANGED <<up, present, run, ended, timer, row, source, bounds, history>>

DeleteCancels(t) ==
  /\ Returned(t, "deleteMark") \/ Called(t, "deleteCancel")
  /\ Calls(t, "deleteWait") /\ ended' = ended \cup {t}
  /\ UNCHANGED <<up, taskVars, run, timer, write, row, source, bounds, history>>

DeleteWaited(t) ==
  /\ Called(t, "deleteWait") /\ run[t] = "off" /\ Calls(t, "remove")
  /\ UNCHANGED <<up, taskVars, run, ended, timer, write, row, source, bounds, history>>

\* After five seconds the task is left as it is.
DeleteTimeout(t) ==
  /\ Called(t, "deleteWait") /\ Calls(t, "idle")
  /\ UNCHANGED <<up, taskVars, run, ended, timer, write, row, source, bounds, history>>

\* popTask takes the task out of the map ...
RemoveTask(t) ==
  /\ Called(t, "remove") /\ Calls(t, "drop")
  /\ present' = present \ {t}
  /\ spoiled' = IF Others(t, "call") # {} THEN spoiled \cup {t} ELSE spoiled
  /\ UNCHANGED <<up, status, mode, run, ended, timer, write, row, source, bounds,
                 acked, deleted, finished, repeated, held, forgotten>>

\* ... and its row out of the table; an error is logged.
DeletePersisted(t) ==
  /\ Called(t, "drop") /\ Calls(t, "unlink")
  /\ deleted' = deleted \cup {t}
  /\ \/ row' = [row EXCEPT ![t] = "none"] /\ UNCHANGED <<faults, spoiled>>
     \/ /\ faults < MaxFaults /\ faults' = faults + 1
        /\ spoiled' = spoiled \cup {t} /\ UNCHANGED row
  /\ UNCHANGED <<up, taskVars, run, ended, timer, write, source, crashes, asks,
                 acked, finished, repeated, held, forgotten>>

CleanupAfterDelete(t) ==
  /\ Called(t, "unlink") /\ Calls(t, "idle")
  /\ source' = [source EXCEPT ![t] = IF @ = "own" THEN @ ELSE "none"]
  /\ UNCHANGED <<up, taskVars, run, ended, timer, write, row, bounds, history>>

CallStep(t) ==
  \/ \E kind \in Kinds : Create(t, kind)
  \/ CreateFails(t) \/ CreateReturns(t)
  \/ Pause(t) \/ PauseCancels(t) \/ PauseReturns(t) \/ RenameTask(t)
  \/ Resume(t) \/ ResumeReturns(t) \/ OtherReturns(t)
  \/ Delete(t) \/ DeleteCancels(t) \/ DeleteWaited(t) \/ DeleteTimeout(t)
  \/ RemoveTask(t) \/ DeletePersisted(t) \/ CleanupAfterDelete(t)

-----------------------------------------------------------------------------
(* The process.                                                               *)

\* Every context ends with runCtx.
Stop ==
  /\ up = "up" /\ up' = "stopping"
  /\ mode' = [t \in Task |-> IF t \in present /\ status[t] = "running" THEN "pause" ELSE mode[t]]
  /\ UNCHANGED <<present, status, run, ended, call, timer, write, row, source, bounds, history>>

\* At the end of a shutdown, or at any other moment.
Crash ==
  /\ up # "down" /\ up' = "down"
  /\ crashes < MaxCrashes /\ crashes' = crashes + 1
  /\ present' = {} /\ run' = [t \in Task |-> "off"] /\ ended' = {} /\ timer' = {}
  /\ call' = [t \in Task |-> "idle"] /\ write' = [t \in Task |-> NoWrite]
  /\ mode' = [t \in Task |-> ""]
  /\ UNCHANGED <<status, row, source, faults, asks, history>>

Missing(t) == row[t] # "success" /\ source[t] = "none"

\* Mutant: what was running is queued again.
RestoredRunning(t) ==
  IF Missing(t) THEN "failed" ELSE IF row[t] = "running" THEN "pending" ELSE row[t]

Restored(t) ==
  IF Missing(t) THEN "failed" ELSE IF row[t] = "running" THEN "paused" ELSE row[t]

\* restoreTasks reads the table and stores what it changes of it.
RestoreTasks ==
  LET rows == {t \in Task : row[t] # "none"} IN
  /\ up = "down" /\ up' = "restoring"
  /\ present' = rows
  /\ status' = [t \in Task |-> IF t \in rows THEN Restored(t) ELSE status[t]]
  /\ write' = [t \in Task |-> IF t \in rows /\ Restored(t) # row[t]
                              THEN [NoWrite EXCEPT !["call"] = "due"] ELSE NoWrite]
  /\ UNCHANGED <<mode, run, ended, call, timer, row, source, bounds, history>>

\* CleanupOrphanTempFiles(0): every temp file that is no task's.
Orphans(kept) == [t \in Task |-> IF source[t] = "temp" /\ t \notin kept THEN "none" ELSE source[t]]

\* The pending tasks are run, and initTempCleanup cleans up.
RestoreEnds ==
  /\ up = "restoring" /\ up' = "up"
  /\ \A t \in Task : ~Waits(t, "call")
  /\ run' = [t \in Task |-> IF t \in present /\ status[t] = "pending" THEN "spawned" ELSE "off"]
  /\ source' = Orphans(present)
  /\ UNCHANGED <<taskVars, ended, call, timer, write, row, bounds, history>>

\* The table cannot be read: no tasks, and the clean-up as ever.
RestoreFails ==
  LET rows == {t \in Task : row[t] # "none"} IN
  /\ up = "down" /\ up' = "up"
  /\ faults < MaxFaults /\ faults' = faults + 1
  /\ source' = Orphans({})
  /\ forgotten' = forgotten \cup rows /\ spoiled' = spoiled \cup rows
  /\ UNCHANGED <<taskVars, run, ended, call, timer, write, row, crashes, asks,
                 acked, deleted, finished, repeated, held>>

Next ==
  \/ \E t \in Task : RunStep(t) \/ CallStep(t) \/ \E w \in Writer : Persist(t, w)
  \/ Stop \/ Crash \/ RestoreTasks \/ RestoreEnds \/ RestoreFails

Spec == Init /\ [][Next]_vars

-----------------------------------------------------------------------------
(* Properties.                                                                *)

\* A confirmed upload that has not reached its drive and that nobody deletes keeps
\* its row and its local source, through every crash, restart and failed write
\* (createBatch, cleanupLocalSource, popTask, initTempCleanup).
NothingLost ==
  \A t \in acked \ (finished \cup deleted \cup forgotten) :
    row[t] # "none" /\ source[t] # "none"

AtRest(t) == /\ Serves /\ run[t] \notin TransferPc
             /\ call[t] \notin {"pauseCancel", "drop"} /\ Quiet(t)

\* Once nobody works at a task, the table says what the map says, and has no row of
\* a deleted task, if no two writes of persistTask have overlapped and none failed.
RowFollows ==
  \A t \in Task \ spoiled : AtRest(t) =>
    row[t] = IF t \in present THEN status[t] ELSE "none"

\* A restart uploads nothing again: what has reached the drive is sent once more
\* only after a Resume, under the same condition.
UploadedOnce == repeated \subseteq spoiled

\* A paused task is started by a Resume and by no restart, under the same condition.
PauseSurvives ==
  [][\A t \in Task \ spoiled : run[t] = "off" /\ run'[t] = "spawned" => t \notin held']_vars

\* The same without the condition: what Delete has removed does not come back.
DeletedStays == \A t \in deleted : call[t] = "idle" => t \notin present
=============================================================================
