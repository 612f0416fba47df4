---------------------------- MODULE UploadQueue ----------------------------
(* The run queue of the upload manager (internal/upload): its task table, the *)
(* worker goroutine each run starts, the two slot counters they share through *)
(* a mutex and a condition variable, and the API calls (create, pause,        *)
(* resume, delete, stop, change of the limit) that race with them.            *)
(*                                                                            *)
(* One action is one critical section of Manager.mu, or one step outside it   *)
(* (a cancel() after the unlock, a closed channel, the driver returning).     *)
(* createBatch and Resume take the next queueOrder and make a runDone channel *)
(* together, and start one goroutine for it, so one number n names all three: *)
(* the position n, the channel n and the worker n.  0 stands for nil.         *)
EXTENDS Integers, FiniteSets

CONSTANTS Task,       \* task ids; newTaskID never gives one twice
          CrossTask,  \* those created as a cross-drive transfer
          Caller,     \* goroutines that call the manager's API
          Limits,     \* the values of the upload_task_concurrency setting
          MaxRuns     \* bound: runs started in one life of the process

ASSUME ConstantsAssumption ==
  /\ Task # {}
  /\ CrossTask \subseteq Task
  /\ Limits \subseteq Nat \ {0}
  /\ Limits # {}
  /\ MaxRuns \in Nat

VARIABLES status, phase, prio, run, mode, cancel,  \* taskState, per task
          queueOrder, stopping, gate,              \* Manager; the startup gate
          limit, uploads, downloads,               \* the slot counters
          pc, wtask, wrun, slot,                   \* per worker
          canceled,  \* workers whose run context has been cancelled
          closed,    \* runDone channels that have been closed
          panicked,  \* a channel was closed twice: the process would be gone
          call,      \* per caller: the API call it is in the middle of
          held       \* history: tasks a Pause has returned for, not resumed since

taskVars == <<status, phase, prio, run, mode, cancel>>
slotVars == <<limit, uploads, downloads, slot>>
goVars   == <<pc, wtask, wrun>>
chanVars == <<canceled, closed, panicked>>
mgrVars  == <<queueOrder, stopping, gate>>
vars == <<taskVars, slotVars, goVars, chanVars, mgrVars, call, held>>

Worker    == 1..MaxRuns
RunNo     == 0..MaxRuns
Kind      == {"upload", "download"}
Status    == {"pending", "running", "paused", "success", "failed", "canceled"}
Active    == {"pending", "running"}
Resumable == {"paused", "failed", "canceled"}

Idle == [op |-> "idle", task |-> CHOOSE t \in Task : TRUE, runs |-> {}, cancel |-> 0]
Op   == {"idle", "create", "pause", "resume", "delete", "await", "pop", "stop"}

PcSet == {"none", "start", "gate", "acquire", "wait", "got", "transfer", "done", "fail",
          "failPaused", "release", "requeue", "exit", "ended"}
Call  == [op : Op, task : Task, runs : SUBSET RunNo, cancel : RunNo]

TaskType == /\ status \in [Task -> Status \cup {"unborn", "gone"}]
            /\ phase \in [Task -> {"downloading", "uploading"}]
            /\ prio \in [Task -> BOOLEAN]
            /\ run \in [Task -> RunNo]
            /\ mode \in [Task -> {"", "pause", "delete"}]
            /\ cancel \in [Task -> RunNo]
SlotType == /\ limit \in Limits /\ uploads \in Nat /\ downloads \in Nat
            /\ slot \in [Worker -> Kind \cup {"none"}]
GoType   == /\ pc \in [Worker -> PcSet]
            /\ wtask \in [Worker -> Task]
            /\ wrun \in [Worker -> RunNo]
ChanType == canceled \subseteq Worker /\ closed \subseteq RunNo /\ panicked \in BOOLEAN
MgrType  == queueOrder \in RunNo /\ stopping \in BOOLEAN /\ gate \in BOOLEAN
CallType == call \in [Caller -> Call] /\ held \subseteq Task

TypeOK == TaskType /\ SlotType /\ GoType /\ ChanType /\ MgrType /\ CallType

\* Where a new task starts.
FirstPhase(t) == IF t \in CrossTask THEN "downloading" ELSE "uploading"

Init ==
  /\ status = [t \in Task |-> "unborn"]
  /\ phase = [t \in Task |-> FirstPhase(t)]
  /\ prio = [t \in Task |-> FALSE]
  /\ run = [t \in Task |-> 0]
  /\ mode = [t \in Task |-> ""]
  /\ cancel = [t \in Task |-> 0]
  /\ queueOrder = 0 /\ stopping = FALSE /\ gate = FALSE /\ panicked = FALSE
  /\ limit \in Limits /\ uploads = 0 /\ downloads = 0
  /\ pc = [w \in Worker |-> "none"]
  /\ wtask = [w \in Worker |-> Idle.task]
  /\ wrun = [w \in Worker |-> 0]
  /\ slot = [w \in Worker |-> "none"]
  /\ canceled = {} /\ closed = {}
  /\ call = [c \in Caller |-> Idle]
  /\ held = {}

-----------------------------------------------------------------------------
InMap(t) == status[t] \in Status

SlotKind(t) == IF t \in CrossTask /\ phase[t] = "downloading" THEN "download" ELSE "upload"

PhaseOf(k) == IF k = "download" THEN "downloading" ELSE "uploading"

\* Mutant: one counter for both queues.
CanAcquireSlotShared(k) == uploads < limit

CanAcquireSlot(k) == IF k = "download" THEN downloads < limit ELSE uploads < limit

\* Numbers are never shared, so QueueOrder decides and the later tie-breaks do not.
Precedes(a, b) == IF prio[a] # prio[b] THEN prio[a] ELSE run[a] < run[b]

IsNextPending(t) ==
  \A u \in Task \ {t} :
    status[u] = "pending" /\ SlotKind(u) = SlotKind(t) => ~Precedes(u, t)

CtxErr(w) == stopping \/ w \in canceled

\* sync.Cond.Broadcast: everyone parked in Wait will retake the lock.
Wake(p) == [w \in Worker |-> IF p[w] = "wait" THEN "acquire" ELSE p[w]]

\* Calling a CancelFunc: nothing for a nil one or a run that is over.
CancelRun(w) == canceled' = canceled \cup {v \in Worker : v = w /\ pc[v] # "ended"}

Goto(w, l) == pc' = [pc EXCEPT ![w] = l]

\* removeTaskLocked: the task leaves the map and nothing reads its fields again.
Remove(t) ==
  /\ status' = [status EXCEPT ![t] = "gone"]
  /\ phase' = [phase EXCEPT ![t] = "uploading"]
  /\ prio' = [prio EXCEPT ![t] = FALSE]
  /\ run' = [run EXCEPT ![t] = 0]
  /\ mode' = [mode EXCEPT ![t] = ""]
  /\ cancel' = [cancel EXCEPT ![t] = 0]
  /\ held' = held \ {t}

\* Writes the status of a task still in the map.
Patch(t, s) == status' = [status EXCEPT ![t] = IF InMap(t) THEN s ELSE @]

-----------------------------------------------------------------------------
(* The worker: runTask, acquireRunSlot, executeUpload,                        *)
(* executeCrossTransferDownload.                                              *)

Start(w) ==
  /\ pc[w] = "start"
  /\ IF InMap(wtask[w])
       THEN Goto(w, "gate") /\ wrun' = [wrun EXCEPT ![w] = run[wtask[w]]]
       ELSE Goto(w, "ended") /\ UNCHANGED wrun
  /\ UNCHANGED <<taskVars, slotVars, wtask, chanVars, mgrVars, call, held>>

PassGate(w) ==
  /\ pc[w] = "gate"
  /\ \/ gate /\ Goto(w, "acquire")
     \/ stopping /\ Goto(w, "exit")
  /\ UNCHANGED <<taskVars, slotVars, wtask, wrun, chanVars, mgrVars, call, held>>

StillQueued(w) ==
  LET t == wtask[w] IN ~stopping /\ status[t] = "pending" /\ run[t] = wrun[w]

SlotIsMine(w) == CanAcquireSlot(SlotKind(wtask[w])) /\ IsNextPending(wtask[w])

QuitQueue(w) ==
  /\ pc[w] = "acquire" /\ ~StillQueued(w)
  /\ Goto(w, "exit")
  /\ UNCHANGED <<taskVars, slotVars, wtask, wrun, chanVars, mgrVars, call, held>>

TakeSlot(w) ==
  LET t == wtask[w] IN
  /\ pc[w] = "acquire" /\ StillQueued(w) /\ SlotIsMine(w)
  /\ slot' = [slot EXCEPT ![w] = SlotKind(t)]
  /\ uploads' = IF SlotKind(t) = "upload" THEN uploads + 1 ELSE uploads
  /\ downloads' = IF SlotKind(t) = "download" THEN downloads + 1 ELSE downloads
  /\ prio' = [prio EXCEPT ![t] = FALSE]
  /\ cancel' = [cancel EXCEPT ![t] = w]
  /\ Goto(w, "got")
  /\ UNCHANGED <<status, phase, run, mode, limit, wtask, wrun, chanVars, mgrVars, call, held>>

WaitForSlot(w) ==
  /\ pc[w] = "acquire" /\ StillQueued(w) /\ ~SlotIsMine(w)
  /\ Goto(w, "wait")
  /\ UNCHANGED <<taskVars, slotVars, wtask, wrun, chanVars, mgrVars, call, held>>

\* The first patch of a run: it goes on only if nobody has touched the task.
Begins(w) ==
  LET t == wtask[w] IN
  /\ InMap(t) /\ status[t] = "pending" /\ ~CtxErr(w)
  /\ Patch(t, "running") /\ Goto(w, "transfer")
  /\ phase' = [phase EXCEPT ![t] = PhaseOf(slot[w])]

Declines(w) ==
  /\ ~InMap(wtask[w]) \/ status[wtask[w]] # "pending" \/ CtxErr(w)
  /\ Goto(w, "release")
  /\ UNCHANGED <<status, phase>>

BeginUpload(w) ==
  /\ pc[w] = "got" /\ slot[w] = "upload"
  /\ Begins(w) \/ Declines(w)
  /\ UNCHANGED <<prio, run, mode, cancel, slotVars, wtask, wrun, chanVars, mgrVars, call, held>>

\* A download whose playback service, source or temp path is missing fails at
\* once, whatever the status has become.
BeginDownload(w) ==
  /\ pc[w] = "got" /\ slot[w] = "download"
  /\ \/ Begins(w) \/ Declines(w)
     \/ Patch(wtask[w], "failed") /\ Goto(w, "release") /\ UNCHANGED phase
  /\ UNCHANGED <<prio, run, mode, cancel, slotVars, wtask, wrun, chanVars, mgrVars, call, held>>

\* The driver's callbacks report until it returns, and the status goes back to
\* running whatever it was; a download's leaves a finished task alone.
UploadProgress(w) ==
  LET t == wtask[w] IN
  /\ pc[w] = "transfer" /\ slot[w] = "upload" /\ InMap(t)
  /\ status' = [status EXCEPT ![t] = "running"]
  /\ phase' = [phase EXCEPT ![t] = "uploading"]
  /\ UNCHANGED <<prio, run, mode, cancel, slotVars, goVars, chanVars, mgrVars, call, held>>

DownloadProgress(w) ==
  LET t == wtask[w] IN
  /\ pc[w] = "transfer" /\ slot[w] = "download" /\ InMap(t) /\ status[t] # "success"
  /\ status' = [status EXCEPT ![t] = "running"]
  /\ phase' = [phase EXCEPT ![t] = "downloading"]
  /\ UNCHANGED <<prio, run, mode, cancel, slotVars, goVars, chanVars, mgrVars, call, held>>

\* The driver returns; the cancel mode is read under the lock, acted on later.
Fails(w) == Goto(w, IF mode[wtask[w]] = "pause" THEN "failPaused" ELSE "fail")

UploadEnds(w) ==
  /\ pc[w] = "transfer" /\ slot[w] = "upload"
  /\ IF InMap(wtask[w]) THEN Goto(w, "done") \/ Fails(w) ELSE Goto(w, "release")
  /\ UNCHANGED <<taskVars, slotVars, wtask, wrun, chanVars, mgrVars, call, held>>

\* The copy from the source ends, and the target directory is looked up.
DownloadEnds(w) ==
  /\ pc[w] = "transfer" /\ slot[w] = "download"
  /\ IF InMap(wtask[w]) THEN Goto(w, "done") \/ Fails(w) ELSE Goto(w, "release")
  /\ UNCHANGED <<taskVars, slotVars, wtask, wrun, chanVars, mgrVars, call, held>>

\* What a failed run leaves behind: it looks at its context only now.
FailedStatus(w) == IF ~CtxErr(w) THEN "failed"
                   ELSE IF pc[w] = "failPaused" THEN "paused" ELSE "canceled"

\* Mutant: a cancelled run trusts the status its canceller has set.
FailUploadTrusting(w) ==
  /\ pc[w] \in {"fail", "failPaused"} /\ slot[w] = "upload"
  /\ IF CtxErr(w) THEN UNCHANGED status ELSE Patch(wtask[w], "failed")
  /\ Goto(w, "release")
  /\ UNCHANGED <<phase, prio, run, mode, cancel, slotVars, wtask, wrun, chanVars, mgrVars, call, held>>

FailUpload(w) ==
  /\ pc[w] \in {"fail", "failPaused"} /\ slot[w] = "upload"
  /\ Patch(wtask[w], FailedStatus(w))
  /\ Goto(w, "release")
  /\ UNCHANGED <<phase, prio, run, mode, cancel, slotVars, wtask, wrun, chanVars, mgrVars, call, held>>

FailDownload(w) ==
  LET t == wtask[w] IN
  /\ pc[w] \in {"fail", "failPaused"} /\ slot[w] = "download"
  /\ Patch(t, FailedStatus(w))
  /\ phase' = [phase EXCEPT ![t] = IF InMap(t) THEN "downloading" ELSE @]
  /\ Goto(w, "release")
  /\ UNCHANGED <<prio, run, mode, cancel, slotVars, wtask, wrun, chanVars, mgrVars, call, held>>

\* "success" stands for success and skipped.
FinishUpload(w) ==
  LET t == wtask[w] IN
  /\ pc[w] = "done" /\ slot[w] = "upload"
  /\ Patch(t, "success")
  /\ phase' = [phase EXCEPT ![t] = IF InMap(t) THEN "uploading" ELSE @]
  /\ Goto(w, "release")
  /\ UNCHANGED <<prio, run, mode, cancel, slotVars, wtask, wrun, chanVars, mgrVars, call, held>>

\* finishCrossTransferDownloadSuccess reports TRUE even when it changed nothing,
\* so the worker queues again either way.
FinishDownload(w) ==
  LET t == wtask[w] IN
  /\ pc[w] = "done" /\ slot[w] = "download"
  /\ IF CtxErr(w) \/ ~InMap(t)
       THEN UNCHANGED <<status, phase>>
       ELSE /\ Patch(t, "pending")
            /\ phase' = [phase EXCEPT ![t] = "uploading"]
  /\ Goto(w, "requeue")
  /\ UNCHANGED <<prio, run, mode, cancel, slotVars, wtask, wrun, chanVars, mgrVars, call, held>>

\* Mutants: a download that is not to go on returns before its release; nobody is woken.
ReleaseSlotUnlessOver(w) ==
  IF slot[w] = "download" /\ pc[w] = "release"
    THEN /\ Goto(w, "exit")
         /\ UNCHANGED <<taskVars, slotVars, wtask, wrun, chanVars, mgrVars, call, held>>
    ELSE /\ pc[w] \in {"release", "requeue"}
         /\ uploads' = IF slot[w] = "upload" /\ uploads > 0 THEN uploads - 1 ELSE uploads
         /\ downloads' = IF slot[w] = "download" /\ downloads > 0 THEN downloads - 1 ELSE downloads
         /\ slot' = [slot EXCEPT ![w] = "none"]
         /\ pc' = [Wake(pc) EXCEPT ![w] = IF pc[w] = "requeue" THEN "acquire" ELSE "exit"]
         /\ UNCHANGED <<taskVars, limit, wtask, wrun, chanVars, mgrVars, call, held>>
ReleaseSlotSilent(w) ==
  /\ pc[w] \in {"release", "requeue"}
  /\ uploads' = IF slot[w] = "upload" /\ uploads > 0 THEN uploads - 1 ELSE uploads
  /\ downloads' = IF slot[w] = "download" /\ downloads > 0 THEN downloads - 1 ELSE downloads
  /\ slot' = [slot EXCEPT ![w] = "none"]
  /\ Goto(w, IF pc[w] = "requeue" THEN "acquire" ELSE "exit")
  /\ UNCHANGED <<taskVars, limit, wtask, wrun, chanVars, mgrVars, call, held>>

ReleaseSlot(w) ==
  /\ pc[w] \in {"release", "requeue"}
  /\ uploads' = IF slot[w] = "upload" /\ uploads > 0 THEN uploads - 1 ELSE uploads
  /\ downloads' = IF slot[w] = "download" /\ downloads > 0 THEN downloads - 1 ELSE downloads
  /\ slot' = [slot EXCEPT ![w] = "none"]
  /\ pc' = [Wake(pc) EXCEPT ![w] = IF pc[w] = "requeue" THEN "acquire" ELSE "exit"]
  /\ UNCHANGED <<taskVars, limit, wtask, wrun, chanVars, mgrVars, call, held>>

\* Mutant: the deferred function does not close the channel.
ExitOpen(w) ==
  /\ pc[w] = "exit"
  /\ Goto(w, "ended")
  /\ UNCHANGED <<taskVars, slotVars, wtask, wrun, chanVars, mgrVars, call, held>>

\* runTask's deferred function: closing a closed channel panics.
Exit(w) ==
  LET t == wtask[w] IN
  /\ pc[w] = "exit"
  /\ cancel' = [cancel EXCEPT ![t] = IF InMap(t) /\ run[t] = wrun[w] THEN 0 ELSE @]
  /\ closed' = closed \cup {wrun[w]}
  /\ panicked' \in {b \in BOOLEAN : b <=> wrun[w] \in closed}
  /\ Goto(w, "ended")
  /\ wrun' = [wrun EXCEPT ![w] = 0]
  /\ canceled' = canceled \ {w}
  /\ UNCHANGED <<status, phase, prio, run, mode, slotVars, wtask, mgrVars, call, held>>

-----------------------------------------------------------------------------
(* The API calls.                                                             *)

Enter(c, o, t, runs, w) ==
  /\ call[c].op = "idle"
  /\ call' = [call EXCEPT ![c] = [op |-> o, task |-> t, runs |-> runs, cancel |-> w]]

Return(c) == call' = [call EXCEPT ![c] = Idle]

\* `go runTask' for the run numbered n.
Spawn(t, n) == /\ pc' = [pc EXCEPT ![n] = "start"]
               /\ wtask' = [wtask EXCEPT ![n] = t]

\* createBatch's critical section, for one task.
Create(c, t) ==
  /\ ~stopping /\ status[t] = "unborn" /\ queueOrder < MaxRuns
  /\ Enter(c, "create", t, {queueOrder + 1}, 0)
  /\ status' = [status EXCEPT ![t] = "pending"]
  /\ queueOrder' = queueOrder + 1
  /\ run' = [run EXCEPT ![t] = queueOrder + 1]
  /\ UNCHANGED <<phase, prio, mode, cancel, slotVars, goVars, chanVars, stopping, gate, held>>

\* The row is stored: go runTask.
CreateCommit(c) ==
  /\ call[c].op = "create"
  /\ \E n \in call[c].runs : Spawn(call[c].task, n)
  /\ Return(c)
  /\ UNCHANGED <<taskVars, slotVars, wrun, chanVars, mgrVars, held>>

\* The row cannot be stored: the task leaves the map and its channel stays open.
CreateRollback(c) ==
  /\ call[c].op = "create"
  /\ IF InMap(call[c].task) THEN Remove(call[c].task) ELSE UNCHANGED <<taskVars, held>>
  /\ Return(c)
  /\ UNCHANGED <<slotVars, goVars, chanVars, mgrVars>>

Pause(c, t) ==
  /\ InMap(t) /\ ~stopping /\ status[t] \in Active
  /\ Enter(c, "pause", t, {}, cancel[t])
  /\ status' = [status EXCEPT ![t] = "paused"]
  /\ prio' = [prio EXCEPT ![t] = FALSE]
  /\ mode' = [mode EXCEPT ![t] = "pause"]
  /\ UNCHANGED <<phase, run, cancel, slotVars, goVars, chanVars, mgrVars, held>>

\* The captured context is cancelled only after the unlock.
PauseCancel(c) ==
  LET t == call[c].task IN
  /\ call[c].op = "pause"
  /\ CancelRun(call[c].cancel)
  /\ pc' = Wake(pc)
  /\ held' = IF InMap(t) THEN held \cup {t} ELSE held
  /\ Return(c)
  /\ UNCHANGED <<taskVars, slotVars, wtask, wrun, closed, panicked, mgrVars>>

\* Resume up to its wait for the previous run: a task in the map has a channel.
Resume(c, t) ==
  /\ InMap(t) /\ status[t] \in Resumable /\ queueOrder < MaxRuns
  /\ Enter(c, "resume", t, {run[t]}, 0)
  /\ UNCHANGED <<taskVars, slotVars, goVars, chanVars, mgrVars, held>>

CanResume(t) == InMap(t) /\ ~stopping /\ status[t] \in Resumable

\* Mutants: the new run does not wait for the previous one; a resumed cross-drive
\* task starts from the source again.
ResumeRunAtOnce(c) ==
  LET t == call[c].task IN
  /\ call[c].op = "resume" /\ CanResume(t) /\ queueOrder < MaxRuns
  /\ queueOrder' = queueOrder + 1
  /\ run' = [run EXCEPT ![t] = queueOrder + 1]
  /\ status' = [status EXCEPT ![t] = "pending"]
  /\ prio' = [prio EXCEPT ![t] = TRUE]
  /\ mode' = [mode EXCEPT ![t] = ""]
  /\ Spawn(t, queueOrder + 1)
  /\ held' = held \ {t}
  /\ Return(c)
  /\ UNCHANGED <<phase, cancel, slotVars, wrun, chanVars, stopping, gate>>
ResumeRunAfresh(c) ==
  LET t == call[c].task IN
  /\ call[c].op = "resume" /\ call[c].runs \subseteq closed
  /\ CanResume(t) /\ queueOrder < MaxRuns
  /\ queueOrder' = queueOrder + 1
  /\ run' = [run EXCEPT ![t] = queueOrder + 1]
  /\ status' = [status EXCEPT ![t] = "pending"]
  /\ prio' = [prio EXCEPT ![t] = TRUE]
  /\ mode' = [mode EXCEPT ![t] = ""]
  /\ phase' = [phase EXCEPT ![t] = FirstPhase(t)]
  /\ Spawn(t, queueOrder + 1)
  /\ held' = held \ {t}
  /\ Return(c)
  /\ UNCHANGED <<cancel, slotVars, wrun, chanVars, stopping, gate>>

\* The wait is over: start a new run, or find gone the local file an upload needs.
ResumeRun(c) ==
  LET t == call[c].task IN
  /\ call[c].op = "resume" /\ call[c].runs \subseteq closed
  /\ CanResume(t) /\ queueOrder < MaxRuns
  /\ queueOrder' = queueOrder + 1
  /\ run' = [run EXCEPT ![t] = queueOrder + 1]
  /\ status' = [status EXCEPT ![t] = "pending"]
  /\ prio' = [prio EXCEPT ![t] = TRUE]
  /\ mode' = [mode EXCEPT ![t] = ""]
  /\ Spawn(t, queueOrder + 1)
  /\ held' = held \ {t}
  /\ Return(c)
  /\ UNCHANGED <<phase, cancel, slotVars, wrun, chanVars, stopping, gate>>

ResumeFileMissing(c) ==
  LET t == call[c].task IN
  /\ call[c].op = "resume" /\ call[c].runs \subseteq closed
  /\ CanResume(t) /\ SlotKind(t) = "upload" /\ Patch(t, "failed")
  /\ Return(c)
  /\ UNCHANGED <<phase, prio, run, mode, cancel, slotVars, goVars, chanVars, mgrVars, held>>

ResumeRefused(c) ==
  /\ call[c].op = "resume" /\ call[c].runs \subseteq closed
  /\ ~CanResume(call[c].task)
  /\ Return(c)
  /\ UNCHANGED <<taskVars, slotVars, goVars, chanVars, mgrVars, held>>

\* The request's context ends the wait.
ResumeGiveUp(c) ==
  /\ call[c].op = "resume" /\ ~(call[c].runs \subseteq closed)
  /\ Return(c)
  /\ UNCHANGED <<taskVars, slotVars, goVars, chanVars, mgrVars, held>>

\* stopTaskForDelete's critical section.
Delete(c, t) ==
  /\ InMap(t)
  /\ IF (status[t] \notin Active /\ cancel[t] = 0) \/ run[t] \in closed
       THEN /\ Enter(c, "pop", t, {}, 0)
            /\ UNCHANGED <<status, mode>>
       ELSE /\ Enter(c, "delete", t, {run[t]}, cancel[t])
            /\ status' = [status EXCEPT ![t] = IF @ \in Active THEN "canceled" ELSE @]
            /\ mode' = [mode EXCEPT ![t] = "delete"]
  /\ UNCHANGED <<phase, prio, run, cancel, slotVars, goVars, chanVars, mgrVars, held>>

DeleteCancel(c) ==
  /\ call[c].op = "delete"
  /\ CancelRun(call[c].cancel)
  /\ pc' = Wake(pc)
  /\ call' = [call EXCEPT ![c].op = "await"]
  /\ UNCHANGED <<taskVars, slotVars, wtask, wrun, closed, panicked, mgrVars, held>>

\* popTask, once the channel has been closed.
DeletePop(c) ==
  /\ \/ call[c].op = "pop"
     \/ call[c].op = "await" /\ call[c].runs \subseteq closed
  /\ IF InMap(call[c].task) THEN Remove(call[c].task) ELSE UNCHANGED <<taskVars, held>>
  /\ Return(c)
  /\ UNCHANGED <<slotVars, goVars, chanVars, mgrVars>>

\* deleteStopTimeout, or the request's own context.
DeleteTimeout(c) ==
  /\ call[c].op = "await"
  /\ Return(c)
  /\ UNCHANGED <<taskVars, slotVars, goVars, chanVars, mgrVars, held>>

\* Mutant: Stop waits for the tasks that are shown as running.
StopShownRunning(c) ==
  /\ ~stopping /\ stopping' = TRUE
  /\ Enter(c, "stop", Idle.task, {run[t] : t \in {u \in Task : status[u] = "running"}}, 0)
  /\ mode' = [t \in Task |-> IF status[t] = "running" THEN "pause" ELSE mode[t]]
  /\ pc' = Wake(pc)
  /\ UNCHANGED <<status, phase, prio, run, cancel, slotVars, wtask, wrun, chanVars, queueOrder, gate, held>>

\* The application stops the manager once.
Stop(c) ==
  /\ ~stopping /\ stopping' = TRUE
  /\ Enter(c, "stop", Idle.task, {run[t] : t \in {u \in Task : InMap(u)}}, 0)
  /\ mode' = [t \in Task |-> IF status[t] = "running" THEN "pause" ELSE mode[t]]
  /\ pc' = Wake(pc)
  /\ UNCHANGED <<status, phase, prio, run, cancel, slotVars, wtask, wrun, chanVars, queueOrder, gate, held>>

\* Every channel is closed, or the shutdown deadline has passed.
StopReturns(c) ==
  /\ call[c].op = "stop" /\ call[c].runs \subseteq closed
  /\ Return(c)
  /\ UNCHANGED <<taskVars, slotVars, goVars, chanVars, mgrVars, held>>

StopTimeout(c) ==
  /\ call[c].op = "stop" /\ ~(call[c].runs \subseteq closed)
  /\ Return(c)
  /\ UNCHANGED <<taskVars, slotVars, goVars, chanVars, mgrVars, held>>

\* RefreshConcurrencyLimit, after a change of the setting.
SetLimit ==
  /\ limit' \in Limits
  /\ pc' = Wake(pc)
  /\ UNCHANGED <<taskVars, uploads, downloads, slot, wtask, wrun, chanVars, mgrVars, call, held>>

\* The application opens the startup gate it shares among its services.
OpenGate ==
  /\ ~gate /\ gate' = TRUE
  /\ UNCHANGED <<taskVars, slotVars, goVars, chanVars, queueOrder, stopping, call, held>>

-----------------------------------------------------------------------------
WorkerStep(w) ==
  \/ Start(w) \/ PassGate(w) \/ QuitQueue(w) \/ TakeSlot(w) \/ WaitForSlot(w)
  \/ BeginUpload(w) \/ BeginDownload(w) \/ UploadProgress(w) \/ DownloadProgress(w)
  \/ UploadEnds(w) \/ DownloadEnds(w) \/ FailUpload(w) \/ FailDownload(w)
  \/ FinishUpload(w) \/ FinishDownload(w) \/ ReleaseSlot(w) \/ Exit(w)

CallStep(c) ==
  \/ CreateCommit(c) \/ CreateRollback(c) \/ PauseCancel(c)
  \/ ResumeRun(c) \/ ResumeFileMissing(c) \/ ResumeRefused(c) \/ ResumeGiveUp(c)
  \/ DeleteCancel(c) \/ DeletePop(c) \/ DeleteTimeout(c)
  \/ Stop(c) \/ StopReturns(c) \/ StopTimeout(c)
  \/ \E t \in Task : Create(c, t) \/ Pause(c, t) \/ Resume(c, t) \/ Delete(c, t)

Next ==
  \/ SetLimit
  \/ OpenGate
  \/ \E w \in Worker : WorkerStep(w)
  \/ \E c \in Caller : CallStep(c)

Spec == Init /\ [][Next]_vars

\* What a worker must go on to do: a goroutine runs when it can, and the driver
\* returns once it has finished or seen its context end.
WorkerGoesOn(w) ==
  \/ Start(w) \/ PassGate(w) \/ QuitQueue(w) \/ TakeSlot(w) \/ WaitForSlot(w)
  \/ BeginUpload(w) \/ BeginDownload(w) \/ UploadEnds(w) \/ DownloadEnds(w)
  \/ FailUpload(w) \/ FailDownload(w) \/ FinishUpload(w) \/ FinishDownload(w)
  \/ ReleaseSlot(w) \/ Exit(w)

\* A call goes on that need not wait for anybody: not by giving up.
CallGoesOn(c) ==
  \/ CreateCommit(c) \/ CreateRollback(c) \/ PauseCancel(c)
  \/ ResumeRun(c) \/ ResumeFileMissing(c) \/ ResumeRefused(c)
  \/ DeleteCancel(c) \/ DeletePop(c) \/ StopReturns(c)

\* The application opens its gate; nobody is obliged to make a call.
Fairness ==
  /\ WF_vars(OpenGate)
  /\ \A w \in Worker : WF_vars(WorkerGoesOn(w))
  /\ \A c \in Caller : WF_vars(CallGoesOn(c))

FairSpec == Spec /\ Fairness

-----------------------------------------------------------------------------
(* Properties.                                                                *)

Holders(k) == {w \in Worker : slot[w] = k}

Alive(w) == pc[w] \notin {"none", "ended"}

\* The program points of runTask between acquireRunSlot and the end of releaseSlot.
Holding == {"got", "transfer", "done", "fail", "failPaused", "release", "requeue"}

AtWork(k) == {w \in Worker : pc[w] \in Holding /\ slot[w] = k}

\* Each counter of the manager is the number of runs that stand, in their code, between
\* the acquire and the release of a slot of its kind.  Whichever way a run declines,
\* fails, is paused or finishes, it has given its slot back by the time it queues again
\* or is over, once, and to the queue it took it from; what a forgotten release
\* takes from the limit would be lost until the process restarts, and releaseSlot's
\* `> 0' tests would hide one too many.
SlotsReturned ==
  /\ uploads = Cardinality(AtWork("upload"))
  /\ downloads = Cardinality(AtWork("download"))

UploadPool == INSTANCE SlotPool WITH Run <- Worker, holding <- Holders("upload")
DownloadPool == INSTANCE SlotPool WITH Run <- Worker, holding <- Holders("download")

\* acquireSlotLocked and releaseSlot hand out the slots of each of the two queues
\* as SlotPool says: never a slot beyond the limit of the moment, whatever the
\* other queue holds.
SlotsPooled == UploadPool!Spec /\ DownloadPool!Spec

\* A task is worked on by one run at a time: Resume waits for the previous run
\* before it starts another, so two never read one source or write one temp file,
\* and no run closes the channel of another.
OneRunPerTask ==
  /\ \A v, w \in Worker :
       slot[v] # "none" /\ slot[w] # "none" /\ wtask[v] = wtask[w] => v = w
  /\ ~panicked

\* A worker is still transferring only for a task that is in the map: "wait for the
\* task to exit before deleting, so that nothing is still transferring in the
\* background" (state.go:53).  No run checks it: the code breaks it with two callers,
\* when one resumes the task between the other's stopTaskForDelete and its popTask
\* (delete.go:26-29).
DeletedIsIdle == \A w \in Worker : pc[w] = "transfer" => InMap(wtask[w])

\* A task shown as pending or running has a goroutine that will look at it, or a
\* createBatch that is about to start one; a pending task nobody serves would
\* also hold up every task behind it in the queue.
ActiveIsServed ==
  \A t \in Task :
    status[t] \in Active /\ ~stopping =>
      \/ \E w \in Worker :
           wtask[w] = t /\ (pc[w] = "start" \/ (Alive(w) /\ wrun[w] = run[t]))
      \/ \E c \in Caller : call[c].op = "create" /\ call[c].task = t

\* Once Pause has returned and the run is over, the task is not back in the queue
\* and not shown as running, until somebody resumes it.
PauseHolds ==
  \A t \in held :
    status[t] \in Active => \E w \in Worker : Alive(w) /\ wtask[w] = t

\* When Stop returns before its deadline no worker transfers any more.
StopDrains ==
  [][\A c \in Caller : StopReturns(c) => \A w \in Worker : pc[w] # "transfer"]_vars

\* A cross-drive task that has begun to upload never downloads its source again.
DownloadOnce ==
  [][\A t \in Task : InMap(t) /\ phase[t] = "uploading" => phase'[t] = "uploading"]_vars

\* A worker that may have a slot, because one is free and its task is the head of
\* its queue, is not asleep, unless a broadcast is still to come.
QueueHeadAwake ==
  (\A c \in Caller : call[c].op \notin {"pause", "delete"}) =>
    \A w \in Worker : pc[w] = "wait" /\ StillQueued(w) => ~SlotIsMine(w)

\* A broadcast is to come: from whoever holds a slot, or from a call that has
\* changed a task and will cancel its run.
BroadcastDue ==
  \/ \E v \in Worker : slot[v] # "none"
  \/ \E c \in Caller : call[c].op \in {"pause", "delete"}

\* On its way to look at its place in the queue, for a task that still waits there.
Awake(v) == pc[v] \in {"start", "gate", "acquire"} /\ status[wtask[v]] = "pending"

\* No wake-up is lost: a worker asleep in the queue will be woken by a broadcast, or
\* somebody before it is awake, who takes the slot and broadcasts on giving it back.
SleeperServed ==
  \A w \in Worker : pc[w] = "wait" /\ StillQueued(w) =>
    BroadcastDue \/ \E v \in Worker : Awake(v) /\ Precedes(wtask[v], wtask[w])

\* The channel n is closed, or the goroutine that will close it is at work.
Closes(n) == n \in closed \/ (n \in Worker /\ Alive(n))

\* Nobody waits for a channel that nobody will close.
WaitServed ==
  \A c \in Caller : call[c].op \in {"resume", "delete", "await", "stop"} =>
    \A n \in call[c].runs : Closes(n)

\* An upload that has succeeded stays so until it is deleted: no late report of the
\* driver, no pause and no failure of a run, this one or one before it, puts the task
\* back, where a Resume would upload it again.
SuccessStays ==
  [][\A t \in Task : status[t] = "success" => status'[t] \in {"success", "gone"}]_vars

\* A pending task is eventually given a slot and begins, or is taken out of the
\* queue by a call, as long as the manager is not being stopped.
PendingLeavesQueue ==
  \A t \in Task : status[t] = "pending" ~> status[t] # "pending" \/ stopping

\* Neither does Resume need its request's context to end, nor Stop the shutdown
\* deadline: the runs they wait for close their channels.
WaitsEnd ==
  \A c \in Caller : call[c].op \in {"resume", "stop"} ~> call[c].op \notin {"resume", "stop"}

=============================================================================
