------------------------- MODULE UploadQueue_proofs -------------------------
(* Proofs about UploadQueue for every set of tasks, callers and limits.       *)
EXTENDS UploadQueue, FiniteSetTheorems, TLAPS

-----------------------------------------------------------------------------
(* The inductive invariant.  The counters agree with the slots because a      *)
(* worker takes a slot where it has none and gives it back where it has one;  *)
(* that needs a goroutine to be started for a number nobody uses yet.         *)

SlotDiscipline == \A w \in Worker : slot[w] # "none" <=> pc[w] \in Holding

Creates(c) == call[c].op = "create"

SpawnFresh ==
  /\ \A w \in Worker : w > queueOrder => pc[w] = "none"
  /\ \A c \in Caller : Creates(c) =>
       \E n \in Worker : n <= queueOrder /\ call[c].runs = {n} /\ pc[n] = "none"
  /\ \A c, d \in Caller : Creates(c) /\ Creates(d) /\ call[c].runs = call[d].runs => c = d

SlotAccounting ==
  /\ uploads = Cardinality(Holders("upload"))
  /\ downloads = Cardinality(Holders("download"))

IInv == TypeOK /\ SlotDiscipline /\ SpawnFresh /\ SlotAccounting

-----------------------------------------------------------------------------
LEMMA IdleIsCall == Idle \in Call
<1>1. Idle.task \in Task
  BY ConstantsAssumption DEF Idle
<1>2. 0 \in RunNo
  BY ConstantsAssumption DEF RunNo
<1> QED BY <1>1, <1>2 DEF Idle, Op, Call

LEMMA RunNumbers ==
  /\ 0 \in RunNo
  /\ \A w \in Worker : w \in RunNo
  /\ queueOrder \in RunNo /\ queueOrder < MaxRuns => queueOrder + 1 \in RunNo
BY ConstantsAssumption DEF RunNo, Worker

LEMMA EnterType ==
  ASSUME NEW c \in Caller, NEW o \in Op, NEW t \in Task, NEW runs \in SUBSET RunNo,
         NEW w \in RunNo, call \in [Caller -> Call], Enter(c, o, t, runs, w)
  PROVE  call' \in [Caller -> Call]
BY DEF Enter, Call

LEMMA PatchType ==
  ASSUME TaskType, NEW t \in Task, NEW s \in Status, Patch(t, s)
  PROVE  status' \in [Task -> Status \cup {"unborn", "gone"}]
BY DEF Patch, TaskType

LEMMA RemoveType == ASSUME TaskType, NEW t \in Task, Remove(t) PROVE TaskType'
BY RunNumbers DEF Remove, TaskType

LEMMA TypeStep == TypeOK /\ [Next]_vars => TypeOK'
<1> SUFFICES ASSUME TypeOK, [Next]_vars PROVE TypeOK'
  OBVIOUS
<1> USE ConstantsAssumption, IdleIsCall, RunNumbers
<1>1. CASE SetLimit
  BY <1>1 DEF SetLimit, Wake, TypeOK, TaskType, SlotType, GoType, ChanType, MgrType, CallType,
     PcSet, taskVars, chanVars, mgrVars
<1>2. CASE OpenGate
  BY <1>2 DEF OpenGate, TypeOK, TaskType, SlotType, GoType, ChanType, MgrType, CallType,
     taskVars, slotVars, goVars, chanVars
<1>3. ASSUME NEW w \in Worker, Start(w) PROVE TypeOK'
  <2>1. TaskType'
    BY <1>3 DEF Start, InMap, TypeOK, TaskType, taskVars
  <2>2. SlotType'
    BY <1>3 DEF Start, TypeOK, SlotType, slotVars
  <2>3. GoType'
    <3>1. run[wtask[w]] \in RunNo
      BY DEF TypeOK, TaskType, GoType
    <3>2. wrun' \in [Worker -> RunNo]
      BY <1>3, <3>1 DEF Start, TypeOK, GoType
    <3>3. pc' \in [Worker -> PcSet]
      BY <1>3 DEF Start, Goto, TypeOK, GoType, PcSet
    <3>4. wtask' = wtask
      BY <1>3 DEF Start
    <3> QED BY <3>2, <3>3, <3>4 DEF TypeOK, GoType
  <2>4. ChanType'
    BY <1>3 DEF Start, TypeOK, ChanType, chanVars
  <2>5. MgrType'
    BY <1>3 DEF Start, TypeOK, MgrType, mgrVars
  <2>6. CallType'
    BY <1>3 DEF Start, TypeOK, CallType
  <2> QED BY <2>1, <2>2, <2>3, <2>4, <2>5, <2>6 DEF TypeOK
<1>4. ASSUME NEW w \in Worker, PassGate(w) PROVE TypeOK'
  BY <1>4 DEF PassGate, Goto, TypeOK, TaskType, SlotType, GoType, ChanType, MgrType, CallType,
     PcSet, taskVars, slotVars, chanVars, mgrVars
<1>5. ASSUME NEW w \in Worker, QuitQueue(w) PROVE TypeOK'
  BY <1>5 DEF QuitQueue, StillQueued, Goto, TypeOK, TaskType, SlotType, GoType, ChanType,
     MgrType, CallType, PcSet, taskVars, slotVars, chanVars, mgrVars
<1>6. ASSUME NEW w \in Worker, TakeSlot(w) PROVE TypeOK'
  <2>1. TaskType'
    BY <1>6 DEF TakeSlot, StillQueued, SlotIsMine, CanAcquireSlot, SlotKind, TypeOK, TaskType
  <2>2. SlotType'
    <3>1. SlotKind(wtask[w]) \in Kind
      BY DEF SlotKind, Kind
    <3>2. slot' \in [Worker -> Kind \cup {"none"}]
      BY <1>6, <3>1 DEF TakeSlot, TypeOK, SlotType
    <3>3. uploads' \in Nat /\ downloads' \in Nat /\ limit' \in Limits
      BY <1>6 DEF TakeSlot, TypeOK, SlotType
    <3> QED BY <3>2, <3>3 DEF SlotType
  <2>3. GoType'
    BY <1>6 DEF TakeSlot, StillQueued, SlotIsMine, CanAcquireSlot, SlotKind, Goto, TypeOK,
       GoType, PcSet
  <2>4. ChanType'
    BY <1>6 DEF TakeSlot, StillQueued, SlotIsMine, CanAcquireSlot, SlotKind, TypeOK, ChanType,
       Kind, chanVars
  <2>5. MgrType'
    BY <1>6 DEF TakeSlot, StillQueued, SlotIsMine, CanAcquireSlot, SlotKind, TypeOK, MgrType,
       Kind, mgrVars
  <2>6. CallType'
    BY <1>6 DEF TakeSlot, StillQueued, SlotIsMine, CanAcquireSlot, SlotKind, TypeOK, CallType,
       Kind
  <2> QED BY <2>1, <2>2, <2>3, <2>4, <2>5, <2>6 DEF TypeOK
<1>7. ASSUME NEW w \in Worker, WaitForSlot(w) PROVE TypeOK'
  BY <1>7 DEF WaitForSlot, Goto, TypeOK, TaskType, SlotType, GoType, ChanType, MgrType,
     CallType, PcSet, taskVars, slotVars, chanVars, mgrVars
<1>8. ASSUME NEW w \in Worker, BeginUpload(w) PROVE TypeOK'
  <2>1. TaskType'
    <3>1. wtask[w] \in Task
      BY DEF TypeOK, GoType
    <3>2. status' \in [Task -> Status \cup {"unborn", "gone"}]
      BY <1>8, <3>1, PatchType DEF BeginUpload, Begins, Declines, TypeOK, TaskType, Status
    <3>3. phase' \in [Task -> {"downloading", "uploading"}]
      BY <1>8, <3>1 DEF BeginUpload, Begins, Declines, PhaseOf, TypeOK, TaskType
    <3> QED BY <1>8, <3>2, <3>3 DEF BeginUpload, Begins, Declines, TypeOK, TaskType
  <2>2. SlotType'
    BY <1>8 DEF BeginUpload, Begins, Declines, TypeOK, SlotType, slotVars
  <2>3. GoType'
    BY <1>8 DEF BeginUpload, Begins, Declines, InMap, CtxErr, Goto, TypeOK, GoType, PcSet
  <2>4. ChanType'
    BY <1>8 DEF BeginUpload, Begins, Declines, TypeOK, ChanType, chanVars
  <2>5. MgrType'
    BY <1>8 DEF BeginUpload, Begins, Declines, TypeOK, MgrType, mgrVars
  <2>6. CallType'
    BY <1>8 DEF BeginUpload, Begins, Declines, TypeOK, CallType
  <2> QED BY <2>1, <2>2, <2>3, <2>4, <2>5, <2>6 DEF TypeOK
<1>8d. ASSUME NEW w \in Worker, BeginDownload(w) PROVE TypeOK'
  <2>1. TaskType'
    <3>1. wtask[w] \in Task
      BY DEF TypeOK, GoType
    <3>2. status' \in [Task -> Status \cup {"unborn", "gone"}]
      BY <1>8d, <3>1, PatchType DEF BeginDownload, Begins, Declines, TypeOK, TaskType, Status
    <3>3. phase' \in [Task -> {"downloading", "uploading"}]
      BY <1>8d, <3>1 DEF BeginDownload, Begins, Declines, PhaseOf, TypeOK, TaskType
    <3> QED BY <1>8d, <3>2, <3>3 DEF BeginDownload, Begins, Declines, TypeOK, TaskType
  <2>2. SlotType'
    BY <1>8d DEF BeginDownload, Begins, Declines, TypeOK, SlotType, slotVars
  <2>3. GoType'
    BY <1>8d DEF BeginDownload, Begins, Declines, InMap, CtxErr, Goto, TypeOK, GoType, PcSet
  <2>4. ChanType'
    BY <1>8d DEF BeginDownload, Begins, Declines, TypeOK, ChanType, chanVars
  <2>5. MgrType'
    BY <1>8d DEF BeginDownload, Begins, Declines, TypeOK, MgrType, mgrVars
  <2>6. CallType'
    BY <1>8d DEF BeginDownload, Begins, Declines, TypeOK, CallType
  <2> QED BY <2>1, <2>2, <2>3, <2>4, <2>5, <2>6 DEF TypeOK
<1>9. ASSUME NEW w \in Worker, UploadProgress(w) PROVE TypeOK'
  <2>1. TaskType' BY <1>9 DEF UploadProgress, InMap, PhaseOf, TypeOK, TaskType, Status
  <2>2. SlotType' BY <1>9 DEF UploadProgress, TypeOK, SlotType, slotVars
  <2>3. GoType' BY <1>9 DEF UploadProgress, TypeOK, GoType, goVars
  <2>4. ChanType' BY <1>9 DEF UploadProgress, TypeOK, ChanType, chanVars
  <2>5. MgrType' BY <1>9 DEF UploadProgress, TypeOK, MgrType, mgrVars
  <2>6. CallType' BY <1>9 DEF UploadProgress, TypeOK, CallType
  <2> QED BY <2>1, <2>2, <2>3, <2>4, <2>5, <2>6 DEF TypeOK
<1>9d. ASSUME NEW w \in Worker, DownloadProgress(w) PROVE TypeOK'
  <2>1. TaskType' BY <1>9d DEF DownloadProgress, InMap, PhaseOf, TypeOK, TaskType, Status
  <2>2. SlotType' BY <1>9d DEF DownloadProgress, TypeOK, SlotType, slotVars
  <2>3. GoType' BY <1>9d DEF DownloadProgress, TypeOK, GoType, goVars
  <2>4. ChanType' BY <1>9d DEF DownloadProgress, TypeOK, ChanType, chanVars
  <2>5. MgrType' BY <1>9d DEF DownloadProgress, TypeOK, MgrType, mgrVars
  <2>6. CallType' BY <1>9d DEF DownloadProgress, TypeOK, CallType
  <2> QED BY <2>1, <2>2, <2>3, <2>4, <2>5, <2>6 DEF TypeOK
<1>10. ASSUME NEW w \in Worker, UploadEnds(w) PROVE TypeOK'
  <2>1. TaskType' BY <1>10 DEF UploadEnds, TypeOK, TaskType, taskVars
  <2>2. SlotType' BY <1>10 DEF UploadEnds, TypeOK, SlotType, slotVars
  <2>3. GoType' BY <1>10 DEF UploadEnds, Fails, InMap, Goto, TypeOK, GoType, PcSet
  <2>4. ChanType' BY <1>10 DEF UploadEnds, TypeOK, ChanType, chanVars
  <2>5. MgrType' BY <1>10 DEF UploadEnds, TypeOK, MgrType, mgrVars
  <2>6. CallType' BY <1>10 DEF UploadEnds, TypeOK, CallType
  <2> QED BY <2>1, <2>2, <2>3, <2>4, <2>5, <2>6 DEF TypeOK
<1>10d. ASSUME NEW w \in Worker, DownloadEnds(w) PROVE TypeOK'
  <2>1. TaskType' BY <1>10d DEF DownloadEnds, TypeOK, TaskType, taskVars
  <2>2. SlotType' BY <1>10d DEF DownloadEnds, TypeOK, SlotType, slotVars
  <2>3. GoType' BY <1>10d DEF DownloadEnds, Fails, InMap, Goto, TypeOK, GoType, PcSet
  <2>4. ChanType' BY <1>10d DEF DownloadEnds, TypeOK, ChanType, chanVars
  <2>5. MgrType' BY <1>10d DEF DownloadEnds, TypeOK, MgrType, mgrVars
  <2>6. CallType' BY <1>10d DEF DownloadEnds, TypeOK, CallType
  <2> QED BY <2>1, <2>2, <2>3, <2>4, <2>5, <2>6 DEF TypeOK
<1>11. ASSUME NEW w \in Worker, FailUpload(w) PROVE TypeOK'
  BY <1>11 DEF FailUpload, FailedStatus, InMap, Patch, CtxErr, Goto, TypeOK, TaskType, SlotType, GoType,
     ChanType, MgrType, CallType, PcSet, Status, slotVars, chanVars, mgrVars
<1>11d. ASSUME NEW w \in Worker, FailDownload(w) PROVE TypeOK'
  BY <1>11d DEF FailDownload, FailedStatus, InMap, Patch, CtxErr, Goto, TypeOK, TaskType, SlotType, GoType,
     ChanType, MgrType, CallType, PcSet, Status, slotVars, chanVars, mgrVars
<1>12. ASSUME NEW w \in Worker, FinishUpload(w) PROVE TypeOK'
  BY <1>12 DEF FinishUpload, InMap, Patch, Goto, TypeOK, TaskType, SlotType, GoType, ChanType,
     MgrType, CallType, PcSet, Status, slotVars, chanVars, mgrVars
<1>13. ASSUME NEW w \in Worker, FinishDownload(w) PROVE TypeOK'
  <2>1. TaskType'
    BY <1>13 DEF FinishDownload, TypeOK, TaskType, InMap, Patch, Status
  <2>2. SlotType'
    BY <1>13 DEF FinishDownload, TypeOK, SlotType, slotVars
  <2>3. GoType'
    BY <1>13 DEF FinishDownload, TypeOK, GoType, Goto, PcSet
  <2>4. ChanType'
    BY <1>13 DEF FinishDownload, TypeOK, ChanType, chanVars
  <2>5. MgrType'
    BY <1>13 DEF FinishDownload, TypeOK, MgrType, mgrVars
  <2>6. CallType'
    BY <1>13 DEF FinishDownload, TypeOK, CallType
  <2> QED BY <2>1, <2>2, <2>3, <2>4, <2>5, <2>6 DEF TypeOK
<1>14. ASSUME NEW w \in Worker, ReleaseSlot(w) PROVE TypeOK'
  <2>1. TaskType'
    BY <1>14 DEF ReleaseSlot, Wake, TypeOK, TaskType, taskVars
  <2>2. SlotType'
    <3>1. slot' \in [Worker -> Kind \cup {"none"}]
      BY <1>14 DEF ReleaseSlot, TypeOK, SlotType
    <3>2. uploads' \in Nat /\ downloads' \in Nat
      BY <1>14 DEF ReleaseSlot, TypeOK, SlotType
    <3> QED BY <1>14, <3>1, <3>2 DEF ReleaseSlot, TypeOK, SlotType
  <2>3. GoType'
    BY <1>14 DEF ReleaseSlot, Wake, TypeOK, GoType, PcSet
  <2>4. ChanType'
    BY <1>14 DEF ReleaseSlot, TypeOK, ChanType, Kind, chanVars
  <2>5. MgrType'
    BY <1>14 DEF ReleaseSlot, TypeOK, MgrType, Kind, mgrVars
  <2>6. CallType'
    BY <1>14 DEF ReleaseSlot, TypeOK, CallType, Kind
  <2> QED BY <2>1, <2>2, <2>3, <2>4, <2>5, <2>6 DEF TypeOK
<1>15. ASSUME NEW w \in Worker, Exit(w) PROVE TypeOK'
  <2>1. TaskType'
    BY <1>15 DEF Exit, InMap, TypeOK, TaskType
  <2>2. SlotType'
    BY <1>15 DEF Exit, TypeOK, SlotType, slotVars
  <2>3. GoType'
    BY <1>15 DEF Exit, InMap, Goto, TypeOK, GoType, PcSet
  <2>4. ChanType'
    <3>1. wrun[w] \in RunNo
      BY DEF TypeOK, GoType
    <3>2. closed' \subseteq RunNo
      BY <1>15, <3>1 DEF Exit, TypeOK, ChanType
    <3>3. canceled' \subseteq Worker
      BY <1>15 DEF Exit, TypeOK, ChanType
    <3>4. panicked' \in BOOLEAN
      BY <1>15, Zenon DEF Exit
    <3> QED BY <3>2, <3>3, <3>4 DEF ChanType
  <2>5. MgrType'
    BY <1>15 DEF Exit, TypeOK, MgrType, mgrVars
  <2>6. CallType'
    BY <1>15 DEF Exit, TypeOK, CallType
  <2> QED BY <2>1, <2>2, <2>3, <2>4, <2>5, <2>6 DEF TypeOK
<1>16. ASSUME NEW c \in Caller, CreateCommit(c) PROVE TypeOK'
  BY <1>16 DEF CreateCommit, Spawn, Return, TypeOK, TaskType, SlotType, GoType, ChanType,
     MgrType, CallType, Call, Op, PcSet, taskVars, slotVars, chanVars, mgrVars
<1>17. ASSUME NEW c \in Caller, CreateRollback(c) PROVE TypeOK'
  <2>1. TaskType'
    <3>1. call[c].task \in Task
      BY DEF TypeOK, CallType, Call
    <3>2. CASE InMap(call[c].task)
      BY <1>17, <3>1, <3>2, RemoveType DEF CreateRollback, TypeOK
    <3>3. CASE ~InMap(call[c].task)
      BY <1>17, <3>3 DEF CreateRollback, taskVars, TypeOK, TaskType
    <3> QED BY <3>2, <3>3
  <2>2. SlotType'
    BY <1>17 DEF CreateRollback, Remove, TypeOK, SlotType, slotVars
  <2>3. GoType'
    BY <1>17 DEF CreateRollback, InMap, Remove, Return, TypeOK, GoType, goVars
  <2>4. ChanType'
    BY <1>17 DEF CreateRollback, Remove, TypeOK, ChanType, chanVars
  <2>5. MgrType'
    BY <1>17 DEF CreateRollback, Remove, TypeOK, MgrType, mgrVars
  <2>6. CallType'
    BY <1>17 DEF CreateRollback, Remove, Return, TypeOK, CallType, Op
  <2> QED BY <2>1, <2>2, <2>3, <2>4, <2>5, <2>6 DEF TypeOK
<1>18. ASSUME NEW c \in Caller, PauseCancel(c) PROVE TypeOK'
  <2>1. TaskType'
    BY <1>18 DEF PauseCancel, TypeOK, TaskType, taskVars
  <2>2. SlotType'
    BY <1>18 DEF PauseCancel, TypeOK, SlotType, slotVars
  <2>3. GoType'
    BY <1>18 DEF PauseCancel, TypeOK, GoType, Wake, PcSet
  <2>4. ChanType'
    BY <1>18 DEF PauseCancel, TypeOK, ChanType, CancelRun
  <2>5. MgrType'
    BY <1>18 DEF PauseCancel, TypeOK, MgrType, mgrVars
  <2>6. CallType'
    BY <1>18 DEF PauseCancel, TypeOK, CallType, Call, Return
  <2> QED BY <2>1, <2>2, <2>3, <2>4, <2>5, <2>6 DEF TypeOK
<1>19. ASSUME NEW c \in Caller, ResumeRun(c) PROVE TypeOK'
  <2>1. TaskType'
    <3>1. queueOrder + 1 \in RunNo
      BY <1>19 DEF ResumeRun, TypeOK, MgrType
    <3> QED BY <1>19, <3>1 DEF ResumeRun, TypeOK, TaskType, Status
  <2>2. SlotType'
    BY <1>19 DEF ResumeRun, CanResume, Spawn, TypeOK, SlotType, slotVars
  <2>3. GoType'
    <3>1. call[c].task \in Task
      BY DEF TypeOK, CallType, Call
    <3>2. pc' \in [Worker -> PcSet]
      BY <1>19 DEF ResumeRun, Spawn, TypeOK, GoType, PcSet
    <3>3. wtask' \in [Worker -> Task]
      BY <1>19, <3>1 DEF ResumeRun, Spawn, TypeOK, GoType
    <3> QED BY <1>19, <3>2, <3>3 DEF ResumeRun, TypeOK, GoType
  <2>4. ChanType'
    BY <1>19 DEF ResumeRun, CanResume, Spawn, TypeOK, ChanType, chanVars
  <2>5. MgrType'
    BY <1>19 DEF ResumeRun, CanResume, Spawn, TypeOK, MgrType, Op
  <2>6. CallType'
    BY <1>19 DEF ResumeRun, CanResume, Spawn, Return, TypeOK, CallType, Op
  <2> QED BY <2>1, <2>2, <2>3, <2>4, <2>5, <2>6 DEF TypeOK
<1>20. ASSUME NEW c \in Caller, ResumeFileMissing(c) PROVE TypeOK'
  BY <1>20 DEF ResumeFileMissing, CanResume, InMap, Patch, Return, TypeOK, TaskType, SlotType,
     GoType, ChanType, MgrType, CallType, Call, Op, Status, slotVars, goVars, chanVars, mgrVars
<1>21. ASSUME NEW c \in Caller, ResumeRefused(c) PROVE TypeOK'
  BY <1>21 DEF ResumeRefused, Return, TypeOK, TaskType, SlotType, GoType, ChanType, MgrType,
     CallType, Call, Op, taskVars, slotVars, goVars, chanVars, mgrVars
<1>22. ASSUME NEW c \in Caller, ResumeGiveUp(c) PROVE TypeOK'
  BY <1>22 DEF ResumeGiveUp, Return, TypeOK, TaskType, SlotType, GoType, ChanType, MgrType,
     CallType, Call, Op, taskVars, slotVars, goVars, chanVars, mgrVars
<1>23. ASSUME NEW c \in Caller, DeleteCancel(c) PROVE TypeOK'
  <2>1. TaskType'
    BY <1>23 DEF DeleteCancel, TypeOK, TaskType, taskVars
  <2>2. SlotType'
    BY <1>23 DEF DeleteCancel, TypeOK, SlotType, slotVars
  <2>3. GoType'
    BY <1>23 DEF DeleteCancel, TypeOK, GoType, Wake, PcSet
  <2>4. ChanType'
    BY <1>23 DEF DeleteCancel, TypeOK, ChanType, CancelRun
  <2>5. MgrType'
    BY <1>23 DEF DeleteCancel, TypeOK, MgrType, mgrVars
  <2>6. CallType'
    BY <1>23 DEF DeleteCancel, TypeOK, CallType, Call, Op
  <2> QED BY <2>1, <2>2, <2>3, <2>4, <2>5, <2>6 DEF TypeOK
<1>24. ASSUME NEW c \in Caller, DeletePop(c) PROVE TypeOK'
  <2>1. TaskType'
    <3>1. call[c].task \in Task
      BY DEF TypeOK, CallType, Call
    <3>2. CASE InMap(call[c].task)
      BY <1>24, <3>1, <3>2, RemoveType DEF DeletePop, TypeOK
    <3>3. CASE ~InMap(call[c].task)
      BY <1>24, <3>3 DEF DeletePop, taskVars, TypeOK, TaskType
    <3> QED BY <3>2, <3>3
  <2>2. SlotType'
    BY <1>24 DEF DeletePop, Remove, TypeOK, SlotType, slotVars
  <2>3. GoType'
    BY <1>24 DEF DeletePop, InMap, Remove, Return, TypeOK, GoType, goVars
  <2>4. ChanType'
    BY <1>24 DEF DeletePop, Remove, TypeOK, ChanType, chanVars
  <2>5. MgrType'
    BY <1>24 DEF DeletePop, Remove, TypeOK, MgrType, mgrVars
  <2>6. CallType'
    BY <1>24 DEF DeletePop, Remove, Return, TypeOK, CallType, Op
  <2> QED BY <2>1, <2>2, <2>3, <2>4, <2>5, <2>6 DEF TypeOK
<1>25. ASSUME NEW c \in Caller, DeleteTimeout(c) PROVE TypeOK'
  BY <1>25 DEF DeleteTimeout, Return, TypeOK, TaskType, SlotType, GoType, ChanType, MgrType,
     CallType, Call, Op, taskVars, slotVars, goVars, chanVars, mgrVars
<1>26. ASSUME NEW c \in Caller, Stop(c) PROVE TypeOK'
  <2>1. TaskType'
    BY <1>26 DEF Stop, InMap, Wake, TypeOK, TaskType, Op
  <2>2. SlotType'
    BY <1>26 DEF Stop, TypeOK, SlotType, slotVars
  <2>3. GoType'
    BY <1>26 DEF Stop, InMap, Wake, TypeOK, GoType, PcSet
  <2>4. ChanType'
    BY <1>26 DEF Stop, TypeOK, ChanType, chanVars
  <2>5. MgrType'
    BY <1>26 DEF Stop, TypeOK, MgrType, Op
  <2>6. CallType'
    <3> DEFINE runs == {run[t] : t \in {u \in Task : InMap(u)}}
    <3>0. \A u \in Task : run[u] \in RunNo
      BY DEF TypeOK, TaskType
    <3>1. runs \in SUBSET RunNo
      BY <3>0
    <3>2. Idle.task \in Task
      BY DEF Call
    <3>3. call' \in [Caller -> Call]
      <4> HIDE DEF runs
      <4>1. Enter(c, "stop", Idle.task, runs, 0)
        BY <1>26 DEF Stop, runs
      <4> QED BY <3>1, <3>2, <4>1, EnterType DEF TypeOK, CallType, Op
    <3> QED BY <1>26, <3>3 DEF Stop, TypeOK, CallType
  <2> QED BY <2>1, <2>2, <2>3, <2>4, <2>5, <2>6 DEF TypeOK
<1>27. ASSUME NEW c \in Caller, StopReturns(c) PROVE TypeOK'
  BY <1>27 DEF StopReturns, Return, TypeOK, TaskType, SlotType, GoType, ChanType, MgrType,
     CallType, Call, Op, taskVars, slotVars, goVars, chanVars, mgrVars
<1>28. ASSUME NEW c \in Caller, StopTimeout(c) PROVE TypeOK'
  BY <1>28 DEF StopTimeout, Return, TypeOK, TaskType, SlotType, GoType, ChanType, MgrType,
     CallType, Call, Op, taskVars, slotVars, goVars, chanVars, mgrVars
<1>29. ASSUME NEW c \in Caller, NEW t \in Task, Create(c, t) PROVE TypeOK'
  <2>0. queueOrder + 1 \in RunNo
    BY <1>29 DEF Create, TypeOK, MgrType
  <2>1. TaskType'
    BY <1>29, <2>0 DEF Create, TypeOK, TaskType, MgrType, Status
  <2>2. SlotType'
    BY <1>29 DEF Create, TypeOK, SlotType, slotVars
  <2>3. GoType'
    BY <1>29 DEF Create, TypeOK, GoType, goVars
  <2>4. ChanType'
    BY <1>29 DEF Create, TypeOK, ChanType, chanVars
  <2>5. MgrType'
    BY <1>29 DEF Create, TypeOK, MgrType, Op
  <2>6. CallType'
    <3>1. run[t] \in RunNo /\ cancel[t] \in RunNo /\ queueOrder' \in RunNo
      BY <1>29, <2>5 DEF TypeOK, TaskType, MgrType
    <3>2. call' \in [Caller -> Call]
      BY <1>29, <3>1, EnterType DEF Create, TypeOK, CallType, Op
    <3>3. held' \subseteq Task
      BY <1>29 DEF Create, TypeOK, CallType
    <3> QED BY <3>2, <3>3 DEF CallType
  <2> QED BY <2>1, <2>2, <2>3, <2>4, <2>5, <2>6 DEF TypeOK
<1>30. ASSUME NEW c \in Caller, NEW t \in Task, Pause(c, t) PROVE TypeOK'
  <2>1. TaskType'
    BY <1>30 DEF Pause, InMap, TypeOK, TaskType, Status
  <2>2. SlotType'
    BY <1>30 DEF Pause, TypeOK, SlotType, slotVars
  <2>3. GoType'
    BY <1>30 DEF Pause, InMap, TypeOK, GoType, goVars
  <2>4. ChanType'
    BY <1>30 DEF Pause, TypeOK, ChanType, chanVars
  <2>5. MgrType'
    BY <1>30 DEF Pause, TypeOK, MgrType, mgrVars
  <2>6. CallType'
    <3>1. run[t] \in RunNo /\ cancel[t] \in RunNo /\ queueOrder' \in RunNo
      BY <1>30, <2>5 DEF TypeOK, TaskType, MgrType
    <3>2. call' \in [Caller -> Call]
      BY <1>30, <3>1, EnterType DEF Pause, TypeOK, CallType, Op
    <3>3. held' \subseteq Task
      BY <1>30 DEF Pause, TypeOK, CallType
    <3> QED BY <3>2, <3>3 DEF CallType
  <2> QED BY <2>1, <2>2, <2>3, <2>4, <2>5, <2>6 DEF TypeOK
<1>31. ASSUME NEW c \in Caller, NEW t \in Task, Resume(c, t) PROVE TypeOK'
  <2>1. TaskType'
    BY <1>31 DEF Resume, InMap, TypeOK, TaskType, taskVars
  <2>2. SlotType'
    BY <1>31 DEF Resume, TypeOK, SlotType, slotVars
  <2>3. GoType'
    BY <1>31 DEF Resume, InMap, TypeOK, GoType, goVars
  <2>4. ChanType'
    BY <1>31 DEF Resume, TypeOK, ChanType, chanVars
  <2>5. MgrType'
    BY <1>31 DEF Resume, TypeOK, MgrType, mgrVars
  <2>6. CallType'
    <3>1. run[t] \in RunNo /\ cancel[t] \in RunNo /\ queueOrder' \in RunNo
      BY <1>31, <2>5 DEF TypeOK, TaskType, MgrType
    <3>2. call' \in [Caller -> Call]
      BY <1>31, <3>1, EnterType DEF Resume, TypeOK, CallType, Op
    <3>3. held' \subseteq Task
      BY <1>31 DEF Resume, TypeOK, CallType
    <3> QED BY <3>2, <3>3 DEF CallType
  <2> QED BY <2>1, <2>2, <2>3, <2>4, <2>5, <2>6 DEF TypeOK
<1>32. ASSUME NEW c \in Caller, NEW t \in Task, Delete(c, t) PROVE TypeOK'
  <2>1. TaskType'
    BY <1>32 DEF Delete, InMap, TypeOK, TaskType, Status
  <2>2. SlotType'
    BY <1>32 DEF Delete, TypeOK, SlotType, slotVars
  <2>3. GoType'
    BY <1>32 DEF Delete, InMap, TypeOK, GoType, goVars
  <2>4. ChanType'
    BY <1>32 DEF Delete, TypeOK, ChanType, chanVars
  <2>5. MgrType'
    BY <1>32 DEF Delete, TypeOK, MgrType, mgrVars
  <2>6. CallType'
    <3>1. run[t] \in RunNo /\ cancel[t] \in RunNo
      BY DEF TypeOK, TaskType
    <3>2. CASE Enter(c, "pop", t, {}, 0)
      BY <1>32, <3>2, EnterType DEF Delete, TypeOK, CallType, Op
    <3>3. CASE Enter(c, "delete", t, {run[t]}, cancel[t])
      BY <1>32, <3>1, <3>3, EnterType DEF Delete, TypeOK, CallType, Op
    <3> QED BY <1>32, <3>2, <3>3 DEF Delete
  <2> QED BY <2>1, <2>2, <2>3, <2>4, <2>5, <2>6 DEF TypeOK
<1>33. CASE UNCHANGED vars
  BY <1>33 DEF vars, TypeOK, TaskType, SlotType, GoType, ChanType, MgrType, CallType, taskVars,
     slotVars, goVars, chanVars, mgrVars
<1> QED BY <1>1, <1>2, <1>3, <1>4, <1>5, <1>6, <1>7, <1>8, <1>9, <1>10, <1>11, <1>12, <1>13,
   <1>14, <1>15, <1>16, <1>17, <1>18, <1>19, <1>20, <1>21, <1>22, <1>23, <1>24, <1>25, <1>26,
   <1>27, <1>28, <1>29, <1>30, <1>31, <1>32, <1>33, <1>8d, <1>9d, <1>10d, <1>11d
   DEF Next, WorkerStep, CallStep

-----------------------------------------------------------------------------
LEMMA FreshKept ==
  ASSUME SpawnFresh, queueOrder' = queueOrder,
         \A w \in Worker : pc[w] = "none" => pc'[w] = "none",
         \A c \in Caller : Creates(c)' => Creates(c) /\ call'[c].runs = call[c].runs
  PROVE  SpawnFresh'
BY DEF SpawnFresh, Creates

LEMMA FreshStep == TypeOK /\ SpawnFresh /\ [Next]_vars => SpawnFresh'
<1> SUFFICES ASSUME TypeOK, SpawnFresh, [Next]_vars PROVE SpawnFresh'
  OBVIOUS
<1> USE ConstantsAssumption DEF TypeOK, GoType, CallType, Call, MgrType
<1>1. CASE SetLimit
  <2>1. \A v \in Worker : pc[v] = "none" => pc'[v] = "none"
    BY <1>1 DEF SetLimit, Wake, taskVars, chanVars, mgrVars
  <2>2. \A d \in Caller : Creates(d)' => Creates(d) /\ call'[d].runs = call[d].runs
    BY <1>1 DEF SetLimit, Creates
  <2>3. queueOrder' = queueOrder
    BY <1>1 DEF SetLimit, mgrVars
  <2> QED BY <2>1, <2>2, <2>3, FreshKept
<1>2. CASE OpenGate
  <2>1. \A v \in Worker : pc[v] = "none" => pc'[v] = "none"
    BY <1>2 DEF OpenGate, taskVars, slotVars, goVars, chanVars
  <2>2. \A d \in Caller : Creates(d)' => Creates(d) /\ call'[d].runs = call[d].runs
    BY <1>2 DEF OpenGate, Creates
  <2>3. queueOrder' = queueOrder
    BY <1>2 DEF OpenGate
  <2> QED BY <2>1, <2>2, <2>3, FreshKept
<1>3. ASSUME NEW w \in Worker, Start(w) PROVE SpawnFresh'
  <2>1. \A v \in Worker : pc[v] = "none" => pc'[v] = "none"
    BY <1>3 DEF Start, Goto, taskVars, slotVars, chanVars, mgrVars
  <2>2. \A d \in Caller : Creates(d)' => Creates(d) /\ call'[d].runs = call[d].runs
    BY <1>3 DEF Start, Creates
  <2>3. queueOrder' = queueOrder
    BY <1>3 DEF Start, mgrVars
  <2> QED BY <2>1, <2>2, <2>3, FreshKept
<1>4. ASSUME NEW w \in Worker, PassGate(w) PROVE SpawnFresh'
  <2>1. \A v \in Worker : pc[v] = "none" => pc'[v] = "none"
    BY <1>4 DEF PassGate, Goto, taskVars, slotVars, chanVars, mgrVars
  <2>2. \A d \in Caller : Creates(d)' => Creates(d) /\ call'[d].runs = call[d].runs
    BY <1>4 DEF PassGate, Creates
  <2>3. queueOrder' = queueOrder
    BY <1>4 DEF PassGate, mgrVars
  <2> QED BY <2>1, <2>2, <2>3, FreshKept
<1>5. ASSUME NEW w \in Worker, QuitQueue(w) PROVE SpawnFresh'
  <2>1. \A v \in Worker : pc[v] = "none" => pc'[v] = "none"
    BY <1>5 DEF QuitQueue, Goto, taskVars, slotVars, chanVars, mgrVars
  <2>2. \A d \in Caller : Creates(d)' => Creates(d) /\ call'[d].runs = call[d].runs
    BY <1>5 DEF QuitQueue, Creates
  <2>3. queueOrder' = queueOrder
    BY <1>5 DEF QuitQueue, mgrVars
  <2> QED BY <2>1, <2>2, <2>3, FreshKept
<1>6. ASSUME NEW w \in Worker, TakeSlot(w) PROVE SpawnFresh'
  <2>1. \A v \in Worker : pc[v] = "none" => pc'[v] = "none"
    BY <1>6 DEF TakeSlot, Goto, chanVars, mgrVars
  <2>2. \A d \in Caller : Creates(d)' => Creates(d) /\ call'[d].runs = call[d].runs
    BY <1>6 DEF TakeSlot, Creates
  <2>3. queueOrder' = queueOrder
    BY <1>6 DEF TakeSlot, mgrVars
  <2> QED BY <2>1, <2>2, <2>3, FreshKept
<1>7. ASSUME NEW w \in Worker, WaitForSlot(w) PROVE SpawnFresh'
  <2>1. \A v \in Worker : pc[v] = "none" => pc'[v] = "none"
    BY <1>7 DEF WaitForSlot, Goto, taskVars, slotVars, chanVars, mgrVars
  <2>2. \A d \in Caller : Creates(d)' => Creates(d) /\ call'[d].runs = call[d].runs
    BY <1>7 DEF WaitForSlot, Creates
  <2>3. queueOrder' = queueOrder
    BY <1>7 DEF WaitForSlot, mgrVars
  <2> QED BY <2>1, <2>2, <2>3, FreshKept
<1>8. ASSUME NEW w \in Worker, BeginUpload(w) PROVE SpawnFresh'
  <2>1. \A v \in Worker : pc[v] = "none" => pc'[v] = "none"
    BY <1>8 DEF BeginUpload, Begins, Declines, Goto, slotVars, chanVars, mgrVars
  <2>2. \A d \in Caller : Creates(d)' => Creates(d) /\ call'[d].runs = call[d].runs
    BY <1>8 DEF BeginUpload, Begins, Declines, Creates
  <2>3. queueOrder' = queueOrder
    BY <1>8 DEF BeginUpload, Begins, Declines, mgrVars
  <2> QED BY <2>1, <2>2, <2>3, FreshKept
<1>8d. ASSUME NEW w \in Worker, BeginDownload(w) PROVE SpawnFresh'
  <2>1. \A v \in Worker : pc[v] = "none" => pc'[v] = "none"
    BY <1>8d DEF BeginDownload, Begins, Declines, Goto, slotVars, chanVars, mgrVars
  <2>2. \A d \in Caller : Creates(d)' => Creates(d) /\ call'[d].runs = call[d].runs
    BY <1>8d DEF BeginDownload, Begins, Declines, Creates
  <2>3. queueOrder' = queueOrder
    BY <1>8d DEF BeginDownload, Begins, Declines, mgrVars
  <2> QED BY <2>1, <2>2, <2>3, FreshKept
<1>9. ASSUME NEW w \in Worker, UploadProgress(w) PROVE SpawnFresh'
  <2>1. \A v \in Worker : pc[v] = "none" => pc'[v] = "none"
    BY <1>9 DEF UploadProgress, slotVars, goVars, chanVars, mgrVars
  <2>2. \A d \in Caller : Creates(d)' => Creates(d) /\ call'[d].runs = call[d].runs
    BY <1>9 DEF UploadProgress, Creates
  <2>3. queueOrder' = queueOrder
    BY <1>9 DEF UploadProgress, mgrVars
  <2> QED BY <2>1, <2>2, <2>3, FreshKept
<1>9d. ASSUME NEW w \in Worker, DownloadProgress(w) PROVE SpawnFresh'
  <2>1. \A v \in Worker : pc[v] = "none" => pc'[v] = "none"
    BY <1>9d DEF DownloadProgress, slotVars, goVars, chanVars, mgrVars
  <2>2. \A d \in Caller : Creates(d)' => Creates(d) /\ call'[d].runs = call[d].runs
    BY <1>9d DEF DownloadProgress, Creates
  <2>3. queueOrder' = queueOrder
    BY <1>9d DEF DownloadProgress, mgrVars
  <2> QED BY <2>1, <2>2, <2>3, FreshKept
<1>10. ASSUME NEW w \in Worker, UploadEnds(w) PROVE SpawnFresh'
  <2>1. \A v \in Worker : pc[v] = "none" => pc'[v] = "none"
    BY <1>10 DEF UploadEnds, Fails, Goto, taskVars, slotVars, chanVars, mgrVars
  <2>2. \A d \in Caller : Creates(d)' => Creates(d) /\ call'[d].runs = call[d].runs
    BY <1>10 DEF UploadEnds, Fails, Creates
  <2>3. queueOrder' = queueOrder
    BY <1>10 DEF UploadEnds, Fails, mgrVars
  <2> QED BY <2>1, <2>2, <2>3, FreshKept
<1>10d. ASSUME NEW w \in Worker, DownloadEnds(w) PROVE SpawnFresh'
  <2>1. \A v \in Worker : pc[v] = "none" => pc'[v] = "none"
    BY <1>10d DEF DownloadEnds, Fails, Goto, taskVars, slotVars, chanVars, mgrVars
  <2>2. \A d \in Caller : Creates(d)' => Creates(d) /\ call'[d].runs = call[d].runs
    BY <1>10d DEF DownloadEnds, Fails, Creates
  <2>3. queueOrder' = queueOrder
    BY <1>10d DEF DownloadEnds, Fails, mgrVars
  <2> QED BY <2>1, <2>2, <2>3, FreshKept
<1>11. ASSUME NEW w \in Worker, FailUpload(w) PROVE SpawnFresh'
  <2>1. \A v \in Worker : pc[v] = "none" => pc'[v] = "none"
    BY <1>11 DEF FailUpload, FailedStatus, Goto, slotVars, chanVars, mgrVars
  <2>2. \A d \in Caller : Creates(d)' => Creates(d) /\ call'[d].runs = call[d].runs
    BY <1>11 DEF FailUpload, FailedStatus, Creates
  <2>3. queueOrder' = queueOrder
    BY <1>11 DEF FailUpload, FailedStatus, mgrVars
  <2> QED BY <2>1, <2>2, <2>3, FreshKept
<1>11d. ASSUME NEW w \in Worker, FailDownload(w) PROVE SpawnFresh'
  <2>1. \A v \in Worker : pc[v] = "none" => pc'[v] = "none"
    BY <1>11d DEF FailDownload, FailedStatus, Goto, slotVars, chanVars, mgrVars
  <2>2. \A d \in Caller : Creates(d)' => Creates(d) /\ call'[d].runs = call[d].runs
    BY <1>11d DEF FailDownload, FailedStatus, Creates
  <2>3. queueOrder' = queueOrder
    BY <1>11d DEF FailDownload, FailedStatus, mgrVars
  <2> QED BY <2>1, <2>2, <2>3, FreshKept
<1>12. ASSUME NEW w \in Worker, FinishUpload(w) PROVE SpawnFresh'
  <2>1. \A v \in Worker : pc[v] = "none" => pc'[v] = "none"
    BY <1>12 DEF FinishUpload, Goto, slotVars, chanVars, mgrVars
  <2>2. \A d \in Caller : Creates(d)' => Creates(d) /\ call'[d].runs = call[d].runs
    BY <1>12 DEF FinishUpload, Creates
  <2>3. queueOrder' = queueOrder
    BY <1>12 DEF FinishUpload, mgrVars
  <2> QED BY <2>1, <2>2, <2>3, FreshKept
<1>13. ASSUME NEW w \in Worker, FinishDownload(w) PROVE SpawnFresh'
  <2>1. \A v \in Worker : pc[v] = "none" => pc'[v] = "none"
    BY <1>13 DEF FinishDownload, Goto, slotVars, chanVars, mgrVars
  <2>2. \A d \in Caller : Creates(d)' => Creates(d) /\ call'[d].runs = call[d].runs
    BY <1>13 DEF FinishDownload, Creates
  <2>3. queueOrder' = queueOrder
    BY <1>13 DEF FinishDownload, mgrVars
  <2> QED BY <2>1, <2>2, <2>3, FreshKept
<1>14. ASSUME NEW w \in Worker, ReleaseSlot(w) PROVE SpawnFresh'
  <2>1. \A v \in Worker : pc[v] = "none" => pc'[v] = "none"
    BY <1>14 DEF ReleaseSlot, Wake, taskVars, chanVars, mgrVars
  <2>2. \A d \in Caller : Creates(d)' => Creates(d) /\ call'[d].runs = call[d].runs
    BY <1>14 DEF ReleaseSlot, Creates
  <2>3. queueOrder' = queueOrder
    BY <1>14 DEF ReleaseSlot, mgrVars
  <2> QED BY <2>1, <2>2, <2>3, FreshKept
<1>15. ASSUME NEW w \in Worker, Exit(w) PROVE SpawnFresh'
  <2>1. \A v \in Worker : pc[v] = "none" => pc'[v] = "none"
    BY <1>15 DEF Exit, Goto, slotVars, mgrVars
  <2>2. \A d \in Caller : Creates(d)' => Creates(d) /\ call'[d].runs = call[d].runs
    BY <1>15 DEF Exit, Creates
  <2>3. queueOrder' = queueOrder
    BY <1>15 DEF Exit, mgrVars
  <2> QED BY <2>1, <2>2, <2>3, FreshKept
<1>16. ASSUME NEW c \in Caller, CreateCommit(c) PROVE SpawnFresh'
  <2>1. PICK n \in call[c].runs : Spawn(call[c].task, n)
    BY <1>16 DEF CreateCommit
  <2>2. n \in Worker /\ n <= queueOrder /\ call[c].runs = {n} /\ pc[n] = "none"
    BY <1>16, <2>1 DEF CreateCommit, SpawnFresh, Creates
  <2>3. call' = [call EXCEPT ![c] = Idle] /\ queueOrder' = queueOrder
    BY <1>16 DEF CreateCommit, Return, mgrVars
  <2>4. \A v \in Worker : pc'[v] = IF v = n THEN "start" ELSE pc[v]
    BY <2>1, <2>2 DEF Spawn
  <2>5. \A d \in Caller : Creates(d)' => d # c /\ Creates(d) /\ call'[d].runs = call[d].runs
    BY <2>3 DEF Creates, Idle
  <2>6. \A d \in Caller : Creates(d)' => call[d].runs # {n}
    BY <1>16, <2>2, <2>5 DEF CreateCommit, SpawnFresh, Creates
  <2>7. \A v \in Worker : v > queueOrder' => pc'[v] = "none"
    BY <2>2, <2>3, <2>4 DEF SpawnFresh, Worker
  <2>8. \A d \in Caller : Creates(d)' =>
          \E m \in Worker : m <= queueOrder' /\ call'[d].runs = {m} /\ pc'[m] = "none"
    BY <2>3, <2>4, <2>5, <2>6 DEF SpawnFresh
  <2> QED BY <2>5, <2>7, <2>8 DEF SpawnFresh
<1>17. ASSUME NEW c \in Caller, CreateRollback(c) PROVE SpawnFresh'
  <2>1. \A v \in Worker : pc[v] = "none" => pc'[v] = "none"
    BY <1>17 DEF CreateRollback, taskVars, slotVars, goVars, chanVars, mgrVars
  <2>2. \A d \in Caller : Creates(d)' => Creates(d) /\ call'[d].runs = call[d].runs
    BY <1>17 DEF CreateRollback, Return, Idle, Creates
  <2>3. queueOrder' = queueOrder
    BY <1>17 DEF CreateRollback, mgrVars
  <2> QED BY <2>1, <2>2, <2>3, FreshKept
<1>18. ASSUME NEW c \in Caller, PauseCancel(c) PROVE SpawnFresh'
  <2>1. \A v \in Worker : pc[v] = "none" => pc'[v] = "none"
    BY <1>18 DEF PauseCancel, Wake, taskVars, slotVars, mgrVars
  <2>2. \A d \in Caller : Creates(d)' => Creates(d) /\ call'[d].runs = call[d].runs
    BY <1>18 DEF PauseCancel, Return, Idle, Creates
  <2>3. queueOrder' = queueOrder
    BY <1>18 DEF PauseCancel, mgrVars
  <2> QED BY <2>1, <2>2, <2>3, FreshKept
<1>19. ASSUME NEW c \in Caller, ResumeRun(c) PROVE SpawnFresh'
  <2> DEFINE n == queueOrder + 1
  <2>1. n \in Worker /\ queueOrder' = n
    <3>1. queueOrder < MaxRuns /\ queueOrder' = n
      BY <1>19 DEF ResumeRun
    <3> QED BY <3>1 DEF Worker, RunNo
  <2>2. \A v \in Worker : pc'[v] = IF v = n THEN "start" ELSE pc[v]
    BY <1>19, <2>1 DEF ResumeRun, Spawn
  <2>3. \A d \in Caller : Creates(d)' => Creates(d) /\ call'[d].runs = call[d].runs
    BY <1>19 DEF ResumeRun, Return, Idle, Creates
  <2>4. \A v \in Worker : v > queueOrder' => pc'[v] = "none"
    BY <2>1, <2>2 DEF SpawnFresh, Worker, RunNo
  <2>5. \A d \in Caller : Creates(d)' =>
          \E m \in Worker : m <= queueOrder' /\ call'[d].runs = {m} /\ pc'[m] = "none"
    <3> SUFFICES ASSUME NEW d \in Caller, Creates(d)'
                 PROVE  \E m \in Worker : m <= queueOrder' /\ call'[d].runs = {m} /\ pc'[m] = "none"
      OBVIOUS
    <3>1. PICK m \in Worker : m <= queueOrder /\ call[d].runs = {m} /\ pc[m] = "none"
      BY <2>3 DEF SpawnFresh
    <3>2. m # n /\ m <= n
      BY <3>1 DEF Worker, RunNo
    <3> QED BY <2>1, <2>2, <2>3, <3>1, <3>2
  <2> QED BY <2>3, <2>4, <2>5 DEF SpawnFresh
<1>20. ASSUME NEW c \in Caller, ResumeFileMissing(c) PROVE SpawnFresh'
  <2>1. \A v \in Worker : pc[v] = "none" => pc'[v] = "none"
    BY <1>20 DEF ResumeFileMissing, slotVars, goVars, chanVars, mgrVars
  <2>2. \A d \in Caller : Creates(d)' => Creates(d) /\ call'[d].runs = call[d].runs
    BY <1>20 DEF ResumeFileMissing, Return, Idle, Creates
  <2>3. queueOrder' = queueOrder
    BY <1>20 DEF ResumeFileMissing, mgrVars
  <2> QED BY <2>1, <2>2, <2>3, FreshKept
<1>21. ASSUME NEW c \in Caller, ResumeRefused(c) PROVE SpawnFresh'
  <2>1. \A v \in Worker : pc[v] = "none" => pc'[v] = "none"
    BY <1>21 DEF ResumeRefused, taskVars, slotVars, goVars, chanVars, mgrVars
  <2>2. \A d \in Caller : Creates(d)' => Creates(d) /\ call'[d].runs = call[d].runs
    BY <1>21 DEF ResumeRefused, Return, Idle, Creates
  <2>3. queueOrder' = queueOrder
    BY <1>21 DEF ResumeRefused, mgrVars
  <2> QED BY <2>1, <2>2, <2>3, FreshKept
<1>22. ASSUME NEW c \in Caller, ResumeGiveUp(c) PROVE SpawnFresh'
  <2>1. \A v \in Worker : pc[v] = "none" => pc'[v] = "none"
    BY <1>22 DEF ResumeGiveUp, taskVars, slotVars, goVars, chanVars, mgrVars
  <2>2. \A d \in Caller : Creates(d)' => Creates(d) /\ call'[d].runs = call[d].runs
    BY <1>22 DEF ResumeGiveUp, Return, Idle, Creates
  <2>3. queueOrder' = queueOrder
    BY <1>22 DEF ResumeGiveUp, mgrVars
  <2> QED BY <2>1, <2>2, <2>3, FreshKept
<1>23. ASSUME NEW c \in Caller, DeleteCancel(c) PROVE SpawnFresh'
  <2>1. \A v \in Worker : pc[v] = "none" => pc'[v] = "none"
    BY <1>23 DEF DeleteCancel, Wake, taskVars, slotVars, mgrVars
  <2>2. \A d \in Caller : Creates(d)' => Creates(d) /\ call'[d].runs = call[d].runs
    BY <1>23 DEF DeleteCancel, Creates
  <2>3. queueOrder' = queueOrder
    BY <1>23 DEF DeleteCancel, mgrVars
  <2> QED BY <2>1, <2>2, <2>3, FreshKept
<1>24. ASSUME NEW c \in Caller, DeletePop(c) PROVE SpawnFresh'
  <2>1. \A v \in Worker : pc[v] = "none" => pc'[v] = "none"
    BY <1>24 DEF DeletePop, taskVars, slotVars, goVars, chanVars, mgrVars
  <2>2. \A d \in Caller : Creates(d)' => Creates(d) /\ call'[d].runs = call[d].runs
    BY <1>24 DEF DeletePop, Return, Idle, Creates
  <2>3. queueOrder' = queueOrder
    BY <1>24 DEF DeletePop, mgrVars
  <2> QED BY <2>1, <2>2, <2>3, FreshKept
<1>25. ASSUME NEW c \in Caller, DeleteTimeout(c) PROVE SpawnFresh'
  <2>1. \A v \in Worker : pc[v] = "none" => pc'[v] = "none"
    BY <1>25 DEF DeleteTimeout, taskVars, slotVars, goVars, chanVars, mgrVars
  <2>2. \A d \in Caller : Creates(d)' => Creates(d) /\ call'[d].runs = call[d].runs
    BY <1>25 DEF DeleteTimeout, Return, Idle, Creates
  <2>3. queueOrder' = queueOrder
    BY <1>25 DEF DeleteTimeout, mgrVars
  <2> QED BY <2>1, <2>2, <2>3, FreshKept
<1>26. ASSUME NEW c \in Caller, Stop(c) PROVE SpawnFresh'
  <2>1. \A v \in Worker : pc[v] = "none" => pc'[v] = "none"
    BY <1>26 DEF Stop, Wake, slotVars, chanVars
  <2>2. \A d \in Caller : Creates(d)' => Creates(d) /\ call'[d].runs = call[d].runs
    BY <1>26 DEF Stop, Enter, Creates
  <2>3. queueOrder' = queueOrder
    BY <1>26 DEF Stop
  <2> QED BY <2>1, <2>2, <2>3, FreshKept
<1>27. ASSUME NEW c \in Caller, StopReturns(c) PROVE SpawnFresh'
  <2>1. \A v \in Worker : pc[v] = "none" => pc'[v] = "none"
    BY <1>27 DEF StopReturns, taskVars, slotVars, goVars, chanVars, mgrVars
  <2>2. \A d \in Caller : Creates(d)' => Creates(d) /\ call'[d].runs = call[d].runs
    BY <1>27 DEF StopReturns, Return, Idle, Creates
  <2>3. queueOrder' = queueOrder
    BY <1>27 DEF StopReturns, mgrVars
  <2> QED BY <2>1, <2>2, <2>3, FreshKept
<1>28. ASSUME NEW c \in Caller, StopTimeout(c) PROVE SpawnFresh'
  <2>1. \A v \in Worker : pc[v] = "none" => pc'[v] = "none"
    BY <1>28 DEF StopTimeout, taskVars, slotVars, goVars, chanVars, mgrVars
  <2>2. \A d \in Caller : Creates(d)' => Creates(d) /\ call'[d].runs = call[d].runs
    BY <1>28 DEF StopTimeout, Return, Idle, Creates
  <2>3. queueOrder' = queueOrder
    BY <1>28 DEF StopTimeout, mgrVars
  <2> QED BY <2>1, <2>2, <2>3, FreshKept
<1>29. ASSUME NEW c \in Caller, NEW t \in Task, Create(c, t) PROVE SpawnFresh'
  <2> DEFINE n == queueOrder + 1
  <2>1. n \in Worker /\ queueOrder' = n /\ pc' = pc
    BY <1>29 DEF Create, Worker, RunNo, goVars
  <2>2. call' = [call EXCEPT ![c] = [op |-> "create", task |-> t, runs |-> {n}, cancel |-> 0]]
    BY <1>29 DEF Create, Enter
  <2>3. \A d \in Caller : Creates(d)' =>
          IF d = c THEN call'[d].runs = {n} ELSE Creates(d) /\ call'[d].runs = call[d].runs
    BY <2>2 DEF Creates
  <2>4. pc[n] = "none"
    BY <2>1 DEF SpawnFresh, RunNo
  <2>5. \A v \in Worker : v > queueOrder' => pc'[v] = "none"
    BY <2>1 DEF SpawnFresh, Worker, RunNo
  <2>6. \A d \in Caller : Creates(d)' =>
          \E m \in Worker : m <= queueOrder' /\ call'[d].runs = {m} /\ pc'[m] = "none"
    <3> TAKE d \in Caller
    <3>1. CASE d = c
      BY <2>1, <2>3, <2>4, <3>1 DEF Worker
    <3>2. ASSUME d # c, Creates(d)'
          PROVE  \E m \in Worker : m <= queueOrder' /\ call'[d].runs = {m} /\ pc'[m] = "none"
      <4>1. PICK m \in Worker : m <= queueOrder /\ call[d].runs = {m} /\ pc[m] = "none"
        BY <2>3, <3>2 DEF SpawnFresh
      <4>2. m <= n
        BY <4>1 DEF Worker, RunNo
      <4> QED BY <2>1, <2>3, <3>2, <4>1, <4>2
    <3> QED BY <3>1, <3>2
  <2>7. \A d, e \in Caller : Creates(d)' /\ Creates(e)' /\ call'[d].runs = call'[e].runs => d = e
    <3>1. ASSUME NEW d \in Caller, Creates(d) PROVE call[d].runs # {n}
      <4>1. PICK m \in Worker : m <= queueOrder /\ call[d].runs = {m}
        BY <3>1 DEF SpawnFresh
      <4>2. m # n
        BY <4>1 DEF Worker, RunNo
      <4> QED BY <4>1, <4>2
    <3> QED BY <2>3, <3>1 DEF SpawnFresh
  <2> QED BY <2>5, <2>6, <2>7 DEF SpawnFresh
<1>30. ASSUME NEW c \in Caller, NEW t \in Task, Pause(c, t) PROVE SpawnFresh'
  <2>1. \A v \in Worker : pc[v] = "none" => pc'[v] = "none"
    BY <1>30 DEF Pause, slotVars, goVars, chanVars, mgrVars
  <2>2. \A d \in Caller : Creates(d)' => Creates(d) /\ call'[d].runs = call[d].runs
    BY <1>30 DEF Pause, Enter, Creates
  <2>3. queueOrder' = queueOrder
    BY <1>30 DEF Pause, mgrVars
  <2> QED BY <2>1, <2>2, <2>3, FreshKept
<1>31. ASSUME NEW c \in Caller, NEW t \in Task, Resume(c, t) PROVE SpawnFresh'
  <2>1. \A v \in Worker : pc[v] = "none" => pc'[v] = "none"
    BY <1>31 DEF Resume, taskVars, slotVars, goVars, chanVars, mgrVars
  <2>2. \A d \in Caller : Creates(d)' => Creates(d) /\ call'[d].runs = call[d].runs
    BY <1>31 DEF Resume, Enter, Creates
  <2>3. queueOrder' = queueOrder
    BY <1>31 DEF Resume, mgrVars
  <2> QED BY <2>1, <2>2, <2>3, FreshKept
<1>32. ASSUME NEW c \in Caller, NEW t \in Task, Delete(c, t) PROVE SpawnFresh'
  <2>1. \A v \in Worker : pc[v] = "none" => pc'[v] = "none"
    BY <1>32 DEF Delete, slotVars, goVars, chanVars, mgrVars
  <2>2. \A d \in Caller : Creates(d)' => Creates(d) /\ call'[d].runs = call[d].runs
    BY <1>32 DEF Delete, Enter, Creates
  <2>3. queueOrder' = queueOrder
    BY <1>32 DEF Delete, mgrVars
  <2> QED BY <2>1, <2>2, <2>3, FreshKept
<1>33. CASE UNCHANGED vars
  BY <1>33 DEF vars, SpawnFresh, Creates, taskVars, slotVars, goVars, chanVars, mgrVars
<1> QED BY <1>1, <1>2, <1>3, <1>4, <1>5, <1>6, <1>7, <1>8, <1>9, <1>10, <1>11, <1>12, <1>13,
   <1>14, <1>15, <1>16, <1>17, <1>18, <1>19, <1>20, <1>21, <1>22, <1>23, <1>24, <1>25, <1>26,
   <1>27, <1>28, <1>29, <1>30, <1>31, <1>32, <1>33, <1>8d, <1>9d, <1>10d, <1>11d
   DEF Next, WorkerStep, CallStep

-----------------------------------------------------------------------------
(* Two actions move slots; every other one leaves them alone.                 *)

Quiet ==
  /\ UNCHANGED <<slot, uploads, downloads>>
  /\ limit' \in Limits
  /\ \A v \in Worker : pc'[v] \in Holding <=> pc[v] \in Holding

LEMMA QuietStep ==
  ASSUME TypeOK, SlotDiscipline, SpawnFresh, [Next]_vars,
         ~\E w \in Worker : TakeSlot(w) \/ ReleaseSlot(w)
  PROVE  Quiet
<1> USE DEF TypeOK, GoType, SlotType
<1>1. CASE SetLimit
  BY <1>1 DEF SetLimit, Wake, Quiet, Holding
<1>2. CASE OpenGate
  BY <1>2 DEF OpenGate, Quiet, Holding, slotVars, goVars
<1>3. ASSUME NEW w \in Worker, Start(w) PROVE Quiet
  BY <1>3 DEF Start, Goto, Quiet, Holding, slotVars
<1>4. ASSUME NEW w \in Worker, PassGate(w) PROVE Quiet
  BY <1>4 DEF PassGate, Goto, Quiet, Holding, slotVars
<1>5. ASSUME NEW w \in Worker, QuitQueue(w) PROVE Quiet
  BY <1>5 DEF QuitQueue, Goto, Quiet, Holding, slotVars
<1>6. ASSUME NEW w \in Worker, WaitForSlot(w) PROVE Quiet
  BY <1>6 DEF WaitForSlot, Goto, Quiet, Holding, slotVars
<1>7. ASSUME NEW w \in Worker, BeginUpload(w) PROVE Quiet
  BY <1>7 DEF BeginUpload, Begins, Declines, Goto, Quiet, Holding, slotVars
<1>7d. ASSUME NEW w \in Worker, BeginDownload(w) PROVE Quiet
  BY <1>7d DEF BeginDownload, Begins, Declines, Goto, Quiet, Holding, slotVars
<1>8. ASSUME NEW w \in Worker, UploadProgress(w) PROVE Quiet
  BY <1>8 DEF UploadProgress, Quiet, Holding, slotVars, goVars
<1>8d. ASSUME NEW w \in Worker, DownloadProgress(w) PROVE Quiet
  BY <1>8d DEF DownloadProgress, Quiet, Holding, slotVars, goVars
<1>9. ASSUME NEW w \in Worker, UploadEnds(w) PROVE Quiet
  BY <1>9 DEF UploadEnds, Fails, Goto, Quiet, Holding, slotVars
<1>9d. ASSUME NEW w \in Worker, DownloadEnds(w) PROVE Quiet
  BY <1>9d DEF DownloadEnds, Fails, Goto, Quiet, Holding, slotVars
<1>10. ASSUME NEW w \in Worker, FailUpload(w) PROVE Quiet
  BY <1>10 DEF FailUpload, FailedStatus, Goto, Quiet, Holding, slotVars
<1>10d. ASSUME NEW w \in Worker, FailDownload(w) PROVE Quiet
  BY <1>10d DEF FailDownload, FailedStatus, Goto, Quiet, Holding, slotVars
<1>11. ASSUME NEW w \in Worker, FinishUpload(w) PROVE Quiet
  BY <1>11 DEF FinishUpload, Goto, Quiet, Holding, slotVars
<1>12. ASSUME NEW w \in Worker, FinishDownload(w) PROVE Quiet
  BY <1>12 DEF FinishDownload, Goto, Quiet, Holding, slotVars
<1>13. ASSUME NEW w \in Worker, Exit(w) PROVE Quiet
  BY <1>13 DEF Exit, Goto, Quiet, Holding, slotVars
<1>14. ASSUME NEW c \in Caller, CreateCommit(c) PROVE Quiet
  <2>1. PICK n \in call[c].runs : Spawn(call[c].task, n)
    BY <1>14 DEF CreateCommit
  <2>2. n \in Worker /\ pc[n] = "none"
    BY <1>14, <2>1 DEF CreateCommit, SpawnFresh, Creates
  <2> QED BY <1>14, <2>1, <2>2 DEF CreateCommit, Spawn, Quiet, Holding, slotVars
<1>15. ASSUME NEW c \in Caller, CreateRollback(c) PROVE Quiet
  BY <1>15 DEF CreateRollback, Quiet, Holding, slotVars, goVars
<1>16. ASSUME NEW c \in Caller, PauseCancel(c) PROVE Quiet
  BY <1>16 DEF PauseCancel, Wake, Quiet, Holding, slotVars
<1>17. ASSUME NEW c \in Caller, ResumeRun(c) PROVE Quiet
  <2> DEFINE n == queueOrder + 1
  <2>1. n \in Worker /\ n > queueOrder
    <3>1. queueOrder < MaxRuns
      BY <1>17 DEF ResumeRun
    <3> QED BY <3>1, ConstantsAssumption DEF Worker, RunNo, MgrType
  <2>2. pc[n] = "none"
    BY <2>1 DEF SpawnFresh
  <2>3. pc' = [pc EXCEPT ![n] = "start"]
    BY <1>17 DEF ResumeRun, Spawn
  <2> QED BY <1>17, <2>1, <2>2, <2>3 DEF ResumeRun, Quiet, Holding, slotVars
<1>18. ASSUME NEW c \in Caller, ResumeFileMissing(c) PROVE Quiet
  BY <1>18 DEF ResumeFileMissing, Quiet, Holding, slotVars, goVars
<1>19. ASSUME NEW c \in Caller, ResumeRefused(c) PROVE Quiet
  BY <1>19 DEF ResumeRefused, Quiet, Holding, slotVars, goVars
<1>20. ASSUME NEW c \in Caller, ResumeGiveUp(c) PROVE Quiet
  BY <1>20 DEF ResumeGiveUp, Quiet, Holding, slotVars, goVars
<1>21. ASSUME NEW c \in Caller, DeleteCancel(c) PROVE Quiet
  BY <1>21 DEF DeleteCancel, Wake, Quiet, Holding, slotVars
<1>22. ASSUME NEW c \in Caller, DeletePop(c) PROVE Quiet
  BY <1>22 DEF DeletePop, Quiet, Holding, slotVars, goVars
<1>23. ASSUME NEW c \in Caller, DeleteTimeout(c) PROVE Quiet
  BY <1>23 DEF DeleteTimeout, Quiet, Holding, slotVars, goVars
<1>24. ASSUME NEW c \in Caller, Stop(c) PROVE Quiet
  BY <1>24 DEF Stop, Wake, Quiet, Holding, slotVars
<1>25. ASSUME NEW c \in Caller, StopReturns(c) PROVE Quiet
  BY <1>25 DEF StopReturns, Quiet, Holding, slotVars, goVars
<1>26. ASSUME NEW c \in Caller, StopTimeout(c) PROVE Quiet
  BY <1>26 DEF StopTimeout, Quiet, Holding, slotVars, goVars
<1>27. ASSUME NEW c \in Caller, NEW t \in Task, Create(c, t) PROVE Quiet
  BY <1>27 DEF Create, Quiet, Holding, slotVars, goVars
<1>28. ASSUME NEW c \in Caller, NEW t \in Task, Pause(c, t) PROVE Quiet
  BY <1>28 DEF Pause, Quiet, Holding, slotVars, goVars
<1>29. ASSUME NEW c \in Caller, NEW t \in Task, Resume(c, t) PROVE Quiet
  BY <1>29 DEF Resume, Quiet, Holding, slotVars, goVars
<1>30. ASSUME NEW c \in Caller, NEW t \in Task, Delete(c, t) PROVE Quiet
  BY <1>30 DEF Delete, Quiet, Holding, slotVars, goVars
<1>31. CASE UNCHANGED vars
  BY <1>31 DEF vars, Quiet, slotVars, goVars
<1> QED BY <1>1, <1>2, <1>3, <1>4, <1>5, <1>6, <1>7, <1>8, <1>9, <1>10, <1>11, <1>12, <1>13,
   <1>14, <1>15, <1>16, <1>17, <1>18, <1>19, <1>20, <1>21, <1>22, <1>23, <1>24, <1>25, <1>26,
   <1>27, <1>28, <1>29, <1>30, <1>31, <1>7d, <1>8d, <1>9d, <1>10d
   DEF Next, WorkerStep, CallStep

LEMMA HoldersFinite == \A k : IsFiniteSet(Holders(k))
<1> TAKE k
<1>1. IsFiniteSet(Worker)
  BY FS_Interval, ConstantsAssumption DEF Worker
<1> QED BY <1>1, FS_Subset DEF Holders

LEMMA TakeEffect ==
  ASSUME TypeOK, SlotDiscipline, NEW w \in Worker, TakeSlot(w), NEW k \in Kind
  PROVE  /\ w \notin Holders(k)
         /\ Holders(k)' = IF k = slot'[w] THEN Holders(k) \cup {w} ELSE Holders(k)
         /\ slot'[w] \in Kind /\ CanAcquireSlot(slot'[w]) /\ limit' = limit
         /\ uploads' = IF slot'[w] = "upload" THEN uploads + 1 ELSE uploads
         /\ downloads' = IF slot'[w] = "download" THEN downloads + 1 ELSE downloads
<1>1. pc[w] = "acquire" /\ slot' = [slot EXCEPT ![w] = SlotKind(wtask[w])]
  BY DEF TakeSlot
<1>2. slot[w] = "none"
  BY <1>1 DEF SlotDiscipline, Holding
<1>3. slot'[w] = SlotKind(wtask[w]) /\ slot'[w] \in Kind
  BY <1>1 DEF TypeOK, SlotType, SlotKind, Kind
<1>4. \A v \in Worker : v # w => slot'[v] = slot[v]
  BY <1>1 DEF TypeOK, SlotType
<1>5. w \notin Holders(k)
  BY <1>2 DEF Holders, Kind
<1>6. Holders(k)' = IF k = slot'[w] THEN Holders(k) \cup {w} ELSE Holders(k)
  BY <1>2, <1>4 DEF Holders, Kind
<1>7. CanAcquireSlot(slot'[w]) /\ limit' = limit
  BY <1>3 DEF TakeSlot, SlotIsMine
<1>8. /\ uploads' = IF slot'[w] = "upload" THEN uploads + 1 ELSE uploads
      /\ downloads' = IF slot'[w] = "download" THEN downloads + 1 ELSE downloads
  BY <1>3 DEF TakeSlot
<1> QED BY <1>3, <1>5, <1>6, <1>7, <1>8

LEMMA ReleaseEffect ==
  ASSUME TypeOK, SlotDiscipline, NEW w \in Worker, ReleaseSlot(w), NEW k \in Kind
  PROVE  /\ slot[w] \in Kind /\ limit' = limit
         /\ w \in Holders(slot[w])
         /\ Holders(k)' = IF k = slot[w] THEN Holders(k) \ {w} ELSE Holders(k)
<1>1. pc[w] \in Holding /\ slot' = [slot EXCEPT ![w] = "none"] /\ limit' = limit
  BY DEF ReleaseSlot, Holding
<1>2. slot[w] \in Kind
  BY <1>1 DEF SlotDiscipline, TypeOK, SlotType, Kind
<1>3. slot'[w] = "none" /\ \A v \in Worker : v # w => slot'[v] = slot[v]
  BY <1>1 DEF TypeOK, SlotType
<1>4. Holders(k)' = IF k = slot[w] THEN Holders(k) \ {w} ELSE Holders(k)
  BY <1>3 DEF Holders, Kind
<1> QED BY <1>1, <1>2, <1>4 DEF Holders

LEMMA SlotStep ==
  ASSUME TypeOK, SlotDiscipline, SpawnFresh, SlotAccounting, [Next]_vars
  PROVE  SlotDiscipline' /\ SlotAccounting'
<1> DEFINE U == Holders("upload")  D == Holders("download")
<1>a. IsFiniteSet(U) /\ IsFiniteSet(D) /\ "upload" \in Kind /\ "download" \in Kind
  BY HoldersFinite DEF Kind
<1>b. Cardinality(U) \in Nat /\ Cardinality(D) \in Nat
  BY <1>a, FS_CardinalityType
<1>1. ASSUME NEW w \in Worker, TakeSlot(w) PROVE SlotDiscipline' /\ SlotAccounting'
  <2>1. SlotDiscipline'
    <3>1. slot' = [slot EXCEPT ![w] = SlotKind(wtask[w])] /\ pc' = [pc EXCEPT ![w] = "got"]
      BY <1>1 DEF TakeSlot, Goto
    <3> QED BY <3>1 DEF SlotDiscipline, Holding, SlotKind, TypeOK, SlotType, GoType
  <2>2. SlotAccounting'
    <3>1. CASE slot'[w] = "upload"
      BY <1>1, <3>1, <1>a, <1>b, TakeEffect, FS_AddElement DEF SlotAccounting
    <3>2. CASE slot'[w] = "download"
      BY <1>1, <3>2, <1>a, <1>b, TakeEffect, FS_AddElement DEF SlotAccounting
    <3> QED BY <1>1, <1>a, <3>1, <3>2, TakeEffect DEF Kind
  <2> QED BY <2>1, <2>2
<1>2. ASSUME NEW w \in Worker, ReleaseSlot(w) PROVE SlotDiscipline' /\ SlotAccounting'
  <2>1. SlotDiscipline'
    <3>1. slot' = [slot EXCEPT ![w] = "none"]
          /\ pc' = [Wake(pc) EXCEPT ![w] = IF pc[w] = "requeue" THEN "acquire" ELSE "exit"]
      BY <1>2 DEF ReleaseSlot
    <3> QED BY <3>1 DEF SlotDiscipline, Holding, Wake, TypeOK, SlotType, GoType
  <2>2. SlotAccounting'
    <3>1. CASE slot[w] = "upload"
      <4>1. U' = U \ {w} /\ D' = D /\ w \in U
        BY <1>2, <1>a, <3>1, ReleaseEffect
      <4>2. Cardinality(U') = Cardinality(U) - 1 /\ Cardinality(U) # 0
        BY <1>a, <4>1, FS_RemoveElement, FS_EmptySet
      <4>3. uploads' = (IF uploads > 0 THEN uploads - 1 ELSE uploads) /\ downloads' = downloads
        BY <1>2, <3>1 DEF ReleaseSlot
      <4> QED BY <1>b, <4>1, <4>2, <4>3 DEF SlotAccounting
    <3>2. CASE slot[w] = "download"
      <4>1. D' = D \ {w} /\ U' = U /\ w \in D
        BY <1>2, <1>a, <3>2, ReleaseEffect
      <4>2. Cardinality(D') = Cardinality(D) - 1 /\ Cardinality(D) # 0
        BY <1>a, <4>1, FS_RemoveElement, FS_EmptySet
      <4>3. downloads' = (IF downloads > 0 THEN downloads - 1 ELSE downloads) /\ uploads' = uploads
        BY <1>2, <3>2 DEF ReleaseSlot
      <4> QED BY <1>b, <4>1, <4>2, <4>3 DEF SlotAccounting
    <3> QED BY <1>2, <1>a, <3>1, <3>2, ReleaseEffect DEF Kind
  <2> QED BY <2>1, <2>2
<1>3. CASE ~\E w \in Worker : TakeSlot(w) \/ ReleaseSlot(w)
  BY <1>3, QuietStep DEF Quiet, SlotDiscipline, SlotAccounting, Holders
<1> QED BY <1>1, <1>2, <1>3

-----------------------------------------------------------------------------
LEMMA InitIInv == Init => IInv
<1> SUFFICES ASSUME Init PROVE IInv
  OBVIOUS
<1>1. TypeOK
  BY ConstantsAssumption, IdleIsCall, RunNumbers
     DEF Init, FirstPhase, TypeOK, TaskType, SlotType, GoType, ChanType, MgrType, CallType, Status, Kind,
         PcSet, RunNo, Idle
<1>2. SlotDiscipline /\ SpawnFresh
  BY DEF Init, SlotDiscipline, SpawnFresh, Holding, Creates, Idle
<1>3. Holders("upload") = {} /\ Holders("download") = {}
  BY DEF Init, Holders
<1>4. SlotAccounting
  BY <1>3, FS_EmptySet DEF Init, SlotAccounting
<1> QED BY <1>1, <1>2, <1>4 DEF IInv

LEMMA NextIInv == IInv /\ [Next]_vars => IInv'
BY TypeStep, FreshStep, SlotStep DEF IInv

\* Every reachable state of the queue is well typed, whatever the tasks, callers
\* and limits.
THEOREM TypeCorrect == Spec => []TypeOK
<1>1. IInv => TypeOK
  BY DEF IInv
<1> QED BY InitIInv, NextIInv, <1>1, PTL DEF Spec

LEMMA IInvInvariant == Spec => []IInv
BY InitIInv, NextIInv, PTL DEF Spec

\* Whatever path a run takes through pauses, failures, deletes and a second queue, and
\* however the runs interleave, each counter is the number of runs that are between the
\* acquire and the release of a slot: none is leaked on the way out or freed twice.
THEOREM SlotsComeBack == Spec => []SlotsReturned
<1>1. IInv => SlotsReturned
  <2> SUFFICES ASSUME IInv PROVE SlotsReturned
    OBVIOUS
  <2>1. ASSUME NEW k \in Kind PROVE AtWork(k) = Holders(k)
    BY DEF IInv, SlotDiscipline, AtWork, Holders, Kind
  <2> QED BY <2>1 DEF IInv, SlotAccounting, SlotsReturned, Kind
<1> QED BY IInvInvariant, <1>1, PTL

\* The instances see Cardinality through a copy of FiniteSets.
LEMMA SameCardinality ==
  ASSUME NEW S
  PROVE  /\ UploadPool!Cardinality(S) = Cardinality(S)
         /\ DownloadPool!Cardinality(S) = Cardinality(S)
BY DEF Cardinality, UploadPool!Cardinality, DownloadPool!Cardinality

LEMMA UploadPoolStep ==
  ASSUME IInv, [Next]_vars
  PROVE  UploadPool!Next \/ UNCHANGED UploadPool!vars
<1> DEFINE U == Holders("upload")
<1>a. "upload" \in Kind /\ "upload" # "download"
  BY DEF Kind
<1>1. ASSUME NEW w \in Worker, TakeSlot(w) PROVE UploadPool!Next \/ UNCHANGED UploadPool!vars
  <2>1. CASE slot'[w] = "upload"
    <3>1. w \notin U /\ U' = U \cup {w} /\ limit' = limit
      BY <1>1, <1>a, <2>1, TakeEffect DEF IInv
    <3>2. CanAcquireSlot("upload")
      BY <1>1, <1>a, <2>1, TakeEffect DEF IInv
    <3>3. uploads < limit
      BY <3>2 DEF CanAcquireSlot
    <3> QED BY <3>1, <3>3, SameCardinality DEF IInv, SlotAccounting, UploadPool!Next,
       UploadPool!Grab
  <2>2. CASE slot'[w] # "upload"
    BY <1>1, <1>a, <2>2, TakeEffect DEF IInv, UploadPool!vars
  <2> QED BY <2>1, <2>2
<1>2. ASSUME NEW w \in Worker, ReleaseSlot(w) PROVE UploadPool!Next \/ UNCHANGED UploadPool!vars
  <2>1. CASE slot[w] = "upload"
    BY <1>2, <1>a, <2>1, ReleaseEffect DEF IInv, UploadPool!Next, UploadPool!Drop
  <2>2. CASE slot[w] # "upload"
    BY <1>2, <1>a, <2>2, ReleaseEffect DEF IInv, UploadPool!vars
  <2> QED BY <2>1, <2>2
<1>3. CASE ~\E w \in Worker : TakeSlot(w) \/ ReleaseSlot(w)
  BY <1>3, QuietStep DEF IInv, Quiet, Holders, UploadPool!Next, UploadPool!SetLimit
<1> QED BY <1>1, <1>2, <1>3

LEMMA DownloadPoolStep ==
  ASSUME IInv, [Next]_vars
  PROVE  DownloadPool!Next \/ UNCHANGED DownloadPool!vars
<1> DEFINE D == Holders("download")
<1>a. "download" \in Kind
  BY DEF Kind
<1>1. ASSUME NEW w \in Worker, TakeSlot(w) PROVE DownloadPool!Next \/ UNCHANGED DownloadPool!vars
  <2>1. CASE slot'[w] = "download"
    <3>1. w \notin D /\ D' = D \cup {w} /\ limit' = limit
      BY <1>1, <1>a, <2>1, TakeEffect DEF IInv
    <3>2. CanAcquireSlot("download")
      BY <1>1, <1>a, <2>1, TakeEffect DEF IInv
    <3>3. downloads < limit
      BY <3>2 DEF CanAcquireSlot
    <3> QED BY <3>1, <3>3, SameCardinality DEF IInv, SlotAccounting, DownloadPool!Next,
       DownloadPool!Grab
  <2>2. CASE slot'[w] # "download"
    BY <1>1, <1>a, <2>2, TakeEffect DEF IInv, DownloadPool!vars
  <2> QED BY <2>1, <2>2
<1>2. ASSUME NEW w \in Worker, ReleaseSlot(w) PROVE DownloadPool!Next \/ UNCHANGED DownloadPool!vars
  <2>1. CASE slot[w] = "download"
    BY <1>2, <1>a, <2>1, ReleaseEffect DEF IInv, DownloadPool!Next, DownloadPool!Drop
  <2>2. CASE slot[w] # "download"
    BY <1>2, <1>a, <2>2, ReleaseEffect DEF IInv, DownloadPool!vars
  <2> QED BY <2>1, <2>2
<1>3. CASE ~\E w \in Worker : TakeSlot(w) \/ ReleaseSlot(w)
  BY <1>3, QuietStep DEF IInv, Quiet, Holders, DownloadPool!Next, DownloadPool!SetLimit
<1> QED BY <1>1, <1>2, <1>3

LEMMA PoolsInit == Init => UploadPool!Init /\ DownloadPool!Init
BY DEF Init, UploadPool!Init, DownloadPool!Init, Holders

\* Each of the two queues, of uploads and of cross-drive downloads, implements a
\* pool of slots of its own: a slot is handed out only while fewer than the limit
\* of that moment are held.
THEOREM SlotsArePooled == Spec => SlotsPooled
<1>1. IInv /\ [Next]_vars => [UploadPool!Next]_(UploadPool!vars)
  BY UploadPoolStep
<1>2. IInv /\ [Next]_vars => [DownloadPool!Next]_(DownloadPool!vars)
  BY DownloadPoolStep
<1> QED BY <1>1, <1>2, PoolsInit, IInvInvariant, PTL DEF Spec, SlotsPooled, UploadPool!Spec,
     DownloadPool!Spec

-----------------------------------------------------------------------------
(* For callers that take turns, whatever the tasks, limits and runs: a task is *)
(* worked on by one run at a time, and no run is still at work for a task that *)
(* Delete has taken away.  Two callers at once break both (README), so that    *)
(* there is one at a time is an assumption.                                    *)
OneCaller == \A c, d \in Caller : c = d

-----------------------------------------------------------------------------
(* The inductive invariant: a task in the map belongs to the one run of its    *)
(* number, a call that waits does so for that very run, and Delete passes by   *)
(* the wait only when nobody holds a slot for the task.                        *)

\* Past its first look at the task, and not over.
Engaged(w) == Alive(w) /\ pc[w] # "start"

WorkerOwns(w) ==
  /\ pc[w] # "none" => status[wtask[w]] # "unborn"
  /\ Engaged(w) => wrun[w] = w
  /\ Alive(w) /\ InMap(wtask[w]) => run[wtask[w]] = w
  /\ slot[w] # "none" => InMap(wtask[w]) /\ cancel[wtask[w]] = w

Numbered == /\ \A t \in Task : InMap(t) => run[t] \in Worker /\ run[t] <= queueOrder
            /\ \A n \in closed : n \in Worker /\ pc[n] = "ended"
            /\ ~panicked

RunsOwn == (\A w \in Worker : WorkerOwns(w)) /\ Numbered

AwaitsRun(c) == call[c].op \in {"create", "resume", "delete", "await"}

Unheld(t) == status[t] \notin Active /\ \A w \in Worker : wtask[w] = t => slot[w] = "none"

CallOwns(c) ==
  LET t == call[c].task IN
  /\ AwaitsRun(c) => InMap(t) /\ call[c].runs = {run[t]}
  /\ call[c].op = "create" => pc[run[t]] = "none"
  /\ call[c].op = "pop" => InMap(t) /\ (run[t] \in closed \/ Unheld(t))

Ownership == RunsOwn /\ \A c \in Caller : CallOwns(c)

-----------------------------------------------------------------------------
(* What a run does between its first look at the task and its end.             *)

KeepsTasks == \A t \in Task : /\ InMap(t)' <=> InMap(t)
                              /\ status'[t] = "unborn" <=> status[t] = "unborn"

\* The goroutines stay where they are, as far as starting and ending go.
KeepsWorkers ==
  \A w \in Worker : /\ pc'[w] = "none" <=> pc[w] = "none"
                    /\ pc'[w] = "start" <=> pc[w] = "start"
                    /\ pc'[w] = "ended" <=> pc[w] = "ended"
                    /\ slot'[w] # "none" => slot[w] # "none"

Mild == /\ KeepsTasks /\ KeepsWorkers
        /\ UNCHANGED <<run, cancel, wtask, wrun, closed, panicked, queueOrder>>

\* A status changes in the hands of a worker that holds a slot.
ByHolder ==
  \A t \in Task : status'[t] = status[t] \/ \E w \in Worker : wtask[w] = t /\ slot[w] # "none"

LEMMA MildKeeps == ASSUME RunsOwn, GoType, Mild PROVE RunsOwn'
<1>1. ASSUME NEW w \in Worker PROVE WorkerOwns(w)'
  <2>1. WorkerOwns(w) /\ wtask[w] \in Task
    BY DEF RunsOwn, GoType
  <2> QED BY <2>1 DEF WorkerOwns, Engaged, Alive, Mild, KeepsTasks, KeepsWorkers
<1>2. Numbered'
  BY DEF RunsOwn, Numbered, Mild, KeepsTasks, KeepsWorkers
<1> QED BY <1>1, <1>2 DEF RunsOwn

LEMMA CallsKept ==
  ASSUME TypeOK, Ownership, Mild, ByHolder, call' = call, NEW c \in Caller
  PROVE  CallOwns(c)'
<1> DEFINE t == call[c].task
<1>1. t \in Task /\ CallOwns(c)
  BY DEF TypeOK, CallType, Call, Ownership
<1>2. (AwaitsRun(c) => InMap(t) /\ call[c].runs = {run[t]})'
  BY <1>1 DEF CallOwns, AwaitsRun, Mild, KeepsTasks
<1>3. (call[c].op = "create" => pc[run[t]] = "none")'
  BY <1>1 DEF CallOwns, AwaitsRun, Mild, KeepsWorkers, Ownership, RunsOwn, Numbered
<1>4. ASSUME Unheld(t) PROVE Unheld(t)'
  BY <1>1, <1>4 DEF Unheld, ByHolder, Mild, KeepsWorkers
<1>5. (call[c].op = "pop" => InMap(t) /\ (run[t] \in closed \/ Unheld(t)))'
  BY <1>1, <1>4 DEF CallOwns, Mild, KeepsTasks
<1> QED BY <1>2, <1>3, <1>5 DEF CallOwns

LEMMA WakeKeeps ==
  ASSUME GoType, pc' = Wake(pc), slot' = slot PROVE KeepsWorkers
BY DEF GoType, Wake, KeepsWorkers

LEMMA GotoKeeps ==
  ASSUME GoType, SlotType, SlotDiscipline, NEW w \in Worker, NEW l, Goto(w, l),
         pc[w] \notin {"none", "start", "ended"}, l \notin {"none", "start", "ended"},
         \A v \in Worker \ {w} : slot'[v] = slot[v], slot[w] # "none" \/ slot' = slot
  PROVE  KeepsWorkers
BY DEF GoType, Goto, KeepsWorkers

LEMMA PatchKeeps ==
  ASSUME TaskType, NEW t \in Task, NEW s \in Status, Patch(t, s)
  PROVE  KeepsTasks /\ \A u \in Task : u # t => status'[u] = status[u]
BY DEF TaskType, Patch, KeepsTasks, InMap, Status

LEMMA SameKeeps == status' = status => KeepsTasks
BY DEF KeepsTasks, InMap

MildRun(w) ==
  \/ PassGate(w) \/ QuitQueue(w) \/ WaitForSlot(w)
  \/ BeginUpload(w) \/ BeginDownload(w) \/ UploadProgress(w) \/ DownloadProgress(w)
  \/ UploadEnds(w) \/ DownloadEnds(w) \/ FailUpload(w) \/ FailDownload(w)
  \/ FinishUpload(w) \/ FinishDownload(w) \/ ReleaseSlot(w)

LEMMA RunMild ==
  ASSUME TypeOK, SlotDiscipline, NEW w \in Worker, MildRun(w)
  PROVE  Mild /\ ByHolder /\ call' = call
<1> DEFINE Goal == Mild /\ ByHolder /\ call' = call
<1> USE DEF TypeOK
<1>t. wtask[w] \in Task
  BY DEF GoType
<1>1. CASE PassGate(w) \/ QuitQueue(w) \/ WaitForSlot(w)
  <2>1. KeepsWorkers
    BY <1>1, GotoKeeps DEF PassGate, QuitQueue, WaitForSlot, slotVars
  <2> QED BY <1>1, <2>1, SameKeeps DEF PassGate, QuitQueue, WaitForSlot, taskVars, chanVars,
     mgrVars, Mild, ByHolder
<1>2. ASSUME pc[w] = "got", slot[w] # "none", slot' = slot,
             UNCHANGED <<run, cancel, wtask, wrun, chanVars, mgrVars, call>>,
             Begins(w) \/ Declines(w) \/ (Patch(wtask[w], "failed") /\ Goto(w, "release"))
      PROVE  Goal
  <2>1. KeepsWorkers
    BY <1>2, GotoKeeps DEF Begins, Declines
  <2>2. KeepsTasks /\ \A u \in Task : u # wtask[w] => status'[u] = status[u]
    BY <1>2, <1>t, PatchKeeps, SameKeeps DEF Begins, Declines, Status
  <2> QED BY <1>2, <1>t, <2>1, <2>2 DEF Mild, ByHolder, chanVars, mgrVars
<1>3. CASE BeginUpload(w) \/ BeginDownload(w)
  BY <1>2, <1>3 DEF BeginUpload, BeginDownload, slotVars
<1>4. CASE UploadProgress(w) \/ DownloadProgress(w)
  <2>1. KeepsWorkers
    BY <1>4 DEF UploadProgress, DownloadProgress, KeepsWorkers, goVars, slotVars
  <2>2. KeepsTasks
    BY <1>4, <1>t DEF UploadProgress, DownloadProgress, KeepsTasks, InMap, Status, TaskType
  <2>3. ByHolder
    BY <1>4, <1>t DEF UploadProgress, DownloadProgress, ByHolder, TaskType
  <2> QED BY <1>4, <2>1, <2>2, <2>3 DEF UploadProgress, DownloadProgress, Mild, goVars, chanVars,
     mgrVars
<1>5. CASE UploadEnds(w) \/ DownloadEnds(w)
  <2>1. KeepsWorkers
    BY <1>5, GotoKeeps DEF UploadEnds, DownloadEnds, Fails, slotVars
  <2> QED BY <1>5, <2>1, SameKeeps DEF UploadEnds, DownloadEnds, taskVars, chanVars, mgrVars, Mild,
     ByHolder
<1>6. CASE FailUpload(w) \/ FailDownload(w) \/ FinishUpload(w) \/ FinishDownload(w)
  <2>1. KeepsWorkers
    BY <1>6, GotoKeeps DEF FailUpload, FailDownload, FinishUpload, FinishDownload, slotVars
  <2>2. KeepsTasks /\ \A u \in Task : u # wtask[w] => status'[u] = status[u]
    BY <1>6, <1>t, PatchKeeps, SameKeeps DEF FailUpload, FailDownload, FinishUpload,
       FinishDownload, FailedStatus, Status
  <2>3. slot[w] # "none"
    BY <1>6 DEF FailUpload, FailDownload, FinishUpload, FinishDownload
  <2> QED BY <1>6, <1>t, <2>1, <2>2, <2>3 DEF FailUpload, FailDownload, FinishUpload,
     FinishDownload, Mild, ByHolder, chanVars, mgrVars
<1>7. CASE ReleaseSlot(w)
  <2>1. KeepsWorkers
    BY <1>7 DEF ReleaseSlot, Wake, KeepsWorkers, GoType, SlotType
  <2> QED BY <1>7, <2>1, SameKeeps DEF ReleaseSlot, taskVars, chanVars, mgrVars, Mild, ByHolder
<1> QED BY <1>1, <1>3, <1>4, <1>5, <1>6, <1>7 DEF MildRun

-----------------------------------------------------------------------------
(* The steps at which a run changes hands.                                     *)

Context == TypeOK /\ SlotDiscipline /\ SpawnFresh /\ Ownership

LEMMA HolderAlive ==
  ASSUME Context, NEW w \in Worker, slot[w] # "none"
  PROVE  /\ Alive(w) /\ InMap(wtask[w]) /\ run[wtask[w]] = w /\ cancel[wtask[w]] = w
         /\ w \notin closed
<1>1. pc[w] \in Holding /\ WorkerOwns(w)
  BY DEF Context, SlotDiscipline, Ownership, RunsOwn
<1>2. Alive(w)
  BY <1>1 DEF Holding, Alive
<1> QED BY <1>1, <1>2 DEF WorkerOwns, Alive, Context, Ownership, RunsOwn, Numbered

LEMMA StartOwns == ASSUME Context, NEW w \in Worker, Start(w) PROVE Ownership'
<1> USE DEF Context, TypeOK
<1>1. /\ pc' = [pc EXCEPT ![w] = IF InMap(wtask[w]) THEN "gate" ELSE "ended"]
      /\ wrun' = [wrun EXCEPT ![w] = IF InMap(wtask[w]) THEN run[wtask[w]] ELSE @]
      /\ UNCHANGED <<taskVars, slotVars, wtask, chanVars, mgrVars, call, held>>
      /\ pc[w] = "start"
  BY DEF Start, Goto, GoType
<1>2. ASSUME NEW v \in Worker PROVE WorkerOwns(v)'
  <2>1. WorkerOwns(v) /\ WorkerOwns(w)
    BY DEF Ownership, RunsOwn
  <2>2. CASE v # w
    BY <1>1, <2>1, <2>2 DEF WorkerOwns, Engaged, Alive, GoType, InMap, taskVars, slotVars, chanVars
  <2>3. CASE v = w
    BY <1>1, <2>1, <2>3 DEF WorkerOwns, Engaged, Alive, GoType, InMap, taskVars, slotVars, chanVars
  <2> QED BY <2>2, <2>3
<1>3. Numbered'
  BY <1>1 DEF Ownership, RunsOwn, Numbered, InMap, GoType, taskVars, slotVars, chanVars, mgrVars
<1>4. ASSUME NEW c \in Caller PROVE CallOwns(c)'
  <2>1. CallOwns(c)
    BY DEF Ownership
  <2> QED BY <1>1, <2>1 DEF CallOwns, AwaitsRun, Unheld, InMap, GoType, taskVars, slotVars, chanVars
<1> QED BY <1>2, <1>3, <1>4 DEF Ownership, RunsOwn

LEMMA TakeOwns == ASSUME Context, NEW w \in Worker, TakeSlot(w) PROVE Ownership'
<1> USE DEF Context, TypeOK
<1> DEFINE t == wtask[w]
<1>1. /\ pc' = [pc EXCEPT ![w] = "got"] /\ pc[w] = "acquire"
      /\ slot' = [slot EXCEPT ![w] = SlotKind(t)] /\ SlotKind(t) # "none"
      /\ cancel' = [cancel EXCEPT ![t] = w]
      /\ UNCHANGED <<status, run, wtask, wrun, chanVars, mgrVars, call>>
  BY DEF TakeSlot, Goto, SlotKind
<1>2. t \in Task /\ status[t] = "pending" /\ InMap(t)
  BY DEF TakeSlot, StillQueued, InMap, Status, GoType
<1>3. run[t] = w /\ w \notin closed
  BY <1>1, <1>2 DEF Ownership, RunsOwn, WorkerOwns, Numbered, Alive
<1>4. ASSUME NEW v \in Worker PROVE WorkerOwns(v)'
  <2>1. WorkerOwns(v) /\ wtask[v] \in Task
    BY DEF Ownership, RunsOwn, GoType
  <2>2. CASE v = w
    BY <1>1, <1>2, <1>3, <2>1, <2>2 DEF WorkerOwns, Engaged, Alive, InMap, GoType, TaskType
  <2>3. CASE v # w
    <3>1. slot[v] # "none" => wtask[v] # t
      BY <1>3, <2>3, HolderAlive
    <3>2. slot'[v] = slot[v] /\ pc'[v] = pc[v]
      BY <1>1, <2>3 DEF SlotType, GoType
    <3>3. wtask[v] # t => cancel'[wtask[v]] = cancel[wtask[v]]
      BY <1>1, <2>1 DEF TaskType
    <3> QED BY <1>1, <2>1, <3>1, <3>2, <3>3 DEF WorkerOwns, Engaged, Alive, InMap
  <2> QED BY <2>2, <2>3
<1>5. Numbered'
  BY <1>1 DEF Ownership, RunsOwn, Numbered, InMap, GoType, chanVars, mgrVars
<1>6. ASSUME NEW c \in Caller PROVE CallOwns(c)'
  <2>1. CallOwns(c)
    BY DEF Ownership
  <2>2. call[c].op = "pop" => call[c].task # t
    BY <1>2, <1>3, <2>1 DEF CallOwns, Unheld, Active
  <2>3. call[c].op = "pop" /\ Unheld(call[c].task) => Unheld(call[c].task)'
    BY <1>1, <2>2 DEF Unheld, SlotType
  <2>4. pc'[run[call[c].task]] = "none" <=> pc[run[call[c].task]] = "none"
    BY <1>1 DEF GoType
  <2> QED BY <1>1, <2>1, <2>3, <2>4 DEF CallOwns, AwaitsRun, InMap, chanVars
<1> QED BY <1>4, <1>5, <1>6 DEF Ownership, RunsOwn

LEMMA ExitOwns == ASSUME Context, NEW w \in Worker, Exit(w) PROVE Ownership'
<1> USE DEF Context, TypeOK
<1> DEFINE t == wtask[w]
<1>1. wrun[w] = w /\ w \notin closed /\ slot[w] = "none" /\ t \in Task /\ pc[w] = "exit"
  BY DEF Exit, Ownership, RunsOwn, WorkerOwns, Engaged, Alive, Numbered, SlotDiscipline, Holding,
     GoType
<1>2. /\ pc' = [pc EXCEPT ![w] = "ended"] /\ wrun' = [wrun EXCEPT ![w] = 0]
      /\ closed' = closed \cup {w} /\ panicked' = FALSE
      /\ cancel' = [cancel EXCEPT ![t] = IF InMap(t) /\ run[t] = w THEN 0 ELSE @]
      /\ UNCHANGED <<status, run, slot, wtask, queueOrder, call>>
  BY <1>1 DEF Exit, Goto, slotVars, mgrVars
<1>3. ASSUME NEW v \in Worker PROVE WorkerOwns(v)'
  <2>1. WorkerOwns(v) /\ wtask[v] \in Task
    BY DEF Ownership, RunsOwn, GoType
  <2>2. CASE v = w
    BY <1>1, <1>2, <2>1, <2>2 DEF WorkerOwns, Engaged, Alive, InMap, GoType
  <2>3. CASE v # w
    <3>1. slot[v] # "none" => run[wtask[v]] # w
      BY <2>3, HolderAlive
    <3>2. slot[v] # "none" => cancel'[wtask[v]] = cancel[wtask[v]]
      BY <1>2, <2>1, <3>1 DEF TaskType
    <3>3. pc'[v] = pc[v] /\ wrun'[v] = wrun[v]
      BY <1>2, <2>3 DEF GoType
    <3> QED BY <1>2, <2>1, <3>2, <3>3 DEF WorkerOwns, Engaged, Alive, InMap
  <2> QED BY <2>2, <2>3
<1>4. Numbered'
  BY <1>1, <1>2 DEF Ownership, RunsOwn, Numbered, InMap, GoType
<1>5. ASSUME NEW c \in Caller PROVE CallOwns(c)'
  <2>1. CallOwns(c)
    BY DEF Ownership
  <2>2. pc'[run[call[c].task]] = "none" <=> pc[run[call[c].task]] = "none"
    BY <1>1, <1>2 DEF GoType
  <2> QED BY <1>2, <2>1, <2>2 DEF CallOwns, AwaitsRun, Unheld, InMap
<1> QED BY <1>3, <1>4, <1>5 DEF Ownership, RunsOwn


-----------------------------------------------------------------------------
(* The calls.                                                                  *)

\* A run starts: nobody else works for its task.
LEMMA SpawnOwns ==
  ASSUME Context, NEW t \in Task, NEW n \in Worker, pc[n] = "none", KeepsTasks, InMap(t)',
         \A v \in Worker : Alive(v) => wtask[v] # t,
         run' = [run EXCEPT ![t] = n], Spawn(t, n),
         queueOrder' \in Int, n <= queueOrder', queueOrder <= queueOrder',
         UNCHANGED <<cancel, slot, wrun, chanVars>>
  PROVE  RunsOwn'
<1> USE DEF Context, TypeOK
<1>n. queueOrder \in Int
  BY ConstantsAssumption DEF MgrType, RunNo
<1>1. ASSUME NEW v \in Worker PROVE WorkerOwns(v)'
  <2>1. WorkerOwns(v) /\ wtask[v] \in Task
    BY DEF Ownership, RunsOwn, GoType
  <2>2. CASE v = n
    <3>1. slot[v] = "none" /\ InMap(t)' /\ status'[t] # "unborn" /\ run'[t] = v
      BY <2>2 DEF SlotDiscipline, Holding, InMap, Status, TaskType
    <3> QED BY <2>2, <3>1 DEF Spawn, WorkerOwns, Engaged, Alive, GoType
  <2>3. CASE v # n
    <3>1. pc'[v] = pc[v] /\ wtask'[v] = wtask[v]
      BY <2>3 DEF Spawn, GoType
    <3>2. Alive(v) => run'[wtask[v]] = run[wtask[v]]
      BY <2>1 DEF TaskType
    <3>3. InMap(wtask[v])' <=> InMap(wtask[v])
      BY <2>1, <3>1 DEF KeepsTasks, InMap
    <3> QED BY <2>1, <3>1, <3>2, <3>3 DEF WorkerOwns, Engaged, Alive, KeepsTasks, InMap
  <2> QED BY <2>2, <2>3
<1>2. ASSUME NEW u \in Task, InMap(u)' PROVE run'[u] \in Worker /\ run'[u] <= queueOrder'
  <2>1. InMap(u)
    BY <1>2 DEF KeepsTasks
  <2>2. run[u] \in Worker /\ run[u] <= queueOrder
    BY <2>1 DEF Ownership, RunsOwn, Numbered
  <2>3. run'[u] = n \/ run'[u] = run[u]
    BY DEF TaskType
  <2>4. CASE run'[u] = n
    BY <2>4
  <2>5. CASE run'[u] = run[u]
    BY <1>n, <2>2, <2>5 DEF Worker
  <2> QED BY <2>3, <2>4, <2>5
<1>3. Numbered'
  BY <1>2 DEF Ownership, RunsOwn, Numbered, Spawn, GoType, chanVars
<1> QED BY <1>1, <1>3 DEF RunsOwn

\* A task leaves the map: nobody holds a slot for it.
LEMMA RemoveOwns ==
  ASSUME Context, NEW t \in Task, Remove(t), \A v \in Worker : slot[v] # "none" => wtask[v] # t,
         UNCHANGED <<slotVars, goVars, chanVars, mgrVars>>
  PROVE  RunsOwn'
<1> USE DEF Context, TypeOK
<1>1. \A u \in Task :
        /\ u # t => status'[u] = status[u] /\ run'[u] = run[u] /\ cancel'[u] = cancel[u]
        /\ u = t => status'[u] = "gone"
  BY DEF Remove, TaskType
<1>2. ASSUME NEW v \in Worker PROVE WorkerOwns(v)'
  <2>1. WorkerOwns(v) /\ wtask[v] \in Task
    BY DEF Ownership, RunsOwn, GoType
  <2>2. CASE wtask[v] = t
    BY <1>1, <2>1, <2>2 DEF WorkerOwns, Engaged, Alive, InMap, Status, slotVars, goVars
  <2>3. CASE wtask[v] # t
    BY <1>1, <2>1, <2>3 DEF WorkerOwns, Engaged, Alive, InMap, slotVars, goVars
  <2> QED BY <2>2, <2>3
<1>3. Numbered'
  BY <1>1 DEF Ownership, RunsOwn, Numbered, InMap, Status, goVars, chanVars, mgrVars
<1> QED BY <1>2, <1>3 DEF RunsOwn

LEMMA CreateOwns ==
  ASSUME Context, NEW c \in Caller, NEW t \in Task, Create(c, t)
  PROVE  RunsOwn' /\ CallOwns(c)'
<1> USE DEF Context, TypeOK
<1>1. /\ status[t] = "unborn" /\ queueOrder < MaxRuns
      /\ call'[c] = [op |-> "create", task |-> t, runs |-> {queueOrder + 1}, cancel |-> 0]
      /\ status' = [status EXCEPT ![t] = "pending"] /\ queueOrder' = queueOrder + 1
      /\ run' = [run EXCEPT ![t] = queueOrder + 1]
      /\ UNCHANGED <<cancel, slotVars, goVars, chanVars>>
  BY DEF Create, Enter, CallType
<1>2. queueOrder + 1 \in Worker /\ pc[queueOrder + 1] = "none" /\ queueOrder \in Nat
  BY <1>1, ConstantsAssumption DEF SpawnFresh, Worker, MgrType, RunNo
<1>6. run'[t] = queueOrder + 1 /\ InMap(t)' /\ queueOrder + 1 <= queueOrder'
  <2>1. run'[t] = queueOrder + 1 /\ status'[t] = "pending"
    BY <1>1 DEF TaskType
  <2>2. InMap(t)'
    BY <2>1 DEF InMap, Status
  <2>3. queueOrder + 1 <= queueOrder'
    BY <1>1, <1>2
  <2> QED BY <2>1, <2>2, <2>3
<1>3. ASSUME NEW v \in Worker PROVE WorkerOwns(v)'
  <2>1. WorkerOwns(v) /\ wtask[v] \in Task
    BY DEF Ownership, RunsOwn, GoType
  <2>2. pc[v] # "none" => wtask[v] # t
    BY <1>1, <2>1 DEF WorkerOwns
  <2>3. slot[v] # "none" => pc[v] # "none"
    BY DEF SlotDiscipline, Holding
  <2>4. wtask[v] # t => status'[wtask[v]] = status[wtask[v]] /\ run'[wtask[v]] = run[wtask[v]]
    BY <1>1, <2>1 DEF TaskType
  <2> QED BY <1>1, <2>1, <2>2, <2>3, <2>4 DEF WorkerOwns, Engaged, Alive, InMap, slotVars, goVars
<1>4. ASSUME NEW u \in Task, InMap(u)' PROVE run'[u] \in Worker /\ run'[u] <= queueOrder'
  <2>1. CASE u = t
    BY <1>1, <1>2, <1>6, <2>1
  <2>2. CASE u # t
    <3>1. InMap(u) /\ run'[u] = run[u]
      BY <1>1, <1>4, <2>2 DEF TaskType, InMap
    <3>2. run[u] \in Worker /\ run[u] <= queueOrder
      BY <3>1 DEF Ownership, RunsOwn, Numbered
    <3> QED BY <1>1, <1>2, <3>1, <3>2 DEF Worker
  <2> QED BY <2>1, <2>2
<1>5. Numbered'
  BY <1>1, <1>4 DEF Ownership, RunsOwn, Numbered, goVars, chanVars
<1>7. CallOwns(c)'
  BY <1>1, <1>2, <1>6 DEF CallOwns, AwaitsRun, goVars
<1> QED BY <1>3, <1>5, <1>7 DEF RunsOwn

LEMMA CommitOwns ==
  ASSUME Context, NEW c \in Caller, NEW t \in Task, t = call[c].task, CreateCommit(c)
  PROVE  RunsOwn'
<1> USE DEF Context, TypeOK
<1>1. InMap(t) /\ call[c].runs = {run[t]} /\ pc[run[t]] = "none" /\ run[t] \in Worker
  BY DEF CreateCommit, Ownership, CallOwns, AwaitsRun, CallType, Call, RunsOwn, Numbered
<1>2. \A v \in Worker : Alive(v) => wtask[v] # t
  BY <1>1 DEF Ownership, RunsOwn, WorkerOwns, Alive
<1>3. /\ Spawn(t, run[t]) /\ run' = [run EXCEPT ![t] = run[t]] /\ queueOrder' = queueOrder
      /\ UNCHANGED <<status, cancel, slot, wrun, chanVars>>
  BY <1>1 DEF CreateCommit, taskVars, slotVars, mgrVars, TaskType
<1>4. queueOrder \in Int /\ run[t] <= queueOrder /\ queueOrder <= queueOrder
  BY <1>1, RunNumbers DEF Ownership, RunsOwn, Numbered, MgrType, RunNo
<1>5. KeepsTasks /\ InMap(t)'
  BY <1>1, <1>3 DEF KeepsTasks, InMap
<1> QED BY <1>1, <1>2, <1>3, <1>4, <1>5, SpawnOwns

LEMMA ResumeOwns ==
  ASSUME Context, NEW c \in Caller, NEW t \in Task, t = call[c].task, ResumeRun(c)
  PROVE  RunsOwn'
<1> USE DEF Context, TypeOK
<1> DEFINE n == queueOrder + 1
<1>1. InMap(t) /\ run[t] \in closed
  BY DEF ResumeRun, CanResume, Ownership, CallOwns, AwaitsRun, CallType, Call
<1>2. \A v \in Worker : Alive(v) => wtask[v] # t
  BY <1>1 DEF Ownership, RunsOwn, WorkerOwns, Numbered, Alive
<1>2a. queueOrder \in 0..MaxRuns /\ queueOrder < MaxRuns /\ MaxRuns \in Nat
  BY ConstantsAssumption DEF ResumeRun, MgrType, RunNo
<1>2b. n \in Worker /\ n \in Int /\ n > queueOrder /\ queueOrder <= n /\ n <= n
  BY <1>2a DEF Worker
<1>3. pc[n] = "none"
  BY <1>2b DEF SpawnFresh
<1>4. /\ Spawn(t, n) /\ run' = [run EXCEPT ![t] = n] /\ queueOrder' = n
      /\ status' = [status EXCEPT ![t] = "pending"]
      /\ UNCHANGED <<cancel, slot, wrun, chanVars>>
  BY DEF ResumeRun, slotVars
<1>5. KeepsTasks /\ InMap(t)'
  BY <1>1, <1>4 DEF KeepsTasks, InMap, Status, TaskType
<1> QED BY <1>1, <1>2, <1>2b, <1>3, <1>4, <1>5, SpawnOwns

\* createBatch's roll-back and popTask: the run is yet to start, or over, or never
\* got a slot.
LEMMA RollbackOwns ==
  ASSUME Context, NEW c \in Caller, CreateRollback(c) \/ DeletePop(c)
  PROVE  RunsOwn'
<1> USE DEF Context, TypeOK
<1> DEFINE t == call[c].task
<1>1. t \in Task /\ CallOwns(c)
  BY DEF CallType, Call, Ownership
<1>2. InMap(t) /\ (pc[run[t]] = "none" \/ run[t] \in closed \/ Unheld(t))
  BY <1>1 DEF CreateRollback, DeletePop, CallOwns, AwaitsRun
<1>3. ASSUME NEW v \in Worker, slot[v] # "none", wtask[v] = t PROVE FALSE
  <2>1. Alive(v) /\ run[t] = v /\ v \notin closed
    BY <1>3, HolderAlive
  <2> QED BY <1>2, <1>3, <2>1 DEF Alive, Unheld
<1>4. Remove(t) /\ UNCHANGED <<slotVars, goVars, chanVars, mgrVars>>
  BY <1>2 DEF CreateRollback, DeletePop
<1> QED BY <1>1, <1>3, <1>4, RemoveOwns


\* The calls that leave the runs where they are.
LEMMA CallMild ==
  ASSUME TypeOK, NEW c \in Caller,
         \/ PauseCancel(c) \/ ResumeFileMissing(c) \/ ResumeRefused(c) \/ ResumeGiveUp(c)
         \/ DeleteCancel(c) \/ DeleteTimeout(c) \/ Stop(c) \/ StopReturns(c) \/ StopTimeout(c)
         \/ \E t \in Task : Pause(c, t) \/ Resume(c, t) \/ Delete(c, t)
  PROVE  Mild
<1> USE DEF TypeOK
<1>k. UNCHANGED <<slotVars, goVars>> => KeepsWorkers
  BY DEF slotVars, goVars, KeepsWorkers
<1>1. CASE PauseCancel(c) \/ DeleteCancel(c) \/ Stop(c)
  <2>1. KeepsWorkers
    BY <1>1, WakeKeeps DEF PauseCancel, DeleteCancel, Stop, slotVars
  <2> QED BY <1>1, <2>1, SameKeeps DEF PauseCancel, DeleteCancel, Stop, Mild, taskVars, chanVars,
     mgrVars
<1>2. CASE \/ ResumeRefused(c) \/ ResumeGiveUp(c) \/ DeleteTimeout(c)
           \/ StopReturns(c) \/ StopTimeout(c)
  BY <1>2, <1>k, SameKeeps DEF ResumeRefused, ResumeGiveUp, DeleteTimeout, StopReturns,
     StopTimeout, Mild, taskVars, goVars, chanVars, mgrVars
<1>3. CASE ResumeFileMissing(c)
  <2>1. call[c].task \in Task
    BY DEF CallType, Call
  <2>2. KeepsTasks
    BY <1>3, <2>1, PatchKeeps DEF ResumeFileMissing, Status
  <2> QED BY <1>3, <1>k, <2>2 DEF ResumeFileMissing, Mild, goVars, chanVars, mgrVars
<1>4. ASSUME NEW t \in Task, Pause(c, t) PROVE Mild
  <2>1. KeepsTasks
    BY <1>4 DEF Pause, KeepsTasks, InMap, Status, TaskType
  <2> QED BY <1>4, <1>k, <2>1 DEF Pause, Mild, goVars, chanVars, mgrVars
<1>5. ASSUME NEW t \in Task, Resume(c, t) PROVE Mild
  BY <1>5, <1>k, SameKeeps DEF Resume, Mild, taskVars, goVars, chanVars, mgrVars
<1>6. ASSUME NEW t \in Task, Delete(c, t) PROVE Mild
  <2>1. KeepsTasks
    <3>0. /\ status[t] \in Status
          /\ \/ status' = status
             \/ status' = [status EXCEPT ![t] = IF @ \in Active THEN "canceled" ELSE @]
      BY <1>6 DEF Delete, InMap
    <3>1. \A u \in Task : u # t => status'[u] = status[u]
      BY <3>0 DEF TaskType
    <3>2. status'[t] \in {status[t], "canceled"} /\ status[t] \in Status
      BY <3>0 DEF TaskType
    <3> QED BY <3>1, <3>2 DEF KeepsTasks, InMap, Status
  <2> QED BY <1>6, <1>k, <2>1 DEF Delete, Mild, goVars, chanVars, mgrVars
<1> QED BY <1>1, <1>2, <1>3, <1>4, <1>5, <1>6

\* Where such a call leaves its caller.
LEMMA IdleOwns ==
  ASSUME NEW c \in Caller, call \in [Caller -> Call], Return(c)
  PROVE  CallOwns(c)'
BY DEF Return, Idle, CallOwns, AwaitsRun

LEMMA CallerOwns ==
  ASSUME Context, NEW c \in Caller,
         \/ PauseCancel(c) \/ ResumeFileMissing(c) \/ ResumeRefused(c) \/ ResumeGiveUp(c)
         \/ DeleteCancel(c) \/ DeleteTimeout(c) \/ Stop(c) \/ StopReturns(c) \/ StopTimeout(c)
         \/ \E t \in Task : Pause(c, t) \/ Resume(c, t) \/ Delete(c, t)
  PROVE  CallOwns(c)'
<1> USE DEF Context, TypeOK, CallType
<1>1. CASE \/ PauseCancel(c) \/ ResumeFileMissing(c) \/ ResumeRefused(c) \/ ResumeGiveUp(c)
           \/ DeleteTimeout(c) \/ StopReturns(c) \/ StopTimeout(c)
  BY <1>1, IdleOwns DEF PauseCancel, ResumeFileMissing, ResumeRefused, ResumeGiveUp,
     DeleteTimeout, StopReturns, StopTimeout
<1>2. CASE DeleteCancel(c)
  <2>1. CallOwns(c) /\ call[c].op = "delete"
    BY <1>2 DEF Ownership, DeleteCancel
  <2>2. /\ call'[c].op = "await" /\ call'[c].task = call[c].task /\ call'[c].runs = call[c].runs
        /\ status' = status /\ run' = run
    BY <1>2 DEF DeleteCancel, Call, taskVars
  <2> QED BY <2>1, <2>2 DEF CallOwns, AwaitsRun, InMap
<1>3. CASE Stop(c)
  BY <1>3 DEF Stop, Enter, CallOwns, AwaitsRun
<1>4. ASSUME NEW t \in Task, Pause(c, t) PROVE CallOwns(c)'
  BY <1>4 DEF Pause, Enter, CallOwns, AwaitsRun
<1>5. ASSUME NEW t \in Task, Resume(c, t) PROVE CallOwns(c)'
  BY <1>5 DEF Resume, Enter, CallOwns, AwaitsRun, InMap, taskVars
<1>6. ASSUME NEW t \in Task, Delete(c, t) PROVE CallOwns(c)'
  <2>a. InMap(t) /\ UNCHANGED <<run, slot, closed, wtask, cancel>>
    BY <1>6 DEF Delete, slotVars, goVars, chanVars
  <2>b. status' = status \/ status' = [status EXCEPT ![t] = IF @ \in Active THEN "canceled" ELSE @]
    BY <1>6 DEF Delete
  <2>1. InMap(t) /\ InMap(t)' /\ UNCHANGED <<run, slot, closed, wtask, cancel>>
    BY <2>a, <2>b DEF InMap, Status, TaskType
  <2>2. CASE call'[c].op = "pop"
    <3>1. /\ call'[c].task = t /\ status' = status
          /\ (status[t] \notin Active /\ cancel[t] = 0) \/ run[t] \in closed
      BY <1>6, <2>2 DEF Delete, Enter
    <3>2. cancel[t] = 0 => \A v \in Worker : wtask[v] = t => slot[v] = "none"
      BY HolderAlive DEF Worker
    <3> QED BY <2>1, <2>2, <3>1, <3>2 DEF CallOwns, AwaitsRun, Unheld
  <2>3. CASE call'[c].op # "pop"
    <3>1. call'[c].op = "delete" /\ call'[c].task = t /\ call'[c].runs = {run[t]}
      BY <1>6, <2>3 DEF Delete, Enter
    <3> QED BY <2>1, <3>1 DEF CallOwns, AwaitsRun
  <2> QED BY <2>2, <2>3
<1> QED BY <1>1, <1>2, <1>3, <1>4, <1>5, <1>6

-----------------------------------------------------------------------------
LEMMA InitOwns == Init => Ownership
<1> SUFFICES ASSUME Init PROVE Ownership
  OBVIOUS
<1>1. \A t \in Task : ~InMap(t)
  BY DEF Init, InMap, Status
<1>2. \A w \in Worker : pc[w] = "none" /\ slot[w] = "none"
  BY DEF Init
<1>3. RunsOwn
  BY <1>1, <1>2 DEF Init, RunsOwn, WorkerOwns, Engaged, Alive, Numbered
<1>4. \A c \in Caller : call[c].op = "idle"
  BY DEF Init, Idle
<1> QED BY <1>3, <1>4 DEF Ownership, CallOwns, AwaitsRun

LEMMA OwnershipStep ==
  ASSUME OneCaller, IInv, Ownership, [Next]_vars PROVE Ownership'
<1>c. Context /\ TypeOK /\ SlotDiscipline /\ GoType
  BY DEF IInv, Context, TypeOK
<1>m. ASSUME Mild, ByHolder, call' = call PROVE Ownership'
  BY <1>c, <1>m, MildKeeps, CallsKept DEF Ownership
<1>1. CASE SetLimit
  BY <1>1, <1>c, <1>m, WakeKeeps, SameKeeps DEF SetLimit, Mild, ByHolder, taskVars, chanVars,
     mgrVars
<1>2. CASE OpenGate \/ UNCHANGED vars
  <2>1. /\ UNCHANGED <<status, run, cancel, pc, slot, wtask, wrun, chanVars, queueOrder, call>>
    BY <1>2 DEF OpenGate, vars, taskVars, slotVars, goVars, mgrVars
  <2> QED BY <1>m, <2>1, SameKeeps DEF Mild, ByHolder, KeepsWorkers, chanVars
<1>3. ASSUME NEW w \in Worker, WorkerStep(w) PROVE Ownership'
  BY <1>3, <1>c, <1>m, StartOwns, TakeOwns, ExitOwns, RunMild DEF WorkerStep, MildRun
<1>4. ASSUME NEW c \in Caller, CallStep(c) PROVE Ownership'
  <2> SUFFICES RunsOwn' /\ CallOwns(c)'
    BY DEF OneCaller, Ownership
  <2>t. call[c].task \in Task /\ call \in [Caller -> Call]
    BY <1>c DEF TypeOK, CallType, Call
  <2>1. CASE CreateCommit(c)
    BY <1>c, <2>1, <2>t, CommitOwns, IdleOwns DEF CreateCommit
  <2>2. CASE CreateRollback(c) \/ DeletePop(c)
    BY <1>c, <2>2, <2>t, RollbackOwns, IdleOwns DEF CreateRollback, DeletePop
  <2>3. CASE ResumeRun(c)
    BY <1>c, <2>3, <2>t, ResumeOwns, IdleOwns DEF ResumeRun
  <2>4. ASSUME NEW t \in Task, Create(c, t) PROVE RunsOwn' /\ CallOwns(c)'
    BY <1>c, <2>4, CreateOwns
  <2>5. CASE \/ PauseCancel(c) \/ ResumeFileMissing(c) \/ ResumeRefused(c) \/ ResumeGiveUp(c)
             \/ DeleteCancel(c) \/ DeleteTimeout(c) \/ Stop(c) \/ StopReturns(c) \/ StopTimeout(c)
             \/ \E t \in Task : Pause(c, t) \/ Resume(c, t) \/ Delete(c, t)
    BY <1>c, <2>5, CallMild, CallerOwns, MildKeeps DEF Ownership
  <2> QED BY <1>4, <2>1, <2>2, <2>3, <2>4, <2>5 DEF CallStep
<1> QED BY <1>1, <1>2, <1>3, <1>4 DEF Next

LEMMA OwnershipInvariant ==
  ASSUME OneCaller PROVE Spec => [](IInv /\ Ownership)
<1>1. IInv /\ Ownership /\ [Next]_vars => (IInv /\ Ownership)'
  BY OwnershipStep, NextIInv
<1> QED BY <1>1, InitIInv, InitOwns, PTL DEF Spec

\* While the API's callers take turns, a task has one run at a time: no resume,
\* however it meets a pause, a delete or the end of a run, starts a second worker
\* on a task, and no channel is closed twice.
THEOREM OneRunAtATime == ASSUME OneCaller PROVE Spec => []OneRunPerTask
<1>1. IInv /\ Ownership => OneRunPerTask
  <2> SUFFICES ASSUME IInv, Ownership PROVE OneRunPerTask
    OBVIOUS
  <2>1. Context
    BY DEF IInv, Context
  <2> QED BY <2>1, HolderAlive DEF OneRunPerTask, Ownership, RunsOwn, Numbered
<1> QED BY <1>1, OwnershipInvariant, PTL


-----------------------------------------------------------------------------
(* The phase of a cross-drive task, and the end of a stopped manager.          *)

\* Whoever holds a download slot downloads: its task has not begun to upload.
Downloads(w) ==
  slot[w] = "download" /\ pc[w] # "requeue" => phase[wtask[w]] = "downloading"

\* A Stop waits for everyone who holds a slot.
StopCovers(c) ==
  call[c].op = "stop" =>
    stopping /\ \A w \in Worker : slot[w] # "none" => w \in call[c].runs

PhaseInv == (\A w \in Worker : Downloads(w)) /\ \A c \in Caller : StopCovers(c)

\* A holder of a download slot after the step held it before, for the same phase.
DownloadKept(w) ==
  slot'[w] = "download" /\ pc'[w] # "requeue" =>
    /\ slot[w] = "download" /\ pc[w] # "requeue"
    /\ wtask'[w] = wtask[w] /\ phase'[wtask[w]] = phase[wtask[w]]

LEMMA KeptDownloads ==
  ASSUME NEW w \in Worker, Downloads(w), DownloadKept(w) PROVE Downloads(w)'
BY DEF Downloads, DownloadKept

LEMMA OneHolder ==
  ASSUME Context, NEW v \in Worker, NEW w \in Worker, slot[v] # "none", slot[w] # "none",
         wtask[v] = wtask[w]
  PROVE  v = w
BY HolderAlive

\* What a run does with the phase of its task.
LEMMA RunDownloads ==
  ASSUME Context, PhaseInv, NEW w \in Worker, MildRun(w), NEW v \in Worker
  PROVE  Downloads(v)'
<1> USE DEF Context, TypeOK
<1>d. Downloads(v) /\ Downloads(w) /\ wtask[w] \in Task /\ wtask[v] \in Task
  BY DEF PhaseInv, GoType
<1>k. ASSUME DownloadKept(v) PROVE Downloads(v)'
  BY <1>d, <1>k, KeptDownloads
<1>1. CASE PassGate(w) \/ QuitQueue(w) \/ WaitForSlot(w) \/ UploadEnds(w) \/ DownloadEnds(w)
           \/ FailUpload(w)
  <2>1. UNCHANGED <<phase, slot, wtask>>
    BY <1>1 DEF PassGate, QuitQueue, WaitForSlot, UploadEnds, DownloadEnds, FailUpload, taskVars,
       slotVars
  <2>2. pc'[v] # "requeue" => pc[v] # "requeue"
    BY <1>1 DEF PassGate, QuitQueue, WaitForSlot, UploadEnds, DownloadEnds, FailUpload, Goto,
       Fails, GoType
  <2> QED BY <1>k, <2>1, <2>2 DEF DownloadKept
<1>2. CASE ReleaseSlot(w)
  <2>1. /\ UNCHANGED <<phase, wtask>> /\ slot' = [slot EXCEPT ![w] = "none"]
        /\ v # w => pc'[v] = IF pc[v] = "wait" THEN "acquire" ELSE pc[v]
    BY <1>2 DEF ReleaseSlot, Wake, GoType, taskVars
  <2> QED BY <1>k, <2>1 DEF DownloadKept, SlotType
<1>3. ASSUME slot[w] # "none", slot' = slot, wtask' = wtask, v # w, pc'[v] = pc[v],
             phase' = phase \/ \E p : phase' = [phase EXCEPT ![wtask[w]] = p]
      PROVE  Downloads(v)'
  <2>1. slot[v] = "download" => wtask[v] # wtask[w]
    BY <1>3, OneHolder
  <2> QED BY <1>d, <1>k, <1>3, <2>1 DEF DownloadKept, TaskType
<1>4. CASE BeginUpload(w) \/ BeginDownload(w) \/ UploadProgress(w) \/ DownloadProgress(w)
           \/ FailDownload(w) \/ FinishUpload(w) \/ FinishDownload(w)
  <2>1. CASE v # w
    <3>1. slot[w] # "none" /\ slot' = slot /\ wtask' = wtask /\ pc'[v] = pc[v]
      BY <1>4, <2>1 DEF BeginUpload, BeginDownload, Begins, Declines, UploadProgress,
         DownloadProgress, FailDownload, FinishUpload, FinishDownload, Goto, GoType, slotVars,
         goVars
    <3>2. phase' = phase \/ \E p : phase' = [phase EXCEPT ![wtask[w]] = p]
      BY <1>4 DEF BeginUpload, BeginDownload, Begins, Declines, UploadProgress,
         DownloadProgress, FailDownload, FinishUpload, FinishDownload
    <3> QED BY <1>3, <2>1, <3>1, <3>2
  <2>2. CASE v = w /\ slot[w] = "upload"
    BY <1>4, <2>2 DEF BeginUpload, BeginDownload, UploadProgress, DownloadProgress, FailDownload,
       FinishUpload, FinishDownload, Downloads, slotVars
  <2>3. CASE v = w /\ slot[w] = "download"
    <3>1. CASE BeginDownload(w)
      BY <1>d, <2>3, <3>1 DEF BeginDownload, Begins, Declines, PhaseOf, Downloads, TaskType,
         slotVars
    <3>2. CASE DownloadProgress(w)
      BY <1>d, <2>3, <3>2 DEF DownloadProgress, Downloads, TaskType, slotVars, goVars
    <3>3. CASE FailDownload(w)
      BY <1>d, <2>3, <3>3, HolderAlive DEF FailDownload, Downloads, TaskType, slotVars
    <3>4. CASE FinishDownload(w)
      BY <2>3, <3>4 DEF FinishDownload, Goto, Downloads, GoType
    <3> QED BY <1>4, <2>3, <3>1, <3>2, <3>3, <3>4 DEF BeginUpload, UploadProgress, FinishUpload
  <2>4. slot[w] \in {"upload", "download"}
    BY <1>4 DEF BeginUpload, BeginDownload, UploadProgress, DownloadProgress, FailDownload,
       FinishUpload, FinishDownload
  <2> QED BY <2>1, <2>2, <2>3, <2>4
<1> QED BY <1>1, <1>2, <1>4 DEF MildRun


LEMMA WorkerDownloads ==
  ASSUME Context, PhaseInv, NEW w \in Worker, WorkerStep(w), NEW v \in Worker
  PROVE  Downloads(v)'
<1> USE DEF Context, TypeOK
<1>d. Downloads(v) /\ wtask[v] \in Task /\ wtask[w] \in Task
  BY DEF PhaseInv, GoType
<1>1. CASE Start(w) \/ Exit(w)
  <2>1. UNCHANGED <<phase, slot, wtask>> /\ (pc'[v] # "requeue" => pc[v] # "requeue")
    BY <1>1 DEF Start, Exit, Goto, GoType, taskVars, slotVars
  <2> QED BY <1>d, <2>1, KeptDownloads DEF DownloadKept
<1>2. CASE TakeSlot(w)
  <2>1. /\ UNCHANGED <<phase, wtask>> /\ slot' = [slot EXCEPT ![w] = SlotKind(wtask[w])]
        /\ pc'[v] # "requeue" => pc[v] # "requeue"
    BY <1>2 DEF TakeSlot, Goto, GoType
  <2>2. CASE v # w
    BY <1>d, <2>1, <2>2, KeptDownloads DEF DownloadKept, SlotType
  <2>3. CASE v = w
    BY <2>1, <2>3 DEF Downloads, SlotKind, SlotType
  <2> QED BY <2>2, <2>3
<1>3. CASE MildRun(w)
  BY <1>3, RunDownloads
<1> QED BY <1>1, <1>2, <1>3 DEF WorkerStep, MildRun

LEMMA WorkerCovered ==
  ASSUME Context, PhaseInv, NEW w \in Worker, WorkerStep(w), NEW c \in Caller
  PROVE  StopCovers(c)'
<1> USE DEF Context, TypeOK
<1>1. StopCovers(c)
  BY DEF PhaseInv
<1>2. CASE TakeSlot(w)
  BY <1>1, <1>2 DEF StopCovers, TakeSlot, StillQueued, mgrVars
<1>3. CASE ~TakeSlot(w)
  <2>1. CASE Start(w) \/ Exit(w)
    BY <1>1, <2>1 DEF Start, Exit, StopCovers, slotVars, mgrVars
  <2>2. CASE MildRun(w)
    <3>1. call' = call /\ KeepsWorkers
      BY <2>2, RunMild DEF Mild
    <3>2. stopping' = stopping
      BY <2>2 DEF MildRun, PassGate, QuitQueue, WaitForSlot, BeginUpload, BeginDownload,
         UploadProgress, DownloadProgress, UploadEnds, DownloadEnds, FailUpload, FailDownload,
         FinishUpload, FinishDownload, ReleaseSlot, mgrVars
    <3> QED BY <1>1, <3>1, <3>2 DEF StopCovers, KeepsWorkers
  <2> QED BY <1>3, <2>1, <2>2 DEF WorkerStep, MildRun
<1> QED BY <1>2, <1>3

LEMMA CallDownloads ==
  ASSUME Context, Ownership', PhaseInv, NEW c \in Caller, CallStep(c), NEW v \in Worker
  PROVE  Downloads(v)'
<1> USE DEF Context, TypeOK
<1>d. Downloads(v) /\ wtask[v] \in Task /\ call[c].task \in Task
  BY DEF PhaseInv, GoType, CallType, Call
<1>1. slot' = slot
  BY DEF CallStep, CreateCommit, CreateRollback, PauseCancel, ResumeRun, ResumeFileMissing,
     ResumeRefused, ResumeGiveUp, DeleteCancel, DeletePop, DeleteTimeout, Stop, StopReturns,
     StopTimeout, Create, Pause, Resume, Delete, slotVars
<1>2. CASE CreateRollback(c) \/ DeletePop(c)
  <2>1. goVars' = goVars
    BY <1>2 DEF CreateRollback, DeletePop
  <2>2. CASE Remove(call[c].task)
    <3>1. slot[v] # "none" => wtask[v] # call[c].task
      <4>1. slot'[v] # "none" => status'[wtask'[v]] \in Status
        BY DEF Ownership, RunsOwn, WorkerOwns, InMap
      <4>2. status'[call[c].task] = "gone" /\ wtask' = wtask
        BY <1>d, <2>1, <2>2 DEF Remove, TaskType, goVars
      <4> QED BY <1>1, <4>1, <4>2 DEF Status
    <3>2. wtask[v] # call[c].task => phase'[wtask[v]] = phase[wtask[v]]
      BY <1>d, <2>2 DEF Remove, TaskType
    <3> QED BY <1>1, <1>d, <2>1, <3>1, <3>2, KeptDownloads DEF DownloadKept, goVars
  <2>3. CASE phase' = phase
    BY <1>1, <1>d, <2>1, <2>3, KeptDownloads DEF DownloadKept, goVars
  <2> QED BY <1>2, <2>2, <2>3 DEF CreateRollback, DeletePop, taskVars
<1>3. CASE CreateCommit(c) \/ ResumeRun(c)
  <2>1. phase' = phase
    BY <1>3 DEF CreateCommit, ResumeRun, taskVars
  <2>2. PICK t \in Task, n \in Nat : Spawn(t, n) /\ (n \in Worker => slot[n] = "none")
    <3>1. CASE CreateCommit(c)
      <4>1. PICK n \in call[c].runs : Spawn(call[c].task, n)
        BY <3>1 DEF CreateCommit
      <4>2. n \in Worker => pc[n] = "none"
        BY <3>1, <4>1 DEF CreateCommit, SpawnFresh, Creates
      <4>3. n \in Nat
        BY <4>1, ConstantsAssumption DEF CallType, Call, RunNo
      <4> QED BY <1>d, <4>1, <4>2, <4>3 DEF SlotDiscipline, Holding
    <3>2. CASE ResumeRun(c)
      <4>1. Spawn(call[c].task, queueOrder + 1)
        BY <3>2 DEF ResumeRun
      <4>2. queueOrder + 1 \in Worker => pc[queueOrder + 1] = "none"
        BY ConstantsAssumption DEF SpawnFresh, MgrType, RunNo
      <4>3. queueOrder + 1 \in Nat
        BY ConstantsAssumption DEF MgrType, RunNo
      <4> QED BY <1>d, <4>1, <4>2, <4>3 DEF SlotDiscipline, Holding
    <3> QED BY <1>3, <3>1, <3>2
  <2>3. slot[v] # "none" => pc'[v] = pc[v] /\ wtask'[v] = wtask[v]
    BY <2>2 DEF Spawn, GoType
  <2> QED BY <1>1, <1>d, <2>1, <2>3, KeptDownloads DEF DownloadKept
<1>4. CASE PauseCancel(c) \/ DeleteCancel(c) \/ Stop(c)
  <2>1. phase' = phase /\ wtask' = wtask /\ pc' = Wake(pc)
    BY <1>4 DEF PauseCancel, DeleteCancel, Stop, taskVars
  <2>2. pc'[v] # "requeue" => pc[v] # "requeue"
    BY <2>1 DEF Wake, GoType
  <2> QED BY <1>1, <1>d, <2>1, <2>2, KeptDownloads DEF DownloadKept
<1>5. CASE \/ ResumeFileMissing(c) \/ ResumeRefused(c) \/ ResumeGiveUp(c) \/ DeleteTimeout(c)
           \/ StopReturns(c) \/ StopTimeout(c)
           \/ \E t \in Task : Create(c, t) \/ Pause(c, t) \/ Resume(c, t) \/ Delete(c, t)
  <2>1. phase' = phase /\ goVars' = goVars
    BY <1>5 DEF ResumeFileMissing, ResumeRefused, ResumeGiveUp, DeleteTimeout, StopReturns,
       StopTimeout, Create, Pause, Resume, Delete, taskVars
  <2> QED BY <1>1, <1>d, <2>1, KeptDownloads DEF DownloadKept, goVars
<1> QED BY <1>2, <1>3, <1>4, <1>5 DEF CallStep

LEMMA CallCovered ==
  ASSUME Context, PhaseInv, NEW c \in Caller, CallStep(c)
  PROVE  StopCovers(c)'
<1> USE DEF Context, TypeOK, CallType
<1>1. CASE Stop(c)
  <2>1. /\ stopping' /\ slot' = slot
        /\ call'[c].runs = {run[t] : t \in {u \in Task : InMap(u)}}
    BY <1>1 DEF Stop, Enter, slotVars
  <2>2. \A w \in Worker : slot[w] # "none" =>
          wtask[w] \in Task /\ InMap(wtask[w]) /\ run[wtask[w]] = w
    BY HolderAlive DEF GoType
  <2> QED BY <2>1, <2>2 DEF StopCovers
<1>2. CASE ~Stop(c)
  <2> SUFFICES call'[c].op # "stop"
    BY DEF StopCovers
  <2>1. ASSUME Return(c) PROVE call'[c].op # "stop"
    BY <2>1 DEF Return, Idle
  <2>2. ASSUME NEW o \in Op \ {"stop"}, NEW t, NEW runs, NEW n, Enter(c, o, t, runs, n)
        PROVE  call'[c].op # "stop"
    BY <2>2 DEF Enter
  <2>3. CASE \/ CreateCommit(c) \/ CreateRollback(c) \/ PauseCancel(c) \/ ResumeRun(c)
             \/ ResumeFileMissing(c) \/ ResumeRefused(c) \/ ResumeGiveUp(c) \/ DeletePop(c)
             \/ DeleteTimeout(c) \/ StopReturns(c) \/ StopTimeout(c)
    BY <2>1, <2>3 DEF CreateCommit, CreateRollback, PauseCancel, ResumeRun, ResumeFileMissing,
       ResumeRefused, ResumeGiveUp, DeletePop, DeleteTimeout, StopReturns, StopTimeout
  <2>4. CASE DeleteCancel(c)
    BY <2>4 DEF DeleteCancel, Call
  <2>5. ASSUME NEW t \in Task, Create(c, t) \/ Pause(c, t) \/ Resume(c, t) \/ Delete(c, t)
        PROVE  call'[c].op # "stop"
    BY <2>2, <2>5 DEF Create, Pause, Resume, Delete, Op
  <2> QED BY <1>2, <2>3, <2>4, <2>5 DEF CallStep
<1> QED BY <1>1, <1>2

LEMMA PhaseStep ==
  ASSUME OneCaller, IInv, Ownership, Ownership', PhaseInv, [Next]_vars PROVE PhaseInv'
<1>c. Context /\ GoType /\ SlotType
  BY DEF IInv, Context, TypeOK
<1>1. CASE SetLimit \/ OpenGate \/ UNCHANGED vars
  <2>1. UNCHANGED <<phase, slot, wtask, stopping, call>> /\ (pc' = pc \/ pc' = Wake(pc))
    BY <1>1 DEF SetLimit, OpenGate, vars, taskVars, slotVars, goVars, mgrVars
  <2>2. \A v \in Worker : pc'[v] # "requeue" => pc[v] # "requeue"
    BY <1>c, <2>1 DEF Wake, GoType
  <2> QED BY <2>1, <2>2 DEF PhaseInv, Downloads, StopCovers
<1>2. ASSUME NEW w \in Worker, WorkerStep(w) PROVE PhaseInv'
  BY <1>c, <1>2, WorkerDownloads, WorkerCovered DEF PhaseInv
<1>3. ASSUME NEW c \in Caller, CallStep(c) PROVE PhaseInv'
  BY <1>c, <1>3, CallDownloads, CallCovered DEF PhaseInv, OneCaller
<1> QED BY <1>1, <1>2, <1>3 DEF Next

LEMMA PhaseInvariant ==
  ASSUME OneCaller PROVE Spec => [](IInv /\ Ownership /\ PhaseInv)
<1>1. Init => PhaseInv
  <2> SUFFICES ASSUME Init PROVE PhaseInv
    OBVIOUS
  <2>1. \A w \in Worker : slot[w] = "none"
    BY DEF Init
  <2>2. \A c \in Caller : call[c].op = "idle"
    BY DEF Init, Idle
  <2> QED BY <2>1, <2>2 DEF PhaseInv, Downloads, StopCovers
<1>2. IInv /\ Ownership /\ PhaseInv /\ [Next]_vars => (IInv /\ Ownership /\ PhaseInv)'
  BY OwnershipStep, NextIInv, PhaseStep
<1> QED BY <1>1, <1>2, InitIInv, InitOwns, PTL DEF Spec

\* While callers take turns: the source of a cross-drive task is never downloaded
\* again once its upload has begun, whatever pauses and resumes there are.
THEOREM DownloadsOnce == ASSUME OneCaller PROVE Spec => DownloadOnce
<1> DEFINE Kept == \A t \in Task : InMap(t) /\ phase[t] = "uploading" => phase'[t] = "uploading"
<1>1. ASSUME IInv, Ownership, PhaseInv, [Next]_vars PROVE Kept
  <2> SUFFICES ASSUME NEW t \in Task, InMap(t), phase[t] = "uploading", phase'[t] # "uploading"
               PROVE  FALSE
    OBVIOUS
  <2>c. Context /\ TypeOK /\ TaskType
    BY <1>1 DEF IInv, Context, TypeOK
  <2>1. PICK w \in Worker : BeginDownload(w) \/ DownloadProgress(w) \/ FailDownload(w)
    <3>1. ASSUME NEW w \in Worker, WorkerStep(w)
          PROVE  BeginDownload(w) \/ DownloadProgress(w) \/ FailDownload(w)
      BY <2>c, <3>1 DEF WorkerStep, Start, PassGate, QuitQueue, TakeSlot, WaitForSlot, BeginUpload,
         Begins, Declines, PhaseOf, UploadProgress, UploadEnds, DownloadEnds, FailUpload,
         FinishUpload, FinishDownload, ReleaseSlot, Exit, taskVars, TaskType
    <3>2. ASSUME NEW c \in Caller, CallStep(c) PROVE FALSE
      BY <2>c, <3>2 DEF CallStep, CreateCommit, CreateRollback, Remove, PauseCancel, ResumeRun,
         ResumeFileMissing, ResumeRefused, ResumeGiveUp, DeleteCancel, DeletePop, DeleteTimeout,
         Stop, StopReturns, StopTimeout, Create, Pause, Resume, Delete, taskVars, TaskType
    <3>3. CASE SetLimit \/ OpenGate \/ UNCHANGED vars
      BY <3>3 DEF SetLimit, OpenGate, vars, taskVars
    <3> QED BY <1>1, <3>1, <3>2, <3>3 DEF Next
  <2>2. wtask[w] = t
    BY <2>c, <2>1 DEF BeginDownload, Begins, Declines, DownloadProgress, FailDownload, TaskType
  <2>3. slot[w] = "download" /\ pc[w] # "requeue"
    BY <2>1 DEF BeginDownload, DownloadProgress, FailDownload
  <2> QED BY <1>1, <2>2, <2>3 DEF PhaseInv, Downloads
<1> QED BY <1>1, PhaseInvariant, PTL DEF Spec, DownloadOnce

\* While callers take turns: when Stop returns before its deadline, no run is
\* transferring any more.
THEOREM StopsDrain == ASSUME OneCaller PROVE Spec => StopDrains
<1> DEFINE Drained == \A c \in Caller : StopReturns(c) => \A w \in Worker : pc[w] # "transfer"
<1>1. ASSUME IInv, Ownership, PhaseInv PROVE Drained
  <2> SUFFICES ASSUME NEW c \in Caller, StopReturns(c), NEW w \in Worker, pc[w] = "transfer"
               PROVE  FALSE
    OBVIOUS
  <2>c. Context /\ SlotDiscipline
    BY <1>1 DEF IInv, Context
  <2>1. slot[w] # "none"
    BY <2>c DEF SlotDiscipline, Holding
  <2>2. w \in closed
    BY <1>1, <2>1 DEF PhaseInv, StopCovers, StopReturns
  <2> QED BY <2>1, <2>2, <2>c, HolderAlive
<1> QED BY <1>1, PhaseInvariant, PTL DEF Spec, StopDrains


-----------------------------------------------------------------------------
(* What the API says of an upload.  A run that has left the queue or the drive *)
(* leaves the task in a status that is not an active one, because a context is *)
(* cancelled only for a task that is no longer pending.                        *)

Plain == CrossTask = {}

Transfers == {"transfer", "done", "fail", "failPaused"}

OfTask(n, t) == n \in Worker /\ pc[n] # "none" /\ wtask[n] = t

RunTruth(w) ==
  /\ slot[w] # "download" /\ pc[w] # "requeue"
  /\ w \in canceled => pc[w] # "none"
  /\ InMap(wtask[w]) =>
       /\ pc[w] \in {"release", "exit"} /\ ~stopping => status[wtask[w]] \notin Active
       /\ w \in canceled /\ Alive(w) => status[wtask[w]] # "pending"

IsCreated(t) == \E c \in Caller : call[c].op = "create" /\ call[c].task = t

TaskTruth(t) ==
  /\ status[t] = "running" => OfTask(run[t], t) /\ pc[run[t]] \in Transfers
  /\ status[t] = "pending" /\ ~stopping => IsCreated(t) \/ (OfTask(run[t], t) /\ Alive(run[t]))
  /\ t \in held => InMap(t) /\ status[t] # "pending"
  /\ cancel[t] # 0 => OfTask(cancel[t], t)

CallTruth(c) ==
  LET t == call[c].task IN
  call[c].op \in {"pause", "delete"} =>
    /\ InMap(t) /\ status[t] # "pending"
    /\ call[c].cancel # 0 => OfTask(call[c].cancel, t)

Truth == /\ \A w \in Worker : RunTruth(w)
         /\ \A t \in Task : TaskTruth(t)
         /\ \A c \in Caller : CallTruth(c)

\* What a step of the run w does, as far as Truth is concerned.
RunEffect(w) ==
  LET t == wtask[w] IN
  /\ Alive(w) /\ KeepsTasks
  /\ UNCHANGED <<run, wtask, stopping, call, held>> /\ canceled' \subseteq canceled
  /\ \A u \in Task : /\ u # t => status'[u] = status[u]
                     /\ status'[u] = "pending" => status[u] = "pending"
                     /\ cancel'[u] \in {cancel[u], 0} \/ (u = t /\ cancel'[u] = w)
  /\ \A v \in Worker \ {w} : /\ slot'[v] = slot[v]
                             /\ pc'[v] = pc[v] \/ (pc[v] = "wait" /\ pc'[v] = "acquire")
  /\ slot'[w] # "download" /\ pc'[w] \notin {"none", "requeue"}
  /\ status'[t] = "running" => pc'[w] \in Transfers
  /\ pc'[w] \in {"release", "exit"} /\ InMap(t) /\ ~stopping => status'[t] \notin Active
  /\ pc'[w] = "ended" /\ InMap(t) /\ ~stopping => status'[t] # "pending"

LEMMA AliveOwner ==
  ASSUME Context, NEW v \in Worker, Alive(v), InMap(wtask[v]) PROVE run[wtask[v]] = v
BY DEF Context, Ownership, RunsOwn, WorkerOwns

LEMMA EffectTruth ==
  ASSUME Context, Truth, NEW w \in Worker, RunEffect(w) PROVE Truth'
<1> USE DEF Context, TypeOK
<1>t. wtask[w] \in Task /\ RunTruth(w) /\ 0 \notin Worker
  BY DEF GoType, Truth, Worker
<1>1. ASSUME NEW v \in Worker PROVE RunTruth(v)'
  <2>1. RunTruth(v) /\ wtask[v] \in Task
    BY DEF Truth, GoType
  <2>2. InMap(wtask[v])' <=> InMap(wtask[v])
    BY <2>1 DEF RunEffect, KeepsTasks, InMap
  <2>3. CASE v = w
    BY <2>1, <2>2, <2>3 DEF RunEffect, RunTruth
  <2>4. CASE v # w
    <3>1. Alive(v) /\ InMap(wtask[v]) => wtask[v] # wtask[w]
      BY <2>4, AliveOwner DEF RunEffect
    <3>2. Alive(v) /\ InMap(wtask[v]) => status'[wtask[v]] = status[wtask[v]]
      BY <2>1, <3>1 DEF RunEffect
    <3>3. /\ slot'[v] = slot[v] /\ wtask' = wtask /\ stopping' = stopping
          /\ pc'[v] = pc[v] \/ (pc[v] = "wait" /\ pc'[v] = "acquire")
          /\ v \in canceled' => v \in canceled
      BY <2>4 DEF RunEffect
    <3>4. status'[wtask[v]] = "pending" => status[wtask[v]] = "pending"
      BY <2>1 DEF RunEffect
    <3> QED BY <2>1, <2>2, <3>2, <3>3, <3>4 DEF RunTruth, Alive
  <2> QED BY <2>3, <2>4
<1>2. ASSUME NEW u \in Task PROVE TaskTruth(u)'
  <2>1. TaskTruth(u) /\ run[u] \in RunNo
    BY DEF Truth, TaskType
  <2>o. ASSUME NEW n \in Worker, OfTask(n, u) PROVE OfTask(n, u)'
    BY <2>o DEF OfTask, RunEffect
  <2>2. ASSUME status'[u] = "running"
        PROVE  OfTask(run[u], u)' /\ pc'[run'[u]] \in Transfers
    <3>1. CASE u = wtask[w]
      <4>1. InMap(u)
        BY <2>2 DEF RunEffect, KeepsTasks, InMap, Status
      <4>2. run[u] = w
        BY <3>1, <4>1, AliveOwner DEF RunEffect
      <4> QED BY <2>2, <3>1, <4>2 DEF RunEffect, OfTask
    <3>2. CASE u # wtask[w]
      <4>1. OfTask(run[u], u) /\ pc[run[u]] \in Transfers /\ run[u] # w
        BY <2>1, <2>2, <3>2 DEF RunEffect, TaskTruth, OfTask
      <4>2. pc'[run[u]] = pc[run[u]]
        BY <4>1 DEF RunEffect, OfTask, Transfers
      <4> QED BY <4>1, <4>2, <2>o DEF RunEffect, OfTask
    <3> QED BY <3>1, <3>2
  <2>3. ASSUME status'[u] = "pending", ~stopping'
        PROVE  IsCreated(u)' \/ (OfTask(run[u], u) /\ Alive(run[u]))'
    <3>1. status[u] = "pending" /\ ~stopping /\ InMap(u)
      BY <2>3 DEF RunEffect, InMap, Status
    <3>2. CASE IsCreated(u)
      BY <3>2 DEF RunEffect, IsCreated
    <3>3. CASE OfTask(run[u], u) /\ Alive(run[u])
      <4>1. CASE run[u] # w
        BY <2>o, <3>3, <4>1 DEF RunEffect, OfTask, Alive
      <4>2. CASE run[u] = w
        BY <2>3, <3>1, <3>3, <4>2 DEF RunEffect, OfTask, Alive
      <4> QED BY <4>1, <4>2
    <3> QED BY <2>1, <3>1, <3>2, <3>3 DEF TaskTruth
  <2>4. u \in held' => InMap(u)' /\ status'[u] # "pending"
    BY <2>1 DEF TaskTruth, RunEffect, KeepsTasks
  <2>5. cancel'[u] # 0 => OfTask(cancel[u], u)'
    <3>1. CASE cancel'[u] = cancel[u]
      BY <2>1, <2>o, <3>1 DEF TaskTruth, OfTask, RunEffect
    <3>2. CASE u = wtask[w] /\ cancel'[u] = w
      BY <3>2 DEF OfTask, RunEffect
    <3> QED BY <3>1, <3>2 DEF RunEffect
  <2> QED BY <2>2, <2>3, <2>4, <2>5 DEF TaskTruth
<1>3. ASSUME NEW c \in Caller PROVE CallTruth(c)'
  <2>1. CallTruth(c) /\ call[c].task \in Task
    BY DEF Truth, CallType, Call
  <2> QED BY <2>1 DEF CallTruth, RunEffect, OfTask, KeepsTasks
<1> QED BY <1>1, <1>2, <1>3 DEF Truth


\* A worker that is not transferring has no task shown as running, and one whose
\* context has been cancelled has none that is pending.
LEMMA RunFacts ==
  ASSUME Context, Truth, NEW w \in Worker, InMap(wtask[w]), Alive(w)
  PROVE  /\ run[wtask[w]] = w
         /\ status[wtask[w]] = "running" => pc[w] \in Transfers
         /\ w \in canceled => status[wtask[w]] # "pending"
<1>1. wtask[w] \in Task /\ run[wtask[w]] = w
  BY AliveOwner DEF Context, TypeOK, GoType
<1> QED BY <1>1 DEF Truth, TaskTruth, RunTruth

\* The steps that leave the status alone.
LEMMA StillEffect ==
  ASSUME Context, Truth, NEW w \in Worker, Alive(w), NEW l, l \notin {"none", "requeue"},
         status' = status, Goto(w, l), slot' = slot \/ slot' = [slot EXCEPT ![w] = "upload"],
         UNCHANGED <<run, wtask, stopping, call, held>>, canceled' \subseteq canceled,
         \A u \in Task : cancel'[u] \in {cancel[u], 0} \/ (u = wtask[w] /\ cancel'[u] = w),
         status[wtask[w]] = "running" => pc[w] \notin Transfers \/ l \in Transfers,
         l \in {"release", "exit", "ended"} /\ ~stopping /\ InMap(wtask[w]) =>
           status[wtask[w]] # "pending",
         l \in {"release", "exit"} => pc[w] \notin Transfers \/ ~InMap(wtask[w])
  PROVE  RunEffect(w)
<1> USE DEF Context, TypeOK
<1>1. slot[w] # "download" /\ slot'[w] # "download"
  BY DEF Truth, RunTruth, SlotType
<1>2. pc' = [pc EXCEPT ![w] = l] /\ pc'[w] = l /\ \A v \in Worker \ {w} : pc'[v] = pc[v]
  BY DEF Goto, GoType
<1>3. \A v \in Worker \ {w} : slot'[v] = slot[v]
  BY DEF SlotType
<1>4. status[wtask[w]] = "running" => pc[w] \in Transfers /\ InMap(wtask[w])
  BY RunFacts DEF InMap, Status
<1>5. KeepsTasks
  BY SameKeeps
<1> QED BY <1>1, <1>2, <1>3, <1>4, <1>5 DEF RunEffect, Active

\* The steps that patch it.
LEMMA PatchEffect ==
  ASSUME Context, Truth, NEW w \in Worker, Alive(w), NEW l, NEW p \in Status \ {"pending"},
         Patch(wtask[w], p), Goto(w, l), slot' = slot,
         UNCHANGED <<run, wtask, stopping, call, held, canceled, cancel>>,
         (p = "running" /\ l = "transfer") \/ (p \notin Active /\ l = "release")
  PROVE  RunEffect(w)
<1> USE DEF Context, TypeOK
<1>1. slot[w] # "download" /\ wtask[w] \in Task
  BY DEF Truth, RunTruth, GoType
<1>2. pc'[w] = l /\ \A v \in Worker \ {w} : pc'[v] = pc[v]
  BY DEF Goto, GoType
<1>3. KeepsTasks /\ \A u \in Task : u # wtask[w] => status'[u] = status[u]
  BY <1>1, PatchKeeps
<1>4. status'[wtask[w]] = IF InMap(wtask[w]) THEN p ELSE status[wtask[w]]
  BY <1>1 DEF Patch, TaskType
<1>5. status'[wtask[w]] = "running" => l \in Transfers
  BY <1>4 DEF Active, InMap, Status, Transfers
<1>6. l \in {"transfer", "release"} /\ l \notin {"none", "requeue", "ended", "exit"}
  BY DEF Transfers
<1>7. l = "release" /\ InMap(wtask[w]) => status'[wtask[w]] \notin Active
  BY <1>4 DEF Transfers
<1>8. \A u \in Task : status'[u] = "pending" => status[u] = "pending"
  BY <1>3, <1>4
<1> QED BY <1>1, <1>2, <1>3, <1>5, <1>6, <1>7, <1>8 DEF RunEffect

LEMMA WorkerEffect ==
  ASSUME Plain, Context, Truth, NEW w \in Worker, WorkerStep(w) PROVE RunEffect(w)
<1> USE DEF Context, TypeOK
<1> DEFINE t == wtask[w]
<1>t. t \in Task /\ slot[w] # "download" /\ pc[w] # "requeue" /\ RunTruth(w)
  BY DEF Truth, RunTruth, GoType
<1>k. \A u \in Task : SlotKind(u) = "upload"
  BY DEF Plain, SlotKind
<1>s. "transfer" \in Transfers /\ "running" \in Status \ {"pending"}
  BY DEF Transfers, Status
<1>1. CASE Start(w)
  BY <1>1, <1>t, StillEffect DEF Start, Alive, Transfers, taskVars, slotVars, chanVars, mgrVars
<1>2. CASE PassGate(w)
  BY <1>2, <1>t, StillEffect DEF PassGate, Alive, Transfers, taskVars, slotVars, chanVars, mgrVars
<1>3. CASE QuitQueue(w)
  <2>1. wrun[w] = w
    BY <1>3 DEF QuitQueue, Ownership, RunsOwn, WorkerOwns, Engaged, Alive
  <2>2. ~stopping /\ InMap(t) => status[t] # "pending"
    BY <1>3, <2>1, AliveOwner DEF QuitQueue, StillQueued, Alive
  <2> QED BY <1>3, <2>2, StillEffect DEF QuitQueue, Alive, Transfers, taskVars, slotVars, chanVars,
     mgrVars
<1>4. CASE TakeSlot(w)
  <2>1. /\ status' = status /\ Goto(w, "got") /\ slot' = [slot EXCEPT ![w] = "upload"]
        /\ UNCHANGED <<run, wtask, stopping, call, held, canceled>> /\ Alive(w)
        /\ cancel' = [cancel EXCEPT ![t] = w]
    BY <1>4, <1>t, <1>k DEF TakeSlot, Alive, chanVars, mgrVars
  <2>2. \A u \in Task : cancel'[u] \in {cancel[u], 0} \/ (u = t /\ cancel'[u] = w)
    BY <2>1 DEF TaskType
  <2>3. pc[w] \notin Transfers
    BY <1>4 DEF TakeSlot, Transfers
  <2> QED BY <2>1, <2>2, <2>3, StillEffect
<1>5. CASE WaitForSlot(w)
  BY <1>5, StillEffect DEF WaitForSlot, Alive, Transfers, taskVars, slotVars, chanVars, mgrVars
<1>6. CASE BeginUpload(w)
  <2>1. /\ Alive(w) /\ slot' = slot /\ pc[w] = "got"
        /\ UNCHANGED <<run, wtask, stopping, call, held, canceled, cancel>>
    BY <1>6 DEF BeginUpload, Alive, slotVars, chanVars, mgrVars
  <2>2. CASE Begins(w)
    <3>1. Patch(t, "running") /\ Goto(w, "transfer")
      BY <2>2 DEF Begins
    <3> QED BY <1>s, <2>1, <3>1, PatchEffect
  <2>3. CASE Declines(w)
    <3>1. InMap(t) /\ ~stopping => status[t] # "pending"
      BY <2>1, <2>3, RunFacts DEF Declines, CtxErr
    <3>2. status' = status /\ Goto(w, "release")
      BY <2>3 DEF Declines
    <3> QED BY <2>1, <3>1, <3>2, StillEffect DEF Transfers
  <2> QED BY <1>6, <2>2, <2>3 DEF BeginUpload
<1>7. CASE UploadProgress(w)
  <2>1. /\ Alive(w) /\ UNCHANGED <<run, wtask, stopping, call, held, canceled, cancel, slot>>
        /\ pc[w] = "transfer" /\ Goto(w, "transfer") /\ Patch(t, "running")
    BY <1>7 DEF UploadProgress, Alive, Goto, Patch, GoType, slotVars, goVars, chanVars, mgrVars
  <2> QED BY <1>s, <2>1, PatchEffect
<1>8. CASE UploadEnds(w)
  <2>1. /\ Alive(w) /\ pc[w] = "transfer"
        /\ UNCHANGED <<status, run, wtask, stopping, call, held, canceled, cancel, slot>>
    BY <1>8 DEF UploadEnds, Alive, taskVars, slotVars, chanVars, mgrVars
  <2>2. PICK l \in {"done", "fail", "failPaused", "release"} :
          Goto(w, l) /\ (l = "release" => ~InMap(t))
    BY <1>8 DEF UploadEnds, Fails
  <2>3. /\ l \notin {"none", "requeue", "exit", "ended"}
        /\ l \in Transfers \/ (l = "release" /\ ~InMap(t))
    BY <2>2 DEF Transfers
  <2>4. status[t] = "running" => InMap(t)
    BY DEF InMap, Status
  <2>5. "release" \notin Transfers
    BY DEF Transfers
  <2> QED BY <2>1, <2>2, <2>3, <2>4, <2>5, StillEffect
<1>9. CASE FailUpload(w)
  <2>1. FailedStatus(w) \in Status \ Active
    BY DEF FailedStatus, Status, Active
  <2> QED BY <1>9, <2>1, PatchEffect DEF FailUpload, Alive, Active, slotVars, chanVars, mgrVars
<1>10. CASE FinishUpload(w)
  BY <1>10, PatchEffect DEF FinishUpload, Alive, Active, Status, slotVars, chanVars, mgrVars
<1>11. CASE ReleaseSlot(w)
  <2>1. /\ pc[w] = "release" /\ pc' = [Wake(pc) EXCEPT ![w] = "exit"]
        /\ slot' = [slot EXCEPT ![w] = "none"]
        /\ UNCHANGED <<status, run, wtask, stopping, call, held, canceled, cancel>>
    BY <1>11, <1>t DEF ReleaseSlot, taskVars, chanVars, mgrVars
  <2>2. Alive(w) /\ pc'[w] = "exit" /\ slot'[w] = "none"
    BY <2>1 DEF Alive, Wake, GoType, SlotType
  <2>3. \A v \in Worker \ {w} : /\ slot'[v] = slot[v]
                                /\ pc'[v] = pc[v] \/ (pc[v] = "wait" /\ pc'[v] = "acquire")
    BY <2>1 DEF Wake, GoType, SlotType
  <2>4. status[t] # "running"
    BY <2>1, <2>2, RunFacts DEF Transfers, InMap, Status
  <2>5. InMap(t) /\ ~stopping => status[t] \notin Active
    BY <1>t, <2>1 DEF RunTruth
  <2> QED BY <2>1, <2>2, <2>3, <2>4, <2>5, SameKeeps DEF RunEffect
<1>12. CASE Exit(w)
  <2>1. /\ Alive(w) /\ pc[w] = "exit" /\ Goto(w, "ended")
        /\ UNCHANGED <<status, run, wtask, stopping, call, held, slot>>
        /\ canceled' \subseteq canceled
    BY <1>12 DEF Exit, Alive, slotVars, mgrVars
  <2>2. \A u \in Task : cancel'[u] \in {cancel[u], 0}
    BY <1>12 DEF Exit, TaskType
  <2>3. InMap(t) /\ ~stopping => status[t] # "pending"
    BY <1>t, <2>1 DEF RunTruth, Active
  <2> QED BY <2>1, <2>2, <2>3, StillEffect DEF Transfers
<1> QED BY <1>t, <1>1, <1>2, <1>3, <1>4, <1>5, <1>6, <1>7, <1>8, <1>9, <1>10, <1>11, <1>12
     DEF WorkerStep, BeginDownload, DownloadProgress, DownloadEnds, FailDownload, FinishDownload


\* The calls, for the runs and tasks other than the ones they are about.
LEMMA SameRun ==
  ASSUME NEW w \in Worker, RunTruth(w), slot'[w] = slot[w], wtask'[w] = wtask[w],
         pc'[w] = pc[w] \/ (pc[w] = "wait" /\ pc'[w] = "acquire"),
         w \in canceled' => w \in canceled, stopping' = stopping \/ stopping',
         status'[wtask[w]] = status[wtask[w]] \/ status'[wtask[w]] \notin Active \cup {"pending"}
  PROVE  RunTruth(w)'
BY DEF RunTruth, InMap, Alive, Status, Active

LEMMA SameTask ==
  ASSUME NEW t \in Task, TaskTruth(t), status'[t] = status[t], run'[t] = run[t],
         cancel'[t] = cancel[t], stopping' = stopping \/ stopping',
         t \in held' => t \in held \/ (InMap(t) /\ status[t] # "pending"),
         \A n \in Worker : OfTask(n, t) =>
           /\ OfTask(n, t)'
           /\ pc'[n] = pc[n] \/ (pc[n] = "wait" /\ pc'[n] = "acquire"),
         IsCreated(t) => IsCreated(t)'
  PROVE  TaskTruth(t)'
<1>1. \A n : OfTask(n, t) => /\ OfTask(n, t)'
                             /\ pc[n] \in Transfers => pc'[n] \in Transfers
                             /\ Alive(n) => Alive(n)'
  BY DEF OfTask, Transfers, Alive
<1> QED BY <1>1 DEF TaskTruth, InMap, OfTask, Alive

\* A call that takes a task from one status to another that is not active.
LEMMA QuietTask ==
  ASSUME NEW t \in Task, TaskTruth(t), status'[t] \notin Active,
         cancel'[t] \in {cancel[t], 0}, t \in held' => t \in held /\ InMap(t)',
         \A n \in Worker : OfTask(n, t) => OfTask(n, t)'
  PROVE  TaskTruth(t)'
BY DEF TaskTruth, Active, OfTask


\* A call that changes no status.
LEMMA StillCall ==
  ASSUME OneCaller, Context, Truth, NEW c \in Caller, call[c].op # "create",
         UNCHANGED <<status, run, cancel, wtask, slot>>, pc' = pc \/ pc' = Wake(pc),
         stopping' = stopping \/ stopping',
         \A v \in Worker : v \in canceled' =>
           v \in canceled \/ (pc[v] # "none" /\ status[wtask[v]] # "pending"),
         \A t \in held' : t \in held \/ (InMap(t) /\ status[t] # "pending"),
         CallTruth(c)'
  PROVE  Truth'
<1> USE DEF Context, TypeOK
<1>p. \A v \in Worker : pc'[v] = pc[v] \/ (pc[v] = "wait" /\ pc'[v] = "acquire")
  BY DEF Wake, GoType
<1>1. ASSUME NEW v \in Worker PROVE RunTruth(v)'
  <2>1. RunTruth(v)
    BY DEF Truth
  <2> QED BY <1>p, <2>1 DEF RunTruth, InMap, Alive
<1>2. ASSUME NEW t \in Task PROVE TaskTruth(t)'
  <2>1. TaskTruth(t) /\ ~IsCreated(t)
    BY DEF Truth, IsCreated, OneCaller
  <2>2. \A n \in Worker : OfTask(n, t) => OfTask(n, t)'
    BY <1>p DEF OfTask
  <2> QED BY <1>p, <2>1, <2>2, SameTask
<1> QED BY <1>1, <1>2 DEF Truth, OneCaller

\* A call that gives a task a status that is not an active one.
LEMMA QuietCall ==
  ASSUME OneCaller, Context, Truth, NEW c \in Caller, call[c].op # "create",
         NEW t \in Task, NEW p \in Status \ Active, status' = [status EXCEPT ![t] = p], InMap(t),
         UNCHANGED <<run, cancel, wtask, slot, pc, canceled, stopping, held>>, CallTruth(c)'
  PROVE  Truth'
<1> USE DEF Context, TypeOK
<1>s. status'[t] = p /\ p # "pending" /\ \A u \in Task : u # t => status'[u] = status[u]
  BY DEF TaskType, Active
<1>1. ASSUME NEW v \in Worker PROVE RunTruth(v)'
  <2>1. RunTruth(v) /\ wtask[v] \in Task
    BY DEF Truth, GoType
  <2> QED BY <1>s, <2>1, SameRun
<1>2. ASSUME NEW u \in Task PROVE TaskTruth(u)'
  <2>1. TaskTruth(u) /\ ~IsCreated(u)
    BY DEF Truth, IsCreated, OneCaller
  <2>2. \A n \in Worker : OfTask(n, u) => OfTask(n, u)'
    BY DEF OfTask
  <2>3. CASE u = t
    BY <1>s, <2>1, <2>2, <2>3, QuietTask DEF InMap
  <2>4. CASE u # t
    BY <1>s, <2>1, <2>2, <2>4, SameTask
  <2> QED BY <2>3, <2>4
<1> QED BY <1>1, <1>2 DEF Truth, OneCaller

\* A call that takes its task out of the map.
LEMMA RemoveCall ==
  ASSUME OneCaller, Context, Truth, NEW c \in Caller, NEW t \in Task, call[c].task = t,
         Remove(t), Return(c), UNCHANGED <<slotVars, goVars, chanVars, mgrVars>>
  PROVE  Truth'
<1> USE DEF Context, TypeOK
<1>s. /\ status'[t] = "gone" /\ cancel'[t] = 0
      /\ \A u \in Task : u # t =>
           status'[u] = status[u] /\ run'[u] = run[u] /\ cancel'[u] = cancel[u]
      /\ held' = held \ {t}
  BY DEF Remove, TaskType
<1>1. ASSUME NEW v \in Worker PROVE RunTruth(v)'
  <2>1. RunTruth(v) /\ wtask[v] \in Task
    BY DEF Truth, GoType
  <2> QED BY <1>s, <2>1, SameRun DEF slotVars, goVars, chanVars, mgrVars, Active
<1>2. ASSUME NEW u \in Task PROVE TaskTruth(u)'
  <2>1. TaskTruth(u)
    BY DEF Truth
  <2>2. \A n \in Worker : OfTask(n, u) => OfTask(n, u)'
    BY DEF OfTask, goVars
  <2>3. CASE u = t
    BY <1>s, <2>1, <2>2, <2>3, QuietTask DEF Active
  <2>4. CASE u # t
    <3>1. ~IsCreated(u)
      BY <2>4 DEF IsCreated, OneCaller
    <3> QED BY <1>s, <2>1, <2>2, <2>4, <3>1, SameTask DEF goVars, mgrVars
  <2> QED BY <2>3, <2>4
<1>3. CallTruth(c)'
  BY DEF Return, Idle, CallTruth, CallType
<1> QED BY <1>1, <1>2, <1>3 DEF Truth, OneCaller

\* A call that starts a run.
LEMMA SpawnCall ==
  ASSUME OneCaller, Context, Truth, NEW c \in Caller, NEW t \in Task, NEW n \in Worker,
         call[c].op = "create" => call[c].task = t,
         pc[n] = "none", Spawn(t, n), run' = [run EXCEPT ![t] = n],
         status' = status \/ status' = [status EXCEPT ![t] = "pending"], InMap(t)',
         status'[t] # "running", t \in held => status'[t] # "pending" \/ t \notin held',
         \A v \in Worker : Alive(v) => wtask[v] # t,
         held' \subseteq held, UNCHANGED <<cancel, slot, canceled, stopping>>, Return(c)
  PROVE  Truth'
<1> USE DEF Context, TypeOK
<1>s. \A u \in Task : u # t => status'[u] = status[u] /\ run'[u] = run[u]
  BY DEF TaskType
<1>p. /\ pc'[n] = "start" /\ wtask'[n] = t /\ run'[t] = n
      /\ \A v \in Worker : v # n => pc'[v] = pc[v] /\ wtask'[v] = wtask[v]
  BY DEF Spawn, GoType, TaskType
<1>o. ASSUME NEW u \in Task, NEW m \in Worker, OfTask(m, u) PROVE OfTask(m, u)' /\ pc'[m] = pc[m]
  BY <1>o, <1>p DEF OfTask
<1>1. ASSUME NEW v \in Worker PROVE RunTruth(v)'
  <2>1. RunTruth(v) /\ wtask[v] \in Task
    BY DEF Truth, GoType
  <2>2. CASE v = n
    BY <1>p, <2>1, <2>2 DEF RunTruth
  <2>3. CASE v # n /\ Alive(v)
    BY <1>s, <1>p, <2>1, <2>3, SameRun
  <2>4. CASE v # n /\ ~Alive(v)
    BY <1>p, <2>1, <2>4 DEF RunTruth, Alive
  <2> QED BY <2>2, <2>3, <2>4
<1>2. ASSUME NEW u \in Task PROVE TaskTruth(u)'
  <2>1. TaskTruth(u)
    BY DEF Truth
  <2>2. CASE u = t
    <3>1. OfTask(n, t)' /\ Alive(n)'
      BY <1>p DEF OfTask, Alive
    <3>2. cancel[t] # 0 => OfTask(cancel[t], t)'
      BY <1>o, <2>1, <2>2 DEF TaskTruth, OfTask
    <3> QED BY <1>p, <2>1, <2>2, <3>1, <3>2 DEF TaskTruth, OfTask, Alive
  <2>3. CASE u # t
    <3>1. ~IsCreated(u)
      BY <2>3 DEF IsCreated, OneCaller
    <3> QED BY <1>s, <1>o, <2>1, <2>3, <3>1, SameTask
  <2> QED BY <2>2, <2>3
<1>3. CallTruth(c)'
  BY DEF Return, Idle, CallTruth, CallType
<1> QED BY <1>1, <1>2, <1>3 DEF Truth, OneCaller

LEMMA CreateCall ==
  ASSUME OneCaller, Context, Truth, NEW c \in Caller, NEW t \in Task, Create(c, t)
  PROVE  Truth'
<1> USE DEF Context, TypeOK
<1>s. /\ status[t] = "unborn" /\ status'[t] = "pending" /\ call[c].op = "idle"
      /\ \A u \in Task : u # t => status'[u] = status[u] /\ run'[u] = run[u]
      /\ call'[c].op = "create" /\ call'[c].task = t
      /\ UNCHANGED <<cancel, slot, pc, wtask, canceled, stopping, held>>
  BY DEF Create, Enter, TaskType, CallType, slotVars, goVars, chanVars
<1>1. ASSUME NEW v \in Worker PROVE RunTruth(v)'
  <2>1. RunTruth(v) /\ wtask[v] \in Task /\ WorkerOwns(v)
    BY DEF Truth, GoType, Ownership, RunsOwn
  <2>2. CASE pc[v] = "none"
    BY <1>s, <2>1, <2>2 DEF RunTruth, Alive
  <2>3. CASE pc[v] # "none"
    BY <1>s, <2>1, <2>3, SameRun DEF WorkerOwns
  <2> QED BY <2>2, <2>3
<1>2. ASSUME NEW u \in Task PROVE TaskTruth(u)'
  <2>1. TaskTruth(u)
    BY DEF Truth
  <2>2. \A n \in Worker : OfTask(n, u) => OfTask(n, u)'
    BY <1>s DEF OfTask
  <2>3. CASE u = t
    <3>1. IsCreated(t)'
      BY <1>s DEF IsCreated
    <3>2. t \notin held
      BY <1>s, <2>1, <2>3 DEF TaskTruth, InMap, Status
    <3> QED BY <1>s, <2>1, <2>2, <2>3, <3>1, <3>2 DEF TaskTruth, OfTask
  <2>4. CASE u # t
    <3>1. ~IsCreated(u)
      BY <1>s DEF IsCreated, OneCaller
    <3> QED BY <1>s, <2>1, <2>2, <2>4, <3>1, SameTask
  <2> QED BY <2>3, <2>4
<1>3. CallTruth(c)'
  BY <1>s DEF CallTruth
<1> QED BY <1>1, <1>2, <1>3 DEF Truth, OneCaller


LEMMA CallStepTruth ==
  ASSUME OneCaller, Plain, Context, Truth, NEW c \in Caller, CallStep(c) PROVE Truth'
<1> USE DEF Context, TypeOK
<1>t. call[c].task \in Task /\ CallTruth(c) /\ CallOwns(c) /\ call \in [Caller -> Call]
  BY DEF CallType, Call, Truth, Ownership
<1>r. ASSUME Return(c) PROVE CallTruth(c)'
  BY <1>r, <1>t DEF Return, Idle, CallTruth
<1>1. CASE CreateCommit(c)
  <2>1. PICK t \in Task : t = call[c].task
    BY <1>t
  <2>2. InMap(t) /\ call[c].runs = {run[t]} /\ pc[run[t]] = "none" /\ run[t] \in Worker
    BY <1>1, <1>t, <2>1 DEF CreateCommit, CallOwns, AwaitsRun, Ownership, RunsOwn, Numbered
  <2>3. /\ Spawn(t, run[t]) /\ run' = [run EXCEPT ![t] = run[t]] /\ Return(c) /\ status' = status
        /\ UNCHANGED <<cancel, slot, canceled, stopping, held>>
    BY <1>1, <2>1, <2>2 DEF CreateCommit, taskVars, slotVars, chanVars, mgrVars, TaskType
  <2>4. \A v \in Worker : Alive(v) => wtask[v] # t
    BY <2>2, AliveOwner DEF Alive
  <2>5. status[t] # "running" /\ (t \in held => status[t] # "pending") /\ InMap(t)'
    BY <2>2, <2>3 DEF Truth, TaskTruth, OfTask, InMap
  <2> QED BY <2>1, <2>2, <2>3, <2>4, <2>5, SpawnCall
<1>2. CASE CreateRollback(c) \/ DeletePop(c)
  <2>1. InMap(call[c].task)
    BY <1>2, <1>t DEF CreateRollback, DeletePop, CallOwns, AwaitsRun
  <2> QED BY <1>2, <1>t, <2>1, RemoveCall DEF CreateRollback, DeletePop
<1>3. CASE ResumeRun(c)
  <2>1. PICK t \in Task : t = call[c].task
    BY <1>t
  <2>2. InMap(t) /\ run[t] \in closed /\ call[c].op = "resume"
    BY <1>3, <1>t, <2>1 DEF ResumeRun, CanResume, CallOwns, AwaitsRun
  <2>3. PICK n \in Worker : n = queueOrder + 1
    <3>1. queueOrder < MaxRuns /\ queueOrder \in 0..MaxRuns /\ MaxRuns \in Nat
      BY <1>3, ConstantsAssumption DEF ResumeRun, MgrType, RunNo
    <3>2. queueOrder + 1 \in Worker
      BY <3>1 DEF Worker
    <3> QED BY <3>2
  <2>4. pc[n] = "none"
    BY <2>3, ConstantsAssumption DEF SpawnFresh, MgrType, RunNo
  <2>5. /\ Spawn(t, n) /\ run' = [run EXCEPT ![t] = n] /\ Return(c)
        /\ status' = [status EXCEPT ![t] = "pending"] /\ held' = held \ {t}
        /\ UNCHANGED <<cancel, slot, canceled, stopping>>
    BY <1>3, <2>1, <2>3 DEF ResumeRun, slotVars, chanVars
  <2>6. \A v \in Worker : Alive(v) => wtask[v] # t
    BY <2>2, AliveOwner DEF Alive, Ownership, RunsOwn, Numbered
  <2>7. status'[t] = "pending" /\ InMap(t)'
    BY <2>5 DEF TaskType, InMap, Status
  <2>8. call[c].op # "create" /\ held' \subseteq held /\ t \notin held' /\ status'[t] # "running"
    BY <2>2, <2>5, <2>7
  <2> QED BY <2>4, <2>5, <2>6, <2>7, <2>8, SpawnCall
<1>4. CASE PauseCancel(c) \/ DeleteCancel(c)
  <2>1. /\ call[c].op \in {"pause", "delete"} /\ pc' = Wake(pc) /\ CancelRun(call[c].cancel)
        /\ UNCHANGED <<status, run, cancel, wtask, slot, stopping>>
        /\ held' = held \/ held' = held \cup {call[c].task}
        /\ Return(c) \/ call' = [call EXCEPT ![c].op = "await"]
    BY <1>4 DEF PauseCancel, DeleteCancel, taskVars, slotVars, mgrVars
  <2>2. CallTruth(c)'
    BY <1>r, <1>t, <2>1 DEF CallTruth, Call
  <2>3. ASSUME NEW v \in Worker, v \in canceled', v \notin canceled
        PROVE  pc[v] # "none" /\ status[wtask[v]] # "pending"
    <3>1. v = call[c].cancel /\ v # 0
      BY <2>1, <2>3 DEF CancelRun, Worker
    <3> QED BY <1>t, <2>1, <3>1 DEF CallTruth, OfTask
  <2>4. \A u \in held' : u \in held \/ (InMap(u) /\ status[u] # "pending")
    BY <1>t, <2>1 DEF CallTruth
  <2> QED BY <2>1, <2>2, <2>3, <2>4, StillCall
<1>5. CASE \/ ResumeRefused(c) \/ ResumeGiveUp(c) \/ DeleteTimeout(c)
          \/ StopReturns(c) \/ StopTimeout(c)
  <2>1. /\ call[c].op # "create" /\ Return(c)
        /\ UNCHANGED <<status, run, cancel, wtask, slot, pc, stopping, canceled, held>>
    BY <1>5 DEF ResumeRefused, ResumeGiveUp, DeleteTimeout, StopReturns, StopTimeout, taskVars,
       slotVars, goVars, chanVars, mgrVars
  <2> QED BY <1>r, <2>1, StillCall
<1>6. CASE Stop(c)
  <2>1. /\ call[c].op # "create" /\ call'[c].op = "stop" /\ stopping' /\ pc' = Wake(pc)
        /\ UNCHANGED <<status, run, cancel, wtask, slot, canceled, held>>
    BY <1>6, <1>t DEF Stop, Enter, slotVars, chanVars
  <2>2. CallTruth(c)'
    BY <2>1 DEF CallTruth
  <2> QED BY <2>1, <2>2, StillCall
<1>7. CASE ResumeFileMissing(c)
  <2>1. /\ call[c].op # "create" /\ Return(c) /\ InMap(call[c].task)
        /\ status' = [status EXCEPT ![call[c].task] = "failed"]
        /\ UNCHANGED <<run, cancel, wtask, slot, pc, canceled, stopping, held>>
    BY <1>7 DEF ResumeFileMissing, CanResume, Patch, slotVars, goVars, chanVars, mgrVars
  <2>2. "failed" \in Status \ Active
    BY DEF Status, Active
  <2> QED BY <1>r, <1>t, <2>1, <2>2, QuietCall
<1>8. ASSUME NEW t \in Task, Create(c, t) PROVE Truth'
  BY <1>8, CreateCall
<1>9. ASSUME NEW t \in Task, Resume(c, t) PROVE Truth'
  <2>1. /\ call[c].op # "create" /\ call'[c].op = "resume"
        /\ UNCHANGED <<status, run, cancel, wtask, slot, pc, stopping, canceled, held>>
    BY <1>9, <1>t DEF Resume, Enter, taskVars, slotVars, goVars, chanVars, mgrVars
  <2>2. CallTruth(c)'
    BY <2>1 DEF CallTruth
  <2> QED BY <2>1, <2>2, StillCall
<1>10. ASSUME NEW t \in Task, Pause(c, t) PROVE Truth'
  <2>1. /\ call[c].op # "create" /\ InMap(t)
        /\ call'[c] = [op |-> "pause", task |-> t, runs |-> {}, cancel |-> cancel[t]]
        /\ status' = [status EXCEPT ![t] = "paused"]
        /\ UNCHANGED <<run, cancel, wtask, slot, pc, canceled, stopping, held>>
    BY <1>10, <1>t DEF Pause, Enter, slotVars, goVars, chanVars, mgrVars
  <2>2. status'[t] = "paused" /\ (cancel[t] # 0 => OfTask(cancel[t], t)')
    BY <2>1 DEF TaskType, Truth, TaskTruth, OfTask
  <2>3. CallTruth(c)'
    BY <2>1, <2>2 DEF CallTruth, InMap, Status
  <2>4. "paused" \in Status \ Active
    BY DEF Status, Active
  <2> QED BY <2>1, <2>3, <2>4, QuietCall
<1>11. ASSUME NEW t \in Task, Delete(c, t) PROVE Truth'
  <2>1. /\ call[c].op # "create" /\ InMap(t)
        /\ UNCHANGED <<run, cancel, wtask, slot, pc, canceled, stopping, held>>
    BY <1>11 DEF Delete, Enter, slotVars, goVars, chanVars, mgrVars
  <2>2. CASE call'[c].op = "pop" /\ status' = status
    <3>1. CallTruth(c)'
      BY <2>2 DEF CallTruth
    <3> QED BY <2>1, <2>2, <3>1, StillCall
  <2>3. ASSUME call'[c] = [op |-> "delete", task |-> t, runs |-> {run[t]}, cancel |-> cancel[t]],
               status' = [status EXCEPT ![t] = IF @ \in Active THEN "canceled" ELSE @]
        PROVE  Truth'
    <3>1. PICK p \in Status \ Active : status' = [status EXCEPT ![t] = p]
      <4>1. CASE status[t] \in Active
        BY <2>3, <4>1 DEF Status, Active
      <4>2. CASE status[t] \notin Active
        BY <2>1, <2>3, <4>2 DEF InMap
      <4> QED BY <4>1, <4>2
    <3>2. status'[t] = p /\ (cancel[t] # 0 => OfTask(cancel[t], t)')
      BY <2>1, <3>1 DEF TaskType, Truth, TaskTruth, OfTask
    <3>3. CallTruth(c)'
      <4>1. p \in Status /\ p # "pending"
        BY DEF Active
      <4>2. call'[c].op = "delete" /\ call'[c].task = t /\ call'[c].cancel = cancel[t]
        BY <2>3
      <4>3. status'[t] = p
        BY <3>2
      <4>4. InMap(t)'
        BY <4>1, <4>3, <2>1 DEF InMap
      <4> QED BY <2>1, <4>1, <4>2, <4>3, <4>4, <3>2 DEF CallTruth
    <3> QED BY <2>1, <3>1, <3>3, QuietCall
  <2>4. \/ call'[c].op = "pop" /\ status' = status
        \/ /\ call'[c] = [op |-> "delete", task |-> t, runs |-> {run[t]}, cancel |-> cancel[t]]
           /\ status' = [status EXCEPT ![t] = IF @ \in Active THEN "canceled" ELSE @]
    <3>1. CASE (status[t] \notin Active /\ cancel[t] = 0) \/ run[t] \in closed
      BY <1>11, <1>t, <3>1 DEF Delete, Enter
    <3>2. CASE ~((status[t] \notin Active /\ cancel[t] = 0) \/ run[t] \in closed)
      BY <1>11, <1>t, <3>2 DEF Delete, Enter
    <3> QED BY <3>1, <3>2
  <2> QED BY <2>2, <2>3, <2>4
<1> QED BY <1>1, <1>2, <1>3, <1>4, <1>5, <1>6, <1>7, <1>8, <1>9, <1>10, <1>11 DEF CallStep

LEMMA TruthStep ==
  ASSUME OneCaller, Plain, IInv, Ownership, Truth, [Next]_vars PROVE Truth'
<1>c. Context /\ GoType /\ TypeOK
  BY DEF IInv, Context, TypeOK
<1>1. CASE SetLimit \/ OpenGate \/ UNCHANGED vars
  <2>1. /\ UNCHANGED <<status, run, cancel, wtask, slot, stopping, canceled, held, call>>
        /\ pc' = pc \/ pc' = Wake(pc)
    BY <1>1 DEF SetLimit, OpenGate, vars, taskVars, slotVars, goVars, chanVars, mgrVars
  <2>p. \A v \in Worker : pc'[v] = pc[v] \/ (pc[v] = "wait" /\ pc'[v] = "acquire")
    BY <1>c, <2>1 DEF Wake, GoType
  <2>2. ASSUME NEW v \in Worker PROVE RunTruth(v)'
    <3>1. RunTruth(v)
      BY DEF Truth
    <3> QED BY <2>1, <2>p, <3>1 DEF RunTruth, InMap, Alive
  <2>3. ASSUME NEW t \in Task PROVE TaskTruth(t)'
    <3>1. TaskTruth(t) /\ (IsCreated(t) => IsCreated(t)')
      BY <2>1 DEF Truth, IsCreated
    <3>2. \A n \in Worker : OfTask(n, t) => OfTask(n, t)'
      BY <2>1, <2>p DEF OfTask
    <3> QED BY <2>1, <2>p, <3>1, <3>2, SameTask
  <2>4. ASSUME NEW c \in Caller PROVE CallTruth(c)'
    <3>1. CallTruth(c)
      BY DEF Truth
    <3>2. \A n, t : OfTask(n, t) => OfTask(n, t)'
      BY <2>1, <2>p DEF OfTask
    <3> QED BY <2>1, <3>1, <3>2 DEF CallTruth, InMap
  <2> QED BY <2>2, <2>3, <2>4 DEF Truth
<1>2. ASSUME NEW w \in Worker, WorkerStep(w) PROVE Truth'
  BY <1>c, <1>2, WorkerEffect, EffectTruth
<1>3. ASSUME NEW c \in Caller, CallStep(c) PROVE Truth'
  BY <1>c, <1>3, CallStepTruth
<1> QED BY <1>1, <1>2, <1>3 DEF Next

LEMMA TruthInit == Init => Truth
<1> SUFFICES ASSUME Init PROVE Truth
  OBVIOUS
<1>1. \A w \in Worker : RunTruth(w)
  BY DEF Init, RunTruth, Alive
<1>2. \A t \in Task : status[t] = "unborn" /\ cancel[t] = 0 /\ held = {}
  BY DEF Init
<1>3. \A c \in Caller : call[c].op = "idle"
  BY DEF Init, Idle
<1> QED BY <1>1, <1>2, <1>3 DEF Truth, TaskTruth, CallTruth

LEMMA TruthInvariant ==
  ASSUME OneCaller, Plain PROVE Spec => [](IInv /\ Ownership /\ Truth)
<1>1. IInv /\ Ownership /\ Truth /\ [Next]_vars => (IInv /\ Ownership /\ Truth)'
  BY OwnershipStep, NextIInv, TruthStep
<1> QED BY <1>1, InitIInv, InitOwns, TruthInit, PTL DEF Spec

\* While callers take turns and no task is a cross-drive one: a task shown as
\* pending or running has a run that will look at it, so that none is stranded.
THEOREM ActiveServed == ASSUME OneCaller, Plain PROVE Spec => []ActiveIsServed
<1>1. IInv /\ Ownership /\ Truth => ActiveIsServed
  <2> SUFFICES ASSUME IInv, Ownership, Truth, NEW t \in Task, status[t] \in Active, ~stopping
               PROVE  \/ \E w \in Worker :
                           wtask[w] = t /\ (pc[w] = "start" \/ (Alive(w) /\ wrun[w] = run[t]))
                      \/ \E c \in Caller : call[c].op = "create" /\ call[c].task = t
    BY DEF ActiveIsServed
  <2>1. IsCreated(t) \/ (OfTask(run[t], t) /\ Alive(run[t]))
    BY DEF Truth, TaskTruth, Active, Transfers, Alive
  <2>2. ASSUME OfTask(run[t], t), Alive(run[t])
        PROVE  pc[run[t]] = "start" \/ wrun[run[t]] = run[t]
    BY <2>2 DEF OfTask, Ownership, RunsOwn, WorkerOwns, Engaged
  <2> QED BY <2>1, <2>2 DEF IsCreated, OfTask
<1> QED BY <1>1, TruthInvariant, PTL

\* Under the same conditions a pause holds: once it has returned and the run is
\* over, the task is active again only after a resume.
THEOREM PausesHold == ASSUME OneCaller, Plain PROVE Spec => []PauseHolds
<1>1. IInv /\ Truth => PauseHolds
  <2> SUFFICES ASSUME IInv, Truth, NEW t \in held, status[t] \in Active
               PROVE  \E w \in Worker : Alive(w) /\ wtask[w] = t
    BY DEF PauseHolds
  <2>1. t \in Task
    BY DEF IInv, TypeOK, CallType
  <2>2. OfTask(run[t], t) /\ pc[run[t]] \in Transfers
    BY <2>1 DEF Truth, TaskTruth, Active
  <2> QED BY <2>2 DEF OfTask, Alive, Transfers
<1> QED BY <1>1, TruthInvariant, PTL

-----------------------------------------------------------------------------
(* No lost wake-up, for plain uploads and callers that take turns.  A worker   *)
(* that is not first sleeps; whoever it waits for must be awake, or hold a     *)
(* slot.  Who is before it is a pending task, whose run Truth finds alive; if  *)
(* that one sleeps as well, it has in turn somebody before it.                 *)

\* The calls that broadcast once they have unlocked.
Cancels == {"pause", "delete"}

\* A task whose run is yet to start is the last of the queue, so nobody waits for it.
CreateLast ==
  /\ \A t \in Task : status[t] = "unborn" => ~prio[t]
  /\ \A c \in Caller : call[c].op = "create" =>
       run[call[c].task] = queueOrder /\ ~prio[call[c].task]

\* The order of the queue.
LEMMA QueueOrdered ==
  ASSUME TaskType, NEW a \in Task, NEW b \in Task, NEW c \in Task
  PROVE  /\ ~(Precedes(a, b) /\ Precedes(b, a))
         /\ Precedes(a, b) /\ Precedes(b, c) => Precedes(a, c)
<1>1. run[a] \in Int /\ run[b] \in Int /\ run[c] \in Int
  <2>1. run[a] \in RunNo /\ run[b] \in RunNo /\ run[c] \in RunNo BY DEF TaskType
  <2>2. \A n \in RunNo : n \in Int BY ConstantsAssumption DEF RunNo
  <2> QED BY <2>1, <2>2
<1>2. ASSUME NEW x \in Task, NEW y \in Task
      PROVE  /\ Precedes(x, y) <=> \/ prio[x] = TRUE /\ prio[y] = FALSE
                                   \/ prio[x] = prio[y] /\ run[x] < run[y]
             /\ prio[x] = TRUE \/ prio[x] = FALSE
  <2>1. (prio[x] = TRUE \/ prio[x] = FALSE) /\ (prio[y] = TRUE \/ prio[y] = FALSE)
    BY DEF TaskType
  <2>2. CASE prio[x] = prio[y] BY <2>2 DEF Precedes
  <2>3. CASE prio[x] # prio[y] BY <2>1, <2>3 DEF Precedes
  <2> QED BY <2>1, <2>2, <2>3
<1>3. /\ ~(run[a] < run[b] /\ run[b] < run[a])
      /\ run[a] < run[b] /\ run[b] < run[c] => run[a] < run[c]
  BY <1>1
<1>4. ~(Precedes(a, b) /\ Precedes(b, a))
  BY <1>2, <1>3, Zenon
<1>5. ASSUME Precedes(a, b), Precedes(b, c) PROVE Precedes(a, c)
  BY <1>2, <1>3, <1>5, Zenon
<1> QED BY <1>4, <1>5

\* A step that wakes everyone, or leaves a broadcast to come.
LEMMA WokenServed == ASSUME GoType, pc' = Wake(pc) PROVE SleeperServed'
BY DEF GoType, Wake, SleeperServed

LEMMA DueServed == BroadcastDue' => SleeperServed'
BY DEF SleeperServed

\* A step that neither ends what a sleeper waits for nor changes its place.
LEMMA Undisturbed ==
  ASSUME TypeOK, SleeperServed, slot' = slot,
         \A c \in Caller : call[c].op \in Cancels => call'[c].op \in Cancels,
         \A w \in Worker : pc'[w] = "wait" /\ StillQueued(w)' =>
           pc[w] = "wait" /\ StillQueued(w) /\ wtask'[w] = wtask[w],
         \A v \in Worker : Awake(v) /\ ~stopping' => Awake(v)' /\ wtask'[v] = wtask[v],
         \A t \in Task : status[t] = "pending" /\ status'[t] = "pending" =>
           run'[t] = run[t] /\ prio'[t] = prio[t]
  PROVE  SleeperServed'
<1> SUFFICES ASSUME NEW w \in Worker, pc'[w] = "wait", StillQueued(w)'
             PROVE  BroadcastDue' \/ \E v \in Worker : (Awake(v) /\ Precedes(wtask[v], wtask[w]))'
  BY DEF SleeperServed
<1>1. pc[w] = "wait" /\ StillQueued(w) /\ wtask'[w] = wtask[w] /\ ~stopping'
  BY DEF StillQueued
<1>2. CASE BroadcastDue
  BY <1>2 DEF BroadcastDue, Cancels
<1>3. ASSUME NEW v \in Worker, Awake(v), Precedes(wtask[v], wtask[w])
      PROVE  Awake(v)' /\ Precedes(wtask[v], wtask[w])'
  <2>1. Awake(v)' /\ wtask'[v] = wtask[v]
    BY <1>1, <1>3
  <2>2. \A t \in {wtask[v], wtask[w]} : run'[t] = run[t] /\ prio'[t] = prio[t]
    BY <1>1, <1>3, <2>1 DEF Awake, StillQueued, TypeOK, GoType
  <2> QED BY <1>1, <1>3, <2>1, <2>2 DEF Precedes
<1> QED BY <1>1, <1>2, <1>3 DEF SleeperServed

-----------------------------------------------------------------------------
(* The worker, and the calls.                                                  *)

\* What every step of this part may use.
SleepContext == OneCaller /\ Plain /\ IInv /\ Ownership /\ Truth /\ CreateLast

\* Whoever finds that it is not its turn has somebody ahead who is awake, or a
\* broadcast to come.
LEMMA NotMyTurn ==
  ASSUME SleepContext, SleeperServed, NEW w \in Worker, pc[w] = "acquire", StillQueued(w),
         ~SlotIsMine(w), ~BroadcastDue
  PROVE  \E v \in Worker \ {w} : Awake(v) /\ Precedes(wtask[v], wtask[w])
<1> USE DEF TypeOK
<1> DEFINE t == wtask[w]
<1>0. TypeOK /\ TaskType /\ Context /\ t \in Task /\ status[t] = "pending" /\ ~stopping
  BY DEF SleepContext, IInv, Context, StillQueued, GoType
<1>1. CanAcquireSlot(SlotKind(t))
  <2>1. Holders("upload") = {} BY DEF Holders, BroadcastDue
  <2>2. uploads = 0 BY <2>1, FS_EmptySet DEF SleepContext, IInv, SlotAccounting
  <2>3. SlotKind(t) = "upload" BY DEF SleepContext, Plain, SlotKind
  <2>4. limit \in Nat \ {0} BY <1>0, ConstantsAssumption DEF SlotType
  <2> QED BY <2>2, <2>3, <2>4 DEF CanAcquireSlot
<1>2. PICK u \in Task \ {t} : status[u] = "pending" /\ Precedes(u, t)
  BY <1>1 DEF SlotIsMine, IsNextPending
<1>3. ~IsCreated(u)
  <2> SUFFICES ASSUME NEW c \in Caller, call[c].op = "create", call[c].task = u PROVE FALSE
    BY DEF IsCreated
  <2>1. run[u] = queueOrder /\ ~prio[u] BY DEF SleepContext, CreateLast
  <2>2. run[t] \in Worker /\ run[t] <= queueOrder
    BY <1>0 DEF SleepContext, Ownership, RunsOwn, Numbered, InMap, Status
  <2>3. queueOrder \in Int /\ run[t] \in Int
    BY <1>0, <2>2, RunNumbers, ConstantsAssumption DEF MgrType, RunNo, Worker
  <2>4. ~(run[u] < run[t]) BY <2>1, <2>2, <2>3
  <2>5. prio[t] \in BOOLEAN BY <1>0 DEF TaskType
  <2> QED BY <1>2, <2>1, <2>4, <2>5 DEF Precedes
<1>4. OfTask(run[u], u) /\ Alive(run[u])
  BY <1>0, <1>2, <1>3 DEF SleepContext, Truth, TaskTruth
<1> DEFINE n == run[u]
<1>5. n \in Worker /\ wtask[n] = u /\ n # w BY <1>2, <1>4 DEF OfTask
<1>6. pc[n] \in {"start", "gate", "acquire", "wait"}
  <2>1. slot[n] = "none" BY <1>5 DEF BroadcastDue
  <2>2. pc[n] \notin Holding BY <1>0, <1>5, <2>1 DEF Context, SlotDiscipline
  <2>3. pc[n] # "exit"
    BY <1>0, <1>2, <1>5 DEF SleepContext, Truth, RunTruth, InMap, Status, Active
  <2>4. pc[n] \in PcSet BY <1>0, <1>5 DEF GoType
  <2> QED BY <1>4, <2>2, <2>3, <2>4 DEF Alive, PcSet, Holding
<1>7. CASE pc[n] # "wait"
  BY <1>2, <1>5, <1>6, <1>7 DEF Awake
<1>8. CASE pc[n] = "wait"
  <2>1. StillQueued(n)
    BY <1>0, <1>2, <1>4, <1>5, <1>8 DEF StillQueued, SleepContext, Ownership, RunsOwn, WorkerOwns, Engaged
  <2>2. PICK v \in Worker : Awake(v) /\ Precedes(wtask[v], u)
    BY <1>5, <1>8, <2>1 DEF SleeperServed
  <2>3. wtask[v] \in Task BY <1>0 DEF GoType
  <2>4. Precedes(wtask[v], t) /\ wtask[v] # t
    BY <1>0, <1>2, <2>2, <2>3, QueueOrdered
  <2> QED BY <2>2, <2>4
<1> QED BY <1>6, <1>7, <1>8

\* The step at which it goes to sleep.
LEMMA WaitServes ==
  ASSUME SleepContext, SleeperServed, NEW w \in Worker, WaitForSlot(w) PROVE SleeperServed'
<1>1. /\ pc[w] = "acquire" /\ StillQueued(w) /\ ~SlotIsMine(w) /\ pc' = [pc EXCEPT ![w] = "wait"]
      /\ UNCHANGED <<status, prio, run, slot, wtask, wrun, stopping, call>>
  BY DEF WaitForSlot, Goto, taskVars, slotVars, mgrVars
<1>2. CASE BroadcastDue
  BY <1>1, <1>2, DueServed DEF BroadcastDue
<1>3. CASE ~BroadcastDue
  <2>0. TaskType /\ GoType /\ \A v \in Worker : wtask[v] \in Task
    BY DEF SleepContext, IInv, TypeOK, GoType
  <2>1. PICK x \in Worker \ {w} : Awake(x) /\ Precedes(wtask[x], wtask[w])
    BY <1>1, <1>3, NotMyTurn
  <2>2. \A v \in Worker \ {w} : pc'[v] = pc[v] BY <1>1, <2>0 DEF GoType
  <2>3. \A v \in Worker \ {w} : Awake(v) => Awake(v)' BY <1>1, <2>2 DEF Awake
  <2>4. \A a, b : Precedes(a, b)' <=> Precedes(a, b) BY <1>1 DEF Precedes
  <2>5. ASSUME NEW s \in Worker, pc'[s] = "wait", StillQueued(s)'
        PROVE  \E v \in Worker : (Awake(v) /\ Precedes(wtask[v], wtask[s]))'
    <3>1. CASE s = w
      BY <1>1, <2>1, <2>3, <2>4, <3>1
    <3>2. CASE s # w
      <4>1. PICK v \in Worker : Awake(v) /\ Precedes(wtask[v], wtask[s])
        BY <1>1, <1>3, <2>2, <2>5, <3>2 DEF SleeperServed, StillQueued
      <4>2. CASE v = w
        <5>1. Precedes(wtask[x], wtask[s]) BY <2>0, <2>1, <4>1, <4>2, QueueOrdered
        <5> QED BY <1>1, <2>1, <2>3, <2>4, <5>1
      <4>3. CASE v # w
        BY <1>1, <2>3, <2>4, <4>1, <4>3
      <4> QED BY <4>2, <4>3
    <3> QED BY <3>1, <3>2
  <2> QED BY <2>5 DEF SleeperServed
<1> QED BY <1>2, <1>3

\* The steps of a worker that has a slot and keeps it.
HolderStep(w) ==
  \/ BeginUpload(w) \/ BeginDownload(w) \/ UploadProgress(w) \/ DownloadProgress(w)
  \/ UploadEnds(w) \/ DownloadEnds(w) \/ FailUpload(w) \/ FailDownload(w)
  \/ FinishUpload(w) \/ FinishDownload(w)

LEMMA WorkerServes ==
  ASSUME SleepContext, SleeperServed, NEW w \in Worker, WorkerStep(w) PROVE SleeperServed'
<1>0. TypeOK /\ GoType /\ SlotType /\ Context
  BY DEF SleepContext, IInv, TypeOK, Context
<1>1. CASE Start(w)
  <2>1. /\ pc' = [pc EXCEPT ![w] = IF InMap(wtask[w]) THEN "gate" ELSE "ended"]
        /\ \A v \in Worker \ {w} : wrun'[v] = wrun[v]
        /\ UNCHANGED <<status, prio, run, slot, wtask, stopping, call>>
    BY <1>0, <1>1 DEF Start, Goto, GoType, taskVars, slotVars, mgrVars
  <2>2. \A v \in Worker : Awake(v) => Awake(v)'
    BY <1>0, <2>1 DEF Awake, GoType, InMap, Status
  <2>3. \A v \in Worker : pc'[v] = "wait" => v # w /\ pc[v] = "wait"
    BY <1>0, <2>1 DEF GoType
  <2> QED BY <1>0, <2>1, <2>2, <2>3, Undisturbed DEF StillQueued
<1>2. CASE PassGate(w)
  <2>1. /\ pc' = [pc EXCEPT ![w] = "acquire"] \/ stopping
        /\ pc' = [pc EXCEPT ![w] = "acquire"] \/ pc' = [pc EXCEPT ![w] = "exit"]
        /\ UNCHANGED <<status, prio, run, slot, wtask, wrun, stopping, call>>
    BY <1>0, <1>2 DEF PassGate, Goto, taskVars, slotVars, mgrVars
  <2>2. \A v \in Worker : Awake(v) /\ ~stopping => Awake(v)'
    BY <1>0, <2>1 DEF Awake, GoType
  <2>3. \A v \in Worker : pc'[v] = "wait" => pc[v] = "wait"
    BY <1>0, <2>1 DEF GoType
  <2> QED BY <1>0, <2>1, <2>2, <2>3, Undisturbed DEF StillQueued
<1>3. CASE QuitQueue(w)
  <2>1. /\ pc' = [pc EXCEPT ![w] = "exit"] /\ pc[w] = "acquire" /\ ~StillQueued(w)
        /\ UNCHANGED <<status, prio, run, slot, wtask, wrun, stopping, call>>
    BY <1>0, <1>3 DEF QuitQueue, Goto, taskVars, slotVars, mgrVars
  <2>2. \A v \in Worker : Awake(v) /\ ~stopping => Awake(v)'
    <3> SUFFICES ASSUME NEW v \in Worker, Awake(v), ~stopping PROVE Awake(v)'
      OBVIOUS
    <3>1. v # w
      BY <2>1 DEF StillQueued, Awake, SleepContext, Ownership, RunsOwn, WorkerOwns, Engaged, Alive,
         InMap, Status
    <3> QED BY <1>0, <2>1, <3>1 DEF Awake, GoType
  <2>3. \A v \in Worker : pc'[v] = "wait" => pc[v] = "wait"
    BY <1>0, <2>1 DEF GoType
  <2> QED BY <1>0, <2>1, <2>2, <2>3, Undisturbed DEF StillQueued
<1>4. CASE TakeSlot(w)
  <2>1. slot'[w] # "none"
    BY <1>0, <1>4 DEF TakeSlot, SlotType, SlotKind
  <2> QED BY <2>1, DueServed DEF BroadcastDue
<1>5. CASE WaitForSlot(w)
  BY <1>5, WaitServes
<1>6. CASE HolderStep(w)
  <2>1. slot[w] # "none" /\ slot' = slot
    BY <1>6 DEF HolderStep, BeginUpload, BeginDownload, UploadProgress, DownloadProgress, UploadEnds,
       DownloadEnds, FailUpload, FailDownload, FinishUpload, FinishDownload, slotVars
  <2> QED BY <2>1, DueServed DEF BroadcastDue
<1>7. CASE ReleaseSlot(w)
  <2>1. \A v \in Worker : pc'[v] # "wait"
    BY <1>0, <1>7 DEF ReleaseSlot, Wake, GoType
  <2> QED BY <2>1 DEF SleeperServed
<1>8. CASE Exit(w)
  <2>1. /\ pc' = [pc EXCEPT ![w] = "ended"] /\ pc[w] = "exit"
        /\ \A v \in Worker \ {w} : wrun'[v] = wrun[v]
        /\ UNCHANGED <<status, prio, run, slot, wtask, stopping, call>>
    BY <1>0, <1>8 DEF Exit, Goto, GoType, slotVars, mgrVars
  <2>2. \A v \in Worker : Awake(v) => Awake(v)'
    BY <1>0, <2>1 DEF Awake, GoType
  <2>3. \A v \in Worker : pc'[v] = "wait" => v # w /\ pc[v] = "wait"
    BY <1>0, <2>1 DEF GoType
  <2> QED BY <1>0, <2>1, <2>2, <2>3, Undisturbed DEF StillQueued
<1> QED BY <1>1, <1>2, <1>3, <1>4, <1>5, <1>6, <1>7, <1>8 DEF WorkerStep, HolderStep

\* A task that comes, goes or starts over, with no run awake or asleep for it.
LEMMA TaskChanges ==
  ASSUME SleepContext, SleeperServed, NEW c \in Caller, NEW t \in Task, call[c].op \notin Cancels,
         slot' = slot, wrun' = wrun, stopping' = stopping,
         \A u \in Task \ {t} : status'[u] = status[u] /\ run'[u] = run[u] /\ prio'[u] = prio[u],
         \A v \in Worker : \/ pc'[v] = pc[v] /\ wtask'[v] = wtask[v]
                           \/ pc[v] = "none" /\ pc'[v] = "start",
         \A v \in Worker : pc[v] # "none" /\ wtask[v] = t => ~Awake(v),
         \A v \in Worker : pc[v] = "wait" /\ wtask[v] = t => status'[t] # "pending" \/ run'[t] # v,
         status[t] = "pending" /\ status'[t] = "pending" => run'[t] = run[t] /\ prio'[t] = prio[t],
         \A d \in Caller : call[d].op \in Cancels => call'[d].op \in Cancels
  PROVE  SleeperServed'
<1>0. TypeOK /\ GoType /\ \A v \in Worker : wtask[v] \in Task
  BY DEF SleepContext, IInv, TypeOK, GoType
<1>1. ASSUME NEW v \in Worker, Awake(v) PROVE Awake(v)' /\ wtask'[v] = wtask[v]
  <2>1. pc'[v] = pc[v] /\ wtask'[v] = wtask[v] /\ wtask[v] # t BY <1>1 DEF Awake
  <2> QED BY <1>0, <1>1, <2>1 DEF Awake
<1>2. ASSUME NEW w \in Worker, pc'[w] = "wait", StillQueued(w)'
      PROVE  pc[w] = "wait" /\ StillQueued(w) /\ wtask'[w] = wtask[w]
  <2>1. pc[w] = "wait" /\ wtask'[w] = wtask[w] BY <1>2
  <2>2. wrun[w] = w BY <2>1 DEF SleepContext, Ownership, RunsOwn, WorkerOwns, Engaged, Alive
  <2>3. wtask[w] # t BY <1>2, <2>1, <2>2 DEF StillQueued
  <2> QED BY <1>0, <1>2, <2>1, <2>3 DEF StillQueued
<1>3. \A u \in Task : status[u] = "pending" /\ status'[u] = "pending" =>
        run'[u] = run[u] /\ prio'[u] = prio[u]
  OBVIOUS
<1> QED BY <1>0, <1>1, <1>2, <1>3, Undisturbed

LEMMA CallServes ==
  ASSUME SleepContext, SleeperServed, NEW c \in Caller, CallStep(c) PROVE SleeperServed'
<1>0. /\ TypeOK /\ TaskType /\ GoType /\ CallType /\ Context /\ CallOwns(c) /\ call[c].task \in Task
      /\ \A v \in Worker : wtask[v] \in Task
  BY DEF SleepContext, IInv, TypeOK, Context, Ownership, GoType, CallType, Call
<1>o. \A d \in Caller : d = c BY DEF SleepContext, OneCaller
<1>a. ASSUME NEW t \in Task, InMap(t), run[t] \in closed \/ pc[run[t]] = "none"
      PROVE  \A v \in Worker : pc[v] # "none" /\ wtask[v] = t => pc[v] = "ended"
  BY <1>0, <1>a, AliveOwner DEF Alive, Ownership, RunsOwn, Numbered, Context
<1>1. CASE PauseCancel(c) \/ DeleteCancel(c) \/ Stop(c)
  BY <1>0, <1>1, WokenServed DEF PauseCancel, DeleteCancel, Stop
<1>2. ASSUME NEW t \in Task, Pause(c, t) PROVE SleeperServed'
  <2>1. call'[c].op = "pause" BY <1>0, <1>2 DEF Pause, Enter, CallType
  <2> QED BY <2>1, DueServed DEF BroadcastDue
<1>3. ASSUME UNCHANGED <<status, prio, run, slot, pc, wtask, wrun, stopping>>,
             call[c].op \notin Cancels
      PROVE  SleeperServed'
  <2>1. \A v \in Worker : Awake(v) => Awake(v)' BY <1>3 DEF Awake
  <2> QED BY <1>0, <1>o, <1>3, <2>1, Undisturbed DEF StillQueued
<1>4. CASE \/ ResumeRefused(c) \/ ResumeGiveUp(c) \/ DeleteTimeout(c)
           \/ StopReturns(c) \/ StopTimeout(c)
  BY <1>3, <1>4 DEF ResumeRefused, ResumeGiveUp, DeleteTimeout, StopReturns, StopTimeout, taskVars,
     slotVars, goVars, mgrVars, Cancels
<1>5. ASSUME NEW t \in Task, Resume(c, t) PROVE SleeperServed'
  BY <1>3, <1>5 DEF Resume, Enter, taskVars, slotVars, goVars, mgrVars, Cancels
<1>6. ASSUME NEW t \in Task, Delete(c, t) PROVE SleeperServed'
  <2>1. CASE (status[t] \notin Active /\ cancel[t] = 0) \/ run[t] \in closed
    BY <1>3, <1>6, <2>1 DEF Delete, Enter, slotVars, goVars, mgrVars, Cancels
  <2>2. CASE ~((status[t] \notin Active /\ cancel[t] = 0) \/ run[t] \in closed)
    <3>1. call'[c].op = "delete" BY <1>0, <1>6, <2>2 DEF Delete, Enter, CallType
    <3> QED BY <3>1, DueServed DEF BroadcastDue
  <2> QED BY <2>1, <2>2
<1>7. ASSUME NEW t \in Task, Create(c, t) PROVE SleeperServed'
  <2>1. /\ call[c].op = "idle" /\ status[t] = "unborn" /\ UNCHANGED <<slot, pc, wtask, wrun, prio, stopping>>
        /\ status' = [status EXCEPT ![t] = "pending"] /\ run' = [run EXCEPT ![t] = queueOrder + 1]
    BY <1>7 DEF Create, Enter, slotVars, goVars
  <2>2. \A v \in Worker : pc[v] # "none" => wtask[v] # t
    BY <2>1 DEF SleepContext, Ownership, RunsOwn, WorkerOwns
  <2>3. \A u \in Task \ {t} : status'[u] = status[u] /\ run'[u] = run[u] /\ prio'[u] = prio[u]
    BY <1>0, <2>1 DEF TaskType
  <2> QED BY <1>o, <2>1, <2>2, <2>3, TaskChanges DEF Cancels
<1>8. CASE CreateCommit(c)
  <2>1. PICK t \in Task : t = call[c].task BY <1>0
  <2>2. InMap(t) /\ call[c].runs = {run[t]} /\ pc[run[t]] = "none" /\ run[t] \in Worker
    BY <1>0, <1>8, <2>1 DEF CreateCommit, CallOwns, AwaitsRun, Context, Ownership, RunsOwn, Numbered
  <2>3. /\ Spawn(t, run[t]) /\ call[c].op = "create"
        /\ UNCHANGED <<status, prio, run, slot, wrun, stopping>>
    BY <1>8, <2>1, <2>2 DEF CreateCommit, taskVars, slotVars, mgrVars
  <2>4. \A v \in Worker : pc[v] # "none" /\ wtask[v] = t => pc[v] = "ended"
    BY <1>a, <2>2
  <2>5. \A v \in Worker : \/ pc'[v] = pc[v] /\ wtask'[v] = wtask[v]
                          \/ pc[v] = "none" /\ pc'[v] = "start"
    BY <1>0, <2>2, <2>3 DEF Spawn, GoType
  <2> QED BY <1>o, <2>3, <2>4, <2>5, TaskChanges DEF Cancels, Awake
<1>9. CASE CreateRollback(c) \/ DeletePop(c)
  <2>1. PICK t \in Task : t = call[c].task BY <1>0
  <2>2. /\ InMap(t) /\ Remove(t) /\ call[c].op \notin Cancels
        /\ pc[run[t]] = "none" \/ run[t] \in closed \/ status[t] \notin Active
        /\ UNCHANGED <<slot, pc, wtask, wrun, stopping>>
    BY <1>0, <1>9, <2>1 DEF CreateRollback, DeletePop, CallOwns, AwaitsRun, Unheld, Cancels,
       slotVars, goVars, mgrVars
  <2>3. /\ \A u \in Task \ {t} : status'[u] = status[u] /\ run'[u] = run[u] /\ prio'[u] = prio[u]
        /\ status'[t] = "gone"
    BY <1>0, <2>2 DEF Remove, TaskType
  <2>4. \A v \in Worker : pc[v] # "none" /\ wtask[v] = t => ~Awake(v)
    BY <1>a, <2>2 DEF Awake, Active
  <2> QED BY <1>o, <2>2, <2>3, <2>4, TaskChanges
<1>10. CASE ResumeFileMissing(c)
  <2>1. PICK t \in Task : t = call[c].task BY <1>0
  <2>2. /\ call[c].op = "resume" /\ InMap(t) /\ status[t] # "pending" /\ status' = [status EXCEPT ![t] = "failed"]
        /\ UNCHANGED <<prio, run, slot, pc, wtask, wrun, stopping>>
    BY <1>10, <2>1 DEF ResumeFileMissing, CanResume, Resumable, Patch, slotVars, goVars, mgrVars
  <2>3. status'[t] = "failed" /\ \A u \in Task \ {t} : status'[u] = status[u]
    BY <1>0, <2>2 DEF TaskType
  <2>4. \A v \in Worker : wtask[v] = t => ~Awake(v) BY <2>2 DEF Awake
  <2> QED BY <1>o, <2>2, <2>3, <2>4, TaskChanges DEF Cancels
<1>11. CASE ResumeRun(c)
  <2>1. PICK t \in Task : t = call[c].task BY <1>0
  <2>2. /\ call[c].op = "resume" /\ InMap(t) /\ status[t] # "pending" /\ run[t] \in closed
    BY <1>0, <1>11, <2>1 DEF ResumeRun, CanResume, Resumable, CallOwns, AwaitsRun
  <2>3. PICK n \in Worker : n = queueOrder + 1
    <3>1. queueOrder < MaxRuns /\ queueOrder \in 0..MaxRuns /\ MaxRuns \in Nat
      BY <1>0, <1>11, ConstantsAssumption DEF ResumeRun, TypeOK, MgrType, RunNo
    <3>2. queueOrder + 1 \in Worker BY <3>1 DEF Worker
    <3> QED BY <3>2
  <2>4. pc[n] = "none"
    BY <1>0, <2>3, ConstantsAssumption DEF SpawnFresh, Context, TypeOK, MgrType, RunNo
  <2>5. /\ Spawn(t, n) /\ run' = [run EXCEPT ![t] = n] /\ prio' = [prio EXCEPT ![t] = TRUE]
        /\ status' = [status EXCEPT ![t] = "pending"]
        /\ UNCHANGED <<slot, wrun, stopping>>
    BY <1>11, <2>1, <2>3 DEF ResumeRun, slotVars
  <2>6. /\ \A u \in Task \ {t} : status'[u] = status[u] /\ run'[u] = run[u] /\ prio'[u] = prio[u]
        /\ run'[t] = n
    BY <1>0, <2>5 DEF TaskType
  <2>7. \A v \in Worker : \/ pc'[v] = pc[v] /\ wtask'[v] = wtask[v]
                          \/ pc[v] = "none" /\ pc'[v] = "start"
    BY <1>0, <2>4, <2>5 DEF Spawn, GoType
  <2>8. \A v \in Worker : wtask[v] = t => ~Awake(v) BY <2>2 DEF Awake
  <2>9. \A v \in Worker : pc[v] = "wait" => run'[t] # v BY <2>4, <2>6
  <2>10. /\ call[c].op \notin Cancels /\ \A d \in Caller : call[d].op \notin Cancels
         /\ UNCHANGED <<slot, wrun, stopping>> /\ status[t] # "pending"
    BY <1>o, <2>2, <2>5 DEF Cancels
  <2> QED BY <2>6, <2>7, <2>8, <2>9, <2>10, TaskChanges
<1> QED BY <1>1, <1>2, <1>4, <1>5, <1>6, <1>7, <1>8, <1>9, <1>10, <1>11 DEF CallStep

-----------------------------------------------------------------------------
LEMMA CreateLastStep ==
  ASSUME OneCaller, IInv, Ownership, CreateLast, [Next]_vars PROVE CreateLast'
<1>0. TypeOK /\ TaskType /\ CallType /\ \A c \in Caller : call[c].task \in Task
  BY DEF IInv, TypeOK, CallType, Call
<1>1. ASSUME UNCHANGED <<status, prio, run, queueOrder, call>> PROVE CreateLast'
  BY <1>1 DEF CreateLast
<1>2. CASE SetLimit \/ OpenGate \/ UNCHANGED vars
  BY <1>1, <1>2 DEF SetLimit, OpenGate, vars, taskVars, mgrVars
<1>k. ASSUME UNCHANGED <<run, queueOrder, call>>,
             \A t \in Task : /\ status'[t] = "unborn" => status[t] = "unborn"
                             /\ prio'[t] = prio[t] \/ prio'[t] = FALSE
      PROVE  CreateLast'
  BY <1>0, <1>k DEF CreateLast
<1>3. ASSUME NEW w \in Worker, WorkerStep(w) PROVE CreateLast'
  <2>1. CASE TakeSlot(w)
    BY <1>0, <1>k, <2>1 DEF TakeSlot, TaskType, mgrVars
  <2>2. CASE Start(w) \/ Exit(w)
    BY <1>1, <2>2 DEF Start, Exit, taskVars, mgrVars
  <2>3. CASE MildRun(w)
    <3>1. Mild /\ call' = call BY <2>3, RunMild DEF IInv
    <3>2. prio' = prio
      BY <2>3 DEF MildRun, PassGate, QuitQueue, WaitForSlot, BeginUpload, BeginDownload, UploadProgress,
         DownloadProgress, UploadEnds, DownloadEnds, FailUpload, FailDownload, FinishUpload,
         FinishDownload, ReleaseSlot, taskVars
    <3> QED BY <1>k, <3>1, <3>2 DEF Mild, KeepsTasks
  <2> QED BY <1>3, <2>1, <2>2, <2>3 DEF WorkerStep, MildRun
<1>4. ASSUME NEW c \in Caller, CallStep(c) PROVE CreateLast'
  <2>o. \A d \in Caller : d = c BY DEF OneCaller
  <2>i. Return(c) => call'[c].op = "idle" BY <1>0 DEF Return, Idle, CallType
  <2>1. ASSUME call'[c].op # "create",
               \A t \in Task : /\ status'[t] = "unborn" => status[t] = "unborn"
                               /\ status'[t] = "unborn" => prio'[t] = prio[t]
        PROVE  CreateLast'
    BY <2>o, <2>1 DEF CreateLast
  <2>2. CASE CreateCommit(c)
    BY <2>1, <2>2, <2>i DEF CreateCommit, taskVars
  <2>3. CASE CreateRollback(c) \/ DeletePop(c)
    <3>1. \A t \in Task : status'[t] = "unborn" => status[t] = "unborn" /\ prio'[t] = prio[t]
      BY <1>0, <2>3 DEF CreateRollback, DeletePop, Remove, TaskType, taskVars
    <3> QED BY <2>1, <2>3, <2>i, <3>1 DEF CreateRollback, DeletePop
  <2>4. CASE ResumeRun(c)
    <3>1. \A t \in Task : status'[t] = "unborn" => status[t] = "unborn" /\ prio'[t] = prio[t]
      BY <1>0, <2>4 DEF ResumeRun, TaskType
    <3> QED BY <2>1, <2>4, <2>i, <3>1 DEF ResumeRun
  <2>5. ASSUME NEW t \in Task, Create(c, t) PROVE CreateLast'
    <3>1. /\ status[t] = "unborn" /\ call'[c].op = "create" /\ call'[c].task = t
          /\ run'[t] = queueOrder' /\ prio' = prio
          /\ \A u \in Task : status'[u] = "unborn" => status[u] = "unborn"
      BY <1>0, <2>5 DEF Create, Enter, TaskType, CallType
    <3> QED BY <2>o, <3>1 DEF CreateLast
  <2>6. CASE \/ PauseCancel(c) \/ ResumeFileMissing(c) \/ ResumeRefused(c) \/ ResumeGiveUp(c)
             \/ DeleteCancel(c) \/ DeleteTimeout(c) \/ Stop(c) \/ StopReturns(c) \/ StopTimeout(c)
             \/ \E t \in Task : Pause(c, t) \/ Resume(c, t) \/ Delete(c, t)
    <3>1. KeepsTasks BY <1>0, <2>6, CallMild DEF Mild
    <3>2. \A t \in Task : status'[t] = "unborn" => status[t] = "unborn" /\ prio'[t] = prio[t]
      <4>1. ASSUME NEW t \in Task, Pause(c, t)
            PROVE  \A u \in Task : status'[u] = "unborn" => prio'[u] = prio[u]
        BY <1>0, <4>1 DEF Pause, InMap, Status, TaskType
      <4>2. prio' = prio \/ \E t \in Task : Pause(c, t)
        BY <2>6 DEF PauseCancel, ResumeFileMissing, ResumeRefused, ResumeGiveUp, DeleteCancel,
           DeleteTimeout, Stop, StopReturns, StopTimeout, Resume, Delete, taskVars
      <4> QED BY <3>1, <4>1, <4>2 DEF KeepsTasks
    <3>3. call'[c].op # "create"
      <4>1. CASE DeleteCancel(c)
        BY <1>0, <4>1 DEF DeleteCancel, CallType, Call
      <4>2. CASE Stop(c) \/ \E t \in Task : Pause(c, t) \/ Resume(c, t) \/ Delete(c, t)
        BY <1>0, <4>2 DEF Stop, Pause, Resume, Delete, Enter, CallType
      <4> QED BY <2>6, <2>i, <4>1, <4>2 DEF PauseCancel, ResumeFileMissing, ResumeRefused, ResumeGiveUp,
              DeleteTimeout, StopReturns, StopTimeout
    <3> QED BY <2>1, <3>2, <3>3
  <2> QED BY <1>4, <2>2, <2>3, <2>4, <2>5, <2>6 DEF CallStep
<1> QED BY <1>2, <1>3, <1>4 DEF Next

SleepInv == IInv /\ Ownership /\ Truth /\ CreateLast /\ SleeperServed

\* For plain uploads, while callers take turns: no worker sleeps in the queue unless
\* somebody is on the way who will broadcast, so that acquireRunSlot's test under
\* the lock and the broadcasts of releaseSlot, Pause, Delete, Stop and the change
\* of the limit lose no wake-up between them.
THEOREM SleepersServed == ASSUME OneCaller, Plain PROVE Spec => []SleeperServed
<1>1. ASSUME Init PROVE CreateLast /\ SleeperServed
  <2>1. \A c \in Caller : call[c].op = "idle" BY <1>1 DEF Init, Idle
  <2> QED BY <1>1, <2>1 DEF Init, CreateLast, SleeperServed
<1>2. SleepInv /\ [Next]_vars => SleepInv'
  <2> SUFFICES ASSUME SleepInv, [Next]_vars PROVE SleepInv' OBVIOUS
  <2>1. SleepContext /\ SleeperServed BY DEF SleepInv, SleepContext
  <2>2. (IInv /\ Ownership /\ Truth /\ CreateLast)'
    BY NextIInv, OwnershipStep, TruthStep, CreateLastStep DEF SleepInv
  <2>3. SleeperServed'
    <3>1. CASE SetLimit
      BY <3>1, WokenServed DEF SetLimit, SleepInv, IInv, TypeOK
    <3>2. CASE OpenGate \/ UNCHANGED vars
      <4>1. UNCHANGED <<status, prio, run, slot, pc, wtask, wrun, stopping, call>>
        BY <3>2 DEF OpenGate, vars, taskVars, slotVars, goVars, mgrVars
      <4> QED BY <2>1, <4>1 DEF SleeperServed, BroadcastDue, Awake, StillQueued, Precedes
    <3> QED BY <2>1, <3>1, <3>2, WorkerServes, CallServes DEF Next
  <2> QED BY <2>2, <2>3 DEF SleepInv
<1>3. SleepInv => SleeperServed BY DEF SleepInv
<1> QED BY <1>1, <1>2, <1>3, InitIInv, InitOwns, TruthInit, PTL DEF Spec, SleepInv

\* Therefore the task that is next of its queue never sleeps for good: a slot that
\* is held comes back, or a call is about to broadcast.
THEOREM HeadsWoken ==
  ASSUME OneCaller, Plain
  PROVE  Spec => [](\A w \in Worker :
           pc[w] = "wait" /\ StillQueued(w) /\ IsNextPending(wtask[w]) => BroadcastDue)
<1> DEFINE Woken == \A w \in Worker :
             pc[w] = "wait" /\ StillQueued(w) /\ IsNextPending(wtask[w]) => BroadcastDue
<1>1. ASSUME TypeOK, SleeperServed PROVE Woken
  <2> SUFFICES ASSUME NEW w \in Worker, pc[w] = "wait", StillQueued(w), IsNextPending(wtask[w]),
                      ~BroadcastDue
               PROVE  FALSE
    OBVIOUS
  <2>1. PICK v \in Worker : Awake(v) /\ Precedes(wtask[v], wtask[w])
    BY <1>1 DEF SleeperServed
  <2>2. wtask[v] \in Task /\ wtask[w] \in Task /\ status[wtask[v]] = "pending"
    BY <1>1, <2>1 DEF TypeOK, GoType, Awake
  <2>3. wtask[v] # wtask[w]
    BY <1>1, <2>1, <2>2, QueueOrdered DEF TypeOK
  <2>4. SlotKind(wtask[v]) = SlotKind(wtask[w])
    BY DEF Plain, SlotKind
  <2> QED BY <2>1, <2>2, <2>3, <2>4 DEF IsNextPending
<1> QED BY <1>1, TypeCorrect, SleepersServed, PTL

-----------------------------------------------------------------------------
(* What a call waits for.  Ownership says whose channel it is; that its        *)
(* goroutine is there needs that a run ends without closing its channel only   *)
(* when its task has left the map before the run's first look at it.           *)

\* A task in the map has a run that is at work or has closed its channel, unless the
\* call that has made it is yet to start one.
RunCloses(t) ==
  InMap(t) /\ ~IsCreated(t) =>
    run[t] \in closed \/ (OfTask(run[t], t) /\ Alive(run[t]))

\* Stop waits for runs of tasks that are still there.
StopAwaits(c) ==
  call[c].op = "stop" => \A n \in call[c].runs : \E t \in Task : InMap(t) /\ run[t] = n

WaitInv == (\A t \in Task : RunCloses(t)) /\ \A c \in Caller : StopAwaits(c)

\* A step at which no task comes or gets another run, no goroutine ends, and no call
\* that has made a task is over.
RunsGoOn ==
  /\ \A t \in Task : InMap(t)' => InMap(t) /\ run'[t] = run[t]
  /\ closed \subseteq closed'
  /\ \A w \in Worker : Alive(w) => Alive(w)' /\ wtask'[w] = wtask[w]

LEMMA GoingOnCloses ==
  ASSUME WaitInv, RunsGoOn, NEW t \in Task, IsCreated(t) => IsCreated(t)' \/ ~InMap(t)'
  PROVE  RunCloses(t)'
<1>1. RunCloses(t) BY DEF WaitInv
<1> QED BY <1>1 DEF RunsGoOn, RunCloses, OfTask, Alive

LEMMA MildGoesOn == ASSUME Mild PROVE RunsGoOn
BY DEF Mild, KeepsTasks, KeepsWorkers, RunsGoOn, Alive

LEMMA WorkerCloses ==
  ASSUME Context, WaitInv, NEW w \in Worker, WorkerStep(w) PROVE WaitInv'
<1>0. GoType /\ TypeOK /\ SlotDiscipline /\ \A v \in Worker : wtask[v] \in Task
  BY DEF Context, TypeOK, GoType
<1>1. ASSUME RunsGoOn, call' = call, KeepsTasks, run' = run PROVE WaitInv'
  <2>1. \A t \in Task : RunCloses(t)' BY <1>1, GoingOnCloses DEF IsCreated
  <2>2. \A c \in Caller : StopAwaits(c)' BY <1>1 DEF WaitInv, StopAwaits, KeepsTasks
  <2> QED BY <2>1, <2>2 DEF WaitInv
<1>2. CASE MildRun(w)
  <2>1. Mild /\ call' = call BY <1>0, <1>2, RunMild
  <2> QED BY <1>1, <2>1, MildGoesOn DEF Mild
<1>3. CASE TakeSlot(w)
  <2>1. RunsGoOn
    BY <1>0, <1>3 DEF TakeSlot, Goto, RunsGoOn, Alive, InMap, GoType, chanVars
  <2> QED BY <1>1, <1>3, <2>1, SameKeeps DEF TakeSlot
<1>4. CASE Start(w) \/ Exit(w)
  <2>1. /\ UNCHANGED <<status, run, wtask, call>> /\ closed \subseteq closed'
        /\ \A v \in Worker \ {w} : pc'[v] = pc[v]
    BY <1>0, <1>4 DEF Start, Exit, Goto, GoType, taskVars, chanVars
  <2>2. ASSUME InMap(wtask[w]) PROVE w \in closed' \/ Alive(w)'
    <3>1. CASE Start(w) BY <1>0, <2>2, <3>1 DEF Start, Goto, GoType, Alive
    <3>2. CASE Exit(w)
      BY <3>2 DEF Exit, Context, Ownership, RunsOwn, WorkerOwns, Engaged, Alive
    <3> QED BY <1>4, <3>1, <3>2
  <2>3. ASSUME NEW t \in Task PROVE RunCloses(t)'
    <3>1. RunCloses(t) BY DEF WaitInv
    <3>2. IsCreated(t)' <=> IsCreated(t) BY <2>1 DEF IsCreated
    <3>3. InMap(t)' <=> InMap(t) BY <2>1 DEF InMap
    <3>4. CASE run[t] = w
      <4>1. OfTask(w, t)' <=> wtask[w] = t /\ pc'[w] # "none"
        BY <2>1 DEF OfTask
      <4>2. pc'[w] # "none"
        BY <1>0, <1>4 DEF Start, Exit, Goto, GoType
      <4> QED BY <2>1, <2>2, <3>1, <3>2, <3>3, <3>4, <4>1, <4>2 DEF RunCloses, OfTask
    <3>5. CASE run[t] # w
      <4>1. OfTask(run[t], t) /\ Alive(run[t]) => OfTask(run[t], t)' /\ Alive(run[t])'
        BY <2>1, <3>5 DEF OfTask, Alive
      <4> QED BY <2>1, <3>1, <3>2, <3>3, <4>1 DEF RunCloses
    <3> QED BY <3>4, <3>5
  <2>4. \A c \in Caller : StopAwaits(c)' BY <2>1 DEF WaitInv, StopAwaits, InMap
  <2> QED BY <2>3, <2>4 DEF WaitInv
<1> QED BY <1>2, <1>3, <1>4 DEF WorkerStep, MildRun

\* A run begins: for a new task, or for the next run of one.
LEMMA SpawnCloses ==
  ASSUME Context, WaitInv, NEW t \in Task, NEW n \in Worker, pc[n] = "none", Spawn(t, n),
         closed' = closed, run' = [run EXCEPT ![t] = n],
         \A u \in Task \ {t} : status'[u] = status[u] /\ (IsCreated(u) => IsCreated(u)')
  PROVE  \A u \in Task : RunCloses(u)'
<1>0. GoType /\ TaskType BY DEF Context, TypeOK
<1>1. RunCloses(t)'
  BY <1>0 DEF Spawn, RunCloses, OfTask, Alive, GoType, TaskType
<1>2. ASSUME NEW u \in Task \ {t} PROVE RunCloses(u)'
  <2>1. RunCloses(u) /\ run'[u] = run[u] /\ (InMap(u)' <=> InMap(u))
    BY <1>0 DEF WaitInv, TaskType, InMap
  <2>2. OfTask(run[u], u) /\ Alive(run[u]) => OfTask(run[u], u)' /\ Alive(run[u])'
    BY <1>0 DEF OfTask, Alive, Spawn, GoType
  <2> QED BY <2>1, <2>2 DEF RunCloses
<1> QED BY <1>1, <1>2

LEMMA CallCloses ==
  ASSUME OneCaller, Context, WaitInv, NEW c \in Caller, CallStep(c) PROVE WaitInv'
<1>0. /\ TypeOK /\ TaskType /\ GoType /\ CallType /\ CallOwns(c) /\ call[c].task \in Task
      /\ \A d \in Caller : d = c
  BY DEF Context, TypeOK, Ownership, CallType, Call, OneCaller
<1>i. Return(c) => call'[c].op = "idle" BY <1>0 DEF Return, Idle, CallType
<1>s. ASSUME call'[c].op # "stop", \A t \in Task : RunCloses(t)' PROVE WaitInv'
  BY <1>0, <1>s DEF WaitInv, StopAwaits
<1>1. CASE CreateCommit(c)
  <2>1. PICK t \in Task : t = call[c].task BY <1>0
  <2>2. call[c].runs = {run[t]} /\ pc[run[t]] = "none" /\ run[t] \in Worker
    BY <1>0, <1>1, <2>1 DEF CreateCommit, CallOwns, AwaitsRun, Context, Ownership, RunsOwn, Numbered
  <2>3. /\ Spawn(t, run[t]) /\ closed' = closed /\ status' = status /\ run' = [run EXCEPT ![t] = run[t]]
    BY <1>0, <1>1, <2>1, <2>2 DEF CreateCommit, taskVars, chanVars, TaskType
  <2>4. \A u \in Task \ {t} : ~IsCreated(u) BY <1>0, <2>1 DEF IsCreated
  <2>5. \A u \in Task : RunCloses(u)' BY <2>2, <2>3, <2>4, SpawnCloses
  <2> QED BY <1>1, <1>i, <1>s, <2>5 DEF CreateCommit
<1>2. CASE ResumeRun(c)
  <2>1. PICK t \in Task : t = call[c].task BY <1>0
  <2>2. PICK n \in Worker : n = queueOrder + 1
    <3>1. queueOrder < MaxRuns /\ queueOrder \in 0..MaxRuns /\ MaxRuns \in Nat
      BY <1>0, <1>2, ConstantsAssumption DEF ResumeRun, TypeOK, MgrType, RunNo
    <3>2. queueOrder + 1 \in Worker BY <3>1 DEF Worker
    <3> QED BY <3>2
  <2>3. pc[n] = "none"
    BY <1>0, <2>2, ConstantsAssumption DEF Context, SpawnFresh, TypeOK, MgrType, RunNo
  <2>4. /\ Spawn(t, n) /\ closed' = closed /\ run' = [run EXCEPT ![t] = n]
        /\ status' = [status EXCEPT ![t] = "pending"] /\ call[c].op = "resume"
    BY <1>2, <2>1, <2>2 DEF ResumeRun, chanVars
  <2>5. \A u \in Task \ {t} : status'[u] = status[u] /\ ~IsCreated(u)
    BY <1>0, <2>4 DEF IsCreated, TaskType
  <2>6. \A u \in Task : RunCloses(u)' BY <2>3, <2>4, <2>5, SpawnCloses
  <2> QED BY <1>2, <1>i, <1>s, <2>6 DEF ResumeRun
<1>3. CASE CreateRollback(c) \/ DeletePop(c)
  <2>1. PICK t \in Task : t = call[c].task BY <1>0
  <2>2. Remove(t) /\ Return(c) /\ UNCHANGED <<goVars, chanVars>>
    BY <1>0, <1>3, <2>1 DEF CreateRollback, DeletePop, CallOwns, AwaitsRun
  <2>3. \A u \in Task \ {t} : ~IsCreated(u)  BY <1>0, <2>1 DEF IsCreated
  <2>4. \A u \in Task : InMap(u)' => InMap(u) /\ u # t /\ run'[u] = run[u]
    BY <1>0, <2>2 DEF Remove, InMap, Status, TaskType
  <2>5. RunsGoOn BY <2>2, <2>4 DEF RunsGoOn, goVars, chanVars, Alive
  <2>6. \A u \in Task : RunCloses(u)' BY <2>3, <2>4, <2>5, GoingOnCloses
  <2> QED BY <1>i, <1>s, <2>2, <2>6
<1>4. ASSUME NEW t \in Task, Create(c, t) PROVE WaitInv'
  <2>1. /\ call'[c].op = "create" /\ call'[c].task = t /\ call[c].op = "idle"
        /\ UNCHANGED <<goVars, chanVars>>
        /\ \A u \in Task \ {t} : status'[u] = status[u] /\ run'[u] = run[u]
    BY <1>0, <1>4 DEF Create, Enter, TaskType, CallType
  <2>2. IsCreated(t)' BY <2>1 DEF IsCreated
  <2>3. ASSUME NEW u \in Task \ {t} PROVE RunCloses(u)'
    <3>1. RunCloses(u) /\ ~IsCreated(u) BY <1>0, <2>1 DEF WaitInv, IsCreated
    <3> QED BY <2>1, <3>1 DEF RunCloses, InMap, OfTask, Alive, goVars, chanVars
  <2> QED BY <1>s, <2>1, <2>2, <2>3 DEF RunCloses
<1>5. CASE \/ PauseCancel(c) \/ ResumeFileMissing(c) \/ ResumeRefused(c) \/ ResumeGiveUp(c)
           \/ DeleteCancel(c) \/ DeleteTimeout(c) \/ Stop(c) \/ StopReturns(c) \/ StopTimeout(c)
           \/ \E t \in Task : Pause(c, t) \/ Resume(c, t) \/ Delete(c, t)
  <2>1. Mild BY <1>0, <1>5, CallMild
  <2>2. call[c].op # "create"
    BY <1>5 DEF PauseCancel, ResumeFileMissing, ResumeRefused, ResumeGiveUp, DeleteCancel,
       DeleteTimeout, Stop, StopReturns, StopTimeout, Pause, Resume, Delete, Enter
  <2>3. \A t \in Task : RunCloses(t)'
    BY <1>0, <2>1, <2>2, MildGoesOn, GoingOnCloses DEF IsCreated
  <2>4. CASE Stop(c)
    <3>1. status' = status /\ run' = run /\ call'[c].runs = {run[t] : t \in {u \in Task : InMap(u)}}
      BY <1>0, <2>4 DEF Stop, Enter, CallType
    <3>2. StopAwaits(c)' BY <3>1 DEF StopAwaits, InMap
    <3> QED BY <1>0, <2>3, <3>2 DEF WaitInv
  <2>5. CASE ~Stop(c)
    <3>1. call'[c].op # "stop"
      <4>1. CASE DeleteCancel(c)
        BY <1>0, <4>1 DEF DeleteCancel, CallType, Call
      <4>2. CASE \E t \in Task : Pause(c, t) \/ Resume(c, t) \/ Delete(c, t)
        BY <1>0, <4>2 DEF Pause, Resume, Delete, Enter, CallType
      <4> QED BY <1>5, <1>i, <2>5, <4>1, <4>2 DEF PauseCancel, ResumeFileMissing, ResumeRefused,
              ResumeGiveUp, DeleteTimeout, StopReturns, StopTimeout
    <3> QED BY <1>s, <2>3, <3>1
  <2> QED BY <2>4, <2>5
<1> QED BY <1>1, <1>2, <1>3, <1>4, <1>5 DEF CallStep

\* While callers take turns: whatever channel Resume, Delete or Stop wait for has been
\* closed, or its goroutine is alive and closes it on its way out, so that only the
\* driver can keep them waiting.
THEOREM WaitsServed == ASSUME OneCaller PROVE Spec => []WaitServed
<1> DEFINE Inv == IInv /\ Ownership /\ WaitInv
<1>1. ASSUME Init PROVE WaitInv
  <2>1. \A c \in Caller : call[c].op = "idle" BY <1>1 DEF Init, Idle
  <2> QED BY <1>1, <2>1 DEF Init, WaitInv, RunCloses, StopAwaits, InMap, Status
<1>2. ASSUME Inv, [Next]_vars PROVE Inv'
  <2>1. Context BY <1>2 DEF Context, IInv
  <2>2. CASE SetLimit \/ OpenGate \/ UNCHANGED vars
    <3>1. UNCHANGED <<status, run, wtask, chanVars, call>> /\ (pc' = pc \/ pc' = Wake(pc))
      BY <2>2 DEF SetLimit, OpenGate, vars, taskVars, slotVars, goVars, mgrVars
    <3>2. \A w \in Worker : Alive(w) => Alive(w)'
      BY <2>1, <3>1 DEF Wake, Alive, Context, TypeOK, GoType
    <3>3. RunsGoOn BY <3>1, <3>2 DEF RunsGoOn, InMap, chanVars
    <3>4. \A t \in Task : RunCloses(t)'
      BY <1>2, <3>1, <3>3, GoingOnCloses DEF IsCreated
    <3>5. \A c \in Caller : StopAwaits(c)' BY <1>2, <3>1 DEF WaitInv, StopAwaits, InMap
    <3> QED BY <3>4, <3>5, <1>2, OwnershipStep, NextIInv DEF WaitInv
  <2>3. WaitInv' BY <1>2, <2>1, <2>2, WorkerCloses, CallCloses DEF Next
  <2> QED BY <1>2, <2>3, OwnershipStep, NextIInv
<1>3. ASSUME Inv PROVE WaitServed
  <2> SUFFICES ASSUME NEW c \in Caller, call[c].op \in {"resume", "delete", "await", "stop"},
                      NEW n \in call[c].runs
               PROVE  Closes(n)
    BY DEF WaitServed
  <2>1. \A t \in Task : ~IsCreated(t) BY DEF IsCreated, OneCaller
  <2>2. PICK t \in Task : InMap(t) /\ run[t] = n
    <3>1. CASE call[c].op = "stop" BY <1>3, <3>1 DEF WaitInv, StopAwaits
    <3>2. CASE call[c].op # "stop"
      <4>1. call[c].task \in Task BY <1>3 DEF IInv, TypeOK, CallType, Call
      <4>2. CallOwns(c) BY <1>3 DEF Ownership
      <4> QED BY <3>2, <4>1, <4>2 DEF CallOwns, AwaitsRun
    <3> QED BY <3>1, <3>2
  <2> QED BY <1>3, <2>1, <2>2 DEF WaitInv, RunCloses, Closes, OfTask
<1> QED BY <1>1, <1>2, <1>3, InitIInv, InitOwns, PTL DEF Spec

-----------------------------------------------------------------------------
(* What has been uploaded is done with.                                        *)

\* Whoever holds a slot for a task that has succeeded is on its way out.
Settled(w) == slot[w] # "none" /\ status[wtask[w]] = "success" => pc[w] = "release"

DoneInv == \A w \in Worker : Settled(w)

SuccessKept == \A t \in Task : status[t] = "success" => status'[t] \in {"success", "gone"}

\* A step that gives no slot, changes no holder and makes no success keeps DoneInv.
LEMMA CalmSettles ==
  ASSUME GoType, DoneInv, \A t \in Task : status'[t] = "success" => status[t] = "success",
         \A v \in Worker : slot'[v] # "none" =>
           slot[v] # "none" /\ wtask'[v] = wtask[v] /\ (pc[v] = "release" => pc'[v] = "release")
  PROVE  DoneInv'
<1> SUFFICES ASSUME NEW v \in Worker, slot'[v] # "none", status'[wtask'[v]] = "success"
             PROVE  pc'[v] = "release"
  BY DEF DoneInv, Settled
<1>1. Settled(v) /\ wtask[v] \in Task
  BY DEF DoneInv, GoType
<1> QED BY <1>1 DEF Settled

\* A worker with a slot writes a status only for a task that has not succeeded.
LEMMA HolderSettles ==
  ASSUME Context, DoneInv, NEW w \in Worker, slot[w] # "none", pc[w] # "release",
         slot' = slot, wtask' = wtask, \A v \in Worker : v # w => pc'[v] = pc[v],
         \A u \in Task : u # wtask[w] => status'[u] = status[u],
         status'[wtask[w]] = "success" => pc'[w] = "release"
  PROVE  SuccessKept /\ DoneInv'
<1>1. /\ status[wtask[w]] # "success"
      /\ \A v \in Worker : slot[v] # "none" => wtask[v] \in Task /\ (wtask[v] = wtask[w] => v = w)
  BY OneHolder DEF DoneInv, Settled, Context, TypeOK, GoType
<1>2. SuccessKept
  BY <1>1 DEF SuccessKept
<1>3. ASSUME NEW v \in Worker PROVE Settled(v)'
  BY <1>1, <1>3 DEF DoneInv, Settled
<1> QED BY <1>2, <1>3 DEF DoneInv

LEMMA WorkerSettles ==
  ASSUME Context, DoneInv, NEW w \in Worker, WorkerStep(w) PROVE SuccessKept /\ DoneInv'
<1> USE DEF Context, TypeOK
<1>t. wtask[w] \in Task
  BY DEF GoType
<1>1. CASE Start(w) \/ PassGate(w) \/ QuitQueue(w) \/ WaitForSlot(w) \/ Exit(w)
  <2>1. UNCHANGED <<status, slot, wtask>> /\ \A v \in Worker : pc[v] = "release" => pc'[v] = "release"
    BY <1>1 DEF Start, PassGate, QuitQueue, WaitForSlot, Exit, Goto, GoType, taskVars, slotVars
  <2> QED BY <2>1, CalmSettles DEF SuccessKept
<1>2. CASE TakeSlot(w)
  <2>1. /\ UNCHANGED <<status, wtask>> /\ status[wtask[w]] = "pending"
        /\ slot' = [slot EXCEPT ![w] = SlotKind(wtask[w])]
        /\ \A v \in Worker : v # w => pc'[v] = pc[v]
    BY <1>2 DEF TakeSlot, StillQueued, Goto, GoType
  <2>2. ASSUME NEW v \in Worker PROVE Settled(v)'
    BY <2>1, <2>2 DEF DoneInv, Settled, SlotType
  <2> QED BY <2>1, <2>2 DEF SuccessKept, DoneInv
<1>3. CASE ReleaseSlot(w)
  <2>1. /\ UNCHANGED <<status, wtask>> /\ slot' = [slot EXCEPT ![w] = "none"]
        /\ \A v \in Worker : v # w /\ pc[v] = "release" => pc'[v] = "release"
    BY <1>3 DEF ReleaseSlot, Wake, GoType, taskVars
  <2>2. \A v \in Worker : slot'[v] # "none" =>
          slot[v] # "none" /\ wtask'[v] = wtask[v] /\ (pc[v] = "release" => pc'[v] = "release")
    BY <2>1 DEF SlotType
  <2> QED BY <2>1, <2>2, CalmSettles DEF SuccessKept
<1>4. ASSUME slot[w] # "none", pc[w] # "release", slot' = slot, wtask' = wtask,
             (\E l : Goto(w, l)) \/ pc' = pc,
             status' = status \/ \E s : status' = [status EXCEPT ![wtask[w]] = s],
             status'[wtask[w]] = "success" => pc'[w] = "release"
      PROVE  SuccessKept /\ DoneInv'
  <2>1. \A v \in Worker : v # w => pc'[v] = pc[v]
    BY <1>4 DEF Goto, GoType
  <2>2. \A u \in Task : u # wtask[w] => status'[u] = status[u]
    BY <1>4 DEF TaskType
  <2> QED BY <1>4, <2>1, <2>2, HolderSettles
<1>5. CASE UploadEnds(w) \/ DownloadEnds(w)
  <2>1. status[wtask[w]] # "success"
    BY <1>5 DEF UploadEnds, DownloadEnds, DoneInv, Settled
  <2> QED BY <1>4, <1>5, <2>1 DEF UploadEnds, DownloadEnds, Fails, taskVars, slotVars
<1>6. CASE BeginUpload(w) \/ BeginDownload(w) \/ UploadProgress(w) \/ DownloadProgress(w)
           \/ FailUpload(w) \/ FailDownload(w) \/ FinishDownload(w)
  <2>1. /\ slot[w] # "none" /\ pc[w] # "release" /\ slot' = slot /\ wtask' = wtask
        /\ (\E l : Goto(w, l)) \/ pc' = pc
    BY <1>6 DEF BeginUpload, BeginDownload, Begins, Declines, UploadProgress, DownloadProgress,
       FailUpload, FailDownload, FinishDownload, slotVars, goVars
  <2>2. status[wtask[w]] # "success"
    BY <2>1 DEF DoneInv, Settled
  <2>3. status' = status \/ \E s \in Status \ {"success"} : Patch(wtask[w], s)
                         \/ status' = [status EXCEPT ![wtask[w]] = s]
    BY <1>6 DEF BeginUpload, BeginDownload, Begins, Declines, UploadProgress, DownloadProgress,
       FailUpload, FailDownload, FailedStatus, FinishDownload, Status
  <2>4. /\ status' = status \/ \E s : status' = [status EXCEPT ![wtask[w]] = s]
        /\ status'[wtask[w]] # "success"
    BY <1>t, <2>2, <2>3 DEF Patch, TaskType
  <2> QED BY <1>4, <2>1, <2>4
<1>7. CASE FinishUpload(w)
  BY <1>4, <1>7 DEF FinishUpload, Patch, Goto, GoType, slotVars
<1> QED BY <1>1, <1>2, <1>3, <1>5, <1>6, <1>7 DEF WorkerStep

LEMMA CallSettles ==
  ASSUME Context, DoneInv, NEW c \in Caller, CallStep(c) PROVE SuccessKept /\ DoneInv'
<1> USE DEF Context, TypeOK
<1>t. call[c].task \in Task
  BY DEF CallType, Call
<1>1. slot' = slot
  BY DEF CallStep, CreateCommit, CreateRollback, PauseCancel, ResumeRun, ResumeFileMissing,
     ResumeRefused, ResumeGiveUp, DeleteCancel, DeletePop, DeleteTimeout, Stop, StopReturns,
     StopTimeout, Create, Pause, Resume, Delete, slotVars
<1>2. \A v \in Worker : slot[v] # "none" =>
        wtask'[v] = wtask[v] /\ (pc[v] = "release" => pc'[v] = "release")
  <2>1. CASE CreateCommit(c) \/ ResumeRun(c)
    <3>1. PICK n \in Nat : (\E t : Spawn(t, n)) /\ (n \in Worker => pc[n] = "none")
      <4>1. CASE CreateCommit(c)
        <5>1. PICK n \in call[c].runs : Spawn(call[c].task, n)
          BY <4>1 DEF CreateCommit
        <5>2. n \in Worker => pc[n] = "none"
          BY <4>1, <5>1 DEF CreateCommit, SpawnFresh, Creates
        <5>3. n \in Nat
          BY <5>1, ConstantsAssumption DEF CallType, Call, RunNo
        <5> QED BY <5>1, <5>2, <5>3
      <4>2. CASE ResumeRun(c)
        <5>1. Spawn(call[c].task, queueOrder + 1)
          BY <4>2 DEF ResumeRun
        <5>2. queueOrder + 1 \in Worker => pc[queueOrder + 1] = "none"
          BY ConstantsAssumption DEF SpawnFresh, MgrType, RunNo
        <5>3. queueOrder + 1 \in Nat
          BY ConstantsAssumption DEF MgrType, RunNo
        <5> QED BY <5>1, <5>2, <5>3
      <4> QED BY <2>1, <4>1, <4>2
    <3>2. n \in Worker => slot[n] = "none"
      BY <3>1 DEF SlotDiscipline, Holding
    <3> QED BY <3>1, <3>2 DEF Spawn, GoType
  <2>2. CASE ~(CreateCommit(c) \/ ResumeRun(c))
    <3>1. wtask' = wtask /\ (pc' = pc \/ pc' = Wake(pc))
      BY <2>2 DEF CallStep, CreateRollback, PauseCancel, ResumeFileMissing, ResumeRefused,
         ResumeGiveUp, DeleteCancel, DeletePop, DeleteTimeout, Stop, StopReturns, StopTimeout,
         Create, Pause, Resume, Delete, goVars
    <3> QED BY <3>1 DEF Wake, GoType
  <2> QED BY <2>1, <2>2
<1>3. ASSUME NEW t \in Task
      PROVE  \/ status'[t] = status[t]
             \/ status[t] # "success" /\ status'[t] # "success"
             \/ status'[t] = "gone"
  <2>1. CASE CreateRollback(c) \/ DeletePop(c)
    <3>1. status' = [status EXCEPT ![call[c].task] = "gone"] \/ status' = status
      BY <2>1 DEF CreateRollback, DeletePop, Remove, taskVars
    <3> QED BY <1>t, <3>1 DEF TaskType
  <2>2. CASE ResumeRun(c) \/ ResumeFileMissing(c)
    BY <1>t, <2>2 DEF ResumeRun, ResumeFileMissing, CanResume, Patch, Resumable, TaskType
  <2>3. ASSUME NEW u \in Task, Create(c, u) \/ Pause(c, u) \/ Resume(c, u) \/ Delete(c, u)
        PROVE  status'[t] = status[t] \/ (status[t] # "success" /\ status'[t] # "success")
    <3>1. CASE Create(c, u)
      BY <3>1 DEF Create, TaskType
    <3>2. CASE Pause(c, u)
      BY <3>2 DEF Pause, Active, TaskType
    <3>3. CASE Resume(c, u)
      BY <3>3 DEF Resume, taskVars
    <3>4. CASE Delete(c, u)
      BY <3>4 DEF Delete, Active, TaskType
    <3> QED BY <2>3, <3>1, <3>2, <3>3, <3>4
  <2>4. CASE \/ CreateCommit(c) \/ PauseCancel(c) \/ ResumeRefused(c) \/ ResumeGiveUp(c)
             \/ DeleteCancel(c) \/ DeleteTimeout(c) \/ Stop(c) \/ StopReturns(c)
             \/ StopTimeout(c)
    BY <2>4 DEF CreateCommit, PauseCancel, ResumeRefused, ResumeGiveUp, DeleteCancel,
       DeleteTimeout, Stop, StopReturns, StopTimeout, taskVars
  <2> QED BY <2>1, <2>2, <2>3, <2>4 DEF CallStep
<1>4. SuccessKept /\ \A t \in Task : status'[t] = "success" => status[t] = "success"
  BY <1>3 DEF SuccessKept
<1> QED BY <1>1, <1>2, <1>4, CalmSettles

LEMMA DoneStep ==
  ASSUME IInv, Ownership, DoneInv, [Next]_vars PROVE SuccessKept /\ DoneInv'
<1>c. Context /\ GoType
  BY DEF IInv, Context, TypeOK
<1>1. CASE SetLimit \/ OpenGate \/ UNCHANGED vars
  <2>1. UNCHANGED <<status, slot, wtask>> /\ (pc' = pc \/ pc' = Wake(pc))
    BY <1>1 DEF SetLimit, OpenGate, vars, taskVars, slotVars, goVars
  <2>2. \A v \in Worker : pc[v] = "release" => pc'[v] = "release"
    BY <1>c, <2>1 DEF Wake, GoType
  <2> QED BY <1>c, <2>1, <2>2, CalmSettles DEF SuccessKept
<1> QED BY <1>c, <1>1, WorkerSettles, CallSettles DEF Next

\* While callers take turns, what has been uploaded stays shown as uploaded until it
\* is deleted, so that nothing uploads it again.
THEOREM SuccessesStay == ASSUME OneCaller PROVE Spec => SuccessStays
<1>1. Init => DoneInv
  BY DEF Init, DoneInv, Settled
<1>2. IInv /\ Ownership /\ DoneInv /\ [Next]_vars => DoneInv' /\ [SuccessKept]_vars
  BY DoneStep
<1>3. Spec => [](IInv /\ Ownership)
  BY OwnershipInvariant
<1> QED BY <1>1, <1>2, <1>3, PTL DEF Spec, SuccessStays, SuccessKept
=============================================================================
