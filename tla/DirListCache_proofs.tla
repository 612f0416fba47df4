------------------------ MODULE DirListCache_proofs ------------------------
(* For any number of callers and directories: a directory has one loader at a *)
(* time, nobody waits for a load that is over, and mutations that overlap     *)
(* nothing leave no old list behind.                                          *)
EXTENDS DirListCache, TLAPS

\* A loader is the leader its directory's entry in the map names ...
LoaderNamed == \A c \in Caller : pc[c] \in Loading => flight[job[c].dir] = c

\* ... and an entry names a loader of its directory, until the loader removes it.
LeaderLoads ==
  \A d \in Dir : flight[d] # None =>
    pc[flight[d]] \in Loading /\ job[flight[d]].dir = d

\* A leader has not closed its channel while somebody waits for it.
JoinedOpen ==
  \A c \in Caller : pc[c] = "joined" =>
    flight[job[c].dir] # None /\ pc[flight[job[c].dir]] # "forget"

\* Only an item that the driver has named is put into a cached list.
UpsertNamed == \A x \in Thread : pc[x] \in {"ttl", "upsert"} => job[x].item # None

FlightInv == LoaderNamed /\ LeaderLoads /\ JoinedOpen

IInv == TypeOK /\ UpsertNamed /\ FlightInv

USE ThreadAssumption, NoneAssumption, BoundAssumption

LEMMA NoJobType == NoJob \in Job /\ \A d \in Dir : [NoJob EXCEPT !.dir = d] \in Job
  BY SMT DEF NoJob, Job, Op

LEMMA InitIInv == Init => IInv
<1> SUFFICES ASSUME Init PROVE IInv
  OBVIOUS
<1>1. StoreType
  BY SMT DEF Init, StoreType, DirList
<1>2. BusType
  BY SMT DEF Init, BusType
<1>3. ThreadType
  BY NoJobType, SMT DEF Init, ThreadType, DirList
<1>4. FlightInv
  BY SMT DEF Init, FlightInv, LoaderNamed, LeaderLoads, JoinedOpen, Loading, Thread
<1>5. UpsertNamed
  BY SMT DEF Init, UpsertNamed
<1> QED BY <1>1, <1>2, <1>3, <1>4, <1>5 DEF IInv, TypeOK

\* The ways a step moves its thread.
LEMMA GotoType ==
  ASSUME ThreadType, NEW x \in Thread, NEW l \in {"idle"} \cup ListPc \cup ApplyPc, Goto(x, l)
  PROVE  pc' \in [Thread -> {"idle"} \cup ListPc \cup ApplyPc]
  BY SMT DEF ThreadType, Goto

LEMMA EndType ==
  ASSUME ThreadType, NEW x \in Thread, End(x)
  PROVE  ThreadType'
<1>1. pc' \in [Thread -> {"idle"} \cup ListPc \cup ApplyPc]
  BY GotoType DEF End
<1>2. job' \in [Thread -> Job] /\ list' \in [Thread -> DirList]
  BY NoJobType, SMT DEF ThreadType, End, DirList
<1> QED BY <1>1, <1>2 DEF ThreadType

LEMMA ListKeepsType ==
  ASSUME TypeOK, NEW c \in Caller, ListStep(c)
  PROVE  TypeOK'
<1>c. c \in Thread
  BY DEF Thread
<1> USE <1>c
<1>t. StoreType /\ BusType /\ ThreadType /\ job[c].dir \in Dir
  BY SMT DEF TypeOK, ThreadType, Job
<1> USE DEF TypeOK, cacheVars
<1>s. ASSUME UNCHANGED cacheVars, ThreadType' PROVE TypeOK'
  BY <1>s, <1>t DEF StoreType, BusType
<1>g. ASSUME NEW l \in ListPc, Goto(c, l), UNCHANGED <<job, list>> PROVE ThreadType'
  BY <1>g, <1>t, GotoType DEF ThreadType
<1>1. ASSUME NEW d \in Dir, NEW force \in BOOLEAN, List(c, d, force) PROVE TypeOK'
  <2>1. ThreadType'
    BY <1>1, <1>t, NoJobType, SMT DEF List, Begin, Goto, ThreadType, ListPc
  <2>2. StoreType' /\ BusType'
    BY <1>1, <1>t DEF List, Drop, StoreType, BusType
  <2> QED BY <2>1, <2>2
<1>2. CASE DirIsCooling(c)
  BY <1>2, <1>t, <1>s, <1>g, EndType DEF DirIsCooling, ListPc
<1>3. CASE Lookup(c)
  BY <1>3, <1>t, <1>s, <1>g, EndType DEF Lookup, ListPc
<1>4. CASE Lead(c)
  <2>1. ThreadType'
    BY <1>4, <1>g DEF Lead, ListPc
  <2>2. StoreType' /\ BusType'
    BY <1>4, <1>t DEF Lead, StoreType, BusType
  <2> QED BY <2>1, <2>2
<1>5. CASE Join(c)
  BY <1>5, <1>t, <1>s, <1>g, EndType DEF Join, ListPc
<1>6. CASE GiveUp(c)
  BY <1>6, <1>t, <1>s, EndType DEF GiveUp
<1>7. CASE Recheck(c)
  BY <1>7, <1>s, <1>g DEF Recheck, ListPc
<1>8. CASE Load(c)
  <2>1. ThreadType'
    BY <1>8, <1>t, SMT DEF Load, Goto, ThreadType, StoreType, ListPc
  <2> QED BY <1>8, <2>1, <1>s DEF Load
<1>9. CASE LoadFails(c)
  BY <1>9, <1>s, <1>g DEF LoadFails, ListPc
<1>10. CASE Store(c)
  <2>1. ThreadType'
    BY <1>10, <1>t, SMT DEF Store, Goto, ThreadType, DirList, ListPc
  <2>2. StoreType' /\ BusType'
    BY <1>10, <1>t DEF Store, StoreType, BusType, ThreadType
  <2> QED BY <2>1, <2>2
<1>11. CASE Close(c)
  <2>1. ThreadType'
    BY <1>11, <1>t, SMT DEF Close, ThreadType, ListPc
  <2> QED BY <1>11, <2>1, <1>s DEF Close
<1>12. CASE Forget(c)
  <2>1. ThreadType'
    BY <1>12, <1>t, EndType DEF Forget
  <2>2. StoreType' /\ BusType'
    BY <1>12, <1>t DEF Forget, StoreType, BusType
  <2> QED BY <2>1, <2>2
<1> QED BY <1>1, <1>2, <1>3, <1>4, <1>5, <1>6, <1>7, <1>8, <1>9, <1>10, <1>11, <1>12 DEF ListStep

\* Every mutation is a change of the drive and a job for publishMutation.
LEMMA MutateType ==
  ASSUME TypeOK, NEW c \in Caller, NEW event \in Job, NEW contents \in [Dir -> DirList],
         Mutate(c, event, contents)
  PROVE  TypeOK'
<1>1. ThreadType'
  BY SMT DEF TypeOK, ThreadType, Mutate, Begin, Goto, Thread, ApplyPc
<1>2. StoreType'
  <2>1. made' \in 0..MaxMutations
    BY SMT DEF TypeOK, StoreType, Mutate
  <2>2. apart' \in BOOLEAN
    BY DEF TypeOK, StoreType, Mutate
  <2> QED BY <2>1, <2>2 DEF TypeOK, StoreType, Mutate
<1>3. BusType'
  BY DEF TypeOK, BusType, Mutate
<1> QED BY <1>1, <1>2, <1>3 DEF TypeOK

LEMMA MutationKeepsType ==
  ASSUME TypeOK, NEW c \in Caller, Mutation(c)
  PROVE  TypeOK'
<1>0. drive \in [Dir -> SUBSET Item] /\ Root \in Dir
  BY ThreadAssumption DEF TypeOK, StoreType, DirList
<1>1. ASSUME NEW d \in Dir, NEW i \in Item, Create(c, d, i) PROVE TypeOK'
  <2>1. PICK named \in {i, None} :
          Mutate(c, [op |-> "create", dir |-> d, old |-> Root, item |-> named],
                 [drive EXCEPT ![d] = @ \cup {i}])
    BY <1>1, Zenon DEF Create
  <2>2. [op |-> "create", dir |-> d, old |-> Root, item |-> named] \in Job
    BY ThreadAssumption, SMT DEF Job, Op
  <2>3. [drive EXCEPT ![d] = @ \cup {i}] \in [Dir -> DirList]
    BY <1>0, SMT DEF DirList
  <2> QED BY <2>1, <2>2, <2>3, MutateType, Zenon
<1>2. ASSUME NEW d \in Dir, NEW i \in Item, DeleteFiles(c, d, i) PROVE TypeOK'
  <2>1. [op |-> "delete", dir |-> d, old |-> Root, item |-> None] \in Job
    BY ThreadAssumption, SMT DEF Job, Op
  <2>2. [drive EXCEPT ![d] = @ \ {i}] \in [Dir -> DirList]
    BY <1>0, SMT DEF DirList
  <2> QED BY <1>2, <2>1, <2>2, MutateType, Zenon DEF DeleteFiles
<1>3. ASSUME NEW d \in Dir, NEW i \in Item, NEW j \in Item, RenameFile(c, d, i, j) PROVE TypeOK'
  <2>1. [op |-> "rename", dir |-> d, old |-> Root, item |-> None] \in Job
    BY ThreadAssumption, SMT DEF Job, Op
  <2>2. [drive EXCEPT ![d] = (@ \ {i}) \cup {j}] \in [Dir -> DirList]
    BY <1>0, SMT DEF DirList
  <2> QED BY <1>3, <2>1, <2>2, MutateType, Zenon DEF RenameFile
<1>4. ASSUME NEW d \in Dir, NEW i \in Item, NEW j \in Item, CopyFiles(c, d, i, j) PROVE TypeOK'
  <2>1. [op |-> "copy", dir |-> d, old |-> Root, item |-> None] \in Job
    BY ThreadAssumption, SMT DEF Job, Op
  <2>2. [drive EXCEPT ![d] = @ \cup {j}] \in [Dir -> DirList]
    BY <1>0, SMT DEF DirList
  <2> QED BY <1>4, <2>1, <2>2, MutateType, Zenon DEF CopyFiles
<1>5. ASSUME NEW d \in Dir, NEW e \in Dir, NEW i \in Item, MoveFiles(c, d, e, i) PROVE TypeOK'
  <2>1. [op |-> "move", dir |-> d, old |-> e, item |-> None] \in Job
    BY ThreadAssumption, SMT DEF Job, Op
  <2>2. [drive EXCEPT ![d] = @ \cup {i}, ![e] = @ \ {i}] \in [Dir -> DirList]
    BY <1>0, SMT DEF DirList
  <2> QED BY <1>5, <2>1, <2>2, MutateType, Zenon DEF MoveFiles
<1> QED BY <1>1, <1>2, <1>3, <1>4, <1>5 DEF Mutation

LEMMA ApplyKeepsType ==
  ASSUME TypeOK, UpsertNamed, NEW x \in Thread, ApplyStep(x)
  PROVE  TypeOK'
<1>t. StoreType /\ BusType /\ ThreadType
  BY DEF TypeOK
<1>j. /\ job[x].dir \in Dir /\ job[x].old \in Dir /\ list[x] \in DirList
      /\ job[x].item \in Item \cup {None}
  BY <1>t, SMT DEF ThreadType, Job
<1>g. ASSUME NEW l \in ApplyPc, Goto(x, l), UNCHANGED <<job, list>> PROVE ThreadType'
  BY <1>g, <1>t, GotoType DEF ThreadType
<1>1. CASE Apply(x)
  <2> DEFINE upsert == job[x].op = "create" /\ job[x].item # None /\ cached[job[x].dir] # None
  <2>1. pc' \in [Thread -> {"idle"} \cup ListPc \cup ApplyPc]
    BY <1>1, <1>t, GotoType DEF Apply, ApplyPc
  <2>2. (IF upsert THEN cached[job[x].dir] ELSE {}) \in DirList
    BY <1>t, <1>j, SMT DEF StoreType, DirList
  <2>3. list' \in [Thread -> DirList] /\ job' = job
    BY <1>1, <1>t, <2>2 DEF Apply, ThreadType
  <2>4. ThreadType'
    BY <2>1, <2>3, <1>t DEF ThreadType
  <2> QED BY <1>1, <1>t, <2>4 DEF Apply, cacheVars, StoreType, BusType, TypeOK
<1>2. CASE RemainingTTL(x)
  <2>1. ThreadType'
    BY <1>2, <1>g DEF RemainingTTL, ApplyPc
  <2> QED BY <1>2, <1>t, <2>1 DEF RemainingTTL, cacheVars, StoreType, BusType, TypeOK
<1>3. CASE Upsert(x)
  <2>1. ThreadType'
    BY <1>3, <1>t, SMT DEF Upsert, Goto, ThreadType, DirList, ApplyPc
  <2>2. list[x] \cup {job[x].item} \in DirList
    BY <1>3, <1>j, SMT DEF Upsert, UpsertNamed, DirList
  <2> QED BY <1>3, <1>t, <2>1, <2>2 DEF Upsert, StoreType, BusType, TypeOK
<1>4. CASE ClearDirCooling(x)
  <2>1. ThreadType'
    BY <1>4, <1>g DEF ClearDirCooling, ApplyPc
  <2> QED BY <1>4, <1>t, <2>1 DEF ClearDirCooling, StoreType, BusType, TypeOK
<1>5. CASE InvalidateDir(x)
  <2>1. ThreadType'
    BY <1>5, <1>g DEF InvalidateDir, ApplyPc
  <2> QED BY <1>5, <1>t, <2>1 DEF InvalidateDir, Drop, StoreType, BusType, TypeOK
<1>6. CASE InvalidateOldDir(x)
  <2>1. ThreadType'
    BY <1>6, <1>g DEF InvalidateOldDir, ApplyPc
  <2> QED BY <1>6, <1>t, <2>1 DEF InvalidateOldDir, Drop, StoreType, BusType, TypeOK
<1>7. CASE MarkDirCooling(x)
  <2>1. ThreadType'
    BY <1>7, <1>g DEF MarkDirCooling, ApplyPc
  <2> QED BY <1>7, <1>t, <1>j, <2>1 DEF MarkDirCooling, StoreType, BusType, TypeOK
<1> QED BY <1>1, <1>2, <1>3, <1>4, <1>5, <1>6, <1>7 DEF ApplyStep

LEMMA NextKeepsType ==
  ASSUME TypeOK, UpsertNamed, [Next]_vars
  PROVE  TypeOK'
<1>t. StoreType /\ BusType /\ ThreadType
  BY DEF TypeOK
<1>1. CASE UNCHANGED vars
  BY <1>1 DEF vars, TypeOK, StoreType, BusType, ThreadType
<1>2. CASE Dispatch
  <2>1. Head(queue) \in Job /\ Tail(queue) \in Seq(Job) /\ Len(Tail(queue)) <= QueueCap
    BY <1>2, <1>t, SMT DEF Dispatch, BusType
  <2>2. Cleaner \in Thread
    BY DEF Thread
  <2>3. ThreadType'
    BY <1>2, <1>t, <2>1, <2>2, SMT DEF Dispatch, Goto, ThreadType, ApplyPc
  <2> QED BY <1>2, <1>t, <2>1, <2>3 DEF Dispatch, StoreType, BusType, TypeOK
<1>3. CASE Handled
  <2>1. ThreadType'
    BY <1>3, <1>t, EndType DEF Handled, Thread
  <2> QED BY <1>3, <1>t, <2>1 DEF Handled, cacheVars, StoreType, BusType, TypeOK
<1>4. ASSUME NEW c \in Caller, ListStep(c) PROVE TypeOK'
  BY <1>4, ListKeepsType
<1>5. ASSUME NEW c \in Caller, Mutation(c) PROVE TypeOK'
  BY <1>5, MutationKeepsType
<1>6. ASSUME NEW c \in Caller, Publish(c) PROVE TypeOK'
  <2>1. c \in Thread /\ job[c] \in Job
    BY <1>t DEF Thread, ThreadType
  <2>2. ThreadType'
    BY <1>6, <1>t, <2>1, EndType DEF Publish
  <2>3. BusType'
    BY <1>6, <1>t, <2>1, SMT DEF Publish, BusType
  <2> QED BY <1>6, <1>t, <2>2, <2>3 DEF Publish, StoreType, TypeOK
<1>7. ASSUME NEW x \in Thread, ApplyStep(x) PROVE TypeOK'
  BY <1>7, ApplyKeepsType
<1>8. ASSUME NEW d \in Dir, Evict(d) PROVE TypeOK'
  BY <1>8, <1>t DEF Evict, Drop, StoreType, BusType, ThreadType, TypeOK
<1>9. ASSUME NEW d \in Dir, CoolingEnds(d) PROVE TypeOK'
  BY <1>9, <1>t DEF CoolingEnds, StoreType, BusType, ThreadType, TypeOK
<1> QED BY <1>1, <1>2, <1>3, <1>4, <1>5, <1>6, <1>7, <1>8, <1>9 DEF Next

\* A thread that neither leaves nor enters a load leaves the leaders alone.
LEMMA AsideKeepsFlight ==
  ASSUME TypeOK, FlightInv, NEW x \in Thread,
         pc[x] \notin Loading, pc'[x] \notin Loading \cup {"joined"},
         \A y \in Thread : y # x => pc'[y] = pc[y] /\ job'[y] = job[y],
         flight' = flight
  PROVE  FlightInv'
<1>1. \A c \in Caller : c \in Thread
  BY DEF Thread
<1>2. \A d \in Dir : flight[d] # None => flight[d] \in Caller /\ flight[d] # x
  BY DEF TypeOK, StoreType, FlightInv, LeaderLoads
<1>3. \A c \in Caller : c # x => job[c].dir \in Dir
  BY <1>1, SMT DEF TypeOK, ThreadType, Job
<1>4. LoaderNamed'
  BY <1>1 DEF FlightInv, LoaderNamed
<1>5. LeaderLoads'
  BY <1>1, <1>2 DEF FlightInv, LeaderLoads
<1>6. JoinedOpen'
  BY <1>1, <1>2, <1>3 DEF FlightInv, JoinedOpen
<1> QED BY <1>4, <1>5, <1>6 DEF FlightInv

\* Nor does a leader that goes on with its load.
LEMMA LoadKeepsFlight ==
  ASSUME TypeOK, FlightInv, NEW c \in Caller, NEW l \in Loading \ {"forget"},
         pc[c] \in Loading, Goto(c, l), job' = job, flight' = flight
  PROVE  FlightInv'
<1>1. \A b \in Thread : pc'[b] = IF b = c THEN l ELSE pc[b]
  BY SMT DEF TypeOK, ThreadType, Goto
<1>2. \A b \in Caller : b \in Thread
  BY DEF Thread
<1>3. \A d \in Dir : flight[d] # None => flight[d] \in Caller
  BY DEF TypeOK, StoreType
<1>4. \A b \in Caller : job[b].dir \in Dir
  BY <1>2, SMT DEF TypeOK, ThreadType, Job
<1>5. LoaderNamed'
  BY <1>1, <1>2 DEF FlightInv, LoaderNamed
<1>6. LeaderLoads'
  BY <1>1, <1>2, <1>3 DEF FlightInv, LeaderLoads
<1>7. JoinedOpen'
  BY <1>1, <1>2, <1>3, <1>4 DEF FlightInv, JoinedOpen, Loading
<1> QED BY <1>5, <1>6, <1>7 DEF FlightInv

LEMMA ListKeepsFlight ==
  ASSUME TypeOK, FlightInv, NEW c \in Caller, ListStep(c)
  PROVE  FlightInv'
<1>c. c \in Thread /\ \A b \in Caller : b \in Thread
  BY DEF Thread
<1>d. \A b \in Caller : job[b].dir \in Dir
  BY <1>c, SMT DEF TypeOK, ThreadType, Job
<1>t. pc \in [Thread -> {"idle"} \cup ListPc \cup ApplyPc] /\ job \in [Thread -> Job]
  BY DEF TypeOK, ThreadType
<1>f. flight \in [Dir -> Caller \cup {None}]
  BY DEF TypeOK, StoreType
<1>g. ASSUME NEW l \in {"fence", "lookup", "enter", "joined"}, Goto(c, l)
      PROVE  pc'[c] = l /\ \A y \in Thread : y # c => pc'[y] = pc[y]
  BY <1>g, <1>c, <1>t, SMT DEF Goto
<1>e. ASSUME End(c)
      PROVE  pc'[c] = "idle" /\ \A y \in Thread : y # c => pc'[y] = pc[y] /\ job'[y] = job[y]
  BY <1>e, <1>c, <1>t, SMT DEF End, Goto
<1> USE DEF Loading
<1>1. ASSUME NEW d \in Dir, NEW force \in BOOLEAN, List(c, d, force) PROVE FlightInv'
  <2>1. \A y \in Thread : y # c => job'[y] = job[y]
    BY <1>1, <1>t, SMT DEF List, Begin
  <2> QED BY <1>1, <2>1, <1>c, <1>g, AsideKeepsFlight DEF List, Begin
<1>2. CASE DirIsCooling(c)
  BY <1>2, <1>c, <1>g, <1>e, AsideKeepsFlight DEF DirIsCooling, cacheVars
<1>3. CASE Lookup(c)
  BY <1>3, <1>c, <1>g, <1>e, AsideKeepsFlight DEF Lookup, cacheVars
<1>4. CASE Lead(c)
  <2> DEFINE d == job[c].dir
  <2>1. /\ flight[d] = None
        /\ \A e \in Dir : flight'[e] = IF e = d THEN c ELSE flight[e]
        /\ \A b \in Thread : pc'[b] = IF b = c THEN "recheck" ELSE pc[b]
        /\ job' = job /\ pc[c] = "enter" /\ d \in Dir
    BY <1>4, <1>c, <1>d, <1>t, <1>f, SMT DEF Lead, Goto
  <2>2. c # None
    BY ThreadAssumption
  <2>3. LoaderNamed'
    BY <2>1, <2>2, <1>c, <1>d DEF FlightInv, LoaderNamed
  <2>4. LeaderLoads'
    BY <2>1, <2>2, <1>c, <1>f DEF FlightInv, LeaderLoads
  <2>5. JoinedOpen'
    <3> SUFFICES ASSUME NEW b \in Caller, pc'[b] = "joined"
                 PROVE  flight'[job[b].dir] # None /\ pc'[flight'[job[b].dir]] # "forget"
      BY <2>1 DEF JoinedOpen
    <3>1. pc[b] = "joined" /\ job[b].dir \in Dir
      BY <2>1, <1>c, <1>d
    <3>2. job[b].dir # d /\ flight[job[b].dir] \in Caller
      BY <3>1, <2>1, <1>f DEF FlightInv, JoinedOpen
    <3> QED BY <3>1, <3>2, <2>1, <1>c DEF FlightInv, JoinedOpen
  <2> QED BY <2>3, <2>4, <2>5 DEF FlightInv
<1>5. CASE Join(c)
  <2>1. CASE End(c) /\ UNCHANGED cacheVars /\ pc[c] = "enter"
    BY <2>1, <1>c, <1>e, AsideKeepsFlight DEF cacheVars
  <2>2. CASE /\ pc[c] = "enter" /\ flight[job[c].dir] # None
             /\ pc[flight[job[c].dir]] # "forget"
             /\ Goto(c, "joined") /\ UNCHANGED <<job, list>> /\ UNCHANGED cacheVars
    <3>1. /\ \A b \in Thread : pc'[b] = IF b = c THEN "joined" ELSE pc[b]
          /\ job' = job /\ flight' = flight
      BY <2>2, <1>t, <1>c, SMT DEF Goto, cacheVars
    <3>2. \A d \in Dir : flight[d] # None => flight[d] \in Caller /\ flight[d] # c
      BY <2>2, <1>f DEF FlightInv, LeaderLoads
    <3>3. LoaderNamed'
      BY <3>1, <1>c DEF FlightInv, LoaderNamed
    <3>4. LeaderLoads'
      BY <3>1, <3>2, <1>c DEF FlightInv, LeaderLoads
    <3>5. JoinedOpen'
      BY <2>2, <3>1, <3>2, <1>c, <1>d DEF FlightInv, JoinedOpen
    <3> QED BY <3>3, <3>4, <3>5 DEF FlightInv
  <2> QED BY <1>5, <2>1, <2>2 DEF Join
<1>6. CASE GiveUp(c)
  BY <1>6, <1>c, <1>e, AsideKeepsFlight DEF GiveUp, cacheVars
<1>7. CASE Recheck(c)
  BY <1>7, LoadKeepsFlight DEF Recheck, cacheVars
<1>8. CASE Load(c)
  BY <1>8, LoadKeepsFlight DEF Load, cacheVars
<1>9. CASE LoadFails(c)
  BY <1>9, LoadKeepsFlight DEF LoadFails, cacheVars
<1>10. CASE Store(c)
  BY <1>10, LoadKeepsFlight DEF Store
<1>11. CASE Close(c)
  <2>1. /\ \A b \in Thread : pc'[b] = IF b \in Followers(c) THEN "idle"
                                     ELSE IF b = c THEN "forget" ELSE pc[b]
        /\ job' = job /\ flight' = flight /\ pc[c] = "close" /\ c \notin Followers(c)
    BY <1>11, <1>c, <1>t, SMT DEF Close, cacheVars, Followers
  <2>2. \A d \in Dir : flight[d] # None => flight[d] \in Caller /\ flight[d] \notin Followers(c)
    BY <1>f DEF FlightInv, LeaderLoads, Followers
  <2>3. LoaderNamed'
    BY <2>1, <1>c DEF FlightInv, LoaderNamed
  <2>4. LeaderLoads'
    BY <2>1, <2>2, <1>c DEF FlightInv, LeaderLoads
  <2>5. JoinedOpen'
    <3> SUFFICES ASSUME NEW b \in Caller, pc'[b] = "joined"
                 PROVE  flight[job[b].dir] # None /\ pc'[flight[job[b].dir]] # "forget"
      BY <2>1 DEF JoinedOpen
    <3>1. pc[b] = "joined" /\ job[b].dir \in Dir /\ job[b].dir # job[c].dir
      BY <2>1, <1>c, <1>d DEF Followers
    <3>2. /\ flight[job[b].dir] \in Caller /\ flight[job[b].dir] # c
          /\ flight[job[b].dir] \notin Followers(c)
      BY <3>1, <2>2 DEF FlightInv, JoinedOpen, LeaderLoads
    <3> QED BY <3>1, <3>2, <2>1, <1>c DEF FlightInv, JoinedOpen
  <2> QED BY <2>3, <2>4, <2>5 DEF FlightInv
<1>12. CASE Forget(c)
  <2> DEFINE d == job[c].dir
  <2>1. /\ \A e \in Dir : flight'[e] = IF e = d THEN None ELSE flight[e]
        /\ pc[c] = "forget" /\ d \in Dir
    BY <1>12, <1>c, <1>d, <1>f, SMT DEF Forget
  <2>2. pc'[c] = "idle" /\ \A y \in Thread : y # c => pc'[y] = pc[y] /\ job'[y] = job[y]
    BY <1>12, <1>e DEF Forget
  <2>3. flight[d] = c
    BY <2>1 DEF FlightInv, LoaderNamed
  <2>4. LoaderNamed'
    BY <2>1, <2>2, <2>3, <1>c, <1>d DEF FlightInv, LoaderNamed
  <2>5. LeaderLoads'
    BY <2>1, <2>2, <2>3, <1>c, <1>f DEF FlightInv, LeaderLoads
  <2>6. JoinedOpen'
    <3> SUFFICES ASSUME NEW b \in Caller, pc'[b] = "joined"
                 PROVE  flight'[job'[b].dir] # None /\ pc'[flight'[job'[b].dir]] # "forget"
      BY DEF JoinedOpen
    <3>1. b # c /\ pc[b] = "joined" /\ job'[b] = job[b] /\ job[b].dir \in Dir
      BY <2>2, <1>c, <1>d
    <3>2. flight[job[b].dir] # None /\ pc[flight[job[b].dir]] # "forget"
      BY <3>1 DEF FlightInv, JoinedOpen
    <3>3. flight[job[b].dir] # c /\ flight[job[b].dir] \in Caller /\ job[b].dir # d
      BY <3>1, <3>2, <2>1, <2>3, <1>f
    <3> QED BY <3>1, <3>2, <3>3, <2>1, <2>2, <1>c
  <2> QED BY <2>4, <2>5, <2>6 DEF FlightInv
<1> QED BY <1>1, <1>2, <1>3, <1>4, <1>5, <1>6, <1>7, <1>8, <1>9, <1>10, <1>11, <1>12 DEF ListStep

\* Mutations and replays move threads that have no part in a load.
LEMMA OthersKeepFlight ==
  ASSUME TypeOK, FlightInv,
         \/ Dispatch \/ Handled
         \/ \E c \in Caller : Mutation(c) \/ Publish(c)
         \/ \E x \in Thread : ApplyStep(x)
  PROVE  FlightInv'
<1>t. pc \in [Thread -> {"idle"} \cup ListPc \cup ApplyPc] /\ job \in [Thread -> Job]
  BY DEF TypeOK, ThreadType
<1>c. Cleaner \in Thread /\ \A c \in Caller : c \in Thread
  BY DEF Thread
<1>g. ASSUME NEW x \in Thread, NEW l, Goto(x, l)
      PROVE  pc'[x] = l /\ \A y \in Thread : y # x => pc'[y] = pc[y]
  BY <1>g, <1>t, SMT DEF Goto
<1>e. ASSUME NEW x \in Thread, End(x)
      PROVE  pc'[x] = "idle" /\ \A y \in Thread : y # x => pc'[y] = pc[y] /\ job'[y] = job[y]
  BY <1>e, <1>t, SMT DEF End, Goto
<1> USE DEF Loading
<1>1. CASE Dispatch
  <2>1. \A y \in Thread : y # Cleaner => job'[y] = job[y]
    BY <1>1, <1>t, SMT DEF Dispatch
  <2> QED BY <1>1, <2>1, <1>c, <1>g, AsideKeepsFlight DEF Dispatch
<1>2. CASE Handled
  BY <1>2, <1>c, <1>e, AsideKeepsFlight DEF Handled, cacheVars
<1>3. ASSUME NEW c \in Caller, Mutation(c) PROVE FlightInv'
  <2>1. PICK event, contents : Mutate(c, event, contents)
    BY <1>3, Zenon DEF Mutation, Create, DeleteFiles, RenameFile, CopyFiles, MoveFiles
  <2>2. \A y \in Thread : y # c => job'[y] = job[y]
    BY <2>1, <1>t, SMT DEF Mutate, Begin
  <2> QED BY <2>1, <2>2, <1>c, <1>g, AsideKeepsFlight DEF Mutate, Begin
<1>4. ASSUME NEW c \in Caller, Publish(c) PROVE FlightInv'
  BY <1>4, <1>c, <1>e, AsideKeepsFlight DEF Publish
<1>5. ASSUME NEW x \in Thread, ApplyStep(x) PROVE FlightInv'
  <2>1. /\ pc[x] \in ApplyPc /\ job' = job /\ flight' = flight
        /\ \E l \in ApplyPc : Goto(x, l)
    BY <1>5 DEF ApplyStep, ApplyPc, cacheVars, Apply, RemainingTTL, Upsert, ClearDirCooling,
                InvalidateDir, InvalidateOldDir, MarkDirCooling
  <2> QED BY <2>1, <1>g, AsideKeepsFlight DEF ApplyPc
<1> QED BY <1>1, <1>2, <1>3, <1>4, <1>5

LEMMA NextKeepsFlight ==
  ASSUME TypeOK, FlightInv, [Next]_vars
  PROVE  FlightInv'
<1>1. ASSUME UNCHANGED <<flight, pc, job>> PROVE FlightInv'
  BY <1>1 DEF FlightInv, LoaderNamed, LeaderLoads, JoinedOpen
<1>2. ASSUME NEW d \in Dir, Evict(d) \/ CoolingEnds(d) PROVE FlightInv'
  BY <1>1, <1>2 DEF Evict, CoolingEnds
<1> QED BY <1>1, <1>2, ListKeepsFlight, OthersKeepFlight DEF Next, vars

LEMMA NextKeepsNamed ==
  ASSUME TypeOK, UpsertNamed, [Next]_vars
  PROVE  UpsertNamed'
<1> USE DEF UpsertNamed
<1>t. pc \in [Thread -> {"idle"} \cup ListPc \cup ApplyPc] /\ job \in [Thread -> Job]
  BY DEF TypeOK, ThreadType
<1>c. Cleaner \in Thread /\ \A c \in Caller : c \in Thread
  BY DEF Thread
<1>m. ASSUME NEW x \in Thread, pc'[x] \notin {"ttl", "upsert"},
             \A y \in Thread : y # x => job'[y] = job[y] /\ (pc'[y] = pc[y] \/ pc'[y] = "idle")
      PROVE  UpsertNamed'
  BY <1>m
<1>g. ASSUME NEW x \in Thread, NEW l, Goto(x, l)
      PROVE  pc'[x] = l /\ \A y \in Thread : y # x => pc'[y] = pc[y]
  BY <1>g, <1>t, SMT DEF Goto
<1>e. ASSUME NEW x \in Thread, End(x)
      PROVE  pc'[x] = "idle" /\ \A y \in Thread : y # x => pc'[y] = pc[y] /\ job'[y] = job[y]
  BY <1>e, <1>t, SMT DEF End, Goto
<1>1. CASE UNCHANGED <<pc, job>>
  BY <1>1
<1>2. CASE Dispatch
  <2>1. \A y \in Thread : y # Cleaner => job'[y] = job[y]
    BY <1>2, <1>t, SMT DEF Dispatch
  <2> QED BY <1>2, <2>1, <1>c, <1>g, <1>m DEF Dispatch
<1>3. CASE Handled
  BY <1>3, <1>c, <1>e, <1>m DEF Handled
<1>4. ASSUME NEW c \in Caller, Mutation(c) PROVE UpsertNamed'
  <2>1. PICK event, contents : Mutate(c, event, contents)
    BY <1>4, Zenon DEF Mutation, Create, DeleteFiles, RenameFile, CopyFiles, MoveFiles
  <2>2. \A y \in Thread : y # c => job'[y] = job[y]
    BY <2>1, <1>t, SMT DEF Mutate, Begin
  <2> QED BY <2>1, <2>2, <1>c, <1>g, <1>m DEF Mutate, Begin
<1>5. ASSUME NEW c \in Caller, Publish(c) PROVE UpsertNamed'
  BY <1>5, <1>c, <1>e, <1>m DEF Publish
<1>6. ASSUME NEW c \in Caller, ListStep(c) PROVE UpsertNamed'
  <2>1. ASSUME NEW d \in Dir, NEW force \in BOOLEAN, List(c, d, force) PROVE UpsertNamed'
    <3>1. \A y \in Thread : y # c => job'[y] = job[y]
      BY <2>1, <1>t, SMT DEF List, Begin
    <3> QED BY <2>1, <3>1, <1>c, <1>g, <1>m DEF List, Begin
  <2>2. CASE Close(c)
    BY <2>2, <1>t, <1>c, SMT DEF Close, Followers
  <2>3. CASE DirIsCooling(c) \/ Lookup(c) \/ Join(c)
    BY <2>3, <1>c, <1>g, <1>e, <1>m DEF DirIsCooling, Lookup, Join
  <2>4. CASE GiveUp(c) \/ Forget(c)
    BY <2>4, <1>c, <1>e, <1>m DEF GiveUp, Forget
  <2>5. CASE Lead(c) \/ Recheck(c) \/ Load(c) \/ LoadFails(c) \/ Store(c)
    BY <2>5, <1>c, <1>g, <1>m DEF Lead, Recheck, Load, LoadFails, Store
  <2> QED BY <1>6, <2>1, <2>2, <2>3, <2>4, <2>5 DEF ListStep
<1>7. ASSUME NEW x \in Thread, ApplyStep(x) PROVE UpsertNamed'
  <2>1. CASE Apply(x)
    BY <2>1, <1>g DEF Apply
  <2>2. CASE RemainingTTL(x)
    BY <2>2, <1>g DEF RemainingTTL
  <2>3. CASE \/ Upsert(x) \/ ClearDirCooling(x) \/ InvalidateDir(x)
             \/ InvalidateOldDir(x) \/ MarkDirCooling(x)
    BY <2>3, <1>g, <1>m DEF Upsert, ClearDirCooling, InvalidateDir, InvalidateOldDir, MarkDirCooling
  <2> QED BY <1>7, <2>1, <2>2, <2>3 DEF ApplyStep
<1>8. ASSUME NEW d \in Dir, Evict(d) \/ CoolingEnds(d) PROVE UpsertNamed'
  BY <1>1, <1>8 DEF Evict, CoolingEnds
<1> QED BY <1>1, <1>2, <1>3, <1>4, <1>5, <1>6, <1>7, <1>8 DEF Next, vars

LEMMA AlwaysIInv == Spec => []IInv
<1>1. IInv /\ [Next]_vars => IInv'
  BY NextKeepsType, NextKeepsNamed, NextKeepsFlight DEF IInv
<1> QED BY InitIInv, <1>1, PTL DEF Spec

\* Every reachable state of the directory cache is well typed: in particular an
\* upsert puts a named item into a list, and the bus is never over its capacity.
THEOREM CacheTypeCorrect == Spec => []TypeOK
<1>1. IInv => TypeOK
  BY DEF IInv
<1> QED BY <1>1, AlwaysIInv, PTL

\* A directory is listed by one loader at a time (GetOrLoad, DoCtx).
THEOREM OneLoader == Spec => []LoadOnce
<1>1. IInv => LoadOnce
  BY DEF IInv, FlightInv, LoaderNamed, LoadOnce
<1> QED BY <1>1, AlwaysIInv, PTL

\* Nobody waits for a load that is over (DoCtx, waitCall).
THEOREM NoOrphanFollower == Spec => []FollowersLed
<1>1. IInv => FollowersLed
  <2> SUFFICES ASSUME IInv, NEW c \in Caller, pc[c] = "joined"
               PROVE  \E b \in Caller : /\ flight[job[c].dir] = b
                                        /\ job[b].dir = job[c].dir
                                        /\ pc[b] \in Loading \ {"forget"}
    BY DEF FollowersLed
  <2>1. job[c].dir \in Dir
    BY SMT DEF IInv, TypeOK, ThreadType, Thread, Job
  <2>2. flight[job[c].dir] \in Caller /\ pc[flight[job[c].dir]] # "forget"
    BY <2>1 DEF IInv, TypeOK, StoreType, FlightInv, JoinedOpen
  <2>3. pc[flight[job[c].dir]] \in Loading /\ job[flight[job[c].dir]].dir = job[c].dir
    BY <2>1, <2>2 DEF IInv, FlightInv, JoinedOpen, LeaderLoads
  <2> QED BY <2>2, <2>3
<1> QED BY <1>1, AlwaysIInv, PTL

-----------------------------------------------------------------------------
(* Freshness, while no mutation overlaps anything.  A mutation that is being   *)
(* applied by its caller is alone, and the lists it has yet to put right are   *)
(* those of its own directories; an event that waits for the Cleaner, or is    *)
(* replayed, is of the last mutation, so that what it names is on the drive.   *)

JobTrue(j) == j.op = "create" /\ j.item # None => j.item \in drive[j.dir]

EventsTrue == /\ \A i \in 1..Len(queue) : JobTrue(queue[i])
              /\ \A x \in Thread : pc[x] \in ApplyPc => JobTrue(job[x])

LoadsTrue == \A c \in Caller : pc[c] = "store" => list[c] = drive[job[c].dir]

UpsertsTrue ==
  \A x \in Thread : pc[x] \in {"ttl", "upsert"} =>
    job[x].op = "create" /\ list[x] \cup {job[x].item} = drive[job[x].dir]

MutationAlone ==
  \A c \in Caller : pc[c] \in ApplyPc => queue = <<>> /\ \A y \in Thread : y # c => pc[y] = "idle"

\* The directories whose lists c has yet to put right.
Behind(c) ==
  CASE pc[c] \in {"apply", "ttl", "upsert", "drop"} ->
         {job[c].dir} \cup (IF TwoDirs(job[c]) THEN {job[c].old} ELSE {})
    [] pc[c] = "dropOld" -> {job[c].old}
    [] OTHER -> {}

FreshAt(d) == cached[d] \in {None, drive[d]}

OthersFresh == \A c \in Caller : pc[c] \in ApplyPc => \A d \in Dir \ Behind(c) : FreshAt(d)

\* A list that is about to get a named item lacks no other.
LacksOne ==
  \A c \in Caller : pc[c] = "apply" /\ job[c].op = "create" /\ job[c].item # None =>
    cached[job[c].dir] = None \/ cached[job[c].dir] \cup {job[c].item} = drive[job[c].dir]

ApartInv == apart => /\ EventsTrue /\ LoadsTrue /\ UpsertsTrue
                     /\ MutationAlone /\ OthersFresh /\ LacksOne
                     /\ NoMutation => Fresh

\* Any thread that is busy otherwise shows that no caller is applying a mutation.
LEMMA BusyElsewhere ==
  ASSUME MutationAlone, NEW x \in Thread, pc[x] # "idle", x \in Caller => pc[x] \notin ApplyPc
  PROVE  NoMutation
  BY DEF MutationAlone, NoMutation

\* A step of a caller that lists, or of the Cleaner, without a mutation.
LEMMA CalmStep ==
  ASSUME TypeOK, ApartInv, NEW x \in Thread,
         apart' => apart /\ NoMutation /\ NoMutation' /\ drive' = drive,
         \A y \in Thread : y # x => /\ pc'[y] = pc[y] \/ pc'[y] = "idle"
                                    /\ job'[y] = job[y] /\ list'[y] = list[y],
         apart' => EventsTrue',
         apart' /\ pc'[x] = "store" => list'[x] = drive[job'[x].dir],
         apart' /\ pc'[x] \in {"ttl", "upsert"} =>
           job'[x].op = "create" /\ list'[x] \cup {job'[x].item} = drive[job'[x].dir],
         apart' => \A d \in Dir : cached'[d] \in {cached[d], None, drive[d]}
  PROVE  ApartInv'
<1> SUFFICES ASSUME apart' PROVE /\ EventsTrue' /\ LoadsTrue' /\ UpsertsTrue'
                                 /\ MutationAlone' /\ OthersFresh' /\ LacksOne' /\ Fresh'
  BY DEF ApartInv
<1>1. \A c \in Caller : c \in Thread
  BY DEF Thread
<1>2. LoadsTrue'
  BY <1>1 DEF ApartInv, LoadsTrue
<1>3. UpsertsTrue'
  BY DEF ApartInv, UpsertsTrue
<1>4. MutationAlone' /\ OthersFresh' /\ LacksOne'
  BY DEF NoMutation, MutationAlone, OthersFresh, LacksOne, ApplyPc
<1>5. Fresh'
  BY DEF ApartInv, Fresh
<1> QED
  BY <1>2, <1>3, <1>4, <1>5

\* What is on the way to the Cleaner, or with it, is so after a step that keeps it.
LEMMA KeepsEvents ==
  ASSUME ApartInv, apart, drive' = drive, queue' = queue,
         \A y \in Thread : pc'[y] \in ApplyPc => pc[y] \in ApplyPc /\ job'[y] = job[y]
  PROVE  EventsTrue'
  BY DEF ApartInv, EventsTrue, JobTrue

LEMMA ListApart ==
  ASSUME TypeOK, ApartInv, NEW c \in Caller, ListStep(c)
  PROVE  ApartInv'
<1>c. c \in Thread /\ \A b \in Caller : b \in Thread
  BY DEF Thread
<1>t. /\ pc \in [Thread -> {"idle"} \cup ListPc \cup ApplyPc] /\ job \in [Thread -> Job]
      /\ list \in [Thread -> DirList] /\ cached \in [Dir -> DirList \cup {None}]
      /\ apart \in BOOLEAN
  BY DEF TypeOK, ThreadType, StoreType
<1>d. job[c].dir \in Dir
  BY <1>c, <1>t, SMT DEF Job
<1>1. UNCHANGED <<drive, queue>>
  BY DEF ListStep, List, DirIsCooling, Lookup, Lead, Join, GiveUp, Recheck, Load, LoadFails,
         Store, Close, Forget, cacheVars
<1>2. apart' => apart /\ NoMutation
  <2>1. CASE \E d \in Dir, force \in BOOLEAN : List(c, d, force)
    BY <2>1, <1>t DEF List
  <2>2. CASE ~\E d \in Dir, force \in BOOLEAN : List(c, d, force)
    <3>1. apart' = apart
      BY <2>2 DEF ListStep, DirIsCooling, Lookup, Lead, Join, GiveUp, Recheck, Load, LoadFails,
                  Store, Close, Forget, cacheVars
    <3>2. pc[c] \in ListPc
      BY <2>2 DEF ListStep, DirIsCooling, Lookup, Lead, Join, GiveUp, Recheck, Load, LoadFails,
                  Store, Close, Forget, ListPc
    <3>3. pc[c] # "idle" /\ pc[c] \notin ApplyPc
      BY <3>2 DEF ListPc, ApplyPc
    <3> QED
      BY <3>1, <3>3, <1>c, BusyElsewhere DEF ApartInv
  <2> QED
    BY <2>1, <2>2
<1>3. /\ \A y \in Thread : y # c => /\ pc'[y] = pc[y] \/ pc'[y] = "idle"
                                    /\ job'[y] = job[y] /\ list'[y] = list[y]
      /\ pc'[c] \in ListPc \cup {"idle"}
  <2>1. CASE \E d \in Dir, force \in BOOLEAN : List(c, d, force)
    BY <2>1, <1>c, <1>t, SMT DEF List, Begin, Goto, ListPc
  <2>2. CASE DirIsCooling(c) \/ Lookup(c) \/ Join(c)
    BY <2>2, <1>c, <1>t, SMT DEF DirIsCooling, Lookup, Join, Goto, End, ListPc
  <2>3. CASE GiveUp(c) \/ Forget(c)
    BY <2>3, <1>c, <1>t, SMT DEF GiveUp, Forget, End, Goto, ListPc
  <2>4. CASE Lead(c) \/ Recheck(c) \/ LoadFails(c)
    BY <2>4, <1>c, <1>t, SMT DEF Lead, Recheck, LoadFails, Goto, ListPc
  <2>5. CASE Load(c) \/ Store(c)
    BY <2>5, <1>c, <1>t, SMT DEF Load, Store, Goto, ListPc
  <2>6. CASE Close(c)
    BY <2>6, <1>c, <1>t, SMT DEF Close, Followers, ListPc
  <2> QED
    BY <2>1, <2>2, <2>3, <2>4, <2>5, <2>6 DEF ListStep
<1>4. pc'[c] = "store" => Load(c)
  BY <1>c, <1>t, SMT DEF ListStep, List, Begin, DirIsCooling, Lookup, Lead, Join, GiveUp, Recheck,
     Load, LoadFails, Store, Close, Forget, Goto, End, Followers
<1>5. pc'[c] = "store" => list'[c] = drive[job'[c].dir]
  BY <1>4, <1>c, <1>t, SMT DEF Load
<1>6. apart' => \A d \in Dir : cached'[d] \in {cached[d], None, drive[d]}
  <2>1. CASE Store(c)
    <3>1. apart' => list[c] = drive[job[c].dir]
      BY <2>1, <1>2 DEF Store, ApartInv, LoadsTrue
    <3> QED
      BY <2>1, <3>1, <1>t, <1>d DEF Store
  <2>2. CASE \E e \in Dir, force \in BOOLEAN : List(c, e, force)
    BY <2>2, <1>t DEF List, Drop
  <2>3. CASE ~Store(c) /\ ~\E e \in Dir, force \in BOOLEAN : List(c, e, force)
    <3>1. cached' = cached
      BY <2>3 DEF ListStep, DirIsCooling, Lookup, Lead, Join, GiveUp, Recheck, Load, LoadFails,
                  Close, Forget, cacheVars
    <3> QED
      BY <3>1
  <2> QED
    BY <2>1, <2>2, <2>3
<1>7. pc'[c] \notin ApplyPc
  BY <1>3 DEF ListPc, ApplyPc
<1>8. apart' => NoMutation'
  BY <1>2, <1>3, <1>7, <1>c DEF NoMutation, ApplyPc
<1>9. apart' => EventsTrue'
  <2>1. \A y \in Thread : pc'[y] \in ApplyPc => pc[y] \in ApplyPc /\ job'[y] = job[y]
    BY <1>3, <1>7 DEF ApplyPc
  <2> QED
    BY <2>1, <1>1, <1>2, KeepsEvents
<1>10. pc'[c] \notin {"ttl", "upsert"}
  BY <1>7 DEF ApplyPc
<1> QED
  BY <1>c, <1>1, <1>2, <1>3, <1>5, <1>6, <1>8, <1>9, <1>10, CalmStep

-----------------------------------------------------------------------------
(* The bus and the Cleaner.                                                    *)

LEMMA BusApart ==
  ASSUME TypeOK, ApartInv, Dispatch \/ Handled
  PROVE  ApartInv'
<1>c. Cleaner \in Thread /\ Cleaner \notin Caller /\ \A b \in Caller : b \in Thread
  BY ThreadAssumption DEF Thread
<1>t. /\ pc \in [Thread -> {"idle"} \cup ListPc \cup ApplyPc] /\ job \in [Thread -> Job]
      /\ list \in [Thread -> DirList] /\ queue \in Seq(Job)
  BY DEF TypeOK, ThreadType, BusType
<1>1. UNCHANGED <<drive, cached, apart>>
  BY DEF Dispatch, Handled, cacheVars
<1>2. apart => NoMutation
  <2>1. CASE Dispatch
    BY <2>1 DEF Dispatch, ApartInv, MutationAlone, NoMutation
  <2>2. CASE Handled
    BY <2>2, <1>c, BusyElsewhere DEF Handled, ApartInv
  <2> QED
    BY <2>1, <2>2
<1>3. /\ \A y \in Thread : y # Cleaner => /\ pc'[y] = pc[y] /\ job'[y] = job[y] /\ list'[y] = list[y]
      /\ pc'[Cleaner] \in {"apply", "idle"}
  <2>1. CASE Dispatch
    BY <2>1, <1>c, <1>t, SMT DEF Dispatch, Goto
  <2>2. CASE Handled
    BY <2>2, <1>c, <1>t, SMT DEF Handled, End, Goto
  <2> QED
    BY <2>1, <2>2
<1>4. apart => NoMutation'
  BY <1>2, <1>3, <1>c DEF NoMutation
<1>5. apart => EventsTrue'
  <2>1. CASE Dispatch
    <3>1. /\ Len(queue) \in Nat \ {0} /\ Len(queue') = Len(queue) - 1
          /\ \A i \in 1..Len(queue') : queue'[i] = queue[i + 1]
          /\ job'[Cleaner] = queue[1]
      BY <2>1, <1>c, <1>t, SMT DEF Dispatch
    <3> HIDE DEF Dispatch
    <3>2. ASSUME apart, NEW i \in 1..Len(queue') PROVE JobTrue(queue'[i])
      <4>1. i + 1 \in 1..Len(queue)
        BY <3>1
      <4> QED
        BY <3>1, <3>2, <4>1 DEF ApartInv, EventsTrue
    <3>3. ASSUME apart, NEW y \in Thread, pc'[y] \in ApplyPc PROVE JobTrue(job'[y])
      <4>1. CASE y = Cleaner
        <5>1. 1 \in 1..Len(queue)
          BY <3>1
        <5> QED
          BY <3>1, <3>3, <4>1, <5>1 DEF ApartInv, EventsTrue
      <4>2. CASE y # Cleaner
        BY <1>3, <3>3, <4>2 DEF ApartInv, EventsTrue
      <4> QED
        BY <4>1, <4>2
    <3> QED
      BY <1>1, <3>2, <3>3 DEF EventsTrue, JobTrue
  <2>2. CASE Handled
    <3>1. \A y \in Thread : pc'[y] \in ApplyPc => pc[y] \in ApplyPc /\ job'[y] = job[y]
      BY <2>2, <1>3, <1>c, <1>t DEF Handled, End, Goto, ApplyPc
    <3>2. queue' = queue
      BY <2>2 DEF Handled, cacheVars
    <3> QED
      BY <1>1, <3>1, <3>2, KeepsEvents
  <2> QED
    BY <2>1, <2>2
<1> QED
  BY <1>c, <1>1, <1>2, <1>3, <1>4, <1>5, CalmStep

\* ApplyMutation as any thread goes through it: what it does to a list that is as the
\* drive is leaves it so.
LEMMA ApplyMoves ==
  ASSUME TypeOK, NEW x \in Thread, ApplyStep(x)
  PROVE  /\ pc[x] \in ApplyPc /\ pc'[x] \in ApplyPc /\ job' = job
         /\ UNCHANGED <<drive, queue, apart>>
         /\ \A y \in Thread : y # x => pc'[y] = pc[y] /\ list'[y] = list[y]
<1>t. /\ pc \in [Thread -> {"idle"} \cup ListPc \cup ApplyPc] /\ list \in [Thread -> DirList]
  BY DEF TypeOK, ThreadType
<1>1. /\ pc[x] \in ApplyPc /\ job' = job /\ UNCHANGED <<drive, queue, apart>>
      /\ \E l \in ApplyPc : Goto(x, l)
  BY DEF ApplyStep, ApplyPc, cacheVars, Apply, RemainingTTL, Upsert, ClearDirCooling,
         InvalidateDir, InvalidateOldDir, MarkDirCooling
<1>2. pc'[x] \in ApplyPc /\ \A y \in Thread : y # x => pc'[y] = pc[y]
  BY <1>1, <1>t, SMT DEF Goto
<1>3. \A y \in Thread : y # x => list'[y] = list[y]
  BY <1>t, SMT DEF ApplyStep, cacheVars, Apply, RemainingTTL, Upsert, ClearDirCooling,
     InvalidateDir, InvalidateOldDir, MarkDirCooling
<1> QED
  BY <1>1, <1>2, <1>3

LEMMA ApplyUpserts ==
  ASSUME TypeOK, UpsertsTrue, NEW x \in Thread, ApplyStep(x), pc'[x] \in {"ttl", "upsert"},
         pc[x] = "apply" /\ job[x].op = "create" /\ job[x].item # None /\ cached[job[x].dir] # None
           => cached[job[x].dir] \cup {job[x].item} = drive[job[x].dir]
  PROVE  job[x].op = "create" /\ list'[x] \cup {job[x].item} = drive[job[x].dir]
<1>t. /\ pc \in [Thread -> {"idle"} \cup ListPc \cup ApplyPc] /\ list \in [Thread -> DirList]
  BY DEF TypeOK, ThreadType
<1>1. Apply(x) \/ RemainingTTL(x)
  BY <1>t, SMT DEF ApplyStep, Upsert, ClearDirCooling, InvalidateDir, InvalidateOldDir,
     MarkDirCooling, Goto
<1>2. CASE Apply(x)
  <2> DEFINE upsert == job[x].op = "create" /\ job[x].item # None /\ cached[job[x].dir] # None
  <2>1. upsert
    BY <1>2, <1>t, SMT DEF Apply, Goto
  <2>2. list'[x] = cached[job[x].dir] /\ pc[x] = "apply"
    BY <1>2, <1>t, <2>1 DEF Apply
  <2> QED
    BY <2>1, <2>2
<1>3. CASE RemainingTTL(x)
  BY <1>3 DEF RemainingTTL, UpsertsTrue
<1> QED
  BY <1>1, <1>2, <1>3

LEMMA ReplayApart ==
  ASSUME TypeOK, ApartInv, ApplyStep(Cleaner)
  PROVE  ApartInv'
<1>c. Cleaner \in Thread /\ Cleaner \notin Caller /\ \A b \in Caller : b \in Thread
  BY ThreadAssumption DEF Thread
<1>t. /\ job \in [Thread -> Job] /\ cached \in [Dir -> DirList \cup {None}]
      /\ job[Cleaner].dir \in Dir
  BY <1>c, SMT DEF TypeOK, ThreadType, StoreType, Job
<1>1. /\ pc[Cleaner] \in ApplyPc /\ pc'[Cleaner] \in ApplyPc /\ job' = job
      /\ UNCHANGED <<drive, queue, apart>>
      /\ \A y \in Thread : y # Cleaner => pc'[y] = pc[y] /\ list'[y] = list[y]
  BY <1>c, ApplyMoves
<1>2. apart => NoMutation /\ NoMutation'
  <2>1. apart => NoMutation
    BY <1>1, <1>c, BusyElsewhere DEF ApartInv, ApplyPc
  <2> QED
    BY <1>1, <1>c, <2>1 DEF NoMutation
<1>3. apart /\ pc'[Cleaner] \in {"ttl", "upsert"} =>
        /\ job'[Cleaner].op = "create"
        /\ list'[Cleaner] \cup {job'[Cleaner].item} = drive[job'[Cleaner].dir]
  <2> SUFFICES ASSUME apart, pc'[Cleaner] \in {"ttl", "upsert"}
               PROVE  /\ job[Cleaner].op = "create"
                      /\ list'[Cleaner] \cup {job[Cleaner].item} = drive[job[Cleaner].dir]
    BY <1>1
  <2>1. Fresh /\ JobTrue(job[Cleaner]) /\ UpsertsTrue
    BY <1>1, <1>2, <1>c DEF ApartInv, EventsTrue
  <2>2. job[Cleaner].op = "create" /\ job[Cleaner].item # None /\ cached[job[Cleaner].dir] # None
          => cached[job[Cleaner].dir] \cup {job[Cleaner].item} = drive[job[Cleaner].dir]
    <3>1. cached[job[Cleaner].dir] \in {None, drive[job[Cleaner].dir]}
      BY <2>1, <1>t DEF Fresh
    <3> QED
      BY <2>1, <3>1 DEF JobTrue
  <2> QED
    BY <2>1, <2>2, <1>c, ApplyUpserts
<1>4. apart => \A d \in Dir : cached'[d] \in {cached[d], None, drive[d]}
  <2>1. CASE Upsert(Cleaner)
    <3>1. apart => list[Cleaner] \cup {job[Cleaner].item} = drive[job[Cleaner].dir]
      BY <2>1, <1>c DEF Upsert, ApartInv, UpsertsTrue
    <3> QED
      BY <2>1, <3>1, <1>t DEF Upsert
  <2>2. CASE InvalidateDir(Cleaner) \/ InvalidateOldDir(Cleaner)
    BY <2>2, <1>t DEF InvalidateDir, InvalidateOldDir, Drop
  <2>3. CASE Apply(Cleaner) \/ RemainingTTL(Cleaner) \/ ClearDirCooling(Cleaner) \/ MarkDirCooling(Cleaner)
    <3>1. cached' = cached
      BY <2>3 DEF Apply, RemainingTTL, ClearDirCooling, MarkDirCooling, cacheVars
    <3> QED
      BY <3>1
  <2> QED
    BY <2>1, <2>2, <2>3 DEF ApplyStep
<1>5. apart => EventsTrue'
  BY <1>1, KeepsEvents
<1>6. pc'[Cleaner] # "store"
  BY <1>1 DEF ApplyPc
<1> QED
  BY <1>c, <1>1, <1>2, <1>3, <1>4, <1>5, <1>6, CalmStep

-----------------------------------------------------------------------------
(* A mutation, from the drive's change to the event.                           *)

\* A step of a caller that is alone, before and after.
LEMMA AloneStep ==
  ASSUME TypeOK, NEW c \in Caller, pc'[c] \in ApplyPc,
         queue' = <<>>, \A y \in Thread : y # c => pc'[y] = "idle",
         JobTrue(job[c])',
         pc'[c] \in {"ttl", "upsert"} =>
           job'[c].op = "create" /\ list'[c] \cup {job'[c].item} = drive'[job'[c].dir],
         \A d \in Dir \ Behind(c)' : FreshAt(d)',
         pc'[c] = "apply" /\ job'[c].op = "create" /\ job'[c].item # None =>
           cached'[job'[c].dir] = None
           \/ cached'[job'[c].dir] \cup {job'[c].item} = drive'[job'[c].dir]
  PROVE  ApartInv'
<1>c. c \in Thread /\ \A b \in Caller : b \in Thread
  BY DEF Thread
<1>1. \A y \in Thread : pc'[y] # "idle" => y = c
  OBVIOUS
<1>2. Len(queue') = 0
  OBVIOUS
<1>3. "idle" \notin ApplyPc /\ "store" \notin ApplyPc
  BY DEF ApplyPc
<1>4. EventsTrue'
  <2>1. \A y \in Thread : pc'[y] \in ApplyPc => y = c
    BY <1>1, <1>3
  <2>2. 1..Len(queue') = {}
    BY <1>2
  <2> QED
    BY <2>1, <2>2 DEF EventsTrue
<1>5. LoadsTrue' /\ UpsertsTrue'
  BY <1>c, <1>1, <1>3 DEF LoadsTrue, UpsertsTrue
<1>6. MutationAlone'
  BY <1>c, <1>1, <1>3 DEF MutationAlone
<1>7. OthersFresh'
  BY <1>c, <1>1, <1>3 DEF OthersFresh
<1>8. LacksOne'
  BY <1>c, <1>1 DEF LacksOne
<1>9. ~NoMutation'
  BY DEF NoMutation
<1> QED
  BY <1>4, <1>5, <1>6, <1>7, <1>8, <1>9 DEF ApartInv

LEMMA MutateApart ==
  ASSUME TypeOK, ApartInv, NEW c \in Caller, NEW event \in Job, NEW contents,
         Mutate(c, event, contents),
         \A d \in Dir : d # event.dir /\ ~(TwoDirs(event) /\ d = event.old) => contents[d] = drive[d],
         event.op = "create" /\ event.item # None =>
           contents[event.dir] = drive[event.dir] \cup {event.item}
  PROVE  ApartInv'
<1>c. c \in Thread
  BY DEF Thread
<1>t. /\ pc \in [Thread -> {"idle"} \cup ListPc \cup ApplyPc] /\ job \in [Thread -> Job]
      /\ event.dir \in Dir /\ apart \in BOOLEAN
  BY SMT DEF TypeOK, ThreadType, StoreType, Job
<1>1. CASE ~apart'
  BY <1>1 DEF ApartInv
<1>2. CASE apart'
  <2>1. apart /\ AtRest
    BY <1>2, <1>t DEF Mutate
  <2>2. Fresh
    <3>1. NoMutation
      BY <2>1 DEF AtRest, NoMutation, Thread, ApplyPc
    <3> QED
      BY <2>1, <3>1 DEF ApartInv
  <2>3. /\ pc'[c] = "apply" /\ job'[c] = event /\ drive' = contents /\ queue' = <<>>
        /\ cached' = cached /\ \A y \in Thread : y # c => pc'[y] = "idle"
    BY <1>c, <1>t, <2>1, SMT DEF Mutate, Begin, Goto, AtRest
  <2>4. JobTrue(job[c])'
    BY <2>3 DEF JobTrue
  <2>5. ASSUME NEW d \in Dir \ Behind(c)' PROVE FreshAt(d)'
    <3>1. d # event.dir /\ ~(TwoDirs(event) /\ d = event.old)
      BY <2>3, <2>5 DEF Behind, TwoDirs
    <3>2. drive'[d] = drive[d]
      BY <2>3, <3>1
    <3> QED
      BY <2>2, <2>3, <3>2 DEF Fresh, FreshAt
  <2>6. event.op = "create" /\ event.item # None =>
          cached'[event.dir] = None \/ cached'[event.dir] \cup {event.item} = drive'[event.dir]
    BY <1>t, <2>2, <2>3 DEF Fresh
  <2>7. pc'[c] \in ApplyPc
    BY <2>3 DEF ApplyPc
  <2> QED
    BY <2>3, <2>4, <2>5, <2>6, <2>7, AloneStep
<1> QED
  BY <1>1, <1>2

LEMMA MutationApart ==
  ASSUME TypeOK, ApartInv, NEW c \in Caller, Mutation(c)
  PROVE  ApartInv'
<1>0. drive \in [Dir -> DirList] /\ Root \in Dir
  BY ThreadAssumption DEF TypeOK, StoreType
<1>1. ASSUME NEW d \in Dir, NEW i \in Item, Create(c, d, i) PROVE ApartInv'
  <2>1. PICK named \in {i, None} :
          Mutate(c, [op |-> "create", dir |-> d, old |-> Root, item |-> named],
                 [drive EXCEPT ![d] = @ \cup {i}])
    BY <1>1, Zenon DEF Create
  <2> DEFINE e == [op |-> "create", dir |-> d, old |-> Root, item |-> named]
             f == [drive EXCEPT ![d] = @ \cup {i}]
  <2>2. e \in Job /\ e.dir = d /\ e.item = named
    BY ThreadAssumption, SMT DEF Job, Op
  <2>3. f[d] = drive[d] \cup {i} /\ \A x \in Dir : x # d => f[x] = drive[x]
    BY <1>0
  <2> HIDE DEF e, f
  <2>4. Mutate(c, e, f)
    BY <2>1 DEF e, f
  <2>5. e.item # None => f[e.dir] = drive[e.dir] \cup {e.item}
    BY <2>2, <2>3
  <2> QED
    BY <2>2, <2>3, <2>4, <2>5, MutateApart
<1>2. ASSUME NEW d \in Dir, NEW op \in {"delete", "rename", "copy"}, NEW s,
             Mutate(c, [op |-> op, dir |-> d, old |-> Root, item |-> None], [drive EXCEPT ![d] = s])
      PROVE  ApartInv'
  <2> DEFINE e == [op |-> op, dir |-> d, old |-> Root, item |-> None]
             f == [drive EXCEPT ![d] = s]
  <2>1. e \in Job /\ e.dir = d /\ e.item = None
    BY ThreadAssumption, SMT DEF Job, Op
  <2>2. \A x \in Dir : x # d => f[x] = drive[x]
    BY <1>0
  <2>3. Mutate(c, e, f)
    BY <1>2
  <2> HIDE DEF e, f
  <2> QED
    BY <2>1, <2>2, <2>3, MutateApart
<1>3. ASSUME NEW d \in Dir, NEW i \in Item, DeleteFiles(c, d, i) PROVE ApartInv'
  BY <1>2, <1>3 DEF DeleteFiles
<1>4. ASSUME NEW d \in Dir, NEW i \in Item, NEW j \in Item, RenameFile(c, d, i, j) PROVE ApartInv'
  BY <1>2, <1>4 DEF RenameFile
<1>5. ASSUME NEW d \in Dir, NEW i \in Item, NEW j \in Item, CopyFiles(c, d, i, j) PROVE ApartInv'
  BY <1>2, <1>5 DEF CopyFiles
<1>6. ASSUME NEW d \in Dir, NEW b \in Dir, NEW i \in Item, MoveFiles(c, d, b, i) PROVE ApartInv'
  <2> DEFINE e == [op |-> "move", dir |-> d, old |-> b, item |-> None]
             f == [drive EXCEPT ![d] = @ \cup {i}, ![b] = @ \ {i}]
  <2>1. e \in Job /\ e.dir = d /\ e.old = b /\ e.item = None /\ e.op = "move"
    BY SMT DEF Job, Op
  <2>2. \A x \in Dir : x # d /\ x # b => f[x] = drive[x]
    BY <1>0
  <2>3. Mutate(c, e, f) /\ d # b
    BY <1>6 DEF MoveFiles
  <2> HIDE DEF e, f
  <2> QED
    BY <2>1, <2>2, <2>3, MutateApart DEF TwoDirs
<1> QED
  BY <1>1, <1>3, <1>4, <1>5, <1>6 DEF Mutation

\* Each step of ApplyMutation leaves behind no list that it has not dropped.
LEMMA BehindShrinks ==
  ASSUME TypeOK, NEW c \in Caller, ApplyStep(c),
         pc[c] \in {"ttl", "upsert"} =>
           job[c].op = "create" /\ list[c] \cup {job[c].item} = drive[job[c].dir],
         \A d \in Dir \ Behind(c) : FreshAt(d)
  PROVE  \A d \in Dir \ Behind(c)' : cached'[d] \in {None, drive[d]}
<1>c. c \in Thread
  BY DEF Thread
<1>t. /\ pc \in [Thread -> {"idle"} \cup ListPc \cup ApplyPc]
      /\ cached \in [Dir -> DirList \cup {None}] /\ job[c].dir \in Dir /\ job[c].old \in Dir
  BY <1>c, SMT DEF TypeOK, ThreadType, StoreType, Job
<1>1. job' = job
  BY <1>c, ApplyMoves
<1>2. CASE Apply(c)
  <2>1. /\ pc[c] = "apply" /\ pc'[c] \in {"ttl", "drop"} /\ cached' = cached
    BY <1>2, <1>c, <1>t, SMT DEF Apply, Goto, cacheVars
  <2>2. Behind(c)' = Behind(c)
    BY <1>1, <2>1 DEF Behind, TwoDirs
  <2> QED
    BY <2>1, <2>2 DEF FreshAt
<1>3. CASE RemainingTTL(c)
  <2>1. /\ pc[c] = "ttl" /\ pc'[c] \in {"upsert", "drop"} /\ cached' = cached
    BY <1>3, <1>c, <1>t, SMT DEF RemainingTTL, Goto, cacheVars
  <2>2. Behind(c)' = Behind(c)
    BY <1>1, <2>1 DEF Behind, TwoDirs
  <2> QED
    BY <2>1, <2>2 DEF FreshAt
<1>4. CASE Upsert(c)
  <2>1. /\ pc[c] = "upsert"
        /\ cached' = [cached EXCEPT ![job[c].dir] = list[c] \cup {job[c].item}]
    BY <1>4 DEF Upsert
  <2>2. Behind(c) = {job[c].dir} /\ cached'[job[c].dir] = drive[job[c].dir]
    BY <2>1, <1>t DEF Behind, TwoDirs
  <2>3. \A d \in Dir : d # job[c].dir => cached'[d] = cached[d]
    BY <2>1, <1>t
  <2> QED
    BY <2>2, <2>3 DEF FreshAt
<1>5. CASE ClearDirCooling(c) \/ MarkDirCooling(c)
  <2>1. pc[c] \in {"clear", "mark"} /\ cached' = cached
    BY <1>5 DEF ClearDirCooling, MarkDirCooling
  <2>2. Behind(c) = {}
    BY <2>1 DEF Behind
  <2> QED
    BY <2>1, <2>2 DEF FreshAt
<1>6. CASE InvalidateDir(c)
  <2>1. /\ pc[c] = "drop" /\ cached' = [cached EXCEPT ![job[c].dir] = None]
        /\ pc'[c] = IF TwoDirs(job[c]) THEN "dropOld" ELSE "mark"
    BY <1>6, <1>c, <1>t, SMT DEF InvalidateDir, Drop, Goto
  <2>2. Behind(c) \subseteq Behind(c)' \cup {job[c].dir}
    BY <1>1, <2>1 DEF Behind, TwoDirs
  <2>3. \A d \in Dir : cached'[d] = IF d = job[c].dir THEN None ELSE cached[d]
    BY <2>1, <1>t
  <2> QED
    BY <2>2, <2>3 DEF FreshAt
<1>7. CASE InvalidateOldDir(c)
  <2>1. /\ pc[c] = "dropOld" /\ cached' = [cached EXCEPT ![job[c].old] = None]
    BY <1>7 DEF InvalidateOldDir, Drop
  <2>2. Behind(c) = {job[c].old}
    BY <2>1 DEF Behind
  <2>3. \A d \in Dir : cached'[d] = IF d = job[c].old THEN None ELSE cached[d]
    BY <2>1, <1>t
  <2> QED
    BY <2>2, <2>3 DEF FreshAt
<1> QED
  BY <1>2, <1>3, <1>4, <1>5, <1>6, <1>7 DEF ApplyStep

LEMMA ApplyApart ==
  ASSUME TypeOK, ApartInv, NEW c \in Caller, ApplyStep(c)
  PROVE  ApartInv'
<1>c. c \in Thread
  BY DEF Thread
<1>1. /\ pc[c] \in ApplyPc /\ pc'[c] \in ApplyPc /\ job' = job
      /\ UNCHANGED <<drive, queue, apart>>
      /\ \A y \in Thread : y # c => pc'[y] = pc[y] /\ list'[y] = list[y]
  BY <1>c, ApplyMoves
<1>2. CASE ~apart
  BY <1>1, <1>2 DEF ApartInv
<1>3. CASE apart
  <2>1. EventsTrue /\ UpsertsTrue /\ MutationAlone /\ OthersFresh /\ LacksOne
    BY <1>3 DEF ApartInv
  <2>2. queue' = <<>> /\ \A y \in Thread : y # c => pc'[y] = "idle"
    BY <1>1, <2>1 DEF MutationAlone
  <2>3. JobTrue(job[c])'
    BY <1>c, <1>1, <2>1 DEF EventsTrue, JobTrue
  <2>4. pc'[c] \in {"ttl", "upsert"} =>
          job'[c].op = "create" /\ list'[c] \cup {job'[c].item} = drive'[job'[c].dir]
    BY <1>c, <1>1, <2>1, ApplyUpserts DEF LacksOne
  <2>5. \A d \in Dir \ Behind(c)' : FreshAt(d)'
    <3>1. /\ pc[c] \in {"ttl", "upsert"} =>
               job[c].op = "create" /\ list[c] \cup {job[c].item} = drive[job[c].dir]
          /\ \A d \in Dir \ Behind(c) : FreshAt(d)
      BY <1>c, <1>1, <2>1 DEF UpsertsTrue, OthersFresh
    <3>2. \A d \in Dir \ Behind(c)' : cached'[d] \in {None, drive[d]}
      BY <3>1, BehindShrinks
    <3> QED
      BY <3>2, <1>1 DEF FreshAt
  <2>6. pc'[c] # "apply"
    <3>1. pc \in [Thread -> {"idle"} \cup ListPc \cup ApplyPc]
      BY DEF TypeOK, ThreadType
    <3> QED
      BY <1>c, <3>1, SMT DEF ApplyStep, Apply, RemainingTTL, Upsert, ClearDirCooling,
         InvalidateDir, InvalidateOldDir, MarkDirCooling, Goto
  <2> QED
    BY <1>1, <2>2, <2>3, <2>4, <2>5, <2>6, AloneStep
<1> QED
  BY <1>2, <1>3

\* The event leaves the caller with every list as the drive is.
LEMMA PublishApart ==
  ASSUME TypeOK, ApartInv, NEW c \in Caller, Publish(c)
  PROVE  ApartInv'
<1>c. c \in Thread /\ \A b \in Caller : b \in Thread
  BY DEF Thread
<1>t. /\ pc \in [Thread -> {"idle"} \cup ListPc \cup ApplyPc] /\ job \in [Thread -> Job]
  BY DEF TypeOK, ThreadType
<1>1. pc[c] = "publish" /\ UNCHANGED <<drive, cached, apart>> /\ queue' = Append(queue, job[c])
  BY DEF Publish
<1>2. CASE ~apart
  BY <1>1, <1>2 DEF ApartInv
<1>3. CASE apart
  <2>1. pc[c] \in ApplyPc /\ EventsTrue /\ MutationAlone /\ OthersFresh
    BY <1>1, <1>3 DEF ApartInv, ApplyPc
  <2>2. queue = <<>> /\ \A y \in Thread : y # c => pc[y] = "idle"
    BY <2>1 DEF MutationAlone
  <2>3. \A y \in Thread : pc'[y] = "idle"
    BY <2>2, <1>c, <1>t, SMT DEF Publish, End, Goto
  <2>4. Fresh
    <3>1. Behind(c) = {}
      BY <1>1 DEF Behind
    <3> QED
      BY <2>1, <3>1 DEF OthersFresh, FreshAt, Fresh
  <2>5. Len(queue') = 1 /\ queue'[1] = job[c]
    BY <1>1, <2>2, <1>c, <1>t, SMT
  <2>6. EventsTrue'
    <3>1. JobTrue(job[c])
      BY <1>c, <2>1 DEF EventsTrue
    <3>2. \A i \in 1..Len(queue') : queue'[i] = job[c]
      BY <2>5
    <3>3. JobTrue(job[c]) => \A i \in 1..Len(queue') : JobTrue(queue'[i])
      BY <3>2
    <3> QED
      BY <1>1, <2>3, <3>1, <3>3 DEF EventsTrue, JobTrue, ApplyPc
  <2>7. LoadsTrue' /\ UpsertsTrue' /\ MutationAlone' /\ OthersFresh' /\ LacksOne'
    BY <1>c, <2>3 DEF LoadsTrue, UpsertsTrue, MutationAlone, OthersFresh, LacksOne, ApplyPc
  <2>8. Fresh'
    BY <1>1, <2>4 DEF Fresh
  <2> QED
    BY <2>6, <2>7, <2>8 DEF ApartInv
<1> QED
  BY <1>2, <1>3

\* What is evicted is not out of date.
LEMMA LosingApart ==
  ASSUME TypeOK, ApartInv, UNCHANGED <<drive, queue, pc, job, list, apart>>,
         \A e \in Dir : cached'[e] \in {cached[e], None}
  PROVE  ApartInv'
<1>1. /\ UNCHANGED <<drive, queue, pc, job, list, apart>>
      /\ \A e \in Dir : cached'[e] \in {cached[e], None}
  OBVIOUS
<1>2. CASE ~apart
  BY <1>1, <1>2 DEF ApartInv
<1>3. CASE apart
  <2>1. EventsTrue' /\ LoadsTrue' /\ UpsertsTrue' /\ MutationAlone'
    BY <1>1, <1>3 DEF ApartInv, EventsTrue, JobTrue, LoadsTrue, UpsertsTrue, MutationAlone
  <2>2. OthersFresh'
    <3>1. \A c \in Caller : Behind(c)' = Behind(c)
      BY <1>1 DEF Behind
    <3>2. \A e \in Dir : FreshAt(e) => FreshAt(e)'
      BY <1>1 DEF FreshAt
    <3> QED
      BY <1>1, <1>3, <3>1, <3>2 DEF ApartInv, OthersFresh
  <2>3. LacksOne'
    <3>1. \A c \in Caller : job[c].dir \in Dir
      BY SMT DEF TypeOK, ThreadType, Thread, Job
    <3> QED
      BY <1>1, <1>3, <3>1 DEF ApartInv, LacksOne
  <2>4. NoMutation' => Fresh'
    BY <1>1, <1>3 DEF ApartInv, NoMutation, Fresh
  <2> QED
    BY <2>1, <2>2, <2>3, <2>4 DEF ApartInv
<1> QED
  BY <1>2, <1>3

LEMMA EvictApart ==
  ASSUME TypeOK, ApartInv, NEW d \in Dir, Evict(d) \/ CoolingEnds(d)
  PROVE  ApartInv'
<1>1. /\ UNCHANGED <<drive, queue, pc, job, list, apart>>
      /\ \A e \in Dir : cached'[e] \in {cached[e], None}
  <2>1. cached \in [Dir -> DirList \cup {None}]
    BY DEF TypeOK, StoreType
  <2> QED
    BY <2>1 DEF Evict, CoolingEnds, Drop
<1> QED
  BY <1>1, LosingApart

LEMMA InitApart == Init => ApartInv
<1> SUFFICES ASSUME Init PROVE ApartInv
  OBVIOUS
<1>1. /\ queue = <<>> /\ \A x \in Thread : pc[x] = "idle"
      /\ \A d \in Dir : cached[d] = None /\ \A c \in Caller : c \in Thread
  BY DEF Init, Thread
<1>2. EventsTrue
  BY <1>1 DEF EventsTrue, ApplyPc
<1>3. LoadsTrue /\ UpsertsTrue /\ MutationAlone /\ OthersFresh /\ LacksOne
  BY <1>1, ThreadAssumption DEF LoadsTrue, UpsertsTrue, MutationAlone, OthersFresh, LacksOne, ApplyPc
<1>4. Fresh
  BY <1>1 DEF Fresh
<1> QED
  BY <1>2, <1>3, <1>4 DEF ApartInv

LEMMA NextKeepsApart ==
  ASSUME TypeOK, ApartInv, [Next]_vars
  PROVE  ApartInv'
<1>1. ASSUME NEW x \in Thread, ApplyStep(x) PROVE ApartInv'
  BY <1>1, ReplayApart, ApplyApart DEF Thread
<1>2. CASE UNCHANGED vars
  BY <1>2, LosingApart DEF vars
<1> QED
  BY <1>1, <1>2, ListApart, BusApart, MutationApart, PublishApart, EvictApart DEF Next

\* ApplyMutation leaves the cache as the drive is, and the replay does it no harm, when
\* every mutation has had the cache to itself and the one before it has been replayed.
THEOREM ApartIsFresh == Spec => []ApartFresh
<1>1. ApartInv => ApartFresh
  BY DEF ApartInv, ApartFresh
<1>2. IInv => TypeOK
  BY DEF IInv
<1>3. TypeOK /\ ApartInv /\ [Next]_vars => ApartInv'
  BY NextKeepsApart
<1> QED
  BY <1>1, <1>2, <1>3, InitApart, AlwaysIInv, PTL DEF Spec

-----------------------------------------------------------------------------
(* The bus is a Mailbox: the event that is being dispatched is the first of    *)
(* what waits.                                                                 *)

LEMMA OneAhead ==
  ASSUME NEW x \in Job, NEW q \in Seq(Job)
  PROVE  /\ <<x>> \o q \in Seq(Job) /\ Len(<<x>> \o q) = Len(q) + 1 /\ <<x>> \o q # <<>>
         /\ Tail(<<x>> \o q) = q
<1>1. /\ <<x>> \o q \in Seq(Job) /\ Len(<<x>> \o q) = Len(q) + 1
      /\ \A i \in 1..Len(q) + 1 : (<<x>> \o q)[i] = IF i = 1 THEN x ELSE q[i - 1]
  OBVIOUS
<1>2. <<x>> \o q # <<>>
  BY <1>1
<1>3. Tail(<<x>> \o q) = q
  <2>1. Tail(<<x>> \o q) \in Seq(Job) /\ Len(Tail(<<x>> \o q)) = Len(q)
    BY <1>1, <1>2
  <2>2. \A i \in 1..Len(q) : Tail(<<x>> \o q)[i] = q[i]
    BY <1>1, <1>2
  <2> QED BY <2>1, <2>2
<1> QED BY <1>1, <1>2, <1>3

LEMMA AppendBehind ==
  ASSUME NEW x \in Job, NEW q \in Seq(Job), NEW e \in Job
  PROVE  Append(<<x>> \o q, e) = <<x>> \o Append(q, e)
<1> DEFINE a == Append(<<x>> \o q, e)
           b == <<x>> \o Append(q, e)
<1>1. a \in Seq(Job) /\ b \in Seq(Job) /\ Len(a) = Len(q) + 2 /\ Len(b) = Len(q) + 2
  OBVIOUS
<1>2. \A i \in 1..Len(q) + 2 : a[i] = b[i]
  OBVIOUS
<1> QED BY <1>1, <1>2

LEMMA HeadAhead ==
  ASSUME NEW q \in Seq(Job), q # <<>> PROVE <<Head(q)>> \o Tail(q) = q
<1>1. Head(q) \in Job /\ Tail(q) \in Seq(Job) /\ Len(Tail(q)) = Len(q) - 1 /\ Len(q) \in Nat \ {0}
      /\ \A i \in 1..Len(q) - 1 : Tail(q)[i] = q[i + 1]
  OBVIOUS
<1>2. Len(<<Head(q)>> \o Tail(q)) = Len(q)
  BY <1>1
<1>3. \A i \in 1..Len(q) : (<<Head(q)>> \o Tail(q))[i] = q[i]
  BY <1>1
<1>4. <<Head(q)>> \o Tail(q) \in Seq(Job)
  BY <1>1
<1> QED BY <1>2, <1>3, <1>4

LEMMA MailStep ==
  ASSUME TypeOK, [Next]_vars PROVE Mail!Next \/ UNCHANGED Mail!vars
<1>0. /\ queue \in Seq(Job) /\ Len(queue) <= QueueCap /\ \A x \in Thread : job[x] \in Job
      /\ Cleaner \in Thread /\ Cleaner \notin Caller /\ Caller \subseteq Thread
      /\ pc \in [Thread -> {"idle"} \cup ListPc \cup ApplyPc] /\ job \in [Thread -> Job]
  BY ThreadAssumption DEF TypeOK, BusType, ThreadType, Thread
<1>1. ASSUME queue' = queue, job'[Cleaner] = job[Cleaner],
             pc'[Cleaner] = "idle" <=> pc[Cleaner] = "idle"
      PROVE  UNCHANGED Mail!vars
  BY <1>1 DEF Pending, Mail!vars
<1>2. ASSUME NEW c \in Caller, Publish(c) PROVE Mail!Next
  <2>1. /\ Len(queue) < QueueCap /\ queue' = Append(queue, job[c]) /\ job[c] \in Job
        /\ pc'[Cleaner] = pc[Cleaner] /\ job'[Cleaner] = job[Cleaner]
    BY <1>0, <1>2 DEF Publish, End, Goto
  <2>2. CASE pc[Cleaner] = "idle"
    BY <1>0, <2>1, <2>2 DEF Pending, Mail!Next, Mail!Put
  <2>3. CASE pc[Cleaner] # "idle"
    <3>1. Pending = <<job[Cleaner]>> \o queue /\ Pending' = <<job[Cleaner]>> \o queue'
      BY <1>0, <2>1, <2>3, Zenon DEF Pending
    <3>2. job[Cleaner] \in Job /\ queue \in Seq(Job) /\ job[c] \in Job
      BY <1>0, <2>1
    <3>3. Len(<<job[Cleaner]>> \o queue) = Len(queue) + 1
      BY <3>2, OneAhead
    <3>4. Append(<<job[Cleaner]>> \o queue, job[c]) = <<job[Cleaner]>> \o Append(queue, job[c])
      BY <3>2, AppendBehind, Zenon
    <3>5. Len(Pending) <= QueueCap
      BY <1>0, <2>1, <3>1, <3>3, BoundAssumption
    <3> QED BY <2>1, <3>1, <3>4, <3>5, Zenon DEF Mail!Next, Mail!Put
  <2> QED BY <2>2, <2>3
<1>3. CASE Dispatch
  <2>1. /\ pc[Cleaner] = "idle" /\ queue # <<>> /\ job'[Cleaner] = Head(queue) /\ queue' = Tail(queue)
        /\ pc'[Cleaner] = "apply"
    BY <1>0, <1>3 DEF Dispatch, Goto
  <2>2. Pending' = Pending
    BY <1>0, <2>1, HeadAhead DEF Pending
  <2> QED BY <2>2 DEF Mail!vars
<1>4. CASE Handled
  <2>1. pc[Cleaner] = "publish" /\ pc'[Cleaner] = "idle" /\ queue' = queue
    BY <1>0, <1>4 DEF Handled, End, Goto, cacheVars
  <2>2. Pending # <<>> /\ Pending' = Tail(Pending)
    BY <1>0, <2>1, OneAhead DEF Pending
  <2> QED BY <2>2 DEF Mail!Next, Mail!Handle
<1>5. ASSUME NEW x \in Thread, ApplyStep(x) PROVE UNCHANGED Mail!vars
  <2>1. queue' = queue /\ job' = job
    BY <1>5 DEF ApplyStep, Apply, RemainingTTL, Upsert, ClearDirCooling, InvalidateDir,
       InvalidateOldDir, MarkDirCooling, cacheVars
  <2>2. pc'[Cleaner] = "idle" <=> pc[Cleaner] = "idle"
    BY <1>0, <1>5 DEF ApplyStep, Apply, RemainingTTL, Upsert, ClearDirCooling, InvalidateDir,
       InvalidateOldDir, MarkDirCooling, Goto
  <2> QED BY <1>1, <2>1, <2>2
<1>6. ASSUME NEW c \in Caller, ListStep(c) PROVE UNCHANGED Mail!vars
  <2>1. queue' = queue
    BY <1>6 DEF ListStep, List, DirIsCooling, Lookup, Lead, Join, GiveUp, Recheck, Load, LoadFails,
       Store, Close, Forget, cacheVars
  <2>2. job'[Cleaner] = job[Cleaner]
    BY <1>0, <1>6 DEF ListStep, List, Begin, DirIsCooling, Lookup, Lead, Join, GiveUp, Recheck, Load,
       LoadFails, Store, Close, Forget, End
  <2>3. pc'[Cleaner] = pc[Cleaner]
    <3>1. CASE Close(c)
      BY <1>0, <3>1 DEF Close, Followers
    <3>2. CASE ~Close(c)
      BY <1>0, <1>6, <3>2 DEF ListStep, List, Begin, DirIsCooling, Lookup, Lead, Join, GiveUp,
         Recheck, Load, LoadFails, Store, Forget, End, Goto
    <3> QED BY <3>1, <3>2
  <2> QED BY <1>1, <2>1, <2>2, <2>3
<1>7. ASSUME NEW c \in Caller, Mutation(c) PROVE UNCHANGED Mail!vars
  <2>1. PICK event, contents : Mutate(c, event, contents)
    BY <1>7 DEF Mutation, Create, DeleteFiles, RenameFile, CopyFiles, MoveFiles
  <2>2. queue' = queue /\ job'[Cleaner] = job[Cleaner] /\ pc'[Cleaner] = pc[Cleaner]
    BY <1>0, <2>1 DEF Mutate, Begin, Goto
  <2> QED BY <1>1, <2>2
<1>8. CASE UNCHANGED vars \/ \E d \in Dir : Evict(d) \/ CoolingEnds(d)
  BY <1>1, <1>8 DEF vars, Evict, CoolingEnds
<1> QED BY <1>2, <1>3, <1>4, <1>5, <1>6, <1>7, <1>8 DEF Next

\* The bus between publishMutation and the Cleaner implements Mailbox.
THEOREM MutationsInOrder == Spec => BusIsMailbox
<1>1. Init => Mail!Init
  BY DEF Init, Pending, Mail!Init, Thread
<1>2. IInv /\ [Next]_vars => [Mail!Next]_(Mail!vars)
  BY MailStep DEF IInv
<1> QED BY <1>1, <1>2, AlwaysIInv, PTL DEF Spec, BusIsMailbox, Mail!Spec
=============================================================================
