---------------------------- MODULE DirListCache ----------------------------
(* The cached directory lists of one account: file.Service.List and its       *)
(* mutations, the metadata cache with its singleflight and its fence, and the *)
(* Cleaner that replays every mutation from the event bus.  The drive and     *)
(* what is in it are external; only this process changes it.                  *)
EXTENDS Naturals, Sequences

CONSTANTS Dir, Root,     \* directories; the root, which an event without an old parent names
          Item,          \* a file under a name: renaming it makes another item of it
          Caller,        \* goroutines that serve requests
          Cleaner,       \* the bus's dispatch goroutine, running Cleaner.handle
          QueueCap,      \* the capacity of the bus's queue (256)
          None,          \* no list, no item, no leader
          MaxMutations   \* bound: mutations of the drive

ASSUME ThreadAssumption == Cleaner \notin Caller /\ None \notin Caller /\ Root \in Dir
ASSUME NoneAssumption == (\A l \in SUBSET Item : l # None) /\ None \notin Item
ASSUME BoundAssumption == QueueCap \in Nat \ {0} /\ MaxMutations \in Nat

VARIABLES drive,     \* what is in each directory of the drive
          cached,    \* the cached list of each directory, or None
          cooling,   \* the directories behind the mutation fence
          flight,    \* singleflight: who leads the call under way, or None
          queue,     \* the bus
          pc, job, list,  \* per thread: where it is, what it does, the list it has read
          made,      \* mutations so far
          apart      \* ghost: no mutation has overlapped another call or replay yet

vars == <<drive, cached, cooling, flight, queue, pc, job, list, made, apart>>

Thread == Caller \cup {Cleaner}
DirList == SUBSET Item

ListPc  == {"fence", "lookup", "enter", "joined", "recheck", "load", "store", "close", "forget"}
ApplyPc == {"apply", "ttl", "upsert", "clear", "drop", "dropOld", "mark", "publish"}
Op      == {"list", "create", "delete", "rename", "move", "copy"}
Job     == [op : Op, dir : Dir, old : Dir, item : Item \cup {None}]

StoreType  == /\ drive \in [Dir -> DirList]
              /\ cached \in [Dir -> DirList \cup {None}]
              /\ cooling \subseteq Dir
              /\ flight \in [Dir -> Caller \cup {None}]
              /\ made \in 0..MaxMutations /\ apart \in BOOLEAN
BusType    == queue \in Seq(Job) /\ Len(queue) <= QueueCap
ThreadType == /\ pc \in [Thread -> {"idle"} \cup ListPc \cup ApplyPc]
              /\ job \in [Thread -> Job]
              /\ list \in [Thread -> DirList]

TypeOK == StoreType /\ BusType /\ ThreadType

NoJob == [op |-> "list", dir |-> Root, old |-> Root, item |-> None]

\* At first everything is in the root.
Init ==
  /\ drive \in [Dir -> DirList]
  /\ \A d \in Dir \ {Root} : drive[d] = {}
  /\ cached = [d \in Dir |-> None]
  /\ cooling = {}
  /\ flight = [d \in Dir |-> None]
  /\ queue = <<>>
  /\ pc = [x \in Thread |-> "idle"]
  /\ job = [x \in Thread |-> NoJob]
  /\ list = [x \in Thread |-> {}]
  /\ made = 0
  /\ apart = TRUE

cacheVars == <<drive, cached, cooling, flight, queue, made, apart>>

Goto(x, l) == pc' = [pc EXCEPT ![x] = l]
End(x) == /\ Goto(x, "idle")
          /\ job' = [job EXCEPT ![x] = NoJob]
          /\ list' = [list EXCEPT ![x] = {}]
Drop(d) == cached' = [cached EXCEPT ![d] = None]

Begin(c, l, j) ==
  /\ pc[c] = "idle"
  /\ Goto(c, l)
  /\ job' = [job EXCEPT ![c] = j]

NoMutation == \A c \in Caller : pc[c] \notin ApplyPc
AtRest == queue = <<>> /\ \A x \in Thread : pc[x] = "idle"

-----------------------------------------------------------------------------
(* List and GetOrLoad.                                                        *)

List(c, d, force) ==
  /\ Begin(c, "fence", [NoJob EXCEPT !.dir = d])
  /\ IF force THEN Drop(d) ELSE UNCHANGED cached
  /\ apart' = (apart /\ NoMutation)
  /\ UNCHANGED <<drive, cooling, flight, queue, list, made>>

\* A cooling directory is listed by the driver, past the cache.
DirIsCooling(c) ==
  /\ pc[c] = "fence"
  /\ \/ job[c].dir \in cooling /\ End(c)
     \/ job[c].dir \notin cooling /\ Goto(c, "lookup") /\ UNCHANGED <<job, list>>
  /\ UNCHANGED cacheVars

Lookup(c) ==
  /\ pc[c] = "lookup"
  /\ \/ cached[job[c].dir] # None /\ End(c)
     \/ cached[job[c].dir] = None /\ Goto(c, "enter") /\ UNCHANGED <<job, list>>
  /\ UNCHANGED cacheVars

\* Mutant: a caller that finds a call under way makes one of its own.
LeadAlways(c) ==
  /\ pc[c] = "enter"
  /\ flight' = [flight EXCEPT ![job[c].dir] = c]
  /\ Goto(c, "recheck")
  /\ UNCHANGED <<drive, cached, cooling, queue, job, list, made, apart>>

Lead(c) ==
  /\ pc[c] = "enter" /\ flight[job[c].dir] = None
  /\ flight' = [flight EXCEPT ![job[c].dir] = c]
  /\ Goto(c, "recheck")
  /\ UNCHANGED <<drive, cached, cooling, queue, job, list, made, apart>>

\* A leader that has closed its channel but is still in the map answers at once.
Join(c) ==
  /\ pc[c] = "enter" /\ flight[job[c].dir] # None
  /\ \/ pc[flight[job[c].dir]] = "forget" /\ End(c)
     \/ pc[flight[job[c].dir]] # "forget" /\ Goto(c, "joined") /\ UNCHANGED <<job, list>>
  /\ UNCHANGED cacheVars

\* The follower's own request ends.
GiveUp(c) ==
  /\ pc[c] = "joined" /\ End(c)
  /\ UNCHANGED cacheVars

Recheck(c) ==
  /\ pc[c] = "recheck"
  /\ Goto(c, IF cached[job[c].dir] # None THEN "close" ELSE "load")
  /\ UNCHANGED <<cacheVars, job, list>>

\* The driver lists the directory, whether the loader finds it cooling or not.
Load(c) ==
  /\ pc[c] = "load"
  /\ list' = [list EXCEPT ![c] = drive[job[c].dir]]
  /\ Goto(c, "store")
  /\ UNCHANGED <<cacheVars, job>>

LoadFails(c) ==
  /\ pc[c] = "load"
  /\ Goto(c, "close")
  /\ UNCHANGED <<cacheVars, job, list>>

\* GetOrLoad keeps whatever its loader returned.
Store(c) ==
  /\ pc[c] = "store"
  /\ cached' = [cached EXCEPT ![job[c].dir] = list[c]]
  /\ list' = [list EXCEPT ![c] = {}]
  /\ Goto(c, "close")
  /\ UNCHANGED <<drive, cooling, flight, queue, job, made, apart>>

Followers(c) == {b \in Caller : pc[b] = "joined" /\ job[b].dir = job[c].dir}

\* Mutant: the leader leaves the map without closing its channel.
CloseSilently(c) ==
  /\ pc[c] = "close"
  /\ Goto(c, "forget")
  /\ UNCHANGED <<cacheVars, job, list>>

\* The leader closes its channel: every follower returns with its result.
Close(c) ==
  /\ pc[c] = "close"
  /\ pc' = [b \in Thread |->
              IF b \in Followers(c) THEN "idle" ELSE IF b = c THEN "forget" ELSE pc[b]]
  /\ UNCHANGED <<cacheVars, job, list>>

Forget(c) ==
  /\ pc[c] = "forget"
  /\ flight' = [flight EXCEPT ![job[c].dir] = None]
  /\ End(c)
  /\ UNCHANGED <<drive, cached, cooling, queue, made, apart>>

ListStep(c) ==
  \/ \E d \in Dir, force \in BOOLEAN : List(c, d, force)
  \/ DirIsCooling(c) \/ Lookup(c) \/ Lead(c) \/ Join(c) \/ GiveUp(c) \/ Recheck(c)
  \/ Load(c) \/ LoadFails(c) \/ Store(c) \/ Close(c) \/ Forget(c)

-----------------------------------------------------------------------------
(* The mutations: the driver changes the drive, then publishMutation.         *)

Mutate(c, event, contents) ==
  /\ made < MaxMutations /\ made' = made + 1
  /\ drive' = contents
  /\ Begin(c, "apply", event)
  /\ apart' = (apart /\ AtRest)
  /\ UNCHANGED <<cached, cooling, flight, queue, list>>

Unused(i) == \A d \in Dir : i \notin drive[d]

\* CreateFolder, UploadLocal, NotifyCreated; some drivers do not say what they made.
Create(c, d, i) ==
  /\ Unused(i)
  /\ \E named \in {i, None} :
       Mutate(c, [op |-> "create", dir |-> d, old |-> Root, item |-> named],
              [drive EXCEPT ![d] = @ \cup {i}])

\* The invalidation that DeleteFiles does before publishMutation is one of Evict's.
DeleteFiles(c, d, i) ==
  /\ i \in drive[d]
  /\ Mutate(c, [op |-> "delete", dir |-> d, old |-> Root, item |-> None],
            [drive EXCEPT ![d] = @ \ {i}])

RenameFile(c, d, i, j) ==
  /\ i \in drive[d] /\ Unused(j)
  /\ Mutate(c, [op |-> "rename", dir |-> d, old |-> Root, item |-> None],
            [drive EXCEPT ![d] = (@ \ {i}) \cup {j}])

MoveFiles(c, d, e, i) ==
  /\ d # e /\ i \in drive[e]
  /\ Mutate(c, [op |-> "move", dir |-> d, old |-> e, item |-> None],
            [drive EXCEPT ![d] = @ \cup {i}, ![e] = @ \ {i}])

CopyFiles(c, d, i, j) ==
  /\ ~Unused(i) /\ Unused(j)
  /\ Mutate(c, [op |-> "copy", dir |-> d, old |-> Root, item |-> None],
            [drive EXCEPT ![d] = @ \cup {j}])

Mutation(c) ==
  \E d \in Dir, i \in Item :
    \/ Create(c, d, i) \/ DeleteFiles(c, d, i)
    \/ \E j \in Item : RenameFile(c, d, i, j) \/ CopyFiles(c, d, i, j)
    \/ \E e \in Dir : MoveFiles(c, d, e, i)

-----------------------------------------------------------------------------
(* ApplyMutation, run by the caller and again by the Cleaner.                 *)

\* tryUpsertDirOnCreate reads the cached list ...
Apply(x) ==
  LET j == job[x]
      upsert == j.op = "create" /\ j.item # None /\ cached[j.dir] # None IN
  /\ pc[x] = "apply"
  /\ list' = [list EXCEPT ![x] = IF upsert THEN cached[j.dir] ELSE {}]
  /\ Goto(x, IF upsert THEN "ttl" ELSE "drop")
  /\ UNCHANGED <<cacheVars, job>>

\* ... asks again for what is left of its TTL ...
RemainingTTL(x) ==
  /\ pc[x] = "ttl"
  /\ Goto(x, IF cached[job[x].dir] # None THEN "upsert" ELSE "drop")
  /\ UNCHANGED <<cacheVars, job, list>>

\* ... and puts the list back with the new item.
Upsert(x) ==
  /\ pc[x] = "upsert"
  /\ cached' = [cached EXCEPT ![job[x].dir] = list[x] \cup {job[x].item}]
  /\ list' = [list EXCEPT ![x] = {}]
  /\ Goto(x, "clear")
  /\ UNCHANGED <<drive, cooling, flight, queue, job, made, apart>>

ClearDirCooling(x) ==
  /\ pc[x] = "clear"
  /\ cooling' = cooling \ {job[x].dir}
  /\ Goto(x, "publish")
  /\ UNCHANGED <<drive, cached, flight, queue, job, list, made, apart>>

TwoDirs(j) == j.op \in {"move", "copy"} /\ j.old # j.dir

\* Mutant: the directory a file was moved out of keeps its list.
InvalidateDirOnly(x) ==
  /\ pc[x] = "drop"
  /\ Drop(job[x].dir)
  /\ Goto(x, "mark")
  /\ UNCHANGED <<drive, cooling, flight, queue, job, list, made, apart>>

InvalidateDir(x) ==
  /\ pc[x] = "drop"
  /\ Drop(job[x].dir)
  /\ Goto(x, IF TwoDirs(job[x]) THEN "dropOld" ELSE "mark")
  /\ UNCHANGED <<drive, cooling, flight, queue, job, list, made, apart>>

InvalidateOldDir(x) ==
  /\ pc[x] = "dropOld"
  /\ Drop(job[x].old)
  /\ Goto(x, "mark")
  /\ UNCHANGED <<drive, cooling, flight, queue, job, list, made, apart>>

MarkDirCooling(x) ==
  /\ pc[x] = "mark"
  /\ cooling' = cooling \cup {job[x].dir} \cup (IF TwoDirs(job[x]) THEN {job[x].old} ELSE {})
  /\ Goto(x, "publish")
  /\ UNCHANGED <<drive, cached, flight, queue, job, list, made, apart>>

ApplyStep(x) ==
  \/ Apply(x) \/ RemainingTTL(x) \/ Upsert(x) \/ ClearDirCooling(x)
  \/ InvalidateDir(x) \/ InvalidateOldDir(x) \/ MarkDirCooling(x)

Publish(c) ==
  /\ pc[c] = "publish" /\ Len(queue) < QueueCap
  /\ queue' = Append(queue, job[c])
  /\ End(c)
  /\ UNCHANGED <<drive, cached, cooling, flight, made, apart>>

\* The bus's goroutine hands the Cleaner one event after another.
Dispatch ==
  /\ pc[Cleaner] = "idle" /\ queue # <<>>
  /\ job' = [job EXCEPT ![Cleaner] = Head(queue)]
  /\ queue' = Tail(queue)
  /\ Goto(Cleaner, "apply")
  /\ UNCHANGED <<drive, cached, cooling, flight, list, made, apart>>

Handled ==
  /\ pc[Cleaner] = "publish" /\ End(Cleaner)
  /\ UNCHANGED cacheVars

\* Expiry, eviction, the WebDAV and settings handlers that clear what is cached.
Evict(d) ==
  /\ cached[d] # None /\ Drop(d)
  /\ UNCHANGED <<drive, cooling, flight, queue, pc, job, list, made, apart>>

\* Three seconds have passed since the directory was marked.
CoolingEnds(d) ==
  /\ d \in cooling /\ cooling' = cooling \ {d}
  /\ UNCHANGED <<drive, cached, flight, queue, pc, job, list, made, apart>>

-----------------------------------------------------------------------------
Next ==
  \/ Dispatch \/ Handled
  \/ \E c \in Caller : ListStep(c) \/ Mutation(c) \/ Publish(c)
  \/ \E x \in Thread : ApplyStep(x)
  \/ \E d \in Dir : Evict(d) \/ CoolingEnds(d)

Spec == Init /\ [][Next]_vars

-----------------------------------------------------------------------------
(* Properties.                                                                *)

Loading == {"recheck", "load", "store", "close", "forget"}

\* GetOrLoad lists a directory once for all who want it: two callers are never
\* between entering and leaving singleflight as its leaders for one directory.
LoadOnce ==
  \A b, c \in Caller :
    pc[b] \in Loading /\ pc[c] \in Loading /\ job[b].dir = job[c].dir => b = c

\* A follower of DoCtx waits for a leader that lists its directory and has yet to
\* close the channel: nobody waits for a load that is over.
FollowersLed ==
  \A c \in Caller : pc[c] = "joined" =>
    \E b \in Caller : /\ flight[job[c].dir] = b
                      /\ job[b].dir = job[c].dir
                      /\ pc[b] \in Loading \ {"forget"}

Fresh == \A d \in Dir : cached[d] \in {None, drive[d]}

\* ApplyMutation leaves the cache as the drive is, and the Cleaner's replay does it
\* no harm whatever lists run beside it, when every mutation has had the cache to
\* itself and the one before it has been replayed.
ApartFresh == apart /\ NoMutation => Fresh

\* The same for calls that overlap, once all is over: no list older than a
\* mutation is left in the cache for its whole TTL.
FreshAtRest == AtRest => Fresh

\* What waits at the bus: the event the Cleaner replays, and the queue.
Pending == IF pc[Cleaner] = "idle" THEN queue ELSE <<job[Cleaner]>> \o queue

Mail == INSTANCE Mailbox
          WITH Event <- Job, Capacity <- QueueCap, pending <- Pending,
               closed <- FALSE, gone <- FALSE

\* The Cleaner replays every mutation once, in the order in which publishMutation's
\* calls were accepted: the bus is a Mailbox here, too.
BusIsMailbox == Mail!Spec
=============================================================================
