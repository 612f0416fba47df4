---------------------------- MODULE EmbyRefresh ----------------------------
(* The refresh queue of the media servers (internal/embyrefresh and its table  *)
(* in internal/store): events leave a row per item or library, a debounce      *)
(* window holds it back, and one scanner gives up what has waited too long,    *)
(* merges items into their library, claims what is due and refreshes it.       *)
(*                                                                             *)
(* One action is one SQL statement or transaction (the write pool has a single *)
(* connection), or the beginning or the end of a call of the media server.     *)
(* The clock is read just before each statement; the rows' times are kept as   *)
(* what is left of them, since they are only ever compared with the clock.     *)
EXTENDS Integers, FiniteSets

CONSTANTS Item, Lib,   \* ids of media items and of the libraries they are in
          LibOf,       \* the library an event names with its item
          Source,      \* goroutines that report events
          Debounce,    \* how long an event holds its task back
          MaxWait,     \* how long a task may wait at all
          Threshold,   \* due items of one library that are merged
          MaxFaults    \* bound: crashes and lost results in one behaviour

ASSUME ConstantsAssumption ==
  /\ Item \cap Lib = {} /\ LibOf \in [Item -> Lib] /\ Lib # {}
  /\ IsFiniteSet(Item)
  /\ Debounce \in Nat /\ MaxWait \in Nat /\ Threshold \in Nat /\ MaxFaults \in Nat

Key == Item \cup Lib     \* task_key

VARIABLES status, after, deadline, \* the row of each key: emby_refresh_tasks
          pc, todo, due, cur,      \* the scanner's goroutine
          found,                   \* what a GetByKey of the scanner has returned
          verdict,                 \* the result it is about to write
          starting,                \* Start has yet to cancel what expired
          report,                  \* per source: the event it is registering
          faults,
          owed,    \* history: keys with an event that no refresh has answered
          busy     \* history: those whose event came while they were executed

rowVars  == <<status, after, deadline>>
scanVars == <<pc, todo, due, cur, found, verdict>>
history  == <<owed, busy>>
vars == <<rowVars, scanVars, starting, report, faults, history>>

Status   == {"pending", "refreshing", "completed", "failed", "cancelled"}
Executing == {"call", "calling", "fallback", "finish"}
PcSet    == {"idle", "items", "group", "absorb", "merge", "list", "claim"} \cup Executing

Quiet == [key |-> CHOOSE k \in Key : TRUE, found |-> FALSE, on |-> FALSE]

TypeOK ==
  /\ status \in [Key -> Status \cup {"none"}]
  /\ after \in [Key -> 0..Debounce] /\ deadline \in [Key -> 0..MaxWait]
  /\ pc \in PcSet /\ todo \subseteq Key /\ due \subseteq Item /\ cur \in Key
  /\ found \in BOOLEAN /\ verdict \in {"completed", "failed"} /\ starting \in BOOLEAN
  /\ report \in [Source -> [key : Key, found : BOOLEAN, on : BOOLEAN]]
  /\ faults \in 0..MaxFaults
  /\ owed \subseteq Key /\ busy \subseteq owed

Init ==
  /\ status = [k \in Key |-> "none"]
  /\ after = [k \in Key |-> 0] /\ deadline = [k \in Key |-> 0]
  /\ pc = "idle" /\ todo = {} /\ due = {} /\ cur = Quiet.key
  /\ found = FALSE /\ verdict = "failed" /\ starting = TRUE
  /\ report = [s \in Source |-> Quiet]
  /\ faults = 0 /\ owed = {} /\ busy = {}

-----------------------------------------------------------------------------
Exists(k) == status[k] # "none"

Executes(k) == pc \in Executing /\ cur = k

\* The rows ListReady and ListReadyItems return.
Due(k) == status[k] = "pending" /\ after[k] = 0 /\ deadline[k] > 0

Expired(k) == status[k] = "pending" /\ deadline[k] = 0

\* Mutant: a row that exists keeps its status.
UpsertQuietly(k, wait) ==
  /\ status' = [status EXCEPT ![k] = IF Exists(k) THEN @ ELSE "pending"]
  /\ after' = [after EXCEPT ![k] = wait]
  /\ deadline' = [deadline EXCEPT ![k] = IF Exists(k) THEN @ ELSE MaxWait]
  /\ owed' = owed \cup {k}
  /\ busy' = IF Executes(k) THEN busy \cup {k} ELSE busy

\* Mutant: every event renews the deadline.
UpsertRenews(k, wait) ==
  /\ status' = [status EXCEPT ![k] = "pending"]
  /\ after' = [after EXCEPT ![k] = wait]
  /\ deadline' = [deadline EXCEPT ![k] = MaxWait]
  /\ owed' = owed \cup {k}
  /\ busy' = IF Executes(k) THEN busy \cup {k} ELSE busy

\* The INSERT, or applyEvent's UPDATE: pending whatever it was, and the deadline
\* stays that of the row's first event.
Upsert(k, wait) ==
  /\ status' = [status EXCEPT ![k] = "pending"]
  /\ after' = [after EXCEPT ![k] = wait]
  /\ deadline' = [deadline EXCEPT ![k] = IF Exists(k) THEN @ ELSE MaxWait]
  /\ owed' = owed \cup {k}
  /\ busy' = IF Executes(k) THEN busy \cup {k} ELSE busy

\* CancelExpired's UPDATE.
GiveUp ==
  LET lost == {k \in Key : Expired(k)} IN
  /\ status' = [k \in Key |-> IF k \in lost THEN "cancelled" ELSE status[k]]
  /\ owed' = owed \ lost /\ busy' = busy \ lost

-----------------------------------------------------------------------------
(* RequestRefresh: UpsertEvent reads on one pool and writes on the other.      *)

Request(s, k) ==
  /\ ~report[s].on
  /\ report' = [report EXCEPT ![s] = [key |-> k, found |-> Exists(k), on |-> TRUE]]
  /\ UNCHANGED <<rowVars, scanVars, starting, faults, history>>

Register(s) ==
  LET r == report[s] IN
  /\ r.on /\ (r.found \/ ~Exists(r.key))
  /\ Upsert(r.key, Debounce)
  /\ report' = [report EXCEPT ![s] = Quiet]
  /\ UNCHANGED <<scanVars, starting, faults>>

\* Somebody else has inserted the row meanwhile: task_key is UNIQUE.
RegisterFails(s) ==
  /\ report[s].on /\ ~report[s].found /\ Exists(report[s].key)
  /\ report' = [report EXCEPT ![s] = Quiet]
  /\ UNCHANGED <<rowVars, scanVars, starting, faults, history>>

-----------------------------------------------------------------------------
(* The scanner.                                                                *)

Goto(l) == pc' = l

\* Start's own clean-up, beside the scanner it has just started.
StartCancels ==
  /\ starting /\ starting' = FALSE
  /\ GiveUp
  /\ UNCHANGED <<after, deadline, scanVars, report, faults>>

\* The ticker, or a wake: a scan begins by giving up.
BeginScan ==
  /\ pc = "idle" /\ Goto("items")
  /\ GiveUp
  /\ UNCHANGED <<after, deadline, todo, due, cur, found, verdict, starting, report, faults>>

\* aggregateItems: the libraries with enough due items, in no particular order.
ListItems ==
  /\ pc = "items" /\ Goto("group")
  /\ due' = {i \in Item : Due(i)}
  /\ todo' = {l \in Lib : Cardinality({i \in due' : LibOf[i] = l}) >= Threshold}
  /\ UNCHANGED <<rowVars, cur, found, verdict, starting, report, faults, history>>

AbsorbRead(l) ==
  /\ pc = "group" /\ l \in todo
  /\ todo' = todo \ {l} /\ cur' = l /\ found' = Exists(l) /\ Goto("absorb")
  /\ UNCHANGED <<rowVars, due, verdict, starting, report, faults, history>>

AbsorbWrite ==
  /\ pc = "absorb" /\ (found \/ ~Exists(cur))
  /\ Upsert(cur, 0) /\ Goto("merge") /\ found' = FALSE
  /\ UNCHANGED <<todo, due, cur, verdict, starting, report, faults>>

AbsorbFails ==
  /\ pc = "absorb" /\ ~found /\ Exists(cur) /\ Goto("group")
  /\ UNCHANGED <<rowVars, todo, due, cur, found, verdict, starting, report, faults, history>>

\* The transaction: the items still pending are covered by their library now.
\* (Their ids are added to its row, which nothing reads again.)
AbsorbItems ==
  LET merged == {i \in due : LibOf[i] = cur /\ status[i] = "pending"} IN
  /\ pc = "merge" /\ Goto("group")
  /\ status' = [k \in Key |-> IF k \in merged THEN "cancelled" ELSE status[k]]
  /\ owed' = owed \ merged /\ busy' = busy \ merged
  /\ UNCHANGED <<after, deadline, todo, due, cur, found, verdict, starting, report, faults>>

\* ListReady; fewer rows than its limit of 50 are ever due.
List ==
  /\ pc = "group" /\ todo = {} /\ Goto("claim")
  /\ todo' = {k \in Key : Due(k)} /\ due' = {} /\ cur' = Quiet.key
  /\ UNCHANGED <<rowVars, found, verdict, starting, report, faults, history>>

\* Mutant: the row listed is the row claimed.
ClaimBlindly(k) ==
  /\ pc = "claim" /\ k \in todo /\ todo' = todo \ {k}
  /\ status' = [status EXCEPT ![k] = "refreshing"] /\ cur' = k /\ Goto("call")
  /\ UNCHANGED <<after, deadline, due, found, verdict, starting, report, faults, history>>

\* The row listed may have changed: only a pending one is taken.
Claim(k) ==
  /\ pc = "claim" /\ k \in todo /\ todo' = todo \ {k}
  /\ IF status[k] = "pending"
       THEN status' = [status EXCEPT ![k] = "refreshing"] /\ cur' = k /\ Goto("call")
       ELSE UNCHANGED <<status, cur, pc>>
  /\ UNCHANGED <<after, deadline, due, found, verdict, starting, report, faults, history>>

EndScan ==
  /\ pc = "claim" /\ todo = {} /\ Goto("idle")
  /\ UNCHANGED <<rowVars, todo, due, cur, found, verdict, starting, report, faults, history>>

\* The request goes out: it answers what has been reported until now, except
\* what Complete will overwrite.
BeginCall ==
  /\ pc = "call" /\ Goto("calling")
  /\ owed' = IF cur \in busy THEN owed ELSE owed \ {cur}
  /\ UNCHANGED <<rowVars, todo, due, cur, found, verdict, starting, report, faults, busy>>

CallSucceeds ==
  /\ pc \in {"calling", "fallback"} /\ Goto("finish") /\ verdict' = "completed"
  /\ UNCHANGED <<rowVars, todo, due, cur, found, starting, report, faults, history>>

\* An item falls back on its library once.
CallFails ==
  /\ pc \in {"calling", "fallback"}
  /\ IF pc = "calling" /\ cur \in Item THEN Goto("fallback") ELSE Goto("finish")
  /\ verdict' = "failed"
  /\ UNCHANGED <<rowVars, todo, due, cur, found, starting, report, faults, history>>

\* The result is written or not, and the scanner goes on to the next row.
NextRow == Goto("claim") /\ cur' = Quiet.key /\ verdict' = "failed"

\* Mutant: a failure is not written.
CompleteSuccess ==
  /\ pc = "finish" /\ NextRow
  /\ status' = [status EXCEPT ![cur] = IF verdict = "completed" THEN verdict ELSE @]
  /\ owed' = owed \ (busy \cap {cur}) /\ busy' = busy \ {cur}
  /\ UNCHANGED <<after, deadline, todo, due, found, starting, report, faults>>

\* Complete does not look at the status it replaces.
Complete ==
  /\ pc = "finish" /\ NextRow
  /\ status' = [status EXCEPT ![cur] = verdict]
  /\ owed' = owed \ (busy \cap {cur}) /\ busy' = busy \ {cur}
  /\ UNCHANGED <<after, deadline, todo, due, found, starting, report, faults>>

-----------------------------------------------------------------------------
(* Faults and time.                                                            *)

Fault == faults < MaxFaults /\ faults' = faults + 1

\* The result cannot be written: it is only logged.
CompleteFails ==
  /\ pc = "finish" /\ NextRow /\ Fault
  /\ busy' = busy \ {cur}
  /\ UNCHANGED <<rowVars, todo, due, found, starting, report, owed>>

\* A crash and the next start; also a shutdown, whose context ends every call
\* and statement, Complete's included.
Restart ==
  /\ Fault /\ Goto("idle") /\ starting' = TRUE
  /\ todo' = {} /\ due' = {} /\ found' = FALSE /\ verdict' = "failed" /\ cur' = Quiet.key
  /\ report' = [s \in Source |-> Quiet] /\ busy' = {}
  /\ UNCHANGED <<rowVars, owed>>

Less(f) == [k \in Key |-> IF f[k] > 0 THEN f[k] - 1 ELSE 0]

Tick ==
  /\ after' = Less(after) /\ deadline' = Less(deadline)
  /\ UNCHANGED <<status, scanVars, starting, report, faults, owed, busy>>

-----------------------------------------------------------------------------
Scan ==
  \/ BeginScan \/ ListItems \/ AbsorbWrite \/ AbsorbFails \/ AbsorbItems
  \/ List \/ EndScan \/ BeginCall \/ CallSucceeds \/ CallFails \/ Complete
  \/ \E k \in Key : Claim(k)
  \/ \E l \in Lib : AbsorbRead(l)

Next ==
  \/ Tick \/ Scan \/ StartCancels \/ CompleteFails \/ Restart
  \/ \E s \in Source : Register(s) \/ RegisterFails(s) \/ \E k \in Key : Request(s, k)

Spec == Init /\ [][Next]_vars

\* Time passes, and the scanner runs: the ticker never stops, and a call of the
\* media server ends, for its client has a timeout.
FairSpec == Spec /\ WF_vars(Tick) /\ WF_vars(Scan)

-----------------------------------------------------------------------------
(* Properties.                                                                 *)

\* An event that no refresh has answered shows in the table: its row is pending
\* or being refreshed, and never reads completed, failed or cancelled.  What is
\* excepted is in the history: giving up, merging, and Complete over an event
\* that came while its own task was being executed.
OwedIsShown == \A k \in owed : status[k] \in {"pending", "refreshing"}

\* A row says `refreshing' only while the scanner executes it: no path of a scan
\* leaves one behind, only a fault does.
RefreshingIsExecuted ==
  faults = 0 => \A k \in Key : status[k] = "refreshing" => Executes(k)

\* A task is claimed only if an event has come since it was last executed, and has
\* not been given up or merged meanwhile: never twice for one event.
OneClaimPerEvent ==
  [][\A k \in Key : status[k] # "refreshing" /\ status'[k] = "refreshing" => k \in owed]_vars

\* No row stays pending for ever, however often its event is repeated.
PendingResolves == \A k \in Key : status[k] = "pending" ~> status[k] # "pending"

\* An event that re-activates a finished task leaves it time to be refreshed.
ReactivationLasts ==
  [][\A k \in Key : status[k] # "pending" /\ status'[k] = "pending" => deadline'[k] > 0]_vars
=============================================================================
