------------------------- MODULE EmbyRefresh_proofs -------------------------
(* Proofs about EmbyRefresh, for any number of items, libraries and sources    *)
(* and any lengths of the windows: the table is well typed, it shows every     *)
(* event that is still owed a refresh, nothing is left `refreshing' without a  *)
(* fault, and a claim has an event behind it.  The invariant adds what the row *)
(* being executed may look like: if it is pending again, or owed once its call *)
(* has gone out, then its event came meanwhile and is in `busy'.               *)
EXTENDS EmbyRefresh, TLAPS

PendingIsOwed == \A k \in Key : status[k] = "pending" => k \in owed

ExecutedIsBusy ==
  /\ pc \in Executing /\ status[cur] = "pending" => cur \in busy
  /\ pc \in {"calling", "fallback", "finish"} /\ cur \in owed => cur \in busy

IInv == TypeOK /\ OwedIsShown /\ RefreshingIsExecuted /\ PendingIsOwed /\ ExecutedIsBusy

LEMMA QuietIsTyped == Quiet \in [key : Key, found : BOOLEAN, on : BOOLEAN]
<1>1. Key # {}
  BY ConstantsAssumption DEF Key
<1>2. (CHOOSE k \in Key : TRUE) \in Key
  BY <1>1
<1> QED
  BY <1>2 DEF Quiet

LEMMA InitIInv == Init => IInv
<1> SUFFICES ASSUME Init PROVE IInv
  OBVIOUS
<1> USE ConstantsAssumption DEF Init
<1>1. Quiet.key \in Key
  BY QuietIsTyped
<1>2. TypeOK
  <2>1. status \in [Key -> Status \cup {"none"}]
    OBVIOUS
  <2>2. after \in [Key -> 0..Debounce] /\ deadline \in [Key -> 0..MaxWait] /\ faults \in 0..MaxFaults
    OBVIOUS
  <2>3. report \in [Source -> [key : Key, found : BOOLEAN, on : BOOLEAN]]
    BY QuietIsTyped
  <2>4. pc \in PcSet /\ cur \in Key
    BY <1>1 DEF PcSet
  <2>5. /\ todo \subseteq Key /\ due \subseteq Item /\ found \in BOOLEAN
        /\ verdict \in {"completed", "failed"} /\ starting \in BOOLEAN
        /\ owed \subseteq Key /\ busy \subseteq owed
    OBVIOUS
  <2> QED
    BY <2>1, <2>2, <2>3, <2>4, <2>5 DEF TypeOK
<1>3. OwedIsShown /\ RefreshingIsExecuted /\ PendingIsOwed /\ ExecutedIsBusy
  BY DEF OwedIsShown, RefreshingIsExecuted, PendingIsOwed, ExecutedIsBusy, Executing
<1> QED
  BY <1>2, <1>3 DEF IInv

\* An event's write: the row is pending, and owed, and busy if it is executed.
LEMMA UpsertIInv ==
  ASSUME IInv, NEW k \in Key, NEW wait \in 0..Debounce, Upsert(k, wait),
         UNCHANGED <<due, verdict, starting, faults>>, cur' = cur,
         todo' = todo, found' \in BOOLEAN,
         pc' = pc \/ (pc \notin Executing /\ pc' = "merge"),
         report' \in [Source -> [key : Key, found : BOOLEAN, on : BOOLEAN]]
  PROVE  IInv'
<1> USE ConstantsAssumption DEF IInv, TypeOK
<1>1. pc' \in PcSet /\ (pc' \in Executing <=> pc \in Executing)
  BY DEF PcSet, Executing
<1>2. /\ status' \in [Key -> Status \cup {"none"}]
      /\ \A j \in Key : status'[j] = IF j = k THEN "pending" ELSE status[j]
  BY DEF Upsert, Status
<1>3. after' \in [Key -> 0..Debounce] /\ deadline' \in [Key -> 0..MaxWait]
  BY DEF Upsert
<1>4. /\ owed' = owed \cup {k} /\ owed' \subseteq Key
      /\ busy' = IF Executes(k) THEN busy \cup {k} ELSE busy
      /\ busy' \subseteq owed'
  BY DEF Upsert
<1>5. TypeOK'
  BY <1>1, <1>2, <1>3, <1>4
<1>6. OwedIsShown' /\ PendingIsOwed'
  BY <1>2, <1>4 DEF OwedIsShown, PendingIsOwed
<1>7. RefreshingIsExecuted'
  BY <1>1, <1>2 DEF RefreshingIsExecuted, Executes
<1>8. ExecutedIsBusy'
  BY <1>1, <1>2, <1>4 DEF ExecutedIsBusy, Executes, Executing
<1> QED
  BY <1>5, <1>6, <1>7, <1>8

LEMMA GiveUpIInv ==
  ASSUME IInv, GiveUp, UNCHANGED <<after, deadline, todo, due, cur, found, verdict, report, faults>>,
         starting' \in BOOLEAN, pc' = pc \/ (pc = "idle" /\ pc' = "items")
  PROVE  IInv'
<1> USE ConstantsAssumption DEF IInv, TypeOK
<1>1. pc' \in PcSet /\ (pc' \in Executing <=> pc \in Executing)
  BY DEF PcSet, Executing
<1>2. /\ status' \in [Key -> Status \cup {"none"}]
      /\ \A k \in Key : status'[k] = IF Expired(k) THEN "cancelled" ELSE status[k]
  BY DEF GiveUp, Status
<1>3. /\ \A k \in Key : k \in owed' <=> k \in owed /\ ~Expired(k)
      /\ \A k \in Key : k \in busy' <=> k \in busy /\ ~Expired(k)
      /\ owed' \subseteq owed /\ busy' \subseteq owed'
  BY DEF GiveUp
<1>4. TypeOK'
  BY <1>1, <1>2, <1>3
<1>5. OwedIsShown' /\ PendingIsOwed'
  BY <1>2, <1>3 DEF OwedIsShown, PendingIsOwed
<1>6. RefreshingIsExecuted'
  BY <1>1, <1>2 DEF RefreshingIsExecuted, Executes
<1>7. ExecutedIsBusy'
  BY <1>1, <1>2, <1>3 DEF ExecutedIsBusy, Executing
<1> QED
  BY <1>4, <1>5, <1>6, <1>7

\* Steps of the scanner that read, or move on, outside an execution.
LEMMA ReadIInv ==
  ASSUME IInv, UNCHANGED <<rowVars, verdict, starting, faults, history>>,
         pc \notin Executing, pc' \in PcSet \ Executing,
         todo' \subseteq Key, due' \subseteq Item, cur' \in Key, found' \in BOOLEAN,
         report' \in [Source -> [key : Key, found : BOOLEAN, on : BOOLEAN]]
  PROVE  IInv'
<1> USE DEF IInv, TypeOK, rowVars, history
<1>1. TypeOK'
  OBVIOUS
<1>2. OwedIsShown' /\ PendingIsOwed'
  BY DEF OwedIsShown, PendingIsOwed
<1>3. RefreshingIsExecuted' /\ ExecutedIsBusy'
  BY DEF RefreshingIsExecuted, ExecutedIsBusy, Executes, Executing
<1> QED
  BY <1>1, <1>2, <1>3

\* The merged items leave the table's pending rows and the owed keys together.
LEMMA AbsorbItemsIInv == IInv /\ AbsorbItems => IInv'
<1> SUFFICES ASSUME IInv, AbsorbItems PROVE IInv'
  OBVIOUS
<1> USE ConstantsAssumption DEF IInv, TypeOK, AbsorbItems, Goto
<1> DEFINE merged == {i \in due : LibOf[i] = cur /\ status[i] = "pending"}
<1>1. pc = "merge" /\ pc' = "group" /\ pc' \in PcSet
  BY DEF PcSet
<1>2. merged \subseteq Key /\ \A k \in merged : status[k] = "pending"
  BY DEF Key
<1>3. /\ status' \in [Key -> Status \cup {"none"}]
      /\ \A k \in Key : status'[k] = IF k \in merged THEN "cancelled" ELSE status[k]
  BY DEF Status
<1>4. owed' = owed \ merged /\ busy' = busy \ merged
  OBVIOUS
<1> HIDE DEF merged, AbsorbItems
<1> USE DEF AbsorbItems
<1>5. TypeOK'
  BY <1>1, <1>3, <1>4
<1>6. OwedIsShown' /\ PendingIsOwed'
  BY <1>2, <1>3, <1>4 DEF OwedIsShown, PendingIsOwed
<1>7. RefreshingIsExecuted' /\ ExecutedIsBusy'
  BY <1>1, <1>3 DEF RefreshingIsExecuted, ExecutedIsBusy, Executes, Executing
<1> QED
  BY <1>5, <1>6, <1>7

LEMMA ClaimIInv == ASSUME NEW k \in Key, IInv, Claim(k) PROVE IInv'
<1> USE ConstantsAssumption DEF IInv, TypeOK, Claim, Goto
<1>1. CASE status[k] # "pending"
  <2>1. UNCHANGED <<rowVars, verdict, starting, faults, history, pc, due, cur, found, report>>
    BY <1>1 DEF rowVars, history
  <2>2. pc \notin Executing /\ pc' \in PcSet \ Executing /\ todo' \subseteq Key
    BY <1>1, <2>1 DEF PcSet, Executing
  <2> QED
    BY <2>1, <2>2, ReadIInv
<1>2. CASE status[k] = "pending"
  <2>1. /\ status' = [status EXCEPT ![k] = "refreshing"] /\ cur' = k /\ pc' = "call"
        /\ pc = "claim" /\ UNCHANGED <<owed, busy, faults>>
    BY <1>2 DEF history
  <2>2. /\ status' \in [Key -> Status \cup {"none"}]
        /\ \A j \in Key : status'[j] = IF j = k THEN "refreshing" ELSE status[j]
    BY <2>1 DEF Status
  <2>3. TypeOK'
    BY <1>2, <2>1, <2>2 DEF PcSet, Executing, history
  <2>4. OwedIsShown' /\ PendingIsOwed'
    BY <2>1, <2>2 DEF OwedIsShown, PendingIsOwed
  <2>5. RefreshingIsExecuted' /\ ExecutedIsBusy'
    BY <2>1, <2>2 DEF RefreshingIsExecuted, ExecutedIsBusy, Executes, Executing
  <2> QED
    BY <2>3, <2>4, <2>5
<1> QED
  BY <1>1, <1>2

LEMMA BeginCallIInv == IInv /\ BeginCall => IInv'
<1> SUFFICES ASSUME IInv, BeginCall PROVE IInv'
  OBVIOUS
<1> USE DEF IInv, TypeOK, BeginCall, Goto, rowVars
<1>1. pc = "call" /\ pc' = "calling" /\ UNCHANGED <<status, cur, faults, busy>>
  OBVIOUS
<1>2. /\ owed' = IF cur \in busy THEN owed ELSE owed \ {cur}
      /\ owed' \subseteq owed /\ (cur \in owed' => cur \in busy) /\ busy \subseteq owed'
  OBVIOUS
<1>3. TypeOK'
  BY <1>1, <1>2 DEF PcSet, Executing
<1>4. OwedIsShown' /\ PendingIsOwed'
  BY <1>1, <1>2 DEF OwedIsShown, PendingIsOwed, ExecutedIsBusy, Executing
<1>5. RefreshingIsExecuted' /\ ExecutedIsBusy'
  BY <1>1, <1>2 DEF RefreshingIsExecuted, ExecutedIsBusy, Executes, Executing
<1> QED
  BY <1>3, <1>4, <1>5

LEMMA CallEndsIInv == IInv /\ (CallSucceeds \/ CallFails) => IInv'
<1> SUFFICES ASSUME IInv, CallSucceeds \/ CallFails PROVE IInv'
  OBVIOUS
<1> USE DEF IInv, TypeOK, CallSucceeds, CallFails, Goto, rowVars, history
<1>1. /\ pc \in {"calling", "fallback"} /\ pc' \in {"fallback", "finish"}
      /\ verdict' \in {"completed", "failed"} /\ UNCHANGED <<status, cur, faults, owed, busy>>
  OBVIOUS
<1>2. TypeOK'
  BY <1>1 DEF PcSet, Executing
<1>3. OwedIsShown' /\ PendingIsOwed'
  BY <1>1 DEF OwedIsShown, PendingIsOwed
<1>4. RefreshingIsExecuted' /\ ExecutedIsBusy'
  BY <1>1 DEF RefreshingIsExecuted, ExecutedIsBusy, Executes, Executing
<1> QED
  BY <1>2, <1>3, <1>4

\* Whatever Complete overwrites was busy, and is owed no more.
LEMMA CompleteIInv == IInv /\ Complete => IInv'
<1> SUFFICES ASSUME IInv, Complete PROVE IInv'
  OBVIOUS
<1> USE DEF IInv, TypeOK, Complete, NextRow, Goto
<1>1. pc = "finish" /\ pc' = "claim" /\ faults' = faults /\ cur' \in Key
  BY QuietIsTyped
<1>2. /\ status' \in [Key -> Status \cup {"none"}]
      /\ \A k \in Key : status'[k] = IF k = cur THEN verdict ELSE status[k]
  BY DEF Status
<1>3. /\ owed' = owed \ {cur} /\ busy' = busy \ {cur}
  BY <1>1 DEF ExecutedIsBusy
<1>4. TypeOK'
  BY <1>1, <1>2, <1>3 DEF PcSet, Executing
<1>5. OwedIsShown' /\ PendingIsOwed'
  BY <1>2, <1>3 DEF OwedIsShown, PendingIsOwed
<1>6. RefreshingIsExecuted' /\ ExecutedIsBusy'
  BY <1>1, <1>2 DEF RefreshingIsExecuted, ExecutedIsBusy, Executes, Executing
<1> QED
  BY <1>4, <1>5, <1>6

\* A fault leaves the table as it is.
LEMMA FaultIInv == IInv /\ (CompleteFails \/ Restart) => IInv'
<1> SUFFICES ASSUME IInv, CompleteFails \/ Restart PROVE IInv'
  OBVIOUS
<1> USE ConstantsAssumption DEF IInv, TypeOK, CompleteFails, Restart, NextRow, Goto, Fault, rowVars
<1>1. /\ pc' \in {"claim", "idle"} /\ UNCHANGED <<status, after, deadline, owed>>
      /\ busy' \subseteq busy /\ faults' = faults + 1 /\ faults' \in 0..MaxFaults /\ cur' \in Key
  BY QuietIsTyped
<1>2. report' \in [Source -> [key : Key, found : BOOLEAN, on : BOOLEAN]]
  BY QuietIsTyped
<1>3. TypeOK'
  BY <1>1, <1>2 DEF PcSet, Executing
<1>4. OwedIsShown' /\ PendingIsOwed'
  BY <1>1 DEF OwedIsShown, PendingIsOwed
<1>5. RefreshingIsExecuted' /\ ExecutedIsBusy'
  BY <1>1 DEF RefreshingIsExecuted, ExecutedIsBusy, Executes, Executing
<1> QED
  BY <1>3, <1>4, <1>5

LEMMA TickIInv == IInv /\ Tick => IInv'
<1> SUFFICES ASSUME IInv, Tick PROVE IInv'
  OBVIOUS
<1> USE ConstantsAssumption DEF IInv, TypeOK, Tick, scanVars
<1>1. after' \in [Key -> 0..Debounce] /\ deadline' \in [Key -> 0..MaxWait]
  BY DEF Less
<1>2. TypeOK'
  BY <1>1
<1>3. OwedIsShown' /\ PendingIsOwed'
  BY DEF OwedIsShown, PendingIsOwed
<1>4. RefreshingIsExecuted' /\ ExecutedIsBusy'
  BY DEF RefreshingIsExecuted, ExecutedIsBusy, Executes
<1> QED
  BY <1>2, <1>3, <1>4

LEMMA EventIInv ==
  ASSUME NEW s \in Source, IInv,
         Register(s) \/ RegisterFails(s) \/ \E k \in Key : Request(s, k)
  PROVE  IInv'
<1> USE DEF IInv, TypeOK
<1>1. CASE Register(s)
  <2>1. report[s].key \in Key /\ Debounce \in 0..Debounce
    BY ConstantsAssumption
  <2>2. report' \in [Source -> [key : Key, found : BOOLEAN, on : BOOLEAN]]
    BY <1>1, QuietIsTyped DEF Register
  <2>3. Upsert(report[s].key, Debounce) /\ UNCHANGED <<scanVars, starting, faults>>
    BY <1>1 DEF Register
  <2> HIDE DEF IInv
  <2> QED
    BY <2>1, <2>2, <2>3, UpsertIInv DEF IInv, scanVars
<1>2. CASE RegisterFails(s) \/ \E k \in Key : Request(s, k)
  <2>1. report' \in [Source -> [key : Key, found : BOOLEAN, on : BOOLEAN]]
    <3>1. CASE RegisterFails(s)
      BY <3>1, QuietIsTyped DEF RegisterFails
    <3>2. ASSUME NEW k \in Key, Request(s, k)
          PROVE  report' \in [Source -> [key : Key, found : BOOLEAN, on : BOOLEAN]]
      <4>1. [key |-> k, found |-> Exists(k), on |-> TRUE] \in [key : Key, found : BOOLEAN, on : BOOLEAN]
        BY DEF Exists
      <4> QED
        BY <3>2, <4>1 DEF Request
    <3> QED
      BY <1>2, <3>1, <3>2
  <2>2. UNCHANGED <<rowVars, scanVars, starting, faults, history>>
    BY <1>2 DEF RegisterFails, Request
  <2>3. TypeOK'
    BY <2>1, <2>2 DEF rowVars, scanVars, history
  <2>4. OwedIsShown' /\ PendingIsOwed' /\ RefreshingIsExecuted' /\ ExecutedIsBusy'
    BY <2>2 DEF rowVars, scanVars, history, OwedIsShown, PendingIsOwed,
                RefreshingIsExecuted, ExecutedIsBusy, Executes
  <2> QED
    BY <2>3, <2>4
<1> QED
  BY <1>1, <1>2

LEMMA ScanIInv == IInv /\ Scan => IInv'
<1> SUFFICES ASSUME IInv, Scan PROVE IInv'
  OBVIOUS
<1>1. CASE BeginScan
  BY <1>1, GiveUpIInv DEF BeginScan, Goto, IInv, TypeOK
<1>2. CASE ListItems
  <2>1. due' \subseteq Item /\ todo' \subseteq Key /\ pc = "items" /\ pc' = "group"
    BY <1>2 DEF ListItems, Goto, Key
  <2> QED
    BY <1>2, <2>1, ReadIInv DEF ListItems, IInv, TypeOK, PcSet, Executing
<1>3. ASSUME NEW l \in Lib, AbsorbRead(l) PROVE IInv'
  <2>1. l \in Key /\ Exists(l) \in BOOLEAN
    BY DEF Key, Exists
  <2> QED
    BY <1>3, <2>1, ReadIInv DEF AbsorbRead, Goto, IInv, TypeOK, PcSet, Executing
<1>4. CASE AbsorbWrite
  <2>1. 0 \in 0..Debounce /\ cur \in Key
    BY ConstantsAssumption DEF IInv, TypeOK
  <2> QED
    BY <1>4, <2>1, UpsertIInv DEF AbsorbWrite, Goto, IInv, TypeOK, Executing
<1>5. CASE AbsorbFails
  BY <1>5, ReadIInv DEF AbsorbFails, Goto, IInv, TypeOK, PcSet, Executing
<1>6. CASE AbsorbItems
  BY <1>6, AbsorbItemsIInv
<1>7. CASE List
  BY <1>7, ReadIInv, QuietIsTyped DEF List, Goto, IInv, TypeOK, PcSet, Executing
<1>8. CASE EndScan
  BY <1>8, ReadIInv DEF EndScan, Goto, IInv, TypeOK, PcSet, Executing
<1>9. CASE BeginCall \/ CallSucceeds \/ CallFails \/ Complete
  BY <1>9, BeginCallIInv, CallEndsIInv, CompleteIInv
<1>10. CASE \E k \in Key : Claim(k)
  BY <1>10, ClaimIInv
<1> QED
  BY <1>1, <1>2, <1>3, <1>4, <1>5, <1>6, <1>7, <1>8, <1>9, <1>10 DEF Scan

LEMMA StepIInv == IInv /\ [Next]_vars => IInv'
<1> SUFFICES ASSUME IInv, [Next]_vars PROVE IInv'
  OBVIOUS
<1>1. CASE Tick
  BY <1>1, TickIInv
<1>2. CASE Scan
  BY <1>2, ScanIInv
<1>3. CASE StartCancels
  BY <1>3, GiveUpIInv DEF StartCancels, scanVars, IInv, TypeOK
<1>4. CASE CompleteFails \/ Restart
  BY <1>4, FaultIInv
<1>5. CASE \E s \in Source : Register(s) \/ RegisterFails(s) \/ \E k \in Key : Request(s, k)
  BY <1>5, EventIInv
<1>6. CASE UNCHANGED vars
  BY <1>6 DEF vars, rowVars, scanVars, history, IInv, TypeOK, OwedIsShown, PendingIsOwed,
              RefreshingIsExecuted, ExecutedIsBusy, Executes
<1> QED
  BY <1>1, <1>2, <1>3, <1>4, <1>5, <1>6 DEF Next

THEOREM Inductive == Spec => []IInv
<1> QED
  BY InitIInv, StepIInv, PTL DEF Spec

-----------------------------------------------------------------------------
\* The rows, the scanner's lists and the windows stay in their ranges.
THEOREM TypeCorrect == Spec => []TypeOK
<1>1. IInv => TypeOK
  BY DEF IInv
<1> QED
  BY <1>1, Inductive, PTL

\* An event that no refresh has answered shows in the table, through every crash
\* and lost result, for any number of reporters.
THEOREM OwedShown == Spec => []OwedIsShown
<1>1. IInv => OwedIsShown
  BY DEF IInv
<1> QED
  BY <1>1, Inductive, PTL

\* Without a fault no row is left `refreshing' behind.
THEOREM RefreshingExecuted == Spec => []RefreshingIsExecuted
<1>1. IInv => RefreshingIsExecuted
  BY DEF IInv
<1> QED
  BY <1>1, Inductive, PTL

\* Only Claim turns a row to `refreshing', and it takes pending rows alone.
LEMMA ClaimedIsOwed ==
  ASSUME IInv, [Next]_vars, NEW k \in Key,
         status[k] # "refreshing", status'[k] = "refreshing"
  PROVE  k \in owed
<1>1. status \in [Key -> Status \cup {"none"}] /\ (status[k] = "pending" => k \in owed)
  BY DEF IInv, TypeOK, PendingIsOwed
<1>2. CASE Scan
  <2>1. ASSUME NEW j \in Key, Claim(j) PROVE k \in owed
    BY <1>1, <2>1 DEF Claim
  <2>2. CASE AbsorbWrite
    BY <1>1, <2>2 DEF AbsorbWrite, Upsert
  <2>3. CASE Complete
    BY <1>1, <2>3 DEF Complete, NextRow, IInv, TypeOK
  <2>4. CASE BeginScan \/ AbsorbItems
    BY <1>1, <2>4 DEF BeginScan, GiveUp, AbsorbItems
  <2> QED
    BY <1>2, <2>1, <2>2, <2>3, <2>4 DEF Scan, rowVars, ListItems, AbsorbRead, AbsorbFails,
       List, EndScan, BeginCall, CallSucceeds, CallFails
<1>3. CASE StartCancels
  BY <1>1, <1>3 DEF StartCancels, GiveUp
<1>4. CASE \E s \in Source : Register(s)
  BY <1>1, <1>4 DEF Register, Upsert
<1>5. CASE Tick \/ CompleteFails \/ Restart \/ (\E s \in Source : RegisterFails(s) \/ \E j \in Key : Request(s, j))
  BY <1>5 DEF Tick, CompleteFails, Restart, RegisterFails, Request, rowVars
<1> QED
  BY <1>2, <1>3, <1>4, <1>5 DEF Next, vars, rowVars

\* A task is never claimed twice for one event.
THEOREM OneClaim == Spec => OneClaimPerEvent
<1>1. IInv /\ [Next]_vars =>
        [\A k \in Key : status[k] # "refreshing" /\ status'[k] = "refreshing" => k \in owed]_vars
  BY ClaimedIsOwed
<1> QED
  BY <1>1, Inductive, PTL DEF Spec, OneClaimPerEvent
=============================================================================
