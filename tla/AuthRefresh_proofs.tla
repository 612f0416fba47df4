------------------------- MODULE AuthRefresh_proofs -------------------------
(* Proofs about AuthRefresh, for any number of callers, instances and tokens   *)
(* and any lengths of the pauses: types, the lock, the token that is kept, the *)
(* two promises about exchanges, and the tasks that follow the row.            *)
(*                                                                             *)
(* The invariant is one predicate on the shared state and one on each caller.  *)
(* Its heart is that a copy of the row which somebody is about to write back   *)
(* is the row, as long as no changed form overlaps a refresh: then what a      *)
(* success has left in the row outlasts its window, and nobody exchanges.      *)
EXTENDS AuthRefresh, TLAPS

\* Where a caller needs the driver instance it has taken.
InstanceAt(l, j) ==
  \/ l \in {"api", "again", "exchange", "persist", "store"}
  \/ l \in Holding \cup {"lock", "report"} /\ j.kind = "inline"
  => j.inst # NoInstance

EditorAt(l, j) == l \in {"ping", "account", "fields"} /\ j.changed
Editor(c) == EditorAt(pc[c], job[c])

Minting(l) == l \in {"persist", "store"}

\* A changed form is alone, without a refresh, and up to date.
EditOK(c) ==
  apart /\ Editor(c) =>
    /\ lock = Free /\ job[c].row = row
    /\ ~spoilt => job[c].token \in valid
    /\ \A d \in Caller : Editor(d) => d = c

CallerOK(c) ==
  /\ lock = c <=> pc[c] \in Holding
  /\ InstanceAt(pc[c], job[c])
  /\ apart /\ pc[c] \in {"store", "write"} => job[c].row = row
  /\ apart /\ pc[c] = "exchange" => since = 0 /\ ~Blocked(row)
  /\ ~spoilt /\ Minting(pc[c]) => token[job[c].inst] \in valid
  /\ EditOK(c)

\* The row remembers a success for as long as the window lasts.
SinceCovered ==
  apart => since <= row.recent /\ (row.status # "active" => since <= row.retry)

IInv == TypeOK /\ TokenKept /\ SinceCovered /\ \A c \in Caller : CallerOK(c)

-----------------------------------------------------------------------------
(* What the helpers return.                                                    *)

LEMMA NoJobFacts ==
  /\ NoJob \in Job /\ FirstRow \in Row
  /\ NoJob.kind = "none" /\ NoJob.inst = NoInstance /\ ~NoJob.changed /\ NoJob.row = FirstRow
<1>1. FirstRow \in Row
  BY ConstantsAssumption DEF FirstRow, Row, Token, LongestRetry, Larger
<1> QED
  BY <1>1, ConstantsAssumption DEF NoJob, Job, Kind, How, NoInstance, Token

LEMMA OutcomeFacts ==
  ASSUME NEW j \in Job
  PROVE  /\ Outcome(j) \in Row
         /\ Outcome(j).token = j.row.token
         /\ j.how = "success" => Outcome(j).status = "active" /\ Outcome(j).recent = Window
         /\ j.how = "recover" => Outcome(j).status = "active" /\ Outcome(j).recent = j.row.recent
         /\ j.how \notin {"success", "recover"} =>
              Outcome(j).recent = j.row.recent /\ Outcome(j).retry \in {Cooldown, FailedRetry}
<1> USE ConstantsAssumption DEF Row
<1>1. j.row \in Row /\ j.how \in How
  BY DEF Job
<1>2. Window \in 0..Window /\ 0 \in 0..LongestRetry /\ 0 \in 0..Threshold
      /\ Cooldown \in 0..LongestRetry /\ FailedRetry \in 0..LongestRetry
  BY DEF LongestRetry, Larger
<1>3. CASE j.how \in {"success", "recover"}
  BY <1>1, <1>2, <1>3 DEF Outcome, MarkSuccess
<1>4. CASE j.how \notin {"success", "recover"}
  <2> DEFINE n == IF j.how = "auth" /\ j.row.attempts < Threshold THEN j.row.attempts + 1 ELSE j.row.attempts
             s == IF j.how = "fatal" THEN "expired"
                  ELSE IF j.how = "auth" /\ n = Threshold THEN "failed"
                  ELSE IF Bad(j.row) THEN j.row.status ELSE "cooldown"
             t == IF s = "cooldown" THEN Cooldown ELSE FailedRetry
  <2>1. n \in 0..Threshold /\ s \in {"active", "cooldown", "failed", "expired"}
        /\ t \in 0..LongestRetry /\ t \in {Cooldown, FailedRetry}
    BY <1>1, <1>2
  <2>2. Outcome(j) = [j.row EXCEPT !.status = s, !.attempts = n, !.retry = t]
    BY <1>4 DEF Outcome, HandleFailure
  <2> HIDE DEF n, s, t
  <2> QED
    BY <1>1, <1>4, <2>1, <2>2
<1> QED
  BY <1>3, <1>4

LEMMA OlderFacts ==
  ASSUME NEW r \in Row
  PROVE  /\ Older(r) \in Row /\ Older(r).token = r.token /\ Older(r).status = r.status
         /\ Older(r).retry = Less(r.retry) /\ Older(r).recent = Less(r.recent)
<1>1. Less(r.retry) \in 0..LongestRetry /\ Less(r.recent) \in 0..Window
  BY ConstantsAssumption DEF Row, Less, LongestRetry, Larger
<1>2. Older(r) = [r EXCEPT !.retry = Less(r.retry), !.recent = Less(r.recent)]
  BY DEF Older
<1> DEFINE x == Less(r.retry)
           y == Less(r.recent)
<1>3. x \in 0..LongestRetry /\ y \in 0..Window /\ Older(r) = [r EXCEPT !.retry = x, !.recent = y]
  BY <1>1, <1>2
<1> HIDE DEF x, y
<1>4. /\ Older(r) \in Row /\ Older(r).token = r.token /\ Older(r).status = r.status
      /\ Older(r).retry = x /\ Older(r).recent = y
  BY <1>3 DEF Row
<1> QED
  BY <1>4 DEF x, y

\* The events of an outcome are at most one.
LEMMA EventsFacts == ASSUME NEW j PROVE EventsOf(j) \in Seq({"failed", "recovered"})
<1>1. \/ EventsOf(j) = <<>>
      \/ EventsOf(j) = <<"recovered">>
      \/ EventsOf(j) = <<"failed">>
  BY DEF EventsOf
<1>2. \A S : <<>> \in Seq(S) /\ \A x \in S : <<x>> \in Seq(S)
  OBVIOUS
<1>3. "failed" \in {"failed", "recovered"} /\ "recovered" \in {"failed", "recovered"}
  OBVIOUS
<1> HIDE DEF EventsOf
<1> QED
  BY <1>1, <1>2, <1>3, Zenon

-----------------------------------------------------------------------------
(* A step of one caller that leaves the row, the tokens and the lock alone.    *)

LEMMA LocalStep ==
  ASSUME IInv, NEW c \in Caller, NEW l \in PcSet, NEW j \in Job,
         pc' = [pc EXCEPT ![c] = l], job' = [job EXCEPT ![c] = j],
         UNCHANGED <<row, driveVars, managerVars, lock, since, apart, spoilt>>,
         enabled' \in BOOLEAN, managed' \in BOOLEAN, switched' \in BOOLEAN,
         bus' \in Seq({"failed", "recovered"}), tasks' \in {"running", "disabled", "failed"},
         edits' \in 0..MaxEdits,
         l \in Holding <=> pc[c] \in Holding,
         InstanceAt(l, j),
         EditorAt(l, j) => Editor(c) /\ j.row = job[c].row /\ j.token = job[c].token,
         apart /\ l \in {"store", "write"} => j.row = row,
         l # "exchange",
         Minting(l) <=> Minting(pc[c]),
         Minting(l) => j.inst = job[c].inst
  PROVE  IInv'
<1> USE DEF IInv, driveVars, managerVars
<1>1. TypeOK'
  BY DEF TypeOK
<1>2. /\ pc'[c] = l /\ job'[c] = j
      /\ \A d \in Caller : d # c => pc'[d] = pc[d] /\ job'[d] = job[d]
  BY DEF TypeOK
<1>3. SinceCovered'
  BY DEF SinceCovered
<1>4. TokenKept'
  BY <1>2 DEF TokenKept, Minting
<1>5. \A d \in Caller : Editor(d)' => Editor(d)
  BY <1>2 DEF Editor
<1>6. ASSUME NEW d \in Caller, d # c PROVE CallerOK(d)'
  BY <1>2, <1>5, <1>6 DEF CallerOK, EditOK, Editor, InstanceAt, EditorAt, Minting
<1>7. CallerOK(c)'
  <2>1. EditOK(c)'
    BY <1>2, <1>5 DEF CallerOK, EditOK, Editor
  <2> QED
    BY <1>2, <2>1 DEF CallerOK, InstanceAt, Minting
<1> QED
  BY <1>1, <1>3, <1>4, <1>6, <1>7

\* Where an attempt ends: at rest, or at the next thing its caller has to do.
Rest == {"idle", "get", "again", "lock", "report", "lifecycle"}

Lands(c) ==
  \E l \in Rest, j \in Job :
    /\ pc' = [pc EXCEPT ![c] = l] /\ job' = [job EXCEPT ![c] = j]
    /\ InstanceAt(l, j)

LEMMA LandsIInv ==
  ASSUME IInv, NEW c \in Caller, Lands(c), pc[c] \notin Holding,
         UNCHANGED <<row, driveVars, managerVars, lock, since, apart, spoilt>>,
         enabled' \in BOOLEAN, managed' \in BOOLEAN, switched' \in BOOLEAN,
         bus' \in Seq({"failed", "recovered"}), tasks' \in {"running", "disabled", "failed"},
         edits' \in 0..MaxEdits
  PROVE  IInv'
<1>1. PICK l \in Rest, j \in Job :
        pc' = [pc EXCEPT ![c] = l] /\ job' = [job EXCEPT ![c] = j] /\ InstanceAt(l, j)
  BY DEF Lands
<1>2. /\ l \in PcSet /\ l \notin Holding /\ ~EditorAt(l, j)
      /\ l # "exchange" /\ l \notin {"store", "write"} /\ ~Minting(l) /\ ~Minting(pc[c])
  BY DEF Rest, PcSet, Holding, EditorAt, Minting
<1> QED
  BY <1>1, <1>2, LocalStep

LEMMA EndLands == ASSUME NEW c \in Caller, End(c) PROVE Lands(c)
  BY NoJobFacts DEF End, Goto, Set, Lands, Rest, InstanceAt, Holding

LEMMA AuthErrorLands == ASSUME TypeOK, NEW c \in Caller, AuthError(c) PROVE Lands(c)
<1>1. CASE job[c].second
  <2> DEFINE j == [NoJob EXCEPT !.second = TRUE]
  <2>1. /\ j \in Job /\ j.kind = "none"
        /\ pc' = [pc EXCEPT ![c] = "report"] /\ job' = [job EXCEPT ![c] = j]
    BY <1>1, NoJobFacts DEF AuthError, Goto, Set, Job
  <2> QED
    BY <2>1, NoJobFacts DEF Lands, Rest, InstanceAt, Holding, Job
<1>2. CASE ~job[c].second
  <2> DEFINE j == [NoJob EXCEPT !.kind = "passive"]
  <2>1. /\ j \in Job /\ j.kind = "passive"
        /\ pc' = [pc EXCEPT ![c] = "lock"] /\ job' = [job EXCEPT ![c] = j]
    BY <1>2, NoJobFacts DEF AuthError, Goto, Set, Job, Kind
  <2> QED
    BY <2>1 DEF Lands, Rest, InstanceAt, Holding
<1> QED
  BY <1>1, <1>2

LEMMA FailedLands ==
  ASSUME TypeOK, NEW c \in Caller, NEW how, Failed(c, how) PROVE Lands(c)
  BY EndLands, AuthErrorLands DEF Failed

LEMMA EditedFacts ==
  ASSUME NEW j \in Job PROVE Edited(j) \in Job /\ Edited(j).kind = "none" /\ Edited(j).inst = NoInstance
  BY NoJobFacts DEF Edited, Job

LEMMA SucceededLands ==
  ASSUME TypeOK, NEW c \in Caller, Succeeded(c, job[c].kind),
         job[c].kind = "inline" => job[c].inst # NoInstance
  PROVE  Lands(c)
<1> DEFINE k == job[c].kind
<1>1. job[c] \in Job /\ k \in Kind
  BY DEF TypeOK, Job
<1>2. CASE k = "gate"
  BY <1>2, NoJobFacts DEF Succeeded, Goto, Set, Lands, Rest, InstanceAt, Holding
<1>3. CASE k = "inline"
  <2> DEFINE j == [NoJob EXCEPT !.second = job[c].second, !.inst = job[c].inst]
  <2>1. /\ j \in Job /\ j.inst = job[c].inst
        /\ pc' = [pc EXCEPT ![c] = "again"] /\ job' = [job EXCEPT ![c] = j]
    BY <1>1, <1>3, NoJobFacts DEF Succeeded, Goto, Set, Job
  <2> QED
    BY <1>3, <2>1 DEF Lands, Rest, InstanceAt, Holding
<1>4. CASE k = "passive"
  <2> DEFINE j == [NoJob EXCEPT !.second = TRUE]
  <2>1. j \in Job /\ pc' = [pc EXCEPT ![c] = "get"] /\ job' = [job EXCEPT ![c] = j]
    BY <1>4, NoJobFacts DEF Succeeded, Goto, Set, Job
  <2> QED
    BY <2>1 DEF Lands, Rest, InstanceAt, Holding
<1>5. CASE k = "recover"
  <2>1. /\ pc' = [pc EXCEPT ![c] = "lifecycle"]
        /\ job' = [job EXCEPT ![c] = Edited(job[c])] /\ Edited(job[c]) \in Job
    BY <1>1, <1>5, EditedFacts DEF Succeeded, Goto, Set
  <2> QED
    BY <2>1 DEF Lands, Rest, InstanceAt, Holding
<1>6. CASE k \notin {"gate", "inline", "passive", "recover"}
  <2>1. End(c)
    BY <1>6 DEF Succeeded
  <2> QED
    BY <2>1, EndLands
<1> QED
  BY <1>2, <1>3, <1>4, <1>5, <1>6

-----------------------------------------------------------------------------
(* The steps of a request, of an attempt and of a save that land.              *)

LEMMA LandingIInv ==
  ASSUME IInv, NEW c \in Caller,
         \/ Request(c) \/ GetRefused(c) \/ ApiAnswers(c) \/ ApiUnauthorized(c)
         \/ AgainUnauthorized(c) \/ Active(c) \/ Reuse(c) \/ Refuse(c)
  PROVE  IInv'
<1>1. TypeOK /\ job[c] \in Job /\ InstanceAt(pc[c], job[c])
  BY DEF IInv, TypeOK, CallerOK
<1>2. pc[c] \in {"idle", "get", "api", "again", "lock"} /\ pc[c] \notin Holding
  BY DEF Request, GetRefused, ApiAnswers, ApiUnauthorized, AgainUnauthorized, Active, Reuse,
         Refuse, Holding
<1>3. UNCHANGED <<accountVars, driveVars, managerVars, lock, taskVars, edits, history>>
  BY DEF Request, GetRefused, ApiAnswers, ApiUnauthorized, AgainUnauthorized, Active, Reuse, Refuse
<1>4. Lands(c)
  <2>1. CASE Request(c)
    <3> DEFINE j == [NoJob EXCEPT !.kind = "gate"]
    <3>1. j \in Job /\ j.kind = "gate"
      BY NoJobFacts DEF Job, Kind
    <3>2. CASE row.status = "active"
      <4>1. pc' = [pc EXCEPT ![c] = "get"] /\ job' = [job EXCEPT ![c] = job[c]]
        BY <2>1, <3>2, <1>1 DEF Request, Goto, TypeOK
      <4> QED
        BY <4>1, <1>1 DEF Lands, Rest, InstanceAt, Holding
    <3>3. CASE row.status # "active"
      <4>1. pc' = [pc EXCEPT ![c] = "lock"] /\ job' = [job EXCEPT ![c] = j]
        BY <2>1, <3>3 DEF Request, Goto, Set
      <4> QED
        BY <4>1, <3>1 DEF Lands, Rest, InstanceAt, Holding
    <3> QED
      BY <3>2, <3>3
  <2>2. CASE ApiUnauthorized(c)
    <3> DEFINE j == [job[c] EXCEPT !.kind = "inline"]
    <3>1. j \in Job /\ j.inst = job[c].inst /\ j.inst # NoInstance
      BY <1>1, <2>2 DEF Job, Kind, InstanceAt, ApiUnauthorized
    <3>2. pc' = [pc EXCEPT ![c] = "lock"] /\ job' = [job EXCEPT ![c] = j]
      BY <2>2 DEF ApiUnauthorized, Goto, Set
    <3> QED
      BY <3>1, <3>2 DEF Lands, Rest, InstanceAt, Holding
  <2>3. CASE Active(c)
    <3> DEFINE j == [NoJob EXCEPT !.kind = "active"]
    <3>1. j \in Job /\ j.kind = "active"
      BY NoJobFacts DEF Job, Kind
    <3>2. pc' = [pc EXCEPT ![c] = "lock"] /\ job' = [job EXCEPT ![c] = j]
      BY <2>3 DEF Active, Goto, Set
    <3> QED
      BY <3>1, <3>2 DEF Lands, Rest, InstanceAt, Holding
  <2>4. CASE GetRefused(c) \/ ApiAnswers(c) \/ AgainUnauthorized(c)
    BY <2>4, <1>1, EndLands, AuthErrorLands DEF GetRefused, ApiAnswers, AgainUnauthorized
  <2>5. CASE Reuse(c)
    BY <2>5, <1>1, SucceededLands DEF Reuse, InstanceAt
  <2>6. CASE Refuse(c)
    BY <2>6, <1>1, FailedLands DEF Refuse
  <2> QED
    BY <2>1, <2>2, <2>3, <2>4, <2>5, <2>6
<1> QED
  BY <1>1, <1>2, <1>3, <1>4, LandsIInv DEF accountVars, taskVars, history, TypeOK

\* Steps of a refresh that read, or fail, with the lock: Holding before and after.
LEMMA HoldingIInv ==
  ASSUME IInv, NEW c \in Caller, ExchangeFails(c) \/ Persist(c) \/ Finish(c)
  PROVE  IInv'
<1>1. TypeOK /\ job[c] \in Job /\ row \in Row /\ enabled \in BOOLEAN /\ InstanceAt(pc[c], job[c])
  BY DEF IInv, TypeOK, CallerOK
<1>2. UNCHANGED <<accountVars, driveVars, managerVars, lock, taskVars, edits, history>>
  BY DEF ExchangeFails, Persist, Finish
<1>3. CASE ExchangeFails(c)
  <2>1. PICK how \in {"fatal", "auth", "other"} : job' = [job EXCEPT ![c] = [job[c] EXCEPT !.how = how]]
    BY <1>3 DEF ExchangeFails, Set
  <2> DEFINE j == [job[c] EXCEPT !.how = how]
  <2>2. /\ j \in Job /\ j.inst = job[c].inst /\ j.kind = job[c].kind
        /\ pc' = [pc EXCEPT ![c] = "finish"] /\ pc[c] = "exchange"
    BY <1>1, <1>3 DEF ExchangeFails, Goto, Job, How
  <2>3. InstanceAt("finish", j)
    BY <1>1, <2>2 DEF InstanceAt
  <2> QED
    BY <1>2, <2>1, <2>2, <2>3, LocalStep
       DEF accountVars, taskVars, history, IInv, TypeOK, PcSet, Holding, EditorAt, Minting
<1>4. CASE Persist(c)
  <2> DEFINE j == [job[c] EXCEPT !.row = row]
  <2>1. /\ j \in Job /\ j.inst = job[c].inst /\ j.row = row /\ job' = [job EXCEPT ![c] = j]
        /\ pc' = [pc EXCEPT ![c] = "store"] /\ pc[c] = "persist"
    BY <1>1, <1>4 DEF Persist, Goto, Set, Job
  <2>2. InstanceAt("store", j)
    BY <1>1, <2>1 DEF InstanceAt
  <2> QED
    BY <1>2, <2>1, <2>2, LocalStep
       DEF accountVars, taskVars, history, IInv, TypeOK, PcSet, Holding, EditorAt, Minting
<1>5. CASE Finish(c)
  <2> DEFINE j == [job[c] EXCEPT !.row = row, !.told = enabled]
  <2>1. /\ j \in Job /\ j.inst = job[c].inst /\ j.kind = job[c].kind /\ j.row = row
        /\ job' = [job EXCEPT ![c] = j]
        /\ pc' = [pc EXCEPT ![c] = "write"] /\ pc[c] = "finish"
    BY <1>1, <1>5 DEF Finish, Goto, Set, Job
  <2>2. InstanceAt("write", j)
    BY <1>1, <2>1 DEF InstanceAt, Holding
  <2> QED
    BY <1>2, <2>1, <2>2, LocalStep
       DEF accountVars, taskVars, history, IInv, TypeOK, PcSet, Holding, EditorAt, Minting
<1> QED
  BY <1>3, <1>4, <1>5

LEMMA SavingIInv ==
  ASSUME IInv, NEW c \in Caller, OpenForm(c) \/ SaveAccount(c) \/ Toggle(c) \/ Lifecycle(c)
  PROVE  IInv'
<1> USE DEF accountVars, taskVars, history, driveVars, managerVars
<1>1. /\ TypeOK /\ job[c] \in Job /\ row.token \in Token /\ enabled \in BOOLEAN /\ CallerOK(c)
      /\ job[c].want \in BOOLEAN /\ job[c].was \in BOOLEAN /\ job[c].changed \in BOOLEAN
  BY DEF IInv, TypeOK, Job, Row
<1>2. CASE OpenForm(c)
  <2> DEFINE j == [NoJob EXCEPT !.token = row.token]
  <2>1. /\ j \in Job /\ ~j.changed /\ job' = [job EXCEPT ![c] = j]
        /\ pc' = [pc EXCEPT ![c] = "form"] /\ pc[c] = "idle"
    BY <1>1, <1>2, NoJobFacts DEF OpenForm, Goto, Set, Job
  <2> QED
    BY <1>2, <2>1, LocalStep
       DEF OpenForm, IInv, TypeOK, PcSet, Holding, EditorAt, Minting, InstanceAt
<1>3. CASE Toggle(c)
  <2> DEFINE j == [NoJob EXCEPT !.was = enabled, !.want = ~enabled]
  <2>1. /\ j \in Job /\ ~j.changed /\ job' = [job EXCEPT ![c] = j]
        /\ pc' = [pc EXCEPT ![c] = "toggle"] /\ pc[c] = "idle"
    BY <1>1, <1>3, NoJobFacts DEF Toggle, Goto, Set, Job
  <2>2. edits' \in 0..MaxEdits
    BY <1>1, <1>3, ConstantsAssumption DEF Toggle, TypeOK
  <2> QED
    BY <1>3, <2>1, <2>2, LocalStep
       DEF Toggle, IInv, TypeOK, PcSet, Holding, EditorAt, Minting, InstanceAt
<1>4. CASE SaveAccount(c)
  <2>1. /\ job' = [job EXCEPT ![c] = job[c]]
        /\ pc' = [pc EXCEPT ![c] = "fields"] /\ pc[c] = "account"
    BY <1>1, <1>4 DEF SaveAccount, Goto, TypeOK
  <2>2. enabled' \in BOOLEAN /\ switched' \in BOOLEAN
    BY <1>1, <1>4 DEF SaveAccount, TypeOK
  <2> QED
    BY <1>1, <1>4, <2>1, <2>2, LocalStep
       DEF SaveAccount, IInv, TypeOK, PcSet, Holding, EditorAt, Editor, Minting, InstanceAt
<1>5. CASE Lifecycle(c)
  <2>1. Lands(c) /\ pc[c] = "lifecycle"
    BY <1>5, EndLands DEF Lifecycle
  <2>2. tasks' \in {"running", "disabled", "failed"}
    BY <1>1, <1>5 DEF Lifecycle, TypeOK
  <2>3. managed' \in BOOLEAN
    BY <1>1, <1>5 DEF Lifecycle, TypeOK
  <2> QED
    BY <1>1, <1>5, <2>1, <2>2, <2>3, LandsIInv DEF Lifecycle, TypeOK, Holding
<1> QED
  BY <1>2, <1>3, <1>4, <1>5

-----------------------------------------------------------------------------
(* The instance of the Manager.                                                *)

LEMMA TakeFacts ==
  ASSUME TypeOK, NEW c \in Caller, NEW then, NEW kind \in Kind, Take(c, then, kind)
  PROVE  \E i \in Instance :
           /\ job' = [job EXCEPT ![c] = [job[c] EXCEPT !.inst = i, !.kind = kind]]
           /\ [job[c] EXCEPT !.inst = i, !.kind = kind] \in Job
           /\ pc' = [pc EXCEPT ![c] = then]
           /\ i # NoInstance
           /\ cached' \in Instance \cup {NoInstance} /\ token' \in [Instance -> Token]
           /\ cached # NoInstance => UNCHANGED managerVars
           /\ \A d \in Caller : job[d].inst \in Instance => token'[job[d].inst] = token[job[d].inst]
<1>1. /\ job[c] \in Job /\ row.token \in Token /\ token \in [Instance -> Token]
      /\ cached \in Instance \cup {NoInstance} /\ \A i \in Instance : i # NoInstance
  BY DEF TypeOK, Row, Instance, NoInstance
<1>2. PICK i \in Instance :
        /\ \/ i = cached /\ UNCHANGED managerVars
           \/ /\ cached = NoInstance /\ ~InUse(i)
              /\ cached' = i /\ token' = [token EXCEPT ![i] = row.token]
        /\ Set(c, [job[c] EXCEPT !.inst = i, !.kind = kind]) /\ Goto(c, then)
  BY DEF Take
<1>3. [job[c] EXCEPT !.inst = i, !.kind = kind] \in Job
  BY <1>1 DEF Job
<1>4. /\ cached' \in Instance \cup {NoInstance} /\ token' \in [Instance -> Token]
      /\ cached # NoInstance => UNCHANGED managerVars
      /\ \A d \in Caller : job[d].inst \in Instance => token'[job[d].inst] = token[job[d].inst]
  BY <1>1, <1>2 DEF managerVars, InUse
<1> QED
  BY <1>1, <1>2, <1>3, <1>4 DEF Set, Goto

LEMMA GetDriverIInv == ASSUME IInv, NEW c \in Caller, GetDriver(c) PROVE IInv'
<1> USE DEF accountVars, taskVars, history, driveVars
<1>1. /\ TypeOK /\ pc[c] = "get" /\ "none" \in Kind /\ CallerOK(c)
      /\ Take(c, "api", "none") /\ UNCHANGED <<accountVars, driveVars, lock, taskVars, edits, history>>
  BY DEF IInv, GetDriver, Kind
<1>2. PICK i \in Instance :
           /\ job' = [job EXCEPT ![c] = [job[c] EXCEPT !.inst = i, !.kind = "none"]]
           /\ [job[c] EXCEPT !.inst = i, !.kind = "none"] \in Job
           /\ pc' = [pc EXCEPT ![c] = "api"]
           /\ i # NoInstance
           /\ cached' \in Instance \cup {NoInstance} /\ token' \in [Instance -> Token]
           /\ cached # NoInstance => UNCHANGED managerVars
           /\ \A d \in Caller : job[d].inst \in Instance => token'[job[d].inst] = token[job[d].inst]
  BY <1>1, TakeFacts, ZenonT(60)
<1> DEFINE j == [job[c] EXCEPT !.inst = i, !.kind = "none"]
<1>3. /\ pc'[c] = "api" /\ job'[c] = j /\ j.inst = i
      /\ \A d \in Caller : d # c => pc'[d] = pc[d] /\ job'[d] = job[d]
      /\ \A d \in Caller : job[d] \in Job
  BY <1>1, <1>2 DEF TypeOK, Job
<1> HIDE DEF j
<1>4. TypeOK'
  BY <1>1, <1>2 DEF TypeOK, PcSet
<1>5. SinceCovered'
  BY <1>1 DEF IInv, SinceCovered
<1>6. \A d \in Caller : job[d].inst # NoInstance => token'[job[d].inst] = token[job[d].inst]
  BY <1>2, <1>3 DEF Job
<1>7. \A d \in Caller : Minting(pc[d]) => job[d].inst # NoInstance /\ d # c
  BY <1>1 DEF IInv, CallerOK, InstanceAt, Minting
<1>8. TokenKept'
  BY <1>1, <1>2, <1>3, <1>6, <1>7 DEF IInv, TokenKept, Minting, managerVars
<1>9. \A d \in Caller : Editor(d)' => Editor(d) /\ d # c
  BY <1>3 DEF Editor, EditorAt
<1>10. ASSUME NEW d \in Caller, d # c PROVE CallerOK(d)'
  BY <1>1, <1>3, <1>6, <1>7, <1>9, <1>10 DEF IInv, CallerOK, EditOK, InstanceAt
<1>11. CallerOK(c)'
  BY <1>1, <1>2, <1>3, <1>9 DEF IInv, CallerOK, EditOK, InstanceAt, Holding, Minting
<1> QED
  BY <1>4, <1>5, <1>8, <1>10, <1>11 DEF IInv

-----------------------------------------------------------------------------
(* Taking the lock.  An attempt that finds a changed form under way gives up   *)
(* `apart'; otherwise no form is left to write the row behind its back.        *)

LEMMA LockTaken ==
  ASSUME IInv, NEW c \in Caller, NEW l \in Holding, NEW j \in Job,
         lock = Free, lock' = c, pc[c] \notin Holding,
         apart' = (apart /\ ~Editing),
         pc' = [pc EXCEPT ![c] = l], job' = [job EXCEPT ![c] = j],
         InstanceAt(l, j), ~Minting(l),
         apart /\ l = "write" => j.row = row,
         apart /\ l = "exchange" => since = 0 /\ ~Blocked(row),
         cached' \in Instance \cup {NoInstance}, token' \in [Instance -> Token],
         cached # NoInstance => UNCHANGED managerVars,
         \A d \in Caller : job[d].inst \in Instance => token'[job[d].inst] = token[job[d].inst],
         UNCHANGED <<accountVars, driveVars, taskVars, edits, since, switched, spoilt>>
  PROVE  IInv'
<1> USE DEF accountVars, taskVars, driveVars
<1>1. /\ TypeOK /\ pc'[c] = l /\ job'[c] = j /\ c # Free
      /\ \A d \in Caller : d # c => pc'[d] = pc[d] /\ job'[d] = job[d]
      /\ \A d \in Caller : job[d] \in Job
  BY ConstantsAssumption DEF IInv, TypeOK
<1>2. apart' \in BOOLEAN /\ (apart' => apart)
  BY <1>1 DEF TypeOK
<1>3. \A d \in Caller : Editor(d)' => Editor(d) /\ d # c
  BY <1>1 DEF Editor, EditorAt, Holding
<1>4. apart' => \A d \in Caller : ~Editor(d)
  BY DEF Editing, Editor, EditorAt
<1>5. TypeOK'
  BY <1>1, <1>2 DEF TypeOK, PcSet
<1>6. SinceCovered'
  BY <1>2 DEF IInv, SinceCovered
<1>7. \A d \in Caller : job[d].inst # NoInstance => token'[job[d].inst] = token[job[d].inst]
  BY <1>1 DEF Job
<1>8. \A d \in Caller : Minting(pc[d]) => job[d].inst # NoInstance /\ d # c
  BY <1>1 DEF IInv, CallerOK, InstanceAt, Minting, Holding
<1>9. TokenKept'
  BY <1>1, <1>2, <1>7, <1>8 DEF IInv, TokenKept, Minting, managerVars
<1>10. ASSUME NEW d \in Caller, d # c PROVE CallerOK(d)'
  <2>1. EditOK(d)'
    BY <1>2, <1>3, <1>4 DEF EditOK
  <2>2. pc[d] \notin Holding /\ lock' # d /\ CallerOK(d)
    BY <1>1, <1>10, ConstantsAssumption DEF IInv, CallerOK
  <2>3. ~Minting(pc[d]) /\ pc[d] \notin {"store", "write", "exchange"}
    BY <2>2 DEF Holding, Minting
  <2> QED
    BY <1>1, <1>10, <2>1, <2>2, <2>3 DEF CallerOK, InstanceAt
<1>11. CallerOK(c)'
  <2>1. EditOK(c)'
    BY <1>3 DEF EditOK
  <2>2. l # "store"
    BY DEF Minting
  <2> QED
    BY <1>1, <1>2, <2>1, <2>2 DEF CallerOK, Blocked
<1> QED
  BY <1>5, <1>6, <1>9, <1>10, <1>11 DEF IInv

LEMMA LockIInv == ASSUME IInv, NEW c \in Caller, Lock(c) PROVE IInv'
<1>1. /\ TypeOK /\ pc[c] = "lock" /\ lock = Free /\ ~Blocked(row) /\ ~Recent(row) /\ lock' = c
      /\ apart' = (apart /\ ~Editing) /\ job[c] \in Job /\ CallerOK(c)
      /\ UNCHANGED <<accountVars, driveVars, taskVars, edits, since, switched, spoilt>>
  BY DEF IInv, TypeOK, Lock
<1>2. apart => since = 0
  BY <1>1, ConstantsAssumption DEF IInv, SinceCovered, Recent, Blocked, TypeOK, Row
<1>3. pc[c] \notin Holding /\ "exchange" \in Holding /\ "finish" \in Holding
      /\ ~Minting("exchange") /\ ~Minting("finish")
  BY <1>1 DEF Holding, Minting
<1>4. CASE job[c].kind = "inline" /\ Goto(c, "exchange") /\ UNCHANGED <<job, managerVars>>
  <2>1. job' = [job EXCEPT ![c] = job[c]] /\ pc' = [pc EXCEPT ![c] = "exchange"]
    BY <1>1, <1>4 DEF Goto, TypeOK
  <2>2. InstanceAt("exchange", job[c])
    BY <1>1, <1>4 DEF CallerOK, InstanceAt
  <2> QED
    BY <1>1, <1>2, <1>3, <1>4, <2>1, <2>2, LockTaken DEF managerVars, TypeOK
<1>5. CASE job[c].kind # "inline" /\ Take(c, "exchange", job[c].kind)
  <2>1. PICK k \in Kind : k = job[c].kind
    BY <1>1 DEF Job
  <2>2. PICK i \in Instance :
           /\ job' = [job EXCEPT ![c] = [job[c] EXCEPT !.inst = i, !.kind = k]]
           /\ [job[c] EXCEPT !.inst = i, !.kind = k] \in Job
           /\ pc' = [pc EXCEPT ![c] = "exchange"]
           /\ i # NoInstance
           /\ cached' \in Instance \cup {NoInstance} /\ token' \in [Instance -> Token]
           /\ cached # NoInstance => UNCHANGED managerVars
           /\ \A d \in Caller : job[d].inst \in Instance => token'[job[d].inst] = token[job[d].inst]
    <3>1. Take(c, "exchange", k)
      BY <1>5, <2>1 DEF Take
    <3> QED
      BY <1>1, <3>1, TakeFacts, ZenonT(60)
  <2> DEFINE j == [job[c] EXCEPT !.inst = i, !.kind = k]
  <2>3. j.inst = i
    BY <1>1 DEF Job
  <2>4. InstanceAt("exchange", j)
    BY <2>2, <2>3 DEF InstanceAt
  <2> QED
    BY <1>1, <1>2, <1>3, <2>2, <2>4, LockTaken
<1>6. CASE /\ job[c].kind # "inline" /\ Goto(c, "finish")
           /\ Set(c, [job[c] EXCEPT !.how = "other"]) /\ UNCHANGED managerVars
  <2> DEFINE j == [job[c] EXCEPT !.how = "other"]
  <2>1. j \in Job /\ j.kind = job[c].kind
    BY <1>1 DEF Job, How
  <2>2. InstanceAt("finish", j)
    BY <1>6, <2>1 DEF InstanceAt
  <2> QED
    BY <1>1, <1>2, <1>3, <1>6, <2>1, <2>2, LockTaken DEF managerVars, TypeOK, Goto, Set
<1> QED
  BY <1>4, <1>5, <1>6 DEF Lock

LEMMA RecoverIInv == ASSUME IInv, NEW c \in Caller, Recover(c) PROVE IInv'
<1> DEFINE j == [job[c] EXCEPT !.kind = "recover", !.how = "recover", !.row = row, !.told = enabled]
<1>1. /\ TypeOK /\ job[c] \in Job /\ row \in Row /\ enabled \in BOOLEAN
  BY DEF IInv, TypeOK
<1>2. j \in Job /\ j.kind = "recover" /\ j.row = row
  BY <1>1 DEF Job, Kind, How
<1>3. /\ pc[c] = "recover" /\ lock = Free /\ lock' = c /\ apart' = (apart /\ ~Editing)
      /\ pc' = [pc EXCEPT ![c] = "write"] /\ job' = [job EXCEPT ![c] = j]
      /\ UNCHANGED <<accountVars, driveVars, managerVars, taskVars, edits, since, switched, spoilt>>
  BY DEF Recover, Goto, Set
<1>4. InstanceAt("write", j) /\ ~Minting("write") /\ "write" \in Holding /\ pc[c] \notin Holding
  BY <1>2, <1>3 DEF InstanceAt, Minting, Holding
<1> QED
  BY <1>1, <1>2, <1>3, <1>4, LockTaken DEF managerVars, TypeOK

LEMMA ReportIInv == ASSUME IInv, NEW c \in Caller, Report(c) PROVE IInv'
<1>1. TypeOK /\ job[c] \in Job /\ row \in Row /\ enabled \in BOOLEAN
  BY DEF IInv, TypeOK
<1>2. pc[c] = "report" /\ lock = Free /\ pc[c] \notin Holding
  BY DEF Report, Holding
<1>3. CASE row.status # "active" /\ End(c) /\ UNCHANGED <<lock, apart>>
  BY <1>1, <1>2, <1>3, EndLands, LandsIInv DEF Report, accountVars, taskVars, TypeOK
<1>4. CASE row.status = "active" /\ lock' = c
  <2> DEFINE j == [job[c] EXCEPT !.how = "auth", !.row = row, !.told = enabled]
  <2>1. j \in Job /\ j.kind = job[c].kind /\ j.inst = job[c].inst /\ j.row = row
    BY <1>1 DEF Job, How
  <2>2. /\ apart' = (apart /\ ~Editing)
        /\ pc' = [pc EXCEPT ![c] = "write"] /\ job' = [job EXCEPT ![c] = j]
        /\ UNCHANGED <<accountVars, driveVars, managerVars, taskVars, edits, since, switched, spoilt>>
    BY <1>4 DEF Report, Goto, Set
  <2>3. InstanceAt("write", j) /\ ~Minting("write") /\ "write" \in Holding
    BY <1>2, <2>1 DEF IInv, CallerOK, InstanceAt, Minting, Holding
  <2> QED
    BY <1>1, <1>2, <1>4, <2>1, <2>2, <2>3, LockTaken DEF managerVars, TypeOK
<1> QED
  BY <1>3, <1>4 DEF Report

-----------------------------------------------------------------------------
(* With the lock: nobody else holds it, and no changed form is left.           *)

LEMMA Alone ==
  ASSUME IInv, NEW c \in Caller, pc[c] \in Holding
  PROVE  /\ TypeOK /\ lock = c /\ c # Free /\ CallerOK(c) /\ job[c] \in Job
         /\ \A d \in Caller : d # c => pc[d] \notin Holding /\ lock # d /\ CallerOK(d)
         /\ apart => \A d \in Caller : ~Editor(d)
<1>1. lock = c /\ c # Free
  BY ConstantsAssumption DEF IInv, CallerOK
<1>2. apart => \A d \in Caller : ~Editor(d)
  BY <1>1 DEF IInv, CallerOK, EditOK
<1> QED
  BY <1>1, <1>2 DEF IInv, CallerOK, TypeOK

LEMMA ExchangeIInv == ASSUME IInv, NEW c \in Caller, Exchange(c) PROVE IInv'
<1> USE DEF accountVars, taskVars, history
<1> DEFINE i == job[c].inst
<1>1. /\ pc[c] = "exchange" /\ pc' = [pc EXCEPT ![c] = "persist"]
      /\ token[i] \in valid /\ minted < MaxToken
      /\ minted' = minted + 1 /\ valid' = (valid \ {token[i]}) \cup {minted + 1}
      /\ token' = [token EXCEPT ![i] = minted + 1]
      /\ UNCHANGED <<accountVars, cached, lock, taskVars, job, edits, history>>
  BY DEF Exchange, Goto, Rotate
<1>2. /\ TypeOK /\ lock = c /\ c # Free /\ CallerOK(c) /\ job[c] \in Job
      /\ \A d \in Caller : d # c => pc[d] \notin Holding /\ lock # d /\ CallerOK(d)
      /\ apart => \A d \in Caller : ~Editor(d)
  BY <1>1, Alone DEF Holding
<1>3. i \in Instance
  BY <1>1, <1>2 DEF CallerOK, InstanceAt, Job
<1>4. minted + 1 \in Token /\ minted' \in Token /\ valid' \subseteq Token
  <2>1. minted \in Token /\ valid \subseteq Token
    BY <1>2 DEF TypeOK
  <2>2. minted + 1 \in Token
    BY <1>1, <2>1, ConstantsAssumption DEF Token
  <2> QED
    BY <1>1, <2>1, <2>2
<1>5. /\ token' \in [Instance -> Token] /\ token'[i] = minted + 1 /\ token'[i] \in valid'
      /\ pc'[c] = "persist" /\ \A d \in Caller : d # c => pc'[d] = pc[d]
  BY <1>1, <1>2, <1>3, <1>4 DEF TypeOK
<1> HIDE DEF i
<1>6. TypeOK'
  BY <1>1, <1>2, <1>4, <1>5 DEF TypeOK, PcSet, Holding
<1>7. SinceCovered'
  BY <1>1 DEF IInv, SinceCovered
<1>8. TokenKept'
  BY <1>1, <1>5 DEF TokenKept, i
<1>9. \A d \in Caller : EditOK(d)'
  <2>1. \A d \in Caller : Editor(d)' => Editor(d)
    BY <1>1, <1>5 DEF Editor, EditorAt
  <2> QED
    BY <1>1, <1>2, <2>1 DEF EditOK
<1>10. ASSUME NEW d \in Caller, d # c PROVE CallerOK(d)'
  BY <1>1, <1>2, <1>5, <1>9, <1>10 DEF CallerOK, InstanceAt, Minting, Holding
<1>11. CallerOK(c)'
  BY <1>1, <1>2, <1>5, <1>9 DEF CallerOK, InstanceAt, Minting, Holding, i
<1> QED
  BY <1>6, <1>7, <1>8, <1>10, <1>11 DEF IInv

LEMMA StoreIInv == ASSUME IInv, NEW c \in Caller, Store(c) PROVE IInv'
<1> USE DEF driveVars, managerVars, taskVars, history
<1> DEFINE i == job[c].inst
           j == [job[c] EXCEPT !.how = "success"]
           r == [job[c].row EXCEPT !.token = token[i]]
<1>1. /\ pc[c] = "store" /\ pc' = [pc EXCEPT ![c] = "finish"]
      /\ row' = r /\ job' = [job EXCEPT ![c] = j]
      /\ UNCHANGED <<enabled, managed, driveVars, managerVars, lock, taskVars, edits, history>>
  BY DEF Store, Goto, Set
<1>2. /\ TypeOK /\ lock = c /\ c # Free /\ CallerOK(c) /\ job[c] \in Job
      /\ \A d \in Caller : d # c => pc[d] \notin Holding /\ lock # d /\ CallerOK(d)
      /\ apart => \A d \in Caller : ~Editor(d)
  BY <1>1, Alone DEF Holding
<1>3. i \in Instance /\ (~spoilt => token[i] \in valid) /\ (apart => job[c].row = row)
  BY <1>1, <1>2 DEF CallerOK, InstanceAt, Job, Minting
<1>4. /\ r \in Row /\ r.token = token[i] /\ r.recent = job[c].row.recent
      /\ r.status = job[c].row.status /\ r.retry = job[c].row.retry
  BY <1>2, <1>3 DEF TypeOK, Job, Row
<1>5. /\ j \in Job /\ j.inst = job[c].inst /\ j.kind = job[c].kind
      /\ pc'[c] = "finish" /\ job'[c] = j
      /\ \A d \in Caller : d # c => pc'[d] = pc[d] /\ job'[d] = job[d]
  BY <1>1, <1>2 DEF TypeOK, Job, How
<1> HIDE DEF i, j, r
<1>6. TypeOK'
  BY <1>1, <1>2, <1>4, <1>5 DEF TypeOK, PcSet, Holding
<1>7. SinceCovered'
  BY <1>1, <1>3, <1>4 DEF IInv, SinceCovered
<1>8. TokenKept'
  BY <1>1, <1>3, <1>4 DEF TokenKept
<1>9. \A d \in Caller : EditOK(d)'
  <2>1. \A d \in Caller : Editor(d)' => Editor(d)
    BY <1>1, <1>5 DEF Editor, EditorAt
  <2> QED
    BY <1>1, <1>2, <2>1 DEF EditOK
<1>10. ASSUME NEW d \in Caller, d # c PROVE CallerOK(d)'
  BY <1>1, <1>2, <1>5, <1>9, <1>10 DEF CallerOK, InstanceAt, Minting, Holding
<1>11. CallerOK(c)'
  BY <1>1, <1>2, <1>5, <1>9 DEF CallerOK, InstanceAt, Minting, Holding
<1> QED
  BY <1>6, <1>7, <1>8, <1>10, <1>11 DEF IInv

LEMMA WriteIInv == ASSUME IInv, NEW c \in Caller, Write(c) PROVE IInv'
<1> USE DEF driveVars, managerVars, taskVars
<1> DEFINE j == job[c]
           r == Outcome(j)
<1>1. /\ pc[c] = "write" /\ pc' = [pc EXCEPT ![c] = "publish"] /\ row' = r
      /\ since' = IF j.how = "success" THEN Window ELSE since
      /\ UNCHANGED <<enabled, managed, driveVars, managerVars, lock, taskVars, job, edits,
                     apart, switched, spoilt>>
  BY DEF Write, Goto
<1>2. /\ TypeOK /\ lock = c /\ c # Free /\ CallerOK(c) /\ j \in Job
      /\ \A d \in Caller : d # c => pc[d] \notin Holding /\ lock # d /\ CallerOK(d)
      /\ apart => \A d \in Caller : ~Editor(d)
  BY <1>1, Alone DEF Holding
<1>3. apart => j.row = row
  BY <1>1, <1>2 DEF CallerOK
<1>4. /\ r \in Row /\ r.token = j.row.token
      /\ j.how = "success" => r.status = "active" /\ r.recent = Window
      /\ j.how = "recover" => r.status = "active" /\ r.recent = j.row.recent
      /\ j.how \notin {"success", "recover"} =>
           r.recent = j.row.recent /\ r.retry \in {Cooldown, FailedRetry}
  BY <1>2, OutcomeFacts
<1> HIDE DEF r
<1>5. pc'[c] = "publish" /\ \A d \in Caller : d # c => pc'[d] = pc[d]
  BY <1>1, <1>2 DEF TypeOK
<1>6. since \in 0..Window /\ since' \in 0..Window
  BY <1>1, <1>2, ConstantsAssumption DEF TypeOK
<1>7. TypeOK'
  BY <1>1, <1>2, <1>4, <1>5, <1>6 DEF TypeOK, PcSet, Holding
<1>8. SinceCovered'
  BY <1>1, <1>3, <1>4, <1>6, ConstantsAssumption DEF IInv, SinceCovered
<1>9. TokenKept'
  BY <1>1, <1>3, <1>4, <1>5 DEF IInv, TokenKept
<1>10. \A d \in Caller : EditOK(d)'
  <2>1. \A d \in Caller : Editor(d)' => Editor(d)
    BY <1>1, <1>5 DEF Editor, EditorAt
  <2> QED
    BY <1>1, <1>2, <2>1 DEF EditOK
<1>11. ASSUME NEW d \in Caller, d # c PROVE CallerOK(d)'
  BY <1>1, <1>2, <1>5, <1>10, <1>11 DEF CallerOK, InstanceAt, Minting, Holding
<1>12. CallerOK(c)'
  BY <1>1, <1>2, <1>5, <1>10 DEF CallerOK, InstanceAt, Minting, Holding
<1> QED
  BY <1>7, <1>8, <1>9, <1>11, <1>12 DEF IInv

-----------------------------------------------------------------------------
(* Steps of one caller that give the lock back, drop the cached instance or    *)
(* lose a token, and leave the row alone.                                      *)

LEMMA LooseStep ==
  ASSUME IInv, NEW c \in Caller, NEW l \in PcSet, NEW j \in Job,
         pc' = [pc EXCEPT ![c] = l], job' = [job EXCEPT ![c] = j],
         TypeOK', TokenKept', UNCHANGED <<row, token, since, apart>>,
         spoilt => spoilt', valid' = valid \/ spoilt',
         \/ lock' = lock /\ pc[c] \notin Holding
         \/ lock' = Free /\ pc[c] \in Holding,
         l \notin Holding, InstanceAt(l, j),
         EditorAt(l, j) => Editor(c) /\ j.row = job[c].row /\ j.token = job[c].token
  PROVE  IInv'
<1>1. /\ pc'[c] = l /\ job'[c] = j /\ c # Free
      /\ \A d \in Caller : d # c => pc'[d] = pc[d] /\ job'[d] = job[d]
  BY ConstantsAssumption DEF IInv, TypeOK
<1>2. SinceCovered'
  BY DEF IInv, SinceCovered
<1>3. ~Minting(l) /\ l \notin {"store", "write", "exchange"}
  BY DEF Minting, Holding
<1>4. \A d \in Caller : Editor(d)' => Editor(d)
  BY <1>1 DEF Editor
<1>5. pc[c] \in Holding => lock = c /\ \A d \in Caller : d # c => pc[d] \notin Holding
  BY Alone
<1>6. ASSUME NEW d \in Caller PROVE EditOK(d)'
  <2> SUFFICES ASSUME apart', Editor(d)' PROVE EditOK(d)'
    BY DEF EditOK
  <2>1. /\ apart /\ Editor(d) /\ lock = Free /\ job[d].row = row
        /\ ~spoilt => job[d].token \in valid
        /\ \A e \in Caller : Editor(e) => e = d
    BY <1>4 DEF IInv, CallerOK, EditOK
  <2>2. lock' = Free
    BY <2>1
  <2>3. job'[d].row = job[d].row /\ job'[d].token = job[d].token
    BY <1>1 DEF Editor
  <2> QED
    BY <1>4, <2>1, <2>2, <2>3 DEF EditOK
<1>7. ASSUME NEW d \in Caller, d # c PROVE CallerOK(d)'
  <2>1. lock' = d <=> pc[d] \in Holding
    BY <1>1, <1>5, <1>7, ConstantsAssumption DEF IInv, CallerOK
  <2> QED
    BY <1>1, <1>6, <1>7, <2>1 DEF IInv, CallerOK, Blocked
<1>8. CallerOK(c)'
  <2>1. lock' # c
    BY <1>1 DEF IInv, CallerOK
  <2> QED
    BY <1>1, <1>3, <1>6, <2>1 DEF CallerOK
<1> QED
  BY <1>2, <1>7, <1>8 DEF IInv

LEMMA DropFacts ==
  ASSUME TypeOK, DropInstance
  PROVE  /\ cached' = NoInstance /\ token' = token /\ spoilt' \in BOOLEAN /\ (spoilt => spoilt')
         /\ ~spoilt' => ~(cached # NoInstance /\ token[cached] \in valid) \/ row.token \in valid
  BY DEF DropInstance, TypeOK

\* The cached instance was not the only one to know a valid token.
LEMMA DropKeeps ==
  ASSUME IInv, DropInstance, NEW c \in Caller, ~Minting(pc[c]), UNCHANGED <<row, valid, apart>>,
         \A d \in Caller : d # c => pc'[d] = pc[d] /\ job'[d] = job[d]
  PROVE  TokenKept'
<1>1. TypeOK /\ TokenKept
  BY DEF IInv
<1> QED
  BY <1>1, DropFacts DEF TokenKept, Minting

LEMMA DroppingIInv ==
  ASSUME IInv, NEW c \in Caller, ApiBreaks(c) \/ Drop(c) \/ (Flip(c) /\ ~job[c].want)
  PROVE  IInv'
<1> USE DEF accountVars, taskVars, driveVars
<1>1. /\ TypeOK /\ job[c] \in Job /\ CallerOK(c) /\ DropInstance
      /\ pc[c] \in {"api", "again", "drop", "toggle"}
  BY DEF IInv, TypeOK, ApiBreaks, Drop, Flip
<1>2. pc[c] \notin Holding /\ ~Minting(pc[c])
  BY <1>1 DEF Holding, Minting
<1>3. UNCHANGED <<row, managed, driveVars, lock, taskVars, edits, since, apart>>
  BY DEF ApiBreaks, Drop, Flip
<1>4. enabled' \in BOOLEAN /\ switched' \in BOOLEAN
  BY <1>1 DEF ApiBreaks, Drop, Flip, TypeOK, Job
<1>5. \E l \in PcSet \ Holding, j \in Job :
        /\ pc' = [pc EXCEPT ![c] = l] /\ job' = [job EXCEPT ![c] = j]
        /\ InstanceAt(l, j) /\ ~EditorAt(l, j)
  <2>1. CASE ApiBreaks(c)
    <3>1. "idle" \in PcSet \ Holding /\ InstanceAt("idle", NoJob) /\ ~EditorAt("idle", NoJob)
      BY DEF PcSet, Holding, InstanceAt, EditorAt
    <3> QED
      BY <2>1, <3>1, NoJobFacts DEF ApiBreaks, End, Goto, Set
  <2>2. CASE Drop(c)
    <3>1. "recover" \in PcSet \ Holding /\ InstanceAt("recover", job[c]) /\ ~EditorAt("recover", job[c])
      BY DEF PcSet, Holding, InstanceAt, EditorAt
    <3>2. pc' = [pc EXCEPT ![c] = "recover"] /\ job' = [job EXCEPT ![c] = job[c]]
      BY <1>1, <2>2 DEF Drop, Goto, TypeOK
    <3> QED
      BY <1>1, <3>1, <3>2
  <2>3. CASE Flip(c)
    <3>1. "lifecycle" \in PcSet \ Holding /\ InstanceAt("lifecycle", job[c]) /\ ~EditorAt("lifecycle", job[c])
      BY DEF PcSet, Holding, InstanceAt, EditorAt
    <3>2. pc' = [pc EXCEPT ![c] = "lifecycle"] /\ job' = [job EXCEPT ![c] = job[c]]
      BY <1>1, <2>3 DEF Flip, Goto, TypeOK
    <3> QED
      BY <1>1, <3>1, <3>2
  <2> QED
    BY <2>1, <2>2, <2>3
<1>6. PICK l \in PcSet \ Holding, j \in Job :
        /\ pc' = [pc EXCEPT ![c] = l] /\ job' = [job EXCEPT ![c] = j]
        /\ InstanceAt(l, j) /\ ~EditorAt(l, j)
  BY <1>5
<1>7. TypeOK'
  BY <1>1, <1>3, <1>4, <1>6, DropFacts DEF TypeOK
<1>8. \A d \in Caller : d # c => pc'[d] = pc[d] /\ job'[d] = job[d]
  BY <1>1, <1>6 DEF TypeOK
<1>9. TokenKept'
  BY <1>1, <1>2, <1>3, <1>8, DropKeeps
<1> QED
  BY <1>1, <1>2, <1>3, <1>6, <1>7, <1>9, DropFacts, LooseStep

LEMMA EnablingIInv == ASSUME IInv, NEW c \in Caller, Flip(c), job[c].want PROVE IInv'
<1>1. TypeOK /\ job[c] \in Job /\ pc[c] = "toggle"
  BY DEF IInv, TypeOK, Flip
<1>2. pc' = [pc EXCEPT ![c] = "lifecycle"] /\ job' = [job EXCEPT ![c] = job[c]]
  BY <1>1 DEF Flip, Goto, TypeOK
<1>3. /\ UNCHANGED <<row, managed, driveVars, managerVars, lock, taskVars, edits, since, apart, spoilt>>
      /\ enabled' \in BOOLEAN /\ switched' \in BOOLEAN
  BY <1>1 DEF Flip, Job
<1>4. Lands(c) /\ pc[c] \notin Holding
  BY <1>1, <1>2 DEF Lands, Rest, InstanceAt, Holding
<1> QED
  BY <1>1, <1>3, <1>4, LandsIInv DEF TypeOK, taskVars

LEMMA PublishIInv == ASSUME IInv, NEW c \in Caller, Publish(c) PROVE IInv'
<1> USE DEF accountVars, driveVars, managerVars, history
<1>1. /\ TypeOK /\ job[c] \in Job /\ CallerOK(c) /\ pc[c] = "publish" /\ pc[c] \in Holding
      /\ lock' = Free /\ bus' = bus \o EventsOf(job[c])
      /\ UNCHANGED <<accountVars, driveVars, managerVars, tasks, edits, history>>
  BY DEF IInv, TypeOK, Publish, Holding
<1>2. Lands(c)
  <2>1. CASE Succeeded(c, job[c].kind)
    BY <1>1, <2>1, SucceededLands DEF CallerOK, InstanceAt
  <2>2. CASE Failed(c, job[c].how)
    BY <1>1, <2>2, FailedLands
  <2> QED
    BY <2>1, <2>2 DEF Publish
<1>3. PICK l \in Rest, j \in Job :
        pc' = [pc EXCEPT ![c] = l] /\ job' = [job EXCEPT ![c] = j] /\ InstanceAt(l, j)
  BY <1>2 DEF Lands
<1>4. l \in PcSet /\ l \notin Holding /\ ~EditorAt(l, j) /\ ~Minting(pc[c])
  BY <1>1 DEF Rest, PcSet, Holding, EditorAt, Minting
<1>5. bus' \in Seq({"failed", "recovered"})
  BY <1>1, EventsFacts DEF TypeOK
<1>6. TypeOK'
  BY <1>1, <1>3, <1>4, <1>5 DEF TypeOK
<1>7. \A d \in Caller : d # c => pc'[d] = pc[d] /\ job'[d] = job[d]
  BY <1>1, <1>3 DEF TypeOK
<1>8. TokenKept'
  BY <1>1, <1>4, <1>7 DEF IInv, TokenKept, Minting
<1> QED
  BY <1>1, <1>3, <1>4, <1>6, <1>8, LooseStep

\* An abandoned attempt: its token is the cached instance's, or in the row, or
\* `spoilt' says so.
LEMMA CancelIInv == ASSUME IInv, NEW c \in Caller, Cancel(c) PROVE IInv'
<1> USE DEF accountVars, driveVars, managerVars, taskVars
<1>1. /\ TypeOK /\ job[c] \in Job /\ CallerOK(c) /\ End(c)
      /\ lock' = IF lock = c THEN Free ELSE lock
      /\ spoilt' = (spoilt \/ (/\ pc[c] \in {"persist", "store"} /\ job[c].inst # cached
                               /\ row.token \notin valid))
      /\ UNCHANGED <<accountVars, driveVars, managerVars, taskVars, edits, since, apart, switched>>
  BY DEF IInv, TypeOK, Cancel
<1>2. /\ pc' = [pc EXCEPT ![c] = "idle"] /\ job' = [job EXCEPT ![c] = NoJob] /\ NoJob \in Job
      /\ "idle" \in PcSet /\ "idle" \notin Holding
      /\ InstanceAt("idle", NoJob) /\ ~EditorAt("idle", NoJob)
  BY <1>1, NoJobFacts DEF End, Goto, Set, PcSet, Holding, InstanceAt, EditorAt
<1>3. spoilt' \in BOOLEAN /\ (spoilt => spoilt')
  BY <1>1 DEF TypeOK
<1>4. \/ lock' = lock /\ pc[c] \notin Holding
      \/ lock' = Free /\ pc[c] \in Holding
  BY <1>1 DEF CallerOK
<1>5. TypeOK'
  BY <1>1, <1>2, <1>3, <1>4 DEF TypeOK
<1>6. \A d \in Caller : d # c => pc'[d] = pc[d] /\ job'[d] = job[d]
  BY <1>1, <1>2 DEF TypeOK
<1>7. TokenKept'
  <2> SUFFICES ASSUME apart, ~spoilt', row.token \notin valid, ~(cached # NoInstance /\ token[cached] \in valid)
               PROVE  \E d \in Caller : pc'[d] \in {"persist", "store"} /\ token[job'[d].inst] \in valid
    BY <1>1 DEF TokenKept
  <2>1. PICK d \in Caller : pc[d] \in {"persist", "store"} /\ token[job[d].inst] \in valid
    BY <1>3 DEF IInv, TokenKept
  <2>2. d # c
    <3> SUFFICES ASSUME d = c PROVE FALSE
      OBVIOUS
    <3>1. job[c].inst = cached /\ job[c].inst # NoInstance
      BY <1>1, <2>1 DEF CallerOK, InstanceAt
    <3> QED
      BY <2>1, <3>1
  <2> QED
    BY <1>6, <2>1, <2>2
<1> QED
  BY <1>1, <1>2, <1>3, <1>4, <1>5, <1>7, LooseStep

-----------------------------------------------------------------------------
(* A form.                                                                     *)

LEMMA PingIInv == ASSUME IInv, NEW c \in Caller, Ping(c) PROVE IInv'
<1> USE DEF accountVars, managerVars, taskVars
<1>1. /\ TypeOK /\ job[c] \in Job /\ CallerOK(c) /\ pc[c] = "ping" /\ pc[c] \notin Holding
      /\ UNCHANGED <<accountVars, managerVars, lock, taskVars, job, edits, since, apart, switched>>
  BY DEF IInv, TypeOK, Ping, Holding
<1>2. /\ pc' = [pc EXCEPT ![c] = "account"] /\ job' = [job EXCEPT ![c] = job[c]]
      /\ "account" \in PcSet /\ "account" \notin Holding /\ InstanceAt("account", job[c])
      /\ EditorAt("account", job[c]) => Editor(c)
  BY <1>1 DEF Ping, Goto, TypeOK, PcSet, Holding, InstanceAt, EditorAt, Editor
<1>3. CASE UNCHANGED <<driveVars, spoilt>>
  <2>1. TypeOK'
    BY <1>1, <1>2, <1>3 DEF TypeOK, driveVars
  <2>2. TokenKept'
    BY <1>1, <1>2, <1>3 DEF IInv, TypeOK, TokenKept, driveVars
  <2> QED
    BY <1>1, <1>2, <1>3, <2>1, <2>2, LooseStep DEF driveVars
<1>4. CASE Rotate(job[c].token) /\ spoilt' = TRUE
  <2>1. minted \in Token /\ valid \subseteq Token /\ MaxToken \in Nat
    BY <1>1, ConstantsAssumption DEF TypeOK
  <2>2. minted + 1 \in Token
    BY <1>4, <2>1 DEF Rotate, Token
  <2>3. minted' \in Token /\ valid' \subseteq Token
    BY <1>4, <2>1, <2>2 DEF Rotate
  <2>4. TypeOK'
    BY <1>1, <1>2, <1>4, <2>3 DEF TypeOK
  <2>5. TokenKept'
    BY <1>4 DEF TokenKept
  <2> QED
    BY <1>1, <1>2, <1>4, <2>4, <2>5, LooseStep
<1> QED
  BY <1>3, <1>4 DEF Ping

LEMMA SubmitIInv == ASSUME IInv, NEW c \in Caller, Submit(c) PROVE IInv'
<1> USE DEF accountVars, managerVars, taskVars
<1>1. /\ TypeOK /\ job[c] \in Job /\ CallerOK(c) /\ pc[c] = "form" /\ edits < MaxEdits /\ edits' = edits + 1
      /\ pc' = [pc EXCEPT ![c] = "ping"] /\ row \in Row /\ enabled \in BOOLEAN
      /\ minted \in Token /\ valid \subseteq Token
      /\ UNCHANGED <<accountVars, managerVars, lock, taskVars, since, switched>>
  BY DEF IInv, TypeOK, Submit, Goto
<1>2. PICK want \in BOOLEAN, t \in {job[c].token} \cup ((minted + 1)..MaxToken \cap {minted + 1}) :
       /\ Set(c, [job[c] EXCEPT !.row = row, !.was = enabled, !.want = want,
                                !.token = t, !.changed = (t # row.token)])
       /\ IF t > minted THEN minted' = t /\ valid' = valid \cup {t} ELSE UNCHANGED driveVars
       /\ apart' = (apart /\ (t # row.token => lock = Free /\ ~Editing))
       /\ spoilt' = (spoilt \/ (t # row.token /\ t <= minted))
  BY DEF Submit
<1> DEFINE j == [job[c] EXCEPT !.row = row, !.was = enabled, !.want = want,
                               !.token = t, !.changed = (t # row.token)]
<1>3. t \in Token
  BY <1>1, ConstantsAssumption DEF Job, Token
<1>4. /\ j \in Job /\ j.row = row /\ j.token = t /\ (j.changed <=> t # row.token)
      /\ job' = [job EXCEPT ![c] = j]
  BY <1>1, <1>2, <1>3 DEF Set, Job
<1>5. /\ valid \subseteq valid' /\ valid' \subseteq Token /\ minted' \in Token
      /\ t > minted => t \in valid'
  BY <1>1, <1>2, <1>3 DEF driveVars
<1>6. /\ apart' \in BOOLEAN /\ spoilt' \in BOOLEAN /\ (apart' => apart) /\ (spoilt => spoilt')
      /\ apart' /\ t # row.token => lock = Free /\ \A d \in Caller : ~Editor(d)
      /\ ~spoilt' /\ t # row.token => t > minted
  <2>1. Editing <=> \E d \in Caller : Editor(d)
    BY DEF Editing, Editor, EditorAt
  <2>2. minted \in Nat /\ t \in Nat
    BY <1>1, <1>3, ConstantsAssumption DEF Token
  <2> HIDE DEF Editing
  <2>3. t <= minted \/ t > minted
    BY <2>2
  <2> QED
    BY <1>1, <1>2, <2>1, <2>3 DEF TypeOK
<1> HIDE DEF j
<1>7. /\ pc'[c] = "ping" /\ job'[c] = j /\ "ping" \in PcSet /\ c # Free
      /\ \A d \in Caller : d # c => pc'[d] = pc[d] /\ job'[d] = job[d]
  BY <1>1, <1>4, ConstantsAssumption DEF TypeOK, PcSet
<1>8. edits' \in 0..MaxEdits
  BY <1>1, ConstantsAssumption DEF TypeOK
<1>9. TypeOK'
  BY <1>1, <1>4, <1>5, <1>6, <1>7, <1>8 DEF TypeOK
<1>10. SinceCovered'
  BY <1>1, <1>6 DEF IInv, SinceCovered
<1>11. TokenKept'
  <2>1. ~Minting(pc[c])
    BY <1>1 DEF Minting
  <2> QED
    BY <1>1, <1>5, <1>6, <1>7, <2>1 DEF IInv, TokenKept, Minting
<1>12. ASSUME NEW d \in Caller, d # c PROVE CallerOK(d)'
  <2>1. EditOK(d)'
    <3> SUFFICES ASSUME apart', Editor(d)' PROVE EditOK(d)'
      BY DEF EditOK
    <3>1. Editor(d) /\ t = row.token
      BY <1>6, <1>7, <1>12 DEF Editor
    <3>2. ~Editor(c)'
      BY <1>4, <1>7, <3>1 DEF Editor, EditorAt
    <3>3. \A e \in Caller : Editor(e)' => Editor(e)
      BY <1>7, <3>2 DEF Editor
    <3> QED
      BY <1>1, <1>5, <1>6, <1>7, <1>12, <3>1, <3>3 DEF IInv, CallerOK, EditOK
  <2> QED
    BY <1>1, <1>5, <1>6, <1>7, <1>12, <2>1 DEF IInv, CallerOK, Blocked
<1>13. CallerOK(c)'
  <2>1. EditOK(c)'
    <3> SUFFICES ASSUME apart', Editor(c)' PROVE EditOK(c)'
      BY DEF EditOK
    <3>1. t # row.token
      BY <1>4, <1>7 DEF Editor, EditorAt
    <3>2. \A e \in Caller : Editor(e)' => e = c
      BY <1>6, <1>7, <3>1 DEF Editor
    <3> QED
      BY <1>1, <1>4, <1>5, <1>6, <1>7, <3>1, <3>2 DEF EditOK
  <2> QED
    BY <1>1, <1>7, <2>1 DEF CallerOK, InstanceAt, Minting, Holding
<1> QED
  BY <1>9, <1>10, <1>11, <1>12, <1>13 DEF IInv

\* The one write without the lock: a changed form is written over a row that is
\* still the one it had read.
LEMMA SaveFieldsIInv == ASSUME IInv, NEW c \in Caller, SaveFields(c) PROVE IInv'
<1> USE DEF driveVars, managerVars, taskVars, history
<1> DEFINE j == Edited(job[c])
           r == [job[c].row EXCEPT !.token = job[c].token, !.recent = Window]
<1>1. /\ TypeOK /\ job[c] \in Job /\ CallerOK(c) /\ pc[c] = "fields"
      /\ row' = IF job[c].changed THEN r ELSE row
      /\ pc' = [pc EXCEPT ![c] = "drop"] /\ job' = [job EXCEPT ![c] = j]
      /\ UNCHANGED <<enabled, managed, driveVars, managerVars, lock, taskVars, edits, history>>
  BY DEF IInv, TypeOK, SaveFields, Goto, Set
<1>2. j \in Job /\ j.kind = "none"
  BY <1>1, EditedFacts
<1>3. /\ "drop" \in PcSet /\ "drop" \notin Holding /\ pc[c] \notin Holding
      /\ ~Minting("drop") /\ ~Minting(pc[c]) /\ InstanceAt("drop", j) /\ ~EditorAt("drop", j)
  BY <1>1 DEF PcSet, Holding, Minting, InstanceAt, EditorAt
<1>4. /\ pc'[c] = "drop" /\ job'[c] = j
      /\ \A d \in Caller : d # c => pc'[d] = pc[d] /\ job'[d] = job[d]
  BY <1>1, <1>2 DEF TypeOK
<1>5. CASE ~job[c].changed
  <2>1. row' = row
    BY <1>1, <1>5
  <2> HIDE DEF j, r
  <2>2. TypeOK'
    BY <1>1, <1>2, <1>3, <2>1 DEF TypeOK
  <2>3. TokenKept'
    BY <1>1, <1>3, <1>4, <2>1 DEF IInv, TokenKept, Minting
  <2> QED
    BY <1>1, <1>2, <1>3, <2>1, <2>2, <2>3, LooseStep
<1>6. CASE job[c].changed
  <2>1. Editor(c)
    BY <1>1, <1>6 DEF Editor, EditorAt
  <2>2. apart => /\ lock = Free /\ job[c].row = row
                 /\ ~spoilt => job[c].token \in valid
                 /\ \A d \in Caller : Editor(d) => d = c
    BY <1>1, <2>1 DEF CallerOK, EditOK
  <2>3. /\ r \in Row /\ r.token = job[c].token /\ r.recent = Window
        /\ r.status = job[c].row.status /\ r.retry = job[c].row.retry
    <3>1. PICK q \in Row, t \in Token : q = job[c].row /\ t = job[c].token
      BY <1>1 DEF Job
    <3>2. r = [q EXCEPT !.token = t, !.recent = Window]
      BY <3>1
    <3> HIDE DEF r
    <3>3. Window \in 0..Window
      BY ConstantsAssumption
    <3>4. r \in Row /\ r.token = t /\ r.recent = Window /\ r.status = q.status /\ r.retry = q.retry
      BY <3>1, <3>2, <3>3 DEF Row
    <3> QED
      BY <3>1, <3>4
  <2> HIDE DEF j, r
  <2>4. row' = r /\ since \in 0..Window
    BY <1>1, <1>6 DEF TypeOK
  <2>5. TypeOK'
    BY <1>1, <1>2, <1>3, <2>3, <2>4 DEF TypeOK
  <2>6. SinceCovered'
    BY <1>1, <2>2, <2>3, <2>4, ConstantsAssumption DEF IInv, SinceCovered
  <2>7. TokenKept'
    BY <1>1, <2>2, <2>3, <2>4 DEF TokenKept
  <2>8. \A d \in Caller : ~(apart /\ Editor(d)')
    BY <1>3, <1>4, <2>2 DEF Editor
  <2>9. ASSUME NEW d \in Caller, d # c PROVE CallerOK(d)'
    <3>1. CallerOK(d) /\ EditOK(d)'
      BY <1>1, <2>8 DEF IInv, EditOK
    <3>2. apart => pc[d] \notin Holding
      BY <2>2, <3>1, ConstantsAssumption DEF CallerOK
    <3> QED
      BY <1>1, <1>4, <2>9, <3>1, <3>2 DEF CallerOK, Holding
  <2>10. CallerOK(c)'
    <3>1. EditOK(c)'
      BY <1>1, <2>8 DEF EditOK
    <3> QED
      BY <1>1, <1>3, <1>4, <3>1 DEF CallerOK, Holding
  <2> QED
    BY <2>5, <2>6, <2>7, <2>9, <2>10 DEF IInv
<1> QED
  BY <1>5, <1>6

-----------------------------------------------------------------------------
(* The bus, and time.                                                          *)

LEMMA HandleIInv == IInv /\ Handle => IInv'
<1> SUFFICES ASSUME IInv, Handle PROVE IInv'
  OBVIOUS
<1> USE DEF accountVars, driveVars, managerVars, history
<1>1. UNCHANGED <<row, enabled, managed, valid, minted, token, cached, lock, pc, job, edits,
                  since, apart, switched, spoilt>>
  BY DEF Handle
<1>2. /\ TypeOK /\ bus # <<>> /\ bus' = Tail(bus)
      /\ tasks' \in {"running", "disabled", "failed"}
  BY DEF IInv, TypeOK, Handle
<1>3. bus' \in Seq({"failed", "recovered"})
  BY <1>2 DEF TypeOK
<1>4. TypeOK'
  BY <1>1, <1>2, <1>3 DEF TypeOK
<1> QED
  BY <1>1, <1>4 DEF IInv, TokenKept, SinceCovered, CallerOK, EditOK, Editor, Blocked

LEMMA TickIInv == IInv /\ Tick => IInv'
<1> SUFFICES ASSUME IInv, Tick PROVE IInv'
  OBVIOUS
<1> USE DEF driveVars, managerVars, taskVars
<1>1. /\ TypeOK /\ row \in Row /\ row' = Older(row) /\ since' = Less(since)
      /\ since \in 0..Window /\ Window \in Nat
      /\ UNCHANGED <<enabled, managed, driveVars, managerVars, lock, taskVars, pc, edits,
                     apart, switched, spoilt>>
  BY ConstantsAssumption DEF IInv, TypeOK, Tick
<1>2. ASSUME NEW c \in Caller
      PROVE  /\ job'[c] \in Job /\ job'[c].row = Older(job[c].row)
             /\ job'[c].inst = job[c].inst /\ job'[c].kind = job[c].kind
             /\ job'[c].token = job[c].token /\ job'[c].changed = job[c].changed
  <2>1. job[c] \in Job /\ job[c].row \in Row
    BY <1>1 DEF TypeOK, Job
  <2>2. PICK r \in Row : r = Older(job[c].row)
    BY <2>1, OlderFacts
  <2>3. job'[c] = [job[c] EXCEPT !.row = r]
    BY <2>2 DEF Tick
  <2> QED
    BY <2>1, <2>2, <2>3 DEF Job
<1>3. job' \in [Caller -> Job]
  <2>1. job' = [c \in Caller |-> job'[c]]
    BY DEF Tick
  <2> QED
    BY <1>2, <2>1
<1>4. /\ row' \in Row /\ row'.token = row.token /\ row'.status = row.status
      /\ row'.retry = Less(row.retry) /\ row'.recent = Less(row.recent)
  BY <1>1, OlderFacts
<1>5. /\ row.retry \in Nat /\ row.recent \in Nat
      /\ since' \in 0..Window /\ (since = 0 => since' = 0)
  BY <1>1, ConstantsAssumption DEF Row, Less, LongestRetry, Larger
<1>6. Blocked(row)' => Blocked(row)
  BY <1>4, <1>5 DEF Blocked, Less
<1>7. TypeOK'
  BY <1>1, <1>3, <1>4, <1>5 DEF TypeOK
<1>8. SinceCovered'
  BY <1>1, <1>4, <1>5 DEF IInv, SinceCovered, Less
<1>9. TokenKept'
  BY <1>1, <1>2, <1>4 DEF IInv, TokenKept
<1>10. \A c \in Caller : Editor(c)' <=> Editor(c)
  BY <1>1, <1>2 DEF Editor, EditorAt
<1>11. \A c \in Caller : job[c].row = row => job'[c].row = row'
  BY <1>1, <1>2
<1>12. \A c \in Caller : EditOK(c)'
  BY <1>1, <1>2, <1>10, <1>11 DEF IInv, CallerOK, EditOK
<1>13. \A c \in Caller : CallerOK(c)'
  BY <1>1, <1>2, <1>5, <1>6, <1>11, <1>12 DEF IInv, CallerOK, InstanceAt
<1> QED
  BY <1>7, <1>8, <1>9, <1>13 DEF IInv

-----------------------------------------------------------------------------
LEMMA InitIInv == Init => IInv
<1> SUFFICES ASSUME Init PROVE IInv
  OBVIOUS
<1> USE ConstantsAssumption DEF Init
<1>1. row \in Row /\ NoJob \in Job /\ row = FirstRow
  BY NoJobFacts
<1>2. 1 \in Token
  BY DEF Token
<1>3. TypeOK
  <2>1. pc \in [Caller -> PcSet] /\ job \in [Caller -> Job]
    BY <1>1 DEF PcSet
  <2>2. token \in [Instance -> Token] /\ cached \in Instance \cup {NoInstance}
        /\ valid \subseteq Token /\ minted \in Token
    BY <1>2
  <2>3. bus \in Seq({"failed", "recovered"}) /\ tasks \in {"running", "disabled", "failed"}
    OBVIOUS
  <2>4. /\ enabled \in BOOLEAN /\ managed \in BOOLEAN /\ lock \in Caller \cup {Free}
        /\ apart \in BOOLEAN /\ switched \in BOOLEAN /\ spoilt \in BOOLEAN
    BY Zenon
  <2>5. edits \in 0..MaxEdits /\ since \in 0..Window
    OBVIOUS
  <2> HIDE DEF Init
  <2> QED
    BY <1>1, <2>1, <2>2, <2>3, <2>4, <2>5 DEF TypeOK
<1>4. TokenKept /\ SinceCovered
  BY DEF TokenKept, SinceCovered, FirstRow
<1>5. ASSUME NEW c \in Caller PROVE CallerOK(c)
  <2>1. pc[c] = "idle"
    OBVIOUS
  <2> QED
    BY <2>1 DEF CallerOK, EditOK, Editor, EditorAt, InstanceAt, Minting, Holding
<1> QED
  BY <1>3, <1>4, <1>5 DEF IInv

LEMMA StepIInv == IInv /\ [Next]_vars => IInv'
<1> SUFFICES ASSUME IInv, [Next]_vars PROVE IInv'
  OBVIOUS
<1>1. ASSUME NEW c \in Caller, Call(c) PROVE IInv'
  <2>1. CASE \/ Request(c) \/ GetRefused(c) \/ ApiAnswers(c) \/ ApiUnauthorized(c)
             \/ AgainUnauthorized(c) \/ Active(c)
    BY <2>1, LandingIInv
  <2>2. CASE GetDriver(c)
    BY <2>2, GetDriverIInv
  <2>3. CASE ApiBreaks(c)
    BY <2>3, DroppingIInv
  <2>4. CASE Report(c)
    BY <2>4, ReportIInv
  <2> QED
    BY <1>1, <2>1, <2>2, <2>3, <2>4 DEF Call
<1>2. ASSUME NEW c \in Caller, Refresh(c) PROVE IInv'
  <2>1. CASE Lock(c)
    BY <2>1, LockIInv
  <2>2. CASE Reuse(c) \/ Refuse(c)
    BY <2>2, LandingIInv
  <2>3. CASE ExchangeFails(c) \/ Persist(c) \/ Finish(c)
    BY <2>3, HoldingIInv
  <2>4. CASE Exchange(c)
    BY <2>4, ExchangeIInv
  <2>5. CASE Store(c)
    BY <2>5, StoreIInv
  <2>6. CASE Write(c)
    BY <2>6, WriteIInv
  <2>7. CASE Publish(c)
    BY <2>7, PublishIInv
  <2>8. CASE Cancel(c)
    BY <2>8, CancelIInv
  <2> QED
    BY <1>2, <2>1, <2>2, <2>3, <2>4, <2>5, <2>6, <2>7, <2>8 DEF Refresh
<1>3. ASSUME NEW c \in Caller, Edit(c) PROVE IInv'
  <2>1. CASE OpenForm(c) \/ SaveAccount(c) \/ Toggle(c) \/ Lifecycle(c)
    BY <2>1, SavingIInv
  <2>2. CASE Submit(c)
    BY <2>2, SubmitIInv
  <2>3. CASE Ping(c)
    BY <2>3, PingIInv
  <2>4. CASE SaveFields(c)
    BY <2>4, SaveFieldsIInv
  <2>5. CASE Drop(c)
    BY <2>5, DroppingIInv
  <2>6. CASE Recover(c)
    BY <2>6, RecoverIInv
  <2>7. CASE Flip(c)
    BY <2>7, DroppingIInv, EnablingIInv
  <2> QED
    BY <1>3, <2>1, <2>2, <2>3, <2>4, <2>5, <2>6, <2>7 DEF Edit
<1>4. CASE UNCHANGED vars
  BY <1>4 DEF vars, accountVars, driveVars, managerVars, taskVars, history, IInv, TypeOK,
              TokenKept, SinceCovered, CallerOK, EditOK, Editor, Blocked
<1> QED
  BY <1>1, <1>2, <1>3, <1>4, HandleIInv, TickIInv DEF Next

THEOREM Inductive == Spec => []IInv
<1> QED
  BY InitIInv, StepIInv, PTL DEF Spec

-----------------------------------------------------------------------------
\* Rows, instances, tokens, locals and the bus stay in their types: in particular
\* attempts never pass the threshold, whoever reports them.
THEOREM AuthTypeCorrect == Spec => []TypeOK
<1>1. IInv => TypeOK
  BY DEF IInv
<1> QED
  BY <1>1, Inductive, PTL

\* No path of a refresh, a report or a save returns with the account's lock.
THEOREM LockGivenBack == Spec => []LockReturned
<1>1. IInv => LockReturned
  BY DEF IInv, CallerOK, LockReturned
<1> QED
  BY <1>1, Inductive, PTL

\* As long as no named loss has happened, somebody still has a token that the drive
\* accepts: the row, the cached instance, or the refresh that is storing it.
THEOREM CredentialsKept == Spec => []TokenKept
<1>1. IInv => TokenKept
  BY DEF IInv
<1> QED
  BY <1>1, Inductive, PTL

\* Only ExchangeFails and Exchange leave the exchange for `persist' or `finish'; a
\* caller that is there was let in by Lock, and the row has not changed since.
LEMMA ExchangesFresh ==
  ASSUME IInv, Exchanges, apart PROVE since = 0 /\ ~Blocked(row)
<1>1. PICK c \in Caller : pc[c] = "exchange"
  BY DEF Exchanges
<1> QED
  BY <1>1 DEF IInv, CallerOK

\* The drive is not asked for a second exchange inside the window of a success,
\* however many callers wait for the lock.
THEOREM ExchangesSpaced == Spec => ReuseWindow
<1>1. IInv /\ [Next]_vars => [Exchanges /\ apart => since = 0]_vars
  BY ExchangesFresh
<1> QED
  BY <1>1, Inductive, PTL DEF Spec, ReuseWindow

\* Nor during the pause that follows a failure.
THEOREM FailuresPause == Spec => BackoffHolds
<1>1. IInv /\ [Next]_vars => [Exchanges /\ apart => ~Blocked(row)]_vars
  BY ExchangesFresh
<1> QED
  BY <1>1, Inductive, PTL DEF Spec, BackoffHolds

-----------------------------------------------------------------------------
(* The tasks follow the row.  What has been published tells what the row says, *)
(* unless the holder of the lock is about to publish the change; a form that   *)
(* throws no switch ends with the account as it was; and for an account that   *)
(* is disabled throughout nobody gets as far as an attempt.                    *)

\* What the tasks will have been told last when the bus is empty.
Told == IF bus = <<>> THEN tasks = "failed" ELSE bus[Len(bus)] = "failed"

Attempting == {"lock", "exchange", "persist", "store", "finish", "report"}
Writing    == {"write", "publish"}

Saves(l, j) == \/ l \in {"fields", "drop", "recover", "lifecycle"}
               \/ l \in Writing /\ j.kind = "recover"

SaveOK(c) ==
  /\ pc[c] \in Attempting => job[c].kind # "recover"
  /\ ~switched =>
       /\ pc[c] \in {"ping", "account"} => job[c].was = enabled
       /\ Saves(pc[c], job[c]) => job[c].was = enabled /\ job[c].want = enabled
       /\ pc[c] \in Writing => job[c].told = enabled

\* The outcome of j is a failed or an expired account.
Falls(j) ==
  /\ j.how \notin {"success", "recover"}
  /\ \/ j.how = "fatal" \/ Bad(j.row)
     \/ j.how = "auth" /\ (j.row.attempts = Threshold \/ j.row.attempts + 1 = Threshold)

Live ==
  /\ tasks # "disabled"
  /\ (\A c \in Caller : pc[c] # "publish") => (Told <=> Bad(row))
  /\ \A c \in Caller : pc[c] = "publish" => (Bad(row) <=> Falls(job[c]))
                                            /\ (Told <=> Bad(job[c].row))

IdleJob(l, j) == /\ l \notin Attempting \cup {"api", "again"}
                 /\ l \in Writing => j.how = "recover" /\ j.kind = "recover"

Dead == /\ row.status = "active" /\ ~managed /\ tasks # "failed" /\ bus = <<>>
        /\ \A c \in Caller : IdleJob(pc[c], job[c])

FollowInv ==
  /\ \A c \in Caller : SaveOK(c)
  /\ apart /\ ~switched => (enabled => Live) /\ (~enabled => Dead)

LEMMA FallsFacts ==
  ASSUME NEW j \in Job
  PROVE  /\ Bad(Outcome(j)) <=> Falls(j)
         /\ Outcome(j).status = "active" <=> j.how \in {"success", "recover"}
<1> USE ConstantsAssumption DEF Row
<1>1. j.row \in Row /\ j.how \in How
  BY DEF Job
<1>2. CASE j.how \in {"success", "recover"}
  <2>1. Outcome(j).status = "active"
    BY <1>1, <1>2 DEF Outcome, MarkSuccess
  <2> QED BY <1>2, <2>1 DEF Bad, Falls
<1>3. CASE j.how \notin {"success", "recover"}
  <2> DEFINE n == IF j.how = "auth" /\ j.row.attempts < Threshold THEN j.row.attempts + 1 ELSE j.row.attempts
             s == IF j.how = "fatal" THEN "expired"
                  ELSE IF j.how = "auth" /\ n = Threshold THEN "failed"
                  ELSE IF Bad(j.row) THEN j.row.status ELSE "cooldown"
             t == IF s = "cooldown" THEN Cooldown ELSE FailedRetry
  <2>1. n \in Nat /\ s # "active" /\ (s \in {"failed", "expired"} <=> Falls(j))
    <3>1. j.row.attempts \in 0..Threshold
      BY <1>1
    <3>2. j.how = "auth" => (n = Threshold <=> j.row.attempts = Threshold \/ j.row.attempts + 1 = Threshold)
      BY <3>1
    <3> QED BY <1>3, <3>1, <3>2 DEF Falls, Bad
  <2>2. Outcome(j) = [j.row EXCEPT !.status = s, !.attempts = n, !.retry = t]
    BY <1>3 DEF Outcome, HandleFailure
  <2> HIDE DEF n, s, t
  <2>3. Outcome(j).status = s
    BY <1>1, <2>2
  <2> QED
    BY <1>3, <2>1, <2>3 DEF Bad
<1> QED
  BY <1>2, <1>3

-----------------------------------------------------------------------------
(* Where an attempt lands, as far as these facts go.                           *)

Alone1(c) == \A d \in Caller : d # c => pc'[d] = pc[d] /\ job'[d] = job[d]

Settles(c) ==
  /\ Alone1(c) /\ pc'[c] \in Rest \cup {"again"}
  /\ job'[c].kind # "recover"
  /\ pc'[c] = "lifecycle" => /\ job[c].kind = "recover"
                             /\ job'[c].was = job[c].was /\ job'[c].want = job[c].want

LEMMA EndSettles == ASSUME TypeOK, NEW c \in Caller, End(c) PROVE Settles(c)
  BY NoJobFacts DEF End, Goto, Set, Settles, Alone1, Rest, TypeOK

LEMMA AuthErrorSettles == ASSUME TypeOK, NEW c \in Caller, AuthError(c) PROVE Settles(c)
<1>1. /\ [NoJob EXCEPT !.second = TRUE].kind = "none"
      /\ [NoJob EXCEPT !.kind = "passive"].kind = "passive"
  BY NoJobFacts DEF Job
<1> QED
  BY <1>1 DEF AuthError, Goto, Set, Settles, Alone1, Rest, TypeOK

LEMMA FailedSettles ==
  ASSUME TypeOK, NEW c \in Caller, NEW how, Failed(c, how) PROVE Settles(c)
  BY EndSettles, AuthErrorSettles DEF Failed

LEMMA SucceededSettles ==
  ASSUME TypeOK, NEW c \in Caller, Succeeded(c, job[c].kind) PROVE Settles(c)
<1> DEFINE k == job[c].kind
<1>1. job[c] \in Job
  BY DEF TypeOK
<1>2. CASE k = "gate"
  BY <1>2, NoJobFacts DEF Succeeded, Goto, Set, Settles, Alone1, Rest, TypeOK
<1>3. CASE k = "inline"
  <2> DEFINE j == [NoJob EXCEPT !.second = job[c].second, !.inst = job[c].inst]
  <2>1. j.kind = "none"
    BY NoJobFacts DEF Job
  <2> HIDE DEF j
  <2>2. pc' = [pc EXCEPT ![c] = "again"] /\ job' = [job EXCEPT ![c] = j]
    BY <1>3 DEF Succeeded, Goto, Set, j
  <2> QED BY <2>1, <2>2 DEF Settles, Alone1, Rest, TypeOK
<1>4. CASE k = "passive"
  <2> DEFINE j == [NoJob EXCEPT !.second = TRUE]
  <2>1. j.kind = "none"
    BY NoJobFacts DEF Job
  <2> HIDE DEF j
  <2>2. pc' = [pc EXCEPT ![c] = "get"] /\ job' = [job EXCEPT ![c] = j]
    BY <1>4 DEF Succeeded, Goto, Set, j
  <2> QED BY <2>1, <2>2 DEF Settles, Alone1, Rest, TypeOK
<1>5. CASE k = "recover"
  <2>1. /\ Edited(job[c]).kind = "none"
        /\ Edited(job[c]).was = job[c].was /\ Edited(job[c]).want = job[c].want
    BY NoJobFacts DEF Edited, Job
  <2>2. pc' = [pc EXCEPT ![c] = "lifecycle"] /\ job' = [job EXCEPT ![c] = Edited(job[c])]
    BY <1>5 DEF Succeeded, Goto, Set
  <2> QED BY <1>5, <2>1, <2>2 DEF Settles, Alone1, Rest, TypeOK
<1>6. CASE k \notin {"gate", "inline", "passive", "recover"}
  BY <1>6, EndSettles DEF Succeeded
<1> QED
  BY <1>2, <1>3, <1>4, <1>5, <1>6

-----------------------------------------------------------------------------
(* A step of one caller that publishes nothing, and leaves the account's state *)
(* and the tasks as they are.                                                  *)

Quiet(c) ==
  /\ Alone1(c) /\ pc[c] # "publish" /\ pc'[c] # "publish"
  /\ apart' => apart /\ row'.status = row.status
  /\ ~switched' => ~switched /\ enabled' = enabled
  /\ bus' = bus
  /\ ~switched' => (enabled => tasks' = tasks) /\ (tasks' = "failed" => tasks = "failed")
  /\ ~switched' /\ ~enabled /\ ~managed => ~managed'

LEMMA QuietStep ==
  ASSUME FollowInv, NEW c \in Caller, Quiet(c), SaveOK(c)',
         apart' /\ ~switched' /\ ~enabled /\ Dead => IdleJob(pc'[c], job'[c])
  PROVE  FollowInv'
<1>1. ASSUME NEW d \in Caller PROVE SaveOK(d)'
  BY <1>1 DEF FollowInv, SaveOK, Quiet, Alone1
<1>3. ASSUME apart', ~switched', enabled' PROVE Live'
  <2>1. Live /\ tasks' = tasks /\ bus' = bus /\ (Bad(row') <=> Bad(row))
    BY <1>3 DEF FollowInv, Quiet, Bad
  <2>2. Told' <=> Told
    BY <2>1 DEF Told
  <2>3. \A d \in Caller : /\ pc'[d] = "publish" <=> pc[d] = "publish"
                          /\ pc'[d] = "publish" => job'[d] = job[d]
    BY DEF Quiet, Alone1
  <2> QED
    BY <2>1, <2>2, <2>3 DEF Live, Bad, Falls
<1>4. ASSUME apart', ~switched', ~enabled' PROVE Dead'
  <2>1. Dead /\ apart /\ ~enabled
    BY <1>4 DEF FollowInv, Quiet
  <2>2. ASSUME NEW d \in Caller PROVE IdleJob(pc'[d], job'[d])
    BY <1>4, <2>1 DEF Dead, Quiet, Alone1
  <2> QED
    BY <1>4, <2>1, <2>2 DEF Dead, Quiet
<1> QED
  BY <1>1, <1>3, <1>4 DEF FollowInv

\* The other callers' locals and places are not the step's.
LEMMA MovesAlone ==
  ASSUME TypeOK, NEW c \in Caller, NEW l, NEW j,
         pc' = [pc EXCEPT ![c] = l], job' = [job EXCEPT ![c] = j]
  PROVE  Alone1(c) /\ pc'[c] = l /\ job'[c] = j
  BY DEF TypeOK, Alone1

\* The steps that end or hand over an attempt outside of publication.
LEMMA SettlingFollows ==
  ASSUME IInv, FollowInv, NEW c \in Caller, Settles(c), pc[c] # "publish",
         pc'[c] # "lifecycle", Dead => pc'[c] = "idle",
         UNCHANGED <<accountVars, bus, tasks, switched>>, apart' = apart
  PROVE  FollowInv'
<1> USE DEF accountVars
<1>1. pc'[c] \in Rest /\ pc'[c] \notin {"lifecycle", "publish"} \cup Writing
  BY DEF Settles, Rest, Writing
<1>2. SaveOK(c)'
  BY <1>1 DEF SaveOK, Saves, Settles, Rest, Attempting, Writing
<1>3. Dead => IdleJob(pc'[c], job'[c])
  BY DEF IdleJob, Attempting, Writing
<1>4. Quiet(c)
  BY <1>1 DEF Quiet, Settles
<1> QED
  BY <1>2, <1>3, <1>4, QuietStep

-----------------------------------------------------------------------------
(* The steps of a request.                                                     *)

LEMMA CallFollows ==
  ASSUME IInv, FollowInv, NEW c \in Caller, Call(c) PROVE FollowInv'
<1> USE DEF accountVars, driveVars, managerVars, taskVars, history
<1>1. TypeOK /\ job[c] \in Job /\ SaveOK(c) /\ row \in Row
  BY DEF IInv, TypeOK, FollowInv
<1>2. CASE GetRefused(c) \/ ApiAnswers(c) \/ AgainUnauthorized(c) \/ ApiBreaks(c)
  <2>1. Settles(c) /\ pc'[c] # "lifecycle" /\ pc[c] # "publish"
    <3>1. End(c) \/ AuthError(c)
      BY <1>2 DEF GetRefused, ApiAnswers, AgainUnauthorized, ApiBreaks
    <3>2. pc'[c] \in {"idle", "report", "lock"}
      BY <1>1, <3>1 DEF End, AuthError, Goto, TypeOK
    <3> QED
      BY <1>1, <1>2, <3>1, <3>2, EndSettles, AuthErrorSettles
         DEF GetRefused, ApiAnswers, AgainUnauthorized, ApiBreaks
  <2>2. UNCHANGED <<accountVars, bus, tasks, switched>> /\ apart' = apart
    BY <1>2 DEF GetRefused, ApiAnswers, AgainUnauthorized, ApiBreaks
  <2>3. Dead => pc'[c] = "idle"
    <3>1. CASE GetRefused(c)
      BY <1>1, <3>1 DEF GetRefused, Dead, Blocked, End, Goto, TypeOK
    <3>2. CASE ApiAnswers(c) \/ AgainUnauthorized(c) \/ ApiBreaks(c)
      BY <3>2 DEF ApiAnswers, AgainUnauthorized, ApiBreaks, Dead, IdleJob
    <3> QED
      BY <1>2, <3>1, <3>2
  <2> QED
    BY <2>1, <2>2, <2>3, SettlingFollows
<1>3. CASE Request(c) \/ ApiUnauthorized(c) \/ Active(c)
  <2>1. /\ Alone1(c) /\ pc[c] # "publish" /\ pc'[c] \in {"get", "lock"}
        /\ pc'[c] = "lock" => job'[c].kind \in {"gate", "inline", "active"}
    <3>1. CASE Request(c)
      <4>1. [NoJob EXCEPT !.kind = "gate"].kind = "gate"
        BY NoJobFacts DEF Job
      <4> QED
        BY <1>1, <3>1, <4>1 DEF Request, Goto, Set, Alone1, TypeOK
    <3>2. CASE ApiUnauthorized(c)
      <4>1. [job[c] EXCEPT !.kind = "inline"].kind = "inline"
        BY <1>1 DEF Job
      <4> QED
        BY <1>1, <3>2, <4>1 DEF ApiUnauthorized, Goto, Set, Alone1, TypeOK
    <3>3. CASE Active(c)
      <4>1. [NoJob EXCEPT !.kind = "active"].kind = "active"
        BY NoJobFacts DEF Job
      <4> QED
        BY <1>1, <3>3, <4>1 DEF Active, Goto, Set, Alone1, TypeOK
    <3> QED
      BY <1>3, <3>1, <3>2, <3>3
  <2>2. UNCHANGED <<accountVars, bus, tasks, apart, switched>>
    BY <1>3 DEF Request, ApiUnauthorized, Active
  <2>3. Quiet(c)
    BY <2>1, <2>2 DEF Quiet
  <2>4. SaveOK(c)'
    BY <2>1 DEF SaveOK, Saves, Attempting, Writing
  <2>5. Dead => pc'[c] = "get"
    <3>1. CASE Request(c)
      BY <1>1, <3>1 DEF Request, Goto, Dead, TypeOK
    <3>2. CASE ApiUnauthorized(c) \/ Active(c)
      BY <3>2 DEF ApiUnauthorized, Active, Dead, IdleJob
    <3> QED
      BY <1>3, <3>1, <3>2
  <2>6. Dead => IdleJob(pc'[c], job'[c])
    BY <2>5 DEF IdleJob, Attempting, Writing
  <2> QED
    BY <2>3, <2>4, <2>6, QuietStep
<1>4. CASE GetDriver(c)
  <2>1. PICK i \in Instance : Set(c, [job[c] EXCEPT !.inst = i, !.kind = "none"]) /\ Goto(c, "api")
    BY <1>4 DEF GetDriver, Take
  <2>2. Alone1(c) /\ pc'[c] = "api" /\ pc[c] = "get"
    BY <1>1, <1>4, <2>1, MovesAlone DEF GetDriver, Goto, Set
  <2>3. enabled /\ UNCHANGED <<row, enabled, bus, tasks, apart, switched>>
    BY <1>4 DEF GetDriver
  <2>4. Quiet(c)
    BY <2>2, <2>3 DEF Quiet
  <2>5. SaveOK(c)'
    BY <2>2 DEF SaveOK, Saves, Attempting, Writing
  <2> QED
    BY <2>3, <2>4, <2>5, QuietStep
<1>5. CASE Report(c)
  <2>1. pc[c] = "report" /\ UNCHANGED <<accountVars, bus, tasks, switched>>
        /\ (apart' => apart)
    <3>1. apart \in BOOLEAN
      BY <1>1 DEF TypeOK
    <3> QED
      BY <1>5, <3>1 DEF Report
  <2>d. ~Dead
    BY <2>1 DEF Dead, IdleJob, Attempting
  <2>2. CASE row.status = "active"
    <3> DEFINE j == [job[c] EXCEPT !.how = "auth", !.row = row, !.told = enabled]
    <3>1. /\ j.kind = job[c].kind /\ j.how = "auth" /\ j.row = row /\ j.told = enabled
          /\ j.was = job[c].was /\ j.want = job[c].want
      BY <1>1 DEF Job
    <3> HIDE DEF j
    <3>2. pc' = [pc EXCEPT ![c] = "write"] /\ job' = [job EXCEPT ![c] = j]
      BY <1>5, <2>2 DEF Report, Goto, Set, j
    <3>3. Alone1(c) /\ pc'[c] = "write" /\ job'[c] = j
      BY <1>1, <3>2, MovesAlone
    <3>4. Quiet(c)
      BY <2>1, <3>3 DEF Quiet
    <3>5. job[c].kind # "recover"
      BY <1>1, <2>1 DEF SaveOK, Attempting
    <3>6. SaveOK(c)'
      BY <2>1, <3>1, <3>3, <3>5 DEF SaveOK, Saves, Attempting, Writing
    <3> QED
      BY <2>d, <3>4, <3>6, QuietStep
  <2>3. CASE row.status # "active"
    <3>1. End(c) /\ apart' = apart
      BY <1>5, <2>3 DEF Report
    <3>2. Settles(c) /\ pc'[c] = "idle"
      BY <1>1, <3>1, EndSettles DEF End, Goto, TypeOK
    <3> QED
      BY <2>1, <3>1, <3>2, SettlingFollows
  <2> QED
    BY <2>2, <2>3
<1> QED
  BY <1>2, <1>3, <1>4, <1>5 DEF Call

-----------------------------------------------------------------------------
(* The steps of a refresh that neither write nor publish.                      *)

LEMMA LockFollows ==
  ASSUME IInv, FollowInv, NEW c \in Caller, Lock(c) PROVE FollowInv'
<1> USE DEF accountVars, driveVars, taskVars
<1>1. TypeOK /\ job[c] \in Job /\ SaveOK(c) /\ apart \in BOOLEAN
  BY DEF IInv, TypeOK, FollowInv
<1>2. /\ pc[c] = "lock" /\ UNCHANGED <<row, enabled, bus, tasks, switched>>
      /\ (apart' => apart) /\ job[c].kind # "recover" /\ ~Dead /\ managed' = managed
  BY <1>1 DEF Lock, SaveOK, Attempting, Dead, IdleJob
<1>3. /\ Alone1(c) /\ pc'[c] \in {"exchange", "finish"} /\ job'[c].kind = job[c].kind
  <2>1. CASE job[c].kind = "inline"
    BY <1>1, <2>1 DEF Lock, Goto, Alone1, TypeOK, managerVars
  <2>2. CASE job[c].kind # "inline" /\ enabled
    <3>1. CASE Take(c, "exchange", job[c].kind)
      <4>1. PICK i \in Instance :
              Set(c, [job[c] EXCEPT !.inst = i, !.kind = job[c].kind]) /\ Goto(c, "exchange")
        BY <3>1 DEF Take
      <4> DEFINE j == [job[c] EXCEPT !.inst = i, !.kind = job[c].kind]
      <4>2. j.kind = job[c].kind
        BY <1>1 DEF Job
      <4>3. pc' = [pc EXCEPT ![c] = "exchange"] /\ job' = [job EXCEPT ![c] = j]
        BY <4>1 DEF Goto, Set
      <4> HIDE DEF j
      <4>4. Alone1(c) /\ pc'[c] = "exchange" /\ job'[c] = j
        BY <1>1, <4>3, MovesAlone
      <4> QED
        BY <2>2, <4>2, <4>4
    <3> QED
      BY <2>2, <3>1 DEF Lock
  <2>3. CASE job[c].kind # "inline" /\ ~enabled
    <3> DEFINE j == [job[c] EXCEPT !.how = "other"]
    <3>1. j.kind = job[c].kind
      BY <1>1 DEF Job
    <3> HIDE DEF j
    <3>2. /\ pc' = [pc EXCEPT ![c] = "finish"] /\ job' = [job EXCEPT ![c] = j]
      BY <2>3 DEF Lock, Goto, Set, j
    <3> QED
      BY <1>1, <3>1, <3>2, MovesAlone
  <2> QED
    BY <2>1, <2>2, <2>3
<1>4. Quiet(c)
  BY <1>2, <1>3 DEF Quiet
<1>5. SaveOK(c)'
  BY <1>2, <1>3 DEF SaveOK, Saves, Attempting, Writing
<1> QED
  BY <1>2, <1>4, <1>5, QuietStep

LEMMA ExchangingFollows ==
  ASSUME IInv, FollowInv, NEW c \in Caller,
         Exchange(c) \/ ExchangeFails(c) \/ Persist(c) \/ Store(c)
  PROVE  FollowInv'
<1> USE DEF driveVars, managerVars, taskVars, history
<1>1. TypeOK /\ job[c] \in Job /\ SaveOK(c) /\ row \in Row
  BY DEF IInv, TypeOK, FollowInv
<1>2. /\ pc[c] \in {"exchange", "persist", "store"}
      /\ UNCHANGED <<enabled, managed, bus, tasks, apart, switched>>
  BY DEF Exchange, ExchangeFails, Persist, Store, accountVars
<1>3. ~Dead /\ job[c].kind # "recover"
  BY <1>1, <1>2 DEF SaveOK, Attempting, Dead, IdleJob
<1>4. Alone1(c) /\ pc'[c] \in {"persist", "store", "finish"} /\ job'[c].kind = job[c].kind
  <2>1. CASE Exchange(c)
    BY <1>1, <2>1 DEF Exchange, Goto, Alone1, TypeOK
  <2>2. CASE ExchangeFails(c)
    <3>1. PICK how \in {"fatal", "auth", "other"} : Set(c, [job[c] EXCEPT !.how = how])
      BY <2>2 DEF ExchangeFails
    <3> DEFINE j == [job[c] EXCEPT !.how = how]
    <3>2. j.kind = job[c].kind
      BY <1>1 DEF Job
    <3>3. pc' = [pc EXCEPT ![c] = "finish"] /\ job' = [job EXCEPT ![c] = j]
      BY <2>2, <3>1 DEF ExchangeFails, Goto, Set
    <3> HIDE DEF j
    <3> QED
      BY <1>1, <3>2, <3>3, MovesAlone
  <2>3. CASE Persist(c)
    <3>1. [job[c] EXCEPT !.row = row].kind = job[c].kind
      BY <1>1 DEF Job
    <3> QED
      BY <1>1, <2>3, <3>1, MovesAlone DEF Persist, Goto, Set
  <2>4. CASE Store(c)
    <3> DEFINE j == [job[c] EXCEPT !.how = "success"]
    <3>1. j.kind = job[c].kind
      BY <1>1 DEF Job
    <3>2. pc' = [pc EXCEPT ![c] = "finish"] /\ job' = [job EXCEPT ![c] = j]
      BY <2>4 DEF Store, Goto, Set
    <3> HIDE DEF j
    <3> QED
      BY <1>1, <3>1, <3>2, MovesAlone
  <2> QED
    BY <2>1, <2>2, <2>3, <2>4
<1>5. apart => row'.status = row.status
  <2>1. CASE Exchange(c) \/ ExchangeFails(c) \/ Persist(c)
    BY <2>1 DEF Exchange, ExchangeFails, Persist, accountVars
  <2>2. CASE Store(c)
    <3>1. apart => job[c].row = row
      BY <2>2 DEF Store, IInv, CallerOK
    <3>2. apart => row' = [row EXCEPT !.token = token[job[c].inst]]
      BY <2>2, <3>1 DEF Store
    <3> QED
      BY <1>1, <3>2 DEF Row
  <2> QED
    BY <2>1, <2>2
<1>6. Quiet(c)
  BY <1>2, <1>4, <1>5 DEF Quiet
<1>7. SaveOK(c)'
  BY <1>3, <1>4 DEF SaveOK, Saves, Attempting, Writing
<1> QED
  BY <1>3, <1>6, <1>7, QuietStep

LEMMA FinishFollows ==
  ASSUME IInv, FollowInv, NEW c \in Caller, Finish(c) PROVE FollowInv'
<1> USE DEF accountVars, driveVars, managerVars, taskVars, history
<1> DEFINE j == [job[c] EXCEPT !.row = row, !.told = enabled]
<1>1. TypeOK /\ job[c] \in Job /\ SaveOK(c)
  BY DEF IInv, TypeOK, FollowInv
<1>2. /\ j.kind = job[c].kind /\ j.how = job[c].how /\ j.row = row /\ j.told = enabled
  BY <1>1 DEF Job
<1>3. /\ pc' = [pc EXCEPT ![c] = "write"] /\ job' = [job EXCEPT ![c] = j]
      /\ pc[c] = "finish"
      /\ UNCHANGED <<row, enabled, managed, bus, tasks, apart, switched>>
  BY DEF Finish, Goto, Set
<1> HIDE DEF j
<1>4. Alone1(c) /\ pc'[c] = "write" /\ job'[c] = j
  BY <1>1, <1>3, MovesAlone
<1>5. Quiet(c)
  BY <1>3, <1>4 DEF Quiet
<1>6. job[c].kind # "recover" /\ ~Dead
  BY <1>1, <1>3 DEF SaveOK, Attempting, Dead, IdleJob
<1>7. SaveOK(c)'
  BY <1>2, <1>3, <1>4, <1>6 DEF SaveOK, Saves, Attempting, Writing
<1> QED
  BY <1>5, <1>6, <1>7, QuietStep

LEMMA LeavingFollows ==
  ASSUME IInv, FollowInv, NEW c \in Caller, Reuse(c) \/ Refuse(c) \/ Cancel(c)
  PROVE  FollowInv'
<1> USE DEF driveVars, managerVars, taskVars, history
<1>1. TypeOK /\ SaveOK(c)
  BY DEF IInv, TypeOK, FollowInv
<1>2. /\ UNCHANGED <<accountVars, bus, tasks, switched>> /\ apart' = apart
      /\ pc[c] # "publish"
  BY DEF Reuse, Refuse, Cancel
<1>3. Settles(c)
  BY <1>1, EndSettles, FailedSettles, SucceededSettles DEF Reuse, Refuse, Cancel
<1>4. pc'[c] # "lifecycle"
  <2>1. CASE Reuse(c) \/ Refuse(c)
    BY <1>1, <1>3, <2>1 DEF Reuse, Refuse, Settles, SaveOK, Attempting
  <2>2. CASE Cancel(c)
    BY <1>1, <2>2 DEF Cancel, End, Goto, TypeOK
  <2> QED
    BY <2>1, <2>2
<1>5. Dead => pc'[c] = "idle"
  <2>1. CASE Reuse(c) \/ Refuse(c)
    BY <2>1 DEF Reuse, Refuse, Dead, IdleJob, Attempting
  <2>2. CASE Cancel(c)
    BY <1>1, <2>2 DEF Cancel, End, Goto, TypeOK
  <2> QED
    BY <2>1, <2>2
<1> QED
  BY <1>2, <1>3, <1>4, <1>5, SettlingFollows

-----------------------------------------------------------------------------
(* The steps of a save and of a switch.                                        *)

LEMMA SubmitFollows ==
  ASSUME IInv, FollowInv, NEW c \in Caller, Submit(c) PROVE FollowInv'
<1> USE DEF accountVars, managerVars, taskVars
<1>1. TypeOK /\ job[c] \in Job /\ apart \in BOOLEAN
  BY DEF IInv, TypeOK
<1>2. /\ pc[c] = "form" /\ UNCHANGED <<row, enabled, managed, bus, tasks, switched>>
      /\ (apart' => apart)
  BY <1>1 DEF Submit
<1>3. PICK want \in BOOLEAN, t \in {job[c].token} \cup ((minted + 1)..MaxToken \cap {minted + 1}) :
        Set(c, [job[c] EXCEPT !.row = row, !.was = enabled, !.want = want,
                              !.token = t, !.changed = (t # row.token)])
  BY DEF Submit
<1> DEFINE j == [job[c] EXCEPT !.row = row, !.was = enabled, !.want = want,
                               !.token = t, !.changed = (t # row.token)]
<1>4. j.was = enabled
  BY <1>1 DEF Job
<1>5. pc' = [pc EXCEPT ![c] = "ping"] /\ job' = [job EXCEPT ![c] = j]
  BY <1>3 DEF Submit, Goto, Set
<1> HIDE DEF j
<1>6. Alone1(c) /\ pc'[c] = "ping" /\ job'[c] = j
  BY <1>1, <1>5, MovesAlone
<1>7. Quiet(c)
  BY <1>2, <1>6 DEF Quiet
<1>8. SaveOK(c)'
  BY <1>2, <1>4, <1>6 DEF SaveOK, Saves, Attempting, Writing
<1>9. Dead => IdleJob(pc'[c], job'[c])
  BY <1>6 DEF IdleJob, Attempting, Writing
<1> QED
  BY <1>7, <1>8, <1>9, QuietStep

LEMMA SaveFieldsFollows ==
  ASSUME IInv, FollowInv, NEW c \in Caller, SaveFields(c) PROVE FollowInv'
<1> USE DEF driveVars, managerVars, taskVars, history
<1>1. TypeOK /\ job[c] \in Job /\ SaveOK(c) /\ row \in Row
  BY DEF IInv, TypeOK, FollowInv
<1>2. /\ pc[c] = "fields" /\ UNCHANGED <<enabled, managed, bus, tasks, apart, switched>>
  BY DEF SaveFields
<1>3. /\ Edited(job[c]).was = job[c].was /\ Edited(job[c]).want = job[c].want
  BY <1>1, NoJobFacts DEF Edited, Job
<1>4. pc' = [pc EXCEPT ![c] = "drop"] /\ job' = [job EXCEPT ![c] = Edited(job[c])]
  BY DEF SaveFields, Goto, Set
<1>5. Alone1(c) /\ pc'[c] = "drop" /\ job'[c] = Edited(job[c])
  BY <1>1, <1>4, MovesAlone
<1>6. apart => row'.status = row.status
  <2>1. CASE job[c].changed
    <3>1. apart => job[c].row = row
      BY <1>2, <2>1 DEF IInv, CallerOK, EditOK, Editor, EditorAt
    <3>2. apart => row' = [row EXCEPT !.token = job[c].token, !.recent = Window]
      BY <2>1, <3>1 DEF SaveFields
    <3> QED
      BY <1>1, <3>2 DEF Row
  <2>2. CASE ~job[c].changed
    BY <2>2 DEF SaveFields
  <2> QED
    BY <2>1, <2>2
<1>7. Quiet(c)
  BY <1>2, <1>5, <1>6 DEF Quiet
<1>8. SaveOK(c)'
  BY <1>1, <1>2, <1>3, <1>5 DEF SaveOK, Saves, Attempting, Writing
<1>9. Dead => IdleJob(pc'[c], job'[c])
  BY <1>5 DEF IdleJob, Attempting, Writing
<1> QED
  BY <1>7, <1>8, <1>9, QuietStep

LEMMA RecoverFollows ==
  ASSUME IInv, FollowInv, NEW c \in Caller, Recover(c) PROVE FollowInv'
<1> USE DEF accountVars, driveVars, managerVars, taskVars
<1> DEFINE j == [job[c] EXCEPT !.kind = "recover", !.how = "recover", !.row = row, !.told = enabled]
<1>1. TypeOK /\ job[c] \in Job /\ SaveOK(c) /\ apart \in BOOLEAN
  BY DEF IInv, TypeOK, FollowInv
<1>2. /\ pc[c] = "recover" /\ UNCHANGED <<row, enabled, managed, bus, tasks, switched>>
      /\ (apart' => apart)
  BY <1>1 DEF Recover
<1>3. /\ j.kind = "recover" /\ j.how = "recover" /\ j.told = enabled
      /\ j.was = job[c].was /\ j.want = job[c].want
  BY <1>1 DEF Job
<1>4. pc' = [pc EXCEPT ![c] = "write"] /\ job' = [job EXCEPT ![c] = j]
  BY DEF Recover, Goto, Set
<1> HIDE DEF j
<1>5. Alone1(c) /\ pc'[c] = "write" /\ job'[c] = j
  BY <1>1, <1>4, MovesAlone
<1>6. Quiet(c)
  BY <1>2, <1>5 DEF Quiet
<1>7. SaveOK(c)'
  BY <1>1, <1>2, <1>3, <1>5 DEF SaveOK, Saves, Attempting, Writing
<1>8. Dead => IdleJob(pc'[c], job'[c])
  BY <1>3, <1>5 DEF IdleJob, Attempting, Writing
<1> QED
  BY <1>6, <1>7, <1>8, QuietStep

\* Neither the form's nor the switch's other steps touch the row.
LEMMA SavingFollows ==
  ASSUME IInv, FollowInv, NEW c \in Caller,
         OpenForm(c) \/ Ping(c) \/ SaveAccount(c) \/ Drop(c) \/ Toggle(c) \/ Flip(c)
  PROVE  FollowInv'
<1> USE DEF accountVars, driveVars, managerVars, taskVars, history
<1>1. TypeOK /\ job[c] \in Job /\ SaveOK(c)
  BY DEF IInv, TypeOK, FollowInv
<1>2. /\ pc[c] \in {"idle", "ping", "account", "drop", "toggle"}
      /\ UNCHANGED <<row, managed, bus, tasks, apart>>
  BY DEF OpenForm, Ping, SaveAccount, Drop, Toggle, Flip
<1>3. ~switched' => ~switched /\ enabled' = enabled
  BY <1>1 DEF OpenForm, Ping, SaveAccount, Drop, Toggle, Flip, TypeOK
<1>4. Alone1(c) /\ pc'[c] \in {"form", "account", "fields", "recover", "toggle", "lifecycle"}
  BY <1>1 DEF OpenForm, Ping, SaveAccount, Drop, Toggle, Flip, Goto, Set, Alone1, TypeOK
<1>5. Quiet(c)
  BY <1>2, <1>3, <1>4 DEF Quiet
<1>6. SaveOK(c)'
  <2>1. CASE OpenForm(c) \/ Toggle(c)
    BY <1>1, <2>1 DEF OpenForm, Toggle, Goto, SaveOK, Saves, Attempting, Writing, TypeOK
  <2>2. CASE Ping(c)
    BY <1>1, <2>2 DEF Ping, Goto, SaveOK, Saves, Attempting, Writing, TypeOK
  <2>3. CASE SaveAccount(c)
    BY <1>1, <2>3 DEF SaveAccount, Goto, SaveOK, Saves, Attempting, Writing, TypeOK
  <2>4. CASE Drop(c)
    BY <1>1, <2>4 DEF Drop, Goto, SaveOK, Saves, Attempting, Writing, TypeOK
  <2>5. CASE Flip(c)
    BY <1>1, <2>5 DEF Flip, Goto, SaveOK, Saves, Attempting, Writing, TypeOK
  <2> QED
    BY <2>1, <2>2, <2>3, <2>4, <2>5
<1>7. Dead => IdleJob(pc'[c], job'[c])
  BY <1>4 DEF IdleJob, Attempting, Writing
<1> QED
  BY <1>5, <1>6, <1>7, QuietStep

LEMMA LifecycleFollows ==
  ASSUME IInv, FollowInv, NEW c \in Caller, Lifecycle(c) PROVE FollowInv'
<1> USE DEF driveVars, managerVars, history
<1>1. TypeOK /\ SaveOK(c)
  BY DEF IInv, TypeOK, FollowInv
<1>2. /\ pc[c] = "lifecycle" /\ End(c)
      /\ UNCHANGED <<row, enabled, bus, apart, switched>>
  BY DEF Lifecycle
<1>3. Settles(c) /\ pc'[c] = "idle"
  BY <1>1, <1>2, EndSettles DEF End, Goto, TypeOK
<1>4. ~switched => job[c].was = enabled /\ job[c].want = enabled
  BY <1>1, <1>2 DEF SaveOK, Saves
<1>5. ~switched => (enabled => tasks' = tasks) /\ (tasks' = "failed" => tasks = "failed")
  BY <1>4 DEF Lifecycle
<1>m. ~switched /\ ~enabled => ~managed'
  BY <1>4 DEF Lifecycle
<1>6. Quiet(c)
  BY <1>2, <1>3, <1>5, <1>m DEF Quiet, Settles
<1>7. SaveOK(c)'
  BY <1>3 DEF SaveOK, Saves, Attempting, Writing
<1>8. Dead => IdleJob(pc'[c], job'[c])
  BY <1>3 DEF IdleJob, Attempting, Writing
<1> QED
  BY <1>6, <1>7, <1>8, QuietStep

-----------------------------------------------------------------------------
(* The write and its event: between them the row says what the tasks have yet  *)
(* to hear.                                                                    *)

\* Nobody else has the lock of the one that writes.
LEMMA OneHolder ==
  ASSUME IInv, NEW c \in Caller, pc[c] \in Writing
  PROVE  lock = c /\ \A d \in Caller : d # c => pc[d] # "publish"
<1>1. \A d \in Caller : lock = d <=> pc[d] \in Holding
  BY DEF IInv, CallerOK
<1> QED
  BY <1>1 DEF Writing, Holding

LEMMA WriteFollows ==
  ASSUME IInv, FollowInv, NEW c \in Caller, Write(c) PROVE FollowInv'
<1> USE DEF driveVars, managerVars, taskVars
<1>1. TypeOK /\ job[c] \in Job /\ SaveOK(c)
  BY DEF IInv, TypeOK, FollowInv
<1>2. /\ pc[c] = "write" /\ row' = Outcome(job[c])
      /\ UNCHANGED <<enabled, managed, bus, tasks, job, apart, switched>>
  BY DEF Write
<1>3. pc'[c] = "publish" /\ \A d \in Caller : d # c => pc'[d] = pc[d] /\ pc'[d] # "publish"
  BY <1>1, <1>2, OneHolder DEF Write, Goto, TypeOK, Writing
<1>4. ASSUME NEW d \in Caller PROVE SaveOK(d)'
  BY <1>1, <1>2, <1>3 DEF FollowInv, SaveOK, Saves, Attempting, Writing
<1>5. Bad(row') <=> Falls(job[c])
  BY <1>1, <1>2, FallsFacts
<1>7. ASSUME apart, ~switched, enabled PROVE Live'
  <2>1. job[c].row = row
    BY <1>2, <1>7 DEF IInv, CallerOK
  <2>2. Live
    BY <1>7 DEF FollowInv
  <2>3. Told <=> Bad(row)
    <3>1. pc[c] \in Writing
      BY <1>2 DEF Writing
    <3>2. \A d \in Caller : pc[d] # "publish"
      BY <1>2, <3>1, OneHolder
    <3> QED
      BY <2>2, <3>2 DEF Live
  <2>4. (Told' <=> Told)
    BY <1>2 DEF Told
  <2>5. tasks' # "disabled"
    BY <1>2, <2>2 DEF Live
  <2>6. ASSUME NEW d \in Caller, pc'[d] = "publish"
        PROVE  (Bad(row') <=> Falls(job'[d])) /\ (Told' <=> Bad(job'[d].row))
    <3>1. d = c /\ job'[d] = job[c]
      BY <1>2, <1>3, <2>6
    <3> QED
      BY <1>5, <2>1, <2>3, <2>4, <3>1
  <2> QED
    BY <1>3, <2>5, <2>6 DEF Live, Bad, Falls
<1>8. ASSUME apart, ~switched, ~enabled PROVE Dead'
  <2>1. Dead
    BY <1>8 DEF FollowInv
  <2>2. job[c].how = "recover" /\ job[c].kind = "recover"
    BY <1>2, <2>1 DEF Dead, IdleJob, Writing
  <2>3. row'.status = "active"
    BY <1>1, <1>2, <2>2, FallsFacts
  <2>4. ASSUME NEW d \in Caller PROVE IdleJob(pc'[d], job'[d])
    <3>1. CASE d = c
      BY <1>2, <1>3, <2>2, <3>1 DEF IdleJob, Attempting, Writing
    <3>2. CASE d # c
      BY <1>2, <1>3, <2>1, <3>2 DEF Dead
    <3> QED
      BY <3>1, <3>2
  <2> QED
    BY <1>2, <2>1, <2>3, <2>4 DEF Dead
<1> QED
  BY <1>2, <1>4, <1>7, <1>8 DEF FollowInv

\* What is published makes the tasks hear what the row says.
LEMMA ToldFacts ==
  ASSUME TypeOK, NEW j \in Job, Told <=> Bad(j.row), j.told,
         bus' = bus \o EventsOf(j), tasks' = tasks
  PROVE  Told' <=> Falls(j)
<1>1. /\ Bad(Outcome(j)) <=> Falls(j)
      /\ Outcome(j).status = "active" <=> j.how \in {"success", "recover"}
  BY FallsFacts
<1>2. bus \in Seq({"failed", "recovered"}) /\ Len(bus) \in Nat
  BY DEF TypeOK
<1>3. CASE EventsOf(j) = <<>>
  <2>1. bus' = bus
    BY <1>2, <1>3
  <2>2. Falls(j) <=> Bad(j.row)
    BY <1>1, <1>3 DEF EventsOf, Bad, Falls
  <2> QED
    BY <2>1, <2>2 DEF Told
<1>4. CASE EventsOf(j) # <<>>
  <2>1. \/ EventsOf(j) = <<"recovered">> /\ ~Falls(j)
        \/ EventsOf(j) = <<"failed">> /\ Falls(j)
    BY <1>1, <1>4 DEF EventsOf, Bad, Falls
  <2>2. ASSUME NEW e \in {"failed", "recovered"}, EventsOf(j) = <<e>>
        PROVE  Told' <=> e = "failed"
    <3>1. bus' = bus \o <<e>>
      BY <2>2
    <3>2. Len(bus') = Len(bus) + 1 /\ bus'[Len(bus')] = e /\ bus' # <<>>
      BY <1>2, <3>1
    <3> QED
      BY <3>2 DEF Told
  <2> QED
    BY <2>1, <2>2
<1> QED
  BY <1>3, <1>4

LEMMA PublishFollows ==
  ASSUME IInv, FollowInv, NEW c \in Caller, Publish(c) PROVE FollowInv'
<1> USE DEF accountVars, driveVars, managerVars, history
<1>1. TypeOK /\ job[c] \in Job /\ SaveOK(c)
  BY DEF IInv, TypeOK, FollowInv
<1>2. /\ pc[c] = "publish" /\ bus' = bus \o EventsOf(job[c])
      /\ UNCHANGED <<row, enabled, managed, tasks, apart, switched>>
  BY DEF Publish
<1>3. Settles(c)
  BY <1>1, FailedSettles, SucceededSettles DEF Publish
<1>4. \A d \in Caller : pc'[d] # "publish"
  BY <1>2, <1>3, OneHolder DEF Settles, Alone1, Rest, Writing
<1>5. ASSUME NEW d \in Caller PROVE SaveOK(d)'
  <2>1. CASE d = c
    BY <1>1, <1>2, <1>3, <2>1 DEF SaveOK, Saves, Settles, Rest, Attempting, Writing
  <2>2. CASE d # c
    BY <1>2, <1>3, <2>2 DEF FollowInv, SaveOK, Settles, Alone1
  <2> QED
    BY <2>1, <2>2
<1>6. ~switched => job[c].told = enabled
  BY <1>1, <1>2 DEF SaveOK, Writing
<1>7. ASSUME apart, ~switched, enabled PROVE Live'
  <2>1. /\ tasks # "disabled" /\ (Bad(row) <=> Falls(job[c])) /\ (Told <=> Bad(job[c].row))
    BY <1>2, <1>7 DEF FollowInv, Live
  <2>2. Told' <=> Falls(job[c])
    BY <1>1, <1>2, <1>6, <1>7, <2>1, ToldFacts
  <2>3. Bad(row') <=> Falls(job[c])
    BY <1>2, <2>1
  <2>4. (Told <=> Bad(row))'
    BY <2>2, <2>3
  <2> QED
    BY <1>2, <1>4, <2>1, <2>4 DEF Live
<1>8. ASSUME apart, ~switched, ~enabled PROVE Dead'
  <2>1. Dead
    BY <1>8 DEF FollowInv
  <2>2. job[c].how = "recover" /\ job[c].kind = "recover" /\ bus = <<>>
    BY <1>2, <2>1 DEF Dead, IdleJob, Writing
  <2>3. EventsOf(job[c]) = <<>>
    BY <1>1, <1>6, <1>8, <2>2, FallsFacts DEF EventsOf
  <2>4. bus' = <<>>
    BY <1>2, <2>2, <2>3
  <2>5. pc'[c] = "lifecycle"
    BY <1>1, <2>2 DEF Publish, Succeeded, Goto, TypeOK
  <2>6. ASSUME NEW d \in Caller PROVE IdleJob(pc'[d], job'[d])
    <3>1. CASE d = c
      BY <2>5, <3>1 DEF IdleJob, Attempting, Writing
    <3>2. CASE d # c
      BY <1>3, <2>1, <3>2 DEF Dead, Settles, Alone1
    <3> QED
      BY <3>1, <3>2
  <2> QED
    BY <1>2, <2>1, <2>4, <2>6 DEF Dead
<1> QED
  BY <1>2, <1>5, <1>7, <1>8 DEF FollowInv

-----------------------------------------------------------------------------
(* The bus, time, and the beginning.                                           *)

LEMMA HandleFollows == IInv /\ FollowInv /\ Handle => FollowInv'
<1> SUFFICES ASSUME IInv, FollowInv, Handle PROVE FollowInv'
  OBVIOUS
<1> USE DEF accountVars, driveVars, managerVars, history
<1>1. /\ bus \in Seq({"failed", "recovered"}) /\ bus # <<>> /\ bus' = Tail(bus)
      /\ tasks \in {"running", "disabled", "failed"}
      /\ UNCHANGED <<row, enabled, managed, pc, job, apart, switched>>
  BY DEF IInv, TypeOK, Handle
<1>2. ASSUME Live PROVE tasks' # "disabled" /\ (Told' <=> Told)
  <2>1. tasks # "disabled"
    BY <1>2 DEF Live
  <2>2. Len(bus) \in Nat \ {0} /\ Head(bus) = bus[1] /\ bus[1] \in {"failed", "recovered"}
    BY <1>1
  <2>3. tasks' # "disabled" /\ (tasks' = "failed" <=> bus[1] = "failed")
    BY <1>1, <2>1, <2>2 DEF Handle
  <2>4. CASE Len(bus) = 1
    <3>1. bus' = <<>>
      BY <1>1, <2>4
    <3> QED
      BY <1>1, <2>3, <2>4, <3>1 DEF Told
  <2>5. CASE Len(bus) # 1
    <3>1. Len(bus') = Len(bus) - 1 /\ \A i \in 1..(Len(bus) - 1) : bus'[i] = bus[i + 1]
      BY <1>1, <2>2
    <3>2. Len(bus') \in 1..(Len(bus) - 1) /\ Len(bus') + 1 = Len(bus)
      BY <2>2, <2>5, <3>1
    <3>3. bus'[Len(bus')] = bus[Len(bus)] /\ bus' # <<>>
      BY <3>1, <3>2
    <3> QED
      BY <1>1, <2>3, <3>3 DEF Told
  <2> QED
    BY <2>3, <2>4, <2>5
<1>3. \A c \in Caller : SaveOK(c)'
  BY <1>1 DEF FollowInv, SaveOK
<1>4. ~Dead
  BY <1>1 DEF Dead
<1>5. apart /\ ~switched => enabled /\ Live
  BY <1>4 DEF FollowInv
<1>6. ASSUME apart, ~switched PROVE Live'
  <2>1. Live /\ tasks' # "disabled" /\ (Told' <=> Told)
    BY <1>2, <1>5, <1>6
  <2> QED
    BY <1>1, <2>1 DEF Live, Bad, Falls
<1> QED
  BY <1>1, <1>3, <1>5, <1>6 DEF FollowInv

LEMMA OlderKeeps ==
  ASSUME NEW r \in Row PROVE Older(r).attempts = r.attempts /\ Older(r).status = r.status
  BY DEF Older, Row

LEMMA TickFollows == IInv /\ FollowInv /\ Tick => FollowInv'
<1> SUFFICES ASSUME IInv, FollowInv, Tick PROVE FollowInv'
  OBVIOUS
<1> USE DEF managerVars, taskVars
<1>1. /\ row \in Row /\ row' = Older(row) /\ UNCHANGED <<enabled, managed, bus, tasks, pc, apart, switched>>
  BY DEF IInv, TypeOK, Tick
<1>2. row'.attempts = row.attempts /\ row'.status = row.status
  BY <1>1, OlderKeeps
<1>3. ASSUME NEW c \in Caller
      PROVE  /\ job'[c].kind = job[c].kind /\ job'[c].how = job[c].how
             /\ job'[c].inst = job[c].inst /\ job'[c].told = job[c].told
             /\ job'[c].was = job[c].was /\ job'[c].want = job[c].want
             /\ job'[c].row.status = job[c].row.status
             /\ job'[c].row.attempts = job[c].row.attempts
  <2>1. job[c] \in Job /\ job[c].row \in Row
    BY DEF IInv, TypeOK, Job
  <2>2. PICK r \in Row : r = Older(job[c].row)
    BY <2>1, OlderFacts
  <2>3. job'[c] = [job[c] EXCEPT !.row = r]
    BY <2>2 DEF Tick
  <2>4. r.status = job[c].row.status /\ r.attempts = job[c].row.attempts
    BY <2>1, <2>2, OlderKeeps
  <2> QED
    BY <2>1, <2>3, <2>4 DEF Job
<1>4. ASSUME NEW c \in Caller
      PROVE  (Falls(job'[c]) <=> Falls(job[c])) /\ (Bad(job'[c].row) <=> Bad(job[c].row))
  BY <1>3 DEF Falls, Bad
<1>5. \A c \in Caller : SaveOK(c)'
  BY <1>1, <1>3 DEF FollowInv, SaveOK, Saves
<1>6. Live => Live'
  <2>1. (Told' <=> Told) /\ (Bad(row') <=> Bad(row))
    BY <1>1, <1>2 DEF Told, Bad
  <2> QED
    BY <1>1, <1>4, <2>1 DEF Live
<1>7. Dead => Dead'
  <2>1. \A c \in Caller : IdleJob(pc[c], job[c]) => IdleJob(pc'[c], job'[c])
    BY <1>1, <1>3, <1>4 DEF IdleJob
  <2> QED
    BY <1>1, <1>2, <2>1 DEF Dead
<1> QED
  BY <1>1, <1>2, <1>5, <1>6, <1>7 DEF FollowInv

LEMMA InitFollows == Init => FollowInv
<1> SUFFICES ASSUME Init PROVE FollowInv
  OBVIOUS
<1>1. /\ row = FirstRow /\ bus = <<>> /\ managed = enabled
      /\ tasks = IF enabled THEN "running" ELSE "disabled"
  BY DEF Init
<1>2. FirstRow.status = "active"
  BY DEF FirstRow
<1>3. \A c \in Caller : pc[c] = "idle"
  BY DEF Init
<1>4. \A c \in Caller : SaveOK(c)
  BY <1>3 DEF SaveOK, Saves, Attempting, Writing
<1>5. enabled => Live
  BY <1>1, <1>2, <1>3 DEF Live, Told, Bad
<1>6. ~enabled => Dead
  BY <1>1, <1>2, <1>3 DEF Dead, IdleJob, Attempting, Writing
<1> QED
  BY <1>1, <1>2, <1>4, <1>5, <1>6 DEF FollowInv

LEMMA StepFollows == IInv /\ FollowInv /\ [Next]_vars => FollowInv'
<1> SUFFICES ASSUME IInv, FollowInv, [Next]_vars PROVE FollowInv'
  OBVIOUS
<1>1. ASSUME NEW c \in Caller, Call(c) PROVE FollowInv'
  BY <1>1, CallFollows
<1>2. ASSUME NEW c \in Caller, Refresh(c) PROVE FollowInv'
  BY <1>2, LockFollows, ExchangingFollows, FinishFollows, LeavingFollows, WriteFollows,
     PublishFollows DEF Refresh
<1>3. ASSUME NEW c \in Caller, Edit(c) PROVE FollowInv'
  BY <1>3, SavingFollows, SubmitFollows, SaveFieldsFollows, RecoverFollows, LifecycleFollows
     DEF Edit
<1>4. CASE UNCHANGED vars
  BY <1>4 DEF vars, accountVars, driveVars, managerVars, taskVars, history, FollowInv, SaveOK,
              Live, Dead, Told, Bad
<1> QED
  BY <1>1, <1>2, <1>3, <1>4, HandleFollows, TickFollows DEF Next

\* Once nothing is under way, the tasks are paused for the account's failure just when
\* its row says that it has failed or expired.
THEOREM TasksFollowRow == Spec => []TasksFollow
<1>1. IInv /\ FollowInv => TasksFollow
  <2> SUFFICES ASSUME IInv, FollowInv, bus = <<>>, lock = Free, apart, ~switched
               PROVE  tasks = "failed" <=> Bad(row)
    BY DEF TasksFollow
  <2>1. CASE enabled
    <3>1. \A c \in Caller : pc[c] # "publish"
      BY ConstantsAssumption DEF IInv, CallerOK, Holding
    <3> QED
      BY <2>1, <3>1 DEF FollowInv, Live, Told
  <2>2. CASE ~enabled
    BY <2>2 DEF FollowInv, Dead, Bad
  <2> QED
    BY <2>1, <2>2
<1>2. Init => FollowInv
  BY InitFollows
<1>3. IInv /\ FollowInv /\ [Next]_vars => FollowInv'
  BY StepFollows
<1> QED
  BY <1>1, <1>2, <1>3, Inductive, PTL DEF Spec
=============================================================================
