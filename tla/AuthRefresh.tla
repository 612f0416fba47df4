---------------------------- MODULE AuthRefresh ----------------------------
(* The credentials of one account (internal/auth, internal/driver's Manager,   *)
(* internal/account, internal/taskauth): every way to refresh them goes through *)
(* one lock and one state machine in the account's row, while a saved form     *)
(* writes the row without the lock, and the background tasks follow the events *)
(* of the bus.  The drive's refresh tokens rotate: an exchange accepts a token *)
(* once and answers with the next one.                                         *)
(*                                                                             *)
(* One action is one statement on the table, one call of the drive, or what    *)
(* is done between two of them.  Times are kept as what is left of them.       *)
EXTENDS Naturals, Sequences

CONSTANTS Caller,      \* goroutines: requests, the scheduler, the account's API
          Free,        \* no caller
          Threshold,   \* authentication failures that make an account failed (5)
          Cooldown,    \* the pause after a failure
          FailedRetry, \* the pause of a failed account
          Window,      \* how long a refresh is reused
          MaxInstances,\* bound: driver instances; a caller has one at a time
          MaxToken,    \* bound: refresh tokens the drive hands out
          MaxEdits     \* bound: forms submitted and switches thrown

ASSUME ConstantsAssumption ==
  /\ Free \notin Caller
  /\ Threshold \in Nat \ {0} /\ MaxInstances \in Nat /\ MaxToken \in Nat \ {0} /\ MaxEdits \in Nat
  /\ Window \in Nat /\ Cooldown \in Nat /\ FailedRetry \in Nat
  /\ Window <= Cooldown /\ Window <= FailedRetry

VARIABLES row,       \* the account's row in account_auth_states
          enabled,   \* accounts.is_active
          managed,   \* the account is in the scheduler's care
          valid,     \* external: the refresh tokens the drive accepts
          minted,    \* external: the last one it has handed out
          token,     \* the refresh token each driver instance holds
          cached,    \* the Manager's instance, or NoInstance
          lock,      \* the account's lock
          bus,       \* events on their way to the tasks
          tasks,     \* the background tasks: running, or why they are paused
          pc, job,   \* per caller: where it is, and its locals
          edits,     \* forms and switches so far
          since,     \* history: what is left of the window of the last success
          apart,     \* history: no changed form has overlapped a refresh
          switched,  \* history: the account has been disabled or enabled
          spoilt     \* history: a token has been lost by a save, a cancel or a drop

accountVars == <<row, enabled, managed>>
driveVars   == <<valid, minted>>
managerVars == <<token, cached>>
taskVars    == <<bus, tasks>>
history     == <<since, apart, switched, spoilt>>
vars == <<accountVars, driveVars, managerVars, lock, taskVars, pc, job, edits, history>>

Token == 1..MaxToken
Larger(a, b) == IF a > b THEN a ELSE b
LongestRetry == Larger(Cooldown, FailedRetry)

Row == [status : {"active", "cooldown", "failed", "expired"}, attempts : 0..Threshold,
        retry : 0..LongestRetry, recent : 0..Window, token : Token]

Instance == 1..MaxInstances
NoInstance == 0

Kind  == {"none", "gate", "inline", "passive", "active", "recover"}
How   == {"success", "recover", "fatal", "auth", "other"}
Holding == {"exchange", "persist", "store", "finish", "write", "publish"}
PcSet == {"idle", "get", "api", "again", "lock", "report", "form", "ping", "account",
          "fields", "drop", "recover", "toggle", "lifecycle"} \cup Holding

Job == [kind : Kind, second : BOOLEAN, inst : Instance \cup {NoInstance}, how : How,
        row : Row, told : BOOLEAN,
        token : Token, changed : BOOLEAN, was : BOOLEAN, want : BOOLEAN]

FirstRow == [status |-> "active", attempts |-> 0, retry |-> 0, recent |-> 0, token |-> 1]
NoJob == [kind |-> "none", second |-> FALSE, inst |-> NoInstance, how |-> "other",
          row |-> FirstRow, told |-> TRUE,
          token |-> 1, changed |-> FALSE, was |-> TRUE, want |-> TRUE]

TypeOK ==
  /\ row \in Row /\ enabled \in BOOLEAN /\ managed \in BOOLEAN
  /\ valid \subseteq Token /\ minted \in Token
  /\ token \in [Instance -> Token] /\ cached \in Instance \cup {NoInstance}
  /\ lock \in Caller \cup {Free}
  /\ bus \in Seq({"failed", "recovered"})
  /\ tasks \in {"running", "disabled", "failed"}
  /\ pc \in [Caller -> PcSet] /\ job \in [Caller -> Job]
  /\ edits \in 0..MaxEdits /\ since \in 0..Window
  /\ apart \in BOOLEAN /\ switched \in BOOLEAN /\ spoilt \in BOOLEAN

Init ==
  /\ row = FirstRow /\ enabled \in BOOLEAN /\ managed = enabled
  /\ valid = {1} /\ minted = 1
  /\ token = [i \in Instance |-> 1] /\ cached = NoInstance
  /\ lock = Free /\ bus = <<>>
  /\ tasks = IF enabled THEN "running" ELSE "disabled"
  /\ pc = [c \in Caller |-> "idle"] /\ job = [c \in Caller |-> NoJob]
  /\ edits = 0 /\ since = 0
  /\ apart = TRUE /\ switched = FALSE /\ spoilt = FALSE

-----------------------------------------------------------------------------
(* What is shared by the actions.                                              *)

Goto(c, l) == pc' = [pc EXCEPT ![c] = l]
Set(c, j) == job' = [job EXCEPT ![c] = j]
End(c) == Goto(c, "idle") /\ Set(c, NoJob)

Bad(r) == r.status \in {"failed", "expired"}

\* authBlocked: a bad row is left alone until its retry is due.
Blocked(r) == r.status # "active" /\ r.retry > 0

\* recentlyRefreshed.
Recent(r) == r.status = "active" /\ r.recent > 0

InUse(i) == cached = i \/ \E c \in Caller : job[c].inst = i

\* Manager.get: the cached instance, or a new one with the row's token.
Take(c, then, kind) ==
  \E i \in Instance :
    /\ \/ i = cached /\ UNCHANGED managerVars
       \/ /\ cached = NoInstance /\ ~InUse(i) /\ \A j \in 1..(i - 1) : InUse(j)
          /\ cached' = i /\ token' = [token EXCEPT ![i] = row.token]
    /\ Set(c, [job[c] EXCEPT !.inst = i, !.kind = kind]) /\ Goto(c, then)

\* ResetTransport, Drop: what only the instance knew is gone.
DropInstance ==
  /\ cached' = NoInstance /\ UNCHANGED token
  /\ spoilt' = (spoilt \/ (cached # NoInstance /\ token[cached] \in valid /\ row.token \notin valid))

\* A form with other credentials than the row it has read, not written yet.
Editing ==
  \E c \in Caller : pc[c] \in {"ping", "account", "fields"} /\ job[c].changed

-----------------------------------------------------------------------------
(* A request: Executor.Run, with the driver's own refresh inside its call.     *)

\* Gate.Check, without the lock.
Request(c) ==
  /\ pc[c] = "idle" /\ ~Blocked(row)
  /\ \/ row.status = "active" /\ Goto(c, "get") /\ UNCHANGED job
     \/ row.status # "active" /\ Goto(c, "lock") /\ Set(c, [NoJob EXCEPT !.kind = "gate"])
  /\ UNCHANGED <<accountVars, driveVars, managerVars, lock, taskVars, edits, history>>

\* Manager.Get waits for the account's lock and looks at the row again; Init
\* makes no exchange when there is a token.
GetDriver(c) ==
  /\ pc[c] = "get" /\ lock = Free /\ ~Blocked(row) /\ enabled
  /\ Take(c, "api", "none")
  /\ UNCHANGED <<accountVars, driveVars, lock, taskVars, edits, history>>

\* An error that looks like an authentication error: WithRetry refreshes once,
\* and reports the second one.
AuthError(c) ==
  IF job[c].second
    THEN Goto(c, "report") /\ Set(c, [NoJob EXCEPT !.second = TRUE])
    ELSE Goto(c, "lock") /\ Set(c, [NoJob EXCEPT !.kind = "passive"])

GetRefused(c) ==
  /\ pc[c] = "get" /\ lock = Free /\ (Blocked(row) \/ ~enabled)
  /\ \/ End(c)
     \/ Blocked(row) /\ AuthError(c)
  /\ UNCHANGED <<accountVars, driveVars, managerVars, lock, taskVars, edits, history>>

\* The drive's answer, or an error of no interest.
ApiAnswers(c) ==
  /\ pc[c] \in {"api", "again"} /\ End(c)
  /\ UNCHANGED <<accountVars, driveVars, managerVars, lock, taskVars, edits, history>>

\* A network error drops whatever instance is cached by now.
ApiBreaks(c) ==
  /\ pc[c] \in {"api", "again"} /\ End(c)
  /\ DropInstance
  /\ UNCHANGED <<accountVars, driveVars, lock, taskVars, edits, since, apart, switched>>

\* 401: the driver refreshes through the guard and tries again.
ApiUnauthorized(c) ==
  /\ pc[c] = "api"
  /\ Goto(c, "lock") /\ Set(c, [job[c] EXCEPT !.kind = "inline"])
  /\ UNCHANGED <<accountVars, driveVars, managerVars, lock, taskVars, edits, history>>

AgainUnauthorized(c) ==
  /\ pc[c] = "again" /\ AuthError(c)
  /\ UNCHANGED <<accountVars, driveVars, managerVars, lock, taskVars, edits, history>>

\* The scheduler's turn: one loop, over the accounts in its care.
Active(c) ==
  /\ pc[c] = "idle" /\ managed /\ \A d \in Caller : job[d].kind # "active"
  /\ Goto(c, "lock") /\ Set(c, [NoJob EXCEPT !.kind = "active"])
  /\ UNCHANGED <<accountVars, driveVars, managerVars, lock, taskVars, edits, history>>

-----------------------------------------------------------------------------
(* Refresh and refreshInline, under the account's lock.                        *)

\* What the last step of a save still needs of it.
Edited(j) == [NoJob EXCEPT !.was = j.was, !.want = j.want, !.changed = j.changed]

Succeeded(c, kind) ==
  CASE kind = "gate"    -> Goto(c, "get") /\ Set(c, NoJob)
    [] kind = "inline"  -> Goto(c, "again") /\ Set(c, [NoJob EXCEPT !.second = job[c].second, !.inst = job[c].inst])
    [] kind = "passive" -> Goto(c, "get") /\ Set(c, [NoJob EXCEPT !.second = TRUE])
    [] kind = "recover" -> Goto(c, "lifecycle") /\ Set(c, Edited(job[c]))
    [] OTHER            -> End(c)

\* The driver hands its refresh's error back to WithRetry.
Failed(c, how) ==
  IF job[c].kind = "inline" /\ how \in {"fatal", "auth"} THEN AuthError(c) ELSE End(c)

\* Mutant: only the pause is looked at under the lock.
LockUnlessBlocked(c) ==
  /\ pc[c] = "lock" /\ lock = Free /\ ~Blocked(row) /\ lock' = c
  /\ \/ job[c].kind = "inline" /\ Goto(c, "exchange") /\ UNCHANGED <<job, managerVars>>
     \/ job[c].kind # "inline" /\ enabled /\ Take(c, "exchange", job[c].kind)
     \/ /\ job[c].kind # "inline" /\ ~enabled /\ Goto(c, "finish")
        /\ Set(c, [job[c] EXCEPT !.how = "other"]) /\ UNCHANGED managerVars
  /\ apart' = (apart /\ ~Editing)
  /\ UNCHANGED <<accountVars, driveVars, taskVars, edits, since, switched, spoilt>>

\* Mutant: the pause was looked at before the lock.
LockUnlessRecent(c) ==
  /\ pc[c] = "lock" /\ lock = Free /\ ~Recent(row) /\ lock' = c
  /\ \/ job[c].kind = "inline" /\ Goto(c, "exchange") /\ UNCHANGED <<job, managerVars>>
     \/ job[c].kind # "inline" /\ enabled /\ Take(c, "exchange", job[c].kind)
     \/ /\ job[c].kind # "inline" /\ ~enabled /\ Goto(c, "finish")
        /\ Set(c, [job[c] EXCEPT !.how = "other"]) /\ UNCHANGED managerVars
  /\ apart' = (apart /\ ~Editing)
  /\ UNCHANGED <<accountVars, driveVars, taskVars, edits, since, switched, spoilt>>

\* Neither blocked nor just refreshed: the exchange may begin.  An inline refresh
\* keeps its instance; a disabled account has none, which counts as a failure.
Lock(c) ==
  /\ pc[c] = "lock" /\ lock = Free /\ ~Blocked(row) /\ ~Recent(row) /\ lock' = c
  /\ \/ job[c].kind = "inline" /\ Goto(c, "exchange") /\ UNCHANGED <<job, managerVars>>
     \/ job[c].kind # "inline" /\ enabled /\ Take(c, "exchange", job[c].kind)
     \/ /\ job[c].kind # "inline" /\ ~enabled /\ Goto(c, "finish")
        /\ Set(c, [job[c] EXCEPT !.how = "other"]) /\ UNCHANGED managerVars
  /\ apart' = (apart /\ ~Editing)
  /\ UNCHANGED <<accountVars, driveVars, taskVars, edits, since, switched, spoilt>>

\* Somebody has refreshed while this one waited.
Reuse(c) ==
  /\ pc[c] = "lock" /\ lock = Free /\ Recent(row)
  /\ Succeeded(c, job[c].kind)
  /\ UNCHANGED <<accountVars, driveVars, managerVars, lock, taskVars, edits, history>>

Refuse(c) ==
  /\ pc[c] = "lock" /\ lock = Free /\ Blocked(row)
  /\ \E how \in {"auth", "other"} : Failed(c, how)
  /\ UNCHANGED <<accountVars, driveVars, managerVars, lock, taskVars, edits, history>>

\* The drive takes the token for the next one.
Rotate(t) ==
  /\ t \in valid /\ minted < MaxToken
  /\ minted' = minted + 1 /\ valid' = (valid \ {t}) \cup {minted + 1}

Exchange(c) ==
  /\ pc[c] = "exchange" /\ Goto(c, "persist")
  /\ Rotate(token[job[c].inst])
  /\ token' = [token EXCEPT ![job[c].inst] = minted + 1]
  /\ UNCHANGED <<accountVars, cached, lock, taskVars, job, edits, history>>

\* A token the drive does not know is final; anything else may pass.
ExchangeFails(c) ==
  /\ pc[c] = "exchange" /\ Goto(c, "finish")
  /\ \E how \in {"fatal", "auth", "other"} :
       /\ how = "fatal" <=> token[job[c].inst] \notin valid
       /\ Set(c, [job[c] EXCEPT !.how = how])
  /\ UNCHANGED <<accountVars, driveVars, managerVars, lock, taskVars, edits, history>>

\* persistAuth reads the row and merges the new token into it.
Persist(c) ==
  /\ pc[c] = "persist" /\ Goto(c, "store")
  /\ Set(c, [job[c] EXCEPT !.row = row])
  /\ UNCHANGED <<accountVars, driveVars, managerVars, lock, taskVars, edits, history>>

Store(c) ==
  /\ pc[c] = "store" /\ Goto(c, "finish")
  /\ row' = [job[c].row EXCEPT !.token = token[job[c].inst]]
  /\ Set(c, [job[c] EXCEPT !.how = "success"])
  /\ UNCHANGED <<enabled, managed, driveVars, managerVars, lock, taskVars, edits, history>>

\* Mutant: the row read before the exchange is the one that is finished.
FinishStale(c) ==
  /\ pc[c] = "finish" /\ Goto(c, "write")
  /\ Set(c, [job[c] EXCEPT !.told = enabled])
  /\ UNCHANGED <<accountVars, driveVars, managerVars, lock, taskVars, edits, history>>

\* completeRefresh reads the row again, and whether the account is enabled.
Finish(c) ==
  /\ pc[c] = "finish" /\ Goto(c, "write")
  /\ Set(c, [job[c] EXCEPT !.row = row, !.told = enabled])
  /\ UNCHANGED <<accountVars, driveVars, managerVars, lock, taskVars, edits, history>>

\* HandleRetryFailure: only the first one of an active account counts.
Report(c) ==
  /\ pc[c] = "report" /\ lock = Free
  /\ \/ /\ row.status = "active" /\ lock' = c /\ Goto(c, "write")
        /\ Set(c, [job[c] EXCEPT !.how = "auth", !.row = row, !.told = enabled])
        /\ apart' = (apart /\ ~Editing)
     \/ row.status # "active" /\ End(c) /\ UNCHANGED <<lock, apart>>
  /\ UNCHANGED <<accountVars, driveVars, managerVars, taskVars, edits, since, switched, spoilt>>

\* markSuccess.
MarkSuccess(r, refreshed) ==
  [r EXCEPT !.status = "active", !.attempts = 0, !.retry = 0,
            !.recent = IF refreshed THEN Window ELSE @]

\* handleFailure: only authentication failures count.
HandleFailure(r, how) ==
  LET n == IF how = "auth" /\ r.attempts < Threshold THEN r.attempts + 1 ELSE r.attempts
      status == IF how = "fatal" THEN "expired"
                ELSE IF how = "auth" /\ n = Threshold THEN "failed"
                ELSE IF Bad(r) THEN r.status ELSE "cooldown"
  IN [r EXCEPT !.status = status, !.attempts = n,
               !.retry = IF status = "cooldown" THEN Cooldown ELSE FailedRetry]

Outcome(j) == IF j.how \in {"success", "recover"} THEN MarkSuccess(j.row, j.how = "success")
              ELSE HandleFailure(j.row, j.how)

\* Mutant: an account is bad only when its attempts have run out.
EventsOfFailed(j) ==
  LET r == Outcome(j) IN
  IF r.status = "active" THEN IF j.row.status = "failed" /\ j.told THEN <<"recovered">> ELSE <<>>
  ELSE IF Bad(r) /\ r.status # j.row.status THEN <<"failed">> ELSE <<>>

\* What is published after the write: changes only, and no recovery of a
\* disabled account.
EventsOf(j) ==
  LET r == Outcome(j) IN
  IF r.status = "active" THEN IF j.row.status # "active" /\ j.told THEN <<"recovered">> ELSE <<>>
  ELSE IF Bad(r) /\ r.status # j.row.status THEN <<"failed">> ELSE <<>>

Write(c) ==
  /\ pc[c] = "write" /\ Goto(c, "publish")
  /\ row' = Outcome(job[c])
  /\ since' = IF job[c].how = "success" THEN Window ELSE since
  /\ UNCHANGED <<enabled, managed, driveVars, managerVars, lock, taskVars, job, edits,
                 apart, switched, spoilt>>

\* Published, and only then unlocked.
Publish(c) ==
  /\ pc[c] = "publish" /\ lock' = Free
  /\ bus' = bus \o EventsOf(job[c])
  /\ IF job[c].how \in {"success", "recover"} THEN Succeeded(c, job[c].kind)
                                             ELSE Failed(c, job[c].how)
  /\ UNCHANGED <<accountVars, driveVars, managerVars, tasks, edits, history>>

\* Mutant: an abandoned request keeps the lock.
CancelLocked(c) ==
  /\ \/ pc[c] \in {"get", "lock", "exchange", "persist", "store", "form", "ping", "account", "fields", "recover"}
     \/ pc[c] \in {"finish", "write"} /\ job[c].how \in {"success", "recover"}
  /\ job[c].kind # "active" /\ End(c)
  /\ spoilt' = (spoilt \/ (/\ pc[c] \in {"persist", "store"} /\ job[c].inst # cached
                           /\ row.token \notin valid))
  /\ UNCHANGED <<accountVars, driveVars, managerVars, lock, taskVars, edits, since, apart, switched>>

\* The request is abandoned: its next call or statement fails, and that is not
\* recorded as a failure.  (Failures are written under a context of their own.)
Cancel(c) ==
  /\ \/ pc[c] \in {"get", "lock", "exchange", "persist", "store", "form", "ping", "account", "fields", "recover"}
     \/ pc[c] \in {"finish", "write"} /\ job[c].how \in {"success", "recover"}
  /\ job[c].kind # "active" /\ End(c)
  /\ lock' = IF lock = c THEN Free ELSE lock
  /\ spoilt' = (spoilt \/ (/\ pc[c] \in {"persist", "store"} /\ job[c].inst # cached
                           /\ row.token \notin valid))
  /\ UNCHANGED <<accountVars, driveVars, managerVars, taskVars, edits, since, apart, switched>>

-----------------------------------------------------------------------------
(* account.Service: Update with the form it was asked from, and Toggle.        *)

\* The form shows the credentials of the moment.
OpenForm(c) ==
  /\ pc[c] = "idle" /\ edits < MaxEdits
  /\ Goto(c, "form") /\ Set(c, [NoJob EXCEPT !.token = row.token])
  /\ UNCHANGED <<accountVars, driveVars, managerVars, lock, taskVars, edits, history>>

\* It is submitted with them, or with newly granted ones.
Submit(c) ==
  /\ pc[c] = "form" /\ edits < MaxEdits /\ edits' = edits + 1 /\ Goto(c, "ping")
  /\ \E want \in BOOLEAN, t \in {job[c].token} \cup ((minted + 1)..MaxToken \cap {minted + 1}) :
       /\ Set(c, [job[c] EXCEPT !.row = row, !.was = enabled, !.want = want,
                                !.token = t, !.changed = (t # row.token)])
       /\ IF t > minted THEN minted' = t /\ valid' = valid \cup {t} ELSE UNCHANGED driveVars
       /\ apart' = (apart /\ (t # row.token => lock = Free /\ ~Editing))
       /\ spoilt' = (spoilt \/ (t # row.token /\ t <= minted))
  /\ UNCHANGED <<accountVars, managerVars, lock, taskVars, since, switched>>

\* The connection test runs on an instance of its own, whose exchange, if the
\* access token is out of date, nobody stores.
Ping(c) ==
  /\ pc[c] = "ping" /\ Goto(c, "account")
  /\ \/ UNCHANGED <<driveVars, spoilt>>
     \/ Rotate(job[c].token) /\ spoilt' = TRUE
  /\ UNCHANGED <<accountVars, managerVars, lock, taskVars, job, edits, since, apart, switched>>

SaveAccount(c) ==
  /\ pc[c] = "account" /\ Goto(c, "fields")
  /\ enabled' = job[c].want
  /\ switched' = (switched \/ job[c].want # enabled)
  /\ UNCHANGED <<row, managed, driveVars, managerVars, lock, taskVars, job, edits, since, apart, spoilt>>

\* The row as Update had read it, with the form's credentials.
SaveFields(c) ==
  /\ pc[c] = "fields" /\ Goto(c, "drop")
  /\ row' = IF job[c].changed THEN [job[c].row EXCEPT !.token = job[c].token, !.recent = Window]
                              ELSE row
  /\ Set(c, Edited(job[c]))
  /\ UNCHANGED <<enabled, managed, driveVars, managerVars, lock, taskVars, edits, history>>

Drop(c) ==
  /\ pc[c] = "drop" /\ Goto(c, "recover")
  /\ DropInstance
  /\ UNCHANGED <<accountVars, driveVars, lock, taskVars, job, edits, since, apart, switched>>

\* RecoverAccount clears the row's failures, under the lock.
Recover(c) ==
  /\ pc[c] = "recover" /\ lock = Free /\ lock' = c /\ Goto(c, "write")
  /\ Set(c, [job[c] EXCEPT !.kind = "recover", !.how = "recover", !.row = row, !.told = enabled])
  /\ apart' = (apart /\ ~Editing)
  /\ UNCHANGED <<accountVars, driveVars, managerVars, taskVars, edits, since, switched, spoilt>>

Toggle(c) ==
  /\ pc[c] = "idle" /\ edits < MaxEdits /\ edits' = edits + 1 /\ Goto(c, "toggle")
  /\ Set(c, [NoJob EXCEPT !.was = enabled, !.want = ~enabled])
  /\ UNCHANGED <<accountVars, driveVars, managerVars, lock, taskVars, history>>

Flip(c) ==
  /\ pc[c] = "toggle" /\ Goto(c, "lifecycle")
  /\ enabled' = job[c].want /\ switched' = TRUE
  /\ IF job[c].want THEN UNCHANGED <<managerVars, spoilt>> ELSE DropInstance
  /\ UNCHANGED <<row, managed, driveVars, lock, taskVars, job, edits, since, apart>>

\* OnAccountDisabled, OnAccountEnabled, and the scheduler's register.
Lifecycle(c) ==
  LET j == job[c] IN
  /\ pc[c] = "lifecycle" /\ End(c)
  /\ tasks' = IF ~j.want /\ tasks = "running" THEN "disabled"
              ELSE IF j.want /\ ~j.was THEN "running" ELSE tasks
  /\ managed' = (j.want /\ (managed \/ ~j.was \/ j.changed))
  /\ UNCHANGED <<row, enabled, driveVars, managerVars, lock, bus, edits, history>>

-----------------------------------------------------------------------------
(* The bus's goroutine in the task coordinator, and time.                      *)

Handle ==
  /\ bus # <<>> /\ bus' = Tail(bus)
  /\ tasks' = IF Head(bus) = "recovered" THEN "running"
              ELSE IF tasks = "running" THEN "failed" ELSE tasks
  /\ UNCHANGED <<accountVars, driveVars, managerVars, lock, pc, job, edits, history>>

Less(n) == IF n > 0 THEN n - 1 ELSE 0

Older(r) == [r EXCEPT !.retry = Less(@), !.recent = Less(@)]

Tick ==
  /\ row' = Older(row) /\ since' = Less(since)
  /\ job' = [c \in Caller |-> [job[c] EXCEPT !.row = Older(@)]]
  /\ UNCHANGED <<enabled, managed, driveVars, managerVars, lock, taskVars, pc, edits,
                 apart, switched, spoilt>>

-----------------------------------------------------------------------------
Call(c) ==
  \/ Request(c) \/ GetDriver(c) \/ GetRefused(c) \/ ApiAnswers(c) \/ ApiBreaks(c)
  \/ ApiUnauthorized(c) \/ AgainUnauthorized(c) \/ Active(c) \/ Report(c)

Refresh(c) ==
  \/ Lock(c) \/ Reuse(c) \/ Refuse(c) \/ Exchange(c) \/ ExchangeFails(c)
  \/ Persist(c) \/ Store(c) \/ Finish(c) \/ Write(c) \/ Publish(c) \/ Cancel(c)

Edit(c) ==
  \/ OpenForm(c) \/ Submit(c) \/ Ping(c) \/ SaveAccount(c) \/ SaveFields(c) \/ Drop(c)
  \/ Recover(c) \/ Toggle(c) \/ Flip(c) \/ Lifecycle(c)

Next ==
  \/ \E c \in Caller : Call(c) \/ Refresh(c) \/ Edit(c)
  \/ Handle \/ Tick

Spec == Init /\ [][Next]_vars

-----------------------------------------------------------------------------
(* Properties.                                                                 *)

\* No path of a refresh, a report or a save returns with the account's lock, and
\* nobody is between its check and its write without it.
LockReturned == \A c \in Caller : lock = c <=> pc[c] \in Holding

\* The account can go on without its user: the drive accepts the stored token,
\* or the cached instance's, or the one about to be stored.  Saves, drops and
\* abandoned requests that have lost a token, and changed forms that have
\* overlapped a refresh, are excepted by name.
TokenKept ==
  apart /\ ~spoilt =>
    \/ row.token \in valid
    \/ cached # NoInstance /\ token[cached] \in valid
    \/ \E c \in Caller : pc[c] \in {"persist", "store"} /\ token[job[c].inst] \in valid

\* Once nothing is under way, the tasks are paused for the account's failure just
\* when its row says that it has failed or expired.
TasksFollow ==
  bus = <<>> /\ lock = Free /\ apart /\ ~switched => (tasks = "failed" <=> Bad(row))

\* The drive is asked for an exchange, and answers or not.
Exchanges == \E c \in Caller : pc[c] = "exchange" /\ pc'[c] \in {"persist", "finish"}

\* Whoever has waited for the lock finds out what was done meanwhile: the drive is
\* not asked again while a success is fresh, by whatever entry.
ReuseWindow == [][Exchanges /\ apart => since = 0]_vars

\* Nor is it asked during the pause after a failure.
BackoffHolds == [][Exchanges /\ apart => ~Blocked(row)]_vars

\* An account is told to be authorised again only when the drive no longer accepts
\* its stored token.
ExpiredIsTrue ==
  [][row.status # "expired" /\ row'.status = "expired" => row.token \notin valid]_vars
=============================================================================
