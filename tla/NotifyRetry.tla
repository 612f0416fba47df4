---------------------------- MODULE NotifyRetry ----------------------------
(* The outbox of the external notifications (notifychannel/retry_worker.go,    *)
(* store/notify_retry_repo.go, api/notify_retry.go): a row per notice whose    *)
(* first delivery has failed, the rounds that retry what is due, begun by the  *)
(* worker's ticker or by an administrator's request, and what the              *)
(* administrator does to the rows.                                             *)
(*                                                                             *)
(* One action is one SQL statement or one call of the receiver.  A row's       *)
(* next_retry_at is kept as what is left of it.  A round retries its rows in   *)
(* any order, and the limit of notifyRetryBatch rows a round is left out.      *)
EXTENDS Naturals, Sequences

CONSTANTS Notice,     \* notices, and the row each may have
          NoNotice,
          Loop,       \* the worker's goroutine
          Request,    \* goroutines that serve the administrator
          Backoff     \* notifyRetryBackoff, in ticks

ASSUME OutboxAssumption ==
  /\ Loop \notin Request /\ NoNotice \notin Notice
  /\ Backoff \in Seq(Nat) /\ Len(Backoff) > 0

Runner == {Loop} \cup Request

MaxAttempts == Len(Backoff)

VARIABLES status, attempts, wait,  \* the row of each notice
          pc, todo, seen,          \* per round: the rows Due returned, as it saw them
          cur, result,             \* the one it is at, and how that went
          ended,                   \* runners whose context has ended
          confirmed,  \* history: notices whose receiver has answered that it took them
          repeated,   \* history: those a receiver has taken again after that answer
          failures,   \* history: failed retries since it was filed or re-driven
          clash,      \* history: rows that two rounds have held at once
          unsaved     \* history: deliveries whose result was not written

rowVars   == <<status, attempts, wait>>
roundVars == <<pc, todo, seen, cur, result>>
outboxHistory == <<confirmed, repeated, failures, clash, unsaved>>
outboxVars == <<rowVars, roundVars, ended, outboxHistory>>

Status == {"none", "pending", "sent", "failed"}

\* What the sender learns of a call, and what becomes of it: a "lost" one has been
\* taken by the receiver, but its answer is a timeout, a broken connection or a 5xx.
Result  == {"ok", "temporary", "refused"}
Outcome == Result \cup {"lost"}

OutboxTypeOK ==
  /\ status \in [Notice -> Status] /\ attempts \in [Notice -> Nat]
  /\ wait \in [Notice -> Nat]
  /\ pc \in [Runner -> {"idle", "redriven", "round", "saving"}]
  /\ todo \in [Runner -> SUBSET Notice] /\ seen \in [Runner -> [Notice -> Nat]]
  /\ cur \in [Runner -> Notice \cup {NoNotice}] /\ result \in [Runner -> Result]
  /\ ended \subseteq Runner
  /\ confirmed \subseteq Notice /\ repeated \subseteq Notice /\ failures \in [Notice -> Nat]
  /\ clash \subseteq Notice /\ unsaved \subseteq Notice

NoRound ==
  /\ pc = [r \in Runner |-> "idle"] /\ todo = [r \in Runner |-> {}]
  /\ seen = [r \in Runner |-> [n \in Notice |-> 0]]
  /\ cur = [r \in Runner |-> NoNotice] /\ result = [r \in Runner |-> "ok"]

OutboxInit ==
  /\ status = [n \in Notice |-> "none"] /\ attempts = [n \in Notice |-> 0]
  /\ wait = [n \in Notice |-> 0]
  /\ NoRound
  /\ ended = {}
  /\ confirmed = {} /\ repeated = {} /\ failures = [n \in Notice |-> 0]
  /\ clash = {} /\ unsaved = {}

-----------------------------------------------------------------------------
\* RetryableError: whether a call without a usable answer has reached the receiver,
\* the sender cannot tell.
Learned(out) == IF out = "lost" THEN "temporary" ELSE out

\* The receiver's side of one call of Send.
Called(n, out) ==
  /\ confirmed' = IF out = "ok" THEN confirmed \cup {n} ELSE confirmed
  /\ repeated' = IF out \in {"ok", "lost"} /\ n \in confirmed THEN repeated \cup {n}
                                                               ELSE repeated

\* The failures of a row, with one more result: a refusal stands for all there
\* may be, and no more are counted than that.
Tally(k, res) ==
  IF res = "ok" \/ k > MaxAttempts THEN k
  ELSE IF res = "refused" THEN MaxAttempts + 1 ELSE k + 1

\* Mutant: next_retry_at and the clock do not compare.
DuePending == {n \in Notice : status[n] = "pending"}

\* The rows Due returns.
Due == {n \in Notice : status[n] = "pending" /\ wait[n] = 0}

\* A round has the row before it, or has yet to write what became of it.
Holds(r, n) == n \in todo[r] \/ cur[r] = n

\* maybeEnqueueRetry's Enqueue.
File(n) ==
  /\ status' = [status EXCEPT ![n] = "pending"]
  /\ attempts' = [attempts EXCEPT ![n] = 0]
  /\ wait' = [wait EXCEPT ![n] = Backoff[1]]

\* Mutant: the last wait of the table is never used.
SettleEarly(n, tries, res) ==
  LET again == res = "temporary" /\ tries < MaxAttempts IN
  /\ status' = [status EXCEPT ![n] = IF res = "ok" THEN "sent"
                                     ELSE IF again THEN "pending" ELSE "failed"]
  /\ attempts' = [attempts EXCEPT ![n] = tries]
  /\ wait' = [wait EXCEPT ![n] = IF again THEN Backoff[tries] ELSE 0]

\* Mutant: when the table has run out its last wait is used again.
SettleForever(n, tries, res) ==
  LET last == IF tries > MaxAttempts THEN MaxAttempts ELSE tries IN
  /\ status' = [status EXCEPT ![n] = CASE res = "ok" -> "sent"
                                       [] res = "refused" -> "failed"
                                       [] OTHER -> "pending"]
  /\ attempts' = [attempts EXCEPT ![n] = last]
  /\ wait' = [wait EXCEPT ![n] = IF res = "temporary" THEN Backoff[last] ELSE 0]

\* UpdateResult of a retry: backoffFor has no wait for more than MaxAttempts.
Settle(n, tries, res) ==
  LET again == res = "temporary" /\ tries <= MaxAttempts IN
  /\ status' = [status EXCEPT ![n] = IF res = "ok" THEN "sent"
                                     ELSE IF again THEN "pending" ELSE "failed"]
  /\ attempts' = [attempts EXCEPT ![n] = tries]
  /\ wait' = [wait EXCEPT ![n] = IF again THEN Backoff[tries] ELSE 0]

-----------------------------------------------------------------------------
(* RunOnce.                                                                    *)

QueryDue(r) ==
  /\ r \notin ended
  /\ pc' = [pc EXCEPT ![r] = "round"]
  /\ todo' = [todo EXCEPT ![r] = Due]
  /\ seen' = [seen EXCEPT ![r] = [n \in Notice |-> IF n \in Due THEN attempts[n] ELSE 0]]
  /\ clash' = clash \cup {n \in Due : \E s \in Runner \ {r} : Holds(s, n)}
  /\ UNCHANGED <<rowVars, cur, result, ended, confirmed, repeated, failures, unsaved>>

\* send: nothing leaves under a context that has ended.
Retry(r, n, out) ==
  /\ pc[r] = "round" /\ n \in todo[r]
  /\ r \in ended => out \in {"temporary", "refused"}
  /\ pc' = [pc EXCEPT ![r] = "saving"] /\ todo' = [todo EXCEPT ![r] = @ \ {n}]
  /\ cur' = [cur EXCEPT ![r] = n] /\ result' = [result EXCEPT ![r] = Learned(out)]
  /\ Called(n, out)
  /\ failures' = [failures EXCEPT ![n] = IF r \in ended THEN @ ELSE Tally(@, Learned(out))]
  /\ UNCHANGED <<rowVars, seen, ended, clash, unsaved>>

\* The UPDATE, which finds no row when it has been cleared, and fails under a
\* context that has ended.
Save(r) ==
  LET n == cur[r] IN
  /\ pc[r] = "saving"
  /\ IF r \notin ended /\ status[n] # "none"
       THEN Settle(n, seen[r][n] + 1, result[r])
       ELSE UNCHANGED rowVars
  /\ unsaved' = IF r \in ended THEN unsaved \cup {n} ELSE unsaved
  /\ pc' = [pc EXCEPT ![r] = "round"]
  /\ cur' = [cur EXCEPT ![r] = NoNotice] /\ result' = [result EXCEPT ![r] = "ok"]
  /\ seen' = [seen EXCEPT ![r][n] = 0]
  /\ UNCHANGED <<todo, ended, confirmed, repeated, failures, clash>>

RoundOver(r) ==
  /\ pc[r] = "round" /\ todo[r] = {}
  /\ pc' = [pc EXCEPT ![r] = "idle"]
  /\ UNCHANGED <<rowVars, todo, seen, cur, result, ended, outboxHistory>>

\* loop: a tick of its ticker.
LoopTicks == pc[Loop] = "idle" /\ QueryDue(Loop)

-----------------------------------------------------------------------------
(* The administrator.                                                          *)

\* Mutant: whatever its status, a row may be re-driven.
RedriveAny(q, n) ==
  /\ pc[q] = "idle" /\ q \notin ended /\ status[n] # "none"
  /\ status' = [status EXCEPT ![n] = "pending"]
  /\ attempts' = [attempts EXCEPT ![n] = 0] /\ wait' = [wait EXCEPT ![n] = 0]
  /\ failures' = [failures EXCEPT ![n] = 0]
  /\ pc' = [pc EXCEPT ![q] = "redriven"]
  /\ UNCHANGED <<todo, seen, cur, result, ended, confirmed, repeated, clash, unsaved>>

\* notifyRetryRedrive: Redrive's UPDATE touches failed rows only ...
Redrive(q, n) ==
  /\ pc[q] = "idle" /\ q \notin ended /\ status[n] = "failed"
  /\ status' = [status EXCEPT ![n] = "pending"]
  /\ attempts' = [attempts EXCEPT ![n] = 0] /\ wait' = [wait EXCEPT ![n] = 0]
  /\ failures' = [failures EXCEPT ![n] = 0]
  /\ pc' = [pc EXCEPT ![q] = "redriven"]
  /\ UNCHANGED <<todo, seen, cur, result, ended, confirmed, repeated, clash, unsaved>>

\* ... and then it runs a round itself, beside the loop's ...
RequestRound(q) == pc[q] = "redriven" /\ QueryDue(q)

\* ... unless the client has gone.
RequestGivesUp(q) ==
  /\ pc[q] = "redriven" /\ q \in ended
  /\ pc' = [pc EXCEPT ![q] = "idle"]
  /\ UNCHANGED <<rowVars, todo, seen, cur, result, ended, outboxHistory>>

\* The client of a redrive disconnects.
ClientLeaves(q) ==
  /\ pc[q] # "idle" /\ q \notin ended
  /\ ended' = ended \cup {q}
  /\ UNCHANGED <<rowVars, roundVars, outboxHistory>>

\* The goroutine serves the next request, with a context of its own.
NextRequest(q) ==
  /\ pc[q] = "idle" /\ q \in ended
  /\ ended' = ended \ {q}
  /\ UNCHANGED <<rowVars, roundVars, outboxHistory>>

\* notifyRetryClear: the rows of one status, or all.
Clear(statuses) ==
  LET cleared == {n \in Notice : status[n] \in statuses} IN
  /\ cleared # {}
  /\ status' = [n \in Notice |-> IF n \in cleared THEN "none" ELSE status[n]]
  /\ attempts' = [n \in Notice |-> IF n \in cleared THEN 0 ELSE attempts[n]]
  /\ wait' = [n \in Notice |-> IF n \in cleared THEN 0 ELSE wait[n]]
  /\ UNCHANGED <<roundVars, ended, outboxHistory>>

Tick ==
  /\ \E n \in Notice : wait[n] > 0
  /\ wait' = [n \in Notice |-> IF wait[n] > 0 THEN wait[n] - 1 ELSE 0]
  /\ UNCHANGED <<status, attempts, roundVars, ended, outboxHistory>>

=============================================================================
