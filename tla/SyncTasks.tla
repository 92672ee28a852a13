------------------------------ MODULE SyncTasks ------------------------------
(***************************************************************************)
(* The life of an Odoo synchronization run: who asks for it (the trigger   *)
(* endpoint, Celery Beat, the admin actions), how it waits in the broker,  *)
(* how a Celery worker carries it out page by page, how it fails, is       *)
(* retried, aborted or killed, and what it leaves in its SyncLog row.      *)
(*                                                                         *)
(* A task keeps its Celery id over its retries, so a task is a process     *)
(* with a program counter.  What a record holds is left out: here a record *)
(* is one unit of work with one outcome (module ProductMirror has the      *)
(* values).  The database is up whenever a task uses it.                   *)
(***************************************************************************)
EXTENDS Integers, FiniteSets

CONSTANTS
    Tasks,         \* Celery task ids, one per request for a run
    Logs,          \* primary keys of SyncLog rows
    NoLog,         \* no sync_log_id
    MaxRetries,    \* max_retries of the shared tasks (3 in the code)
    BatchSize,     \* SyncConfig.batch_size after max(batch_size, 1)
    Catalogue,     \* bound: records one attempt may fetch
    ChannelBreaks, \* whether the channel layer may refuse a group_send
    MaxKills       \* bound: processes killed, or messages lost

ASSUME NoLogAssumption == NoLog \notin Logs
ASSUME RetriesAssumption == MaxRetries \in Nat
ASSUME BatchAssumption == BatchSize \in Nat \ {0}
ASSUME CatalogueAssumption == Catalogue \in Nat
ASSUME BreaksAssumption == ChannelBreaks \in BOOLEAN

VARIABLES
    pc,     \* where each task is
    job,    \* its kind, whether sync_log_id was given, its log, its retries
    batch,  \* the page in hand: its size, what is left of it, rows to write
    row,    \* SyncLog: status, whether finished_at is set, keys of error_detail
    counts, \* SyncLog: the records_* counters
    kills   \* how many processes were killed

vars == <<pc, job, batch, row, counts, kills>>

Open == {"RUNNING"}
Done == {"SUCCESS", "PARTIAL"}
Statuses == Open \cup Done \cup {"FAILED"}

Counters == {"fetched", "created", "updated", "skipped", "errored"}
Zero == [c \in Counters |-> 0]

\* The body of the inner try of a task, and its except branch.
Errors == {"batch_error", "salvage_error"}
Blames == {"batch_blame", "salvage_blame"}
Body == {"prepare", "page", "batch", "salvage", "update", "report", "finish",
         "announce"} \cup Errors \cup Blames
Except == {"handler", "fail", "complain", "again"}
Busy == Body \cup Except \cup {"greet", "finally"}
Asking == {"publish", "refused", "unqueued"}
PCs == Busy \cup Asking \cup {"new", "queued", "ended"}

NoRow == [status |-> "none", finished |-> FALSE, detail |-> {}]
NewRow == [status |-> "RUNNING", finished |-> FALSE, detail |-> {}]
EmptyBatch == [page |-> 0, todo |-> 0, creates |-> 0, updates |-> 0, seen |-> 0]

\* Mutant: a save that inserts the row again when it was deleted.
AliveForEver(l) == row[l].status # "none"
Alive(l) == row[l].status \in Statuses
Log(t) == job[t].log

-----------------------------------------------------------------------------
Init ==
    /\ pc = [t \in Tasks |-> "new"]
    /\ job = [t \in Tasks |->
                [kind |-> "sync", given |-> FALSE, log |-> NoLog, retries |-> 0]]
    /\ batch = [t \in Tasks |-> EmptyBatch]
    /\ row = [l \in Logs |-> NoRow]
    /\ counts = [l \in Logs |-> Zero]
    /\ kills = 0

\* The local variables of an attempt, gone once its body is left.
\* Mutant: they are kept on the task.
LeaveBehind(t) == UNCHANGED batch
Leave(t) == batch' = [batch EXCEPT ![t] = EmptyBatch]

GoTo(t, from, to) == pc[t] = from /\ pc' = [pc EXCEPT ![t] = to]

\* QuerySet.update(field = F(field) + n): no error when the row is gone.
Bump(l, c, n) ==
    counts' = IF Alive(l) THEN [counts EXCEPT ![l][c] = @ + n] ELSE counts

\* SyncLog.mark_finished.  Mutant: without finished_at.
CloseUnstamped(l, s) == row' = [row EXCEPT ![l].status = s]
Close(l, s) == row' = [row EXCEPT ![l].status = s, ![l].finished = TRUE]

\* SyncLog.objects.create.  The new key is any unused one: they are random and
\* never compared, so it is enough to try one.
\* Mutant: a failed log is taken over by the new run.
CreateOrTakeOver(l) ==
    /\ row[l].status \in {"none", "FAILED"}
    /\ row' = [row EXCEPT ![l] = NewRow]
Create(l) ==
    /\ row[l].status = "none"
    /\ l = CHOOSE k \in Logs : row[k].status = "none"
    /\ row' = [row EXCEPT ![l] = NewRow]

-----------------------------------------------------------------------------
\* The trigger endpoint inserts the row, then publishes the task.
Trigger(t) ==
    /\ GoTo(t, "new", "publish")
    /\ \E l \in Logs :
         /\ Create(l)
         /\ job' = [job EXCEPT ![t].given = TRUE, ![t].log = l]
    /\ UNCHANGED <<batch, counts, kills>>

Publish(t) ==
    /\ \E to \in {"queued", "refused"} : GoTo(t, "publish", to)
    /\ UNCHANGED <<job, batch, row, counts, kills>>

\* The broker refused the message: the view saves why, then closes the row;
\* either save raises when the row is gone.
Refuse(t) ==
    /\ pc[t] = "refused"
    /\ IF Alive(Log(t))
       THEN /\ GoTo(t, "refused", "unqueued")
            /\ row' = [row EXCEPT ![Log(t)].detail = {"queue"}]
       ELSE GoTo(t, "refused", "ended") /\ UNCHANGED row
    /\ UNCHANGED <<job, batch, counts, kills>>

CloseRefused(t) ==
    /\ GoTo(t, "unqueued", "ended")
    /\ IF Alive(Log(t)) THEN Close(Log(t), "FAILED") ELSE UNCHANGED row
    /\ UNCHANGED <<job, batch, counts, kills>>

\* Celery Beat: a full or a delta run that has no row yet.
Beat(t) ==
    /\ GoTo(t, "new", "queued")
    /\ UNCHANGED <<job, batch, row, counts, kills>>

\* Admin action on failed logs: a new task, not the failed one's log.
RerunFailed(t) ==
    /\ \E l \in Logs : row[l].status = "FAILED"
    /\ GoTo(t, "new", "queued")
    /\ UNCHANGED <<job, batch, row, counts, kills>>

\* Admin action on products: re-fetch the selected ids.
Resync(t) ==
    /\ GoTo(t, "new", "queued")
    /\ job' = [job EXCEPT ![t].kind = "by_ids"]
    /\ UNCHANGED <<batch, row, counts, kills>>

\* Admin deletes a SyncLog row, at any time.
Delete(l) ==
    /\ Alive(l)
    /\ row' = [row EXCEPT ![l].status = "deleted"]
    /\ UNCHANGED <<pc, job, batch, counts, kills>>

-----------------------------------------------------------------------------
\* A delivered task takes the row it was given and reopens it; its counters
\* and its error_detail stay as an earlier attempt left them.
StartGiven(t) ==
    /\ pc[t] = "queued"
    /\ job[t].given
    /\ IF Alive(Log(t))
       THEN /\ GoTo(t, "queued", "prepare")
            /\ row' = [row EXCEPT ![Log(t)].status = "RUNNING",
                                  ![Log(t)].finished = FALSE]
       ELSE /\ GoTo(t, "queued", "ended")       \* DoesNotExist, before the try
            /\ UNCHANGED row
    /\ UNCHANGED <<job, batch, counts, kills>>

\* ... or inserts a row of its own.
StartFresh(t) ==
    /\ ~job[t].given
    /\ GoTo(t, "queued", IF job[t].kind = "by_ids" THEN "greet" ELSE "prepare")
    /\ \E l \in Logs :
         /\ Create(l)
         /\ job' = [job EXCEPT ![t].log = l]
    /\ UNCHANGED <<batch, counts, kills>>

\* notify_sync_started; the count of a full or delta run comes before it.
Prepare(t) ==
    /\ GoTo(t, "prepare", "page") \/ GoTo(t, "greet", "page")
    /\ UNCHANGED <<job, batch, row, counts, kills>>

\* One search_read, of n records; records_fetched is added to, or set.
Fetch(t) ==
    /\ pc[t] = "page"
    /\ \E n \in 0..BatchSize :
      /\ batch[t].seen + n <= Catalogue
      /\ IF n = 0 /\ job[t].kind = "sync"
         THEN GoTo(t, "page", "finish") /\ UNCHANGED <<batch, counts>>
         ELSE /\ GoTo(t, "page", "batch")
              /\ batch' = [batch EXCEPT ![t].page = n, ![t].todo = n]
              /\ Bump(Log(t), "fetched",
                      IF job[t].kind = "sync" THEN n
                      ELSE n - counts[Log(t)].fetched)
      /\ UNCHANGED <<job, row, kills>>

\* One record of the page: new, or existing and counted updated or skipped.
Record(t) ==
    /\ pc[t] = "batch"
    /\ batch[t].todo > 0
    /\ \/ /\ Bump(Log(t), "created", 1)
          /\ batch' = [batch EXCEPT ![t].todo = @ - 1, ![t].creates = @ + 1]
       \/ \E c \in {"updated", "skipped"} :
            /\ Bump(Log(t), c, 1)
            /\ batch' = [batch EXCEPT ![t].todo = @ - 1, ![t].updates = @ + 1]
    /\ UNCHANGED <<pc, job, row, kills>>

\* A record that raises: before it is counted, or after it was counted updated
\* (a quantity that is no integer, for a local product Odoo wins over).
RecordError(t) ==
    /\ GoTo(t, "batch", "batch_error")
    /\ batch[t].todo > 0
    /\ UNCHANGED counts \/ Bump(Log(t), "updated", 1)
    /\ batch' = [batch EXCEPT ![t].todo = @ - 1]
    /\ UNCHANGED <<job, row, kills>>

\* _record_sync_error: the counter is committed on its own ...
\* Mutant: the error is not counted.
CountNoError(t) ==
    /\ GoTo(t, "batch_error", "batch_blame") \/ GoTo(t, "salvage_error", "salvage_blame")
    /\ UNCHANGED <<job, batch, row, counts, kills>>
CountError(t) ==
    /\ GoTo(t, "batch_error", "batch_blame") \/ GoTo(t, "salvage_error", "salvage_blame")
    /\ Bump(Log(t), "errored", 1)
    /\ UNCHANGED <<job, batch, row, kills>>

\* ... before error_detail, in a transaction that raises on a deleted row.
Blame(t) ==
    /\ pc[t] \in Blames
    /\ \/ /\ Alive(Log(t))
          /\ GoTo(t, "batch_blame", "batch") \/ GoTo(t, "salvage_blame", "salvage")
          /\ row' = [row EXCEPT ![Log(t)].detail = @ \cup {"record"}]
       \/ /\ ~Alive(Log(t))
          /\ \E from \in Blames : GoTo(t, from, "handler")
          /\ UNCHANGED row
    /\ UNCHANGED <<job, batch, counts, kills>>

\* bulk_create is atomic; when it fails every new row is saved on its own.
BulkCreate(t) ==
    /\ batch[t].todo = 0
    /\ \/ /\ GoTo(t, "batch", "update")
          /\ batch' = [batch EXCEPT ![t].creates = 0]
       \/ /\ batch[t].creates > 0
          /\ GoTo(t, "batch", "salvage")
          /\ UNCHANGED batch
    /\ UNCHANGED <<job, row, counts, kills>>

SaveOne(t) ==
    /\ pc[t] = "salvage"
    /\ batch[t].creates > 0
    /\ batch' = [batch EXCEPT ![t].creates = @ - 1]
    /\ UNCHANGED <<pc, job, row, counts, kills>>

\* A record that was counted as created turns into an error: it is taken off
\* that counter first.  Mutant: it is not.
SaveFailsStillCreated(t) ==
    /\ GoTo(t, "salvage", "salvage_error")
    /\ batch[t].creates > 0
    /\ batch' = [batch EXCEPT ![t].creates = @ - 1]
    /\ UNCHANGED <<job, row, counts, kills>>
SaveFails(t) ==
    /\ GoTo(t, "salvage", "salvage_error")
    /\ batch[t].creates > 0
    /\ batch' = [batch EXCEPT ![t].creates = @ - 1]
    /\ Bump(Log(t), "created", -1)
    /\ UNCHANGED <<job, row, kills>>

Salvaged(t) ==
    /\ batch[t].creates = 0
    /\ GoTo(t, "salvage", "update")
    /\ UNCHANGED <<job, batch, row, counts, kills>>

BulkUpdate(t) ==
    /\ GoTo(t, "update", "report")
    /\ batch' = [batch EXCEPT ![t].updates = 0]
    /\ UNCHANGED <<job, row, counts, kills>>

\* notify_sync_progress, then the test for the last page.
Report(t) ==
    /\ GoTo(t, "report", IF \/ job[t].kind = "by_ids"
                            \/ batch[t].page < BatchSize
                         THEN "finish" ELSE "page")
    /\ batch' = [batch EXCEPT ![t].seen = @ + batch[t].page]
    /\ UNCHANGED <<job, row, counts, kills>>

\* The row is read again for the verdict.  Mutant: it is not.
VerdictStale(l) == "SUCCESS"
Verdict(l) == IF counts[l].errored > 0 THEN "PARTIAL" ELSE "SUCCESS"

Finish(t) ==
    LET l == Log(t) IN
    /\ pc[t] = "finish"
    /\ IF Alive(l)
       THEN /\ GoTo(t, "finish", "announce")
            /\ Close(l, Verdict(l))
       ELSE GoTo(t, "finish", "handler") /\ UNCHANGED row
    /\ UNCHANGED <<job, batch, counts, kills>>

Announce(t) ==
    /\ GoTo(t, "announce", "finally")
    /\ Leave(t)
    /\ UNCHANGED <<job, row, counts, kills>>

-----------------------------------------------------------------------------
\* Failures.  Odoo, after the connector gave up.  Mutant: retried at once.
OdooFailsRetried(t) ==
    /\ GoTo(t, "prepare", "again") \/ GoTo(t, "page", "again")
    /\ UNCHANGED <<job, batch, row, counts, kills>>
OdooFails(t) ==
    /\ GoTo(t, "prepare", "handler") \/ GoTo(t, "page", "handler")
    /\ UNCHANGED <<job, batch, row, counts, kills>>

\* A row bulk_update cannot write: it is outside the per-record try.
BadRow(t) ==
    /\ batch[t].updates > 0
    /\ GoTo(t, "update", "handler")
    /\ UNCHANGED <<job, batch, row, counts, kills>>

\* The channel layer refuses a notification.
ChannelFails(t) ==
    /\ ChannelBreaks
    /\ \/ \E from \in {"prepare", "report", "announce"} : GoTo(t, from, "handler")
       \/ GoTo(t, "complain", "finally")
       \/ GoTo(t, "greet", "ended")            \* by_ids: before its try
    /\ UNCHANGED <<job, batch, row, counts, kills>>

\* The except branch: error_detail is replaced, then the run is FAILED; either
\* save raises when the row is gone.
Handler(t) ==
    /\ pc[t] = "handler"
    /\ IF Alive(Log(t))
       THEN /\ GoTo(t, "handler", "fail")
            /\ row' = [row EXCEPT ![Log(t)].detail = {"unhandled"}]
       ELSE GoTo(t, "handler", "finally") /\ UNCHANGED row
    /\ Leave(t)
    /\ UNCHANGED <<job, counts, kills>>

Fail(t) ==
    /\ pc[t] = "fail"
    /\ IF Alive(Log(t))
       THEN GoTo(t, "fail", "complain") /\ Close(Log(t), "FAILED")
       ELSE GoTo(t, "fail", "finally") /\ UNCHANGED row
    /\ UNCHANGED <<job, batch, counts, kills>>

Complain(t) ==
    /\ GoTo(t, "complain", "again")
    /\ UNCHANGED <<job, batch, row, counts, kills>>

\* task.retry publishes the same task with the same arguments.  The finally
\* clause that follows finds a FAILED or a deleted row and changes nothing; it
\* is over long before the retry's countdown of 60 seconds.
\* Mutant: one retry too many.
MayRetryMore(t) == job[t].retries <= MaxRetries
MayRetry(t) == job[t].retries < MaxRetries

Retry(t) ==
    /\ IF MayRetry(t)
       THEN /\ GoTo(t, "again", "queued")
            /\ job' = [job EXCEPT ![t].retries = @ + 1,
                         ![t].log = IF job[t].given THEN @ ELSE NoLog]
       ELSE GoTo(t, "again", "finally") /\ UNCHANGED job
    /\ UNCHANGED <<batch, row, counts, kills>>

\* KeyboardInterrupt, SystemExit: past the except branch, into the finally.
Abort(t) ==
    /\ \/ \E from \in Body \cup Except : GoTo(t, from, "finally")
       \/ GoTo(t, "greet", "ended")
    /\ Leave(t)
    /\ UNCHANGED <<job, row, counts, kills>>

\* The finally clause closes what is still RUNNING.  Mutant: it does not.
FinallyNothing(t) ==
    /\ GoTo(t, "finally", "ended")
    /\ UNCHANGED <<job, batch, row, counts, kills>>
Finally(t) ==
    /\ GoTo(t, "finally", "ended")
    /\ IF row[Log(t)].status = "RUNNING" THEN Close(Log(t), "FAILED") ELSE UNCHANGED row
    /\ UNCHANGED <<job, batch, counts, kills>>

\* SIGKILL, power loss, or a message the broker loses: nothing is cleaned up.
Kill(t) ==
    /\ kills < MaxKills
    /\ pc[t] \notin {"new", "ended"}
    /\ pc' = [pc EXCEPT ![t] = "ended"]
    /\ kills' = kills + 1
    /\ Leave(t)
    /\ UNCHANGED <<job, row, counts>>

-----------------------------------------------------------------------------
Ask(t) == Trigger(t) \/ Beat(t) \/ RerunFailed(t) \/ Resync(t)

\* What the processes in charge of a task do next, successfully or not.
Work(t) ==
    \/ Publish(t) \/ Refuse(t) \/ CloseRefused(t) \/ StartGiven(t) \/ StartFresh(t)
    \/ Prepare(t) \/ Fetch(t) \/ Record(t) \/ RecordError(t) \/ CountError(t) \/ Blame(t)
    \/ BulkCreate(t) \/ SaveOne(t) \/ SaveFails(t) \/ Salvaged(t)
    \/ BulkUpdate(t) \/ Report(t) \/ Finish(t) \/ Announce(t)
    \/ OdooFails(t) \/ BadRow(t) \/ ChannelFails(t)
    \/ Handler(t) \/ Fail(t) \/ Complain(t) \/ Retry(t) \/ Finally(t)

Quiet == (\A t \in Tasks : pc[t] = "ended") /\ UNCHANGED vars

Next ==
    \/ \E t \in Tasks : Ask(t) \/ Work(t) \/ Abort(t) \/ Kill(t)
    \/ \E l \in Logs : Delete(l)
    \/ Quiet

Spec == Init /\ [][Next]_vars

\* A living process keeps executing and the broker keeps delivering; nobody
\* has to ask for a run, and no process has to be interrupted or killed.
FairSpec == Spec /\ \A t \in Tasks : WF_vars(Work(t))

-----------------------------------------------------------------------------
JobType == [kind : {"sync", "by_ids"}, given : BOOLEAN,
            log : Logs \cup {NoLog}, retries : 0..MaxRetries]
BatchType == [page : 0..BatchSize, todo : 0..BatchSize, creates : Nat,
              updates : Nat, seen : Nat]
RowType == [status : Statuses \cup {"none", "deleted"}, finished : BOOLEAN,
            detail : SUBSET {"record", "unhandled", "queue"}]

\* The counters are PositiveIntegerFields: the database refuses a negative
\* value, so the decrement of records_created may never take it below zero.
TypeOK ==
    /\ pc \in [Tasks -> PCs]
    /\ job \in [Tasks -> JobType]
    /\ batch \in [Tasks -> BatchType]
    /\ row \in [Logs -> RowType]
    /\ counts \in [Logs -> [Counters -> Nat]]
    /\ kills \in Nat

Active(t) == pc[t] \notin {"new", "ended"}
Accounted(l) ==
    counts[l].created + counts[l].updated + counts[l].skipped + counts[l].errored

\* A SyncLog row has one writer: two tasks in flight never share a log,
\* although retries reuse it and reruns are queued for a failed one
\* (tasks.py:187-208, admin.py:331-336).
OneWriter ==
    \A t, u \in Tasks :
      t # u /\ Active(t) /\ Active(u) /\ Log(t) = Log(u) => Log(t) = NoLog

\* finished_at and status agree, also when a retry reopens the row
\* (tasks.py:187-202, models.py:129-131).
Stamped ==
    \A l \in Logs : Alive(l) => (row[l].finished <=> row[l].status # "RUNNING")

\* No record is counted twice, whatever falls back, fails or is retried, and
\* wherever a process dies between two commits: the records that went through
\* were fetched, and so were those that failed, none of which counts as created
\* or skipped as well.  (One that fails after it was counted updated counts as
\* both: tasks.py:248, 354, 363, 367, 501, 506, 562.)
NothingCountedTwice ==
    \A l \in Logs : Alive(l) =>
      /\ counts[l].created + counts[l].updated + counts[l].skipped <= counts[l].fetched
      /\ counts[l].created + counts[l].skipped + counts[l].errored <= counts[l].fetched

\* A run that went through at once accounts for every record it fetched
\* (tasks.py:248, 354, 363, 367, 501, 506).
NothingLost ==
    \A l \in Logs :
      row[l].status \in Done /\ "unhandled" \notin row[l].detail
        => Accounted(l) >= counts[l].fetched

\* The final status tells whether records failed (tasks.py:119-123, 261-265).
StatusTellsErrors ==
    \A l \in Logs :
      /\ row[l].status = "SUCCESS" => counts[l].errored = 0
      /\ row[l].status = "PARTIAL" => counts[l].errored > 0

\* What makes these facts inductive: which row a task holds, the status its
\* row has at each point of the run, and what its local variables stand for.
Holds(t) == Active(t) /\ Log(t) # NoLog /\ Alive(Log(t))
Writing == Body \ {"announce"}

Taken == \A t \in Tasks : Log(t) # NoLog => row[Log(t)].status # "none"

Held ==
    \A t \in Tasks :
      /\ pc[t] \in Busy \cup Asking => Log(t) # NoLog
      /\ pc[t] \in Asking => job[t].given
      /\ pc[t] \in {"new", "queued"} => (job[t].given <=> Log(t) # NoLog)
      /\ pc[t] = "new" => job[t].kind = "sync" /\ Log(t) = NoLog
      /\ job[t].kind = "by_ids" => ~job[t].given /\ pc[t] # "prepare"

Phases ==
    \A t \in Tasks : Holds(t) =>
      LET status == row[Log(t)].status IN
      /\ pc[t] \in {"publish", "refused"} => row[Log(t)] = NewRow
      /\ pc[t] \in Writing \cup {"greet", "unqueued"} => status = "RUNNING"
      /\ pc[t] = "announce" => status \in Done
      /\ pc[t] \in {"handler", "fail"} => status \in Done \cup {"RUNNING"}
      /\ pc[t] = "fail" => "unhandled" \in row[Log(t)].detail
      /\ pc[t] \in {"complain", "again"} => status = "FAILED"
      /\ pc[t] = "queued" => status \in {"RUNNING", "FAILED"}

Paging == {"batch", "batch_error", "batch_blame", "handler"}
Saving == Paging \cup {"salvage", "salvage_error", "salvage_blame"}

Locals ==
    \A t \in Tasks :
      /\ pc[t] \notin Paging => batch[t].todo = 0
      /\ pc[t] \notin Saving => batch[t].creates = 0

\* What a task still has to do with its page completes the row's counters.
Uncounted(t) == IF pc[t] \in Errors THEN 1 ELSE 0

Balance ==
    \A t \in Tasks : Holds(t) =>
      LET l == Log(t)
          left == batch[t].todo + Uncounted(t)
      IN
      /\ batch[t].creates <= counts[l].created
      /\ counts[l].created + counts[l].updated + counts[l].skipped + batch[t].todo
           <= counts[l].fetched
      /\ counts[l].created + counts[l].skipped + counts[l].errored + left
           <= counts[l].fetched
      /\ pc[t] \notin {"handler", "finally"} /\ "unhandled" \notin row[l].detail
           => Accounted(l) + left >= counts[l].fetched
      /\ pc[t] \in {"greet", "page"} /\ job[t].kind = "by_ids" => counts[l] = Zero

Unborn == \A l \in Logs : row[l].status = "none" => row[l] = NoRow /\ counts[l] = Zero

\* The inductive invariant of the safety theorems.
Inv ==
    /\ TypeOK /\ OneWriter /\ Stamped
    /\ NothingCountedTwice /\ NothingLost /\ StatusTellsErrors
    /\ Taken /\ Held /\ Phases /\ Locals /\ Balance /\ Unborn

\* The attempts of a task are bounded and only failed attempts are repeated.
RetriesFollowFailure ==
    [][\A t \in Tasks : job'[t].retries # job[t].retries =>
         /\ job'[t].retries = job[t].retries + 1
         /\ row[Log(t)].status \in {"FAILED", "deleted"}]_vars

\* A full or delta run that is queued comes to an end, retries included, and
\* leaves its row closed (or deleted), whatever fails or is interrupted, unless
\* a process is killed: test_tasks_extended.py:203, tasks.py:305-309.
Closed(t) == Log(t) = NoLog \/ row[Log(t)].status # "RUNNING"
SyncRunsEnd ==
    \A t \in Tasks :
      pc[t] = "queued" /\ job[t].kind = "sync"
        ~> pc[t] = "ended" /\ (Closed(t) \/ kills > 0)

\* The same of a run over selected ids.
ByIdsRunsEnd ==
    \A t \in Tasks :
      pc[t] = "queued" /\ job[t].kind = "by_ids" ~> pc[t] = "ended" /\ Closed(t)

StatusOf == [l \in Logs |-> row[l].status]
Audit == INSTANCE AuditTrail WITH status <- StatusOf

\* The table keeps the promise of the abstract specification.
AuditSpec == Audit!Spec
=============================================================================
