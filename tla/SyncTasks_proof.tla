--------------------------- MODULE SyncTasks_proof ---------------------------
(***************************************************************************)
(* Safety of SyncTasks for every number of tasks, logs and retries.        *)
(***************************************************************************)
EXTENDS SyncTasks, TLAPS

\* The parts of the invariant, for one task and for one log.
TaskFacts(t) ==
    /\ Log(t) # NoLog => row[Log(t)].status # "none"
    /\ pc[t] \in Busy \cup Asking => Log(t) # NoLog
    /\ pc[t] \in Asking => job[t].given
    /\ pc[t] \in {"new", "queued"} => (job[t].given <=> Log(t) # NoLog)
    /\ pc[t] = "new" => job[t].kind = "sync" /\ Log(t) = NoLog
    /\ job[t].kind = "by_ids" => ~job[t].given /\ pc[t] # "prepare"
    /\ pc[t] \notin Paging => batch[t].todo = 0
    /\ pc[t] \notin Saving => batch[t].creates = 0
    /\ Holds(t) =>
         LET l == Log(t)
             status == row[Log(t)].status
             left == batch[t].todo + Uncounted(t)
         IN
         /\ pc[t] \in {"publish", "refused"} => row[l] = NewRow
         /\ pc[t] \in Writing \cup {"greet", "unqueued"} => status = "RUNNING"
         /\ pc[t] = "announce" => status \in Done
         /\ pc[t] \in {"handler", "fail"} => status \in Done \cup {"RUNNING"}
         /\ pc[t] = "fail" => "unhandled" \in row[l].detail
         /\ pc[t] \in {"complain", "again"} => status = "FAILED"
         /\ pc[t] = "queued" => status \in {"RUNNING", "FAILED"}
         /\ batch[t].creates <= counts[l].created
         /\ counts[l].created + counts[l].updated + counts[l].skipped + batch[t].todo
              <= counts[l].fetched
         /\ counts[l].created + counts[l].skipped + counts[l].errored + left
              <= counts[l].fetched
         /\ pc[t] \notin {"handler", "finally"} /\ "unhandled" \notin row[l].detail
              => Accounted(l) + left >= counts[l].fetched
         /\ pc[t] \in {"greet", "page"} /\ job[t].kind = "by_ids" => counts[l] = Zero

LogFacts(l) ==
    /\ Alive(l) => (row[l].finished <=> row[l].status # "RUNNING")
    /\ Alive(l) =>
         /\ counts[l].created + counts[l].updated + counts[l].skipped <= counts[l].fetched
         /\ counts[l].created + counts[l].skipped + counts[l].errored <= counts[l].fetched
    /\ row[l].status \in Done /\ "unhandled" \notin row[l].detail
         => Accounted(l) >= counts[l].fetched
    /\ row[l].status = "SUCCESS" => counts[l].errored = 0
    /\ row[l].status = "PARTIAL" => counts[l].errored > 0
    /\ row[l].status = "none" => row[l] = NoRow /\ counts[l] = Zero

LEMMA InvParts ==
    Inv <=> /\ TypeOK
            /\ OneWriter
            /\ \A t \in Tasks : TaskFacts(t)
            /\ \A l \in Logs : LogFacts(l)
  <1>1. (\A t \in Tasks : TaskFacts(t)) <=> Taken /\ Held /\ Phases /\ Locals /\ Balance
    BY DEF TaskFacts, Taken, Held, Phases, Locals, Balance
  <1>2. (\A l \in Logs : LogFacts(l)) <=>
          /\ Stamped /\ NothingCountedTwice /\ NothingLost
          /\ StatusTellsErrors /\ Unborn
    BY DEF LogFacts, Stamped, NothingCountedTwice, NothingLost, StatusTellsErrors,
           Unborn
  <1> QED
    BY <1>1, <1>2 DEF Inv

\* Types, one variable at a time: first what an action does to the variable,
\* then why the result has the variable's type.
LEMMA PcType ==
  ASSUME NEW t \in Tasks, Ask(t) \/ Work(t) \/ Abort(t) \/ Kill(t), TypeOK
  PROVE  /\ pc' \in [Tasks -> PCs]
         /\ \A u \in Tasks \ {t} : pc'[u] = pc[u]
  <1>1. UNCHANGED pc \/ \E to \in PCs : pc' = [pc EXCEPT ![t] = to]
    BY DEF Ask, Trigger, Beat, RerunFailed, Resync, Work, Publish, Refuse, CloseRefused,
           StartGiven, StartFresh, Prepare, Fetch, Record, RecordError, CountError, Blame,
           BulkCreate, SaveOne, SaveFails, Salvaged, BulkUpdate, Report, Finish, Announce,
           OdooFails, BadRow, ChannelFails, Handler, Fail, Complain, Retry, Abort, Finally, Kill,
           GoTo, PCs, Busy, Body, Except, Errors, Blames, Asking
  <1> QED BY <1>1 DEF TypeOK

LEMMA JobTyped ==
  ASSUME NEW t \in Tasks, Ask(t) \/ Work(t) \/ Abort(t) \/ Kill(t), TypeOK
  PROVE  /\ job' \in [Tasks -> JobType]
         /\ \A u \in Tasks \ {t} : job'[u] = job[u]
         /\ UNCHANGED job \/ Trigger(t) \/ Resync(t) \/ StartFresh(t) \/ Retry(t)
  <1> job \in [Tasks -> JobType]
    BY DEF TypeOK
  <1>1. CASE Trigger(t)
    <2>1. PICK l \in Logs : job' = [job EXCEPT ![t].given = TRUE, ![t].log = l]
      BY <1>1 DEF Trigger
    <2> QED BY <1>1, <2>1, ZenonT(60) DEF JobType
  <1>2. CASE Resync(t)
    <2>1. job' = [job EXCEPT ![t].kind = "by_ids"]
      BY <1>2 DEF Resync
    <2> QED BY <1>2, <2>1 DEF JobType
  <1>3. CASE StartFresh(t)
    <2>1. PICK l \in Logs : job' = [job EXCEPT ![t].log = l]
      BY <1>3 DEF StartFresh
    <2> QED BY <1>3, <2>1 DEF JobType
  <1>4. CASE Retry(t)
    <2>1. job[t].retries < MaxRetries => job[t].retries + 1 \in 0..MaxRetries
      BY RetriesAssumption DEF JobType
    <2>2. \/ UNCHANGED job
          \/ /\ job[t].retries < MaxRetries
             /\ \E l \in {job[t].log, NoLog} :
                  job' = [job EXCEPT ![t].retries = @ + 1, ![t].log = l]
      BY <1>4 DEF Retry, MayRetry
    <2> QED BY <1>4, <2>1, <2>2 DEF JobType
  <1>5. CASE ~(Trigger(t) \/ Resync(t) \/ StartFresh(t) \/ Retry(t))
    <2>1. UNCHANGED job
      BY <1>5 DEF Ask, Beat, RerunFailed, Work, Publish, Refuse, CloseRefused, StartGiven,
                  Prepare, Fetch, Record, RecordError, CountError, Blame, BulkCreate, SaveOne,
                  SaveFails, Salvaged, BulkUpdate, Report, Finish, Announce, OdooFails, BadRow,
                  ChannelFails, Handler, Fail, Complain, Abort, Finally, Kill
    <2> QED BY <2>1
  <1> QED BY <1>1, <1>2, <1>3, <1>4, <1>5

LEMMA BatchTyped ==
  ASSUME NEW t \in Tasks, Ask(t) \/ Work(t) \/ Abort(t) \/ Kill(t), TypeOK
  PROVE  /\ batch' \in [Tasks -> BatchType]
         /\ \A u \in Tasks \ {t} : batch'[u] = batch[u]
  <1> batch \in [Tasks -> BatchType]
    BY DEF TypeOK
  <1>1. CASE Leave(t)
    BY <1>1, BatchAssumption DEF Leave, BatchType, EmptyBatch
  <1>2. CASE Fetch(t)
    <2>1. \/ UNCHANGED batch
          \/ \E n \in 0..BatchSize : batch' = [batch EXCEPT ![t].page = n, ![t].todo = n]
      BY <1>2 DEF Fetch
    <2>2. ASSUME NEW n \in 0..BatchSize, batch' = [batch EXCEPT ![t].page = n, ![t].todo = n]
          PROVE  batch' \in [Tasks -> BatchType] /\ \A u \in Tasks \ {t} : batch'[u] = batch[u]
      BY <2>2 DEF BatchType
    <2> QED BY <2>1, <2>2
  <1>3. CASE Record(t) \/ RecordError(t)
    <2>1. batch[t].todo > 0 /\ batch[t].todo - 1 \in 0..BatchSize
      BY <1>3, BatchAssumption DEF Record, RecordError, BatchType
    <2>2. \/ batch' = [batch EXCEPT ![t].todo = @ - 1, ![t].creates = @ + 1]
          \/ batch' = [batch EXCEPT ![t].todo = @ - 1, ![t].updates = @ + 1]
          \/ batch' = [batch EXCEPT ![t].todo = @ - 1]
      BY <1>3 DEF Record, RecordError
    <2> QED BY <2>1, <2>2 DEF BatchType
  <1>4. CASE BulkCreate(t) \/ SaveOne(t) \/ SaveFails(t)
    <2>1. \/ UNCHANGED batch
          \/ batch' = [batch EXCEPT ![t].creates = 0]
          \/ batch[t].creates > 0 /\ batch' = [batch EXCEPT ![t].creates = @ - 1]
      BY <1>4 DEF BulkCreate, SaveOne, SaveFails
    <2> QED BY <2>1 DEF BatchType
  <1>5. CASE BulkUpdate(t) \/ Report(t)
    <2>1. \/ batch' = [batch EXCEPT ![t].updates = 0]
          \/ batch' = [batch EXCEPT ![t].seen = @ + batch[t].page]
      BY <1>5 DEF BulkUpdate, Report
    <2> QED BY <2>1, BatchAssumption DEF BatchType
  <1>6. CASE ~(\/ Leave(t) \/ Fetch(t) \/ Record(t) \/ RecordError(t) \/ BulkCreate(t)
               \/ SaveOne(t) \/ SaveFails(t) \/ BulkUpdate(t) \/ Report(t))
    <2>1. UNCHANGED batch
      BY <1>6 DEF Ask, Trigger, Beat, RerunFailed, Resync, Work, Publish, Refuse, CloseRefused,
                  StartGiven, StartFresh, Prepare, CountError, Blame, Salvaged, Finish, Announce,
                  OdooFails, BadRow, ChannelFails, Handler, Fail, Complain, Retry, Abort, Finally,
                  Kill
    <2> QED BY <2>1
  <1> QED BY <1>1, <1>2, <1>3, <1>4, <1>5, <1>6

LEMMA RowTyped ==
  ASSUME NEW t \in Tasks, Ask(t) \/ Work(t) \/ Abort(t) \/ Kill(t), TypeOK
  PROVE  row' \in [Logs -> RowType]
  <1> row \in [Logs -> RowType]
    BY DEF TypeOK
  <1>1. \/ UNCHANGED row
        \/ \E l \in Logs : row' = [row EXCEPT ![l] = NewRow]
        \/ \E d \in {"queue", "unhandled"} : row' = [row EXCEPT ![Log(t)].detail = {d}]
        \/ row' = [row EXCEPT ![Log(t)].detail = @ \cup {"record"}]
        \/ \E s \in Statuses, f \in BOOLEAN :
             row' = [row EXCEPT ![Log(t)].status = s, ![Log(t)].finished = f]
    BY DEF Ask, Trigger, Beat, RerunFailed, Resync, Work, Publish, Refuse, CloseRefused,
           StartGiven, StartFresh, Prepare, Fetch, Record, RecordError, CountError, Blame,
           BulkCreate, SaveOne, SaveFails, Salvaged, BulkUpdate, Report, Finish, Announce,
           OdooFails, BadRow, ChannelFails, Handler, Fail, Complain, Retry, Abort, Finally, Kill,
           Create, Verdict, Close, Statuses, Open, Done
  <1>2. ASSUME NEW l \in Logs, row' = [row EXCEPT ![l] = NewRow] PROVE row' \in [Logs -> RowType]
    BY <1>2 DEF RowType, NewRow, Statuses, Open
  <1>3. ASSUME NEW d \in {"queue", "unhandled"}, row' = [row EXCEPT ![Log(t)].detail = {d}]
        PROVE  row' \in [Logs -> RowType]
    BY <1>3, ZenonT(60) DEF RowType
  <1>4. CASE row' = [row EXCEPT ![Log(t)].detail = @ \cup {"record"}]
    BY <1>4 DEF RowType
  <1>5. ASSUME NEW s \in Statuses, NEW f \in BOOLEAN,
               row' = [row EXCEPT ![Log(t)].status = s, ![Log(t)].finished = f]
        PROVE  row' \in [Logs -> RowType]
    BY <1>5, ZenonT(60) DEF RowType
  <1> QED BY <1>1, <1>2, <1>3, <1>4, <1>5

LEMMA BumpTyped ==
  ASSUME NEW l \in Logs, NEW c \in Counters, NEW n \in Int,
         counts \in [Logs -> [Counters -> Nat]], counts[l][c] + n \in Nat, Bump(l, c, n)
  PROVE  counts' \in [Logs -> [Counters -> Nat]]
  BY DEF Bump

LEMMA HeldLog ==
  ASSUME NEW t \in Tasks, pc[t] \in Busy \cup Asking, Inv
  PROVE  Log(t) \in Logs /\ Active(t)
  BY DEF Inv, Held, TypeOK, JobType, Log, Active, Busy, Body, Except, Errors, Blames, Asking

LEMMA CountsTyped ==
  ASSUME NEW t \in Tasks, Ask(t) \/ Work(t) \/ Abort(t) \/ Kill(t), Inv
  PROVE  counts' \in [Logs -> [Counters -> Nat]]
  <1> counts \in [Logs -> [Counters -> Nat]]
    BY DEF Inv, TypeOK
  <1>1. CASE Fetch(t)
    <2>1. Log(t) \in Logs
      BY <1>1, HeldLog DEF Fetch, Busy, Body, Errors, Blames
    <2>2. PICK n \in 0..BatchSize :
            \/ UNCHANGED counts
            \/ Bump(Log(t), "fetched", n)
            \/ Bump(Log(t), "fetched", n - counts[Log(t)].fetched)
      BY <1>1 DEF Fetch
    <2>3. n \in Nat /\ counts[Log(t)].fetched \in Nat /\ "fetched" \in Counters
      BY <2>1, BatchAssumption DEF Counters
    <2> HIDE DEF Counters
    <2> QED BY <2>1, <2>2, <2>3, BumpTyped
  <1>2. CASE Record(t) \/ RecordError(t) \/ CountError(t)
    <2>1. Log(t) \in Logs
      BY <1>2, HeldLog DEF Record, RecordError, CountError, GoTo, Busy, Body, Errors
    <2>2. UNCHANGED counts \/ \E c \in Counters : Bump(Log(t), c, 1)
      BY <1>2 DEF Record, RecordError, CountError, Counters
    <2> QED BY <2>1, <2>2, BumpTyped
  <1>3. CASE SaveFails(t)
    <2>1. Log(t) \in Logs /\ Active(t)
      BY <1>3, HeldLog DEF SaveFails, GoTo, Busy, Body
    <2>2. Alive(Log(t)) => counts[Log(t)].created >= 1
      BY <1>3, <2>1, NoLogAssumption
         DEF SaveFails, Inv, Balance, Holds, TypeOK, Counters, BatchType
    <2>3. \/ UNCHANGED counts
          \/ /\ Alive(Log(t))
             /\ counts' = [counts EXCEPT ![Log(t)].created = @ - 1]
      BY <1>3, <2>1 DEF SaveFails, Bump, Counters
    <2> QED BY <2>1, <2>2, <2>3 DEF Counters
  <1>4. CASE ~(Fetch(t) \/ Record(t) \/ RecordError(t) \/ CountError(t) \/ SaveFails(t))
    <2>1. UNCHANGED counts
      BY <1>4 DEF Ask, Trigger, Beat, RerunFailed, Resync, Work, Publish, Refuse, CloseRefused,
                  StartGiven, StartFresh, Prepare, Blame, BulkCreate, SaveOne, Salvaged,
                  BulkUpdate, Report, Finish, Announce, OdooFails, BadRow, ChannelFails,
                  Handler, Fail, Complain, Retry, Abort, Finally, Kill
    <2> QED BY <2>1
  <1> QED BY <1>1, <1>2, <1>3, <1>4

LEMMA Typed ==
  ASSUME NEW t \in Tasks, Ask(t) \/ Work(t) \/ Abort(t) \/ Kill(t), Inv
  PROVE  TypeOK'
  <1>1. TypeOK
    BY DEF Inv
  <1>2. UNCHANGED kills \/ kills' = kills + 1
    BY DEF Ask, Trigger, Beat, RerunFailed, Resync, Work, Publish, Refuse, CloseRefused,
           StartGiven, StartFresh, Prepare, Fetch, Record, RecordError, CountError, Blame,
           BulkCreate, SaveOne, SaveFails, Salvaged, BulkUpdate, Report, Finish, Announce,
           OdooFails, BadRow, ChannelFails, Handler, Fail, Complain, Retry, Abort, Finally, Kill
  <1> QED
    BY <1>1, <1>2, PcType, JobTyped, BatchTyped, RowTyped, CountsTyped DEF TypeOK

LEMMA Assembled ==
  ASSUME TypeOK', OneWriter', \A t \in Tasks : TaskFacts(t)', \A l \in Logs : LogFacts(l)'
  PROVE  Inv'
  <1>1. (Taken /\ Held /\ Phases /\ Locals /\ Balance)'
    BY DEF TaskFacts, Taken, Held, Phases, Locals, Balance
  <1>2. (/\ Stamped /\ NothingCountedTwice /\ NothingLost
         /\ StatusTellsErrors /\ Unborn)'
    BY DEF LogFacts, Stamped, NothingCountedTwice, NothingLost, StatusTellsErrors,
           Unborn
  <1> QED
    BY <1>1, <1>2 DEF Inv

\* A task in flight is the only one that holds its log.
LEMMA Sole ==
  ASSUME Inv, NEW t \in Tasks, Active(t), Log(t) \in Logs
  PROVE  \A u \in Tasks \ {t} : Active(u) => Log(u) # Log(t)
  BY NoLogAssumption DEF Inv, OneWriter

\* An unused row is held by no task.
LEMMA Unused ==
  ASSUME Inv, NEW l \in Logs, row[l].status = "none"
  PROVE  \A u \in Tasks : Log(u) # l
  BY NoLogAssumption DEF Inv, Taken

\* A step of t changes its own state and one row, which no other task holds:
\* what the other tasks and the other rows satisfy is not disturbed.
LEMMA Local ==
  ASSUME Inv, TypeOK', NEW t \in Tasks, NEW l \in Logs,
         \A u \in Tasks \ {t} : Active(u) => Log(u) # l,
         Log(t)' \in {l, NoLog},
         \A u \in Tasks \ {t} :
            pc'[u] = pc[u] /\ batch'[u] = batch[u] /\ job'[u] = job[u],
         \A k \in Logs \ {l} : row'[k] = row[k] /\ counts'[k] = counts[k],
         row'[l].status # "none",
         TaskFacts(t)', LogFacts(l)'
  PROVE  Inv'
  <1>0. TypeOK /\ OneWriter /\ (\A u \in Tasks : TaskFacts(u)) /\ (\A k \in Logs : LogFacts(k))
    BY InvParts
  <1>1. OneWriter'
    BY <1>0 DEF OneWriter, Active, Log
  <1>2. ASSUME NEW u \in Tasks \ {t} PROVE TaskFacts(u)'
    <2>1. Log(u)' = Log(u) /\ Log(u) \in Logs \cup {NoLog}
      BY <1>0 DEF Log, TypeOK, JobType
    <2>2. CASE ~Active(u)
      <3>1. ~Active(u)'
        BY <2>2 DEF Active
      <3>2. Log(u) # NoLog => row'[Log(u)].status # "none"
        BY <1>0, <2>1 DEF TaskFacts
      <3> QED BY <1>0, <2>1, <2>2, <3>1, <3>2 DEF TaskFacts, Active, Holds, Log, Asking
    <2>3. CASE Active(u)
      <3>1. Log(u) # l
        BY <2>3
      <3> QED
        BY <1>0, <2>1, <2>3, <3>1, SMTT(30)
           DEF TaskFacts, Active, Holds, Log, Alive, Accounted, Uncounted
    <2> QED BY <2>2, <2>3
  <1>3. ASSUME NEW k \in Logs \ {l} PROVE LogFacts(k)'
    BY <1>0, <1>3 DEF LogFacts, Alive, Accounted
  <1> QED
    BY <1>1, <1>2, <1>3, Assembled DEF Log

\* A step of t that changes no row and takes none.
LEMMA LocalNoRow ==
  ASSUME Inv, TypeOK', NEW t \in Tasks, UNCHANGED <<row, counts>>,
         Log(t)' = Log(t), Active(t) \/ Log(t) = NoLog,
         \A u \in Tasks \ {t} :
            pc'[u] = pc[u] /\ batch'[u] = batch[u] /\ job'[u] = job[u],
         TaskFacts(t)'
  PROVE  Inv'
  <1>0. TypeOK /\ OneWriter /\ (\A u \in Tasks : TaskFacts(u)) /\ (\A k \in Logs : LogFacts(k))
    BY InvParts
  <1>1. OneWriter'
    BY <1>0 DEF OneWriter, Active, Log
  <1>2. ASSUME NEW u \in Tasks \ {t} PROVE TaskFacts(u)'
    BY <1>0, <1>2, SMTT(60) DEF TaskFacts, Active, Holds, Log, Alive, Accounted, Uncounted
  <1>3. ASSUME NEW k \in Logs PROVE LogFacts(k)'
    BY <1>0, <1>3 DEF LogFacts, Alive, Accounted
  <1> QED
    BY <1>1, <1>2, <1>3, Assembled

\* Steps that touch no row.
LEMMA QuietSteps ==
  ASSUME Inv, NEW t \in Tasks,
         \/ Beat(t) \/ RerunFailed(t) \/ Resync(t) \/ Publish(t) \/ Prepare(t)
         \/ BulkCreate(t) \/ SaveOne(t) \/ Salvaged(t) \/ BulkUpdate(t) \/ Report(t)
         \/ Announce(t) \/ OdooFails(t) \/ BadRow(t) \/ ChannelFails(t) \/ Complain(t)
         \/ Abort(t) \/ Kill(t)
  PROVE  Inv'
  <1> USE DEF EmptyBatch, GoTo, Leave
  <1>0. TaskFacts(t) /\ TypeOK
    BY InvParts
  <1>1. TypeOK' /\ UNCHANGED <<row, counts>>
        /\ \A u \in Tasks \ {t} : pc'[u] = pc[u] /\ batch'[u] = batch[u] /\ job'[u] = job[u]
    <2>1. Ask(t) \/ Work(t) \/ Abort(t) \/ Kill(t)
      BY DEF Ask, Work
    <2>2. UNCHANGED <<row, counts>>
      BY DEF Beat, RerunFailed, Resync, Publish, Prepare, BulkCreate, SaveOne, Salvaged,
             BulkUpdate, Report, Announce, OdooFails, BadRow, ChannelFails, Complain, Abort, Kill
    <2> QED BY <1>0, <2>1, <2>2, Typed, PcType, BatchTyped, JobTyped
  <1>2. Log(t)' = Log(t) /\ job'[t].given = job[t].given /\ (Resync(t) \/ UNCHANGED job)
    BY <1>0 DEF Log, TypeOK, JobType, Beat, RerunFailed, Resync, Publish, Prepare, BulkCreate,
             SaveOne, Salvaged, BulkUpdate, Report, Announce, OdooFails, BadRow, ChannelFails,
             Complain, Abort, Kill
  <1>3. Active(t) \/ Log(t) = NoLog
    BY <1>0 DEF Active, TaskFacts, Beat, RerunFailed, Resync, Publish, Prepare, BulkCreate,
                SaveOne, Salvaged, BulkUpdate, Report, Announce, OdooFails, BadRow, ChannelFails,
                Complain, Abort, Kill, GoTo, Busy, Body, Except, Errors, Blames, Asking
  <1>4. /\ batch[t].todo \in Nat /\ batch[t].creates \in Nat
        /\ Holds(t) => LET n == counts[Log(t)] IN
                       /\ n.fetched \in Nat /\ n.created \in Nat /\ n.updated \in Nat
                       /\ n.skipped \in Nat /\ n.errored \in Nat
    <2>1. \A c \in Counters : Holds(t) => counts[Log(t)][c] \in Nat
      BY <1>0 DEF TypeOK, JobType, Log, Holds
    <2> QED BY <1>0, <2>1, BatchAssumption DEF TypeOK, BatchType, Counters
  <1>5. pc[t] \in PCs /\ pc'[t] \in PCs /\ pc \in [Tasks -> PCs] /\ batch \in [Tasks -> BatchType]
    BY <1>0, <1>1 DEF TypeOK
  <1>7. TaskFacts(t)'
    <2> USE <1>0, <1>1, <1>2, <1>3, <1>4, <1>5
        DEF TaskFacts, Active, Holds, Log, Alive, Accounted, Uncounted, Paging, Saving, Busy,
            Body, Except, Errors, Blames, Asking, Writing
    <2>1. CASE Beat(t) \/ RerunFailed(t)
      BY <2>1 DEF Beat, RerunFailed
    <2>2. CASE Resync(t)
      <3>1. pc[t] = "new" /\ pc'[t] = "queued" /\ UNCHANGED batch /\ job'[t].kind = "by_ids"
        BY <2>2 DEF Resync, TypeOK, JobType
      <3> QED BY <3>1
    <2>3. CASE Publish(t)
      <3>1. pc[t] = "publish" /\ pc'[t] \in {"queued", "refused"} /\ UNCHANGED <<batch, job>>
        BY <2>3 DEF Publish
      <3> QED BY <3>1 DEF NewRow
    <2>4. CASE Prepare(t)
      <3>1. pc[t] \in {"prepare", "greet"} /\ pc'[t] = "page" /\ UNCHANGED <<batch, job>>
        BY <2>4 DEF Prepare
      <3> QED BY <3>1
    <2>5. CASE BulkCreate(t)
      <3>1. /\ pc[t] = "batch" /\ batch[t].todo = 0 /\ batch'[t].todo = 0 /\ UNCHANGED job
            /\ \/ pc'[t] = "update" /\ batch'[t].creates = 0
               \/ pc'[t] = "salvage" /\ batch'[t].creates = batch[t].creates
        BY <2>5 DEF BulkCreate, BatchType
      <3> QED BY <3>1
    <2>6. CASE SaveOne(t)
      <3>1. pc[t] = "salvage" /\ pc'[t] = "salvage" /\ UNCHANGED job
            /\ batch'[t].todo = batch[t].todo /\ batch'[t].creates = batch[t].creates - 1
        BY <2>6 DEF SaveOne, BatchType
      <3> QED BY <3>1
    <2>7. CASE Salvaged(t) \/ BulkUpdate(t)
      <3>1. /\ pc[t] \in {"salvage", "update"} /\ pc'[t] \in {"update", "report"}
            /\ batch'[t].todo = batch[t].todo /\ batch'[t].creates = batch[t].creates
            /\ batch[t].creates = 0 /\ UNCHANGED job
        BY <2>7 DEF Salvaged, BulkUpdate, BatchType
      <3> QED BY <3>1
    <2>8. CASE Report(t)
      <3>1. pc[t] = "report" /\ pc'[t] \in {"page", "finish"} /\ UNCHANGED job
            /\ (job[t].kind = "by_ids" => pc'[t] = "finish")
            /\ batch'[t].todo = batch[t].todo /\ batch'[t].creates = batch[t].creates
        BY <2>8, SMTT(30) DEF Report, BatchType
      <3> QED BY <3>1
    <2>9. CASE OdooFails(t) \/ BadRow(t)
      <3>1. /\ pc[t] \in {"prepare", "page", "update"} /\ pc'[t] = "handler"
            /\ UNCHANGED <<batch, job>>
        BY <2>9 DEF OdooFails, BadRow
      <3> QED BY <3>1
    <2>10. CASE ChannelFails(t) \/ Complain(t)
      <3>1. /\ UNCHANGED <<batch, job>>
            /\ \/ pc[t] \in {"prepare", "report", "announce"} /\ pc'[t] = "handler"
               \/ pc[t] = "complain" /\ pc'[t] \in {"finally", "again"}
               \/ pc[t] = "greet" /\ pc'[t] = "ended"
        BY <2>10 DEF ChannelFails, Complain
      <3> QED BY <3>1
    <2>11. CASE Announce(t) \/ Abort(t) \/ Kill(t)
      <3>1. /\ UNCHANGED job /\ batch'[t].todo = 0 /\ batch'[t].creates = 0
            /\ pc[t] # "new" /\ pc'[t] \in {"finally", "ended"}
            /\ pc'[t] = "finally" => pc[t] \in Body \cup Except
        BY <2>11 DEF Announce, Abort, Kill
      <3>2. Holds(t)' => Holds(t) /\ pc'[t] = "finally"
        BY <3>1
      <3> QED BY <3>1, <3>2, SMTT(30)
    <2> QED
      BY <2>1, <2>2, <2>3, <2>4, <2>5, <2>6, <2>7, <2>8, <2>9, <2>10, <2>11
  <1> QED BY <1>1, <1>2, <1>3, <1>7, LocalNoRow

LEMMA Numbers ==
  ASSUME TypeOK, NEW l \in Logs
  PROVE  /\ counts[l].fetched \in Nat /\ counts[l].created \in Nat /\ counts[l].updated \in Nat
         /\ counts[l].skipped \in Nat /\ counts[l].errored \in Nat
         /\ counts[l] \in [Counters -> Nat]
         /\ row[l] \in RowType
  <1>1. counts[l] \in [Counters -> Nat] /\ row[l] \in RowType
    BY DEF TypeOK
  <1> QED BY <1>1 DEF Counters

\* What the steps on a held row have in common.
LEMMA OnRow ==
  ASSUME Inv, NEW t \in Tasks, Work(t), UNCHANGED job,
         pc[t] \in Busy \cup Asking \cup {"queued"}, Log(t) \in Logs,
         \A k \in Logs \ {Log(t)} : row'[k] = row[k] /\ counts'[k] = counts[k],
         row'[Log(t)].status # "none",
         TaskFacts(t)', LogFacts(Log(t))'
  PROVE  Inv'
  <1>1. Active(t) /\ Log(t)' = Log(t)
    BY DEF Active, Busy, Body, Except, Errors, Blames, Asking, Log
  <1>2. TypeOK' /\ \A u \in Tasks \ {t} :
           pc'[u] = pc[u] /\ batch'[u] = batch[u] /\ job'[u] = job[u]
    BY Typed, PcType, BatchTyped, JobTyped DEF Inv
  <1> QED BY <1>1, <1>2, Sole, Local

\* The steps that count, and those that write the row.
Counting(t) ==
    Fetch(t) \/ Record(t) \/ RecordError(t) \/ CountError(t) \/ Blame(t) \/ SaveFails(t)

Closing(t) ==
    \/ Refuse(t) \/ CloseRefused(t) \/ StartGiven(t) \/ Finish(t)
    \/ Handler(t) \/ Fail(t) \/ Finally(t)

LEMMA CountingSteps ==
  ASSUME Inv, NEW t \in Tasks, NEW l \in Logs, Log(t) = l, Counting(t)
  PROVE  Inv'
  <1> USE DEF Counting
  <1>1. pc[t] \in Busy /\ Active(t) /\ l # NoLog
    <2>1. pc[t] \in {"page", "batch", "salvage"} \cup Errors \cup Blames
      BY DEF Fetch, Record, RecordError, CountError, Blame, SaveFails, GoTo, Errors
    <2>2. pc[t] \in Busy
      BY <2>1 DEF Busy, Body
    <2> QED BY <2>2, HeldLog, NoLogAssumption
  <1>2. TypeOK /\ TaskFacts(t) /\ LogFacts(l)
    BY <1>1, InvParts
  <1>3. pc \in [Tasks -> PCs] /\ batch[t] \in BatchType /\ batch \in [Tasks -> BatchType]
        /\ counts \in [Logs -> [Counters -> Nat]] /\ row \in [Logs -> RowType]
    BY <1>2 DEF TypeOK
  <1>4. /\ counts[l].fetched \in Nat /\ counts[l].created \in Nat /\ counts[l].updated \in Nat
        /\ counts[l].skipped \in Nat /\ counts[l].errored \in Nat
        /\ batch[t].todo \in Nat /\ batch[t].creates \in Nat
    BY <1>1, <1>2, <1>3, Numbers, BatchAssumption DEF BatchType
  <1>5. /\ UNCHANGED job /\ Log(t)' = l /\ Work(t) /\ row[l].status # "none"
        /\ \A k \in Logs \ {l} : row'[k] = row[k] /\ counts'[k] = counts[k]
    <2>1. row[l].status # "none" /\ UNCHANGED job
      BY <1>1, <1>2 DEF Fetch, Record, RecordError, CountError, Blame, SaveFails, TaskFacts
    <2>2. \A k \in Logs \ {l} : row'[k] = row[k]
      BY <1>3 DEF Fetch, Record, RecordError, CountError, Blame, SaveFails
    <2>3. UNCHANGED counts \/ \E c \in Counters, n \in Int : Bump(l, c, n)
      <3>1. CASE Fetch(t)
        <4>1. PICK n \in 0..BatchSize :
                UNCHANGED counts \/ Bump(l, "fetched", n)
                  \/ Bump(l, "fetched", n - counts[l].fetched)
          BY <3>1 DEF Fetch
        <4>2. n \in Int /\ n - counts[l].fetched \in Int /\ "fetched" \in Counters
          BY <1>4, BatchAssumption DEF Counters
        <4> QED BY <4>1, <4>2
      <3>2. CASE ~Fetch(t)
        <4>1. \A c \in {"created", "updated", "skipped", "errored"} : c \in Counters
          BY DEF Counters
        <4>2. 1 \in Int /\ -1 \in Int
          OBVIOUS
        <4> QED BY <3>2, <4>1, <4>2 DEF Record, RecordError, CountError, Blame, SaveFails
      <3> QED BY <3>1, <3>2
    <2>4. \A k \in Logs \ {l} : counts'[k] = counts[k]
      BY <1>3, <2>3 DEF Bump
    <2> QED BY <2>1, <2>2, <2>4 DEF Work, Log
  <1>6. row'[l].status = row[l].status /\ (Alive(l)' <=> Alive(l))
    <2>1. UNCHANGED row \/ row' = [row EXCEPT ![l].detail = @ \cup {"record"}]
      BY DEF Fetch, Record, RecordError, CountError, Blame, SaveFails
    <2>2. row'[l].status = row[l].status
      BY <1>1, <1>3, <2>1 DEF RowType
    <2> QED BY <1>5, <2>2 DEF Alive, Log
  <1>7. TaskFacts(t)' /\ LogFacts(l)'
    <2> DEFINE Same(c) == counts'[l][c] = counts[l][c]
    <2>1. CASE ~Alive(l)
      <3>1. /\ pc'[t] \in Body \cup {"handler"} /\ pc[t] # "prepare" /\ pc'[t] # "prepare"
            /\ pc'[t] \notin Paging => batch'[t].todo = 0
            /\ pc'[t] \notin Saving => batch'[t].creates = 0
        <4> USE <1>2, <1>3, <1>4 DEF TaskFacts, Paging, Saving, Body, Errors, Blames, GoTo,
                                     BatchType
        <4>1. CASE Fetch(t)
          <5>1. pc[t] = "page" /\ batch[t].todo = 0 /\ batch[t].creates = 0
            BY <4>1 DEF Fetch
          <5>2. \/ pc'[t] = "batch"
                \/ pc'[t] = "finish" /\ UNCHANGED batch
            BY <4>1 DEF Fetch
          <5> QED BY <5>1, <5>2
        <4>2. CASE Record(t)
          <5>1. pc[t] = "batch" /\ pc'[t] = "batch"
            BY <4>2 DEF Record
          <5> QED BY <5>1
        <4>3. CASE RecordError(t)
          <5>1. pc[t] = "batch" /\ pc'[t] = "batch_error"
            BY <4>3 DEF RecordError
          <5> QED BY <5>1
        <4>4. CASE CountError(t)
          <5>1. /\ UNCHANGED batch
                /\ \/ pc[t] = "batch_error" /\ pc'[t] = "batch_blame"
                   \/ pc[t] = "salvage_error" /\ pc'[t] = "salvage_blame"
            BY <4>4 DEF CountError
          <5> QED BY <5>1
        <4>5. CASE Blame(t)
          <5>1. pc[t] \in Blames /\ pc'[t] = "handler"
            BY <2>1, <4>5 DEF Blame
          <5> QED BY <5>1
        <4>6. CASE SaveFails(t)
          <5>1. pc[t] = "salvage" /\ pc'[t] = "salvage_error" /\ batch'[t].todo = batch[t].todo
            BY <4>6 DEF SaveFails
          <5> QED BY <5>1
        <4> QED BY <4>1, <4>2, <4>3, <4>4, <4>5, <4>6
      <3>2. row[l].status \notin Done
        BY <2>1 DEF Alive, Statuses
      <3>3. ~Alive(l)' /\ ~Holds(t)' /\ row'[l].status \notin Done \cup {"none"}
        BY <1>5, <1>6, <2>1, <3>2 DEF Holds
      <3>4. LogFacts(l)'
        BY <1>5, <3>3 DEF LogFacts, Done
      <3>5. TaskFacts(t)'
        BY <1>1, <1>2, <1>5, <1>6, <3>1, <3>3
           DEF TaskFacts, Asking, Body, Errors, Blames
      <3> QED BY <3>4, <3>5
    <2>2. CASE Alive(l) /\ Fetch(t)
      <3>1. pc[t] = "page" /\ UNCHANGED row /\ batch[t].todo = 0 /\ batch[t].creates = 0
        BY <1>2, <2>2 DEF Fetch, TaskFacts, Paging, Saving
      <3>2. CASE pc'[t] = "finish" /\ UNCHANGED <<batch, counts>>
        BY <1>1, <1>2, <1>4, <1>5, <1>6, <3>1, <3>2, <2>2
           DEF TaskFacts, LogFacts, Active, Holds, Accounted, Uncounted, Alive, Writing, Busy,
               Body, Errors, Blames, Asking, Paging, Saving
      <3>3. CASE ~(pc'[t] = "finish" /\ UNCHANGED <<batch, counts>>)
        <4>1. PICK n \in 0..BatchSize :
                /\ pc'[t] = "batch" /\ batch'[t].todo = n /\ batch'[t].creates = 0
                /\ counts' = [counts EXCEPT ![l].fetched =
                                @ + (IF job[t].kind = "sync" THEN n ELSE n - counts[l].fetched)]
          <5>1. PICK n \in 0..BatchSize :
                  /\ GoTo(t, "page", "batch")
                  /\ batch' = [batch EXCEPT ![t].page = n, ![t].todo = n]
                  /\ Bump(l, "fetched", IF job[t].kind = "sync" THEN n ELSE n - counts[l].fetched)
            BY <2>2, <3>3, <1>3 DEF Fetch, GoTo
          <5> QED BY <5>1, <2>2, <3>1, <1>3 DEF GoTo, Bump, BatchType
        <4>2. n \in Nat
          BY BatchAssumption
        <4>3. /\ job[t].kind = "sync" => counts'[l].fetched = counts[l].fetched + n
              /\ job[t].kind # "sync" => counts'[l].fetched = n
              /\ counts'[l].created = counts[l].created /\ counts'[l].updated = counts[l].updated
              /\ counts'[l].skipped = counts[l].skipped /\ counts'[l].errored = counts[l].errored
          BY <1>1, <1>3, <1>4, <4>1, <4>2 DEF Counters
        <4>4. job[t].kind # "sync" => job[t].kind = "by_ids" /\ counts[l] = Zero
          BY <1>1, <1>2, <2>2, <3>1 DEF TypeOK, JobType, TaskFacts, Holds
        <4>5. counts[l] = Zero => counts[l].created = 0 /\ counts[l].updated = 0
                /\ counts[l].skipped = 0 /\ counts[l].errored = 0 /\ counts[l].fetched = 0
          BY DEF Zero, Counters
        <4> QED
          <5>1. LogFacts(l)'
            BY <1>1, <1>2, <1>4, <1>5, <1>6, <2>2, <3>1, <4>1, <4>2, <4>3, <4>4, <4>5, SMTT(60)
               DEF TaskFacts, LogFacts, Active, Holds, Accounted, Uncounted, Alive, Writing, Busy,
                   Body, Errors, Done
          <5>2. TaskFacts(t)'
            BY <1>1, <1>2, <1>4, <1>5, <1>6, <2>2, <3>1, <4>1, <4>2, <4>3, <4>4, <4>5
               DEF TaskFacts, Active, Holds, Accounted, Uncounted, Alive, Writing, Busy, Body,
                   Errors, Blames, Asking, Paging, Saving, Done
          <5> QED BY <5>1, <5>2
      <3> QED BY <3>2, <3>3
    <2>3. CASE Alive(l) /\ Record(t)
      <3>1. pc[t] = "batch" /\ pc'[t] = "batch" /\ batch[t].todo > 0 /\ UNCHANGED row
        BY <2>3 DEF Record
      <3>2. batch'[t].todo = batch[t].todo - 1
        BY <2>3, <1>3 DEF Record, BatchType
      <3>3. PICK c \in {"created", "updated", "skipped"} :
              /\ counts' = [counts EXCEPT ![l][c] = @ + 1]
              /\ batch'[t].creates = batch[t].creates + (IF c = "created" THEN 1 ELSE 0)
        BY <2>3, <1>3 DEF Record, Bump, BatchType
      <3>4. /\ counts'[l].fetched = counts[l].fetched
            /\ counts'[l].errored = counts[l].errored
            /\ counts'[l].created = counts[l].created + (IF c = "created" THEN 1 ELSE 0)
            /\ counts'[l].updated = counts[l].updated + (IF c = "updated" THEN 1 ELSE 0)
            /\ counts'[l].skipped = counts[l].skipped + (IF c = "skipped" THEN 1 ELSE 0)
        BY <1>1, <1>3, <1>4, <3>3 DEF Counters
      <3> QED
        BY <1>1, <1>2, <1>4, <1>5, <1>6, <2>3, <3>1, <3>2, <3>3, <3>4
          DEF TaskFacts, LogFacts, Active, Holds, Accounted, Uncounted, Alive, Writing, Busy,
              Body, Errors, Blames, Asking, Paging, Saving, Done
    <2>4. CASE Alive(l) /\ RecordError(t)
      <3>1. pc[t] = "batch" /\ pc'[t] = "batch_error" /\ batch[t].todo > 0 /\ UNCHANGED row
        BY <1>3, <2>4 DEF RecordError, GoTo
      <3>2. batch'[t].todo = batch[t].todo - 1 /\ batch'[t].creates = batch[t].creates
        BY <2>4, <1>3 DEF RecordError, BatchType
      <3>3. /\ counts'[l].updated \in {counts[l].updated, counts[l].updated + 1}
            /\ Same("fetched") /\ Same("created") /\ Same("skipped") /\ Same("errored")
        BY <1>3, <2>4 DEF RecordError, Bump, Counters
      <3> QED
        BY <1>1, <1>2, <1>4, <1>5, <1>6, <2>4, <3>1, <3>2, <3>3
          DEF TaskFacts, LogFacts, Active, Holds, Accounted, Uncounted, Alive, Writing, Busy,
              Body, Errors, Blames, Asking, Paging, Saving, Done
    <2>5. CASE Alive(l) /\ CountError(t)
      <3>1. /\ UNCHANGED <<batch, row>>
            /\ \/ pc[t] = "batch_error" /\ pc'[t] = "batch_blame"
               \/ pc[t] = "salvage_error" /\ pc'[t] = "salvage_blame"
        BY <1>3, <2>5 DEF CountError, GoTo
      <3>2. /\ counts'[l].errored = counts[l].errored + 1
            /\ Same("fetched") /\ Same("created") /\ Same("skipped") /\ Same("updated")
        BY <1>3, <2>5 DEF CountError, Bump, Counters
      <3>3. row[l].status = "RUNNING"
        BY <1>1, <1>2, <2>5, <3>1 DEF TaskFacts, Holds, Writing, Body, Errors
      <3> QED
        BY <1>1, <1>2, <1>4, <1>5, <1>6, <2>5, <3>1, <3>2, <3>3
          DEF TaskFacts, LogFacts, Active, Holds, Accounted, Uncounted, Alive, Writing, Busy,
              Body, Errors, Blames, Asking, Paging, Saving, Done
    <2>6. CASE Alive(l) /\ Blame(t)
      <3>1. /\ UNCHANGED <<batch, counts>>
            /\ \/ pc[t] = "batch_blame" /\ pc'[t] = "batch"
               \/ pc[t] = "salvage_blame" /\ pc'[t] = "salvage"
            /\ row' = [row EXCEPT ![l].detail = @ \cup {"record"}]
        BY <1>3, <2>6 DEF Blame, GoTo
      <3>2. row'[l].detail = row[l].detail \cup {"record"} /\ row'[l].finished = row[l].finished
        BY <3>1, <1>1, <1>3 DEF RowType
      <3> QED
        BY <1>1, <1>2, <1>4, <1>5, <1>6, <2>6, <3>1, <3>2
          DEF TaskFacts, LogFacts, Active, Holds, Accounted, Uncounted, Alive, Writing, Busy,
              Body, Errors, Blames, Asking, Paging, Saving, Done
    <2>7. CASE Alive(l) /\ SaveFails(t)
      <3>1. /\ pc[t] = "salvage" /\ pc'[t] = "salvage_error" /\ UNCHANGED row
            /\ batch[t].creates > 0 /\ batch[t].todo = 0
        BY <1>2, <1>3, <2>7 DEF SaveFails, TaskFacts, GoTo, Paging
      <3>2. batch'[t].todo = batch[t].todo /\ batch'[t].creates = batch[t].creates - 1
        BY <2>7, <1>3 DEF SaveFails, BatchType
      <3>3. /\ counts'[l].created = counts[l].created - 1
            /\ Same("fetched") /\ Same("errored") /\ Same("skipped") /\ Same("updated")
        BY <1>3, <1>4, <2>7 DEF SaveFails, Bump, Counters
      <3>4. row[l].status = "RUNNING"
        BY <1>1, <1>2, <2>7, <3>1 DEF TaskFacts, Holds, Writing, Body
      <3> QED
        BY <1>1, <1>2, <1>4, <1>5, <1>6, <2>7, <3>1, <3>2, <3>3, <3>4
          DEF TaskFacts, LogFacts, Active, Holds, Accounted, Uncounted, Alive, Writing, Busy,
              Body, Errors, Blames, Asking, Paging, Saving, Done
    <2> QED BY <2>1, <2>2, <2>3, <2>4, <2>5, <2>6, <2>7
  <1> QED BY <1>1, <1>5, <1>6, <1>7, OnRow

LEMMA ClosingSteps ==
  ASSUME Inv, NEW t \in Tasks, NEW l \in Logs, Log(t) = l, Closing(t)
  PROVE  Inv'
  <1> USE DEF Closing
  <1>1. /\ pc[t] \in {"refused", "unqueued", "queued", "finish", "handler", "fail", "finally"}
        /\ UNCHANGED <<job, counts>> /\ Log(t)' = l /\ Work(t)
    BY DEF Refuse, CloseRefused, StartGiven, Finish, Handler, Fail, Finally, Work, GoTo, Log
  <1>2. TypeOK /\ TaskFacts(t) /\ LogFacts(l) /\ l # NoLog /\ Active(t)
    BY <1>1, InvParts, NoLogAssumption DEF Active
  <1>3. pc \in [Tasks -> PCs] /\ batch \in [Tasks -> BatchType]
        /\ row \in [Logs -> RowType] /\ row[l].status # "none"
    BY <1>2 DEF TypeOK, TaskFacts
  <1>4. /\ counts[l].fetched \in Nat /\ counts[l].created \in Nat /\ counts[l].updated \in Nat
        /\ counts[l].skipped \in Nat /\ counts[l].errored \in Nat
        /\ batch[t].todo \in Nat /\ batch[t].creates \in Nat
    BY <1>2, <1>3, Numbers, BatchAssumption DEF BatchType
  <1>5. /\ \A k \in Logs \ {l} : row'[k] = row[k] /\ counts'[k] = counts[k]
        /\ row'[l].status # "none"
    BY <1>1, <1>3
       DEF Refuse, CloseRefused, StartGiven, Finish, Verdict, Handler, Fail, Finally, Close,
           RowType
  <1>6. TaskFacts(t)' /\ LogFacts(l)'
    <2> USE DEF TaskFacts, LogFacts, Active, Holds, Accounted, Uncounted, Alive, Statuses, Open,
               Done, Busy, Body, Except, Errors, Blames, Asking, Paging, Saving, Writing
    <2>1. CASE Refuse(t)
      <3>1. pc[t] = "refused" /\ UNCHANGED batch
        BY <2>1 DEF Refuse
      <3>2. CASE ~Alive(l)
        <4>1. pc'[t] = "ended" /\ UNCHANGED row
          BY <2>1, <3>2, <1>3 DEF Refuse, GoTo
        <4> QED BY <1>1, <1>2, <1>3, <1>4, <3>1, <3>2, <4>1
      <3>3. CASE Alive(l)
        <4>1. /\ pc'[t] = "unqueued" /\ row'[l].status = row[l].status
              /\ row'[l].finished = row[l].finished
          BY <2>1, <3>3, <1>3 DEF Refuse, GoTo, RowType
        <4>2. row[l].status = "RUNNING" /\ row[l].finished = FALSE /\ row[l].detail = {}
          BY <1>2, <3>1, <3>3 DEF NewRow
        <4> QED BY <1>1, <1>2, <1>3, <1>4, <3>1, <3>3, <4>1, <4>2
      <3> QED BY <3>2, <3>3
    <2>2. CASE CloseRefused(t)
      <3>1. /\ pc[t] = "unqueued" /\ pc'[t] = "ended" /\ UNCHANGED batch
            /\ Alive(l) => row'[l].status = "FAILED" /\ row'[l].finished = TRUE
            /\ ~Alive(l) => UNCHANGED row
        BY <2>2, <1>3 DEF CloseRefused, Close, GoTo, RowType
      <3> QED BY <1>1, <1>2, <1>3, <1>4, <3>1
    <2>3. CASE StartGiven(t)
      <3>1. CASE ~Alive(l)
        <4>1. pc'[t] = "ended" /\ pc[t] = "queued" /\ UNCHANGED <<row, batch>>
          BY <2>3, <3>1, <1>3 DEF StartGiven, GoTo
        <4> QED BY <1>1, <1>2, <1>3, <3>1, <4>1
      <3>2. CASE Alive(l)
        <4>1. /\ pc'[t] = "prepare" /\ pc[t] = "queued" /\ UNCHANGED batch /\ job[t].given
              /\ row'[l].status = "RUNNING" /\ row'[l].finished = FALSE
              /\ row'[l].detail = row[l].detail
          BY <2>3, <3>2, <1>3 DEF StartGiven, GoTo, RowType
        <4> QED BY <1>1, <1>2, <1>3, <1>4, <3>2, <4>1
      <3> QED BY <3>1, <3>2
    <2>4. CASE Finish(t)
      <3>1. CASE ~Alive(l)
        <4>1. pc'[t] = "handler" /\ pc[t] = "finish" /\ UNCHANGED <<row, batch>>
          BY <2>4, <3>1, <1>3 DEF Finish, GoTo
        <4> QED BY <1>1, <1>2, <1>3, <3>1, <4>1
      <3>2. CASE Alive(l)
        <4>1. /\ pc'[t] = "announce" /\ pc[t] = "finish" /\ UNCHANGED batch
              /\ row'[l].status = (IF counts[l].errored > 0 THEN "PARTIAL" ELSE "SUCCESS")
              /\ row'[l].finished = TRUE /\ row'[l].detail = row[l].detail
          BY <2>4, <3>2, <1>3 DEF Finish, Verdict, Close, GoTo, RowType
        <4> QED BY <1>1, <1>2, <1>3, <1>4, <3>2, <4>1
      <3> QED BY <3>1, <3>2
    <2>5. CASE Handler(t)
      <3>1. pc[t] = "handler" /\ batch'[t].todo = 0 /\ batch'[t].creates = 0
        BY <2>5, <1>3 DEF Handler, Leave, EmptyBatch
      <3>2. CASE ~Alive(l)
        <4>1. pc'[t] = "finally" /\ UNCHANGED row
          BY <2>5, <3>2, <1>3 DEF Handler, GoTo
        <4> QED BY <1>1, <1>2, <1>3, <3>1, <3>2, <4>1
      <3>3. CASE Alive(l)
        <4>1. /\ pc'[t] = "fail" /\ row'[l].status = row[l].status
              /\ row'[l].finished = row[l].finished /\ row'[l].detail = {"unhandled"}
          BY <2>5, <3>3, <1>3 DEF Handler, GoTo, RowType
        <4> QED BY <1>1, <1>2, <1>3, <1>4, <3>1, <3>3, <4>1
      <3> QED BY <3>2, <3>3
    <2>6. CASE Fail(t)
      <3>1. pc[t] = "fail" /\ UNCHANGED batch
        BY <2>6 DEF Fail
      <3>2. CASE ~Alive(l)
        <4>1. pc'[t] = "finally" /\ UNCHANGED row
          BY <2>6, <3>2, <1>3 DEF Fail, GoTo
        <4> QED BY <1>1, <1>2, <1>3, <3>1, <3>2, <4>1
      <3>3. CASE Alive(l)
        <4>1. /\ pc'[t] = "complain" /\ row'[l].status = "FAILED"
              /\ row'[l].finished = TRUE /\ row'[l].detail = row[l].detail
          BY <2>6, <3>3, <1>3 DEF Fail, Close, GoTo, RowType
        <4> QED BY <1>1, <1>2, <1>3, <1>4, <3>1, <3>3, <4>1
      <3> QED BY <3>2, <3>3
    <2>7. CASE Finally(t)
      <3>1. /\ pc[t] = "finally" /\ pc'[t] = "ended" /\ UNCHANGED batch
            /\ row[l].status # "RUNNING" => row'[l] = row[l]
            /\ row[l].status = "RUNNING" =>
                 /\ row'[l].status = "FAILED" /\ row'[l].finished = TRUE
                 /\ row'[l].detail = row[l].detail
        BY <2>7, <1>3 DEF Finally, Close, GoTo, RowType
      <3> QED BY <1>1, <1>2, <1>3, <1>4, <3>1
    <2> QED BY <2>1, <2>2, <2>3, <2>4, <2>5, <2>6, <2>7
  <1> QED BY <1>1, <1>5, <1>6, OnRow DEF Busy, Body, Except, Asking

\* A new row is taken by one task only, and nothing is counted in it yet.
LEMMA CreatingSteps ==
  ASSUME Inv, NEW t \in Tasks, Trigger(t) \/ StartFresh(t)
  PROVE  Inv'
  <1>1. TypeOK /\ TaskFacts(t) /\ \A l \in Logs : LogFacts(l)
    BY InvParts
  <1>2. PICK l \in Logs : /\ row[l].status = "none" /\ row' = [row EXCEPT ![l] = NewRow]
                          /\ Log(t)' = l /\ job'[t].kind = job[t].kind
                          /\ job'[t].given = (IF Trigger(t) THEN TRUE ELSE job[t].given)
    <2>1. job \in [Tasks -> JobType]
      BY <1>1 DEF TypeOK
    <2>2. CASE Trigger(t)
      <3>1. PICK l \in Logs : /\ Create(l)
                              /\ job' = [job EXCEPT ![t].given = TRUE, ![t].log = l]
        BY <2>2 DEF Trigger
      <3> QED BY <2>1, <2>2, <3>1 DEF Create, Log, JobType
    <2>3. CASE StartFresh(t) /\ ~Trigger(t)
      <3>1. PICK l \in Logs : Create(l) /\ job' = [job EXCEPT ![t].log = l]
        BY <2>3 DEF StartFresh
      <3> QED BY <2>1, <2>3, <3>1 DEF Create, Log, JobType
    <2> QED BY <2>2, <2>3
  <1>3. /\ row'[l] = NewRow /\ \A k \in Logs \ {l} : row'[k] = row[k]
        /\ UNCHANGED <<batch, counts>> /\ counts[l] = Zero
    BY <1>1, <1>2 DEF TypeOK, LogFacts, Trigger, StartFresh
  <1>4. /\ pc[t] \in {"new", "queued"}
        /\ Trigger(t) => pc[t] = "new" /\ pc'[t] = "publish"
        /\ ~Trigger(t) => /\ pc'[t] = (IF job[t].kind = "by_ids" THEN "greet" ELSE "prepare")
                          /\ pc[t] = "queued" /\ ~job[t].given
    BY <1>1 DEF TypeOK, Trigger, StartFresh, GoTo
  <1>5. counts[l].created = 0 /\ counts[l].updated = 0 /\ counts[l].skipped = 0
        /\ counts[l].errored = 0 /\ counts[l].fetched = 0
    BY <1>3 DEF Zero, Counters
  <1>6. LogFacts(l)'
    BY <1>2, <1>3, <1>5 DEF LogFacts, NewRow, Accounted, Alive, Statuses, Open, Done
  <1>7. TaskFacts(t)'
    BY <1>1, <1>2, <1>3, <1>4, <1>5, NoLogAssumption
       DEF TaskFacts, NewRow, Accounted, Uncounted, Busy, Body, Except, Errors, Blames, Asking,
           Paging, Saving, Writing, Holds, Active
  <1>8. TypeOK' /\ \A u \in Tasks \ {t} :
           pc'[u] = pc[u] /\ batch'[u] = batch[u] /\ job'[u] = job[u]
    BY <1>1, Typed, PcType, BatchTyped, JobTyped DEF Ask, Work
  <1> QED
    BY <1>2, <1>3, <1>6, <1>7, <1>8, Unused, Local DEF NewRow

LEMMA RetryStep ==
  ASSUME Inv, NEW t \in Tasks, NEW l \in Logs, Log(t) = l, Retry(t)
  PROVE  Inv'
  <1>1. TypeOK /\ TaskFacts(t) /\ LogFacts(l) /\ l # NoLog
    BY InvParts, NoLogAssumption
  <1>2. /\ pc[t] = "again" /\ pc'[t] \in {"queued", "finally"} /\ UNCHANGED <<row, counts, batch>>
        /\ job'[t].kind = job[t].kind /\ job'[t].given = job[t].given
        /\ Log(t)' \in {l, NoLog}
        /\ pc'[t] = "queued" => (job[t].given <=> Log(t)' # NoLog)
        /\ pc'[t] = "finally" => Log(t)' = l
    BY <1>1 DEF Retry, GoTo, Log, TypeOK, JobType
  <1>3. TaskFacts(t)'
    BY <1>1, <1>2
       DEF TaskFacts, Active, Holds, Accounted, Alive, Uncounted, Paging, Saving, Busy, Body,
           Except, Errors, Blames, Asking, Writing
  <1>4. LogFacts(l)' /\ row'[l].status # "none" /\ Active(t)
    BY <1>1, <1>2 DEF LogFacts, TaskFacts, Accounted, Alive, Active
  <1>5. TypeOK' /\ \A u \in Tasks \ {t} :
           pc'[u] = pc[u] /\ batch'[u] = batch[u] /\ job'[u] = job[u]
    BY <1>1, Typed, PcType, BatchTyped, JobTyped DEF Work
  <1> QED
    BY <1>2, <1>3, <1>4, <1>5, Sole, Local

\* A deleted row has no facts left to keep, and no other row changes.
LEMMA DeleteStep ==
  ASSUME Inv, NEW l \in Logs, Delete(l)
  PROVE  Inv'
  <1>1. TypeOK /\ OneWriter /\ (\A t \in Tasks : TaskFacts(t)) /\ \A k \in Logs : LogFacts(k)
    BY InvParts
  <1>2. /\ UNCHANGED <<pc, job, batch, counts, kills>> /\ row'[l].status = "deleted"
        /\ row' \in [Logs -> RowType] /\ \A k \in Logs \ {l} : row'[k] = row[k]
    BY <1>1, ZenonT(60) DEF TypeOK, Delete, RowType
  <1>3. TypeOK' /\ OneWriter'
    BY <1>1, <1>2 DEF TypeOK, OneWriter, Active, Log
  <1>4. ASSUME NEW t \in Tasks PROVE TaskFacts(t)'
    <2>1. CASE Log(t) = l
      BY <1>1, <1>2, <2>1 DEF TaskFacts, Holds, Alive, Log, Statuses, Open, Done
    <2>2. CASE Log(t) # l
      <3>1. Log(t)' = Log(t) /\ Log(t) \in Logs \cup {NoLog}
        BY <1>1, <1>2 DEF Log, TypeOK, JobType
      <3>2. TaskFacts(t)
        BY <1>1
      <3> QED
        BY <1>2, <2>2, <3>1, <3>2 DEF TaskFacts, Holds, Active, Alive, Accounted, Uncounted, Log
    <2> QED BY <2>1, <2>2
  <1>5. ASSUME NEW k \in Logs PROVE LogFacts(k)'
    BY <1>1, <1>2 DEF LogFacts, Alive, Accounted, Statuses, Open, Done
  <1> QED
    BY <1>3, <1>4, <1>5, Assembled

-----------------------------------------------------------------------------
\* Every step of the specification keeps the invariant.
LEMMA InvStep == Inv /\ [Next]_vars => Inv'
  <1> SUFFICES ASSUME Inv, [Next]_vars PROVE Inv'
    OBVIOUS
  <1>1. ASSUME NEW t \in Tasks, Ask(t) \/ Work(t) \/ Abort(t) \/ Kill(t) PROVE Inv'
    <2>1. CASE Log(t) \in Logs
      BY <1>1, <2>1, QuietSteps, CountingSteps, ClosingSteps, CreatingSteps, RetryStep
         DEF Ask, Work, Counting, Closing
    <2>2. CASE Log(t) \notin Logs
      <3>1. pc[t] \notin Busy \cup Asking /\ ~(pc[t] = "queued" /\ job[t].given)
        BY <2>2, HeldLog DEF Inv, Held, TypeOK, JobType, Log
      <3>2. ~(Counting(t) \/ Closing(t) \/ Retry(t))
        BY <3>1
           DEF Counting, Fetch, Record, RecordError, CountError, Blame, SaveFails, Closing,
               Refuse, CloseRefused, StartGiven, Finish, Handler, Fail, Finally, Retry, GoTo,
               Busy, Body, Except, Errors, Blames, Asking
      <3> QED BY <1>1, <3>2, QuietSteps, CreatingSteps DEF Ask, Work, Counting, Closing
    <2> QED BY <2>1, <2>2
  <1>2. ASSUME NEW l \in Logs, Delete(l) PROVE Inv'
    BY <1>2, DeleteStep
  <1>3. CASE UNCHANGED vars
    BY <1>3 DEF vars, Inv, TypeOK, OneWriter, Taken, Stamped, NothingCountedTwice,
                NothingLost, StatusTellsErrors, Held, Phases, Locals,
                Balance, Unborn, Holds, Active, Log, Alive, Accounted, Uncounted
  <1> QED
    BY <1>1, <1>2, <1>3 DEF Next, Quiet

LEMMA InitInv == Init => Inv
  <1> SUFFICES ASSUME Init PROVE Inv
    OBVIOUS
  <1> USE NoLogAssumption, RetriesAssumption, BatchAssumption DEF Init
  <1>1. TypeOK
    BY DEF TypeOK, PCs, Busy, Body, Except, Errors, Blames, Asking, JobType, BatchType, RowType,
           EmptyBatch, NoRow, Zero, Counters, Statuses, Open, Done
  <1>2. OneWriter /\ Taken /\ Held /\ Phases /\ Balance
    BY DEF OneWriter, Taken, Held, Phases, Balance, Active, Holds, Log, Busy, Body, Except,
           Errors, Blames, Asking
  <1>3. Stamped /\ NothingCountedTwice /\ NothingLost
    BY DEF Stamped, NothingCountedTwice, NothingLost, Alive, NoRow, Statuses, Open, Done
  <1>4. StatusTellsErrors /\ Locals /\ Unborn
    BY DEF StatusTellsErrors, Locals, Unborn, NoRow, EmptyBatch
  <1> QED
    BY <1>1, <1>2, <1>3, <1>4 DEF Inv

\* The invariant holds in every state of every behaviour: for any number of
\* tasks, logs, retries, records and workers, with killed processes, deleted
\* rows and a channel layer that may fail.
THEOREM Invariance == Spec => []Inv
  BY InitInv, InvStep, PTL DEF Spec

\* The types, with it that no counter of a SyncLog ever becomes negative
\* (models.py:84-88), although records_created is decremented (tasks.py:501).
THEOREM TypeCorrectness == Spec => []TypeOK
  <1>1. Inv => TypeOK
    BY DEF Inv
  <1> QED BY <1>1, Invariance, PTL

\* A SyncLog row is written by one task at a time (tasks.py:187-208).
THEOREM SingleWriter == Spec => []OneWriter
  <1>1. Inv => OneWriter
    BY DEF Inv
  <1> QED BY <1>1, Invariance, PTL

\* A run that went through without a failed attempt accounts for every record
\* it fetched, and no run for more that went through, or failed, than it fetched.
THEOREM Accounting == Spec => [](NothingCountedTwice /\ NothingLost)
  <1>1. Inv => NothingCountedTwice /\ NothingLost
    BY DEF Inv
  <1> QED BY <1>1, Invariance, PTL

\* SUCCESS means that no record failed, PARTIAL that one did (tasks.py:261-265).
THEOREM StatusCorrectness == Spec => []StatusTellsErrors
  <1>1. Inv => StatusTellsErrors
    BY DEF Inv
  <1> QED BY <1>1, Invariance, PTL

\* No record is counted twice, whatever falls back, fails or is retried
\* (tasks.py:248, 354-367, 501-506).
THEOREM CountedOnce == Spec => []NothingCountedTwice
  <1>1. Inv => NothingCountedTwice
    BY DEF Inv
  <1> QED BY <1>1, Invariance, PTL

\* A row that was closed has its finished_at, and one that a retry reopened has
\* none (tasks.py:187-202, models.py:129-131).
THEOREM Stamping == Spec => []Stamped
  <1>1. Inv => Stamped
    BY DEF Inv
  <1> QED BY <1>1, Invariance, PTL

-----------------------------------------------------------------------------
\* Refinement: the statuses move as the audit trail allows.
LEMMA OneStatus ==
  ASSUME NEW l \in Logs, row \in [Logs -> RowType], row' \in [Logs -> RowType],
         \A k \in Logs \ {l} : row'[k].status = row[k].status
  PROVE  StatusOf' = [StatusOf EXCEPT ![l] = row'[l].status]
  BY DEF StatusOf

LEMMA AuditTaskStep ==
  ASSUME Inv, NEW t \in Tasks, Ask(t) \/ Work(t) \/ Abort(t) \/ Kill(t)
  PROVE  Audit!Next \/ UNCHANGED StatusOf
  <1>1. TypeOK /\ TaskFacts(t) /\ row \in [Logs -> RowType] /\ row' \in [Logs -> RowType]
    BY InvParts, Typed DEF TypeOK
  <1>2. CASE Trigger(t) \/ StartFresh(t)
    <2>1. PICK l \in Logs : row[l].status = "none" /\ row' = [row EXCEPT ![l] = NewRow]
      BY <1>2 DEF Trigger, StartFresh, Create
    <2>2. Audit!Begin(l)
      BY <1>1, <2>1, OneStatus DEF Audit!Begin, Audit!Move, NewRow, StatusOf
    <2> QED BY <2>2 DEF Audit!Next
  <1>3. CASE CloseRefused(t) \/ StartGiven(t) \/ Finish(t) \/ Fail(t) \/ Finally(t)
    <2>1. PICK l \in Logs : l = Log(t)
      BY <1>1, <1>3, HeldLog
         DEF CloseRefused, StartGiven, Finish, Fail, Finally, GoTo, Busy, Body, Except, Errors,
             Blames, Asking, TaskFacts, TypeOK, JobType, Log
    <2>2. \/ row'[l].status = row[l].status
          \/ row[l].status = "RUNNING" /\ row'[l].status \in Done \cup {"FAILED"}
          \/ row[l].status = "FAILED" /\ row'[l].status = "RUNNING"
          \/ row[l].status \in Done /\ row'[l].status = "FAILED"
      <3>1. CASE CloseRefused(t)
        <4>1. pc[t] = "unqueued"
          BY <3>1 DEF CloseRefused, GoTo
        <4>2. CASE Alive(l)
          <5>1. row'[l].status = "FAILED"
            BY <1>1, <2>1, <3>1, <4>2 DEF CloseRefused, Close, RowType
          <5>2. row[l].status = "RUNNING"
            BY <1>1, <2>1, <4>1, <4>2, NoLogAssumption DEF TaskFacts, Holds, Active
          <5> QED BY <5>1, <5>2
        <4>3. CASE ~Alive(l)
          BY <2>1, <3>1, <4>3 DEF CloseRefused
        <4> QED BY <4>2, <4>3
      <3>2. CASE StartGiven(t)
        <4>1. pc[t] = "queued"
          BY <3>2 DEF StartGiven
        <4>2. CASE Alive(l)
          <5>1. row' = [row EXCEPT ![l].status = "RUNNING", ![l].finished = FALSE]
            BY <2>1, <3>2, <4>2 DEF StartGiven
          <5>2. row'[l].status = "RUNNING"
            BY <1>1, <5>1 DEF RowType
          <5>3. row[l].status \in {"RUNNING", "FAILED"}
            BY <1>1, <2>1, <4>1, <4>2, NoLogAssumption DEF TaskFacts, Holds, Active
          <5> QED BY <5>2, <5>3
        <4>3. CASE ~Alive(l)
          BY <2>1, <3>2, <4>3 DEF StartGiven
        <4> QED BY <4>2, <4>3
      <3>3. CASE Finish(t)
        <4>1. pc[t] = "finish"
          BY <3>3 DEF Finish
        <4>2. CASE Alive(l)
          <5>1. PICK s \in Done :
                  row' = [row EXCEPT ![l].status = s, ![l].finished = TRUE]
            BY <2>1, <3>3, <4>2 DEF Finish, Verdict, Close, Done
          <5>2. row'[l].status \in Done
            BY <1>1, <5>1 DEF RowType
          <5>3. row[l].status = "RUNNING"
            BY <1>1, <2>1, <4>1, <4>2, NoLogAssumption
               DEF TaskFacts, Holds, Active, Writing, Body
          <5> QED BY <5>2, <5>3
        <4>3. CASE ~Alive(l)
          BY <2>1, <3>3, <4>3 DEF Finish
        <4> QED BY <4>2, <4>3
      <3>4. CASE Fail(t)
        <4>1. pc[t] = "fail"
          BY <3>4 DEF Fail
        <4>2. CASE Alive(l)
          <5>1. row'[l].status = "FAILED"
            BY <1>1, <2>1, <3>4, <4>2 DEF Fail, Close, RowType
          <5>2. row[l].status \in Done \cup {"RUNNING"}
            BY <1>1, <2>1, <4>1, <4>2, NoLogAssumption DEF TaskFacts, Holds, Active
          <5> QED BY <5>1, <5>2
        <4>3. CASE ~Alive(l)
          BY <2>1, <3>4, <4>3 DEF Fail
        <4> QED BY <4>2, <4>3
      <3>5. CASE Finally(t)
        BY <1>1, <2>1, <3>5 DEF Finally, Close, RowType
      <3> QED BY <1>3, <3>1, <3>2, <3>3, <3>4, <3>5
    <2>3. StatusOf' = [StatusOf EXCEPT ![l] = row'[l].status]
      <3>1. \A k \in Logs \ {l} : row'[k].status = row[k].status
        BY <1>1, <1>3, <2>1
           DEF CloseRefused, StartGiven, Finish, Verdict, Fail, Finally, Close, RowType
      <3> QED BY <1>1, <3>1, OneStatus
    <2>4. CASE row'[l].status = row[l].status
      BY <2>3, <2>4 DEF StatusOf
    <2>5. CASE row'[l].status # row[l].status
      <3>1. Audit!End(l) \/ Audit!Resume(l) \/ Audit!Revoke(l)
        BY <2>2, <2>3, <2>5
           DEF Audit!End, Audit!Resume, Audit!Revoke, Audit!Move, Audit!Ended, Audit!Done, Done,
               StatusOf
      <3> QED BY <3>1 DEF Audit!Next
    <2> QED BY <2>4, <2>5
  <1>4. CASE Blame(t) \/ Refuse(t) \/ Handler(t)
    <2>1. \/ row' = row \/ row' = [row EXCEPT ![Log(t)].detail = @ \cup {"record"}]
          \/ \E d \in {"queue", "unhandled"} : row' = [row EXCEPT ![Log(t)].detail = {d}]
      BY <1>4 DEF Blame, Refuse, Handler
    <2>2. \A k \in Logs : row'[k].status = row[k].status
      BY <1>1, <2>1 DEF RowType
    <2> QED BY <2>2 DEF StatusOf
  <1>5. CASE ~(\/ Trigger(t) \/ StartFresh(t) \/ CloseRefused(t) \/ StartGiven(t)
               \/ Finish(t) \/ Fail(t) \/ Finally(t) \/ Blame(t) \/ Refuse(t)
               \/ Handler(t))
    <2>1. UNCHANGED row
      BY <1>5 DEF Ask, Beat, RerunFailed, Resync, Work, Publish, Prepare, Fetch, Record,
                  RecordError, CountError, BulkCreate, SaveOne, SaveFails, Salvaged, BulkUpdate,
                  Report, Announce, OdooFails, BadRow, ChannelFails, Complain, Retry, Abort, Kill
    <2> QED BY <2>1 DEF StatusOf
  <1> QED BY <1>2, <1>3, <1>4, <1>5

\* SyncTasks implements AuditTrail: a log that went through is never taken up
\* again, only a failed one is, and no deleted row returns.
THEOREM Refinement == Spec => AuditSpec
  <1>1. Init => Audit!Init
    BY DEF Init, Audit!Init, StatusOf, NoRow
  <1>2. Inv /\ [Next]_vars => [Audit!Next]_StatusOf
    <2> SUFFICES ASSUME Inv, [Next]_vars PROVE Audit!Next \/ UNCHANGED StatusOf
      OBVIOUS
    <2>1. ASSUME NEW l \in Logs, Delete(l) PROVE Audit!Next \/ UNCHANGED StatusOf
      <3>1. row \in [Logs -> RowType] /\ row' \in [Logs -> RowType] /\ row'[l].status = "deleted"
            /\ \A k \in Logs \ {l} : row'[k].status = row[k].status
        BY <2>1, ZenonT(60) DEF Delete, Inv, TypeOK, RowType
      <3>2. Audit!Remove(l)
        BY <2>1, <3>1, OneStatus
           DEF Audit!Remove, Audit!Move, Audit!Ended, Audit!Done, StatusOf, Delete, Alive,
               Statuses, Open, Done
      <3> QED BY <3>2 DEF Audit!Next
    <2>2. CASE UNCHANGED vars
      BY <2>2 DEF vars, StatusOf
    <2> QED BY <2>1, <2>2, AuditTaskStep DEF Next, Quiet
  <1> QED
    BY <1>1, <1>2, Invariance, PTL DEF Spec, AuditSpec, Audit!Spec

-----------------------------------------------------------------------------
\* A task may retry only when its except branch was left, and then the row it
\* holds is FAILED, or an admin has deleted it.
LEMMA RetriesOf ==
  ASSUME Inv, NEW t \in Tasks, Ask(t) \/ Work(t) \/ Abort(t) \/ Kill(t),
         NEW u \in Tasks, job'[u].retries # job[u].retries
  PROVE  /\ job'[u].retries = job[u].retries + 1
         /\ row[Log(u)].status \in {"FAILED", "deleted"}
  <1>1. TypeOK /\ TaskFacts(t)
    BY InvParts
  <1>2. CASE Retry(t)
    <2>1. pc[t] = "again" /\ u = t /\ job'[t].retries = job[t].retries + 1
      BY <1>1, <1>2 DEF Retry, GoTo, TypeOK, JobType
    <2>2. Log(t) \in Logs
      BY <1>1, <2>1, HeldLog DEF Busy, Except, Log
    <2>3. row[Log(t)].status \in (Statuses \cup {"none", "deleted"}) \ {"none"}
      BY <1>1, <2>1, <2>2, NoLogAssumption DEF TypeOK, RowType, TaskFacts
    <2>4. CASE Alive(Log(t))
      BY <1>1, <2>1, <2>2, <2>4, NoLogAssumption DEF TaskFacts, Holds, Active
    <2>5. CASE ~Alive(Log(t))
      BY <2>1, <2>3, <2>5 DEF Alive
    <2> QED BY <2>1, <2>4, <2>5
  <1>3. CASE ~Retry(t)
    <2>1. job'[u].retries = job[u].retries
      <3>1. CASE Trigger(t) \/ Resync(t) \/ StartFresh(t)
        <4>1. job \in [Tasks -> JobType]
          BY <1>1 DEF TypeOK
        <4>2. CASE Trigger(t)
          <5>1. PICK l \in Logs : job' = [job EXCEPT ![t].given = TRUE, ![t].log = l]
            BY <4>2 DEF Trigger
          <5> QED BY <4>1, <5>1 DEF JobType
        <4>3. CASE Resync(t)
          BY <4>1, <4>3 DEF Resync, JobType
        <4>4. CASE StartFresh(t)
          <5>1. PICK l \in Logs : job' = [job EXCEPT ![t].log = l]
            BY <4>4 DEF StartFresh
          <5> QED BY <4>1, <5>1 DEF JobType
        <4> QED BY <3>1, <4>2, <4>3, <4>4
      <3>2. CASE ~(Trigger(t) \/ Resync(t) \/ StartFresh(t))
        BY <1>3, <3>2
           DEF Ask, Beat, RerunFailed, Work, Publish, Refuse, CloseRefused, StartGiven, Prepare,
               Fetch, Record, RecordError, CountError, Blame, BulkCreate, SaveOne, SaveFails,
               Salvaged, BulkUpdate, Report, Finish, Announce, OdooFails, BadRow, ChannelFails,
               Handler, Fail, Complain, Finally, Abort, Kill
      <3> QED BY <3>1, <3>2
    <2> QED BY <2>1
  <1> QED BY <1>2, <1>3

\* Attempts are counted one by one, and only a failed attempt is repeated
\* (tasks.py:299-302).
THEOREM Retries == Spec => RetriesFollowFailure
  <1>1. Inv /\ [Next]_vars =>
          [\A t \in Tasks : job'[t].retries # job[t].retries =>
             /\ job'[t].retries = job[t].retries + 1
             /\ row[Log(t)].status \in {"FAILED", "deleted"}]_vars
    <2> SUFFICES ASSUME Inv, [Next]_vars, NEW u \in Tasks, job'[u].retries # job[u].retries
                 PROVE  /\ job'[u].retries = job[u].retries + 1
                        /\ row[Log(u)].status \in {"FAILED", "deleted"}
      OBVIOUS
    <2>1. job' # job
      OBVIOUS
    <2>2. PICK t \in Tasks : Ask(t) \/ Work(t) \/ Abort(t) \/ Kill(t)
      BY <2>1 DEF Next, Delete, Quiet, vars
    <2> QED BY <2>2, RetriesOf
  <1> QED
    BY <1>1, Invariance, PTL DEF Spec, RetriesFollowFailure
=============================================================================
