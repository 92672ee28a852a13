---------------------------- MODULE StatusChannel ----------------------------
(***************************************************************************)
(* How the state of synchronization runs reaches the sockets of staff      *)
(* users: workers write SyncLog rows and then send events to a channel     *)
(* group; a consumer per socket joins the group, sends the latest log once *)
(* and forwards the events of its channel.                                 *)
(*                                                                         *)
(* Runs are numbered in the order of started_at.  What a run does between  *)
(* its events is in module SyncTasks.                                      *)
(***************************************************************************)
EXTENDS Integers, Sequences

CONSTANTS
    LastRun,     \* bound: number of SyncLog rows
    Browsers,    \* sockets
    Capacity,    \* messages a channel holds before the layer drops more
    MaxProgress, \* bound: progress events of an attempt
    MaxRetries,  \* attempts of a run after the first (3 in the code)
    Given        \* the runs the trigger endpoint asked for, by their sync_log_id

ASSUME RunsAssumption == LastRun \in Nat \ {0}
ASSUME CapacityAssumption == Capacity \in Nat \ {0}
ASSUME GivenAssumption == Given \subseteq 1..LastRun
ASSUME BoundsAssumption == MaxProgress \in Nat /\ MaxRetries \in Nat

VARIABLES
    log,    \* status of each SyncLog row
    past,   \* history: what each row has said, in which attempt of its run
    worker, \* what the worker of each run does next, and what it has done
    socket, \* the consumer of each browser: its handler, snapshot and channel
    told    \* what the socket last told the browser of each run

channelVars == <<log, past, worker, socket, told>>

Runs == 1..LastRun
Ended == {"SUCCESS", "FAILED"}    \* SUCCESS: PARTIAL as well
Statuses == Ended \cup {"none", "RUNNING", "deleted"}

\* What a row says: its status, with the attempt of the run that wrote it.  The
\* attempt is no part of a message; it is kept to say what may be told when.
Attempts == 0..MaxRetries
Saying == Attempts \X Statuses
Nothing == <<0, "none">>
Said(r) == <<worker[r].retries, log[r]>>

Closed == [at |-> "closed", snap |-> 0, said |-> Nothing, channel |-> <<>>,
           dropped |-> FALSE]
Event(t, r) == [type |-> t, run |-> r, said |-> Said(r)]
Failure(r) == [type |-> "error", run |-> r, said |-> <<worker[r].retries, "FAILED">>]

ChannelInit ==
    /\ log = [r \in Runs |-> "none"]
    /\ past = [r \in Runs |-> {}]
    /\ worker = [r \in Runs |-> [next |-> "begin", progress |-> 0, retries |-> 0]]
    /\ socket = [b \in Browsers |-> Closed]
    /\ told = [b \in Browsers |-> [r \in Runs |-> Nothing]]

\* A message arrives at a channel, unless the channel is full.
\* Mutants: one message too many; the group is joined after the snapshot.
ReachedFull(s, e) ==
    IF s.at = "closed" THEN s
    ELSE IF Len(s.channel) > Capacity THEN [s EXCEPT !.dropped = TRUE]
    ELSE [s EXCEPT !.channel = Append(@, e)]
ReachedWhenSending(s, e) ==
    IF s.at \in {"closed", "reading"} THEN s ELSE [s EXCEPT !.channel = Append(@, e)]
Reached(s, e) ==
    IF s.at = "closed" THEN s
    ELSE IF Len(s.channel) >= Capacity THEN [s EXCEPT !.dropped = TRUE]
    ELSE [s EXCEPT !.channel = Append(@, e)]

\* group_send reaches every channel of the group, or else raises, having reached
\* some: what the worker does next depends on it.
Broadcast(e, to) ==
    socket' = [b \in Browsers |-> IF b \in to THEN Reached(socket[b], e) ELSE socket[b]]
At(r, next) == [worker[r] EXCEPT !.next = next, !.progress = 0]
Send(r, e, sent, raised) ==
    \/ /\ Broadcast(e, Browsers)
       /\ \E w \in sent : worker' = [worker EXCEPT ![r] = w]
    \/ /\ \E to \in SUBSET Browsers : Broadcast(e, to)
       /\ \E w \in raised : worker' = [worker EXCEPT ![r] = w]

-----------------------------------------------------------------------------
\* A row that is saved says something from then on.
Exists(r) == log[r] \notin {"none", "deleted"}
Save(r, status, w) ==
    /\ log' = [log EXCEPT ![r] = status]
    /\ worker' = [worker EXCEPT ![r] = w]
    /\ past' = [past EXCEPT ![r] = @ \cup {<<w.retries, status>>}]
    /\ UNCHANGED <<socket, told>>

\* Nothing more is announced of the run.
Silenced(r) ==
    /\ worker' = [worker EXCEPT ![r] = At(r, "silent")]
    /\ UNCHANGED <<log, past, socket, told>>

\* The first attempt of a run.  (The retry of a task that has no sync_log_id takes
\* a new row: it is a run of its own here.)
Begin(r) ==
    /\ worker[r].next = "begin"
    /\ r > 1 => log[r - 1] # "none"
    /\ Save(r, "RUNNING", At(r, "started"))

\* A retry reopens the row; one whose row was deleted meanwhile raises.
Again(r) ==
    /\ worker[r].next = "again"
    /\ IF Exists(r)
       THEN Save(r, "RUNNING", [next |-> "started", progress |-> 0,
                                retries |-> worker[r].retries + 1])
       ELSE Silenced(r)

\* The broker refused the task: its row is closed, and nobody is told.
Refused(r) ==
    /\ r \in Given
    /\ worker[r].next = "started" /\ worker[r].retries = 0
    /\ log[r] = "RUNNING"
    /\ Save(r, "FAILED", At(r, "silent"))

\* An exception of group_send fails the run, except that a run over selected ids
\* sends its first event before its try.
Started(r) ==
    /\ worker[r].next = "started"
    /\ Send(r, Event("started", r), {At(r, "work")},
            {At(r, next) : next \in {"failing"} \cup
               IF r \in Given THEN {} ELSE {"silent"}})
    /\ UNCHANGED <<log, past, told>>

Progress(r) ==
    /\ worker[r].next = "work"
    /\ worker[r].progress < MaxProgress
    /\ Send(r, Event("progress", r), {[worker[r] EXCEPT !.progress = @ + 1]},
            {At(r, "failing")})
    /\ UNCHANGED <<log, past, told>>

\* The row is closed first, and the end of the run announced after that.
\* Mutants: the end is sent before it is written; the row is inserted again.
EndToldFirst(r) ==
    /\ worker[r].next = "work"
    /\ worker' = [worker EXCEPT ![r].next = "completed"]
    /\ Broadcast([Event("completed", r) EXCEPT !.said[2] = "SUCCESS"], Browsers)
    /\ UNCHANGED <<log, past, told>>
EndAgain(r) ==
    /\ worker[r].next = "work"
    /\ Save(r, "SUCCESS", At(r, "completed"))
End(r) ==
    /\ worker[r].next = "work"
    /\ Exists(r)
    /\ Save(r, "SUCCESS", At(r, "completed"))

\* A run that fails, also after its row was closed, if that could not be
\* announced; without its row the save raises, and nothing is announced.
Fail(r) ==
    /\ worker[r].next \in {"started", "work", "failing"}
    /\ IF Exists(r) THEN Save(r, "FAILED", At(r, "error")) ELSE Silenced(r)

MayRetry(r) == r \in Given /\ worker[r].retries < MaxRetries

\* The event of an end in success shows the row, that of a failure its id alone.
\* When the latter cannot be sent there is neither an event nor a retry.
Announce(r) ==
    /\ \/ /\ worker[r].next = "completed"
          /\ Send(r, Event("completed", r), {At(r, "gone")}, {At(r, "failing")})
       \/ /\ worker[r].next = "error"
          /\ Send(r, Failure(r),
                  {At(r, next) : next \in {"gone"} \cup
                     IF MayRetry(r) THEN {"again"} ELSE {}},
                  {At(r, "silent")})
    /\ UNCHANGED <<log, past, told>>

\* The process is killed, or its message lost, and nobody announces anything (an
\* interruption that leaves a row closed ends as silently).
Kill(r) ==
    /\ worker[r].next \notin {"begin", "gone", "silent"}
    /\ Silenced(r)

\* The admin site lets people delete rows, whatever becomes of their runs.
Delete(r) ==
    /\ Exists(r)
    /\ log' = [log EXCEPT ![r] = "deleted"]
    /\ UNCHANGED <<past, worker, socket, told>>

-----------------------------------------------------------------------------
\* The consumer.  connect joins the group, accepts, and reads the latest log;
\* events wait in the channel until the handler is done.
Connect(b) ==
    /\ socket[b].at = "closed"
    /\ socket' = [socket EXCEPT ![b].at = "reading"]
    /\ UNCHANGED <<log, past, worker, told>>

\* n is the newest row there is, 0 if there is none.
Latest(n) == (n # 0 => Exists(n)) /\ \A q \in Runs : Exists(q) => q <= n

ReadLatest(b) ==
    /\ socket[b].at = "reading"
    /\ \E n \in {0} \cup Runs :
         /\ Latest(n)
         /\ socket' = [socket EXCEPT ![b].at = "sending", ![b].snap = n,
                                     ![b].said = IF n = 0 THEN Nothing ELSE Said(n)]
    /\ UNCHANGED <<log, past, worker, told>>

SendLatest(b) ==
    LET snap == socket[b].snap IN
    /\ socket[b].at = "sending"
    /\ socket' = [socket EXCEPT ![b].at = "open", ![b].snap = 0, ![b].said = Nothing]
    /\ told' = IF snap = 0 THEN told
               ELSE [told EXCEPT ![b][snap] = socket[b].said]
    /\ UNCHANGED <<log, past, worker>>

\* A client may ask for it again.
GetLatest(b) ==
    /\ socket[b].at = "open"
    /\ socket' = [socket EXCEPT ![b].at = "reading"]
    /\ UNCHANGED <<log, past, worker, told>>

\* Events are forwarded one by one; a progress message does not say whose, and
\* one about a deleted row says nothing (sync_log is null).
Forward(b) ==
    LET e == Head(socket[b].channel) IN
    /\ socket[b].at = "open"
    /\ socket[b].channel # <<>>
    /\ socket' = [socket EXCEPT ![b].channel = Tail(@)]
    /\ told' = IF e.type = "progress" \/ e.said[2] = "deleted" THEN told
               ELSE [told EXCEPT ![b][e.run] = e.said]
    /\ UNCHANGED <<log, past, worker>>

\* disconnect leaves the group; a new socket starts from nothing.
Disconnect(b) ==
    /\ socket[b].at # "closed"
    /\ socket' = [socket EXCEPT ![b] = Closed]
    /\ told' = [told EXCEPT ![b] = [r \in Runs |-> Nothing]]
    /\ UNCHANGED <<log, past, worker>>

-----------------------------------------------------------------------------
Run(r) ==
    \/ Begin(r) \/ Again(r) \/ Refused(r) \/ Started(r) \/ Progress(r) \/ End(r)
    \/ Fail(r) \/ Announce(r) \/ Kill(r) \/ Delete(r)
Consume(b) == Connect(b) \/ ReadLatest(b) \/ SendLatest(b) \/ GetLatest(b) \/ Disconnect(b)

ChannelNext ==
    \/ \E r \in Runs : Run(r)
    \/ \E b \in Browsers : Consume(b) \/ Forward(b)

ChannelSpec == ChannelInit /\ [][ChannelNext]_channelVars

-----------------------------------------------------------------------------
Stages == {"begin", "started", "work", "completed", "failing", "error", "again",
           "gone", "silent"}
WorkerType == [next : Stages, progress : 0..MaxProgress, retries : Attempts]
EventType == [type : {"started", "progress", "completed", "error"}, run : Runs,
              said : Saying]
SocketType == [at : {"closed", "reading", "sending", "open"}, snap : 0..LastRun,
               said : Saying, channel : Seq(EventType), dropped : BOOLEAN]
ChannelTypeOK ==
    /\ log \in [Runs -> Statuses]
    /\ past \in [Runs -> SUBSET Saying]
    /\ worker \in [Runs -> WorkerType]
    /\ socket \in [Browsers -> SocketType]
    /\ \A b \in Browsers : Len(socket[b].channel) <= Capacity
    /\ told \in [Browsers -> [Runs -> Saying]]

\* A socket that is open never misses how the latest run ended: it was told what
\* the row says of its last attempt, in the snapshot or by an event, or the event
\* is still in its channel, however run, failed announcements, retries and
\* handshake interleave (consumers.py:26-28: it joins the group before it reads
\* the log).  Excepted are a socket whose channel overflowed, a row that was
\* deleted, and a run of which nothing could be announced at its end: it was
\* killed, its broker refused it, or group_send raised again when its failure was
\* to be told (tasks.py:299).
Informed ==
    \A b \in Browsers, r \in Runs :
      LET events == socket[b].channel IN
      /\ socket[b].at = "open" /\ ~socket[b].dropped
      /\ worker[r].next = "gone" /\ Exists(r)
      /\ \A q \in Runs : q > r => log[q] = "none"
      => \/ told[b][r] = Said(r)
         \/ \E i \in 1..Len(events) : events[i].run = r /\ events[i].said = Said(r)

\* Whatever a socket was told of a run, its row has said before, in that very
\* attempt: nobody hears of an end that is not in the table yet, nor after a
\* retry has reopened the row of one that is not written again (tasks.py:187-202,
\* 266-267, 298-299).  The row may say otherwise by now: a completion that could
\* not be announced has become a failure.
EventsFollowRow ==
    \A b \in Browsers, r \in Runs : told[b][r] \in past[r] \cup {Nothing}

\* Why: where a run is in its code tells what its row can say ...
Stage(r) ==
    CASE worker[r].next = "begin" ->
           log[r] = "none" /\ past[r] = {} /\ worker[r].retries = 0
      [] worker[r].next = "again" ->
           log[r] \in {"FAILED", "deleted"} /\ worker[r].retries < MaxRetries
      [] worker[r].next \in {"started", "work"} -> log[r] \in {"RUNNING", "deleted"}
      [] worker[r].next = "completed" -> log[r] \in {"SUCCESS", "deleted"}
      [] worker[r].next = "failing" -> log[r] \in {"RUNNING", "SUCCESS", "deleted"}
      [] worker[r].next = "error" ->
           log[r] \in {"FAILED", "deleted"} /\ <<worker[r].retries, "FAILED">> \in past[r]
      [] worker[r].next = "gone" -> log[r] \in Ended \cup {"deleted"}
      [] OTHER -> log[r] # "none"

Staged == \A r \in Runs : Stage(r) /\ (Exists(r) => Said(r) \in past[r])

\* ... what is told, waits in a channel or was read is not ahead of the row ...
Heard(r) == past[r] \cup {Nothing} \cup (Attempts \X {"deleted"})

Follow ==
    \A b \in Browsers :
      /\ \A r \in Runs : told[b][r] \in past[r] \cup {Nothing}
      /\ \A i \in 1..Len(socket[b].channel) :
            LET e == socket[b].channel[i] IN e.said \in Heard(e.run)
      /\ socket[b].snap # 0 => socket[b].said \in past[socket[b].snap]

\* ... and of the last run, once it is over, the event of the end is the last one
\* that waits, or else nothing waits and it was told, or is to be read or sent.
Over(r) ==
    worker[r].next = "gone" /\ Exists(r) /\ \A q \in Runs : q > r => log[q] = "none"
SilentFrom(n, events, r) ==
    \A i \in n..Len(events) : events[i].run # r \/ events[i].type = "progress"
EndWaits(events, r) ==
    \E i \in 1..Len(events) :
      /\ events[i].run = r /\ events[i].type # "progress" /\ events[i].said = Said(r)
      /\ SilentFrom(i + 1, events, r)

Delivered ==
    \A b \in Browsers, r \in Runs :
      LET s == socket[b] IN
      /\ s.at = "closed" => s.channel = <<>>
      /\ s.at # "closed" /\ ~s.dropped /\ Over(r) =>
           \/ EndWaits(s.channel, r)
           \/ /\ SilentFrom(1, s.channel, r)
              /\ s.at = "open" => told[b][r] = Said(r)
              /\ s.at = "sending" => s.snap = r /\ s.said = Said(r)

\* The inductive invariant.
Inv == ChannelTypeOK /\ Staged /\ Follow /\ Delivered

\* The rows that sockets and page read move as AuditTrail allows, which SyncTasks
\* keeps to as well: a row that went through is failed only while it has not been
\* announced, none but a failed one is reopened, and no deleted one returns.
Trail == INSTANCE AuditTrail WITH Logs <- Runs, status <- log
AuditSpec == Trail!Spec
=============================================================================
