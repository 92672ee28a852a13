------------------------- MODULE StatusChannel_proof -------------------------
(***************************************************************************)
(* What sockets are told, for any number of runs, sockets, retries and     *)
(* progress events, and any capacity of the channels.                      *)
(*                                                                         *)
(* Steps are split by whom they concern.  A run saves its row, sends an     *)
(* event or falls silent, and moves its worker; a consumer takes events     *)
(* from its own channel or reads the table.                                *)
(***************************************************************************)
EXTENDS StatusChannel, TLAPS

\* What appending and taking do to the events that wait.
LEMMA AppendFacts ==
  ASSUME NEW S, NEW events \in Seq(S), NEW e \in S
  PROVE  /\ Append(events, e) \in Seq(S) /\ Len(Append(events, e)) = Len(events) + 1
         /\ Len(events) \in Nat
         /\ \A i \in 1..Len(events) : Append(events, e)[i] = events[i]
         /\ Append(events, e)[Len(events) + 1] = e
  OBVIOUS

LEMMA TailFacts ==
  ASSUME NEW S, NEW events \in Seq(S), events # <<>>
  PROVE  /\ Tail(events) \in Seq(S) /\ Len(Tail(events)) = Len(events) - 1
         /\ Len(events) \in Nat \ {0} /\ Head(events) = events[1] /\ events[1] \in S
         /\ \A i \in 1..Len(Tail(events)) : Tail(events)[i] = events[i + 1]
  OBVIOUS

LEMMA SocketFacts ==
  ASSUME ChannelTypeOK, NEW b \in Browsers
  PROVE  /\ socket[b] \in SocketType /\ socket[b].channel \in Seq(EventType)
         /\ Len(socket[b].channel) \in Nat /\ Len(socket[b].channel) <= Capacity
  BY DEF ChannelTypeOK, SocketType

\* A broadcast leaves a socket alone, or drops the event, or appends it.
LEMMA SayingFacts ==
  /\ Nothing \in Saying
  /\ ChannelTypeOK => \A r \in Runs : Said(r) \in Saying
  BY BoundsAssumption DEF Nothing, Saying, Statuses, Attempts, Said, ChannelTypeOK, WorkerType

LEMMA BroadcastFacts ==
  ASSUME ChannelTypeOK, NEW e \in EventType, NEW to \in SUBSET Browsers, Broadcast(e, to),
         NEW b \in Browsers
  PROVE  LET s == socket[b] IN
         /\ socket'[b] \in SocketType
         /\ Len(socket'[b].channel) <= Capacity
         /\ \/ (s.at = "closed" \/ b \notin to) /\ socket'[b] = s
            \/ s.at # "closed" /\ socket'[b] = [s EXCEPT !.dropped = TRUE]
            \/ s.at # "closed" /\ socket'[b] = [s EXCEPT !.channel = Append(@, e)]
  <1> USE SocketFacts
  <1>1. socket'[b] = IF b \in to THEN Reached(socket[b], e) ELSE socket[b]
    BY DEF Broadcast
  <1>2. CASE socket[b].at = "closed" \/ b \notin to
    BY <1>1, <1>2 DEF Reached
  <1>3. CASE b \in to /\ socket[b].at # "closed" /\ Len(socket[b].channel) >= Capacity
    <2>1. socket'[b] = [socket[b] EXCEPT !.dropped = TRUE]
      BY <1>1, <1>3 DEF Reached
    <2>2. socket'[b] \in SocketType /\ socket'[b].channel = socket[b].channel
      BY <2>1 DEF SocketType
    <2> QED
      BY <1>3, <2>1, <2>2
  <1>4. CASE b \in to /\ socket[b].at # "closed" /\ ~(Len(socket[b].channel) >= Capacity)
    <2>1. socket'[b] = [socket[b] EXCEPT !.channel = Append(@, e)]
      BY <1>1, <1>4 DEF Reached
    <2>2. Append(socket[b].channel, e) \in Seq(EventType)
          /\ Len(Append(socket[b].channel, e)) = Len(socket[b].channel) + 1
      BY AppendFacts
    <2>3. socket'[b] \in SocketType /\ socket'[b].channel = Append(socket[b].channel, e)
      BY <2>1, <2>2 DEF SocketType
    <2>4. Len(socket[b].channel) + 1 <= Capacity
      BY <1>4, CapacityAssumption
    <2> QED
      BY <1>4, <2>1, <2>2, <2>3, <2>4
  <1> QED
    BY <1>2, <1>3, <1>4

-----------------------------------------------------------------------------
(* What the steps of a run amount to. *)

\* It saves its row ...
Saves(r, status, w) ==
    /\ w \in WorkerType /\ Save(r, status, w)
    /\ \/ status = "RUNNING" /\ w.next = "started"
       \/ status = "SUCCESS" /\ w.next = "completed"
       \/ status = "FAILED" /\ w.next \in {"error", "silent"}

\* ... or sends an event, which reaches everybody if the run is over with it ...
Sends(r, e, to, w) ==
    /\ e \in EventType /\ e.run = r /\ to \in SUBSET Browsers /\ Broadcast(e, to)
    /\ w \in WorkerType /\ worker' = [worker EXCEPT ![r] = w]
    /\ w.retries = worker[r].retries
    /\ w.next = "gone" => to = Browsers
    /\ UNCHANGED <<log, past, told>>
    /\ \/ /\ e = Event("started", r) /\ worker[r].next = "started"
          /\ w.next \in {"work", "failing", "silent"}
       \/ /\ e = Event("progress", r) /\ worker[r].next = "work"
          /\ w.next \in {"work", "failing"}
       \/ /\ e = Event("completed", r) /\ worker[r].next = "completed"
          /\ w.next \in {"gone", "failing"}
       \/ /\ e = Failure(r) /\ worker[r].next = "error"
          /\ w.next \in {"gone", "silent"} \/ (w.next = "again" /\ MayRetry(r))

\* ... or falls silent, once it has begun; or else its row is deleted.
FallsSilent(r) == worker[r].next # "begin" /\ Silenced(r)

LEMMA AtFacts ==
  ASSUME ChannelTypeOK, NEW r \in Runs, NEW next \in Stages
  PROVE  /\ worker[r] \in WorkerType /\ worker[r].retries \in Attempts
         /\ At(r, next) \in WorkerType /\ At(r, next).next = next
         /\ At(r, next).retries = worker[r].retries
  <1>1. worker[r] \in WorkerType /\ 0 \in 0..MaxProgress
    BY BoundsAssumption DEF ChannelTypeOK
  <1> QED
    BY <1>1 DEF WorkerType, At

LEMMA EventFacts ==
  ASSUME ChannelTypeOK, NEW r \in Runs
  PROVE  /\ \A t \in {"started", "progress", "completed", "error"} :
              Event(t, r) \in EventType /\ Event(t, r).run = r
              /\ Event(t, r).type = t /\ Event(t, r).said = Said(r)
         /\ Failure(r) \in EventType /\ Failure(r).run = r /\ Failure(r).type = "error"
         /\ Failure(r).said = <<worker[r].retries, "FAILED">>
  <1>1. worker[r].retries \in Attempts /\ log[r] \in Statuses /\ "FAILED" \in Statuses
    BY AtFacts DEF ChannelTypeOK, Statuses, Ended, WorkerType
  <1>2. Said(r) \in Saying /\ <<worker[r].retries, "FAILED">> \in Saying
    BY <1>1 DEF Said, Saying
  <1> QED
    BY <1>2 DEF Event, Failure, EventType

\* A call of group_send that returns reached everybody, one that raises some.
LEMMA SendFacts ==
  ASSUME NEW r, NEW e, NEW sent, NEW raised, Send(r, e, sent, raised)
  PROVE  \E to \in SUBSET Browsers : \E w \in sent \cup raised :
           /\ Broadcast(e, to) /\ worker' = [worker EXCEPT ![r] = w]
           /\ w \notin raised => to = Browsers
  BY DEF Send

LEMMA SendsFacts ==
  ASSUME ChannelTypeOK, NEW r \in Runs, Started(r) \/ Progress(r) \/ Announce(r)
  PROVE  \E e \in EventType, to \in SUBSET Browsers, w \in WorkerType : Sends(r, e, to, w)
  <1> USE DEF Stages
  <1>1. CASE Started(r)
    <2> DEFINE e == Event("started", r)
               raised == {At(r, next) : next \in {"failing"} \cup
                            IF r \in Given THEN {} ELSE {"silent"}}
    <2>1. Send(r, e, {At(r, "work")}, raised)
      BY <1>1 DEF Started
    <2>2. PICK to \in SUBSET Browsers, w \in {At(r, "work")} \cup raised :
            Broadcast(e, to) /\ worker' = [worker EXCEPT ![r] = w]
      BY <2>1, SendFacts
    <2>3. w \in WorkerType /\ w.retries = worker[r].retries
          /\ w.next \in {"work", "failing", "silent"}
      BY AtFacts
    <2> QED
      BY <1>1, <2>2, <2>3, EventFacts DEF Started, Sends
  <1>2. CASE Progress(r)
    <2> DEFINE e == Event("progress", r)
               on == [worker[r] EXCEPT !.progress = @ + 1]
    <2>1. Send(r, e, {on}, {At(r, "failing")}) /\ worker[r].next = "work"
          /\ worker[r].progress < MaxProgress
      BY <1>2 DEF Progress
    <2>2. PICK to \in SUBSET Browsers, w \in {on} \cup {At(r, "failing")} :
            Broadcast(e, to) /\ worker' = [worker EXCEPT ![r] = w]
      BY <2>1, SendFacts
    <2>3. on \in WorkerType /\ on.retries = worker[r].retries /\ on.next = "work"
      <3>1. worker[r] \in WorkerType
        BY AtFacts
      <3>2. worker[r].progress + 1 \in 0..MaxProgress
        BY <2>1, <3>1, BoundsAssumption DEF WorkerType
      <3> QED
        BY <2>1, <3>1, <3>2 DEF WorkerType
    <2>4. w \in WorkerType /\ w.retries = worker[r].retries /\ w.next \in {"work", "failing"}
      <3>1. CASE w = on
        BY <2>3, <3>1
      <3>2. CASE w = At(r, "failing")
        BY <3>2, AtFacts
      <3> HIDE DEF on
      <3> QED
        BY <2>2, <3>1, <3>2
    <2> QED
      BY <1>2, <2>1, <2>2, <2>4, EventFacts DEF Progress, Sends
  <1>3. CASE Announce(r) /\ worker[r].next = "completed"
    <2> DEFINE e == Event("completed", r)
    <2>1. Send(r, e, {At(r, "gone")}, {At(r, "failing")})
      BY <1>3 DEF Announce
    <2>2. PICK to \in SUBSET Browsers, w \in {At(r, "gone")} \cup {At(r, "failing")} :
            /\ Broadcast(e, to) /\ worker' = [worker EXCEPT ![r] = w]
            /\ w \notin {At(r, "failing")} => to = Browsers
      BY <2>1, SendFacts
    <2>3. /\ w \in WorkerType /\ w.retries = worker[r].retries
          /\ w.next \in {"gone", "failing"}
          /\ w.next = "gone" => to = Browsers
      BY <2>2, AtFacts
    <2>4. UNCHANGED <<log, past, told>>
      BY <1>3 DEF Announce
    <2> QED
      BY <1>3, <2>2, <2>3, <2>4, EventFacts DEF Sends
  <1>4. CASE Announce(r) /\ worker[r].next = "error"
    <2> DEFINE e == Failure(r)
               sent == {At(r, next) : next \in {"gone"} \cup IF MayRetry(r) THEN {"again"} ELSE {}}
    <2>1. Send(r, e, sent, {At(r, "silent")})
      BY <1>4 DEF Announce
    <2>2. PICK to \in SUBSET Browsers, w \in sent \cup {At(r, "silent")} :
            /\ Broadcast(e, to) /\ worker' = [worker EXCEPT ![r] = w]
            /\ w \notin {At(r, "silent")} => to = Browsers
      BY <2>1, SendFacts
    <2>3. /\ w \in WorkerType /\ w.retries = worker[r].retries
          /\ w.next \in {"gone", "silent"} \/ (w.next = "again" /\ MayRetry(r))
          /\ w.next = "gone" => to = Browsers
      BY <2>2, AtFacts
    <2>4. UNCHANGED <<log, past, told>>
      BY <1>4 DEF Announce
    <2>5. e \in EventType /\ e.run = r
      BY EventFacts
    <2> HIDE DEF sent
    <2>6. Sends(r, e, to, w)
      BY <1>4, <2>2, <2>3, <2>4, <2>5 DEF Sends
    <2> QED
      BY <2>2, <2>3, <2>5, <2>6
  <1> QED
    BY <1>1, <1>2, <1>3, <1>4 DEF Announce

LEMMA RunFacts ==
  ASSUME ChannelTypeOK, Staged, NEW r \in Runs, Run(r)
  PROVE  \/ \E status \in {"RUNNING", "SUCCESS", "FAILED"}, w \in WorkerType : Saves(r, status, w)
         \/ \E e \in EventType, to \in SUBSET Browsers, w \in WorkerType : Sends(r, e, to, w)
         \/ FallsSilent(r)
         \/ Delete(r)
  <1> USE DEF Stages
  <1>1. CASE Begin(r)
    BY <1>1, AtFacts DEF Begin, Saves
  <1>2. CASE Again(r)
    <2> DEFINE w == [next |-> "started", progress |-> 0, retries |-> worker[r].retries + 1]
    <2>1. CASE Exists(r) /\ worker[r].retries < MaxRetries
      <3>1. w \in WorkerType
        BY <2>1, AtFacts, BoundsAssumption DEF WorkerType, Attempts
      <3> QED
        BY <1>2, <2>1, <3>1 DEF Again, Saves
    <2>2. CASE ~Exists(r)
      BY <1>2, <2>2 DEF Again, FallsSilent
    <2>3. worker[r].retries < MaxRetries
      BY <1>2 DEF Again, Staged, Stage
    <2> QED
      BY <2>1, <2>2, <2>3
  <1>3. CASE Refused(r)
    BY <1>3, AtFacts DEF Refused, Saves
  <1>4. CASE Started(r) \/ Progress(r) \/ Announce(r)
    BY <1>4, SendsFacts
  <1>5. CASE End(r)
    BY <1>5, AtFacts DEF End, Saves
  <1>6. CASE Fail(r)
    BY <1>6, AtFacts DEF Fail, Saves, FallsSilent
  <1>7. CASE Kill(r)
    BY <1>7 DEF Kill, FallsSilent
  <1> QED
    BY <1>1, <1>2, <1>3, <1>4, <1>5, <1>6, <1>7 DEF Run

\* What a consumer's step makes of its socket.
LEMMA ConsumerFacts ==
  ASSUME ChannelTypeOK, NEW b \in Browsers, Consume(b) \/ Forward(b)
  PROVE  \E s \in SocketType : socket' = [socket EXCEPT ![b] = s] /\ Len(s.channel) <= Capacity
  <1> USE SocketFacts
  <1>1. CASE Connect(b)
    <2> DEFINE s == [socket[b] EXCEPT !.at = "reading"]
    <2>1. s \in SocketType /\ s.channel = socket[b].channel
      BY DEF SocketType
    <2>2. socket' = [socket EXCEPT ![b] = s]
      BY <1>1 DEF Connect
    <2> QED
      BY <2>1, <2>2
  <1>2. CASE ReadLatest(b)
    <2>1. PICK n \in {0} \cup Runs :
             socket' = [socket EXCEPT ![b].at = "sending", ![b].snap = n,
                                      ![b].said = IF n = 0 THEN Nothing ELSE Said(n)]
      BY <1>2 DEF ReadLatest
    <2>2. n \in 0..LastRun /\ (IF n = 0 THEN Nothing ELSE Said(n)) \in Saying
      BY RunsAssumption, SayingFacts DEF Runs
    <2> DEFINE s == [socket[b] EXCEPT !.at = "sending", !.snap = n,
                                      !.said = IF n = 0 THEN Nothing ELSE Said(n)]
    <2>3. s \in SocketType /\ s.channel = socket[b].channel
      BY <2>2 DEF SocketType
    <2>4. socket' = [socket EXCEPT ![b] = s]
      BY <2>1
    <2> QED
      BY <2>3, <2>4
  <1>3. CASE SendLatest(b)
    <2> DEFINE s == [socket[b] EXCEPT !.at = "open", !.snap = 0, !.said = Nothing]
    <2>1. s \in SocketType /\ s.channel = socket[b].channel
      <3>1. 0 \in 0..LastRun /\ Nothing \in Saying
        BY RunsAssumption, SayingFacts
      <3> QED
        BY <3>1 DEF SocketType
    <2>2. socket' = [socket EXCEPT ![b] = s]
      BY <1>3 DEF SendLatest
    <2> QED
      BY <2>1, <2>2
  <1>4. CASE GetLatest(b)
    <2> DEFINE s == [socket[b] EXCEPT !.at = "reading"]
    <2>1. s \in SocketType /\ s.channel = socket[b].channel
      BY DEF SocketType
    <2>2. socket' = [socket EXCEPT ![b] = s]
      BY <1>4 DEF GetLatest
    <2> QED
      BY <2>1, <2>2
  <1>5. CASE Disconnect(b)
    <2>1. Closed \in SocketType /\ Len(Closed.channel) <= Capacity
      BY RunsAssumption, CapacityAssumption, SayingFacts DEF Closed, SocketType
    <2>2. socket' = [socket EXCEPT ![b] = Closed]
      BY <1>5 DEF Disconnect
    <2> QED
      BY <2>1, <2>2
  <1>6. CASE Forward(b)
    <2> DEFINE s == [socket[b] EXCEPT !.channel = Tail(@)]
    <2>1. socket[b].channel # <<>> /\ socket' = [socket EXCEPT ![b] = s]
      BY <1>6 DEF Forward
    <2>2. /\ Tail(socket[b].channel) \in Seq(EventType)
          /\ Len(Tail(socket[b].channel)) = Len(socket[b].channel) - 1
      BY <2>1, TailFacts
    <2>3. s \in SocketType /\ s.channel = Tail(socket[b].channel)
      BY <2>2 DEF SocketType
    <2>4. Len(socket[b].channel) - 1 <= Capacity
      BY CapacityAssumption
    <2> QED
      BY <2>1, <2>2, <2>3, <2>4
  <1> QED
    BY <1>1, <1>2, <1>3, <1>4, <1>5, <1>6 DEF Consume

\* ... and of what its browser was told.
LEMMA ToldFacts ==
  ASSUME ChannelTypeOK, NEW b \in Browsers, Consume(b) \/ Forward(b)
  PROVE  told' = told \/ \E t \in [Runs -> Saying] : told' = [told EXCEPT ![b] = t]
  <1>1. told[b] \in [Runs -> Saying] /\ told \in [Browsers -> [Runs -> Saying]]
    BY DEF ChannelTypeOK
  <1>2. CASE SendLatest(b)
    <2>1. socket[b].said \in Saying
      BY SocketFacts DEF SocketType
    <2>2. \/ told' = told
          \/ told' = [told EXCEPT ![b] = [told[b] EXCEPT ![socket[b].snap] = socket[b].said]]
      BY <1>2 DEF SendLatest
    <2> QED
      BY <1>1, <2>1, <2>2
  <1>3. CASE Forward(b)
    <2> DEFINE e == Head(socket[b].channel)
    <2>1. e \in EventType
      BY <1>3, SocketFacts, TailFacts DEF Forward
    <2>2. e.said \in Saying
      BY <2>1 DEF EventType
    <2>3. told' = told \/ told' = [told EXCEPT ![b] = [told[b] EXCEPT ![e.run] = e.said]]
      BY <1>3 DEF Forward
    <2> QED
      BY <1>1, <2>2, <2>3
  <1>4. CASE Disconnect(b)
    <2>1. [r \in Runs |-> Nothing] \in [Runs -> Saying]
      BY SayingFacts
    <2> QED
      BY <1>4, <2>1 DEF Disconnect
  <1> QED
    BY <1>2, <1>3, <1>4 DEF Consume, Connect, ReadLatest, GetLatest

\* A consumer leaves the table and the workers alone.
LEMMA Untouched ==
  ASSUME NEW b \in Browsers, Consume(b) \/ Forward(b)
  PROVE  UNCHANGED <<log, past, worker>>
  BY DEF Consume, Connect, ReadLatest, SendLatest, GetLatest, Disconnect, Forward

-----------------------------------------------------------------------------
(* Types. *)

LEMMA TypeStep ==
  ASSUME ChannelTypeOK, Staged, [ChannelNext]_channelVars
  PROVE  ChannelTypeOK'
  <1> USE SocketFacts
  <1>1. CASE UNCHANGED channelVars
    BY <1>1 DEF channelVars, ChannelTypeOK
  <1>2. ASSUME NEW r \in Runs, Run(r) PROVE ChannelTypeOK'
    <2>1. CASE \E status \in {"RUNNING", "SUCCESS", "FAILED"}, w \in WorkerType : Saves(r, status, w)
      <3>1. PICK status \in {"RUNNING", "SUCCESS", "FAILED"}, w \in WorkerType : Saves(r, status, w)
        BY <2>1
      <3>2. status \in Statuses /\ <<w.retries, status>> \in Saying
        BY DEF Statuses, Ended, Saying, WorkerType
      <3>3. /\ log' = [log EXCEPT ![r] = status] /\ worker' = [worker EXCEPT ![r] = w]
            /\ past' = [past EXCEPT ![r] = @ \cup {<<w.retries, status>>}]
            /\ UNCHANGED <<socket, told>>
        BY <3>1 DEF Saves, Save
      <3>4. past' \in [Runs -> SUBSET Saying]
        <4>1. past \in [Runs -> SUBSET Saying]
          BY DEF ChannelTypeOK
        <4>2. past[r] \cup {<<w.retries, status>>} \in SUBSET Saying
          BY <3>2, <4>1
        <4> QED
          BY <3>3, <4>1, <4>2
      <3> QED
        BY <3>2, <3>3, <3>4 DEF ChannelTypeOK
    <2>2. CASE \E e \in EventType, to \in SUBSET Browsers, w \in WorkerType : Sends(r, e, to, w)
      <3>1. PICK e \in EventType, to \in SUBSET Browsers, w \in WorkerType :
              /\ Broadcast(e, to) /\ worker' = [worker EXCEPT ![r] = w]
              /\ UNCHANGED <<log, past, told>>
        BY <2>2 DEF Sends
      <3>2. socket' = [b \in Browsers |-> socket'[b]]
        BY <3>1 DEF Broadcast
      <3>3. \A b \in Browsers : socket'[b] \in SocketType /\ Len(socket'[b].channel) <= Capacity
        BY <3>1, BroadcastFacts
      <3> QED
        BY <3>1, <3>2, <3>3 DEF ChannelTypeOK
    <2>3. CASE FallsSilent(r)
      <3>1. At(r, "silent") \in WorkerType
        BY AtFacts DEF Stages
      <3> QED
        BY <2>3, <3>1 DEF FallsSilent, Silenced, ChannelTypeOK
    <2>4. CASE Delete(r)
      BY <2>4 DEF Delete, ChannelTypeOK, Statuses
    <2> QED
      BY <1>2, <2>1, <2>2, <2>3, <2>4, RunFacts
  <1>3. ASSUME NEW b \in Browsers, Consume(b) \/ Forward(b) PROVE ChannelTypeOK'
    <2>1. UNCHANGED <<log, past, worker>>
      BY <1>3, Untouched
    <2>2. \E s \in SocketType : socket' = [socket EXCEPT ![b] = s] /\ Len(s.channel) <= Capacity
      BY <1>3, ConsumerFacts
    <2>3. told' \in [Browsers -> [Runs -> Saying]]
      <3>1. told' = told \/ \E t \in [Runs -> Saying] : told' = [told EXCEPT ![b] = t]
        BY <1>3, ToldFacts
      <3> QED
        BY <3>1 DEF ChannelTypeOK
    <2> QED
      BY <2>1, <2>2, <2>3 DEF ChannelTypeOK
  <1> QED
    BY <1>1, <1>2, <1>3 DEF ChannelNext

-----------------------------------------------------------------------------
(* Where runs are, and that nothing is told which the table has not said. *)

\* A run leaves the others alone.
LEMMA OthersStay ==
  ASSUME ChannelTypeOK, Staged, NEW r \in Runs, Run(r), NEW q \in Runs, q # r
  PROVE  log'[q] = log[q] /\ worker'[q] = worker[q] /\ past'[q] = past[q]
  <1> DEFINE Here == log'[q] = log[q] /\ worker'[q] = worker[q] /\ past'[q] = past[q]
  <1> USE DEF ChannelTypeOK
  <1>1. ASSUME NEW status, NEW w, Saves(r, status, w) PROVE Here
    BY <1>1 DEF Saves, Save
  <1>2. ASSUME NEW e, NEW to, NEW w, Sends(r, e, to, w) PROVE Here
    BY <1>2 DEF Sends
  <1>3. CASE FallsSilent(r) \/ Delete(r)
    BY <1>3 DEF FallsSilent, Silenced, Delete
  <1> QED
    BY <1>1, <1>2, <1>3, RunFacts

LEMMA StageStep ==
  ASSUME ChannelTypeOK, Staged, [ChannelNext]_channelVars
  PROVE  Staged'
  <1> DEFINE Fits(q) == Stage(q) /\ (Exists(q) => Said(q) \in past[q])
  <1>1. CASE UNCHANGED <<log, past, worker>>
    BY <1>1 DEF Staged, Stage, Exists, Said, MayRetry
  <1>2. ASSUME NEW r \in Runs, Run(r), NEW q \in Runs PROVE Fits(q)'
    <2>1. Fits(q) /\ Fits(r)
      BY DEF Staged
    <2>2. /\ worker \in [Runs -> WorkerType] /\ log \in [Runs -> Statuses]
          /\ past \in [Runs -> SUBSET Saying]
      BY DEF ChannelTypeOK
    <2>3. CASE q # r
      <3>1. worker'[q] = worker[q] /\ log'[q] = log[q] /\ past'[q] = past[q]
        BY <1>2, <2>3, OthersStay
      <3> QED
        BY <2>1, <3>1 DEF Stage, Exists, Said
    <2>4. CASE q = r
      <3>1. ASSUME NEW status, NEW w, Saves(r, status, w) PROVE Fits(r)'
        <4>1. log'[r] = status /\ worker'[r] = w /\ <<w.retries, status>> \in past'[r]
          BY <2>2, <3>1 DEF Saves, Save
        <4> QED
          BY <3>1, <4>1 DEF Saves, Stage, Exists, Said
      <3>2. ASSUME NEW e, NEW to, NEW w, Sends(r, e, to, w) PROVE Fits(r)'
        <4>1. /\ log'[r] = log[r] /\ worker'[r] = w /\ past'[r] = past[r]
              /\ w.retries = worker[r].retries
          BY <2>2, <3>2 DEF Sends
        <4>2. Stage(r)'
          BY <2>1, <3>2, <4>1 DEF Sends, Stage, MayRetry, Ended
        <4> QED
          BY <2>1, <4>1, <4>2 DEF Exists, Said
      <3>3. ASSUME FallsSilent(r) PROVE Fits(r)'
        <4>1. /\ log'[r] = log[r] /\ worker'[r] = At(r, "silent") /\ past'[r] = past[r]
              /\ worker[r].next # "begin"
          BY <2>2, <3>3 DEF FallsSilent, Silenced
        <4>2. At(r, "silent").next = "silent" /\ At(r, "silent").retries = worker[r].retries
          BY AtFacts DEF Stages
        <4>3. log[r] # "none"
          BY <2>1, <2>2, <4>1 DEF Stage, Ended, WorkerType, Stages
        <4>4. Stage(r)'
          BY <4>1, <4>2, <4>3 DEF Stage
        <4> QED
          BY <2>1, <4>1, <4>2, <4>4 DEF Exists, Said
      <3>4. ASSUME Delete(r) PROVE Fits(r)'
        <4>1. /\ log'[r] = "deleted" /\ worker'[r] = worker[r] /\ past'[r] = past[r]
              /\ log[r] \notin {"none", "deleted"}
          BY <2>2, <3>4 DEF Delete, Exists
        <4>2. Stage(r)'
          BY <2>1, <4>1 DEF Stage
        <4>3. ~Exists(r)'
          BY <4>1 DEF Exists
        <4> QED
          BY <4>2, <4>3
      <3> QED
        BY <1>2, <2>4, <3>1, <3>2, <3>3, <3>4, RunFacts
    <2> QED
      BY <2>3, <2>4
  <1> QED
    BY <1>1, <1>2, Untouched DEF ChannelNext, channelVars, Staged

\* The history only grows, and what may be heard with it.
LEMMA PastGrows ==
  ASSUME ChannelTypeOK, Staged, [ChannelNext]_channelVars, NEW q \in Runs
  PROVE  past[q] \subseteq past'[q] /\ Heard(q) \subseteq Heard(q)'
  <1>1. CASE UNCHANGED past
    BY <1>1 DEF Heard
  <1>2. ASSUME NEW r \in Runs, Run(r) PROVE past[q] \subseteq past'[q]
    <2> USE DEF ChannelTypeOK
    <2>1. ASSUME NEW status, NEW w, Saves(r, status, w) PROVE past[q] \subseteq past'[q]
      BY <2>1 DEF Saves, Save
    <2>2. ASSUME NEW e, NEW to, NEW w, Sends(r, e, to, w) PROVE past' = past
      BY <2>2 DEF Sends
    <2>3. CASE FallsSilent(r) \/ Delete(r)
      BY <2>3 DEF FallsSilent, Silenced, Delete
    <2> QED
      BY <1>2, <2>1, <2>2, <2>3, RunFacts
  <1> QED
    BY <1>1, <1>2, Untouched DEF ChannelNext, channelVars, Heard

\* What is sent, the row has said, unless it is deleted.
LEMMA SentHeard ==
  ASSUME ChannelTypeOK, Staged, NEW r \in Runs, NEW e, NEW to, NEW w, Sends(r, e, to, w)
  PROVE  e.run = r /\ e.said \in Heard(r)
  <1>1. Stage(r) /\ (Exists(r) => Said(r) \in past[r])
    BY DEF Staged
  <1>2. worker[r].retries \in Attempts /\ log[r] \in Statuses
    BY DEF ChannelTypeOK, WorkerType
  <1> SUFFICES e.said \in Heard(r)
    BY DEF Sends
  <1>3. CASE e.said = Said(r) /\ worker[r].next \in {"started", "work", "completed"}
    <2>1. log[r] # "none"
      BY <1>1, <1>3 DEF Stage
    <2>2. CASE Exists(r)
      BY <1>1, <1>3, <2>2 DEF Heard
    <2>3. CASE log[r] = "deleted"
      <3>1. Said(r) \in Attempts \X {"deleted"}
        BY <1>2, <2>3 DEF Said
      <3> QED
        BY <1>3, <3>1 DEF Heard
    <2> QED
      BY <2>1, <2>2, <2>3 DEF Exists
  <1>4. CASE e = Failure(r) /\ worker[r].next = "error"
    BY <1>1, <1>4, EventFacts DEF Stage, Heard
  <1> QED
    BY <1>3, <1>4, EventFacts DEF Sends

\* Follow, socket by socket.
Hearable == {x \in Runs \X Saying : x[2] \in Heard(x[1])}
HeardBy(b) == \A r \in Runs : told[b][r] \in past[r] \cup {Nothing}
Waiting(b) ==
    \A i \in 1..Len(socket[b].channel) :
      <<socket[b].channel[i].run, socket[b].channel[i].said>> \in Hearable
Snapped(b) == socket[b].snap # 0 => socket[b].said \in past[socket[b].snap]
Follows(b) == HeardBy(b) /\ Waiting(b) /\ Snapped(b)

\* The consumer of b takes one step, the others none.
LEMMA OneSocket ==
  ASSUME ChannelTypeOK, NEW p \in Browsers, Consume(p) \/ Forward(p),
         NEW b \in Browsers, b # p
  PROVE  socket'[b] = socket[b] /\ told'[b] = told[b]
  BY DEF Consume, Connect, ReadLatest, SendLatest, GetLatest, Disconnect, Forward, ChannelTypeOK

LEMMA FollowStep ==
  ASSUME ChannelTypeOK, ChannelTypeOK', Staged, Follow, [ChannelNext]_channelVars
  PROVE  \A b \in Browsers : Follows(b)'
  <1> USE SocketFacts
  <1>1. /\ \A q \in Runs : past[q] \subseteq past'[q]
        /\ Hearable \subseteq Hearable'
    BY PastGrows DEF Hearable
  <1>2. ASSUME NEW b \in Browsers
        PROVE  /\ HeardBy(b) /\ Waiting(b) /\ Snapped(b)
               /\ socket[b].snap # 0 => socket[b].snap \in Runs
    <2>1. \A i \in 1..Len(socket[b].channel) : socket[b].channel[i] \in EventType
      BY SocketFacts
    <2>2. \A i \in 1..Len(socket[b].channel) :
            socket[b].channel[i].run \in Runs /\ socket[b].channel[i].said \in Saying
      BY <2>1 DEF EventType
    <2>3. Waiting(b)
      BY <2>2 DEF Follow, Waiting, Hearable
    <2>4. socket[b].snap \in 0..LastRun
      BY SocketFacts DEF SocketType
    <2> QED
      BY <2>3, <2>4, RunsAssumption DEF Follow, HeardBy, Snapped, Runs
  <1>4. \A b \in Browsers : told'[b] = told[b] => HeardBy(b)'
    BY <1>1, <1>2 DEF HeardBy
  <1>5. \A b \in Browsers : socket'[b].channel = socket[b].channel => Waiting(b)'
    BY <1>1, <1>2 DEF Waiting
  <1>6. \A b \in Browsers : socket'[b].snap = socket[b].snap /\ socket'[b].said = socket[b].said
                              => Snapped(b)'
    BY <1>1, <1>2 DEF Snapped
  <1>7. ASSUME NEW r \in Runs, Run(r), NEW b \in Browsers PROVE Follows(b)'
    <2>1. CASE UNCHANGED <<socket, told>>
      BY <1>4, <1>5, <1>6, <2>1 DEF Follows
    <2>2. ASSUME NEW e \in EventType, NEW to, NEW w, Sends(r, e, to, w) PROVE Follows(b)'
      <3>1. e.run = r /\ e.said \in Heard(r)
        BY <2>2, SentHeard
      <3>2. told' = told /\ Broadcast(e, to) /\ to \in SUBSET Browsers
        BY <2>2 DEF Sends
      <3>3. CASE socket'[b] = socket[b]
        BY <1>4, <1>5, <1>6, <3>2, <3>3 DEF Follows
      <3>4. CASE socket'[b] = [socket[b] EXCEPT !.dropped = TRUE]
        <4>1. /\ socket'[b].channel = socket[b].channel /\ socket'[b].snap = socket[b].snap
              /\ socket'[b].said = socket[b].said
          BY <3>4 DEF SocketType
        <4> QED
          BY <1>4, <1>5, <1>6, <3>2, <4>1 DEF Follows
      <3>5. CASE socket'[b] = [socket[b] EXCEPT !.channel = Append(@, e)]
        <4>1. /\ socket'[b].channel = Append(socket[b].channel, e)
              /\ socket'[b].snap = socket[b].snap /\ socket'[b].said = socket[b].said
          BY <3>5 DEF SocketType
        <4>2. Waiting(b)'
          <5> DEFINE events == socket[b].channel
          <5>1. ASSUME NEW i \in 1..(Len(events) + 1)
                PROVE  <<Append(events, e)[i].run, Append(events, e)[i].said>> \in Hearable
            <6>1. CASE i = Len(events) + 1
              BY <3>1, <6>1, AppendFacts DEF Hearable, EventType
            <6>2. CASE i \in 1..Len(events)
              BY <1>2, <6>2, AppendFacts DEF Waiting
            <6>3. Len(events) \in Nat
              BY SocketFacts
            <6>4. i = Len(events) + 1 \/ i \in 1..Len(events)
              <7> HIDE DEF events
              <7> QED
                BY <6>3, SMT
            <6> QED
              BY <6>1, <6>2, <6>4
          <5>2. Len(socket'[b].channel) = Len(events) + 1
            BY <4>1, AppendFacts
          <5> HIDE DEF events
          <5> QED
            BY <1>1, <5>1, <5>2, <4>1 DEF Waiting, events
        <4> QED
          BY <1>4, <1>6, <3>2, <4>1, <4>2 DEF Follows
      <3> QED
        BY <3>2, <3>3, <3>4, <3>5, BroadcastFacts
    <2>3. ASSUME NEW status, NEW w, Saves(r, status, w) PROVE UNCHANGED <<socket, told>>
      BY <2>3 DEF Saves, Save
    <2>4. CASE FallsSilent(r) \/ Delete(r)
      BY <2>1, <2>4 DEF FallsSilent, Silenced, Delete
    <2> QED
      BY <1>7, <2>1, <2>2, <2>3, <2>4, RunFacts
  <1>8. ASSUME NEW b \in Browsers, Consume(b) \/ Forward(b) PROVE Follows(b)'
    <2> USE DEF Follows
    <2>1. socket[b] \in SocketType /\ told[b] \in [Runs -> Saying]
          /\ socket \in [Browsers -> SocketType] /\ told \in [Browsers -> [Runs -> Saying]]
      BY DEF ChannelTypeOK
    <2>2. CASE Connect(b) \/ GetLatest(b)
      <3>1. /\ socket'[b].channel = socket[b].channel /\ socket'[b].snap = socket[b].snap
            /\ socket'[b].said = socket[b].said /\ told' = told
        BY <2>1, <2>2 DEF Connect, GetLatest, SocketType
      <3> QED
        BY <3>1, <1>4, <1>5, <1>6
    <2>3. CASE ReadLatest(b)
      <3>1. PICK n \in {0} \cup Runs :
               /\ Latest(n)
               /\ socket' = [socket EXCEPT ![b].at = "sending", ![b].snap = n,
                                           ![b].said = IF n = 0 THEN Nothing ELSE Said(n)]
        BY <2>3 DEF ReadLatest
      <3>2. /\ socket'[b].channel = socket[b].channel /\ UNCHANGED <<told, past>>
            /\ socket'[b].snap = n
            /\ n # 0 => socket'[b].said = Said(n)
        BY <2>1, <2>3, <3>1 DEF SocketType, ReadLatest
      <3>3. n # 0 => Said(n) \in past[n]
        BY <3>1 DEF Latest, Staged
      <3>4. Snapped(b)'
        BY <3>2, <3>3 DEF Snapped
      <3> QED
        BY <3>2, <3>4, <1>4, <1>5
    <2>4. CASE SendLatest(b)
      <3>1. /\ socket'[b].channel = socket[b].channel /\ socket'[b].snap = 0
            /\ \/ told' = told
               \/ socket[b].snap # 0 /\ told' = [told EXCEPT ![b][socket[b].snap] = socket[b].said]
        BY <2>1, <2>4 DEF SendLatest, SocketType
      <3>2. \A q \in Runs : told'[b][q] = told[b][q]
               \/ (socket[b].snap # 0 /\ q = socket[b].snap /\ told'[b][q] = socket[b].said)
        BY <2>1, <3>1
      <3>3. HeardBy(b)'
        BY <1>1, <1>2, <3>2 DEF HeardBy, Snapped
      <3>4. Snapped(b)'
        BY <3>1 DEF Snapped
      <3> QED
        BY <3>1, <3>3, <3>4, <1>5
    <2>5. CASE Forward(b)
      <3> DEFINE events == socket[b].channel
                 e == Head(events)
      <3>1. events # <<>> /\ e = events[1] /\ 1 \in 1..Len(events)
            /\ Len(Tail(events)) = Len(events) - 1
            /\ \A i \in 1..Len(Tail(events)) : Tail(events)[i] = events[i + 1]
        BY <2>5, TailFacts DEF Forward
      <3>2. /\ socket'[b].channel = Tail(events) /\ socket'[b].snap = socket[b].snap
            /\ socket'[b].said = socket[b].said
            /\ told' = IF e.type = "progress" \/ e.said[2] = "deleted" THEN told
                       ELSE [told EXCEPT ![b][e.run] = e.said]
        BY <2>1, <2>5 DEF Forward, SocketType
      <3>3. ASSUME e.said[2] # "deleted", told' = [told EXCEPT ![b][e.run] = e.said]
            PROVE  HeardBy(b)'
        <4>1. e.said \in Heard(e.run) /\ e.run \in Runs
          BY <1>2, <3>1 DEF Waiting, Hearable
        <4>2. e.said \in past[e.run] \cup {Nothing}
          BY <3>3, <4>1 DEF Heard
        <4>3. \A q \in Runs : told'[b][q] = IF q = e.run THEN e.said ELSE told[b][q]
          BY <2>1, <3>3
        <4> HIDE DEF e
        <4> QED
          BY <1>1, <1>2, <4>2, <4>3 DEF HeardBy
      <3>4. Waiting(b)'
        <4>1. \A i \in 1..Len(Tail(events)) :
                 i + 1 \in 1..Len(events) /\ Tail(events)[i] = events[i + 1]
          BY <3>1
        <4>2. \A i \in 1..Len(Tail(events)) :
                 <<Tail(events)[i].run, Tail(events)[i].said>> \in Hearable
          BY <4>1, <1>2 DEF Waiting
        <4> QED
          BY <1>1, <4>2, <3>2 DEF Waiting
      <3> QED
        BY <1>4, <1>6, <3>2, <3>3, <3>4
    <2>6. CASE Disconnect(b)
      <3>1. socket'[b] = Closed /\ told'[b] = [r \in Runs |-> Nothing]
        BY <2>1, <2>6 DEF Disconnect
      <3>2. Len(socket'[b].channel) = 0 /\ socket'[b].snap = 0
        BY <3>1 DEF Closed
      <3> QED
        BY <3>1, <3>2 DEF HeardBy, Waiting, Snapped
    <2> QED
      BY <1>8, <2>2, <2>3, <2>4, <2>5, <2>6 DEF Consume
  <1> QED
    <2> TAKE b \in Browsers
    <2>1. CASE UNCHANGED channelVars
      BY <1>4, <1>5, <1>6, <2>1 DEF channelVars, Follows
    <2>2. CASE \E r \in Runs : Run(r)
      BY <1>7, <2>2
    <2>3. ASSUME NEW p \in Browsers, Consume(p) \/ Forward(p) PROVE Follows(b)'
      <3>1. CASE p = b
        BY <1>8, <2>3, <3>1
      <3>2. CASE p # b
        BY <1>4, <1>5, <1>6, <2>3, <3>2, OneSocket DEF Follows
      <3> QED
        BY <3>1, <3>2
    <2> QED
      BY <2>1, <2>2, <2>3 DEF ChannelNext

-----------------------------------------------------------------------------
(* That the end of the last run arrives. *)

LEMMA SilentAppend ==
  ASSUME NEW events \in Seq(EventType), NEW e \in EventType, NEW r \in Runs, NEW n \in Nat \ {0},
         SilentFrom(n, events, r), e.run # r
  PROVE  SilentFrom(n, Append(events, e), r)
  <1> SUFFICES ASSUME NEW i \in n..Len(Append(events, e))
               PROVE  Append(events, e)[i].run # r \/ Append(events, e)[i].type = "progress"
    BY DEF SilentFrom
  <1>1. CASE i = Len(events) + 1
    BY <1>1, AppendFacts
  <1>2. CASE i # Len(events) + 1
    <2>1. i \in n..Len(events) /\ i \in 1..Len(events)
      BY <1>2, AppendFacts
    <2>2. Append(events, e)[i] = events[i]
      BY <2>1, AppendFacts
    <2> QED
      BY <2>1, <2>2 DEF SilentFrom
  <1> QED
    BY <1>1, <1>2

LEMMA EndAppend ==
  ASSUME NEW events \in Seq(EventType), NEW e \in EventType, NEW r \in Runs,
         EndWaits(events, r), e.run # r
  PROVE  EndWaits(Append(events, e), r)
  <1>1. PICK i \in 1..Len(events) :
           /\ events[i].run = r /\ events[i].type # "progress" /\ events[i].said = Said(r)
           /\ SilentFrom(i + 1, events, r)
    BY DEF EndWaits
  <1>2. i \in 1..Len(Append(events, e)) /\ Append(events, e)[i] = events[i] /\ i + 1 \in Nat \ {0}
    BY AppendFacts
  <1>3. SilentFrom(i + 1, Append(events, e), r)
    BY <1>1, <1>2, SilentAppend
  <1> QED
    BY <1>1, <1>2, <1>3 DEF EndWaits

LEMMA EndAppended ==
  ASSUME NEW events \in Seq(EventType), NEW e \in EventType, NEW r \in Runs,
         e.run = r, e.type # "progress", e.said = Said(r)
  PROVE  EndWaits(Append(events, e), r)
  <1> DEFINE n == Len(events) + 1
             more == Append(events, e)
  <1>1. n \in 1..Len(more) /\ more[n] = e /\ Len(more) = n
    BY AppendFacts
  <1>2. SilentFrom(n + 1, more, r)
    BY <1>1 DEF SilentFrom
  <1> HIDE DEF n, more
  <1> QED
    BY <1>1, <1>2 DEF EndWaits, more

\* Taking an event that says nothing of r, or the last word on it.
LEMMA SilentTail ==
  ASSUME NEW events \in Seq(EventType), events # <<>>, NEW r \in Runs,
         NEW n \in Nat \ {0}, SilentFrom(n + 1, events, r)
  PROVE  SilentFrom(n, Tail(events), r)
  <1> SUFFICES ASSUME NEW i \in n..Len(Tail(events))
               PROVE  Tail(events)[i].run # r \/ Tail(events)[i].type = "progress"
    BY DEF SilentFrom
  <1>1. i + 1 \in (n + 1)..Len(events) /\ i \in 1..Len(Tail(events))
    BY TailFacts
  <1>2. Tail(events)[i] = events[i + 1]
    BY <1>1, TailFacts
  <1> QED
    BY <1>1, <1>2 DEF SilentFrom

LEMMA EndTail ==
  ASSUME NEW events \in Seq(EventType), events # <<>>, NEW r \in Runs, EndWaits(events, r)
  PROVE  \/ EndWaits(Tail(events), r)
         \/ /\ Head(events).run = r /\ Head(events).type # "progress"
            /\ Head(events).said = Said(r) /\ SilentFrom(1, Tail(events), r)
  <1>1. PICK i \in 1..Len(events) :
           /\ events[i].run = r /\ events[i].type # "progress" /\ events[i].said = Said(r)
           /\ SilentFrom(i + 1, events, r)
    BY DEF EndWaits
  <1>2. CASE i = 1
    BY <1>1, <1>2, TailFacts, SilentTail
  <1>3. CASE i # 1
    <2>1. i - 1 \in 1..Len(Tail(events)) /\ i \in Nat \ {0}
      BY <1>3, TailFacts
    <2>2. Tail(events)[i - 1] = events[i]
      BY <2>1, TailFacts
    <2>3. SilentFrom((i - 1) + 1, Tail(events), r)
      <3>1. (i - 1) + 1 = i
        BY <2>1
      <3>2. SilentFrom(i, Tail(events), r)
        BY <1>1, <2>1, SilentTail
      <3> QED
        BY <3>1, <3>2
    <2> QED
      BY <1>1, <2>1, <2>2, <2>3 DEF EndWaits
  <1> QED
    BY <1>2, <1>3

\* Delivered, socket by socket and run by run.
Arrives(b, r) ==
    \/ EndWaits(socket[b].channel, r)
    \/ /\ SilentFrom(1, socket[b].channel, r)
       /\ socket[b].at = "open" => told[b][r] = Said(r)
       /\ socket[b].at = "sending" => socket[b].snap = r /\ socket[b].said = Said(r)
Tuned(b) == socket[b].at # "closed" /\ ~socket[b].dropped

LEMMA DeliveredParts ==
  Delivered <=> \A b \in Browsers :
                  /\ socket[b].at = "closed" => socket[b].channel = <<>>
                  /\ \A r \in Runs : Tuned(b) /\ Over(r) => Arrives(b, r)
  BY RunsAssumption DEF Delivered, Tuned, Arrives, Runs

\* A run is over only by its last announcement, when everybody was reached, and
\* then its row stays.
LEMMA Overs ==
  ASSUME ChannelTypeOK, Staged, NEW r \in Runs, Run(r), NEW q \in Runs, Over(q)'
  PROVE  /\ Said(q)' = Said(q)
         /\ Over(q) \/ (q = r /\ \E e \in EventType, w \in WorkerType : Sends(r, e, Browsers, w))
         /\ q = r => Exists(r) /\ \E e, to, w : Sends(r, e, to, w)
  <1>1. worker \in [Runs -> WorkerType] /\ log \in [Runs -> Statuses]
    BY DEF ChannelTypeOK
  <1>2. log'[r] = "none" => log[r] = "none"
    <2>1. ASSUME NEW status, NEW w, Saves(r, status, w) PROVE log'[r] # "none"
      BY <1>1, <2>1 DEF Saves, Save
    <2>2. ASSUME NEW e, NEW to, NEW w, Sends(r, e, to, w) PROVE log' = log
      BY <2>2 DEF Sends
    <2>3. CASE FallsSilent(r) \/ Delete(r)
      BY <1>1, <2>3 DEF FallsSilent, Silenced, Delete
    <2> QED
      BY <2>1, <2>2, <2>3, RunFacts
  <1>3. \A p \in Runs : log'[p] = "none" => log[p] = "none"
    BY <1>2, OthersStay
  <1>4. CASE q # r
    <2>1. log'[q] = log[q] /\ worker'[q] = worker[q]
      BY <1>4, OthersStay
    <2> QED
      BY <1>3, <1>4, <2>1 DEF Over, Exists, Said
  <1>5. CASE q = r
    <2>1. worker'[r].next = "gone" /\ log'[r] \notin {"none", "deleted"}
      BY <1>5 DEF Over, Exists
    <2>2. ASSUME NEW status, NEW w, Saves(r, status, w) PROVE FALSE
      BY <1>1, <2>1, <2>2 DEF Saves, Save
    <2>3. ~FallsSilent(r)
      <3>1. At(r, "silent").next = "silent"
        BY AtFacts DEF Stages
      <3> QED
        BY <1>1, <2>1, <3>1 DEF FallsSilent, Silenced
    <2>4. ~Delete(r)
      BY <1>1, <2>1 DEF Delete
    <2>5. PICK e \in EventType, to \in SUBSET Browsers, w \in WorkerType : Sends(r, e, to, w)
      BY <2>2, <2>3, <2>4, RunFacts
    <2>6. to = Browsers
      BY <1>1, <2>1, <2>5 DEF Sends
    <2>7. log' = log /\ worker'[r].retries = worker[r].retries
      BY <1>1, <2>5 DEF Sends
    <2>8. Said(r)' = Said(r) /\ Exists(r)
      BY <2>1, <2>7 DEF Said, Exists
    <2> QED
      BY <1>5, <2>5, <2>6, <2>8
  <1> QED
    BY <1>4, <1>5

LEMMA DeliverStep ==
  ASSUME ChannelTypeOK, Staged, Delivered, [ChannelNext]_channelVars
  PROVE  \A b \in Browsers :
           /\ socket'[b].at = "closed" => socket'[b].channel = <<>>
           /\ \A q \in Runs : Tuned(b)' /\ Over(q)' => Arrives(b, q)'
  <1> USE SocketFacts
  <1>1. \A b \in Browsers :
          /\ socket[b].at = "closed" => socket[b].channel = <<>>
          /\ \A q \in Runs : Tuned(b) /\ Over(q) => Arrives(b, q)
    BY DeliveredParts
  <1>2. ASSUME NEW b \in Browsers, NEW q \in Runs, socket'[b] = socket[b], told'[b] = told[b],
               Said(q)' = Said(q), Arrives(b, q)
        PROVE  Arrives(b, q)'
    BY <1>2 DEF Arrives, EndWaits, SilentFrom
  <1>3. ASSUME NEW r \in Runs, Run(r), NEW b \in Browsers
        PROVE  /\ socket'[b].at = "closed" => socket'[b].channel = <<>>
               /\ \A q \in Runs : Tuned(b)' /\ Over(q)' => Arrives(b, q)'
    <2>1. ASSUME UNCHANGED <<socket, told>>, ~\E e, to, w : Sends(r, e, to, w)
          PROVE  \A q \in Runs : Tuned(b)' /\ Over(q)' => Arrives(b, q)'
      <3> SUFFICES ASSUME NEW q \in Runs, Tuned(b)', Over(q)' PROVE Arrives(b, q)'
        OBVIOUS
      <3>1. Said(q)' = Said(q) /\ Over(q)
        BY <1>3, <2>1, Overs
      <3>2. Tuned(b)
        BY <2>1 DEF Tuned
      <3> QED
        BY <1>1, <1>2, <2>1, <3>1, <3>2
    <2>2. ASSUME NEW e \in EventType, NEW to, NEW w \in WorkerType, Sends(r, e, to, w)
          PROVE  /\ socket'[b].at = "closed" => socket'[b].channel = <<>>
                 /\ \A q \in Runs : Tuned(b)' /\ Over(q)' => Arrives(b, q)'
      <3>1. e.run = r /\ told' = told /\ log' = log /\ Broadcast(e, to) /\ to \in SUBSET Browsers
        BY <2>2 DEF Sends
      <3>2. \A q \in Runs : Said(q)' = Said(q)
        BY <2>2 DEF Sends, Said, ChannelTypeOK
      \* The run that sends is not over, and is over with it only if all are reached.
      <3>3. ~Over(r) /\ \A q \in Runs : Over(q)' => Over(q) \/ (q = r /\ to = Browsers)
        <4>1. worker[r].next # "gone"
          BY <2>2 DEF Sends
        <4>2. worker'[r] = w /\ (w.next = "gone" => to = Browsers)
          BY <2>2 DEF Sends, ChannelTypeOK
        <4> QED
          BY <1>3, <4>1, <4>2, Overs DEF Over
      <3>4. CASE (socket[b].at = "closed" \/ b \notin to) /\ socket'[b] = socket[b]
        <4> SUFFICES ASSUME NEW q \in Runs, Tuned(b)', Over(q)' PROVE Arrives(b, q)'
          BY <1>1, <3>4
        <4>1. Tuned(b) /\ b \notin to
          BY <3>4 DEF Tuned
        <4>2. Over(q)
          BY <3>3, <4>1
        <4> QED
          BY <1>1, <1>2, <3>1, <3>2, <3>4, <4>1, <4>2
      <3>5. CASE socket[b].at # "closed" /\ socket'[b] = [socket[b] EXCEPT !.dropped = TRUE]
        BY <3>5 DEF Tuned, SocketType
      <3>6. CASE socket[b].at # "closed" /\ socket'[b] = [socket[b] EXCEPT !.channel = Append(@, e)]
        <4>1. /\ socket'[b].channel = Append(socket[b].channel, e)
              /\ socket'[b].at = socket[b].at /\ socket'[b].dropped = socket[b].dropped
              /\ socket'[b].snap = socket[b].snap /\ socket'[b].said = socket[b].said
          BY <3>6 DEF SocketType
        <4>2. ASSUME NEW q \in Runs, Tuned(b)', Over(q)' PROVE Arrives(b, q)'
          <5>1. Said(q)' = Said(q) /\ Tuned(b)
            BY <3>2, <4>1, <4>2 DEF Tuned
          <5>2. CASE Over(q)
            <6>1. q # r
              BY <3>3, <5>2
            <6>2. Arrives(b, q)
              BY <1>1, <5>1, <5>2
            <6>3. CASE EndWaits(socket[b].channel, q)
              <7>1. EndWaits(Append(socket[b].channel, e), q)
                BY <3>1, <6>1, <6>3, EndAppend
              <7>2. EndWaits(socket[b].channel, q)'
                BY <5>1, <4>1, <7>1 DEF EndWaits, SilentFrom
              <7> QED
                BY <7>2 DEF Arrives
            <6>4. CASE ~EndWaits(socket[b].channel, q)
              <7>1. SilentFrom(1, socket[b].channel, q)
                BY <6>2, <6>4 DEF Arrives
              <7>2. SilentFrom(1, Append(socket[b].channel, e), q)
                BY <3>1, <6>1, <7>1, SilentAppend
              <7>3. SilentFrom(1, socket[b].channel, q)'
                BY <4>1, <7>2 DEF SilentFrom
              <7> QED
                BY <3>1, <4>1, <5>1, <6>2, <6>4, <7>3 DEF Arrives
            <6> QED
              BY <6>3, <6>4
          <5>3. CASE ~Over(q)
            <6>1. q = r /\ worker'[r].next = "gone" /\ Exists(r)
              BY <1>3, <4>2, <5>3, Overs DEF Over
            <6>2. e.type # "progress" /\ e.said = Said(r)
              <7>1. w.next = "gone"
                BY <2>2, <6>1 DEF Sends, ChannelTypeOK
              <7>2. \/ e = Event("completed", r)
                    \/ worker[r].next = "error" /\ e = Failure(r)
                BY <2>2, <7>1 DEF Sends
              <7>3. worker[r].next = "error" => log[r] = "FAILED"
                BY <6>1 DEF Staged, Stage, Exists
              <7> QED
                BY <7>2, <7>3, EventFacts DEF Said
            <6>3. EndWaits(Append(socket[b].channel, e), q)
              BY <3>1, <6>1, <6>2, EndAppended
            <6>4. EndWaits(socket[b].channel, q)'
              BY <4>1, <5>1, <6>3 DEF EndWaits, SilentFrom
            <6> QED
              BY <6>4 DEF Arrives
          <5> QED
            BY <5>2, <5>3
        <4> QED
          BY <3>6, <4>1, <4>2
      <3> QED
        BY <3>1, <3>4, <3>5, <3>6, BroadcastFacts
    <2>3. ASSUME ~\E e, to, w : Sends(r, e, to, w) PROVE UNCHANGED <<socket, told>>
      <3>1. ASSUME NEW status, NEW w, Saves(r, status, w) PROVE UNCHANGED <<socket, told>>
        BY <3>1 DEF Saves, Save
      <3>2. CASE FallsSilent(r) \/ Delete(r)
        BY <3>2 DEF FallsSilent, Silenced, Delete
      <3> QED
        BY <1>3, <2>3, <3>1, <3>2, RunFacts
    <2>4. CASE \E e \in EventType, to \in SUBSET Browsers, w \in WorkerType : Sends(r, e, to, w)
      BY <2>2, <2>4
    <2>5. CASE ~\E e, to, w : Sends(r, e, to, w)
      BY <1>1, <2>1, <2>3, <2>5
    <2>6. (\E e, to, w : Sends(r, e, to, w)) =>
            \E e \in EventType, to \in SUBSET Browsers, w \in WorkerType : Sends(r, e, to, w)
      BY DEF Sends
    <2> QED
      BY <2>4, <2>5, <2>6
  <1>4. ASSUME NEW b \in Browsers, Consume(b) \/ Forward(b)
        PROVE  /\ socket'[b].at = "closed" => socket'[b].channel = <<>>
               /\ \A q \in Runs : Tuned(b)' /\ Over(q)' => Arrives(b, q)'
    <2>1. socket[b] \in SocketType /\ told[b] \in [Runs -> Saying]
          /\ socket \in [Browsers -> SocketType] /\ told \in [Browsers -> [Runs -> Saying]]
      BY DEF ChannelTypeOK
    <2>2. log' = log /\ worker' = worker /\ \A q : Said(q)' = Said(q)
      BY <1>4, Untouched DEF Said
    <2>3. \A q \in Runs : Over(q)' = Over(q)
      BY <2>2 DEF Over, Exists
    <2>4. ASSUME NEW q \in Runs, socket'[b].channel = socket[b].channel,
                 EndWaits(socket[b].channel, q)
          PROVE  EndWaits(socket[b].channel, q)'
      BY <2>2, <2>4 DEF EndWaits, SilentFrom
    <2>5. ASSUME NEW q \in Runs, socket'[b].channel = socket[b].channel,
                 SilentFrom(1, socket[b].channel, q)
          PROVE  SilentFrom(1, socket[b].channel, q)'
      BY <2>5 DEF SilentFrom
    <2>6. CASE Connect(b)
      <3>1. /\ socket'[b].channel = <<>> /\ socket'[b].channel = socket[b].channel
            /\ socket'[b].at = "reading"
        BY <1>1, <2>1, <2>6 DEF Connect, SocketType
      <3>2. \A q \in Runs : SilentFrom(1, socket[b].channel, q)'
        BY <3>1 DEF SilentFrom
      <3> QED
        BY <3>1, <3>2 DEF Arrives
    <2>7. CASE GetLatest(b)
      <3>1. /\ socket'[b].channel = socket[b].channel /\ socket'[b].at = "reading"
            /\ socket'[b].dropped = socket[b].dropped /\ socket[b].at = "open"
        BY <2>1, <2>7 DEF GetLatest, SocketType
      <3> QED
        BY <3>1, <1>1, <2>3, <2>4, <2>5 DEF Arrives, Tuned
    <2>8. CASE ReadLatest(b)
      <3>1. PICK n \in {0} \cup Runs :
               /\ Latest(n)
               /\ socket' = [socket EXCEPT ![b].at = "sending", ![b].snap = n,
                                           ![b].said = IF n = 0 THEN Nothing ELSE Said(n)]
        BY <2>8 DEF ReadLatest
      <3>2. /\ socket'[b].channel = socket[b].channel /\ socket'[b].at = "sending"
            /\ socket'[b].dropped = socket[b].dropped /\ socket[b].at = "reading"
            /\ socket'[b].snap = n
            /\ n # 0 => socket'[b].said = Said(n)
        BY <2>1, <2>8, <3>1 DEF ReadLatest, SocketType
      <3>3. ASSUME NEW q \in Runs, Over(q) PROVE n = q /\ n # 0
        <4>1. Exists(q) /\ q <= n /\ q \in Nat \ {0} /\ n \in Nat
          BY <3>1, <3>3, RunsAssumption DEF Over, Latest, Runs
        <4>2. Exists(n) /\ n \in Runs
          BY <3>1, <4>1 DEF Latest, Runs
        <4>3. ~(n > q)
          BY <3>3, <4>2 DEF Over, Exists
        <4> QED
          BY <4>1, <4>3
      <3> QED
        BY <3>2, <3>3, <1>1, <2>2, <2>3, <2>4, <2>5 DEF Arrives, Tuned
    <2>9. CASE SendLatest(b)
      <3>1. /\ socket'[b].channel = socket[b].channel /\ socket'[b].at = "open"
            /\ socket'[b].dropped = socket[b].dropped /\ socket[b].at = "sending"
            /\ told' = IF socket[b].snap = 0 THEN told
                       ELSE [told EXCEPT ![b][socket[b].snap] = socket[b].said]
        BY <2>1, <2>9 DEF SendLatest, SocketType
      <3>2. ASSUME NEW q \in Runs, socket[b].snap = q PROVE told'[b][q] = socket[b].said
        <4>1. q # 0
          BY RunsAssumption DEF Runs
        <4> QED
          BY <2>1, <3>1, <3>2, <4>1
      <3> QED
        BY <3>1, <3>2, <1>1, <2>2, <2>3, <2>4, <2>5 DEF Arrives, Tuned
    <2>10. CASE Forward(b)
      <3> DEFINE events == socket[b].channel
                 e == Head(events)
      <3>1. events # <<>> /\ e = events[1] /\ 1 \in 1..Len(events)
        BY <2>10, TailFacts DEF Forward
      <3>2. /\ socket'[b].channel = Tail(events) /\ socket'[b].at = "open" /\ socket[b].at = "open"
            /\ socket'[b].dropped = socket[b].dropped
            /\ told' = IF e.type = "progress" \/ e.said[2] = "deleted" THEN told
                       ELSE [told EXCEPT ![b][e.run] = e.said]
        BY <2>1, <2>10 DEF Forward, SocketType
      <3>3. ASSUME NEW q \in Runs, Tuned(b)', Over(q)' PROVE Arrives(b, q)'
        <4>1. Arrives(b, q) /\ Over(q)
          BY <1>1, <2>3, <3>2, <3>3 DEF Tuned
        <4>2. CASE EndWaits(Tail(events), q)
          BY <2>2, <3>2, <4>2 DEF Arrives, EndWaits, SilentFrom
        <4>3. CASE /\ e.run = q /\ e.type # "progress" /\ e.said = Said(q)
                   /\ SilentFrom(1, Tail(events), q)
          <5>1. told'[b][q] = Said(q)'
            <6>1. e.said[2] # "deleted"
              BY <4>1, <4>3 DEF Over, Exists, Said
            <6> HIDE DEF e
            <6> QED
              BY <2>1, <2>2, <3>2, <4>3, <6>1
          <5>2. SilentFrom(1, socket[b].channel, q)'
            BY <3>2, <4>3 DEF SilentFrom
          <5> QED
            BY <3>2, <5>1, <5>2 DEF Arrives
        <4>4. CASE ~EndWaits(events, q)
          <5>1. SilentFrom(1, events, q) /\ told[b][q] = Said(q)
            BY <3>2, <4>1, <4>4 DEF Arrives
          <5>2. e.run # q \/ e.type = "progress"
            BY <3>1, <5>1 DEF SilentFrom
          <5>3. told'[b][q] = Said(q)'
            BY <2>1, <2>2, <3>2, <5>1, <5>2
          <5>4. SilentFrom(1, Tail(events), q)
            <6>1. SilentFrom(1 + 1, events, q)
              BY <5>1 DEF SilentFrom
            <6> QED
              BY <3>1, <6>1, SilentTail
          <5>5. SilentFrom(1, socket[b].channel, q)'
            BY <3>2, <5>4 DEF SilentFrom
          <5> QED
            BY <3>2, <5>3, <5>5 DEF Arrives
        <4> QED
          BY <3>1, <4>2, <4>3, <4>4, EndTail
      <3> QED
        BY <3>2, <3>3
    <2>11. CASE Disconnect(b)
      BY <2>1, <2>11 DEF Disconnect, Closed, Tuned
    <2> QED
      BY <1>4, <2>6, <2>7, <2>8, <2>9, <2>10, <2>11 DEF Consume
  <1> QED
    <2> TAKE b \in Browsers
    <2>1. CASE UNCHANGED channelVars
      <3>1. \A q \in Runs : /\ Over(q)' = Over(q) /\ Tuned(b)' = Tuned(b)
                           /\ Arrives(b, q)' = Arrives(b, q)
        BY <2>1 DEF channelVars, Over, Exists, Said, Tuned, Arrives, EndWaits, SilentFrom
      <3> QED
        BY <1>1, <2>1, <3>1 DEF channelVars
    <2>2. CASE \E r \in Runs : Run(r)
      BY <1>3, <2>2
    <2>3. ASSUME NEW p \in Browsers, Consume(p) \/ Forward(p)
          PROVE  /\ socket'[b].at = "closed" => socket'[b].channel = <<>>
                 /\ \A q \in Runs : Tuned(b)' /\ Over(q)' => Arrives(b, q)'
      <3>1. CASE p = b
        BY <1>4, <2>3, <3>1
      <3>2. CASE p # b
        <4>1. socket'[b] = socket[b] /\ told'[b] = told[b]
          BY <2>3, <3>2, OneSocket
        <4>2. log' = log /\ worker' = worker /\ \A q : Said(q)' = Said(q)
          BY <2>3, Untouched DEF Said
        <4>3. \A q \in Runs : Over(q)' = Over(q) /\ Tuned(b)' = Tuned(b)
          BY <4>1, <4>2 DEF Over, Exists, Tuned
        <4> QED
          BY <1>1, <1>2, <4>1, <4>2, <4>3
      <3> QED
        BY <3>1, <3>2
    <2> QED
      BY <2>1, <2>2, <2>3 DEF ChannelNext

-----------------------------------------------------------------------------
LEMMA Start == ChannelInit => Inv
  <1> SUFFICES ASSUME ChannelInit PROVE Inv
    OBVIOUS
  <1>1. ChannelTypeOK
    <2>1. Closed \in SocketType /\ Len(Closed.channel) <= Capacity
      BY RunsAssumption, CapacityAssumption, SayingFacts DEF Closed, SocketType
    <2>2. [next |-> "begin", progress |-> 0, retries |-> 0] \in WorkerType
      BY BoundsAssumption DEF WorkerType, Stages, Attempts
    <2> QED
      BY <2>1, <2>2, SayingFacts DEF ChannelInit, ChannelTypeOK, Statuses
  <1>2. Staged
    BY DEF ChannelInit, Staged, Stage, Exists
  <1>3. Follow
    <2>1. \A b \in Browsers : socket[b] = Closed /\ told[b] = [r \in Runs |-> Nothing]
      BY DEF ChannelInit
    <2>2. Closed.snap = 0 /\ Len(Closed.channel) = 0
      BY DEF Closed
    <2> QED
      BY <2>1, <2>2 DEF Follow
  <1>4. Delivered
    BY DEF ChannelInit, Delivered, Closed
  <1> QED
    BY <1>1, <1>2, <1>3, <1>4 DEF Inv

LEMMA Steps == Inv /\ [ChannelNext]_channelVars => Inv'
  <1> SUFFICES ASSUME Inv, [ChannelNext]_channelVars PROVE Inv'
    OBVIOUS
  <1>1. ChannelTypeOK' /\ Staged'
    BY TypeStep, StageStep DEF Inv
  <1>2. Follow'
    <2>1. \A b \in Browsers : Follows(b)'
      BY <1>1, FollowStep DEF Inv
    <2> QED
      BY <2>1 DEF Follow, Follows, HeardBy, Waiting, Snapped, Hearable
  <1>3. Delivered'
    <2>1. \A b \in Browsers :
            /\ socket'[b].at = "closed" => socket'[b].channel = <<>>
            /\ \A q \in Runs : Tuned(b)' /\ Over(q)' => Arrives(b, q)'
      BY DeliverStep DEF Inv
    <2> QED
      BY <2>1 DEF Delivered, Tuned, Arrives
  <1> QED
    BY <1>1, <1>2, <1>3 DEF Inv

\* In every reachable state: what waits, what was read and what was told fits the
\* table (consumers.py, ws_utils.py).
THEOREM Invariance == ChannelSpec => []Inv
  BY Start, Steps, PTL DEF ChannelSpec

\* Types, and channels within their capacity.
THEOREM ChannelTypes == ChannelSpec => []ChannelTypeOK
  <1>1. Inv => ChannelTypeOK
    BY DEF Inv
  <1> QED
    BY <1>1, Invariance, PTL

\* Nobody is told what the row has not said in that attempt, whichever call of
\* group_send raises and whatever became of the row since (tasks.py:266-267,
\* 298-299).
THEOREM NeverAhead == ChannelSpec => []EventsFollowRow
  <1>1. Inv => EventsFollowRow
    BY DEF Inv, Follow, EventsFollowRow
  <1> QED
    BY <1>1, Invariance, PTL

\* A socket that lost nothing learns how the last attempt of the latest run ended,
\* if its end was announced at all (consumers.py:26-28; tasks.py:267, 299).
THEOREM EndArrives == ChannelSpec => []Informed
  <1>1. Inv => Informed
    <2> SUFFICES ASSUME Inv PROVE Informed
      OBVIOUS
    <2>1. \A b \in Browsers, r \in Runs : Tuned(b) /\ Over(r) => Arrives(b, r)
      BY DeliveredParts DEF Inv
    <2> QED
      BY <2>1 DEF Informed, Tuned, Over, Arrives, EndWaits
  <1> QED
    BY <1>1, Invariance, PTL

\* The rows sockets and page read move as AuditTrail has them move: a row that
\* went through becomes a failed one only while its end is unannounced.
THEOREM Refinement == ChannelSpec => AuditSpec
  <1>1. ChannelInit => Trail!Init
    BY DEF ChannelInit, Trail!Init
  <1>2. Inv /\ [ChannelNext]_channelVars => [Trail!Next]_log
    <2> SUFFICES ASSUME Inv, [ChannelNext]_channelVars, log' # log
                 PROVE  Trail!Next
      OBVIOUS
    <2>1. PICK r \in Runs :
            Begin(r) \/ Again(r) \/ Refused(r) \/ End(r) \/ Fail(r) \/ Delete(r)
      BY Untouched DEF ChannelNext, channelVars, Run, Started, Progress, Announce, Kill, Silenced
    <2>2. Stage(r) /\ log \in [Runs -> Statuses]
      BY DEF Inv, Staged, ChannelTypeOK
    <2>3. CASE Begin(r)
      <3>1. log' = [log EXCEPT ![r] = "RUNNING"] /\ log[r] = "none"
        BY <2>2, <2>3 DEF Begin, Save, Stage
      <3> QED
        BY <3>1 DEF Trail!Next, Trail!Begin, Trail!Move
    <2>4. CASE Again(r)
      <3>1. log' = [log EXCEPT ![r] = "RUNNING"] /\ log[r] = "FAILED"
        BY <2>2, <2>4 DEF Again, Save, Silenced, Stage, Exists
      <3> QED
        BY <3>1 DEF Trail!Next, Trail!Resume, Trail!Move
    <2>5. CASE Refused(r) \/ Fail(r)
      <3>1. log' = [log EXCEPT ![r] = "FAILED"] /\ log[r] \in {"RUNNING", "SUCCESS"}
        BY <2>2, <2>5 DEF Refused, Fail, Save, Silenced, Stage, Exists
      <3> QED
        BY <3>1 DEF Trail!Next, Trail!End, Trail!Revoke, Trail!Move, Trail!Ended, Trail!Done
    <2>6. CASE End(r)
      <3>1. log' = [log EXCEPT ![r] = "SUCCESS"] /\ log[r] = "RUNNING"
        BY <2>2, <2>6 DEF End, Save, Stage, Exists
      <3> QED
        BY <3>1 DEF Trail!Next, Trail!End, Trail!Move, Trail!Ended, Trail!Done
    <2>7. CASE Delete(r)
      <3>1. log' = [log EXCEPT ![r] = "deleted"] /\ log[r] \in {"SUCCESS", "FAILED", "RUNNING"}
        BY <2>2, <2>7 DEF Delete, Exists, Statuses, Ended
      <3> QED
        BY <3>1 DEF Trail!Next, Trail!Remove, Trail!Move, Trail!Ended, Trail!Done
    <2> QED
      BY <2>1, <2>3, <2>4, <2>5, <2>6, <2>7
  <1> QED
    BY <1>1, <1>2, Invariance, PTL DEF ChannelSpec, AuditSpec, Trail!Spec
=============================================================================
