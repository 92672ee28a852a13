--------------------------- MODULE StatusDashboard ---------------------------
(***************************************************************************)
(* The dashboard page on top of StatusChannel: it fetches the figures of   *)
(* the runs when it hears of progress or completion, and on a timer, and   *)
(* shows whatever answer arrives.                                          *)
(***************************************************************************)
EXTENDS StatusChannel

CONSTANT MaxInFlight \* bound: requests a page has outstanding

ASSUME MaxInFlightAssumption == MaxInFlight \in Nat

VARIABLES
    requests, \* stats requests under way to the server
    answers,  \* answers under way to the page
    shown     \* the statuses on the page

page == <<requests, answers, shown>>
vars == <<channelVars, page>>

\* What stats say of the rows: those that are there.
Table == [r \in Runs |-> IF Exists(r) THEN log[r] ELSE "none"]
Tables == [Runs -> Statuses \ {"deleted"}]
NoRows == [r \in Runs |-> "none"]

Init ==
    /\ ChannelInit
    /\ requests = [b \in Browsers |-> 0]
    /\ answers = [b \in Browsers |-> {}]
    /\ shown = [b \in Browsers |-> Table]

\* fetchStats: a request goes out.
Request(b) ==
    /\ requests[b] < MaxInFlight
    /\ requests' = [requests EXCEPT ![b] = @ + 1]

\* Completed and progress messages make the page fetch; what it is told by
\* the other messages it does not use.
Hear(b) ==
    LET e == Head(socket[b].channel) IN
    /\ Forward(b)
    /\ IF e.type \in {"completed", "progress"} THEN Request(b) ELSE UNCHANGED requests
    /\ UNCHANGED <<answers, shown>>

\* setInterval, every 30 seconds.  Mutant: only while the socket is open.
PollWhenOpen(b) ==
    /\ socket[b].at = "open"
    /\ Request(b)
    /\ UNCHANGED <<channelVars, answers, shown>>
Poll(b) ==
    /\ Request(b)
    /\ UNCHANGED <<channelVars, answers, shown>>

\* The server answers with what the table holds at that moment ...
Answer(b) ==
    /\ requests[b] > 0
    /\ requests' = [requests EXCEPT ![b] = @ - 1]
    /\ answers' = [answers EXCEPT ![b] = @ \cup {Table}]
    /\ UNCHANGED <<channelVars, shown>>

\* ... or the request fails, which the page only logs.  Mutant: it may fail
\* after it was answered.
FetchFailsLate(b) ==
    /\ requests' = [requests EXCEPT ![b] = @ - 1]
    /\ UNCHANGED <<channelVars, answers, shown>>
FetchFails(b) ==
    /\ requests[b] > 0
    /\ requests' = [requests EXCEPT ![b] = @ - 1]
    /\ UNCHANGED <<channelVars, answers, shown>>

\* Answers are applied as they arrive, in whatever order; one without any rows
\* changes nothing.
Apply(b, a) ==
    /\ a \in answers[b]
    /\ answers' = [answers EXCEPT ![b] = @ \ {a}]
    /\ shown' = IF a = NoRows THEN shown ELSE [shown EXCEPT ![b] = a]
    /\ UNCHANGED <<channelVars, requests>>

Next ==
    \/ \E r \in Runs : Run(r) /\ UNCHANGED page
    \/ \E b \in Browsers :
         \/ Consume(b) /\ UNCHANGED page
         \/ Hear(b) \/ Poll(b) \/ Answer(b) \/ FetchFails(b)
         \/ \E a \in answers[b] : Apply(b, a)

Spec == Init /\ [][Next]_vars

\* The timer of the page keeps firing, answers that were sent arrive, and the
\* server, though it may fail again and again, does not fail for ever.
FairSpec ==
    Spec /\ \A b \in Browsers :
      /\ WF_vars(Poll(b)) /\ SF_vars(Answer(b))
      /\ \A a \in Tables : WF_vars(Apply(b, a))

-----------------------------------------------------------------------------
TypeOK ==
    /\ requests \in [Browsers -> 0..MaxInFlight]
    /\ answers \in [Browsers -> SUBSET Tables]
    /\ shown \in [Browsers -> Tables]

\* When the runs are over the page ends up showing what the table says, with
\* sockets closed, events dropped, requests failing, workers killed, rows deleted
\* and answers out of order (dashboard.html: fetchStats and its timer); only if no
\* row is left does it keep what it showed.
Settles == \A b \in Browsers : <>[](shown[b] = Table \/ Table = NoRows)
=============================================================================
