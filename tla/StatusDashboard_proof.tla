------------------------ MODULE StatusDashboard_proof ------------------------
(***************************************************************************)
(* The channel works below the dashboard as it does alone, and the page    *)
(* shows tables the server had, for any number of runs, browsers and       *)
(* requests outstanding.                                                   *)
(***************************************************************************)
EXTENDS StatusDashboard, StatusChannel_proof

\* Every step below the page is one of the channel, or leaves it alone.
LEMMA PageStep == [Next]_vars => [ChannelNext]_channelVars
  BY DEF Next, vars, Hear, Poll, Answer, FetchFails, Apply, ChannelNext

\* The page asks nothing of the channel: what is proved of runs, rows and sockets
\* alone holds with browsers on top (consumers.py, dashboard.html).
THEOREM ChannelBelow == Spec => ChannelSpec
  <1>1. Init => ChannelInit
    BY DEF Init
  <1> QED
    BY <1>1, PageStep, PTL DEF Spec, ChannelSpec

\* In particular the inductive invariant of the channel, failed notifications and
\* retries included: what sockets are told with browsers on top is what the rows
\* said, and ends that were announced arrive (ws_utils.py, consumers.py).
THEOREM ChannelHolds == Spec => []Inv
  BY ChannelBelow, Invariance, PTL

\* What the server answers.
LEMMA TableFacts ==
  ASSUME ChannelTypeOK
  PROVE  Table \in Tables
  BY DEF ChannelTypeOK, Table, Tables, Exists, Statuses

\* Requests are taken one by one, and none is answered twice.
LEMMA RequestsCounted ==
  ASSUME TypeOK, [Next]_vars
  PROVE  requests' \in [Browsers -> 0..MaxInFlight]
  <1> USE MaxInFlightAssumption
  <1>1. CASE UNCHANGED requests
    BY <1>1 DEF TypeOK
  <1>2. ASSUME NEW b \in Browsers, Request(b)
        PROVE  requests' \in [Browsers -> 0..MaxInFlight]
    BY <1>2 DEF Request, TypeOK
  <1>3. ASSUME NEW b \in Browsers, requests[b] > 0,
               requests' = [requests EXCEPT ![b] = @ - 1]
        PROVE  requests' \in [Browsers -> 0..MaxInFlight]
    BY <1>3 DEF TypeOK
  <1>4. ASSUME NEW b \in Browsers, Hear(b) \/ Poll(b) \/ Answer(b) \/ FetchFails(b)
        PROVE  requests' \in [Browsers -> 0..MaxInFlight]
    BY <1>1, <1>2, <1>3, <1>4 DEF Hear, Poll, Answer, FetchFails
  <1> QED
    BY <1>1, <1>4 DEF Next, vars, page, Apply

\* Where an answer of a page comes from, and what the page shows.
LEMMA Shown ==
  ASSUME TypeOK, [Next]_vars, NEW b \in Browsers
  PROVE  /\ answers'[b] \subseteq answers[b] \cup {Table}
         /\ shown'[b] \in answers[b] \cup {shown[b]}
         /\ DOMAIN answers' = Browsers /\ DOMAIN shown' = Browsers
         /\ answers' = [c \in Browsers |-> answers'[c]]
         /\ shown' = [c \in Browsers |-> shown'[c]]
  <1>1. CASE UNCHANGED <<answers, shown>>
    BY <1>1 DEF TypeOK
  <1>2. ASSUME NEW c \in Browsers, Answer(c)
        PROVE  answers' = [answers EXCEPT ![c] = @ \cup {Table}] /\ shown' = shown
    BY <1>2 DEF Answer
  <1>3. ASSUME NEW c \in Browsers, NEW a \in answers[c], Apply(c, a)
        PROVE  /\ answers' = [answers EXCEPT ![c] = @ \ {a}]
               /\ shown' = shown \/ shown' = [shown EXCEPT ![c] = a]
    BY <1>3 DEF Apply
  <1>4. CASE \E c \in Browsers : Answer(c)
    BY <1>2, <1>4 DEF TypeOK
  <1>5. CASE \E c \in Browsers : \E a \in answers[c] : Apply(c, a)
    BY <1>3, <1>5 DEF TypeOK
  <1> QED
    BY <1>1, <1>4, <1>5 DEF Next, vars, page, Hear, Poll, FetchFails

LEMMA PageTypes == TypeOK /\ ChannelTypeOK /\ [Next]_vars => TypeOK'
  <1> SUFFICES ASSUME TypeOK, ChannelTypeOK, [Next]_vars PROVE TypeOK'
    OBVIOUS
  <1>1. requests' \in [Browsers -> 0..MaxInFlight]
    BY RequestsCounted
  <1>2. ASSUME NEW b \in Browsers
        PROVE  answers'[b] \in SUBSET Tables /\ shown'[b] \in Tables
    BY Shown, TableFacts DEF TypeOK
  <1>3. CASE Browsers = {}
    BY <1>1, <1>3 DEF TypeOK, Next, vars, page
  <1>4. CASE Browsers # {}
    BY <1>1, <1>2, <1>4, Shown DEF TypeOK
  <1> QED
    BY <1>3, <1>4

\* The inductive invariant of the page with the channel below it.
PageInv == Inv /\ TypeOK

LEMMA PageStart == Init => PageInv
  <1> SUFFICES ASSUME Init PROVE PageInv
    OBVIOUS
  <1>1. Inv /\ ChannelTypeOK
    BY Start DEF Init, Inv
  <1>2. TypeOK
    BY <1>1, TableFacts, MaxInFlightAssumption DEF Init, TypeOK
  <1> QED
    BY <1>1, <1>2 DEF PageInv

LEMMA PageSteps == PageInv /\ [Next]_vars => PageInv'
  <1> SUFFICES ASSUME PageInv, [Next]_vars PROVE PageInv'
    OBVIOUS
  <1>1. Inv'
    BY PageStep, Steps DEF PageInv
  <1>2. TypeOK'
    BY PageTypes DEF PageInv, Inv
  <1> QED
    BY <1>1, <1>2 DEF PageInv

\* The page counts its requests, and every answer is a table the server may read
\* (dashboard.html: fetchStats).
THEOREM PageHolds == Spec => []TypeOK
  <1>1. PageInv => TypeOK
    BY DEF PageInv
  <1> QED
    BY <1>1, PageStart, PageSteps, PTL DEF Spec
=============================================================================
