------------------------- MODULE OdooConnector_proof -------------------------
(***************************************************************************)
(* Safety of the connector, for any number of threads, attempts and calls. *)
(***************************************************************************)
EXTENDS OdooConnector, TLAPS

\* FreshRound, step by step: a thread in its second round reads, takes and uses only
\* ids asked for since the clearing.
Later(s, id) == s.round = 2 => id = NoId \/ id > s.since
Newer(s) == s.pc = "call" => Later(s, s.use)

Inv ==
    /\ TypeOK /\ LockHeldByAuth
    /\ \A t \in Threads : Later(thread[t], uid) /\ Newer(thread[t])
    \* The id that is asked for is newer than whatever was cleared.
    /\ \A t \in Threads : lock # Nobody => asked > thread[t].since

\* The types, with the number of authentications as a parameter: it grows.
ThreadTypes(n) ==
    [pc : {"idle", "check", "take", "known", "reread", "lock", "auth", "call", "clear"},
     use : 0..n, round : {1, 2}, tries : 0..Attempts - 1, auths : 0..Attempts - 1,
     back : {"idle", "call", "check"}, since : 0..n]

LEMMA TypesGrow ==
  /\ ThreadType = ThreadTypes(asked) /\ ThreadType' = ThreadTypes(asked')
  /\ \A m, n \in Nat : m <= n => ThreadTypes(m) \subseteq ThreadTypes(n)
  <1>1. ASSUME NEW m \in Nat, NEW n \in Nat, m <= n, NEW s \in ThreadTypes(m)
        PROVE  s \in ThreadTypes(n)
    <2>1. 0..m \subseteq 0..n
      BY <1>1
    <2> QED
      BY <1>1, <2>1 DEF ThreadTypes
  <1> QED
    BY <1>1 DEF ThreadType, ThreadTypes

\* What Inv says of the thread that moves.
LEMMA Mine ==
  ASSUME Inv, NEW t \in Threads
  PROVE  /\ thread[t] \in ThreadType /\ Later(thread[t], uid) /\ Newer(thread[t])
         /\ asked \in Nat /\ uid \in 0..asked /\ revoked \in 0..asked
         /\ thread \in [Threads -> ThreadType] /\ lock \in Threads \cup {Nobody}
         /\ Attempts \in Nat \ {0} /\ 0 \in 0..asked /\ 0 \in 0..(Attempts - 1)
         /\ thread[t].pc = "auth" <=> lock = t
  BY AttemptsAssumption DEF Inv, TypeOK, LockHeldByAuth

\* A step that moves one thread: the others notice only what it does to the
\* lock and to the cached id.
LEMMA Move ==
  ASSUME Inv, NEW t \in Threads, NEW s, Become(t, s),
         asked' \in Nat, asked <= asked', s \in ThreadTypes(asked'),
         uid' \in 0..asked', revoked' = revoked,
         lock' \in {lock, t, Nobody}, lock \in {t, Nobody} \/ (lock' = lock /\ uid' = uid),
         s.pc = "auth" <=> lock' = t, lock' = t => uid' = NoId,
         Later(s, uid'), Newer(s), lock' # Nobody => asked' > s.since,
         \A u \in Threads \ {t} : /\ Later(thread[u], uid')
                                  /\ lock' # Nobody => asked' > thread[u].since
  PROVE  Inv'
  <1>1. /\ ThreadType \subseteq ThreadTypes(asked') /\ ThreadTypes(asked') = ThreadType'
        /\ 0..asked \subseteq 0..asked'
    BY Mine, TypesGrow
  <1>2. /\ thread' \in [Threads -> ThreadTypes(asked')] /\ thread'[t] = s
        /\ \A u \in Threads \ {t} : thread'[u] = thread[u]
    BY Mine, <1>1 DEF Become
  <1>3. TypeOK'
    BY Mine, <1>1, <1>2 DEF TypeOK
  <1>4. LockHeldByAuth'
    BY Mine, <1>2, NobodyAssumption DEF Inv, LockHeldByAuth
  <1>5. ASSUME NEW u \in Threads
        PROVE  Later(thread'[u], uid') /\ Newer(thread'[u])
               /\ (lock' # Nobody => asked' > thread'[u].since)
    BY <1>2 DEF Inv
  <1>6. \A u \in Threads : Later(thread[u], uid)' /\ Newer(thread[u])'
    BY <1>5 DEF Later, Newer
  <1> QED BY <1>3, <1>4, <1>5, <1>6 DEF Inv

\* One that also leaves lock and ids as they are.
LEMMA QuietMove ==
  ASSUME Inv, NEW t \in Threads, NEW s \in ThreadType, Become(t, s),
         UNCHANGED <<uid, lock, asked, revoked>>, thread[t].pc # "auth", s.pc # "auth",
         Later(s, uid), Newer(s), s.since \in {0, thread[t].since}
  PROVE  Inv'
  <1>1. lock # Nobody => asked > s.since
    <2>1. lock # Nobody => asked > thread[t].since /\ thread[t].since \in 0..asked
      BY Mine DEF Inv, ThreadType
    <2> QED BY <2>1, Mine
  <1>2. s \in ThreadTypes(asked') /\ lock # t
    BY Mine, TypesGrow
  <1>3. \A u \in Threads \ {t} : /\ Later(thread[u], uid)
                                 /\ lock # Nobody => asked > thread[u].since
    BY DEF Inv
  <1>4. Later(s, uid') /\ \A u \in Threads \ {t} : Later(thread[u], uid')
    BY <1>3 DEF Later
  <1> QED BY Mine, Move, <1>1, <1>2, <1>3, <1>4

LEMMA Rests ==
  ASSUME Inv
  PROVE  /\ Resting \in ThreadType /\ Resting.pc = "idle" /\ Resting.since = 0
         /\ \A id : Later(Resting, id) /\ Newer(Resting)
  BY AttemptsAssumption DEF Inv, TypeOK, Resting, ThreadType, Later, Newer, NoId

\* Where authenticate() returns to.
LEMMA Resumes ==
  ASSUME Inv, NEW t \in Threads, NEW id \in 0..asked, Resume(t, id), Later(thread[t], id)
  PROVE  \E s \in ThreadType : /\ Become(t, s) /\ s.pc # "auth" /\ s.since \in {0, thread[t].since}
                               /\ s.round = 2 => thread[t].round = 2 /\ s.since = thread[t].since
                               /\ Newer(s)
  <1>1. CASE thread[t].back = "idle"
    BY <1>1, Rests DEF Resume, Return, Resting
  <1>2. CASE thread[t].back # "idle"
    <2> DEFINE s == [thread[t] EXCEPT !.pc = thread[t].back, !.use = id, !.auths = 0]
    <2>1. thread[t] \in ThreadType /\ thread[t].back \in {"call", "check"}
      BY <1>2, Mine DEF ThreadType
    <2>2. s \in ThreadType /\ s.pc # "auth"
      BY <2>1, Mine DEF ThreadType
    <2>3. s.since = thread[t].since /\ s.round = thread[t].round /\ s.use = id
      BY <2>1 DEF ThreadType
    <2>4. Newer(s)
      BY <2>3 DEF Newer, Later
    <2>5. Become(t, s)
      BY <1>2 DEF Resume
    <2> HIDE DEF s
    <2> QED BY <2>2, <2>3, <2>4, <2>5
  <1> QED BY <1>1, <1>2

\* Everything that leaves lock and ids alone.
LEMMA QuietSteps ==
  ASSUME Inv, NEW t \in Threads,
         \/ Execute(t) \/ Health(t) \/ Check(t) \/ Take(t) \/ Known(t) \/ Reread(t)
         \/ Answered(t) \/ CallFails(t) \/ Denied(t)
  PROVE  Inv'
  <1>1. /\ UNCHANGED <<uid, lock, asked, revoked>>
        /\ thread[t].pc # "auth"
    BY DEF Execute, Health, Check, Take, Known, Reread, Answered, CallFails, Denied, At, Same, Fault
  <1>2. CASE Execute(t) \/ Health(t)
    <2>1. PICK s : /\ Become(t, s)
                   /\ \/ s = [Resting EXCEPT !.pc = "check"]
                      \/ s = [Resting EXCEPT !.pc = "known", !.back = "idle"]
      BY <1>2 DEF Execute, Health
    <2>2. s \in ThreadType /\ s.pc \notin {"auth", "call"} /\ s.since = 0 /\ s.round = 1
      <3>1. 0 \in 0..asked /\ 0 \in 0..(Attempts - 1)
        BY Mine
      <3> QED BY <2>1, <3>1, ZenonT(60) DEF Resting, ThreadType, NoId
    <2>3. Later(s, uid) /\ Newer(s)
      BY <2>2 DEF Later, Newer
    <2> QED BY <1>1, <2>1, <2>2, <2>3, QuietMove
  <1>3. CASE Check(t) \/ Take(t) \/ Known(t)
    <2>1. PICK s : /\ Become(t, s)
                   /\ \/ s = [thread[t] EXCEPT !.pc = "known", !.back = "call"]
                      \/ s = [thread[t] EXCEPT !.pc = "take"]
                      \/ s = [thread[t] EXCEPT !.pc = "call", !.use = uid]
                      \/ s = [thread[t] EXCEPT !.pc = "lock"]
                      \/ s = [thread[t] EXCEPT !.pc = "reread"]
      BY <1>3 DEF Check, Take, Known, Goto
    <2>2. s \in ThreadType /\ s.pc # "auth"
      <3>1. thread[t] \in ThreadType /\ uid \in 0..asked
        BY Mine
      <3> QED BY <2>1, <3>1, ZenonT(60) DEF ThreadType
    <2>3. /\ s.since = thread[t].since /\ s.round = thread[t].round
          /\ s.pc = "call" => s.use = uid
      <3>1. thread[t] \in ThreadType
        BY Mine
      <3>2. CASE s = [thread[t] EXCEPT !.pc = "known", !.back = "call"]
        BY <3>1, <3>2 DEF ThreadType
      <3>3. CASE s = [thread[t] EXCEPT !.pc = "call", !.use = uid]
        BY <3>1, <3>3 DEF ThreadType
      <3>4. ASSUME NEW pc \in {"take", "lock", "reread"}, s = [thread[t] EXCEPT !.pc = pc]
            PROVE  s.since = thread[t].since /\ s.round = thread[t].round /\ s.pc # "call"
        BY <3>1, <3>4 DEF ThreadType
      <3> QED BY <2>1, <3>2, <3>3, <3>4
    <2>4. Later(s, uid) /\ Newer(s)
      BY <2>3, Mine DEF Later, Newer
    <2> QED BY <1>1, <2>1, <2>2, <2>3, <2>4, QuietMove
  <1>4. CASE Reread(t)
    <2>1. PICK s \in ThreadType :
            /\ Become(t, s) /\ s.pc # "auth" /\ s.since \in {0, thread[t].since}
            /\ s.round = 2 => thread[t].round = 2 /\ s.since = thread[t].since
            /\ Newer(s)
      BY <1>4, Mine, Resumes DEF Reread
    <2>2. Later(s, uid)
      BY <2>1, Mine DEF Later
    <2> QED BY <1>1, <2>1, <2>2, QuietMove
  <1>5. CASE Answered(t) \/ CallFails(t) \/ Denied(t)
    <2>1. CASE Become(t, Resting)
      BY <1>1, <2>1, Rests, QuietMove
    <2>2. CASE TryAgain(t)
      <3> DEFINE s == [thread[t] EXCEPT !.pc = "check", !.tries = @ + 1]
      <3>1. thread[t].tries + 1 \in 0..(Attempts - 1)
        BY <2>2, Mine DEF TryAgain, Again, ThreadType
      <3>2. s \in ThreadType /\ s.pc = "check" /\ s.since = thread[t].since
            /\ s.round = thread[t].round
        <4>1. thread[t] \in ThreadType
          BY Mine
        <4> QED BY <3>1, <4>1, ZenonT(60) DEF ThreadType
      <3>3. Later(s, uid) /\ Newer(s)
        BY <3>2, Mine DEF Later, Newer
      <3>4. Become(t, s)
        BY <2>2 DEF TryAgain
      <3> HIDE DEF s
      <3> QED BY <1>1, <3>2, <3>3, <3>4, QuietMove
    <2>3. CASE StartOver(t) /\ thread[t].round = 1
      <3> DEFINE s == [thread[t] EXCEPT !.pc = "clear", !.tries = 0, !.auths = 0]
      <3>1. s \in ThreadType /\ s.pc = "clear" /\ s.since = thread[t].since
            /\ s.round = thread[t].round
        <4>1. thread[t] \in ThreadType /\ 0 \in 0..(Attempts - 1)
          BY Mine, AttemptsAssumption
        <4> QED BY <4>1, ZenonT(60) DEF ThreadType
      <3>2. Later(s, uid) /\ Newer(s)
        BY <3>1, Mine DEF Later, Newer
      <3>3. Become(t, s)
        BY <2>3 DEF StartOver
      <3> HIDE DEF s
      <3> QED BY <1>1, <3>1, <3>2, <3>3, QuietMove
    <2> QED BY <1>5, <2>1, <2>2, <2>3 DEF Answered, CallFails, Denied, StartOver, Return
  <1> QED BY <1>2, <1>3, <1>4, <1>5

\* Getting the lock, letting it go, and clearing the id.
LEMMA LockSteps ==
  ASSUME Inv, NEW t \in Threads, Lock(t) \/ Authenticated(t) \/ AuthFails(t) \/ Clear(t)
  PROVE  Inv'
  <1> USE NobodyAssumption
  <1>1. /\ \A u \in Threads : thread[u].since \in 0..asked /\ Later(thread[u], uid)
                              /\ (lock # Nobody => asked > thread[u].since)
        /\ \A u \in Threads : Later(thread[u], NoId)
        /\ revoked' = revoked
    BY Mine DEF ThreadType, Inv, Later, Lock, Authenticated, AuthFails, Clear, Same, Fault
  <1>2. CASE Lock(t) /\ uid # NoId
    <2>1. PICK s \in ThreadType :
            /\ Become(t, s) /\ s.pc # "auth" /\ s.since \in {0, thread[t].since}
            /\ s.round = 2 => thread[t].round = 2 /\ s.since = thread[t].since
            /\ Newer(s)
      BY <1>2, Mine, Resumes DEF Lock
    <2>2. Later(s, uid)
      BY <2>1, Mine DEF Later
    <2>3. UNCHANGED <<uid, lock, asked, revoked>> /\ thread[t].pc # "auth"
      BY <1>2 DEF Lock, At
    <2> QED BY <2>1, <2>2, <2>3, QuietMove
  <1>3. CASE Lock(t) /\ uid = NoId
    <2> DEFINE s == [thread[t] EXCEPT !.pc = "auth"]
    <2>1. lock = Nobody /\ lock' = t /\ asked' = asked + 1 /\ uid' = NoId /\ Become(t, s)
      BY <1>3 DEF Lock, Goto
    <2>2. s \in ThreadType /\ s.pc = "auth" /\ s.since = thread[t].since
      BY Mine DEF ThreadType
    <2>3. asked' \in Nat /\ asked <= asked' /\ uid' \in 0..asked'
          /\ \A u \in Threads : asked' > thread[u].since
      BY <1>1, <2>1, Mine DEF NoId
    <2>4. s \in ThreadTypes(asked')
      BY <2>2, <2>3, Mine, TypesGrow
    <2>5. Later(s, uid') /\ Newer(s) /\ \A u \in Threads : Later(thread[u], uid')
      BY <2>1, <2>2 DEF Later, Newer
    <2> HIDE DEF s
    <2> QED BY <1>1, <2>1, <2>2, <2>3, <2>4, <2>5, Move
  <1>4. CASE Authenticated(t)
    <2>1. lock = t /\ lock' = Nobody /\ uid' = asked /\ asked' = asked
      BY <1>4, Mine DEF Authenticated, At, Same
    <2>2. \A u \in Threads : Later(thread[u], asked) /\ Later(thread[u], uid')
      BY <1>1, <2>1 DEF Later
    <2>3. PICK s \in ThreadType :
            /\ Become(t, s) /\ s.pc # "auth"
            /\ s.round = 2 => thread[t].round = 2 /\ s.since = thread[t].since
            /\ Newer(s)
      BY <1>4, <2>2, Mine, Resumes DEF Authenticated
    <2>4. Later(s, uid')
      BY <2>2, <2>3 DEF Later
    <2>5. s \in ThreadTypes(asked') /\ asked' \in Nat /\ asked <= asked' /\ uid' \in 0..asked'
      BY <2>1, Mine, TypesGrow
    <2> QED BY <1>1, <2>1, <2>2, <2>3, <2>4, <2>5, Move
  <1>5. CASE AuthFails(t)
    <2>1. /\ lock = t /\ uid = NoId /\ UNCHANGED <<uid, asked>> /\ thread[t].pc = "auth"
          /\ asked' \in Nat /\ asked <= asked' /\ uid' \in 0..asked'
      BY <1>5, Mine DEF AuthFails, Fault, At, Inv, LockHeldByAuth
    <2>2. Later(thread[t], uid') /\ \A u \in Threads : Later(thread[u], uid')
      BY <1>1, <2>1 DEF Later
    <2>3. CASE Again(thread[t].auths) /\ Become(t, [thread[t] EXCEPT !.auths = @ + 1])
               /\ UNCHANGED lock
      <3> DEFINE s == [thread[t] EXCEPT !.auths = @ + 1]
      <3>1. thread[t].auths + 1 \in 0..(Attempts - 1)
        BY <2>3, Mine DEF Again, ThreadType
      <3>2. s \in ThreadType /\ s.pc = "auth" /\ s.since = thread[t].since
        BY <2>1, <3>1, Mine DEF ThreadType
      <3>3. Later(s, uid') /\ Newer(s) /\ s \in ThreadTypes(asked')
        BY <2>1, <3>2, TypesGrow DEF Later, Newer
      <3>4. Become(t, s)
        BY <2>3
      <3> HIDE DEF s
      <3> QED BY <1>1, <2>1, <2>2, <2>3, <3>2, <3>3, <3>4, Move
    <2>4. ASSUME lock' = Nobody, NEW s \in ThreadType, Become(t, s), s.pc \notin {"auth", "call"}
          PROVE  Inv'
      <3>1. Later(s, uid') /\ Newer(s) /\ s \in ThreadTypes(asked')
        BY <2>1, <2>4, TypesGrow DEF Later, Newer
      <3> QED BY <1>1, <2>1, <2>2, <2>4, <3>1, Move
    <2>5. CASE lock' = Nobody /\ Become(t, Resting)
      BY <2>4, <2>5, Rests
    <2>6. CASE lock' = Nobody /\ StartOver(t) /\ thread[t].round = 1
      <3> DEFINE s == [thread[t] EXCEPT !.pc = "clear", !.tries = 0, !.auths = 0]
      <3>1. s \in ThreadType /\ s.pc = "clear"
        <4>1. thread[t] \in ThreadType /\ 0 \in 0..(Attempts - 1)
          BY Mine, AttemptsAssumption
        <4> QED BY <4>1, ZenonT(60) DEF ThreadType
      <3>2. Become(t, s)
        BY <2>6 DEF StartOver
      <3> HIDE DEF s
      <3> QED BY <2>4, <2>6, <3>1, <3>2
    <2> QED BY <1>5, <2>3, <2>5, <2>6 DEF AuthFails, StartOver, Return
  <1>6. CASE Clear(t)
    <2> DEFINE s == [thread[t] EXCEPT !.pc = "known", !.back = "check", !.round = 2,
                                      !.since = asked]
    <2>1. lock = Nobody /\ lock' = Nobody /\ uid' = NoId /\ asked' = asked /\ Become(t, s)
      BY <1>6 DEF Clear, Same
    <2>2. s \in ThreadType /\ s.pc = "known"
      <3>1. thread[t] \in ThreadType /\ asked \in 0..asked
        BY Mine
      <3> QED BY <3>1 DEF ThreadType
    <2>3. Later(s, uid') /\ Newer(s) /\ s \in ThreadTypes(asked')
          /\ \A u \in Threads : Later(thread[u], uid')
      BY <2>1, <2>2, TypesGrow DEF Later, Newer
    <2>4. asked' \in Nat /\ asked <= asked' /\ uid' \in 0..asked'
      BY <2>1, Mine DEF NoId
    <2> HIDE DEF s
    <2> QED BY <1>1, <2>1, <2>2, <2>3, <2>4, Move
  <1> QED BY <1>2, <1>3, <1>4, <1>5, <1>6

LEMMA InvInit == Init => Inv
  <1> SUFFICES ASSUME Init PROVE Inv
    OBVIOUS
  <1>1. asked \in {0, 1} /\ uid = asked /\ revoked = 0 /\ lock = Nobody
    BY DEF Init, NoId
  <1>2. Resting \in ThreadType /\ Resting.round = 1 /\ Resting.pc = "idle"
    BY <1>1, AttemptsAssumption DEF Resting, ThreadType, NoId
  <1>3. \A t \in Threads : thread[t] = Resting
    BY DEF Init
  <1>4. TypeOK
    BY <1>1, <1>2 DEF Init, TypeOK
  <1>5. LockHeldByAuth
    BY <1>1, <1>2, <1>3, NobodyAssumption DEF LockHeldByAuth
  <1> QED BY <1>1, <1>2, <1>3, <1>4, <1>5 DEF Inv, Later, Newer

LEMMA InvNext == Inv /\ [Next]_vars => Inv'
  <1> SUFFICES ASSUME Inv, [Next]_vars PROVE Inv'
    OBVIOUS
  <1>1. CASE UNCHANGED vars
    BY <1>1 DEF vars, Inv, TypeOK, ThreadType, LockHeldByAuth, Later, Newer
  <1>2. ASSUME NEW t \in Threads, Execute(t) \/ Health(t) \/ Step(t)
        PROVE  Inv'
    BY <1>2, QuietSteps, LockSteps DEF Step
  <1>3. CASE Expire
    BY <1>3 DEF Expire, Inv, TypeOK, ThreadType, LockHeldByAuth, Later, Newer
  <1> QED BY <1>1, <1>2, <1>3 DEF Next

LEMMA InvAlways == Spec => []Inv
  BY InvInit, InvNext, PTL DEF Spec

\* Types, the limits of attempts among them, and ids only from authentications.
THEOREM ConnectorTypes == Spec => []TypeOK
  <1>1. Inv => TypeOK
    BY DEF Inv
  <1> QED BY <1>1, InvAlways, PTL

\* The lock is held exactly while its holder authenticates, with no id cached
\* (connector.py:175-191).
THEOREM LockDiscipline == Spec => []LockHeldByAuth
  <1>1. Inv => LockHeldByAuth
    BY DEF Inv
  <1> QED BY <1>1, InvAlways, PTL

\* A second round never uses the id that was denied, nor one that was asked for
\* before it was cleared (connector.py:152-154, 241-242).
THEOREM SecondRound == Spec => []FreshRound
  <1>1. Inv => FreshRound
    BY DEF Inv, Later, Newer, FreshRound
  <1> QED BY <1>1, InvAlways, PTL
=============================================================================
