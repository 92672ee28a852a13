---------------------------- MODULE OdooConnector ----------------------------
(***************************************************************************)
(* The XML-RPC connector that the threads of a process share: a cached     *)
(* user id behind a lock, two rounds of attempts at a call, and a new       *)
(* authentication between them when Odoo denies access.                    *)
(*                                                                         *)
(* Odoo is external: it answers, times out, faults, or denies access.      *)
(***************************************************************************)
EXTENDS Integers, FiniteSets

CONSTANTS
    Threads,   \* callers of the singleton connector
    Nobody,    \* no thread
    Attempts,  \* stop_after_attempt (3 in the code)
    MaxFaults, \* bound: answers of Odoo that are failures
    MaxExpiry, \* bound: times Odoo forgets the user id
    MaxCalls   \* bound: calls that are started

ASSUME NobodyAssumption == Nobody \notin Threads
ASSUME AttemptsAssumption == Attempts \in Nat \ {0}

VARIABLES
    uid,     \* the cached user id
    lock,    \* who holds _auth_lock
    thread,  \* where each thread is, and its local variables
    asked,   \* authentications that were begun
    revoked, \* the ids Odoo no longer accepts: those up to this one
    calls, faults, expiries

vars == <<uid, lock, thread, asked, revoked, calls, faults, expiries>>

\* An id bears the number of the authentication that asked for it.
NoId == 0
Valid(id) == id > revoked

\* use: the id taken for the call; round: before or after a denied access;
\* tries: failed attempts of the round; auths: those of the authentication; back:
\* where authenticate() returns to.  since is history: the number of
\* authentications when the id was cleared.
Resting == [pc |-> "idle", use |-> NoId, round |-> 1, tries |-> 0, auths |-> 0,
            back |-> "idle", since |-> 0]

Init ==
    /\ uid \in {NoId, 1}
    /\ lock = Nobody
    /\ thread = [t \in Threads |-> Resting]
    /\ asked = uid /\ revoked = 0
    /\ calls = 0 /\ faults = 0 /\ expiries = 0

At(t, from) == thread[t].pc = from
Become(t, s) == thread' = [thread EXCEPT ![t] = s]
Goto(t, to) == Become(t, [thread[t] EXCEPT !.pc = to])
Same == UNCHANGED <<asked, revoked, calls, faults, expiries>>

\* The call is over: it returns an answer or raises.
Return(t) == Become(t, Resting)

-----------------------------------------------------------------------------
Execute(t) ==
    /\ At(t, "idle")
    /\ calls < MaxCalls
    /\ calls' = calls + 1
    /\ Become(t, [Resting EXCEPT !.pc = "check"])
    /\ UNCHANGED <<uid, lock, asked, revoked, faults, expiries>>

\* The health check only authenticates.
Health(t) ==
    /\ At(t, "idle")
    /\ calls < MaxCalls
    /\ calls' = calls + 1
    /\ Become(t, [Resting EXCEPT !.pc = "known", !.back = "idle"])
    /\ UNCHANGED <<uid, lock, asked, revoked, faults, expiries>>

\* _get_uid looks at the cached id, and reads it once more to return it.
Check(t) ==
    /\ At(t, "check")
    /\ IF uid = NoId
       THEN Become(t, [thread[t] EXCEPT !.pc = "known", !.back = "call"])
       ELSE Goto(t, "take")
    /\ UNCHANGED <<uid, lock>> /\ Same

Take(t) ==
    /\ At(t, "take")
    /\ Become(t, [thread[t] EXCEPT !.pc = "call", !.use = uid])
    /\ UNCHANGED <<uid, lock>> /\ Same

\* authenticate: where its caller goes on with the id it returns.
Resume(t, id) ==
    IF thread[t].back = "idle" THEN Return(t)
    ELSE Become(t, [thread[t] EXCEPT !.pc = thread[t].back, !.use = id, !.auths = 0])

\* Without the lock first: again a look, and then a second read.
Known(t) ==
    /\ At(t, "known")
    /\ Goto(t, IF uid = NoId THEN "lock" ELSE "reread")
    /\ UNCHANGED <<uid, lock>> /\ Same

Reread(t) ==
    /\ At(t, "reread")
    /\ Resume(t, uid)
    /\ UNCHANGED <<uid, lock>> /\ Same

\* Under the lock another thread may have been faster.  Mutant: no second look.
LockBlindly(t) ==
    /\ At(t, "lock") /\ lock = Nobody
    /\ Goto(t, "auth") /\ lock' = t /\ asked' = asked + 1
    /\ UNCHANGED <<uid, revoked, calls, faults, expiries>>
Lock(t) ==
    /\ At(t, "lock")
    /\ lock = Nobody
    /\ IF uid # NoId
       THEN Resume(t, uid) /\ UNCHANGED <<lock, asked>>
       ELSE Goto(t, "auth") /\ lock' = t /\ asked' = asked + 1
    /\ UNCHANGED <<uid, revoked, calls, faults, expiries>>

Authenticated(t) ==
    /\ At(t, "auth")
    /\ uid' = asked
    /\ lock' = Nobody
    /\ Resume(t, asked)
    /\ Same

\* stop_after_attempt.  Mutant: one attempt too many.
AgainOnceMore(n) == n < Attempts
Again(n) == n + 1 < Attempts

Fault == faults < MaxFaults /\ faults' = faults + 1
         /\ UNCHANGED <<asked, revoked, calls, expiries>>

\* The round ends with access denied: the first is followed by another one.
StartOver(t) ==
    IF thread[t].round = 1
    THEN Become(t, [thread[t] EXCEPT !.pc = "clear", !.tries = 0, !.auths = 0])
    ELSE Return(t)

\* A failure that may pass is tried again, without releasing the lock.  After the
\* last attempt, or when it cannot pass or Odoo rejects the credentials, the call
\* fails, but starts over if an access denied is the cause and the id was asked
\* for by _get_uid.  Mutant: the lock is not released when it fails.
AuthFailsLocked(t) ==
    /\ At(t, "auth")
    /\ Fault
    /\ \/ Again(thread[t].auths) /\ Become(t, [thread[t] EXCEPT !.auths = @ + 1])
       \/ Return(t)
    /\ UNCHANGED <<uid, lock>>
AuthFails(t) ==
    /\ At(t, "auth")
    /\ Fault
    /\ \/ /\ Again(thread[t].auths)
          /\ Become(t, [thread[t] EXCEPT !.auths = @ + 1])
          /\ UNCHANGED lock
       \/ lock' = Nobody /\ Return(t)
       \/ lock' = Nobody /\ thread[t].back = "call" /\ StartOver(t)
    /\ UNCHANGED uid

\* execute_kw.  Odoo accepts the ids it has not revoked.
Answered(t) ==
    /\ At(t, "call")
    /\ Valid(thread[t].use)
    /\ Return(t)
    /\ UNCHANGED <<uid, lock>> /\ Same

\* A timeout, a broken connection or a fault of code 1: once more from _get_uid.
TryAgain(t) ==
    /\ Again(thread[t].tries)
    /\ Become(t, [thread[t] EXCEPT !.pc = "check", !.tries = @ + 1])

\* After the last attempt, and at once on any other failure, the call fails.
CallFails(t) ==
    /\ At(t, "call")
    /\ Fault
    /\ TryAgain(t) \/ Return(t)
    /\ UNCHANGED <<uid, lock>>

\* Access denied, to an id that is not valid or to the user.  If the fault has
\* code 1 it is a failure that may pass.
Denied(t) ==
    /\ At(t, "call")
    /\ IF Valid(thread[t].use) THEN Fault ELSE Same
    /\ TryAgain(t) \/ StartOver(t)
    /\ UNCHANGED <<uid, lock>>

\* _clear_uid, then authenticate() and a second round of attempts.  Mutant: the id
\* is cleared without taking the lock.
ClearUnlocked(t) ==
    /\ At(t, "clear")
    /\ uid' = NoId
    /\ Become(t, [thread[t] EXCEPT !.pc = "known", !.back = "check", !.round = 2,
                                   !.since = asked])
    /\ UNCHANGED lock /\ Same
Clear(t) ==
    /\ At(t, "clear")
    /\ lock = Nobody
    /\ uid' = NoId
    /\ Become(t, [thread[t] EXCEPT !.pc = "known", !.back = "check", !.round = 2,
                                   !.since = asked])
    /\ UNCHANGED lock /\ Same

\* External: Odoo no longer accepts the ids it was asked for.
Expire ==
    /\ expiries < MaxExpiry
    /\ expiries' = expiries + 1
    /\ revoked' = asked
    /\ UNCHANGED <<uid, lock, thread, asked, calls, faults>>

-----------------------------------------------------------------------------
Step(t) ==
    \/ Check(t) \/ Take(t) \/ Known(t) \/ Reread(t) \/ Lock(t)
    \/ Authenticated(t) \/ AuthFails(t)
    \/ Answered(t) \/ CallFails(t) \/ Denied(t) \/ Clear(t)

Next ==
    \/ \E t \in Threads : Execute(t) \/ Health(t) \/ Step(t)
    \/ Expire

Spec == Init /\ [][Next]_vars

\* Threads keep running, Odoo answers or the socket times out after 10 seconds,
\* and a thread that waits for the lock gets it some time.
FairSpec == Spec /\ \A t \in Threads : WF_vars(Step(t)) /\ SF_vars(Lock(t) \/ Clear(t))

-----------------------------------------------------------------------------
ThreadType ==
    [pc : {"idle", "check", "take", "known", "reread", "lock", "auth", "call", "clear"},
     use : 0..asked, round : {1, 2}, tries : 0..Attempts - 1, auths : 0..Attempts - 1,
     back : {"idle", "call", "check"}, since : 0..asked]
\* Attempts stay below their limit, and ids are among those that were asked for.
TypeOK ==
    /\ asked \in Nat /\ uid \in 0..asked /\ revoked \in 0..asked
    /\ lock \in Threads \cup {Nobody}
    /\ thread \in [Threads -> ThreadType]

\* One authentication at a time, and nobody forgets the id while it runs: the
\* lock is held exactly by the thread that is authenticating, through its
\* retries and whatever way it ends (connector.py:156-190).
LockHeldByAuth ==
    \A t \in Threads : (thread[t].pc = "auth" <=> lock = t) /\ (lock = t => uid = NoId)

\* The round after a denied access uses no id that was there or on its way when
\* the cached one was cleared, whatever other threads authenticate or clear
\* meanwhile: it has one asked for since then, or none at all, which _get_uid
\* returns if another thread clears it between two reads (connector.py:147-154,
\* 175-178, 241-242).
FreshRound ==
    \A t \in Threads :
      thread[t].round = 2 /\ thread[t].pc = "call" =>
        thread[t].use = NoId \/ thread[t].use > thread[t].since

\* Every call comes back, with an answer or an error: nobody waits for ever for
\* a lock that is held over a call and all its retries (connector.py:173-190).
CallsReturn == \A t \in Threads : thread[t].pc # "idle" ~> thread[t].pc = "idle"
=============================================================================
