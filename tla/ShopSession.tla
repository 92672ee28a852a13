----------------------------- MODULE ShopSession -----------------------------
(***************************************************************************)
(* The session of one visitor of the shop: cart, conversation and login,   *)
(* kept as one dictionary in one row of Django's session table.            *)
(*                                                                         *)
(* A request reads the row when its view first looks at request.session,   *)
(* works on its own copy, and the middleware writes the whole copy back    *)
(* with the response, if a view changed it.  The gunicorn processes serve  *)
(* requests of one browser at the same time.  Django, Groq and Stripe are  *)
(* external.  The table, the cookie and the middleware are modelled from   *)
(* Django 5.1: a save of a row that is gone fails, keys are not reused.    *)
(***************************************************************************)
EXTENDS Integers, Sequences, FiniteSets, Functions

CONSTANTS
    Requests, \* places for requests in flight
    Keys,     \* session keys
    NoKey,    \* no session key
    NoRow,    \* no row under a key
    Items,    \* products
    NoItem,
    NoChat,   \* chat_history is not in the session
    Price,    \* price of each item, in hundredths of a cent
    MaxSent   \* bound: requests the browser sends

ASSUME NoKeyAssumption == NoKey \notin Keys
ASSUME MaxSentAssumption == MaxSent \in Nat
ASSUME ItemsAssumption == IsFiniteSet(Items)
ASSUME PriceAssumption == Price \in [Items -> Nat]

VARIABLES
    row,      \* the session table
    issued,   \* keys that were ever used
    cookie,   \* the key the browser holds
    req,      \* requests in flight
    sent,     \* how many requests were sent
    over      \* logins that a logout has ended

vars == <<row, issued, cookie, req, sent, over>>

CartPages == {"add", "remove", "delete"}
OtherPages == {"look", "checkout", "success", "chat", "send", "clear",
               "login", "register", "logout"}
Orders == (CartPages \X Items) \cup (OtherPages \X {NoItem})

EmptyCart == [i \in Items |-> 0]
Empty == [user |-> 0, cart |-> EmptyCart, chat |-> NoChat]

\* key: the session the copy belongs to; had: the cookie of the request; save:
\* session.modified; alone: no other request was in flight since it was sent.
Idle == [pc |-> "idle", what |-> "look", item |-> NoItem, num |-> 0, had |-> NoKey,
         key |-> NoKey, copy |-> Empty, save |-> FALSE, alone |-> TRUE]

Init ==
    /\ row = [k \in Keys |-> NoRow]
    /\ issued = {} /\ cookie = NoKey
    /\ req = [r \in Requests |-> Idle]
    /\ sent = 0 /\ over = {}

At(r, w) == req[r].pc = "sent" /\ req[r].what = w
Stored(k) == k # NoKey /\ row[k] # NoRow
InFlight == {r \in Requests : req[r].pc # "idle"}
Kept == UNCHANGED <<row, issued, cookie, sent, over>>

-----------------------------------------------------------------------------
(* The browser. *)

Send(r, w, i) ==
    /\ req[r].pc = "idle" /\ sent < MaxSent
    /\ sent' = sent + 1
    /\ req' = [q \in Requests |->
                 IF q = r THEN [Idle EXCEPT !.pc = "sent", !.what = w, !.item = i,
                                            !.num = sent', !.had = cookie, !.key = cookie,
                                            !.alone = InFlight = {}]
                 ELSE [req[q] EXCEPT !.alone = @ /\ q \notin InFlight]]
    /\ UNCHANGED <<row, issued, cookie, over>>

(* request.session: the row of the cookie, or a new session without a key. *)
Opened(r) ==
    IF Stored(req[r].key) THEN [req[r] EXCEPT !.copy = row[req[r].key]]
    ELSE [req[r] EXCEPT !.key = NoKey]

Answer(r, s, save) == req' = [req EXCEPT ![r] = [s EXCEPT !.pc = "reply", !.save = save]]

-----------------------------------------------------------------------------
(* Pages that leave the session alone. *)

\* These may end before they look at it: an unknown product, a request Stripe
\* does not understand, a bad form or message, the rate limit of the chat.
Refuse(r) ==
    /\ \E w \in {"add", "success", "send", "clear", "login", "register"} : At(r, w)
    /\ Answer(r, req[r], FALSE)
    /\ Kept

Look(r) == At(r, "look") /\ Answer(r, Opened(r), FALSE) /\ Kept

(* The cart. *)
SetCart(s, i, n) == [s EXCEPT !.copy.cart[i] = n]

AddToCart(r) ==
    /\ At(r, "add")
    /\ LET s == Opened(r) IN Answer(r, SetCart(s, s.item, s.copy.cart[s.item] + 1), TRUE)
    /\ Kept

\* Mutant: takes one away without looking.
RemoveUnchecked(r) ==
    /\ At(r, "remove")
    /\ LET s == Opened(r) IN Answer(r, SetCart(s, s.item, s.copy.cart[s.item] - 1), TRUE)
    /\ Kept
RemoveFromCart(r) ==
    /\ At(r, "remove")
    /\ LET s == Opened(r)
           n == s.copy.cart[s.item]
       IN  Answer(r, SetCart(s, s.item, IF n > 1 THEN n - 1 ELSE 0), TRUE)
    /\ Kept

DeleteFromCart(r) ==
    /\ At(r, "delete")
    /\ LET s == Opened(r) IN Answer(r, SetCart(s, s.item, 0), TRUE)
    /\ Kept

PaymentSuccess(r) ==
    /\ At(r, "success")
    /\ Answer(r, [Opened(r) EXCEPT !.copy.cart = EmptyCart], TRUE)
    /\ Kept

(* Checkout: what the page shows, and what Stripe is asked to charge, in     *)
(* whole cents.  It changes nothing, whatever Stripe answers.              *)
Shown(cart) == SumFunction([i \in Items |-> cart[i] * Price[i]])
\* Mutant: rounded to the nearest cent.
CentsRounded(price) == (price + 50) \div 100
Cents(price) == price \div 100
Charged(cart) == SumFunction([i \in Items |-> cart[i] * Cents(Price[i])])

Checkout(r) == At(r, "checkout") /\ Answer(r, Opened(r), FALSE) /\ Kept

(* The chat. *)
Said(s) == IF s.copy.chat = NoChat THEN <<>> ELSE s.copy.chat
Message(w, n) == [who |-> w, num |-> n]

ChatPage(r) ==
    /\ At(r, "chat")
    /\ LET s == Opened(r)
       IN  Answer(r, [s EXCEPT !.copy.chat = Said(s)], s.copy.chat = NoChat)
    /\ Kept

\* The question joins the history in the copy, and Groq is asked.
ChatSend(r) ==
    /\ At(r, "send")
    /\ LET s == Opened(r)
       IN  req' = [req EXCEPT ![r] = [s EXCEPT !.pc = "asking",
                     !.copy.chat = Append(Said(s), Message("user", s.num))]]
    /\ Kept

GroqAnswers(r) ==
    /\ req[r].pc = "asking"
    /\ LET s == req[r]
       IN  Answer(r, [s EXCEPT !.copy.chat = Append(@, Message("assistant", s.num))], TRUE)
    /\ Kept

\* The question is taken back; nothing is saved.  Mutant: it is saved without.
GroqFailsSaved(r) == req[r].pc = "asking" /\ Answer(r, req[r], TRUE) /\ Kept
GroqFails(r) ==
    /\ req[r].pc = "asking"
    /\ LET s == req[r]
       IN  Answer(r, [s EXCEPT !.copy.chat = SubSeq(@, 1, Len(@) - 1)], FALSE)
    /\ Kept

ChatClear(r) ==
    /\ At(r, "clear")
    /\ Answer(r, [Opened(r) EXCEPT !.copy.chat = <<>>], TRUE)
    /\ Kept

-----------------------------------------------------------------------------
(* Login, registration and logout. *)

\* login() and register() look at the session first ...
OpenForLogin(r) ==
    /\ At(r, "login") \/ At(r, "register")
    /\ req' = [req EXCEPT ![r] = [Opened(r) EXCEPT !.pc = "login"]]
    /\ Kept

SignedIn(s) == [s EXCEPT !.copy.user = s.num]

\* ... an anonymous one moves to a new key, with all that is in it.  Mutant: it
\* is flushed.
CycleKeyFlush(r) ==
    /\ req[r].pc = "login" /\ req[r].copy.user = 0
    /\ \E k \in Keys \ issued :
          /\ Answer(r, SignedIn([req[r] EXCEPT !.key = k, !.copy = Empty]), TRUE)
          /\ issued' = issued \cup {k}
          /\ row' = [q \in Keys |-> IF q = k THEN Empty
                                    ELSE IF q = req[r].key THEN NoRow ELSE row[q]]
    /\ UNCHANGED <<cookie, sent, over>>
CycleKey(r) ==
    /\ req[r].pc = "login" /\ req[r].copy.user = 0
    /\ \E k \in Keys \ issued :
          /\ Answer(r, SignedIn([req[r] EXCEPT !.key = k]), TRUE)
          /\ issued' = issued \cup {k}
          /\ row' = [q \in Keys |-> IF q = k THEN req[r].copy
                                    ELSE IF q = req[r].key THEN NoRow ELSE row[q]]
    /\ UNCHANGED <<cookie, sent, over>>

\* The same account signs in again: nothing changes, but it is saved.
SignInAgain(r) ==
    /\ req[r].pc = "login" /\ req[r].what = "login" /\ req[r].copy.user # 0
    /\ Answer(r, req[r], TRUE)
    /\ Kept

\* session.flush(): the row goes, the copy is empty and has no key.  Who signs in
\* by another account, or registers one, begins like this.
Flush(r, s) ==
    /\ row' = [k \in Keys |-> IF k = s.key THEN NoRow ELSE row[k]]
    /\ over' = over \cup ({s.copy.user} \ {0})
    /\ UNCHANGED <<issued, cookie, sent>>

\* Mutant: what the session had stays in the copy.
FlushedKeepsCopy(s) == [s EXCEPT !.key = NoKey]
Flushed(s) == [s EXCEPT !.key = NoKey, !.copy = Empty]

ChangeUser(r) ==
    /\ req[r].pc = "login" /\ req[r].copy.user # 0
    /\ Flush(r, req[r])
    /\ Answer(r, SignedIn(Flushed(req[r])), TRUE)

\* Mutant: logout only takes the login out of the session.
LogoutKeepsRow(r) ==
    /\ At(r, "logout")
    /\ over' = over \cup ({Opened(r).copy.user} \ {0})
    /\ Answer(r, [Opened(r) EXCEPT !.copy.user = 0], TRUE)
    /\ UNCHANGED <<row, issued, cookie, sent>>
Logout(r) ==
    /\ At(r, "logout")
    /\ Flush(r, Opened(r))
    /\ Answer(r, Flushed(Opened(r)), FALSE)

-----------------------------------------------------------------------------
(* SessionMiddleware, with the response. *)

Done(r) == req' = [req EXCEPT ![r] = Idle]

\* A changed session is saved under its key ...
Save(r) ==
    /\ req[r].pc = "reply" /\ req[r].save
    /\ Stored(req[r].key)
    /\ row' = [row EXCEPT ![req[r].key] = req[r].copy]
    /\ cookie' = req[r].key
    /\ Done(r)
    /\ UNCHANGED <<issued, sent, over>>

\* ... which fails when the row is gone (SessionInterrupted) ...
Interrupted(r) ==
    /\ req[r].pc = "reply" /\ req[r].save
    /\ req[r].key # NoKey /\ ~Stored(req[r].key)
    /\ Done(r) /\ Kept

\* ... or as a new session, if it has no key.
Insert(r) ==
    /\ req[r].pc = "reply" /\ req[r].save
    /\ req[r].key = NoKey
    /\ \E k \in Keys \ issued :
          /\ row' = [row EXCEPT ![k] = req[r].copy]
          /\ issued' = issued \cup {k}
          /\ cookie' = k
    /\ Done(r)
    /\ UNCHANGED <<sent, over>>

\* Nothing to save; the cookie of a session that is not there is taken back.
Reply(r) ==
    /\ req[r].pc = "reply" /\ ~req[r].save
    /\ cookie' = IF req[r].had # req[r].key THEN NoKey ELSE cookie
    /\ Done(r)
    /\ UNCHANGED <<row, issued, sent, over>>

\* The process is killed (gunicorn's timeout, a restart).
Die(r) == req[r].pc # "idle" /\ Done(r) /\ Kept

View(r) ==
    \/ Refuse(r) \/ Look(r)
    \/ AddToCart(r) \/ RemoveFromCart(r) \/ DeleteFromCart(r) \/ PaymentSuccess(r)
    \/ Checkout(r)
    \/ ChatPage(r) \/ ChatSend(r) \/ GroqAnswers(r) \/ GroqFails(r) \/ ChatClear(r)
    \/ OpenForLogin(r) \/ CycleKey(r) \/ SignInAgain(r) \/ ChangeUser(r)
    \/ Logout(r)

Respond(r) == Save(r) \/ Interrupted(r) \/ Insert(r) \/ Reply(r)

Finished == sent = MaxSent /\ InFlight = {} /\ UNCHANGED vars

Next ==
    \/ \E r \in Requests :
          \/ \E o \in Orders : Send(r, o[1], o[2])
          \/ View(r) \/ Respond(r) \/ Die(r)
    \/ Finished

Spec == Init /\ [][Next]_vars

-----------------------------------------------------------------------------
(* Properties. *)

Messages == [who : {"user", "assistant"}, num : 0..MaxSent]
ASSUME NoChatAssumption == NoChat \notin Seq(Messages)

Sessions == [user : 0..MaxSent, cart : [Items -> Nat], chat : {NoChat} \cup Seq(Messages)]
ASSUME NoRowAssumption == NoRow \notin Sessions

Asked == [pc : {"idle", "sent", "asking", "login", "reply"},
          what : CartPages \cup OtherPages, item : Items \cup {NoItem}, num : 0..MaxSent,
          had : Keys \cup {NoKey}, key : Keys \cup {NoKey}, copy : Sessions,
          save : BOOLEAN, alone : BOOLEAN]

\* Types, and rows only under keys that were issued.
TypeOK ==
    /\ row \in [Keys -> Sessions \cup {NoRow}]
    /\ issued \subseteq Keys /\ cookie \in issued \cup {NoKey}
    /\ over \subseteq 1..MaxSent /\ sent \in 0..MaxSent
    /\ req \in [Requests -> Asked]
    /\ \A k \in Keys : row[k] # NoRow => k \in issued
    /\ \A r \in Requests : req[r].key \in issued \cup {NoKey}

\* Once a logout was carried out, no row is signed in by the login it ended:
\* requests that began before it cannot bring the login back (views.py:87).
LogoutIsFinal == \A k \in Keys : Stored(k) => row[k].user \notin over

\* Why: a login is at home under one key, and whoever still has a copy of it has
\* that key ...
Login(r) == req[r].copy.user

OneHome ==
    /\ \A k, q \in Keys :
          Stored(k) /\ Stored(q) /\ row[k].user = row[q].user => row[k].user = 0 \/ k = q
    /\ \A k \in Keys, r \in Requests :
          Stored(k) /\ row[k].user = Login(r) => Login(r) = 0 \/ req[r].key = k
    /\ \A r, q \in Requests :
          r # q /\ Login(r) = Login(q) =>
             Login(r) = 0 \/ (req[r].key = req[q].key /\ req[r].key # NoKey)

\* ... which has no row after the logout, and never has one again ...
Outlived ==
    \A r \in Requests :
       Login(r) \in over => req[r].key # NoKey /\ ~Stored(req[r].key)

\* ... while a login still to come is known to nobody.
Unknown ==
    \A r \in Requests : req[r].pc \in {"sent", "login"} =>
       /\ req[r].num \notin over
       /\ \A k \in Keys : Stored(k) => row[k].user # req[r].num
       /\ \A q \in Requests : Login(q) # req[r].num

Numbered ==
    /\ over \subseteq 1..sent
    /\ \A k \in Keys : Stored(k) => row[k].user <= sent
    /\ \A r \in Requests : Login(r) <= sent /\ (r \in InFlight => req[r].num \in 1..sent)
    /\ \A r, q \in InFlight : r # q => req[r].num # req[q].num

Copied ==
    \A r \in Requests :
       /\ req[r].pc \in {"idle", "sent"} => req[r].copy = Empty
       /\ req[r].pc = "login" /\ Login(r) # 0 => req[r].key # NoKey
       /\ req[r].pc = "asking" => req[r].copy.chat \in Seq(Messages)

\* The inductive invariant.
Inv == TypeOK /\ LogoutIsFinal /\ OneHome /\ Outlived /\ Unknown /\ Numbered /\ Copied

\* Questions with their answers, none twice and none alone.
Whole(h) ==
    /\ \A n \in 1..Len(h) :
          IF n % 2 = 1 THEN h[n].who = "user" /\ n < Len(h) /\ h[n + 1].num = h[n].num
          ELSE h[n].who = "assistant"
    /\ \A n, m \in 1..Len(h) : h[n] = h[m] => n = m

\* A stored conversation is whole, whatever failed or overlapped (views.py:303-344).
Conversation == \A k \in Keys : Stored(k) /\ row[k].chat # NoChat => Whole(row[k].chat)

\* Why: each copy that may be saved is, the one of a request that asks Groq is but
\* for its own question at the end ...
Lacks(h, n) == \A m \in 1..Len(h) : h[m].num # n
Sound(c) == c = NoChat \/ (c \in Seq(Messages) /\ Whole(c))
Before(c) == SubSeq(c, 1, Len(c) - 1)
Pending(c, n) ==
    /\ c \in Seq(Messages) /\ Len(c) > 0 /\ c[Len(c)] = Message("user", n)
    /\ Whole(Before(c)) /\ Lacks(Before(c), n)
Talks ==
    /\ \A k \in Keys : Stored(k) => Sound(row[k].chat)
    /\ \A r \in Requests : IF req[r].pc = "asking" THEN Pending(req[r].copy.chat, req[r].num)
                           ELSE Sound(req[r].copy.chat)

\* ... and a question that is still to be asked is in nobody's conversation.
Unheard(n) ==
    /\ \A k \in Keys : Stored(k) => row[k].chat = NoChat \/ Lacks(row[k].chat, n)
    /\ \A r \in Requests : req[r].copy.chat = NoChat \/ Lacks(req[r].copy.chat, n)
AskedOnce ==
    \A n \in 1..MaxSent :
       n > sent \/ (\E r \in Requests : req[r].pc = "sent" /\ req[r].num = n) => Unheard(n)
ChatInv == Talks /\ AskedOnce

\* What Stripe is asked for a stored cart is never more than what the page
\* shows, and less by under a cent a piece (views.py:383-385).
NeverOvercharged ==
    \A k \in Keys : Stored(k) =>
        LET cart == row[k].cart
            rest == Shown(cart) - 100 * Charged(cart)
        IN  0 <= rest /\ rest <= 99 * SumFunction(cart)

\* What the visitor has: the row of the cookie, or that of a login on its way.
Seen ==
    LET moved == {r \in Requests : /\ req[r].pc = "reply" /\ req[r].what \in {"login", "register"}
                                   /\ req[r].had = cookie /\ Stored(req[r].key)}
    IN  IF moved # {} THEN row[req[CHOOSE r \in moved : TRUE].key]
        ELSE IF Stored(cookie) THEN row[cookie] ELSE Empty

Customer == INSTANCE CustomerSession WITH
    user <- Seen.user, cart <- Seen.cart, chat <- Seen.chat

\* A request that overlaps no other one takes effect once and as a whole, or not
\* at all, as CustomerSession says; only one killed in a login loses the session.
AloneIsAtomic ==
    [][\A r \in Requests :
          LET s == req[r] IN
          s.pc # "idle" /\ s.alone /\ req'[r] # s =>
             \/ Customer!Effect(s.what, s.item, s.num)
             \/ UNCHANGED Customer!vars
             \/ s.pc = "reply" /\ Die(r) /\ Customer!Leave]_vars
=============================================================================
