--------------------------- MODULE CustomerSession ---------------------------
(***************************************************************************)
(* What a visitor of the shop expects of the session: a request takes      *)
(* effect at once and as a whole, and nothing is lost unless the session   *)
(* is left, with everything in it.                                         *)
(***************************************************************************)
EXTENDS Integers, Sequences

CONSTANTS
    Items,   \* products that can be put into the cart
    NoChat   \* a conversation that was never opened

VARIABLES
    user,    \* the login that signed the visitor in, 0 if none did
    cart,    \* how many of each item
    chat     \* the conversation, a sequence of messages

vars == <<user, cart, chat>>

EmptyCart == [i \in Items |-> 0]
Said == IF chat = NoChat THEN <<>> ELSE chat
Exchange(n) == <<[who |-> "user", num |-> n], [who |-> "assistant", num |-> n]>>

Init == user = 0 /\ cart = EmptyCart /\ chat = NoChat

Add(i)     == cart' = [cart EXCEPT ![i] = @ + 1] /\ UNCHANGED <<user, chat>>
Remove(i)  == cart[i] > 0 /\ cart' = [cart EXCEPT ![i] = @ - 1] /\ UNCHANGED <<user, chat>>
Discard(i) == cart' = [cart EXCEPT ![i] = 0] /\ UNCHANGED <<user, chat>>
Pay        == cart' = EmptyCart /\ UNCHANGED <<user, chat>>
Talk(n)    == chat' = Said \o Exchange(n) /\ UNCHANGED <<user, cart>>
OpenChat   == chat' = Said /\ UNCHANGED <<user, cart>>
ClearChat  == chat' = <<>> /\ UNCHANGED <<user, cart>>
SignIn(n)  == user = 0 /\ user' = n /\ UNCHANGED <<cart, chat>>
Leave      == user' = 0 /\ cart' = EmptyCart /\ chat' = NoChat

\* What request number n for page w, with item i, may do.  Who signs in by
\* another account leaves the old session first.
Effect(w, i, n) ==
    \/ w = "add" /\ Add(i)
    \/ w = "remove" /\ Remove(i)
    \/ w = "delete" /\ Discard(i)
    \/ w = "success" /\ Pay
    \/ w = "send" /\ Talk(n)
    \/ w = "chat" /\ OpenChat
    \/ w = "clear" /\ ClearChat
    \/ w \in {"login", "register"} /\ SignIn(n)
    \/ w = "logout" /\ Leave
    \/ w \in {"login", "register"} /\ user # 0 /\ Leave
=============================================================================
