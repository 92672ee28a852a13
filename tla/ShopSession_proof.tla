-------------------------- MODULE ShopSession_proof --------------------------
(***************************************************************************)
(* For any number of requests in flight, whatever overlaps, is killed or   *)
(* fails: a logout is final, a stored conversation is whole questions with *)
(* their answers, and a request that overlaps no other is atomic.          *)
(***************************************************************************)
EXTENDS ShopSession, TLAPS, FiniteSetTheorems, WellFoundedInduction

\* A view's copy after a step, as far as logins go: nobody, as before, or the
\* one of its row.
Follows(r, s) ==
    \/ s.copy.user = 0
    \/ s.copy.user = Login(r) /\ s.key = req[r].key
    \/ Stored(s.key) /\ s.copy.user = row[s.key].user

\* What Copied says of one request.
Kempt(s) ==
    /\ s.pc \in {"idle", "sent"} => s.copy = Empty
    /\ s.pc = "login" /\ s.copy.user # 0 => s.key # NoKey
    /\ s.pc = "asking" => s.copy.chat \in Seq(Messages)

LEMMA RowTyped ==
  ASSUME TypeOK, NEW k, Stored(k), k \in issued \cup {NoKey}
  PROVE  k \in Keys /\ k \in issued /\ row[k] \in Sessions
  BY DEF TypeOK, Stored

LEMMA EmptyTyped == Empty \in Sessions /\ Idle \in Asked /\ Kempt(Idle) /\ 0 \in 0..MaxSent
  <1>1. 0 \in 0..MaxSent
    BY MaxSentAssumption
  <1>2. Empty \in Sessions
    BY <1>1 DEF Empty, EmptyCart, Sessions
  <1> QED
    BY <1>1, <1>2 DEF Idle, Asked, CartPages, OtherPages, Kempt

-----------------------------------------------------------------------------
(* Steps, by what they change. *)

\* One request moves, on what it has or can read.
LEMMA Quiet ==
  ASSUME Inv, NEW r \in Requests, NEW s \in Asked, req' = [req EXCEPT ![r] = s],
         s.key \in issued \cup {NoKey}, Follows(r, s), Kempt(s),
         s.pc # "idle" => s.num = req[r].num /\ req[r].pc # "idle",
         s.pc \in {"sent", "login"} => req[r].pc \in {"sent", "login"},
         UNCHANGED <<row, issued, sent, over>>, cookie' \in issued \cup {NoKey}
  PROVE  Inv'
  <1>1. TypeOK /\ OneHome /\ Outlived /\ Unknown /\ Numbered /\ Copied /\ LogoutIsFinal
    BY DEF Inv
  <1>2. req'[r] = s /\ \A q \in Requests \ {r} : req'[q] = req[q]
    BY <1>1 DEF TypeOK
  <1>3. \A k : Stored(k)' <=> Stored(k)
    BY DEF Stored
  <1>4. s.copy.user = 0 \/ (\E q \in Requests : s.copy.user = Login(q))
        \/ (\E k \in Keys : Stored(k) /\ s.copy.user = row[k].user)
    BY <1>1, RowTyped DEF Follows
  <1>5. \A k \in Keys : Stored(k) => row[k].user \in 0..MaxSent
    BY <1>1, RowTyped DEF TypeOK, Sessions, Stored
  <1>6. TypeOK'
    BY <1>1, <1>2 DEF TypeOK
  <1>7. LogoutIsFinal'
    BY <1>1, <1>3 DEF LogoutIsFinal
  <1>8. OneHome'
    <2>1. \A k \in Keys : Stored(k) /\ row[k].user = s.copy.user =>
             s.copy.user = 0 \/ s.key = k
      BY <1>1, RowTyped DEF Follows, OneHome
    <2>2. \A q \in Requests \ {r} : s.copy.user = Login(q) =>
             s.copy.user = 0 \/ (s.key = req[q].key /\ s.key # NoKey)
      BY <1>1, RowTyped DEF Follows, OneHome, Stored
    <2> QED BY <1>1, <1>2, <1>3, <2>1, <2>2 DEF OneHome, Login
  <1>9. Outlived'
    <2>1. s.copy.user \in over => s.key # NoKey /\ ~Stored(s.key)
      <3>1. 0 \notin over
        BY <1>1 DEF Numbered, TypeOK
      <3> QED BY <1>1, <3>1, RowTyped DEF Follows, Outlived, LogoutIsFinal
    <2> QED BY <1>1, <1>2, <1>3, <2>1 DEF Outlived, Login
  <1>10. Unknown'
    <2>1. \A q \in Requests : req[q].pc \in {"sent", "login"} => s.copy.user # req[q].num
      <3> SUFFICES ASSUME NEW q \in Requests, req[q].pc \in {"sent", "login"}
                   PROVE  s.copy.user # req[q].num
        OBVIOUS
      <3>1. req[q].num # 0
        BY <1>1 DEF Numbered, InFlight, TypeOK
      <3> QED BY <1>1, <1>4, <3>1 DEF Unknown
    <2>2. \A q \in Requests : req'[q].pc \in {"sent", "login"} =>
             req[q].pc \in {"sent", "login"} /\ req'[q].num = req[q].num
      BY <1>2
    <2>3. \A q \in Requests : Login(q)' = Login(q) \/ Login(q)' = s.copy.user
      BY <1>2 DEF Login
    <2> QED BY <1>1, <1>3, <2>1, <2>2, <2>3 DEF Unknown
  <1>11. Numbered'
    <2>1. s.copy.user <= sent
      BY <1>1, <1>4 DEF Numbered, TypeOK
    <2>2. \A q \in Requests : Login(q)' = Login(q) \/ Login(q)' = s.copy.user
      BY <1>2 DEF Login
    <2>3. \A q \in InFlight' : q \in InFlight /\ req'[q].num = req[q].num
      BY <1>2 DEF InFlight
    <2> QED BY <1>1, <1>3, <2>1, <2>2, <2>3 DEF Numbered, InFlight
  <1>12. Copied'
    BY <1>1, <1>2 DEF Copied, Kempt, Login
  <1> QED BY <1>6, <1>7, <1>8, <1>9, <1>10, <1>11, <1>12 DEF Inv

\* A request gives its place back.
LEMMA Leaving ==
  ASSUME Inv, NEW r \in Requests, Done(r), UNCHANGED <<row, issued, sent, over>>,
         cookie' \in issued \cup {NoKey}
  PROVE  Inv'
  <1>1. req' = [req EXCEPT ![r] = Idle] /\ Idle.key = NoKey /\ Idle.pc = "idle"
        /\ Idle.copy.user = 0
    BY DEF Done, Idle, Empty
  <1> QED BY <1>1, EmptyTyped, Quiet DEF Follows

\* A session is saved, under its key or a new one.
LEMMA Writing ==
  ASSUME Inv, NEW r \in Requests, Done(r), NEW k \in Keys,
         row' = [row EXCEPT ![k] = req[r].copy], issued' = issued \cup {k}, cookie' = k,
         (Stored(k) /\ k = req[r].key) \/ (k \notin issued /\ req[r].key = NoKey),
         UNCHANGED <<sent, over>>
  PROVE  Inv'
  <1>1. TypeOK /\ OneHome /\ Outlived /\ Unknown /\ Numbered /\ Copied /\ LogoutIsFinal
    BY DEF Inv
  <1>2. req'[r] = Idle /\ \A q \in Requests \ {r} : req'[q] = req[q]
    BY <1>1 DEF TypeOK, Done
  <1>3. row'[k] = req[r].copy /\ \A q \in Keys \ {k} : row'[q] = row[q]
    BY <1>1 DEF TypeOK
  <1>4. Idle.pc = "idle" /\ Login(r)' = 0 /\ req[r].copy \in Sessions
    BY <1>1, <1>2 DEF Idle, Empty, Login, TypeOK, Asked
  <1>5. \A q \in Requests \ {r} : Login(q)' = Login(q)
    BY <1>2 DEF Login
  <1>6. \A q \in Keys \ {k} : Stored(q)' <=> Stored(q)
    BY <1>3 DEF Stored
  <1>7. TypeOK'
    <2>1. req' \in [Requests -> Asked]
      BY <1>1, EmptyTyped DEF TypeOK, Done
    <2>2. row' \in [Keys -> Sessions \cup {NoRow}]
      BY <1>1, <1>4 DEF TypeOK
    <2>3. \A q \in Requests : req'[q].key \in issued' \cup {NoKey}
      BY <1>1, <1>2 DEF TypeOK, Idle
    <2> QED BY <1>1, <1>3, <2>1, <2>2, <2>3 DEF TypeOK
  <1>8. Login(r) \notin over
    BY <1>1 DEF Outlived
  <1>9. LogoutIsFinal'
    BY <1>1, <1>3, <1>6, <1>8 DEF LogoutIsFinal, Login
  <1>10. OneHome'
    <2>1. \A q \in Keys \ {k} : Stored(q) /\ row[q].user = Login(r) => Login(r) = 0
      BY <1>1, NoKeyAssumption DEF OneHome
    <2>2. \A q \in Requests \ {r} : Login(q) = Login(r) => Login(q) = 0 \/ req[q].key = k
      BY <1>1 DEF OneHome
    <2>3. \A q, p \in Keys : Stored(q)' /\ Stored(p)' /\ row'[q].user = row'[p].user =>
             row'[q].user = 0 \/ q = p
      BY <1>1, <1>3, <1>6, <2>1 DEF OneHome, Login
    <2>4. \A q \in Keys, p \in Requests :
             Stored(q)' /\ row'[q].user = Login(p)' => Login(p)' = 0 \/ req'[p].key = q
      BY <1>1, <1>2, <1>3, <1>4, <1>5, <1>6, <2>2 DEF OneHome, Login
    <2>5. \A p, q \in Requests : p # q /\ Login(p)' = Login(q)' =>
             Login(p)' = 0 \/ (req'[p].key = req'[q].key /\ req'[p].key # NoKey)
      BY <1>1, <1>2, <1>4, <1>5 DEF OneHome
    <2> QED BY <2>3, <2>4, <2>5 DEF OneHome
  <1>11. Outlived'
    <2>1. 0 \notin over
      BY <1>1 DEF Numbered, TypeOK
    <2>2. \A q \in Requests : req[q].key = k => Stored(k)
      BY <1>1, NoKeyAssumption DEF TypeOK
    <2>3. \A q \in Requests \ {r} : Login(q) \in over => req[q].key # NoKey /\ ~Stored(req[q].key)
                                                         /\ req[q].key # k /\ req[q].key \in Keys
      BY <1>1, <2>2 DEF Outlived, TypeOK
    <2> QED BY <1>2, <1>4, <1>5, <1>6, <2>1, <2>3 DEF Outlived
  <1>12. Unknown'
    <2>1. \A q \in Requests : req'[q].pc \in {"sent", "login"} => q # r /\ req'[q] = req[q]
      BY <1>2, <1>4
    <2>2. \A q \in Requests : req[q].pc \in {"sent", "login"} => req[q].num # 0
      BY <1>1 DEF Numbered, InFlight, TypeOK
    <2> QED BY <1>1, <1>3, <1>4, <1>5, <1>6, <2>1, <2>2 DEF Unknown, Login
  <1>13. Numbered'
    <2>1. InFlight' \subseteq InFlight /\ \A q \in InFlight' : req'[q] = req[q]
      BY <1>2, <1>4 DEF InFlight
    <2>2. sent \in Nat
      BY <1>1 DEF TypeOK
    <2> QED BY <1>1, <1>3, <1>4, <1>5, <1>6, <2>1, <2>2 DEF Numbered, Login
  <1>14. Copied'
    BY <1>1, <1>2, EmptyTyped DEF Copied, Kempt, Login
  <1> QED BY <1>7, <1>9, <1>10, <1>11, <1>12, <1>13, <1>14 DEF Inv

\* An anonymous session moves to a new key, and the request signs in.
LEMMA Cycling ==
  ASSUME Inv, NEW r \in Requests, CycleKey(r)
  PROVE  Inv'
  <1>1. TypeOK /\ OneHome /\ Outlived /\ Unknown /\ Numbered /\ Copied /\ LogoutIsFinal
    BY DEF Inv
  <1> DEFINE old == req[r].key
  <1>2. PICK k \in Keys \ issued :
          /\ Answer(r, SignedIn([req[r] EXCEPT !.key = k]), TRUE)
          /\ issued' = issued \cup {k}
          /\ row' = [q \in Keys |-> IF q = k THEN req[r].copy
                                    ELSE IF q = old THEN NoRow ELSE row[q]]
    BY DEF CycleKey
  <1> DEFINE s == req'[r]
  <1>3. /\ req' \in [Requests -> Asked]
        /\ s.pc = "reply" /\ s.key = k /\ s.copy.user = req[r].num
        /\ \A q \in Requests \ {r} : req'[q] = req[q]
    <2>1. req[r] \in Asked
      BY <1>1 DEF TypeOK
    <2>2. [req[r] EXCEPT !.key = k] \in Asked
      BY <2>1, <1>2 DEF Asked
    <2>3. SignedIn([req[r] EXCEPT !.key = k]) \in Asked
      BY <2>1, <2>2 DEF Asked, SignedIn, Sessions
    <2> QED
      BY <1>1, <1>2, <2>1, <2>2, <2>3, ZenonT(60) DEF Answer, TypeOK, Asked, SignedIn, Sessions
  <1>4. /\ row'[k] = req[r].copy /\ req[r].copy.user = 0 /\ req[r].copy \in Sessions
        /\ \A q \in Keys \ {k} : row'[q] = NoRow \/ row'[q] = row[q]
    BY <1>1, <1>2 DEF CycleKey, TypeOK, Asked
  <1>5. \A q \in Keys \ {k} : Stored(q)' => Stored(q) /\ row'[q] = row[q]
    BY <1>4 DEF Stored
  <1>6. UNCHANGED <<cookie, sent, over>> /\ req[r].pc = "login"
    BY DEF CycleKey
  <1>7. Login(r)' = req[r].num /\ req[r].num # 0
        /\ \A q \in Requests \ {r} : Login(q)' = Login(q) /\ Login(q) # req[r].num
    BY <1>1, <1>3, <1>6 DEF Login, Unknown, Numbered, InFlight, TypeOK
  <1>8. \A q \in Keys : Stored(q)' => row'[q].user # req[r].num
    BY <1>1, <1>4, <1>5, <1>6, <1>7 DEF Unknown
  <1>9. \A q \in Requests \ {r} : req[q].key # k
    BY <1>1, NoKeyAssumption DEF TypeOK
  <1> HIDE DEF s, old
  <1>10. TypeOK'
    <2>1. row' \in [Keys -> Sessions \cup {NoRow}]
      BY <1>1, <1>2, <1>4 DEF TypeOK
    <2>2. \A q \in Requests : req'[q].key \in issued' \cup {NoKey}
      BY <1>1, <1>2, <1>3 DEF TypeOK, s
    <2> QED BY <1>1, <1>2, <1>3, <1>4, <1>6, <2>1, <2>2 DEF TypeOK
  <1>11. LogoutIsFinal'
    <2>1. 0 \notin over
      BY <1>1 DEF Numbered, TypeOK
    <2> QED BY <1>1, <1>4, <1>5, <1>6, <2>1 DEF LogoutIsFinal
  <1>12. OneHome'
    BY <1>1, <1>3, <1>4, <1>5, <1>7, <1>8 DEF OneHome
  <1>13. Outlived'
    <2>1. req[r].num \notin over
      BY <1>1, <1>6 DEF Unknown
    <2>2. \A q \in Requests \ {r} : Login(q) \in over =>
             req[q].key # NoKey /\ ~Stored(req[q].key) /\ req[q].key \in Keys
      BY <1>1 DEF Outlived, TypeOK
    <2> QED BY <1>3, <1>5, <1>6, <1>7, <1>9, <2>1, <2>2 DEF Outlived
  <1>14. Unknown'
    <2>1. \A q \in Requests : req'[q].pc \in {"sent", "login"} =>
             /\ q # r /\ req'[q] = req[q] /\ req[q].num # 0 /\ req[q].num # req[r].num
      BY <1>1, <1>3, <1>6 DEF Numbered, InFlight, TypeOK, s
    <2> QED BY <1>1, <1>4, <1>5, <1>6, <1>7, <2>1 DEF Unknown
  <1>15. Numbered'
    <2>1. InFlight' = InFlight /\ \A q \in InFlight : req'[q].num = req[q].num
      BY <1>1, <1>2, <1>3, <1>6 DEF InFlight, Answer, SignedIn, TypeOK, s, Asked, Sessions
    <2>2. sent \in Nat /\ req[r].num <= sent
      BY <1>1, <1>6 DEF TypeOK, Numbered, InFlight
    <2> QED BY <1>1, <1>4, <1>5, <1>6, <1>7, <2>1, <2>2 DEF Numbered
  <1>16. Copied'
    BY <1>1, <1>3 DEF Copied, Login, s
  <1> QED BY <1>10, <1>11, <1>12, <1>13, <1>14, <1>15, <1>16 DEF Inv

\* A session ends with its row, and the request goes on in a new one, signed in
\* by itself or by nobody.
LEMMA Flushing ==
  ASSUME Inv, NEW r \in Requests, NEW s \in Asked, req' = [req EXCEPT ![r] = s],
         s.pc = "reply", s.key = NoKey, s.num = req[r].num,
         req[r].pc \in {"sent", "login"}, s.copy.user \in {0, req[r].num},
         NEW gone \in issued \cup {NoKey}, NEW n \in 0..MaxSent,
         row' = [k \in Keys |-> IF k = gone THEN NoRow ELSE row[k]],
         over' = over \cup ({n} \ {0}),
         \/ n = 0
         \/ n = Login(r) /\ gone = req[r].key /\ gone # NoKey
         \/ Stored(gone) /\ n = row[gone].user,
         UNCHANGED <<issued, cookie, sent>>
  PROVE  Inv'
  <1>1. TypeOK /\ OneHome /\ Outlived /\ Unknown /\ Numbered /\ Copied /\ LogoutIsFinal
    BY DEF Inv
  <1>2. req'[r] = s /\ (\A q \in Requests \ {r} : req'[q] = req[q])
        /\ (\A q \in Requests \ {r} : Login(q)' = Login(q)) /\ Login(r)' = s.copy.user
    BY <1>1 DEF TypeOK, Login
  <1>3. /\ \A k : Stored(k)' /\ k \in Keys => Stored(k) /\ row'[k] = row[k] /\ k # gone
        /\ gone \in Keys => ~Stored(gone)'
    BY DEF Stored
  <1>4. n # 0 => gone \in Keys /\ gone # NoKey
    BY <1>1 DEF TypeOK, Stored
  <1>5. \A k \in Keys : Stored(k)' => n = 0 \/ row'[k].user # n
    BY <1>1, <1>3, <1>4 DEF OneHome
  <1>6. \A q \in Requests \ {r} : Login(q) = n => n = 0 \/ req[q].key = gone
    BY <1>1, <1>4 DEF OneHome
  <1>7. n = 0 \/ n = Login(r) \/ (\E k \in Keys : Stored(k) /\ n = row[k].user)
    BY <1>4
  <1>8. \A q \in Requests : req[q].pc \in {"sent", "login"} =>
           n # req[q].num /\ req[q].num \in 1..sent
    BY <1>1, <1>7 DEF Unknown, Numbered, InFlight, TypeOK
  <1>9. \A q \in Requests : Login(q) # req[r].num
    BY <1>1 DEF Unknown
  <1>10. 0 \notin over /\ sent \in 0..MaxSent /\ n <= sent
    BY <1>1, <1>7 DEF Numbered, TypeOK
  <1>11. TypeOK'
    <2>1. row' \in [Keys -> Sessions \cup {NoRow}]
      BY <1>1 DEF TypeOK
    <2>2. over' \subseteq 1..MaxSent
      BY <1>1, MaxSentAssumption DEF TypeOK
    <2>3. req' \in [Requests -> Asked]
      BY <1>1 DEF TypeOK
    <2>4. \A k \in Keys : row'[k] # NoRow => k \in issued
      BY <1>1 DEF TypeOK
    <2> QED BY <1>1, <1>2, <2>1, <2>2, <2>3, <2>4 DEF TypeOK
  <1>12. LogoutIsFinal'
    BY <1>1, <1>3, <1>5 DEF LogoutIsFinal
  <1>13. OneHome'
    <2>1. \A k, q \in Keys : Stored(k)' /\ Stored(q)' /\ row'[k].user = row'[q].user =>
             row'[k].user = 0 \/ k = q
      BY <1>1, <1>3 DEF OneHome
    <2>2. \A k \in Keys, q \in Requests :
             Stored(k)' /\ row'[k].user = Login(q)' => Login(q)' = 0 \/ req'[q].key = k
      BY <1>1, <1>2, <1>3 DEF OneHome, Unknown
    <2>3. \A p, q \in Requests : p # q /\ Login(p)' = Login(q)' =>
             Login(p)' = 0 \/ (req'[p].key = req'[q].key /\ req'[p].key # NoKey)
      BY <1>1, <1>2, <1>9 DEF OneHome, Unknown
    <2> QED BY <2>1, <2>2, <2>3 DEF OneHome
  <1>14. Outlived'
    <2>1. s.copy.user \notin over'
      BY <1>1, <1>8, <1>10 DEF Unknown
    <2>2. \A q \in Requests \ {r} : Login(q) \in over' =>
             req[q].key # NoKey /\ (~Stored(req[q].key) \/ req[q].key = gone)
             /\ req[q].key \in Keys
      BY <1>1, <1>4, <1>6 DEF Outlived, TypeOK
    <2> QED BY <1>2, <1>3, <2>1, <2>2 DEF Outlived
  <1>15. Unknown'
    <2>1. \A q \in Requests : req'[q].pc \in {"sent", "login"} =>
             /\ q # r /\ req'[q] = req[q] /\ req[q].num # 0 /\ req[q].num # s.copy.user
             /\ req[q].num # n
      BY <1>1, <1>2, <1>8 DEF Numbered, InFlight, TypeOK
    <2> QED BY <1>1, <1>2, <1>3, <2>1 DEF Unknown
  <1>16. Numbered'
    <2>1. InFlight' = InFlight /\ \A q \in InFlight : req'[q].num = req[q].num
      BY <1>2 DEF InFlight
    <2>2. s.copy.user <= sent
      BY <1>8, <1>10
    <2>3. over' \subseteq 1..sent
      <3>1. n = 0 \/ n \in 1..sent
        BY <1>10
      <3> QED BY <1>1, <3>1 DEF Numbered
    <2> QED BY <1>1, <1>2, <1>3, <2>1, <2>2, <2>3 DEF Numbered
  <1>17. Copied'
    BY <1>1, <1>2 DEF Copied, Login
  <1> QED BY <1>11, <1>12, <1>13, <1>14, <1>15, <1>16, <1>17 DEF Inv

\* The browser sends a request, with a number of its own.
LEMMA Sending ==
  ASSUME Inv, NEW r \in Requests, NEW w \in CartPages \cup OtherPages,
         NEW i \in Items \cup {NoItem}, Send(r, w, i)
  PROVE  Inv'
  <1>1. TypeOK /\ OneHome /\ Outlived /\ Unknown /\ Numbered /\ Copied /\ LogoutIsFinal
    BY DEF Inv
  <1> DEFINE s == [Idle EXCEPT !.pc = "sent", !.what = w, !.item = i, !.num = sent',
                               !.had = cookie, !.key = cookie, !.alone = InFlight = {}]
  <1>2. sent \in Nat /\ sent' = sent + 1 /\ sent' \in 0..MaxSent /\ sent' # 0
    <2>1. sent \in 0..MaxSent
      BY <1>1 DEF TypeOK
    <2>2. sent < MaxSent /\ sent' = sent + 1
      BY DEF Send
    <2> HIDE DEF s
    <2> QED BY <2>1, <2>2, MaxSentAssumption
  <1>3. s \in Asked /\ s.pc = "sent" /\ s.copy = Empty /\ s.num = sent' /\ s.key = cookie
    <2>1. cookie \in Keys \cup {NoKey}
      BY <1>1 DEF TypeOK
    <2>2. Idle \in Asked /\ Idle.copy = Empty
      BY EmptyTyped DEF Idle
    <2>3. (InFlight = {}) \in BOOLEAN
      OBVIOUS
    <2> QED BY <1>2, <2>1, <2>2, <2>3, ZenonT(60) DEF Asked
  <1>4. /\ req'[r] = s /\ req[r].pc = "idle"
        /\ \A q \in Requests \ {r} : req'[q] = [req[q] EXCEPT !.alone = @ /\ q \notin InFlight]
    BY DEF Send
  <1> HIDE DEF s
  <1>5. \A q \in Requests \ {r} :
          /\ req'[q] \in Asked /\ req'[q].pc = req[q].pc /\ req'[q].copy = req[q].copy
          /\ req'[q].key = req[q].key /\ req'[q].num = req[q].num
    <2> SUFFICES ASSUME NEW q \in Requests \ {r}
                 PROVE  /\ req'[q] \in Asked /\ req'[q].pc = req[q].pc
                        /\ req'[q].copy = req[q].copy
                        /\ req'[q].key = req[q].key /\ req'[q].num = req[q].num
      OBVIOUS
    <2> DEFINE b == req[q].alone /\ q \notin InFlight
    <2>1. req[q] \in Asked
      BY <1>1 DEF TypeOK
    <2>2. b \in BOOLEAN /\ req'[q] = [req[q] EXCEPT !.alone = b]
      BY <1>4
    <2> HIDE DEF b
    <2> QED BY <2>1, <2>2 DEF Asked
  <1>6. UNCHANGED <<row, issued, cookie, over>>
    BY DEF Send
  <1>7. Login(r)' = 0 /\ \A q \in Requests \ {r} : Login(q)' = Login(q)
    BY <1>3, <1>4, <1>5 DEF Login, Empty
  <1>8. \A k : Stored(k)' <=> Stored(k)
    BY <1>6 DEF Stored
  <1>9. TypeOK'
    <2>1. req' \in [Requests -> Asked]
      BY <1>3, <1>4, <1>5 DEF Send
    <2>2. \A q \in Requests : req'[q].key \in issued \cup {NoKey}
      BY <1>1, <1>3, <1>4, <1>5 DEF TypeOK
    <2> QED BY <1>1, <1>2, <1>6, <2>1, <2>2 DEF TypeOK
  <1>10. LogoutIsFinal' /\ Outlived'
    <2>1. 0 \notin over
      BY <1>1 DEF Numbered, TypeOK
    <2> QED BY <1>1, <1>4, <1>5, <1>6, <1>7, <1>8, <2>1 DEF LogoutIsFinal, Outlived
  <1>11. OneHome'
    BY <1>1, <1>4, <1>5, <1>6, <1>7, <1>8 DEF OneHome
  <1>12. Unknown'
    <2>1. \A k \in Keys : Stored(k) => row[k].user < sent'
      <3>1. \A k \in Keys : Stored(k) => row[k].user \in 0..MaxSent
        BY <1>1, RowTyped DEF TypeOK, Sessions, Stored
      <3> QED BY <1>1, <1>2, <3>1 DEF Numbered
    <2>2. \A q \in Requests : Login(q) < sent'
      <3>1. \A q \in Requests : Login(q) \in 0..MaxSent
        BY <1>1 DEF TypeOK, Asked, Sessions, Login
      <3> QED BY <1>1, <1>2, <3>1 DEF Numbered
    <2>3. sent' \notin over
      BY <1>1, <1>2 DEF Numbered
    <2>4. req'[r].num \notin over' /\ (\A k \in Keys : Stored(k)' => row'[k].user # req'[r].num)
          /\ \A q \in Requests : Login(q)' # req'[r].num
      <3>1. \A k \in Keys : Stored(k) => row[k].user # sent'
        <4>1. \A k \in Keys : Stored(k) => row[k].user \in 0..MaxSent
          BY <1>1, RowTyped DEF TypeOK, Sessions, Stored
        <4> QED BY <1>2, <2>1, <4>1
      <3>2. \A q \in Requests : Login(q) # sent'
        <4>1. \A q \in Requests : Login(q) \in 0..MaxSent
          BY <1>1 DEF TypeOK, Asked, Sessions, Login
        <4> QED BY <1>2, <2>2, <4>1
      <3> QED BY <1>2, <1>3, <1>4, <1>6, <1>7, <1>8, <2>3, <3>1, <3>2
    <2>5. \A q \in Requests \ {r} : req'[q].pc \in {"sent", "login"} => req'[q].num # 0
      BY <1>1, <1>5 DEF Numbered, InFlight, TypeOK
    <2> QED BY <1>1, <1>5, <1>6, <1>7, <1>8, <2>4, <2>5 DEF Unknown
  <1>13. Numbered'
    <2>1. \A q \in InFlight' : q = r \/ q \in InFlight
      BY <1>5 DEF InFlight
    <2>2. over \subseteq 1..sent'
      BY <1>1, <1>2 DEF Numbered
    <2>3. \A k \in Keys : Stored(k)' => row'[k].user <= sent'
      <3>1. \A k \in Keys : Stored(k) => row[k].user \in 0..MaxSent
        BY <1>1, RowTyped DEF TypeOK, Sessions, Stored
      <3> QED BY <1>1, <1>2, <1>6, <1>8, <3>1 DEF Numbered
    <2>4. \A q \in Requests : Login(q)' <= sent' /\ (q \in InFlight' => req'[q].num \in 1..sent')
      <3>1. \A q \in Requests : Login(q) \in 0..MaxSent
        BY <1>1 DEF TypeOK, Asked, Sessions, Login
      <3> QED BY <1>1, <1>2, <1>3, <1>4, <1>5, <1>7, <2>1, <3>1 DEF Numbered, InFlight
    <2>5. \A p, q \in InFlight' : p # q => req'[p].num # req'[q].num
      <3>1. \A q \in InFlight : req[q].num # sent'
        BY <1>1, <1>2 DEF Numbered, InFlight
      <3> QED BY <1>1, <1>3, <1>4, <1>5, <2>1, <3>1 DEF Numbered, InFlight
    <2> QED BY <1>6, <2>2, <2>3, <2>4, <2>5 DEF Numbered
  <1>14. Copied'
    BY <1>1, <1>3, <1>4, <1>5 DEF Copied, Login
  <1> QED BY <1>9, <1>10, <1>11, <1>12, <1>13, <1>14 DEF Inv

-----------------------------------------------------------------------------
(* The views. *)

LEMMA Opening ==
  ASSUME Inv, NEW r \in Requests, req[r].pc = "sent"
  PROVE  /\ Opened(r) \in Asked /\ Opened(r).copy \in Sessions
         /\ Opened(r).key \in issued \cup {NoKey}
         /\ Opened(r).num = req[r].num /\ Opened(r).item = req[r].item
         /\ \/ Opened(r).copy.user = 0
            \/ /\ Stored(Opened(r).key) /\ Opened(r).key # NoKey
               /\ Opened(r).copy.user = row[Opened(r).key].user
  <1>1. req[r] \in Asked /\ req[r].key \in issued \cup {NoKey} /\ req[r].copy = Empty
    BY DEF Inv, TypeOK, Copied
  <1>2. CASE Stored(req[r].key)
    <2>1. row[req[r].key] \in Sessions
      BY <1>1, <1>2, RowTyped DEF Inv
    <2> QED BY <1>1, <1>2, <2>1 DEF Opened, Asked, Stored
  <1>3. CASE ~Stored(req[r].key)
    BY <1>1, <1>3, EmptyTyped DEF Opened, Asked, Empty
  <1> QED BY <1>2, <1>3

\* A page that was looked up and answers, whatever it did to cart and chat.
LEMMA Answering ==
  ASSUME Inv, NEW r \in Requests, NEW o \in Asked, Answer(r, o, TRUE) \/ Answer(r, o, FALSE),
         req[r].pc # "idle", o.num = req[r].num, o.key \in issued \cup {NoKey},
         Follows(r, o), Kept
  PROVE  Inv'
  <1>1. PICK b \in BOOLEAN : req' = [req EXCEPT ![r] = [o EXCEPT !.pc = "reply", !.save = b]]
    BY DEF Answer
  <1> DEFINE s == [o EXCEPT !.pc = "reply", !.save = b]
  <1>2. s \in Asked /\ s.pc = "reply" /\ s.key = o.key /\ s.copy = o.copy /\ s.num = o.num
    BY DEF Asked
  <1>3. cookie' \in issued \cup {NoKey}
    BY DEF Inv, TypeOK, Kept
  <1> HIDE DEF s
  <1> QED BY <1>1, <1>2, <1>3, Quiet DEF Kempt, Follows, Kept, s

LEMMA CartViews ==
  ASSUME Inv, NEW r \in Requests,
         AddToCart(r) \/ RemoveFromCart(r) \/ DeleteFromCart(r) \/ PaymentSuccess(r)
  PROVE  Inv'
  <1> DEFINE o == Opened(r)
  <1>1. req[r].pc = "sent" /\ Kept
    BY DEF AddToCart, RemoveFromCart, DeleteFromCart, PaymentSuccess, At
  <1>2. PICK c : /\ Answer(r, [o EXCEPT !.copy.cart = c], TRUE)
                 /\ c \in [Items -> Nat]
    <2>1. o.copy \in Sessions /\ o.copy.cart \in [Items -> Nat]
      BY <1>1, Opening DEF Sessions
    <2>2. \A i, n : (i \in Items => n \in Nat) => [o.copy.cart EXCEPT ![i] = n] \in [Items -> Nat]
      BY <2>1
    <2>3. \A i, n : SetCart(o, i, n) = [o EXCEPT !.copy.cart = [o.copy.cart EXCEPT ![i] = n]]
      BY <1>1, Opening DEF SetCart, Asked, Sessions
    <2>4. EmptyCart \in [Items -> Nat]
      BY DEF EmptyCart
    <2> HIDE DEF o
    <2>5. ASSUME NEW i, NEW n, i \in Items => n \in Nat, Answer(r, SetCart(o, i, n), TRUE)
          PROVE  \E c : Answer(r, [o EXCEPT !.copy.cart = c], TRUE) /\ c \in [Items -> Nat]
      <3>1. Answer(r, [o EXCEPT !.copy.cart = [o.copy.cart EXCEPT ![i] = n]], TRUE)
        BY <2>3, <2>5
      <3>2. [o.copy.cart EXCEPT ![i] = n] \in [Items -> Nat]
        BY <2>2, <2>5
      <3> QED BY <3>1, <3>2
    <2>6. CASE AddToCart(r)
      <3>1. o.item \in Items => o.copy.cart[o.item] + 1 \in Nat
        BY <2>1
      <3>2. Answer(r, SetCart(o, o.item, o.copy.cart[o.item] + 1), TRUE)
        BY <2>6 DEF AddToCart, o
      <3> QED BY <2>5, <3>1, <3>2
    <2>7. CASE RemoveFromCart(r)
      <3> DEFINE n == o.copy.cart[o.item]
                 m == IF n > 1 THEN n - 1 ELSE 0
      <3>1. o.item \in Items => m \in Nat
        BY <2>1
      <3>2. Answer(r, SetCart(o, o.item, m), TRUE)
        BY <2>7 DEF RemoveFromCart, o
      <3> HIDE DEF m
      <3> QED BY <2>5, <3>1, <3>2
    <2>8. CASE DeleteFromCart(r)
      <3>1. 0 \in Nat
        OBVIOUS
      <3>2. Answer(r, SetCart(o, o.item, 0), TRUE)
        BY <2>8 DEF DeleteFromCart, o
      <3> QED BY <2>5, <3>1, <3>2
    <2>9. CASE PaymentSuccess(r)
      BY <2>4, <2>9 DEF PaymentSuccess, o
    <2> QED BY <2>6, <2>7, <2>8, <2>9
  <1> DEFINE s == [o EXCEPT !.copy.cart = c]
  <1>3. s \in Asked /\ s.num = req[r].num /\ s.key = o.key /\ s.copy.user = o.copy.user
    BY <1>1, <1>2, Opening, ZenonT(60) DEF Asked, Sessions
  <1>4. Follows(r, s) /\ s.key \in issued \cup {NoKey}
    BY <1>1, <1>3, Opening DEF Follows
  <1> HIDE DEF s
  <1> QED BY <1>1, <1>2, <1>3, <1>4, Answering DEF s

LEMMA PlainViews ==
  ASSUME Inv, NEW r \in Requests,
         Refuse(r) \/ Look(r) \/ Checkout(r) \/ SignInAgain(r)
  PROVE  Inv'
  <1>1. req[r] \in Asked /\ req[r].key \in issued \cup {NoKey} /\ Follows(r, req[r])
    BY DEF Inv, TypeOK, Follows, Login
  <1>2. CASE Look(r) \/ Checkout(r)
    <2>1. req[r].pc = "sent" /\ Kept /\ Answer(r, Opened(r), FALSE)
      BY <1>2 DEF Look, Checkout, At
    <2>2. Follows(r, Opened(r))
      BY <2>1, Opening DEF Follows
    <2> QED BY <2>1, <2>2, Opening, Answering
  <1>3. CASE Refuse(r) \/ SignInAgain(r)
    <2>1. req[r].pc # "idle" /\ Kept /\ (Answer(r, req[r], FALSE) \/ Answer(r, req[r], TRUE))
      BY <1>3 DEF Refuse, SignInAgain, At
    <2> QED BY <1>1, <2>1, Answering
  <1> QED BY <1>2, <1>3

LEMMA ChatViews ==
  ASSUME Inv, NEW r \in Requests,
         ChatPage(r) \/ ChatSend(r) \/ GroqAnswers(r) \/ GroqFails(r) \/ ChatClear(r)
  PROVE  Inv'
  <1>1. /\ req[r] \in Asked /\ req[r].key \in issued \cup {NoKey}
        /\ req[r].pc = "asking" => req[r].copy.chat \in Seq(Messages)
        /\ Kept /\ cookie \in issued \cup {NoKey}
    BY DEF Inv, TypeOK, Copied, ChatPage, ChatSend, GroqAnswers, GroqFails, ChatClear
  <1>2. ASSUME req[r].pc = "sent"
        PROVE  Said(Opened(r)) \in Seq(Messages)
    BY <1>2, Opening DEF Said, Sessions
  <1>3. \A who \in {"user", "assistant"} : Message(who, req[r].num) \in Messages
    BY <1>1 DEF Message, Messages, Asked
  <1>4. ASSUME NEW h \in Seq(Messages), NEW b \in BOOLEAN, req[r].pc = "sent",
               Answer(r, [Opened(r) EXCEPT !.copy.chat = h], b)
        PROVE  Inv'
    <2> DEFINE s == [Opened(r) EXCEPT !.copy.chat = h]
    <2>1. s \in Asked /\ s.num = req[r].num /\ s.key = Opened(r).key
          /\ s.copy.user = Opened(r).copy.user
      BY <1>4, Opening, ZenonT(60) DEF Asked, Sessions
    <2>2. Follows(r, s) /\ s.key \in issued \cup {NoKey}
      BY <1>4, <2>1, Opening DEF Follows
    <2>3. Answer(r, s, TRUE) \/ Answer(r, s, FALSE)
      BY <1>4
    <2> HIDE DEF s
    <2> QED BY <1>1, <1>4, <2>1, <2>2, <2>3, Answering
  <1>5. ASSUME NEW h \in Seq(Messages), NEW b \in BOOLEAN, req[r].pc = "asking",
               Answer(r, [req[r] EXCEPT !.copy.chat = h], b)
        PROVE  Inv'
    <2> DEFINE s == [req[r] EXCEPT !.copy.chat = h]
    <2>1. s \in Asked /\ s.num = req[r].num /\ s.key = req[r].key /\ s.copy.user = Login(r)
      BY <1>1, <1>5 DEF Asked, Sessions, Login
    <2>2. Follows(r, s)
      BY <2>1 DEF Follows
    <2>3. Answer(r, s, TRUE) \/ Answer(r, s, FALSE)
      BY <1>5
    <2> HIDE DEF s
    <2> QED BY <1>1, <1>5, <2>1, <2>2, <2>3, Answering
  <1>6. CASE ChatPage(r)
    <2>1. req[r].pc = "sent"
          /\ \E b \in BOOLEAN : Answer(r, [Opened(r) EXCEPT !.copy.chat = Said(Opened(r))], b)
      BY <1>6 DEF ChatPage, At
    <2> QED BY <1>2, <1>4, <2>1
  <1>7. CASE ChatClear(r)
    <2>1. <<>> \in Seq(Messages)
      OBVIOUS
    <2> QED BY <1>4, <1>7, <2>1 DEF ChatClear, At
  <1>8. CASE GroqAnswers(r)
    <2> DEFINE h == Append(req[r].copy.chat, Message("assistant", req[r].num))
    <2>1. req[r].pc = "asking" /\ h \in Seq(Messages)
      BY <1>1, <1>3, <1>8 DEF GroqAnswers
    <2>2. Answer(r, [req[r] EXCEPT !.copy.chat = h], TRUE)
      BY <1>8 DEF GroqAnswers
    <2> HIDE DEF h
    <2> QED BY <1>5, <2>1, <2>2
  <1>9. CASE GroqFails(r)
    <2> DEFINE h == SubSeq(req[r].copy.chat, 1, Len(req[r].copy.chat) - 1)
    <2>1. req[r].pc = "asking" /\ h \in Seq(Messages)
      BY <1>1, <1>9 DEF GroqFails
    <2>2. Answer(r, [req[r] EXCEPT !.copy.chat = h], FALSE)
      BY <1>9 DEF GroqFails
    <2> HIDE DEF h
    <2> QED BY <1>5, <2>1, <2>2
  <1>10. CASE ChatSend(r)
    <2> DEFINE o == Opened(r)
               h == Append(Said(o), Message("user", o.num))
               s == [o EXCEPT !.pc = "asking", !.copy.chat = h]
    <2>1. req[r].pc = "sent" /\ req' = [req EXCEPT ![r] = s]
      BY <1>10 DEF ChatSend, At
    <2>2. h \in Seq(Messages)
      BY <1>2, <1>3, <2>1, Opening
    <2> HIDE DEF h
    <2>3. s \in Asked /\ s.pc = "asking" /\ s.num = req[r].num /\ s.key = o.key
          /\ s.copy.user = o.copy.user /\ s.copy.chat = h
      BY <2>1, <2>2, Opening, ZenonT(60) DEF Asked, Sessions
    <2>4. Follows(r, s) /\ s.key \in issued \cup {NoKey}
      BY <2>1, <2>3, Opening DEF Follows
    <2>5. Kempt(s)
      BY <2>2, <2>3 DEF Kempt
    <2> HIDE DEF s
    <2> QED BY <1>1, <2>1, <2>3, <2>4, <2>5, Quiet DEF Kept
  <1> QED BY <1>6, <1>7, <1>8, <1>9, <1>10

LEMMA LoginViews ==
  ASSUME Inv, NEW r \in Requests, OpenForLogin(r) \/ ChangeUser(r) \/ Logout(r)
  PROVE  Inv'
  <1>1. req[r] \in Asked /\ req[r].key \in issued \cup {NoKey} /\ cookie \in issued \cup {NoKey}
    BY DEF Inv, TypeOK
  <1>2. CASE OpenForLogin(r)
    <2> DEFINE s == [Opened(r) EXCEPT !.pc = "login"]
    <2>1. req[r].pc = "sent" /\ req' = [req EXCEPT ![r] = s] /\ Kept
      BY <1>2 DEF OpenForLogin, At
    <2>2. s \in Asked /\ s.pc = "login" /\ s.num = req[r].num /\ s.key = Opened(r).key
          /\ s.copy = Opened(r).copy
      BY <2>1, Opening DEF Asked
    <2>3. Follows(r, s) /\ s.key \in issued \cup {NoKey} /\ Kempt(s)
      BY <2>1, <2>2, Opening DEF Follows, Kempt
    <2> HIDE DEF s
    <2> QED BY <1>1, <2>1, <2>2, <2>3, Quiet DEF Kept
  <1>3. ASSUME NEW o \in Asked, Flushed(o) \in Asked
        PROVE  Flushed(o).key = NoKey /\ Flushed(o).copy = Empty /\ Flushed(o).num = o.num
    BY <1>3 DEF Flushed, Asked
  <1>4. \A o \in Asked : Flushed(o) \in Asked
    BY EmptyTyped DEF Flushed, Asked
  <1>5. CASE Logout(r)
    <2> DEFINE o == Opened(r)
               f == Flushed(o)
               s == [f EXCEPT !.pc = "reply", !.save = FALSE]
    <2>1. req[r].pc = "sent" /\ Flush(r, o) /\ req' = [req EXCEPT ![r] = s]
      BY <1>5 DEF Logout, At, Answer
    <2>2. o \in Asked /\ o.copy.user \in 0..MaxSent /\ o.num = req[r].num
      BY <2>1, Opening DEF Sessions
    <2>3. s \in Asked /\ s.pc = "reply" /\ s.key = NoKey /\ s.num = req[r].num
          /\ s.copy.user = 0
      <3>1. f \in Asked /\ f.key = NoKey /\ f.num = req[r].num /\ f.copy.user = 0
        BY <1>3, <1>4, <2>2 DEF Empty
      <3> HIDE DEF f
      <3> QED BY <3>1 DEF Asked
    <2>4. /\ o.key \in issued \cup {NoKey}
          /\ o.copy.user = 0 \/ (Stored(o.key) /\ o.copy.user = row[o.key].user)
      BY <2>1, Opening
    <2> HIDE DEF s, o
    <2> QED BY <2>1, <2>2, <2>3, <2>4, Flushing DEF Flush
  <1>6. CASE ChangeUser(r)
    <2> DEFINE f == SignedIn(Flushed(req[r]))
               s == [f EXCEPT !.pc = "reply", !.save = TRUE]
    <2>1. req[r].pc = "login" /\ Login(r) # 0 /\ Flush(r, req[r]) /\ req' = [req EXCEPT ![r] = s]
      BY <1>6 DEF ChangeUser, Answer, Login
    <2>2. req[r].key # NoKey /\ Login(r) \in 0..MaxSent /\ req[r].num \in 0..MaxSent
      BY <1>1, <2>1 DEF Inv, Copied, Asked, Sessions, Login
    <2>3. f \in Asked /\ f.key = NoKey /\ f.num = req[r].num /\ f.copy.user = req[r].num
      BY <1>1, <1>3, <1>4, <2>2 DEF SignedIn, Asked, Sessions
    <2> HIDE DEF f
    <2>4. s \in Asked /\ s.pc = "reply" /\ s.key = NoKey /\ s.num = req[r].num
          /\ s.copy.user = req[r].num
      BY <2>3 DEF Asked
    <2> HIDE DEF s
    <2> QED BY <1>1, <2>1, <2>2, <2>4, Flushing DEF Flush, Login
  <1> QED BY <1>2, <1>5, <1>6

-----------------------------------------------------------------------------
LEMMA InvInit == Init => Inv
  <1> SUFFICES ASSUME Init PROVE Inv
    OBVIOUS
  <1>1. TypeOK
    BY EmptyTyped DEF Init, TypeOK, Idle
  <1>2. Idle.pc = "idle" /\ Idle.copy = Empty /\ Empty.user = 0
    BY DEF Idle, Empty
  <1>3. \A k : ~Stored(k) \/ k \notin Keys
    BY DEF Init, Stored
  <1>4. InFlight = {}
    BY <1>2 DEF Init, InFlight
  <1> QED
    BY <1>1, <1>2, <1>3, <1>4
       DEF Init, Inv, LogoutIsFinal, OneHome, Outlived, Unknown, Numbered, Copied, Login

LEMMA InvNext == Inv /\ [Next]_vars => Inv'
  <1> SUFFICES ASSUME Inv, [Next]_vars PROVE Inv'
    OBVIOUS
  <1>1. CASE UNCHANGED vars
    BY <1>1 DEF vars, Inv, TypeOK, LogoutIsFinal, OneHome, Outlived, Unknown, Numbered, Copied,
                Stored, Login, InFlight
  <1>2. ASSUME NEW r \in Requests, NEW o \in Orders, Send(r, o[1], o[2])
        PROVE  Inv'
    <2>1. o[1] \in CartPages \cup OtherPages /\ o[2] \in Items \cup {NoItem}
      BY <1>2 DEF Orders
    <2> QED BY <1>2, <2>1, Sending
  <1>3. ASSUME NEW r \in Requests, View(r)
        PROVE  Inv'
    BY <1>3, PlainViews, CartViews, ChatViews, LoginViews, Cycling DEF View
  <1>4. ASSUME NEW r \in Requests, Respond(r) \/ Die(r)
        PROVE  Inv'
    <2>1. req[r].key \in issued \cup {NoKey} /\ cookie \in issued \cup {NoKey} /\ TypeOK
      BY DEF Inv, TypeOK
    <2>2. CASE Save(r)
      <3> DEFINE k == req[r].key
      <3>1. k \in Keys /\ k \in issued /\ Stored(k)
        BY <2>1, <2>2, RowTyped DEF Save
      <3>2. /\ row' = [row EXCEPT ![k] = req[r].copy] /\ cookie' = k /\ Done(r)
            /\ UNCHANGED <<issued, sent, over>>
        BY <2>2 DEF Save
      <3>3. issued' = issued \cup {k} /\ k = req[r].key
        BY <3>1, <3>2
      <3> HIDE DEF k
      <3> QED BY <3>1, <3>2, <3>3, Writing
    <2>3. CASE Insert(r)
      <3>1. PICK k \in Keys \ issued :
               row' = [row EXCEPT ![k] = req[r].copy] /\ issued' = issued \cup {k} /\ cookie' = k
        BY <2>3 DEF Insert
      <3> QED BY <2>3, <3>1, Writing DEF Insert
    <2>4. CASE Interrupted(r) \/ Reply(r) \/ Die(r)
      BY <2>1, <2>4, Leaving DEF Interrupted, Reply, Die, Kept
    <2> QED BY <1>4, <2>2, <2>3, <2>4 DEF Respond
  <1> QED BY <1>1, <1>2, <1>3, <1>4 DEF Next, Finished

\* The inductive invariant: who knows which login, in every state.
THEOREM Invariance == Spec => []Inv
  BY InvInit, InvNext, PTL DEF Spec

\* Types, with them that no row of the session table is there under a key that
\* was never issued.
THEOREM SessionTypes == Spec => []TypeOK
  <1>1. Inv => TypeOK
    BY DEF Inv
  <1> QED BY <1>1, Invariance, PTL

\* No request, however late or slow, restores a login after its logout
\* (views.py:85-88).
THEOREM FinalLogout == Spec => []LogoutIsFinal
  <1>1. Inv => LogoutIsFinal
    BY DEF Inv
  <1> QED BY <1>1, Invariance, PTL

-----------------------------------------------------------------------------
(* Conversations are whole. *)

\* Every second number is even.
LEMMA Parity ==
  ASSUME NEW n \in Nat
  PROVE  n % 2 \in {0, 1} /\ (n % 2 = 1 <=> (n + 1) % 2 = 0)
  OBVIOUS

LEMMA EmptyWhole == <<>> \in Seq(Messages) /\ Whole(<<>>) /\ \A n : Lacks(<<>>, n)
  BY DEF Whole, Lacks

\* A question joins a conversation that does not have it.
LEMMA QuestionPending ==
  ASSUME NEW h \in Seq(Messages), NEW n, Message("user", n) \in Messages, Whole(h), Lacks(h, n)
  PROVE  /\ Pending(Append(h, Message("user", n)), n)
         /\ \A m : Lacks(h, m) /\ m # n => Lacks(Append(h, Message("user", n)), m)
  <1> DEFINE c == Append(h, Message("user", n))
  <1>1. /\ c \in Seq(Messages) /\ Len(c) = Len(h) + 1 /\ Len(h) \in Nat
        /\ c[Len(c)] = Message("user", n) /\ \A i \in 1..Len(h) : c[i] = h[i]
    OBVIOUS
  <1>2. Before(c) = h
    BY DEF Before
  <1>3. \A m : Lacks(h, m) /\ m # n => Lacks(c, m)
    <2> HIDE DEF c
    <2> QED
      BY <1>1 DEF Lacks, Message
  <1> HIDE DEF c
  <1> QED
    BY <1>1, <1>2, <1>3 DEF Pending, c

\* A whole conversation ends with an answer.
LEMMA WholeIsEven ==
  ASSUME NEW h \in Seq(Messages), Whole(h)
  PROVE  Len(h) % 2 = 0
  <1>1. Len(h) \in Nat
    OBVIOUS
  <1>2. CASE Len(h) = 0
    BY <1>2
  <1>3. CASE Len(h) # 0
    <2>1. Len(h) \in 1..Len(h) /\ ~(Len(h) < Len(h))
      BY <1>1, <1>3
    <2>2. Len(h) % 2 # 1
      BY <2>1 DEF Whole
    <2> QED
      BY <1>1, <2>2, Parity
  <1> QED
    BY <1>2, <1>3

\* The answer makes it whole again.
LEMMA AnswerWhole ==
  ASSUME NEW c, NEW n, Pending(c, n), Message("assistant", n) \in Messages
  PROVE  /\ Append(c, Message("assistant", n)) \in Seq(Messages)
         /\ Whole(Append(c, Message("assistant", n)))
         /\ \A m : Lacks(c, m) /\ m # n => Lacks(Append(c, Message("assistant", n)), m)
  <1> DEFINE d == Append(c, Message("assistant", n))
             h == Before(c)
             k == Len(c) - 1
  <1>1. /\ c \in Seq(Messages) /\ Len(c) > 0 /\ c[Len(c)] = Message("user", n)
        /\ Whole(h) /\ Lacks(h, n)
    BY DEF Pending
  <1>2. k \in Nat /\ Len(c) = k + 1 /\ h \in Seq(Messages) /\ Len(h) = k
        /\ \A i \in 1..k : h[i] = c[i]
    <2>1. k \in Nat /\ Len(c) = k + 1 /\ h = SubSeq(c, 1, k)
      BY <1>1 DEF Before
    <2> HIDE DEF k, h
    <2>2. SubSeq(c, 1, k) \in Seq(Messages) /\ Len(SubSeq(c, 1, k)) = k
      BY <1>1, <2>1
    <2>3. \A i \in 1..k : SubSeq(c, 1, k)[i] = c[i]
      BY <1>1, <2>1
    <2> QED
      BY <2>1, <2>2, <2>3
  <1>3. /\ d \in Seq(Messages) /\ Len(d) = k + 2 /\ d[k + 2] = Message("assistant", n)
        /\ d[k + 1] = Message("user", n) /\ \A i \in 1..k : d[i] = h[i]
    BY <1>1, <1>2
  <1>4. k % 2 = 0 /\ (k + 1) % 2 = 1 /\ (k + 2) % 2 = 0
    <2>1. k % 2 = 0
      BY <1>1, <1>2, WholeIsEven
    <2> HIDE DEF k
    <2> QED
      BY <1>2, <2>1, Parity
  <1>5. \A i \in 1..k : h[i].num # n
    BY <1>1, <1>2 DEF Lacks
  <1> HIDE DEF d, h, k
  <1>6. \A i \in 1..Len(d) : i \in 1..k \/ i = k + 1 \/ i = k + 2
    BY <1>2, <1>3
  <1>7. Whole(d)
    <2>1. ASSUME NEW i \in 1..Len(d)
          PROVE  IF i % 2 = 1 THEN d[i].who = "user" /\ i < Len(d) /\ d[i + 1].num = d[i].num
                 ELSE d[i].who = "assistant"
      <3>1. CASE i \in 1..k
        <4>1. IF i % 2 = 1 THEN h[i].who = "user" /\ i < k /\ h[i + 1].num = h[i].num
              ELSE h[i].who = "assistant"
          BY <1>1, <1>2, <3>1 DEF Whole
        <4>2. i < k => i + 1 \in 1..k /\ i < k + 2
          BY <1>2, <3>1
        <4> QED
          BY <1>3, <3>1, <4>1, <4>2
      <3>2. CASE i = k + 1
        <4>1. i % 2 = 1 /\ i < Len(d) /\ i + 1 = k + 2
          BY <1>2, <1>3, <1>4, <3>2
        <4> QED
          BY <1>3, <3>2, <4>1 DEF Message
      <3>3. CASE i = k + 2
        BY <1>3, <1>4, <3>3 DEF Message
      <3> QED
        BY <1>6, <3>1, <3>2, <3>3
    <2>2. ASSUME NEW i \in 1..Len(d), NEW j \in 1..Len(d), d[i] = d[j]
          PROVE  i = j
      <3>1. d[k + 1].num = n /\ d[k + 2].num = n /\ d[k + 1] # d[k + 2]
        BY <1>3 DEF Message
      <3>2. \A x \in 1..k : d[x].num # n
        BY <1>3, <1>5
      <3>3. \A x, y \in 1..k : d[x] = d[y] => x = y
        BY <1>1, <1>2, <1>3 DEF Whole
      <3> QED
        BY <1>6, <2>2, <3>1, <3>2, <3>3
    <2> QED
      BY <2>1, <2>2 DEF Whole
  <1>8. \A m : Lacks(c, m) /\ m # n => Lacks(d, m)
    <2> SUFFICES ASSUME NEW m, Lacks(c, m), m # n, NEW i \in 1..Len(d) PROVE d[i].num # m
      BY DEF Lacks
    <2>1. i \in 1..k => c[i].num # m /\ c[i] = h[i]
      BY <1>2 DEF Lacks
    <2> QED
      BY <1>3, <1>6, <2>1 DEF Message
  <1> QED
    BY <1>3, <1>7, <1>8 DEF d

Silent(c, n) == c = NoChat \/ Lacks(c, n)
Right(s) == IF s.pc = "asking" THEN Pending(s.copy.chat, s.num) ELSE Sound(s.copy.chat)

\* One request moves; what it writes is what its copy had, what its copy has now
\* is right and says nothing new but in its own name.
LEMMA Talking ==
  ASSUME Inv, ChatInv, NEW r \in Requests, req[r].pc # "idle",
         NEW s, req' = [req EXCEPT ![r] = s], s.pc # "sent", UNCHANGED sent, Right(s),
         \A n : Unheard(n) /\ n # req[r].num => Silent(s.copy.chat, n),
         \A k \in Keys : Stored(k)' =>
            \/ Stored(k) /\ row'[k].chat = row[k].chat
            \/ req[r].pc # "asking" /\ row'[k].chat = req[r].copy.chat
  PROVE  ChatInv'
  <1>1. req'[r] = s /\ \A q \in Requests \ {r} : req'[q] = req[q]
    BY DEF Inv, TypeOK
  <1>2. Talks'
    <2>1. \A k \in Keys : Stored(k)' => Sound(row'[k].chat)
      BY DEF ChatInv, Talks
    <2>2. \A q \in Requests : Right(req'[q])
      BY <1>1 DEF ChatInv, Talks, Right
    <2> QED
      BY <2>1, <2>2 DEF Talks, Right
  <1>3. ASSUME NEW n \in 1..MaxSent,
               n > sent \/ (\E q \in Requests : req'[q].pc = "sent" /\ req'[q].num = n)
        PROVE  Unheard(n)'
    <2>1. n > sent \/ (\E q \in Requests \ {r} : req[q].pc = "sent" /\ req[q].num = n)
      BY <1>1, <1>3
    <2>2. Unheard(n)
      BY <2>1 DEF ChatInv, AskedOnce
    <2>3. n # req[r].num
      <3>1. r \in InFlight /\ req[r].num \in 1..sent /\ sent \in Nat
        BY DEF Inv, TypeOK, Numbered, InFlight
      <3>2. \A q \in Requests \ {r} : req[q].pc = "sent" => req[q].num # req[r].num
        BY <3>1 DEF Inv, Numbered, InFlight
      <3>3. ~(req[r].num > sent)
        BY <3>1
      <3> QED
        BY <2>1, <3>2, <3>3
    <2>4. \A k \in Keys : Stored(k)' => Silent(row'[k].chat, n)
      BY <2>2 DEF Unheard, Silent
    <2>5. \A q \in Requests : Silent(req'[q].copy.chat, n)
      BY <1>1, <2>2, <2>3 DEF Unheard, Silent
    <2> QED
      BY <2>4, <2>5 DEF Unheard, Silent
  <1> QED
    BY <1>2, <1>3 DEF ChatInv, AskedOnce

\* What a view finds in the session.
LEMMA OpenedChat ==
  ASSUME Inv, ChatInv, NEW r \in Requests, req[r].pc = "sent"
  PROVE  /\ Sound(Opened(r).copy.chat) /\ Sound(Said(Opened(r)))
         /\ Said(Opened(r)) \in Seq(Messages) /\ Whole(Said(Opened(r)))
         /\ Lacks(Said(Opened(r)), req[r].num)
         /\ \A n : Unheard(n) => /\ Silent(Opened(r).copy.chat, n)
                                /\ Lacks(Said(Opened(r)), n)
  <1>1. req[r] \in Asked /\ req[r].key \in issued \cup {NoKey} /\ req[r].copy = Empty
    BY DEF Inv, TypeOK, Copied
  <1>2. \/ Opened(r).copy.chat = NoChat
        \/ \E k \in Keys : Stored(k) /\ Opened(r).copy.chat = row[k].chat
    <2>1. CASE Stored(req[r].key)
      <3>1. req[r].key \in Keys /\ Opened(r).copy = row[req[r].key]
        BY <1>1, <2>1, RowTyped DEF Inv, Opened, Asked
      <3> QED
        BY <2>1, <3>1
    <2>2. CASE ~Stored(req[r].key)
      BY <1>1, <2>2 DEF Opened, Asked, Empty
    <2> QED
      BY <2>1, <2>2
  <1>3. Sound(Opened(r).copy.chat)
    BY <1>2 DEF ChatInv, Talks, Sound
  <1>4. \A n : Unheard(n) => Silent(Opened(r).copy.chat, n)
    BY <1>2 DEF Unheard, Silent
  <1>5. Unheard(req[r].num)
    <2>1. req[r].num \in 1..sent /\ sent \in 0..MaxSent
      BY DEF Inv, TypeOK, Numbered, InFlight
    <2>2. req[r].num \in 1..MaxSent
      BY <2>1, MaxSentAssumption
    <2> QED
      BY <2>2 DEF ChatInv, AskedOnce
  <1> QED
    BY <1>3, <1>4, <1>5, EmptyWhole DEF Said, Sound, Silent

\* A view that answers with a conversation it found, or with none.
LEMMA AnswerTalks ==
  ASSUME Inv, ChatInv, NEW r \in Requests, req[r].pc # "idle", NEW t \in Asked, NEW b,
         Answer(r, t, b), Sound(t.copy.chat),
         \A n : Unheard(n) /\ n # req[r].num => Silent(t.copy.chat, n),
         UNCHANGED sent,
         \A k \in Keys : Stored(k)' =>
            \/ Stored(k) /\ row'[k].chat = row[k].chat
            \/ req[r].pc # "asking" /\ row'[k].chat = req[r].copy.chat
  PROVE  ChatInv'
  <1> DEFINE s == [t EXCEPT !.pc = "reply", !.save = b]
  <1>1. req' = [req EXCEPT ![r] = s] /\ s.pc = "reply" /\ s.copy = t.copy
    BY DEF Answer, Asked
  <1> HIDE DEF s
  <1> QED
    BY <1>1, Talking DEF Right

\* The copy of a request that is not asking is right, and says nothing new.
LEMMA OwnChat ==
  ASSUME ChatInv, NEW r \in Requests
  PROVE  /\ req[r].pc # "asking" => Sound(req[r].copy.chat)
         /\ \A n : Unheard(n) => Silent(req[r].copy.chat, n)
  BY DEF ChatInv, Talks, Unheard, Silent

LEMMA NoChatFacts == Sound(NoChat) /\ Sound(<<>>) /\ \A n : Silent(NoChat, n) /\ Silent(<<>>, n)
  BY EmptyWhole DEF Sound, Silent

\* Pages that leave the conversation as it is.
LEMMA OtherTalks ==
  ASSUME Inv, ChatInv, NEW r \in Requests,
         \/ Refuse(r) \/ Look(r) \/ Checkout(r) \/ SignInAgain(r)
         \/ AddToCart(r) \/ RemoveFromCart(r) \/ DeleteFromCart(r) \/ PaymentSuccess(r)
  PROVE  ChatInv'
  <1>1. req[r] \in Asked /\ Kept /\ req[r].pc \in {"sent", "login"}
    BY DEF Inv, TypeOK, At, Refuse, Look, Checkout, SignInAgain, AddToCart, RemoveFromCart,
           DeleteFromCart, PaymentSuccess
  <1>2. ASSUME NEW t \in Asked, NEW b, Answer(r, t, b),
               \/ t.copy.chat = req[r].copy.chat
               \/ req[r].pc = "sent" /\ t.copy.chat = Opened(r).copy.chat
        PROVE  ChatInv'
    <2>1. \A k \in Keys : Stored(k)' => Stored(k) /\ row'[k].chat = row[k].chat
      BY <1>1 DEF Kept, Stored
    <2>2. Sound(t.copy.chat) /\ \A n : Unheard(n) => Silent(t.copy.chat, n)
      BY <1>1, <1>2, OwnChat, OpenedChat
    <2> QED
      BY <1>1, <1>2, <2>1, <2>2, AnswerTalks DEF Kept
  <1>3. CASE Refuse(r) \/ SignInAgain(r)
    BY <1>1, <1>2, <1>3 DEF Refuse, SignInAgain
  <1>4. CASE Look(r) \/ Checkout(r)
    <2>1. req[r].pc = "sent" /\ Answer(r, Opened(r), FALSE)
      BY <1>4 DEF Look, Checkout, At
    <2> QED
      BY <1>2, <2>1, Opening
  <1>5. CASE AddToCart(r) \/ RemoveFromCart(r) \/ DeleteFromCart(r) \/ PaymentSuccess(r)
    <2> DEFINE o == Opened(r)
    <2>1. req[r].pc = "sent" /\ o \in Asked /\ o.copy \in Sessions
      BY <1>5, Opening DEF At, AddToCart, RemoveFromCart, DeleteFromCart, PaymentSuccess
    <2>2. ASSUME NEW i, NEW n, i \in Items => n \in Nat, Answer(r, SetCart(o, i, n), TRUE)
          PROVE  ChatInv'
      <3>1. [o.copy.cart EXCEPT ![i] = n] \in [Items -> Nat]
        BY <2>1, <2>2 DEF Sessions
      <3> DEFINE c == [o.copy.cart EXCEPT ![i] = n]
                 t == [o EXCEPT !.copy.cart = c]
      <3>2. SetCart(o, i, n) = t
        BY <2>1 DEF SetCart, Asked, Sessions
      <3> HIDE DEF c, o
      <3>3. t \in Asked /\ t.copy.chat = o.copy.chat
        BY <2>1, <3>1, ZenonT(60) DEF Asked, Sessions, c
      <3> HIDE DEF t
      <3> QED
        BY <1>2, <2>1, <2>2, <3>2, <3>3 DEF o
    <2>3. CASE PaymentSuccess(r)
      <3> DEFINE t == [o EXCEPT !.copy.cart = EmptyCart]
      <3>1. EmptyCart \in [Items -> Nat] /\ Answer(r, t, TRUE)
        BY <2>3 DEF EmptyCart, PaymentSuccess
      <3> HIDE DEF o
      <3>2. t \in Asked /\ t.copy.chat = o.copy.chat
        BY <2>1, <3>1, ZenonT(60) DEF Asked, Sessions
      <3> HIDE DEF t
      <3> QED
        BY <1>2, <2>1, <3>1, <3>2 DEF o
    <2>4. CASE AddToCart(r) \/ RemoveFromCart(r) \/ DeleteFromCart(r)
      <3>1. \E i, n : Answer(r, SetCart(o, i, n), TRUE) /\ (i \in Items => n \in Nat)
        <4>1. o.item \in Items => o.copy.cart[o.item] \in Nat
          BY <2>1 DEF Sessions
        <4> DEFINE n == o.copy.cart[o.item]
        <4>2. CASE AddToCart(r)
          <5>1. Answer(r, SetCart(o, o.item, n + 1), TRUE)
            BY <4>2 DEF AddToCart
          <5>2. o.item \in Items => n + 1 \in Nat
            BY <4>1
          <5> QED
            BY <5>1, <5>2
        <4>3. CASE RemoveFromCart(r)
          <5>1. Answer(r, SetCart(o, o.item, IF n > 1 THEN n - 1 ELSE 0), TRUE)
            BY <4>3 DEF RemoveFromCart
          <5>2. o.item \in Items => (IF n > 1 THEN n - 1 ELSE 0) \in Nat
            BY <4>1
          <5> QED
            BY <5>1, <5>2
        <4>4. CASE DeleteFromCart(r)
          <5>1. Answer(r, SetCart(o, o.item, 0), TRUE)
            BY <4>4 DEF DeleteFromCart
          <5> QED
            BY <5>1
        <4> QED
          BY <2>4, <4>2, <4>3, <4>4
      <3> HIDE DEF o
      <3> QED
        BY <2>2, <3>1
    <2> QED
      BY <1>5, <2>3, <2>4
  <1> QED
    BY <1>3, <1>4, <1>5

\* Pages of the chat.
LEMMA ChatTalks ==
  ASSUME Inv, ChatInv, NEW r \in Requests,
         ChatPage(r) \/ ChatSend(r) \/ GroqAnswers(r) \/ GroqFails(r) \/ ChatClear(r)
  PROVE  ChatInv'
  <1>1. /\ req[r] \in Asked /\ Kept /\ req[r].pc \in {"sent", "asking"}
        /\ \A who \in {"user", "assistant"} : Message(who, req[r].num) \in Messages
    BY DEF Inv, TypeOK, At, ChatPage, ChatSend, GroqAnswers, GroqFails, ChatClear,
           Asked, Message, Messages
  <1>2. /\ UNCHANGED sent
        /\ \A k \in Keys : Stored(k)' => Stored(k) /\ row'[k].chat = row[k].chat
    BY <1>1 DEF Kept, Stored
  <1>3. ASSUME req[r].pc = "asking"
        PROVE  /\ Pending(req[r].copy.chat, req[r].num) /\ req[r].copy.chat \in Seq(Messages)
               /\ \A n : Unheard(n) => Lacks(req[r].copy.chat, n)
    BY <1>3, OwnChat, NoChatAssumption DEF ChatInv, Talks, Pending, Silent
  <1>4. ASSUME NEW h \in Seq(Messages), NEW b \in BOOLEAN, req[r].pc = "sent", Sound(h),
               Answer(r, [Opened(r) EXCEPT !.copy.chat = h], b),
               \A n : Unheard(n) => Lacks(h, n)
        PROVE  ChatInv'
    <2> DEFINE t == [Opened(r) EXCEPT !.copy.chat = h]
    <2>1. t \in Asked /\ t.copy.chat = h
      BY <1>4, Opening, ZenonT(60) DEF Asked, Sessions
    <2>2. Answer(r, t, b) /\ \A n : Unheard(n) => Silent(h, n)
      BY <1>4 DEF Silent
    <2> HIDE DEF t
    <2> QED
      BY <1>1, <1>2, <1>4, <2>1, <2>2, AnswerTalks
  <1>5. ASSUME NEW h, NEW b \in BOOLEAN, req[r].pc = "asking", h \in Seq(Messages), Whole(h),
               Answer(r, [req[r] EXCEPT !.copy.chat = h], b),
               \A n : Unheard(n) /\ n # req[r].num => Lacks(h, n)
        PROVE  ChatInv'
    <2> DEFINE t == [req[r] EXCEPT !.copy.chat = h]
    <2>1. t \in Asked /\ t.copy.chat = h
      BY <1>1, <1>5 DEF Asked, Sessions
    <2>2. Answer(r, t, b) /\ Sound(h) /\ \A n : Unheard(n) /\ n # req[r].num => Silent(h, n)
      BY <1>5 DEF Silent, Sound
    <2> HIDE DEF t
    <2> QED
      BY <1>1, <1>2, <1>5, <2>1, <2>2, AnswerTalks
  <1>6. CASE ChatPage(r)
    <2>1. req[r].pc = "sent"
          /\ \E b \in BOOLEAN : Answer(r, [Opened(r) EXCEPT !.copy.chat = Said(Opened(r))], b)
      BY <1>6 DEF ChatPage, At
    <2> QED
      BY <1>4, <2>1, OpenedChat
  <1>7. CASE ChatClear(r)
    BY <1>4, <1>7, EmptyWhole, NoChatFacts DEF ChatClear, At
  <1>8. CASE GroqAnswers(r)
    <2> DEFINE h == Append(req[r].copy.chat, Message("assistant", req[r].num))
    <2>1. req[r].pc = "asking" /\ Answer(r, [req[r] EXCEPT !.copy.chat = h], TRUE)
      BY <1>8 DEF GroqAnswers
    <2>2. h \in Seq(Messages) /\ Whole(h)
          /\ \A n : Lacks(req[r].copy.chat, n) /\ n # req[r].num => Lacks(h, n)
      BY <1>1, <1>3, <2>1, AnswerWhole
    <2>3. \A n : Unheard(n) /\ n # req[r].num => Lacks(h, n)
      BY <1>3, <2>1, <2>2
    <2> HIDE DEF h
    <2> QED
      BY <1>5, <2>1, <2>2, <2>3
  <1>9. CASE GroqFails(r)
    <2> DEFINE h == Before(req[r].copy.chat)
    <2>1. req[r].pc = "asking" /\ Answer(r, [req[r] EXCEPT !.copy.chat = h], FALSE)
      BY <1>9 DEF GroqFails, Before
    <2>2. h \in Seq(Messages) /\ Whole(h)
      BY <1>3, <2>1 DEF Before, Pending
    <2>3. \A n : Unheard(n) => Lacks(h, n)
      <3> DEFINE c == req[r].copy.chat
      <3>1. c \in Seq(Messages) /\ Len(c) > 0
        BY <1>3, <2>1 DEF Pending
      <3>2. Len(h) = Len(c) - 1 /\ \A i \in 1..Len(h) : h[i] = c[i] /\ i \in 1..Len(c)
        <4> HIDE DEF c
        <4> QED
          BY <3>1 DEF Before, c
      <3> QED
        BY <1>3, <2>1, <3>2 DEF Lacks
    <2> HIDE DEF h
    <2> QED
      BY <1>5, <2>1, <2>2, <2>3
  <1>10. CASE ChatSend(r)
    <2> DEFINE o == Opened(r)
               h == Append(Said(o), Message("user", req[r].num))
               s == [o EXCEPT !.pc = "asking", !.copy.chat = h]
    <2>1. req[r].pc = "sent" /\ req' = [req EXCEPT ![r] = s] /\ o.num = req[r].num
      BY <1>10, Opening DEF ChatSend, At
    <2>2. Pending(h, req[r].num) /\ h \in Seq(Messages)
          /\ \A n : Unheard(n) /\ n # req[r].num => Lacks(h, n)
      BY <1>1, <2>1, OpenedChat, QuestionPending DEF Pending
    <2> HIDE DEF h
    <2>3. s.pc = "asking" /\ s.num = req[r].num /\ s.copy.chat = h
      BY <2>1, <2>2, Opening, ZenonT(60) DEF Asked, Sessions
    <2>4. Right(s) /\ \A n : Unheard(n) /\ n # req[r].num => Silent(s.copy.chat, n)
      BY <2>2, <2>3 DEF Right, Silent
    <2> HIDE DEF s
    <2> QED
      BY <1>1, <1>2, <2>1, <2>3, <2>4, Talking
  <1> QED
    BY <1>6, <1>7, <1>8, <1>9, <1>10

\* Logins and logouts take the conversation along, or leave it.
LEMMA LoginTalks ==
  ASSUME Inv, ChatInv, NEW r \in Requests,
         OpenForLogin(r) \/ CycleKey(r) \/ ChangeUser(r) \/ Logout(r)
  PROVE  ChatInv'
  <1>1. req[r] \in Asked /\ req[r].pc \in {"sent", "login"}
    BY DEF Inv, TypeOK, At, OpenForLogin, CycleKey, ChangeUser, Logout
  <1>2. UNCHANGED sent
    BY DEF OpenForLogin, CycleKey, ChangeUser, Logout, Kept, Flush
  <1>3. CASE OpenForLogin(r)
    <2> DEFINE o == Opened(r)
               s == [o EXCEPT !.pc = "login"]
    <2>1. req[r].pc = "sent" /\ req' = [req EXCEPT ![r] = s] /\ Kept /\ o \in Asked
      BY <1>3, Opening DEF OpenForLogin, At
    <2>2. s.pc = "login" /\ s.copy = o.copy
      BY <2>1 DEF Asked
    <2>3. Right(s) /\ \A n : Unheard(n) => Silent(s.copy.chat, n)
      BY <2>1, <2>2, OpenedChat DEF Right
    <2>4. \A k \in Keys : Stored(k)' => Stored(k) /\ row'[k].chat = row[k].chat
      BY <2>1 DEF Kept, Stored
    <2> HIDE DEF s, o
    <2> QED
      BY <1>1, <1>2, <2>1, <2>2, <2>3, <2>4, Talking
  <1>4. CASE CycleKey(r)
    <2>1. PICK k \in Keys \ issued :
            /\ Answer(r, SignedIn([req[r] EXCEPT !.key = k]), TRUE)
            /\ row' = [q \in Keys |-> IF q = k THEN req[r].copy
                                      ELSE IF q = req[r].key THEN NoRow ELSE row[q]]
      BY <1>4 DEF CycleKey
    <2> DEFINE u == [req[r] EXCEPT !.key = k]
               t == SignedIn(u)
    <2>2. u \in Asked /\ u.copy = req[r].copy
      BY <1>1, <2>1 DEF Asked
    <2> HIDE DEF u
    <2>3. t \in Asked /\ t.copy.chat = req[r].copy.chat
      BY <2>2 DEF Asked, SignedIn, Sessions
    <2>4. Answer(r, t, TRUE)
      BY <2>1 DEF u
    <2>5. \A q \in Keys : Stored(q)' => \/ Stored(q) /\ row'[q].chat = row[q].chat
                                        \/ row'[q].chat = req[r].copy.chat
      BY <2>1 DEF Stored
    <2> HIDE DEF t
    <2> QED
      BY <1>1, <1>2, <2>3, <2>4, <2>5, OwnChat, AnswerTalks
  <1>5. ASSUME NEW o \in Asked, NEW t \in Asked, NEW b, Flush(r, o), Answer(r, t, b),
               t.copy.chat = NoChat
        PROVE  ChatInv'
    <2>1. \A k \in Keys : Stored(k)' => Stored(k) /\ row'[k].chat = row[k].chat
      BY <1>5 DEF Flush, Stored
    <2> QED
      BY <1>1, <1>2, <1>5, <2>1, NoChatFacts, AnswerTalks
  <1>6. \A o \in Asked : Flushed(o) \in Asked /\ Flushed(o).copy = Empty
    BY EmptyTyped DEF Flushed, Asked
  <1>7. CASE Logout(r)
    <2>1. req[r].pc = "sent" /\ Flush(r, Opened(r)) /\ Answer(r, Flushed(Opened(r)), FALSE)
      BY <1>7 DEF Logout, At
    <2>2. Opened(r) \in Asked
      BY <2>1, Opening
    <2>3. Flushed(Opened(r)) \in Asked /\ Flushed(Opened(r)).copy.chat = NoChat
      BY <1>6, <2>2 DEF Empty
    <2> QED
      BY <1>5, <2>1, <2>2, <2>3
  <1>8. CASE ChangeUser(r)
    <2> DEFINE f == Flushed(req[r])
               t == SignedIn(f)
    <2>1. f \in Asked /\ f.copy.chat = NoChat
      BY <1>1, <1>6 DEF Empty
    <2>2. Flush(r, req[r]) /\ Answer(r, t, TRUE)
      BY <1>8 DEF ChangeUser
    <2> HIDE DEF f
    <2>3. t \in Asked /\ t.copy.chat = NoChat
      BY <2>1 DEF SignedIn, Asked, Sessions
    <2> HIDE DEF t
    <2> QED
      BY <1>1, <1>5, <2>2, <2>3
  <1> QED
    BY <1>3, <1>4, <1>7, <1>8

\* The middleware writes a copy that is done, and nobody else does.
LEMMA RespondTalks ==
  ASSUME Inv, ChatInv, NEW r \in Requests, Respond(r) \/ Die(r)
  PROVE  ChatInv'
  <1>1. Done(r) /\ req[r].pc # "idle" /\ UNCHANGED sent
    BY DEF Respond, Save, Interrupted, Insert, Reply, Die, Kept
  <1>2. req' = [req EXCEPT ![r] = Idle] /\ Idle.pc = "idle" /\ Idle.copy.chat = NoChat
    BY <1>1 DEF Done, Idle, Empty
  <1>3. Right(Idle) /\ \A n : Silent(Idle.copy.chat, n)
    BY <1>2, NoChatFacts DEF Right
  <1>4. \A k \in Keys : Stored(k)' =>
            \/ Stored(k) /\ row'[k].chat = row[k].chat
            \/ req[r].pc # "asking" /\ row'[k].chat = req[r].copy.chat
    <2>1. row \in [Keys -> Sessions \cup {NoRow}]
      BY DEF Inv, TypeOK
    <2>2. CASE UNCHANGED row
      BY <2>2 DEF Stored
    <2>3. CASE ~(UNCHANGED row)
      <3>1. req[r].pc = "reply" /\ \E q : row' = [row EXCEPT ![q] = req[r].copy]
        BY <2>3 DEF Respond, Save, Interrupted, Insert, Reply, Die, Kept
      <3>2. PICK q : row' = [row EXCEPT ![q] = req[r].copy]
        BY <3>1
      <3>3. \A k \in Keys : row'[k] = row[k] \/ row'[k] = req[r].copy
        BY <2>1, <3>2
      <3> QED
        BY <3>1, <3>3 DEF Stored
    <2> QED
      BY <2>2, <2>3
  <1> QED
    BY <1>1, <1>2, <1>3, <1>4, Talking

\* The number of a new request is in nobody's conversation.
LEMMA SendTalks ==
  ASSUME Inv, ChatInv, NEW r \in Requests, NEW w, NEW i, Send(r, w, i)
  PROVE  ChatInv'
  <1>1. sent' = sent + 1 /\ sent \in Nat /\ UNCHANGED row
    <2>1. sent \in 0..MaxSent
      BY DEF Inv, TypeOK
    <2>2. sent \in Nat
      BY <2>1, MaxSentAssumption
    <2> QED
      BY <2>2 DEF Send
  <1>2. \A q \in Requests : req[q] \in Asked
    BY DEF Inv, TypeOK
  <1>3. req'[r].pc = "sent" /\ req'[r].num = sent' /\ req'[r].copy = Empty
    <2>1. req'[r] = [Idle EXCEPT !.pc = "sent", !.what = w, !.item = i, !.num = sent',
                                 !.had = cookie, !.key = cookie, !.alone = InFlight = {}]
      BY DEF Send
    <2> QED
      BY <2>1 DEF Idle
  <1>4. \A q \in Requests \ {r} : /\ req'[q].pc = req[q].pc /\ req'[q].copy = req[q].copy
                                   /\ req'[q].num = req[q].num
    <2> SUFFICES ASSUME NEW q \in Requests \ {r}
                 PROVE  /\ req'[q].pc = req[q].pc /\ req'[q].copy = req[q].copy
                        /\ req'[q].num = req[q].num
      OBVIOUS
    <2> DEFINE b == req[q].alone /\ q \notin InFlight
    <2>1. req'[q] = [req[q] EXCEPT !.alone = b]
      BY DEF Send
    <2> HIDE DEF b
    <2> QED
      BY <1>2, <2>1 DEF Asked
  <1>5. Empty.chat = NoChat
    BY DEF Empty
  <1>6. Talks'
    BY <1>1, <1>3, <1>4, <1>5, NoChatFacts DEF ChatInv, Talks, Stored
  <1>7. ASSUME NEW n \in 1..MaxSent,
               n > sent' \/ (\E q \in Requests : req'[q].pc = "sent" /\ req'[q].num = n)
        PROVE  Unheard(n)'
    <2>1. n > sent \/ (\E q \in Requests : req[q].pc = "sent" /\ req[q].num = n)
      BY <1>1, <1>3, <1>4, <1>7
    <2>2. Unheard(n)
      BY <2>1 DEF ChatInv, AskedOnce
    <2> QED
      BY <1>1, <1>3, <1>4, <1>5, <2>2 DEF Unheard, Stored
  <1> QED
    BY <1>6, <1>7 DEF ChatInv, AskedOnce

LEMMA ChatStart == Init => ChatInv
  <1> SUFFICES ASSUME Init PROVE ChatInv
    OBVIOUS
  <1>1. \A r \in Requests : req[r].pc = "idle" /\ req[r].copy.chat = NoChat
    BY DEF Init, Idle, Empty
  <1>2. \A k \in Keys : ~Stored(k)
    BY DEF Init, Stored
  <1> QED
    BY <1>1, <1>2, NoChatFacts DEF ChatInv, Talks, AskedOnce, Unheard

LEMMA ChatNext == Inv /\ ChatInv /\ [Next]_vars => ChatInv'
  <1> SUFFICES ASSUME Inv, ChatInv, [Next]_vars PROVE ChatInv'
    OBVIOUS
  <1>1. CASE UNCHANGED vars
    BY <1>1 DEF vars, ChatInv, Talks, AskedOnce, Unheard, Stored
  <1>2. ASSUME NEW r \in Requests, View(r) PROVE ChatInv'
    BY <1>2, OtherTalks, ChatTalks, LoginTalks DEF View
  <1> QED
    BY <1>1, <1>2, SendTalks, RespondTalks DEF Next, Finished

\* No copy that may be saved holds half an exchange or one question twice, and
\* whoever asks Groq has a conversation without the question (views.py:303-344).
THEOREM WholeTalks == Spec => []ChatInv
  BY InvInit, InvNext, ChatStart, ChatNext, PTL DEF Spec

\* A stored conversation is questions with their answers, none twice and none
\* alone, for any number of requests that overlap, fail or are killed.
THEOREM WholeConversation == Spec => []Conversation
  <1>1. ChatInv => Conversation
    BY DEF ChatInv, Talks, Sound, Conversation
  <1> QED
    BY <1>1, WholeTalks, PTL

-----------------------------------------------------------------------------
(* A request that overlaps no other one. *)

LoginPages == {"login", "register"}

\* What the visitor has while nobody is between a login and its response, and the
\* key a view comes by; then the same with a login on its way.
Has(rows, k) == k # NoKey /\ rows[k] # NoRow
Plain(rows, key) == IF Has(rows, key) THEN rows[key] ELSE Empty
Own(rows, key) == IF Has(rows, key) THEN key ELSE NoKey
Base(rows, key, s) ==
    IF s.pc = "reply" /\ s.what \in LoginPages /\ Has(rows, s.key) THEN rows[s.key]
    ELSE Plain(rows, key)

\* CustomerSession!Effect as a relation of sessions, or no effect.
SaidIn(b) == IF b.chat = NoChat THEN <<>> ELSE b.chat
Turns(w, i, n, b, c) ==
    \/ c = b
    \/ w = "add" /\ c = [b EXCEPT !.cart = [@ EXCEPT ![i] = b.cart[i] + 1]]
    \/ w = "remove" /\ b.cart[i] > 0 /\ c = [b EXCEPT !.cart = [@ EXCEPT ![i] = b.cart[i] - 1]]
    \/ w = "delete" /\ c = [b EXCEPT !.cart = [@ EXCEPT ![i] = 0]]
    \/ w = "success" /\ c = [b EXCEPT !.cart = EmptyCart]
    \/ w = "send" /\ c = [b EXCEPT !.chat = SaidIn(b) \o Customer!Exchange(n)]
    \/ w = "chat" /\ c = [b EXCEPT !.chat = SaidIn(b)]
    \/ w = "clear" /\ c = [b EXCEPT !.chat = <<>>]
    \/ w \in LoginPages /\ b.user = 0 /\ c = [b EXCEPT !.user = n]
    \/ w = "logout" /\ c = Empty
    \/ w \in LoginPages /\ b.user # 0 /\ c = Empty

\* Where a request is in its code tells what its copy is to what the visitor has:
\* the same, or what the response will make of it.
Fits(rows, key, s) ==
    /\ s.had = key
    /\ s.pc = "sent" => s.key = key
    /\ s.pc = "login" =>
         s.what \in LoginPages /\ s.key = Own(rows, key) /\ s.copy = Plain(rows, key)
    /\ s.pc = "asking" =>
         /\ s.what = "send" /\ s.key = Own(rows, key)
         /\ s.copy = [Plain(rows, key) EXCEPT
                        !.chat = Append(SaidIn(Plain(rows, key)), Message("user", s.num))]
    /\ s.pc = "reply" /\ ~s.save => s.key \in {key, Own(rows, key)}
    /\ s.pc = "reply" /\ s.save =>
         /\ Turns(s.what, s.item, s.num, Base(rows, key, s), s.copy)
         /\ \/ s.key = Own(rows, key)
            \/ s.what \in LoginPages /\ Has(rows, s.key) /\ ~Has(rows, key)

Solo(r) == req[r].pc # "idle" /\ req[r].alone
Alone(r) == (\A q \in Requests \ {r} : req[q].pc = "idle") /\ Fits(row, cookie, req[r])
SoloInv == \A r \in Requests : Solo(r) => Alone(r)

\* What AloneIsAtomic says of the step of r.
Handled(r) ==
    \/ Customer!Effect(req[r].what, req[r].item, req[r].num)
    \/ UNCHANGED Customer!vars
    \/ req[r].pc = "reply" /\ Die(r) /\ Customer!Leave

\* What the visitor sees, if only r may be about to respond.
LEMMA SeenIs ==
  ASSUME NEW r \in Requests, \A q \in Requests \ {r} : req[q].pc # "reply",
         req[r].pc = "reply" => req[r].had = cookie
  PROVE  Seen = Base(row, cookie, req[r])
  <1> DEFINE moved == {q \in Requests : /\ req[q].pc = "reply" /\ req[q].what \in LoginPages
                                        /\ req[q].had = cookie /\ Stored(req[q].key)}
  <1>1. Seen = IF moved # {} THEN row[req[CHOOSE q \in moved : TRUE].key]
               ELSE Plain(row, cookie)
    BY DEF Seen, Plain, LoginPages, Stored, Has
  <1>2. moved = {} \/ moved = {r}
    OBVIOUS
  <1>3. CASE moved = {r}
    <2>1. (CHOOSE q \in moved : TRUE) = r
      BY <1>3
    <2>2. req[r].pc = "reply" /\ req[r].what \in LoginPages /\ Has(row, req[r].key)
      BY <1>3 DEF Stored, Has
    <2> QED
      BY <1>1, <1>3, <2>1, <2>2 DEF Base
  <1>4. CASE moved = {}
    <2>1. ~(req[r].pc = "reply" /\ req[r].what \in LoginPages /\ Has(row, req[r].key))
      BY <1>4 DEF Stored, Has
    <2> QED
      BY <1>1, <1>4, <2>1 DEF Base
  <1> QED
    BY <1>2, <1>3, <1>4

LEMMA SeenNext ==
  ASSUME NEW r \in Requests, \A q \in Requests \ {r} : req'[q].pc # "reply",
         req'[r].pc = "reply" => req'[r].had = cookie'
  PROVE  Seen' = Base(row', cookie', req'[r])
  <1> DEFINE moved == {q \in Requests : /\ req'[q].pc = "reply" /\ req'[q].what \in LoginPages
                                        /\ req'[q].had = cookie' /\ Stored(req[q].key)'}
  <1>1. Seen' = IF moved # {} THEN row'[req'[CHOOSE q \in moved : TRUE].key]
                ELSE Plain(row', cookie')
    BY DEF Seen, Plain, LoginPages, Stored, Has
  <1>2. moved = {} \/ moved = {r}
    OBVIOUS
  <1>3. CASE moved = {r}
    <2>1. (CHOOSE q \in moved : TRUE) = r
      BY <1>3
    <2>2. req'[r].pc = "reply" /\ req'[r].what \in LoginPages /\ Has(row', req'[r].key)
      BY <1>3 DEF Stored, Has
    <2> QED
      BY <1>1, <1>3, <2>1, <2>2 DEF Base
  <1>4. CASE moved = {}
    <2>1. ~(req'[r].pc = "reply" /\ req'[r].what \in LoginPages /\ Has(row', req'[r].key))
      BY <1>4 DEF Stored, Has
    <2> QED
      BY <1>1, <1>4, <2>1 DEF Base
  <1> QED
    BY <1>2, <1>3, <1>4

LEMMA Turned ==
  ASSUME NEW w, NEW i, NEW n, Seen \in Sessions, Turns(w, i, n, Seen, Seen')
  PROVE  Customer!Effect(w, i, n) \/ UNCHANGED Customer!vars
  <1>1. CASE Seen' = Seen
    BY <1>1 DEF Customer!vars
  <1>2. CASE \/ w = "add" /\ Seen' = [Seen EXCEPT !.cart = [@ EXCEPT ![i] = Seen.cart[i] + 1]]
             \/ /\ w = "remove" /\ Seen.cart[i] > 0
                /\ Seen' = [Seen EXCEPT !.cart = [@ EXCEPT ![i] = Seen.cart[i] - 1]]
             \/ w = "delete" /\ Seen' = [Seen EXCEPT !.cart = [@ EXCEPT ![i] = 0]]
             \/ w = "success" /\ Seen' = [Seen EXCEPT !.cart = EmptyCart]
    BY <1>2 DEF Sessions, Customer!Effect, Customer!Add, Customer!Remove, Customer!Discard,
                Customer!Pay, Customer!EmptyCart, EmptyCart
  <1>3. CASE \/ w = "send" /\ Seen' = [Seen EXCEPT !.chat = SaidIn(Seen) \o Customer!Exchange(n)]
             \/ w = "chat" /\ Seen' = [Seen EXCEPT !.chat = SaidIn(Seen)]
             \/ w = "clear" /\ Seen' = [Seen EXCEPT !.chat = <<>>]
    BY <1>3 DEF Sessions, SaidIn, Customer!Effect, Customer!Talk, Customer!OpenChat,
                Customer!ClearChat, Customer!Said
  <1>4. CASE \/ w \in LoginPages /\ Seen.user = 0 /\ Seen' = [Seen EXCEPT !.user = n]
             \/ w = "logout" /\ Seen' = Empty
             \/ w \in LoginPages /\ Seen.user # 0 /\ Seen' = Empty
    BY <1>4 DEF Sessions, LoginPages, Customer!Effect, Customer!SignIn, Customer!Leave,
                Empty, EmptyCart, Customer!EmptyCart
  <1> QED
    BY <1>1, <1>2, <1>3, <1>4 DEF Turns

\* A step of r does what it may to the session, and leaves the others alone.
Goes(r) ==
    /\ SoloInv'
    /\ Solo(r) => Handled(r)
    /\ \A q \in Requests \ {r} : req'[q] = req[q]

LEMMA PlainTyped ==
  ASSUME Inv, NEW r \in Requests
  PROVE  /\ Plain(row, cookie) \in Sessions /\ Base(row, cookie, req[r]) \in Sessions
         /\ req[r] \in Asked /\ req[r].key \in issued \cup {NoKey}
         /\ cookie \in issued \cup {NoKey}
  <1>1. \A k \in issued \cup {NoKey} : Has(row, k) => row[k] \in Sessions
    BY DEF Inv, TypeOK, Has
  <1>2. req[r] \in Asked /\ req[r].key \in issued \cup {NoKey} /\ cookie \in issued \cup {NoKey}
    BY DEF Inv, TypeOK
  <1> QED
    BY <1>1, <1>2, EmptyTyped DEF Plain, Base

LEMMA Going ==
  ASSUME Inv, SoloInv, NEW r \in Requests, req[r].pc # "idle",
         NEW s, req' = [req EXCEPT ![r] = s],
         s.pc = "idle" \/ s.alone = req[r].alone,
         Solo(r) /\ Alone(r) =>
            /\ s.pc = "idle" \/ Fits(row', cookie', s)
            /\ \/ Turns(req[r].what, req[r].item, req[r].num,
                        Base(row, cookie, req[r]), Base(row', cookie', s))
               \/ req[r].pc = "reply" /\ Die(r) /\ Base(row', cookie', s) = Empty
  PROVE  Goes(r)
  <1>1. req'[r] = s /\ \A q \in Requests \ {r} : req'[q] = req[q]
    BY DEF Inv, TypeOK
  <1>2. SoloInv'
    <2>1. ASSUME NEW q \in Requests, Solo(q)' PROVE Alone(q)'
      <3>1. CASE q = r
        <4>1. Solo(r) /\ s.pc # "idle"
          BY <1>1, <2>1, <3>1 DEF Solo
        <4>2. Alone(r)
          BY <4>1 DEF SoloInv
        <4> QED
          BY <1>1, <3>1, <4>1, <4>2 DEF Alone
      <3>2. CASE q # r
        <4>1. Solo(q) /\ req[r].pc # "idle"
          BY <1>1, <2>1, <3>2 DEF Solo
        <4> QED
          BY <3>2, <4>1 DEF SoloInv, Alone
      <3> QED
        BY <3>1, <3>2
    <2> QED
      BY <2>1 DEF SoloInv
  <1>3. ASSUME Solo(r) PROVE Handled(r)
    <2>1. Alone(r) /\ \A q \in Requests \ {r} : req[q].pc # "reply"
      BY <1>3 DEF SoloInv, Alone
    <2>2. Seen = Base(row, cookie, req[r])
      BY <2>1, SeenIs DEF Alone, Fits
    <2>3. Seen' = Base(row', cookie', s)
      <3>1. \A q \in Requests \ {r} : req'[q].pc # "reply"
        BY <1>1, <2>1
      <3>2. req'[r].pc = "reply" => req'[r].had = cookie'
        BY <1>1, <1>3, <2>1 DEF Fits
      <3> QED
        BY <1>1, <3>1, <3>2, SeenNext
    <2>4. Seen \in Sessions
      BY <2>2, PlainTyped
    <2>5. CASE Turns(req[r].what, req[r].item, req[r].num, Seen, Seen')
      BY <2>4, <2>5, Turned DEF Handled
    <2>6. CASE req[r].pc = "reply" /\ Die(r) /\ Seen' = Empty
      <3>1. Customer!Leave
        BY <2>6 DEF Customer!Leave, Empty, EmptyCart, Customer!EmptyCart
      <3> QED
        BY <2>6, <3>1 DEF Handled
    <2> QED
      BY <1>3, <2>1, <2>2, <2>3, <2>5, <2>6
  <1> QED
    BY <1>1, <1>2, <1>3 DEF Goes

\* While the row stays as it is and the request keeps its key or has none, the
\* visitor sees the same.
LEMMA SameBase ==
  ASSUME NEW rows, NEW key, NEW s, s.key \in {key, NoKey}
  PROVE  Base(rows, key, s) = Plain(rows, key)
  BY DEF Base, Plain, Has

LEMMA OwnKey ==
  ASSUME NEW rows, NEW key
  PROVE  Own(rows, key) \in {key, NoKey}
  BY DEF Own

\* What a view finds, when it is alone.
LEMMA OpenedAlone ==
  ASSUME Inv, NEW r \in Requests, req[r].pc = "sent"
  PROVE  LET o == Opened(r) IN
         /\ o \in Asked /\ o.pc = "sent" /\ o.alone = req[r].alone
         /\ o.had = req[r].had /\ o.what = req[r].what /\ o.item = req[r].item
         /\ o.num = req[r].num
         /\ Alone(r) => o.key = Own(row, cookie) /\ o.copy = Plain(row, cookie)
  <1>1. req[r] \in Asked /\ req[r].copy = Empty
    BY DEF Inv, TypeOK, Copied
  <1>2. Alone(r) => req[r].key = cookie
    BY DEF Alone, Fits
  <1>3. Opened(r) \in Asked
    BY Opening
  <1>4. CASE Stored(req[r].key)
    BY <1>1, <1>2, <1>3, <1>4 DEF Opened, Stored, Own, Plain, Has, Asked
  <1>5. CASE ~Stored(req[r].key)
    BY <1>1, <1>2, <1>3, <1>5 DEF Opened, Stored, Own, Plain, Has, Asked
  <1> QED
    BY <1>4, <1>5

\* A view that answers without touching the table.
LEMMA AnswerGoes ==
  ASSUME Inv, SoloInv, NEW r \in Requests, req[r].pc \in {"sent", "login", "asking"},
         NEW t \in Asked, NEW b \in BOOLEAN, Answer(r, t, b), Kept,
         t.alone = req[r].alone, t.had = req[r].had, t.what = req[r].what,
         t.item = req[r].item, t.num = req[r].num,
         Solo(r) /\ Alone(r) =>
            /\ t.key \in {cookie, Own(row, cookie)}
            /\ b => /\ t.key = Own(row, cookie)
                    /\ Turns(t.what, t.item, t.num, Plain(row, cookie), t.copy)
  PROVE  Goes(r)
  <1> DEFINE s == [t EXCEPT !.pc = "reply", !.save = b]
  <1>1. req' = [req EXCEPT ![r] = s]
    BY DEF Answer
  <1>2. /\ s.pc = "reply" /\ s.save = b /\ s.alone = t.alone /\ s.had = t.had /\ s.what = t.what
        /\ s.item = t.item /\ s.num = t.num /\ s.key = t.key /\ s.copy = t.copy
    BY DEF Asked
  <1> HIDE DEF s
  <1>3. UNCHANGED <<row, cookie>>
    BY DEF Kept
  <1>4. ASSUME Solo(r), Alone(r)
        PROVE  /\ Fits(row, cookie, s)
               /\ Base(row, cookie, s) = Base(row, cookie, req[r])
    <2>1. s.key \in {cookie, NoKey}
      BY <1>2, <1>4, OwnKey
    <2>2. Base(row, cookie, s) = Plain(row, cookie)
      BY <2>1, SameBase
    <2>3. Base(row, cookie, req[r]) = Plain(row, cookie)
      BY DEF Base
    <2>4. Fits(row, cookie, s)
      BY <1>2, <1>4, <2>2 DEF Fits, Alone
    <2> QED
      BY <2>2, <2>3, <2>4
  <1>5. Turns(req[r].what, req[r].item, req[r].num, Base(row, cookie, req[r]),
              Base(row, cookie, req[r]))
    BY DEF Turns
  <1> QED
    BY <1>1, <1>2, <1>3, <1>4, <1>5, Going

LEMMA PlainGoes ==
  ASSUME Inv, SoloInv, NEW r \in Requests,
         Refuse(r) \/ Look(r) \/ Checkout(r) \/ SignInAgain(r)
  PROVE  Goes(r)
  <1>1. req[r] \in Asked
    BY DEF Inv, TypeOK
  <1>2. CASE Look(r) \/ Checkout(r)
    <2>1. req[r].pc = "sent" /\ Kept /\ Answer(r, Opened(r), FALSE)
      BY <1>2 DEF Look, Checkout, At
    <2> QED
      BY <2>1, OpenedAlone, AnswerGoes
  <1>3. CASE Refuse(r)
    <2>1. req[r].pc = "sent" /\ Kept /\ Answer(r, req[r], FALSE)
      BY <1>3 DEF Refuse, At
    <2>2. Alone(r) => req[r].key = cookie
      BY <2>1 DEF Alone, Fits
    <2> QED
      BY <1>1, <2>1, <2>2, AnswerGoes
  <1>4. CASE SignInAgain(r)
    <2>1. req[r].pc = "login" /\ Kept /\ Answer(r, req[r], TRUE)
      BY <1>4 DEF SignInAgain
    <2>2. Alone(r) => req[r].key = Own(row, cookie) /\ req[r].copy = Plain(row, cookie)
      BY <2>1 DEF Alone, Fits
    <2>3. Alone(r) => Turns(req[r].what, req[r].item, req[r].num, Plain(row, cookie), req[r].copy)
      BY <2>2 DEF Turns
    <2> QED
      BY <1>1, <2>1, <2>2, <2>3, AnswerGoes
  <1> QED
    BY <1>2, <1>3, <1>4

LEMMA CartGoes ==
  ASSUME Inv, SoloInv, NEW r \in Requests,
         AddToCart(r) \/ RemoveFromCart(r) \/ DeleteFromCart(r) \/ PaymentSuccess(r)
  PROVE  Goes(r)
  <1> DEFINE o == Opened(r)
             p == Plain(row, cookie)
  <1>1. req[r].pc = "sent" /\ Kept
    BY DEF AddToCart, RemoveFromCart, DeleteFromCart, PaymentSuccess, At
  <1>2. /\ o \in Asked /\ o.copy \in Sessions /\ o.copy.cart \in [Items -> Nat]
        /\ o.alone = req[r].alone /\ o.had = req[r].had /\ o.what = req[r].what
        /\ o.item = req[r].item /\ o.num = req[r].num
        /\ Alone(r) => o.key = Own(row, cookie) /\ o.copy = p
    BY <1>1, OpenedAlone, Opening DEF Sessions
  <1> HIDE DEF o, p
  <1>3. ASSUME NEW c \in [Items -> Nat], Answer(r, [o EXCEPT !.copy.cart = c], TRUE),
               Turns(o.what, o.item, o.num, o.copy, [o.copy EXCEPT !.cart = c])
        PROVE  Goes(r)
    <2> DEFINE d == [o.copy EXCEPT !.cart = c]
               t == [o EXCEPT !.copy = d]
    <2>1. d \in Sessions
      BY <1>2 DEF Sessions
    <2>2. t = [o EXCEPT !.copy.cart = c]
      OBVIOUS
    <2> HIDE DEF d
    <2>3. t \in Asked /\ t.alone = o.alone /\ t.had = o.had /\ t.what = o.what
          /\ t.item = o.item /\ t.num = o.num /\ t.key = o.key /\ t.copy = d
      BY <1>2, <2>1 DEF Asked
    <2>4. Answer(r, t, TRUE)
      BY <1>3, <2>2
    <2> HIDE DEF t
    <2>5. Alone(r) => Turns(t.what, t.item, t.num, p, t.copy)
      BY <1>2, <1>3, <2>3 DEF d
    <2> QED
      BY <1>1, <1>2, <2>3, <2>4, <2>5, AnswerGoes DEF p
  <1>4. \A i, n : SetCart(o, i, n) = [o EXCEPT !.copy.cart = [o.copy.cart EXCEPT ![i] = n]]
    BY <1>2 DEF SetCart, Asked, Sessions
  <1>5. \A i, n : (i \in Items => n \in Nat) => [o.copy.cart EXCEPT ![i] = n] \in [Items -> Nat]
    BY <1>2
  <1>6. ASSUME NEW n, o.item \in Items => n \in Nat, Answer(r, SetCart(o, o.item, n), TRUE),
               Turns(o.what, o.item, o.num, o.copy,
                     [o.copy EXCEPT !.cart = [o.copy.cart EXCEPT ![o.item] = n]])
        PROVE  Goes(r)
    <2> DEFINE c == [o.copy.cart EXCEPT ![o.item] = n]
    <2>1. c \in [Items -> Nat]
      BY <1>5, <1>6
    <2>2. Answer(r, [o EXCEPT !.copy.cart = c], TRUE)
      BY <1>4, <1>6
    <2>3. Turns(o.what, o.item, o.num, o.copy, [o.copy EXCEPT !.cart = c])
      BY <1>6
    <2> HIDE DEF c
    <2> QED
      BY <1>3, <2>1, <2>2, <2>3
  <1>7. o.item \in Items => o.copy.cart[o.item] \in Nat
    BY <1>2
  <1>8. CASE AddToCart(r)
    <2> DEFINE n == o.copy.cart[o.item] + 1
    <2>1. o.item \in Items => n \in Nat
      BY <1>7
    <2>2. o.what = "add" /\ Answer(r, SetCart(o, o.item, n), TRUE)
      BY <1>2, <1>8 DEF AddToCart, At, o
    <2>3. Turns(o.what, o.item, o.num, o.copy,
                [o.copy EXCEPT !.cart = [o.copy.cart EXCEPT ![o.item] = n]])
      BY <2>2 DEF Turns
    <2> HIDE DEF n
    <2> QED
      BY <1>6, <2>1, <2>2, <2>3
  <1>9. CASE RemoveFromCart(r)
    <2> DEFINE m == o.copy.cart[o.item]
               n == IF m > 1 THEN m - 1 ELSE 0
    <2>1. o.item \in Items => n \in Nat
      BY <1>7
    <2>2. o.what = "remove" /\ Answer(r, SetCart(o, o.item, n), TRUE)
      BY <1>2, <1>9 DEF RemoveFromCart, At, o
    <2>3. Turns(o.what, o.item, o.num, o.copy,
                [o.copy EXCEPT !.cart = [o.copy.cart EXCEPT ![o.item] = n]])
      <3>1. CASE o.item \in Items /\ m > 0
        <4>1. n = m - 1
          BY <1>7, <3>1
        <4> QED
          BY <2>2, <3>1, <4>1 DEF Turns
      <3>2. CASE o.item \in Items /\ ~(m > 0)
        <4>1. n = m
          BY <1>7, <3>2
        <4>2. [o.copy.cart EXCEPT ![o.item] = n] = o.copy.cart
          BY <1>2, <4>1
        <4>3. [o.copy EXCEPT !.cart = o.copy.cart] = o.copy
          BY <1>2 DEF Sessions
        <4> QED
          BY <4>2, <4>3 DEF Turns
      <3>3. CASE o.item \notin Items
        <4>1. [o.copy.cart EXCEPT ![o.item] = n] = o.copy.cart
          BY <1>2, <3>3
        <4>2. [o.copy EXCEPT !.cart = o.copy.cart] = o.copy
          BY <1>2 DEF Sessions
        <4> QED
          BY <4>1, <4>2 DEF Turns
      <3> QED
        BY <3>1, <3>2, <3>3
    <2> HIDE DEF n
    <2> QED
      BY <1>6, <2>1, <2>2, <2>3
  <1>10. CASE DeleteFromCart(r)
    <2>1. o.what = "delete" /\ Answer(r, SetCart(o, o.item, 0), TRUE) /\ 0 \in Nat
      BY <1>2, <1>10 DEF DeleteFromCart, At, o
    <2>2. Turns(o.what, o.item, o.num, o.copy,
                [o.copy EXCEPT !.cart = [o.copy.cart EXCEPT ![o.item] = 0]])
      BY <2>1 DEF Turns
    <2> QED
      BY <1>6, <2>1, <2>2
  <1>11. CASE PaymentSuccess(r)
    <2>1. o.what = "success" /\ Answer(r, [o EXCEPT !.copy.cart = EmptyCart], TRUE)
      BY <1>2, <1>11 DEF PaymentSuccess, At, o
    <2>2. Turns(o.what, o.item, o.num, o.copy, [o.copy EXCEPT !.cart = EmptyCart])
      BY <2>1 DEF Turns
    <2>3. EmptyCart \in [Items -> Nat]
      BY DEF EmptyCart
    <2> QED
      BY <1>3, <2>1, <2>2, <2>3
  <1> QED
    BY <1>8, <1>9, <1>10, <1>11

LEMMA ExchangeFacts ==
  ASSUME NEW h \in Seq(Messages), NEW n \in 0..MaxSent
  PROVE  /\ Append(Append(h, Message("user", n)), Message("assistant", n))
              = h \o Customer!Exchange(n)
         /\ Append(h, Message("user", n)) \in Seq(Messages)
         /\ Append(Append(h, Message("user", n)), Message("assistant", n)) \in Seq(Messages)
  <1> DEFINE u == Message("user", n)
             a == Message("assistant", n)
  <1>1. u \in Messages /\ a \in Messages
    BY DEF Message, Messages
  <1>2. Customer!Exchange(n) = <<u, a>>
    BY DEF Customer!Exchange, Message
  <1> HIDE DEF u, a
  <1>3. Append(Append(h, u), a) = h \o <<u, a>>
    BY <1>1
  <1>4. Append(h, u) \in Seq(Messages) /\ Append(Append(h, u), a) \in Seq(Messages)
    BY <1>1
  <1> QED
    BY <1>2, <1>3, <1>4 DEF u, a

LEMMA ChatGoes ==
  ASSUME Inv, SoloInv, NEW r \in Requests,
         ChatPage(r) \/ ChatSend(r) \/ GroqAnswers(r) \/ GroqFails(r) \/ ChatClear(r)
  PROVE  Goes(r)
  <1> DEFINE p == Plain(row, cookie)
  <1>1. /\ req[r] \in Asked /\ req[r].pc \in {"sent", "asking"} /\ Kept /\ p \in Sessions
        /\ req[r].pc = "asking" => req[r].copy.chat \in Seq(Messages)
        /\ req[r].num \in 0..MaxSent /\ req[r].copy \in Sessions
    BY PlainTyped DEF Inv, TypeOK, Copied, Asked, At, ChatPage, ChatSend, GroqAnswers,
                      GroqFails, ChatClear
  <1>2. SaidIn(p) \in Seq(Messages)
    BY <1>1 DEF SaidIn, Sessions
  <1> HIDE DEF p
  <1>3. ASSUME NEW o \in Asked, NEW h \in Seq(Messages), NEW b \in BOOLEAN,
               Answer(r, [o EXCEPT !.copy.chat = h], b),
               o.alone = req[r].alone, o.had = req[r].had, o.what = req[r].what,
               o.item = req[r].item, o.num = req[r].num,
               Alone(r) => /\ o.key = Own(row, cookie)
                           /\ b => Turns(o.what, o.item, o.num, p, [o.copy EXCEPT !.chat = h])
        PROVE  Goes(r)
    <2> DEFINE d == [o.copy EXCEPT !.chat = h]
               t == [o EXCEPT !.copy = d]
    <2>1. d \in Sessions
      BY <1>3 DEF Sessions, Asked
    <2>2. t = [o EXCEPT !.copy.chat = h]
      OBVIOUS
    <2> HIDE DEF d
    <2>3. t \in Asked /\ t.alone = o.alone /\ t.had = o.had /\ t.what = o.what
          /\ t.item = o.item /\ t.num = o.num /\ t.key = o.key /\ t.copy = d
      BY <1>3, <2>1 DEF Asked
    <2>4. Answer(r, t, b)
      BY <1>3, <2>2
    <2> HIDE DEF t
    <2>5. Alone(r) /\ b => Turns(t.what, t.item, t.num, p, t.copy)
      BY <1>3, <2>3 DEF d
    <2> QED
      BY <1>1, <1>3, <2>3, <2>4, <2>5, AnswerGoes DEF p
  <1>4. ASSUME req[r].pc = "sent"
        PROVE  LET o == Opened(r) IN
               /\ o \in Asked /\ o.alone = req[r].alone /\ o.had = req[r].had
               /\ o.what = req[r].what /\ o.item = req[r].item /\ o.num = req[r].num
               /\ o.copy \in Sessions /\ Said(o) \in Seq(Messages) /\ Said(o) = SaidIn(o.copy)
               /\ Alone(r) => o.key = Own(row, cookie) /\ o.copy = p
    <2>1. Said(Opened(r)) = SaidIn(Opened(r).copy) /\ SaidIn(Opened(r).copy) \in Seq(Messages)
      BY <1>4, Opening DEF Said, SaidIn, Sessions
    <2> QED
      BY <1>4, <2>1, Opening, OpenedAlone DEF p
  <1>5. CASE ChatPage(r)
    <2> DEFINE o == Opened(r)
               b == (o.copy.chat = NoChat)
    <2>1. req[r].pc = "sent" /\ o.what = "chat" /\ b \in BOOLEAN
          /\ Answer(r, [o EXCEPT !.copy.chat = Said(o)], b)
      BY <1>4, <1>5 DEF ChatPage, At
    <2>2. Alone(r) => Turns(o.what, o.item, o.num, p, [o.copy EXCEPT !.chat = Said(o)])
      BY <1>4, <2>1 DEF Turns
    <2> HIDE DEF o, b
    <2> QED
      BY <1>3, <1>4, <2>1, <2>2 DEF o
  <1>6. CASE ChatClear(r)
    <2> DEFINE o == Opened(r)
    <2>1. req[r].pc = "sent" /\ req[r].what = "clear"
          /\ Answer(r, [o EXCEPT !.copy.chat = <<>>], TRUE)
      BY <1>6 DEF ChatClear, At
    <2>2. <<>> \in Seq(Messages)
      OBVIOUS
    <2>3. Alone(r) => Turns(o.what, o.item, o.num, p, [o.copy EXCEPT !.chat = <<>>])
      BY <1>4, <2>1 DEF Turns
    <2> HIDE DEF o
    <2> QED
      BY <1>3, <1>4, <2>1, <2>2, <2>3 DEF o
  <1>7. CASE GroqFails(r)
    <2> DEFINE h == SubSeq(req[r].copy.chat, 1, Len(req[r].copy.chat) - 1)
    <2>1. req[r].pc = "asking" /\ h \in Seq(Messages)
      BY <1>1, <1>7 DEF GroqFails
    <2>2. Answer(r, [req[r] EXCEPT !.copy.chat = h], FALSE)
      BY <1>7 DEF GroqFails
    <2>3. Alone(r) => req[r].key = Own(row, cookie)
      BY <2>1 DEF Alone, Fits
    <2> HIDE DEF h
    <2> QED
      BY <1>1, <1>3, <2>1, <2>2, <2>3
  <1>8. CASE GroqAnswers(r)
    <2> DEFINE h == Append(req[r].copy.chat, Message("assistant", req[r].num))
    <2>1. req[r].pc = "asking" /\ h \in Seq(Messages)
      <3>1. Message("assistant", req[r].num) \in Messages
        BY <1>1 DEF Message, Messages
      <3> QED
        BY <1>1, <1>8, <3>1 DEF GroqAnswers
    <2>2. Answer(r, [req[r] EXCEPT !.copy.chat = h], TRUE)
      BY <1>8 DEF GroqAnswers
    <2>3. ASSUME Alone(r)
          PROVE  /\ req[r].key = Own(row, cookie)
                 /\ Turns(req[r].what, req[r].item, req[r].num, p, [req[r].copy EXCEPT !.chat = h])
      <3> DEFINE g == Append(SaidIn(p), Message("user", req[r].num))
      <3>1. /\ req[r].what = "send" /\ req[r].key = Own(row, cookie)
            /\ req[r].copy = [p EXCEPT !.chat = g]
        BY <2>1, <2>3 DEF Alone, Fits, p
      <3>2. req[r].copy.chat = g
        BY <1>1, <3>1 DEF Sessions
      <3>3. h = SaidIn(p) \o Customer!Exchange(req[r].num)
        BY <1>1, <1>2, <3>2, ExchangeFacts
      <3> HIDE DEF h, g
      <3>4. [req[r].copy EXCEPT !.chat = h] = [p EXCEPT !.chat = h]
        BY <1>1, <3>1 DEF Sessions
      <3> QED
        BY <3>1, <3>3, <3>4 DEF Turns
    <2> HIDE DEF h
    <2> QED
      BY <1>1, <1>3, <2>1, <2>2, <2>3
  <1>9. CASE ChatSend(r)
    <2> DEFINE o == Opened(r)
               h == Append(Said(o), Message("user", o.num))
               d == [o.copy EXCEPT !.chat = h]
               s == [o EXCEPT !.pc = "asking", !.copy = d]
    <2>1. req[r].pc = "sent" /\ o.what = "send" /\ req' = [req EXCEPT ![r] = s]
      BY <1>4, <1>9 DEF ChatSend, At
    <2>2. o.num = req[r].num /\ (Alone(r) => d = [p EXCEPT !.chat = Append(SaidIn(p), Message("user", o.num))])
      BY <1>4, <2>1
    <2> HIDE DEF d
    <2>3. s.pc = "asking" /\ s.alone = req[r].alone /\ s.had = req[r].had /\ s.what = "send"
          /\ s.num = o.num /\ s.copy = d /\ (Alone(r) => s.key = Own(row, cookie))
      BY <1>4, <2>1 DEF Asked
    <2> HIDE DEF s, o
    <2>4. Alone(r) => Fits(row, cookie, s)
      BY <2>2, <2>3 DEF Fits, Alone, p
    <2>5. Turns(req[r].what, req[r].item, req[r].num, Base(row, cookie, req[r]), Base(row, cookie, s))
      <3>1. Base(row, cookie, req[r]) = Base(row, cookie, s)
        BY <2>1, <2>3 DEF Base
      <3> QED
        BY <3>1 DEF Turns
    <2>6. UNCHANGED <<row, cookie>>
      BY <1>1 DEF Kept
    <2> QED
      BY <2>1, <2>3, <2>4, <2>5, <2>6, Going
  <1> QED
    BY <1>5, <1>6, <1>7, <1>8, <1>9

\* A row that goes, and the one that comes.
LEMMA Removed ==
  ASSUME Inv, NEW rows, NEW gone \in {Own(row, cookie)},
         rows = [k \in Keys |-> IF k = gone THEN NoRow ELSE row[k]]
  PROVE  ~Has(rows, cookie)
  BY PlainTyped DEF Inv, TypeOK, Has, Own

LEMMA LoginGoes ==
  ASSUME Inv, SoloInv, NEW r \in Requests,
         OpenForLogin(r) \/ CycleKey(r) \/ ChangeUser(r) \/ Logout(r)
  PROVE  Goes(r)
  <1> DEFINE p == Plain(row, cookie)
  <1>1. /\ req[r] \in Asked /\ req[r].copy \in Sessions /\ p \in Sessions
        /\ cookie \in issued \cup {NoKey} /\ issued \subseteq Keys
        /\ req[r].num \in 0..MaxSent
    BY PlainTyped DEF Inv, TypeOK, Asked
  <1>2. ASSUME req[r].pc \in {"sent", "login"} PROVE Base(row, cookie, req[r]) = p
    BY <1>2 DEF Base
  <1>3. p.user # 0 => Has(row, cookie)
    BY DEF Plain, Empty
  <1>4. Alone(r) /\ req[r].pc = "login" =>
          /\ req[r].what \in LoginPages /\ req[r].key = Own(row, cookie) /\ req[r].copy = p
    BY DEF Alone, Fits
  <1>5. Alone(r) => req[r].had = cookie
    BY DEF Alone, Fits
  <1> HIDE DEF p
  <1>6. CASE OpenForLogin(r)
    <2> DEFINE o == Opened(r)
               s == [o EXCEPT !.pc = "login"]
    <2>1. req[r].pc = "sent" /\ req' = [req EXCEPT ![r] = s] /\ Kept
          /\ req[r].what \in LoginPages
      BY <1>6 DEF OpenForLogin, At, LoginPages
    <2>2. /\ o \in Asked /\ o.alone = req[r].alone /\ o.had = req[r].had /\ o.what = req[r].what
          /\ Alone(r) => o.key = Own(row, cookie) /\ o.copy = p
      BY <2>1, OpenedAlone DEF p
    <2> HIDE DEF o
    <2>3. s.pc = "login" /\ s.alone = o.alone /\ s.had = o.had /\ s.what = o.what
          /\ s.key = o.key /\ s.copy = o.copy
      BY <2>2 DEF Asked
    <2> HIDE DEF s
    <2>4. Alone(r) => Fits(row, cookie, s)
      BY <1>5, <2>1, <2>2, <2>3 DEF Fits, p
    <2>5. Turns(req[r].what, req[r].item, req[r].num, Base(row, cookie, req[r]), Base(row, cookie, s))
      BY <2>1, <2>3 DEF Base, Turns
    <2> QED
      BY <2>1, <2>2, <2>3, <2>4, <2>5, Going DEF Kept
  <1>7. CASE CycleKey(r)
    <2>1. PICK k \in Keys \ issued :
            /\ Answer(r, SignedIn([req[r] EXCEPT !.key = k]), TRUE)
            /\ row' = [q \in Keys |-> IF q = k THEN req[r].copy
                                      ELSE IF q = req[r].key THEN NoRow ELSE row[q]]
      BY <1>7 DEF CycleKey
    <2> DEFINE c == [req[r].copy EXCEPT !.user = req[r].num]
               s == [req[r] EXCEPT !.key = k, !.copy = c, !.pc = "reply", !.save = TRUE]
    <2>2. req' = [req EXCEPT ![r] = s]
      BY <1>1, <2>1 DEF Answer, SignedIn, Asked
    <2>3. req[r].pc = "login" /\ req[r].copy.user = 0 /\ cookie' = cookie
      BY <1>7 DEF CycleKey
    <2> HIDE DEF c
    <2>4. s.pc = "reply" /\ s.save = TRUE /\ s.alone = req[r].alone /\ s.had = req[r].had
          /\ s.what = req[r].what /\ s.item = req[r].item /\ s.num = req[r].num
          /\ s.key = k /\ s.copy = c
      BY <1>1 DEF Asked
    <2> HIDE DEF s
    <2>5. Has(row', k) /\ row'[k] = req[r].copy
      BY <1>1, <2>1, NoKeyAssumption, NoRowAssumption DEF Has
    <2>6. Alone(r) => ~Has(row', cookie)
      <3>1. cookie # k
        BY <1>1, <2>1, NoKeyAssumption
      <3> QED
        BY <1>1, <1>4, <2>1, <2>3, <3>1 DEF Has, Own
    <2>7. Alone(r) => Base(row', cookie', s) = p
      BY <1>4, <2>3, <2>4, <2>5 DEF Base
    <2>8. Alone(r) => Turns(s.what, s.item, s.num, p, s.copy)
      BY <1>4, <2>3, <2>4 DEF Turns, c
    <2>9. Alone(r) => Fits(row', cookie', s)
      BY <1>4, <1>5, <2>3, <2>4, <2>5, <2>6, <2>7, <2>8 DEF Fits
    <2>10. Alone(r) => Turns(req[r].what, req[r].item, req[r].num, Base(row, cookie, req[r]),
                             Base(row', cookie', s))
      BY <1>2, <2>3, <2>7 DEF Turns
    <2> QED
      BY <2>2, <2>3, <2>4, <2>9, <2>10, Going
  <1>8. CASE ChangeUser(r)
    <2> DEFINE c == [Empty EXCEPT !.user = req[r].num]
               s == [req[r] EXCEPT !.key = NoKey, !.copy = c, !.pc = "reply", !.save = TRUE]
    <2>1. req[r].pc = "login" /\ req[r].copy.user # 0 /\ UNCHANGED cookie
          /\ row' = [k \in Keys |-> IF k = req[r].key THEN NoRow ELSE row[k]]
      BY <1>8 DEF ChangeUser, Flush
    <2>2. req' = [req EXCEPT ![r] = s]
      BY <1>1, <1>8 DEF ChangeUser, Answer, SignedIn, Flushed, Asked
    <2> HIDE DEF c
    <2>3. s.pc = "reply" /\ s.save = TRUE /\ s.alone = req[r].alone /\ s.had = req[r].had
          /\ s.what = req[r].what /\ s.item = req[r].item /\ s.num = req[r].num
          /\ s.key = NoKey /\ s.copy = c
      BY <1>1 DEF Asked
    <2> HIDE DEF s
    <2>4. Alone(r) => ~Has(row', cookie)
      BY <1>4, <2>1, Removed
    <2>5. Alone(r) => Base(row', cookie', s) = Empty
      BY <2>1, <2>3, <2>4 DEF Base, Plain, Has
    <2>6. Alone(r) => Turns(s.what, s.item, s.num, Empty, s.copy)
      BY <1>4, <2>1, <2>3 DEF Turns, c, Empty
    <2>7. Alone(r) => Fits(row', cookie', s)
      BY <1>5, <2>1, <2>3, <2>4, <2>5, <2>6 DEF Fits, Own
    <2>8. Alone(r) => Turns(req[r].what, req[r].item, req[r].num, Base(row, cookie, req[r]),
                            Base(row', cookie', s))
      BY <1>2, <1>4, <2>1, <2>5 DEF Turns
    <2> QED
      BY <2>1, <2>2, <2>3, <2>7, <2>8, Going
  <1>9. CASE Logout(r)
    <2> DEFINE o == Opened(r)
               s == [o EXCEPT !.key = NoKey, !.copy = Empty, !.pc = "reply", !.save = FALSE]
    <2>1. req[r].pc = "sent" /\ req[r].what = "logout" /\ UNCHANGED cookie
          /\ row' = [k \in Keys |-> IF k = o.key THEN NoRow ELSE row[k]]
      BY <1>9 DEF Logout, Flush, At
    <2>2. /\ o \in Asked /\ o.alone = req[r].alone /\ o.had = req[r].had /\ o.what = req[r].what
          /\ Alone(r) => o.key = Own(row, cookie)
      BY <2>1, OpenedAlone
    <2>3. req' = [req EXCEPT ![r] = s]
      BY <1>9, <2>2 DEF Logout, Answer, Flushed, Asked
    <2> HIDE DEF o
    <2>4. s.pc = "reply" /\ s.save = FALSE /\ s.alone = o.alone /\ s.had = o.had
          /\ s.what = o.what /\ s.key = NoKey
      BY <2>2 DEF Asked
    <2> HIDE DEF s
    <2>5. Alone(r) => ~Has(row', cookie)
      BY <2>1, <2>2, Removed
    <2>6. Alone(r) => Base(row', cookie', s) = Empty
      BY <2>1, <2>4, <2>5 DEF Base, Plain, Has
    <2>7. Alone(r) => Fits(row', cookie', s)
      BY <1>5, <2>1, <2>2, <2>4, <2>5 DEF Fits, Own
    <2>8. Alone(r) => Turns(req[r].what, req[r].item, req[r].num, Base(row, cookie, req[r]),
                            Base(row', cookie', s))
      BY <2>1, <2>6 DEF Turns
    <2> QED
      BY <2>1, <2>2, <2>3, <2>4, <2>7, <2>8, Going
  <1> QED
    BY <1>6, <1>7, <1>8, <1>9

\* The response carries out what the copy says, or nothing.
LEMMA RespondGoes ==
  ASSUME Inv, SoloInv, NEW r \in Requests, Respond(r) \/ Die(r)
  PROVE  Goes(r)
  <1> DEFINE s == req[r]
             p == Plain(row, cookie)
  <1>1. s \in Asked /\ s.copy \in Sessions /\ cookie \in issued \cup {NoKey} /\ issued \subseteq Keys
        /\ s.key \in issued \cup {NoKey}
    BY PlainTyped DEF Inv, TypeOK, Asked
  <1>2. s.pc # "idle" /\ req' = [req EXCEPT ![r] = Idle] /\ Idle.pc = "idle"
    BY DEF Respond, Save, Interrupted, Insert, Reply, Die, Done, Idle
  <1>3. Base(row', cookie', Idle) = Plain(row', cookie')
    BY <1>2 DEF Base
  <1>4. Alone(r) => Fits(row, cookie, s)
    BY DEF Alone
  <1> HIDE DEF s
  <1>5. ASSUME Alone(r) =>
                 \/ Turns(s.what, s.item, s.num, Base(row, cookie, s), Plain(row', cookie'))
                 \/ s.pc = "reply" /\ Die(r) /\ Plain(row', cookie') = Empty
        PROVE  Goes(r)
    BY <1>2, <1>3, <1>5, Going DEF s
  <1>6. ASSUME NEW k \in Keys, row' = [row EXCEPT ![k] = s.copy], cookie' = k,
               s.pc = "reply", s.save
        PROVE  Goes(r)
    <2>1. row'[k] = s.copy /\ Has(row', k)
      BY <1>1, <1>6, NoKeyAssumption, NoRowAssumption DEF Inv, TypeOK, Has
    <2>2. Plain(row', cookie') = s.copy
      BY <1>6, <2>1 DEF Plain
    <2>3. Alone(r) => Turns(s.what, s.item, s.num, Base(row, cookie, s), s.copy)
      BY <1>4, <1>6 DEF Fits
    <2> QED
      BY <1>5, <2>2, <2>3
  <1>7. CASE Save(r)
    <2>1. s.key \in Keys
      BY <1>1, <1>7 DEF Save, Stored, s
    <2> QED
      BY <1>6, <1>7, <2>1 DEF Save, s
  <1>8. CASE Insert(r)
    BY <1>6, <1>8 DEF Insert, s
  <1>9. CASE Interrupted(r)
    <2>1. s.pc = "reply" /\ s.save /\ s.key # NoKey /\ ~Has(row, s.key)
      BY <1>9 DEF Interrupted, Stored, Has, s
    <2>2. ~Alone(r)
      BY <1>4, <2>1 DEF Fits, Own
    <2> QED
      BY <1>5, <2>2
  <1>10. CASE Reply(r)
    <2>1. s.pc = "reply" /\ ~s.save /\ UNCHANGED row
          /\ cookie' = IF s.had # s.key THEN NoKey ELSE cookie
      BY <1>10 DEF Reply, s
    <2>2. Alone(r) => s.had = cookie /\ s.key \in {cookie, Own(row, cookie)}
      BY <1>4, <2>1 DEF Fits
    <2>3. Alone(r) => Base(row, cookie, s) = p
      BY <2>2, OwnKey, SameBase
    <2>4. Alone(r) => Plain(row', cookie') = p
      <3>1. CASE s.key = s.had
        BY <2>1, <3>1
      <3>2. CASE s.key # s.had
        <4>1. Alone(r) => ~Has(row, cookie)
          BY <2>2, <3>2 DEF Own
        <4>2. ~Has(row', cookie')
          BY <2>1, <3>2 DEF Has
        <4> QED
          BY <4>1, <4>2 DEF Plain
      <3> QED
        BY <3>1, <3>2
    <2> QED
      BY <1>5, <2>3, <2>4 DEF Turns
  <1>11. CASE Die(r)
    <2>1. UNCHANGED <<row, cookie>>
      BY <1>11 DEF Die, Kept
    <2>2. Plain(row', cookie') = p
      BY <2>1
    <2>3. CASE Base(row, cookie, s) = p
      BY <1>5, <2>2, <2>3 DEF Turns
    <2>4. CASE Base(row, cookie, s) # p
      <3>1. s.pc = "reply" /\ ~(s.key \in {cookie, NoKey})
        BY <2>4, SameBase DEF Base
      <3>2. Alone(r) => s.save
        BY <1>4, <3>1, OwnKey DEF Fits
      <3>3. Alone(r) => ~Has(row, cookie)
        BY <1>4, <3>1, <3>2, OwnKey DEF Fits
      <3>4. Alone(r) => Plain(row', cookie') = Empty
        BY <2>2, <3>3 DEF Plain
      <3> QED
        BY <1>5, <1>11, <3>1, <3>4
    <2> QED
      BY <2>3, <2>4
  <1> QED
    BY <1>7, <1>8, <1>9, <1>10, <1>11 DEF Respond

LEMMA ViewGoes ==
  ASSUME Inv, SoloInv, NEW r \in Requests, View(r)
  PROVE  Goes(r)
  BY PlainGoes, CartGoes, ChatGoes, LoginGoes DEF View

\* A new request is alone if it is the only one, and nobody else is from then on.
LEMMA SendGoes ==
  ASSUME Inv, SoloInv, NEW q \in Requests, NEW w, NEW i, Send(q, w, i)
  PROVE  /\ SoloInv'
         /\ \A r \in Requests : Solo(r) => Handled(r)
  <1> DEFINE new == [Idle EXCEPT !.pc = "sent", !.what = w, !.item = i, !.num = sent',
                                 !.had = cookie, !.key = cookie, !.alone = InFlight = {}]
  <1>1. req[q].pc = "idle" /\ req'[q] = new /\ UNCHANGED <<row, cookie>>
    BY DEF Send
  <1>2. new.pc = "sent" /\ new.had = cookie /\ new.key = cookie /\ new.alone = (InFlight = {})
    BY DEF Idle
  <1> HIDE DEF new
  <1>3. ASSUME NEW r \in Requests \ {q}
        PROVE  /\ req'[r].pc = req[r].pc /\ req'[r].had = req[r].had
               /\ req'[r].what = req[r].what /\ req'[r].key = req[r].key
               /\ req[r].pc # "idle" => ~req'[r].alone
    <2> DEFINE b == req[r].alone /\ r \notin InFlight
    <2>1. req[r] \in Asked
      BY DEF Inv, TypeOK
    <2>2. req'[r] = [req[r] EXCEPT !.alone = b]
      BY DEF Send
    <2>3. req[r].pc # "idle" => ~b
      BY DEF InFlight
    <2> HIDE DEF b
    <2> QED
      BY <2>1, <2>2, <2>3 DEF Asked
  <1>4. SoloInv'
    <2> SUFFICES ASSUME NEW r \in Requests, Solo(r)' PROVE Alone(r)'
      BY DEF SoloInv
    <2>1. r = q
      BY <1>3 DEF Solo
    <2>2. InFlight = {}
      BY <1>1, <1>2, <2>1 DEF Solo
    <2>3. \A p \in Requests \ {q} : req'[p].pc = "idle"
      BY <1>3, <2>2 DEF InFlight
    <2>4. Fits(row', cookie', req'[q])
      BY <1>1, <1>2 DEF Fits
    <2> QED
      BY <2>1, <2>3, <2>4 DEF Alone
  <1>5. ASSUME NEW r \in Requests, Solo(r) PROVE Handled(r)
    <2>1. r # q /\ Alone(r)
      BY <1>1, <1>5 DEF Solo, SoloInv
    <2>2. Seen = Base(row, cookie, req[r])
      BY <2>1, SeenIs DEF Alone, Fits
    <2>3. Seen' = Base(row', cookie', req'[r])
      <3>1. \A p \in Requests \ {r} : req'[p].pc # "reply"
        BY <1>1, <1>2, <1>3, <2>1 DEF Alone
      <3>2. req'[r].had = cookie'
        BY <1>1, <1>3, <2>1 DEF Alone, Fits
      <3> QED
        BY <3>1, <3>2, SeenNext
    <2>4. Base(row', cookie', req'[r]) = Base(row, cookie, req[r])
      BY <1>1, <1>3, <2>1 DEF Base
    <2> QED
      BY <2>2, <2>3, <2>4 DEF Handled, Customer!vars
  <1> QED
    BY <1>4, <1>5

LEMMA SoloInit == Init => SoloInv
  BY DEF Init, SoloInv, Solo, Idle

LEMMA SoloNext ==
  Inv /\ SoloInv /\ [Next]_vars =>
    /\ SoloInv'
    /\ [\A r \in Requests : Solo(r) /\ req'[r] # req[r] => Handled(r)]_vars
  <1> SUFFICES ASSUME Inv, SoloInv, [Next]_vars
               PROVE  /\ SoloInv'
                      /\ vars' = vars \/ \A r \in Requests : Solo(r) /\ req'[r] # req[r] => Handled(r)
    OBVIOUS
  <1>1. CASE UNCHANGED vars
    BY <1>1 DEF vars, SoloInv, Solo, Alone
  <1>2. ASSUME NEW r \in Requests, NEW o \in Orders, Send(r, o[1], o[2])
        PROVE  SoloInv' /\ \A q \in Requests : Solo(q) => Handled(q)
    BY <1>2, SendGoes
  <1>3. ASSUME NEW r \in Requests, View(r) \/ Respond(r) \/ Die(r)
        PROVE  SoloInv' /\ \A q \in Requests : Solo(q) /\ req'[q] # req[q] => Handled(q)
    <2>1. Goes(r)
      BY <1>3, ViewGoes, RespondGoes
    <2> QED
      BY <2>1 DEF Goes
  <1> QED
    BY <1>1, <1>2, <1>3 DEF Next, Finished

\* A request that overlaps no other one takes effect once and as a whole, for any
\* number of requests, keys and items (views.py, SessionMiddleware).
THEOREM Atomic == Spec => AloneIsAtomic
  <1>1. Inv /\ SoloInv /\ [Next]_vars =>
          [\A r \in Requests :
             LET s == req[r] IN
             s.pc # "idle" /\ s.alone /\ req'[r] # s =>
                \/ Customer!Effect(s.what, s.item, s.num)
                \/ UNCHANGED Customer!vars
                \/ s.pc = "reply" /\ Die(r) /\ Customer!Leave]_vars
    BY SoloNext DEF Solo, Handled
  <1> QED
    BY <1>1, InvInit, InvNext, SoloInit, SoloNext, PTL DEF Spec, AloneIsAtomic

-----------------------------------------------------------------------------
(* What the checkout charges. *)

\* A sum over a set takes its elements one by one; g tells the sum of each set of F.
Pick(s) == CHOOSE x \in s : TRUE
Sums(fun, F, g) ==
    g = [s \in F |-> IF s = {} THEN 0 ELSE fun[Pick(s)] + g[s \ {Pick(s)}]]

LEMMA PickFacts ==
  ASSUME NEW S, IsFiniteSet(S)
  PROVE  \A s \in SUBSET S :
           /\ IsFiniteSet(s) /\ Cardinality(s) \in Nat /\ Cardinality(s) <= Cardinality(S)
           /\ Cardinality(s) = 0 <=> s = {}
           /\ s # {} => /\ Pick(s) \in s /\ s \ {Pick(s)} \in SUBSET S
                        /\ Cardinality(s \ {Pick(s)}) = Cardinality(s) - 1
  <1> SUFFICES ASSUME NEW s \in SUBSET S
               PROVE  /\ IsFiniteSet(s) /\ Cardinality(s) \in Nat
                      /\ Cardinality(s) <= Cardinality(S)
                      /\ Cardinality(s) = 0 <=> s = {}
                      /\ s # {} => /\ Pick(s) \in s /\ s \ {Pick(s)} \in SUBSET S
                                   /\ Cardinality(s \ {Pick(s)}) = Cardinality(s) - 1
    OBVIOUS
  <1>1. IsFiniteSet(s) /\ Cardinality(s) <= Cardinality(S)
    BY FS_Subset
  <1>2. Cardinality(s) \in Nat /\ (Cardinality(s) = 0 <=> s = {})
    BY <1>1, FS_CardinalityType, FS_EmptySet
  <1>3. s # {} => Pick(s) \in s
    BY DEF Pick
  <1>4. s # {} => Cardinality(s \ {Pick(s)}) = Cardinality(s) - 1
    BY <1>1, <1>3, FS_RemoveElement
  <1> QED
    BY <1>1, <1>2, <1>3, <1>4

\* The definition by recursion of the community modules has a solution.
LEMMA SumsExist ==
  ASSUME NEW S, IsFiniteSet(S), NEW fun
  PROVE  \E g : Sums(fun, SUBSET S, g)
  <1> DEFINE Small(n) == {s \in SUBSET S : Cardinality(s) <= n}
             Good(n) == \E g : Sums(fun, Small(n), g)
             Bad == {n \in Nat : ~Good(n)}
             R == OpToRel(<, Nat)
  <1>1. Small(Cardinality(S)) = SUBSET S /\ Cardinality(S) \in Nat
    BY PickFacts
  <1>2. \A s \in SUBSET S : Cardinality(s) \in Nat /\ (Cardinality(s) = 0 => s = {})
    BY PickFacts
  <1>3. ASSUME NEW n \in Nat, \A m \in Nat : m < n => Good(m) PROVE Good(n)
    <2>1. CASE n = 0
      <3> DEFINE g == [s \in Small(n) |-> 0]
      <3>1. \A s \in Small(n) : s = {}
        <4>1. \A c \in Nat : c <= n => c = 0
          BY <2>1
        <4> QED
          BY <1>2, <4>1
      <3>2. g = [s \in Small(n) |-> IF s = {} THEN 0 ELSE fun[Pick(s)] + g[s \ {Pick(s)}]]
        BY <3>1
      <3> QED
        BY <3>2 DEF Sums
    <2>2. CASE n # 0
      <3>1. n - 1 \in Nat /\ n - 1 < n
        BY <2>2
      <3>2. PICK g : Sums(fun, Small(n - 1), g)
        BY <1>3, <3>1
      <3> DEFINE h == [s \in Small(n) |-> IF s = {} THEN 0 ELSE fun[Pick(s)] + g[s \ {Pick(s)}]]
      <3>3. \A s \in Small(n) : s # {} => s \ {Pick(s)} \in Small(n - 1)
        BY PickFacts
      <3>4. Small(n - 1) \subseteq Small(n)
        <4>1. \A c \in Nat : c <= n - 1 => c <= n
          OBVIOUS
        <4> QED
          BY <1>2, <4>1
      <3>5. \A t \in Small(n - 1) : g[t] = IF t = {} THEN 0 ELSE fun[Pick(t)] + g[t \ {Pick(t)}]
        <4> HIDE DEF Small
        <4> QED
          BY <3>2 DEF Sums
      <3> HIDE DEF Small
      <3>6. \A t \in Small(n - 1) : g[t] = h[t]
        BY <3>4, <3>5
      <3>7. h = [s \in Small(n) |-> IF s = {} THEN 0 ELSE fun[Pick(s)] + h[s \ {Pick(s)}]]
        <4>1. \A s \in Small(n) : s # {} => g[s \ {Pick(s)}] = h[s \ {Pick(s)}]
          BY <3>3, <3>6
        <4> HIDE DEF h
        <4>2. h = [s \in Small(n) |-> IF s = {} THEN 0 ELSE fun[Pick(s)] + g[s \ {Pick(s)}]]
          BY DEF h
        <4> QED
          BY <4>1, <4>2
      <3> QED
        BY <3>7 DEF Sums
    <2> QED
      BY <2>1, <2>2
  <1>4. Bad = {}
    <2> SUFFICES ASSUME Bad # {} PROVE FALSE
      OBVIOUS
    <2>1. Bad \subseteq Nat /\ IsWellFoundedOn(R, Nat)
      BY NatLessThanWellFounded
    <2>2. PICK n \in Bad : \A m \in Bad : ~(<<m, n>> \in R)
      <3> HIDE DEF Bad, R
      <3> QED
        BY <2>1, WFMin
    <2>3. \A m \in Nat : m < n => Good(m)
      BY <2>2 DEF OpToRel
    <2> QED
      BY <1>3, <2>3
  <1>5. Good(Cardinality(S))
    BY <1>1, <1>4
  <1> QED
    BY <1>1, <1>5

LEMMA SumFacts ==
  ASSUME NEW S, IsFiniteSet(S), NEW fun \in [S -> Nat]
  PROVE  \E g : Sums(fun, SUBSET S, g) /\ SumFunction(fun) = g[S]
  <1> DEFINE G == CHOOSE g : Sums(fun, SUBSET S, g)
  <1>1. SumFunction(fun) = G[DOMAIN fun]
    BY DEF SumFunction, SumFunctionOnSet, FoldFunctionOnSet, MapThenFoldSet, Pick, Sums
  <1>2. Sums(fun, SUBSET S, G)
    BY SumsExist
  <1> QED
    BY <1>1, <1>2

\* An inequality that holds of every term holds of the sums.
LEMMA SumsBounded ==
  ASSUME NEW S, IsFiniteSet(S), NEW f \in [S -> Nat], NEW g \in [S -> Nat], NEW h \in [S -> Nat],
         \A x \in S : 0 <= f[x] - 100 * g[x] /\ f[x] - 100 * g[x] <= 99 * h[x]
  PROVE  LET rest == SumFunction(f) - 100 * SumFunction(g)
         IN  0 <= rest /\ rest <= 99 * SumFunction(h)
  <1>1. PICK F : Sums(f, SUBSET S, F) /\ SumFunction(f) = F[S]
    BY SumFacts
  <1>2. PICK G : Sums(g, SUBSET S, G) /\ SumFunction(g) = G[S]
    BY SumFacts
  <1>3. PICK H : Sums(h, SUBSET S, H) /\ SumFunction(h) = H[S]
    BY SumFacts
  <1> DEFINE Good(s) == /\ F[s] \in Nat /\ G[s] \in Nat /\ H[s] \in Nat
                        /\ 0 <= F[s] - 100 * G[s] /\ F[s] - 100 * G[s] <= 99 * H[s]
             Bad == {s \in SUBSET S : ~Good(s)}
             R == StrictSubsetOrdering(S)
  <1>4. ASSUME NEW s \in SUBSET S, s # {} => Good(s \ {Pick(s)}) PROVE Good(s)
    <2>1. CASE s = {}
      <3>1. F[s] = 0 /\ G[s] = 0 /\ H[s] = 0
        BY <1>1, <1>2, <1>3, <2>1 DEF Sums
      <3> QED
        BY <3>1
    <2>2. CASE s # {}
      <3> DEFINE x == Pick(s)
                 t == s \ {x}
      <3>1. x \in S /\ Good(t)
        BY <1>4, <2>2, PickFacts
      <3>2. F[s] = f[x] + F[t] /\ G[s] = g[x] + G[t] /\ H[s] = h[x] + H[t]
        BY <1>1, <1>2, <1>3, <2>2 DEF Sums
      <3> HIDE DEF x, t
      <3>3. f[x] \in Nat /\ g[x] \in Nat /\ h[x] \in Nat
        BY <3>1
      <3> QED
        BY <3>1, <3>2, <3>3
    <2> QED
      BY <2>1, <2>2
  <1>5. Bad = {}
    <2> SUFFICES ASSUME Bad # {} PROVE FALSE
      OBVIOUS
    <2>1. Bad \subseteq FiniteSubsetsOf(S) /\ IsWellFoundedOn(R, FiniteSubsetsOf(S))
      BY PickFacts, FS_StrictSubsetOrderingWellFounded DEF FiniteSubsetsOf
    <2>2. PICK s \in Bad : \A t \in Bad : ~(<<t, s>> \in R)
      <3> HIDE DEF Bad, R
      <3> QED
        BY <2>1, WFMin
    <2>3. s # {} => Good(s \ {Pick(s)})
      <3> SUFFICES ASSUME s # {} PROVE Good(s \ {Pick(s)})
        OBVIOUS
      <3> DEFINE t == s \ {Pick(s)}
      <3>1. s \in SUBSET S /\ t \in SUBSET S /\ Pick(s) \in s
        BY PickFacts
      <3>2. <<t, s>> \in R
        BY <3>1 DEF StrictSubsetOrdering
      <3> QED
        BY <2>2, <3>1, <3>2
    <2> QED
      BY <1>4, <2>3
  <1>6. Good(S)
    BY <1>5
  <1> QED
    BY <1>1, <1>2, <1>3, <1>6

\* Of c pieces at a price, rounded down to whole cents.
LEMMA RoundedDown ==
  ASSUME NEW c \in Nat, NEW price \in Nat
  PROVE  /\ Cents(price) \in Nat
         /\ 0 <= c * price - 100 * (c * Cents(price))
         /\ c * price - 100 * (c * Cents(price)) <= 99 * c
  <1> DEFINE q == Cents(price)
             m == price - 100 * q
  <1>1. q \in Nat /\ m \in Nat /\ m <= 99
    BY DEF Cents
  <1>2. price = 100 * q + m
    BY <1>1
  <1> HIDE DEF q, m
  <1>3. c * price = 100 * (c * q) + c * m
    BY <1>1, <1>2
  <1>4. 0 <= c * m /\ c * m <= 99 * c
    BY <1>1
  <1>5. c * q \in Nat /\ c * m \in Nat
    BY <1>1
  <1>6. c * price - 100 * (c * q) = c * m
    BY <1>3, <1>5
  <1> QED
    BY <1>1, <1>4, <1>6 DEF q

\* Nobody is charged more than the checkout page shows, nor less by a cent a piece
\* (views.py:383-385), whatever is in the cart and whatever it costs.
THEOREM FairPrice == Spec => []NeverOvercharged
  <1>1. TypeOK => NeverOvercharged
    <2> SUFFICES ASSUME TypeOK, NEW k \in Keys, Stored(k), NEW cart, cart = row[k].cart
                 PROVE  LET rest == Shown(cart) - 100 * Charged(cart)
                        IN  0 <= rest /\ rest <= 99 * SumFunction(cart)
      BY DEF NeverOvercharged
    <2>1. cart \in [Items -> Nat]
      BY DEF TypeOK, Sessions, Stored
    <2> DEFINE f == [i \in Items |-> cart[i] * Price[i]]
               g == [i \in Items |-> cart[i] * Cents(Price[i])]
    <2>2. \A i \in Items : /\ f[i] \in Nat /\ g[i] \in Nat
                           /\ 0 <= f[i] - 100 * g[i] /\ f[i] - 100 * g[i] <= 99 * cart[i]
      <3> SUFFICES ASSUME NEW i \in Items
                   PROVE  /\ f[i] \in Nat /\ g[i] \in Nat
                          /\ 0 <= f[i] - 100 * g[i] /\ f[i] - 100 * g[i] <= 99 * cart[i]
        OBVIOUS
      <3>1. cart[i] \in Nat /\ Price[i] \in Nat
        BY <2>1, PriceAssumption
      <3>2. f[i] = cart[i] * Price[i] /\ g[i] = cart[i] * Cents(Price[i])
        OBVIOUS
      <3>3. \A m, n \in Nat : m * n \in Nat
        OBVIOUS
      <3> HIDE DEF f, g
      <3> DEFINE n == cart[i]
                 p == Price[i]
      <3>4. n \in Nat /\ p \in Nat
        BY <3>1
      <3> HIDE DEF n, p
      <3>5. /\ Cents(p) \in Nat /\ 0 <= n * p - 100 * (n * Cents(p))
            /\ n * p - 100 * (n * Cents(p)) <= 99 * n
        BY <3>4, RoundedDown
      <3>6. n * p \in Nat /\ n * Cents(p) \in Nat
        BY <3>3, <3>4, <3>5
      <3> QED
        BY <3>2, <3>5, <3>6 DEF n, p
    <2>3. f \in [Items -> Nat] /\ g \in [Items -> Nat]
      BY <2>2
    <2>4. Shown(cart) = SumFunction(f) /\ Charged(cart) = SumFunction(g)
      BY DEF Shown, Charged
    <2> HIDE DEF f, g
    <2> QED
      BY <2>1, <2>2, <2>3, <2>4, ItemsAssumption, SumsBounded
  <1> QED
    BY <1>1, SessionTypes, PTL
=============================================================================
