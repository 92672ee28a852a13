---------------------- MODULE ProductMirrorWindow_proof ----------------------
(***************************************************************************)
(* The window of the delta runs: the watermark is never ahead of the       *)
(* mirror, for any number of products and workers, any page size, policy   *)
(* and mix of full and delta runs, as long as Odoo rests while runs are in *)
(* progress and nobody deletes or rewrites rows.                           *)
(*                                                                         *)
(* First what the ranks of a finite set of ids say of pages: a page that   *)
(* is not full is the last one, and an empty one comes after it.  Then, by *)
(* PassedAreMirrored, that a run without errors leaves nothing behind.     *)
(***************************************************************************)
EXTENDS ProductMirror_proof, FiniteSetTheorems, WellFoundedInduction

-----------------------------------------------------------------------------
(* Pages. *)

\* A set of ids has a first one, a finite set of ids has a last one.
LEMMA Least ==
  ASSUME NEW S, S \subseteq Nat, IsFiniteSet(S), NEW Q, Q \subseteq S, Q # {}
  PROVE  \E x \in Q : \A y \in Q : x <= y
  <1> DEFINE Upto(p) == {q \in S : q <= p}
             F == {Upto(p) : p \in Q}
             R == StrictSubsetOrdering(S)
  <1>1. \A p \in Q : IsFiniteSet(Upto(p)) /\ Upto(p) \subseteq S
    <2>1. \A p \in Q : Upto(p) \subseteq S
      OBVIOUS
    <2> QED
      BY <2>1, FS_Subset
  <1>2. F \subseteq FiniteSubsetsOf(S) /\ F # {}
    BY <1>1 DEF FiniteSubsetsOf
  <1>3. IsWellFoundedOn(R, FiniteSubsetsOf(S))
    BY FS_StrictSubsetOrderingWellFounded
  <1>4. \E t \in F : \A u \in F : ~ (<<u, t>> \in R)
    <2> HIDE DEF R, F
    <2> QED
      BY <1>2, <1>3, WFMin
  <1>5. PICK x \in Q : \A y \in Q : ~ (<<Upto(y), Upto(x)>> \in R)
    BY <1>4
  <1>6. ASSUME NEW y \in Q, y < x PROVE FALSE
    <2>1. x \in Nat /\ y \in Nat /\ \A q \in S : q \in Nat
      OBVIOUS
    <2>2. \A q \in S : q <= y => q <= x
      BY <1>6, <2>1
    <2>3. x <= x /\ ~(x <= y)
      BY <1>6, <2>1
    <2>4. Upto(y) \subseteq Upto(x) /\ x \in Upto(x) /\ x \notin Upto(y)
      BY <2>2, <2>3
    <2>5. <<Upto(y), Upto(x)>> \in R
      BY <1>1, <2>4 DEF StrictSubsetOrdering
    <2> QED
      BY <1>5, <2>5
  <1> QED
    BY <1>6

LEMMA Greatest ==
  ASSUME NEW S, S \subseteq Nat, IsFiniteSet(S), NEW Q, Q \subseteq S, Q # {}
  PROVE  \E x \in Q : \A y \in Q : y <= x
  <1> DEFINE From(p) == {q \in S : p <= q}
             F == {From(p) : p \in Q}
             R == StrictSubsetOrdering(S)
  <1>1. \A p \in Q : IsFiniteSet(From(p)) /\ From(p) \subseteq S
    <2>1. \A p \in Q : From(p) \subseteq S
      OBVIOUS
    <2> QED
      BY <2>1, FS_Subset
  <1>2. F \subseteq FiniteSubsetsOf(S) /\ F # {}
    BY <1>1 DEF FiniteSubsetsOf
  <1>3. IsWellFoundedOn(R, FiniteSubsetsOf(S))
    BY FS_StrictSubsetOrderingWellFounded
  <1>4. \E t \in F : \A u \in F : ~ (<<u, t>> \in R)
    <2> HIDE DEF R, F
    <2> QED
      BY <1>2, <1>3, WFMin
  <1>5. PICK x \in Q : \A y \in Q : ~ (<<From(y), From(x)>> \in R)
    BY <1>4
  <1>6. ASSUME NEW y \in Q, x < y PROVE FALSE
    <2>1. x \in Nat /\ y \in Nat /\ \A q \in S : q \in Nat
      OBVIOUS
    <2>2. \A q \in S : y <= q => x <= q
      BY <1>6, <2>1
    <2>3. x <= x /\ ~(y <= x)
      BY <1>6, <2>1
    <2>4. From(y) \subseteq From(x) /\ x \in From(x) /\ x \notin From(y)
      BY <2>2, <2>3
    <2>5. <<From(y), From(x)>> \in R
      BY <1>1, <2>4 DEF StrictSubsetOrdering
    <2> QED
      BY <1>5, <2>5
  <1> QED
    BY <1>6

LEMMA RankType ==
  ASSUME NEW S, S \subseteq Nat, IsFiniteSet(S), NEW p \in S
  PROVE  /\ IsFiniteSet({q \in S : q <= p})
         /\ Rank(p, S) \in Nat /\ Rank(p, S) >= 1
  <1>1. IsFiniteSet({q \in S : q <= p}) /\ p \in {q \in S : q <= p}
    <2>1. {q \in S : q <= p} \subseteq S
      OBVIOUS
    <2> QED
      BY <2>1, FS_Subset
  <1>2. Rank(p, S) \in Nat /\ Rank(p, S) # 0
    BY <1>1, FS_CardinalityType, FS_EmptySet DEF Rank
  <1> QED
    BY <1>1, <1>2

\* Ranks grow with the ids.
LEMMA RankOrder ==
  ASSUME NEW S, S \subseteq Nat, IsFiniteSet(S), NEW p \in S, NEW q \in S
  PROVE  q <= p <=> Rank(q, S) <= Rank(p, S)
  <1>1. p \in Nat /\ q \in Nat /\ \A r \in S : r \in Nat
    OBVIOUS
  <1>2. ASSUME NEW x \in S, NEW y \in S, x <= y, x \in Nat, y \in Nat
        PROVE  /\ Rank(x, S) <= Rank(y, S)
               /\ Rank(x, S) = Rank(y, S) => x = y
    <2>1. \A r \in S : r <= x => r <= y
      BY <1>1, <1>2
    <2>2. {r \in S : r <= x} \subseteq {r \in S : r <= y}
      BY <2>1
    <2>3. IsFiniteSet({r \in S : r <= y})
      BY RankType
    <2>4. /\ Rank(x, S) <= Rank(y, S)
          /\ Rank(x, S) = Rank(y, S) => {r \in S : r <= x} = {r \in S : r <= y}
      BY <2>2, <2>3, FS_Subset DEF Rank
    <2>5. y \in {r \in S : r <= y}
      BY <1>2
    <2> QED
      BY <1>2, <2>4, <2>5
  <1>3. Rank(p, S) \in Nat /\ Rank(q, S) \in Nat
    BY RankType
  <1>4. CASE q <= p
    BY <1>1, <1>2, <1>4
  <1>5. CASE ~(q <= p)
    <2>1. p <= q /\ p # q
      BY <1>1, <1>5
    <2>2. Rank(p, S) <= Rank(q, S) /\ Rank(p, S) # Rank(q, S)
      BY <1>1, <1>2, <2>1
    <2> QED
      BY <1>3, <1>5, <2>2
  <1> QED
    BY <1>4, <1>5

\* Ranks have no gaps: below a rank there are all the smaller ones.
LEMMA RankGapless ==
  ASSUME NEW S, S \subseteq Nat, IsFiniteSet(S), NEW k \in Nat, NEW q \in S, Rank(q, S) > k
  PROVE  \E x \in S : Rank(x, S) = k + 1
  <1> DEFINE Q == {x \in S : Rank(x, S) > k}
  <1>1. PICK x \in Q : \A y \in Q : x <= y
    <2>1. Q \subseteq S /\ q \in Q
      OBVIOUS
    <2> HIDE DEF Q
    <2> QED
      BY <2>1, Least
  <1>2. \A r \in S : r \in Nat
    OBVIOUS
  <1> DEFINE Below == {r \in S : r < x}
             Upto == {r \in S : r <= x}
  <1>3. Below \subseteq S /\ IsFiniteSet(Below) /\ IsFiniteSet(Upto)
    <2>1. Below \subseteq S /\ Upto \subseteq S
      OBVIOUS
    <2> QED
      BY <2>1, FS_Subset
  <1>4. Rank(x, S) = Cardinality(Below) + 1
    <2>4. x \in S /\ x \in Nat /\ \A r \in S : r <= x <=> (r < x \/ r = x)
      BY <1>2
    <2>1. Upto = Below \cup {x}
      BY <2>4
    <2>2. x \notin Below
      BY <1>2
    <2>3. Cardinality(Below \cup {x}) = Cardinality(Below) + 1
      BY <1>3, <2>2, FS_AddElement
    <2> QED
      BY <2>1, <2>3 DEF Rank
  <1>5. Cardinality(Below) <= k
    <2>1. CASE Below = {}
      BY <2>1, FS_EmptySet
    <2>2. CASE Below # {}
      <3>1. PICK m \in Below : \A y \in Below : y <= m
        <4> HIDE DEF Below
        <4> QED
          BY <1>3, <2>2, Greatest
      <3>5. m \in S /\ m < x /\ x \in S
        BY <3>1
      <3>6. \A r \in S : r < x <=> r <= m
        BY <1>2, <3>1, <3>5
      <3>2. Below = {r \in S : r <= m}
        BY <3>6
      <3>3. m \notin Q
        BY <1>1, <1>2, <3>1
      <3>4. ~(Rank(m, S) > k) /\ Rank(m, S) \in Nat
        BY <3>1, <3>3, RankType
      <3> QED
        BY <3>2, <3>4 DEF Rank
    <2> QED
      BY <2>1, <2>2
  <1>6. Cardinality(Below) \in Nat
    BY <1>3, FS_CardinalityType
  <1> QED
    BY <1>4, <1>5, <1>6

\* ... and as many ids have a rank up to k as k says.
LEMMA RankCount ==
  ASSUME NEW S, S \subseteq Nat, IsFiniteSet(S), NEW k \in Nat, NEW q \in S, Rank(q, S) >= k
  PROVE  /\ IsFiniteSet({r \in S : Rank(r, S) <= k})
         /\ Cardinality({r \in S : Rank(r, S) <= k}) = k
  <1> DEFINE T == {r \in S : Rank(r, S) <= k}
  <1>1. \A r \in S : Rank(r, S) \in Nat /\ Rank(r, S) >= 1
    BY RankType
  <1>2. CASE k = 0
    <2>2. \A r \in S : ~(Rank(r, S) <= k)
      BY <1>1, <1>2
    <2>1. T = {}
      BY <2>2
    <2> QED
      BY <1>2, <2>1, FS_EmptySet
  <1>3. CASE k # 0
    <2>1. k - 1 \in Nat /\ (k - 1) + 1 = k
      BY <1>3
    <2>2. Rank(q, S) > k - 1
      BY <1>1, <2>1
    <2>3. PICK x \in S : Rank(x, S) = k
      BY <2>1, <2>2, RankGapless
    <2>4. T = {r \in S : r <= x}
      BY <2>3, RankOrder
    <2> QED
      BY <2>3, <2>4, RankType DEF Rank
  <1> QED
    BY <1>2, <1>3

\* A page is empty when nothing comes after the offset.
LEMMA EmptyPage ==
  ASSUME NEW S, S \subseteq Nat, IsFiniteSet(S), NEW k \in Nat, NEW n \in Nat \ {0},
         {p \in S : Rank(p, S) > k /\ Rank(p, S) <= k + n} = {}
  PROVE  \A p \in S : Rank(p, S) <= k
  <1> SUFFICES ASSUME NEW q \in S, ~(Rank(q, S) <= k) PROVE FALSE
    OBVIOUS
  <1>1. Rank(q, S) \in Nat /\ Rank(q, S) > k
    <2>1. Rank(q, S) \in Nat
      BY RankType
    <2> QED
      BY <2>1
  <1>2. PICK x \in S : Rank(x, S) = k + 1
    BY <1>1, RankGapless
  <1>3. Rank(x, S) > k /\ Rank(x, S) <= k + n
    BY <1>2
  <1> QED
    BY <1>3

\* A page that is not full is the last one.
LEMMA ShortPage ==
  ASSUME NEW S, S \subseteq Nat, IsFiniteSet(S), NEW k \in Nat, NEW n \in Nat \ {0},
         Cardinality({p \in S : Rank(p, S) > k /\ Rank(p, S) <= k + n}) < n
  PROVE  \A p \in S : Rank(p, S) <= k + n
  <1> DEFINE page == {p \in S : Rank(p, S) > k /\ Rank(p, S) <= k + n}
             T(m) == {r \in S : Rank(r, S) <= m}
  <1> SUFFICES ASSUME NEW q \in S, ~(Rank(q, S) <= k + n) PROVE FALSE
    OBVIOUS
  <1>1. \A r \in S : Rank(r, S) \in Nat
    BY RankType
  <1>2. k + n \in Nat /\ Rank(q, S) >= k + n /\ Rank(q, S) >= k
    BY <1>1
  <1>3. Cardinality(T(k)) = k /\ Cardinality(T(k + n)) = k + n /\ IsFiniteSet(T(k + n))
    <2> HIDE DEF T
    <2> QED
      BY <1>2, RankCount DEF T
  <1>4. page = T(k + n) \ T(k) /\ T(k + n) \cap T(k) = T(k)
    <2>1. \A r \in S : /\ Rank(r, S) > k <=> ~(Rank(r, S) <= k)
                      /\ Rank(r, S) <= k => Rank(r, S) <= k + n
      BY <1>1
    <2>2. ASSUME NEW r \in S
          PROVE  /\ r \in page <=> r \in T(k + n) /\ r \notin T(k)
                 /\ r \in T(k) => r \in T(k + n)
      BY <1>1, <1>2, <2>1
    <2>3. page \subseteq S /\ T(k) \subseteq S /\ T(k + n) \subseteq S
      OBVIOUS
    <2> HIDE DEF page, T
    <2> QED
      BY <2>2, <2>3
  <1>5. Cardinality(page) = (k + n) - k
    <2> DEFINE hi == T(k + n)
               lo == T(k)
    <2>1. IsFiniteSet(hi) /\ Cardinality(hi) = k + n
      BY <1>3
    <2>2. page = hi \ lo /\ hi \cap lo = lo /\ Cardinality(lo) = k
      BY <1>3, <1>4
    <2> HIDE DEF page, hi, lo
    <2>3. Cardinality(hi \ lo) = Cardinality(hi) - Cardinality(hi \cap lo)
      BY <2>1, FS_Difference
    <2> QED
      BY <2>1, <2>2, <2>3
  <1> QED
    BY <1>5

-----------------------------------------------------------------------------
(* The invariant. *)

\* Who rests and what is left out: Odoo is edited between runs only, there are no
\* runs over chosen ids, and people neither delete rows nor write values in them.
Calm ==
    /\ ~EditsDuring /\ "ids" \notin Kinds
    /\ "delete" \notin Acts /\ "resolve" \notin Acts /\ "form" \notin Acts

Window ==
    /\ TypeOK /\ DOMAIN work = Workers /\ desk = NoDesk
    /\ PassedAreMirrored /\ NothingMissed

LEMMA Found ==
  ASSUME TypeOK, NEW w \in Workers
  PROVE  /\ Matching(w) \subseteq Nat /\ IsFiniteSet(Matching(w)) /\ Matching(w) \subseteq Products
         /\ work[w].offset \in Nat /\ BatchSize \in Nat \ {0}
  <1>1. Matching(w) \subseteq Products
    BY DEF Matching, TypeOK
  <1>2. work[w].offset \in Nat
    BY WorkFacts DEF WorkOK, WorkType
  <1> QED
    BY <1>1, <1>2, ProductsAssumption, BatchSizeAssumption, FS_Subset

\* A step that leaves Odoo alone and takes no product further from it.
Improves ==
    /\ UNCHANGED <<odoo, written, listed>>
    /\ Rows \subseteq Rows' /\ watermark <= watermark'
    /\ \A p : Behind(p)' => Behind(p)

\* The search of a worker gives the same as before.
LEMMA SameSearch ==
  ASSUME NEW w, UNCHANGED <<written, listed>>,
         work'[w].ids = work[w].ids, work'[w].since = work[w].since
  PROVE  Matching(w)' = Matching(w)
  BY DEF Matching

LEMMA SamePage ==
  ASSUME NEW w, UNCHANGED <<written, listed>>,
         work'[w].ids = work[w].ids, work'[w].since = work[w].since,
         work'[w].kind = work[w].kind, work'[w].offset = work[w].offset
  PROVE  Page(w)' = Page(w)
  <1>1. Matching(w)' = Matching(w)
    BY SameSearch
  <1> QED
    BY <1>1 DEF Page

\* The other workers stay ahead of the mirror.
LEMMA OthersAhead ==
  ASSUME TypeOK, watermark' \in Int, NEW v \in Workers, Ahead(v), work'[v] = work[v], Improves
  PROVE  Ahead(v)'
  <1>1. Matching(v)' = Matching(v) /\ Page(v)' = Page(v)
    BY SameSearch, SamePage DEF Improves
  <1>2. Done(v)' = Done(v)
    BY DEF Done
  <1>3. Passed(v)' = Passed(v)
    BY <1>1, <1>2 DEF Passed
  <1>4. work[v].since \in Int /\ watermark \in Int
    BY WorkFacts, PolicyType DEF WorkOK, WorkType, TypeOK
  <1>5. work[v].since <= watermark => work'[v].since <= watermark'
    BY <1>4 DEF Improves
  <1> QED
    BY <1>1, <1>3, <1>5 DEF Ahead, At, Improves

\* A product the search does not find is not behind.
LEMMA NotFound ==
  ASSUME TypeOK, NothingMissed, NEW w \in Workers, Ahead(w), ~At(w, "idle"),
         NEW p, Behind(p)
  PROVE  p \in Matching(w)
  <1>1. p \in listed /\ written[p] > watermark /\ p \in Products
    BY DEF NothingMissed, Behind, TypeOK
  <1>2. work[w].since <= watermark /\ work[w].ids = Products
    BY DEF Ahead
  <1>3. work[w].since \in Int /\ watermark \in Int /\ written[p] \in Int
    BY <1>1, WorkFacts, PolicyType DEF WorkOK, WorkType, TypeOK
  <1> QED
    BY <1>1, <1>2, <1>3 DEF Matching

-----------------------------------------------------------------------------
(* What the steps do to the mirror. *)

\* The values of a page are those Odoo has.
LEMMA PageIsOdoo ==
  ASSUME NEW w \in Workers, Ahead(w), work[w].pc \in InPage
  PROVE  /\ DOMAIN work[w].page = Page(w)
         /\ \A p \in DOMAIN work[w].page : work[w].page[p] = odoo[p]
  <1>1. ~At(w, "idle")
    BY DEF At, InPage
  <1>2. work[w].page = [p \in Page(w) |-> odoo[p]]
    BY <1>1 DEF Ahead
  <1> QED
    BY <1>2

LEMMA InsertCatchesUp ==
  ASSUME NEW w \in Workers, Ahead(w), work[w].pc \in InPage,
         NEW ids, ids \subseteq DOMAIN work[w].page, Insert(w, ids), UNCHANGED <<odoo, listed>>
  PROVE  /\ Rows \subseteq Rows' /\ \A p \in ids : ~Behind(p)'
         /\ \A p : Behind(p)' => Behind(p)
  <1>1. \A p \in ids : work[w].page[p] = odoo[p]
    BY PageIsOdoo
  <1>2. /\ DOMAIN mirror' = Rows \cup ids
        /\ \A p \in Rows \cup ids :
             mirror'[p] = IF p \in ids
                          THEN [val |-> work[w].page[p], status |-> "SYNCED", linked |-> FALSE]
                          ELSE mirror[p]
    BY DEF Insert
  <1>3. ASSUME NEW p \in ids PROVE p \in DOMAIN mirror' /\ mirror'[p].val = odoo'[p]
    <2>1. mirror'[p] = [val |-> work[w].page[p], status |-> "SYNCED", linked |-> FALSE]
      BY <1>2
    <2>2. mirror'[p].val = work[w].page[p]
      BY <2>1
    <2> QED
      BY <1>1, <1>2, <2>2
  <1>4. \A p \in Rows \ ids : p \in DOMAIN mirror' /\ mirror'[p] = mirror[p]
    BY <1>2
  <1> QED
    BY <1>2, <1>3, <1>4 DEF Behind, Rows

LEMMA UpdateCatchesUp ==
  ASSUME TypeOK, NEW w \in Workers, Ahead(w), Update(w)
  PROVE  /\ Rows' = Rows /\ \A p : Behind(p)' => Behind(p)
         /\ GoTo(w, "rejected") \/ (GoTo(w, "local") /\ \A p \in work[w].known : ~Behind(p)')
  <1>1. UNCHANGED <<odoo, listed>> /\ work[w].pc \in InPage /\ ~At(w, "idle")
    BY DEF Update, At, InPage, people
  <1>2. CASE GoTo(w, "rejected") /\ UNCHANGED mirror
    BY <1>1, <1>2 DEF Behind, Rows
  <1>3. CASE ~(GoTo(w, "rejected") /\ UNCHANGED mirror)
    <2> DEFINE page == work[w].page
               status(p) == IF p \in work[w].clash /\ Policy = "MANUAL" THEN "CONFLICT" ELSE "SYNCED"
               st(p) == [mirror[p] EXCEPT !.val = page[p], !.status = status(p)]
    <2>1. /\ GoTo(w, "local")
          /\ mirror' = [p \in Rows |-> IF p \in work[w].known THEN st(p) ELSE mirror[p]]
      BY <1>3 DEF Update
    <2>2. work[w].known \subseteq Rows /\ \A p \in work[w].known : page[p] = odoo[p]
      <3>1. work[w].known \subseteq DOMAIN page
        BY WorkFacts DEF WorkOK
      <3> QED
        BY <1>1, <3>1, PageIsOdoo DEF Ahead
    <2>3. \A p \in work[w].known : st(p).val = page[p]
      BY <2>2 DEF TypeOK, Storable, RowType
    <2>4. DOMAIN mirror' = Rows
          /\ \A p \in Rows : mirror'[p] = IF p \in work[w].known THEN st(p) ELSE mirror[p]
      BY <2>1
    <2> HIDE DEF st
    <2>5. \A p \in work[w].known : p \in DOMAIN mirror' /\ mirror'[p].val = odoo'[p]
      BY <1>1, <2>2, <2>3, <2>4
    <2> QED
      BY <1>1, <2>1, <2>4, <2>5 DEF Behind, Rows
  <1> QED
    BY <1>2, <1>3

LEMMA MarkCatchesUp ==
  ASSUME TypeOK, NEW p \in Products, MarkSynced(p)
  PROVE  Rows' = Rows /\ \A q : Behind(q)' => Behind(q)
  <1>1. /\ mirror' = [mirror EXCEPT ![p].status = "SYNCED"] /\ p \in Rows
        /\ UNCHANGED <<odoo, listed>>
    BY DEF MarkSynced
  <1>2. /\ DOMAIN mirror' = Rows
        /\ \A q \in Rows : mirror'[q] = IF q = p THEN [mirror[p] EXCEPT !.status = "SYNCED"]
                                         ELSE mirror[q]
    BY <1>1 DEF Rows
  <1>3. [mirror[p] EXCEPT !.status = "SYNCED"].val = mirror[p].val
    BY <1>1 DEF TypeOK, Storable, RowType
  <1>4. \A q \in Rows : mirror'[q].val = mirror[q].val
    BY <1>2, <1>3
  <1> QED
    BY <1>1, <1>2, <1>4 DEF Behind, Rows

\* Every step but an edit of Odoo improves the mirror.
LEMMA StepImproves ==
  ASSUME Calm, Window, [Next]_vars, \A p \in Products : ~OdooEdit(p) /\ ~Archive(p)
  PROVE  Improves
  <1>1. acts \in Int /\ watermark \in Int /\ watermark <= acts
    BY PolicyType DEF Window, TypeOK
  <1>2. ASSUME UNCHANGED <<odoo, written, listed, mirror>>, watermark' \in {watermark, acts}
        PROVE  Improves
    BY <1>1, <1>2 DEF Improves, Behind, Rows
  <1>3. ASSUME NEW w \in Workers, Create(w) \/ SaveOne(w)
        PROVE  Improves
    <2>1. UNCHANGED <<odoo, written, listed, watermark>> /\ work[w].pc \in InPage
      BY <1>3 DEF Create, SaveOne, At, InPage, people
    <2>2. CASE UNCHANGED mirror
      BY <1>2, <2>1, <2>2
    <2>3. CASE ~(UNCHANGED mirror)
      <3>1. \E ids \in SUBSET work[w].new : Insert(w, ids)
        BY <1>3, <2>3 DEF Create, SaveOne
      <3>2. PICK ids \in SUBSET work[w].new : Insert(w, ids)
        BY <3>1
      <3>3. ids \subseteq DOMAIN work[w].page
        BY WorkFacts DEF Window, WorkOK
      <3> QED
        BY <1>1, <2>1, <3>2, <3>3, InsertCatchesUp DEF Window, PassedAreMirrored, Improves
    <2> QED
      BY <2>2, <2>3
  <1>4. ASSUME NEW w \in Workers, Update(w) PROVE Improves
    <2>1. UNCHANGED <<odoo, written, listed, watermark>>
      BY <1>4 DEF Update, people
    <2>2. Rows' = Rows /\ \A p : Behind(p)' => Behind(p)
      BY <1>4, UpdateCatchesUp DEF Window, PassedAreMirrored
    <2> QED
      BY <1>1, <2>1, <2>2 DEF Improves
  <1>5. ASSUME NEW w \in Workers,
               \/ StartFull(w) \/ StartDelta(w) \/ StartIds(w) \/ Fetch(w) \/ Read(w)
               \/ UpdateLocal(w) \/ NextPage(w) \/ GiveUp(w) \/ Stop(w)
        PROVE  UNCHANGED <<odoo, written, listed, mirror>> /\ watermark' \in {watermark, acts}
    BY <1>5 DEF StartFull, StartDelta, StartIds, Start, Fetch, EndRun, Read, UpdateLocal,
       NextPage, GiveUp, Stop, people
  <1>6. ASSUME NEW p \in Products, MarkSynced(p) PROVE Improves
    <2>1. UNCHANGED <<odoo, written, listed, watermark>>
      BY <1>6 DEF MarkSynced
    <2>2. Rows' = Rows /\ \A q : Behind(q)' => Behind(q)
      BY <1>6, MarkCatchesUp DEF Window
    <2> QED
      BY <1>1, <2>1, <2>2 DEF Improves
  <1>7. ASSUME NEW p \in Products, DeleteRow(p) \/ ResolveRead(p) \/ FormRead(p) PROVE FALSE
    BY <1>7 DEF Calm, DeleteRow, ResolveRead, FormRead, Open, Act
  <1>8. ASSUME ResolveWrite \/ FormWrite PROVE FALSE
    BY <1>8 DEF Window, ResolveWrite, FormWrite, NoDesk
  <1>9. ASSUME NEW p \in Linked, LocalEdit(p)
        PROVE  UNCHANGED <<odoo, written, listed, mirror, watermark>>
    BY <1>9 DEF LocalEdit
  <1>10. CASE \E w \in Workers : StartFull(w) \/ StartDelta(w) \/ StartIds(w) \/ Run(w) \/ Stop(w)
    BY <1>2, <1>3, <1>4, <1>5, <1>10 DEF Run
  <1>11. CASE \E p \in Products : People(p)
    BY <1>6, <1>7, <1>11 DEF People
  <1>12. CASE UNCHANGED vars
    BY <1>2, <1>12 DEF vars
  <1> QED
    BY <1>2, <1>8, <1>9, <1>10, <1>11, <1>12 DEF Next

-----------------------------------------------------------------------------
(* The worker that takes the step stays ahead of the mirror. *)

\* It goes on with the same search ...
SameRun(w) ==
    /\ work'[w].kind = work[w].kind /\ work'[w].ids = work[w].ids
    /\ work'[w].since = work[w].since /\ work'[w].offset = work[w].offset

\* ... and the same page: what it counts as done was done or is so now.
LEMMA SamePageAhead ==
  ASSUME Window, Improves, watermark' \in Int, NEW w \in Workers, SameRun(w),
         work[w].pc \in InPage, work'[w].pc # "create",
         work'[w].page = work[w].page, work'[w].known = work[w].known,
         ~work'[w].errors => ~work[w].errors /\ \A p \in Done(w)' : p \in Done(w) \/ ~Behind(p)'
  PROVE  Ahead(w)'
  <1>1. Ahead(w) /\ ~At(w, "idle")
    BY DEF Window, PassedAreMirrored, At, InPage
  <1>2. Matching(w)' = Matching(w) /\ Page(w)' = Page(w)
    BY SameSearch, SamePage DEF SameRun, Improves
  <1>3. work[w].since \in Int /\ watermark \in Int
    BY WorkFacts, PolicyType DEF Window, WorkOK, WorkType, TypeOK
  <1>4. work'[w].since <= watermark'
    BY <1>1, <1>3 DEF Ahead, SameRun, Improves
  <1>5. work'[w].page = [p \in Page(w)' |-> odoo'[p]]
    BY <1>1, <1>2 DEF Ahead, Improves
  <1>6. work'[w].known \subseteq Rows'
    BY <1>1 DEF Ahead, Improves
  <1>7. ASSUME ~work'[w].errors, NEW p \in Passed(w)' PROVE ~Behind(p)'
    <2>1. p \in Passed(w) \/ ~Behind(p)'
      BY <1>2, <1>7 DEF Passed, SameRun
    <2>2. p \in Passed(w) => ~Behind(p)
      BY <1>1, <1>7 DEF Ahead
    <2> QED
      BY <2>1, <2>2 DEF Improves
  <1> QED
    BY <1>1, <1>4, <1>5, <1>6, <1>7 DEF Ahead, At, SameRun

LEMMA GoToSame ==
  ASSUME Window, NEW w \in Workers, NEW pc, GoTo(w, pc)
  PROVE  /\ work'[w].pc = pc /\ SameRun(w) /\ work'[w].page = work[w].page
         /\ work'[w].new = work[w].new /\ work'[w].known = work[w].known
         /\ work'[w].errors = work[w].errors
  BY WorkFacts DEF Window, GoTo, SameRun, WorkOK, WorkType

\* A run that starts has passed nothing.
LEMMA StartAhead ==
  ASSUME Calm, Window, Improves, watermark' \in Int, NEW w \in Workers,
         StartFull(w) \/ StartDelta(w) \/ StartIds(w)
  PROVE  Ahead(w)'
  <1>1. \E kind \in {"full", "delta"} : Start(w, kind, Products)
    BY DEF Calm, StartFull, StartDelta, StartIds
  <1>7. PICK kind \in {"full", "delta"} : Start(w, kind, Products)
    BY <1>1
  <1>2. PICK since \in (IF kind = "delta" /\ watermark >= 0
                        THEN {watermark - 1, watermark} ELSE {-1}) :
          work' = [work EXCEPT ![w] = [Idle EXCEPT !.pc = "fetch", !.kind = kind, !.ids = Products,
                                                   !.since = since]]
    BY <1>7 DEF Start
  <1>3. /\ work'[w].pc = "fetch" /\ work'[w].kind = kind /\ work'[w].ids = Products
        /\ work'[w].since = since /\ work'[w].offset = 0 /\ work'[w].known = {}
    BY <1>2 DEF Window, Idle
  <1>4. watermark \in -1..acts /\ acts \in Nat /\ watermark <= watermark'
    BY PolicyType DEF Window, TypeOK, Improves
  <1>5. work'[w].since <= watermark'
    BY <1>2, <1>3, <1>4
  <1>6. Passed(w)' = {}
    <2>1. Matching(w)' \subseteq Products
      BY DEF Window, TypeOK, Improves, Matching
    <2>2. Matching(w)' \subseteq Nat /\ IsFiniteSet(Matching(w)')
      BY <2>1, ProductsAssumption, FS_Subset
    <2>3. Done(w)' = {}
      BY <1>3 DEF Done
    <2> DEFINE S == Matching(w)'
    <2>4. \A p \in S : ~(Rank(p, S) <= 0)
      <3> HIDE DEF S
      <3> SUFFICES ASSUME NEW p \in S PROVE ~(Rank(p, S) <= 0)
        OBVIOUS
      <3>1. Rank(p, S) \in Nat /\ Rank(p, S) >= 1
        BY <2>2, RankType DEF S
      <3> QED
        BY <3>1
    <2> QED
      BY <1>3, <2>3, <2>4 DEF Passed
  <1> QED
    BY <1>2, <1>3, <1>5, <1>6 DEF Ahead, At, InPage

\* The page is what Odoo has now.
LEMMA FetchAhead ==
  ASSUME Window, Improves, watermark' \in Int, NEW w \in Workers, Fetch(w)
  PROVE  Ahead(w)'
  <1>1. Ahead(w) /\ ~At(w, "idle") /\ WorkOK(work[w])
    BY WorkFacts DEF Window, PassedAreMirrored, At, Fetch
  <1>2. CASE work'[w] = Idle
    BY <1>2 DEF Ahead, At, Idle
  <1>3. CASE ~(work'[w] = Idle)
    <2>1. /\ work' = [work EXCEPT ![w].pc = "read", ![w].page = [p \in Page(w) |-> odoo[p]],
                                  ![w].new = {}, ![w].known = {}, ![w].clash = {}]
      BY <1>3 DEF Fetch, EndRun, Window
    <2>2. /\ work'[w].pc = "read" /\ work'[w].page = [p \in Page(w) |-> odoo[p]]
          /\ work'[w].known = {} /\ SameRun(w) /\ work'[w].errors = work[w].errors
      BY <1>1, <2>1 DEF Window, SameRun, WorkOK, WorkType
    <2>3. Matching(w)' = Matching(w) /\ Page(w)' = Page(w)
      BY <2>2, SameSearch, SamePage DEF SameRun, Improves
    <2>4. Done(w)' = {}
      BY <2>2 DEF Done
    <2>5. Passed(w)' \subseteq Passed(w)
      BY <2>2, <2>3, <2>4 DEF Passed, SameRun
    <2>6. work[w].since \in Int /\ watermark \in Int
      BY WorkFacts, PolicyType DEF Window, WorkOK, WorkType, TypeOK
    <2>7. work'[w].since <= watermark'
      BY <1>1, <2>2, <2>6 DEF Ahead, SameRun, Improves
    <2>8. work'[w].page = [p \in Page(w)' |-> odoo'[p]]
      BY <2>2, <2>3 DEF Improves
    <2> QED
      BY <1>1, <2>2, <2>5, <2>7, <2>8 DEF Ahead, At, SameRun, Improves
  <1> QED
    BY <1>2, <1>3

\* What is known of the page has its row, the rest is new.
LEMMA ReadAhead ==
  ASSUME Window, Improves, watermark' \in Int, NEW w \in Workers, Read(w)
  PROVE  Ahead(w)'
  <1>1. Ahead(w) /\ work[w].pc = "read" /\ ~At(w, "idle") /\ WorkOK(work[w])
    BY WorkFacts DEF Window, PassedAreMirrored, At, Read
  <1>2. /\ work'[w].pc = "create" /\ work'[w].page = work[w].page
        /\ work'[w].new = DOMAIN work[w].page \ Rows
        /\ work'[w].known = DOMAIN work[w].page \cap Rows
        /\ work'[w].errors = work[w].errors /\ SameRun(w)
    BY <1>1 DEF Window, Read, SameRun, WorkOK, WorkType
  <1>3. Matching(w)' = Matching(w) /\ Page(w)' = Page(w)
    BY <1>2, SameSearch, SamePage DEF SameRun, Improves
  <1>4. Done(w)' = {}
    BY <1>2 DEF Done
  <1>5. Passed(w)' \subseteq Passed(w)
    BY <1>2, <1>3, <1>4 DEF Passed, SameRun
  <1>6. work[w].since \in Int /\ watermark \in Int
    BY WorkFacts, PolicyType DEF Window, WorkOK, WorkType, TypeOK
  <1>7. work'[w].since <= watermark'
    BY <1>1, <1>2, <1>6 DEF Ahead, SameRun, Improves
  <1>8. work'[w].page = [p \in Page(w)' |-> odoo'[p]]
    BY <1>1, <1>2, <1>3 DEF Ahead, Improves, InPage
  <1>9. /\ work'[w].known \subseteq Rows'
        /\ work'[w].new \cup work'[w].known = DOMAIN work'[w].page
    BY <1>2 DEF Improves
  <1> QED
    BY <1>1, <1>2, <1>5, <1>7, <1>8, <1>9 DEF Ahead, At, SameRun, Improves

\* The new rows are in the mirror, or still to be saved.
LEMMA CreateAhead ==
  ASSUME Window, Improves, watermark' \in Int, NEW w \in Workers, Create(w)
  PROVE  Ahead(w)'
  <1>1. /\ Ahead(w) /\ work[w].pc = "create" /\ work[w].pc \in InPage
        /\ work[w].new \cup work[w].known = DOMAIN work[w].page
    BY DEF Window, PassedAreMirrored, At, Create, Ahead, InPage
  <1>2. CASE GoTo(w, "salvage")
    <2>1. /\ work'[w].pc = "salvage" /\ SameRun(w) /\ work'[w].page = work[w].page
          /\ work'[w].new = work[w].new /\ work'[w].known = work[w].known
          /\ work'[w].errors = work[w].errors
      BY <1>2, GoToSame
    <2>2. Done(w)' = {}
      BY <1>1, <2>1 DEF Done
    <2> QED
      BY <1>1, <2>1, <2>2, SamePageAhead
  <1>3. CASE GoTo(w, "update") /\ Insert(w, work[w].new)
    <2>1. /\ work'[w].pc = "update" /\ SameRun(w) /\ work'[w].page = work[w].page
          /\ work'[w].new = work[w].new /\ work'[w].known = work[w].known
          /\ work'[w].errors = work[w].errors
      BY <1>3, GoToSame
    <2>2. Done(w)' \subseteq work[w].new
      BY <1>1, <2>1 DEF Done
    <2>3. \A p \in work[w].new : ~Behind(p)'
      BY <1>1, <1>3, InsertCatchesUp DEF Improves
    <2> QED
      BY <1>1, <2>1, <2>2, <2>3, SamePageAhead
  <1> QED
    BY <1>2, <1>3 DEF Create

\* One more row is in the mirror, or the run has an error.
LEMMA SaveOneAhead ==
  ASSUME Window, Improves, watermark' \in Int, NEW w \in Workers, SaveOne(w)
  PROVE  Ahead(w)'
  <1>1. /\ Ahead(w) /\ work[w].pc = "salvage" /\ work[w].pc \in InPage /\ WorkOK(work[w])
    BY WorkFacts DEF Window, PassedAreMirrored, At, SaveOne, InPage
  <1>2. PICK p \in work[w].new :
          /\ IF Refused(w, p) THEN UNCHANGED mirror ELSE Insert(w, {p})
          /\ work' = [work EXCEPT
               ![w].new = @ \ {p}, ![w].errors = @ \/ Refused(w, p),
               ![w].pc = IF work[w].new = {p} THEN "update" ELSE "salvage"]
    BY DEF SaveOne
  <1>3. /\ work'[w].pc = (IF work[w].new = {p} THEN "update" ELSE "salvage")
        /\ work'[w].new = work[w].new \ {p} /\ work'[w].page = work[w].page
        /\ work'[w].known = work[w].known /\ SameRun(w)
    BY <1>1, <1>2 DEF Window, SameRun, WorkOK, WorkType
  <1>4. work'[w].errors <=> work[w].errors \/ Refused(w, p)
    BY <1>1, <1>2 DEF Window, WorkOK, WorkType
  <1>5. Done(w)' \subseteq Done(w) \cup {p}
    BY <1>1, <1>3 DEF Done
  <1>6. ~Refused(w, p) => ~Behind(p)'
    <2>1. {p} \subseteq DOMAIN work[w].page
      BY <1>1, <1>2 DEF WorkOK
    <2> QED
      BY <1>1, <1>2, <2>1, InsertCatchesUp DEF Improves
  <1>7. work'[w].pc # "create"
    BY <1>3
  <1> QED
    BY <1>1, <1>3, <1>4, <1>5, <1>6, <1>7, SamePageAhead

\* The known rows are in the mirror as Odoo has them.
LEMMA UpdateAhead ==
  ASSUME Window, Improves, watermark' \in Int, NEW w \in Workers, Update(w)
  PROVE  Ahead(w)'
  <1>1. /\ Ahead(w) /\ work[w].pc = "update" /\ work[w].pc \in InPage
    BY DEF Window, PassedAreMirrored, At, Update, InPage
  <1>2. CASE GoTo(w, "rejected")
    <2>1. /\ work'[w].pc = "rejected" /\ SameRun(w) /\ work'[w].page = work[w].page
          /\ work'[w].known = work[w].known /\ work'[w].errors = work[w].errors
      BY <1>2, GoToSame
    <2>2. Done(w)' = {}
      BY <2>1 DEF Done
    <2> QED
      BY <1>1, <2>1, <2>2, SamePageAhead
  <1>3. CASE GoTo(w, "local") /\ \A p \in work[w].known : ~Behind(p)'
    <2>1. /\ work'[w].pc = "local" /\ SameRun(w) /\ work'[w].page = work[w].page
          /\ work'[w].known = work[w].known /\ work'[w].errors = work[w].errors
      BY <1>3, GoToSame
    <2>2. Done(w)' \subseteq Done(w) \cup work[w].known
      BY <1>1, <2>1 DEF Done
    <2> QED
      BY <1>1, <1>3, <2>1, <2>2, SamePageAhead
  <1> QED
    BY <1>1, <1>2, <1>3, UpdateCatchesUp DEF Window

LEMMA UpdateLocalAhead ==
  ASSUME Window, Improves, watermark' \in Int, NEW w \in Workers, UpdateLocal(w)
  PROVE  Ahead(w)'
  <1>1. /\ Ahead(w) /\ work[w].pc = "local" /\ work[w].pc \in InPage
    BY DEF Window, PassedAreMirrored, At, UpdateLocal, InPage
  <1>2. PICK pc \in {"rejected", "next"} : GoTo(w, pc)
    BY DEF UpdateLocal
  <1>3. /\ work'[w].pc = pc /\ SameRun(w) /\ work'[w].page = work[w].page
        /\ work'[w].known = work[w].known /\ work'[w].errors = work[w].errors
    BY <1>2, GoToSame
  <1>4. Done(w)' \subseteq Done(w)
    BY <1>1, <1>3 DEF Done
  <1> QED
    BY <1>1, <1>3, <1>4, SamePageAhead

\* The page that is done is passed.
LEMMA NextPageAhead ==
  ASSUME Window, Improves, watermark' \in Int, NEW w \in Workers, NextPage(w)
  PROVE  Ahead(w)'
  <1>1. Ahead(w) /\ ~At(w, "idle") /\ work[w].pc = "next" /\ WorkOK(work[w])
    BY WorkFacts DEF Window, PassedAreMirrored, At, NextPage
  <1>2. CASE work'[w] = Idle
    BY <1>2 DEF Ahead, At, Idle
  <1>3. CASE ~(work'[w] = Idle)
    <2>1. work' = [work EXCEPT ![w].pc = "fetch", ![w].offset = @ + BatchSize]
      BY <1>3 DEF NextPage, EndRun, Window
    <2>2. /\ work'[w].pc = "fetch" /\ work'[w].offset = work[w].offset + BatchSize
          /\ work'[w].known = work[w].known /\ work'[w].errors = work[w].errors
          /\ work'[w].kind = work[w].kind /\ work'[w].ids = work[w].ids
          /\ work'[w].since = work[w].since
      BY <1>1, <2>1 DEF Window, WorkOK, WorkType
    <2>3. Matching(w)' = Matching(w)
      BY <2>2, SameSearch DEF Improves
    <2>4. Done(w)' = {} /\ Done(w) = Page(w)
      BY <1>1, <2>2, PageIsOdoo DEF Done, InPage
    <2>5. Passed(w)' \subseteq Passed(w)
      <3>1. \A p \in Matching(w) : Rank(p, Matching(w)) <= work[w].offset
              \/ ~(Rank(p, Matching(w)) <= work[w].offset + BatchSize) \/ p \in Page(w)
        <4> SUFFICES ASSUME NEW p \in Matching(w),
                            ~(Rank(p, Matching(w)) <= work[w].offset),
                            Rank(p, Matching(w)) <= work[w].offset + BatchSize
                     PROVE  p \in Page(w)
          OBVIOUS
        <4>1. Rank(p, Matching(w)) \in Nat /\ work[w].offset \in Nat
          BY Found, RankType DEF Window
        <4>2. Rank(p, Matching(w)) > work[w].offset
          BY <4>1
        <4> QED
          BY <1>1, <4>2 DEF Page, Ahead
      <3> QED
        BY <2>2, <2>3, <2>4, <3>1 DEF Passed
    <2>6. work[w].since \in Int /\ watermark \in Int
      BY WorkFacts, PolicyType DEF Window, WorkOK, WorkType, TypeOK
    <2>7. work'[w].since <= watermark'
      BY <1>1, <2>2, <2>6 DEF Ahead, Improves
    <2> QED
      BY <1>1, <2>2, <2>5, <2>7 DEF Ahead, At, InPage, Improves
  <1> QED
    BY <1>2, <1>3

\* A run that has passed all it finds leaves no product behind.
LEMMA AllPassed ==
  ASSUME TypeOK, NothingMissed, NEW w \in Workers, Ahead(w), ~At(w, "idle"), ~work[w].errors,
         \A p \in Matching(w) : p \in Passed(w)
  PROVE  \A p : ~Behind(p)
  <1>1. \A p : Behind(p) => p \in Matching(w)
    BY NotFound
  <1>2. \A p \in Passed(w) : ~Behind(p)
    BY DEF Ahead
  <1> QED
    BY <1>1, <1>2

\* ... and a run only ends so.
LEMMA EndsPassed ==
  ASSUME Window, NEW w \in Workers, Fetch(w) \/ NextPage(w), EndRun(w)
  PROVE  watermark' = watermark \/ \A p : ~Behind(p)
  <1>1. Ahead(w) /\ ~At(w, "idle") /\ work[w].kind # "ids"
    BY DEF Window, PassedAreMirrored, Ahead, At, Fetch, NextPage
  <1>2. CASE work[w].errors
    BY <1>2 DEF EndRun
  <1> DEFINE S == Matching(w)
             k == work[w].offset
  <1>3. /\ S \subseteq Nat /\ IsFiniteSet(S) /\ k \in Nat /\ BatchSize \in Nat \ {0}
        /\ Page(w) = {p \in S : Rank(p, S) > k /\ Rank(p, S) <= k + BatchSize}
    BY <1>1, Found DEF Window, Page
  <1>4. CASE Fetch(w) /\ ~work[w].errors /\ Page(w) = {}
    <2>1. \A p \in S : Rank(p, S) <= k
      <3> HIDE DEF S, k
      <3> QED
        BY <1>3, <1>4, EmptyPage
    <2>2. \A p \in Matching(w) : p \in Passed(w)
      BY <2>1 DEF Passed
    <2> QED
      BY <1>1, <1>4, <2>2, AllPassed DEF Window
  <1>5. CASE Fetch(w) /\ ~work[w].errors /\ Page(w) # {}
    <2>1. work'[w].pc = "read" /\ work'[w] = Idle
      BY <1>5, WorkFacts DEF Fetch, EndRun, Window, WorkOK, WorkType
    <2> QED
      BY <2>1 DEF Idle
  <1>6. CASE NextPage(w) /\ ~work[w].errors /\ Cardinality(DOMAIN work[w].page) < BatchSize
    <2>1. work[w].pc = "next"
      BY <1>6 DEF NextPage, At
    <2>2. DOMAIN work[w].page = Page(w) /\ Done(w) = Page(w)
      BY <1>1, <2>1, PageIsOdoo DEF Done, InPage
    <2>3. \A p \in S : Rank(p, S) <= k + BatchSize
      <3> HIDE DEF S, k
      <3> QED
        BY <1>3, <1>6, <2>2, ShortPage
    <2>4. \A p \in S : Rank(p, S) \in Nat
      <3> HIDE DEF S
      <3> QED
        BY <1>3, RankType
    <2>5. \A p \in Matching(w) : Rank(p, Matching(w)) <= work[w].offset \/ p \in Page(w)
      BY <1>3, <2>3, <2>4
    <2>6. \A p \in Matching(w) : p \in Passed(w)
      BY <2>2, <2>5 DEF Passed
    <2> QED
      BY <1>1, <1>6, <2>6, AllPassed DEF Window
  <1>7. CASE NextPage(w) /\ ~(Cardinality(DOMAIN work[w].page) < BatchSize)
    <2>1. work'[w].pc = "fetch" /\ work'[w] = Idle
      BY <1>1, <1>7, WorkFacts DEF NextPage, EndRun, Window, WorkOK, WorkType
    <2> QED
      BY <2>1 DEF Idle
  <1> QED
    BY <1>2, <1>4, <1>5, <1>6, <1>7

-----------------------------------------------------------------------------
(* The steps together. *)

LEMMA WorkDomain ==
  ASSUME TypeOK, DOMAIN work = Workers, [Next]_vars
  PROVE  DOMAIN work' = Workers
  <1>1. ASSUME NEW w \in Workers, \E k : work' = [work EXCEPT ![w] = k]
        PROVE  DOMAIN work' = Workers
    BY <1>1
  <1>2. ASSUME NEW w \in Workers,
               StartFull(w) \/ StartDelta(w) \/ StartIds(w) \/ Run(w) \/ Stop(w)
        PROVE  DOMAIN work' = Workers
    BY <1>1, <1>2, StartWork, FetchWork, ReadWork, OtherWork DEF Run
  <1>3. ASSUME NEW p \in Products, People(p) PROVE UNCHANGED work
    BY <1>3 DEF People, OdooEdit, Archive, DeleteRow, MarkSynced, ResolveRead, FormRead, Open
  <1> QED
    BY <1>2, <1>3 DEF Next, vars, LocalEdit, ResolveWrite, FormWrite

LEMMA NoDeskStep ==
  ASSUME Calm, desk = NoDesk, [Next]_vars
  PROVE  desk' = NoDesk
  <1>1. ASSUME NEW w \in Workers,
               StartFull(w) \/ StartDelta(w) \/ StartIds(w) \/ Run(w) \/ Stop(w)
        PROVE  UNCHANGED desk
    BY <1>1 DEF StartFull, StartDelta, StartIds, Start, Run, Fetch, Read, Create, SaveOne, Update,
       UpdateLocal, NextPage, GiveUp, Stop, people
  <1>2. ASSUME NEW p \in Products, People(p) PROVE UNCHANGED desk
    BY <1>2 DEF Calm, People, OdooEdit, Archive, DeleteRow, MarkSynced, ResolveRead, FormRead,
       Open, Act
  <1> QED
    BY <1>1, <1>2 DEF Next, vars, LocalEdit, ResolveWrite, FormWrite

\* Odoo is edited while all workers are idle, and later than the watermark.
LEMMA EditWindow ==
  ASSUME Calm, Window, TypeOK', NEW p \in Products, OdooEdit(p) \/ Archive(p)
  PROVE  PassedAreMirrored' /\ NothingMissed'
  <1>1. UNCHANGED <<work, mirror, watermark>> /\ \A w \in Workers : At(w, "idle")
    BY DEF OdooEdit, Archive, Apart, Calm
  <1>2. PassedAreMirrored'
    BY <1>1 DEF PassedAreMirrored, Ahead, At
  <1>3. /\ written' = [written EXCEPT ![p] = acts + 1]
        /\ \A q : q # p => /\ q \in listed' => q \in listed
                           /\ odoo'[q] = odoo[q] \/ q \notin Products
    BY DEF OdooEdit, Archive, Now, Window, TypeOK
  <1>4. acts \in Nat /\ watermark \in -1..acts /\ written \in [Products -> 0..MaxActs]
        /\ listed' \subseteq Products
    BY PolicyType DEF Window, TypeOK
  <1>5. \A q \in listed' : q # p => written'[q] = written[q]
    BY <1>3, <1>4
  <1>6. written'[p] > watermark'
    BY <1>1, <1>3, <1>4
  <1>7. ASSUME NEW q \in listed', q # p
        PROVE  (q \in Rows /\ mirror[q].val = odoo'[q]) \/ written'[q] > watermark
    BY <1>3, <1>4, <1>5, <1>7 DEF Window, NothingMissed
  <1> QED
    BY <1>1, <1>2, <1>6, <1>7 DEF NothingMissed, Rows

\* No other step takes the mirror from Odoo, and the watermark moves when nothing
\* is behind.
LEMMA WatermarkStep ==
  ASSUME Window, Improves, [Next]_vars
  PROVE  NothingMissed'
  <1>1. ASSUME watermark' = watermark \/ \A p : ~Behind(p)
        PROVE  NothingMissed'
    <2>1. \A p \in listed' : ~Behind(p)' \/ (Behind(p) /\ watermark' = watermark)
      BY <1>1 DEF Improves
    <2>2. \A p \in listed' : Behind(p) => written'[p] > watermark
      BY DEF Window, NothingMissed, Behind, Improves
    <2> QED
      BY <2>1, <2>2 DEF NothingMissed, Behind, Rows
  <1>2. ASSUME NEW w \in Workers, Fetch(w) \/ NextPage(w)
        PROVE  watermark' = watermark \/ \A p : ~Behind(p)
    BY <1>2, EndsPassed DEF Fetch, NextPage
  <1>3. ASSUME NEW w \in Workers,
               \/ StartFull(w) \/ StartDelta(w) \/ StartIds(w) \/ Read(w) \/ Create(w)
               \/ SaveOne(w) \/ Update(w) \/ UpdateLocal(w) \/ GiveUp(w) \/ Stop(w)
        PROVE  watermark' = watermark
    BY <1>3 DEF StartFull, StartDelta, StartIds, Start, Read, Create, SaveOne, Update,
       UpdateLocal, GiveUp, Stop
  <1>4. ASSUME NEW p \in Products, People(p) PROVE watermark' = watermark
    BY <1>4 DEF People, OdooEdit, Archive, DeleteRow, MarkSynced, ResolveRead, FormRead, Open
  <1>5. watermark' = watermark \/ \A p : ~Behind(p)
    BY <1>2, <1>3, <1>4 DEF Next, Run, vars, LocalEdit, ResolveWrite, FormWrite
  <1> QED
    BY <1>1, <1>5

\* Each worker stays ahead of the mirror: the one that takes the step by its own
\* lemma, the others because the mirror has only improved.
LEMMA AheadStep ==
  ASSUME Calm, Window, Improves, TypeOK', [Next]_vars
  PROVE  PassedAreMirrored'
  <1> SUFFICES ASSUME NEW v \in Workers PROVE Ahead(v)'
    BY DEF PassedAreMirrored
  <1>1. watermark' \in Int /\ TypeOK /\ Ahead(v)
    BY PolicyType DEF TypeOK, Window, PassedAreMirrored
  <1>2. ASSUME work'[v] = work[v] PROVE Ahead(v)'
    BY <1>1, <1>2, OthersAhead
  <1>3. ASSUME NEW w \in Workers,
               StartFull(w) \/ StartDelta(w) \/ StartIds(w) \/ Run(w) \/ Stop(w)
        PROVE  Ahead(v)'
    <2>1. CASE v # w
      <3>1. \E k : work' = [work EXCEPT ![w] = k]
        BY <1>1, <1>3, StartWork, FetchWork, ReadWork, OtherWork DEF Run
      <3> QED
        BY <1>2, <2>1, <3>1
    <2>2. CASE v = w
      <3>1. CASE GiveUp(w) \/ Stop(w)
        <4>1. work'[v] = Idle
          BY <2>2, <3>1 DEF GiveUp, Stop, Window
        <4> QED
          BY <4>1 DEF Ahead, At, Idle
      <3>2. CASE StartFull(w) \/ StartDelta(w) \/ StartIds(w)
        BY <1>1, <2>2, <3>2, StartAhead
      <3>3. CASE Run(w) /\ ~GiveUp(w)
        BY <1>1, <2>2, <3>3, FetchAhead, ReadAhead, CreateAhead, SaveOneAhead, UpdateAhead,
           UpdateLocalAhead, NextPageAhead DEF Run
      <3> QED
        BY <1>3, <3>1, <3>2, <3>3 DEF Run
    <2> QED
      BY <2>1, <2>2
  <1>4. ASSUME NEW p \in Products, People(p) PROVE UNCHANGED work
    BY <1>4 DEF People, OdooEdit, Archive, DeleteRow, MarkSynced, ResolveRead, FormRead, Open
  <1> QED
    BY <1>2, <1>3, <1>4 DEF Next, vars, LocalEdit, ResolveWrite, FormWrite

LEMMA WindowStep == ASSUME Calm PROVE Window /\ [Next]_vars => Window'
  <1> SUFFICES ASSUME Window, [Next]_vars PROVE Window'
    OBVIOUS
  <1>1. TypeOK' /\ DOMAIN work' = Workers /\ desk' = NoDesk
    BY TypeStep, WorkDomain, NoDeskStep DEF Window
  <1>2. CASE \E p \in Products : OdooEdit(p) \/ Archive(p)
    BY <1>1, <1>2, EditWindow DEF Window
  <1>3. CASE \A p \in Products : ~OdooEdit(p) /\ ~Archive(p)
    BY <1>1, <1>3, StepImproves, WatermarkStep, AheadStep DEF Window
  <1> QED
    BY <1>2, <1>3

LEMMA WindowStart == Init => Window
  <1> SUFFICES ASSUME Init PROVE Window
    OBVIOUS
  <1>1. TypeOK
    BY TypeStart
  <1>2. DOMAIN work = Workers /\ desk = NoDesk
    BY DEF Init
  <1>3. PassedAreMirrored
    BY DEF Init, PassedAreMirrored, Ahead, At, Idle
  <1>4. NothingMissed
    BY DEF Init, NothingMissed
  <1> QED
    BY <1>1, <1>2, <1>3, <1>4 DEF Window

\* While Odoo rests, a run that may yet be a SUCCESS has left no product behind
\* it: neither overlapping runs, nor runs that fail or are killed half-way, nor
\* refused records can make it end so otherwise (tasks.py:236-265, 475-560).
THEOREM NoneLeftBehind == ASSUME Calm PROVE Spec => []PassedAreMirrored
  <1>1. Window => PassedAreMirrored
    BY DEF Window
  <1> QED
    BY <1>1, WindowStart, WindowStep, PTL DEF Spec

\* The watermark of the delta runs is never ahead of the mirror: a product that
\* the mirror does not have as Odoo has it is found by the next delta run
\* (tasks.py:61-68, 119-123, 261-265).
THEOREM DeltaMissesNothing == ASSUME Calm PROVE Spec => []NothingMissed
  <1>1. Window => NothingMissed
    BY DEF Window
  <1> QED
    BY <1>1, WindowStart, WindowStep, PTL DEF Spec
=============================================================================
