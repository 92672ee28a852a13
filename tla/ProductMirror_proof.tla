------------------------- MODULE ProductMirror_proof -------------------------
(***************************************************************************)
(* Two facts about the tables of ProductMirror, for any number of products *)
(* and workers, any policy, page size and mix of runs: no table holds what *)
(* its column refuses, and no good record of a page is left out.           *)
(***************************************************************************)
EXTENDS ProductMirror, TLAPS

LEMMA PolicyType == Products \subseteq Nat /\ BatchSize \in Nat /\ BadPrices \subseteq WidePrices
                    /\ Linked \subseteq Products /\ MaxActs \in Nat /\ MaxStops \in Nat
  BY ProductsAssumption, BatchSizeAssumption, PricesAssumption, LinkedAssumption,
     BoundsAssumption

\* int() of a quantity is a quantity the shop may store.
LEMMA AppliedFacts ==
  ASSUME NEW v \in Value
  PROVE  Applied(v) \in Value /\ Applied(v).price = v.price
  <1>1. Whole(v.qty) \in Quantities
    BY QuantitiesAssumption DEF Value
  <1> QED
    BY <1>1 DEF Applied, Value

\* What a worker's state has to be.
WorkOK(k) ==
    /\ k \in WorkType
    /\ k.new \cup k.known \subseteq DOMAIN k.page
    /\ k.clash \subseteq k.known

LEMMA PageFacts ==
  ASSUME NEW k, WorkOK(k)
  PROVE  DOMAIN k.page \subseteq Products /\ \A p \in DOMAIN k.page : k.page[p] \in Value
  BY DEF WorkOK, WorkType

LEMMA WorkFacts ==
  ASSUME TypeOK, NEW w \in Workers
  PROVE  WorkOK(work[w]) /\ work[w].clash \subseteq Linked
  BY DEF TypeOK, WorkOK, WorkType

LEMMA IdleFacts == WorkOK(Idle)
  <1>1. NoPage \in UNION {[S -> Value] : S \in SUBSET Products} /\ DOMAIN NoPage = {}
    <2>1. NoPage \in [{} -> Value] /\ {} \in SUBSET Products
      BY DEF NoPage
    <2> QED
      BY <2>1 DEF NoPage
  <1>2. -1 \in -1..MaxActs
    BY PolicyType
  <1> QED
    BY <1>1, <1>2 DEF Idle, WorkOK, WorkType

\* A product's row that may be stored.
LEMMA NewRow ==
  ASSUME NEW p \in Products, NEW v \in Value, v.price \notin BadPrices
  PROVE  Storable(p, [val |-> v, status |-> "SYNCED", linked |-> FALSE])
  BY DEF Storable, RowType

-----------------------------------------------------------------------------
(* What each step makes of the worker's state. *)

\* The worker goes to another point, and changes nothing else of its state.
LEMMA GoToFacts ==
  ASSUME NEW k, WorkOK(k),
         NEW pc \in {"idle", "fetch", "read", "create", "salvage", "update", "local",
                     "next", "rejected"}
  PROVE  WorkOK([k EXCEPT !.pc = pc])
  BY DEF WorkOK, WorkType

LEMMA StartWork ==
  ASSUME TypeOK, NEW w \in Workers, StartFull(w) \/ StartDelta(w) \/ StartIds(w)
  PROVE  \E k : WorkOK(k) /\ work' = [work EXCEPT ![w] = k]
  <1>1. \E kind \in {"full", "delta", "ids"}, ids \in SUBSET Products : Start(w, kind, ids)
    BY DEF StartFull, StartDelta, StartIds, TypeOK
  <1>2. PICK kind \in {"full", "delta", "ids"}, ids \in SUBSET Products : Start(w, kind, ids)
    BY <1>1
  <1>3. PICK since \in (IF kind = "delta" /\ watermark >= 0
                        THEN {watermark - 1, watermark} ELSE {-1}) :
          work' = [work EXCEPT ![w] = [Idle EXCEPT !.pc = "fetch", !.kind = kind, !.ids = ids,
                                                   !.since = since]]
    BY <1>2 DEF Start
  <1>4. since \in -1..MaxActs
    BY <1>3, PolicyType DEF TypeOK
  <1>5. WorkOK([Idle EXCEPT !.pc = "fetch", !.kind = kind, !.ids = ids, !.since = since])
    BY <1>4, IdleFacts DEF WorkOK, WorkType
  <1> QED
    BY <1>3, <1>5

LEMMA FetchWork ==
  ASSUME TypeOK, NEW w \in Workers, Fetch(w)
  PROVE  \E k : WorkOK(k) /\ work' = [work EXCEPT ![w] = k]
  <1>1. CASE work' = [work EXCEPT ![w] = Idle]
    BY <1>1, IdleFacts
  <1>2. CASE ~(work' = [work EXCEPT ![w] = Idle])
    <2> DEFINE page == [p \in Page(w) |-> odoo[p]]
               k == [work[w] EXCEPT !.pc = "read", !.page = page,
                                    !.new = {}, !.known = {}, !.clash = {}]
    <2>1. work' = [work EXCEPT ![w] = k]
      BY <1>2 DEF Fetch, EndRun
    <2>2. Page(w) \subseteq Products
      BY DEF Page, Matching, TypeOK
    <2>3. page \in [Page(w) -> Value]
      BY <2>2 DEF TypeOK
    <2>4. page \in UNION {[S -> Value] : S \in SUBSET Products}
      BY <2>2, <2>3
    <2> HIDE DEF page
    <2>5. k \in WorkType /\ k.new = {} /\ k.known = {} /\ k.clash = {}
      BY <2>4, WorkFacts DEF WorkOK, WorkType
    <2> QED
      BY <2>1, <2>5 DEF WorkOK
  <1> QED
    BY <1>1, <1>2

LEMMA ReadWork ==
  ASSUME TypeOK, NEW w \in Workers, Read(w)
  PROVE  \E k : WorkOK(k) /\ work' = [work EXCEPT ![w] = k]
  <1> DEFINE page == work[w].page
             known == DOMAIN page \cap Rows
             clash == {p \in known : mirror[p].linked /\ Conflict(mirror[p].val, page[p], local[p])}
             k == [work[w] EXCEPT !.pc = "create", !.new = DOMAIN page \ Rows,
                                  !.known = known, !.clash = clash]
  <1>1. work' = [work EXCEPT ![w] = k]
    BY DEF Read
  <1>2. WorkOK(work[w]) /\ DOMAIN page \subseteq Products
    BY WorkFacts, PageFacts
  <1>3. clash \subseteq Linked /\ clash \subseteq known
    BY DEF TypeOK, Storable
  <1> HIDE DEF clash
  <1>4. /\ k.new = DOMAIN page \ Rows /\ k.known = known /\ k.clash = clash /\ k.page = page
        /\ k \in WorkType
    BY <1>2, <1>3 DEF WorkOK, WorkType
  <1> QED
    BY <1>1, <1>3, <1>4 DEF WorkOK

LEMMA OtherWork ==
  ASSUME TypeOK, NEW w \in Workers,
         \/ Create(w) \/ SaveOne(w) \/ Update(w) \/ UpdateLocal(w)
         \/ NextPage(w) \/ GiveUp(w) \/ Stop(w)
  PROVE  \E k : WorkOK(k) /\ work' = [work EXCEPT ![w] = k]
  <1>1. WorkOK(work[w])
    BY WorkFacts
  <1>2. ASSUME NEW pc \in {"idle", "fetch", "read", "create", "salvage", "update", "local",
                           "next", "rejected"},
               GoTo(w, pc)
        PROVE  \E k : WorkOK(k) /\ work' = [work EXCEPT ![w] = k]
    BY <1>1, <1>2, GoToFacts DEF GoTo
  <1>3. CASE Create(w) \/ Update(w) \/ UpdateLocal(w)
    BY <1>2, <1>3 DEF Create, Update, UpdateLocal
  <1>4. CASE SaveOne(w)
    <2>1. PICK p \in work[w].new :
            work' = [work EXCEPT ![w] = [work[w] EXCEPT
               !.new = @ \ {p}, !.errors = @ \/ Refused(w, p),
               !.pc = IF work[w].new = {p} THEN "update" ELSE "salvage"]]
      BY <1>4, ZenonT(60) DEF SaveOne
    <2> DEFINE bad == work[w].errors \/ Refused(w, p)
               pc == IF work[w].new = {p} THEN "update" ELSE "salvage"
               k == [work[w] EXCEPT !.new = @ \ {p}, !.errors = bad, !.pc = pc]
    <2>2. bad \in BOOLEAN /\ pc \in {"update", "salvage"}
      BY DEF Refused
    <2> HIDE DEF bad, pc
    <2>3. k \in WorkType /\ k.new \subseteq work[w].new /\ k.page = work[w].page
          /\ k.known = work[w].known /\ k.clash = work[w].clash
      BY <1>1, <2>2 DEF WorkOK, WorkType
    <2> QED
      BY <1>1, <2>1, <2>3 DEF WorkOK, bad, pc
  <1>5. CASE NextPage(w)
    <2>1. CASE work' = [work EXCEPT ![w] = Idle]
      BY <2>1, IdleFacts
    <2>2. CASE ~(work' = [work EXCEPT ![w] = Idle])
      <3>1. work' = [work EXCEPT ![w] =
                       [work[w] EXCEPT !.pc = "fetch", !.offset = @ + BatchSize]]
        BY <1>5, <2>2 DEF NextPage, EndRun
      <3>2. WorkOK([work[w] EXCEPT !.pc = "fetch", !.offset = @ + BatchSize])
        <4>1. work[w].offset + BatchSize \in Nat
          BY <1>1, PolicyType DEF WorkOK, WorkType
        <4> QED
          BY <1>1, <4>1 DEF WorkOK, WorkType
      <3> QED
        BY <3>1, <3>2
    <2> QED
      BY <2>1, <2>2
  <1>6. CASE GiveUp(w) \/ Stop(w)
    BY <1>6, IdleFacts DEF GiveUp, Stop
  <1> QED
    BY <1>3, <1>4, <1>5, <1>6

\* The workers' part of the type invariant.
LEMMA WorkStep ==
  ASSUME TypeOK, [Next]_vars
  PROVE  \A w \in Workers : WorkOK(work'[w])
  <1>1. \A w \in Workers : WorkOK(work[w])
    BY WorkFacts
  <1>2. ASSUME UNCHANGED work PROVE \A w \in Workers : WorkOK(work'[w])
    BY <1>1, <1>2
  <1>3. ASSUME NEW w \in Workers, \E k : WorkOK(k) /\ work' = [work EXCEPT ![w] = k]
        PROVE  \A v \in Workers : WorkOK(work'[v])
    <2> TAKE v \in Workers
    <2>1. PICK k : WorkOK(k) /\ work' = [work EXCEPT ![w] = k]
      BY <1>3
    <2>2. work'[v] = k \/ work'[v] = work[v] \/ v \notin DOMAIN work
      BY <2>1
    <2> QED
      BY <1>1, <2>1, <2>2
  <1>4. ASSUME NEW w \in Workers,
               StartFull(w) \/ StartDelta(w) \/ StartIds(w) \/ Run(w) \/ Stop(w)
        PROVE  \A v \in Workers : WorkOK(work'[v])
    BY <1>3, <1>4, StartWork, FetchWork, ReadWork, OtherWork DEF Run
  <1>5. ASSUME NEW p \in Products, People(p) PROVE UNCHANGED work
    BY <1>5 DEF People, OdooEdit, Archive, DeleteRow, MarkSynced, ResolveRead, FormRead, Open
  <1> QED
    BY <1>2, <1>4, <1>5 DEF Next, vars, LocalEdit, ResolveWrite, FormWrite

-----------------------------------------------------------------------------
(* What each step makes of the tables. *)

\* New rows with the values of a page.
LEMMA InsertFacts ==
  ASSUME TypeOK, NEW w \in Workers, NEW ids, ids \subseteq work[w].new,
         \A p \in ids : work[w].page[p].price \notin BadPrices, Insert(w, ids)
  PROVE  /\ DOMAIN mirror' = Rows \cup ids /\ ids \subseteq Products
         /\ \A p \in Rows \cup ids : Storable(p, mirror'[p])
  <1>1. ids \subseteq Products /\ \A p \in ids : work[w].page[p] \in Value
    BY WorkFacts, PageFacts DEF WorkOK
  <1>2. /\ DOMAIN mirror' = Rows \cup ids
        /\ \A p \in Rows \cup ids :
             mirror'[p] = IF p \in ids
                          THEN [val |-> work[w].page[p], status |-> "SYNCED", linked |-> FALSE]
                          ELSE mirror[p]
    BY DEF Insert
  <1>3. \A p \in ids : Storable(p, mirror'[p])
    BY <1>1, <1>2, NewRow
  <1>4. \A p \in Rows \ ids : Storable(p, mirror'[p])
    BY <1>2 DEF TypeOK
  <1> QED
    BY <1>1, <1>2, <1>3, <1>4

LEMMA UpdateFacts ==
  ASSUME TypeOK, NEW w \in Workers, Update(w)
  PROVE  DOMAIN mirror' = Rows /\ \A p \in Rows : Storable(p, mirror'[p])
  <1>1. CASE UNCHANGED mirror
    BY <1>1 DEF TypeOK, Rows
  <1>2. CASE ~(UNCHANGED mirror)
    <2> DEFINE page == work[w].page
               status(p) == IF p \in work[w].clash /\ Policy = "MANUAL" THEN "CONFLICT" ELSE "SYNCED"
    <2>1. /\ \A p \in work[w].known : page[p].price \notin BadPrices
          /\ mirror' = [p \in Rows |->
                          IF p \in work[w].known
                          THEN [mirror[p] EXCEPT !.val = page[p], !.status = status(p)]
                          ELSE mirror[p]]
      BY <1>2 DEF Update
    <2>2. \A p \in work[w].known : page[p] \in Value
      BY WorkFacts, PageFacts DEF WorkOK
    <2>3. \A p \in Rows : Storable(p, mirror[p])
      BY DEF TypeOK
    <2> DEFINE st(p) == [mirror[p] EXCEPT !.val = page[p], !.status = status(p)]
    <2>4. ASSUME NEW p \in Rows, p \in work[w].known PROVE Storable(p, st(p))
      BY <2>1, <2>2, <2>3, <2>4 DEF Storable, RowType
    <2>5. DOMAIN mirror' = Rows
          /\ \A p \in Rows : mirror'[p] = IF p \in work[w].known THEN st(p) ELSE mirror[p]
      BY <2>1
    <2> HIDE DEF st
    <2> QED
      BY <2>3, <2>4, <2>5
  <1> QED
    BY <1>1, <1>2

\* A request at the desk writes the row it holds.
LEMMA DeskFacts ==
  ASSUME TypeOK, ResolveWrite \/ FormWrite
  PROVE  /\ DOMAIN mirror' \subseteq Products /\ Rows \subseteq DOMAIN mirror'
         /\ \A p \in DOMAIN mirror' : Storable(p, mirror'[p])
  <1>1. desk.busy
    BY DEF ResolveWrite, FormWrite
  <1>2. desk \in DeskType /\ Storable(desk.id, desk.row) /\ desk.id \in Products
    <2>1. desk # NoDesk
      BY <1>1 DEF NoDesk
    <2>2. desk \in DeskType /\ Storable(desk.id, desk.row)
      BY <2>1 DEF TypeOK
    <2> QED
      BY <2>2 DEF DeskType
  <1>3. Rows \subseteq Products /\ \A p \in Rows : Storable(p, mirror[p])
    BY DEF TypeOK
  <1>4. CASE ResolveWrite
    <2>1. CASE desk.id \in Rows
      <3>1. DOMAIN mirror' = Rows
            /\ \A q \in Rows : mirror'[q] = IF q = desk.id THEN desk.row ELSE mirror[q]
        BY <1>4, <2>1 DEF ResolveWrite, Rows
      <3> QED
        BY <1>2, <1>3, <3>1
    <2>2. CASE desk.id \notin Rows
      BY <1>3, <1>4, <2>2 DEF ResolveWrite, Rows
    <2> QED
      BY <2>1, <2>2
  <1>5. CASE FormWrite
    BY <1>2, <1>3, <1>5 DEF FormWrite
  <1> QED
    BY <1>4, <1>5

LEMMA MirrorStep ==
  ASSUME TypeOK, [Next]_vars
  PROVE  /\ DOMAIN mirror' \subseteq Products
         /\ \A p \in DOMAIN mirror' : Storable(p, mirror'[p])
         /\ "delete" \notin Acts => Rows \subseteq DOMAIN mirror'
  <1>1. Rows \subseteq Products /\ \A p \in Rows : Storable(p, mirror[p])
    BY DEF TypeOK
  <1>2. CASE UNCHANGED mirror
    BY <1>1, <1>2 DEF Rows
  <1>4. ASSUME NEW w \in Workers, Create(w) \/ SaveOne(w), ~(UNCHANGED mirror)
        PROVE  \E ids : /\ DOMAIN mirror' = Rows \cup ids /\ ids \subseteq Products
                        /\ \A p \in Rows \cup ids : Storable(p, mirror'[p])
    <2>1. CASE Create(w)
      <3>1. Insert(w, work[w].new) /\ \A p \in work[w].new : work[w].page[p].price \notin BadPrices
        BY <1>4, <2>1 DEF Create, Refused
      <3> QED
        BY <3>1, InsertFacts
    <2>2. CASE SaveOne(w)
      <3>1. PICK p \in work[w].new : Insert(w, {p}) /\ work[w].page[p].price \notin BadPrices
        BY <1>4, <2>2 DEF SaveOne, Refused
      <3> QED
        BY <3>1, InsertFacts
    <2> QED
      BY <1>4, <2>1, <2>2
  <1>5. ASSUME NEW p \in Products, DeleteRow(p)
        PROVE  /\ "delete" \in Acts /\ DOMAIN mirror' \subseteq Rows
               /\ \A q \in DOMAIN mirror' : mirror'[q] = mirror[q]
    BY <1>5 DEF DeleteRow, Act
  <1>6. ASSUME NEW p \in Products, MarkSynced(p)
        PROVE  DOMAIN mirror' = Rows /\ \A q \in Rows : Storable(q, mirror'[q])
    <2>1. mirror' = [mirror EXCEPT ![p].status = "SYNCED"] /\ p \in Rows
      BY <1>6 DEF MarkSynced
    <2>2. DOMAIN mirror' = Rows
          /\ \A q \in Rows : mirror'[q] = IF q = p THEN [mirror[p] EXCEPT !.status = "SYNCED"]
                                          ELSE mirror[q]
      BY <2>1 DEF Rows
    <2>3. Storable(p, [mirror[p] EXCEPT !.status = "SYNCED"])
      BY <1>1, <2>1 DEF Storable, RowType
    <2> QED
      BY <1>1, <2>2, <2>3
  <1>7. CASE \E w \in Workers : Create(w) \/ SaveOne(w)
    BY <1>1, <1>2, <1>4, <1>7
  <1>8. CASE \E w \in Workers : Update(w)
    BY <1>1, <1>8, UpdateFacts
  <1>9. CASE \E p \in Products : DeleteRow(p)
    BY <1>1, <1>5, <1>9
  <1>10. CASE \E p \in Products : MarkSynced(p)
    BY <1>1, <1>6, <1>10
  <1>11. CASE ResolveWrite \/ FormWrite
    BY <1>11, DeskFacts
  <1>12. ASSUME NEW w \in Workers,
                \/ StartFull(w) \/ StartDelta(w) \/ StartIds(w) \/ Fetch(w) \/ Read(w)
                \/ UpdateLocal(w) \/ NextPage(w) \/ GiveUp(w) \/ Stop(w)
         PROVE  UNCHANGED mirror
    BY <1>12 DEF StartFull, StartDelta, StartIds, Start, Fetch, Read, UpdateLocal, NextPage,
       GiveUp, Stop
  <1>13. ASSUME NEW p \in Products, OdooEdit(p) \/ Archive(p) \/ ResolveRead(p) \/ FormRead(p)
         PROVE  UNCHANGED mirror
    BY <1>13 DEF OdooEdit, Archive, ResolveRead, FormRead, Open
  <1> QED
    BY <1>2, <1>7, <1>8, <1>9, <1>10, <1>11, <1>12, <1>13 DEF Next, Run, People, vars, LocalEdit

\* The local products: only losers of a conflict are overwritten, and what the
\* shop stores fits its column.
LEMMA LocalStep ==
  ASSUME TypeOK, [Next]_vars
  PROVE  local' \in [Linked -> Value] /\ \A p \in Linked : local'[p].price \notin WidePrices
  <1>1. local \in [Linked -> Value] /\ \A p \in Linked : local[p].price \notin WidePrices
    BY DEF TypeOK
  <1>2. CASE UNCHANGED local
    BY <1>1, <1>2
  <1>3. ASSUME NEW w \in Workers, UpdateLocal(w), ~(UNCHANGED local)
        PROVE  local' \in [Linked -> Value] /\ \A p \in Linked : local'[p].price \notin WidePrices
    <2>1. /\ local' = [p \in Linked |-> IF p \in Losers(w)
                                         THEN Applied(work[w].page[p]) ELSE local[p]]
          /\ \A p \in Losers(w) : work[w].page[p].price \notin WidePrices
      BY <1>3 DEF UpdateLocal, TooWide
    <2>2. \A p \in Losers(w) : work[w].page[p] \in Value
      BY WorkFacts, PageFacts DEF Losers, WorkOK
    <2>3. \A p \in Losers(w) : /\ Applied(work[w].page[p]) \in Value
                               /\ Applied(work[w].page[p]).price \notin WidePrices
      BY <2>1, <2>2, AppliedFacts
    <2> QED
      BY <1>1, <2>1, <2>3
  <1>4. ASSUME NEW p \in Linked, LocalEdit(p)
        PROVE  local' \in [Linked -> Value] /\ \A q \in Linked : local'[q].price \notin WidePrices
    BY <1>1, <1>4 DEF LocalEdit
  <1>5. ASSUME NEW w \in Workers,
               \/ StartFull(w) \/ StartDelta(w) \/ StartIds(w) \/ Fetch(w) \/ Read(w) \/ Create(w)
               \/ SaveOne(w) \/ Update(w) \/ NextPage(w) \/ GiveUp(w) \/ Stop(w)
        PROVE  UNCHANGED local
    BY <1>5 DEF StartFull, StartDelta, StartIds, Start, Fetch, Read, Create, SaveOne, Update,
       NextPage, GiveUp, Stop
  <1>6. ASSUME NEW p \in Products, People(p) PROVE UNCHANGED local
    BY <1>6 DEF People, OdooEdit, Archive, DeleteRow, MarkSynced, ResolveRead, FormRead, Open
  <1> QED
    BY <1>2, <1>3, <1>4, <1>5, <1>6 DEF Next, Run, vars, ResolveWrite, FormWrite

\* A request takes a row to the desk.
LEMMA DeskStep ==
  ASSUME TypeOK, [Next]_vars
  PROVE  desk' = NoDesk \/ (desk' \in DeskType /\ Storable(desk'.id, desk'.row))
  <1>1. desk = NoDesk \/ (desk \in DeskType /\ Storable(desk.id, desk.row))
    BY DEF TypeOK
  <1>2. ASSUME NEW p \in Products, NEW kind \in {"resolve", "form"}, NEW val \in Value,
               NEW status \in {"SYNCED", "CONFLICT"},
               p \in Rows => val.price \notin BadPrices, Open(p, kind, val, status)
        PROVE  desk' \in DeskType /\ Storable(desk'.id, desk'.row)
    <2>1. desk' = [busy |-> TRUE, kind |-> kind, id |-> p,
                   row |-> [mirror[p] EXCEPT !.val = val, !.status = status]] /\ p \in Rows
      BY <1>2 DEF Open
    <2>2. Storable(p, [mirror[p] EXCEPT !.val = val, !.status = status])
      BY <1>2, <2>1 DEF TypeOK, Storable, RowType
    <2> QED
      BY <2>1, <2>2 DEF DeskType, Storable
  <1>3. ASSUME NEW p \in Products, p \in Rows
        PROVE  /\ mirror[p].val \in Value /\ mirror[p].val.price \notin BadPrices
               /\ mirror[p].linked => local[p] \in Value /\ local[p].price \notin BadPrices
    BY <1>3, PolicyType DEF TypeOK, Storable, RowType
  <1>4. ASSUME NEW p \in Products, ResolveRead(p)
        PROVE  desk' \in DeskType /\ Storable(desk'.id, desk'.row)
    <2> DEFINE val == IF p \in Rows /\ mirror[p].linked THEN local[p] ELSE mirror[p].val
    <2>1. Open(p, "resolve", val, "SYNCED") /\ p \in Rows
      BY <1>4 DEF ResolveRead, Open
    <2>2. val \in Value /\ val.price \notin BadPrices
      BY <1>3, <2>1
    <2> HIDE DEF val
    <2> QED
      BY <1>2, <2>1, <2>2
  <1>5. ASSUME NEW p \in Products, FormRead(p)
        PROVE  desk' \in DeskType /\ Storable(desk'.id, desk'.row)
    <2>1. p \in Rows /\ \E s \in {"SYNCED", "CONFLICT"} : Open(p, "form", mirror[p].val, s)
      BY <1>5 DEF FormRead, Open
    <2> QED
      BY <1>2, <1>3, <2>1
  <1>6. CASE ResolveWrite \/ FormWrite
    BY <1>6 DEF ResolveWrite, FormWrite
  <1>7. CASE UNCHANGED desk
    BY <1>1, <1>7
  <1>8. ASSUME NEW w \in Workers,
               StartFull(w) \/ StartDelta(w) \/ StartIds(w) \/ Run(w) \/ Stop(w)
        PROVE  UNCHANGED desk
    BY <1>8 DEF StartFull, StartDelta, StartIds, Start, Run, Fetch, Read, Create, SaveOne, Update,
       UpdateLocal, NextPage, GiveUp, Stop, people
  <1>9. ASSUME NEW p \in Products, OdooEdit(p) \/ Archive(p) \/ DeleteRow(p) \/ MarkSynced(p)
        PROVE  UNCHANGED desk
    BY <1>9 DEF OdooEdit, Archive, DeleteRow, MarkSynced
  <1> QED
    BY <1>4, <1>5, <1>6, <1>7, <1>8, <1>9 DEF Next, People, vars, LocalEdit

\* Odoo, the clocks and the watermark.
LEMMA ClockStep ==
  ASSUME TypeOK, [Next]_vars
  PROVE  /\ odoo' \in [Products -> Value] /\ written' \in [Products -> 0..MaxActs]
         /\ listed' \subseteq Products /\ acts' \in 0..MaxActs /\ stops' \in 0..MaxStops
         /\ watermark' \in -1..acts'
  <1>1. /\ odoo \in [Products -> Value] /\ written \in [Products -> 0..MaxActs]
        /\ listed \subseteq Products /\ acts \in 0..MaxActs /\ stops \in 0..MaxStops
        /\ watermark \in -1..acts
    BY DEF TypeOK
  <1>2. CASE UNCHANGED <<odoo, written, listed, acts, stops, watermark>>
    BY <1>1, <1>2
  <1>3. ASSUME NEW w \in Workers,
               StartFull(w) \/ StartDelta(w) \/ StartIds(w) \/ Run(w)
        PROVE  UNCHANGED <<people, stops>> /\ watermark' \in {watermark, acts}
    BY <1>3 DEF StartFull, StartDelta, StartIds, Start, Run, Fetch, EndRun, Read, Create, SaveOne,
       Update, UpdateLocal, NextPage, GiveUp, people
  <1>4. ASSUME NEW w \in Workers, Stop(w)
        PROVE  UNCHANGED people /\ stops' \in 0..MaxStops /\ watermark' = watermark
    <2>1. stops < MaxStops /\ stops' = stops + 1 /\ UNCHANGED people /\ watermark' = watermark
      BY <1>4 DEF Stop
    <2> QED
      BY <1>1, <2>1, PolicyType
  <1>5. ASSUME NEW a, Act(a)
        PROVE  acts' \in 0..MaxActs /\ Now \in 0..MaxActs /\ \A n \in -1..acts : n \in -1..acts'
    <2>1. acts < MaxActs /\ acts' = acts + 1 /\ Now = acts + 1
      BY <1>5 DEF Act, Now
    <2> QED
      BY <1>1, <2>1, PolicyType
  <1>6. ASSUME NEW p \in Products, OdooEdit(p) \/ Archive(p)
        PROVE  /\ odoo' \in [Products -> Value] /\ written' \in [Products -> 0..MaxActs]
               /\ listed' \subseteq Products /\ acts' \in 0..MaxActs
               /\ watermark' \in -1..acts' /\ stops' = stops
    BY <1>1, <1>5, <1>6 DEF OdooEdit, Archive
  <1>7. ASSUME NEW p \in Products,
               DeleteRow(p) \/ MarkSynced(p) \/ ResolveRead(p) \/ FormRead(p) \/ LocalEdit(p)
        PROVE  /\ UNCHANGED <<odoo, written, listed, stops>> /\ acts' \in 0..MaxActs
               /\ watermark' \in -1..acts'
    BY <1>1, <1>5, <1>7 DEF DeleteRow, MarkSynced, ResolveRead, FormRead, Open, LocalEdit
  <1>8. CASE \E w \in Workers : StartFull(w) \/ StartDelta(w) \/ StartIds(w) \/ Run(w)
    BY <1>1, <1>3, <1>8 DEF people
  <1>9. CASE \E w \in Workers : Stop(w)
    BY <1>1, <1>4, <1>9 DEF people
  <1>10. CASE \E p \in Products : People(p)
    BY <1>1, <1>6, <1>7, <1>10 DEF People
  <1>11. CASE \E p \in Linked : LocalEdit(p)
    BY <1>1, <1>7, <1>11, PolicyType
  <1> QED
    BY <1>2, <1>8, <1>9, <1>10, <1>11 DEF Next, vars, ResolveWrite, FormWrite

LEMMA TypeStep == TypeOK /\ [Next]_vars => TypeOK'
  <1> SUFFICES ASSUME TypeOK, [Next]_vars PROVE TypeOK'
    OBVIOUS
  <1> QED
    BY WorkStep, MirrorStep, LocalStep, DeskStep, ClockStep DEF TypeOK, WorkOK, Rows

LEMMA TypeStart == Init => TypeOK
  <1> SUFFICES ASSUME Init PROVE TypeOK
    OBVIOUS
  <1>1. PICK v \in [Products -> {u \in Value : u.price \notin BadPrices}] :
          /\ \A p \in Linked : v[p].price \notin WidePrices
          /\ odoo = v
          /\ mirror = [p \in Linked |-> [val |-> v[p], status |-> "SYNCED", linked |-> TRUE]]
          /\ local = [p \in Linked |-> Applied(v[p])]
    BY DEF Init
  <1>2. \A p \in Products : v[p] \in Value /\ v[p].price \notin BadPrices
    OBVIOUS
  <1>3. odoo \in [Products -> Value]
    BY <1>1, <1>2
  <1>4. Rows = Linked /\ \A p \in Rows : Storable(p, mirror[p])
    <2>1. Rows = Linked
      BY <1>1 DEF Rows
    <2>2. \A p \in Linked : mirror[p] = [val |-> v[p], status |-> "SYNCED", linked |-> TRUE]
      BY <1>1
    <2> QED
      <3> SUFFICES ASSUME NEW p \in Linked PROVE Storable(p, mirror[p])
        BY <2>1
      <3>1. v[p] \in Value /\ v[p].price \notin BadPrices
        BY <1>2, PolicyType
      <3> DEFINE new == [val |-> v[p], status |-> "SYNCED", linked |-> TRUE]
      <3>2. new \in RowType /\ new.val = v[p]
        BY <3>1 DEF RowType
      <3>3. mirror[p] = new
        BY <2>2
      <3> HIDE DEF new
      <3> QED
        BY <3>1, <3>2, <3>3 DEF Storable
  <1>5. local \in [Linked -> Value] /\ \A p \in Linked : local[p].price \notin WidePrices
    <2>1. \A p \in Linked : Applied(v[p]) \in Value /\ Applied(v[p]).price = v[p].price
      BY <1>2, PolicyType, AppliedFacts
    <2> QED
      BY <1>1, <2>1
  <1>6. \A w \in Workers : WorkOK(work[w])
    BY IdleFacts DEF Init
  <1>7. /\ written \in [Products -> 0..MaxActs] /\ listed \subseteq Products /\ desk = NoDesk
        /\ acts \in 0..MaxActs /\ stops \in 0..MaxStops /\ watermark \in -1..acts
    BY PolicyType DEF Init
  <1> QED
    BY <1>3, <1>4, <1>5, <1>6, <1>7, PolicyType DEF TypeOK, WorkOK

-----------------------------------------------------------------------------
(* No good record of a page is left out. *)

Covered(k, rows) ==
    k.pc \in {"create", "salvage", "update", "local", "next"} =>
      \A p \in DOMAIN k.page :
        \/ p \in rows \/ k.page[p].price \in BadPrices
        \/ k.pc \in {"create", "salvage"} /\ p \in k.new

LEMMA CoverRun ==
  ASSUME TypeOK, EveryFetchedMirrored, NEW w \in Workers, Rows \subseteq DOMAIN mirror',
         Run(w), w \in DOMAIN work
  PROVE  Covered(work'[w], DOMAIN mirror')
  <1>1. Covered(work[w], Rows) /\ WorkOK(work[w])
    BY WorkFacts DEF EveryFetchedMirrored, Covered
  <1>4. CASE Fetch(w)
    <2>1. work'[w].pc \in {"idle", "read"}
      BY <1>1, <1>4 DEF Fetch, EndRun, Idle, WorkOK, WorkType
    <2> QED
      BY <2>1 DEF Covered
  <1>5. CASE Read(w)
    <2>1. /\ work'[w].pc = "create" /\ work'[w].new = DOMAIN work[w].page \ Rows
          /\ work'[w].page = work[w].page
      BY <1>1, <1>5 DEF Read, WorkOK, WorkType
    <2> QED
      BY <2>1 DEF Covered
  <1>6. CASE Create(w)
    <2>1. CASE GoTo(w, "salvage")
      <3>1. /\ work'[w].pc = "salvage" /\ work[w].pc = "create"
            /\ work'[w].page = work[w].page /\ work'[w].new = work[w].new
        BY <1>1, <1>6, <2>1 DEF Create, At, GoTo, WorkOK, WorkType
      <3> QED
        BY <1>1, <3>1 DEF Covered
    <2>2. CASE GoTo(w, "update") /\ Insert(w, work[w].new)
      <3>1. DOMAIN mirror' = Rows \cup work[w].new
        BY <2>2 DEF Insert
      <3> QED
        BY <1>1, <1>6, <2>2, <3>1 DEF Create, At, Covered, GoTo, WorkOK, WorkType
    <2> QED
      BY <1>6, <2>1, <2>2 DEF Create
  <1>7. CASE SaveOne(w)
    <2>1. PICK p \in work[w].new :
            /\ IF Refused(w, p) THEN UNCHANGED mirror ELSE Insert(w, {p})
            /\ work' = [work EXCEPT
                 ![w].new = @ \ {p}, ![w].errors = @ \/ Refused(w, p),
                 ![w].pc = IF work[w].new = {p} THEN "update" ELSE "salvage"]
      BY <1>7 DEF SaveOne
    <2>2. /\ work'[w].pc = (IF work[w].new = {p} THEN "update" ELSE "salvage")
          /\ work'[w].new = work[w].new \ {p} /\ work'[w].page = work[w].page
      BY <1>1, <2>1 DEF WorkOK, WorkType
    <2>3. p \in DOMAIN mirror' \/ work[w].page[p].price \in BadPrices
      BY <2>1 DEF Refused, Insert
    <2>4. work[w].pc = "salvage"
      BY <1>7 DEF SaveOne, At
    <2> QED
      BY <1>1, <2>2, <2>3, <2>4 DEF Covered
  <1>8. CASE Update(w) \/ UpdateLocal(w)
    <2>1. GoTo(w, "rejected") \/ GoTo(w, "local") \/ GoTo(w, "next")
      BY <1>8 DEF Update, UpdateLocal
    <2>2. work[w].pc \in {"update", "local"}
      BY <1>8 DEF Update, UpdateLocal, At
    <2>3. /\ work'[w].pc \in {"rejected", "local", "next"}
          /\ work'[w].page = work[w].page /\ work'[w].new = work[w].new
      BY <1>1, <2>1 DEF GoTo, WorkOK, WorkType
    <2> QED
      BY <1>1, <2>2, <2>3 DEF Covered
  <1>9. CASE NextPage(w) \/ GiveUp(w)
    <2>1. work'[w].pc \in {"idle", "fetch"}
      BY <1>1, <1>9 DEF NextPage, EndRun, GiveUp, Idle, WorkOK, WorkType
    <2> QED
      BY <2>1 DEF Covered
  <1> QED
    BY <1>4, <1>5, <1>6, <1>7, <1>8, <1>9 DEF Run

LEMMA CoverStep ==
  ASSUME "delete" \notin Acts
  PROVE  TypeOK /\ EveryFetchedMirrored /\ [Next]_vars => EveryFetchedMirrored'
  <1> SUFFICES ASSUME TypeOK, EveryFetchedMirrored, [Next]_vars
               PROVE  \A v \in Workers : Covered(work'[v], DOMAIN mirror')
    BY DEF EveryFetchedMirrored, Covered, Rows
  <1>1. Rows \subseteq DOMAIN mirror'
    BY MirrorStep
  <1>2. \A v \in Workers : Covered(work[v], Rows)
    BY DEF EveryFetchedMirrored, Covered
  <1>3. ASSUME NEW v \in Workers, work'[v] = work[v] PROVE Covered(work'[v], DOMAIN mirror')
    BY <1>1, <1>2, <1>3 DEF Covered
  <1>4. ASSUME NEW w \in Workers, \E k : work' = [work EXCEPT ![w] = k], NEW v \in Workers, v # w
        PROVE  Covered(work'[v], DOMAIN mirror')
    BY <1>3, <1>4
  <1>5. ASSUME NEW w \in Workers, StartFull(w) \/ StartDelta(w) \/ StartIds(w) \/ Stop(w)
        PROVE  \A v \in Workers : Covered(work'[v], DOMAIN mirror')
    <2>1. ASSUME NEW k, k.pc \in {"idle", "fetch"}, work' = [work EXCEPT ![w] = k]
          PROVE  /\ work'[w].pc \in {"idle", "fetch"} \/ work'[w] = work[w]
                 /\ \A v \in Workers : v = w \/ work'[v] = work[v]
      BY <2>1
    <2>2. /\ work'[w].pc \in {"idle", "fetch"} \/ work'[w] = work[w]
          /\ \A v \in Workers : v = w \/ work'[v] = work[v]
      <3>1. CASE Stop(w)
        <4>1. Idle.pc = "idle" /\ work' = [work EXCEPT ![w] = Idle]
          BY <3>1 DEF Stop, Idle
        <4> QED
          BY <2>1, <4>1
      <3>2. CASE StartFull(w) \/ StartDelta(w) \/ StartIds(w)
        <4>1. \E kind, ids : Start(w, kind, ids)
          BY <3>2 DEF StartFull, StartDelta, StartIds
        <4>2. PICK kind, ids, since :
                work' = [work EXCEPT ![w] = [Idle EXCEPT !.pc = "fetch", !.kind = kind, !.ids = ids,
                                                         !.since = since]]
          BY <4>1 DEF Start
        <4> DEFINE k == [Idle EXCEPT !.pc = "fetch", !.kind = kind, !.ids = ids, !.since = since]
        <4>3. k.pc = "fetch" /\ work' = [work EXCEPT ![w] = k]
          BY <4>2 DEF Idle
        <4> HIDE DEF k
        <4> QED
          BY <2>1, <4>3
      <3> QED
        BY <1>5, <3>1, <3>2
    <2> TAKE v \in Workers
    <2>3. CASE work'[v].pc \in {"idle", "fetch"}
      BY <2>3 DEF Covered
    <2> QED
      BY <1>3, <2>2, <2>3
  <1>6. ASSUME NEW w \in Workers, Run(w)
        PROVE  \A v \in Workers : Covered(work'[v], DOMAIN mirror')
    <2>1. \E k : work' = [work EXCEPT ![w] = k]
      BY <1>6, FetchWork, ReadWork, OtherWork DEF Run
    <2> TAKE v \in Workers
    <2>2. CASE v = w /\ w \in DOMAIN work
      BY <1>1, <1>6, <2>2, CoverRun
    <2>3. CASE v = w /\ w \notin DOMAIN work
      BY <1>3, <2>1, <2>3
    <2> QED
      BY <1>4, <2>1, <2>2, <2>3
  <1>7. CASE UNCHANGED work
    BY <1>3, <1>7
  <1>8. ASSUME NEW p \in Products, People(p) PROVE UNCHANGED work
    BY <1>8 DEF People, OdooEdit, Archive, DeleteRow, MarkSynced, ResolveRead, FormRead, Open
  <1> QED
    BY <1>5, <1>6, <1>7, <1>8 DEF Next, vars, LocalEdit, ResolveWrite, FormWrite

\* No table ever holds what its column refuses, and runs write what is in their
\* page only, whatever people do meanwhile (tasks.py:312-425).
THEOREM MirrorTypes == Spec => []TypeOK
  BY TypeStart, TypeStep, PTL DEF Spec

\* As long as nobody deletes rows: however many runs insert the same products at
\* the same time, whatever is refused, each good record of a page has its row once
\* the page is written (tasks.py:475-502).
THEOREM Mirrored == ASSUME "delete" \notin Acts PROVE Spec => []EveryFetchedMirrored
  <1>1. Init => EveryFetchedMirrored
    BY DEF Init, EveryFetchedMirrored, Idle
  <1>2. TypeOK /\ EveryFetchedMirrored /\ [Next]_vars => EveryFetchedMirrored'
    BY CoverStep
  <1> QED
    BY <1>1, <1>2, MirrorTypes, PTL DEF Spec
=============================================================================
