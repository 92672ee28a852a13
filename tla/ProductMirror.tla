---------------------------- MODULE ProductMirror ----------------------------
(***************************************************************************)
(* The data of the synchronization: the products Odoo has, the table       *)
(* OdooProduct that mirrors them, the shop's own products linked to some   *)
(* of its rows, and the runs that carry values from the one to the other,  *)
(* page by page, while people edit all three.                              *)
(*                                                                         *)
(* Price and quantity are the two fields conflicts are detected on; the    *)
(* other fields are copied along with them.  Odoo counts in halves here,   *)
(* since its quantities are floats and the shop's are natural numbers.     *)
(* What happens to the SyncLog row of a run is in module SyncTasks.        *)
(***************************************************************************)
EXTENDS Integers, FiniteSets

CONSTANTS
    Products,     \* Odoo ids, in the order Odoo lists them
    Workers,      \* worker processes
    Prices,       \* prices Odoo may have
    BadPrices,    \* those with more digits than the mirror's column (12)
    WidePrices,   \* those with more digits than the shop's column (10)
    Quantities,   \* quantities Odoo may have, in halves
    Linked,       \* products whose row starts out linked to a local product
    Policy,       \* SyncConfig.conflict_resolution
    BatchSize,    \* SyncConfig.batch_size
    Kinds,        \* kinds of runs that are asked for
    Acts,         \* what people do: "odoo", "archive", "local", "delete",
                  \* "mark", "resolve", "form"
    EditsDuring,  \* whether Odoo is also edited while a run is in progress
    MaxActs,      \* bound: things people do
    MaxStops      \* bound: runs that fail half-way or are killed

ASSUME ProductsAssumption == Products \subseteq Nat /\ IsFiniteSet(Products)
ASSUME BatchSizeAssumption == BatchSize \in Nat \ {0}
ASSUME PolicyAssumption == Policy \in {"ODOO_WINS", "LOCAL_WINS", "MANUAL"}
ASSUME PricesAssumption == BadPrices \subseteq WidePrices
ASSUME LinkedAssumption == Linked \subseteq Products
ASSUME BoundsAssumption == MaxActs \in Nat /\ MaxStops \in Nat

VARIABLES
    odoo,      \* what Odoo says of each product
    written,   \* write_date of each product, in acts
    listed,    \* the products the domain finds: the active ones
    mirror,    \* OdooProduct, a function on the ids that have a row
    local,     \* myapp.Product, for the linked ones
    work,      \* what each worker is doing
    watermark, \* finished_at of the last SUCCESS log, in acts; -1: none
    desk,      \* a request that has read its row and has yet to write it
    acts,      \* things people did so far: the clock
    stops      \* runs that were cut short

vars == <<odoo, written, listed, mirror, local, work, watermark, desk, acts, stops>>
people == <<odoo, written, listed, desk, acts>>

Value == [price : Prices, qty : Quantities]
Rows == DOMAIN mirror

\* int() of a float, and never below zero, as the shop stores it; in halves.
Whole(q) == IF q > 0 THEN 2 * (q \div 2) ELSE 0
Applied(v) == [v EXCEPT !.qty = Whole(@)]

ASSUME QuantitiesAssumption == \A q \in Quantities : q \in Int /\ Whole(q) \in Quantities

\* Both sides departed, in the same field, from what the mirror holds.
Conflict(stored, new, mine) ==
    \E f \in {"price", "qty"} : new[f] # stored[f] /\ mine[f] # stored[f]

NoPage == [p \in {} |-> p]
Idle == [pc |-> "idle", kind |-> "full", ids |-> {}, since |-> -1, offset |-> 0,
         page |-> NoPage, new |-> {}, known |-> {}, clash |-> {}, errors |-> FALSE]
NoDesk == [busy |-> FALSE]

-----------------------------------------------------------------------------
Init ==
    /\ \E v \in [Products -> {u \in Value : u.price \notin BadPrices}] :
         /\ \A p \in Linked : v[p].price \notin WidePrices
         /\ odoo = v
         /\ mirror = [p \in Linked |->
                        [val |-> v[p], status |-> "SYNCED", linked |-> TRUE]]
         /\ local = [p \in Linked |-> Applied(v[p])]
    /\ written = [p \in Products |-> 0]
    /\ listed = Products
    /\ work = [w \in Workers |-> Idle]
    /\ watermark = -1
    /\ desk = NoDesk
    /\ acts = 0
    /\ stops = 0

At(w, from) == work[w].pc = from
GoTo(w, to) == work' = [work EXCEPT ![w].pc = to]

\* A row that appears with the values of the page: new rows are not linked.
Insert(w, ids) ==
    mirror' = [p \in Rows \cup ids |->
                 IF p \in ids
                 THEN [val |-> work[w].page[p], status |-> "SYNCED", linked |-> FALSE]
                 ELSE mirror[p]]

-----------------------------------------------------------------------------
\* A delta run looks back to the end of the last successful run, cut to the
\* second: the last act before it may still fall in.  Without one it is full.
Start(w, kind, ids) ==
    /\ At(w, "idle")
    /\ \E since \in IF kind = "delta" /\ watermark >= 0
                    THEN {watermark - 1, watermark} ELSE {-1} :
         work' = [work EXCEPT ![w] =
                    [Idle EXCEPT !.pc = "fetch", !.kind = kind, !.ids = ids,
                                 !.since = since]]
    /\ UNCHANGED <<people, mirror, local, watermark, stops>>

StartFull(w) == "full" \in Kinds /\ Start(w, "full", Products)
StartDelta(w) == "delta" \in Kinds /\ Start(w, "delta", Products)
StartIds(w) ==
    /\ "ids" \in Kinds
    /\ \E ids \in SUBSET Rows \ {{}} : Start(w, "ids", ids)

\* search_read: the records offset + 1 .. offset + limit of those that match.
\* Mutant: ranks start from 0.
RankFromZero(p, S) == Cardinality({q \in S : q < p})
Matching(w) == {p \in listed \cap work[w].ids : written[p] > work[w].since}
Rank(p, S) == Cardinality({q \in S : q <= p})
Page(w) ==
    LET found == Matching(w) IN
    IF work[w].kind = "ids" THEN found
    ELSE {p \in found : /\ Rank(p, found) > work[w].offset
                        /\ Rank(p, found) <= work[w].offset + BatchSize}

\* A run that had no record errors is a SUCCESS, whatever its kind.
\* Mutant: a PARTIAL run moves the watermark too.
EndRunAlways(w) == work' = [work EXCEPT ![w] = Idle] /\ watermark' = acts
EndRun(w) ==
    /\ work' = [work EXCEPT ![w] = Idle]
    /\ watermark' = IF work[w].errors THEN watermark ELSE acts

Fetch(w) ==
    /\ At(w, "fetch")
    /\ IF Page(w) = {} /\ work[w].kind # "ids"
       THEN EndRun(w)
       ELSE /\ work' = [work EXCEPT ![w].pc = "read",
                                    ![w].page = [p \in Page(w) |-> odoo[p]],
                                    ![w].new = {}, ![w].known = {}, ![w].clash = {}]
            /\ UNCHANGED watermark
    /\ UNCHANGED <<people, mirror, local, stops>>

\* The existing rows and their local products are read once for the page;
\* what becomes of each record is decided on them.
Read(w) ==
    /\ At(w, "read")
    /\ LET page == work[w].page
           known == DOMAIN page \cap Rows
       IN  work' = [work EXCEPT ![w].pc = "create",
             ![w].new = DOMAIN page \ Rows,
             ![w].known = known,
             ![w].clash = {p \in known : /\ mirror[p].linked
                                         /\ Conflict(mirror[p].val, page[p], local[p])}]
    /\ UNCHANGED <<people, mirror, local, watermark, stops>>

\* The column refuses it, or odoo_id is taken by now.  Mutant: only the latter.
RefusedIfTaken(w, p) == p \in Rows
Refused(w, p) == work[w].page[p].price \in BadPrices \/ p \in Rows

\* bulk_create: all the new rows or none.  Mutant: without the fallback.
CreateNoFallback(w) ==
    /\ At(w, "create")
    /\ GoTo(w, "update")
    /\ IF \E p \in work[w].new : Refused(w, p) THEN UNCHANGED mirror ELSE Insert(w, work[w].new)
    /\ UNCHANGED <<people, local, watermark, stops>>
Create(w) ==
    /\ At(w, "create")
    /\ IF \E p \in work[w].new : Refused(w, p)
       THEN GoTo(w, "salvage") /\ UNCHANGED mirror
       ELSE GoTo(w, "update") /\ Insert(w, work[w].new)
    /\ UNCHANGED <<people, local, watermark, stops>>

\* The fallback saves them one by one and notes those that are refused.
\* Mutant: it notes nothing.
SaveOneSilently(w) ==
    /\ At(w, "salvage")
    /\ \E p \in work[w].new :
         /\ \A q \in work[w].new : p <= q
         /\ IF Refused(w, p) THEN UNCHANGED mirror ELSE Insert(w, {p})
         /\ work' = [work EXCEPT
               ![w].new = @ \ {p},
               ![w].pc = IF work[w].new = {p} THEN "update" ELSE "salvage"]
    /\ UNCHANGED <<people, local, watermark, stops>>
SaveOne(w) ==
    /\ At(w, "salvage")
    /\ \E p \in work[w].new :
         /\ \A q \in work[w].new : p <= q
         /\ IF Refused(w, p) THEN UNCHANGED mirror ELSE Insert(w, {p})
         /\ work' = [work EXCEPT
               ![w].new = @ \ {p},
               ![w].errors = @ \/ Refused(w, p),
               ![w].pc = IF work[w].new = {p} THEN "update" ELSE "salvage"]
    /\ UNCHANGED <<people, local, watermark, stops>>

\* bulk_update, in one transaction; rows deleted meanwhile are passed over.
Update(w) ==
    LET page == work[w].page
        status(p) == IF p \in work[w].clash /\ Policy = "MANUAL"
                     THEN "CONFLICT" ELSE "SYNCED"
    IN
    /\ At(w, "update")
    /\ IF \E p \in work[w].known : page[p].price \in BadPrices
       THEN GoTo(w, "rejected") /\ UNCHANGED mirror
       ELSE /\ GoTo(w, "local")
            /\ mirror' = [p \in Rows |->
                 IF p \in work[w].known
                 THEN [mirror[p] EXCEPT !.val = page[p], !.status = status(p)]
                 ELSE mirror[p]]
    /\ UNCHANGED <<people, local, watermark, stops>>

\* ... and then the local products that lost a conflict; a price the shop's
\* column refuses fails the run with the mirror already written.
\* Mutant: it is stored.
Losers(w) == IF Policy = "ODOO_WINS" THEN work[w].clash ELSE {}
TooWideNever(w) == FALSE
TooWide(w) == \E p \in Losers(w) : work[w].page[p].price \in WidePrices
UpdateLocal(w) ==
    /\ At(w, "local")
    /\ IF TooWide(w)
       THEN GoTo(w, "rejected") /\ UNCHANGED local
       ELSE /\ GoTo(w, "next")
            /\ local' = [p \in Linked |-> IF p \in Losers(w)
                                          THEN Applied(work[w].page[p]) ELSE local[p]]
    /\ UNCHANGED <<people, mirror, watermark, stops>>

NextPage(w) ==
    /\ At(w, "next")
    /\ IF work[w].kind = "ids" \/ Cardinality(DOMAIN work[w].page) < BatchSize
       THEN EndRun(w)
       ELSE /\ work' = [work EXCEPT ![w].pc = "fetch", ![w].offset = @ + BatchSize]
            /\ UNCHANGED watermark
    /\ UNCHANGED <<people, mirror, local, stops>>

\* The run is FAILED; what it wrote stays.  A retry starts over.
GiveUp(w) ==
    /\ At(w, "rejected")
    /\ work' = [work EXCEPT ![w] = Idle]
    /\ UNCHANGED <<people, mirror, local, watermark, stops>>

\* So it is when Odoo or the database fails, or the process is killed.
Stop(w) ==
    /\ stops < MaxStops
    /\ work[w].pc \notin {"idle", "rejected"}
    /\ work' = [work EXCEPT ![w] = Idle]
    /\ stops' = stops + 1
    /\ UNCHANGED <<people, mirror, local, watermark>>

-----------------------------------------------------------------------------
\* What people do.
Act(a) == a \in Acts /\ acts < MaxActs /\ acts' = acts + 1
Now == acts + 1
Apart == EditsDuring \/ \A w \in Workers : At(w, "idle")

OdooEdit(p) ==
    /\ Act("odoo") /\ Apart
    /\ p \in listed
    /\ \E v \in Value \ {odoo[p]} : odoo' = [odoo EXCEPT ![p] = v]
    /\ written' = [written EXCEPT ![p] = Now]
    /\ UNCHANGED <<listed, mirror, local, work, watermark, desk, stops>>

\* Archived products are out of the domain, and come back into it.
Archive(p) ==
    /\ Act("archive") /\ Apart
    /\ listed' = IF p \in listed THEN listed \ {p} ELSE listed \cup {p}
    /\ written' = [written EXCEPT ![p] = Now]
    /\ UNCHANGED <<odoo, mirror, local, work, watermark, desk, stops>>

LocalEdit(p) ==
    /\ Act("local")
    /\ \E v \in Value : /\ v.qty = Whole(v.qty) /\ v.price \notin WidePrices
                        /\ v # local[p]
                        /\ local' = [local EXCEPT ![p] = v]
    /\ UNCHANGED <<odoo, written, listed, mirror, work, watermark, desk, stops>>

DeleteRow(p) ==
    /\ Act("delete")
    /\ p \in Rows
    /\ mirror' = [q \in Rows \ {p} |-> mirror[q]]
    /\ UNCHANGED <<odoo, written, listed, local, work, watermark, desk, stops>>

\* Admin action.
MarkSynced(p) ==
    /\ Act("mark")
    /\ p \in Rows
    /\ mirror' = [mirror EXCEPT ![p].status = "SYNCED"]
    /\ UNCHANGED <<odoo, written, listed, local, work, watermark, desk, stops>>

\* Two requests read a row and write it later, in a single save.
Open(p, kind, val, status) ==
    /\ Act(kind)
    /\ p \in Rows /\ ~desk.busy
    /\ desk' = [busy |-> TRUE, kind |-> kind, id |-> p,
                row |-> [mirror[p] EXCEPT !.val = val, !.status = status]]
    /\ UNCHANGED <<odoo, written, listed, mirror, local, work, watermark, stops>>

\* resolve_conflict takes the values of the local product, if there is one ...
ResolveRead(p) ==
    Open(p, "resolve", IF p \in Rows /\ mirror[p].linked THEN local[p] ELSE mirror[p].val,
         "SYNCED")

\* ... and fails when the row is gone.
ResolveWrite ==
    /\ desk.busy /\ desk.kind = "resolve"
    /\ mirror' = IF desk.id \in Rows THEN [mirror EXCEPT ![desk.id] = desk.row] ELSE mirror
    /\ desk' = NoDesk
    /\ UNCHANGED <<odoo, written, listed, local, work, watermark, acts, stops>>

\* The change form sets the status, the other fields are read-only ...
FormRead(p) == \E s \in {"SYNCED", "CONFLICT"} : Open(p, "form", mirror[p].val, s)

\* ... but all of them are saved as they were read, and a row that is gone is
\* inserted again.
FormWrite ==
    /\ desk.busy /\ desk.kind = "form"
    /\ mirror' = [p \in Rows \cup {desk.id} |-> IF p = desk.id THEN desk.row ELSE mirror[p]]
    /\ desk' = NoDesk
    /\ UNCHANGED <<odoo, written, listed, local, work, watermark, acts, stops>>

-----------------------------------------------------------------------------
Run(w) ==
    \/ Fetch(w) \/ Read(w) \/ Create(w) \/ SaveOne(w) \/ Update(w)
    \/ UpdateLocal(w) \/ NextPage(w) \/ GiveUp(w)

People(p) ==
    \/ OdooEdit(p) \/ Archive(p) \/ DeleteRow(p) \/ MarkSynced(p)
    \/ ResolveRead(p) \/ FormRead(p)

Next ==
    \/ \E w \in Workers : StartFull(w) \/ StartDelta(w) \/ StartIds(w) \/ Run(w) \/ Stop(w)
    \/ \E p \in Products : People(p)
    \/ \E p \in Linked : LocalEdit(p)
    \/ ResolveWrite \/ FormWrite

Spec == Init /\ [][Next]_vars

\* Workers and requests make progress, and the full run that Celery Beat
\* schedules every night is carried out some time.
Progress == WF_vars(ResolveWrite \/ FormWrite) /\ \A w \in Workers : WF_vars(Run(w))
FairSpec == Spec /\ Progress /\ SF_vars(\E w \in Workers : StartFull(w))

-----------------------------------------------------------------------------
WorkType ==
    [pc : {"idle", "fetch", "read", "create", "salvage", "update", "local",
           "next", "rejected"},
     kind : {"full", "delta", "ids"}, ids : SUBSET Products,
     since : -1..MaxActs, offset : Nat,
     page : UNION {[S -> Value] : S \in SUBSET Products},
     new : SUBSET Products, known : SUBSET Products, clash : SUBSET Linked,
     errors : BOOLEAN]
RowType == [val : Value, status : {"SYNCED", "CONFLICT"}, linked : BOOLEAN]
Storable(p, r) == r \in RowType /\ r.val.price \notin BadPrices /\ (r.linked => p \in Linked)
DeskType == [busy : {TRUE}, kind : {"resolve", "form"}, id : Products, row : RowType]

\* No table holds what its column refuses, only linked products clash, and a run
\* only writes what is in its page.
TypeOK ==
    /\ odoo \in [Products -> Value]
    /\ written \in [Products -> 0..MaxActs]
    /\ listed \subseteq Products
    /\ Rows \subseteq Products /\ \A p \in Rows : Storable(p, mirror[p])
    /\ local \in [Linked -> Value]
    /\ \A p \in Linked : local[p].price \notin WidePrices
    /\ \A w \in Workers :
          /\ work[w] \in WorkType
          /\ work[w].new \cup work[w].known \subseteq DOMAIN work[w].page
          /\ work[w].clash \subseteq work[w].known
    /\ desk = NoDesk \/ (desk \in DeskType /\ Storable(desk.id, desk.row))
    /\ acts \in 0..MaxActs /\ stops \in 0..MaxStops /\ watermark \in -1..acts

\* Each good record of a page has its row, or is still to be inserted, from the
\* moment the page is compared with the table: also when two runs insert the same
\* products at the same time and bulk_create is refused to one of them, and when
\* a record beside it is bad (tasks.py:475-502); unless people delete rows.
EveryFetchedMirrored ==
    \A w \in Workers : work[w].pc \in {"create", "salvage", "update", "local", "next"} =>
      \A p \in DOMAIN work[w].page :
        \/ p \in Rows \/ work[w].page[p].price \in BadPrices
        \/ work[w].pc \in {"create", "salvage"} /\ p \in work[w].new

\* The watermark of the delta runs is never ahead of the mirror: a product that
\* the mirror does not have as Odoo has it will be found by the next delta run,
\* although runs overlap, fail half-way and leave records out (tasks.py:61-68,
\* 119-123, 261-265).
NothingMissed ==
    \A p \in listed : \/ p \in Rows /\ mirror[p].val = odoo[p]
                      \/ written[p] > watermark

\* Why it is not, when Odoo rests while runs are in progress: a run that may yet
\* be a SUCCESS has left no product behind it.  Whatever it has passed by, in
\* earlier pages or in the part of this one that is done, the mirror has as Odoo
\* has it, and its search leaves out nothing that is later than the watermark
\* (tasks.py:61-68, 330-371, 475-560).
Behind(p) == p \in listed /\ ~(p \in Rows /\ mirror[p].val = odoo[p])
InPage == {"read", "create", "salvage", "update", "local", "next"}
Done(w) ==
    LET k == work[w] IN
    CASE k.pc = "salvage" -> DOMAIN k.page \ (k.new \cup k.known)
      [] k.pc = "update" -> DOMAIN k.page \ k.known
      [] k.pc \in {"local", "next"} -> DOMAIN k.page
      [] OTHER -> {}
Passed(w) == {p \in Matching(w) : Rank(p, Matching(w)) <= work[w].offset} \cup Done(w)
Ahead(w) == ~At(w, "idle") =>
    /\ work[w].kind # "ids" /\ work[w].ids = Products /\ work[w].since <= watermark
    /\ work[w].pc \in InPage => work[w].page = [p \in Page(w) |-> odoo[p]]
    /\ work[w].known \subseteq Rows
    /\ At(w, "create") => work[w].new \cup work[w].known = DOMAIN work[w].page
    /\ ~work[w].errors => \A p \in Passed(w) : ~Behind(p)
PassedAreMirrored == \A w \in Workers : Ahead(w)

\* README.md:31: under MANUAL a conflict is for people to resolve.
OnlyPeopleResolve ==
    [][\A p \in Rows \cap DOMAIN mirror' :
         mirror[p].status = "CONFLICT" /\ mirror'[p].status = "SYNCED"
           => acts' # acts \/ desk' # desk]_vars

\* When nobody edits anything any more, the mirror ends up equal to Odoo.
Agrees == \A p \in listed : p \in Rows /\ mirror[p].val = odoo[p]
Converges == <>[]Agrees
=============================================================================
