------------------------------ MODULE RunConfig ------------------------------
(***************************************************************************)
(* The one row of SyncConfig: how it comes to be (get_or_create over a     *)
(* save() of its own), who edits it (the API, the form of the admin site), *)
(* and what a run makes of it while others edit: which pages it fetches.   *)
(*                                                                         *)
(* Nothing but get_or_create inserts the row, and nothing deletes it.  The *)
(* list Odoo has stays as it is here (ProductMirror has it change).        *)
(***************************************************************************)
EXTENDS Integers

CONSTANTS
    Procs,     \* requests and tasks at the same time
    NoRow,     \* the table is empty
    Sizes,     \* values of batch_size that are entered
    Default,   \* its default (100 in the code)
    Records,   \* how many records Odoo has
    MaxBegun   \* bound: accesses that are begun

ASSUME SizesAssumption == Sizes \subseteq Nat /\ Default \in Nat
ASSUME RecordsAssumption == Records \in Nat
ASSUME MaxBegunAssumption == MaxBegun \in Nat

VARIABLES
    row,    \* the row, or NoRow
    proc,   \* requests and tasks
    begun   \* accesses so far

vars == <<row, proc, begun>>

\* batch: batch_size; lists: whether both JSON lists have something in them.
\* The other settings are edited and copied like batch_size.
Settings == [batch : Sizes \cup {Default}, lists : {"empty", "filled"}]
ASSUME NoRowAssumption == NoRow \notin Settings

Defaults == [batch |-> Default, lists |-> "empty"]

Kinds == {"get", "patch", "form", "run"}

\* copy: the settings as read; force: those the row had since the access began;
\* got: how often a run fetched each record (2: twice or more); page: the size
\* of the page in hand.
Idle == [pc |-> "idle", kind |-> "get", copy |-> Defaults, force |-> {},
         got |-> [n \in 0..(Records - 1) |-> 0], offset |-> 0, page |-> 0]

Init ==
    /\ row \in {NoRow, Defaults}
    /\ proc = [p \in Procs |-> Idle]
    /\ begun = 0

At(p, pc) == proc[p].pc = pc
Become(p, s) == proc' = [proc EXCEPT ![p] = s]
Goto(p, pc) == Become(p, [proc[p] EXCEPT !.pc = pc])
Serve(p, settings) == Become(p, [proc[p] EXCEPT !.pc = "have", !.copy = settings])
Same == UNCHANGED <<row, begun>>

\* The row gets these settings, and everybody else may see it.
Store(p, settings, s) ==
    /\ row' = settings
    /\ proc' = [q \in Procs |->
                  IF q = p THEN [s EXCEPT !.force = @ \cup {settings}]
                  ELSE IF At(q, "idle") THEN proc[q]
                  ELSE [proc[q] EXCEPT !.force = @ \cup {settings}]]
    /\ UNCHANGED begun

Begin(p, kind) ==
    /\ At(p, "idle") /\ begun < MaxBegun
    /\ begun' = begun + 1
    /\ Become(p, [Idle EXCEPT !.pc = "look", !.kind = kind, !.force = {row} \ {NoRow}])
    /\ UNCHANGED row

-----------------------------------------------------------------------------
(* SyncConfig.objects.get_or_create(pk=1). *)

\* Mutants: .first(), which may be None; SyncConfig(), which asks nobody.
LookFirst(p) == At(p, "look") /\ Serve(p, row) /\ Same
LookDefaults(p) == At(p, "look") /\ Serve(p, Defaults) /\ Same
Look(p) ==
    /\ At(p, "look")
    /\ IF row # NoRow THEN Serve(p, row) ELSE Goto(p, "save")
    /\ Same

\* save() drops force_insert, and looks itself whether the row is there ...
Exists(p) ==
    /\ At(p, "save")
    /\ Goto(p, IF row = NoRow THEN "insert" ELSE "update")
    /\ Same

\* ... if so, all of it is written.
Update(p) ==
    /\ At(p, "update")
    /\ Store(p, Defaults, [proc[p] EXCEPT !.pc = "have", !.copy = Defaults])

\* ... if not, it is inserted; the second one to do so fails, and gets the row.
Insert(p) ==
    /\ At(p, "insert")
    /\ IF row = NoRow
       THEN Store(p, Defaults, [proc[p] EXCEPT !.pc = "have", !.copy = Defaults])
       ELSE Goto(p, "again") /\ Same

Again(p) == At(p, "again") /\ Serve(p, row) /\ Same

Access(p) == Look(p) \/ Exists(p) \/ Update(p) \/ Insert(p) \/ Again(p)

-----------------------------------------------------------------------------
(* Requests. *)

Return(p) == At(p, "have") /\ proc[p].kind = "get" /\ Become(p, Idle) /\ Same

\* PATCH and PUT save every field of the row as it was read.
Patch(p) ==
    /\ At(p, "have") /\ proc[p].kind = "patch"
    /\ \/ \E b \in Sizes : Store(p, [proc[p].copy EXCEPT !.batch = b], Idle)
       \/ \E l \in {"empty", "filled"} : Store(p, [proc[p].copy EXCEPT !.lists = l], Idle)

\* The list page leads to the form, which reads the row once more.
OpenForm(p) ==
    /\ At(p, "have") /\ proc[p].kind = "form"
    /\ Become(p, [proc[p] EXCEPT !.pc = "form", !.copy = row])
    /\ Same

\* Every field of the form is saved, the ones nobody touched as well.
SubmitForm(p) ==
    /\ At(p, "form")
    /\ \E b \in Sizes \cup {proc[p].copy.batch} :
          Store(p, [batch |-> b, lists |-> "filled"], Idle)

\* An empty list counts as a missing value, and the form is refused; or it is
\* never sent.
CloseForm(p) == At(p, "form") /\ Become(p, Idle) /\ Same

Request(p) == Return(p) \/ Patch(p) \/ OpenForm(p)

-----------------------------------------------------------------------------
(* A run. *)

Larger(m, n) == IF m > n THEN m ELSE n
Smaller(m, n) == IF m < n THEN m ELSE n

\* max(batch_size, 1).  Mutants: without it, and read anew for each page.
PageSizeAsIs(p) == proc[p].copy.batch
PageSizeNow(p) == Larger(row.batch, 1)
PageSize(p) == Larger(proc[p].copy.batch, 1)

\* search_read: Odoo takes a limit of 0 for none.
Fetch(p) ==
    /\ proc[p].kind = "run" /\ proc[p].pc \in {"have", "next"}
    /\ LET from == proc[p].offset
           rest == Larger(Records - from, 0)
           size == IF PageSize(p) = 0 THEN rest ELSE Smaller(PageSize(p), rest)
       IN  Become(p, [proc[p] EXCEPT
             !.pc = IF size = 0 THEN "done" ELSE "page",
             !.page = size,
             !.got = [n \in DOMAIN @ |->
                        IF n \in from..(from + size - 1) THEN Smaller(@[n] + 1, 2) ELSE @[n]]])
    /\ Same

\* bulk_update, if the page has something to update, refuses a batch_size of 0.
Reject(p) ==
    /\ At(p, "page") /\ proc[p].copy.batch = 0
    /\ Goto(p, "failed")
    /\ Same

Advance(p) ==
    /\ At(p, "page")
    /\ Become(p, IF proc[p].page < PageSize(p) THEN [proc[p] EXCEPT !.pc = "done"]
                 ELSE [proc[p] EXCEPT !.pc = "next", !.offset = @ + PageSize(p)])
    /\ Same

End(p) == proc[p].pc \in {"done", "failed"} /\ Become(p, Idle) /\ Same

Run(p) == Fetch(p) \/ Reject(p) \/ Advance(p) \/ End(p)

-----------------------------------------------------------------------------
Work(p) == Access(p) \/ Request(p) \/ Run(p)

Finished == begun = MaxBegun /\ (\A p \in Procs : At(p, "idle")) /\ UNCHANGED vars

Next ==
    \/ \E p \in Procs :
          \/ \E kind \in Kinds : Begin(p, kind)
          \/ Work(p) \/ SubmitForm(p) \/ CloseForm(p)
    \/ Finished

Spec == Init /\ [][Next]_vars

\* Requests and tasks go on; nobody has to send a form.
FairSpec == Spec /\ \A p \in Procs : WF_vars(Work(p))

-----------------------------------------------------------------------------
(* Properties. *)

\* Types; a run's offset never passes the end of the list.
Accesses == [pc : {"idle", "look", "save", "update", "insert", "again", "have",
                   "form", "page", "next", "done", "failed"},
             kind : Kinds, copy : Settings, force : SUBSET Settings,
             got : [0..(Records - 1) -> 0..2], offset : 0..Records, page : 0..Records]

TypeOK ==
    /\ row \in Settings \cup {NoRow}
    /\ proc \in [Procs -> Accesses]
    /\ begun \in 0..MaxBegun

\* Whoever has the settings has what the row held at some moment since it asked:
\* neither defaults that were never saved nor settings of before (tasks.py:221).
SettingsInForce ==
    \A p \in Procs :
       proc[p].pc \in {"have", "form", "page", "next", "done", "failed"} =>
          proc[p].copy \in proc[p].force

\* A run that ends has fetched each record once, whatever batch_size became
\* meanwhile (tasks.py:236-258).
PagesCover ==
    \A p \in Procs : At(p, "done") => \A n \in 0..(Records - 1) : proc[p].got[n] = 1

\* Why: whoever is past the insert finds the row, and all who ask are told ...
Present == \A p \in Procs : proc[p].pc \notin {"idle", "look", "save", "insert"} => row # NoRow
Told == \A p \in Procs : ~At(p, "idle") /\ row # NoRow => row \in proc[p].force

\* ... and a run has fetched what is before its offset, and the page in hand.
Fetched(p) ==
    CASE proc[p].pc = "page" -> proc[p].offset + proc[p].page
      [] proc[p].pc = "done" -> Records
      [] OTHER -> proc[p].offset

Paged ==
    \A p \in Procs :
       /\ proc[p].pc # "failed" =>
            \A n \in 0..(Records - 1) : proc[p].got[n] = IF n < Fetched(p) THEN 1 ELSE 0
       /\ proc[p].pc \notin {"page", "next", "done", "failed"} => proc[p].offset = 0
       /\ At(p, "page") =>
            /\ proc[p].offset + proc[p].page <= Records
            /\ proc[p].page <= PageSize(p)
            /\ proc[p].page < PageSize(p) => proc[p].offset + proc[p].page = Records

\* The inductive invariant.
Inv == TypeOK /\ SettingsInForce /\ Present /\ Told /\ Paged

\* Every access is over in the end, that of a run with the run (tasks.py:222).
AccessesEnd == \A p \in Procs : ~At(p, "idle") ~> proc[p].pc \in {"idle", "form"}
=============================================================================
