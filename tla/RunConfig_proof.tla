--------------------------- MODULE RunConfig_proof ---------------------------
(***************************************************************************)
(* Safety of RunConfig, for any number of requests and runs, any values of *)
(* batch_size and any number of records.                                   *)
(*                                                                         *)
(* The invariant is cut into what it says of one access (Good), so that a  *)
(* step is right when the access it changes is good afterwards (Moves), or *)
(* when it stores settings and tells everybody (Stores).                   *)
(***************************************************************************)
EXTENDS RunConfig, TLAPS

Reach(s) == CASE s.pc = "page" -> s.offset + s.page
              [] s.pc = "done" -> Records
              [] OTHER -> s.offset

\* What a run has fetched, and what it is about to do.
Counted(s) ==
    /\ s.pc # "failed" =>
         \A n \in 0..(Records - 1) : s.got[n] = IF n < Reach(s) THEN 1 ELSE 0
    /\ s.pc \notin {"page", "next", "done", "failed"} => s.offset = 0
    /\ s.pc = "page" =>
         /\ s.offset + s.page <= Records
         /\ s.page <= Larger(s.copy.batch, 1)
         /\ s.page < Larger(s.copy.batch, 1) => s.offset + s.page = Records

\* What an access knows of the row r.
Informed(s, r) ==
    /\ s.pc \in {"have", "form", "page", "next", "done", "failed"} => s.copy \in s.force
    /\ s.pc \notin {"idle", "look", "save", "insert"} => r # NoRow
    /\ s.pc # "idle" /\ r # NoRow => r \in s.force

Good(s, r) == Counted(s) /\ Informed(s, r)

\* The invariant, access by access.
LEMMA Parts == Inv <=> TypeOK /\ \A p \in Procs : Good(proc[p], row)
  BY DEF Inv, SettingsInForce, Present, Told, Paged, Fetched, PageSize, At, Good,
         Counted, Informed, Reach

\* A step that changes one access and not the row.
LEMMA Moves ==
  ASSUME Inv, NEW p \in Procs, NEW s \in Accesses, Become(p, s),
         row' = row, begun' \in 0..MaxBegun, Good(s, row)
  PROVE  Inv'
  <1>1. TypeOK /\ \A q \in Procs : Good(proc[q], row)
    BY Parts
  <1>2. TypeOK'
    BY <1>1 DEF TypeOK, Become
  <1>3. \A q \in Procs : proc'[q] = IF q = p THEN s ELSE proc[q]
    BY <1>1 DEF TypeOK, Become
  <1>4. \A q \in Procs : Good(proc'[q], row')
    <2> TAKE q \in Procs
    <2>1. proc'[q] = s \/ proc'[q] = proc[q]
      BY <1>3
    <2>2. CASE proc'[q] = s
      BY <2>2
    <2>3. CASE proc'[q] = proc[q]
      BY <2>3, <1>1
    <2> QED
      BY <2>1, <2>2, <2>3
  <1> QED
    BY <1>2, <1>4 DEF Inv, SettingsInForce, Present, Told, Paged, Fetched, PageSize, At,
       Good, Counted, Informed, Reach

\* A step that stores settings: everybody is told of them.
LEMMA Stores ==
  ASSUME Inv, NEW p \in Procs, NEW s \in Accesses, NEW settings \in Settings,
         Store(p, settings, s), Counted(s),
         s.pc = "idle" \/ (s.pc = "have" /\ s.copy = settings)
  PROVE  Inv'
  <1>1. TypeOK /\ \A q \in Procs : Good(proc[q], row)
    BY Parts
  <1> DEFINE told(a) == [a EXCEPT !.force = @ \cup {settings}]
  <1>2. \A q \in Procs : proc'[q] = IF q = p THEN told(s)
                                    ELSE IF proc[q].pc = "idle" THEN proc[q] ELSE told(proc[q])
    BY DEF Store, At
  <1>3. ASSUME NEW a \in Accesses
        PROVE  /\ told(a) \in Accesses
               /\ told(a).pc = a.pc /\ told(a).copy = a.copy /\ told(a).got = a.got
               /\ told(a).offset = a.offset /\ told(a).page = a.page
               /\ told(a).force = a.force \cup {settings}
    BY DEF Accesses
  <1>4. row' = settings /\ row' # NoRow /\ begun' = begun
    BY NoRowAssumption DEF Store
  <1>5. \A q \in Procs : proc[q] \in Accesses
    BY <1>1 DEF TypeOK
  <1>6. TypeOK'
    <2>1. ASSUME NEW q \in Procs PROVE proc'[q] \in Accesses
      <3>1. proc'[q] \in {told(s), told(proc[q]), proc[q]}
        BY <1>2
      <3>2. told(s) \in Accesses /\ told(proc[q]) \in Accesses
        BY <1>3, <1>5
      <3> QED
        BY <3>1, <3>2, <1>5
    <2>2. proc' = [q \in Procs |-> proc'[q]]
      BY DEF Store
    <2> QED
      BY <2>1, <2>2, <1>1, <1>4 DEF TypeOK
  <1>7. \A q \in Procs : Good(proc'[q], row')
    <2> TAKE q \in Procs
    <2>1. ASSUME NEW a \in Accesses, Counted(a) PROVE Counted(told(a))
      BY <2>1, <1>3 DEF Counted, Reach
    <2>2. CASE q = p
      <3>1. proc'[q] = told(s)
        BY <2>2, <1>2
      <3>2. Informed(told(s), settings)
        BY <1>3, <1>4 DEF Informed
      <3> QED
        BY <3>1, <3>2, <2>1, <1>4 DEF Good
    <2>3. CASE q # p /\ proc[q].pc = "idle"
      BY <2>3, <1>1, <1>2 DEF Good, Informed
    <2>4. CASE q # p /\ proc[q].pc # "idle"
      <3>1. proc'[q] = told(proc[q]) /\ proc[q] \in Accesses /\ Good(proc[q], row)
        BY <2>4, <1>1, <1>2, <1>5
      <3>2. Informed(told(proc[q]), settings)
        BY <3>1, <1>3, <1>4 DEF Good, Informed
      <3> QED
        BY <3>1, <3>2, <2>1, <1>4 DEF Good
    <2> QED
      BY <2>2, <2>3, <2>4
  <1> QED
    BY <1>6, <1>7 DEF Inv, SettingsInForce, Present, Told, Paged, Fetched, PageSize, At,
       Good, Counted, Informed, Reach

LEMMA IdleGood == Idle \in Accesses /\ Counted(Idle) /\ \A r : Good(Idle, r)
  <1>1. Default \in Nat /\ Records \in Nat /\ Defaults \in Settings
    BY SizesAssumption, RecordsAssumption DEF Defaults, Settings
  <1>2. Idle \in Accesses
    BY <1>1 DEF Idle, Accesses, Kinds
  <1>3. Counted(Idle)
    BY <1>1 DEF Idle, Counted, Reach
  <1> QED
    BY <1>2, <1>3 DEF Good, Informed, Idle

LEMMA Start == Init => Inv
  <1> SUFFICES ASSUME Init PROVE Inv
    OBVIOUS
  <1>1. TypeOK
    BY IdleGood, MaxBegunAssumption, SizesAssumption DEF Init, TypeOK, Settings, Defaults
  <1>2. \A p \in Procs : Good(proc[p], row)
    BY IdleGood DEF Init
  <1> QED
    BY <1>1, <1>2, Parts

-----------------------------------------------------------------------------
(* What an access knows of the row and of itself. *)

LEMMA Facts ==
  ASSUME Inv, NEW p \in Procs
  PROVE  /\ proc[p] \in Accesses /\ Good(proc[p], row) /\ row \in Settings \cup {NoRow}
         /\ begun \in 0..MaxBegun /\ proc[p].copy \in Settings /\ proc[p].copy.batch \in Nat
         /\ Records \in Nat
  <1>1. proc[p] \in Accesses /\ Good(proc[p], row)
    BY Parts DEF TypeOK
  <1> QED
    BY <1>1, SizesAssumption, RecordsAssumption DEF Inv, TypeOK, Accesses, Settings

LEMMA Steps1 ==
  ASSUME Inv, NEW p \in Procs,
         \/ \E kind \in Kinds : Begin(p, kind)
         \/ Look(p) \/ Exists(p) \/ Again(p)
  PROVE  Inv'
  <1> USE Facts
  <1>1. ASSUME NEW kind \in Kinds, Begin(p, kind) PROVE Inv'
    <2> DEFINE s == [Idle EXCEPT !.pc = "look", !.kind = kind, !.force = {row} \ {NoRow}]
    <2>1. s \in Accesses
      BY IdleGood DEF Accesses
    <2>2. Counted(s)
      BY IdleGood DEF Counted, Idle, Reach
    <2>3. Informed(s, row)
      BY DEF Informed, Idle
    <2>4. begun' \in 0..MaxBegun
      <3>1. begun \in 0..MaxBegun /\ begun < MaxBegun /\ begun' = begun + 1
        BY <1>1 DEF Begin
      <3> QED
        BY ONLY <3>1, MaxBegunAssumption
    <2> HIDE DEF s
    <2> QED
      BY <1>1, <2>1, <2>2, <2>3, <2>4, Moves DEF Begin, Good, s
  <1>2. ASSUME Look(p) \/ Again(p), row # NoRow, Serve(p, row) PROVE Inv'
    <2> DEFINE s == [proc[p] EXCEPT !.pc = "have", !.copy = row]
    <2>1. s \in Accesses
      BY <1>2 DEF Accesses
    <2>2. Good(s, row)
      BY <1>2 DEF Good, Informed, Counted, Reach, Look, Again, At, Accesses
    <2>3. row' = row /\ begun' = begun
      BY <1>2 DEF Look, Again, Same
    <2> QED
      BY <1>2, <2>1, <2>2, <2>3, Moves DEF Serve
  <1>3. ASSUME NEW pc \in {"save", "insert", "update"}, Goto(p, pc), row' = row, begun' = begun,
               proc[p].pc \in {"look", "save"}, pc = "update" => row # NoRow
        PROVE  Inv'
    <2> DEFINE s == [proc[p] EXCEPT !.pc = pc]
    <2>1. s \in Accesses
      BY DEF Accesses
    <2>2. Good(s, row)
      BY <1>3 DEF Good, Informed, Counted, Reach, Accesses
    <2> QED
      BY <1>3, <2>1, <2>2, Moves DEF Goto
  <1>4. CASE Look(p)
    BY <1>4, <1>2, <1>3 DEF Look, At, Same
  <1>5. CASE Exists(p)
    BY <1>5, <1>3 DEF Exists, At, Same
  <1>6. CASE Again(p)
    BY <1>6, <1>2 DEF Again, At, Good, Informed
  <1> QED
    BY <1>1, <1>4, <1>5, <1>6

LEMMA Steps2 ==
  ASSUME Inv, NEW p \in Procs,
         Update(p) \/ Insert(p) \/ Patch(p) \/ SubmitForm(p)
  PROVE  Inv'
  <1> USE Facts
  <1>1. Defaults \in Settings
    BY DEF Settings, Defaults
  <1>2. ASSUME Store(p, Defaults, [proc[p] EXCEPT !.pc = "have", !.copy = Defaults]),
               proc[p].pc \in {"update", "insert"}
        PROVE  Inv'
    <2> DEFINE s == [proc[p] EXCEPT !.pc = "have", !.copy = Defaults]
    <2>1. s \in Accesses /\ s.pc = "have" /\ s.copy = Defaults
      BY <1>1 DEF Accesses
    <2>2. Counted(s)
      BY <1>2 DEF Good, Counted, Reach, Accesses
    <2> QED
      BY <1>1, <1>2, <2>1, <2>2, Stores
  <1>3. CASE Update(p)
    BY <1>2, <1>3 DEF Update, At
  <1>4. CASE Insert(p)
    <2>1. CASE row = NoRow
      BY <1>2, <1>4, <2>1 DEF Insert, At
    <2>2. CASE row # NoRow
      <3> DEFINE s == [proc[p] EXCEPT !.pc = "again"]
      <3>1. s \in Accesses
        BY DEF Accesses
      <3>2. Good(s, row)
        BY <1>4, <2>2 DEF Good, Informed, Counted, Reach, Accesses, Insert, At
      <3> QED
        BY <1>4, <2>2, <3>1, <3>2, Moves DEF Insert, Goto, Same
    <2> QED
      BY <2>1, <2>2
  <1>5. ASSUME NEW settings \in Settings, Store(p, settings, Idle) PROVE Inv'
    BY <1>5, IdleGood, Stores DEF Idle
  <1>6. CASE Patch(p)
    <2>1. /\ \A b \in Sizes : [proc[p].copy EXCEPT !.batch = b] \in Settings
          /\ \A l \in {"empty", "filled"} : [proc[p].copy EXCEPT !.lists = l] \in Settings
      BY DEF Settings
    <2> QED
      BY <1>5, <1>6, <2>1 DEF Patch
  <1>7. CASE SubmitForm(p)
    <2>1. \A b \in Sizes \cup {proc[p].copy.batch} : [batch |-> b, lists |-> "filled"] \in Settings
      BY DEF Settings
    <2> QED
      BY <1>5, <1>7, <2>1 DEF SubmitForm
  <1> QED
    BY <1>3, <1>4, <1>6, <1>7

LEMMA Steps3 ==
  ASSUME Inv, NEW p \in Procs,
         Return(p) \/ OpenForm(p) \/ CloseForm(p) \/ End(p) \/ Reject(p)
  PROVE  Inv'
  <1> USE Facts
  <1>1. ASSUME Become(p, Idle), row' = row, begun' = begun PROVE Inv'
    BY <1>1, IdleGood, Moves
  <1>2. CASE OpenForm(p)
    <2> DEFINE s == [proc[p] EXCEPT !.pc = "form", !.copy = row]
    <2>1. row # NoRow
      BY <1>2 DEF OpenForm, At, Good, Informed
    <2>2. s \in Accesses
      BY <2>1 DEF Accesses
    <2>3. Good(s, row)
      BY <1>2, <2>1 DEF OpenForm, At, Good, Informed, Counted, Reach, Accesses
    <2> QED
      BY <1>2, <2>2, <2>3, Moves DEF OpenForm, Same
  <1>3. CASE Reject(p)
    <2> DEFINE s == [proc[p] EXCEPT !.pc = "failed"]
    <2>1. s \in Accesses
      BY DEF Accesses
    <2>2. Good(s, row)
      BY <1>3 DEF Reject, At, Good, Informed, Counted, Reach, Accesses
    <2> QED
      BY <1>3, <2>1, <2>2, Moves DEF Reject, Goto, Same
  <1> QED
    BY <1>1, <1>2, <1>3 DEF Return, CloseForm, End, Same

\* A page is fetched: it follows on what was fetched before.
LEMMA FetchStep ==
  ASSUME Inv, NEW p \in Procs, Fetch(p)
  PROVE  Inv'
  <1> USE Facts
  <1> DEFINE from == proc[p].offset
             rest == Larger(Records - from, 0)
             size == Smaller(PageSize(p), rest)
             got == [n \in DOMAIN proc[p].got |->
                       IF n \in from..(from + size - 1) THEN Smaller(proc[p].got[n] + 1, 2)
                       ELSE proc[p].got[n]]
             s == [proc[p] EXCEPT !.pc = IF size = 0 THEN "done" ELSE "page",
                                  !.page = size, !.got = got]
  <1>1. PageSize(p) \in Nat \ {0} /\ PageSize(p) = Larger(proc[p].copy.batch, 1)
    BY DEF PageSize, Larger
  <1>2. from \in 0..Records /\ rest = Records - from
    BY DEF Accesses, Larger
  <1>3. size \in 0..rest /\ size <= PageSize(p) /\ (size < PageSize(p) => size = rest)
    BY <1>1, <1>2 DEF Smaller
  <1>4. DOMAIN proc[p].got = 0..(Records - 1)
    BY DEF Accesses
  <1>5. \A n \in 0..(Records - 1) : proc[p].got[n] = IF n < from THEN 1 ELSE 0
    <2>1. proc[p].pc \in {"have", "next"}
      BY DEF Fetch
    <2>2. Counted(proc[p]) /\ Reach(proc[p]) = from
      BY <2>1 DEF Good, Reach
    <2> QED
      BY <2>1, <2>2 DEF Counted
  <1>6. \A n \in 0..(Records - 1) : got[n] = IF n < from + size THEN 1 ELSE 0
    BY <1>2, <1>3, <1>4, <1>5, SMTT(30) DEF Smaller
  <1>7. got \in [0..(Records - 1) -> 0..2]
    BY <1>4, <1>6
  <1>8. Become(p, s) /\ row' = row /\ begun' = begun
    <2>1. (IF PageSize(p) = 0 THEN rest ELSE Smaller(PageSize(p), rest)) = size
      BY <1>1
    <2> HIDE DEF rest
    <2> QED
      BY <2>1 DEF Fetch, Same, rest
  <1> HIDE DEF got, size, rest
  <1>9. /\ s.pc = (IF size = 0 THEN "done" ELSE "page") /\ s.page = size /\ s.got = got
        /\ s.offset = from /\ s.copy = proc[p].copy /\ s.force = proc[p].force
    BY DEF Accesses
  <1>10. s \in Accesses
    <2>1. size \in 0..Records
      BY <1>2, <1>3
    <2>2. (IF size = 0 THEN "done" ELSE "page") \in {"done", "page"}
      OBVIOUS
    <2> QED
      BY <2>1, <2>2, <1>7 DEF Accesses
  <1>11. Counted(s)
    <2>1. CASE size = 0
      <3>1. Records = from + size
        BY <2>1, <1>1, <1>2, <1>3
      <3> QED
        BY <2>1, <3>1, <1>6, <1>9 DEF Counted, Reach
    <2>2. CASE size # 0
      BY <2>2, <1>1, <1>2, <1>3, <1>6, <1>9 DEF Counted, Reach
    <2> QED
      BY <2>1, <2>2
  <1>12. Informed(s, row)
    BY <1>9 DEF Fetch, Good, Informed
  <1> QED
    BY <1>8, <1>10, <1>11, <1>12, Moves DEF Good

\* A short page is the last one.
LEMMA AdvanceStep ==
  ASSUME Inv, NEW p \in Procs, Advance(p)
  PROVE  Inv'
  <1> USE Facts
  <1>1. PageSize(p) \in Nat \ {0} /\ PageSize(p) = Larger(proc[p].copy.batch, 1)
    BY DEF PageSize, Larger
  <1>2. /\ proc[p].pc = "page" /\ proc[p].offset \in 0..Records /\ proc[p].page \in 0..Records
        /\ proc[p].offset + proc[p].page <= Records /\ proc[p].page <= PageSize(p)
        /\ proc[p].page < PageSize(p) => proc[p].offset + proc[p].page = Records
        /\ \A n \in 0..(Records - 1) :
              proc[p].got[n] = IF n < proc[p].offset + proc[p].page THEN 1 ELSE 0
    BY <1>1 DEF Advance, At, Good, Counted, Reach, Accesses
  <1>3. CASE proc[p].page < PageSize(p)
    <2> DEFINE s == [proc[p] EXCEPT !.pc = "done"]
    <2>1. s \in Accesses
      BY DEF Accesses
    <2>2. Counted(s)
      BY <1>2, <1>3 DEF Counted, Reach, Accesses
    <2>3. Informed(s, row)
      BY <1>2 DEF Good, Informed, Accesses
    <2> QED
      BY <1>3, <2>1, <2>2, <2>3, Moves DEF Advance, Same, Good
  <1>4. CASE ~(proc[p].page < PageSize(p))
    <2> DEFINE s == [proc[p] EXCEPT !.pc = "next", !.offset = @ + PageSize(p)]
    <2>1. PageSize(p) = proc[p].page
      BY <1>1, <1>2, <1>4
    <2>2. /\ s.pc = "next" /\ s.offset = proc[p].offset + proc[p].page /\ s.got = proc[p].got
          /\ s.copy = proc[p].copy /\ s.force = proc[p].force
      BY <2>1 DEF Accesses
    <2>3. s \in Accesses
      <3>1. proc[p].offset + PageSize(p) \in 0..Records
        BY <1>2, <2>1
      <3> QED
        BY <3>1 DEF Accesses
    <2>4. Counted(s)
      BY <1>2, <2>2 DEF Counted, Reach
    <2>5. Informed(s, row)
      BY <1>2, <2>2 DEF Good, Informed
    <2> QED
      BY <1>4, <2>3, <2>4, <2>5, Moves DEF Advance, Same, Good
  <1> QED
    BY <1>3, <1>4

-----------------------------------------------------------------------------
LEMMA Steps == Inv /\ [Next]_vars => Inv'
  <1> SUFFICES ASSUME Inv, [Next]_vars PROVE Inv'
    OBVIOUS
  <1>1. CASE UNCHANGED vars
    BY <1>1 DEF vars, Inv, TypeOK, SettingsInForce, Present, Told, Paged, Fetched, PageSize, At
  <1>2. ASSUME NEW p \in Procs,
               \/ \E kind \in Kinds : Begin(p, kind)
               \/ Work(p) \/ SubmitForm(p) \/ CloseForm(p)
        PROVE  Inv'
    BY <1>2, Steps1, Steps2, Steps3, FetchStep, AdvanceStep DEF Work, Access, Request, Run
  <1> QED
    BY <1>1, <1>2 DEF Next, Finished

\* Nobody is handed settings that were not in force, and pages follow on each
\* other, in every reachable state (models.py:162, tasks.py:221-258).
THEOREM Invariance == Spec => []Inv
  BY Start, Steps, PTL DEF Spec

\* Types, and offsets within the list, for every batch_size.
THEOREM ConfigTypes == Spec => []TypeOK
  <1>1. Inv => TypeOK
    BY DEF Inv
  <1> QED
    BY <1>1, Invariance, PTL

\* Settings handed out were in force since they were asked for (tasks.py:221).
THEOREM HandedOut == Spec => []SettingsInForce
  <1>1. Inv => SettingsInForce
    BY DEF Inv
  <1> QED
    BY <1>1, Invariance, PTL

\* A run that ends has fetched each record once, whatever batch_size became and
\* however the list divides into pages (tasks.py:236-258).
THEOREM WholeList == Spec => []PagesCover
  <1>1. Inv => PagesCover
    BY RecordsAssumption DEF Inv, Paged, PagesCover, Fetched, At
  <1> QED
    BY <1>1, Invariance, PTL
=============================================================================
