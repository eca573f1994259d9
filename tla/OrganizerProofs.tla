-------------------------- MODULE OrganizerProofs ---------------------------
(***************************************************************************)
(* Proofs about the list of tasks, for any numbers of tasks, keywords,     *)
(* edits and failures: the types, that the cursor is on a row, that the    *)
(* rows are the tasks they were read from, and that no title is lost.      *)
(***************************************************************************)
EXTENDS Organizer, SequenceTheorems, FiniteSetTheorems, WellFoundedInduction, TLAPS

USE OrganizerAssumption DEF Ids, Unsaved, Titles, Births

-----------------------------------------------------------------------------
(* Numbers, ids and lists *)

\* The last of some numbers.
LEMMA MaxIs ==
  ASSUME NEW n \in Nat, NEW S \in SUBSET (0..n), S # {}
  PROVE  Max(S) \in S /\ \A j \in S : j <= Max(S)
<1> DEFINE T == {n - i : i \in S}
           R == OpToRel(<, Nat)
<1>1. T \subseteq Nat /\ T # {}
  <2>1. PICK i \in S : TRUE
    OBVIOUS
  <2>2. n - i \in T
    OBVIOUS
  <2>3. T \subseteq Nat
    OBVIOUS
  <2> QED BY <2>2, <2>3
<1>2. PICK x \in T : \A y \in T : ~ (<<y, x>> \in R)
  <2> HIDE DEF T, R
  <2>1. IsWellFoundedOn(R, Nat)
    BY NatLessThanWellFounded DEF R
  <2> QED BY <1>1, <2>1, WFMin
<1>3. \A y \in T : x <= y
  <2>1. \A a, b \in Nat : a < b => <<a, b>> \in R
    <3> SUFFICES ASSUME NEW a \in Nat, NEW b \in Nat, a < b PROVE <<a, b>> \in R
      OBVIOUS
    <3>1. <<a, b>> \in Nat \X Nat /\ <<a, b>>[1] = a /\ <<a, b>>[2] = b
      OBVIOUS
    <3> QED BY <3>1 DEF OpToRel
  <2> HIDE DEF R, T
  <2>2. SUFFICES ASSUME NEW y \in T PROVE x <= y
    OBVIOUS
  <2>3. x \in Nat /\ y \in Nat
    BY <1>1
  <2>4. ~(y < x)
    BY <1>2, <2>1, <2>3
  <2> QED BY <2>3, <2>4
<1>4. PICK i \in S : x = n - i
  OBVIOUS
<1>5. \A j \in S : j <= i
  BY <1>3, <1>4
<1> QED BY <1>4, <1>5 DEF Max

\* The next id is that of no task.
LEMMA NextIdIs ==
  ASSUME NEW tasks
  PROVE  NextId(tasks) \in Nat \ {0} /\ \A i \in ExistIn(tasks) : i < NextId(tasks)
<1>1. ExistIn(tasks) \cup {0} \in SUBSET (0..MaxTasks)
  BY DEF ExistIn
<1>2. PICK S \in SUBSET (0..MaxTasks) : S = ExistIn(tasks) \cup {0}
  BY <1>1
<1>3. Max(S) \in S /\ \A j \in S : j <= Max(S)
  BY <1>2, MaxIs
<1> QED BY <1>2, <1>3 DEF NextId

\* What a query may return: any number of the tasks, or none.
LEMMA ResultIs ==
  ASSUME NEW tasks
  PROVE  /\ <<>> \in Lists(tasks) /\ <<>> \in Results(tasks)
         /\ \A ids \in Results(tasks) : /\ \E n \in Nat : DOMAIN ids = 1..n
                                       /\ \A k \in DOMAIN ids : ids[k] \in ExistIn(tasks)
<1>1. Results(tasks) = UNION {[1..m -> ExistIn(tasks)] : m \in 0..MaxTasks}
  BY DEF Results, SeqOf
<1>2. <<>> \in Results(tasks)
  <2>1. <<>> \in [1..0 -> ExistIn(tasks)]
    BY EmptySeq
  <2>2. 0 \in 0..MaxTasks
    OBVIOUS
  <2> QED BY <1>1, <2>1, <2>2
<1>3. <<>> \in Lists(tasks)
  BY <1>2 DEF Lists, IsInjective
<1>4. ASSUME NEW ids \in Results(tasks)
      PROVE  /\ \E n \in Nat : DOMAIN ids = 1..n
             /\ \A k \in DOMAIN ids : ids[k] \in ExistIn(tasks)
  <2>1. PICK m \in 0..MaxTasks : ids \in [1..m -> ExistIn(tasks)]
    BY <1>1
  <2> QED BY <2>1
<1> QED BY <1>2, <1>3, <1>4

-----------------------------------------------------------------------------
(* Types, and the cursor *)

\* A list without rows has the cursor at its start, and so has the first row put into it.
OnScreen == run = "yes" => fr = 0 \/ fr < Len(rows)

TypeInv == TypeOK /\ OnScreen

LEMMA RowsFacts ==
  ASSUME TypeOK
  PROVE  /\ Len(rows) \in Nat /\ DOMAIN rows = 1..Len(rows)
         /\ \A k \in 1..Len(rows) : rows[k] \in Row
         /\ InRange => fr + 1 \in 1..Len(rows) /\ At \in Row
<1>1. rows \in Seq(Row) /\ fr \in Nat
  BY DEF TypeOK
<1>2. Len(rows) \in Nat /\ DOMAIN rows = 1..Len(rows)
  BY <1>1, LenProperties
<1>3. \A k \in 1..Len(rows) : rows[k] \in Row
  BY <1>1, ElementOfSeq
<1> QED BY <1>1, <1>2, <1>3 DEF InRange, At

LEMMA ReplacedIs ==
  ASSUME TypeOK, InRange, NEW row \in Row
  PROVE  /\ Replaced(row) \in Seq(Row) /\ Len(Replaced(row)) = Len(rows)
         /\ DOMAIN Replaced(row) = DOMAIN rows
         /\ Replaced(row)[fr + 1] = row
         /\ \A k \in DOMAIN rows : k # fr + 1 => Replaced(row)[k] = rows[k]
<1>1. rows \in Seq(Row) /\ fr \in Nat
  BY DEF TypeOK
<1>2. PICK at \in 1..Len(rows) : at = fr + 1
  BY RowsFacts
<1>3. DOMAIN rows = 1..Len(rows)
  BY RowsFacts
<1> QED BY <1>1, <1>2, <1>3, ExceptSeq DEF Replaced

LEMMA TaskIs ==
  ASSUME NEW tasks \in [Ids -> Task], NEW i \in Ids
  PROVE  /\ tasks[i] \in Task /\ tasks[i].exists \in BOOLEAN /\ tasks[i].title \in Titles
         /\ tasks[i].deleted \in BOOLEAN /\ tasks[i].born \in Births
         /\ RowOf(tasks, i) \in Row
<1>1. PICK t \in Task : t = tasks[i]
  OBVIOUS
<1>2. /\ t.exists \in BOOLEAN /\ t.title \in Titles
      /\ t.deleted \in BOOLEAN /\ t.born \in Births
  BY DEF Task
<1>3. RowOf(tasks, i) \in Row
  BY <1>1, <1>2 DEF RowOf, Row
<1> QED BY <1>1, <1>2, <1>3

LEMMA NewRowIs ==
  /\ NewRow \in Row /\ NewRow.id = Unsaved /\ NewRow.born = 0 /\ NewRow.dirty = TRUE
  /\ NewRow.deleted = FALSE /\ NewRow.early = FALSE /\ NewRow.lost = FALSE
BY DEF NewRow, Row

LEMMA KeywordRowIs ==
  ASSUME NEW k \in 1..KeywordRows
  PROVE  /\ KeywordRow(k) \in Row /\ KeywordRow(k).id = k /\ KeywordRow(k).born = 0
<1>1. PICK x \in Row : x = NewRow
  BY NewRowIs
<1>2. x.born = 0
  BY <1>1, NewRowIs
<1>3. k \in Ids
  OBVIOUS
<1>4. PICK y : y = [x EXCEPT !.id = k, !.dirty = FALSE]
  OBVIOUS
<1>5. y \in Row /\ y.id = k /\ y.born = 0
  BY <1>2, <1>3, <1>4 DEF Row
<1> QED BY <1>1, <1>4, <1>5 DEF KeywordRow

\* The rows are some of the tasks.
Listed(tasks) ==
  /\ rows' \in Seq(Row) /\ fr' = 0
  /\ \A k \in DOMAIN rows' : /\ rows'[k].id \in ExistIn(tasks)
                             /\ rows'[k] = RowOf(tasks, rows'[k].id)

LEMMA ShowLists ==
  ASSUME NEW tasks \in [Ids -> Task], NEW ids \in Results(tasks), Show(tasks, ids)
  PROVE  Listed(tasks)
<1>1. PICK n \in Nat : DOMAIN ids = 1..n
  BY ResultIs
<1>2. \A k \in 1..n : ids[k] \in ExistIn(tasks)
  BY <1>1, ResultIs
<1>3. \A k \in 1..n : RowOf(tasks, ids[k]) \in Row /\ RowOf(tasks, ids[k]).id = ids[k]
  BY <1>2, TaskIs DEF ExistIn, RowOf
<1>4. rows' = [k \in 1..n |-> RowOf(tasks, ids[k])] /\ fr' = 0
  BY <1>1 DEF Show, FirstRow
<1>5. rows' \in [1..n -> Row] /\ \A k \in 1..n : rows'[k] = RowOf(tasks, ids[k])
  BY <1>3, <1>4
<1>6. rows' \in Seq(Row)
  BY <1>5, SeqDef
<1> QED BY <1>2, <1>3, <1>4, <1>5, <1>6 DEF Listed

LEMMA GetItemsLists ==
  ASSUME TypeOK, NEW tasks \in [Ids -> Task], NEW m \in Modes, GetItems(tasks, m)
  PROVE  /\ Listed(tasks) /\ mode' \in Modes /\ faults' \in 0..MaxFaults
         /\ view' \in {"TASK", view} /\ stale' \in BOOLEAN
<1>1. lastMode \in Modes /\ "NO_ROWS" \in Modes /\ faults \in 0..MaxFaults
  BY DEF TypeOK, Modes
<1>2. CASE /\ Show(tasks, <<>>) /\ mode' = m /\ UNCHANGED view
           /\ UNCHANGED faults \/ (faults < MaxFaults /\ faults' = faults + 1)
  <2>1. Listed(tasks) /\ stale' = FALSE
    BY <1>2, ResultIs, ShowLists DEF Show
  <2>2. faults' \in 0..MaxFaults
    BY ONLY <1>1, <1>2, OrganizerAssumption
  <2>3. stale' \in BOOLEAN /\ view' = view /\ mode' = m
    BY ONLY <1>2, <2>1
  <2> QED BY <2>1, <2>2, <2>3
<1>3. CASE /\ UNCHANGED faults /\ view' = "TASK"
           /\ \E ids \in Results(tasks) : Show(tasks, ids) /\ mode' = ModeFor(ids)
  <2>1. PICK ids \in Results(tasks) : Show(tasks, ids) /\ mode' \in {"NO_ROWS", lastMode}
    BY <1>3 DEF ModeFor
  <2>2. Listed(tasks) /\ stale' = FALSE
    BY <2>1, ShowLists DEF Show
  <2> QED BY <1>1, <1>3, <2>1, <2>2
<1> QED BY <1>2, <1>3 DEF GetItems

\* The keys and commands that leave the rows alone.
LEMMA SameTypes ==
  ASSUME TypeInv, UNCHANGED <<tables, rows, view, found, stale, bounds>>,
         fr' \in Nat, mode' \in Modes, lastMode' \in Modes,
         run' \in {"yes", "quit", "left", "crash"},
         run' = "yes" => fr' = 0 \/ fr' < Len(rows)
  PROVE  TypeInv'
BY DEF TypeInv, TypeOK, OnScreen, tables, bounds

\* Those that put a row in the place of another.
LEMMA ReplacedTypes ==
  ASSUME TypeInv, InRange, NEW row \in Row, rows' = Replaced(row),
         UNCHANGED <<fr, view, found, stale, lastMode, run>>,
         task' \in [Ids -> Task], births' \in Births, mode' \in Modes,
         edits' \in 0..MaxEdits, faults' \in 0..MaxFaults
  PROVE  TypeInv'
<1>1. rows' \in Seq(Row) /\ Len(rows') = Len(rows)
  BY ReplacedIs DEF TypeInv
<1>2. TypeOK'
  BY <1>1 DEF TypeInv, TypeOK
<1>3. OnScreen'
  BY <1>1 DEF TypeInv, OnScreen
<1> QED BY <1>2, <1>3 DEF TypeInv

\* Those that read the rows again.
LEMMA ListedTypes ==
  ASSUME TypeInv, NEW tasks, Listed(tasks), UNCHANGED run,
         task' \in [Ids -> Task], births' \in Births, view' \in {"TASK", "KEYWORD"},
         mode' \in Modes, lastMode' \in Modes, found' \in BOOLEAN, stale' \in BOOLEAN,
         edits' \in 0..MaxEdits, faults' \in 0..MaxFaults
  PROVE  TypeInv'
<1>1. TypeOK'
  BY DEF TypeInv, TypeOK, Listed
<1>2. OnScreen'
  BY DEF OnScreen, Listed
<1> QED BY <1>1, <1>2 DEF TypeInv

\* Those that put a new row before the others.
LEMMA NewRowTypes ==
  ASSUME TypeInv, run = "yes", rows' = <<NewRow>> \o rows, fr' \in {fr, 0}, mode' = "INSERT",
         UNCHANGED <<tables, view, found, stale, lastMode, run, bounds>>
  PROVE  /\ TypeInv' /\ Len(rows') = Len(rows) + 1 /\ DOMAIN rows' = 1..Len(rows')
         /\ rows'[1] = NewRow /\ \A k \in 1..Len(rows) : rows'[k + 1] = rows[k]
<1>1. <<NewRow>> \in Seq(Row) /\ Len(<<NewRow>>) = 1 /\ <<NewRow>>[1] = NewRow
  BY NewRowIs
<1>2. PICK s \in Seq(Row) : s = <<NewRow>>
  BY <1>1
<1>3. PICK r \in Seq(Row) : r = rows
  BY DEF TypeInv, TypeOK
<1>4. Len(r) \in Nat
  BY LenProperties
<1>5. /\ rows' \in Seq(Row) /\ Len(rows') = 1 + Len(r)
      /\ \A i \in 1..(1 + Len(r)) : rows'[i] = IF i <= 1 THEN NewRow ELSE r[i - 1]
  BY <1>1, <1>2, <1>3, ConcatProperties
<1>6. DOMAIN rows' = 1..Len(rows')
  BY <1>5, LenProperties
<1>7. rows'[1] = NewRow /\ \A k \in 1..Len(r) : rows'[k + 1] = r[k]
  <2>1. 1 \in 1..(1 + Len(r)) /\ 1 <= 1
    BY <1>4
  <2>2. ASSUME NEW k \in 1..Len(r) PROVE rows'[k + 1] = r[k]
    <3>1. PICK j \in 1..(1 + Len(r)) : j = k + 1
      BY <1>4
    <3>2. ~(j <= 1) /\ j - 1 = k
      BY <3>1
    <3> QED BY <1>5, <3>1, <3>2
  <2> QED BY <1>5, <2>1, <2>2
<1>8. TypeOK'
  BY <1>5 DEF TypeInv, TypeOK, tables, bounds, Modes
<1>9. OnScreen'
  BY <1>3, <1>4, <1>5 DEF TypeInv, TypeOK, OnScreen
<1> QED BY <1>3, <1>4, <1>5, <1>6, <1>7, <1>8, <1>9 DEF TypeInv

\* The list of keywords.
LEMMA KeywordsTypes ==
  ASSUME TypeInv, ShowKeywords, UNCHANGED <<tables, found, lastMode, run, bounds>>,
         mode' \in Modes
  PROVE  TypeInv'
<1>1. rows' \in Seq(Row) /\ fr' = 0
  <2>1. rows' \in [1..KeywordRows -> Row] /\ KeywordRows \in Nat
    BY KeywordRowIs DEF ShowKeywords
  <2> QED BY <2>1, SeqDef DEF ShowKeywords, FirstRow
<1>2. view' = "KEYWORD" /\ stale' = FALSE
  BY DEF ShowKeywords
<1>3. TypeOK'
  BY <1>1, <1>2 DEF TypeInv, TypeOK, tables, bounds
<1> QED BY <1>1, <1>3 DEF TypeInv, OnScreen

-----------------------------------------------------------------------------
(* Rows that are changed, and tasks that are stored *)

LEMMA RowIs ==
  ASSUME NEW row \in Row
  PROVE  /\ row.id \in Ids \cup {Unsaved} /\ row.title \in Titles /\ row.dirty \in BOOLEAN
         /\ row.deleted \in BOOLEAN /\ row.born \in Births /\ row.early \in BOOLEAN
         /\ row.lost \in BOOLEAN
BY DEF Row

\* A title typed, with the flags that are given.
LEMMA TitledIs ==
  ASSUME NEW row \in Row, edits \in 0..MaxEdits, Edit
  PROVE  /\ edits' \in 0..MaxEdits /\ edits + 1 \in Titles
         /\ Typed(row) \in Row /\ Typed(row).dirty = TRUE /\ Typed(row).id = row.id
         /\ Typed(row).born = row.born /\ Typed(row).deleted = row.deleted
         /\ Typed(row).early = row.early /\ Typed(row).lost = FALSE
<1>1. edits' \in 0..MaxEdits /\ edits + 1 \in Titles
  BY DEF Edit
<1>2. PICK t \in Titles : t = edits + 1
  BY <1>1
<1>3. PICK new : new = [row EXCEPT !.title = t, !.dirty = TRUE, !.lost = FALSE]
  OBVIOUS
<1>4. /\ new \in Row /\ new.dirty = TRUE /\ new.id = row.id
      /\ new.born = row.born /\ new.deleted = row.deleted
      /\ new.early = row.early /\ new.lost = FALSE
  BY <1>3 DEF Row
<1> QED BY <1>1, <1>2, <1>3, <1>4 DEF Typed

\* dw
LEMMA WordDeletedIs ==
  ASSUME NEW row \in Row, edits \in 0..MaxEdits, Edit,
         NEW new, new = [row EXCEPT !.title = edits + 1, !.lost = ~row.dirty]
  PROVE  /\ new \in Row /\ new.dirty = row.dirty /\ new.id = row.id
         /\ new.born = row.born /\ new.deleted = row.deleted
         /\ new.early = row.early /\ new.lost = ~row.dirty
<1>1. PICK t \in Titles : t = edits + 1
  BY DEF Edit
<1>2. PICK lost \in BOOLEAN : lost = ~row.dirty
  OBVIOUS
<1>3. new = [row EXCEPT !.title = t, !.lost = lost]
  BY <1>1, <1>2
<1>4. /\ new \in Row /\ new.dirty = row.dirty /\ new.id = row.id
      /\ new.born = row.born /\ new.deleted = row.deleted
      /\ new.early = row.early /\ new.lost = lost
  BY <1>3 DEF Row
<1> QED BY <1>2, <1>4

\* A row that has been stored or refused.
LEMMA StoredIs ==
  ASSUME NEW row \in Row, NEW lost \in BOOLEAN, NEW new,
         new = [row EXCEPT !.dirty = FALSE, !.lost = lost]
  PROVE  /\ new \in Row /\ new.dirty = FALSE /\ new.id = row.id /\ new.title = row.title
         /\ new.born = row.born /\ new.deleted = row.deleted
         /\ new.early = row.early /\ new.lost = lost
BY DEF Row

LEMMA InsertedIs ==
  ASSUME NEW row \in Row, NEW n \in Births
  PROVE  /\ Inserted(row, n) \in Task /\ Inserted(row, n).exists = TRUE
         /\ Inserted(row, n).title = row.title /\ Inserted(row, n).deleted = FALSE
         /\ Inserted(row, n).born = n
BY RowIs DEF Inserted, Task

\* A row that was given an id.
LEMMA SavedIs ==
  ASSUME NEW row \in Row, NEW i \in Ids, NEW b \in Births, NEW new,
         new = [row EXCEPT !.dirty = FALSE, !.lost = FALSE, !.id = i, !.born = b]
  PROVE  /\ new \in Row /\ new.dirty = FALSE /\ new.id = i /\ new.title = row.title
         /\ new.born = b /\ new.deleted = row.deleted
         /\ new.early = row.early /\ new.lost = FALSE
BY DEF Row

\* dd
LEMMA ToggledIs ==
  ASSUME TypeOK, Delete
  PROVE  \E new \in Row :
           /\ rows' = Replaced(new) /\ new.dirty = At.dirty /\ new.id = At.id
           /\ new.title = At.title /\ new.born = At.born /\ new.lost = At.lost
           /\ new.deleted = ~At.deleted /\ new.early = (At.early \/ At.id = Unsaved)
<1>1. PICK x \in Row : x = At
  BY RowsFacts DEF Delete
<1>2. PICK deleted \in BOOLEAN : deleted = ~x.deleted
  OBVIOUS
<1>3. PICK early \in BOOLEAN : early = (x.early \/ x.id = Unsaved)
  OBVIOUS
<1>4. PICK new : new = [x EXCEPT !.deleted = deleted, !.early = early]
  OBVIOUS
<1>5. rows' = Replaced(new)
  BY <1>1, <1>2, <1>3, <1>4 DEF Delete
<1>6. /\ new \in Row /\ new.dirty = x.dirty /\ new.id = x.id /\ new.title = x.title
      /\ new.born = x.born /\ new.deleted = deleted
      /\ new.early = early /\ new.lost = x.lost
  BY <1>4 DEF Row
<1> QED BY <1>1, <1>2, <1>3, <1>5, <1>6

LEMMA UpdateIs ==
  ASSUME task \in [Ids -> Task], NEW i \in Ids, NEW t \in Titles
  PROVE  /\ Update(i, t) \in [Ids -> Task]
         /\ \A j \in Ids : /\ Update(i, t)[j].exists = task[j].exists
                           /\ Update(i, t)[j].deleted = task[j].deleted
                           /\ Update(i, t)[j].born = task[j].born
                           /\ j # i => Update(i, t)[j] = task[j]
         /\ task[i].exists => Update(i, t)[i].title = t
<1>1. PICK x \in Task : x = task[i]
  OBVIOUS
<1>2. PICK y : y = [x EXCEPT !.title = t]
  OBVIOUS
<1>3. y \in Task /\ y.exists = x.exists /\ y.deleted = x.deleted /\ y.born = x.born
      /\ y.title = t
  BY <1>2 DEF Task
<1>4. Update(i, t) = IF x.exists THEN [task EXCEPT ![i] = y] ELSE task
  BY <1>1, <1>2 DEF Update
<1> QED BY <1>1, <1>3, <1>4

LEMMA ToggledTask ==
  ASSUME task \in [Ids -> Task], NEW i \in Ids, NEW d \in BOOLEAN, NEW new,
         new = [task EXCEPT ![i].deleted = d]
  PROVE  /\ new \in [Ids -> Task] /\ new[i].deleted = d
         /\ \A j \in Ids : /\ new[j].exists = task[j].exists /\ new[j].title = task[j].title
                           /\ new[j].born = task[j].born
                           /\ j # i => new[j] = task[j]
<1>1. PICK x \in Task : x = task[i]
  OBVIOUS
<1>2. PICK y : y = [x EXCEPT !.deleted = d]
  OBVIOUS
<1>3. y \in Task /\ y.exists = x.exists /\ y.title = x.title /\ y.born = x.born
      /\ y.deleted = d
  BY <1>2 DEF Task
<1>4. new = [task EXCEPT ![i] = y]
  BY <1>1, <1>2
<1> QED BY <1>1, <1>3, <1>4

\* The ways of a key that stores the row: nothing to do, an old task, a new one, refused.
LEMMA StoreKinds ==
  ASSUME TypeOK, InRange, StoreTitle, NEW x \in Row, x = At
  PROVE  \/ UNCHANGED <<task, births, rows, faults>>
         \/ /\ x.id # Unsaved /\ view = "TASK" /\ task' = Update(x.id, x.title)
            /\ rows' = Replaced([x EXCEPT !.dirty = FALSE, !.lost = FALSE])
            /\ UNCHANGED <<births, faults>>
         \/ /\ x.id = Unsaved /\ view = "TASK" /\ NextId(task) \in Ids /\ births < MaxBirths
            /\ task' = [task EXCEPT ![NextId(task)] = Inserted(x, births + 1)]
            /\ births' = births + 1
            /\ rows' = Replaced([x EXCEPT !.dirty = FALSE, !.lost = FALSE,
                                          !.id = NextId(task), !.born = births + 1])
            /\ UNCHANGED faults
         \/ /\ rows' = Replaced([x EXCEPT !.dirty = FALSE, !.lost = TRUE])
            /\ faults' \in 0..MaxFaults /\ UNCHANGED <<task, births>>
<1>1. faults \in 0..MaxFaults
  BY DEF TypeOK
<1> QED BY <1>1 DEF StoreTitle

LEMMA ReturnDirtyTypes == ASSUME TypeInv, ReturnDirty PROVE TypeInv'
<1>1. InRange /\ TypeOK /\ births \in Births /\ faults \in 0..MaxFaults
      /\ task \in [Ids -> Task] /\ edits' \in 0..MaxEdits
  BY DEF ReturnDirty, TypeInv, TypeOK
<1>2. PICK x \in Row : x = At
  BY <1>1, RowsFacts
<1>3. UNCHANGED <<fr, view, found, stale, lastMode, run>> /\ mode' \in Modes
  BY DEF ReturnDirty, Back, Modes
<1>4. CASE UNCHANGED <<task, births, rows, faults>>
  BY <1>1, <1>3, <1>4 DEF TypeInv, TypeOK, OnScreen
<1>5. CASE /\ x.id # Unsaved /\ view = "TASK" /\ task' = Update(x.id, x.title)
           /\ rows' = Replaced([x EXCEPT !.dirty = FALSE, !.lost = FALSE])
           /\ UNCHANGED <<births, faults>>
  <2>1. task' \in [Ids -> Task]
    BY <1>1, <1>2, <1>5, RowIs, UpdateIs
  <2>2. [x EXCEPT !.dirty = FALSE, !.lost = FALSE] \in Row
    BY StoredIs
  <2> QED BY <1>1, <1>3, <1>5, <2>1, <2>2, ReplacedTypes
<1>6. CASE /\ x.id = Unsaved /\ view = "TASK" /\ NextId(task) \in Ids /\ births < MaxBirths
           /\ task' = [task EXCEPT ![NextId(task)] = Inserted(x, births + 1)]
           /\ births' = births + 1
           /\ rows' = Replaced([x EXCEPT !.dirty = FALSE, !.lost = FALSE,
                                         !.id = NextId(task), !.born = births + 1])
           /\ UNCHANGED faults
  <2>1. PICK i \in Ids, b \in Births : i = NextId(task) /\ b = births + 1
    BY <1>1, <1>6
  <2>2. task' \in [Ids -> Task]
    BY <1>1, <1>6, <2>1, InsertedIs
  <2>3. PICK new : new = [x EXCEPT !.dirty = FALSE, !.lost = FALSE, !.id = i, !.born = b]
    OBVIOUS
  <2>4. new \in Row /\ rows' = Replaced(new)
    BY <1>6, <2>1, <2>3, SavedIs
  <2> QED BY <1>1, <1>3, <1>6, <2>1, <2>2, <2>4, ReplacedTypes
<1>7. CASE /\ rows' = Replaced([x EXCEPT !.dirty = FALSE, !.lost = TRUE])
           /\ faults' \in 0..MaxFaults /\ UNCHANGED <<task, births>>
  <2>1. [x EXCEPT !.dirty = FALSE, !.lost = TRUE] \in Row
    BY StoredIs
  <2> QED BY <1>1, <1>3, <1>7, <2>1, ReplacedTypes
<1>8. StoreTitle
  BY DEF ReturnDirty
<1> QED BY <1>1, <1>2, <1>4, <1>5, <1>6, <1>7, <1>8, StoreKinds

LEMMA DeleteTypes == ASSUME TypeInv, Delete PROVE TypeInv'
<1>1. InRange /\ TypeOK /\ task \in [Ids -> Task]
  BY DEF Delete, TypeInv, TypeOK
<1>2. PICK x \in Row : x = At
  BY <1>1, RowsFacts
<1>4. PICK new \in Row : rows' = Replaced(new)
  BY <1>1, ToggledIs
<1>5. task' \in [Ids -> Task]
  <2>1. CASE view = "TASK" /\ x.id \in ExistIn(task)
    <3>1. x.id \in Ids
      BY <2>1 DEF ExistIn
    <3>2. PICK d \in BOOLEAN : d = ~x.deleted
      OBVIOUS
    <3>3. task' = [task EXCEPT ![x.id].deleted = d]
      BY <1>2, <2>1, <3>2 DEF Delete
    <3> QED BY <1>1, <3>1, <3>3, ToggledTask
  <2>2. CASE ~(view = "TASK" /\ x.id \in ExistIn(task))
    BY <1>1, <1>2, <2>2 DEF Delete
  <2> QED BY <2>1, <2>2
<1> QED BY <1>1, <1>4, <1>5, ReplacedTypes
        DEF Delete, Back, Modes, bounds, TypeInv, TypeOK

LEMMA NewTypes == ASSUME TypeInv, New \/ FirstInsert PROVE TypeInv'
BY NewRowTypes DEF New, FirstInsert, Command, In

LEMMA EditTypes ==
  ASSUME TypeInv, Type \/ DeleteWord \/ \E next \in {"NORMAL", "INSERT"} : Change(next)
  PROVE  TypeInv'
<1>1. InRange /\ Edit /\ TypeOK /\ edits \in 0..MaxEdits
  BY DEF TypeInv, TypeOK, Type, DeleteWord, Change
<1>2. PICK x \in Row : x = At
  BY <1>1, RowsFacts
<1>3. CASE Type \/ \E next \in {"NORMAL", "INSERT"} : Change(next)
  <2>1. rows' = Replaced(Typed(x)) /\ UNCHANGED <<tables, fr, view, found, stale, lastMode, run, faults>>
        /\ mode' \in {mode, "NORMAL", "INSERT"}
    BY <1>2, <1>3 DEF Type, Change, modes
  <2>2. Typed(x) \in Row /\ edits' \in 0..MaxEdits
    BY <1>1, TitledIs
  <2> QED BY <1>1, <2>1, <2>2, ReplacedTypes DEF Modes, tables, TypeInv, TypeOK
<1>4. CASE DeleteWord
  <2>1. PICK new : new = [x EXCEPT !.title = edits + 1, !.lost = ~x.dirty]
    OBVIOUS
  <2>2. new \in Row /\ edits' \in 0..MaxEdits
    BY <1>1, <2>1, WordDeletedIs, TitledIs
  <2>3. rows' = Replaced(new)
    BY <1>2, <1>4, <2>1 DEF DeleteWord
  <2>4. /\ UNCHANGED <<tables, fr, view, found, stale, lastMode, run, faults>>
        /\ mode' = "NORMAL"
    BY <1>4 DEF DeleteWord, Back
  <2> QED BY <1>1, <2>2, <2>3, <2>4, ReplacedTypes DEF Modes, tables, TypeInv, TypeOK
<1> QED BY <1>3, <1>4

-----------------------------------------------------------------------------
(* :w and :x *)

\* How many of some numbers are less than one of them.
LEMMA CountIs ==
  ASSUME NEW n \in Nat, NEW S \in SUBSET (1..n)
  PROVE  /\ Cardinality(S) \in Nat
         /\ \A k \in S : /\ Cardinality({j \in S : j < k}) \in Nat
                        /\ Cardinality({j \in S : j < k}) + 1 <= Cardinality(S)
         /\ \A j, k \in S :
              j < k => Cardinality({i \in S : i < j}) < Cardinality({i \in S : i < k})
<1>1. \A T \in SUBSET (1..n) : IsFiniteSet(T) /\ Cardinality(T) \in Nat
  <2> SUFFICES ASSUME NEW T \in SUBSET (1..n) PROVE IsFiniteSet(T) /\ Cardinality(T) \in Nat
    OBVIOUS
  <2>1. IsFiniteSet(1..n)
    BY FS_Interval
  <2>2. IsFiniteSet(T)
    BY <2>1, FS_Subset
  <2> QED BY <2>2, FS_CardinalityType
<1>2. \A T \in SUBSET (1..n), U \in SUBSET (1..n) :
        T \subseteq U /\ T # U => Cardinality(T) < Cardinality(U)
  <2> SUFFICES ASSUME NEW T \in SUBSET (1..n), NEW U \in SUBSET (1..n), T \subseteq U, T # U
               PROVE  Cardinality(T) < Cardinality(U)
    OBVIOUS
  <2>1. Cardinality(T) <= Cardinality(U) /\ Cardinality(T) # Cardinality(U)
    BY <1>1, FS_Subset
  <2> QED BY <1>1, <2>1
<1>3. ASSUME NEW k \in S
      PROVE  /\ Cardinality({j \in S : j < k}) \in Nat
             /\ Cardinality({j \in S : j < k}) + 1 <= Cardinality(S)
  <2>1. PICK T \in SUBSET (1..n) : T = {j \in S : j < k}
    OBVIOUS
  <2>2. T \subseteq S /\ k \notin T
    BY <2>1
  <2>3. Cardinality(T) \in Nat /\ Cardinality(S) \in Nat /\ Cardinality(T) < Cardinality(S)
    BY <1>1, <1>2, <2>2
  <2> QED BY <2>1, <2>3
<1>4. ASSUME NEW j \in S, NEW k \in S, j < k
      PROVE  Cardinality({i \in S : i < j}) < Cardinality({i \in S : i < k})
  <2>1. PICK T \in SUBSET (1..n), U \in SUBSET (1..n) :
          T = {i \in S : i < j} /\ U = {i \in S : i < k}
    OBVIOUS
  <2>2. T \subseteq U /\ j \in U /\ j \notin T
    BY <1>4, <2>1
  <2> QED BY <1>2, <2>1, <2>2
<1> QED BY <1>1, <1>3, <1>4

LEMMA SavesIs ==
  ASSUME TypeOK, NEW bad \in 0..Len(rows), births + Cardinality(News(bad)) <= MaxBirths
  PROVE  /\ Saves(bad) \subseteq DOMAIN rows /\ News(bad) \subseteq Saves(bad)
         /\ \A k \in Saves(bad) : k \in News(bad) <=> rows[k].id = Unsaved
         /\ births + Cardinality(News(bad)) \in Births
         /\ \A k \in News(bad) :
              /\ SavedId(bad, k) = NextId(task) + Before(bad, k) /\ Before(bad, k) \in Nat
              /\ SavedBorn(bad, k) = births + Before(bad, k) + 1
              /\ SavedBorn(bad, k) <= births + Cardinality(News(bad))
              /\ \A j \in News(bad) : Before(bad, j) = Before(bad, k) => j = k
         /\ \A k \in DOMAIN rows : /\ SavedBorn(bad, k) \in Births
                                   /\ k \notin News(bad) => SavedBorn(bad, k) = rows[k].born
<1>1. DOMAIN rows = 1..Len(rows) /\ Len(rows) \in Nat /\ births \in Births
      /\ \A k \in DOMAIN rows : rows[k].born \in Births
  BY RowsFacts, RowIs DEF TypeOK
<1>2. /\ Saves(bad) \subseteq DOMAIN rows /\ News(bad) \subseteq Saves(bad)
      /\ \A k \in Saves(bad) : k \in News(bad) <=> rows[k].id = Unsaved
  BY DEF Saves, News
<1>3. PICK S \in SUBSET (1..Len(rows)) : S = News(bad)
  BY <1>1, <1>2
<1>4. PICK c \in Nat : c = Cardinality(News(bad))
  BY <1>1, <1>3, CountIs
<1>5. ASSUME NEW k \in News(bad) PROVE Before(bad, k) \in Nat /\ Before(bad, k) + 1 <= c
  BY <1>1, <1>3, <1>4, CountIs DEF Before
<1>6. ASSUME NEW j \in News(bad), NEW k \in News(bad), Before(bad, j) = Before(bad, k)
      PROVE  j = k
  <2>1. j \in 1..Len(rows) /\ k \in 1..Len(rows)
    BY <1>3
  <2>2. ASSUME NEW a \in News(bad), NEW b \in News(bad), a < b
        PROVE  Before(bad, a) < Before(bad, b)
    BY <1>1, <1>3, <2>2, CountIs DEF Before
  <2>3. Before(bad, j) \in Nat /\ Before(bad, k) \in Nat
    BY <1>5
  <2> QED BY <1>1, <1>6, <2>1, <2>2, <2>3
<1>7. ASSUME NEW k \in News(bad)
      PROVE  /\ SavedId(bad, k) = NextId(task) + Before(bad, k)
             /\ SavedBorn(bad, k) = births + Before(bad, k) + 1
             /\ SavedBorn(bad, k) <= births + Cardinality(News(bad))
             /\ SavedBorn(bad, k) \in Births
  <2>1. SavedId(bad, k) = NextId(task) + Before(bad, k)
    BY DEF SavedId, News
  <2>2. SavedBorn(bad, k) = births + Before(bad, k) + 1
    BY DEF SavedBorn
  <2> QED BY <1>1, <1>4, <1>5, <2>1, <2>2
<1>8. ASSUME NEW k \in DOMAIN rows, k \notin News(bad)
      PROVE  SavedBorn(bad, k) = rows[k].born /\ SavedBorn(bad, k) \in Births
  BY <1>1, <1>8 DEF SavedBorn
<1>9. births + Cardinality(News(bad)) \in Births
  BY <1>1, <1>4
<1> QED BY <1>2, <1>5, <1>6, <1>7, <1>8, <1>9

\* A task that a new row was stored as, one that has a new title, and one that is as it was.
LEMMA SavedTaskIs ==
  ASSUME TypeOK, NEW bad \in 0..Len(rows), births + Cardinality(News(bad)) <= MaxBirths,
         \A k \in Saves(bad) : SavedId(bad, k) \in Ids, NEW i \in Ids
  PROVE  /\ SavedTask(bad, i) \in Task
         /\ \/ \E k \in News(bad), m \in Saves(bad) :
                /\ SavedId(bad, k) = i /\ SavedId(bad, m) = i
                /\ SavedTask(bad, i) = Inserted(rows[m], SavedBorn(bad, k))
            \/ /\ \A k \in News(bad) : SavedId(bad, k) # i
               /\ \E m \in Saves(bad) :
                    /\ SavedId(bad, m) = i
                    /\ task[i].exists /\ SavedTask(bad, i).exists
                    /\ SavedTask(bad, i).title = rows[m].title
                    /\ SavedTask(bad, i).born = task[i].born
                    /\ SavedTask(bad, i).deleted = task[i].deleted
            \/ /\ \A k \in News(bad) : SavedId(bad, k) # i
               /\ (\A m \in Saves(bad) : SavedId(bad, m) # i) \/ ~task[i].exists
               /\ SavedTask(bad, i) = task[i]
<1>1. /\ Saves(bad) \subseteq DOMAIN rows /\ News(bad) \subseteq Saves(bad)
      /\ \A k \in News(bad) : SavedBorn(bad, k) \in Births
  BY SavesIs
<1>2. DOMAIN rows = 1..Len(rows) /\ Len(rows) \in Nat /\ \A k \in DOMAIN rows : rows[k] \in Row
  BY RowsFacts
<1>3. PICK x \in Task : x = task[i]
  BY DEF TypeOK
<1>4. PICK of \in SUBSET (0..Len(rows)) : of = {k \in Saves(bad) : SavedId(bad, k) = i}
  <2>1. Saves(bad) \subseteq 0..Len(rows)
    BY <1>1, <1>2
  <2>2. PICK of : of = {k \in Saves(bad) : SavedId(bad, k) = i}
    OBVIOUS
  <2>3. of \subseteq Saves(bad)
    BY <2>2
  <2> QED BY <2>1, <2>2, <2>3
<1>5. PICK new \in SUBSET (0..Len(rows)) : new = of \cap News(bad)
  BY <1>4
<1>6. SavedTask(bad, i) = IF new # {} THEN Inserted(rows[Max(of)], SavedBorn(bad, Max(new)))
                          ELSE IF of # {} /\ x.exists
                          THEN [x EXCEPT !.title = rows[Max(of)].title]
                          ELSE x
  BY <1>3, <1>4, <1>5 DEF SavedTask
<1>7. of # {} => Max(of) \in of
  BY <1>2, MaxIs
<1>8. new # {} => Max(new) \in new
  BY <1>2, MaxIs
<1>9. CASE new # {}
  <2>1. PICK m \in Saves(bad) : m = Max(of) /\ SavedId(bad, m) = i
    BY <1>4, <1>5, <1>7, <1>9
  <2>2. PICK k \in News(bad) : k = Max(new) /\ SavedId(bad, k) = i
    BY <1>4, <1>5, <1>8, <1>9
  <2>3. SavedTask(bad, i) = Inserted(rows[m], SavedBorn(bad, k))
    BY <1>6, <1>9, <2>1, <2>2
  <2>4. rows[m] \in Row /\ SavedBorn(bad, k) \in Births
    BY <1>1, <1>2
  <2> QED BY <2>1, <2>2, <2>3, <2>4, InsertedIs
<1>10. CASE new = {} /\ of # {} /\ x.exists
  <2>1. PICK m \in Saves(bad) : m = Max(of) /\ SavedId(bad, m) = i
    BY <1>4, <1>7, <1>10
  <2>2. PICK t \in Titles : t = rows[m].title
    BY <1>1, <1>2, RowIs
  <2>3. SavedTask(bad, i) = [x EXCEPT !.title = t]
    BY <1>6, <1>10, <2>1, <2>2
  <2>4. PICK y : y = [x EXCEPT !.title = t]
    OBVIOUS
  <2>5. y \in Task /\ y.exists = x.exists /\ y.title = t /\ y.born = x.born /\ y.deleted = x.deleted
    BY <2>4 DEF Task
  <2>6. \A k \in News(bad) : SavedId(bad, k) # i
    BY <1>1, <1>4, <1>5, <1>10
  <2> QED BY <1>3, <1>10, <2>1, <2>2, <2>3, <2>4, <2>5, <2>6
<1>11. CASE new = {} /\ (of = {} \/ ~x.exists)
  <2>1. SavedTask(bad, i) = x
    BY <1>6, <1>11
  <2>2. \A k \in News(bad) : SavedId(bad, k) # i
    BY <1>1, <1>4, <1>5, <1>11
  <2> QED BY <1>3, <1>4, <1>11, <2>1, <2>2
<1> QED BY <1>9, <1>10, <1>11

\* The rows after a loop that ended, or was ended.
LEMMA CleanedIs ==
  ASSUME TypeOK, NEW bad \in 0..Len(rows), births + Cardinality(News(bad)) <= MaxBirths,
         NEW mute, NEW end
  PROVE  /\ Cleaned(bad, mute, end) \in Seq(Row) /\ DOMAIN Cleaned(bad, mute, end) = DOMAIN rows
         /\ Len(Cleaned(bad, mute, end)) = Len(rows)
         /\ \A k \in DOMAIN rows :
              LET new == Cleaned(bad, mute, end)[k] IN
              /\ new.id = rows[k].id /\ new.title = rows[k].title
              /\ new.deleted = rows[k].deleted /\ new.early = rows[k].early
              /\ new.born = SavedBorn(bad, k)
              /\ new.dirty => rows[k].dirty
              /\ rows[k].lost => new.lost
              /\ (rows[k].dirty /\ k \notin Saves(bad) /\ (~new.dirty \/ end = "quit")) => new.lost
<1>1. DOMAIN rows = 1..Len(rows) /\ Len(rows) \in Nat
      /\ \A k \in DOMAIN rows : rows[k] \in Row /\ SavedBorn(bad, k) \in Births
  BY RowsFacts, SavesIs
<1>2. PICK new : new = Cleaned(bad, mute, end)
  OBVIOUS
<1>3. DOMAIN new = DOMAIN rows
  BY <1>2 DEF Cleaned
<1>4. ASSUME NEW k \in DOMAIN rows
      PROVE  /\ new[k] \in Row
             /\ new[k].id = rows[k].id /\ new[k].title = rows[k].title
             /\ new[k].deleted = rows[k].deleted /\ new[k].early = rows[k].early
             /\ new[k].born = SavedBorn(bad, k)
             /\ new[k].dirty => rows[k].dirty
             /\ rows[k].lost => new[k].lost
             /\ (rows[k].dirty /\ k \notin Saves(bad) /\ (~new[k].dirty \/ end = "quit"))
                => new[k].lost
  <2>1. PICK x \in Row : x = rows[k]
    BY <1>1
  <2>2. PICK b \in Births : b = SavedBorn(bad, k)
    BY <1>1
  <2>3. PICK dirty \in BOOLEAN : dirty = (rows[k].dirty /\ k \notin Cleans(bad, mute))
    OBVIOUS
  <2>4. PICK lost \in BOOLEAN :
          lost = (rows[k].lost \/ (rows[k].dirty /\ k \notin Saves(bad) /\ (~dirty \/ end = "quit")))
    OBVIOUS
  <2>5. new[k] = [x EXCEPT !.born = b, !.dirty = dirty, !.lost = lost]
    BY <1>2, <2>1, <2>2, <2>3, <2>4 DEF Cleaned
  <2>6. PICK y : y = [x EXCEPT !.born = b, !.dirty = dirty, !.lost = lost]
    OBVIOUS
  <2>7. /\ y \in Row /\ y.id = x.id /\ y.title = x.title /\ y.deleted = x.deleted
        /\ y.early = x.early /\ y.born = b /\ y.dirty = dirty /\ y.lost = lost
    BY <2>6 DEF Row
  <2> QED BY <2>1, <2>2, <2>3, <2>4, <2>5, <2>6, <2>7
<1>5. new \in [1..Len(rows) -> Row]
  <2>1. new = [k \in 1..Len(rows) |-> new[k]]
    BY <1>1, <1>2 DEF Cleaned
  <2> QED BY <1>1, <1>4, <2>1
<1>6. new \in Seq(Row)
  BY <1>1, <1>5, SeqDef
<1>7. Len(new) = Len(rows)
  BY <1>1, <1>5, <1>6, LenProperties
<1> QED BY <1>2, <1>3, <1>4, <1>6, <1>7

LEMMA UpdateTypes ==
  ASSUME TypeInv, run = "yes", NEW end \in {"yes", "quit"}, UpdateRows(end),
         mode' \in Modes, UNCHANGED <<fr, view, found, stale, lastMode, edits>>
  PROVE  TypeInv'
<1>1. TypeOK /\ births \in Births /\ faults \in 0..MaxFaults
  BY DEF TypeInv, TypeOK
<1>0. PICK bad \in 0..Len(rows) : \E m \in News(bad) \cup {0} :
        /\ faults' \in {faults, faults + 1} /\ faults' <= MaxFaults
        /\ births + Cardinality(News(bad)) <= MaxBirths
        /\ \A k \in Saves(bad) : SavedId(bad, k) \in Ids
        /\ task' = [i \in Ids |-> SavedTask(bad, i)]
        /\ births' = births + Cardinality(News(bad))
        /\ \/ rows' = Cleaned(bad, m, end) /\ run' = end
           \/ run' = "crash" /\ UNCHANGED rows
  BY DEF UpdateRows
<1>2. PICK mute \in News(bad) \cup {0} :
        /\ faults' \in {faults, faults + 1} /\ faults' <= MaxFaults
        /\ births + Cardinality(News(bad)) <= MaxBirths
        /\ \A k \in Saves(bad) : SavedId(bad, k) \in Ids
        /\ task' = [i \in Ids |-> SavedTask(bad, i)]
        /\ births' = births + Cardinality(News(bad))
        /\ \/ rows' = Cleaned(bad, mute, end) /\ run' = end
           \/ run' = "crash" /\ UNCHANGED rows
  BY <1>0
<1>3. births' \in Births /\ task' \in [Ids -> Task]
  BY <1>1, <1>2, SavesIs, SavedTaskIs
<1>4. rows' \in Seq(Row) /\ Len(rows') = Len(rows)
  BY <1>1, <1>2, CleanedIs DEF TypeOK
<1>5. TypeOK'
  BY <1>1, <1>2, <1>3, <1>4 DEF TypeOK
<1>6. OnScreen'
  BY <1>4 DEF TypeInv, OnScreen
<1> QED BY <1>5, <1>6 DEF TypeInv

LEMMA SyncTypes == ASSUME TypeInv, Sync PROVE TypeInv'
<1>1. TypeOK /\ task \in [Ids -> Task] /\ births \in Births /\ edits \in 0..MaxEdits
  BY DEF TypeInv, TypeOK
<1>2. NoTask \in Task
  BY DEF NoTask, Task
<1>3. PICK kept \in [Ids -> Task] : kept = Kept
  BY <1>1, <1>2 DEF Kept
<1>4. /\ task' \in [Ids -> Task] /\ births' \in Births /\ edits' \in 0..MaxEdits
  <2>1. CASE task' = Kept /\ UNCHANGED <<births, edits>>
    BY <1>1, <1>3, <2>1
  <2>2. CASE /\ Edit /\ UNCHANGED births
             /\ \E i \in ExistIn(Kept) : task' = [Kept EXCEPT ![i].title = edits + 1]
    <3>1. PICK i \in Ids : task' = [kept EXCEPT ![i].title = edits + 1]
      BY <1>3, <2>2 DEF ExistIn
    <3>2. PICK x \in Task : x = kept[i]
      BY <1>3
    <3>3. PICK t \in Titles : t = edits + 1 /\ edits' = t
      BY <1>1, <2>2 DEF Edit
    <3>4. PICK y : y = [x EXCEPT !.title = t]
      OBVIOUS
    <3>5. y \in Task
      BY <3>4 DEF Task
    <3>6. task' = [kept EXCEPT ![i] = y]
      BY <3>1, <3>2, <3>3, <3>4
    <3> QED BY <1>1, <1>3, <2>2, <3>3, <3>5, <3>6
  <2>3. CASE /\ \E i \in ExistIn(Kept) : task' = [Kept EXCEPT ![i] = NoTask]
             /\ UNCHANGED <<births, edits>>
    BY <1>1, <1>2, <1>3, <2>3 DEF ExistIn
  <2>4. CASE /\ NextId(Kept) \in Ids /\ births < MaxBirths /\ births' = births + 1
             /\ task' = [Kept EXCEPT ![NextId(Kept)] = Inserted(NewRow, births + 1)]
             /\ UNCHANGED edits
    <3>1. PICK b \in Births : b = births + 1
      BY <1>1, <2>4
    <3>2. Inserted(NewRow, b) \in Task
      BY NewRowIs, InsertedIs
    <3> QED BY <1>1, <1>3, <2>4, <3>1, <3>2
  <2> QED BY <2>1, <2>2, <2>3, <2>4 DEF Sync
<1>5. /\ UNCHANGED <<rows, fr, view, found, lastMode, run>> /\ stale' = TRUE
      /\ mode' = "FILE" /\ faults' \in 0..MaxFaults
  BY <1>1, SMTT(30) DEF Sync, TypeOK
<1> QED BY <1>1, <1>4, <1>5 DEF TypeInv, TypeOK, OnScreen, Modes

\* The actions that read the rows again, with a task more if a copy was made.
LEMMA CopyTask ==
  ASSUME TypeOK, Copy
  PROVE  /\ births + 1 \in Births /\ births' = births + 1
         /\ NextId(task) \in Ids /\ edits' \in 0..MaxEdits
         /\ \E row \in Row : task' = [task EXCEPT ![NextId(task)] = Inserted(row, births + 1)]
         /\ task' \in [Ids -> Task]
<1>1. births + 1 \in Births /\ births' = births + 1 /\ NextId(task) \in Ids
      /\ task \in [Ids -> Task]
  BY DEF Copy, TypeOK
<1>2. PICK x \in Row : x = At
  BY RowsFacts DEF Copy
<1>3. PICK t \in Titles : t = edits + 1 /\ edits' \in 0..MaxEdits
  BY SMTT(30) DEF Copy, Edit, TypeOK
<1>4. PICK row : row = [x EXCEPT !.title = t]
  OBVIOUS
<1>5. row \in Row
  BY <1>4 DEF Row
<1>6. task' = [task EXCEPT ![NextId(task)] = Inserted(row, births + 1)]
  BY <1>2, <1>3, <1>4 DEF Copy
<1>7. Inserted(row, births + 1) \in Task
  BY <1>1, <1>5, InsertedIs
<1> QED BY <1>1, <1>3, <1>5, <1>6, <1>7

Reading == \/ ReturnClean \/ NextContainer \/ Open \/ Recent \/ Reorder \/ Find \/ Copy
           \/ LeaveKeywords \/ (Refresh /\ view = "TASK")

LEMMA ReadingTypes ==
  ASSUME TypeInv, Reading
  PROVE  /\ TypeInv' /\ Listed(task') /\ (view' = view \/ view' = "TASK")
         /\ UNCHANGED run
<1>1. TypeOK
  BY DEF TypeInv
<1>2. /\ task \in [Ids -> Task] /\ births \in Births /\ mode \in Modes /\ lastMode \in Modes
      /\ view \in {"TASK", "KEYWORD"} /\ found \in BOOLEAN
      /\ edits \in 0..MaxEdits /\ faults \in 0..MaxFaults
  BY <1>1 DEF TypeOK
<1>3. "NORMAL" \in Modes /\ "NO_ROWS" \in Modes /\ "FIND" \in Modes
  BY DEF Modes
<1>4. CASE ReturnClean \/ NextContainer \/ Recent \/ Reorder
  <2>1. /\ UNCHANGED <<tables, lastMode, run, edits>> /\ found' \in BOOLEAN
        /\ \E m \in Modes : GetItems(task, m)
    BY <1>2, <1>3, <1>4 DEF ReturnClean, NextContainer, Recent, Reorder
  <2>2. /\ Listed(task) /\ mode' \in Modes /\ faults' \in 0..MaxFaults
        /\ view' \in {"TASK", view} /\ stale' \in BOOLEAN
    BY <1>1, <1>2, <2>1, GetItemsLists
  <2> QED BY <1>2, <2>1, <2>2, ListedTypes DEF tables, bounds
<1>5. CASE Open \/ Find \/ LeaveKeywords \/ (Refresh /\ view = "TASK")
  <2>1. /\ UNCHANGED <<tables, lastMode, run, bounds>>
        /\ found' \in BOOLEAN /\ mode' \in Modes /\ view' \in {"TASK", view}
        /\ \E ids \in Results(task) : Show(task, ids)
    BY <1>2, <1>3, <1>5 DEF Open, Find, LeaveKeywords, Refresh, Asked, Lists
  <2>2. PICK ids \in Results(task) : Show(task, ids)
    BY <2>1
  <2>3. Listed(task) /\ stale' = FALSE
    BY <1>2, <2>2, ShowLists DEF Show
  <2> QED BY <1>2, <2>1, <2>3, ListedTypes DEF tables, bounds
<1>6. CASE Copy
  <2>1. /\ UNCHANGED <<found, lastMode, run>> /\ GetItems(task', mode)
    BY <1>6 DEF Copy
  <2>2. task' \in [Ids -> Task] /\ births' \in Births /\ edits' \in 0..MaxEdits
    BY <1>1, <1>6, CopyTask
  <2>3. PICK tasks \in [Ids -> Task] : tasks = task'
    BY <2>2
  <2>4. /\ Listed(tasks) /\ mode' \in Modes /\ faults' \in 0..MaxFaults
        /\ view' \in {"TASK", view} /\ stale' \in BOOLEAN
    BY <1>1, <1>2, <2>1, <2>3, GetItemsLists
  <2>5. TypeInv'
    BY <1>2, <2>1, <2>2, <2>4, ListedTypes
  <2>6. Listed(task')
    BY <2>3, <2>4
  <2> QED BY <2>1, <2>4, <2>5, <2>6
<1> QED BY <1>4, <1>5, <1>6 DEF Reading

Moving == \/ NoRow \/ NoName \/ Insert \/ Escape \/ Colon \/ Quit \/ Leave \/ Help \/ Other
          \/ \E n \in 0..MaxTasks : Move(n) \/ GoTo(n + 1)

LEMMA MovingTypes ==
  ASSUME TypeInv, Moving
  PROVE  TypeInv' /\ UNCHANGED <<tables, rows, view, found, stale, bounds>>
<1>1. /\ mode \in Modes /\ lastMode \in Modes /\ fr \in Nat
      /\ run \in {"yes", "quit", "left", "crash"}
      /\ Len(rows) \in Nat
  BY RowsFacts DEF TypeInv, TypeOK
<1>2. OnScreen
  BY DEF TypeInv
<1>3. CASE NoRow \/ NoName \/ Insert \/ Help \/ Leave \/ Other
  <2>1. /\ UNCHANGED <<tables, rows, fr, view, found, stale, bounds>> /\ run = "yes"
        /\ mode' \in Modes /\ lastMode' \in Modes /\ run' \in {"yes", "left", "crash"}
    BY <1>1, <1>3
       DEF NoRow, NoName, Crash, Insert, Help, Leave, Other, Command, Normal, In, Modes, modes, list
  <2> QED BY <1>1, <1>2, <2>1, SameTypes DEF OnScreen
<1>4. CASE Escape \/ Colon \/ Quit
  <2>1. /\ UNCHANGED <<tables, rows, fr, view, found, stale, bounds>> /\ run = "yes"
        /\ mode' \in Modes /\ lastMode' \in Modes /\ run' \in {"yes", "quit"}
    BY <1>1, <1>4 DEF Escape, Colon, Quit, Command, In, Modes, modes, list
  <2> QED BY <1>1, <1>2, <2>1, SameTypes DEF OnScreen
<1>5. CASE \E n \in 0..MaxTasks : Move(n)
  <2>1. /\ UNCHANGED <<tables, rows, view, found, stale, modes, run, bounds>>
        /\ fr' \in 0..(Len(rows) - 1)
    BY <1>5 DEF Move
  <2> QED BY <1>1, <2>1, SameTypes DEF modes
<1>6. CASE \E n \in 0..MaxTasks : GoTo(n + 1)
  <2>1. PICK n \in 0..MaxTasks : GoTo(n + 1)
    BY <1>6
  <2>2. PICK m \in Nat : m = n + 1
    OBVIOUS
  <2>3. /\ UNCHANGED <<tables, rows, view, found, stale, bounds>> /\ run = "yes"
        /\ fr' = m - 1 /\ mode' = "NORMAL" /\ UNCHANGED lastMode
        /\ run' = IF m <= Len(rows) THEN run ELSE "crash"
    BY <2>1, <2>2 DEF GoTo, Normal, In, Back
  <2> QED BY <1>1, <2>2, <2>3, SameTypes DEF Modes
<1> QED BY <1>3, <1>4, <1>5, <1>6 DEF Moving

LEMMA WritingIs ==
  ASSUME Write \/ WriteAndQuit
  PROVE  /\ run = "yes" /\ UNCHANGED <<fr, view, found, stale, lastMode, edits>>
         /\ mode' \in {mode, lastMode}
         /\ \/ view = "TASK" /\ \E end \in {"yes", "quit"} : UpdateRows(end)
            \/ UNCHANGED <<tables, rows, faults>> /\ run' \in {"yes", "left"}
BY DEF Write, WriteAndQuit, Command, In, modes

LEMMA WritingTypes == ASSUME TypeInv, Write \/ WriteAndQuit PROVE TypeInv'
<1>1. mode \in Modes /\ lastMode \in Modes /\ fr \in Nat /\ OnScreen
  BY DEF TypeInv, TypeOK
<1>2. CASE \E end \in {"yes", "quit"} : UpdateRows(end)
  BY <1>1, <1>2, WritingIs, UpdateTypes
<1>3. CASE UNCHANGED <<tables, rows, faults>> /\ run' \in {"yes", "left"}
  BY <1>1, <1>3, WritingIs, SameTypes DEF bounds, OnScreen
<1> QED BY <1>2, <1>3, WritingIs

ToKeywords == Keywords \/ ChooseKeyword \/ (Refresh /\ view = "KEYWORD")

LEMMA ToKeywordsTypes == ASSUME TypeInv, ToKeywords PROVE TypeInv' /\ ShowKeywords
<1>1. mode \in Modes /\ lastMode \in Modes
  BY DEF TypeInv, TypeOK
<1>2. /\ ShowKeywords /\ UNCHANGED <<tables, found, lastMode, run, bounds>>
      /\ mode' \in Modes
  BY <1>1 DEF ToKeywords, Keywords, ChooseKeyword, Refresh, Modes
<1> QED BY <1>2, KeywordsTypes

Editing == Type \/ DeleteWord \/ \E next \in {"NORMAL", "INSERT"} : Change(next)

LEMMA NextKinds ==
  ASSUME TypeOK, Next
  PROVE  \/ Moving \/ Reading \/ ToKeywords \/ Editing \/ ReturnDirty \/ Delete
         \/ New \/ FirstInsert \/ Write \/ WriteAndQuit \/ Sync
<1>1. Refresh => view = "TASK" \/ view = "KEYWORD"
  BY DEF Refresh
<1>2. CASE Keys
  BY <1>2 DEF Keys, Moving, Reading, Editing
<1>3. CASE Commands
  BY <1>1, <1>3 DEF Commands, Moving, Reading, ToKeywords
<1> QED BY <1>2, <1>3 DEF Next

LEMMA NextTypes == ASSUME TypeInv, [Next]_vars PROVE TypeInv'
<1>1. CASE Next
  BY <1>1, NextKinds, MovingTypes, ReadingTypes, ToKeywordsTypes, EditTypes, ReturnDirtyTypes,
     DeleteTypes, NewTypes, WritingTypes, SyncTypes DEF TypeInv, Editing
<1>2. CASE UNCHANGED vars
  BY <1>2, SameTypes DEF vars, list, modes, TypeInv, TypeOK, OnScreen
<1> QED BY <1>1, <1>2

LEMMA TypeInit == Init => TypeInv
<1> SUFFICES ASSUME Init PROVE TypeInv
  OBVIOUS
<1>1. task \in [Ids -> Task] /\ births \in Births
  <2>1. ASSUME NEW i \in Ids, i <= Stored
        PROVE  [NoTask EXCEPT !.exists = TRUE, !.born = i] \in Task
    <3>0. NoTask \in Task
      BY DEF NoTask, Task
    <3>1. PICK x \in Task : x = NoTask
      BY <3>0
    <3>2. i \in Births
      BY <2>1
    <3>3. [x EXCEPT !.exists = TRUE, !.born = i] \in Task
      BY <3>2 DEF Task
    <3> QED BY <3>1, <3>3
  <2>2. NoTask \in Task
    BY DEF NoTask, Task
  <2>3. task = [i \in Ids |-> IF i > Stored THEN NoTask
                             ELSE [NoTask EXCEPT !.exists = TRUE, !.born = i]]
        /\ births = Stored
    BY DEF Init
  <2>4. \A i \in Ids : i > Stored \/ i <= Stored
    OBVIOUS
  <2>5. \A i \in Ids : task[i] \in Task
    <3> SUFFICES ASSUME NEW i \in Ids PROVE task[i] \in Task
      OBVIOUS
    <3>1. CASE i > Stored
      BY <2>2, <2>3, <3>1
    <3>2. CASE i <= Stored
      <4>1. ~(i > Stored)
        BY <3>2
      <4>2. task[i] = [NoTask EXCEPT !.exists = TRUE, !.born = i]
        BY <2>3, <4>1
      <4> QED BY <2>1, <3>2, <4>2
    <3> QED BY <2>4, <3>1, <3>2
  <2>6. task = [i \in Ids |-> task[i]]
    BY <2>3
  <2>7. births = Stored
    BY <2>3
  <2>8. births \in Births
    BY <2>7
  <2> QED BY <2>5, <2>6, <2>8
<1>2. PICK ids \in Results(task) :
        /\ rows = [k \in DOMAIN ids |-> RowOf(task, ids[k])]
        /\ mode = IF ids = <<>> THEN "NO_ROWS" ELSE "NORMAL"
  BY DEF Init, Lists
<1>3. rows \in Seq(Row)
  <2>1. PICK n \in Nat : DOMAIN ids = 1..n
    BY ResultIs
  <2>2. \A k \in 1..n : ids[k] \in Ids
    BY <2>1, ResultIs DEF ExistIn
  <2>3. rows \in [1..n -> Row]
    BY <1>1, <1>2, <2>1, <2>2, TaskIs
  <2> QED BY <2>3, SeqDef
<1>4. /\ fr = 0 /\ lastMode = "NORMAL" /\ view = "TASK" /\ found = FALSE
      /\ run = "yes" /\ stale = FALSE /\ edits = 0 /\ faults = 0
      /\ mode \in {"NO_ROWS", "NORMAL"}
  BY <1>2 DEF Init
<1>5. OnScreen
  BY <1>4 DEF OnScreen
<1>6. TypeOK
  <2>1. /\ fr \in Nat /\ edits \in 0..MaxEdits /\ faults \in 0..MaxFaults
    BY <1>4
  <2>2. /\ mode \in Modes /\ lastMode \in Modes /\ view \in {"TASK", "KEYWORD"}
        /\ run \in {"yes", "quit", "left", "crash"} /\ found \in BOOLEAN /\ stale \in BOOLEAN
    BY <1>4 DEF Modes
  <2> QED BY <1>1, <1>3, <2>1, <2>2 DEF TypeOK
<1> QED BY <1>5, <1>6 DEF TypeInv

LEMMA TypesKept == Spec => []TypeInv
BY TypeInit, NextTypes, PTL DEF Spec

\* Every variable keeps its kind of value, and sqlite's ids and the births theirs.
THEOREM TypeCorrect == Spec => []TypeOK
<1>1. TypeInv => TypeOK
  BY DEF TypeInv
<1> QED BY <1>1, TypesKept, PTL

\* The cursor is on a row whenever there are rows and the program goes on.
THEOREM CursorCorrect == Spec => []CursorInList
<1>1. TypeInv => CursorInList
  BY RowsFacts, EmptySeq DEF TypeInv, TypeOK, OnScreen, CursorInList
<1> QED BY <1>1, TypesKept, PTL

-----------------------------------------------------------------------------
(* The list that becomes empty *)

Unsaid == RowWanted /\ ~InRange

\* The rows stay as many, or are not wanted.
LEMMA RowsStay ==
  ASSUME TypeOK, InRange,
         \/ UNCHANGED rows \/ Len(rows') = Len(rows),
         UNCHANGED fr
  PROVE  ~Unsaid'
BY DEF Unsaid, InRange

LEMMA ReplacedLen ==
  ASSUME TypeOK, InRange, NEW row
  PROVE  Len(Replaced(row)) = Len(rows)
<1>1. DOMAIN Replaced(row) = DOMAIN rows /\ DOMAIN rows = 1..Len(rows) /\ Len(rows) \in Nat
  BY RowsFacts DEF Replaced
<1>2. PICK r, S : r = Replaced(row) /\ S = {r[k] : k \in 1..Len(rows)}
  OBVIOUS
<1>3. r \in [1..Len(rows) -> S]
  <2>1. r = [k \in 1..Len(rows) |-> r[k]]
    BY <1>1, <1>2 DEF Replaced
  <2> QED BY <1>2, <2>1
<1>4. r \in Seq(S)
  BY <1>1, <1>3, SeqDef
<1> QED BY <1>1, <1>2, <1>4, LenProperties

LEMMA UpdateLen ==
  ASSUME TypeOK, NEW end, UpdateRows(end)
  PROVE  UNCHANGED rows \/ Len(rows') = Len(rows)
<1>1. PICK bad \in 0..Len(rows) : \E m \in News(bad) \cup {0} :
        /\ births + Cardinality(News(bad)) <= MaxBirths
        /\ rows' = Cleaned(bad, m, end) \/ UNCHANGED rows
  BY DEF UpdateRows
<1> QED BY <1>1, CleanedIs

\* A query that finds nothing says so.
LEMMA GetItemsSays ==
  ASSUME NEW tasks \in [Ids -> Task], NEW m, GetItems(tasks, m), ~found', UNCHANGED faults,
         TypeOK
  PROVE  ~Unsaid'
<1>1. PICK ids \in Results(tasks) : Show(tasks, ids) /\ mode' = ModeFor(ids)
  <2>1. faults \in Nat
    BY DEF TypeOK
  <2> QED BY <2>1 DEF GetItems
<1>2. PICK n \in Nat : DOMAIN ids = 1..n
  BY ResultIs
<1>3. CASE ids = <<>>
  BY <1>1, <1>3 DEF ModeFor, Unsaid, RowWanted
<1>4. CASE ids # <<>>
  <2>1. n # 0
    <3>1. ids \in [1..n -> ExistIn(tasks)]
      <4>1. PICK k \in 0..MaxTasks : ids \in [1..k -> ExistIn(tasks)]
        BY DEF Results, SeqOf
      <4> QED BY <1>2, <4>1
    <3> SUFFICES ASSUME n = 0 PROVE FALSE
      OBVIOUS
    <3>2. ids = <<>>
      <4>1. ids \in Seq(ExistIn(tasks))
        BY <3>1, SeqDef
      <4>2. Len(ids) = 0
        BY <1>2, <4>1, LenProperties
      <4> QED BY <4>1, <4>2, EmptySeq
    <3> QED BY <1>4, <3>2
  <2>2. rows' = [k \in 1..n |-> RowOf(tasks, ids[k])] /\ fr' = 0
    BY <1>1, <1>2 DEF Show, FirstRow
  <2>3. rows' \in Seq({RowOf(tasks, ids[k]) : k \in 1..n})
    BY <2>2, SeqDef
  <2>4. Len(rows') = n
    BY <2>2, <2>3, LenProperties
  <2> QED BY <2>1, <2>2, <2>4 DEF Unsaid, InRange
<1> QED BY <1>3, <1>4

\* The list of keywords has a row, or says that it has none.
LEMMA KeywordsSay ==
  ASSUME ShowKeywords, mode' = "NO_ROWS" \/ KeywordRows # 0
  PROVE  ~Unsaid'
<1>1. CASE mode' = "NO_ROWS"
  BY <1>1 DEF Unsaid, RowWanted
<1>2. CASE KeywordRows # 0
  <2>1. rows' = [k \in 1..KeywordRows |-> KeywordRow(k)] /\ fr' = 0 /\ KeywordRows \in Nat
    BY DEF ShowKeywords, FirstRow
  <2>2. rows' \in Seq({KeywordRow(k) : k \in 1..KeywordRows})
    BY <2>1, SeqDef
  <2>3. Len(rows') = KeywordRows
    BY <2>1, <2>2, LenProperties
  <2> QED BY <1>2, <2>1, <2>3 DEF Unsaid, InRange
<1> QED BY <1>1, <1>2

LEMMA MovingSays ==
  ASSUME TypeInv, Moving
  PROVE  ~Unsaid' \/ (~InRange /\ mode # "NO_ROWS")
<1> SUFFICES ASSUME InRange \/ mode = "NO_ROWS" PROVE ~Unsaid'
  OBVIOUS
<1>1. UNCHANGED rows /\ Len(rows) \in Nat /\ fr \in Nat /\ mode \in Modes
  BY MovingTypes, RowsFacts DEF TypeInv, TypeOK
<1>2. CASE NoRow \/ NoName \/ Leave
  BY <1>2 DEF NoRow, NoName, Crash, Leave, Unsaid, RowWanted
<1>3. CASE Insert \/ Colon
  BY <1>3 DEF Insert, Colon, Unsaid, RowWanted
<1>4. CASE Escape \/ Quit \/ Help \/ Other
  <2>1. mode # "NO_ROWS" /\ UNCHANGED fr
    BY <1>4 DEF Escape, Quit, Help, Other, Command, In, list
  <2> QED BY <1>1, <2>1, RowsStay DEF TypeInv
<1>5. CASE \E n \in 0..MaxTasks : Move(n)
  <2>1. fr' \in 0..(Len(rows) - 1)
    BY <1>5 DEF Move
  <2> QED BY <1>1, <2>1 DEF Unsaid, InRange
<1>6. CASE \E n \in 0..MaxTasks : GoTo(n + 1)
  <2>1. PICK n \in 0..MaxTasks : GoTo(n + 1)
    BY <1>6
  <2>2. PICK m \in Nat : m = n + 1
    OBVIOUS
  <2>3. fr' = m - 1 /\ (m <= Len(rows) \/ run' = "crash")
    BY <2>1, <2>2 DEF GoTo
  <2> QED BY <1>1, <2>2, <2>3 DEF Unsaid, InRange, RowWanted
<1> QED BY <1>2, <1>3, <1>4, <1>5, <1>6 DEF Moving

LEMMA NextSays ==
  ASSUME TypeInv, Next
  PROVE  \/ ~Unsaid'
         \/ ~InRange /\ mode # "NO_ROWS"
         \/ Open \/ Refresh \/ LeaveKeywords \/ found' \/ faults' # faults
<1> SUFFICES ASSUME InRange \/ mode = "NO_ROWS",
                    ~Open, ~Refresh, ~LeaveKeywords, ~found', faults' = faults
             PROVE  ~Unsaid'
  OBVIOUS
<1>0. TypeOK /\ task \in [Ids -> Task]
  BY DEF TypeInv, TypeOK
<1>1. CASE ReturnClean \/ NextContainer \/ Recent \/ Reorder
  <2>1. \E m : GetItems(task, m)
    BY <1>1 DEF ReturnClean, NextContainer, Recent, Reorder
  <2> QED BY <1>0, <2>1, GetItemsSays
<1>2. CASE Copy
  <2>1. PICK tasks \in [Ids -> Task] : tasks = task'
    BY <1>0, <1>2, CopyTask
  <2>2. GetItems(tasks, mode)
    BY <1>2, <2>1 DEF Copy
  <2> QED BY <1>0, <2>2, GetItemsSays
<1>3. CASE Keywords \/ ChooseKeyword
  <2>1. ShowKeywords /\ (mode' = "NO_ROWS" \/ KeywordRows # 0)
    BY <1>3 DEF Keywords, ChooseKeyword
  <2> QED BY <2>1, KeywordsSay
<1>4. CASE Find
  BY <1>4 DEF Find
<1>5. CASE New \/ FirstInsert
  BY <1>5 DEF New, FirstInsert, Unsaid, RowWanted
<1>6. CASE Editing \/ ReturnDirty \/ Delete
  <2>1. InRange /\ UNCHANGED fr
    BY <1>6 DEF Editing, Type, DeleteWord, Change, ReturnDirty, Delete
  <2>2. UNCHANGED rows \/ \E row : rows' = Replaced(row)
    BY <1>6 DEF Editing, Type, DeleteWord, Change, ReturnDirty, StoreTitle, Delete
  <2>3. UNCHANGED rows \/ Len(rows') = Len(rows)
    BY <1>0, <2>1, <2>2, ReplacedLen
  <2> QED BY <1>0, <2>1, <2>3, RowsStay
<1>7. CASE Write \/ WriteAndQuit
  <2>1. mode # "NO_ROWS" /\ UNCHANGED fr
    BY <1>7, WritingIs DEF Write, WriteAndQuit, Command, In
  <2>2. UNCHANGED rows \/ Len(rows') = Len(rows)
    <3>1. CASE \E end \in {"yes", "quit"} : UpdateRows(end)
      BY <1>0, <3>1, UpdateLen
    <3>2. CASE UNCHANGED <<tables, rows, faults>>
      BY <3>2
    <3> QED BY <1>7, <3>1, <3>2, WritingIs
  <2> QED BY <1>0, <2>1, <2>2, RowsStay
<1>8. CASE Sync
  BY <1>0, <1>8, RowsStay DEF Sync, Command, In
<1>9. CASE Moving
  BY <1>9, MovingSays
<1>10. CASE Reading
  BY <1>1, <1>2, <1>4, <1>10 DEF Reading
<1>11. CASE ToKeywords
  BY <1>3, <1>11 DEF ToKeywords
<1> QED BY <1>0, <1>5, <1>6, <1>7, <1>8, <1>9, <1>10, <1>11, NextKinds

\* When no row is left, the mode says so, but for the ways that are named.
THEOREM EmptyCorrect == Spec => EmptyIsSaid
<1>1. TypeInv /\ [Next]_vars =>
        [RowWanted' /\ ~InRange' =>
           \/ ~InRange /\ mode # "NO_ROWS"
           \/ Open \/ Refresh \/ LeaveKeywords \/ found' \/ faults' # faults]_vars
  <2> SUFFICES ASSUME TypeInv, Next
               PROVE  RowWanted' /\ ~InRange' =>
                        \/ ~InRange /\ mode # "NO_ROWS"
                        \/ Open \/ Refresh \/ LeaveKeywords \/ found' \/ faults' # faults
    OBVIOUS
  <2> QED BY NextSays DEF Unsaid
<1> QED BY <1>1, TypesKept, PTL DEF Spec, EmptyIsSaid

-----------------------------------------------------------------------------
(* The rows and the tasks *)

\* No two tasks are the same one, and the next one is new.
TasksBorn ==
  \A i \in ExistIn(task) :
    /\ task[i].born \in 1..births
    /\ \A j \in ExistIn(task) : task[i].born = task[j].born => i = j

\* A row has an id in the list of tasks only if it is a task, and was deleted before it
\* had one only as dd says; a row that was stored and is still new is its task's only one.
RowsBorn ==
  \A k \in DOMAIN rows :
    /\ rows[k].born <= births
    /\ rows[k].id = Unsaved /\ rows[k].deleted => rows[k].early
    /\ view = "TASK" /\ rows[k].id # Unsaved => rows[k].born # 0
    /\ \A j \in DOMAIN rows :
         rows[k].id = Unsaved /\ rows[j].born = rows[k].born /\ rows[k].born # 0 => j = k

\* The two parts of RowsAreTasks: the names of rows, and what else holds until a sync.
Named ==
  run = "yes" =>
    \A k \in DOMAIN rows :
      rows[k].id # Unsaved /\ rows[k].born # 0 =>
        \A i \in ExistIn(task) : task[i].born = rows[k].born => i = rows[k].id

Fresh ==
  run = "yes" /\ ~stale =>
    \A k \in DOMAIN rows :
      rows[k].id # Unsaved /\ rows[k].born # 0 =>
        /\ task[rows[k].id].exists /\ task[rows[k].id].born = rows[k].born
        /\ view = "TASK" /\ ~rows[k].early /\ ~Twice(k)
             => task[rows[k].id].deleted = rows[k].deleted

RowInv == TypeInv /\ TasksBorn /\ RowsBorn /\ Named /\ Fresh /\ TitlesKept

\* What some tasks have of a row.
InTasks(tasks, row) ==
  \E i \in ExistIn(tasks) : tasks[i].born = row.born /\ tasks[i].title = row.title

LEMMA RowFacts ==
  ASSUME TypeInv
  PROVE  /\ task \in [Ids -> Task] /\ births \in Nat
         /\ Len(rows) \in Nat /\ DOMAIN rows = 1..Len(rows)
         /\ \A k \in DOMAIN rows : rows[k] \in Row /\ rows[k].born \in Nat
         /\ InRange => fr + 1 \in DOMAIN rows /\ At \in Row /\ At = rows[fr + 1]
<1>1. TypeOK
  BY DEF TypeInv
<1> QED BY <1>1, RowsFacts, RowIs DEF TypeOK, At

\* The tasks that were there, and perhaps one more.
LEMMA BornKept ==
  ASSUME TasksBorn, births \in Nat, births' \in Nat, births' >= births,
         \A i \in ExistIn(task') : i \in ExistIn(task) /\ task'[i].born = task[i].born
  PROVE  TasksBorn'
<1> SUFFICES ASSUME NEW i \in ExistIn(task')
             PROVE  /\ task'[i].born \in 1..births'
                    /\ \A j \in ExistIn(task') : task'[i].born = task'[j].born => i = j
  BY DEF TasksBorn
<1> QED BY DEF TasksBorn

LEMMA BornNew ==
  ASSUME TasksBorn, births \in Nat, births' = births + 1, NEW n, task'[n].born = births + 1,
         \A i \in ExistIn(task') \ {n} : i \in ExistIn(task) /\ task'[i].born = task[i].born
  PROVE  TasksBorn'
<1> SUFFICES ASSUME NEW i \in ExistIn(task')
             PROVE  /\ task'[i].born \in 1..births'
                    /\ \A j \in ExistIn(task') : task'[i].born = task'[j].born => i = j
  BY DEF TasksBorn
<1>1. \A j \in ExistIn(task') \ {n} : task'[j].born \in 1..births
  BY DEF TasksBorn
<1>2. task'[i].born \in 1..births'
  BY <1>1
<1>3. ASSUME NEW j \in ExistIn(task'), task'[i].born = task'[j].born PROVE i = j
  <2>1. CASE i = n \/ j = n
    BY <1>1, <1>3, <2>1
  <2>2. CASE i # n /\ j # n
    BY <1>3, <2>2 DEF TasksBorn
  <2> QED BY <2>1, <2>2
<1> QED BY <1>2, <1>3

\* The rows that stay have their names, and the rows of a task that has several.
LEMMA StillNamed ==
  ASSUME RowInv, run = "yes",
         \A i \in ExistIn(task') : \/ i \in ExistIn(task) /\ task'[i].born = task[i].born
                                   \/ task'[i].born \in Nat /\ task'[i].born > births,
         NEW k \in DOMAIN rows, rows[k].id # Unsaved, rows[k].born # 0,
         NEW i \in ExistIn(task'), task'[i].born = rows[k].born
  PROVE  i = rows[k].id
<1>1. rows[k].born \in Nat /\ rows[k].born <= births /\ births \in Nat
  BY RowFacts DEF RowInv, RowsBorn
<1>2. i \in ExistIn(task) /\ task[i].born = rows[k].born
  BY <1>1
<1> QED BY <1>2 DEF RowInv, Named

LEMMA SameRows ==
  ASSUME RowInv, TypeInv', run = "yes", UNCHANGED <<tables, rows, view, stale>>,
         \/ run' \in {"yes", "left", "crash"}
         \/ \A k \in DOMAIN rows : ~rows[k].dirty
  PROVE  RowInv'
<1>1. TasksBorn'
  BY DEF RowInv, TasksBorn, tables, ExistIn
<1>2. RowsBorn'
  BY DEF RowInv, RowsBorn, tables
<1>3. Named' /\ Fresh'
  BY DEF RowInv, Named, Fresh, tables, ExistIn, Twice
<1>4. TitlesKept'
  <2> SUFFICES ASSUME run' \in {"yes", "quit"}, ~stale, NEW k \in DOMAIN rows
               PROVE  \/ ~IsTask(rows[k]) \/ rows[k].lost \/ Twice(k)
                      \/ run' = "yes" /\ rows[k].dirty
                      \/ InTasks(task, rows[k])
    BY DEF TitlesKept, InDatabase, InTasks, tables, IsTask, Twice
  <2> QED BY DEF RowInv, TitlesKept, InDatabase, InTasks
<1> QED BY <1>1, <1>2, <1>3, <1>4 DEF RowInv

\* The rows are read again.
LEMMA ListedRows ==
  ASSUME TypeInv', Listed(task'), TasksBorn'
  PROVE  RowInv'
<1>1. PICK r \in Seq(Row), tasks \in [Ids -> Task] : r = rows' /\ tasks = task'
  BY DEF TypeInv, TypeOK
<1>2. \A k \in DOMAIN r : r[k].id \in ExistIn(tasks) /\ r[k] = RowOf(tasks, r[k].id)
  BY <1>1 DEF Listed
<1>3. \A k \in DOMAIN r :
        /\ r[k].title = tasks[r[k].id].title /\ r[k].dirty = FALSE
        /\ r[k].deleted = tasks[r[k].id].deleted /\ r[k].born = tasks[r[k].id].born
        /\ r[k].early = FALSE /\ r[k].lost = FALSE /\ r[k].id \in Ids /\ r[k].id # Unsaved
  BY <1>2 DEF RowOf, ExistIn
<1>4. /\ \A i \in ExistIn(tasks) : tasks[i].born \in 1..births'
      /\ \A i, j \in ExistIn(tasks) : tasks[i].born = tasks[j].born => i = j
  BY <1>1 DEF TasksBorn
<1>5. births' \in Nat
  BY DEF TypeInv, TypeOK
<1>6. RowsBorn'
  <2>1. \A k \in DOMAIN r :
          r[k].born <= births' /\ r[k].born # 0
    BY <1>2, <1>3, <1>4, <1>5
  <2> QED BY <1>1, <1>3, <2>1 DEF RowsBorn
<1>7. Named'
  BY <1>1, <1>2, <1>3, <1>4 DEF Named
<1>8. Fresh'
  BY <1>1, <1>2, <1>3 DEF Fresh, ExistIn
<1>9. TitlesKept'
  <2>1. \A k \in DOMAIN r : InTasks(tasks, r[k])
    BY <1>2, <1>3 DEF InTasks
  <2> QED BY <1>1, <2>1 DEF TitlesKept, InDatabase, InTasks
<1> QED BY <1>6, <1>7, <1>8, <1>9 DEF RowInv

LEMMA ToKeywordsRows ==
  ASSUME RowInv, TypeInv', ShowKeywords, UNCHANGED tables
  PROVE  RowInv'
<1>1. PICK r \in Seq(Row) : r = rows'
  BY DEF TypeInv, TypeOK
<1>2. /\ r = [k \in 1..KeywordRows |-> KeywordRow(k)] /\ view' = "KEYWORD"
  BY <1>1 DEF ShowKeywords
<1>3. \A k \in DOMAIN r : r[k].born = 0 /\ r[k].id = k /\ k \in Ids
  BY <1>2, KeywordRowIs
<1>4. births \in Nat /\ UNCHANGED <<task, births>>
  BY DEF RowInv, TypeInv, TypeOK, tables
<1>5. TasksBorn'
  BY <1>4 DEF RowInv, TasksBorn, ExistIn
<1>6. RowsBorn'
  BY <1>1, <1>2, <1>3, <1>4 DEF RowsBorn
<1>7. Named'
  BY <1>1, <1>3 DEF Named
<1>8. Fresh'
  BY <1>1, <1>3 DEF Fresh
<1>9. TitlesKept'
  BY <1>1, <1>3 DEF TitlesKept, IsTask
<1> QED BY <1>5, <1>6, <1>7, <1>8, <1>9 DEF RowInv

LEMMA SyncRows == ASSUME RowInv, TypeInv', Sync PROVE RowInv'
<1>0. TasksBorn
  BY DEF RowInv
<1>1. births \in Nat /\ births' \in Nat /\ UNCHANGED <<rows, view>> /\ stale' = TRUE
  BY RowFacts DEF RowInv, Sync, TypeInv, TypeOK
<1>2. \A i \in ExistIn(Kept) : i \in ExistIn(task) /\ Kept[i].born = task[i].born /\ Kept[i].exists
  BY DEF ExistIn, Kept, NoTask
<1>3. PICK kept \in [Ids -> Task] : kept = Kept
  <2>1. Kept \in [Ids -> Task]
    BY RowFacts DEF RowInv, Kept, NoTask, Task
  <2> QED BY <2>1
<1>4. /\ TasksBorn' /\ births' >= births
      /\ \A i \in ExistIn(task') : \/ i \in ExistIn(task) /\ task'[i].born = task[i].born
                                   \/ task'[i].born \in Nat /\ task'[i].born > births
  <2>1. CASE task' = Kept /\ UNCHANGED births
    <3>1. \A j \in ExistIn(task') : j \in ExistIn(task) /\ task'[j].born = task[j].born
      BY <1>2, <2>1
    <3>2. births' = births
      BY <2>1
    <3> QED BY <1>0, <1>1, <3>1, <3>2, BornKept
  <2>2. CASE /\ UNCHANGED births
             /\ \E i \in ExistIn(Kept) : task' = [Kept EXCEPT ![i].title = edits + 1]
    <3>1. PICK i \in ExistIn(Kept) : task' = [Kept EXCEPT ![i].title = edits + 1]
      BY <2>2
    <3>2. PICK x \in Task : x = kept[i] /\ i \in Ids
      BY <1>3, <3>1 DEF ExistIn
    <3>3. PICK t : t = edits + 1
      OBVIOUS
    <3>4. PICK y : y = [x EXCEPT !.title = t]
      OBVIOUS
    <3>5. y.exists = x.exists /\ y.born = x.born
      BY <3>4 DEF Task
    <3>6. task' = [kept EXCEPT ![i] = y]
      BY <1>3, <3>1, <3>2, <3>3, <3>4
    <3>7. \A j \in ExistIn(task') : j \in ExistIn(Kept) /\ task'[j].born = Kept[j].born
      BY <1>3, <3>2, <3>5, <3>6 DEF ExistIn
    <3>8. \A j \in ExistIn(task') : j \in ExistIn(task) /\ task'[j].born = task[j].born
      BY <1>2, <3>7
    <3>9. births' = births
      BY <2>2
    <3> QED BY <1>0, <1>1, <3>8, <3>9, BornKept
  <2>3. CASE /\ \E i \in ExistIn(Kept) : task' = [Kept EXCEPT ![i] = NoTask]
             /\ UNCHANGED births
    <3>1. PICK i \in ExistIn(Kept) : task' = [kept EXCEPT ![i] = NoTask]
      BY <1>3, <2>3
    <3>2. \A j \in ExistIn(task') : j \in ExistIn(Kept) /\ task'[j].born = Kept[j].born
      BY <1>3, <3>1 DEF ExistIn, NoTask
    <3>3. \A j \in ExistIn(task') : j \in ExistIn(task) /\ task'[j].born = task[j].born
      BY <1>2, <3>2
    <3>4. births' = births
      BY <2>3
    <3> QED BY <1>0, <1>1, <3>3, <3>4, BornKept
  <2>4. CASE /\ NextId(Kept) \in Ids /\ births' = births + 1 /\ births < MaxBirths
             /\ task' = [Kept EXCEPT ![NextId(Kept)] = Inserted(NewRow, births + 1)]
    <3>1. PICK n \in Ids : n = NextId(Kept)
      BY <2>4
    <3>2. births + 1 \in Births
      BY <1>1, <2>4
    <3>3. PICK y : y = Inserted(NewRow, births + 1)
      OBVIOUS
    <3>4. y.born = births + 1
      BY <3>3 DEF Inserted
    <3>5. task' = [kept EXCEPT ![n] = y]
      BY <1>3, <2>4, <3>1, <3>3
    <3>6. /\ task'[n].born = births + 1
          /\ \A j \in ExistIn(task') \ {n} : j \in ExistIn(Kept) /\ task'[j].born = Kept[j].born
      BY <1>3, <3>4, <3>5 DEF ExistIn
    <3>7. \A j \in ExistIn(task') \ {n} : j \in ExistIn(task) /\ task'[j].born = task[j].born
      BY <1>2, <3>6
    <3>8. TasksBorn'
      BY <1>0, <1>1, <2>4, <3>6, <3>7, BornNew
    <3>9. births' >= births /\ births + 1 \in Nat /\ births + 1 > births
      BY <1>1, <2>4
    <3>10. \A i \in ExistIn(task') : \/ i \in ExistIn(task) /\ task'[i].born = task[i].born
                                     \/ task'[i].born \in Nat /\ task'[i].born > births
      BY <3>6, <3>7, <3>9
    <3> QED BY <3>8, <3>9, <3>10
  <2> QED BY <2>1, <2>2, <2>3, <2>4 DEF Sync
<1>5. RowsBorn'
  <2>1. \A k \in DOMAIN rows : rows[k].born \in Nat
    BY RowFacts DEF RowInv
  <2> QED BY <1>1, <1>4, <2>1 DEF RowInv, RowsBorn
<1>6. run = "yes" /\ run' = "yes"
  BY DEF Sync, Command, In
<1>7. Named'
  <2>1. ASSUME NEW k \in DOMAIN rows, rows[k].id # Unsaved, rows[k].born # 0,
               NEW i \in ExistIn(task'), task'[i].born = rows[k].born
        PROVE  i = rows[k].id
    BY <1>4, <1>6, <2>1, StillNamed
  <2> QED BY <1>1, <2>1 DEF Named
<1>8. Fresh' /\ TitlesKept'
  BY <1>1 DEF Fresh, TitlesKept
<1> QED BY <1>4, <1>5, <1>7, <1>8 DEF RowInv

-----------------------------------------------------------------------------
(* A row that is changed *)

\* It keeps its id and its task.
LEMMA ChangedBorn ==
  ASSUME RowInv, TypeInv', InRange, UNCHANGED <<births, view, stale>>,
         NEW new \in Row, rows' = Replaced(new), new.id = At.id, new.born = At.born,
         new.id = Unsaved /\ new.deleted => new.early
  PROVE  RowsBorn' /\ \A k \in DOMAIN rows : Twice(k) => Twice(k)'
<1>1. /\ DOMAIN rows' = DOMAIN rows /\ fr + 1 \in DOMAIN rows
      /\ rows'[fr + 1] = new /\ At = rows[fr + 1]
      /\ \A k \in DOMAIN rows : k # fr + 1 => rows'[k] = rows[k]
  BY ReplacedIs, RowFacts DEF RowInv, TypeInv
<1>2. PICK at \in DOMAIN rows : at = fr + 1
  BY <1>1
<1>3. /\ \A k \in DOMAIN rows : rows'[k].id = rows[k].id /\ rows'[k].born = rows[k].born
      /\ \A k \in DOMAIN rows : k # at => rows'[k] = rows[k]
      /\ rows'[at].id = Unsaved /\ rows'[at].deleted => rows'[at].early
  BY <1>1, <1>2
<1>4. RowsBorn'
  <2> SUFFICES ASSUME NEW k \in DOMAIN rows
               PROVE  /\ rows'[k].born <= births
                      /\ rows'[k].id = Unsaved /\ rows'[k].deleted => rows'[k].early
                      /\ view = "TASK" /\ rows'[k].id # Unsaved => rows'[k].born # 0
                      /\ \A j \in DOMAIN rows :
                           rows'[k].id = Unsaved /\ rows'[j].born = rows'[k].born
                             /\ rows'[k].born # 0 => j = k
    BY <1>1 DEF RowsBorn
  <2> QED BY <1>3 DEF RowInv, RowsBorn
<1>5. \A k \in DOMAIN rows : Twice(k) => Twice(k)'
  BY <1>1, <1>3 DEF Twice
<1> QED BY <1>4, <1>5

\* It keeps its flag, and its task keeps its own.
LEMMA ChangedAreTasks ==
  ASSUME RowInv, TypeInv', InRange, UNCHANGED <<view, stale>>, run = "yes",
         NEW new \in Row, rows' = Replaced(new), new.id = At.id, new.born = At.born,
         new.deleted = At.deleted, new.early = At.early,
         \A i \in Ids : /\ task'[i].exists = task[i].exists
                        /\ task'[i].born = task[i].born /\ task'[i].deleted = task[i].deleted
  PROVE  Named' /\ Fresh'
<1>1. /\ DOMAIN rows' = DOMAIN rows /\ fr + 1 \in DOMAIN rows
      /\ rows'[fr + 1] = new /\ At = rows[fr + 1]
      /\ \A k \in DOMAIN rows : k # fr + 1 => rows'[k] = rows[k]
  BY ReplacedIs, RowFacts DEF RowInv, TypeInv
<1>2. \A k \in DOMAIN rows :
        /\ rows'[k].id = rows[k].id /\ rows'[k].born = rows[k].born
        /\ rows'[k].deleted = rows[k].deleted /\ rows'[k].early = rows[k].early
  BY <1>1
<1>3. \A k \in DOMAIN rows : rows[k].id # Unsaved => rows[k].id \in Ids
  BY RowFacts, RowIs DEF RowInv
<1>4. Named'
  BY <1>1, <1>2 DEF RowInv, Named, ExistIn
<1>5. ASSUME ~stale, NEW k \in DOMAIN rows, rows[k].id # Unsaved, rows[k].born # 0
      PROVE  /\ task'[rows[k].id].exists /\ task'[rows[k].id].born = rows[k].born
             /\ view = "TASK" /\ ~rows[k].early /\ ~Twice(k)
                  => task'[rows[k].id].deleted = rows[k].deleted
  BY <1>3, <1>5 DEF RowInv, Fresh
<1>6. \A k \in DOMAIN rows : Twice(k) => Twice(k)'
  BY <1>1, <1>2 DEF Twice
<1>7. Fresh'
  BY <1>1, <1>2, <1>5, <1>6 DEF Fresh
<1> QED BY <1>4, <1>7

\* It is dirty, or stored, or known not to be, and the tasks of the other rows keep
\* their titles.
LEMMA ChangedTitles ==
  ASSUME RowInv, TypeInv', InRange, UNCHANGED stale, run = "yes", run' = "yes",
         NEW new \in Row, rows' = Replaced(new),
         ~stale => \/ ~IsTask(new) \/ new.lost \/ (\E k \in {fr + 1} : Twice(k)')
                   \/ new.dirty \/ InTasks(task', new),
         \A k \in DOMAIN rows : ~stale /\ k # fr + 1 /\ InTasks(task, rows[k])
                                => InTasks(task', rows[k]) \/ Twice(k)',
         \A k \in DOMAIN rows : k # fr + 1 /\ Twice(k) => Twice(k)'
  PROVE  TitlesKept'
<1>1. /\ DOMAIN rows' = DOMAIN rows /\ fr + 1 \in DOMAIN rows
      /\ rows'[fr + 1] = new
      /\ \A k \in DOMAIN rows : k # fr + 1 => rows'[k] = rows[k]
  BY ReplacedIs, RowFacts DEF RowInv, TypeInv
<1> SUFFICES ASSUME ~stale, NEW k \in DOMAIN rows
             PROVE  \/ ~IsTask(rows'[k]) \/ rows'[k].lost \/ Twice(k)' \/ rows'[k].dirty
                    \/ InTasks(task', rows'[k])
  BY <1>1 DEF TitlesKept, InDatabase, InTasks, IsTask
<1>2. CASE k = fr + 1
  BY <1>1, <1>2
<1>3. CASE k # fr + 1
  <2>1. \/ ~IsTask(rows[k]) \/ rows[k].lost \/ Twice(k) \/ rows[k].dirty
        \/ InTasks(task, rows[k])
    BY DEF RowInv, TitlesKept, InDatabase, InTasks
  <2> QED BY <1>1, <1>3, <2>1
<1> QED BY <1>2, <1>3

\* The three of them, when the tasks stay.
LEMMA ChangedRow ==
  ASSUME RowInv, TypeInv', InRange, UNCHANGED <<task, births, view, stale, run>>, run = "yes",
         NEW new \in Row, rows' = Replaced(new), new.id = At.id, new.born = At.born,
         new.deleted = At.deleted, new.early = At.early,
         ~IsTask(new) \/ new.lost \/ new.dirty
  PROVE  RowInv'
<1>1. new.id = Unsaved /\ new.deleted => new.early
  BY RowFacts DEF RowInv, RowsBorn
<1>2. RowsBorn' /\ \A k \in DOMAIN rows : Twice(k) => Twice(k)'
  BY <1>1, ChangedBorn
<1>3. Named' /\ Fresh'
  BY ChangedAreTasks
<1>4. TitlesKept'
  BY <1>2, ChangedTitles
<1>5. TasksBorn'
  BY DEF RowInv, TasksBorn, ExistIn
<1> QED BY <1>2, <1>3, <1>4, <1>5 DEF RowInv

LEMMA EditingRows == ASSUME RowInv, TypeInv', Editing PROVE RowInv'
<1>1. /\ InRange /\ Edit /\ run = "yes" /\ UNCHANGED <<tables, view, stale, run>>
      /\ edits \in 0..MaxEdits
  BY DEF Editing, Type, DeleteWord, Change, In, Normal, RowInv, TypeInv, TypeOK
<1>2. PICK x \in Row : x = At
  BY <1>1, RowFacts DEF RowInv
<1>3. CASE Type \/ \E next \in {"NORMAL", "INSERT"} : Change(next)
  <2>1. rows' = Replaced(Typed(x))
    BY <1>2, <1>3 DEF Type, Change
  <2>2. PICK new \in Row : /\ new = Typed(x) /\ new.dirty = TRUE /\ new.id = x.id
                           /\ new.born = x.born /\ new.deleted = x.deleted
                           /\ new.early = x.early
    BY <1>1, TitledIs
  <2> QED BY <1>1, <1>2, <2>1, <2>2, ChangedRow DEF tables
<1>4. CASE DeleteWord
  <2>1. PICK new : new = [x EXCEPT !.title = edits + 1, !.lost = ~x.dirty]
    OBVIOUS
  <2>2. rows' = Replaced(new)
    BY <1>2, <1>4, <2>1 DEF DeleteWord
  <2>3. /\ new \in Row /\ new.dirty = x.dirty /\ new.id = x.id
        /\ new.born = x.born /\ new.deleted = x.deleted
        /\ new.early = x.early /\ new.lost = ~x.dirty
    BY <1>1, <2>1, WordDeletedIs
  <2>4. new.lost \/ new.dirty
    BY <2>3
  <2> QED BY <1>1, <1>2, <2>2, <2>3, <2>4, ChangedRow DEF tables
<1> QED BY <1>3, <1>4 DEF Editing

LEMMA ReturnDirtyRows == ASSUME RowInv, TypeInv', ReturnDirty PROVE RowInv'
<1>1. InRange /\ TypeOK /\ run = "yes" /\ UNCHANGED <<view, stale, run>> /\ StoreTitle
  BY DEF ReturnDirty, RowInv, TypeInv, In, Normal
<1>2. PICK x \in Row : x = At /\ fr + 1 \in DOMAIN rows /\ x = rows[fr + 1]
  BY <1>1, RowFacts DEF RowInv
<1>3. task \in [Ids -> Task] /\ births \in Nat
  BY RowFacts DEF RowInv
<1>4. CASE UNCHANGED <<task, births, rows, faults>>
  BY <1>1, <1>4, SameRows DEF tables
<1>5. CASE /\ x.id # Unsaved /\ view = "TASK" /\ task' = Update(x.id, x.title)
           /\ rows' = Replaced([x EXCEPT !.dirty = FALSE, !.lost = FALSE])
           /\ UNCHANGED <<births, faults>>
  <2>1. PICK new \in Row :
          /\ rows' = Replaced(new) /\ new.dirty = FALSE /\ new.id = x.id
          /\ new.title = x.title /\ new.born = x.born /\ new.deleted = x.deleted
          /\ new.early = x.early /\ new.lost = FALSE
    BY <1>5, StoredIs
  <2>2. x.id \in Ids /\ x.title \in Titles
    BY <1>5, RowIs
  <2>3. /\ \A j \in Ids : /\ task'[j].exists = task[j].exists
                          /\ task'[j].deleted = task[j].deleted
                          /\ task'[j].born = task[j].born
                          /\ j # x.id => task'[j] = task[j]
        /\ task[x.id].exists => task'[x.id].title = x.title
    BY <1>3, <1>5, <2>2, UpdateIs, SMTT(30)
  <2>4. x.born # 0
    BY <1>2, <1>5 DEF RowInv, RowsBorn
  <2>5. ~stale => task[x.id].exists /\ task[x.id].born = x.born
    BY <1>1, <1>2, <1>5, <2>4 DEF RowInv, Fresh
  <2>6. TasksBorn'
    <3>1. \A i \in ExistIn(task') : i \in ExistIn(task) /\ task'[i].born = task[i].born
      BY <2>3 DEF ExistIn
    <3>2. births' = births
      BY <1>5
    <3> QED BY <1>3, <3>1, <3>2, BornKept DEF RowInv
  <2>7. RowsBorn' /\ \A k \in DOMAIN rows : Twice(k) => Twice(k)'
    <3>1. new.id = Unsaved /\ new.deleted => new.early
      BY <1>5, <2>1
    <3> QED BY <1>1, <1>2, <1>5, <2>1, <3>1, ChangedBorn
  <2>8. Named' /\ Fresh'
    BY <1>1, <1>2, <2>1, <2>3, ChangedAreTasks
  <2>9. TitlesKept'
    <3>1. ~stale => InTasks(task', new)
      BY <2>1, <2>2, <2>3, <2>5 DEF InTasks, ExistIn
    <3>2. ASSUME NEW k \in DOMAIN rows, ~stale, k # fr + 1, InTasks(task, rows[k]),
                 ~Twice(k)'
          PROVE  InTasks(task', rows[k])
      <4>1. PICK i \in ExistIn(task) : task[i].born = rows[k].born /\ task[i].title = rows[k].title
        BY <3>2 DEF InTasks
      <4>2. rows[k].born # x.born
        BY <1>2, <2>4, <2>7, <3>2 DEF Twice
      <4>3. i # x.id
        BY <2>5, <3>2, <4>1, <4>2
      <4> QED BY <2>3, <4>1, <4>3 DEF InTasks, ExistIn
    <3> QED BY <1>1, <2>1, <2>7, <3>1, <3>2, ChangedTitles
  <2> QED BY <2>6, <2>7, <2>8, <2>9 DEF RowInv
<1>6. CASE /\ x.id = Unsaved /\ view = "TASK" /\ NextId(task) \in Ids /\ births < MaxBirths
           /\ task' = [task EXCEPT ![NextId(task)] = Inserted(x, births + 1)]
           /\ births' = births + 1
           /\ rows' = Replaced([x EXCEPT !.dirty = FALSE, !.lost = FALSE,
                                         !.id = NextId(task), !.born = births + 1])
           /\ UNCHANGED faults
  <2>1. PICK n \in Ids, b \in Births : n = NextId(task) /\ b = births + 1
    BY <1>3, <1>6
  <2>2. PICK new : new = [x EXCEPT !.dirty = FALSE, !.lost = FALSE, !.id = n, !.born = b]
    OBVIOUS
  <2>3. /\ new \in Row /\ rows' = Replaced(new) /\ new.id = n /\ new.title = x.title
        /\ new.born = b /\ new.deleted = x.deleted /\ new.early = x.early
    <3>1. rows' = Replaced(new)
      BY <1>6, <2>1, <2>2
    <3>2. /\ new \in Row /\ new.id = n /\ new.title = x.title
          /\ new.born = b /\ new.deleted = x.deleted /\ new.early = x.early
      BY <2>2 DEF Row
    <3> QED BY <3>1, <3>2
  <2>4. /\ task'[n].exists /\ task'[n].title = x.title /\ task'[n].deleted = FALSE
        /\ task'[n].born = b /\ \A j \in Ids : j # n => task'[j] = task[j]
    <3>1. PICK y : y = Inserted(x, b)
      OBVIOUS
    <3>2. y.exists /\ y.title = x.title /\ y.deleted = FALSE /\ y.born = b
      BY <3>1, InsertedIs
    <3>3. task' = [task EXCEPT ![n] = y]
      BY <1>6, <2>1, <3>1
    <3> QED BY <1>3, <3>2, <3>3
  <2>5. n \notin ExistIn(task)
    BY <2>1, NextIdIs
  <2>6. /\ DOMAIN rows' = DOMAIN rows /\ rows'[fr + 1] = new
        /\ \A k \in DOMAIN rows : k # fr + 1 => rows'[k] = rows[k]
    BY <1>1, <2>3, ReplacedIs
  <2>7. ASSUME NEW k \in DOMAIN rows
        PROVE  /\ rows[k].born <= births /\ rows[k].born # b
               /\ rows[k].id # Unsaved => rows[k].born # 0
               /\ ~stale => rows[k].id # n
    <3>1. rows[k].born \in Nat /\ rows[k].born <= births
          /\ (rows[k].id # Unsaved => rows[k].born # 0)
      BY <1>6, RowFacts DEF RowInv, RowsBorn
    <3>2. ASSUME ~stale, rows[k].id = n PROVE FALSE
      <4>1. rows[k].id # Unsaved
        BY <3>2
      <4>2. task[n].exists
        BY <1>1, <3>1, <3>2, <4>1 DEF RowInv, Fresh
      <4> QED BY <2>5, <4>2 DEF ExistIn
    <3> QED BY <1>3, <2>1, <3>1, <3>2
  <2>8. TasksBorn'
    <3>1. \A i \in ExistIn(task') \ {n} : i \in ExistIn(task) /\ task'[i].born = task[i].born
      BY <2>4 DEF ExistIn
    <3>2. births' = births + 1 /\ task'[n].born = births + 1
      BY <1>6, <2>1, <2>4
    <3> QED BY <1>3, <3>1, <3>2, BornNew DEF RowInv
  <2>9. RowsBorn'
    <3> SUFFICES ASSUME NEW k \in DOMAIN rows
                 PROVE  /\ rows'[k].born <= births + 1
                        /\ rows'[k].id = Unsaved /\ rows'[k].deleted => rows'[k].early
                        /\ rows'[k].id # Unsaved => rows'[k].born # 0
                        /\ \A j \in DOMAIN rows :
                             rows'[k].id = Unsaved /\ rows'[j].born = rows'[k].born
                               /\ rows'[k].born # 0 => j = k
      BY <1>6, <2>6 DEF RowsBorn
    <3>1. CASE k = fr + 1
      BY <1>3, <2>1, <2>3, <2>6, <2>7, <3>1
    <3>2. CASE k # fr + 1
      <4>1. rows'[k] = rows[k] /\ rows[k].born \in Nat
        BY <2>6, <3>2, RowFacts DEF RowInv
      <4>2. rows[k].born <= births + 1
        BY <1>3, <2>7, <4>1
      <4>3. rows[k].id = Unsaved /\ rows[k].deleted => rows[k].early
        BY DEF RowInv, RowsBorn
      <4>4. ASSUME NEW j \in DOMAIN rows, rows[k].id = Unsaved,
                   rows'[j].born = rows[k].born, rows[k].born # 0
            PROVE  j = k
        <5>1. j # fr + 1
          BY <2>3, <2>6, <2>7, <4>4
        <5> QED BY <2>6, <4>4, <5>1 DEF RowInv, RowsBorn
      <4> QED BY <2>7, <4>1, <4>2, <4>3, <4>4
    <3> QED BY <3>1, <3>2
  <2>10. \A k \in DOMAIN rows : k # fr + 1 /\ Twice(k) => Twice(k)'
    <3> SUFFICES ASSUME NEW k \in DOMAIN rows, k # fr + 1, Twice(k) PROVE Twice(k)'
      OBVIOUS
    <3>1. PICK j \in DOMAIN rows \ {k} : rows[j].born = rows[k].born /\ rows[k].born # 0
      BY DEF Twice
    <3>2. j # fr + 1
      BY <1>2, <1>6, <3>1 DEF RowInv, RowsBorn
    <3> QED BY <2>6, <3>1, <3>2 DEF Twice
  <2>11. Named'
    <3> SUFFICES ASSUME NEW k \in DOMAIN rows, rows'[k].id # Unsaved, rows'[k].born # 0,
                        NEW i \in ExistIn(task'), task'[i].born = rows'[k].born
                 PROVE  i = rows'[k].id
      BY <2>6 DEF Named
    <3>1. \A j \in ExistIn(task') \ {n} : j \in ExistIn(task) /\ task'[j].born = task[j].born
      BY <2>4 DEF ExistIn
    <3>2. b \in Nat /\ b > births
      BY <1>3, <2>1
    <3>3. CASE k = fr + 1
      <4>1. rows'[k].id = n /\ rows'[k].born = b
        BY <2>3, <2>6, <3>3
      <4>2. ASSUME i # n PROVE FALSE
        <5>1. task[i].born = b /\ i \in ExistIn(task)
          BY <3>1, <4>1, <4>2
        <5>2. b \in 1..births
          BY <5>1 DEF RowInv, TasksBorn
        <5> QED BY <1>3, <3>2, <5>2
      <4> QED BY <4>1, <4>2
    <3>4. CASE k # fr + 1
      <4>1. rows'[k] = rows[k]
        BY <2>6, <3>4
      <4>2. \A j \in ExistIn(task') : \/ j \in ExistIn(task) /\ task'[j].born = task[j].born
                                      \/ task'[j].born \in Nat /\ task'[j].born > births
        BY <2>4, <3>1, <3>2
      <4>3. rows[k].id # Unsaved /\ rows[k].born # 0 /\ task'[i].born = rows[k].born
        BY <4>1
      <4> QED BY <1>1, <4>1, <4>2, <4>3, StillNamed
    <3> QED BY <3>3, <3>4
  <2>12. Fresh'
    <3> SUFFICES ASSUME ~stale, NEW k \in DOMAIN rows, rows'[k].id # Unsaved, rows'[k].born # 0
                 PROVE  /\ task'[rows'[k].id].exists /\ task'[rows'[k].id].born = rows'[k].born
                        /\ ~rows'[k].early /\ ~Twice(k)'
                             => task'[rows'[k].id].deleted = rows'[k].deleted
      BY <1>1, <2>6 DEF Fresh
    <3>1. CASE k = fr + 1
      <4>1. ~x.early => x.deleted = FALSE
        <5>1. x.deleted \in BOOLEAN
          BY RowIs
        <5> QED BY <1>2, <1>6, <5>1 DEF RowInv, RowsBorn
      <4>2. rows'[k] = new /\ new.id = n
        BY <2>3, <2>6, <3>1
      <4>3. task'[n].exists /\ task'[n].deleted = FALSE /\ task'[n].born = new.born
        BY <2>3, <2>4
      <4>4. ~new.early => new.deleted = FALSE
        BY <2>3, <4>1
      <4> QED BY <4>2, <4>3, <4>4
    <3>2. CASE k # fr + 1
      <4>1. rows'[k] = rows[k] /\ rows[k].id # n /\ rows[k].id \in Ids
        BY <2>6, <2>7, <3>2, RowFacts, RowIs DEF RowInv
      <4>2. ~Twice(k)' => ~Twice(k)
        BY <2>10, <3>2
      <4> QED BY <1>1, <1>6, <2>4, <4>1, <4>2 DEF RowInv, Fresh
    <3> QED BY <3>1, <3>2
  <2>13. TitlesKept'
    <3>1. InTasks(task', new)
      BY <2>3, <2>4 DEF InTasks, ExistIn
    <3>2. ASSUME NEW k \in DOMAIN rows, InTasks(task, rows[k])
          PROVE  InTasks(task', rows[k])
      BY <2>4, <2>5, <3>2 DEF InTasks, ExistIn
    <3> QED BY <1>1, <2>3, <2>10, <3>1, <3>2, ChangedTitles
  <2> QED BY <2>8, <2>9, <2>11, <2>12, <2>13 DEF RowInv
<1>7. CASE /\ rows' = Replaced([x EXCEPT !.dirty = FALSE, !.lost = TRUE])
           /\ faults' \in 0..MaxFaults /\ UNCHANGED <<task, births>>
  <2>1. PICK new \in Row :
          /\ rows' = Replaced(new) /\ new.id = x.id
          /\ new.born = x.born /\ new.deleted = x.deleted
          /\ new.early = x.early /\ new.lost = TRUE
    BY <1>7, StoredIs
  <2> QED BY <1>1, <1>2, <1>7, <2>1, ChangedRow
<1> QED BY <1>1, <1>2, <1>4, <1>5, <1>6, <1>7, StoreKinds

LEMMA DeleteRows == ASSUME RowInv, TypeInv', Delete PROVE RowInv'
<1>1. /\ InRange /\ TypeOK /\ run = "yes" /\ run' = "yes" /\ UNCHANGED <<births, view, stale>>
      /\ task \in [Ids -> Task] /\ births \in Nat
  BY RowFacts DEF Delete, RowInv, TypeInv, In, Normal
<1>2. PICK x \in Row : x = At /\ fr + 1 \in DOMAIN rows /\ x = rows[fr + 1]
  BY <1>1, RowFacts DEF RowInv
<1>3. PICK new \in Row :
        /\ rows' = Replaced(new) /\ new.dirty = x.dirty /\ new.id = x.id
        /\ new.title = x.title /\ new.born = x.born /\ new.lost = x.lost
        /\ new.deleted = ~x.deleted /\ new.early = (x.early \/ x.id = Unsaved)
  BY <1>1, <1>2, ToggledIs
<1>4. /\ DOMAIN rows' = DOMAIN rows /\ rows'[fr + 1] = new
      /\ \A k \in DOMAIN rows : k # fr + 1 => rows'[k] = rows[k]
  BY <1>1, <1>3, ReplacedIs
<1>5. /\ \A j \in Ids : /\ task'[j].exists = task[j].exists /\ task'[j].title = task[j].title
                        /\ task'[j].born = task[j].born
                        /\ j # x.id => task'[j] = task[j]
      /\ view = "TASK" /\ x.id \in ExistIn(task) => task'[x.id].deleted = ~x.deleted
  <2>1. CASE view = "TASK" /\ x.id \in ExistIn(task)
    <3>1. PICK d \in BOOLEAN : d = ~x.deleted
      OBVIOUS
    <3>2. task' = [task EXCEPT ![x.id].deleted = d] /\ x.id \in Ids
      BY <1>2, <2>1, <3>1 DEF Delete, ExistIn
    <3> QED BY <1>1, <2>1, <3>1, <3>2, ToggledTask
  <2>2. CASE ~(view = "TASK" /\ x.id \in ExistIn(task))
    <3>1. task' = task
      BY <1>2, <2>2 DEF Delete
    <3> QED BY <2>2, <3>1
  <2> QED BY <2>1, <2>2
<1>6. TasksBorn'
  <2>1. \A i \in ExistIn(task') : i \in ExistIn(task) /\ task'[i].born = task[i].born
    BY <1>5 DEF ExistIn
  <2> QED BY <1>1, <2>1, BornKept DEF RowInv
<1>7. RowsBorn' /\ \A k \in DOMAIN rows : Twice(k) => Twice(k)'
  <2>1. new.id = Unsaved /\ new.deleted => new.early
    BY <1>3
  <2> QED BY <1>1, <1>2, <1>3, <2>1, ChangedBorn
<1>8. \A k \in DOMAIN rows : rows'[k].id = rows[k].id /\ rows'[k].born = rows[k].born
  <2> SUFFICES ASSUME NEW k \in DOMAIN rows
               PROVE  rows'[k].id = rows[k].id /\ rows'[k].born = rows[k].born
    OBVIOUS
  <2>1. CASE k = fr + 1
    BY <1>2, <1>3, <1>4, <2>1
  <2>2. CASE k # fr + 1
    BY <1>4, <2>2
  <2> QED BY <2>1, <2>2
<1>9. Named'
  BY <1>1, <1>4, <1>5, <1>8 DEF RowInv, Named, ExistIn
<1>10. Fresh'
  <2> SUFFICES ASSUME ~stale, NEW k \in DOMAIN rows, rows'[k].id # Unsaved, rows'[k].born # 0
               PROVE  /\ task'[rows'[k].id].exists /\ task'[rows'[k].id].born = rows'[k].born
                      /\ view = "TASK" /\ ~rows'[k].early /\ ~Twice(k)'
                           => task'[rows'[k].id].deleted = rows'[k].deleted
    BY <1>1, <1>4 DEF Fresh
  <2>1. rows'[k].id = rows[k].id /\ rows'[k].born = rows[k].born
    BY <1>8
  <2>2. rows[k].id \in Ids
    BY <2>1, RowFacts, RowIs DEF RowInv
  <2>3. task[rows[k].id].exists /\ task[rows[k].id].born = rows[k].born
    BY <1>1, <2>1 DEF RowInv, Fresh
  <2>4. ASSUME view = "TASK", ~rows'[k].early, ~Twice(k)'
        PROVE  task'[rows'[k].id].deleted = rows'[k].deleted
    <3>1. CASE k = fr + 1
      BY <1>2, <1>3, <1>4, <1>5, <2>1, <2>2, <2>3, <2>4, <3>1 DEF ExistIn
    <3>2. CASE k # fr + 1
      <4>0. ~Twice(k)
        BY <1>7, <2>4
      <4>1. rows[k].id # x.id
        <5>1. SUFFICES ASSUME rows[k].id = x.id PROVE FALSE
          OBVIOUS
        <5>2. x.id # Unsaved /\ x.born # 0
          BY <1>2, <2>1, <2>4, <5>1 DEF RowInv, RowsBorn
        <5>3. task[x.id].born = x.born
          BY <1>1, <1>2, <5>2 DEF RowInv, Fresh
        <5>4. rows[fr + 1].born = rows[k].born /\ rows[k].born # 0
          BY <1>2, <2>1, <2>3, <5>1, <5>3
        <5> QED BY <1>2, <3>2, <4>0, <5>4 DEF Twice
      <4>2. task[rows[k].id].deleted = rows[k].deleted
        BY <1>1, <1>4, <2>1, <2>4, <3>2, <4>0 DEF RowInv, Fresh
      <4> QED BY <1>4, <1>5, <2>2, <3>2, <4>1, <4>2
    <3> QED BY <3>1, <3>2
  <2> QED BY <1>5, <2>1, <2>2, <2>3, <2>4
<1>11. TitlesKept'
  <2>1. \A k \in DOMAIN rows : InTasks(task, rows[k]) => InTasks(task', rows[k])
    BY <1>5 DEF InTasks, ExistIn
  <2>2. ASSUME ~stale
        PROVE  ~IsTask(new) \/ new.lost \/ Twice(fr + 1) \/ new.dirty \/ InTasks(task', new)
    <3>1. ~IsTask(x) \/ x.lost \/ Twice(fr + 1) \/ x.dirty \/ InTasks(task', x)
      BY <1>1, <1>2, <2>1, <2>2 DEF RowInv, TitlesKept, InDatabase, InTasks
    <3> QED BY <1>3, <3>1 DEF IsTask, InTasks
  <2>3. PICK at \in DOMAIN rows : at = fr + 1
    BY <1>2
  <2>4. ~stale => \/ ~IsTask(new) \/ new.lost \/ (\E k \in {fr + 1} : Twice(k)')
                  \/ new.dirty \/ InTasks(task', new)
    BY <1>7, <2>2, <2>3
  <2> QED BY <1>1, <1>3, <1>7, <2>1, <2>4, ChangedTitles
<1> QED BY <1>6, <1>7, <1>9, <1>10, <1>11 DEF RowInv

LEMMA NewRows == ASSUME RowInv, TypeInv', New \/ FirstInsert PROVE RowInv'
<1>1. /\ rows' = <<NewRow>> \o rows /\ fr' \in {fr, 0} /\ mode' = "INSERT"
      /\ UNCHANGED <<tables, view, found, stale, lastMode, run, bounds>> /\ run = "yes"
  BY DEF New, FirstInsert, Command, In
<1>2. /\ Len(rows') = Len(rows) + 1 /\ DOMAIN rows' = 1..Len(rows')
      /\ rows'[1] = NewRow /\ \A k \in 1..Len(rows) : rows'[k + 1] = rows[k]
  BY <1>1, NewRowTypes DEF RowInv
<1>3. births \in Nat /\ Len(rows) \in Nat /\ DOMAIN rows = 1..Len(rows)
      /\ UNCHANGED <<task, births>>
  BY <1>1, RowFacts DEF RowInv, tables
<1>4. ASSUME NEW k \in DOMAIN rows'
      PROVE  \/ k = 1 /\ rows'[k] = NewRow
             \/ k - 1 \in DOMAIN rows /\ rows'[k] = rows[k - 1]
  <2>1. CASE k = 1
    BY <1>2, <2>1
  <2>2. CASE k # 1
    <3>1. PICK j \in 1..Len(rows) : j = k - 1
      BY <1>2, <1>3, <2>2
    <3>2. rows'[j + 1] = rows[j] /\ j + 1 = k
      BY <1>2, <3>1
    <3> QED BY <1>3, <3>1, <3>2
  <2> QED BY <2>1, <2>2
<1>5. TasksBorn'
  BY <1>3 DEF RowInv, TasksBorn, ExistIn
<1>6. RowsBorn'
  <2> SUFFICES ASSUME NEW k \in DOMAIN rows'
               PROVE  /\ rows'[k].born <= births
                      /\ rows'[k].id = Unsaved /\ rows'[k].deleted => rows'[k].early
                      /\ view = "TASK" /\ rows'[k].id # Unsaved => rows'[k].born # 0
                      /\ \A j \in DOMAIN rows' :
                           rows'[k].id = Unsaved /\ rows'[j].born = rows'[k].born
                             /\ rows'[k].born # 0 => j = k
    BY <1>1, <1>3 DEF RowsBorn
  <2>1. CASE k = 1 /\ rows'[k] = NewRow
    BY <1>3, <2>1, NewRowIs
  <2>2. CASE k - 1 \in DOMAIN rows /\ rows'[k] = rows[k - 1]
    <3>1. PICK i \in DOMAIN rows : i = k - 1
      BY <2>2
    <3>2. ASSUME NEW j \in DOMAIN rows', rows[i].id = Unsaved,
                 rows'[j].born = rows[i].born, rows[i].born # 0
          PROVE  j = k
      <4>1. j - 1 \in DOMAIN rows /\ rows'[j] = rows[j - 1]
        BY <1>4, <3>2, NewRowIs
      <4>2. j - 1 = i
        BY <3>2, <4>1 DEF RowInv, RowsBorn
      <4> QED BY <1>2, <1>3, <3>1, <4>2
    <3> QED BY <2>2, <3>1, <3>2 DEF RowInv, RowsBorn
  <2> QED BY <1>4, <2>1, <2>2
<1>7. Named'
  <2> SUFFICES ASSUME NEW k \in DOMAIN rows', rows'[k].id # Unsaved, rows'[k].born # 0,
                      NEW i \in ExistIn(task), task[i].born = rows'[k].born
               PROVE  i = rows'[k].id
    BY <1>3 DEF Named, ExistIn
  <2>1. k - 1 \in DOMAIN rows /\ rows'[k] = rows[k - 1]
    BY <1>4, NewRowIs
  <2> QED BY <1>1, <2>1 DEF RowInv, Named
<1>10. ASSUME NEW k \in DOMAIN rows', k - 1 \in DOMAIN rows, Twice(k - 1) PROVE Twice(k)'
  <2>1. PICK j \in DOMAIN rows : /\ j # k - 1 /\ rows[j].born = rows[k - 1].born
                                 /\ rows[k - 1].born # 0
    BY <1>10 DEF Twice
  <2>2. PICK l \in 1..Len(rows') : l = j + 1 /\ l # k /\ rows'[l] = rows[j]
    BY <1>2, <1>3, <2>1
  <2>3. k # 1
    BY <1>3, <1>10
  <2>4. rows'[k] = rows[k - 1]
    BY <1>4, <2>3
  <2> QED BY <1>2, <2>1, <2>2, <2>4 DEF Twice
<1>8. Fresh'
  <2> SUFFICES ASSUME ~stale, NEW k \in DOMAIN rows', rows'[k].id # Unsaved, rows'[k].born # 0
               PROVE  /\ task[rows'[k].id].exists /\ task[rows'[k].id].born = rows'[k].born
                      /\ view = "TASK" /\ ~rows'[k].early /\ ~Twice(k)'
                           => task[rows'[k].id].deleted = rows'[k].deleted
    BY <1>1, <1>3 DEF Fresh
  <2>1. k - 1 \in DOMAIN rows /\ rows'[k] = rows[k - 1]
    BY <1>4, NewRowIs
  <2>2. ~Twice(k)' => ~Twice(k - 1)
    BY <1>10, <2>1
  <2> QED BY <1>1, <2>1, <2>2 DEF RowInv, Fresh
<1>9. TitlesKept'
  <2> SUFFICES ASSUME ~stale, NEW k \in DOMAIN rows'
               PROVE  \/ ~IsTask(rows'[k]) \/ rows'[k].lost \/ Twice(k)' \/ rows'[k].dirty
                      \/ InTasks(task, rows'[k])
    BY <1>1, <1>3 DEF TitlesKept, InDatabase, InTasks, IsTask
  <2>1. CASE k = 1 /\ rows'[k] = NewRow
    BY <2>1, NewRowIs
  <2>2. CASE k - 1 \in DOMAIN rows /\ rows'[k] = rows[k - 1]
    BY <1>1, <1>10, <2>2 DEF RowInv, TitlesKept, InDatabase, InTasks
  <2> QED BY <1>4, <2>1, <2>2
<1> QED BY <1>5, <1>6, <1>7, <1>8, <1>9 DEF RowInv

\* The ids of the rows that :w stores: the new ones are those of no task.
LEMMA SavedIds ==
  ASSUME RowInv, NEW bad \in 0..Len(rows), births + Cardinality(News(bad)) <= MaxBirths,
         ~stale, run = "yes", view = "TASK", NEW k \in Saves(bad)
  PROVE  /\ k \notin News(bad) =>
              /\ SavedId(bad, k) = rows[k].id
              /\ SavedId(bad, k) \in ExistIn(task) /\ task[SavedId(bad, k)].born = rows[k].born
         /\ k \in News(bad) => SavedId(bad, k) \notin ExistIn(task)
         /\ \A j \in Saves(bad) :
              SavedId(bad, j) = SavedId(bad, k) =>
                \/ j = k
                \/ /\ j \notin News(bad) /\ k \notin News(bad)
                   /\ rows[j].born = rows[k].born /\ rows[k].born # 0
<1>1. TypeOK /\ births \in Nat /\ task \in [Ids -> Task]
  BY RowFacts DEF RowInv, TypeInv
<1>2. /\ Saves(bad) \subseteq DOMAIN rows /\ News(bad) \subseteq Saves(bad)
      /\ \A j \in Saves(bad) : j \in News(bad) <=> rows[j].id = Unsaved
      /\ \A j \in News(bad) :
           /\ SavedId(bad, j) = NextId(task) + Before(bad, j) /\ Before(bad, j) \in Nat
           /\ \A i \in News(bad) : Before(bad, i) = Before(bad, j) => i = j
  BY <1>1, SavesIs
<1>3. NextId(task) \in Nat /\ \A i \in ExistIn(task) : i \in Nat /\ i < NextId(task)
  BY NextIdIs DEF ExistIn
<1>4. ASSUME NEW j \in Saves(bad), j \notin News(bad)
      PROVE  /\ SavedId(bad, j) = rows[j].id /\ rows[j].id # Unsaved
             /\ rows[j].id \in ExistIn(task) /\ task[rows[j].id].born = rows[j].born
             /\ rows[j].born # 0
  <2>1. j \in DOMAIN rows /\ rows[j].id # Unsaved
    BY <1>2, <1>4
  <2>2. rows[j].id \in Ids
    BY <2>1, RowFacts, RowIs DEF RowInv
  <2>3. rows[j].born # 0
    BY <2>1 DEF RowInv, RowsBorn
  <2>4. task[rows[j].id].exists /\ task[rows[j].id].born = rows[j].born
    BY <2>1, <2>3 DEF RowInv, Fresh
  <2> QED BY <2>1, <2>2, <2>3, <2>4 DEF SavedId, ExistIn
<1>5. ASSUME NEW j \in News(bad) PROVE SavedId(bad, j) \notin ExistIn(task)
  <2>1. PICK c \in Nat : c = Before(bad, j) /\ SavedId(bad, j) = NextId(task) + c
    BY <1>2
  <2> QED BY <1>3, <2>1
<1>6. ASSUME NEW j \in Saves(bad), SavedId(bad, j) = SavedId(bad, k)
      PROVE  \/ j = k
             \/ /\ j \notin News(bad) /\ k \notin News(bad)
                /\ rows[j].born = rows[k].born /\ rows[k].born # 0
  <2>1. CASE j \in News(bad) /\ k \in News(bad)
    <3>1. PICK c \in Nat, d \in Nat : c = Before(bad, j) /\ d = Before(bad, k)
      BY <1>2, <2>1
    <3>2. NextId(task) + c = NextId(task) + d
      BY <1>2, <1>6, <2>1, <3>1
    <3>3. c = d
      BY <1>3, <3>2
    <3> QED BY <1>2, <2>1, <3>1, <3>3
  <2>2. CASE j \notin News(bad) /\ k \notin News(bad)
    <3>1. rows[j].id = rows[k].id /\ rows[k].born # 0
      BY <1>4, <1>6, <2>2
    <3>2. rows[j].born = rows[k].born
      BY <1>4, <2>2, <3>1
    <3> QED BY <2>2, <3>1, <3>2
  <2>3. CASE (j \in News(bad)) # (k \in News(bad))
    BY <1>4, <1>5, <1>6, <2>3
  <2> QED BY <2>1, <2>2, <2>3
<1> QED BY <1>4, <1>5, <1>6

LEMMA UpdateRowsKept ==
  ASSUME RowInv, TypeInv', run = "yes", view = "TASK", UNCHANGED <<view, stale>>,
         NEW end \in {"yes", "quit"}, UpdateRows(end)
  PROVE  RowInv'
<1>1. TypeOK /\ births \in Nat /\ births' \in Nat /\ task \in [Ids -> Task]
      /\ DOMAIN rows = 1..Len(rows) /\ \A k \in DOMAIN rows : rows[k] \in Row /\ rows[k].born \in Nat
  BY RowFacts DEF RowInv, TypeInv, TypeOK
<1>0. PICK bad \in 0..Len(rows) : \E m \in News(bad) \cup {0} :
        /\ births + Cardinality(News(bad)) <= MaxBirths
        /\ \A k \in Saves(bad) : SavedId(bad, k) \in Ids
        /\ task' = [i \in Ids |-> SavedTask(bad, i)]
        /\ births' = births + Cardinality(News(bad))
        /\ \/ rows' = Cleaned(bad, m, end) /\ run' = end
           \/ run' = "crash" /\ UNCHANGED rows
  BY DEF UpdateRows
<1>2. PICK mute \in News(bad) \cup {0} :
        /\ births + Cardinality(News(bad)) <= MaxBirths
        /\ \A k \in Saves(bad) : SavedId(bad, k) \in Ids
        /\ task' = [i \in Ids |-> SavedTask(bad, i)]
        /\ births' = births + Cardinality(News(bad))
        /\ \/ rows' = Cleaned(bad, mute, end) /\ run' = end
           \/ run' = "crash" /\ UNCHANGED rows
  BY <1>0
<1>3. /\ Saves(bad) \subseteq DOMAIN rows /\ News(bad) \subseteq Saves(bad)
      /\ \A k \in Saves(bad) : k \in News(bad) <=> rows[k].id = Unsaved
      /\ \A k \in News(bad) :
           /\ Before(bad, k) \in Nat
           /\ SavedBorn(bad, k) = births + Before(bad, k) + 1
           /\ SavedBorn(bad, k) <= births'
           /\ \A j \in News(bad) : Before(bad, j) = Before(bad, k) => j = k
      /\ \A k \in DOMAIN rows : k \notin News(bad) => SavedBorn(bad, k) = rows[k].born
  BY <1>1, <1>2, SavesIs
<1>4. /\ births' >= births
      /\ \A k \in News(bad) : /\ SavedBorn(bad, k) \in Nat
                              /\ SavedBorn(bad, k) > births
                              /\ SavedBorn(bad, k) <= births'
                              /\ \A j \in News(bad) : SavedBorn(bad, j) = SavedBorn(bad, k) => j = k
  <2>1. births' >= births
    <3>1. PICK c \in Nat : c = Cardinality(News(bad))
      <4>1. PICK S \in SUBSET (1..Len(rows)) : S = News(bad)
        BY <1>1, <1>3
      <4> QED BY <1>1, <4>1, CountIs, RowFacts DEF RowInv
    <3> QED BY <1>1, <1>2, <3>1
  <2>2. ASSUME NEW k \in News(bad)
        PROVE  /\ SavedBorn(bad, k) \in Nat
               /\ SavedBorn(bad, k) > births
               /\ SavedBorn(bad, k) <= births'
               /\ \A j \in News(bad) : SavedBorn(bad, j) = SavedBorn(bad, k) => j = k
    <3>1. SavedBorn(bad, k) \in Nat /\ SavedBorn(bad, k) > births
      <4>1. PICK c \in Nat : SavedBorn(bad, k) = births + c + 1
        BY <1>3
      <4>2. births \in Nat
        BY <1>1
      <4> QED BY ONLY <4>1, <4>2
    <3>2. ASSUME NEW j \in News(bad), SavedBorn(bad, j) = SavedBorn(bad, k) PROVE j = k
      <4>1. PICK c \in Nat, d \in Nat : c = Before(bad, j) /\ d = Before(bad, k)
        BY <1>3
      <4>2. births + c + 1 = births + d + 1
        BY <1>3, <3>2, <4>1
      <4>3. c = d
        BY <1>1, <4>2
      <4> QED BY <1>3, <4>1, <4>3
    <3> QED BY <1>3, <3>1, <3>2
  <2> QED BY <2>1, <2>2
<1>5. ASSUME NEW i \in ExistIn(task')
      PROVE  \/ \E k \in News(bad) : SavedId(bad, k) = i /\ task'[i].born = SavedBorn(bad, k)
             \/ i \in ExistIn(task) /\ task'[i].born = task[i].born
  <2>1. i \in Ids /\ task'[i] = SavedTask(bad, i) /\ task'[i].exists
    BY <1>2 DEF ExistIn
  <2>2. CASE \E k \in News(bad), m \in Saves(bad) :
                /\ SavedId(bad, k) = i /\ SavedId(bad, m) = i
                /\ SavedTask(bad, i) = Inserted(rows[m], SavedBorn(bad, k))
    BY <2>1, <2>2 DEF Inserted
  <2>3. CASE task[i].exists /\ SavedTask(bad, i).born = task[i].born
    BY <2>1, <2>3 DEF ExistIn
  <2>4. CASE SavedTask(bad, i) = task[i]
    BY <2>1, <2>4 DEF ExistIn
  <2> QED BY <1>1, <1>2, <2>1, <2>2, <2>3, <2>4, SavedTaskIs
<1>6. TasksBorn'
  <2>1. ASSUME NEW i \in ExistIn(task') PROVE task'[i].born \in 1..births'
    <3>1. CASE \E k \in News(bad) : task'[i].born = SavedBorn(bad, k)
      BY <1>1, <1>4, <3>1
    <3>2. CASE i \in ExistIn(task) /\ task'[i].born = task[i].born
      BY <1>1, <1>4, <3>2 DEF RowInv, TasksBorn
    <3> QED BY <1>5, <3>1, <3>2
  <2>2. ASSUME NEW i \in ExistIn(task'), NEW j \in ExistIn(task'), task'[i].born = task'[j].born
        PROVE  i = j
    <3>1. \A l \in ExistIn(task) : task[l].born \in 1..births
      BY DEF RowInv, TasksBorn
    <3>2. CASE \E k \in News(bad) : SavedId(bad, k) = i /\ task'[i].born = SavedBorn(bad, k)
      <4>1. task'[j].born > births
        BY <1>4, <2>2, <3>2
      <4>2. ~(j \in ExistIn(task) /\ task'[j].born = task[j].born)
        BY <1>1, <3>1, <4>1
      <4>3. \E l \in News(bad) : SavedId(bad, l) = j /\ task'[j].born = SavedBorn(bad, l)
        BY <1>5, <4>2
      <4> QED BY <1>4, <2>2, <3>2, <4>3
    <3>3. CASE i \in ExistIn(task) /\ task'[i].born = task[i].born
      <4>1. task'[j].born \in 1..births
        BY <2>2, <3>1, <3>3
      <4>2. \A k \in News(bad) : task'[j].born # SavedBorn(bad, k)
        BY <1>1, <1>4, <4>1
      <4>3. j \in ExistIn(task) /\ task'[j].born = task[j].born
        BY <1>5, <4>2
      <4> QED BY <2>2, <3>3, <4>3 DEF RowInv, TasksBorn
    <3> QED BY <1>5, <3>2, <3>3
  <2> QED BY <2>1, <2>2 DEF TasksBorn
<1>7. CASE run' = "crash" /\ UNCHANGED rows
  <2>1. RowsBorn'
    BY <1>1, <1>4, <1>7 DEF RowInv, RowsBorn
  <2>2. Named' /\ Fresh' /\ TitlesKept'
    BY <1>7 DEF Named, Fresh, TitlesKept
  <2> QED BY <1>6, <2>1, <2>2 DEF RowInv
<1>8. CASE rows' = Cleaned(bad, mute, end) /\ run' = end
  <2>1. DOMAIN rows' = DOMAIN rows
    BY <1>1, <1>2, <1>8, CleanedIs
  <2>2. \A k \in DOMAIN rows :
          /\ rows'[k].id = rows[k].id /\ rows'[k].title = rows[k].title
          /\ rows'[k].deleted = rows[k].deleted /\ rows'[k].early = rows[k].early
          /\ rows'[k].born = SavedBorn(bad, k)
          /\ rows'[k].dirty => rows[k].dirty
          /\ rows[k].lost => rows'[k].lost
          /\ (rows[k].dirty /\ k \notin Saves(bad) /\ (~rows'[k].dirty \/ end = "quit"))
               => rows'[k].lost
    BY <1>1, <1>2, <1>8, CleanedIs
  <2>3. RowsBorn'
    <3> SUFFICES ASSUME NEW k \in DOMAIN rows
                 PROVE  /\ rows'[k].born <= births'
                        /\ rows[k].id = Unsaved /\ rows[k].deleted => rows[k].early
                        /\ rows[k].id # Unsaved => rows'[k].born # 0
                        /\ \A j \in DOMAIN rows :
                             rows[k].id = Unsaved /\ rows'[j].born = rows'[k].born
                               /\ rows'[k].born # 0 => j = k
      BY <2>1, <2>2 DEF RowsBorn
    <3>1. \A j \in DOMAIN rows : /\ rows'[j].born = SavedBorn(bad, j)
                                /\ rows[j].born \in Nat /\ rows[j].born <= births
      BY <1>1, <2>2 DEF RowInv, RowsBorn
    <3>2. rows'[k].born <= births'
      <4>1. CASE k \in News(bad)
        BY <1>4, <3>1, <4>1
      <4>2. CASE k \notin News(bad)
        <5>1. rows'[k].born = rows[k].born
          BY <1>3, <3>1, <4>2
        <5>2. births \in Nat /\ births' \in Nat /\ births <= births'
          BY <1>1, <1>4
        <5>3. rows[k].born \in Nat /\ rows[k].born <= births
          BY <3>1
        <5> QED BY ONLY <5>1, <5>2, <5>3
      <4> QED BY <4>1, <4>2
    <3>3. rows[k].id # Unsaved => rows'[k].born # 0
      BY <1>3, <1>4, <3>1 DEF RowInv, RowsBorn
    <3>4. ASSUME NEW j \in DOMAIN rows, rows[k].id = Unsaved,
                 rows'[j].born = rows'[k].born, rows'[k].born # 0
          PROVE  j = k
      <4>1. CASE j \in News(bad) /\ k \in News(bad)
        BY <1>4, <3>1, <3>4, <4>1
      <4>2. CASE j \notin News(bad) /\ k \notin News(bad)
        BY <1>3, <3>1, <3>4, <4>2 DEF RowInv, RowsBorn
      <4>3. CASE j \in News(bad) /\ k \notin News(bad)
        <5>1. /\ SavedBorn(bad, j) \in Nat /\ SavedBorn(bad, j) > births
              /\ SavedBorn(bad, k) \in Nat /\ SavedBorn(bad, k) <= births
          BY <1>3, <1>4, <3>1, <4>3
        <5>2. SavedBorn(bad, j) = SavedBorn(bad, k) /\ births \in Nat
          BY <1>1, <3>1, <3>4
        <5> QED BY ONLY <5>1, <5>2
      <4>4. CASE j \notin News(bad) /\ k \in News(bad)
        <5>1. /\ SavedBorn(bad, k) \in Nat /\ SavedBorn(bad, k) > births
              /\ SavedBorn(bad, j) \in Nat /\ SavedBorn(bad, j) <= births
          BY <1>3, <1>4, <3>1, <4>4
        <5>2. SavedBorn(bad, j) = SavedBorn(bad, k) /\ births \in Nat
          BY <1>1, <3>1, <3>4
        <5> QED BY ONLY <5>1, <5>2
      <4> QED BY <4>1, <4>2, <4>3, <4>4
    <3> QED BY <3>2, <3>3, <3>4 DEF RowInv, RowsBorn
  <2>4. \A k \in DOMAIN rows : Twice(k) => Twice(k)'
    <3> SUFFICES ASSUME NEW k \in DOMAIN rows, Twice(k) PROVE Twice(k)'
      OBVIOUS
    <3>1. PICK j \in DOMAIN rows \ {k} : rows[j].born = rows[k].born /\ rows[k].born # 0
      BY DEF Twice
    <3>2. k \notin News(bad) /\ j \notin News(bad)
      BY <1>3, <3>1 DEF RowInv, RowsBorn
    <3>3. rows'[k].born = rows[k].born /\ rows'[j].born = rows[j].born
      BY <1>3, <2>2, <3>2
    <3> QED BY <2>1, <3>1, <3>3 DEF Twice
  <2>5. Named'
    <3> SUFFICES ASSUME NEW k \in DOMAIN rows, rows[k].id # Unsaved, rows'[k].born # 0,
                        NEW i \in ExistIn(task'), task'[i].born = rows'[k].born
                 PROVE  i = rows[k].id
      BY <2>1, <2>2 DEF Named
    <3>1. rows'[k].born = rows[k].born
      BY <1>3, <2>2
    <3>2. \A j \in ExistIn(task') : \/ j \in ExistIn(task) /\ task'[j].born = task[j].born
                                    \/ task'[j].born \in Nat /\ task'[j].born > births
      BY <1>4, <1>5
    <3>3. rows[k].born # 0 /\ task'[i].born = rows[k].born
      BY <3>1
    <3> QED BY <3>2, <3>3, StillNamed
  <2>6. Fresh'
    <3> SUFFICES ASSUME ~stale, NEW k \in DOMAIN rows, rows[k].id # Unsaved
                 PROVE  /\ task'[rows[k].id].exists /\ task'[rows[k].id].born = rows[k].born
                        /\ ~rows[k].early /\ ~Twice(k)
                             => task'[rows[k].id].deleted = rows[k].deleted
      <4>1. ASSUME NEW k \in DOMAIN rows, rows[k].id # Unsaved PROVE rows'[k].born = rows[k].born
        BY <1>3, <2>2, <4>1
      <4> QED BY <2>1, <2>2, <2>4, <4>1 DEF Fresh
    <3>1. rows[k].id \in Ids /\ rows[k].born # 0
      BY RowFacts, RowIs DEF RowInv, RowsBorn
    <3>2. /\ task[rows[k].id].exists /\ task[rows[k].id].born = rows[k].born
          /\ ~rows[k].early /\ ~Twice(k)
               => task[rows[k].id].deleted = rows[k].deleted
      BY <3>1 DEF RowInv, Fresh
    <3>3. PICK i \in Ids : i = rows[k].id
      BY <3>1
    <3>4. \A l \in News(bad) : SavedId(bad, l) # i
      BY <1>2, <1>3, <3>2, <3>3, SavedIds DEF ExistIn
    <3>5. SavedTask(bad, i).exists /\ SavedTask(bad, i).born = task[i].born
          /\ SavedTask(bad, i).deleted = task[i].deleted
      BY <1>1, <1>2, <3>2, <3>3, <3>4, SavedTaskIs
    <3>6. task'[i] = SavedTask(bad, i)
      BY <1>2
    <3> QED BY <3>2, <3>3, <3>5, <3>6
  <2>7. TitlesKept'
    <3> SUFFICES ASSUME ~stale, NEW k \in DOMAIN rows, IsTask(rows'[k]), ~rows'[k].lost,
                        ~Twice(k)', ~(end = "yes" /\ rows'[k].dirty)
                 PROVE  InTasks(task', rows'[k])
      BY <1>8, <2>1 DEF TitlesKept, InDatabase, InTasks
    <3>0. ~Twice(k)
      BY <2>4
    <3>1. ~rows[k].lost /\ ~(rows[k].dirty /\ k \notin Saves(bad))
      BY <2>2
    <3>2. CASE k \in Saves(bad)
      <4>1. PICK i \in Ids : i = SavedId(bad, k)
        BY <1>2, <3>2
      <4>2. \A m \in Saves(bad) : SavedId(bad, m) = i => m = k
        <5> SUFFICES ASSUME NEW m \in Saves(bad), SavedId(bad, m) = i PROVE m = k
          OBVIOUS
        <5>1. m = k \/ (rows[m].born = rows[k].born /\ rows[k].born # 0)
          BY <1>2, <3>2, <4>1, SavedIds
        <5> QED BY <1>3, <3>0, <5>1 DEF Twice
      <4>3. CASE k \in News(bad)
        <5>0. PICK l \in News(bad), m \in Saves(bad) :
                /\ SavedId(bad, l) = i /\ SavedId(bad, m) = i
                /\ SavedTask(bad, i) = Inserted(rows[m], SavedBorn(bad, l))
          BY <1>1, <1>2, <4>1, <4>3, SavedTaskIs
        <5>1. SavedTask(bad, i) = Inserted(rows[k], SavedBorn(bad, k))
          <6>1. l = k /\ m = k
            BY <1>3, <4>2, <5>0
          <6> QED BY <5>0, <6>1
        <5>2. task'[i] = Inserted(rows[k], SavedBorn(bad, k))
          BY <1>2, <5>1
        <5> QED BY <2>2, <5>2 DEF Inserted, InTasks, ExistIn
      <4>4. CASE k \notin News(bad)
        <5>1. i = rows[k].id /\ task[i].exists /\ task[i].born = rows[k].born
          BY <1>2, <3>2, <4>1, <4>4, SavedIds DEF ExistIn
        <5>2. /\ SavedTask(bad, i).exists /\ SavedTask(bad, i).title = rows[k].title
              /\ SavedTask(bad, i).born = task[i].born
          <6>1. \A l \in News(bad) : SavedId(bad, l) # i
            <7> SUFFICES ASSUME NEW l \in News(bad), SavedId(bad, l) = i PROVE FALSE
              OBVIOUS
            <7>1. l \in Saves(bad)
              BY <1>3
            <7>2. l = k
              BY <4>2, <7>1
            <7> QED BY <4>4, <7>2
          <6>2. \/ \E l \in News(bad) : SavedId(bad, l) = i
                \/ \E m \in Saves(bad) :
                     /\ SavedId(bad, m) = i /\ SavedTask(bad, i).exists
                     /\ SavedTask(bad, i).title = rows[m].title
                     /\ SavedTask(bad, i).born = task[i].born
                \/ (\A m \in Saves(bad) : SavedId(bad, m) # i) \/ ~task[i].exists
            BY <1>1, <1>2, SavedTaskIs
          <6>3. PICK m \in Saves(bad) :
                  /\ SavedId(bad, m) = i /\ SavedTask(bad, i).exists
                  /\ SavedTask(bad, i).title = rows[m].title
                  /\ SavedTask(bad, i).born = task[i].born
            BY ONLY <3>2, <4>1, <5>1, <6>1, <6>2
          <6>4. m = k
            BY <4>2, <6>3
          <6> QED BY <6>3, <6>4
        <5>3. task'[i] = SavedTask(bad, i) /\ rows'[k].born = rows[k].born
          BY <1>2, <1>3, <2>2, <4>4
        <5> QED BY <2>2, <5>1, <5>2, <5>3 DEF InTasks, ExistIn
      <4> QED BY <4>3, <4>4
    <3>3. CASE k \notin Saves(bad)
      <4>1. ~rows[k].dirty /\ rows'[k].born = rows[k].born
        BY <1>3, <2>2, <3>1, <3>3
      <4>2. InTasks(task, rows[k])
        <5>1. IsTask(rows[k])
          BY <2>2, <4>1 DEF IsTask
        <5> QED BY <3>0, <3>1, <4>1, <5>1 DEF RowInv, TitlesKept, InDatabase, InTasks
      <4>3. PICK i \in ExistIn(task) : task[i].born = rows[k].born /\ task[i].title = rows[k].title
        BY <4>2 DEF InTasks
      <4>4. \A m \in Saves(bad) : SavedId(bad, m) # i
        <5> SUFFICES ASSUME NEW m \in Saves(bad), SavedId(bad, m) = i PROVE FALSE
          OBVIOUS
        <5>1. m \notin News(bad) /\ task[i].born = rows[m].born /\ m # k
          BY <1>2, <3>3, <4>3, SavedIds
        <5>2. rows[k].born # 0
          BY <4>3 DEF RowInv, TasksBorn
        <5> QED BY <1>3, <3>0, <4>3, <5>1, <5>2 DEF Twice
      <4>5. SavedTask(bad, i) = task[i] /\ i \in Ids
        <5>1. i \in Ids /\ \A l \in News(bad) : SavedId(bad, l) # i
          BY <1>3, <4>3, <4>4 DEF ExistIn
        <5> QED BY <1>1, <1>2, <4>4, <5>1, SavedTaskIs
      <4>6. task'[i] = task[i]
        BY <1>2, <4>5
      <4> QED BY <2>2, <4>1, <4>3, <4>6 DEF InTasks, ExistIn
    <3> QED BY <3>2, <3>3
  <2> QED BY <1>6, <2>3, <2>5, <2>6, <2>7 DEF RowInv
<1> QED BY <1>2, <1>7, <1>8

LEMMA WritingRows == ASSUME RowInv, TypeInv', Write \/ WriteAndQuit PROVE RowInv'
<1>1. run = "yes" /\ UNCHANGED <<view, stale>>
  BY WritingIs
<1>2. CASE view = "TASK" /\ \E end \in {"yes", "quit"} : UpdateRows(end)
  BY <1>1, <1>2, UpdateRowsKept
<1>3. CASE UNCHANGED <<tables, rows, faults>> /\ run' \in {"yes", "left"}
  BY <1>1, <1>3, SameRows
<1> QED BY <1>2, <1>3, WritingIs

LEMMA MovingRows == ASSUME RowInv, TypeInv', Moving PROVE RowInv'
<1>1. UNCHANGED <<tables, rows, view, stale>>
  BY MovingTypes DEF RowInv
<1>2. /\ run = "yes"
      /\ \/ run' \in {"yes", "left", "crash"}
         \/ \A k \in DOMAIN rows : ~rows[k].dirty
  <2>1. CASE NoRow \/ NoName \/ Insert \/ Help \/ Leave \/ Other \/ Escape \/ Colon
    BY <2>1 DEF NoRow, NoName, Crash, Insert, Help, Leave, Other, Escape, Colon, Command, Normal, In, list
  <2>2. CASE Quit
    BY <2>2 DEF Quit, Command, In
  <2>3. CASE \E n \in 0..MaxTasks : Move(n)
    BY <2>3 DEF Move, In
  <2>4. CASE \E n \in 0..MaxTasks : GoTo(n + 1)
    BY <2>4 DEF GoTo, Normal, In
  <2> QED BY <2>1, <2>2, <2>3, <2>4 DEF Moving
<1> QED BY <1>1, <1>2, SameRows

LEMMA ReadingRows == ASSUME RowInv, TypeInv', Reading PROVE RowInv'
<1>1. Listed(task') /\ births \in Nat /\ task \in [Ids -> Task] /\ TypeOK /\ TasksBorn
  BY ReadingTypes, RowFacts DEF RowInv, TypeInv
<1>2. TasksBorn'
  <2>1. CASE Copy
    <3>1. PICK row \in Row : task' = [task EXCEPT ![NextId(task)] = Inserted(row, births + 1)]
      BY <1>1, <2>1, CopyTask
    <3>2. PICK n \in Ids : n = NextId(task)
      BY <1>1, <2>1, CopyTask
    <3>3. PICK y : y = Inserted(row, births + 1)
      OBVIOUS
    <3>4. task' = [task EXCEPT ![n] = y] /\ y.born = births + 1
      BY <3>1, <3>2, <3>3 DEF Inserted
    <3>5. /\ task'[n].born = births + 1
          /\ \A i \in ExistIn(task') \ {n} : i \in ExistIn(task) /\ task'[i].born = task[i].born
      BY <1>1, <3>4 DEF ExistIn
    <3>6. births' = births + 1
      BY <1>1, <2>1, CopyTask
    <3> QED BY <1>1, <3>5, <3>6, BornNew
  <2>2. CASE ~Copy
    <3>1. UNCHANGED tables
      BY <2>2 DEF Reading, ReturnClean, NextContainer, Recent, Reorder, Open, Find,
                  LeaveKeywords, Refresh
    <3> QED BY <1>1, <3>1 DEF TasksBorn, ExistIn, tables
  <2> QED BY <2>1, <2>2
<1> QED BY <1>1, <1>2, ListedRows

LEMMA KeywordListRows == ASSUME RowInv, TypeInv', ToKeywords PROVE RowInv'
<1>1. ShowKeywords /\ UNCHANGED tables
  BY DEF ToKeywords, Keywords, ChooseKeyword, Refresh
<1> QED BY <1>1, ToKeywordsRows

LEMMA NextRows == ASSUME RowInv, [Next]_vars PROVE RowInv'
<1>1. TypeInv'
  BY NextTypes DEF RowInv
<1>2. CASE Next
  BY <1>1, <1>2, NextKinds, MovingRows, ReadingRows, KeywordListRows, EditingRows,
     ReturnDirtyRows, DeleteRows, NewRows, WritingRows, SyncRows DEF RowInv, TypeInv
<1>3. CASE UNCHANGED vars
  <2>1. UNCHANGED <<task, births, rows, view, stale, run>>
    BY <1>3 DEF vars, tables, list
  <2>2. TasksBorn' /\ RowsBorn' /\ Named' /\ Fresh'
    BY <2>1 DEF RowInv, TasksBorn, ExistIn, RowsBorn, Named, Fresh, Twice
  <2>3. TitlesKept'
    BY <2>1 DEF RowInv, TitlesKept, InDatabase, ExistIn, Twice
  <2> QED BY <1>1, <2>2, <2>3 DEF RowInv
<1> QED BY <1>2, <1>3

LEMMA RowsInit == Init => RowInv
<1> SUFFICES ASSUME Init PROVE RowInv
  OBVIOUS
<1>1. TypeInv
  BY TypeInit
<1>2. \A i \in ExistIn(task) : i <= Stored /\ task[i].born = i
  <2> SUFFICES ASSUME NEW i \in ExistIn(task) PROVE i <= Stored /\ task[i].born = i
    OBVIOUS
  <2>1. i \in Ids /\ task[i].exists
    BY DEF ExistIn
  <2>2. task = [j \in Ids |-> IF j > Stored THEN NoTask
                             ELSE [NoTask EXCEPT !.exists = TRUE, !.born = j]]
    BY DEF Init
  <2>3. CASE i > Stored
    BY <2>1, <2>2, <2>3 DEF NoTask
  <2>4. CASE ~(i > Stored)
    <3>1. task[i] = [NoTask EXCEPT !.exists = TRUE, !.born = i]
      BY <2>1, <2>2, <2>4
    <3>2. task[i].born = i
      BY <3>1 DEF NoTask
    <3> QED BY <2>1, <2>4, <3>2
  <2> QED BY <2>3, <2>4
<1>3. TasksBorn
  <2>1. births = Stored
    BY DEF Init
  <2>2. \A i \in ExistIn(task) : i \in Ids
    BY DEF ExistIn
  <2> QED BY <1>2, <2>1, <2>2 DEF TasksBorn
<1>4. PICK ids \in Results(task) : rows = [k \in DOMAIN ids |-> RowOf(task, ids[k])]
  BY DEF Init, Lists
<1>5. \A k \in DOMAIN ids : ids[k] \in ExistIn(task)
  BY <1>4, ResultIs
<1>6. DOMAIN rows = DOMAIN ids
      /\ \A k \in DOMAIN rows :
           /\ rows[k].id = ids[k] /\ rows[k].title = task[ids[k]].title
           /\ rows[k].deleted = task[ids[k]].deleted /\ rows[k].born = task[ids[k]].born
           /\ ids[k] \in ExistIn(task) /\ ids[k] \in Ids
  BY <1>4, <1>5 DEF RowOf, ExistIn
<1>7. RowsBorn
  <2>1. \A k \in DOMAIN rows :
          rows[k].born <= births /\ rows[k].born # 0 /\ rows[k].id # Unsaved
    BY <1>1, <1>3, <1>5, <1>6, RowFacts DEF TasksBorn
  <2> QED BY <2>1 DEF RowsBorn
<1>8. Named
  BY <1>3, <1>6 DEF Named, TasksBorn
<1>9. Fresh
  BY <1>6 DEF Fresh, ExistIn
<1>10. TitlesKept
  BY <1>6 DEF TitlesKept, InDatabase
<1> QED BY <1>1, <1>3, <1>7, <1>8, <1>9, <1>10 DEF RowInv

LEMMA RowsKept == Spec => []RowInv
BY RowsInit, NextRows, PTL DEF Spec

\* A row does not name another task while its own is there, even after a sync, and until
\* a sync it is there; until then dd has left the same flag in both.
THEOREM RowsCorrect == Spec => []RowsAreTasks
<1>1. RowInv => RowsAreTasks
  BY DEF RowInv, Named, Fresh, RowsAreTasks
<1> QED BY <1>1, RowsKept, PTL

\* No title is lost, but in the ways that are known.
THEOREM TitlesCorrect == Spec => []TitlesKept
<1>1. RowInv => TitlesKept
  BY DEF RowInv
<1> QED BY <1>1, RowsKept, PTL

=============================================================================
