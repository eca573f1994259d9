----------------------------- MODULE Organizer ------------------------------
(***************************************************************************)
(* The list of tasks on the left of the screen: outlineProcessKeypress()   *)
(* in src/listman.cpp, the keys of src/normalorg.cpp, the commands of      *)
(* src/cmdorg.cpp, and the statements of src/dbfunc.cpp that they execute. *)
(*                                                                         *)
(* The list is a copy of what a query returned.  A title typed into it is  *)
(* stored by a key or a command of its own, and dirty is all that says so; *)
(* the mode says which keys expect a row under the cursor.  A title is the *)
(* number of the edit that made it.  What a query returns is any list of   *)
(* the tasks: its filter and its order are not modelled, nor are the       *)
(* titles of keywords and the keywords of tasks, which are KeywordSync's.  *)
(***************************************************************************)
EXTENDS Integers, Sequences, SequencesExt, FiniteSetsExt

CONSTANTS
  MaxTasks,      \* ids are 1..MaxTasks
  MaxBirths,     \* bound on the tasks ever made
  Stored,        \* the number of tasks there are at the start
  KeywordRows,   \* the number of keywords, with ids from 1
  MaxSaved,      \* the length of the array of saved ids, 20 in the code
  MaxEdits,      \* bound on the changes of titles, by anybody
  MaxFaults      \* bound on the syncs and the statements that fail

ASSUME OrganizerAssumption ==
  /\ MaxTasks \in Nat \ {0} /\ Stored \in 0..MaxTasks /\ KeywordRows \in 0..MaxTasks
  /\ MaxBirths \in Nat /\ MaxBirths >= Stored /\ MaxSaved \in Nat \ {0}
  /\ MaxEdits \in Nat /\ MaxFaults \in Nat

Ids     == 1..MaxTasks
Unsaved == -1                  \* the id of a row that has no task
Titles  == 0..MaxEdits
Births  == 0..MaxBirths        \* which task it is: ids are used again

VARIABLES
  task, births,         \* sqlite: the tasks; the number of tasks ever made
  rows, fr,             \* org.rows, and the cursor, which counts from 0
  mode, lastMode, view, \* org.mode, org.last_mode, org.view
  found,                \* org.taskview = BY_FIND
  run,                  \* sess.run, or how the program ended
  stale,                \* history: a sync ran after the rows were read
  edits, faults

tables  == <<task, births>>
list    == <<rows, fr, view, found, stale>>
modes   == <<mode, lastMode>>
bounds  == <<edits, faults>>
vars    == <<tables, list, modes, run, bounds>>

Task == [exists : BOOLEAN, title : Titles, deleted : BOOLEAN, born : Births]
Row  == [id : Ids \cup {Unsaved}, title : Titles, dirty : BOOLEAN,
         deleted : BOOLEAN,
         born  : Births,      \* history: the task it was read from or saved as, or 0
         early : BOOLEAN,     \* history: deleted before it had a task
         lost  : BOOLEAN]     \* history: not stored and not dirty, and how is known

Modes == {"NORMAL", "INSERT", "COMMAND_LINE", "NO_ROWS", "FIND", "FILTER", "FILE"}

-----------------------------------------------------------------------------
(* Helpers *)

ExistIn(tasks) == {i \in Ids : tasks[i].exists}
NextId(tasks)  == Max(ExistIn(tasks) \cup {0}) + 1     \* sqlite's next id
NoTask == [exists |-> FALSE, title |-> 0, deleted |-> FALSE, born |-> 0]

At       == rows[fr + 1]                  \* org.rows.at(org.fr), if
InRange  == fr < Len(rows)
IsTask(row) == row.born # 0 \/ row.id = Unsaved     \* and not a keyword

\* Plausible slips, for the mutation runs: the cursor stays where it is in other rows,
\* a letter does not make the row dirty, a row is read without its deleted flag, a new
\* row is not given the id that says it is new, the mode does not say that none is left.
FirstRow_Kept(n) == n
ModeFor_Last(ids) == lastMode
Typed_Clean(row) == [row EXCEPT !.title = edits + 1, !.lost = FALSE]

RowOf_Live(tasks, i) ==
  [id |-> i, title |-> tasks[i].title, dirty |-> FALSE,
   deleted |-> FALSE, born |-> tasks[i].born, early |-> FALSE, lost |-> FALSE]
NewRow_Zero == [id |-> 0, title |-> 0, dirty |-> TRUE,
                deleted |-> FALSE, born |-> 0, early |-> FALSE, lost |-> FALSE]

\* a row as it is read from task i, and the lists that a query may return
RowOf(tasks, i) ==
  [id |-> i, title |-> tasks[i].title, dirty |-> FALSE,
   deleted |-> tasks[i].deleted, born |-> tasks[i].born, early |-> FALSE, lost |-> FALSE]
NewRow == [id |-> Unsaved, title |-> 0, dirty |-> TRUE,
           deleted |-> FALSE, born |-> 0, early |-> FALSE, lost |-> FALSE]
KeywordRow(k)  == [NewRow EXCEPT !.id = k, !.dirty = FALSE]

\* a keyword with commas in its name stands for several, and a task may be in the list
\* for each of them
Results(tasks) == SeqOf(ExistIn(tasks), MaxTasks)
Lists(tasks)   == {ids \in Results(tasks) : IsInjective(ids)}

\* what the database has of a row
InDatabase(row) ==
  \E i \in ExistIn(task) : task[i].born = row.born /\ task[i].title = row.title

\* a row is put in the place of the one under the cursor
Replaced(row) == [rows EXCEPT ![fr + 1] = row]
Typed(row)    == [row EXCEPT !.title = edits + 1, !.dirty = TRUE, !.lost = FALSE]

\* other rows, with the cursor on the first
FirstRow(n) == 0
Show(tasks, ids) ==
  /\ rows' = [k \in DOMAIN ids |-> RowOf(tasks, ids[k])]
  /\ fr' = FirstRow(fr) /\ stale' = FALSE

ModeFor(ids) == IF ids = <<>> THEN "NO_ROWS" ELSE lastMode

\* getItems: a search is not a query that it knows, and leaves no rows; nor does a query
\* that the database refuses
GetItems(tasks, m) ==
  \/ /\ Show(tasks, <<>>) /\ mode' = m
     /\ UNCHANGED view
     /\ \/ found' /\ UNCHANGED faults
        \/ ~found' /\ faults < MaxFaults /\ faults' = faults + 1
  \/ /\ ~found' /\ UNCHANGED faults
     /\ \E ids \in Results(tasks) : Show(tasks, ids) /\ mode' = ModeFor(ids)
     /\ view' = "TASK"

\* getContainers
ShowKeywords ==
  /\ rows' = [k \in 1..KeywordRows |-> KeywordRow(k)]
  /\ fr' = FirstRow(fr) /\ view' = "KEYWORD" /\ stale' = FALSE

Init ==
  /\ task = [i \in Ids |-> IF i > Stored THEN NoTask
                           ELSE [NoTask EXCEPT !.exists = TRUE, !.born = i]]
  /\ births = Stored
  /\ \E ids \in Lists(task) :
       /\ rows = [k \in DOMAIN ids |-> RowOf(task, ids[k])]
       /\ mode = IF ids = <<>> THEN "NO_ROWS" ELSE "NORMAL"
  /\ fr = 0 /\ lastMode = "NORMAL" /\ view = "TASK" /\ found = FALSE
  /\ run = "yes" /\ stale = FALSE
  /\ edits = 0 /\ faults = 0

-----------------------------------------------------------------------------
(* Keys *)

In(ms)  == run = "yes" /\ mode \in ms
Normal  == In({"NORMAL", "FIND"})      \* FIND passes the key to NORMAL
Back    == mode' = "NORMAL" /\ UNCHANGED lastMode
Edit    == edits < MaxEdits /\ edits' = edits + 1

Crash   == run' = "crash" /\ UNCHANGED <<tables, list, modes, bounds>>

\* a key that needs the row under the cursor, or a command that does, finds none
NoRow == In(Modes \ {"NO_ROWS"}) /\ ~InRange /\ Crash

\* getItems is asked to sort by a column it does not know; or by gt for the tasks of a
\* keyword, of which the list of keywords has forgotten the name
NoName ==
  /\ \/ In({"COMMAND_LINE"}) /\ view = "TASK"
     \/ Normal /\ view = "KEYWORD"
  /\ ~found /\ Crash

\* outlineMoveCursor
Move(to) ==
  /\ In({"NORMAL", "INSERT", "FIND", "FILTER"})
  /\ to \in {fr - 1, fr + 1} \cap 0..(Len(rows) - 1)
  /\ fr' = to
  /\ UNCHANGED <<tables, rows, view, found, stale, modes, run, bounds>>

\* gg with a count, and G
GoTo(n) ==
  /\ Normal
  /\ fr' = n - 1
  /\ run' = IF n <= Len(rows) THEN run ELSE "crash"
  /\ Back
  /\ UNCHANGED <<tables, rows, view, found, stale, bounds>>

\* i, a, A and I
Insert ==
  /\ Normal
  /\ mode' = "INSERT"
  /\ UNCHANGED <<tables, list, lastMode, run, bounds>>

\* a letter or a backspace in INSERT mode; nothing happens without rows
Type ==
  /\ In({"INSERT"}) /\ InRange /\ IsTask(At) /\ Edit
  /\ rows' = Replaced(Typed(At))
  /\ UNCHANGED <<tables, fr, view, found, stale, modes, run, faults>>

\* x, s, ~, r, p, d$, daw and the like
Change(next) ==
  /\ Normal /\ InRange /\ IsTask(At) /\ Edit
  /\ rows' = Replaced(Typed(At))
  /\ mode' = next
  /\ UNCHANGED <<tables, fr, view, found, stale, lastMode, run, faults>>

\* dw: the title is changed and dirty is not set; the table of keys has dw a second time
\* where cw was meant
DeleteWord ==
  /\ Normal /\ InRange /\ IsTask(At) /\ Edit
  /\ rows' = Replaced([At EXCEPT !.title = edits + 1, !.lost = ~At.dirty])
  /\ Back
  /\ UNCHANGED <<tables, fr, view, found, stale, run, faults>>

\* updateTitle, insertRow: what is dirty is stored, if the database takes it, and is
\* not dirty then in any case; updateKeywordTitle, after a search that was made in the
\* list of keywords, is given a task and stores it as a keyword
Update(i, title) == IF task[i].exists THEN [task EXCEPT ![i].title = title] ELSE task
Inserted(row, n) == [exists |-> TRUE, title |-> row.title, deleted |-> FALSE, born |-> n]

StoreTitle ==
  \/ /\ ~At.dirty
     /\ UNCHANGED <<task, births, rows, faults>>
  \/ /\ At.dirty /\ At.id # Unsaved /\ view = "TASK"
     /\ task' = Update(At.id, At.title)
     /\ rows' = Replaced([At EXCEPT !.dirty = FALSE, !.lost = FALSE])
     /\ UNCHANGED <<births, faults>>
  \/ /\ At.dirty /\ At.id = Unsaved /\ view = "TASK"
     /\ NextId(task) \in Ids /\ births < MaxBirths
     /\ task' = [task EXCEPT ![NextId(task)] = Inserted(At, births + 1)]
     /\ births' = births + 1
     /\ rows' = Replaced([At EXCEPT !.dirty = FALSE, !.lost = FALSE,
                                    !.id = NextId(task), !.born = births + 1])
     /\ UNCHANGED faults
  \/ /\ At.dirty /\ view = "TASK" /\ faults < MaxFaults
     /\ faults' = faults + 1
     /\ rows' = Replaced([At EXCEPT !.dirty = FALSE, !.lost = TRUE])
     /\ UNCHANGED <<task, births>>
  \/ /\ At.dirty /\ view = "KEYWORD"
     /\ rows' = Replaced([At EXCEPT !.dirty = FALSE, !.lost = TRUE])
     /\ UNCHANGED <<task, births, faults>>

\* return in INSERT mode, or in NORMAL mode when the row is dirty
ReturnDirty ==
  /\ InRange
  /\ \/ In({"INSERT"})
     \/ Normal /\ At.dirty
  /\ StoreTitle
  /\ Back
  /\ UNCHANGED <<fr, view, found, stale, run, edits>>

\* return in NORMAL mode: the tasks of the keyword, or the list again
ReturnClean ==
  /\ Normal /\ InRange /\ ~At.dirty
  /\ found' = (found /\ view = "TASK")
  /\ GetItems(task, "NORMAL")
  /\ UNCHANGED <<tables, lastMode, run, edits>>

\* dd: toggleDeleted writes the opposite of what the row shows, in the table of the view
Delete ==
  /\ Normal /\ InRange
  /\ rows' = Replaced([At EXCEPT !.deleted = ~@, !.early = @ \/ At.id = Unsaved])
  /\ task' = IF view = "TASK" /\ At.id \in ExistIn(task)
             THEN [task EXCEPT ![At.id].deleted = ~At.deleted] ELSE task
  /\ Back
  /\ UNCHANGED <<births, fr, view, found, stale, run, bounds>>

\* gt: the next context or folder
NextContainer ==
  /\ Normal
  /\ UNCHANGED found
  /\ GetItems(task, "NORMAL")
  /\ UNCHANGED <<tables, lastMode, run, edits>>

Escape ==
  /\ \/ In({"INSERT", "COMMAND_LINE"}) /\ mode' = "NORMAL"
     \/ In({"FIND"}) /\ InRange /\ mode' = "NORMAL"
     \/ In({"FILE"}) /\ InRange /\ mode' = lastMode
  /\ UNCHANGED <<tables, list, lastMode, run, bounds>>

\* i in NO_ROWS mode, which does not always mean that there are none
FirstInsert ==
  /\ In({"NO_ROWS"}) /\ view = "TASK" /\ Len(rows) < MaxTasks
  /\ rows' = <<NewRow>> \o rows
  /\ mode' = "INSERT"
  /\ UNCHANGED <<tables, fr, view, found, stale, lastMode, run, bounds>>

Colon ==
  /\ \/ In({"NORMAL", "NO_ROWS"}) /\ lastMode' = mode
     \/ In({"FIND"}) /\ lastMode' = "NORMAL"
     \/ In({"FILE"}) /\ UNCHANGED lastMode
  /\ mode' = "COMMAND_LINE"
  /\ UNCHANGED <<tables, list, run, bounds>>

-----------------------------------------------------------------------------
(* Commands *)

Command == In({"COMMAND_LINE"})

\* :o, :of and :ok, whose mode is NORMAL whatever getItems found, or if it was refused
Asked(ids) ==
  /\ Show(task, ids)
  /\ view' \in IF ids = <<>> THEN {view, "TASK"} ELSE {"TASK"}

Open ==
  /\ Command
  /\ found' = FALSE
  /\ \E ids \in Results(task) : Asked(ids)
  /\ mode' = "NORMAL"
  /\ UNCHANGED <<tables, lastMode, run, bounds>>

\* :recent
Recent ==
  /\ Command
  /\ found' = FALSE
  /\ GetItems(task, mode)
  /\ UNCHANGED <<tables, lastMode, run, edits>>

\* :sort, :show and :join keep the marked entries
Reorder ==
  /\ Command /\ view = "TASK" /\ ~found
  /\ UNCHANGED found
  /\ GetItems(task, mode)
  /\ UNCHANGED <<tables, lastMode, run, edits>>

\* :r
Refresh ==
  /\ Command
  /\ \/ view = "TASK" /\ (\E ids \in Results(task) : Show(task, ids)) /\ UNCHANGED view
     \/ view = "KEYWORD" /\ ShowKeywords
  /\ mode' = lastMode
  /\ UNCHANGED <<tables, found, lastMode, run, bounds>>

\* :find: the full-text index may name any task, and may not understand the words; the
\* view stays what it was, the list of keywords even
Find ==
  /\ Command
  /\ found' = TRUE
  /\ \E ids \in Lists(task) :
       /\ Show(task, ids)
       /\ mode' \in IF ids = <<>> THEN {"NO_ROWS", mode} ELSE {"FIND"}
  /\ UNCHANGED <<tables, view, lastMode, run, bounds>>

\* :n
New ==
  /\ Command /\ view = "TASK" /\ Len(rows) < MaxTasks
  /\ rows' = <<NewRow>> \o rows /\ fr' = 0
  /\ mode' = "INSERT"
  /\ UNCHANGED <<tables, view, found, stale, lastMode, run, bounds>>

\* :copy
Copy ==
  /\ Command /\ InRange /\ At.id \in ExistIn(task) /\ Edit
  /\ NextId(task) \in Ids /\ births < MaxBirths
  /\ births' = births + 1
  /\ task' = [task EXCEPT ![NextId(task)] =
                Inserted([At EXCEPT !.title = edits + 1], births + 1)]
  /\ UNCHANGED found
  /\ GetItems(task', mode)
  /\ UNCHANGED <<lastMode, run>>

\* updateRows, when the database refuses row number bad, or none if that is 0: the rows
\* it stores, as far as the first of an old task that is refused, and their ids
Saves(bad) ==
  {k \in DOMAIN rows : rows[k].dirty /\ k # bad
                       /\ (bad # 0 /\ k > bad => rows[bad].id = Unsaved)}
News(bad)     == {k \in Saves(bad) : rows[k].id = Unsaved}
Before(bad, k) == Cardinality({j \in News(bad) : j < k})
SavedId(bad, k) == IF rows[k].id = Unsaved THEN NextId(task) + Before(bad, k) ELSE rows[k].id
SavedBorn(bad, k) == IF k \in News(bad) THEN births + Before(bad, k) + 1 ELSE rows[k].born
SavedTask(bad, i) ==
  LET of  == {k \in Saves(bad) : SavedId(bad, k) = i}
      new == of \cap News(bad)
  IN IF new # {} THEN Inserted(rows[Max(of)], SavedBorn(bad, Max(new)))
     ELSE IF of # {} /\ task[i].exists
     THEN [task[i] EXCEPT !.title = rows[Max(of)].title]
     ELSE task[i]

\* a new row's task may be stored and its title not indexed, and its id is then not kept
Ended(bad)   == bad # 0 /\ rows[bad].id # Unsaved
IdsOf(bad, mute) == Saves(bad) \ {mute}
Tried(bad)   == IF bad # 0 /\ ~Ended(bad) THEN Saves(bad) \cup {bad} ELSE Saves(bad)

\* the ids are then used as indices of the rows that are not dirty any more, unless a
\* refusal ended the loop; a new row's id and dirty were set in a copy of the row
Cleans(bad, mute) ==
  IF Ended(bad) THEN {} ELSE {SavedId(bad, k) + 1 : k \in IdsOf(bad, mute)}
Cleaned(bad, mute, end) ==
  [k \in DOMAIN rows |->
     LET dirty == rows[k].dirty /\ k \notin Cleans(bad, mute) IN
     [rows[k] EXCEPT !.born = SavedBorn(bad, k), !.dirty = dirty,
        !.lost = @ \/ (rows[k].dirty /\ k \notin Saves(bad) /\ (~dirty \/ end = "quit"))]]

\* an id that is not the number of a row ends the program, and an id put behind the end
\* of the array may end it
Overrun(bad, mute) ==
  \E k \in Tried(bad) : Cardinality({j \in IdsOf(bad, mute) : j < k}) >= MaxSaved
UpdateRows(end) ==
  \E bad \in 0..Len(rows) : \E mute \in News(bad) \cup {0} :
    /\ bad # 0 => rows[bad].dirty /\ mute = 0
    /\ faults' = (IF bad + mute = 0 THEN faults ELSE faults + 1) /\ faults' <= MaxFaults
    /\ births + Cardinality(News(bad)) <= MaxBirths
    /\ \A k \in Saves(bad) : SavedId(bad, k) \in Ids
    /\ task' = [i \in Ids |-> SavedTask(bad, i)]
    /\ births' = births + Cardinality(News(bad))
    /\ \/ /\ Cleans(bad, mute) \subseteq DOMAIN rows
          /\ rows' = Cleaned(bad, mute, end) /\ run' = end
       \/ /\ \/ ~(Cleans(bad, mute) \subseteq DOMAIN rows)
             \/ Overrun(bad, mute)
          /\ run' = "crash"
          /\ UNCHANGED rows

\* :w
Write ==
  /\ Command
  /\ \/ view = "TASK" /\ UpdateRows("yes")
     \/ view = "KEYWORD" /\ UNCHANGED <<tables, rows, run, faults>>
  /\ mode' = lastMode
  /\ UNCHANGED <<fr, view, found, stale, lastMode, edits>>

\* :x exits, whether the rows were written or not
WriteAndQuit ==
  /\ Command
  /\ \/ view = "TASK" /\ UpdateRows("quit")
     \/ /\ view = "KEYWORD" /\ run' = "left"
        /\ UNCHANGED <<tables, rows, faults>>
  /\ UNCHANGED <<fr, view, found, stale, modes, edits>>

\* :q
Quit ==
  /\ Command
  /\ IF \E k \in DOMAIN rows : rows[k].dirty
     THEN mode' = "NORMAL" /\ UNCHANGED run
     ELSE run' = "quit" /\ UNCHANGED mode
  /\ UNCHANGED <<tables, list, lastMode, bounds>>

\* :q!
Leave ==
  /\ Command
  /\ run' = "left"
  /\ UNCHANGED <<tables, list, modes, bounds>>

\* :sync: what was marked as deleted is gone then, and at most one more task is changed,
\* gone or new; the rows are those from before
Kept == [i \in Ids |-> IF task[i].deleted THEN NoTask ELSE task[i]]
Sync ==
  /\ Command /\ faults < MaxFaults /\ faults' = faults + 1
  /\ \/ /\ task' = Kept
        /\ UNCHANGED <<births, edits>>
     \/ /\ Edit
        /\ \E i \in ExistIn(Kept) : task' = [Kept EXCEPT ![i].title = edits + 1]
        /\ UNCHANGED births
     \/ /\ \E i \in ExistIn(Kept) : task' = [Kept EXCEPT ![i] = NoTask]
        /\ UNCHANGED <<births, edits>>
     \/ /\ NextId(Kept) \in Ids /\ births < MaxBirths
        /\ births' = births + 1
        /\ task' = [Kept EXCEPT ![NextId(Kept)] = Inserted(NewRow, births + 1)]
        /\ UNCHANGED edits
  /\ stale' = TRUE
  /\ mode' = "FILE"
  /\ UNCHANGED <<rows, fr, view, found, lastMode, run>>

\* :h
Help ==
  /\ Command
  /\ mode' = "FILE" /\ lastMode' = "COMMAND_LINE"
  /\ UNCHANGED <<tables, list, run, bounds>>

\* a command that is not known, is not given what it needs, or changes keywords only
Other ==
  /\ Command
  /\ mode' \in {"NORMAL", lastMode}
  /\ UNCHANGED <<tables, list, lastMode, run, bounds>>

\* :k
Keywords ==
  /\ Command
  /\ ShowKeywords
  /\ mode' = IF KeywordRows = 0 THEN "NO_ROWS" ELSE "NORMAL"
  /\ UNCHANGED <<tables, found, lastMode, run, bounds>>

\* :addk without a name: the keyword is chosen from the list of keywords
ChooseKeyword ==
  /\ Command /\ InRange
  /\ ShowKeywords
  /\ mode' = IF KeywordRows = 0 THEN "NO_ROWS" ELSE "FILTER"
  /\ UNCHANGED <<tables, found, lastMode, run, bounds>>

\* escape there gives the last command of the page history again, then NORMAL mode
LeaveKeywords ==
  /\ In({"FILTER"})
  /\ \/ found' = FALSE /\ \E ids \in Results(task) : Asked(ids)
     \/ found' = TRUE /\ UNCHANGED view /\ \E ids \in Lists(task) : Show(task, ids)
  /\ mode' = "NORMAL"
  /\ UNCHANGED <<tables, lastMode, run, bounds>>

-----------------------------------------------------------------------------
Keys ==
  \/ NoRow \/ NoName \/ Insert \/ Type \/ DeleteWord \/ ReturnDirty \/ ReturnClean \/ Delete
  \/ NextContainer \/ Escape \/ FirstInsert \/ Colon \/ LeaveKeywords
  \/ \E next \in {"NORMAL", "INSERT"} : Change(next)
  \/ \E n \in 0..MaxTasks : Move(n) \/ GoTo(n + 1)

Commands ==
  \/ Open \/ Recent \/ Reorder \/ Refresh \/ Find \/ New \/ Copy \/ Write \/ WriteAndQuit
  \/ Quit \/ Leave \/ Sync \/ Help \/ Other \/ Keywords \/ ChooseKeyword

Next == Keys \/ Commands

Spec == Init /\ [][Next]_vars

-----------------------------------------------------------------------------
(* Properties *)

\* Every variable holds a value of its kind.
TypeOK ==
  /\ task \in [Ids -> Task] /\ births \in Births
  /\ rows \in Seq(Row) /\ fr \in Nat
  /\ mode \in Modes /\ lastMode \in Modes /\ view \in {"TASK", "KEYWORD"}
  /\ found \in BOOLEAN /\ stale \in BOOLEAN
  /\ run \in {"yes", "quit", "left", "crash"}
  /\ edits \in 0..MaxEdits /\ faults \in 0..MaxFaults

\* However the rows were replaced, the cursor is on one of them if there are any: keys
\* and commands take the row under it with rows.at(), which ends the program otherwise.
CursorInList == run = "yes" /\ rows # <<>> => fr < Len(rows)

\* The keys that take the row under the cursor are given one, or none are: when the list
\* becomes empty the mode says so.  It does not after :o, :of, :ok, :r and the escape from
\* the list of keywords, when a search is made again as a query, and when a query fails.
RowWanted == run = "yes" /\ mode \in {"NORMAL", "FIND", "FILTER", "FILE"}
EmptyIsSaid ==
  [][RowWanted' /\ ~InRange' =>
       \/ ~InRange /\ mode # "NO_ROWS"
       \/ Open \/ Refresh \/ LeaveKeywords \/ found' \/ faults' # faults]_vars

\* a row of a task that another row is of as well
Twice(k) == rows[k].born # 0 /\ \E j \in DOMAIN rows \ {k} : rows[j].born = rows[k].born

\* A title on the screen is that of its task in the database, or is known not to be: the
\* row is dirty, and the program goes on until it is stored, or a statement was refused,
\* or dw changed it, or the task is in the list twice, or a way was taken in which the
\* code forgets it.
TitlesKept ==
  run \in {"yes", "quit"} /\ ~stale =>
    \A k \in DOMAIN rows :
      \/ ~IsTask(rows[k]) \/ rows[k].lost \/ Twice(k)
      \/ run = "yes" /\ rows[k].dirty
      \/ InDatabase(rows[k])

\* The id of a row is never that of another task while the task that the row was read from
\* or saved as is there, and until a sync it is there: ids are used again, for other tasks.
\* Until then dd has left the same flag in both, unless the row was given to it before it
\* had a task, or is not the task's only one.
RowsAreTasks ==
  run = "yes" =>
    \A k \in DOMAIN rows :
      rows[k].id # Unsaved /\ rows[k].born # 0 =>
        /\ \A i \in ExistIn(task) : task[i].born = rows[k].born => i = rows[k].id
        /\ ~stale =>
             /\ task[rows[k].id].exists /\ task[rows[k].id].born = rows[k].born
             /\ view = "TASK" /\ ~rows[k].early /\ ~Twice(k)
                  => task[rows[k].id].deleted = rows[k].deleted
=============================================================================
