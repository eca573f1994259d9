----------------------------- MODULE EditorUndo -----------------------------
(***************************************************************************)
(* The keys of a note's editor (editorProcessKeypress in src/listman.cpp)  *)
(* that change its text, and undo, redo and dot (src/editor.cpp).  A       *)
(* change is undone from a Diff, which holds as little as its command      *)
(* allows, and redone by doing the command again.                          *)
(*                                                                         *)
(* A note has no blanks and no tabs, so that nothing is indented.  The     *)
(* variables timeline and plain only observe.                              *)
(***************************************************************************)
EXTENDS Integers, Sequences, FiniteSets, SequencesExt

CONSTANTS
  Letters,     \* what texts are made of
  Typed,       \* the letters that are typed
  Return,      \* the return key
  Notes,       \* texts to start with
  Outcomes,    \* of saving a note: TRUE, and FALSE when the database refuses
  MaxRepeat,   \* bound on the count before a command
  MaxTyped,    \* bound on what is typed in INSERT mode
  MaxChanges   \* bound on the commands

ASSUME EditorUndoAssumption ==
  /\ MaxRepeat \in Nat \ {0} /\ MaxTyped \in Nat /\ MaxChanges \in Nat
  /\ Typed \subseteq Letters /\ Return \notin Letters
  /\ Notes \subseteq Seq(Seq(Letters)) /\ Outcomes \subseteq BOOLEAN

Keys    == Typed \cup {Return}
Repeats == 1..MaxRepeat

VARIABLES
  ed,          \* rows, the cursor fr and fc (from 0), dirty; ok until an
               \* access out of bounds, after which anything may happen
  mode,
  prev,        \* prev_fr, prev_fc
  snapshot,    \* the rows before the command
  lastCommand, lastRepeat, lastTyped,
  buffer,      \* line_buffer
  undo_deque, d_index,
  stuck,       \* command[] still holds a dot
  saved,       \* the note in the database
  changes,     \* the commands so far
  timeline,    \* the notes that undo and redo should pass, the newest first
  plain        \* no use of the keys that undo or redo does not cope with

typing  == <<lastCommand, lastRepeat, lastTyped>>
before  == <<prev, snapshot>>
history == <<undo_deque, d_index, timeline>>
vars    == <<ed, mode, before, typing, buffer, history, stuck, saved,
             changes, plain>>

Map1 == {"i", "a"}
Map2 == {"o", "O"}
Map3 == {"x", "dd"}
Map4 == {"s"}
LineCommands   == {"i", "a", "s", "x"}
InsertCommands == Map1 \cup Map2 \cup Map4
OtherCommands  == Map3 \cup {"p"}

-----------------------------------------------------------------------------
(* Texts *)

Lesser(a, b) == IF a < b THEN a ELSE b

Cut(s, i, n)   == SubSeq(s, 1, i) \o SubSeq(s, i + n + 1, Len(s))
Put(s, i, new) == SubSeq(s, 1, i) \o new \o SubSeq(s, i + 1, Len(s))
Times(n, s)    ==
  LET after[i \in 0..n] == IF i = 0 THEN <<>> ELSE after[i - 1] \o s
  IN  after[n]

\* what rows are saved as: no row and one empty row are the same text
Note(rows) == IF rows = <<>> THEN << <<>> >> ELSE rows

Row(e)         == e.rows[e.fr + 1]
Changed(e, rs) == [e EXCEPT !.rows = rs, !.dirty = TRUE]
Failed(e)      == [e EXCEPT !.ok = FALSE]
OnRow(e)       == e.ok /\ e.fr < Len(e.rows)
OnText(e)      == OnRow(e) /\ e.fc <= Len(Row(e))

\* editorScroll, after every key.  A bug for the runs: the row is not checked.
Scroll_RowKept(e, m) == IF e.rows = <<>> THEN [e EXCEPT !.fr = 0, !.fc = 0] ELSE e
Scroll(e, m) ==
  LET r    == Lesser(e.fr, Len(e.rows) - 1)
      size == Len(e.rows[r + 1])
      last == IF m = "INSERT" \/ size = 0 THEN size ELSE size - 1
  IN  IF e.rows = <<>> THEN [e EXCEPT !.fr = 0, !.fc = 0]
      ELSE [e EXCEPT !.fr = r, !.fc = IF @ < size THEN @ ELSE last]

-----------------------------------------------------------------------------
(* What keys and commands do to the text *)

InsertChars(e, chars) ==
  LET e1 == IF e.ok /\ e.rows = <<>> THEN Changed(e, << <<>> >>) ELSE e
  IN  IF chars = <<>> THEN e
      ELSE IF ~OnText(e1) THEN Failed(e1)
      ELSE [Changed(e1, [e1.rows EXCEPT ![e1.fr + 1] = Put(@, e1.fc, chars)])
            EXCEPT !.fc = @ + Len(chars)]

InsertChar(e, c) == InsertChars(e, <<c>>)

\* dirty stays
InsertReturn(e) ==
  IF ~OnText(e) THEN Failed(e)
  ELSE LET row == Row(e)
       IN  [e EXCEPT !.rows = Put(Cut(@, e.fr, 1), e.fr,
                                  << SubSeq(row, 1, e.fc),
                                     SubSeq(row, e.fc + 1, Len(row)) >>),
                     !.fr = @ + 1, !.fc = 0]

InsertKey(e, k)     == IF k = Return THEN InsertReturn(e) ELSE InsertChar(e, k)
InsertKeys(e, keys) ==
  LET after[i \in 0..Len(keys)] == IF i = 0 THEN e ELSE InsertKey(after[i - 1], keys[i])
  IN  after[Len(keys)]

\* dir is 1 below the cursor and 0 above
InsertNewline(e, dir) ==
  IF e.ok /\ e.rows = <<>> THEN Changed(e, << <<>> >>)
  ELSE IF ~OnRow(e) THEN Failed(e)
  ELSE [Changed(e, Put(e.rows, e.fr + dir, << <<>> >>))
        EXCEPT !.fr = @ + dir, !.fc = 0]

Backspaced(e) ==
  IF e.fc = 0 /\ e.fr = 0 THEN e
  ELSE IF ~OnText(e) THEN Failed(e)
  ELSE IF e.fc > 0
       THEN [Changed(e, [e.rows EXCEPT ![e.fr + 1] = Cut(@, e.fc - 1, 1)])
             EXCEPT !.fc = @ - 1]
       ELSE LET joined == IF Len(Row(e)) > 1 THEN e.rows[e.fr] \o Row(e)
                          ELSE e.rows[e.fr]
            IN  [Changed(e, Cut([e.rows EXCEPT ![e.fr] = joined], e.fr, 1))
                 EXCEPT !.fr = @ - 1, !.fc = Len(joined)]

\* a bug for the runs: x and s do not count as changes
Erased_Clean(e, n) ==
  IF ~OnText(e) THEN Failed(e)
  ELSE IF Row(e) = <<>> THEN e
  ELSE [e EXCEPT !.rows[e.fr + 1] = Cut(@, e.fc, Lesser(n, Len(@) - e.fc))]

Erased(e, n) ==
  IF ~OnText(e) THEN Failed(e)
  ELSE IF Row(e) = <<>> THEN e
  ELSE Changed(e, [e.rows EXCEPT ![e.fr + 1] =
                     Cut(@, e.fc, Lesser(n, Len(@) - e.fc))])

\* the rows that dd takes; taking the last row of all leaves dirty as it is
Taken(e, n) == SubSeq(e.rows, e.fr + 1, Lesser(e.fr + n, Len(e.rows)))
RowsDeleted(e, n) ==
  LET left == Cut(e.rows, e.fr, Len(Taken(e, n)))
  IN  IF Taken(e, n) = <<>> THEN e
      ELSE IF left = <<>>
      THEN [e EXCEPT !.rows = left, !.fr = 0, !.fc = 0,
                     !.dirty = @ \/ Len(e.rows) > 1]
      ELSE Changed(e, left)

\* dirty stays
Pasted(e) ==
  IF e.ok /\ e.rows = <<>> THEN [e EXCEPT !.rows = buffer, !.fr = 0, !.fc = 0]
  ELSE IF ~OnRow(e) THEN Failed(e)
  ELSE [e EXCEPT !.rows = Put(@, e.fr + 1, buffer), !.fr = @ + 1, !.fc = 0]

\* e_lookup
Does(command, e, n) ==
  CASE command = "i"          -> e
    [] command = "a"          -> IF e.rows = <<>> THEN e ELSE [e EXCEPT !.fc = @ + 1]
    [] command = "o"          -> InsertNewline(e, 1)
    [] command = "O"          -> InsertNewline(e, 0)
    [] command \in {"x", "s"} -> Erased(e, n)
    [] command = "dd"         -> RowsDeleted(e, n)
    [] command = "p"          -> Pasted(e)

\* E_o_escape and E_O_escape
Opened(command, e, n, keys) ==
  LET after[i \in 0..n] ==
        IF i = 0 THEN e ELSE InsertKeys(Does(command, after[i - 1], 1), keys)
  IN  after[n]

\* a command done again, with what was typed after it
Repeated(command, e, n, keys) ==
  CASE command \in Map1 -> InsertKeys(Does(command, e, n), Times(n, keys))
    [] command \in Map2 -> Opened(command, e, n, keys)
    [] command \in Map4 -> InsertKeys(Does(command, e, n), keys)
    [] OTHER            -> Does(command, e, n)

Yanked(command, e, n) == IF command = "dd" THEN Taken(e, n) ELSE buffer

-----------------------------------------------------------------------------
(* Diffs: n is the count of the command, at the cursor before it and snap *)
(* the rows                                                               *)

Method(command, num_rows) ==
  CASE command \in LineCommands ->
         IF num_rows = 1 THEN "CHANGE_ROW" ELSE "CHANGE_ROW_AND_DELETE_ROWS"
    [] command = "dd"           -> "ADD_ROWS"
    [] command = "p"            -> IF buffer = <<>> THEN "CHANGE_ROW" ELSE "DELETE_ROWS"
    [] command \in Map2         -> "DELETE_ROWS"

\* snapshot.at, and the rows from snapshot.begin() + d.fr to + repeat
Keepable(command, n, snap, at) ==
  CASE command \in LineCommands -> at.fr < Len(snap)
    [] command = "dd"           -> at.fr + n <= Len(snap)
    [] OTHER                    -> TRUE

Kept(command, n, snap, at) ==
  CASE command \in LineCommands -> << snap[at.fr + 1] >>
    [] command = "dd"           -> SubSeq(snap, at.fr + 1, at.fr + n)
    [] OTHER                    -> <<>>

\* get_num_rows.  A bug for the runs: the returns are not counted.
NumRows_NoReturns(keys) == 1
NumRows(keys) == 1 + Cardinality({i \in DOMAIN keys : keys[i] = Return})

DiffOf(command, n, keys, snap, at) ==
  [fr |-> at.fr, fc |-> at.fc, repeat |-> n, command |-> command, typed |-> keys,
   method   |-> Method(command, NumRows(keys)),
   rows     |-> IF command # "p" THEN Kept(command, n, snap, at)
                ELSE IF buffer # <<>> THEN buffer ELSE << snap[at.fr + 1] >>,
   num_rows |-> IF command # "p" THEN NumRows(keys)
                ELSE IF buffer # <<>> THEN Len(buffer) ELSE 1]

\* push_previous: the Diff of a dot, whose own count is n
DiffAgain(d, n, snap, at) ==
  [d EXCEPT !.fr     = IF d.command = "p" THEN at.fr + 1 ELSE at.fr,
            !.fc     = at.fc,
            !.method = IF d.command \in Map2 THEN "REPLACE_NOTE" ELSE @,
            !.rows   = IF d.command = "p" THEN buffer
                       ELSE IF d.command \in Map2 THEN snap
                       ELSE Kept(d.command, n, snap, at)]

\* undo.  A bug for the runs: O opens a row below, as o does.
First_Below(d) == d.fr + 1
First(d) == IF d.command = "O" THEN d.fr ELSE d.fr + 1

CanUndo(rows, d) ==
  CASE d.method = "CHANGE_ROW"   -> d.fr < Len(rows) /\ d.rows # <<>>
    [] d.method = "ADD_ROWS"     -> d.fr <= Len(rows)
    [] d.method = "DELETE_ROWS"  -> First(d) + d.num_rows <= Len(rows)
    [] d.method = "REPLACE_NOTE" -> TRUE
    [] OTHER                     -> d.fr + d.num_rows <= Len(rows)

Undone(rows, d) ==
  CASE d.method = "CHANGE_ROW"   -> [rows EXCEPT ![d.fr + 1] = d.rows[1]]
    [] d.method = "ADD_ROWS"     -> Put(rows, d.fr, d.rows)
    [] d.method = "DELETE_ROWS"  -> Cut(rows, First(d), d.num_rows)
    [] d.method = "REPLACE_NOTE" -> d.rows
    [] OTHER -> [Cut(rows, d.fr + 1, d.num_rows - 1) EXCEPT ![d.fr + 1] = d.rows[1]]

-----------------------------------------------------------------------------
\* F_edit: an empty note is opened for inserting; nothing sets d_index
Init ==
  \E note \in Notes :
    /\ ed = [rows |-> note, fr |-> 0, fc |-> 0, dirty |-> FALSE, ok |-> TRUE]
    /\ mode = IF note = <<>> THEN "INSERT" ELSE "NORMAL"
    /\ prev = [fr |-> 0, fc |-> 0]
    /\ snapshot = IF note = <<>> THEN << <<>> >> ELSE <<>>
    /\ lastCommand = IF note = <<>> THEN "i" ELSE ""
    /\ lastRepeat = 1 /\ lastTyped = <<>>
    /\ buffer = <<>>
    /\ undo_deque = <<>> /\ d_index \in {0, 1}
    /\ timeline = << Note(note) >>
    /\ stuck = FALSE /\ saved = Note(note)
    /\ changes = 0 /\ plain = TRUE

Inserting == mode = "INSERT" /\ ed.ok
Commanded == mode = "NORMAL" /\ ed.ok /\ ~stuck /\ changes < MaxChanges

\* the text after a key, and the mode: deleting the last row changes it
Shown(e, m) ==
  /\ mode' = IF ed.rows # <<>> /\ e.rows = <<>> /\ m = "NORMAL" THEN "NO_ROWS" ELSE m
  /\ ed'   = Scroll(e, m)

Excluding(uses) == plain' = (plain /\ ~uses)

\* push_current, when the note has rows; the key goes on to e
PushCurrent(rows, e, command, n, keys, snap, at, m) ==
  IF ~e.ok \/ rows = <<>>
  THEN Shown(e, m) /\ UNCHANGED history
  ELSE IF ~Keepable(command, n, snap, at)
  THEN Shown(Failed(e), m) /\ UNCHANGED history
  ELSE /\ Shown(e, m)
       /\ undo_deque' = << DiffOf(command, n, keys, snap, at) >> \o
                        (IF d_index # 0 THEN <<>> ELSE undo_deque)
       /\ d_index'    = 0
       /\ timeline'   = << Note(e.rows), Note(snap) >> \o
                        (IF d_index = 0 THEN Tail(timeline) ELSE <<>>)

-----------------------------------------------------------------------------
(* NORMAL mode *)

\* i, a, o, O, s
Insertion(command, n) ==
  /\ Commanded
  /\ Shown(Does(command, ed, n), "INSERT")
  /\ prev'     = [fr |-> ed.fr, fc |-> ed.fc]
  /\ snapshot' = ed.rows
  /\ lastCommand' = command /\ lastRepeat' = n
  /\ lastTyped' = IF command \in Map2 THEN <<>> ELSE lastTyped
  /\ changes' = changes + 1
  /\ Excluding(\/ ed.rows = <<>>
               \/ command \in Map2 /\ n > 1
               \/ lastTyped' # <<>>)
  /\ UNCHANGED <<buffer, history, stuck, saved>>

\* x, dd, p
Change(command, n) ==
  LET at == [fr |-> ed.fr, fc |-> ed.fc]
      e  == Does(command, ed, n)
  IN  /\ Commanded
      /\ PushCurrent(e.rows, e, command, n, lastTyped, ed.rows, at, "NORMAL")
      /\ prev' = at /\ snapshot' = ed.rows
      /\ lastCommand' = command /\ lastRepeat' = n
      /\ buffer' = Yanked(command, ed, n)
      /\ changes' = changes + 1
      /\ Excluding(\/ ed.rows = <<>>
                   \/ e.rows = <<>> /\ undo_deque # <<>>
                   \/ command = "x" /\ lastTyped # <<>>
                   \/ command = "dd" /\ ~Keepable(command, n, ed.rows, at))
      /\ UNCHANGED <<lastTyped, stuck, saved>>

\* yy
YankLine(n) ==
  /\ Commanded
  /\ ed' = IF ed.fr + n <= Len(ed.rows) THEN ed ELSE Failed(ed)
  /\ buffer'   = Taken(ed, n)
  /\ prev'     = [fr |-> ed.fr, fc |-> ed.fc]
  /\ snapshot' = ed.rows
  /\ changes'  = changes + 1
  /\ Excluding(ed.fr + n > Len(ed.rows))
  /\ UNCHANGED <<mode, typing, history, stuck, saved>>

\* the arrows, h, j, k, l; they and Escape drop the dot of command[]
Move ==
  /\ mode = "NORMAL" /\ ed.ok
  /\ stuck' = FALSE
  /\ IF ed.rows = <<>> THEN UNCHANGED ed
     ELSE \E r \in 0..Len(ed.rows) - 1 : \E c \in 0..Len(ed.rows[r + 1]) :
            ed' = Scroll([ed EXCEPT !.fr = r, !.fc = c], mode)
  /\ UNCHANGED <<mode, before, typing, buffer, history, saved, changes, plain>>

Undo ==
  /\ mode = "NORMAL" /\ ed.ok
  /\ stuck' = FALSE
  /\ IF undo_deque = <<>> \/ d_index = Len(undo_deque)
     THEN UNCHANGED <<ed, d_index>>
     ELSE LET d == undo_deque[d_index + 1]
              e == [ed EXCEPT !.rows = Undone(@, d), !.fr = d.fr, !.fc = d.fc]
          IN  /\ ed' = IF CanUndo(ed.rows, d) THEN Scroll(e, mode) ELSE Failed(ed)
              /\ d_index' = d_index + 1
  /\ UNCHANGED <<mode, before, typing, buffer, undo_deque, timeline, saved, changes, plain>>

\* a command in none of the maps is the last one, if that is p
RedoOf(d) ==
  LET start   == [ed EXCEPT !.fr = d.fr, !.fc = d.fc]
      pasting == d.command = "p" /\ lastCommand = "p"
      e       == IF d.command = "p" /\ ~pasting THEN start
                 ELSE Repeated(d.command, start, d.repeat, d.typed)
  IN  /\ Shown(IF pasting \/ ~e.ok THEN e ELSE [e EXCEPT !.fr = d.fr, !.fc = d.fc], mode)
      /\ lastTyped' = d.typed
      /\ buffer' = Yanked(d.command, start, d.repeat)
      /\ Excluding(\/ /\ d.command = "p"
                      /\ ~pasting \/ d.method # "DELETE_ROWS" \/ buffer # d.rows
                   \/ d.command = "a" /\ Row(start) = <<>>)

Redo ==
  /\ mode = "NORMAL" /\ ed.ok
  /\ stuck' = FALSE
  /\ d_index' = IF d_index > 0 THEN d_index - 1 ELSE 0
  /\ IF d_index = 0
     THEN UNCHANGED <<ed, mode, lastTyped, buffer, plain>>
     ELSE IF d_index > Len(undo_deque)
     THEN ed' = Failed(ed) /\ Excluding(TRUE) /\ UNCHANGED <<mode, lastTyped, buffer>>
     ELSE RedoOf(undo_deque[d_index])
  /\ UNCHANGED <<before, lastCommand, lastRepeat, undo_deque, timeline, saved, changes>>

\* push_previous keeps what was undone, and command[] keeps the dot
Dot(n) ==
  LET at == [fr |-> ed.fr, fc |-> ed.fc]
      d  == undo_deque[1]
      e  == Repeated(lastCommand, ed, lastRepeat,
                     IF lastCommand \in Map2 THEN lastTyped ELSE d.typed)
      ok == e.ok /\ (e.rows # <<>> => Keepable(d.command, n, ed.rows, at))
  IN  /\ Commanded
      /\ prev' = at /\ snapshot' = ed.rows
      /\ stuck' = TRUE /\ changes' = changes + 1
      /\ IF undo_deque = <<>>
         THEN ed' = Failed(ed) /\ Excluding(TRUE) /\ UNCHANGED <<mode, buffer, history>>
         ELSE /\ Shown(IF ok THEN e ELSE Failed(e), mode)
              /\ buffer' = Yanked(lastCommand, ed, lastRepeat)
              /\ IF ~ok \/ e.rows = <<>>
                 THEN UNCHANGED history
                 ELSE /\ undo_deque' = << DiffAgain(d, n, ed.rows, at) >> \o undo_deque
                      /\ d_index' = 0
                      /\ timeline' = << Note(e.rows) >> \o timeline
              /\ Excluding(\/ d_index # 0 \/ lastRepeat = 0 \/ e.rows = <<>>
                           \/ lastCommand \in Map2 \cup {"p"}
                           \/ lastCommand = "dd" /\ (\/ n # lastRepeat
                                                     \/ ~Keepable("dd", n, ed.rows, at))
                           \/ lastCommand = "a" /\ Row(ed) = <<>>)
      /\ UNCHANGED <<typing, saved>>

-----------------------------------------------------------------------------
(* INSERT mode, and NO_ROWS mode *)

NoRowsInsert ==
  /\ mode = "NO_ROWS" /\ ed.ok /\ changes < MaxChanges
  /\ mode' = "INSERT"
  /\ prev' = [fr |-> 0, fc |-> 0] /\ snapshot' = << <<>> >>
  /\ lastCommand' = "i" /\ lastRepeat' = 1
  /\ changes' = changes + 1
  /\ Excluding(lastTyped # <<>>)
  /\ UNCHANGED <<ed, lastTyped, buffer, history, stuck, saved>>

Type(k) ==
  /\ Inserting /\ Len(lastTyped) < MaxTyped
  /\ Shown(InsertKey(ed, k), mode)
  /\ lastTyped' = Append(lastTyped, k)
  /\ Excluding(k = Return /\ ed.rows = <<>>)
  /\ UNCHANGED <<before, lastCommand, lastRepeat, buffer, history, stuck, saved, changes>>

Backspace ==
  /\ Inserting
  /\ Shown(Backspaced(ed), mode)
  /\ lastTyped' = IF lastTyped = <<>> THEN <<>> ELSE Front(lastTyped)
  /\ Excluding(/\ ed.fr # 0 \/ ed.fc # 0
               /\ lastTyped # <<>> => ed.fc = 0 /\ Row(ed) # <<>>)
  /\ UNCHANGED <<before, lastCommand, lastRepeat, buffer, history, stuck, saved, changes>>

\* the count of i and a is done here, a return as a character; that of o and O
\* before the Diff is made
Escape ==
  LET again == Times(lastRepeat - 1, lastTyped)
      e     == IF lastCommand \in Map2
               THEN Opened(lastCommand, ed, lastRepeat - 1, lastTyped) ELSE ed
      end   == IF lastCommand \in Map1 THEN InsertChars(e, again) ELSE e
      left  == [end EXCEPT !.fc = IF @ > 0 THEN @ - 1 ELSE 0]
  IN  /\ Inserting
      /\ PushCurrent(e.rows, left, lastCommand, lastRepeat, lastTyped, snapshot, prev, "NORMAL")
      /\ lastTyped' = <<>>
      /\ Excluding(lastCommand \in Map1 /\ lastRepeat > 1
                   /\ \E i \in 1..Len(lastTyped) : lastTyped[i] = Return)
      /\ UNCHANGED <<before, lastCommand, lastRepeat, buffer, stuck, saved, changes>>

-----------------------------------------------------------------------------
(* COMMAND_LINE mode, entered from NORMAL and NO_ROWS mode *)

AtCommandLine == mode \in {"NORMAL", "NO_ROWS"} /\ ed.ok

\* updateNote, which may fail
Saved(ok) == saved' = IF ok THEN Note(ed.rows) ELSE saved

\* :w
Write(ok) ==
  /\ AtCommandLine /\ changes < MaxChanges
  /\ Saved(ok)
  /\ ed' = [ed EXCEPT !.dirty = FALSE]
  /\ mode' = "NORMAL" /\ stuck' = FALSE /\ changes' = changes + 1
  /\ UNCHANGED <<before, typing, buffer, history, plain>>

\* : and Escape
Cancel ==
  /\ AtCommandLine /\ changes < MaxChanges
  /\ mode' = "NORMAL" /\ stuck' = FALSE /\ changes' = changes + 1
  /\ lastRepeat' = 0
  /\ UNCHANGED <<ed, before, lastCommand, lastTyped, buffer, history, saved, plain>>

Closed ==
  /\ mode' = "CLOSED"
  /\ UNCHANGED <<ed, before, typing, buffer, history, stuck, changes, plain>>

\* :q, refused when dirty
Quit == AtCommandLine /\ ~ed.dirty /\ Closed /\ UNCHANGED saved

QuitRefused ==
  /\ AtCommandLine /\ ed.dirty
  /\ mode' = "NORMAL" /\ stuck' = FALSE
  /\ UNCHANGED <<ed, before, typing, buffer, history, saved, changes, plain>>

\* :x
WriteAndQuit(ok) == AtCommandLine /\ Saved(ok) /\ Closed

\* :q!
Abandon == AtCommandLine /\ Closed /\ UNCHANGED saved

Next ==
  \/ \E command \in InsertCommands, n \in Repeats : Insertion(command, n)
  \/ \E command \in OtherCommands, n \in Repeats : Change(command, n)
  \/ \E n \in Repeats : YankLine(n) \/ Dot(n)
  \/ Move \/ Undo \/ Redo
  \/ NoRowsInsert
  \/ \E k \in Keys : Type(k)
  \/ Backspace \/ Escape
  \/ \E ok \in Outcomes : Write(ok) \/ WriteAndQuit(ok)
  \/ Cancel \/ Quit \/ QuitRefused \/ Abandon

Spec == Init /\ [][Next]_vars

-----------------------------------------------------------------------------
(* Properties *)

Texts   == Seq(Seq(Letters \cup {Return}))
Editors == [rows : Texts, fr : Nat, fc : Nat, dirty : BOOLEAN, ok : BOOLEAN]
Diffs   == [fr : Nat, fc : Nat, repeat : Nat, typed : Seq(Keys), num_rows : Nat,
          command : LineCommands \cup Map2 \cup Map3 \cup {"p"}, rows : Texts,
          method : {"CHANGE_ROW", "CHANGE_ROW_AND_DELETE_ROWS", "ADD_ROWS",
                    "DELETE_ROWS", "REPLACE_NOTE"}]

\* The cursor of src/editor.h is on the text, except for one past the end of a
\* row while inserting, and every Diff in undo_deque has the fields that undo
\* and redo read.
TypeOK ==
  /\ ed \in Editors
  /\ ed.ok => IF ed.rows = <<>> THEN ed.fr = 0 /\ ed.fc = 0
              ELSE ed.fr \in 0..Len(ed.rows) - 1 /\ ed.fc \in 0..Len(Row(ed))
  /\ mode \in {"NORMAL", "INSERT", "NO_ROWS", "CLOSED"}
  /\ prev \in [fr : Nat, fc : Nat] /\ snapshot \in Texts
  /\ lastCommand \in InsertCommands \cup OtherCommands \cup {""}
  /\ lastRepeat \in 0..MaxRepeat /\ lastTyped \in Seq(Keys)
  /\ buffer \in Texts /\ saved \in Texts
  /\ undo_deque \in Seq(Diffs) /\ d_index \in Nat
  /\ timeline \in Seq(Texts)
  /\ stuck \in BOOLEAN /\ plain \in BOOLEAN /\ changes \in 0..MaxChanges

\* However changes, undos, redos and dots follow each other (push_current, undo
\* and redo in src/editor.cpp), the note is the one that was there before the
\* d_index newest changes: undo takes back just what a change did, and redo
\* does just that again.
UndoGoesBack ==
  plain /\ mode = "NORMAL" /\ undo_deque # <<>> =>
    /\ Len(timeline) = Len(undo_deque) + 1
    /\ d_index <= Len(undo_deque)
    /\ Note(ed.rows) = timeline[d_index + 1]

\* No key reaches beyond the rows, a row, the snapshot or the changes to undo
\* (rows.at, row.insert, snapshot.at, undo_deque.at in src/editor.cpp).
InBounds == plain => ed.ok

\* What counts as a "file change since last save" (src/editor.h), so that :q asks: every
\* key that leaves another text makes the note dirty, but for a return, p, an undo, what
\* repeats a command, and taking the last row.
DirtyIsSet ==
  [][ed'.ok /\ Note(ed'.rows) # Note(ed.rows) /\ ~ed'.dirty =>
       \/ Type(Return) \/ Undo \/ Redo
       \/ \E n \in Repeats : Change("p", n) \/ Dot(n)
       \/ ed'.rows = <<>>]_vars
=============================================================================
