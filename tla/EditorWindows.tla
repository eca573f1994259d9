--------------------------- MODULE EditorWindows ----------------------------
(***************************************************************************)
(* The windows on the right of the screen: sess.editors and sess.p, the    *)
(* commands of src/cmdorg.cpp that open them, the keys of                  *)
(* editorProcessKeypress() in src/listman.cpp that go from one to another, *)
(* and those of src/editor.cpp that link, write and run notes.             *)
(*                                                                         *)
(* A note of code has a second window, below or beside it, for the output  *)
(* of the program.  A text is the number of the change that made it.       *)
(* EditorUndo has the changes themselves; here each of them makes the      *)
(* window dirty.  A sync replaces notes and tasks under the windows, which *)
(* it can do only while the list of tasks has the keyboard.                *)
(***************************************************************************)
EXTENDS Integers, SequencesExt

CONSTANTS
  MaxTasks,    \* ids are 1..MaxTasks
  MaxWindows,  \* bound on the windows at any time
  MaxLinks,    \* bound on the links
  MaxTexts,    \* bound on the texts typed, or brought by a sync
  MaxFaults    \* bound on the syncs and the writes that fail

ASSUME EditorWindowsAssumption ==
  /\ MaxTasks \in Nat \ {0} /\ MaxWindows \in Nat \ {0}
  /\ MaxLinks \in Nat /\ MaxTexts \in Nat /\ MaxFaults \in Nat

Ids     == 1..MaxTasks
NoId    == -1
Windows == 1..MaxWindows     \* the addresses of Editors; a freed one is used again
Null    == 0
Texts   == 0..MaxTexts
NoText  == 0                 \* a note without rows
Output  == 0                 \* output, and a new window for output: it may have rows or not

VARIABLES
  tasks, note,    \* sqlite: the ids of the tasks, and their notes
  links,          \* sqlite: the table link
  editors, p,     \* sess.editors and sess.p
  win,            \* what the Editors at the addresses hold
  editorMode,     \* sess.editor_mode
  run,            \* sess.run, or how the program ended
  texts, faults

stored  == <<tasks, note, links>>
windows == <<editors, p, win, editorMode>>
bounds  == <<texts, faults>>
vars    == <<stored, windows, run, bounds>>

Window == [id : Ids \cup {NoId}, linked : Windows \cup {Null},
           sub : BOOLEAN, below : BOOLEAN, text : Texts, dirty : BOOLEAN,
           behind : BOOLEAN]   \* history: clean, but the stored note changed, or would not

-----------------------------------------------------------------------------
(* Helpers *)

Open       == {editors[k] : k \in DOMAIN editors}
IdsOpen    == {win[w].id : w \in Open}
Mains      == {w \in Open : ~win[w].sub}

Blank == [id |-> NoId, linked |-> Null, sub |-> FALSE, below |-> FALSE,
          text |-> NoText, dirty |-> FALSE, behind |-> FALSE]

\* std::erase; no window is twice in a list
Erased(s, w) ==
  IF \E k \in DOMAIN s : s[k] = w THEN RemoveAt(s, CHOOSE k \in DOMAIN s : s[k] = w) ELSE s

Ended(how) ==
  /\ run' = how
  /\ editors' = <<>> /\ p' = Null /\ editorMode' = FALSE
  /\ win' = [w \in Windows |-> Blank]

InEditor   == run = "yes" /\ editorMode
InList     == run = "yes" /\ ~editorMode

Init ==
  /\ tasks = Ids /\ note = [i \in Ids |-> NoText] /\ links = {}
  /\ editors = <<>> /\ p = Null /\ win = [w \in Windows |-> Blank]
  /\ editorMode = FALSE /\ run = "yes"
  /\ texts = 0 /\ faults = 0

\* Plausible slips, for the mutation runs: an editor is always made, an output window is
\* not linked back, an output window stays when its note is closed, the first window is
\* closed, a note is not read, a note is moved below.
Found_Never(i) == {}
OutputOf_Single(w, i) == [Blank EXCEPT !.id = i, !.sub = TRUE, !.below = TRUE]
LinkedTo_None(w) == Null
LinkedTo_First(w) == editors[1]
NoteRead_Empty(i) == NoText
MoveOutput_Any ==
  /\ InEditor
  /\ win' = [win EXCEPT ![p].below = ~@]
  /\ UNCHANGED <<stored, editors, p, editorMode, run, bounds>>

\* the first window of the note
Found(i) == {w \in Open : win[w].id = i /\ ~win[w].sub}

\* readNoteIntoEditor
NoteRead(i) == IF i \in tasks THEN note[i] ELSE NoText

NoteWindow(o, i) == [Blank EXCEPT !.id = i, !.linked = o, !.text = NoteRead(i)]
OutputOf(w, i)   == [Blank EXCEPT !.id = i, !.sub = TRUE, !.below = TRUE, !.linked = w]

\* the address that new Editor returns: which of the free ones makes no difference
Fresh(used) == CHOOSE w \in 1..(MaxWindows + 2) : w \notin used /\ \A v \in 1..(w - 1) : v \in used

\* a new window, with one for the output if the task is in the folder for C++ or Go
NewWindow(i, code) ==
  LET w == Fresh(Open)
      o == Fresh(Open \cup {w})
  IN /\ w \in Windows
     /\ p' = w
     /\ \/ /\ code /\ o \in Windows
           /\ editors' = editors \o <<w, o>>
           /\ win' = [win EXCEPT ![w] = NoteWindow(o, i), ![o] = OutputOf(w, i)]
        \/ /\ ~code
           /\ editors' = Append(editors, w)
           /\ win' = [win EXCEPT ![w] = NoteWindow(Null, i)]

\* F_edit, which takes the folder of the task under the cursor
EditNote(i, code) ==
  /\ editorMode' = TRUE
  /\ \/ Found(i) = {} /\ NewWindow(i, code)
     \/ p' \in Found(i) /\ UNCHANGED <<editors, win>>

-----------------------------------------------------------------------------
(* The list of tasks *)

\* :e, on a row whose task may be gone
Edit(i, code) ==
  /\ InList /\ (code => i \in tasks)
  /\ EditNote(i, code)
  /\ UNCHANGED <<stored, run, bounds>>

\* :gl
GetLinkedFromList(code) ==
  /\ InList /\ p # Null
  /\ \E link \in links, i \in Ids :
       /\ win[p].id \in {link[1], link[2]}
       /\ i = IF link[1] = win[p].id THEN link[2] ELSE link[1]
       /\ EditNote(i, code)
  /\ UNCHANGED <<stored, run, bounds>>

GoToEditors ==
  /\ InList /\ editors # <<>>
  /\ editorMode' = TRUE
  /\ UNCHANGED <<stored, editors, p, win, run, bounds>>

\* :q and :q! do not ask the editors
Quit ==
  /\ InList /\ Ended("quit")
  /\ UNCHANGED <<stored, bounds>>

\* what a sync, or a new row in the list, does to the task with id i, and so to what the
\* windows of i show
Outdated(i) == [w \in Windows |-> IF w \in Mains /\ win[w].id = i /\ ~win[w].dirty
                                  THEN [win[w] EXCEPT !.behind = TRUE] ELSE win[w]]
TaskChanged(i) ==
  /\ InList /\ faults < MaxFaults /\ faults' = faults + 1
  /\ win' = Outdated(i)
  /\ \/ /\ i \in tasks /\ texts < MaxTexts
        /\ texts' = texts + 1
        /\ note' = [note EXCEPT ![i] = texts + 1]
        /\ UNCHANGED tasks
     \/ /\ i \in tasks
        /\ tasks' = tasks \ {i} /\ note' = [note EXCEPT ![i] = NoText]
        /\ UNCHANGED texts
     \/ /\ \A j \in tasks : j < i
        /\ tasks' = tasks \cup {i}
        /\ UNCHANGED <<note, texts>>
  /\ UNCHANGED <<links, editors, p, editorMode, run>>

\* createLink, from the list or in an editor: the two notes that are open
CreateLink ==
  /\ run = "yes" /\ editors # <<>> /\ Cardinality(IdsOpen) = 2
  /\ Cardinality(links) < MaxLinks
  /\ links' = links \cup {pair \in IdsOpen \X IdsOpen : pair[1] < pair[2]}
  /\ UNCHANGED <<tasks, note, windows, run, bounds>>

-----------------------------------------------------------------------------
(* Keys and commands in a window *)

\* a change of the text, which needs no more of it here than that it is new
Type ==
  /\ InEditor /\ texts < MaxTexts
  /\ texts' = texts + 1
  /\ win' = [win EXCEPT ![p].text = texts + 1, ![p].dirty = TRUE, ![p].behind = FALSE]
  /\ UNCHANGED <<stored, editors, p, editorMode, run, faults>>

\* ctrl-h and ctrl-l go from note to note, and to an output window that is beside its
\* note if the window has rows: without rows other keys are in use
Switch(step) ==
  /\ InEditor
  /\ \E empty \in {FALSE, win[p].text = NoText} :
       LET Hidden(w) == IF empty THEN win[w].sub ELSE win[w].below
           from  == IF Hidden(p) THEN win[p].linked ELSE p
           at    == CHOOSE k \in DOMAIN editors : editors[k] = from
           there == {k \in DOMAIN editors : ~Hidden(editors[k]) /\ step * (k - at) > 0}
       IN IF Len(editors) = 1 /\ step = -1 THEN editorMode' = FALSE /\ UNCHANGED p
          ELSE IF there # {} THEN
            /\ \E k \in there : p' = editors[k] /\ \A j \in there : step * (j - k) >= 0
            /\ UNCHANGED editorMode
          ELSE p' = from /\ editorMode' = (step # -1)
  /\ UNCHANGED <<stored, editors, win, run, bounds>>

\* ctrl-j and ctrl-k, which looks for an output window without asking whether there is
\* one; a note without rows has it asked
Down ==
  /\ InEditor
  /\ IF win[p].linked = Null THEN Ended("crash")
     ELSE /\ p' = IF win[win[p].linked].below THEN win[p].linked ELSE p
          /\ UNCHANGED <<editors, win, editorMode, run>>
  /\ UNCHANGED <<stored, bounds>>

Up ==
  /\ InEditor /\ win[p].below
  /\ p' = win[p].linked
  /\ UNCHANGED <<stored, editors, win, editorMode, run, bounds>>

Across ==
  /\ InEditor /\ win[p].text = NoText /\ win[p].linked # Null
  /\ p' = win[p].linked
  /\ UNCHANGED <<stored, editors, win, editorMode, run, bounds>>

\* E_move_output_window_right, E_move_output_window_below
MoveOutput ==
  /\ InEditor /\ win[p].sub
  /\ win' = [win EXCEPT ![p].below = ~@]
  /\ UNCHANGED <<stored, editors, p, editorMode, run, bounds>>

\* Editor::getLinked: without a link it opens a window for no task
GetLinked(code) ==
  /\ InEditor
  /\ \E i \in Ids \cup {NoId} :
       /\ \/ \E link \in links :
               /\ win[p].id \in {link[1], link[2]}
               /\ i = IF link[1] = win[p].id THEN link[2] ELSE link[1]
          \/ /\ \A link \in links : win[p].id \notin {link[1], link[2]}
             /\ i = NoId
       /\ i \notin IdsOpen /\ (code => i \in tasks)
       /\ NewWindow(i, code)
  /\ UNCHANGED <<stored, editorMode, run, bounds>>

\* updateNote: the task may be gone, or be another one, and the statement may fail
StoreNote(ok) ==
  LET i == win[p].id IN
  /\ IF ok THEN UNCHANGED faults ELSE faults < MaxFaults /\ faults' = faults + 1
  /\ note' = IF ok /\ i \in tasks THEN [note EXCEPT ![i] = win[p].text] ELSE note

\* E_write_C: dirty is cleared in any case
Written(ok) == [win[p] EXCEPT !.dirty = FALSE,
                  !.behind = ~(ok /\ win[p].id \in tasks)]
Write(ok) ==
  /\ InEditor /\ ~win[p].sub
  /\ StoreNote(ok)
  /\ win' = [win EXCEPT ![p] = Written(ok)]
  /\ UNCHANGED <<tasks, links, editors, p, editorMode, run, texts>>

\* E_compile_C, E_runlocal_C and E_run_code_C, which write the output into the other
\* window without asking whether there is one
RunNote ==
  /\ InEditor /\ ~win[p].sub
  /\ IF win[p].linked = Null THEN Ended("crash")
     ELSE /\ win' = [win EXCEPT ![win[p].linked].text = Output,
                                ![win[p].linked].dirty = TRUE]
          /\ UNCHANGED <<editors, p, editorMode, run>>
  /\ UNCHANGED <<stored, bounds>>

\* :q, :q! and :x close the window and the one it is linked to; :x stores the note, but
\* not an output, and :q asks for the one window only
LinkedTo(w) == win[w].linked
Closed ==
  /\ editors' = Erased(Erased(editors, p), LinkedTo(p))
  /\ win' = [w \in Windows |-> IF w \in {p, LinkedTo(p)} THEN Blank ELSE win[w]]
  /\ IF editors' = <<>> THEN p' = Null /\ editorMode' = FALSE
     ELSE p' = editors'[1] /\ UNCHANGED editorMode

CloseClean ==
  /\ InEditor /\ ~win[p].dirty /\ Closed
  /\ UNCHANGED <<stored, run, bounds>>

CloseAnyway ==
  /\ InEditor /\ Closed
  /\ UNCHANGED <<stored, run, bounds>>

WriteAndClose(ok) ==
  /\ InEditor /\ ~win[p].sub
  /\ StoreNote(ok) /\ Closed
  /\ UNCHANGED <<tasks, links, run, texts>>

-----------------------------------------------------------------------------
Next ==
  \/ \E code \in BOOLEAN :
       \/ \E i \in Ids : Edit(i, code)
       \/ GetLinkedFromList(code) \/ GetLinked(code)
  \/ \E ok \in BOOLEAN : Write(ok) \/ WriteAndClose(ok)
  \/ \E step \in {-1, 1} : Switch(step)
  \/ \E i \in Ids : TaskChanged(i)
  \/ GoToEditors \/ Quit \/ CreateLink \/ Type \/ Down \/ Up \/ Across \/ MoveOutput
  \/ RunNote \/ CloseClean \/ CloseAnyway

Spec == Init /\ [][Next]_vars

-----------------------------------------------------------------------------
(* Properties *)

\* Every variable holds a value of its kind, and only output windows are below others.
TypeOK ==
  /\ tasks \subseteq Ids /\ note \in [Ids -> Texts]
  /\ links \subseteq (Ids \cup {NoId}) \X Ids
  /\ editors \in Seq(Windows) /\ p \in Windows \cup {Null}
  /\ win \in [Windows -> Window] /\ \A w \in Windows : win[w].below => win[w].sub
  /\ editorMode \in BOOLEAN /\ run \in {"yes", "quit", "crash"}
  /\ texts \in Texts /\ faults \in 0..MaxFaults

\* Through any order of opening, linking, running and closing, no pointer is left to an
\* Editor that was freed: sess.p is an open window whenever there is one, which it must
\* be while the keyboard is the editors'; and a note and its output window, which free
\* each other, are open together and point to each other.
PointersOpen ==
  /\ IF editors = <<>> THEN p = Null /\ ~editorMode ELSE p \in Open
  /\ \A w \in Open :
       /\ win[w].sub => win[w].linked # Null
       /\ win[w].linked # Null =>
            /\ win[w].linked \in Open
            /\ win[win[w].linked].linked = w
            /\ win[win[w].linked].id = win[w].id
            /\ win[win[w].linked].sub = ~win[w].sub

\* A note is open once: two windows would write over each other's text.
OpenOnce == \A v, w \in Mains : win[v].id = win[w].id => v = w

\* A window of a note that is not dirty shows the note as it is stored, unless the list
\* of tasks changed it since, or a write of it failed or found no task.
CleanIsStored ==
  \A w \in Mains : ~win[w].dirty /\ ~win[w].behind => win[w].text = NoteRead(win[w].id)

\* A step keeps the windows of the other notes on the screen, with their texts: a note
\* is changed, written and closed only where the cursor is, or from its output window.
OthersStay ==
  [][run' = "yes" =>
       \A w \in Mains :
         \/ w = p
         \/ p # Null /\ w = win[p].linked
         \/ /\ w \in Open'
            /\ win'[w].id = win[w].id
            /\ win'[w].text = win[w].text /\ win'[w].dirty = win[w].dirty]_vars
=============================================================================
