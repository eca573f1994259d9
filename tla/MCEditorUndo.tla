---------------------------- MODULE MCEditorUndo ----------------------------
(* Notes without a row, and with two rows. *)
EXTENDS EditorUndo

SomeNotes == {<<>>, << <<"b">>, <<"c">> >>}

(* plain never becomes true again, and the properties of the run that has   *)
(* this constraint say nothing of the other states.                         *)
StillPlain == plain

(* What no property of that run depends on is left out: the saved note, what *)
(* a command overwrites before it is read, and after the last command the    *)
(* cursor, the count and lastTyped: undo and redo read none.                 *)
Over == mode = "NORMAL" /\ changes = MaxChanges
Seen == IF mode = "CLOSED" THEN << mode >>
        ELSE <<ed.rows, ed.ok, ed.dirty, mode, lastCommand, buffer, history, changes, plain,
               IF Over THEN <<>> ELSE <<ed.fr, ed.fc, lastRepeat, lastTyped, stuck>>,
               IF mode = "INSERT" THEN before ELSE <<>> >>
=============================================================================
