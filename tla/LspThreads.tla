----------------------------- MODULE LspThreads -----------------------------
(***************************************************************************)
(* The language server threads of src/lsp.cpp.  The main thread starts     *)
(* them, flags a saved note for the server of its language (E_write_C,     *)
(* updateCodeFile) and ends them when the program quits; each thread       *)
(* shares an Lsp and the current editor with the main thread, without a    *)
(* lock.                                                                   *)
(*                                                                         *)
(* A text is the number of the save that made it.                          *)
(***************************************************************************)
EXTENDS Integers

CONSTANTS
  MaxLsps,    \* bound on the language servers started
  MaxSaves,   \* bound on the saves
  Names,      \* clangd and gopls
  Editors,    \* the open editors are among these
  Language    \* the language server of the note in an editor

ASSUME LspThreadsAssumption ==
  /\ MaxLsps \in Nat /\ MaxSaves \in Nat
  /\ Language \in [Editors -> Names]
  /\ 0 \notin Editors

Lsps     == 1..MaxLsps
Texts    == 0..MaxSaves
Unset    == 0     \* the text of didOpen and of an editor never saved
NoLsp    == 0
NoEditor == 0     \* sess.p is null

VARIABLES
  lsps,     \* sess.lsp_v.size(): Lsp l is the l-th element
  name,     \* Lsp::name
  changed,  \* Lsp::code_changed
  closed,   \* Lsp::closed
  stopped,  \* stop_requested() of Lsp::thred
  freed,    \* the Lsps deleted
  pc,       \* where the thread of Lsp::thred is
  mine,     \* the Lsp that a thread serves
  server,   \* the text at the server a thread talks to
  main,     \* where the main thread is
  turn,     \* the Lsp that lsp_shutdown() is at
  open,     \* sess.editors
  p,        \* sess.p
  code,     \* Editor::code
  saves,    \* number of saves so far
  saved,    \* the text last saved for each language, since its server started
  patient   \* the user waits for pending work before the next command

ofLsps   == <<lsps, name, changed, closed, stopped, freed>>
threads  == <<pc, mine, server>>
editors  == <<open, p, code, saves, saved>>
ofMain   == <<main, turn>>
vars     == <<ofLsps, threads, editors, ofMain, patient>>

Started == 1..lsps   \* sess.lsp_v

Steps == {"none", "take", "open", "check", "read", "clear", "exit", "done"}

TypeOK ==
  /\ lsps \in 0..MaxLsps /\ name \in [Lsps -> Names]
  /\ changed \in [Lsps -> BOOLEAN] /\ closed \in [Lsps -> BOOLEAN]
  /\ stopped \in [Lsps -> BOOLEAN] /\ freed \subseteq Lsps
  /\ pc \in [Lsps -> Steps] /\ mine \in [Lsps -> 0..MaxLsps]
  /\ server \in [Lsps -> Texts]
  /\ main \in {"run", "save", "flag", "reassign",
               "stop", "wait", "join", "ended", "crashed"}
  /\ turn \in 0..MaxLsps /\ (main \in {"stop", "wait", "join"} => turn \in Started)
  /\ open \subseteq Editors /\ p \in Editors \cup {NoEditor}
  /\ code \in [Editors -> Texts] /\ saves \in Texts
  /\ saved \in [Names -> Texts] /\ patient \in BOOLEAN

Init ==
  /\ lsps = 0 /\ name \in [Lsps -> Names]
  /\ changed = [l \in Lsps |-> FALSE] /\ closed = [l \in Lsps |-> TRUE]
  /\ stopped = [l \in Lsps |-> FALSE] /\ freed = {}
  /\ pc = [l \in Lsps |-> "none"] /\ mine = [l \in Lsps |-> NoLsp]
  /\ server = [l \in Lsps |-> Unset]
  /\ main = "run" /\ turn = 0
  /\ open = {} /\ p = NoEditor /\ code = [e \in Editors |-> Unset]
  /\ saves = 0 /\ saved = [n \in Names |-> Unset]
  /\ patient \in BOOLEAN

\* the first Lsp of that name, as find_if finds it; and a slip that takes the
\* first of the vector
FirstOfItsName(l) == \A k \in 1..(l - 1) : name[k] # name[l]
First_OfAny(n)    == {l \in Started : l = 1}
First(n)          == {l \in Started : name[l] = n /\ FirstOfItsName(l)}

-----------------------------------------------------------------------------
(* The main thread: commands of the user.  Which servers will be started   *)
(* is fixed by name from the beginning, and nothing reads it before.       *)

Pending == \E l \in Started : changed[l] \/ pc[l] = "take"

Command == main = "run" /\ (patient => ~Pending)

\* lspStart: the thread runs some time after the Lsp is in the vector
Start ==
  /\ Command /\ lsps < MaxLsps
  /\ lsps' = lsps + 1
  /\ closed' = [closed EXCEPT ![lsps + 1] = FALSE]
  /\ pc' = [pc EXCEPT ![lsps + 1] = "take"]
  /\ saved' = IF FirstOfItsName(lsps + 1)
              THEN [saved EXCEPT ![name[lsps + 1]] = Unset] ELSE saved
  /\ UNCHANGED <<name, changed, stopped, freed, mine, server,
                 open, p, code, saves, ofMain, patient>>

\* a new editor, or one of those open, becomes the current one
Edit(e) ==
  /\ Command /\ e # p
  /\ open' = open \cup {e}
  /\ p' = e
  /\ code' = [code EXCEPT ![e] = IF e \in open THEN @ ELSE Unset]
  /\ UNCHANGED <<ofLsps, threads, saves, saved, ofMain, patient>>

\* quitting the current editor: it is deleted, and then sess.p is set anew
Close ==
  /\ Command /\ p # NoEditor
  /\ open' = open \ {p}
  /\ main' = "reassign"
  /\ UNCHANGED <<ofLsps, threads, p, code, saves, saved, turn, patient>>

Reassign ==
  /\ main = "reassign"
  /\ p' \in IF open = {} THEN {NoEditor} ELSE open
  /\ main' = "run"
  /\ UNCHANGED <<ofLsps, threads, open, code, saves, saved, turn, patient>>

\* E_write_C: code is assigned; while it is, a reader gets anything
Save ==
  /\ Command /\ p # NoEditor /\ saves < MaxSaves
  /\ saves' = saves + 1
  /\ main' = "save"
  /\ UNCHANGED <<ofLsps, threads, open, p, code, saved, turn, patient>>

SaveCode ==
  /\ main = "save"
  /\ code' = [code EXCEPT ![p] = saves]
  /\ saved' = [saved EXCEPT ![Language[p]] = saves]
  /\ main' = "flag"
  /\ UNCHANGED <<ofLsps, threads, open, p, saves, turn, patient>>

\* updateCodeFile: the flag is set after the code
SaveFlag ==
  /\ main = "flag"
  /\ changed' = [l \in Lsps |-> changed[l] \/ l \in First(Language[p])]
  /\ main' = "run"
  /\ UNCHANGED <<lsps, name, closed, stopped, freed, threads, editors,
                 turn, patient>>

-----------------------------------------------------------------------------
(* The main thread: lsp_shutdown, at the end of the program                *)

Quit ==
  /\ main = "run"
  /\ main' = IF lsps = 0 THEN "ended" ELSE "stop"
  /\ turn' = IF lsps = 0 THEN 0 ELSE 1
  /\ UNCHANGED <<ofLsps, threads, editors, patient>>

Stop ==
  /\ main = "stop"
  /\ stopped' = [stopped EXCEPT ![turn] = TRUE]
  /\ main' = "wait"
  /\ UNCHANGED <<lsps, name, changed, closed, freed, threads, editors,
                 turn, patient>>

\* until the thread has closed, or for three seconds; and a slip without them
Wait_NoTimer ==
  /\ main = "wait" /\ closed[turn]
  /\ main' = "join"
  /\ UNCHANGED <<ofLsps, threads, editors, turn, patient>>

Wait ==
  /\ main = "wait"
  /\ main' = "join"
  /\ UNCHANGED <<ofLsps, threads, editors, turn, patient>>

\* the thread has ended, and the Lsp is deleted; and a slip without join()
Join_Skipped ==
  /\ main = "join"
  /\ freed' = freed \cup {turn}
  /\ main' = IF turn = lsps THEN "ended" ELSE "stop"
  /\ turn' = IF turn = lsps THEN 0 ELSE turn + 1
  /\ UNCHANGED <<lsps, name, changed, closed, stopped, threads, editors, patient>>

Join ==
  /\ main = "join" /\ pc[turn] = "done"
  /\ freed' = freed \cup {turn}
  /\ main' = IF turn = lsps THEN "ended" ELSE "stop"
  /\ turn' = IF turn = lsps THEN 0 ELSE turn + 1
  /\ UNCHANGED <<lsps, name, changed, closed, stopped, threads, editors, patient>>

-----------------------------------------------------------------------------
(* lsp_thread                                                              *)

Runs(t, step) == pc[t] = step /\ main \notin {"ended", "crashed"}

\* lsp_v.back(); and a slip that takes lsp_v.end()
Back_End == lsps + 1
Back == lsps

Take(t) ==
  /\ Runs(t, "take")
  /\ mine' = [mine EXCEPT ![t] = Back]
  /\ pc' = [pc EXCEPT ![t] = "open"]
  /\ UNCHANGED <<ofLsps, server, editors, ofMain, patient>>

\* the server is started, and told of a document without text
Open(t) ==
  /\ Runs(t, "open")
  /\ server' = [server EXCEPT ![t] = Unset]
  /\ pc' = [pc EXCEPT ![t] = "check"]
  /\ UNCHANGED <<ofLsps, mine, editors, ofMain, patient>>

Check(t) ==
  /\ Runs(t, "check")
  /\ stopped[t] \/ changed[mine[t]]
  /\ pc' = [pc EXCEPT ![t] = IF stopped[t] THEN "exit" ELSE "read"]
  /\ UNCHANGED <<ofLsps, mine, server, editors, ofMain, patient>>

\* sess.p->code is sent.  What is read from an editor that was deleted, or
\* while its code is assigned, is any text.
Read(t) ==
  /\ Runs(t, "read") /\ p # NoEditor
  /\ \E v \in IF p \in open /\ main # "save" THEN {code[p]} ELSE Texts :
       server' = [server EXCEPT ![t] = v]
  /\ pc' = [pc EXCEPT ![t] = "clear"]
  /\ UNCHANGED <<ofLsps, mine, editors, ofMain, patient>>

\* without a current editor, or with one that is being deleted or assigned,
\* the read ends the program
Crash(t) ==
  /\ Runs(t, "read")
  /\ p \notin open \/ main = "save"
  /\ main' = "crashed"
  /\ UNCHANGED <<ofLsps, threads, editors, turn, patient>>

Clear(t) ==
  /\ Runs(t, "clear")
  /\ changed' = [changed EXCEPT ![mine[t]] = FALSE]
  /\ pc' = [pc EXCEPT ![t] = "check"]
  /\ UNCHANGED <<lsps, name, closed, stopped, freed, mine, server,
                 editors, ofMain, patient>>

\* shutdown and exit are sent
Exit(t) ==
  /\ Runs(t, "exit")
  /\ closed' = [closed EXCEPT ![mine[t]] = TRUE]
  /\ pc' = [pc EXCEPT ![t] = "done"]
  /\ UNCHANGED <<lsps, name, changed, stopped, freed, mine, server,
                 editors, ofMain, patient>>

-----------------------------------------------------------------------------
User == \/ Start \/ Close \/ Save \/ Quit
        \/ \E e \in Editors : Edit(e)

Saving   == SaveCode \/ SaveFlag \/ Reassign
Shutdown == Stop \/ Wait \/ Join

Thread(t) == \/ Take(t) \/ Open(t) \/ Check(t) \/ Read(t) \/ Crash(t)
             \/ Clear(t) \/ Exit(t)

Next == User \/ Saving \/ Shutdown \/ \E t \in Lsps : Thread(t)

Spec == Init /\ [][Next]_vars

\* The scheduler runs every thread, and the main thread between commands; a
\* language server that stops reading its input would block its thread.
FairSpec == /\ Spec
            /\ WF_vars(Saving) /\ WF_vars(Shutdown)
            /\ \A t \in Lsps : WF_vars(Thread(t))

-----------------------------------------------------------------------------
(* Properties *)

\* No thread uses an Lsp that lsp_shutdown has deleted, although it may serve
\* another one than its own: the Lsps are deleted from the first to the last,
\* each after the end of its own thread, and back() is never an earlier one.
\* The thread that has still to call back() is about to use the last.
Uses(t) == IF pc[t] = "take" THEN {Back}
           ELSE IF pc[t] \in {"none", "done"} THEN {} ELSE {mine[t]}

NoFreedLsp == \A t \in Started : Uses(t) \cap freed = {}

\* With a user who waits until the flag is cleared, the server has the text
\* last saved for its language as soon as its thread is back in its loop; a
\* second server of the same language is never told anything.
UpToDate ==
  patient /\ main = "run" => \A l \in Started :
    FirstOfItsName(l) /\ pc[l] = "check" /\ ~changed[l]
    => server[l] = saved[name[l]]

\* Once the user quits, the program ends: no thread keeps it waiting, even if
\* two threads serve the same Lsp and one flag is never set.
QuitEnds == main = "stop" ~> main \in {"ended", "crashed"}
=============================================================================
