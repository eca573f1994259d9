--------------------------- MODULE ContainerSync ----------------------------
(***************************************************************************)
(* Replication of the contexts (or the folders) and of the tasks' places   *)
(* in them: the container part of synchronize() in src/synchronize.py,     *)
(* with the temporary tids and the title map of the program                *)
(* (src/dbfunc.cpp).                                                       *)
(*                                                                         *)
(* The tasks are those that both sides hold already (TaskSync is about the *)
(* others), and nobody writes during a sync or within five seconds after   *)
(* it: a row is "changed" when its modified time exceeds the sync time.    *)
(***************************************************************************)
EXTENDS Integers, FiniteSets

CONSTANTS
  MaxLocal,   \* local rows are 1..MaxLocal
  MaxRemote,  \* server rows are 1..MaxRemote, below any temporary tid
  Tasks,      \* the tasks, on both sides
  Titles,     \* the titles; titles are unique among contexts only
  NoTitle,    \* the title of the container that cannot be missing, tid 1
  Kinds,      \* the tables considered: "context", "folder"
  MaxEdits,   \* bound on the writes, by anybody
  MaxCuts     \* bound on the syncs that are cut short

ASSUME ContainerSyncAssumption ==
  /\ MaxLocal \in Nat \ {0, 1} /\ MaxRemote \in Nat \ {0, 1} /\ NoTitle \in Titles
  /\ Kinds \subseteq {"context", "folder"} /\ MaxEdits \in Nat /\ MaxCuts \in Nat

LocalIds  == 1..MaxLocal
RemoteIds == 1..MaxRemote
TempBase  == MaxRemote + 1                      \* 99999
Tids      == 1..(TempBase + 2 * MaxEdits)
Default   == 1
None      == 0

VARIABLES
  kind,        \* the table: its columns differ in one constraint
  local,       \* the sqlite table
  remote,      \* the server's table
  home,        \* task.context_tid in sqlite
  homeChanged, \* the local tasks modified since the last sync
  rhome,       \* task.context_tid on the server
  rhomeChanged,\* the server tasks modified since the last sync
  map,         \* org.context_map: the tid of a title
  temporary,   \* sess.temporary_tid
  edits, cuts, \* number of writes, and of syncs cut short
  pc, broken,  \* where synchronize() is; a session needs a rollback
  half,        \* the commit of a container that comes next
  updated,     \* server_updated_contexts
  pulls, pushes, drops, erases,      \* containers still to be applied
  taskUpdated, taskPulls, taskPushes \* the same for the tasks

tables  == <<local, remote, home, homeChanged, rhome, rhomeChanged>>
program == <<kind, map, temporary>>
bounds  == <<edits, cuts>>
lists   == <<updated, pulls, pushes, drops, erases>>
tasks   == <<taskUpdated, taskPulls, taskPushes>>
control == <<pc, broken, half>>
vars    == <<tables, program, bounds, lists, tasks, control>>

Whole    == [op |-> "none", local |-> None, remote |-> None]
LocalRow == [exists : BOOLEAN, tid : Tids \cup {None}, title : Titles,
             changed : BOOLEAN, deleted : BOOLEAN]
RemoteRow == [exists : BOOLEAN, title : Titles,
              changed : BOOLEAN, deleted : BOOLEAN]

TypeOK ==
  /\ kind \in Kinds
  /\ local \in [LocalIds -> LocalRow] /\ remote \in [RemoteIds -> RemoteRow]
  /\ home \in [Tasks -> Tids] /\ homeChanged \subseteq Tasks
  /\ rhome \in [Tasks -> RemoteIds] /\ rhomeChanged \subseteq Tasks
  /\ map \in [Titles -> Tids \cup {None}] /\ temporary \in Tids
  /\ edits \in 0..MaxEdits /\ cuts \in 0..MaxCuts
  /\ pc \in {"idle", "apply"} /\ broken \in BOOLEAN
  /\ half \in [op : {"none", "tid", "drop", "dropRow", "eraseThere", "mark",
                      "eraseLocal"},
               local : LocalIds \cup {None}, remote : RemoteIds \cup {None}]
  /\ updated \subseteq RemoteIds /\ pulls \subseteq RemoteIds
  /\ pushes \subseteq LocalIds /\ drops \subseteq RemoteIds
  /\ erases \subseteq LocalIds
  /\ taskUpdated \subseteq Tasks /\ taskPulls \subseteq Tasks
  /\ taskPushes \subseteq Tasks

NoLocal  == [exists |-> FALSE, tid |-> None, title |-> NoTitle,
             changed |-> FALSE, deleted |-> FALSE]
NoRemote == [exists |-> FALSE, title |-> NoTitle,
             changed |-> FALSE, deleted |-> FALSE]

\* after a first sync: both sides have the default container, which nobody
\* renames or deletes, with all the tasks, and one more
Init ==
  /\ kind \in Kinds
  /\ \E title \in Titles \ {NoTitle} :
       /\ local = [i \in LocalIds |->
            IF i = 1 THEN [NoLocal EXCEPT !.exists = TRUE, !.tid = Default]
            ELSE IF i = 2
            THEN [NoLocal EXCEPT !.exists = TRUE, !.tid = 2, !.title = title]
            ELSE NoLocal]
       /\ remote = [r \in RemoteIds |->
            [NoRemote EXCEPT !.exists = r <= 2,
                             !.title = IF r = 2 THEN title ELSE NoTitle]]
       /\ map = [n \in Titles |-> IF n = NoTitle THEN Default
                                  ELSE IF n = title THEN 2 ELSE None]
  /\ home = [t \in Tasks |-> Default] /\ homeChanged = {}
  /\ rhome = [t \in Tasks |-> Default] /\ rhomeChanged = {}
  /\ temporary = TempBase
  /\ edits = 0 /\ cuts = 0
  /\ pc = "idle" /\ broken = FALSE /\ half = Whole
  /\ updated = {} /\ pulls = {} /\ pushes = {} /\ drops = {} /\ erases = {}
  /\ taskUpdated = {} /\ taskPulls = {} /\ taskPushes = {}

-----------------------------------------------------------------------------
(* Helpers *)

Locals  == {i \in LocalIds : local[i].exists}
Remotes == {r \in RemoteIds : remote[r].exists}
Copies(r) == {i \in Locals : local[i].tid = r}

\* the unique constraint on context.title, deleted rows included
LocalFree(title, i) ==
  kind = "context" => \A j \in Locals \ {i} : local[j].title # title
RemoteFree(title, r) ==
  kind = "context" => \A q \in Remotes \ {r} : remote[q].title # title

\* Plausible slips, for the mutation runs: a title written without a stamp, a map
\* that is not read again, tasks left in the container that goes, and ids handed
\* out from an unset counter, or handed out twice.
Retitled_Unstamped(row, title) == [row EXCEPT !.title = title]
MapRead_Kept(old) == old
EmptyThere_Skipped(tid) == UNCHANGED <<rhome, rhomeChanged>>
NextTemporary_Unset == None
TemporaryFree_Unchecked == TRUE

\* a title is written; rows that do not differ are not written
Retitled(row, title) ==
  [row EXCEPT !.title = title, !.changed = @ \/ row.title # title]

\* generateContextMap: the titles of all rows, in the order of their ids, are
\* added to the entries that are there
Last(S) == CHOOSE i \in S : \A j \in S : j <= i
MapRead(old) ==
  [n \in Titles |->
     LET named == {i \in LocalIds : local'[i].exists /\ local'[i].title = n}
     IN  IF named = {} THEN old[n] ELSE local'[Last(named)].tid]

\* the tasks of a container that is deleted go to the default one
Emptied(h, tid) == [t \in Tasks |-> IF h[t] = tid THEN Default ELSE h[t]]
TasksOf(h, tid) == {t \in Tasks : h[t] = tid}
EmptyHere(tid) ==
  /\ home' = Emptied(home, tid)
  /\ homeChanged' = homeChanged \cup TasksOf(home, tid)
EmptyThere(tid) ==
  /\ rhome' = Emptied(rhome, tid)
  /\ rhomeChanged' = rhomeChanged \cup TasksOf(rhome, tid)

\* sqlite's next id, and the server's
NextLocal(i) == i - 1 \in Locals /\ \A j \in Locals : j < i
NextRemote(r) == r \notin Remotes /\ \A q \in RemoteIds : q < r => q \in Remotes

-----------------------------------------------------------------------------
(* The user *)

Edit == pc = "idle" /\ edits < MaxEdits /\ edits' = edits + 1

\* insertContainer: the temporary tid is used if it and the title are free
NextTemporary == temporary + 2
TemporaryFree == \A j \in Locals : local[j].tid # temporary
New(i, title) ==
  /\ Edit /\ NextLocal(i) /\ LocalFree(title, i) /\ TemporaryFree
  /\ local' = [local EXCEPT ![i] = [exists |-> TRUE, tid |-> temporary,
                 title |-> title, changed |-> TRUE, deleted |-> FALSE]]
  /\ temporary' = NextTemporary
  /\ UNCHANGED <<remote, home, homeChanged, rhome, rhomeChanged, kind, map,
                 cuts, lists, tasks, control>>

\* updateContainerTitle; the map is not told
Rename(i, title) ==
  /\ Edit /\ i \in Locals \ {1} /\ LocalFree(title, i)
  /\ local[i].title # title
  /\ local' = [local EXCEPT ![i] = Retitled(@, title)]
  /\ UNCHANGED <<remote, home, homeChanged, rhome, rhomeChanged, program,
                 cuts, lists, tasks, control>>

\* toggleDeleted
Toggle(i) ==
  /\ Edit /\ i \in Locals \ {1}
  /\ local' = [local EXCEPT ![i].deleted = ~@, ![i].changed = TRUE]
  /\ UNCHANGED <<remote, home, homeChanged, rhome, rhomeChanged, program,
                 cuts, lists, tasks, control>>

\* updateTaskContext: the tid is the one the map has for a title
Move(t, title) ==
  /\ Edit /\ map[title] # None
  /\ home' = [home EXCEPT ![t] = map[title]]
  /\ homeChanged' = homeChanged \cup {t}
  /\ UNCHANGED <<local, remote, rhome, rhomeChanged, program,
                 cuts, lists, tasks, control>>

\* a new run of the program
Restart ==
  /\ pc = "idle" /\ broken' = FALSE
  /\ temporary' = TempBase
  /\ UNCHANGED <<tables, kind, bounds, lists, tasks, pc, half>>
  /\ map' = MapRead([n \in Titles |-> None])

\* a sync that does not reach the server still reads the map again
Unreachable ==
  /\ pc = "idle"
  /\ UNCHANGED <<tables, kind, temporary, bounds, lists, tasks, control>>
  /\ map' = MapRead(map)

-----------------------------------------------------------------------------
(* The other clients, through the server *)

RemoteNew(r, title) ==
  /\ Edit /\ NextRemote(r) /\ RemoteFree(title, r)
  /\ remote' = [remote EXCEPT ![r] = [exists |-> TRUE, title |-> title,
                  changed |-> TRUE, deleted |-> FALSE]]
  /\ UNCHANGED <<local, home, homeChanged, rhome, rhomeChanged, program,
                 cuts, lists, tasks, control>>

RemoteRename(r, title) ==
  /\ Edit /\ r \in Remotes \ {Default} /\ ~remote[r].deleted
  /\ RemoteFree(title, r) /\ remote[r].title # title
  /\ remote' = [remote EXCEPT ![r] = Retitled(@, title)]
  /\ UNCHANGED <<local, home, homeChanged, rhome, rhomeChanged, program,
                 cuts, lists, tasks, control>>

RemoteDelete(r) ==
  /\ Edit /\ r \in Remotes \ {Default} /\ ~remote[r].deleted
  /\ remote' = [remote EXCEPT ![r].deleted = TRUE, ![r].changed = TRUE]
  /\ EmptyThere(r)
  /\ UNCHANGED <<local, home, homeChanged, program,
                 cuts, lists, tasks, control>>

RemoteMove(t, r) ==
  /\ Edit /\ r \in Remotes /\ ~remote[r].deleted /\ r # rhome[t]
  /\ rhome' = [rhome EXCEPT ![t] = r]
  /\ rhomeChanged' = rhomeChanged \cup {t}
  /\ UNCHANGED <<local, remote, home, homeChanged, program,
                 cuts, lists, tasks, control>>

-----------------------------------------------------------------------------
(* synchronize() *)

Begin ==
  /\ pc = "idle" /\ ~broken
  /\ updated' = {r \in Remotes : remote[r].changed /\ ~remote[r].deleted}
  /\ pulls'   = updated'
  /\ drops'   = {r \in Remotes : remote[r].changed /\ remote[r].deleted}
  /\ pushes'  = {i \in Locals : local[i].changed /\ ~local[i].deleted}
  /\ erases'  = {i \in Locals : local[i].changed /\ local[i].deleted}
  /\ taskUpdated' = rhomeChanged /\ taskPulls' = rhomeChanged
  /\ taskPushes' = homeChanged
  /\ pc' = "apply"
  /\ UNCHANGED <<tables, program, bounds, broken, half>>

Applying == pc = "apply" /\ half = Whole
Silent   == UNCHANGED <<program, bounds, broken, pc>>

\* a statement violates a constraint: the exception leaves synchronize(), the
\* session is never rolled back, and F_sync reads the map again
GiveUp ==
  /\ pc' = "idle" /\ broken' = TRUE /\ half' = Whole
  /\ updated' = {} /\ pulls' = {} /\ pushes' = {} /\ drops' = {}
  /\ erases' = {} /\ taskUpdated' = {} /\ taskPulls' = {} /\ taskPushes' = {}
  /\ UNCHANGED <<tables, kind, temporary, edits>>
  /\ map' = MapRead(map)

Refuse == GiveUp /\ UNCHANGED cuts

CutShort == pc = "apply" /\ cuts < MaxCuts /\ cuts' = cuts + 1 /\ GiveUp

\* server contexts -> client
Pull(r, i) ==
  /\ Applying /\ r \in pulls
  /\ IF Copies(r) = {} THEN NextLocal(i) ELSE i \in Copies(r)
  /\ \/ /\ LocalFree(remote[r].title, i)
        /\ local' = [local EXCEPT ![i] =
             IF @.exists THEN Retitled(@, remote[r].title)
             ELSE [exists |-> TRUE, tid |-> r, title |-> remote[r].title,
                   changed |-> TRUE, deleted |-> FALSE]]
        /\ pulls' = pulls \ {r}
        /\ Silent
        /\ UNCHANGED <<remote, home, homeChanged, rhome, rhomeChanged, half,
                       updated, pushes, drops, erases, tasks>>
     \/ ~LocalFree(remote[r].title, i) /\ Refuse

\* client contexts -> server
Pushing(i) == Applying /\ pulls = {} /\ i \in pushes

PushNew(i, r) ==
  /\ Pushing(i) /\ local[i].tid \notin Remotes /\ NextRemote(r)
  /\ \/ /\ RemoteFree(local[i].title, r)
        /\ remote' = [remote EXCEPT ![r] = [exists |-> TRUE,
             title |-> local[i].title, changed |-> TRUE, deleted |-> FALSE]]
        /\ half' = [op |-> "tid", local |-> i, remote |-> r]
        /\ Silent
        /\ UNCHANGED <<local, home, homeChanged, rhome, rhomeChanged,
                       lists, tasks>>
     \/ ~RemoteFree(local[i].title, r) /\ Refuse

\* cc.tid = context.id; the tasks that have the temporary tid keep it
PushTid ==
  /\ pc = "apply" /\ half.op = "tid"
  /\ local' = [local EXCEPT ![half.local].tid = half.remote,
                            ![half.local].changed = TRUE]
  /\ pushes' = pushes \ {half.local}
  /\ half' = Whole
  /\ Silent
  /\ UNCHANGED <<remote, home, homeChanged, rhome, rhomeChanged,
                 updated, pulls, drops, erases, tasks>>

PushUpdate(i) ==
  /\ Pushing(i) /\ local[i].tid \in Remotes \ updated
  /\ LET r == local[i].tid IN
     \/ /\ RemoteFree(local[i].title, r)
        /\ remote' = [remote EXCEPT ![r] = Retitled(@, local[i].title)]
        /\ pushes' = pushes \ {i}
        /\ Silent
        /\ UNCHANGED <<local, home, homeChanged, rhome, rhomeChanged, half,
                       updated, pulls, drops, erases, tasks>>
     \/ ~RemoteFree(local[i].title, r) /\ Refuse

\* "updated-server won"
PushSkip(i) ==
  /\ Pushing(i) /\ local[i].tid \in updated
  /\ pushes' = pushes \ {i}
  /\ Silent
  /\ UNCHANGED <<tables, half, updated, pulls, drops, erases, tasks>>

\* server tasks -> client, and client tasks -> server: their places only; and a slip,
\* that does not wait for the containers
PullTask_First(t) ==
  /\ Applying /\ t \in taskPulls
  /\ home' = [home EXCEPT ![t] = rhome[t]]
  /\ homeChanged' = homeChanged \cup {t}
  /\ taskPulls' = taskPulls \ {t}
  /\ Silent
  /\ UNCHANGED <<local, remote, rhome, rhomeChanged, half, lists,
                 taskUpdated, taskPushes>>

PullTask(t) ==
  /\ Applying /\ pulls = {} /\ pushes = {} /\ t \in taskPulls
  /\ home' = [home EXCEPT ![t] = rhome[t]]
  /\ homeChanged' = homeChanged \cup {t}
  /\ taskPulls' = taskPulls \ {t}
  /\ Silent
  /\ UNCHANGED <<local, remote, rhome, rhomeChanged, half, lists,
                 taskUpdated, taskPushes>>

\* the server has a foreign key on task.context_tid
PushTask(t) ==
  /\ Applying /\ pulls = {} /\ pushes = {} /\ taskPulls = {} /\ t \in taskPushes
  /\ \/ /\ t \in taskUpdated \/ home[t] \in Remotes
        /\ rhome' = [rhome EXCEPT ![t] = IF t \in taskUpdated THEN @ ELSE home[t]]
        /\ rhomeChanged' = rhomeChanged \cup {t}
        /\ taskPushes' = taskPushes \ {t}
        /\ Silent
        /\ UNCHANGED <<local, remote, home, homeChanged, half, lists,
                       taskUpdated, taskPulls>>
     \/ t \notin taskUpdated /\ home[t] \notin Remotes /\ Refuse

TasksDone == pulls = {} /\ pushes = {} /\ taskPulls = {} /\ taskPushes = {}

\* "Delete from client contexts deleted on server": first the server's tasks
DropTasks(r) ==
  /\ Applying /\ TasksDone /\ r \in drops
  /\ EmptyThere(r)
  /\ half' = [op |-> "drop", local |-> None, remote |-> r]
  /\ Silent
  /\ UNCHANGED <<local, remote, home, homeChanged, lists, tasks>>

\* then, if the client has the container, its tasks, and the container
DropHere ==
  /\ pc = "apply" /\ half.op = "drop"
  /\ IF Copies(half.remote) = {}
     THEN /\ drops' = drops \ {half.remote}
          /\ half' = Whole
          /\ UNCHANGED <<home, homeChanged>>
     ELSE /\ EmptyHere(half.remote)
          /\ half' = [half EXCEPT !.op = "dropRow"]
          /\ UNCHANGED drops
  /\ Silent
  /\ UNCHANGED <<local, remote, rhome, rhomeChanged, updated, pulls, pushes,
                 erases, tasks>>

Drop ==
  /\ pc = "apply" /\ half.op = "dropRow"
  /\ local' = [i \in LocalIds |->
                 IF i \in Copies(half.remote) THEN NoLocal ELSE local[i]]
  /\ drops' = drops \ {half.remote}
  /\ half' = Whole
  /\ Silent
  /\ UNCHANGED <<remote, home, homeChanged, rhome, rhomeChanged,
                 updated, pulls, pushes, erases, tasks>>

\* "Delete from server contexts deleted on client": the client's tasks first
EraseTasks(i) ==
  /\ Applying /\ TasksDone /\ drops = {} /\ i \in erases
  /\ EmptyHere(local[i].tid)
  /\ half' = [op |-> "eraseThere", local |-> i, remote |-> None]
  /\ Silent
  /\ UNCHANGED <<local, remote, rhome, rhomeChanged, lists, tasks>>

\* then, if the server has the container, its tasks there, and its mark
EraseThere ==
  /\ pc = "apply" /\ half.op = "eraseThere"
  /\ LET r == local[half.local].tid IN
     IF r \in Remotes
     THEN EmptyThere(r) /\ half' = [half EXCEPT !.op = "mark", !.remote = r]
     ELSE /\ half' = [half EXCEPT !.op = "eraseLocal"]
          /\ UNCHANGED <<rhome, rhomeChanged>>
  /\ Silent
  /\ UNCHANGED <<local, remote, home, homeChanged, lists, tasks>>

Mark ==
  /\ pc = "apply" /\ half.op = "mark"
  /\ remote' = [remote EXCEPT ![half.remote].changed = @ \/ ~remote[half.remote].deleted,
                              ![half.remote].deleted = TRUE]
  /\ half' = [half EXCEPT !.op = "eraseLocal"]
  /\ Silent
  /\ UNCHANGED <<local, home, homeChanged, rhome, rhomeChanged, lists, tasks>>

EraseLocal ==
  /\ pc = "apply" /\ half.op = "eraseLocal"
  /\ local' = [local EXCEPT ![half.local] = NoLocal]
  /\ erases' = erases \ {half.local}
  /\ half' = Whole
  /\ Silent
  /\ UNCHANGED <<remote, home, homeChanged, rhome, rhomeChanged,
                 updated, pulls, pushes, drops, tasks>>

\* the sync times exceed every modified time, and the map is read again
Finish ==
  /\ Applying /\ TasksDone /\ drops = {} /\ erases = {}
  /\ local' = [i \in LocalIds |-> [local[i] EXCEPT !.changed = FALSE]]
  /\ remote' = [r \in RemoteIds |-> [remote[r] EXCEPT !.changed = FALSE]]
  /\ homeChanged' = {} /\ rhomeChanged' = {}
  /\ updated' = {} /\ taskUpdated' = {}
  /\ map' = MapRead(map)
  /\ pc' = "idle"
  /\ UNCHANGED <<home, rhome, kind, temporary, bounds, broken, half,
                 pulls, pushes, drops, erases, taskPulls, taskPushes>>

-----------------------------------------------------------------------------
User ==
  \/ \E i \in LocalIds : Toggle(i) \/ \E n \in Titles : New(i, n) \/ Rename(i, n)
  \/ \E t \in Tasks, n \in Titles : Move(t, n)
  \/ Restart \/ Unreachable

Others ==
  \/ \E r \in RemoteIds : \/ RemoteDelete(r)
                          \/ \E n \in Titles : RemoteNew(r, n) \/ RemoteRename(r, n)
                          \/ \E t \in Tasks : RemoteMove(t, r)

Sync ==
  \/ Begin
  \/ \E i \in LocalIds, r \in RemoteIds : Pull(r, i) \/ PushNew(i, r)
  \/ PushTid
  \/ \E i \in LocalIds : PushUpdate(i) \/ PushSkip(i) \/ EraseTasks(i)
  \/ \E t \in Tasks : PullTask(t) \/ PushTask(t)
  \/ \E r \in RemoteIds : DropTasks(r)
  \/ DropHere \/ Drop \/ EraseThere \/ Mark \/ EraseLocal
  \/ Finish

Next == User \/ Others \/ Sync \/ CutShort

Spec == Init /\ [][Next]_vars

-----------------------------------------------------------------------------
(* Properties *)

\* Between syncs, a container of the server that no side has marked as changed is
\* on the client under the same title, and one deleted there is gone here; a
\* container of the client that is not marked is on the server.
ContainersInStep ==
  pc = "idle" =>
    /\ \A r \in Remotes : ~remote[r].changed =>
         IF remote[r].deleted THEN Copies(r) = {}
         ELSE \E i \in Copies(r) : \/ local[i].changed
                                   \/ local[i].title = remote[r].title
    /\ \A i \in Locals : ~local[i].changed => local[i].tid \in Remotes

\* Between syncs, a task that no side has marked as changed is in the same
\* container on both sides, whatever container was deleted under it; a task
\* whose container the client lacks is PlacesKnown's.
TasksInStep ==
  pc = "idle" =>
    \A t \in Tasks \ (homeChanged \cup rhomeChanged) :
      Copies(home[t]) # {} => home[t] = rhome[t]

\* No two containers of the client have the same tid, which is how a server row
\* finds its copy, and a tid that is not temporary is that of a server row.
TidsDiffer ==
  /\ \A i, j \in Locals : i # j => local[i].tid # local[j].tid
  /\ \A i \in Locals : local[i].tid < TempBase => local[i].tid \in Remotes

\* Between syncs, the map has the right tid for every context that is not waiting
\* to be synced, so that a task can be moved there.
MapKnowsContexts ==
  pc = "idle" /\ kind = "context" =>
    \A i \in Locals : ~local[i].changed => map[local[i].title] = local[i].tid

\* Between syncs, a task whose container the client lacks was put there through a map
\* that still knew it: the container is one that was deleted on the server, or one whose
\* temporary tid a sync has replaced by the server's.
PlacesKnown ==
  pc = "idle" =>
    \A t \in Tasks : \/ Copies(home[t]) # {}
                     \/ home[t] >= TempBase
                     \/ home[t] \in Remotes /\ remote[home[t]].deleted
=============================================================================
