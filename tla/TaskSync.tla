------------------------------ MODULE TaskSync ------------------------------
(***************************************************************************)
(* Replication of the task table between the local sqlite database and the *)
(* shared PostgreSQL server: synchronize() in src/synchronize.py, with the *)
(* user's edits (src/dbfunc.cpp) and the pushes of the other clients of    *)
(* the server as its environment.                                          *)
(*                                                                         *)
(* A row's text is the number of the edit that wrote it, so that a lost    *)
(* edit shows.  Every commit of synchronize() is one step: a failure or a  *)
(* kill between two steps finds exactly what the code had committed.       *)
(***************************************************************************)
EXTENDS Integers

CONSTANTS
  MaxLocal,      \* local task ids are 1..MaxLocal
  MaxRemote,     \* server task ids are 1..MaxRemote
  MaxVersion,    \* bound on the number of edits, by anybody
  MaxClock,      \* bound on the clock
  MaxFailures,   \* bound on the syncs that are cut short
  Slack,         \* the 5 seconds added to both sync times, in ticks
  ServerOffset,  \* the server's clock minus this client's
  Drift,         \* the other clients' clocks minus this client's
  Quiet          \* TRUE: nobody writes during a sync, nor before Slack is over

ASSUME TaskSyncAssumption ==
  /\ MaxLocal \in Nat /\ MaxRemote \in Nat /\ MaxVersion \in Nat
  /\ MaxClock \in Nat /\ MaxFailures \in Nat /\ Slack \in Nat
  /\ ServerOffset \in Int /\ Drift \subseteq Int /\ Quiet \in BOOLEAN

LocalIds  == 1..MaxLocal
RemoteIds == 1..MaxRemote
Versions  == 0..MaxVersion

Blank == 0     \* the text of a row committed before its fields are set
NoId  == 0     \* NULL in task.tid; also "no row" in half

VARIABLES
  local,         \* the sqlite table task
  remote,        \* the server's table task
  fts,           \* the full-text index: pairs <<lm_id, text>>
  lastClient,    \* sync.timestamp where machine = 'client'
  lastServer,    \* sync.timestamp where machine = 'server'
  clock,         \* this client's clock
  edits,         \* number of edits made so far
  failures,      \* number of syncs cut short so far
  pc,            \* where synchronize() is
  broken,        \* remote_session needs a rollback nobody performs
  serverUpdated, \* server_updated_tasks (the list the conflict test reads)
  seen,          \* the texts of the server rows when they were queried
  pulls,         \* server_updated_tasks still to be applied
  pushes,        \* client_updated_tasks still to be applied
  drops,         \* server_deleted_tasks still to be applied
  erases,        \* client_deleted_tasks still to be applied
  half,          \* the second or third commit of a task, still to come
  since          \* when remote_session began the transaction it has open, or 0

stores   == <<local, remote, fts>>
stamps   == <<lastClient, lastServer>>
counters == <<clock, edits, failures>>
loops    == <<serverUpdated, seen, pulls, pushes, drops, erases>>
control  == <<pc, broken, half>>
vars     == <<stores, stamps, counters, loops, control, since>>

LocalRow  == [exists : BOOLEAN, tid : RemoteIds \cup {NoId}, text : Versions,
              modified : Int, deleted : BOOLEAN]
RemoteRow == [exists : BOOLEAN, text : Versions, modified : Int,
              deleted : BOOLEAN, ours : BOOLEAN]
NoLocal   == [exists |-> FALSE, tid |-> NoId, text |-> Blank,
              modified |-> 0, deleted |-> FALSE]
NoRemote  == [exists |-> FALSE, text |-> Blank, modified |-> 0,
              deleted |-> FALSE, ours |-> FALSE]
Whole     == [op |-> "none", task |-> NoId, row |-> NoId]
Halves    == [op : {"index", "erase"}, task : LocalIds, row : {NoId}]
             \cup [op : {"tid", "fields"}, task : LocalIds, row : RemoteIds]

TypeOK ==
  /\ local \in [LocalIds -> LocalRow]
  /\ remote \in [RemoteIds -> RemoteRow]
  /\ fts \subseteq LocalIds \X Versions
  /\ lastClient \in Int /\ lastServer \in Int
  /\ clock \in Nat /\ edits \in Versions /\ failures \in 0..MaxFailures
  /\ pc \in {"idle", "query", "apply"} /\ broken \in BOOLEAN
  /\ serverUpdated \subseteq RemoteIds /\ seen \in [RemoteIds -> Versions]
  /\ pulls \subseteq RemoteIds /\ pushes \subseteq LocalIds
  /\ drops \subseteq RemoteIds /\ erases \subseteq LocalIds
  /\ half \in {Whole} \cup Halves
  /\ since \in 0..clock

Init ==
  /\ local = [i \in LocalIds |-> NoLocal]
  /\ remote = [r \in RemoteIds |-> NoRemote]
  /\ fts = {}
  /\ lastClient = 0 /\ lastServer = 0
  /\ clock = 1 /\ edits = 0 /\ failures = 0
  /\ pc = "idle" /\ broken = FALSE /\ half = Whole
  /\ serverUpdated = {} /\ seen = [r \in RemoteIds |-> Blank]
  /\ pulls = {} /\ pushes = {} /\ drops = {} /\ erases = {}
  /\ since = 0

-----------------------------------------------------------------------------
(* Helpers *)

\* sqlite gives a new row the id above the largest id in use
NextLocal(i) ==
  /\ \A j \in LocalIds : local[j].exists => j < i
  /\ i > 1 => local[i - 1].exists

\* the server's serial; no code removes a server row
NextRemote(r) ==
  /\ ~remote[r].exists
  /\ \A q \in RemoteIds : q < r => remote[q].exists

\* the server row that remote_session finds for a local task
HasRemote(i) == local[i].tid # NoId /\ remote[local[i].tid].exists

\* the text of every entry of task i becomes v: UPDATE fts ... WHERE lm_id=i
Reindexed(i, v) == {IF e[1] = i THEN <<i, v>> ELSE e : e \in fts}

\* Plausible slips in these writes, for the mutation runs: a write that does not
\* stamp the row, a row tied to the id the server gives next or to none, a
\* deletion that does not stamp the row, and a lookup that skips deleted rows.
Rewritten_Unstamped(row, v) == [row EXCEPT !.text = v]
Tied_NextId(row, r) == [row EXCEPT !.tid = r + 1, !.modified = clock]
Tied_Forgotten(row, r) == [row EXCEPT !.modified = clock]
Marked_Unstamped(row, t, ours) == [row EXCEPT !.deleted = TRUE, !.ours = ours]
Copies_NotDeleted(r) ==
  {i \in LocalIds : local[i].exists /\ local[i].tid = r /\ ~local[i].deleted}

\* the local rows that local_session finds for a server task
Copies(r) == {i \in LocalIds : local[i].exists /\ local[i].tid = r}

\* a local row after a write: its columns and its stamp (onupdate)
Rewritten(row, v) == [row EXCEPT !.text = v, !.modified = clock]
Toggled(row)      == [row EXCEPT !.deleted = ~@, !.modified = clock]
Tied(row, r)      == [row EXCEPT !.tid = r, !.modified = clock]

\* a server row after a write at time t, by this client or by another
Stored(row, v, t, ours) ==
  [row EXCEPT !.text = v, !.modified = t, !.ours = ours]
Marked(row, t, ours) ==
  [row EXCEPT !.deleted = TRUE, !.modified = t, !.ours = ours]

\* the sync time a row must exceed to count as changed
ChangedHere(i)  == local[i].modified > lastClient
ChangedThere(r) == remote[r].modified > lastServer

\* remote_session is the module's and outlives the sync: a query belongs to the
\* transaction that is open, since the last commit or since an earlier sync
Reading == IF since = 0 THEN clock ELSE since

\* The server's sync time is SELECT now(), the start of the transaction t that is
\* open, by the server's clock; and a slip that keeps the old one.
ServerTime_Kept(t) == lastServer
ServerTime(t) == t + ServerOffset + Slack

-----------------------------------------------------------------------------
(* The user, between two syncs: synchronize() runs on the only thread that *)
(* handles keys.                                                           *)

UserMayWrite == pc = "idle" /\ (Quiet => clock > lastClient)

CreateTask(i) ==
  /\ UserMayWrite /\ NextLocal(i) /\ edits < MaxVersion
  /\ local' = [local EXCEPT ![i] =
                 [exists |-> TRUE, tid |-> NoId, text |-> edits + 1,
                  modified |-> clock, deleted |-> FALSE]]
  /\ fts' = fts \cup {<<i, edits + 1>>}
  /\ edits' = edits + 1
  /\ UNCHANGED <<remote, stamps, clock, failures, loops, control, since>>

EditTask(i) ==
  /\ UserMayWrite /\ local[i].exists /\ edits < MaxVersion
  /\ local' = [local EXCEPT ![i] = Rewritten(@, edits + 1)]
  /\ fts' = Reindexed(i, edits + 1)
  /\ edits' = edits + 1
  /\ UNCHANGED <<remote, stamps, clock, failures, loops, control, since>>

ToggleDeleted(i) ==
  /\ UserMayWrite /\ local[i].exists
  /\ local' = [local EXCEPT ![i] = Toggled(@)]
  /\ UNCHANGED <<remote, fts, stamps, counters, loops, control, since>>

-----------------------------------------------------------------------------
(* The other clients, which push to the server with the same code and      *)
(* stamp what they write with their own clocks.                            *)

OthersMayWrite(d) == Quiet => pc = "idle" /\ clock + d > lastServer

\* a new row: its fields may not have been committed yet
RemoteCreate(r, d, v) ==
  /\ OthersMayWrite(d) /\ NextRemote(r) /\ edits < MaxVersion
  /\ v = edits + 1 \/ (v = Blank /\ ~Quiet)
  /\ remote' = [remote EXCEPT ![r] =
                  [exists |-> TRUE, text |-> v, modified |-> clock + d,
                   deleted |-> FALSE, ours |-> FALSE]]
  /\ edits' = edits + 1
  /\ UNCHANGED <<local, fts, stamps, clock, failures, loops, control, since>>

RemoteEdit(r, d) ==
  /\ OthersMayWrite(d) /\ edits < MaxVersion
  /\ remote[r].exists /\ ~remote[r].deleted
  /\ remote' = [remote EXCEPT ![r] = Stored(@, edits + 1, clock + d, FALSE)]
  /\ edits' = edits + 1
  /\ UNCHANGED <<local, fts, stamps, clock, failures, loops, control, since>>

RemoteDelete(r, d) ==
  /\ OthersMayWrite(d)
  /\ remote[r].exists /\ ~remote[r].deleted
  /\ remote' = [remote EXCEPT ![r] = Marked(@, clock + d, FALSE)]
  /\ UNCHANGED <<local, fts, stamps, counters, loops, control, since>>

-----------------------------------------------------------------------------
(* synchronize(): the two groups of queries *)

\* the sync times are read and the changed server rows are listed
Begin ==
  /\ pc = "idle" /\ ~broken
  /\ serverUpdated' = {r \in RemoteIds : /\ remote[r].exists
                                         /\ ~remote[r].deleted
                                         /\ ChangedThere(r)}
  /\ seen' = [r \in RemoteIds |-> remote[r].text]
  /\ pc' = "query" /\ since' = Reading
  /\ UNCHANGED <<stores, stamps, counters, broken, half,
                 pulls, pushes, drops, erases>>

\* the other lists; client_deleted_tasks is not limited by a sync time
ListChanges ==
  /\ pc = "query"
  /\ pulls' = serverUpdated
  /\ drops' = {r \in RemoteIds : /\ remote[r].exists
                                 /\ remote[r].deleted
                                 /\ ChangedThere(r)}
  /\ pushes' = {i \in LocalIds : /\ local[i].exists
                                 /\ ~local[i].deleted
                                 /\ ChangedHere(i)}
  /\ erases' = {i \in LocalIds : local[i].exists /\ local[i].deleted}
  /\ pc' = "apply"
  /\ UNCHANGED <<stores, stamps, counters, broken, half, serverUpdated, seen, since>>

\* "sync_test" only counts what it would exchange, but its queries open a transaction
ReportOnly ==
  /\ pc = "query" /\ pc' = "idle"
  /\ serverUpdated' = {} /\ seen' = [r \in RemoteIds |-> Blank]
  /\ UNCHANGED <<stores, stamps, counters, broken, half,
                 pulls, pushes, drops, erases, since>>

-----------------------------------------------------------------------------
(* "updated server tasks -> client" *)

Pulling(r) == pc = "apply" /\ half = Whole /\ r \in pulls

\* The row is the object the query loaded: its text is the one then read,
\* or a later one if a commit of remote_session has expired it since.
PullUpdate(r, i, v) ==
  /\ Pulling(r) /\ i \in Copies(r) /\ v \in {seen[r], remote[r].text}
  /\ local' = [local EXCEPT ![i] = Rewritten(@, v)]
  /\ pulls' = pulls \ {r}
  /\ UNCHANGED <<remote, fts, stamps, counters, control,
                 serverUpdated, seen, pushes, drops, erases, since>>

PullCreate(r, i, v) ==
  /\ Pulling(r) /\ Copies(r) = {} /\ v \in {seen[r], remote[r].text}
  /\ NextLocal(i)
  /\ local' = [local EXCEPT ![i] =
                 [exists |-> TRUE, tid |-> r, text |-> v,
                  modified |-> clock, deleted |-> FALSE]]
  /\ pulls' = pulls \ {r}
  /\ half' = [op |-> "index", task |-> i, row |-> NoId]
  /\ UNCHANGED <<remote, fts, stamps, counters, pc, broken,
                 serverUpdated, seen, pushes, drops, erases, since>>

\* the commit of the full-text index, made for created rows only; and a slip
\* that files the entry under the server's id
PullIndex_ByTid ==
  /\ pc = "apply" /\ half.op = "index"
  /\ fts' = fts \cup {<<local[half.task].tid, local[half.task].text>>}
  /\ half' = Whole
  /\ UNCHANGED <<local, remote, stamps, counters, pc, broken, loops, since>>

PullIndex ==
  /\ pc = "apply" /\ half.op = "index"
  /\ fts' = fts \cup {<<half.task, local[half.task].text>>}
  /\ half' = Whole
  /\ UNCHANGED <<local, remote, stamps, counters, pc, broken, loops, since>>

-----------------------------------------------------------------------------
(* client updated tasks -> server *)

Pushing(i) == pc = "apply" /\ half = Whole /\ pulls = {} /\ i \in pushes

\* an empty row is committed to obtain its id
PushCreate(i, r) ==
  /\ Pushing(i) /\ ~HasRemote(i) /\ NextRemote(r)
  /\ remote' = [remote EXCEPT ![r] =
                  [exists |-> TRUE, text |-> Blank, modified |-> clock,
                   deleted |-> FALSE, ours |-> TRUE]]
  /\ half' = [op |-> "tid", task |-> i, row |-> r]
  /\ since' = 0
  /\ UNCHANGED <<local, fts, stamps, counters, pc, broken, loops>>

\* ct.tid = task.id, committed locally; onupdate stamps the local row
PushTid ==
  /\ pc = "apply" /\ half.op = "tid"
  /\ local' = [local EXCEPT ![half.task] = Tied(@, half.row)]
  /\ half' = [op |-> "fields", task |-> half.task, row |-> half.row]
  /\ since' = Reading
  /\ UNCHANGED <<remote, fts, stamps, counters, pc, broken, loops>>

\* the fields of task i are committed to server row r
Uploaded(i, r) ==
  [remote EXCEPT ![r] = Stored(@, local[i].text, clock, TRUE)]

PushFields ==
  /\ pc = "apply" /\ half.op = "fields"
  /\ remote' = Uploaded(half.task, half.row)
  /\ pushes' = pushes \ {half.task}
  /\ half' = Whole /\ since' = 0
  /\ UNCHANGED <<local, fts, stamps, counters, pc, broken,
                 serverUpdated, seen, pulls, drops, erases>>

PushUpdate(i) ==
  /\ Pushing(i) /\ HasRemote(i) /\ local[i].tid \notin serverUpdated
  /\ remote' = Uploaded(i, local[i].tid)
  /\ pushes' = pushes \ {i} /\ since' = 0
  /\ UNCHANGED <<local, fts, stamps, counters, control,
                 serverUpdated, seen, pulls, drops, erases>>

\* "updated-server won"
PushSkip(i) ==
  /\ Pushing(i) /\ HasRemote(i) /\ local[i].tid \in serverUpdated
  /\ pushes' = pushes \ {i} /\ since' = Reading
  /\ UNCHANGED <<stores, stamps, counters, control,
                 serverUpdated, seen, pulls, drops, erases>>

-----------------------------------------------------------------------------
(* deletions *)

\* Delete from client a task deleted on the server.  The rows of task_keyword go in
\* commits of their own on either side, before; no variable here has them.
Drop(r) ==
  /\ pc = "apply" /\ half = Whole /\ pulls = {} /\ pushes = {} /\ r \in drops
  /\ local' = [i \in LocalIds |-> IF i \in Copies(r) THEN NoLocal ELSE local[i]]
  /\ drops' = drops \ {r} /\ since' = 0
  /\ UNCHANGED <<remote, fts, stamps, counters, control,
                 serverUpdated, seen, pulls, pushes, erases>>

\* a slip: the client's deletions do not wait for what others wrote
Erasing_First(i) == pc = "apply" /\ half = Whole /\ i \in erases

Erasing(i) ==
  /\ pc = "apply" /\ half = Whole
  /\ pulls = {} /\ pushes = {} /\ drops = {} /\ i \in erases

\* Delete from the server a task deleted on the client.  Setting deleted on a
\* row that has it already writes nothing, so its modified stays.
EraseRemote(i) ==
  /\ Erasing(i) /\ local[i].exists /\ HasRemote(i)
  /\ LET r == local[i].tid IN
       remote' = IF remote[r].deleted THEN remote
                 ELSE [remote EXCEPT ![r] = Marked(@, clock, TRUE)]
  /\ half' = [op |-> "erase", task |-> i, row |-> NoId]
  /\ since' = 0
  /\ UNCHANGED <<local, fts, stamps, counters, pc, broken, loops>>

\* the local row goes, at once if it never had a server row; a row dropped
\* above is already gone.  Its full-text entry stays.
EraseLocal(i) ==
  /\ \/ Erasing(i) /\ (local[i].exists => local[i].tid = NoId)
     \/ pc = "apply" /\ half.op = "erase" /\ half.task = i
  /\ local' = [local EXCEPT ![i] = NoLocal]
  /\ erases' = erases \ {i}
  /\ half' = Whole
  /\ UNCHANGED <<remote, fts, stamps, counters, pc, broken,
                 serverUpdated, seen, pulls, pushes, drops, since>>

\* Both sync times.  The commits of containers and keywords, which are not here, may
\* have ended the transaction that was open, so that it began any time since.
Finish ==
  /\ pc = "apply" /\ half = Whole
  /\ pulls = {} /\ pushes = {} /\ drops = {} /\ erases = {}
  /\ lastClient' = clock + Slack
  /\ \E t \in Reading..clock : lastServer' = ServerTime(t) /\ since' = t
  /\ pc' = "idle"
  /\ serverUpdated' = {} /\ seen' = [r \in RemoteIds |-> Blank]
  /\ UNCHANGED <<stores, counters, broken, half, pulls, pushes, drops, erases>>

-----------------------------------------------------------------------------
(* A sync is cut short *)

CutShort ==
  /\ pc # "idle" /\ failures < MaxFailures
  /\ failures' = failures + 1
  /\ pc' = "idle" /\ half' = Whole
  /\ serverUpdated' = {} /\ seen' = [r \in RemoteIds |-> Blank]
  /\ pulls' = {} /\ pushes' = {} /\ drops' = {} /\ erases' = {}
  /\ since' = 0
  /\ UNCHANGED <<stores, stamps, clock, edits>>

\* the connection is lost: the exception leaves synchronize(), and the session,
\* which is never rolled back, refuses all work until the program is restarted
RemoteFails == CutShort /\ broken' = TRUE

\* the program is killed in the middle of a sync
Kill == CutShort /\ broken' = FALSE

Restart ==
  /\ pc = "idle" /\ broken /\ broken' = FALSE
  /\ UNCHANGED <<stores, stamps, counters, loops, pc, half, since>>

Tick ==
  /\ clock < MaxClock /\ clock' = clock + 1
  /\ UNCHANGED <<stores, stamps, edits, failures, loops, control, since>>

-----------------------------------------------------------------------------
User == \E i \in LocalIds : CreateTask(i) \/ EditTask(i) \/ ToggleDeleted(i)

Others == \E r \in RemoteIds, d \in Drift :
            \/ \E v \in Versions : RemoteCreate(r, d, v)
            \/ RemoteEdit(r, d)
            \/ RemoteDelete(r, d)

Apply ==
  \/ \E r \in RemoteIds, i \in LocalIds, v \in Versions :
       PullUpdate(r, i, v) \/ PullCreate(r, i, v)
  \/ PullIndex
  \/ \E i \in LocalIds, r \in RemoteIds : PushCreate(i, r)
  \/ PushTid \/ PushFields
  \/ \E i \in LocalIds : PushUpdate(i) \/ PushSkip(i)
  \/ \E r \in RemoteIds : Drop(r)
  \/ \E i \in LocalIds : EraseRemote(i) \/ EraseLocal(i)
  \/ Finish

Sync == Begin \/ ListChanges \/ Apply

Next ==
  User \/ Others \/ Sync \/ ReportOnly \/ RemoteFails \/ Kill \/ Restart \/ Tick

Spec == Init /\ [][Next]_vars

\* A sync that has begun runs on; the user starts one again and again, and
\* restarts a program whose syncs fail.  Nobody is obliged to edit anything.
FairSpec == Spec /\ WF_vars(Sync) /\ WF_vars(Restart)

-----------------------------------------------------------------------------
(* Properties *)

\* No two tasks of the client are tied to the same server row, and the row a
\* task is tied to exists: filter_by(tid=st.id).first() picks the only
\* candidate, and remote_session.query(p.Task).get(t.tid) never answers None.
TidsMatch ==
  /\ \A i, j \in LocalIds : /\ local[i].exists /\ local[j].exists /\ i # j
                            /\ local[i].tid # NoId
                            => local[i].tid # local[j].tid
  /\ \A i \in LocalIds : local[i].tid # NoId => HasRemote(i)

\* The text of one edit has one place: two rows of the same side never share it,
\* and a local row and a server row that share it are tied to each other; so
\* does the text that the running sync read from the server.
SameText(v, w) == v = w /\ v # Blank

OneOrigin ==
  /\ \A i, j \in LocalIds : SameText(local[i].text, local[j].text) => i = j
  /\ \A i \in LocalIds, r \in RemoteIds :
       \/ SameText(local[i].text, remote[r].text)
       \/ SameText(local[i].text, seen[r])
       => local[i].tid = r
  /\ \A q, r \in RemoteIds :
       \/ SameText(remote[q].text, remote[r].text)
       \/ SameText(seen[q], remote[r].text)
       \/ SameText(seen[q], seen[r])
       => q = r

\* What the two properties above rest on: texts are numbered by the edits made
\* so far, a row that does not exist holds nothing, the lists hold rows that
\* exist, and a task between its commits is the one its server row was made for.
EditsBound ==
  /\ \A i \in LocalIds : local[i].text <= edits
  /\ \A r \in RemoteIds : remote[r].text <= edits /\ seen[r] <= edits

EmptyRows ==
  /\ \A i \in LocalIds :
       ~local[i].exists => local[i].tid = NoId /\ local[i].text = Blank
  /\ \A r \in RemoteIds : ~remote[r].exists => remote[r].text = Blank

ListsExist ==
  /\ \A r \in serverUpdated \cup pulls : remote[r].exists
  /\ \A i \in pushes : local[i].exists

HalfMade ==
  /\ half # Whole => pc = "apply" /\ local[half.task].exists
  /\ half.op = "tid" => /\ local[half.task].tid = NoId
                        /\ remote[half.row].exists
                        /\ \A i \in LocalIds : local[i].tid # half.row
  /\ half.op = "fields" => local[half.task].tid = half.row
  /\ half.op = "erase" => pushes = {}

TiedInv == EmptyRows /\ ListsExist /\ HalfMade /\ TidsMatch

\* Between syncs, a server row that differs from the client's copy is still to
\* be seen as changed on one side or the other, so that a next sync settles it.
NothingMissed ==
  pc = "idle" =>
    /\ \A r \in RemoteIds :
         remote[r].exists /\ ~ChangedThere(r) =>
           IF remote[r].deleted
           THEN Copies(r) = {}
           ELSE \E i \in Copies(r) : \/ local[i].deleted
                                     \/ ChangedHere(i)
                                     \/ local[i].text = remote[r].text
    /\ \A i \in LocalIds :
         local[i].exists /\ ~local[i].deleted /\ ~ChangedHere(i) => HasRemote(i)

\* As long as no sync was cut short, a sync replaces text the user changed since
\* the last one only with text that somebody else wrote: "server won" is about
\* two people's edits, and the client's own pushes are behind the sync time.
ServerWinsOnConflict ==
  [][failures = 0 =>
     \A r \in RemoteIds, i \in LocalIds, v \in Versions :
       PullUpdate(r, i, v) /\ ChangedHere(i) /\ local[i].text # v
       => ~remote[r].ours]_vars

\* Between syncs, none of which was cut short, every task of the client has an
\* entry in the full-text index, whoever created the task.
EveryTaskIndexed ==
  pc = "idle" /\ failures = 0 => \A i \in LocalIds :
                   local[i].exists => \E v \in Versions : <<i, v>> \in fts

\* No task of the client is left with the empty text of a half-made row.
EveryTaskHasText ==
  pc = "idle" => \A i \in LocalIds : local[i].exists => local[i].text # Blank

\* The two sides hold the same tasks with the same texts.
InStep ==
  /\ \A r \in RemoteIds :
       remote[r].exists /\ ~remote[r].deleted
       => \E i \in Copies(r) : ~local[i].deleted /\ local[i].text = remote[r].text
  /\ \A i \in LocalIds : local[i].exists => HasRemote(i) /\ ~remote[local[i].tid].deleted

\* Once everybody stops editing, syncing brings both sides in step for good.
\* (A deletion pending on the client is a difference that the next sync settles.)
SettlesInStep == (<>[][Sync \/ Restart \/ Tick]_vars) => <>[]InStep
=============================================================================
