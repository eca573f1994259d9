---------------------------- MODULE KeywordSync -----------------------------
(***************************************************************************)
(* Replication of the keywords and of the tasks' keywords: the keyword     *)
(* parts of synchronize() in src/synchronize.py, with the statements of    *)
(* the program (src/dbfunc.cpp) that write the same tables.                *)
(*                                                                         *)
(* Unlike a context, a keyword is tied to its server row by tid when it is *)
(* replicated, and by name when a task's keywords are; the server's name   *)
(* may get the suffix "_dup" on the way.  As in ContainerSync, the tasks   *)
(* are on both sides already, nobody writes during a sync or within five   *)
(* seconds after it, and "changed" says that modified exceeds the sync time.*)
(***************************************************************************)
EXTENDS Integers, FiniteSetsExt

CONSTANTS
  MaxLocal,    \* local rows are 1..MaxLocal
  MaxRemote,   \* server rows are 1..MaxRemote
  Tasks,       \* the tasks, on both sides
  Words,       \* what users call keywords
  MaxEdits,    \* bound on the writes, by anybody
  MaxCuts      \* bound on the syncs that are cut short

ASSUME KeywordSyncAssumption ==
  /\ MaxLocal \in Nat \ {0} /\ MaxRemote \in Nat \ {0}
  /\ MaxEdits \in Nat /\ MaxCuts \in Nat /\ "" \notin Words

LocalIds  == 1..MaxLocal
RemoteIds == 1..MaxRemote
None      == 0                               \* the tid of every new keyword
Names     == [word : Words \cup {""}, suffix : Nat]
Plain(w)  == [word |-> w, suffix |-> 0]
NoName    == Plain("")                       \* of a row that does not exist
Suffixed(n) == [n EXCEPT !.suffix = @ + 1]   \* name + "_dup"

VARIABLES
  local, tags, tagsChanged,     \* sqlite: keyword, task_keyword, changed tasks
  remote, rtags, rtagsChanged,  \* the same on the server
  apart,      \* history: the server rows that this client gave a suffix, or deleted
              \* in a sync that did not end and brought back
  clash,      \* history: the names gave cause for a refusal as the sync began
  edits, cuts,                  \* number of writes, and of syncs cut short
  pc, broken,                   \* where synchronize() is; a session needs a rollback
  half,                         \* the commit of a keyword or task that comes next
  todo                          \* the lists of the sync, what is still to be applied

client  == <<local, tags, tagsChanged>>
server  == <<remote, rtags, rtagsChanged, apart>>
bounds  == <<edits, cuts>>
control == <<pc, broken, half>>
vars    == <<client, server, clash, bounds, control, todo>>

LocalRow  == [exists : BOOLEAN, tid : RemoteIds \cup {None}, name : Names,
              star : BOOLEAN, changed : BOOLEAN, deleted : BOOLEAN]
RemoteRow == [exists : BOOLEAN, name : Names,
              star : BOOLEAN, changed : BOOLEAN, deleted : BOOLEAN]
Whole     == [op |-> "none", local |-> None, remote |-> None]
Lists     == [updated : SUBSET RemoteIds, pulls : SUBSET RemoteIds,
              pushes : SUBSET LocalIds, drops : SUBSET RemoteIds,
              erases : SUBSET LocalIds, taskUpdated : SUBSET Tasks,
              taskPulls : SUBSET Tasks, taskPushes : SUBSET Tasks]
Nothing   == [updated |-> {}, pulls |-> {}, pushes |-> {}, drops |-> {},
              erases |-> {}, taskUpdated |-> {}, taskPulls |-> {}, taskPushes |-> {}]

TypeOK ==
  /\ local \in [LocalIds -> LocalRow] /\ remote \in [RemoteIds -> RemoteRow]
  /\ tags \in [Tasks -> SUBSET LocalIds] /\ tagsChanged \subseteq Tasks
  /\ rtags \in [Tasks -> SUBSET RemoteIds] /\ rtagsChanged \subseteq Tasks
  /\ apart \subseteq RemoteIds /\ clash \in BOOLEAN
  /\ edits \in 0..MaxEdits /\ cuts \in 0..MaxCuts
  /\ pc \in {"idle", "apply"} /\ broken \in BOOLEAN
  /\ half.op \in {"none", "tid", "star", "pullTags", "pushTags", "dropTags", "drop",
                  "eraseThere", "mark", "eraseLocal"}
  /\ half.local \in LocalIds \cup Tasks \cup {None}
  /\ half.remote \in RemoteIds \cup {None}
  /\ todo \in Lists

NoLocal  == [exists |-> FALSE, tid |-> None, name |-> NoName,
             star |-> FALSE, changed |-> FALSE, deleted |-> FALSE]
NoRemote == [exists |-> FALSE, name |-> NoName,
             star |-> FALSE, changed |-> FALSE, deleted |-> FALSE]

\* after a first sync: both sides have one keyword, and some tasks have it
Init ==
  /\ \E w \in Words, tagged \in SUBSET Tasks :
       /\ local = [i \in LocalIds |-> IF i # 1 THEN NoLocal ELSE
            [NoLocal EXCEPT !.exists = TRUE, !.tid = 1, !.name = Plain(w)]]
       /\ remote = [r \in RemoteIds |-> IF r # 1 THEN NoRemote ELSE
            [NoRemote EXCEPT !.exists = TRUE, !.name = Plain(w)]]
       /\ tags = [t \in Tasks |-> IF t \in tagged THEN {1} ELSE {}]
       /\ rtags = [t \in Tasks |-> IF t \in tagged THEN {1} ELSE {}]
  /\ tagsChanged = {} /\ rtagsChanged = {} /\ apart = {} /\ clash = FALSE
  /\ edits = 0 /\ cuts = 0
  /\ pc = "idle" /\ broken = FALSE /\ half = Whole /\ todo = Nothing

-----------------------------------------------------------------------------
(* Helpers *)

Locals  == {i \in LocalIds : local[i].exists}
Remotes == {r \in RemoteIds : remote[r].exists}
Copies(r) == {i \in Locals : local[i].tid = r}
Named(n)  == {i \in Locals : local[i].name = n}
RemotesNamed(n) == {r \in Remotes : remote[r].name = n}

\* Plausible slips, for the mutation runs: a column that is not copied, the local
\* task_keywords deleted by the server's id, tasks before keywords, an id that is read
\* before the commit that gives it.
Written_NoStar(row, name, star) ==
  [row EXCEPT !.name = name, !.changed = @ \/ row.name # name]
Untagged_ByTid(i) == [t \in Tasks |-> tags[t] \ {local[i].tid}]
KeywordsDone_Pulls == todo.pulls = {}
NewTid_Unread(r) == -1

\* rows that do not differ are not written
Written(row, name, star) ==
  [row EXCEPT !.name = name, !.star = star,
              !.changed = @ \/ row.name # name \/ row.star # star]

\* the tasks without keyword i, and on the server without keyword r
Untagged(i)  == [t \in Tasks |-> tags[t] \ {i}]
RUntagged(r) == [t \in Tasks |-> rtags[t] \ {r}]

\* the unique constraint on keyword.name, deleted rows included
LocalFree(n, i)  == Named(n) \subseteq {i}
RemoteFree(n, r) == RemotesNamed(n) \subseteq {r}

\* the unique constraint on the local keyword.tid
NewFree == \A j \in Locals : local[j].tid # None

\* the next id of sqlite, and of the server
NextLocal(i)  == i = Max(Locals \cup {0}) + 1
NextRemote(r) == r = Max(Remotes \cup {0}) + 1

-----------------------------------------------------------------------------
(* The user *)

Edit == pc = "idle" /\ edits < MaxEdits /\ edits' = edits + 1
UserEdit == Edit /\ UNCHANGED <<remote, rtags, rtagsChanged, clash, cuts, control, todo>>

Fresh(n, star) == [exists |-> TRUE, tid |-> None, name |-> n, star |-> star,
                   changed |-> TRUE, deleted |-> FALSE]

\* insertKeyword
New(i, n) ==
  /\ UserEdit /\ NextLocal(i) /\ LocalFree(n, i) /\ NewFree
  /\ local' = [local EXCEPT ![i] = Fresh(n, FALSE)]
  /\ UNCHANGED <<tags, tagsChanged, apart>>

\* updateKeywordTitle
Rename(i, n) ==
  /\ UserEdit /\ i \in Locals /\ LocalFree(n, i) /\ local[i].name # n
  /\ local' = [local EXCEPT ![i].name = n, ![i].changed = TRUE]
  /\ UNCHANGED <<tags, tagsChanged, apart>>

\* toggleStar and toggleDeleted
Star(i) ==
  /\ UserEdit /\ i \in Locals
  /\ local' = [local EXCEPT ![i].star = ~@, ![i].changed = TRUE]
  /\ UNCHANGED <<tags, tagsChanged, apart>>

Toggle(i) ==
  /\ UserEdit /\ i \in Locals
  /\ local' = [local EXCEPT ![i].deleted = ~@, ![i].changed = TRUE]
  /\ apart' = IF local[i].deleted /\ cuts > 0 /\ local[i].tid # None
              THEN apart \cup {local[i].tid} ELSE apart
  /\ UNCHANGED <<tags, tagsChanged>>

\* addTaskKeyword, by id
Tag(t, i) ==
  /\ UserEdit /\ i \in Locals
  /\ tags' = [tags EXCEPT ![t] = @ \cup {i}]
  /\ tagsChanged' = tagsChanged \cup {t}
  /\ UNCHANGED <<local, apart>>

\* addTaskKeyword, by name: INSERT OR IGNORE makes the keyword if the constraints
\* let it, and the task gets whatever keyword has that name then
TagNamed(t, i, n) ==
  /\ UserEdit /\ NextLocal(i)
  /\ local' = IF Named(n) = {} /\ NewFree
              THEN [local EXCEPT ![i] = Fresh(n, TRUE)] ELSE local
  /\ tags' = [tags EXCEPT ![t] = @ \cup
                {j \in LocalIds : local'[j].exists /\ local'[j].name = n}]
  /\ tagsChanged' = tagsChanged \cup {t}
  /\ UNCHANGED apart

\* deleteKeywords
UntagAll(t) ==
  /\ UserEdit
  /\ tags' = [tags EXCEPT ![t] = {}]
  /\ tagsChanged' = tagsChanged \cup {t}
  /\ UNCHANGED <<local, apart>>

\* a new run of the program
Restart ==
  /\ pc = "idle" /\ broken /\ broken' = FALSE
  /\ UNCHANGED <<client, server, clash, bounds, pc, half, todo>>

-----------------------------------------------------------------------------
(* The other clients, through the server: their keywords may get a suffix too *)

OthersEdit == Edit /\ UNCHANGED <<client, apart, clash, cuts, control, todo>>

RemoteNew(r, n) ==
  /\ OthersEdit /\ NextRemote(r) /\ RemoteFree(n, r)
  /\ remote' = [remote EXCEPT ![r] =
       [NoRemote EXCEPT !.exists = TRUE, !.name = n, !.changed = TRUE]]
  /\ UNCHANGED <<rtags, rtagsChanged>>

RemoteWrite(r, n, star) ==
  /\ OthersEdit /\ r \in Remotes /\ ~remote[r].deleted /\ RemoteFree(n, r)
  /\ remote' = [remote EXCEPT ![r] = [@ EXCEPT !.name = n, !.star = star,
                                               !.changed = TRUE]]
  /\ remote' # remote
  /\ UNCHANGED <<rtags, rtagsChanged>>

RemoteDelete(r) ==
  /\ OthersEdit /\ r \in Remotes /\ ~remote[r].deleted
  /\ remote' = [remote EXCEPT ![r].deleted = TRUE, ![r].changed = TRUE]
  /\ rtags' = RUntagged(r)
  /\ UNCHANGED rtagsChanged

RemoteTag(t, S) ==
  /\ OthersEdit /\ S \subseteq {r \in Remotes : ~remote[r].deleted} /\ S # rtags[t]
  /\ rtags' = [rtags EXCEPT ![t] = S]
  /\ rtagsChanged' = rtagsChanged \cup {t}
  /\ UNCHANGED remote

-----------------------------------------------------------------------------
(* synchronize() *)

Clashing == \/ \E i \in Locals, r \in Remotes :
                 local[i].name = remote[r].name /\ local[i].tid # r
            \/ \E i \in Locals : /\ local[i].deleted /\ local[i].tid \in Remotes
                                  /\ local[i].name # remote[local[i].tid].name

Begin ==
  /\ pc = "idle" /\ ~broken
  /\ todo' = [updated |-> {r \in Remotes : remote[r].changed /\ ~remote[r].deleted},
              pulls   |-> {r \in Remotes : remote[r].changed /\ ~remote[r].deleted},
              pushes  |-> {i \in Locals : local[i].changed /\ ~local[i].deleted},
              drops   |-> {r \in Remotes : remote[r].changed /\ remote[r].deleted},
              erases  |-> {i \in Locals : local[i].changed /\ local[i].deleted},
              taskUpdated |-> rtagsChanged, taskPulls |-> rtagsChanged,
              taskPushes |-> tagsChanged]
  /\ pc' = "apply"
  /\ clash' = Clashing
  /\ UNCHANGED <<client, server, bounds, broken, half>>

Applying == pc = "apply" /\ half = Whole
After(op) == pc = "apply" /\ half.op = op
Then(op, l, r) == half' = [op |-> op, local |-> l, remote |-> r]
Silent == UNCHANGED <<clash, bounds, pc, broken>>

\* a statement violates a constraint, or the sync is cut short: the exception
\* leaves synchronize() and the session is never rolled back
GiveUp ==
  /\ pc' = "idle" /\ broken' = TRUE /\ half' = Whole /\ todo' = Nothing
  /\ UNCHANGED <<client, server, clash, edits>>

Refuse == GiveUp /\ UNCHANGED cuts

CutShort == pc = "apply" /\ cuts < MaxCuts /\ cuts' = cuts + 1 /\ GiveUp

\* "updated server keywords -> client"
Pull(r, i) ==
  /\ Applying /\ r \in todo.pulls
  /\ IF Copies(r) = {} THEN NextLocal(i) ELSE i \in Copies(r)
  /\ \/ /\ LocalFree(remote[r].name, i)
        /\ local' = [local EXCEPT ![i] =
             IF @.exists THEN Written(@, remote[r].name, remote[r].star)
             ELSE [Fresh(remote[r].name, remote[r].star) EXCEPT !.tid = r]]
        /\ todo' = [todo EXCEPT !.pulls = @ \ {r}]
        /\ Silent
        /\ UNCHANGED <<tags, tagsChanged, server, half>>
     \/ ~LocalFree(remote[r].name, i) /\ Refuse

\* "updated client keywords -> server": the suffix, if any row there has the name,
\* be it the keyword's own
Pushing(i) == Applying /\ todo.pulls = {} /\ i \in todo.pushes
PushName(i) == IF RemotesNamed(local[i].name) = {}
               THEN local[i].name ELSE Suffixed(local[i].name)
Renamed(i, r) == apart' = IF PushName(i) = local[i].name
                          THEN apart ELSE apart \cup {r}

PushNew(i, r) ==
  /\ Pushing(i) /\ local[i].tid \notin Remotes /\ NextRemote(r)
  /\ \/ /\ RemoteFree(PushName(i), r)
        /\ remote' = [remote EXCEPT ![r] = [NoRemote EXCEPT
             !.exists = TRUE, !.name = PushName(i), !.changed = TRUE]]
        /\ Renamed(i, r)
        /\ Then("tid", i, r)
        /\ Silent
        /\ UNCHANGED <<client, rtags, rtagsChanged, todo>>
     \/ ~RemoteFree(PushName(i), r) /\ Refuse

\* ck.tid = keyword.id
NewTid(r) == r
PushTid ==
  /\ After("tid")
  /\ local' = [local EXCEPT ![half.local].tid = NewTid(half.remote),
                            ![half.local].changed = TRUE]
  /\ Then("star", half.local, half.remote)
  /\ Silent
  /\ UNCHANGED <<tags, tagsChanged, server, todo>>

PushUpdate(i) ==
  /\ Pushing(i) /\ local[i].tid \in Remotes \ todo.updated
  /\ LET r == local[i].tid IN
     \/ /\ RemoteFree(PushName(i), r)
        /\ remote' = [remote EXCEPT ![r] = Written(@, PushName(i), @.star)]
        /\ Renamed(i, r)
        /\ Then("star", i, r)
        /\ Silent
        /\ UNCHANGED <<client, rtags, rtagsChanged, todo>>
     \/ ~RemoteFree(PushName(i), r) /\ Refuse

PushStar ==
  /\ After("star")
  /\ remote' = [remote EXCEPT ![half.remote] =
                  Written(@, @.name, local[half.local].star)]
  /\ todo' = [todo EXCEPT !.pushes = @ \ {half.local}]
  /\ half' = Whole
  /\ Silent
  /\ UNCHANGED <<client, rtags, rtagsChanged, apart>>

\* "updated-server won"
PushSkip(i) ==
  /\ Pushing(i) /\ local[i].tid \in todo.updated
  /\ todo' = [todo EXCEPT !.pushes = @ \ {i}]
  /\ Silent
  /\ UNCHANGED <<client, server, half>>

\* "updated server tasks -> client": the task's old keywords go first
KeywordsDone == todo.pulls = {} /\ todo.pushes = {}

PullTask(t) ==
  /\ Applying /\ KeywordsDone /\ t \in todo.taskPulls
  /\ tags' = [tags EXCEPT ![t] = {}]
  /\ tagsChanged' = tagsChanged \cup {t}
  /\ Then("pullTags", t, None)
  /\ Silent
  /\ UNCHANGED <<local, server, todo>>

\* then the server's, found by name; one that is not is made by Keyword(kw.name),
\* which takes the name for the tid and has no name: NOT NULL refuses it
PullTags ==
  /\ After("pullTags")
  /\ LET t == half.local  names == {remote[r].name : r \in rtags[half.local]} IN
     \/ /\ \A n \in names : Named(n) # {}
        /\ tags' = [tags EXCEPT ![t] = {i \in Locals : local[i].name \in names}]
        /\ todo' = [todo EXCEPT !.taskPulls = @ \ {t}]
        /\ half' = Whole
        /\ Silent
        /\ UNCHANGED <<local, tagsChanged, server>>
     \/ (\E n \in names : Named(n) = {}) /\ Refuse

\* client tasks -> server
PushTask(t) ==
  /\ Applying /\ KeywordsDone /\ todo.taskPulls = {} /\ t \in todo.taskPushes
  /\ \/ /\ t \in todo.taskUpdated
        /\ todo' = [todo EXCEPT !.taskPushes = @ \ {t}]
        /\ UNCHANGED <<rtags, rtagsChanged, half>>
     \/ /\ t \notin todo.taskUpdated
        /\ rtags' = [rtags EXCEPT ![t] = {}]
        /\ rtagsChanged' = rtagsChanged \cup {t}
        /\ Then("pushTags", t, None)
        /\ UNCHANGED todo
  /\ Silent
  /\ UNCHANGED <<client, remote, apart>>

\* by name again; "Error: can't find keyword" is only logged
PushTags ==
  /\ After("pushTags")
  /\ LET t == half.local  names == {local[i].name : i \in tags[half.local]} IN
     /\ rtags' = [rtags EXCEPT ![t] = {r \in Remotes : remote[r].name \in names}]
     /\ todo' = [todo EXCEPT !.taskPushes = @ \ {t}]
  /\ half' = Whole
  /\ Silent
  /\ UNCHANGED <<client, remote, rtagsChanged, apart>>

TasksDone == KeywordsDone /\ todo.taskPulls = {} /\ todo.taskPushes = {}

\* "Delete from client keywords deleted on server": the server's task_keywords,
\* the client's, the keyword
DropThere(r) ==
  /\ Applying /\ TasksDone /\ r \in todo.drops
  /\ rtags' = RUntagged(r)
  /\ IF Copies(r) = {}
     THEN todo' = [todo EXCEPT !.drops = @ \ {r}] /\ UNCHANGED half
     ELSE Then("dropTags", Max(Copies(r)), r) /\ UNCHANGED todo
  /\ Silent
  /\ UNCHANGED <<client, remote, rtagsChanged, apart>>

DropTags ==
  /\ After("dropTags")
  /\ tags' = Untagged(half.local)
  /\ Then("drop", half.local, half.remote)
  /\ Silent
  /\ UNCHANGED <<local, tagsChanged, server, todo>>

Drop ==
  /\ After("drop")
  /\ local' = [local EXCEPT ![half.local] = NoLocal]
  /\ todo' = [todo EXCEPT !.drops = @ \ {half.remote}]
  /\ half' = Whole
  /\ Silent
  /\ UNCHANGED <<tags, tagsChanged, server>>

\* "Delete from server keywords deleted on client"
EraseTags(i) ==
  /\ Applying /\ TasksDone /\ todo.drops = {} /\ i \in todo.erases
  /\ tags' = Untagged(i)
  /\ IF local[i].tid \in Remotes THEN Then("eraseThere", i, local[i].tid)
                                 ELSE Then("eraseLocal", i, None)
  /\ Silent
  /\ UNCHANGED <<local, tagsChanged, server, todo>>

EraseThere ==
  /\ After("eraseThere")
  /\ rtags' = RUntagged(half.remote)
  /\ Then("mark", half.local, half.remote)
  /\ Silent
  /\ UNCHANGED <<client, remote, rtagsChanged, apart, todo>>

Mark ==
  /\ After("mark")
  /\ remote' = [remote EXCEPT
       ![half.remote].changed = @ \/ ~remote[half.remote].deleted,
       ![half.remote].deleted = TRUE]
  /\ Then("eraseLocal", half.local, None)
  /\ Silent
  /\ UNCHANGED <<client, rtags, rtagsChanged, apart, todo>>

EraseLocal ==
  /\ After("eraseLocal")
  /\ local' = [local EXCEPT ![half.local] = NoLocal]
  /\ todo' = [todo EXCEPT !.erases = @ \ {half.local}]
  /\ half' = Whole
  /\ Silent
  /\ UNCHANGED <<tags, tagsChanged, server>>

\* the sync times exceed every modified time
Finish ==
  /\ Applying /\ TasksDone /\ todo.drops = {} /\ todo.erases = {}
  /\ local' = [i \in LocalIds |-> [local[i] EXCEPT !.changed = FALSE]]
  /\ remote' = [r \in RemoteIds |-> [remote[r] EXCEPT !.changed = FALSE]]
  /\ tagsChanged' = {} /\ rtagsChanged' = {}
  /\ todo' = Nothing /\ pc' = "idle" /\ clash' = FALSE
  /\ UNCHANGED <<tags, rtags, apart, bounds, broken, half>>

-----------------------------------------------------------------------------
User ==
  \/ \E i \in LocalIds : \/ Star(i) \/ Toggle(i)
                         \/ \E w \in Words : New(i, Plain(w)) \/ Rename(i, Plain(w))
                         \/ \E t \in Tasks : \/ Tag(t, i)
                                             \/ \E w \in Words : TagNamed(t, i, Plain(w))
  \/ \E t \in Tasks : UntagAll(t)
  \/ Restart

Others ==
  \/ \E r \in RemoteIds, w \in Words :
       RemoteNew(r, Plain(w)) \/ \E star \in BOOLEAN : RemoteWrite(r, Plain(w), star)
  \/ \E r \in Remotes : \/ RemoteDelete(r)
                        \/ RemoteWrite(r, Suffixed(remote[r].name), remote[r].star)
  \/ \E t \in Tasks, S \in SUBSET RemoteIds : RemoteTag(t, S)

Sync ==
  \/ Begin
  \/ \E i \in LocalIds, r \in RemoteIds : Pull(r, i) \/ PushNew(i, r)
  \/ \E i \in LocalIds : PushUpdate(i) \/ PushSkip(i) \/ EraseTags(i)
  \/ PushTid \/ PushStar
  \/ \E t \in Tasks : PullTask(t) \/ PushTask(t)
  \/ PullTags \/ PushTags
  \/ \E r \in RemoteIds : DropThere(r)
  \/ DropTags \/ Drop \/ EraseThere \/ Mark \/ EraseLocal
  \/ Finish

Next == User \/ Others \/ Sync \/ CutShort

Spec == Init /\ [][Next]_vars

-----------------------------------------------------------------------------
(* Properties *)

\* Between syncs, a keyword of the server that no side has marked as changed is on
\* the client if it is not deleted, and then only there, with the same star and with
\* the same name but for one suffix; a keyword of the client that is not marked is on
\* the server.
KeywordsInStep ==
  pc = "idle" =>
    /\ \A r \in Remotes : ~remote[r].changed =>
         IF remote[r].deleted THEN Copies(r) = {}
         ELSE \E i \in Copies(r) : \/ local[i].changed
                                   \/ /\ local[i].star = remote[r].star
                                      /\ remote[r].name \in
                                           {local[i].name, Suffixed(local[i].name)}
    /\ \A i \in Locals : ~local[i].changed => local[i].tid \in Remotes

\* Between syncs, a task that no side has marked as changed has the same keywords on
\* both sides, except for a keyword that waits to be synced or is apart; and it has
\* none that does not exist.
TagsInStep ==
  pc = "idle" =>
    \A t \in Tasks :
      /\ tags[t] \subseteq Locals
      /\ t \notin tagsChanged \cup rtagsChanged =>
           \A i \in Locals :
             LET r == local[i].tid IN
             ~local[i].changed /\ r \notin apart /\ ~remote[r].changed =>
               (i \in tags[t] <=> r \in rtags[t])

\* A sync is refused by a constraint only if, when it began, some name was that of
\* one keyword here and of another on the server, or a keyword deleted here had another
\* name there; or if some name on the server has the suffix, or a task there has a
\* keyword that is deleted.
RefusalHasCause ==
  [][pc = "apply" /\ pc' = "idle" /\ broken' /\ cuts' = cuts =>
       \/ clash
       \/ \E r \in Remotes : remote[r].name.suffix > 0
       \/ \E t \in Tasks : \E r \in rtags[t] : remote[r].deleted]_vars

\* "the theory is that this should always match": whenever the keywords of a task
\* are uploaded, the server has a keyword of each one's name, if it is not deleted.
TagsFound ==
  half.op = "pushTags" =>
    \A i \in tags[half.local] :
      ~local[i].deleted => RemotesNamed(local[i].name) # {}
=============================================================================
