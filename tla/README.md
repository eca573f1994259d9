# A verification of listmanager

listmanager is a terminal program for tasks and notes. It keeps them in a local
sqlite database, replicates that database with a shared PostgreSQL server, and
edits the notes in windows, some of which are source code that language servers
check. This directory models the parts of it in TLA+, checks the models with TLC
and proves theorems about them with TLAPS.

All of the program that is built is in `src/`: nine C++ files (`listman.cpp`,
`organizer.cpp`, `normalorg.cpp`, `cmdorg.cpp`, `editor.cpp`, `session.cpp`,
`dbfunc.cpp`, `dbase.cpp`, `lsp.cpp`) and three Python files that the program
embeds (`synchronize.py`, `lmdb_s.py`, `lmdb_p.py`). There are no tests, and the
documents (`README.md`, `listmanager_commands`) list keys and commands.

## The parts of the system

| part | state | operations | talks to |
|---|---|---|---|
| Task replication (`synchronize.py`) | task table on both sides, full-text index, two sync times | one sync: list the changes, pull, push, drop, erase, set the times | the server and its other clients; the program, which waits for it |
| Container replication (`synchronize.py`, `dbfunc.cpp`) | contexts and folders on both sides, the place of every task, the map of titles, the temporary tid | the container part of a sync; new, rename, delete, move a task | the same |
| Keyword replication (`synchronize.py`, `dbfunc.cpp`) | keywords and task_keyword on both sides | the keyword part of a sync; add, rename, delete | the same |
| Language server threads (`lsp.cpp`) | `sess.lsp_v`, the flags of every `Lsp`, `sess.p` and its code | start, send the saved code, shut down | the main thread, by shared memory; a child process, by pipes |
| Organizer (`organizer.cpp`, `normalorg.cpp`, `cmdorg.cpp`, `listman.cpp`) | mode, view, rows, cursor, marks | one per key and command | the database statements; the editors |
| Editor text and undo (`editor.cpp`) | rows, cursor, undo deque, dirty | one per key | the windows |
| Editor windows (`listman.cpp`, `cmdorg.cpp`, `session.cpp`, `editor.cpp`) | `sess.editors`, `sess.p`, linked editors | open, link, write, quit, move | the language server threads read them |
| Local statements and search (`dbfunc.cpp`, `dbase.cpp`) | sqlite, the full-text index | one per statement | everything |
| Browser preview (`session.cpp`) | a file and a lock on it | rewrite the file | the browser |
| Screen drawing | none of its own | | |

Older programs (`listmanager_term*.c`, `call_solr.c`, `ww3.c`, `solr*.py`,
`view_html_*.py`) are not built; `pstream.h`, `process.h`, `inipp.h`,
`base64.hpp` and `utf8/` are libraries. None of these is modelled.

What is hard about it:

* **Replication is a loop of separate commits on two databases.** Nothing spans
  them: a lost connection, a refused statement or a kill leaves what was
  committed, and the next sync starts from there. A session that failed is
  never rolled back, so that every later sync of the same run fails at once.
* **The changes are found by time.** A row is listed if its modified time exceeds
  the time of the last sync, which is taken at the end, with five seconds added.
  What is written meanwhile, or by a clock that is behind, is below that time.
* **The client has no ids to give.** A new task has no tid; a new context has one
  from a counter that starts again at 99999; a new keyword has tid 0. The sync
  puts the server's id in its place, in a commit of its own.
* **A deleted row is a mark on one side and gone on the other**, and tasks point
  to containers by tid on both sides.
* **A change in the editor is undone from as little as its command allows**: a row,
  a number of rows, or the note; it is redone by doing the command again. What a
  command leaves behind (the text typed, the count, the buffer) decides whether
  that works for the next one.
* **The language server threads share an `Lsp` and the current editor** with the
  main thread, with two atomic flags and no lock.

`PROJECT.json` lists these hazards line by line with the properties that cover
them.

## What makes each part correct

* Task replication: a task and a server row are tied one to one; an edit has one place on
  each side; no difference is hidden from every later sync, and where the sync times do
  hide one, it stays with one row; only somebody else's text replaces the user's; both
  sides agree in the end; a search finds every task; all of it together is a merge of two
  copies.
* Container replication: the same, for titles; tids are unique; a task is in the same
  container on both sides, and in one that exists; the map answers with the right tid.
* Keyword replication: a keyword has the same name and star on both sides, a task the same
  keywords; a sync is refused only when there is a reason.
* Language server threads: no use of a deleted `Lsp`; the server has the last saved code;
  quitting ends.
* Editor: undo and redo pass through the notes there were; no key reads out of bounds; a
  note that was changed says so.
* Editor windows: no pointer to a window that is closed; one window for a note; a window
  that is not dirty shows what is stored; nothing is lost but where the cursor is.
* Organizer: the cursor is on a row, and the mode says when there is none; the id of a row
  is not that of another task; a title that is not stored stays dirty.
* Local statements and search: a search finds the tasks that have what is searched for,
  and no others.

## Modules

| module | contents |
|---|---|
| `TaskSync` | the replication of the task table |
| `Replica` | what it promises: a merge of two copies |
| `TaskSyncMerge` | `TaskSync` with two history variables, which implements `Replica` |
| `TaskSyncLate` | `TaskSync` with a history of the writes that come too late for the sync times |
| `TaskSyncProofs` | proofs: types, the tie of task and server row, the index, that an edit has one place on each side, that `TaskSync` implements `Replica`, that nothing is missed, and whose text wins |
| `MCTaskSync` | values for TLC |
| `MCTaskSyncLate` | how many late writes the run has at a time |
| `ContainerSync` | contexts or folders, and the tasks' places in them |
| `ContainerSyncProofs` | proofs: types, tids, the map of titles, and that the containers and the tasks' places stay in step |
| `MCContainerSync` | the symmetry of the titles |
| `KeywordSync` | the keywords, and the tasks' keywords |
| `KeywordSyncProofs` | proofs: types, the keywords and the tasks' keywords stay in step, and why a sync is refused |
| `MCKeywordSync` | the symmetry of the words and the tasks |
| `LspThreads` | the language server threads and the main thread |
| `LspThreadsProofs` | proofs: types, no use of a deleted `Lsp`, and the server has the last saved code |
| `MCLspThreads` | values for TLC |
| `EditorUndo` | the text of a note, undo, redo, dot, and dirty |
| `EditorUndoProofs` | proofs: types, no access out of bounds, undo and redo go along the history, and which keys mark the note as changed |
| `MCEditorUndo` | notes for TLC, and which states and variables the run may leave out |
| `EditorWindows` | the windows, their outputs, and who has the keyboard |
| `EditorWindowsProofs` | proofs: types, no pointer to a closed window, one window for a note, and what the others show |
| `Organizer` | the list of tasks: rows, cursor, modes, and what a key does to them |
| `OrganizerProofs` | proofs: types, the cursor is on a row, the mode says when there is none, a row names no other task, and no title is lost |
| `SearchIndex` | the full-text index, the keywords, links and copies of tasks, and the search |
| `SearchIndexProofs` | proofs: types, and what a search finds |

### TaskSync

`local`, `remote` and `fts` are the two tables and the index. A row's text is the
number of the edit that wrote it, so that lost and doubled edits show; the title,
note, star and the other columns, which are always copied together, are that one
text. `lastClient` and `lastServer` are the rows of the table `sync`. The lists
that `synchronize()` builds at its start are `serverUpdated` (kept whole for the
test `if task in server_updated_tasks`), `pulls`, `pushes`, `drops`, `erases`; the
texts it has read with them are `seen`. SQLAlchemy reads a row again after every
commit, so a step may use either what was queried or what is there now.

Every commit of `synchronize()` is a step: `PushCreate` commits the empty server
row, `PushTid` the tid, `PushFields` the fields; `half` says which commit comes
next. Tasks of a list are taken in any order. `RemoteFails` (the connection is
lost; `broken`) and `Kill` may come between any two steps; `Restart` is a new run
of the program. The user writes only while no sync runs, since the sync runs in
the program's only thread (`Session::synchronize`); the other clients write at any
time. `Quiet` restricts both to the time between syncs and after the five seconds
of the last one.

The server's new sync time is `SELECT now()`, which in PostgreSQL is the start of the
transaction that is open. The session belongs to the module and outlives a sync, and its
queries open a transaction that only a commit ends; `since` is when that was. A sync that
commits nothing on the server, or a report-only one (`ReportOnly`, the command
`sync_test`), leaves its transaction to the next sync, whose new time may then be long
past: the rows listed after it are listed once more. The commits of containers and
keywords are in other modules, and so `Finish` lets the transaction have begun at any
time since the last commit for tasks. A comment in the code (`synchronize.py:744`) has
seen such times: "the resulting timestamp could be earlier than when the server tasks
were modified -- no idea why".

The rows of `task_keyword` that are removed with a task are commits of their own in the
code (`synchronize.py:559`, `:605`); they change nothing that this module has, and
`KeywordSync` has them.

### Replica and TaskSyncMerge

`Replica` says what the exchange of tasks is, without times, lists or commits: two sets of
texts, which row is tied to which, and for either side what the other has not had yet
(`unsent`, `unseen`). A text is replaced by a text of the other side only, and on the
server only by a client that has had what it replaces. `theirs` are the rows whose text
others wrote: those may count as new again (`Relist`), which is what a sync time that is
long past does; this client's own pushes may not. The program keeps none of these sets; it
has modified times and two sync times. `TaskSyncMerge` adds the first two to `TaskSync` as
history variables, each set by the writes and cleared by the exchanges in the same step,
and maps the rest: a task marked as deleted, or a row that has no fields yet, is no text.
`Merges` then says that the lists made from times, and the order in which they are
applied, are such a merge. It is stated where it is meant to hold (`MergeAssumption`):
nobody writes during a sync or in its five seconds, no sync is cut short, and this
client's clock is not ahead of the server's by more than the five seconds. Without `Quiet`
an edit that others make between the query and the new sync time is below that time and no
sync lists it.

The conjuncts of `MergeInv` and `SettledInv` say why: what the times tell, then the
lists, between any two commits. They are what the proofs rest on.

### TaskSyncLate

This is `TaskSync` without `Quiet`: others write between any two commits, and everybody in
the five seconds. Such writes are missed, and no property can say that they are not.
`lateHere` and `lateThere` are the tasks and the rows that were last written so: history
that the code does not have, set by the write and cleared when the two copies are made the
same. `MissedOnlyLate` is what remains of `NothingMissed`: a difference that no sync sees is
at a row that was written late. So what others do during a sync never makes the sync miss
another row, a sync that is cut short adds nothing to what is missed, and the next write or
exchange of the row ends it. A deletion by others is the one thing no exchange takes back: a
text pushed to a row that was deleted late stays unseen with it.

### ContainerSync

It starts after a first sync and considers the tasks that both sides have. Here
time is abstracted: `changed` and `homeChanged` stand for "modified after the last
sync", which is what the modified times amount to when nobody writes during a
sync or in the five seconds after it; `TaskSync` covers what happens otherwise.
`kind` says which of the two tables is meant: titles are unique among contexts
and not among folders. `map` is `org.context_map`, filled by `MapRead`: at the
start of the program, and by `F_sync` after every sync, whether it worked or not.
`Refuse` is a statement that violates a constraint: the exception ends the sync,
what was committed stays, and the session is `broken` until `Restart`. The default
container has tid 1 on both sides; it is never renamed or deleted, which the
program does not prevent but relies on. The ids of the server stay below 99999.
`star` and `textcolor`, which follow the title, are left out.

### KeywordSync

As in `ContainerSync`, time is abstracted to `changed`. A keyword is tied to its server
row by tid when keywords are synced, and by name when a task's keywords are. A name is a
word and the number of suffixes `_dup` it has been given, which is all the properties tell
apart and has no bound of its own (the edits bound it); `star` is there because a keyword
can be changed without being renamed. `tags` and `rtags` are the `task_keyword` tables; a
task's keywords are replaced as a whole. `todo` holds the lists of a sync and `half` the
commit that comes next. `apart` is a history variable: the server rows whose name this
client gave a suffix, after which the tasks that have them are uploaded without them, or
whose deletion was cut short and taken back. Tags with such a keyword are not compared.

A sync is refused, and the session with it until a restart, for more reasons than two
users' choosing the same name: after a rename to `_dup`, when the task of such a
keyword is pulled (its name is unknown, and the row is made from the name in the place
of the tid); when a keyword that was renamed and deleted here is still that of a task
there; when a task on the server has a deleted keyword. `RefusalHasCause` lists them.

### LspThreads

The threads and the main thread interleave at every access to something shared.
A text is the number of the save that made it. Reading the current editor's code
while the main thread assigns it, or after the editor was deleted, is undefined:
`Read` then gets any text, and `Crash` ends the program. `Take` is
`sess.lsp_v.back()`, called when the thread first runs: by then another server may
have been started, and two threads serve the same `Lsp`. `Wait` is the loop that
ends when the thread has closed or three seconds have passed, so it may end at any
time. The `vector` itself is taken to be read whole: a thread that has not yet
called `back()` while the user types a second start command is not given a torn
vector. `patient` is a user who waits until the flag of a save is cleared and a
started thread runs before giving the next command.

### EditorUndo

One editor, one action per key or command with its count; `Shown` is what follows
every key (`editorScroll`). `ed` is the text with its cursor, `dirty`, and `ok`, which
is false once something was accessed out of bounds: `rows.at` and `snapshot.at` then
end the program, `row.insert` and `rows.erase` may do anything, so nothing follows.
Of each kind of command in `src/editor.h` there is one: `i` and `a`, `o` and `O`, `x`
and `dd`, `s`, and `p`, which redo treats apart. `Does` is what a command does,
`Repeated` what redo and dot make of it, `DiffOf` and `DiffAgain` are `push_current`
and `push_previous`. `stuck` is `command[]` after a dot, which nothing resets, so that
no command is recognised until a key that drops it. `d_index` is not set by the
constructor: `Init` lets it be 0 or 1.

`timeline` holds the notes that undo and redo should pass through, from the texts
alone: it is the abstract history, and `UndoGoesBack` says that the Diffs bring back
just that. `plain` becomes false when the keys are used in a way that undo, redo or
the program does not survive; every action says which, in `Excluding`. The list is
short enough to be read as a list of defects, each found by leaving it out:

* in a note without rows: a return, any command after Escape or `:w`;
* `o` or `O` with a count: undo takes away what was typed once;
* `i` or `a` with a count and a return: the return is repeated as a character;
* an insertion or `x` after a redo of typed text: `last_typed` still holds it, so the
  Diff counts rows that this command did not make;
* backspace over what was there before, or over the start of a row: redo does not
  know of it (and a row of one letter is lost when it is joined);
* deleting the last row: no Diff is made, but the older ones stay;
* `dd` with a count beyond the last row: `push_current` copies rows beyond the end;
* redo of `p` after another command, or with another buffer: it is what was done
  last, and not what is redone, that redo looks at;
* redo or dot of `a` on an empty row: the cursor moves past the end, and the letter is
  inserted there;
* dot after an undo, for `p`, `o` or `O`, after Escape on the command line (which sets
  the count to 0), for `dd` with another count, or before any change;
* redo before any change, if `d_index` happens not to be 0;
* `yy` with a count beyond the last row.

`DirtyIsSet` is about `:q`, which asks only if `dirty` says that the text changed. A
return, `p`, an undo, what repeats a command, and the removal of the last row do not
set it, and so text is lost without
a question if they were the last change; any other key sets it.

### EditorWindows

`editors` and `p` are `sess.editors` and `sess.p`; a window is an address, given out
again after it is freed, so that a stale pointer would show. A note of the folders for
C++ and Go has a second window for the output of the program, linked both ways. The
actions are opening a note from the list (with or without an output window), following
and making links, typing, writing, running, the keys that go from window to window,
moving the output window, `:q`, `:q!` and `:x`, leaving for the list and coming back,
and a sync that changes or removes notes while the list has the keyboard. `behind` is a
history variable: a window that is clean although its note in the database is another
one, because the list changed it or because a write of it failed. `Ended` is also how
the program ends when a note without an output window is run, or `ctrl-j` is typed in
one: both use `linked_editor`, which is null.

### Organizer

`rows` is the copy of what a query returned, `fr` the cursor, counted from 0 as in the
code. A row has the id of its task (or -1), the title as it is shown, and `dirty`. `Show`
puts other rows on the screen: any list of the tasks, since filters and orders are left
out; a task may be in it twice, since a keyword with commas stands for several
(`Results`), but not in what a search finds (`Lists`). `GetItems` is one function with
three ends: rows or `NO_ROWS`, a query that the database refuses, and a search, which it
does not know how to make again; the last two leave an empty list in the mode there was.
Every key or command that uses the row under the cursor does so with `rows.at`,
which ends the program if there is none (`NoRow`). `CursorInList` says that there is one if
there are rows, and `EmptyIsSaid` that the mode says so when there are none: a list becomes
empty in a mode whose keys take a row only by `:o`, `:of`, `:ok` and `:r`, by the escape from
the list of keywords, by a search that is made again, or by a refused query, and a list that
has said so is then left for such a mode only by these. `Escape` from the command line of an
empty list (`listman.cpp:291`) is the disjunct about a list that was empty before.
`NoName` is two commands that end the program in `getItems` itself: an unknown column
to sort by, and `gt` when there is no keyword. Statements on the database may fail, a sync may
replace the tasks under the rows, and ids are given out again; the history fields `born`
(which task a row was read from), `early` and `lost` say what a row was, not what the
program knows. `lost` is set by the ways in which the code itself forgets that a title
is not stored: the dirty flag is cleared after a refused statement when INSERT mode is
left, `dw` changes the title without it, `:w` clears that of another row. A task that is in
the list twice (`Twice`) has one row with its title of before when the other is stored.
`RowsAreTasks` has two parts. Even after a sync, when the rows are those from before it, a
row never has the id of another task while its own is there. Until a sync, its own is there.
After one it may be gone, and its id another task's: what is typed into the row is then
stored in that task, and nothing in the code notices.

`:w` stores the dirty rows, and then uses the ids of their tasks as indices of the rows.
Unless an id is smaller than their number, the program ends; if it
is, another row loses its flag. More than 20 such rows do not fit the array (`Overrun`). A
statement on an old task that is refused ends the loop; a refused new row does not; and a
new row's task may be stored and its index entry refused (`mute`), whereupon its id is not
among those that are used.

### SearchIndex

`task`, `tags`, `name` and `links` are tables of `mylistmanager_s.db`, and `index` is the
table `fts` of `fts5.db`. An entry names a task by its id alone, is never removed, and is
written by a statement of its own after the one on the task: `Fault` is that statement
refused, or the program ended before it. Every action is one function of `dbfunc.cpp`, or
what one task or keyword goes through in a sync as far as the index is concerned; the
order and the lists of a sync are those of `TaskSync`. `Held` is any id that a row of the
list or an editor may still have after a sync has removed the task.

`born` tells two tasks apart that had the same id one after the other; `behind` holds the
fields of tasks that the index was not told of, and `copies` the tasks made by `:copy`:
history variables. The index is not told by a statement that fails, by `:w` in the list
(`updateRows` has no statement on it), by another name of a keyword (a comment at
`updateKeywordTitle` says so), by what a sync updates, and by `:copy`, which asks
`sess.db` for the id that `db` has given. That connection inserts nothing but links: the
keywords and the entry of a copy go to id 0, or to the task whose id is the row number of
the last new link (`lastLink`). `task_keyword` and `link` hold a pair once; the rows of
`link` are never removed, so their number is the id of the last.

A search is `Found`: the ids of the entries that match, and of these the tasks that exist.
`FindsTasks` says that it misses none and `FoundHasText` that it finds no other, each with
the exceptions above and no more. What was written for a task that is gone is found in
the task that has its id now, although a comment in `searchDB` (`dbfunc.cpp:689`) says that
the entry of a deleted task finds nothing; and the text of a copy is found in another task
or not at all.

## Runs

| run | shows | bounds |
|---|---|---|
| `task_sync_quiet` | with nobody writing during a sync or its five seconds: `Merges`, `NothingMissed`, `EveryTaskIndexed`, `ServerWinsOnConflict` | 3 tasks and 3 server rows, 3 edits, no failure, 3 ticks, nothing added to the sync times |
| `task_sync_late` | with everybody writing at any time: `TidsMatch`, `OneOrigin`, `MissedOnlyLate` | 3 tasks and 3 server rows, 2 edits, one failure, 2 ticks, one late write on each side at a time |
| `task_sync_live` | `SettlesInStep`: once everybody stops editing, both sides agree for good, with a failure; `TypeOK` | 2 edits, one failure, 3 ticks |
| `task_sync_half_made` | a violation of `EveryTaskHasText`: cut short after the tid, the next sync takes the empty server row for the newer one | |
| `contexts` | `ContainersInStep`, `TasksInStep`, `TidsDiffer`, `MapKnowsContexts`, `PlacesKnown`, `TypeOK` | both kinds, 3 writes, 3 titles, one task, one sync cut short |
| `keywords` | `KeywordsInStep`, `TagsInStep`, `RefusalHasCause`, `TypeOK` | 2 words, 2 tasks, 3 writes, one sync cut short |
| `keywords_lost` | a violation of `TagsFound`: a star makes the name on the server `name_dup`, and a task is uploaded without the keyword | one task, 2 writes |
| `lsp_threads` | `NoFreedLsp`, `UpToDate`, `QuitEnds`, `TypeOK` | 2 servers of either language, 2 saves, 2 editors of different languages |
| `editor_undo` | `UndoGoesBack`, `InBounds`, `DirtyIsSet`, `TypeOK` | a note of two rows and an empty one, 2 commands, counts to 2, 2 keys typed after each; any number of undos, redos and moves |
| `editor_windows` | `PointersOpen`, `OpenOnce`, `CleanIsStored`, `OthersStay`, `TypeOK` | 2 notes, 4 windows, one link, one text typed or brought, one failure |
| `organizer` | `CursorInList`, `EmptyIsSaid`, `TitlesKept`, `RowsAreTasks`, `TypeOK` | 2 ids, 2 tasks ever, one of them at the start, one keyword, an array of one id, 2 edits, one failure |
| `search_index` | `FindsTasks`, `FoundHasText`, `TypeOK` | 2 ids, 3 tasks ever, one keyword, 3 edits, one statement refused |

Why these bounds are enough to be of interest: every conflict that the sync decides is
between one row here and one row there, so two edits reach it, and the third one makes
something else of the row while it is still pending. One failure meets every commit; what
it leaves is met by the next sync, which is complete. Two servers are the least that share
a name, an `Lsp` or a language. Rows are bounded so that no step is refused for want of a
row: `MaxLocal` and `MaxRemote` exceed the number of rows that edits and retries can make
(a push that is cut short after its first commit makes another row). `task_sync_late`
stops at states with two late writes on one side (`LateBound`): one on each side may be to
one task and its row, or to two; its VIEW leaves out the index, which its properties do
not have. In `contexts` the rows that can be made are 2 + 3 + 1. The same run also passes with two syncs cut
short (1.3 million states, 7 rows); the run kept is the one that ends in less than a
minute. In `keywords` two words and three writes make a name taken on each side by another
keyword, with one write left for a task or a deletion. In `editor_windows` four windows
are two notes with their outputs, the least in which closing one could take something of
the other. In `organizer` two ids let an id be used again while a row holds it, and an
array of one id is full with the second row. In `search_index` three tasks on two ids are
one whose id is used again while another stands; the same run also passes with two
keywords, with four edits, and with three ids (2.4 million states at most, in four
minutes).

`editor_undo` stops at states that are not `plain`: they stay so, and nothing is said
of them. Its VIEW leaves out variables that none of its properties depends on. Two
commands are enough for a Diff to be made after an undo, for a dot on another's
change, and for everything one command leaves to the next; rows of one letter let the
cursor stand before and behind text, and what is typed gives longer ones.

`PlacesKnown` names the two ways in which a task comes to be in a container that the
client does not have. A context that a sync deletes stays in the map, since
`generateContextMap` only adds; a task can be moved to it. And a new context has a
temporary tid: once the map is read again (a restart, or a sync that did not reach
the server), a task can be moved there; the next sync gives the context the server's
id (`cc.tid = context.id`) and the task keeps the temporary one. PostgreSQL refuses
the task then and in every later sync: this is `PushTask`'s second disjunct.
`TasksInStep` therefore speaks of the tasks whose container the client has.

Deadlock is checked in every passing run but those in which the program may end
(`lsp_threads`, `editor_windows`, `organizer`) or the editor be closed (`editor_undo`),
and in `search_index`, which stops when its edits are used up.

What the code does wrong where a hazard bites is not hidden in the models. Each is an
exception that a property names, and the property shows that it happens in no other way, or
how it ends:

| the code | in the model | the property |
|---|---|---|
| misses what is written during a sync or in its five seconds (`synchronize.py:107`, `:742`) | `lateHere`, `lateThere` | `MissedOnlyLate`: only that row, until it is written or exchanged again |
| lists again what others wrote, after a transaction that was left open (`synchronize.py:756`) | `since`, `Relist` | `Merges`: never its own pushes |
| does not index what a sync updates, what `:w` stores, a keyword's new name, a copy, or after a refused statement (`synchronize.py:459`, `dbfunc.cpp:173`, `:340`, `:395`, `:1036`) | `behind`, `copies` | `FindsTasks`, `FoundHasText`: only that field or copy, until it is written again |
| finds a task by the text of the one that had its id (`dbfunc.cpp:693`) | `Gone` | `FoundHasText`: in no other way |
| forgets a title, after a refused statement, a `dw`, or a `:w` whose ids are used as indices (`listman.cpp:173`, `dbfunc.cpp:424`) | `lost` | `TitlesKept`: in no other way, until it is stored |
| ends the program for want of a row (`listman.cpp:291`) or of a place in an array (`dbfunc.cpp:382`, `:424`) | `NoRow`, `Overrun` | `EmptyIsSaid` for the former |
| leaves a row with the id of a task that is gone, and another's then (`cmdorg.cpp:586`) | `stale`, `born` | `RowsAreTasks`: not while its own is there |
| clears a window's `dirty` although the database refused the note (`editor.cpp:2280`) | `behind` | `CleanIsStored`: only that window, until it is written again |
| closes a dirty note with its clean output window (`listman.cpp:1152`) | the exception in `OthersStay` | no other window, and no pointer to it is left |
| goes out of bounds, or does not undo (`editor.cpp:445`, `:827` and more) | `plain`, `Excluding` | nothing is said after it |
| loses an edit made while the server's thread reads, or reads another editor's code (`lsp.cpp:161`, `:171`) | `patient` | nothing is said of a user who does not wait |

`:q` in the list also ends the program whatever is dirty in the editors, which no property
is about.

### Fairness

`TaskSync!FairSpec` is weakly fair to `Sync`, all of it together, and to `Restart`:
a sync that has begun runs on, the user starts one again and again and restarts a
program whose syncs fail. `SettlesInStep` assumes nothing more; it has as its
premise that edits and failures end. Nobody is obliged to edit, and the clock need
not advance. `LspThreads!FairSpec` is weakly fair to every thread, to the main
thread between commands and to the shutdown, which is what the scheduler
gives; a language server that stops reading its input could block its thread in a
write, and is assumed not to. The user is not fair: `QuitEnds` is about a program
that is quitting.

## Theorems

| theorem | statement |
|---|---|
| `TaskSyncProofs!TypeCorrect` | `Spec => []TypeOK` |
| `TaskSyncProofs!TiesCorrect` | `Spec => []TidsMatch` |
| `TaskSyncProofs!IndexCorrect` | `Spec => []EveryTaskIndexed` |
| `TaskSyncProofs!OriginCorrect` | `Spec => []OneOrigin` |
| `TaskSyncProofs!MergeCorrect` | `MergeSpec => Merges` |
| `TaskSyncProofs!NothingMissedCorrect` | `MergeSpec => []NothingMissed` |
| `TaskSyncProofs!ServerWinsCorrect` | `MergeSpec => ServerWinsOnConflict` |
| `ContainerSyncProofs!TypeCorrect` | `Spec => []TypeOK` |
| `ContainerSyncProofs!TidsCorrect` | `Spec => []TidsDiffer` |
| `ContainerSyncProofs!MapCorrect` | `Spec => []MapKnowsContexts` |
| `ContainerSyncProofs!ContainersCorrect` | `Spec => []ContainersInStep` |
| `ContainerSyncProofs!TasksCorrect` | `Spec => []TasksInStep` |
| `ContainerSyncProofs!PlacesCorrect` | `Spec => []PlacesKnown` |
| `KeywordSyncProofs!TypeCorrect` | `Spec => []TypeOK` |
| `KeywordSyncProofs!KeywordsCorrect` | `Spec => []KeywordsInStep` |
| `KeywordSyncProofs!TagsCorrect` | `Spec => []TagsInStep` |
| `KeywordSyncProofs!RefusalCorrect` | `Spec => RefusalHasCause` |
| `LspThreadsProofs!TypeCorrect` | `Spec => []TypeOK` |
| `LspThreadsProofs!FreedCorrect` | `Spec => []NoFreedLsp` |
| `LspThreadsProofs!UpToDateCorrect` | `Spec => []UpToDate` |
| `EditorWindowsProofs!TypeCorrect` | `Spec => []TypeOK` |
| `EditorWindowsProofs!PointersCorrect` | `Spec => []PointersOpen` |
| `EditorWindowsProofs!OnceCorrect` | `Spec => []OpenOnce` |
| `EditorWindowsProofs!StoredCorrect` | `Spec => []CleanIsStored` |
| `EditorWindowsProofs!OthersCorrect` | `Spec => OthersStay` |
| `EditorUndoProofs!TypeCorrect` | `Spec => []TypeOK` |
| `EditorUndoProofs!InBoundsCorrect` | `Spec => []InBounds` |
| `EditorUndoProofs!UndoCorrect` | `Spec => []UndoGoesBack` |
| `EditorUndoProofs!DirtyCorrect` | `Spec => DirtyIsSet` |
| `OrganizerProofs!TypeCorrect` | `Spec => []TypeOK` |
| `OrganizerProofs!CursorCorrect` | `Spec => []CursorInList` |
| `OrganizerProofs!EmptyCorrect` | `Spec => EmptyIsSaid` |
| `OrganizerProofs!RowsCorrect` | `Spec => []RowsAreTasks` |
| `OrganizerProofs!TitlesCorrect` | `Spec => []TitlesKept` |
| `SearchIndexProofs!TypeCorrect` | `Spec => []TypeOK` |
| `SearchIndexProofs!SearchCorrect` | `Spec => []FindsTasks` |
| `SearchIndexProofs!FoundCorrect` | `Spec => []FoundHasText` |

They hold for every value of the constants that the modules' ASSUMEs admit, so for any
number of rows, edits, failures, ticks, clock offsets, servers, saves, languages, editors,
windows, words and keywords, and whether others write during a sync or not. Those about
`MergeSpec` also use `MergeAssumption`, which is about a program that nothing interrupts.

`TidsMatch` is not inductive. `PushTid` ties a task to the row that `PushCreate`
committed, so one has to know that no other task has that row's id in the meantime
and that the task is still untied: `HalfMade`. That other tasks cannot get the id
follows from `EmptyRows`, `ListsExist` (lists hold rows that exist: a pull creates a
task only for a row that is there and has no copy). `TiedInv` is their conjunction
with `TidsMatch`.

`OneOrigin` says where the text of an edit may be: in one local row, in one server
row, and in what the running sync has read, and that these are tied. So a push never
makes a second copy of it, nor does a sync that is tried again. Its preservation
needs `TiedInv` and `EditsBound` (a new edit's number is new). The lemmas for it
are about the ways a text moves (stays, is fresh, is pulled,
is pushed), and the proof of each action cites one.

`MergeCorrect` is a refinement. Between syncs `TimesTell` has the two history sets in
step with the comparison of times: `unseen` is just the rows that a sync would list,
and `unsent` holds at least the tasks that it would. During a sync `PullsTell`,
`PushesTell` and `ErasesTell` have them in step with the lists instead; `InTime` is
what lets `Finish` return from lists to times: no task can have been written
after the time that it sets here, and no row by this client since the open transaction
began, as the commit that wrote it ended the one before. Rows of others may have been, and
these are what `Relist` makes new again. `unsent` is not exact, and cannot be: a task that was
pulled is stamped, and a task pushed to a row that was deleted there is still to be
dropped. The lemmas named `...Merge` are about the invariant, one per kind of step;
those named `...Replica` map a step to one of `Replica` or to a stutter. A new task
takes three commits, of which the first is a stutter, the second `Tie` and the third
`Push`.

`NothingMissedCorrect` adds `SettledInv` to it: a row that others have not written
since it was pulled has a copy with its text, or one that a sync has still to push or
erase. `PulledHere` is there for a push that the test `if task in
server_updated_tasks` skips: the task has been pulled, so nothing is missed by not
pushing it. `ServerWinsCorrect` needs `NotOurs`: a row to be pulled was written by
somebody else, as this client's own pushes are behind the sync time. `IndexCorrect`
follows the one step between a new task and its entry in the index (`Indexed`).

`ContainerSync`: that temporary tids stay in range is the conjunct `TemporaryBound` of
the type invariant, since the counter moves by two with every write. For `TidsDiffer`,
a new row of the server has its id before the client's row gets it as tid; `TiesInv`
says that nothing else of the client has that id in between. `MapKnowsContexts` is
about the end of every sync, however it ends, when the map is read again: each title
is then that of one context (`TitlesDiffer`), so that the last row with the title,
which the map has, is the only one.

`ContainersInStep`, `TasksInStep` and `PlacesKnown` are proved together, in `StepInv`,
because a sync is cut short at any of its commits and the program then goes on with
what is there. One half of `StepInv` therefore holds at every step: `RowsInStep`,
`Places` and `PlacesInStep`, each about what no side has marked as changed. The mark
protects the rest: a sync only clears marks in `Finish`. The other half, `ToDo`, is what
is needed there: every row of the server is gone with its copy, or has a copy with its
title, or waits in a list of the sync (`RowsToDo`); every task is in its place, in a list,
or being moved out of a container that is deleted (`PlacesToDo`, `Moving`). When the
lists are empty, `ToDo` gives `RowsInStep` without marks. `Halfway` has what the commits
of one deletion or one creation know of each other. A task may be left in a container
that both sides have deleted (`Stray`); it is in the same place on both sides as soon as
the client has its container, which is why `TasksInStep` asks for that. `Known` is about
every tid that a task or the map may hold: it keeps `PlacesKnown` when the map is behind
the table.

`KeywordSync` has three invariants, each on top of the one before. `StepInv` is for
`KeywordsInStep` and has the two halves of the containers' again: `Marked` is what
`KeywordsInStep` says, at every step and of unmarked rows only; `Progress` is that in a
sync every server row waits in a list, is half done, or is in step (`Served`, `Gone`).
With it go `Tied` (a tid is that of a server row and of one keyword), `ListsOK` (no row
has ceased to be what it was listed for) and `HalfRows` (the row between two commits). A
name with the suffix is the name given here only for the rows in `apart`: `SameName`.

`TagInv` adds what `TagsInStep` needs. Tags are uploaded by name and downloaded by name,
and so arrive where they should because a name is that of one keyword on either side
(`NamesOnce`) and because all keywords are done before the first task is (`HalfTask`,
`ListsKept`). `TagsKept` is `TagsInStep` at every step, without what is true between
syncs only: a keyword being erased is taken from the tasks of one side before it is
taken from those of the other (`Erasing`), and a sync that is cut short in between
leaves it so until the next one. `TagsNew` is why a keyword that one side has just been
given cannot break it: a task that has it is marked. `TaskLists` carries all of this
through the loops over tasks: a task that is on no list any more is in step.

`RefusalCorrect` reads the same invariant backwards. The constraints are on names, so a
statement is refused only if a row here and another there have one name, or a name is
not found. `Clear` keeps what is known at the start of a sync that begins without
`clash`: as long as pulls are left, a name of both sides is that of one keyword.

`NoFreedLsp`: a thread may serve a later `Lsp` than its own and never an earlier one
(`ServesLater`), and the `Lsp`s are deleted from the first to the last, each after
its own thread has ended (`FreedInOrder`). So a thread that still runs is not before
the `Lsp` that is being deleted, and neither is the `Lsp` it uses.

`UpToDate` is about a user who waits, and so every thread serves its own `Lsp`
(`Alone`), a flag is set for the first server of the current editor's language and
the code it will read is the saved one (`Waits`), and a server without a flag has been
told already (`Told`). `WaitInv` is their conjunction as long as the user is patient
and the program runs.

`EditorWindows`: the pointer `linked` is followed without a test, so the types hold only
because of `PointersOpen`, and this only because an erased window is no second time in the
list and a note is open once. All of it is `ListInv`. Its lemmas are about lists: one
window inserted, erased, or moved. `CleanIsStored` needs `OpenOnce` (`CleanInv`): what one
window stores would not be what another one of the same note shows. `OthersStay` follows
from the pointers: `:q` in an output window closes what `linked` says, and that is its note.

`Organizer`: `CursorInList` is not inductive, as an empty list is filled again; `OnScreen`
has the cursor at the start of an empty list. `EmptyIsSaid` is proved action by action: an
action keeps the number of rows, or is one of the few that replace the list. `RowsAreTasks`
is taken apart into `Named`, which holds even after a sync, and `Fresh`, which does until
one; with `TitlesKept` they are in `RowInv`, which needs that a birth is that of one task and
that new tasks get new ones (`TasksBorn`), and that a new row that was stored is its task's
only one (`RowsBorn`): storing it would otherwise leave another with the title before.
`Named` survives a sync because a task that was there keeps its id, and one that is new has
a birth of its own.

`FindsTasks` and `FoundHasText` follow from four facts, together `IndexInv`. A task has an
entry with its id that was made for it (`Entered`); such an entry has what the task has,
field by field, but for what the index was not told (`EntriesAgree`); an entry made for a
task that exists has another id only if the task is a copy (`EntriesOwn`); and no task is
taken for another that had its id before, since births only grow (`BirthsDiffer`). The
actions that keep all tasks are cases of `SameTasks`, the three that make one of `NewTask`.

`EditorUndo`: `TypeInv` is the types with the bounds of the counters and the length of the
timeline, and holds whatever is typed. It gives no more than that each Diff has its fields;
what a Diff does is in `UndoInv`, and only while `plain`. `Chain` has a link for every Diff:
undoing it in the text after the change gives the text before (`Reverts`), and doing its
command again there gives the text after (`Linked`). Both are facts about two texts of the
timeline, not about what is on the screen, and so they stay true of the older Diffs while the
user types, undoes and redoes. Escape makes the newest Diff out of the snapshot, the last
command and the keys typed, so while inserting one has to know what text these three stand
for: `TypedAt` says that the text is the snapshot with the command done at the old cursor
and the keys behind it. Between commands, `Rests` says that the text is the one the timeline
has at `d_index`, which is where the next undo and the next redo start, and that the cursor
is on the text, without which `InBounds` cannot be kept by any of them.

The texts in all this are taken apart at the cursor (`At`): the rows above, the row before
and behind the cursor, and the rows below. The lemmas on the operators of the model say
what each does to the parts. Repeating a command and typing keys are recursive functions;
their lemmas (`TimesRun`, `KeysRun`, `KeysAt`) are inductions over the number of repeats
and the keys, made with a set of the numbers, or sequences, for which the claim holds
(`NatSet`, `SeqSet`), and not with an operator as parameter.

Only model-checked: the liveness properties `SettlesInStep` and `QuitEnds`, which are out
of the proof system's reach, and `MissedOnlyLate`, which would need an invariant like
`SettledInv` for all that late writes and cut syncs leave behind. The two runs that end in
a violation are about properties that do not hold.

## What is not modelled

* Of replication: the columns of a row one by one; `startdate`, which doubles as the time
  of a note's change; writes during a sync of containers or keywords, which `TaskSync` has
  for tasks; the columns `star` and `textcolor` of a container; and the three parts of a
  sync in one model: each has the others' rows as given.
* Of the language servers: the error marks that a thread writes into the current editor
  while the main thread edits its rows (`lsp.cpp:70`), a data race about display only.
* Of the editor: blanks and tabs, and with them indentation; the commands on words, to the
  end of a row or note, `J`, `~`, `r`, `>>`, which make Diffs of the kinds that are
  modelled or keep the whole note (`J` and `>>` are not redone, `~` and `r` only if they
  were the last command); the VISUAL modes; the arrows and the delete key within INSERT
  mode; spelling.
* Of the windows: their places on the screen, and resizing. Texts are numbers:
  `EditorUndo` has the changes of a text.
* Of the list: the lists of contexts and folders, marks, keywords chosen from their list,
  star and completed, the pages of a long list, what a filter or an order makes of a
  query.
* Of the searches: which entries a query matches and in which order, which is sqlite's; in
  `SearchIndex` a query is for one title, note or keyword. The note of a code file, which
  is also written to a file.
* The preview: a file read by another program while it is rewritten.
* Screen drawing, markdown and colours: output without state that anything else depends
  on.

Most lines of the repository are not in the program: the older programs and the
libraries named above are 32,000 of its 44,000 lines, and a share of the rest is
drawing and formatting.

## Plan

Modelled, in this order: `TaskSync`, `LspThreads`, `ContainerSync`, `EditorUndo`,
`Replica`, `KeywordSync`, `Organizer`, `EditorWindows`, `SearchIndex`: what can lose a
user's text first, then the only concurrency, then what replication rests on, then the
program around it.

What is left, in this order:

1. The rest of the list: marks and the lists of contexts and folders, which `Organizer`
   can take as further actions.
2. The VISUAL modes of the editor and the commands on words, in `EditorUndo`, once a
   coarser note makes room for them.
3. One model of a whole sync, in which a task, its container and its keywords are
   new at the same time, from the three there are.
