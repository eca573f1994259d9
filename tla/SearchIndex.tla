---------------------------- MODULE SearchIndex -----------------------------
(***************************************************************************)
(* The full-text index and what it is to follow: the statements of         *)
(* src/dbfunc.cpp on the tasks, their keywords and links, each with its    *)
(* statement on the index, the task part of a sync as far as the index is  *)
(* concerned, and the search.  The flag of a deleted task is the list's    *)
(* affair (Organizer).                                                     *)
(*                                                                         *)
(* The index is a database of its own, whose entries name a task by its id *)
(* only.  Ids are used again, entries are never removed, and nothing ties  *)
(* a statement on a task to the one on its entry.  A title, a note or a    *)
(* keyword's name is the number of the edit that made it.                  *)
(***************************************************************************)
EXTENDS Integers, FiniteSets

CONSTANTS
  MaxTasks,    \* ids are 1..MaxTasks
  MaxBirths,   \* bound on the tasks ever made
  Words,       \* the keywords
  MaxEdits,    \* bound on the titles, notes and names that are written
  MaxFaults    \* bound on the statements that the index does not execute

ASSUME SearchIndexAssumption ==
  /\ MaxTasks \in Nat \ {0} /\ MaxBirths \in Nat
  /\ MaxEdits \in Nat /\ MaxFaults \in Nat

Ids    == 1..MaxTasks
Texts  == 0..MaxEdits            \* 0 is the empty text
Births == 0..MaxBirths           \* which task it is; 0 is none
Nobody == 0                      \* no row: last_insert_rowid before any insert
Fields == {"title", "note", "tag"}

VARIABLES
  task,        \* sqlite: the tasks
  tags,        \* sqlite: task_keyword
  name,        \* sqlite: keyword.name
  links,       \* sqlite: link
  index,       \* the table fts of the other database
  lastLink,    \* the last row that sess.db inserted, since the program started
  births, edits, faults,
  behind,      \* history: a task and a field that the index was not told about, or
               \* "entry" for a task that it does not have
  copies       \* history: the tasks that were made by :copy

tables == <<task, tags, name, links>>
bounds == <<births, edits, faults>>
vars   == <<tables, index, lastLink, bounds, behind, copies>>

Task  == [born : Births, title : Texts, note : Texts]
Named == Words \X Texts          \* a keyword under one of its names
Entry == [id : Nat, born : Births \ {0}, title : Texts, note : Texts, tag : SUBSET Named]

NoTask == [born |-> 0, title |-> 0, note |-> 0]

Init ==
  /\ task = [i \in Ids |-> NoTask] /\ tags = {} /\ links = {}
  /\ name = [w \in Words |-> 0]
  /\ index = {} /\ lastLink = Nobody
  /\ births = 0 /\ edits = 0 /\ faults = 0
  /\ behind = {} /\ copies = {}

-----------------------------------------------------------------------------
(* Helpers *)

Exist     == {i \in Ids : task[i].born # 0}
Gone(b)   == \A i \in Ids : task[i].born # b
EntriesOf(i) == {e \in index : e.id = i}

\* an id that the program may still hold: of a task, or of one that a sync has removed
Held == Exist \cup ({e.id : e \in index} \ {Nobody})

WordsIn(pairs, i) == {w \in Words : <<i, w>> \in pairs}

\* Plausible slips, for the mutation runs: the keywords' ids in the place of their names,
\* the keywords from before the new one was stored, and a statement that finds no entry.
TaskKeywords_Ids(pairs, i)    == WordsIn(pairs, i)
TaskKeywords_Before(pairs, i) == {<<w, name[w]>> : w \in WordsIn(tags, i)}
Retagged_Missed(i, tag)      == index

\* getTaskKeywords
TaskKeywords(pairs, i) == {<<w, name[w]>> : w \in WordsIn(pairs, i)}
Tagged(w) == {i \in Exist : <<i, w>> \in tags}

\* the entry of a task that has just been made
InsertedEntry(id, title, note, tag) ==
  [id |-> id, born |-> births + 1, title |-> title, note |-> note, tag |-> tag]

\* UPDATE fts SET ... WHERE lm_id = i
Titled(i) ==
  (index \ EntriesOf(i)) \cup {[e EXCEPT !.title = edits + 1] : e \in EntriesOf(i)}
Noted(i) ==
  (index \ EntriesOf(i)) \cup {[e EXCEPT !.note = edits + 1] : e \in EntriesOf(i)}
Retagged(i, tag) ==
  (index \ EntriesOf(i)) \cup {[e EXCEPT !.tag = tag] : e \in EntriesOf(i)}

\* A statement on the index, which is executed or is not: it is refused, or the program
\* ends before it.
Index(new) == index' = new /\ UNCHANGED faults
Fault      == faults < MaxFaults /\ faults' = faults + 1 /\ UNCHANGED index

Of(i, field) == IF i \in Exist THEN {<<task[i].born, field>>} ELSE {}
Follows(i, field, new) ==
  \/ Index(new) /\ behind' = behind \ Of(i, field)
  \/ Fault /\ behind' = behind \cup Of(i, field)

Write == edits < MaxEdits /\ edits' = edits + 1
\* sqlite's next id
NextId(n) == n - 1 \in Exist \cup {0} /\ \A i \in Exist : i < n
Birth(n)  == NextId(n) /\ births < MaxBirths /\ births' = births + 1

-----------------------------------------------------------------------------
(* The user *)

\* insertRow
InsertRow(n) ==
  /\ Write /\ Birth(n)
  /\ task' = [task EXCEPT ![n] = [born |-> births + 1, title |-> edits + 1, note |-> 0]]
  /\ \/ /\ Index(index \cup {InsertedEntry(n, edits + 1, 0, {})})
        /\ behind' = behind \cup
             IF WordsIn(tags, n) = {} THEN {} ELSE {<<births + 1, "tag">>}
     \/ Fault /\ behind' = behind \cup {<<births + 1, "entry">>}
  /\ UNCHANGED <<tags, name, links, lastLink, copies>>

\* updateTitle
UpdateTitle(i) ==
  /\ Write /\ i \in Held
  /\ task' = IF i \in Exist THEN [task EXCEPT ![i].title = edits + 1] ELSE task
  /\ Follows(i, "title", Titled(i))
  /\ UNCHANGED <<tags, name, links, lastLink, births, copies>>

\* updateRows stores the titles that :w finds changed, and does not tell the index
UpdateRows(i) ==
  /\ Write /\ i \in Exist
  /\ task' = [task EXCEPT ![i].title = edits + 1]
  /\ behind' = behind \cup Of(i, "title")
  /\ UNCHANGED <<tags, name, links, index, lastLink, births, faults, copies>>

\* updateNote, from an editor that may be open since before a sync
UpdateNote(i) ==
  /\ Write /\ i \in Held
  /\ task' = IF i \in Exist THEN [task EXCEPT ![i].note = edits + 1] ELSE task
  /\ Follows(i, "note", Noted(i))
  /\ UNCHANGED <<tags, name, links, lastLink, births, copies>>

\* addTaskKeyword, with either kind of argument
AddTaskKeyword(i, w) ==
  /\ i \in Held
  /\ tags' = tags \cup {<<i, w>>}
  /\ Follows(i, "tag", Retagged(i, TaskKeywords(tags', i)))
  /\ UNCHANGED <<task, name, links, lastLink, births, edits, copies>>

\* deleteKeywords
DeleteKeywords(i) ==
  /\ i \in Held
  /\ tags' = {p \in tags : p[1] # i}
  /\ Follows(i, "tag", Retagged(i, {}))
  /\ UNCHANGED <<task, name, links, lastLink, births, edits, copies>>

\* updateKeywordTitle: the tasks of the keyword keep the old name in their entries
UpdateKeywordTitle(w) ==
  /\ Write
  /\ name' = [name EXCEPT ![w] = edits + 1]
  /\ behind' = behind \cup UNION {Of(i, "tag") : i \in Tagged(w)}
  /\ UNCHANGED <<task, tags, links, index, lastLink, births, faults, copies>>

\* linkEntries, F_createLink: through sess.db, which inserts nothing else
LinkEntries(i, j) ==
  /\ i \in Held /\ j \in Held /\ i < j
  /\ links' = links \cup {<<i, j>>}
  /\ lastLink' = IF links' = links THEN lastLink ELSE Cardinality(links')
  /\ UNCHANGED <<task, tags, name, index, bounds, behind, copies>>

\* copyEntry: the row is inserted through db, and its id asked of sess.db; so its keywords
\* and its entry may be given to another task, whose entry is not told of the keywords
CopyEntry(i, n) ==
  LET newId == lastLink IN
  /\ i \in Exist /\ Write /\ Birth(n)
  /\ task' = [task EXCEPT ![n] =
                [born |-> births + 1, title |-> edits + 1, note |-> task[i].note]]
  /\ tags' = tags \cup {<<newId, w>> : w \in WordsIn(tags, i)}
  /\ \/ Index(index \cup {InsertedEntry(newId, edits + 1, task[i].note,
                                          TaskKeywords(tags', newId))})
     \/ Fault
  /\ behind' = behind \cup (IF newId = n /\ index' # index THEN {}
                            ELSE {<<births + 1, "entry">>})
                     \cup (IF tags' # tags THEN Of(newId, "tag") ELSE {})
  /\ copies' = copies \cup {births + 1}
  /\ UNCHANGED <<name, links, lastLink>>

\* a new run of the program
Restart ==
  /\ lastLink' = Nobody
  /\ UNCHANGED <<tables, index, bounds, behind, copies>>

-----------------------------------------------------------------------------
(* A sync *)

\* a task that is new on the server is indexed when it has its keywords
PullNew(n, words) ==
  /\ Write /\ Birth(n)
  /\ task' = [task EXCEPT ![n] = [born |-> births + 1, title |-> edits + 1, note |-> 0]]
  /\ tags' = {p \in tags : p[1] # n} \cup {<<n, w>> : w \in words}
  /\ \/ Index(index \cup {InsertedEntry(n, edits + 1, 0, TaskKeywords(tags', n))})
        /\ UNCHANGED behind
     \/ Fault /\ behind' = behind \cup {<<births + 1, "entry">>}
  /\ UNCHANGED <<name, links, lastLink, copies>>

\* one that was updated there is not indexed again
Pull(i, field) ==
  /\ Write /\ i \in Exist
  /\ task' = IF field = "title" THEN [task EXCEPT ![i].title = edits + 1]
             ELSE [task EXCEPT ![i].note = edits + 1]
  /\ behind' = behind \cup Of(i, field)
  /\ UNCHANGED <<tags, name, links, index, lastLink, births, faults, copies>>

PullTags(i, words) ==
  /\ i \in Exist /\ words # WordsIn(tags, i)
  /\ tags' = {p \in tags : p[1] # i} \cup {<<i, w>> : w \in words}
  /\ behind' = behind \cup Of(i, "tag")
  /\ UNCHANGED <<task, name, links, index, lastLink, bounds, copies>>

\* a task that was deleted on either side goes, with its keywords and without its
\* entry and its links
Drop(i) ==
  /\ i \in Exist
  /\ task' = [task EXCEPT ![i] = NoTask]
  /\ tags' = {p \in tags : p[1] # i}
  /\ UNCHANGED <<name, links, index, lastLink, bounds, behind, copies>>

\* a keyword that was deleted on either side goes from all tasks
DropKeyword(w) ==
  /\ tags' = {p \in tags : p[2] # w}
  /\ behind' = behind \cup UNION {Of(i, "tag") : i \in Tagged(w)}
  /\ UNCHANGED <<task, name, links, index, lastLink, bounds, copies>>

-----------------------------------------------------------------------------
User ==
  \/ \E i \in Ids : \/ InsertRow(i) \/ UpdateTitle(i) \/ UpdateRows(i) \/ UpdateNote(i)
                    \/ DeleteKeywords(i)
                    \/ \E w \in Words : AddTaskKeyword(i, w)
                    \/ \E j \in Ids : LinkEntries(i, j) \/ CopyEntry(i, j)
  \/ \E w \in Words : UpdateKeywordTitle(w)
  \/ Restart

Sync ==
  \/ \E i \in Ids : \/ Drop(i)
                    \/ \E field \in {"title", "note"} : Pull(i, field)
                    \/ \E words \in SUBSET Words : PullNew(i, words) \/ PullTags(i, words)
  \/ \E w \in Words : DropKeyword(w)

Next == User \/ Sync

Spec == Init /\ [][Next]_vars

-----------------------------------------------------------------------------
(* The search *)

\* What can be searched for, each with the column that has it: in an entry, and in a task
ContentsOf(e) == {<<"title", e.title>>, <<"note", e.note>>} \cup {<<"tag", n>> : n \in e.tag}
TextsOf(i)    == {<<"title", task[i].title>>, <<"note", task[i].note>>}
                   \cup {<<"tag", n>> : n \in TaskKeywords(tags, i)}

\* searchDB: the ids of the entries, and then the tasks that have these ids
Hits(text)  == {e \in index : text \in ContentsOf(e)}
Found(text) == {i \in Exist : \E e \in Hits(text) : e.id = i}

-----------------------------------------------------------------------------
(* Properties *)

\* Every variable holds a value of its kind.
TypeOK ==
  /\ task \in [Ids -> Task] /\ tags \subseteq Nat \X Words /\ name \in [Words -> Texts]
  /\ links \subseteq Ids \X Ids /\ index \subseteq Entry /\ lastLink \in Nat
  /\ births \in Births /\ edits \in Texts /\ faults \in 0..MaxFaults
  /\ behind \subseteq Births \X (Fields \cup {"entry"}) /\ copies \subseteq Births

\* A search for what a task has finds the task, whatever id it got and whatever the
\* entries of that id are from: unless the index missed a statement, or was not told by
\* :w in the list, by a keyword that got another name, by a sync or by :copy.
FindsTasks ==
  \A i \in Exist : \A text \in TextsOf(i) :
    {<<task[i].born, "entry">>, <<task[i].born, text[1]>>} \cap behind = {}
      => i \in Found(text)

\* A task that is found has what was searched for, but for what the index was not told;
\* or it was found through the entry of another task, which is gone (a comment in searchDB
\* says that such an entry finds nothing, and forgets that the id is given again), or a
\* copy, whose entry goes to another id.
FoundHasText ==
  \A e \in index : \A text \in ContentsOf(e) : e.id \in Found(text) =>
    \/ text \in TextsOf(e.id)
    \/ <<task[e.id].born, text[1]>> \in behind
    \/ e.born # task[e.id].born /\ (Gone(e.born) \/ e.born \in copies)
=============================================================================
