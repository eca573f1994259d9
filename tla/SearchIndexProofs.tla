------------------------- MODULE SearchIndexProofs --------------------------
(***************************************************************************)
(* Proofs about the full-text index: what a search finds, for any number   *)
(* of tasks, keywords, edits and statements that are not executed.         *)
(***************************************************************************)
EXTENDS SearchIndex, FiniteSetTheorems, TLAPS

USE SearchIndexAssumption DEF Ids, Texts, Births, Fields, Nobody

-----------------------------------------------------------------------------
(* Types *)

LEMMA LinksFinite == ASSUME NEW S \in SUBSET (Ids \X Ids) PROVE Cardinality(S) \in Nat
<1>1. IsFiniteSet(Ids)
  BY FS_Interval
<1>2. IsFiniteSet(Ids \X Ids)
  BY <1>1, FS_Product
<1> QED BY <1>2, FS_Subset, FS_CardinalityType

LEMMA KeywordsNamed ==
  ASSUME TypeOK, NEW pairs, NEW i PROVE TaskKeywords(pairs, i) \subseteq Named
<1>1. ASSUME NEW w \in WordsIn(pairs, i) PROVE <<w, name[w]>> \in Named
  <2>1. w \in Words /\ name[w] \in Texts
    BY DEF WordsIn, TypeOK
  <2> QED BY <2>1 DEF Named
<1> QED BY <1>1 DEF TaskKeywords

LEMMA EntryTyped ==
  ASSUME NEW e, e \in Entry
  PROVE  /\ e.id \in Nat /\ e.born \in Births \ {0}
         /\ e.title \in Texts /\ e.note \in Texts /\ e.tag \in SUBSET Named
         /\ e = [id |-> e.id, born |-> e.born, title |-> e.title, note |-> e.note, tag |-> e.tag]
BY DEF Entry

\* A statement on the entries of a task keeps what else is in the index.
LEMMA TitledTyped == ASSUME TypeOK, edits < MaxEdits, NEW i PROVE Titled(i) \subseteq Entry
<1>1. ASSUME NEW e \in index PROVE [e EXCEPT !.title = edits + 1] \in Entry
  <2>1. e \in Entry /\ edits + 1 \in Texts
    BY DEF TypeOK
  <2> QED BY <2>1 DEF Entry
<1> QED BY <1>1 DEF TypeOK, Titled, EntriesOf

LEMMA NotedTyped == ASSUME TypeOK, edits < MaxEdits, NEW i PROVE Noted(i) \subseteq Entry
<1>1. ASSUME NEW e \in index PROVE [e EXCEPT !.note = edits + 1] \in Entry
  <2>1. e \in Entry /\ edits + 1 \in Texts
    BY DEF TypeOK
  <2> QED BY <2>1 DEF Entry
<1> QED BY <1>1 DEF TypeOK, Noted, EntriesOf

LEMMA RetaggedTyped ==
  ASSUME TypeOK, NEW i, NEW tag \in SUBSET Named PROVE Retagged(i, tag) \subseteq Entry
<1>1. ASSUME NEW e \in index PROVE [e EXCEPT !.tag = tag] \in Entry
  <2>1. e \in Entry
    BY DEF TypeOK
  <2> QED BY <2>1 DEF Entry
<1> QED BY <1>1 DEF TypeOK, Retagged, EntriesOf

LEMMA InsertTyped ==
  ASSUME TypeOK, births < MaxBirths, NEW id \in Nat, NEW title \in Texts, NEW note \in Texts,
         NEW tag \in SUBSET Named
  PROVE  InsertedEntry(id, title, note, tag) \in Entry
BY DEF TypeOK, InsertedEntry, Entry

LEMMA OfTyped ==
  ASSUME TypeOK, NEW i, NEW field \in Fields
  PROVE  Of(i, field) \subseteq Births \X (Fields \cup {"entry"})
<1>1. CASE i \in Exist
  <2>1. task[i].born \in Births
    BY <1>1 DEF TypeOK, Task, Exist
  <2> QED BY <1>1, <2>1 DEF Of
<1> QED BY <1>1 DEF Of

LEMMA FollowsTyped ==
  ASSUME TypeOK, NEW i, NEW field \in Fields, NEW new \in SUBSET Entry, Follows(i, field, new)
  PROVE  /\ index' \subseteq Entry /\ faults' \in 0..MaxFaults
         /\ behind' \subseteq Births \X (Fields \cup {"entry"})
<1>1. faults' \in 0..MaxFaults
  BY DEF Follows, Index, Fault, TypeOK
<1> QED BY <1>1, OfTyped DEF Follows, Index, Fault, TypeOK

LEMMA PairsTyped ==
  ASSUME TypeOK, NEW i \in Nat, NEW words \in SUBSET Words
  PROVE  tags \cup {<<i, w>> : w \in words} \in SUBSET (Nat \X Words)
BY DEF TypeOK

(* Every variable keeps its type. *)
THEOREM TypeCorrect == Spec => []TypeOK
<1>1. Init => TypeOK
  BY DEF Init, TypeOK, Task, NoTask
<1>2. ASSUME TypeOK, [Next]_vars PROVE TypeOK'
  <2>1. ASSUME NEW i \in Ids, NEW t \in Task
        PROVE  [task EXCEPT ![i] = t] \in [Ids -> Task]
    BY <1>2 DEF TypeOK
  <2>2. /\ Exist \subseteq Ids /\ Held \subseteq Nat
        /\ \A i \in Exist : task[i] \in Task
    BY <1>2 DEF TypeOK, Exist, Held, Entry
  <2>3. ASSUME NEW n \in Ids, InsertRow(n) PROVE TypeOK'
    <3>1. edits + 1 \in Texts /\ births + 1 \in Births /\ edits' \in Texts /\ births' \in Births
      BY <1>2, <2>3 DEF InsertRow, Write, Birth, TypeOK
    <3>2. task' \in [Ids -> Task]
      <4>1. [born |-> births + 1, title |-> edits + 1, note |-> 0] \in Task
        BY <3>1 DEF Task
      <4> QED BY <2>1, <2>3, <4>1 DEF InsertRow
    <3>3. InsertedEntry(n, edits + 1, 0, {}) \in Entry
      BY <1>2, <2>3, <3>1, InsertTyped DEF InsertRow, Birth
    <3>4. index' \subseteq Entry /\ faults' \in 0..MaxFaults
      BY <1>2, <2>3, <3>3 DEF InsertRow, Index, Fault, TypeOK
    <3>5. behind' \subseteq Births \X (Fields \cup {"entry"})
      BY <1>2, <2>3, <3>1 DEF InsertRow, TypeOK
    <3> QED BY <1>2, <2>3, <3>1, <3>2, <3>4, <3>5 DEF InsertRow, TypeOK
  <2>4. ASSUME NEW i \in Ids, UpdateTitle(i) PROVE TypeOK'
    <3>1. edits + 1 \in Texts /\ edits' \in Texts /\ edits < MaxEdits
      BY <1>2, <2>4 DEF UpdateTitle, Write, TypeOK
    <3>2. task' \in [Ids -> Task]
      BY <1>2, <2>4, <3>1 DEF UpdateTitle, Task, TypeOK
    <3>3. /\ index' \subseteq Entry /\ faults' \in 0..MaxFaults
          /\ behind' \subseteq Births \X (Fields \cup {"entry"})
      BY <1>2, <2>4, <3>1, TitledTyped, FollowsTyped DEF UpdateTitle
    <3> QED BY <1>2, <2>4, <3>1, <3>2, <3>3 DEF UpdateTitle, TypeOK
  <2>5. ASSUME NEW i \in Ids, UpdateRows(i) PROVE TypeOK'
    <3>1. edits + 1 \in Texts /\ edits' \in Texts
      BY <1>2, <2>5 DEF UpdateRows, Write, TypeOK
    <3>2. task' \in [Ids -> Task]
      BY <1>2, <2>5, <3>1 DEF UpdateRows, Task, TypeOK
    <3>3. behind' \subseteq Births \X (Fields \cup {"entry"})
      BY <1>2, <2>5, OfTyped DEF UpdateRows, TypeOK
    <3> QED BY <1>2, <2>5, <3>1, <3>2, <3>3 DEF UpdateRows, TypeOK
  <2>6. ASSUME NEW i \in Ids, UpdateNote(i) PROVE TypeOK'
    <3>1. edits + 1 \in Texts /\ edits' \in Texts /\ edits < MaxEdits
      BY <1>2, <2>6 DEF UpdateNote, Write, TypeOK
    <3>2. task' \in [Ids -> Task]
      BY <1>2, <2>6, <3>1 DEF UpdateNote, Task, TypeOK
    <3>3. /\ index' \subseteq Entry /\ faults' \in 0..MaxFaults
          /\ behind' \subseteq Births \X (Fields \cup {"entry"})
      BY <1>2, <2>6, <3>1, NotedTyped, FollowsTyped DEF UpdateNote
    <3> QED BY <1>2, <2>6, <3>1, <3>2, <3>3 DEF UpdateNote, TypeOK
  <2>7. ASSUME NEW i \in Ids, NEW w \in Words, AddTaskKeyword(i, w) PROVE TypeOK'
    <3>1. tags' \subseteq Nat \X Words
      BY <1>2, <2>7 DEF AddTaskKeyword, TypeOK
    <3>2. Retagged(i, TaskKeywords(tags', i)) \subseteq Entry
      BY <1>2, KeywordsNamed, RetaggedTyped
    <3>3. /\ index' \subseteq Entry /\ faults' \in 0..MaxFaults
          /\ behind' \subseteq Births \X (Fields \cup {"entry"})
      BY <1>2, <2>7, <3>2, FollowsTyped DEF AddTaskKeyword
    <3> QED BY <1>2, <2>7, <3>1, <3>3 DEF AddTaskKeyword, TypeOK
  <2>8. ASSUME NEW i \in Ids, DeleteKeywords(i) PROVE TypeOK'
    <3>1. tags' \subseteq Nat \X Words
      BY <1>2, <2>8 DEF DeleteKeywords, TypeOK
    <3>2. Retagged(i, {}) \subseteq Entry
      BY <1>2, RetaggedTyped
    <3>3. /\ index' \subseteq Entry /\ faults' \in 0..MaxFaults
          /\ behind' \subseteq Births \X (Fields \cup {"entry"})
      BY <1>2, <2>8, <3>2, FollowsTyped DEF DeleteKeywords
    <3> QED BY <1>2, <2>8, <3>1, <3>3 DEF DeleteKeywords, TypeOK
  <2>9. ASSUME NEW w \in Words, UpdateKeywordTitle(w) PROVE TypeOK'
    <3>1. edits' \in Texts /\ name' \in [Words -> Texts]
      BY <1>2, <2>9 DEF UpdateKeywordTitle, Write, TypeOK
    <3>2. behind' \subseteq Births \X (Fields \cup {"entry"})
      BY <1>2, <2>9, OfTyped DEF UpdateKeywordTitle, TypeOK
    <3> QED BY <1>2, <2>9, <3>1, <3>2 DEF UpdateKeywordTitle, TypeOK
  <2>10. ASSUME NEW i \in Ids, NEW j \in Ids, LinkEntries(i, j) PROVE TypeOK'
    <3>1. links' \in SUBSET (Ids \X Ids)
      BY <1>2, <2>10 DEF LinkEntries, TypeOK
    <3>2. lastLink' \in Nat
      BY <1>2, <2>10, <3>1, LinksFinite DEF LinkEntries, TypeOK
    <3> QED BY <1>2, <2>10, <3>1, <3>2 DEF LinkEntries, TypeOK, tables, bounds
  <2>11. ASSUME NEW i \in Ids, NEW n \in Ids, CopyEntry(i, n) PROVE TypeOK'
    <3>1. /\ edits + 1 \in Texts /\ births + 1 \in Births /\ births < MaxBirths
          /\ edits' \in Texts /\ births' \in Births
      BY <1>2, <2>11 DEF CopyEntry, Write, Birth, TypeOK
    <3>2. i \in Exist /\ task[i] \in Task /\ task[i].note \in Texts /\ lastLink \in Nat
      BY <1>2, <2>2, <2>11 DEF CopyEntry, Task, TypeOK
    <3>3. task' \in [Ids -> Task]
      BY <2>1, <2>11, <3>1, <3>2 DEF CopyEntry, Task
    <3>4. tags' \in SUBSET (Nat \X Words)
      BY <1>2, <2>11, <3>2, PairsTyped DEF CopyEntry, WordsIn
    <3>5. TaskKeywords(tags', lastLink) \in SUBSET Named
      BY <1>2, KeywordsNamed
    <3>6. InsertedEntry(lastLink, edits + 1, task[i].note, TaskKeywords(tags', lastLink)) \in Entry
      BY <1>2, <3>1, <3>2, <3>5, InsertTyped
    <3>7. index' \subseteq Entry /\ faults' \in 0..MaxFaults
      <4>1. index' = index \cup {InsertedEntry(lastLink, edits + 1, task[i].note,
                                              TaskKeywords(tags', lastLink))} \/ index' = index
        BY <2>11 DEF CopyEntry, Index, Fault
      <4>2. faults' \in 0..MaxFaults
        BY <1>2, <2>11 DEF CopyEntry, Index, Fault, TypeOK
      <4> QED BY <1>2, <3>6, <4>1, <4>2 DEF TypeOK
    <3>8. behind' \subseteq Births \X (Fields \cup {"entry"})
      <4>1. behind' \subseteq behind \cup {<<births + 1, "entry">>} \cup Of(lastLink, "tag")
        BY <2>11 DEF CopyEntry
      <4>2. Of(lastLink, "tag") \subseteq Births \X (Fields \cup {"entry"})
        BY <1>2, OfTyped
      <4> QED BY <1>2, <3>1, <4>1, <4>2 DEF TypeOK
    <3>9. copies' \subseteq Births
      BY <1>2, <2>11, <3>1 DEF CopyEntry, TypeOK
    <3> QED BY <1>2, <2>11, <3>1, <3>3, <3>4, <3>7, <3>8, <3>9 DEF CopyEntry, TypeOK
  <2>12. CASE Restart
    BY <1>2, <2>12 DEF Restart, TypeOK, tables, bounds
  <2>13. ASSUME NEW n \in Ids, NEW words \in SUBSET Words, PullNew(n, words) PROVE TypeOK'
    <3>1. /\ edits + 1 \in Texts /\ births + 1 \in Births /\ births < MaxBirths
          /\ edits' \in Texts /\ births' \in Births
      BY <1>2, <2>13 DEF PullNew, Write, Birth, TypeOK
    <3>2. task' \in [Ids -> Task]
      <4>1. [born |-> births + 1, title |-> edits + 1, note |-> 0] \in Task
        BY <3>1 DEF Task
      <4> QED BY <2>1, <2>13, <4>1 DEF PullNew
    <3>3. tags' \subseteq Nat \X Words
      BY <1>2, <2>13, PairsTyped DEF PullNew, TypeOK
    <3>4. TaskKeywords(tags', n) \in SUBSET Named
      BY <1>2, KeywordsNamed
    <3>5. InsertedEntry(n, edits + 1, 0, TaskKeywords(tags', n)) \in Entry
      BY <1>2, <3>1, <3>4, InsertTyped
    <3>6. index' \subseteq Entry /\ faults' \in 0..MaxFaults
      BY <1>2, <2>13, <3>5 DEF PullNew, Index, Fault, TypeOK
    <3>7. behind' \subseteq Births \X (Fields \cup {"entry"})
      BY <1>2, <2>13, <3>1 DEF PullNew, TypeOK
    <3> QED BY <1>2, <2>13, <3>1, <3>2, <3>3, <3>6, <3>7 DEF PullNew, TypeOK
  <2>14. ASSUME NEW i \in Ids, NEW field \in {"title", "note"}, Pull(i, field) PROVE TypeOK'
    <3>1. edits + 1 \in Texts /\ edits' \in Texts
      BY <1>2, <2>14 DEF Pull, Write, TypeOK
    <3>2. task' \in [Ids -> Task]
      BY <1>2, <2>14, <3>1 DEF Pull, Task, TypeOK
    <3>3. behind' \subseteq Births \X (Fields \cup {"entry"})
      BY <1>2, <2>14, OfTyped DEF Pull, TypeOK
    <3> QED BY <1>2, <2>14, <3>1, <3>2, <3>3 DEF Pull, TypeOK
  <2>15. ASSUME NEW i \in Ids, NEW words \in SUBSET Words, PullTags(i, words) PROVE TypeOK'
    <3>1. tags' \subseteq Nat \X Words
      BY <1>2, <2>15, PairsTyped DEF PullTags, TypeOK
    <3>2. behind' \subseteq Births \X (Fields \cup {"entry"})
      BY <1>2, <2>15, OfTyped DEF PullTags, TypeOK
    <3> QED BY <1>2, <2>15, <3>1, <3>2 DEF PullTags, TypeOK, bounds
  <2>16. ASSUME NEW i \in Ids, Drop(i) PROVE TypeOK'
    <3>1. NoTask \in Task
      BY DEF NoTask, Task
    <3>2. task' \in [Ids -> Task] /\ tags' \subseteq Nat \X Words
      BY <1>2, <2>1, <2>16, <3>1 DEF Drop, TypeOK
    <3> QED BY <1>2, <2>16, <3>2 DEF Drop, TypeOK, bounds
  <2>17. ASSUME NEW w \in Words, DropKeyword(w) PROVE TypeOK'
    <3>1. tags' \subseteq Nat \X Words
      BY <1>2, <2>17 DEF DropKeyword, TypeOK
    <3>2. behind' \subseteq Births \X (Fields \cup {"entry"})
      BY <1>2, <2>17, OfTyped DEF DropKeyword, TypeOK
    <3> QED BY <1>2, <2>17, <3>1, <3>2 DEF DropKeyword, TypeOK, bounds
  <2>18. CASE UNCHANGED vars
    BY <1>2, <2>18 DEF vars, tables, bounds, TypeOK
  <2> QED BY <1>2, <2>3, <2>4, <2>5, <2>6, <2>7, <2>8, <2>9, <2>10, <2>11, <2>12, <2>13,
             <2>14, <2>15, <2>16, <2>17, <2>18 DEF Next, User, Sync
<1> QED BY <1>1, <1>2, PTL DEF Spec

-----------------------------------------------------------------------------
(* What a search finds *)

\* An entry has what a task has, but for what the index was not told.
Agrees(e, i) ==
  /\ e.title = task[i].title \/ <<task[i].born, "title">> \in behind
  /\ e.note = task[i].note \/ <<task[i].born, "note">> \in behind
  /\ e.tag = TaskKeywords(tags, i) \/ <<task[i].born, "tag">> \in behind

BirthsDiffer ==
  /\ \A i \in Exist : task[i].born <= births
  /\ \A e \in index : e.born <= births
  /\ \A i, j \in Exist : task[i].born = task[j].born => i = j

\* A task has an entry of its own
Entered ==
  \A i \in Exist : \/ <<task[i].born, "entry">> \in behind
                   \/ \E e \in EntriesOf(i) : e.born = task[i].born

\* which has what the task has
EntriesAgree ==
  \A e \in index : e.id \in Exist /\ task[e.id].born = e.born => Agrees(e, e.id)

\* and the only entries of a task under another id are those of copies.
EntriesOwn ==
  \A e \in index : \A i \in Exist : task[i].born = e.born => i = e.id \/ e.born \in copies

IndexInv == BirthsDiffer /\ Entered /\ EntriesAgree /\ EntriesOwn

LEMMA IndexInit == Init => IndexInv
BY DEF Init, IndexInv, BirthsDiffer, Entered, EntriesAgree, EntriesOwn, Exist, NoTask

\* A step in which no task comes or goes.
LEMMA SameTasks ==
  ASSUME IndexInv, births' = births, copies' = copies,
         \A i \in Ids : task'[i].born = task[i].born,
         \A e \in index : \E f \in index' : f.id = e.id /\ f.born = e.born,
         \A f \in index' : \E e \in index :
           /\ e.id = f.id /\ e.born = f.born
           /\ (f.id \in Exist /\ task[f.id].born = f.born /\ Agrees(e, f.id))
                => Agrees(f, f.id)',
         \A b : <<b, "entry">> \in behind => <<b, "entry">> \in behind'
  PROVE  IndexInv'
<1>1. Exist' = Exist /\ Exist \subseteq Ids
  BY DEF Exist
<1>2. BirthsDiffer'
  BY <1>1 DEF IndexInv, BirthsDiffer
<1>3. Entered'
  <2>1. ASSUME NEW i \in Exist, <<task[i].born, "entry">> \notin behind'
        PROVE  \E f \in index' : f.id = i /\ f.born = task[i].born
    <3>1. PICK e \in index : e.id = i /\ e.born = task[i].born
      BY <2>1 DEF IndexInv, Entered, EntriesOf
    <3> QED BY <3>1
  <2>2. \A i \in Exist : task'[i].born = task[i].born
    BY <1>1
  <2>3. ASSUME NEW i \in Exist, NEW f \in index', f.id = i PROVE f \in EntriesOf(i)'
    BY <2>3 DEF EntriesOf
  <2> QED BY <1>1, <2>1, <2>2, <2>3 DEF Entered
<1>4. EntriesAgree'
  <2> SUFFICES ASSUME NEW f \in index', f.id \in Exist, task[f.id].born = f.born
               PROVE  Agrees(f, f.id)'
    BY <1>1 DEF EntriesAgree
  <2>1. PICK e \in index :
          /\ e.id = f.id /\ e.born = f.born
          /\ (f.id \in Exist /\ task[f.id].born = f.born /\ Agrees(e, f.id))
               => Agrees(f, f.id)'
    OBVIOUS
  <2> QED BY <2>1 DEF IndexInv, EntriesAgree
<1>5. EntriesOwn'
  BY <1>1 DEF IndexInv, EntriesOwn
<1> QED BY <1>2, <1>3, <1>4, <1>5 DEF IndexInv

\* The entries stay, and the tasks change only in what the index is not told.
LEMMA SameIndex ==
  ASSUME IndexInv, UNCHANGED <<births, copies, index>>,
         \A i \in Ids : task'[i].born = task[i].born,
         behind \subseteq behind',
         \A i \in Exist :
           /\ task'[i].title = task[i].title \/ <<task[i].born, "title">> \in behind'
           /\ task'[i].note = task[i].note \/ <<task[i].born, "note">> \in behind'
           /\ \/ TaskKeywords(tags, i)' = TaskKeywords(tags, i)
              \/ <<task[i].born, "tag">> \in behind'
  PROVE  IndexInv'
<1>1. ASSUME NEW e \in index, e.id \in Exist, Agrees(e, e.id) PROVE Agrees(e, e.id)'
  BY <1>1 DEF Agrees, Exist
<1> QED BY <1>1, SameTasks

\* A statement that rewrites the entries of one task.
LEMMA TitledEntries ==
  ASSUME TypeOK, NEW i
  PROVE  /\ \A e \in index : \E f \in Titled(i) : f.id = e.id /\ f.born = e.born
         /\ \A f \in Titled(i) : \E e \in index :
              /\ f.id = e.id /\ f.born = e.born /\ f.note = e.note /\ f.tag = e.tag
              /\ f.title = IF f.id = i THEN edits + 1 ELSE e.title
<1>1. ASSUME NEW e \in index
      PROVE  /\ e \in Entry
             /\ e.id = i => [e EXCEPT !.title = edits + 1] \in Titled(i)
             /\ e.id # i => e \in Titled(i)
  BY DEF TypeOK, Titled, EntriesOf
<1>2. ASSUME NEW e \in index
      PROVE  LET f == [e EXCEPT !.title = edits + 1] IN
             /\ f.id = e.id /\ f.born = e.born /\ f.note = e.note /\ f.tag = e.tag
             /\ f.title = edits + 1
  BY <1>1 DEF Entry
<1>3. \A e \in index : \E f \in Titled(i) : f.id = e.id /\ f.born = e.born
  BY <1>1, <1>2
<1>4. ASSUME NEW f \in Titled(i)
      PROVE  \E e \in index :
               /\ f.id = e.id /\ f.born = e.born /\ f.note = e.note /\ f.tag = e.tag
               /\ f.title = IF f.id = i THEN edits + 1 ELSE e.title
  <2>1. CASE f \in index /\ f.id # i
    BY <2>1
  <2>2. CASE \E e \in index : e.id = i /\ f = [e EXCEPT !.title = edits + 1]
    BY <1>2, <2>2
  <2> QED BY <1>4, <2>1, <2>2 DEF Titled, EntriesOf
<1> QED BY <1>3, <1>4

LEMMA NotedEntries ==
  ASSUME TypeOK, NEW i
  PROVE  /\ \A e \in index : \E f \in Noted(i) : f.id = e.id /\ f.born = e.born
         /\ \A f \in Noted(i) : \E e \in index :
              /\ f.id = e.id /\ f.born = e.born /\ f.title = e.title /\ f.tag = e.tag
              /\ f.note = IF f.id = i THEN edits + 1 ELSE e.note
<1>1. ASSUME NEW e \in index
      PROVE  /\ e \in Entry
             /\ e.id = i => [e EXCEPT !.note = edits + 1] \in Noted(i)
             /\ e.id # i => e \in Noted(i)
  BY DEF TypeOK, Noted, EntriesOf
<1>2. ASSUME NEW e \in index
      PROVE  LET f == [e EXCEPT !.note = edits + 1] IN
             /\ f.id = e.id /\ f.born = e.born /\ f.title = e.title /\ f.tag = e.tag
             /\ f.note = edits + 1
  BY <1>1 DEF Entry
<1>3. \A e \in index : \E f \in Noted(i) : f.id = e.id /\ f.born = e.born
  BY <1>1, <1>2
<1>4. ASSUME NEW f \in Noted(i)
      PROVE  \E e \in index :
               /\ f.id = e.id /\ f.born = e.born /\ f.title = e.title /\ f.tag = e.tag
               /\ f.note = IF f.id = i THEN edits + 1 ELSE e.note
  <2>1. CASE f \in index /\ f.id # i
    BY <2>1
  <2>2. CASE \E e \in index : e.id = i /\ f = [e EXCEPT !.note = edits + 1]
    BY <1>2, <2>2
  <2> QED BY <1>4, <2>1, <2>2 DEF Noted, EntriesOf
<1> QED BY <1>3, <1>4

LEMMA RetaggedEntries ==
  ASSUME TypeOK, NEW i, NEW tag
  PROVE  /\ \A e \in index : \E f \in Retagged(i, tag) : f.id = e.id /\ f.born = e.born
         /\ \A f \in Retagged(i, tag) : \E e \in index :
              /\ f.id = e.id /\ f.born = e.born /\ f.title = e.title /\ f.note = e.note
              /\ f.tag = IF f.id = i THEN tag ELSE e.tag
<1>1. ASSUME NEW e \in index
      PROVE  /\ e \in Entry
             /\ e.id = i => [e EXCEPT !.tag = tag] \in Retagged(i, tag)
             /\ e.id # i => e \in Retagged(i, tag)
  BY DEF TypeOK, Retagged, EntriesOf
<1>2. ASSUME NEW e \in index
      PROVE  LET f == [e EXCEPT !.tag = tag] IN
             /\ f.id = e.id /\ f.born = e.born /\ f.title = e.title /\ f.note = e.note
             /\ f.tag = tag
  BY <1>1 DEF Entry
<1>3. \A e \in index : \E f \in Retagged(i, tag) : f.id = e.id /\ f.born = e.born
  BY <1>1, <1>2
<1>4. ASSUME NEW f \in Retagged(i, tag)
      PROVE  \E e \in index :
               /\ f.id = e.id /\ f.born = e.born /\ f.title = e.title /\ f.note = e.note
               /\ f.tag = IF f.id = i THEN tag ELSE e.tag
  <2>1. CASE f \in index /\ f.id # i
    BY <2>1
  <2>2. CASE \E e \in index : e.id = i /\ f = [e EXCEPT !.tag = tag]
    BY <1>2, <2>2
  <2> QED BY <1>4, <2>1, <2>2 DEF Retagged, EntriesOf
<1> QED BY <1>3, <1>4

\* Following one task clears nothing that is said of another, or of another field.
LEMMA FollowsBehind ==
  ASSUME IndexInv, NEW i, NEW field \in Fields, NEW new, Follows(i, field, new)
  PROVE  /\ \A b : <<b, "entry">> \in behind => <<b, "entry">> \in behind'
         /\ \A j \in Exist, x \in Fields : <<task[j].born, x>> \in behind =>
              \/ <<task[j].born, x>> \in behind'
              \/ j = i /\ x = field /\ index' = new
         /\ \/ index' = new
            \/ /\ index' = index
               /\ i \in Exist => <<task[i].born, field>> \in behind'
BY DEF Follows, Index, Fault, Of, IndexInv, BirthsDiffer

LEMMA WordsKept ==
  ASSUME UNCHANGED name, NEW j, \A w \in Words : <<j, w>> \in tags' <=> <<j, w>> \in tags
  PROVE  TaskKeywords(tags, j)' = TaskKeywords(tags, j)
<1>1. WordsIn(tags, j)' = WordsIn(tags, j)
  BY DEF WordsIn
<1> QED BY <1>1 DEF TaskKeywords

LEMMA BornBefore == ASSUME IndexInv, TypeOK PROVE \A i \in Exist : task[i].born # births + 1
BY DEF IndexInv, BirthsDiffer, TypeOK, Task, Exist

\* A step in which one task comes.
LEMMA NewTask ==
  ASSUME IndexInv, TypeOK, NEW n \in Ids, n \notin Exist, births' = births + 1,
         task'[n].born = births + 1, \A i \in Ids \ {n} : task'[i] = task[i],
         copies \subseteq copies', behind \subseteq behind', index \subseteq index',
         \A i \in Exist : \/ TaskKeywords(tags, i)' = TaskKeywords(tags, i)
                          \/ <<task[i].born, "tag">> \in behind',
         \A f \in index' :
           \/ f \in index
           \/ /\ f.born = births + 1
              /\ IF f.id = n THEN Agrees(f, n)' ELSE births + 1 \in copies',
         \/ <<births + 1, "entry">> \in behind'
         \/ \E f \in index' : f.id = n /\ f.born = births + 1
  PROVE  IndexInv'
<1>1. births \in Nat /\ Exist \subseteq Ids
  BY DEF TypeOK, Exist
<1>2. Exist' = Exist \cup {n} /\ \A i \in Exist : task'[i] = task[i] /\ i # n
  BY <1>1 DEF Exist
<1>3. /\ \A i \in Exist : task[i].born \in Nat /\ task[i].born <= births
      /\ \A e \in index : e.born \in Nat /\ e.born <= births
  BY EntryTyped DEF TypeOK, Task, Exist, IndexInv, BirthsDiffer
<1>4. BirthsDiffer'
  BY <1>1, <1>2, <1>3 DEF IndexInv, BirthsDiffer
<1>5. Entered'
  <2>1. ASSUME NEW i \in Exist, <<task[i].born, "entry">> \notin behind'
        PROVE  \E f \in index' : f.id = i /\ f.born = task[i].born
    <3>1. PICK e \in index : e.id = i /\ e.born = task[i].born
      BY <2>1 DEF IndexInv, Entered, EntriesOf
    <3> QED BY <3>1
  <2>2. ASSUME NEW i \in Ids, NEW f \in index', f.id = i PROVE f \in EntriesOf(i)'
    BY <2>2 DEF EntriesOf
  <2> QED BY <1>1, <1>2, <2>1, <2>2 DEF Entered
<1>6. EntriesAgree'
  <2> SUFFICES ASSUME NEW f \in index', f.id \in Exist', task'[f.id].born = f.born
               PROVE  Agrees(f, f.id)'
    BY DEF EntriesAgree
  <2>1. CASE f.id = n
    BY <1>1, <1>3, <2>1
  <2>2. CASE f.id # n
    <3>1. f \in index /\ f.id \in Exist /\ task[f.id].born = f.born
      <4>1. f.id \in Exist /\ task[f.id].born = f.born
        BY <1>2, <2>2
      <4>2. f.born # births + 1
        BY <4>1, BornBefore
      <4> QED BY <4>1, <4>2
    <3>2. Agrees(f, f.id)
      BY <3>1 DEF IndexInv, EntriesAgree
    <3>3. task'[f.id] = task[f.id]
      BY <1>2, <3>1
    <3>4. \/ TaskKeywords(tags, f.id)' = TaskKeywords(tags, f.id)
          \/ <<task[f.id].born, "tag">> \in behind'
      BY <3>1
    <3> QED BY <3>2, <3>3, <3>4 DEF Agrees
  <2> QED BY <2>1, <2>2
<1>7. EntriesOwn'
  <2> SUFFICES ASSUME NEW f \in index', NEW i \in Exist', task'[i].born = f.born
               PROVE  i = f.id \/ f.born \in copies'
    BY DEF EntriesOwn
  <2>1. CASE i = n
    BY <1>1, <1>3, <2>1
  <2>2. CASE i # n
    <3>1. f \in index /\ i \in Exist /\ task[i].born = f.born
      BY <1>1, <1>2, <1>3, <2>2
    <3> QED BY <3>1 DEF IndexInv, EntriesOwn
  <2> QED BY <2>1, <2>2
<1> QED BY <1>4, <1>5, <1>6, <1>7 DEF IndexInv

LEMMA BirthFresh ==
  ASSUME TypeOK, NEW n \in Ids, Birth(n) PROVE n \notin Exist /\ births' = births + 1
BY DEF Birth, NextId

\* A step in which one task goes.
LEMMA DropStep == ASSUME IndexInv, TypeOK, NEW i \in Ids, Drop(i) PROVE IndexInv'
<1>1. /\ Exist' = Exist \ {i} /\ Exist \subseteq Ids
      /\ \A j \in Exist \ {i} : task'[j] = task[j]
  BY DEF Drop, Exist, NoTask, TypeOK
<1>2. index' = index /\ behind' = behind /\ births' = births /\ copies' = copies
  BY DEF Drop, bounds
<1>3. ASSUME NEW j \in Exist \ {i} PROVE TaskKeywords(tags, j)' = TaskKeywords(tags, j)
  BY <1>3, WordsKept DEF Drop
<1>4. BirthsDiffer'
  BY <1>1, <1>2 DEF IndexInv, BirthsDiffer
<1>5. Entered'
  BY <1>1, <1>2 DEF IndexInv, Entered, EntriesOf
<1>6. EntriesAgree'
  BY <1>1, <1>2, <1>3 DEF IndexInv, EntriesAgree, Agrees
<1>7. EntriesOwn'
  BY <1>1, <1>2 DEF IndexInv, EntriesOwn
<1> QED BY <1>4, <1>5, <1>6, <1>7 DEF IndexInv

LEMMA UpdateTitleStep ==
  ASSUME IndexInv, TypeOK, NEW i \in Ids, UpdateTitle(i) PROVE IndexInv'
<1>1. /\ \A j \in Ids : /\ task'[j].born = task[j].born /\ task'[j].note = task[j].note
                        /\ task'[j].title = IF j = i /\ j \in Exist THEN edits + 1
                                            ELSE task[j].title
      /\ births' = births /\ copies' = copies /\ Exist \subseteq Ids
  BY DEF UpdateTitle, TypeOK, Task, Exist
<1>2. \A j : TaskKeywords(tags, j)' = TaskKeywords(tags, j)
  BY WordsKept DEF UpdateTitle
<1>3. Follows(i, "title", Titled(i))
  BY DEF UpdateTitle
<1>4. /\ \A b : <<b, "entry">> \in behind => <<b, "entry">> \in behind'
      /\ \A j \in Exist, x \in Fields : <<task[j].born, x>> \in behind =>
           \/ <<task[j].born, x>> \in behind'
           \/ j = i /\ x = "title" /\ index' = Titled(i)
      /\ \/ index' = Titled(i)
         \/ index' = index /\ (i \in Exist => <<task[i].born, "title">> \in behind')
  BY <1>3, FollowsBehind
<1>5. \A e \in index : \E f \in index' : f.id = e.id /\ f.born = e.born
  BY <1>4, TitledEntries
<1>6. ASSUME NEW f \in index'
      PROVE  \E e \in index :
               /\ e.id = f.id /\ e.born = f.born
               /\ (f.id \in Exist /\ task[f.id].born = f.born /\ Agrees(e, f.id))
                    => Agrees(f, f.id)'
  <2>1. CASE index' = Titled(i)
    <3>1. PICK e \in index :
            /\ f.id = e.id /\ f.born = e.born /\ f.note = e.note /\ f.tag = e.tag
            /\ f.title = IF f.id = i THEN edits + 1 ELSE e.title
      BY <1>6, <2>1, TitledEntries
    <3>2. ASSUME f.id \in Exist, Agrees(e, f.id) PROVE Agrees(f, f.id)'
      BY <1>1, <1>2, <1>4, <3>1, <3>2 DEF Agrees
    <3> QED BY <3>1, <3>2
  <2>2. CASE index' # Titled(i)
    <3>1. index' = index /\ (i \in Exist => <<task[i].born, "title">> \in behind')
      BY <1>4, <2>2
    <3>2. ASSUME f.id \in Exist, Agrees(f, f.id) PROVE Agrees(f, f.id)'
      BY <1>1, <1>2, <1>4, <2>2, <3>1, <3>2 DEF Agrees
    <3> QED BY <1>6, <3>1, <3>2
  <2> QED BY <2>1, <2>2
<1>7. \A j \in Ids : task'[j].born = task[j].born
  BY <1>1
<1> QED BY <1>1, <1>4, <1>5, <1>6, <1>7, SameTasks

LEMMA UpdateNoteStep ==
  ASSUME IndexInv, TypeOK, NEW i \in Ids, UpdateNote(i) PROVE IndexInv'
<1>1. /\ \A j \in Ids : /\ task'[j].born = task[j].born /\ task'[j].title = task[j].title
                        /\ task'[j].note = IF j = i /\ j \in Exist THEN edits + 1
                                           ELSE task[j].note
      /\ births' = births /\ copies' = copies /\ Exist \subseteq Ids
  BY DEF UpdateNote, TypeOK, Task, Exist
<1>2. \A j : TaskKeywords(tags, j)' = TaskKeywords(tags, j)
  BY WordsKept DEF UpdateNote
<1>3. Follows(i, "note", Noted(i))
  BY DEF UpdateNote
<1>4. /\ \A b : <<b, "entry">> \in behind => <<b, "entry">> \in behind'
      /\ \A j \in Exist, x \in Fields : <<task[j].born, x>> \in behind =>
           \/ <<task[j].born, x>> \in behind'
           \/ j = i /\ x = "note" /\ index' = Noted(i)
      /\ \/ index' = Noted(i)
         \/ index' = index /\ (i \in Exist => <<task[i].born, "note">> \in behind')
  BY <1>3, FollowsBehind
<1>5. \A e \in index : \E f \in index' : f.id = e.id /\ f.born = e.born
  BY <1>4, NotedEntries
<1>6. ASSUME NEW f \in index'
      PROVE  \E e \in index :
               /\ e.id = f.id /\ e.born = f.born
               /\ (f.id \in Exist /\ task[f.id].born = f.born /\ Agrees(e, f.id))
                    => Agrees(f, f.id)'
  <2>1. CASE index' = Noted(i)
    <3>1. PICK e \in index :
            /\ f.id = e.id /\ f.born = e.born /\ f.title = e.title /\ f.tag = e.tag
            /\ f.note = IF f.id = i THEN edits + 1 ELSE e.note
      BY <1>6, <2>1, NotedEntries
    <3>2. ASSUME f.id \in Exist, Agrees(e, f.id) PROVE Agrees(f, f.id)'
      BY <1>1, <1>2, <1>4, <3>1, <3>2 DEF Agrees
    <3> QED BY <3>1, <3>2
  <2>2. CASE index' # Noted(i)
    <3>1. index' = index /\ (i \in Exist => <<task[i].born, "note">> \in behind')
      BY <1>4, <2>2
    <3>2. ASSUME f.id \in Exist, Agrees(f, f.id) PROVE Agrees(f, f.id)'
      BY <1>1, <1>2, <1>4, <2>2, <3>1, <3>2 DEF Agrees
    <3> QED BY <1>6, <3>1, <3>2
  <2> QED BY <2>1, <2>2
<1>7. \A j \in Ids : task'[j].born = task[j].born
  BY <1>1
<1> QED BY <1>1, <1>4, <1>5, <1>6, <1>7, SameTasks

\* The keywords of one task change, and its entries are given those that it has then.
LEMMA RetaggedStep ==
  ASSUME IndexInv, TypeOK, NEW i \in Ids, NEW tag, UNCHANGED <<task, name, births, copies>>,
         \A j \in Ids \ {i} : \A w \in Words : <<j, w>> \in tags' <=> <<j, w>> \in tags,
         TaskKeywords(tags, i)' = tag,
         Follows(i, "tag", Retagged(i, tag))
  PROVE  IndexInv'
<1>1. \A j \in Ids \ {i} : TaskKeywords(tags, j)' = TaskKeywords(tags, j)
  BY WordsKept
<1>2. Exist \subseteq Ids
  BY DEF Exist
<1>3. /\ \A b : <<b, "entry">> \in behind => <<b, "entry">> \in behind'
      /\ \A j \in Exist, x \in Fields : <<task[j].born, x>> \in behind =>
           \/ <<task[j].born, x>> \in behind'
           \/ j = i /\ x = "tag" /\ index' = Retagged(i, tag)
      /\ \/ index' = Retagged(i, tag)
         \/ index' = index /\ (i \in Exist => <<task[i].born, "tag">> \in behind')
  BY FollowsBehind
<1>4. \A e \in index : \E f \in index' : f.id = e.id /\ f.born = e.born
  BY <1>3, RetaggedEntries
<1>5. ASSUME NEW f \in index'
      PROVE  \E e \in index :
               /\ e.id = f.id /\ e.born = f.born
               /\ (f.id \in Exist /\ task[f.id].born = f.born /\ Agrees(e, f.id))
                    => Agrees(f, f.id)'
  <2>1. CASE index' = Retagged(i, tag)
    <3>1. PICK e \in index :
            /\ f.id = e.id /\ f.born = e.born /\ f.title = e.title /\ f.note = e.note
            /\ f.tag = IF f.id = i THEN tag ELSE e.tag
      BY <1>5, <2>1, RetaggedEntries
    <3>2. ASSUME f.id \in Exist, Agrees(e, f.id) PROVE Agrees(f, f.id)'
      BY <1>1, <1>2, <1>3, <3>1, <3>2 DEF Agrees
    <3> QED BY <3>1, <3>2
  <2>2. CASE index' # Retagged(i, tag)
    <3>1. index' = index /\ (i \in Exist => <<task[i].born, "tag">> \in behind')
      BY <1>3, <2>2
    <3>2. ASSUME f.id \in Exist, Agrees(f, f.id) PROVE Agrees(f, f.id)'
      BY <1>1, <1>2, <1>3, <2>2, <3>1, <3>2 DEF Agrees
    <3> QED BY <1>5, <3>1, <3>2
  <2> QED BY <2>1, <2>2
<1>6. \A j \in Ids : task'[j].born = task[j].born
  OBVIOUS
<1> QED BY <1>3, <1>4, <1>5, <1>6, SameTasks

LEMMA InsertRowStep ==
  ASSUME IndexInv, TypeOK, NEW n \in Ids, InsertRow(n) PROVE IndexInv'
<1>1. n \notin Exist /\ births' = births + 1
  BY BirthFresh DEF InsertRow
<1>2. /\ task'[n] = [born |-> births + 1, title |-> edits + 1, note |-> 0]
      /\ \A i \in Ids \ {n} : task'[i] = task[i]
      /\ behind \subseteq behind' /\ index \subseteq index' /\ copies' = copies
  BY DEF InsertRow, TypeOK, Index, Fault
<1>3. \A i \in Exist : TaskKeywords(tags, i)' = TaskKeywords(tags, i)
  BY WordsKept DEF InsertRow
<1>4. CASE /\ Index(index \cup {InsertedEntry(n, edits + 1, 0, {})})
           /\ behind' = behind \cup
                IF WordsIn(tags, n) = {} THEN {} ELSE {<<births + 1, "tag">>}
  <2>0. PICK new : new = InsertedEntry(n, edits + 1, 0, {})
    OBVIOUS
  <2>1. /\ new.id = n /\ new.born = births + 1
        /\ new.title = edits + 1 /\ new.note = 0 /\ new.tag = {}
    BY <2>0 DEF InsertedEntry
  <2>2. \/ TaskKeywords(tags, n)' = {}
        \/ <<births + 1, "tag">> \in behind'
    <3>1. CASE WordsIn(tags, n) = {}
      <4>1. TaskKeywords(tags, n) = {}
        BY <3>1 DEF TaskKeywords
      <4> QED BY <4>1, WordsKept DEF InsertRow
    <3> QED BY <1>4, <3>1
  <2>3. Agrees(new, n)'
    BY <1>2, <2>1, <2>2 DEF Agrees
  <2>4. \A f \in index' : f \in index \/ f = new
    BY <1>4, <2>0 DEF Index
  <2>5. new \in index'
    BY <1>4, <2>0 DEF Index
  <2> QED BY <1>1, <1>2, <1>3, <2>1, <2>3, <2>4, <2>5, NewTask
<1>5. CASE Fault /\ behind' = behind \cup {<<births + 1, "entry">>}
  BY <1>1, <1>2, <1>3, <1>5, NewTask DEF Fault
<1> QED BY <1>4, <1>5 DEF InsertRow

LEMMA PullNewStep ==
  ASSUME IndexInv, TypeOK, NEW n \in Ids, NEW words \in SUBSET Words, PullNew(n, words)
  PROVE  IndexInv'
<1>1. n \notin Exist /\ births' = births + 1
  BY BirthFresh DEF PullNew
<1>2. /\ task'[n] = [born |-> births + 1, title |-> edits + 1, note |-> 0]
      /\ \A i \in Ids \ {n} : task'[i] = task[i]
      /\ behind \subseteq behind' /\ index \subseteq index' /\ copies' = copies
  BY DEF PullNew, TypeOK, Index, Fault
<1>3. \A i \in Exist : TaskKeywords(tags, i)' = TaskKeywords(tags, i)
  BY <1>1, WordsKept DEF PullNew
<1>4. CASE /\ Index(index \cup {InsertedEntry(n, edits + 1, 0, TaskKeywords(tags', n))})
           /\ UNCHANGED behind
  <2>0. PICK new : new = InsertedEntry(n, edits + 1, 0, TaskKeywords(tags', n))
    OBVIOUS
  <2>1. /\ new.id = n /\ new.born = births + 1
        /\ new.title = edits + 1 /\ new.note = 0 /\ new.tag = TaskKeywords(tags', n)
    BY <2>0 DEF InsertedEntry
  <2>2. TaskKeywords(tags, n)' = TaskKeywords(tags', n)
    BY DEF TaskKeywords, WordsIn, PullNew
  <2>3. Agrees(new, n)'
    BY <1>2, <2>1, <2>2 DEF Agrees
  <2>4. \A f \in index' : f \in index \/ f = new
    BY <1>4, <2>0 DEF Index
  <2>5. new \in index'
    BY <1>4, <2>0 DEF Index
  <2> QED BY <1>1, <1>2, <1>3, <2>1, <2>3, <2>4, <2>5, NewTask
<1>5. CASE Fault /\ behind' = behind \cup {<<births + 1, "entry">>}
  BY <1>1, <1>2, <1>3, <1>5, NewTask DEF Fault
<1> QED BY <1>4, <1>5 DEF PullNew

\* The entry of a copy may get another id than the copy: then only that one's entry is missing.
LEMMA CopyEntryStep ==
  ASSUME IndexInv, TypeOK, NEW i \in Ids, NEW n \in Ids, CopyEntry(i, n) PROVE IndexInv'
<1>1. n \notin Exist /\ births' = births + 1
  BY BirthFresh DEF CopyEntry
<1>2. /\ task'[n] = [born |-> births + 1, title |-> edits + 1, note |-> task[i].note]
      /\ \A j \in Ids \ {n} : task'[j] = task[j]
      /\ behind \subseteq behind' /\ index \subseteq index'
      /\ copies' = copies \cup {births + 1}
  BY DEF CopyEntry, TypeOK, Index, Fault
<1>3. \A j \in Exist : \/ TaskKeywords(tags, j)' = TaskKeywords(tags, j)
                       \/ <<task[j].born, "tag">> \in behind'
  <2>1. ASSUME NEW j \in Exist, j # lastLink
        PROVE  TaskKeywords(tags, j)' = TaskKeywords(tags, j)
    BY <2>1, WordsKept DEF CopyEntry
  <2>2. ASSUME lastLink \in Exist, tags' # tags
        PROVE  <<task[lastLink].born, "tag">> \in behind'
    BY <2>2 DEF CopyEntry, Of
  <2>3. ASSUME tags' = tags, NEW j \in Exist
        PROVE  TaskKeywords(tags, j)' = TaskKeywords(tags, j)
    BY <2>3, WordsKept DEF CopyEntry
  <2> QED BY <2>1, <2>2, <2>3
<1>0. PICK new :
        new = InsertedEntry(lastLink, edits + 1, task[i].note, TaskKeywords(tags', lastLink))
  OBVIOUS
<1>4. /\ new.id = lastLink /\ new.born = births + 1
      /\ new.title = edits + 1 /\ new.note = task[i].note
      /\ new.tag = TaskKeywords(tags', lastLink)
  BY <1>0 DEF InsertedEntry
<1>5. TaskKeywords(tags, n)' = TaskKeywords(tags', n)
  BY DEF TaskKeywords, WordsIn, CopyEntry
<1>6. ASSUME lastLink = n PROVE Agrees(new, n)'
  <2>1. TaskKeywords(tags, n)' = new.tag
    <3>1. new.tag = TaskKeywords(tags', n)
      BY <1>4, <1>6
    <3> QED BY <1>5, <3>1
  <2>2. task'[n].title = new.title /\ task'[n].note = new.note
    BY <1>2, <1>4
  <2> QED BY <2>1, <2>2 DEF Agrees
<1>7. index' = index \cup {new} \/ index' = index
  BY <1>0 DEF CopyEntry, Index, Fault
<1>8. \/ <<births + 1, "entry">> \in behind'
      \/ lastLink = n /\ index' = index \cup {new}
  BY <1>7 DEF CopyEntry
<1>9. \A f \in index' : f \in index \/ f = new
  BY <1>7
<1>10. \/ <<births + 1, "entry">> \in behind'
       \/ \E f \in index' : f.id = n /\ f.born = births + 1
  BY <1>4, <1>8
<1>11. \A f \in index' :
         \/ f \in index
         \/ /\ f.born = births + 1
            /\ IF f.id = n THEN Agrees(f, n)' ELSE births + 1 \in copies'
  BY <1>2, <1>4, <1>6, <1>9
<1>12. task'[n].born = births + 1 /\ copies \subseteq copies'
  BY <1>2
<1> QED BY <1>1, <1>2, <1>3, <1>10, <1>11, <1>12, NewTask

LEMMA IndexStep == ASSUME IndexInv, TypeOK, [Next]_vars PROVE IndexInv'
<1>1. ASSUME NEW n \in Ids, InsertRow(n) PROVE IndexInv'
  BY <1>1, InsertRowStep
<1>2. ASSUME NEW i \in Ids, UpdateTitle(i) PROVE IndexInv'
  BY <1>2, UpdateTitleStep
<1>3. ASSUME NEW i \in Ids, UpdateRows(i) PROVE IndexInv'
  <2>1. \A j : TaskKeywords(tags, j)' = TaskKeywords(tags, j)
    BY <1>3, WordsKept DEF UpdateRows
  <2>2. /\ UNCHANGED <<births, copies, index>> /\ behind \subseteq behind'
        /\ \A j \in Ids : /\ task'[j].born = task[j].born /\ task'[j].note = task[j].note
                          /\ j # i => task'[j].title = task[j].title
        /\ <<task[i].born, "title">> \in behind'
    BY <1>3 DEF UpdateRows, Of, TypeOK, Task
  <2> QED BY <2>1, <2>2, SameIndex DEF Exist
<1>4. ASSUME NEW i \in Ids, UpdateNote(i) PROVE IndexInv'
  BY <1>4, UpdateNoteStep
<1>5. ASSUME NEW i \in Ids, NEW w \in Words, AddTaskKeyword(i, w) PROVE IndexInv'
  <2>1. PICK tag : tag = TaskKeywords(tags', i)
    OBVIOUS
  <2>2. TaskKeywords(tags, i)' = tag
    BY <1>5, <2>1 DEF TaskKeywords, WordsIn, AddTaskKeyword
  <2>3. /\ UNCHANGED <<task, name, births, copies>>
        /\ \A j \in Ids \ {i} : \A v \in Words : <<j, v>> \in tags' <=> <<j, v>> \in tags
        /\ Follows(i, "tag", Retagged(i, tag))
    BY <1>5, <2>1 DEF AddTaskKeyword
  <2> QED BY <2>2, <2>3, RetaggedStep
<1>6. ASSUME NEW i \in Ids, DeleteKeywords(i) PROVE IndexInv'
  <2>1. WordsIn(tags, i)' = {}
    BY <1>6 DEF WordsIn, DeleteKeywords
  <2>2. TaskKeywords(tags, i)' = {}
    BY <2>1 DEF TaskKeywords
  <2>3. /\ UNCHANGED <<task, name, births, copies>>
        /\ \A j \in Ids \ {i} : \A v \in Words : <<j, v>> \in tags' <=> <<j, v>> \in tags
        /\ Follows(i, "tag", Retagged(i, {}))
    BY <1>6 DEF DeleteKeywords
  <2> QED BY <2>2, <2>3, RetaggedStep
<1>7. ASSUME NEW w \in Words, UpdateKeywordTitle(w) PROVE IndexInv'
  <2>1. UNCHANGED <<births, copies, index, task>> /\ behind \subseteq behind'
    BY <1>7 DEF UpdateKeywordTitle
  <2>2. ASSUME NEW i \in Exist
        PROVE  \/ TaskKeywords(tags, i)' = TaskKeywords(tags, i)
               \/ <<task[i].born, "tag">> \in behind'
    <3>1. CASE i \in Tagged(w)
      BY <1>7, <2>2, <3>1 DEF UpdateKeywordTitle, Of
    <3>2. CASE i \notin Tagged(w)
      <4>1. /\ \A v \in WordsIn(tags, i) : name'[v] = name[v]
            /\ WordsIn(tags, i)' = WordsIn(tags, i)
        BY <1>7, <2>2, <3>2 DEF UpdateKeywordTitle, Tagged, WordsIn, TypeOK
      <4> QED BY <4>1 DEF TaskKeywords
    <3> QED BY <3>1, <3>2
  <2> QED BY <2>1, <2>2, SameIndex
<1>8. ASSUME NEW i \in Ids, NEW j \in Ids, LinkEntries(i, j) PROVE IndexInv'
  <2>1. UNCHANGED <<task, tags, name, births, copies, index, behind>>
    BY <1>8 DEF LinkEntries, bounds
  <2>2. \A k : TaskKeywords(tags, k)' = TaskKeywords(tags, k)
    BY <2>1, WordsKept
  <2> QED BY <2>1, <2>2, SameIndex
<1>9. ASSUME NEW i \in Ids, NEW n \in Ids, CopyEntry(i, n) PROVE IndexInv'
  BY <1>9, CopyEntryStep
<1>10. CASE Restart \/ UNCHANGED vars
  <2>1. UNCHANGED <<task, tags, name, births, copies, index, behind>>
    BY <1>10 DEF Restart, vars, tables, bounds
  <2>2. \A k : TaskKeywords(tags, k)' = TaskKeywords(tags, k)
    BY <2>1, WordsKept
  <2> QED BY <2>1, <2>2, SameIndex
<1>11. ASSUME NEW n \in Ids, NEW words \in SUBSET Words, PullNew(n, words) PROVE IndexInv'
  BY <1>11, PullNewStep
<1>12. ASSUME NEW i \in Ids, NEW field \in {"title", "note"}, Pull(i, field) PROVE IndexInv'
  <2>1. \A j : TaskKeywords(tags, j)' = TaskKeywords(tags, j)
    BY <1>12, WordsKept DEF Pull
  <2>2. /\ UNCHANGED <<births, copies, index>> /\ behind \subseteq behind'
        /\ \A j \in Ids : /\ task'[j].born = task[j].born
                          /\ task'[j].title = task[j].title \/ (j = i /\ field = "title")
                          /\ task'[j].note = task[j].note \/ (j = i /\ field = "note")
        /\ <<task[i].born, field>> \in behind'
    BY <1>12 DEF Pull, Of, TypeOK, Task
  <2> QED BY <2>1, <2>2, SameIndex DEF Exist
<1>13. ASSUME NEW i \in Ids, NEW words \in SUBSET Words, PullTags(i, words) PROVE IndexInv'
  <2>1. UNCHANGED <<births, copies, index, task, name>> /\ behind \subseteq behind'
    BY <1>13 DEF PullTags, bounds
  <2>2. ASSUME NEW j \in Exist
        PROVE  \/ TaskKeywords(tags, j)' = TaskKeywords(tags, j)
               \/ <<task[j].born, "tag">> \in behind'
    <3>1. CASE j = i
      BY <1>13, <2>2, <3>1 DEF PullTags, Of
    <3>2. CASE j # i
      BY <1>13, <2>1, <3>2, WordsKept DEF PullTags
    <3> QED BY <3>1, <3>2
  <2> QED BY <2>1, <2>2, SameIndex
<1>14. ASSUME NEW i \in Ids, Drop(i) PROVE IndexInv'
  BY <1>14, DropStep
<1>15. ASSUME NEW w \in Words, DropKeyword(w) PROVE IndexInv'
  <2>1. UNCHANGED <<births, copies, index, task, name>> /\ behind \subseteq behind'
    BY <1>15 DEF DropKeyword, bounds
  <2>2. ASSUME NEW i \in Exist
        PROVE  \/ TaskKeywords(tags, i)' = TaskKeywords(tags, i)
               \/ <<task[i].born, "tag">> \in behind'
    <3>1. CASE i \in Tagged(w)
      BY <1>15, <2>2, <3>1 DEF DropKeyword, Of
    <3>2. CASE i \notin Tagged(w)
      BY <1>15, <2>1, <2>2, <3>2, WordsKept DEF DropKeyword, Tagged
    <3> QED BY <3>1, <3>2
  <2> QED BY <2>1, <2>2, SameIndex
<1> QED
  BY <1>1, <1>2, <1>3, <1>4, <1>5, <1>6, <1>7, <1>8, <1>9, <1>10, <1>11, <1>12, <1>13,
     <1>14, <1>15 DEF Next, User, Sync

LEMMA IndexAlways == Spec => [](TypeOK /\ IndexInv)
BY IndexInit, IndexStep, TypeCorrect, PTL DEF Spec

(* A search for what a task has finds the task, unless the index was not told of it. *)
THEOREM SearchCorrect == Spec => []FindsTasks
<1>1. ASSUME TypeOK, IndexInv PROVE FindsTasks
  <2> SUFFICES ASSUME NEW i \in Exist, NEW text \in TextsOf(i),
                      <<task[i].born, "entry">> \notin behind,
                      <<task[i].born, text[1]>> \notin behind
               PROVE  i \in Found(text)
    BY DEF FindsTasks
  <2>1. PICK e \in index : e.id = i /\ e.born = task[i].born
    BY <1>1 DEF IndexInv, Entered, EntriesOf
  <2>2. Agrees(e, i)
    BY <1>1, <2>1 DEF IndexInv, EntriesAgree
  <2>3. text \in ContentsOf(e)
    BY <2>2 DEF TextsOf, ContentsOf, Agrees
  <2> QED BY <2>1, <2>3 DEF Found, Hits
<1> QED BY <1>1, IndexAlways, PTL

(* What a search finds has what was searched for, unless the index was not told of it, *)
(* or the entry is that of a task that is gone or of a copy.                            *)
THEOREM FoundCorrect == Spec => []FoundHasText
<1>1. ASSUME TypeOK, IndexInv PROVE FoundHasText
  <2> SUFFICES ASSUME NEW e \in index, NEW text \in ContentsOf(e), e.id \in Exist,
                      <<task[e.id].born, text[1]>> \notin behind
               PROVE  \/ text \in TextsOf(e.id)
                      \/ e.born # task[e.id].born /\ (Gone(e.born) \/ e.born \in copies)
    BY DEF FoundHasText, Found
  <2>1. CASE e.born = task[e.id].born
    <3>1. Agrees(e, e.id)
      BY <1>1, <2>1 DEF IndexInv, EntriesAgree
    <3> QED BY <3>1 DEF TextsOf, ContentsOf, Agrees
  <2>2. CASE e.born # task[e.id].born
    <3>1. ASSUME e.born \notin copies, NEW j \in Ids, task[j].born = e.born PROVE FALSE
      <4>1. e.born # 0
        BY <1>1 DEF TypeOK, Entry
      <4>2. j \in Exist
        BY <3>1, <4>1 DEF Exist
      <4> QED BY <1>1, <2>2, <3>1, <4>2 DEF IndexInv, EntriesOwn
    <3> QED BY <2>2, <3>1 DEF Gone
  <2> QED BY <2>1, <2>2
<1> QED BY <1>1, IndexAlways, PTL
=============================================================================
