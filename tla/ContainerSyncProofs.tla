------------------------- MODULE ContainerSyncProofs -------------------------
(***************************************************************************)
(* Proofs about the replication of contexts and folders, for any numbers   *)
(* of rows, tasks, titles, writes and syncs cut short: the types, the tids *)
(* of the client's containers, the map of titles, and that the containers  *)
(* and the places of the tasks stay in step.                               *)
(***************************************************************************)
EXTENDS ContainerSync, WellFoundedInduction, TLAPS

\* The last of some numbers.
LEMMA LastIs ==
  ASSUME NEW n \in Nat, NEW S \in SUBSET (1..n), S # {}
  PROVE  Last(S) \in S /\ \A j \in S : j <= Last(S)
<1> DEFINE T == {n - i : i \in S}
           R == OpToRel(<, Nat)
<1>1. T \subseteq Nat /\ T # {}
  <2>1. PICK i \in S : TRUE
    OBVIOUS
  <2>2. n - i \in T
    OBVIOUS
  <2>3. T \subseteq Nat
    OBVIOUS
  <2> QED BY <2>2, <2>3
<1>2. PICK x \in T : \A y \in T : ~ (<<y, x>> \in R)
  <2> HIDE DEF T, R
  <2>1. IsWellFoundedOn(R, Nat)
    BY NatLessThanWellFounded DEF R
  <2> QED BY <1>1, <2>1, WFMin
<1>3. \A y \in T : x <= y
  <2>1. \A a, b \in Nat : a < b => <<a, b>> \in R
    <3> SUFFICES ASSUME NEW a \in Nat, NEW b \in Nat, a < b PROVE <<a, b>> \in R
      OBVIOUS
    <3>1. <<a, b>> \in Nat \X Nat /\ <<a, b>>[1] = a /\ <<a, b>>[2] = b
      OBVIOUS
    <3> QED BY <3>1 DEF OpToRel
  <2> HIDE DEF R, T
  <2>2. SUFFICES ASSUME NEW y \in T PROVE x <= y
    OBVIOUS
  <2>3. x \in Nat /\ y \in Nat
    BY <1>1
  <2>4. ~(y < x)
    BY <1>2, <2>1, <2>3
  <2> QED BY <2>3, <2>4
<1>4. PICK i \in S : x = n - i
  OBVIOUS
<1>5. \A j \in S : j <= i
  BY <1>3, <1>4
<1> QED BY <1>4, <1>5 DEF Last

USE ContainerSyncAssumption
    DEF LocalIds, RemoteIds, TempBase, Tids, Default, None

-----------------------------------------------------------------------------
(* Types *)

\* The temporary tids of one run are two apart, and each is used by one write.
TemporaryBound == temporary \in TempBase..(TempBase + 2 * edits)

TypeInv == TypeOK /\ TemporaryBound

\* Reading the map finds the tid of the last row of each title.
LEMMA MapReadFinds ==
  ASSUME NEW old, NEW n \in Titles, NEW i \in LocalIds,
         local'[i].exists, local'[i].title = n
  PROVE  \E j \in LocalIds : /\ local'[j].exists /\ local'[j].title = n
                             /\ MapRead(old)[n] = local'[j].tid
<1> DEFINE named == {j \in LocalIds : local'[j].exists /\ local'[j].title = n}
<1>1. named # {} /\ named \in SUBSET (1..MaxLocal) /\ MaxLocal \in Nat
  OBVIOUS
<1>2. Last(named) \in named
  <2> HIDE DEF named
  <2> QED BY <1>1, LastIs
<1>3. MapRead(old)[n] = local'[Last(named)].tid
  BY <1>1 DEF MapRead
<1> QED BY <1>2, <1>3

LEMMA MapReadType ==
  ASSUME NEW old \in [Titles -> Tids \cup {None}], local' \in [LocalIds -> LocalRow]
  PROVE  MapRead(old) \in [Titles -> Tids \cup {None}]
<1> SUFFICES ASSUME NEW n \in Titles PROVE MapRead(old)[n] \in Tids \cup {None}
  BY DEF MapRead
<1>1. CASE \E i \in LocalIds : local'[i].exists /\ local'[i].title = n
  <2>1. PICK j \in LocalIds : MapRead(old)[n] = local'[j].tid
    BY <1>1, MapReadFinds
  <2>2. local'[j] \in LocalRow
    OBVIOUS
  <2> QED BY <2>1, <2>2 DEF LocalRow
<1>2. CASE ~ \E i \in LocalIds : local'[i].exists /\ local'[i].title = n
  BY <1>2 DEF MapRead
<1> QED BY <1>1, <1>2

LEMMA RetitledType ==
  /\ \A row \in LocalRow, title \in Titles : Retitled(row, title) \in LocalRow
  /\ \A row \in RemoteRow, title \in Titles : Retitled(row, title) \in RemoteRow
BY DEF LocalRow, RemoteRow, Retitled

LEMMA RetitledKeeps ==
  /\ \A row \in LocalRow, title \in Titles :
       LET new == Retitled(row, title)
       IN  new.exists = row.exists /\ new.tid = row.tid /\ new.title = title
  /\ \A row \in RemoteRow, title \in Titles : Retitled(row, title).exists = row.exists
BY DEF LocalRow, RemoteRow, Retitled

LEMMA EmptiedType ==
  /\ \A tid : \A h \in [Tasks -> Tids] : Emptied(h, tid) \in [Tasks -> Tids]
  /\ \A tid : \A h \in [Tasks -> RemoteIds] : Emptied(h, tid) \in [Tasks -> RemoteIds]
BY DEF Emptied

\* The rows, and what refers to them.
RowTypes ==
  /\ local \in [LocalIds -> LocalRow] /\ remote \in [RemoteIds -> RemoteRow]
  /\ home \in [Tasks -> Tids] /\ homeChanged \subseteq Tasks
  /\ rhome \in [Tasks -> RemoteIds] /\ rhomeChanged \subseteq Tasks

\* The lists of a sync, and the rows of its next commit.
Halves == [op : {"none", "tid", "drop", "dropRow", "eraseThere", "mark", "eraseLocal"},
           local : LocalIds \cup {None}, remote : RemoteIds \cup {None}]
ListTypes ==
  /\ half \in Halves
  /\ updated \subseteq RemoteIds /\ pulls \subseteq RemoteIds
  /\ pushes \subseteq LocalIds /\ drops \subseteq RemoteIds
  /\ erases \subseteq LocalIds
  /\ taskUpdated \subseteq Tasks /\ taskPulls \subseteq Tasks
  /\ taskPushes \subseteq Tasks

\* The program, and the bounds.
OtherTypes ==
  /\ kind \in Kinds
  /\ map \in [Titles -> Tids \cup {None}] /\ temporary \in Tids
  /\ edits \in 0..MaxEdits /\ cuts \in 0..MaxCuts
  /\ pc \in {"idle", "apply"} /\ broken \in BOOLEAN

LEMMA TypeParts ==
  /\ TypeOK <=> RowTypes /\ ListTypes /\ OtherTypes
  /\ TypeOK' <=> RowTypes' /\ ListTypes' /\ OtherTypes'
BY DEF TypeOK, RowTypes, ListTypes, OtherTypes, Halves

LEMMA TypeInit == Init => TypeInv
<1> SUFFICES ASSUME Init PROVE TypeInv
  OBVIOUS
<1>1. 1 \in Tids /\ 2 \in Tids /\ TempBase \in Tids /\ 0 \in 0..MaxEdits /\ 0 \in 0..MaxCuts
      /\ 1 \in RemoteIds
  OBVIOUS
<1>2. NoLocal \in LocalRow /\ NoRemote \in RemoteRow
  BY DEF NoLocal, NoRemote, LocalRow, RemoteRow
<1>3. PICK title \in Titles :
        /\ local = [i \in LocalIds |->
             IF i = 1 THEN [NoLocal EXCEPT !.exists = TRUE, !.tid = Default]
             ELSE IF i = 2
             THEN [NoLocal EXCEPT !.exists = TRUE, !.tid = 2, !.title = title]
             ELSE NoLocal]
        /\ remote = [r \in RemoteIds |->
             [NoRemote EXCEPT !.exists = r <= 2,
                              !.title = IF r = 2 THEN title ELSE NoTitle]]
        /\ map = [n \in Titles |-> IF n = NoTitle THEN Default
                                   ELSE IF n = title THEN 2 ELSE None]
  BY DEF Init
<1>4. local \in [LocalIds -> LocalRow]
  <2>1. /\ [NoLocal EXCEPT !.exists = TRUE, !.tid = 1] \in LocalRow
        /\ [NoLocal EXCEPT !.exists = TRUE, !.tid = 2, !.title = title] \in LocalRow
    BY <1>1 DEF NoLocal, LocalRow
  <2> QED BY <1>2, <1>3, <2>1
<1>5. remote \in [RemoteIds -> RemoteRow]
  <2>1. ASSUME NEW r \in RemoteIds PROVE remote[r] \in RemoteRow
    <3>1. remote[r] = [exists |-> r <= 2, title |-> IF r = 2 THEN title ELSE NoTitle,
                       changed |-> FALSE, deleted |-> FALSE]
      BY <1>3 DEF NoRemote
    <3>2. (r <= 2) \in BOOLEAN /\ (IF r = 2 THEN title ELSE NoTitle) \in Titles
      OBVIOUS
    <3> QED BY <3>1, <3>2 DEF RemoteRow
  <2> QED BY <1>3, <2>1
<1>6. map \in [Titles -> Tids \cup {None}]
  BY <1>1, <1>3
<1>7. RowTypes
  BY <1>1, <1>4, <1>5 DEF Init, RowTypes
<1>8. ListTypes
  BY DEF Init, ListTypes, Whole, Halves
<1>9. OtherTypes /\ TemporaryBound
  <2>1. /\ temporary = TempBase /\ edits = 0 /\ cuts = 0 /\ kind \in Kinds
        /\ pc = "idle" /\ broken = FALSE
    BY DEF Init
  <2>2. OtherTypes
    BY <1>1, <1>6, <2>1 DEF OtherTypes
  <2> QED BY <2>1, <2>2 DEF TemporaryBound
<1> QED BY <1>7, <1>8, <1>9, TypeParts DEF TypeInv

LEMMA UserTypes ==
  ASSUME TypeInv, User
  PROVE  TypeInv'
<1> USE DEF TypeInv
<1>0. RowTypes /\ ListTypes /\ OtherTypes
  BY TypeParts
<1>1. ASSUME NEW i \in LocalIds, NEW title \in Titles, New(i, title) PROVE TypeInv'
  <2>1. temporary + 2 \in Tids /\ TemporaryBound' /\ edits' \in 0..MaxEdits
    BY <1>0, <1>1 DEF New, Edit, NextTemporary, TemporaryBound, OtherTypes
  <2>2. RowTypes'
    BY <1>0, <1>1 DEF New, RowTypes, OtherTypes, LocalRow
  <2>3. ListTypes' /\ OtherTypes'
    BY <1>0, <1>1, <2>1 DEF New, ListTypes, OtherTypes, NextTemporary, lists, tasks, control
  <2> QED BY <2>1, <2>2, <2>3, TypeParts
<1>2. ASSUME NEW i \in LocalIds,
             Toggle(i) \/ \E title \in Titles : Rename(i, title)
      PROVE  TypeInv'
  <2>1. RowTypes'
    <3>1. /\ local \in [LocalIds -> LocalRow]
          /\ UNCHANGED <<remote, home, homeChanged, rhome, rhomeChanged>>
      BY <1>0, <1>2 DEF Toggle, Rename, RowTypes
    <3>2. ASSUME Toggle(i) PROVE local' \in [LocalIds -> LocalRow]
      <4>1. PICK old \in LocalRow : old = local[i]
        BY <3>1
      <4>2. PICK mark \in BOOLEAN : mark = ~old.deleted
        OBVIOUS
      <4>3. PICK row : row = [old EXCEPT !.deleted = mark, !.changed = TRUE]
        OBVIOUS
      <4>4. row \in LocalRow
        BY <4>3 DEF LocalRow
      <4>5. local' = [local EXCEPT ![i] = row]
        BY <3>2, <4>1, <4>2, <4>3 DEF Toggle
      <4> QED BY <3>1, <4>4, <4>5
    <3>3. ASSUME NEW title \in Titles, Rename(i, title)
          PROVE  local' \in [LocalIds -> LocalRow]
      <4>1. Retitled(local[i], title) \in LocalRow
        BY <3>1, RetitledType
      <4> QED BY <3>1, <3>3, <4>1 DEF Rename
    <3> QED BY <1>0, <1>2, <3>1, <3>2, <3>3 DEF RowTypes
  <2>2. /\ edits' = edits + 1 /\ edits < MaxEdits
        /\ UNCHANGED <<program, cuts, lists, tasks, control>>
    BY <1>2 DEF Toggle, Rename, Edit
  <2> QED BY <1>0, <2>1, <2>2, TypeParts
    DEF TemporaryBound, ListTypes, OtherTypes, program, lists, tasks, control
<1>3. ASSUME NEW t \in Tasks, NEW title \in Titles, Move(t, title) PROVE TypeInv'
  <2>1. RowTypes'
    BY <1>0, <1>3 DEF Move, RowTypes, OtherTypes
  <2>2. /\ edits' = edits + 1 /\ edits < MaxEdits
        /\ UNCHANGED <<program, cuts, lists, tasks, control>>
    BY <1>3 DEF Move, Edit
  <2> QED BY <1>0, <2>1, <2>2, TypeParts
    DEF TemporaryBound, ListTypes, OtherTypes, program, lists, tasks, control
<1>4. CASE Restart \/ Unreachable
  <2>1. PICK old \in [Titles -> Tids \cup {None}] : map' = MapRead(old)
    BY <1>0, <1>4 DEF Restart, Unreachable, OtherTypes
  <2>2. local' = local /\ RowTypes'
    BY <1>0, <1>4 DEF Restart, Unreachable, RowTypes, tables
  <2>3. map' \in [Titles -> Tids \cup {None}]
    BY <1>0, <2>1, <2>2, MapReadType DEF RowTypes
  <2>4. /\ temporary' \in {temporary, TempBase} /\ pc' = pc /\ broken' \in {broken, FALSE}
        /\ UNCHANGED <<kind, bounds, lists, tasks, half>>
    BY <1>4 DEF Restart, Unreachable, control
  <2>5. TemporaryBound'
    BY <1>0, <2>4 DEF TemporaryBound, OtherTypes, bounds
  <2>6. ListTypes'
    BY <1>0, <2>4 DEF ListTypes, lists, tasks
  <2>7. OtherTypes'
    <3>1. temporary' \in Tids
      BY <1>0, <2>4 DEF OtherTypes
    <3> QED BY <1>0, <2>3, <2>4, <3>1 DEF OtherTypes, bounds
  <2> QED BY <2>2, <2>5, <2>6, <2>7, TypeParts
<1> QED BY <1>1, <1>2, <1>3, <1>4 DEF User

LEMMA OthersTypes ==
  ASSUME TypeInv, Others
  PROVE  TypeInv'
<1>0. RowTypes /\ ListTypes /\ OtherTypes /\ TemporaryBound
  BY TypeParts DEF TypeInv
<1>1. /\ edits' = edits + 1 /\ edits < MaxEdits
      /\ UNCHANGED <<program, cuts, lists, tasks, control>>
  BY DEF Others, RemoteNew, RemoteRename, RemoteDelete, RemoteMove, Edit
<1>2. TemporaryBound' /\ ListTypes' /\ OtherTypes'
  BY <1>0, <1>1 DEF TemporaryBound, ListTypes, OtherTypes, program, lists, tasks, control
<1>3. ASSUME NEW r \in RemoteIds, RemoteDelete(r) PROVE RowTypes'
  <2>1. /\ remote' = [remote EXCEPT ![r].deleted = TRUE, ![r].changed = TRUE]
        /\ rhome' = Emptied(rhome, r) /\ rhomeChanged' = rhomeChanged \cup TasksOf(rhome, r)
        /\ UNCHANGED <<local, home, homeChanged>>
    BY <1>3 DEF RemoteDelete, EmptyThere
  <2>2. remote' \in [RemoteIds -> RemoteRow]
    <3>1. remote \in [RemoteIds -> RemoteRow]
      BY <1>0 DEF RowTypes
    <3> QED BY <2>1, <3>1 DEF RemoteRow
  <2>3. rhome' \in [Tasks -> RemoteIds] /\ rhomeChanged' \subseteq Tasks
    <3>1. rhome \in [Tasks -> RemoteIds] /\ rhomeChanged \subseteq Tasks
      BY <1>0 DEF RowTypes
    <3> QED BY <2>1, <3>1, EmptiedType DEF TasksOf
  <2> QED BY <1>0, <2>1, <2>2, <2>3 DEF RowTypes
<1>4. ASSUME NEW r \in RemoteIds, NEW title \in Titles,
             RemoteNew(r, title) \/ RemoteRename(r, title)
      PROVE  RowTypes'
  <2>1. /\ remote \in [RemoteIds -> RemoteRow]
        /\ UNCHANGED <<local, home, homeChanged, rhome, rhomeChanged>>
    BY <1>0, <1>4 DEF RemoteNew, RemoteRename, RowTypes
  <2>2. Retitled(remote[r], title) \in RemoteRow
    BY <2>1, RetitledType
  <2>3. [exists |-> TRUE, title |-> title, changed |-> TRUE, deleted |-> FALSE] \in RemoteRow
    BY DEF RemoteRow
  <2>4. remote' \in [RemoteIds -> RemoteRow]
    BY <1>4, <2>1, <2>2, <2>3 DEF RemoteNew, RemoteRename
  <2> QED BY <1>0, <2>1, <2>4 DEF RowTypes
<1>5. ASSUME NEW t \in Tasks, NEW r \in RemoteIds, RemoteMove(t, r) PROVE RowTypes'
  BY <1>0, <1>5 DEF RemoteMove, RowTypes
<1>6. RowTypes'
  BY <1>3, <1>4, <1>5 DEF Others
<1> QED BY <1>2, <1>6, TypeParts DEF TypeInv

\* A sync that ends, well or not, reads the map again.
LEMMA EndTypes ==
  ASSUME TypeInv, GiveUp \/ Finish, cuts' \in 0..MaxCuts
  PROVE  TypeInv'
<1>0. RowTypes /\ ListTypes /\ OtherTypes /\ TemporaryBound
  BY TypeParts DEF TypeInv
<1>1. RowTypes'
  <2>1. CASE GiveUp
    BY <1>0, <2>1 DEF GiveUp, RowTypes, tables
  <2>2. CASE Finish
    <3>1. /\ local' = [i \in LocalIds |-> [local[i] EXCEPT !.changed = FALSE]]
          /\ remote' = [r \in RemoteIds |-> [remote[r] EXCEPT !.changed = FALSE]]
          /\ homeChanged' = {} /\ rhomeChanged' = {} /\ UNCHANGED <<home, rhome>>
      BY <2>2 DEF Finish
    <3>2. \A i \in LocalIds : [local[i] EXCEPT !.changed = FALSE] \in LocalRow
      BY <1>0 DEF RowTypes, LocalRow
    <3>3. \A r \in RemoteIds : [remote[r] EXCEPT !.changed = FALSE] \in RemoteRow
      BY <1>0 DEF RowTypes, RemoteRow
    <3> QED BY <1>0, <3>1, <3>2, <3>3 DEF RowTypes
  <2> QED BY <2>1, <2>2
<1>2. map' \in [Titles -> Tids \cup {None}]
  <2>1. map' = MapRead(map)
    BY DEF GiveUp, Finish
  <2> QED BY <1>0, <1>1, <2>1, MapReadType DEF RowTypes, OtherTypes
<1>3. ListTypes'
  BY <1>0 DEF GiveUp, Finish, ListTypes, Whole, Halves
<1>4. TemporaryBound' /\ OtherTypes'
  BY <1>0, <1>2 DEF GiveUp, Finish, TemporaryBound, OtherTypes, bounds
<1> QED BY <1>1, <1>3, <1>4, TypeParts DEF TypeInv

\* What the steps of a sync leave alone.
LEMMA SilentTypes ==
  ASSUME TypeInv, Silent
  PROVE  TemporaryBound' /\ OtherTypes'
BY TypeParts DEF TypeInv, Silent, program, bounds, TemporaryBound, OtherTypes

LEMMA SyncTypes ==
  ASSUME TypeInv, Sync
  PROVE  TypeInv'
<1>0. RowTypes /\ ListTypes /\ OtherTypes /\ TemporaryBound
  BY TypeParts DEF TypeInv
<1>a. ASSUME Silent, RowTypes', ListTypes' PROVE TypeInv'
  BY <1>a, SilentTypes, TypeParts DEF TypeInv
<1>b. ASSUME Refuse PROVE TypeInv'
  BY <1>0, <1>b, EndTypes DEF Refuse, OtherTypes
<1>c. /\ \A op \in {"none", "tid", "drop", "dropRow", "eraseThere", "mark", "eraseLocal"},
           i \in LocalIds \cup {None}, r \in RemoteIds \cup {None} :
             /\ [op |-> op, local |-> i, remote |-> r] \in Halves
             /\ [half EXCEPT !.op = op] \in Halves
             /\ [half EXCEPT !.op = op, !.remote = r] \in Halves
      /\ Whole \in Halves
  BY <1>0 DEF ListTypes, Halves, Whole
<1>1. CASE Begin
  <2>1. RowTypes'
    BY <1>0, <1>1 DEF Begin, tables, RowTypes
  <2>2. ListTypes'
    BY <1>0, <1>1 DEF Begin, ListTypes, RowTypes, Locals, Remotes
  <2>3. OtherTypes' /\ TemporaryBound'
    BY <1>0, <1>1 DEF Begin, OtherTypes, TemporaryBound, program, bounds
  <2> QED BY <2>1, <2>2, <2>3, TypeParts DEF TypeInv
<1>2. ASSUME NEW i \in LocalIds, NEW r \in RemoteIds, Pull(r, i), ~Refuse PROVE TypeInv'
  <2>1. /\ local' = [local EXCEPT ![i] =
             IF local[i].exists THEN Retitled(local[i], remote[r].title)
             ELSE [exists |-> TRUE, tid |-> r, title |-> remote[r].title,
                   changed |-> TRUE, deleted |-> FALSE]]
        /\ pulls' = pulls \ {r}
        /\ Silent
        /\ UNCHANGED <<remote, home, homeChanged, rhome, rhomeChanged, half,
                       updated, pushes, drops, erases, tasks>>
    BY <1>2 DEF Pull
  <2>2. local[i] \in LocalRow /\ remote[r].title \in Titles /\ r \in Tids
    BY <1>0 DEF RowTypes, RemoteRow
  <2>3. Retitled(local[i], remote[r].title) \in LocalRow
    BY <2>2, RetitledType
  <2>4. [exists |-> TRUE, tid |-> r, title |-> remote[r].title,
         changed |-> TRUE, deleted |-> FALSE] \in LocalRow
    BY <2>2 DEF LocalRow
  <2>5. local' \in [LocalIds -> LocalRow]
    BY <1>0, <2>1, <2>3, <2>4 DEF RowTypes
  <2>6. RowTypes' /\ ListTypes'
    BY <1>0, <2>1, <2>5 DEF RowTypes, ListTypes, tasks
  <2> QED BY <1>a, <2>1, <2>6
<1>3. ASSUME NEW i \in LocalIds, NEW r \in RemoteIds, PushNew(i, r), ~Refuse PROVE TypeInv'
  <2>1. /\ remote' = [remote EXCEPT ![r] = [exists |-> TRUE,
             title |-> local[i].title, changed |-> TRUE, deleted |-> FALSE]]
        /\ half' = [op |-> "tid", local |-> i, remote |-> r]
        /\ Silent
        /\ UNCHANGED <<local, home, homeChanged, rhome, rhomeChanged, lists, tasks>>
    BY <1>3 DEF PushNew
  <2>2. [exists |-> TRUE, title |-> local[i].title, changed |-> TRUE,
         deleted |-> FALSE] \in RemoteRow
    BY <1>0 DEF RowTypes, LocalRow, RemoteRow
  <2>3. RowTypes'
    BY <1>0, <2>1, <2>2 DEF RowTypes
  <2>4. ListTypes'
    BY <1>0, <1>c, <2>1 DEF ListTypes, lists, tasks
  <2> QED BY <1>a, <2>1, <2>3, <2>4
<1>4. CASE PushTid
  <2> DEFINE i == half.local
  <2>1. /\ local' = [local EXCEPT ![i].tid = half.remote, ![i].changed = TRUE]
        /\ pushes' = pushes \ {i} /\ half' = Whole /\ Silent
        /\ UNCHANGED <<remote, home, homeChanged, rhome, rhomeChanged,
                       updated, pulls, drops, erases, tasks>>
    BY <1>4 DEF PushTid
  <2>2. half.remote \in Tids \cup {None}
    BY <1>0 DEF ListTypes, Halves
  <2>3. local' \in [LocalIds -> LocalRow]
    <3>1. CASE i \in LocalIds
      <4>1. local[i] \in LocalRow /\ local \in [LocalIds -> LocalRow]
        BY <1>0, <3>1 DEF RowTypes
      <4>2. [local[i] EXCEPT !.tid = half.remote, !.changed = TRUE] \in LocalRow
        BY <2>2, <4>1 DEF LocalRow
      <4>3. local' = [local EXCEPT ![i] = [local[i] EXCEPT !.tid = half.remote, !.changed = TRUE]]
        BY <2>1, <3>1, <4>1
      <4> HIDE DEF i
      <4> QED BY <3>1, <4>1, <4>2, <4>3
    <3>2. CASE i \notin LocalIds
      <4>1. local' = local
        BY <1>0, <2>1, <3>2 DEF RowTypes
      <4> QED BY <1>0, <4>1 DEF RowTypes
    <3> QED BY <3>1, <3>2
  <2>4. RowTypes'
    BY <1>0, <2>1, <2>3 DEF RowTypes
  <2>5. ListTypes'
    BY <1>0, <1>c, <2>1 DEF ListTypes, tasks
  <2> QED BY <1>a, <2>1, <2>4, <2>5
<1>5. ASSUME NEW i \in LocalIds, PushUpdate(i), ~Refuse PROVE TypeInv'
  <2> DEFINE r == local[i].tid
  <2>1. /\ r \in RemoteIds
        /\ remote' = [remote EXCEPT ![r] = Retitled(remote[r], local[i].title)]
        /\ pushes' = pushes \ {i} /\ Silent
        /\ UNCHANGED <<local, home, homeChanged, rhome, rhomeChanged, half,
                       updated, pulls, drops, erases, tasks>>
    BY <1>5 DEF PushUpdate, Remotes
  <2>2. Retitled(remote[r], local[i].title) \in RemoteRow
    <3>1. local[i].title \in Titles /\ remote[r] \in RemoteRow
      BY <1>0, <2>1 DEF RowTypes, LocalRow
    <3> QED BY <3>1, RetitledType
  <2>3. RowTypes'
    BY <1>0, <2>1, <2>2 DEF RowTypes
  <2>4. ListTypes'
    BY <1>0, <2>1 DEF ListTypes, tasks
  <2> QED BY <1>a, <2>1, <2>3, <2>4
<1>6. ASSUME NEW i \in LocalIds, PushSkip(i) \/ EraseTasks(i) PROVE TypeInv'
  <2>1. RowTypes'
    BY <1>0, <1>6, EmptiedType
    DEF PushSkip, EraseTasks, EmptyHere, TasksOf, RowTypes, tables
  <2>2. ListTypes'
    <3>1. CASE PushSkip(i)
      BY <1>0, <3>1 DEF PushSkip, ListTypes, tasks
    <3>2. CASE EraseTasks(i)
      BY <1>0, <1>c, <3>2 DEF EraseTasks, ListTypes, lists, tasks
    <3> QED BY <1>6, <3>1, <3>2
  <2> QED BY <1>6, <1>a, <2>1, <2>2 DEF PushSkip, EraseTasks
<1>7. ASSUME NEW t \in Tasks, PullTask(t) \/ PushTask(t), ~Refuse PROVE TypeInv'
  <2>1. RowTypes'
    BY <1>0, <1>7 DEF PullTask, PushTask, RowTypes, Remotes
  <2>2. ListTypes'
    BY <1>0, <1>7 DEF PullTask, PushTask, ListTypes, lists
  <2> QED BY <1>7, <1>a, <2>1, <2>2 DEF PullTask, PushTask
<1>8. ASSUME DropHere \/ EraseThere \/ \E r \in RemoteIds : DropTasks(r) PROVE TypeInv'
  <2>1. /\ UNCHANGED <<local, remote>>
        /\ home' = home \/ \E tid : home' = Emptied(home, tid)
        /\ homeChanged' = homeChanged \/ \E tid : homeChanged' = homeChanged \cup TasksOf(home, tid)
        /\ rhome' = rhome \/ \E tid : rhome' = Emptied(rhome, tid)
        /\ rhomeChanged' = rhomeChanged \/ \E tid : rhomeChanged' = rhomeChanged \cup TasksOf(rhome, tid)
    BY <1>8 DEF DropHere, EraseThere, DropTasks, EmptyHere, EmptyThere
  <2>2. RowTypes'
    <3>1. home' \in [Tasks -> Tids]
      BY <1>0, <2>1, EmptiedType DEF RowTypes
    <3>2. rhome' \in [Tasks -> RemoteIds]
      BY <1>0, <2>1, EmptiedType DEF RowTypes
    <3>3. homeChanged' \subseteq Tasks /\ rhomeChanged' \subseteq Tasks
      BY <1>0, <2>1 DEF TasksOf, RowTypes
    <3> QED BY <1>0, <2>1, <3>1, <3>2, <3>3 DEF RowTypes
  <2>3. half' \in Halves
    <3>1. ASSUME NEW r \in RemoteIds, DropTasks(r) PROVE half' \in Halves
      BY <3>1, <1>c DEF DropTasks
    <3>2. CASE DropHere
      BY <3>2, <1>c DEF DropHere
    <3>3. CASE EraseThere
      <4> DEFINE r == local[half.local].tid
      <4>1. \/ r \in RemoteIds /\ half' = [half EXCEPT !.op = "mark", !.remote = r]
            \/ half' = [half EXCEPT !.op = "eraseLocal"]
        BY <3>3 DEF EraseThere, Remotes
      <4>2. \A q \in RemoteIds : [half EXCEPT !.op = "mark", !.remote = q] \in Halves
        <5>1. half \in Halves
          BY <1>0 DEF ListTypes
        <5> QED BY <5>1 DEF Halves
      <4>3. [half EXCEPT !.op = "eraseLocal"] \in Halves
        BY <1>c
      <4> HIDE DEF r
      <4> QED BY <4>1, <4>2, <4>3
    <3> QED BY <1>8, <3>1, <3>2, <3>3
  <2>4. drops' \subseteq drops /\ UNCHANGED <<updated, pulls, pushes, erases, tasks>>
    BY <1>8 DEF DropHere, EraseThere, DropTasks, lists, tasks
  <2>5. ListTypes'
    BY <1>0, <2>3, <2>4 DEF ListTypes, tasks
  <2> QED BY <1>8, <1>a, <2>2, <2>5 DEF DropHere, EraseThere, DropTasks
<1>9. CASE Drop \/ EraseLocal
  <2>1. NoLocal \in LocalRow
    BY DEF NoLocal, LocalRow
  <2>2. RowTypes'
    BY <1>0, <1>9, <2>1 DEF Drop, EraseLocal, RowTypes
  <2>3. ListTypes'
    <3>1. /\ half' = Whole /\ drops' \subseteq drops /\ erases' \subseteq erases
          /\ UNCHANGED <<updated, pulls, pushes, tasks>>
      BY <1>9 DEF Drop, EraseLocal
    <3> QED BY <1>0, <1>c, <3>1 DEF ListTypes, tasks
  <2> QED BY <1>9, <1>a, <2>2, <2>3 DEF Drop, EraseLocal
<1>10. CASE Mark
  <2> DEFINE r == half.remote
  <2>1. /\ remote' = [remote EXCEPT ![r].changed = @ \/ ~remote[r].deleted,
                                    ![r].deleted = TRUE]
        /\ half' = [half EXCEPT !.op = "eraseLocal"] /\ Silent
        /\ UNCHANGED <<local, home, homeChanged, rhome, rhomeChanged, lists, tasks>>
    BY <1>10 DEF Mark
  <2>2. remote' \in [RemoteIds -> RemoteRow]
    <3>1. CASE r \in RemoteIds
      <4>1. PICK b \in BOOLEAN : b <=> remote[r].changed \/ ~remote[r].deleted
        OBVIOUS
      <4>2. remote[r] \in RemoteRow
        BY <1>0, <3>1 DEF RowTypes
      <4>3. [remote[r] EXCEPT !.changed = b, !.deleted = TRUE] \in RemoteRow
        BY <4>2 DEF RemoteRow
      <4>4. (remote[r].changed \/ ~remote[r].deleted) = b
        BY <4>1, <4>2 DEF RemoteRow
      <4>5. remote' = [remote EXCEPT ![r] = [remote[r] EXCEPT !.changed = b, !.deleted = TRUE]]
        BY <1>0, <2>1, <3>1, <4>4 DEF RowTypes
      <4> QED BY <1>0, <4>3, <4>5 DEF RowTypes
    <3>2. CASE r \notin RemoteIds
      <4>1. remote' = remote
        BY <1>0, <2>1, <3>2 DEF RowTypes
      <4> QED BY <1>0, <4>1 DEF RowTypes
    <3> QED BY <3>1, <3>2
  <2>3. RowTypes'
    BY <1>0, <2>1, <2>2 DEF RowTypes
  <2>4. ListTypes'
    BY <1>0, <1>c, <2>1 DEF ListTypes, lists, tasks
  <2> QED BY <1>a, <2>1, <2>3, <2>4
<1>11. CASE Finish
  BY <1>0, <1>11, EndTypes DEF Finish, OtherTypes, bounds
<1> QED BY <1>b, <1>1, <1>2, <1>3, <1>4, <1>5, <1>6, <1>7, <1>8, <1>9, <1>10, <1>11 DEF Sync

LEMMA TypeInvCorrect == Spec => []TypeInv
<1>1. TypeInv /\ [Next]_vars => TypeInv'
  <2> SUFFICES ASSUME TypeInv, [Next]_vars PROVE TypeInv'
    OBVIOUS
  <2>1. CASE CutShort
    <3>1. GiveUp /\ cuts \in 0..MaxCuts /\ cuts < MaxCuts /\ cuts' = cuts + 1
      BY <2>1 DEF CutShort, TypeInv, TypeOK
    <3> QED BY <3>1, EndTypes
  <2>2. CASE UNCHANGED vars
    BY <2>2 DEF TypeInv, TypeOK, TemporaryBound, vars, tables, program, bounds, lists, tasks, control
  <2> QED BY <2>1, <2>2, UserTypes, OthersTypes, SyncTypes DEF Next
<1> QED BY <1>1, TypeInit, PTL DEF Spec

\* Every variable keeps its type, for any number of rows, writes and syncs cut short.
THEOREM TypeCorrect == Spec => []TypeOK
BY TypeInvCorrect, PTL DEF TypeInv

-----------------------------------------------------------------------------
(* Tids.  A row of the server gets its id before the client's row gets its *)
(* tid, and in between no other row of the client may have it.             *)

TiesInv ==
  /\ TidsDiffer
  /\ pulls \subseteq Remotes
  /\ half # Whole => pc = "apply"
  /\ half.op = "tid" => half.remote \in Remotes /\ Copies(half.remote) = {}

LEMMA TiesInit == Init => TiesInv
<1> SUFFICES ASSUME Init PROVE TiesInv
  OBVIOUS
<1>1. PICK title \in Titles :
        /\ local = [i \in LocalIds |->
             IF i = 1 THEN [NoLocal EXCEPT !.exists = TRUE, !.tid = Default]
             ELSE IF i = 2
             THEN [NoLocal EXCEPT !.exists = TRUE, !.tid = 2, !.title = title]
             ELSE NoLocal]
        /\ remote = [r \in RemoteIds |->
             [NoRemote EXCEPT !.exists = r <= 2,
                              !.title = IF r = 2 THEN title ELSE NoTitle]]
  BY DEF Init
<1>2. \A i \in Locals : i \in {1, 2} /\ local[i].tid = i
  BY <1>1 DEF Locals, NoLocal
<1>3. ASSUME NEW r \in {1, 2} PROVE r \in Remotes
  <2>1. r \in RemoteIds /\ r <= 2
    OBVIOUS
  <2>2. remote[r] = [exists |-> r <= 2, title |-> IF r = 2 THEN title ELSE NoTitle,
                     changed |-> FALSE, deleted |-> FALSE]
    BY <1>1, <2>1 DEF NoRemote
  <2>3. remote[r].exists = (r <= 2)
    BY <2>2
  <2>4. remote[r].exists
    BY <2>1, <2>3
  <2> QED BY <2>1, <2>4 DEF Remotes
<1>4. TidsDiffer
  BY <1>2, <1>3 DEF TidsDiffer
<1> QED BY <1>4 DEF Init, TiesInv, Whole

\* The rows of the client keep their tids, or go; those of the server stay.
TidsKept    == \A i \in LocalIds : local'[i].exists =>
                                     local[i].exists /\ local'[i].tid = local[i].tid
RemotesKept == \A r \in RemoteIds : remote[r].exists => remote'[r].exists

LEMMA KeptTies ==
  ASSUME TiesInv, TidsKept, RemotesKept
  PROVE  /\ TidsDiffer' /\ Remotes \subseteq Remotes'
         /\ \A r \in RemoteIds : Copies(r) = {} => Copies(r)' = {}
<1>1. \A i \in Locals' : i \in Locals /\ local'[i].tid = local[i].tid
  BY DEF TidsKept, Locals
<1>2. Remotes \subseteq Remotes'
  BY DEF RemotesKept, Remotes
<1>3. TidsDiffer'
  BY <1>1, <1>2 DEF TiesInv, TidsDiffer
<1>4. ASSUME NEW r \in RemoteIds, Copies(r) = {} PROVE Copies(r)' = {}
  BY <1>1, <1>4 DEF Copies
<1> QED BY <1>2, <1>3, <1>4

\* One row is given a tid that no other row has.
LEMMA GivenTies ==
  ASSUME TiesInv, RemotesKept, NEW i \in LocalIds, NEW tid,
         \A j \in LocalIds \ {i} : local'[j] = local[j],
         local'[i].tid = tid, \A j \in Locals \ {i} : local[j].tid # tid,
         tid < TempBase => tid \in Remotes'
  PROVE  TidsDiffer'
<1>1. \A j \in Locals' : j # i => j \in Locals /\ local'[j].tid = local[j].tid
  BY DEF Locals
<1>2. Remotes \subseteq Remotes'
  BY DEF RemotesKept, Remotes
<1> QED BY <1>1, <1>2 DEF TiesInv, TidsDiffer

LEMMA UserTies ==
  ASSUME TypeInv, TiesInv, User
  PROVE  TiesInv'
<1>0. local \in [LocalIds -> LocalRow]
  BY DEF TypeInv, TypeOK
<1>1. UNCHANGED <<pc, pulls, half, remote>>
  BY DEF User, New, Toggle, Rename, Move, Restart, Unreachable, control, lists, tables
<1>2. half = Whole /\ half.op # "tid" /\ pulls \subseteq Remotes /\ RemotesKept
  <2>1. pc = "idle"
    BY DEF User, New, Toggle, Rename, Move, Restart, Unreachable, Edit
  <2> QED BY <1>1, <2>1 DEF TiesInv, Whole, RemotesKept
<1>3. TidsDiffer'
  <2>1. ASSUME NEW i \in LocalIds, NEW title \in Titles, New(i, title) PROVE TidsDiffer'
    <3>1. /\ temporary >= TempBase
          /\ \A j \in Locals : local[j].tid # temporary
      BY <2>1 DEF New, TemporaryFree, TypeInv, TemporaryBound, TypeOK
    <3>2. /\ local'[i].tid = temporary
          /\ \A j \in LocalIds \ {i} : local'[j] = local[j]
      BY <1>0, <2>1 DEF New
    <3>3. temporary < TempBase => temporary \in Remotes'
      BY <3>1 DEF TypeInv, TypeOK
    <3> QED BY <1>2, <3>1, <3>2, <3>3, GivenTies
  <2>2. ASSUME NEW i \in LocalIds, Toggle(i) \/ \E title \in Titles : Rename(i, title)
        PROVE  TidsDiffer'
    <3>1. TidsKept
      <4>1. CASE Toggle(i)
        BY <1>0, <4>1 DEF Toggle, TidsKept
      <4>2. ASSUME NEW title \in Titles, Rename(i, title) PROVE TidsKept
        <5>1. local' = [local EXCEPT ![i] = Retitled(local[i], title)] /\ local[i].exists
          BY <4>2 DEF Rename, Locals
        <5> QED BY <1>0, <5>1, RetitledKeeps DEF TidsKept
      <4> QED BY <2>2, <4>1, <4>2
    <3> QED BY <1>2, <3>1, KeptTies
  <2>3. ASSUME local' = local PROVE TidsDiffer'
    BY <1>2, <2>3, KeptTies DEF TidsKept
  <2> QED BY <2>1, <2>2, <2>3 DEF User, Move, Restart, Unreachable, tables
<1> QED BY <1>1, <1>2, <1>3 DEF TiesInv, Remotes, Whole

LEMMA OthersTies ==
  ASSUME TypeInv, TiesInv, Others
  PROVE  TiesInv'
<1>0. remote \in [RemoteIds -> RemoteRow]
  BY DEF TypeInv, TypeOK
<1>1. UNCHANGED <<pc, pulls, half, local>>
  BY DEF Others, RemoteNew, RemoteRename, RemoteDelete, RemoteMove, control, lists
<1>2. half = Whole /\ half.op # "tid" /\ pulls \subseteq Remotes /\ TidsKept
  <2>1. pc = "idle"
    BY DEF Others, RemoteNew, RemoteRename, RemoteDelete, RemoteMove, Edit
  <2> QED BY <1>1, <2>1 DEF TiesInv, Whole, TidsKept
<1>3. RemotesKept
  <2>1. ASSUME NEW r \in RemoteIds, NEW title \in Titles, RemoteRename(r, title)
        PROVE  RemotesKept
    <3>1. remote' = [remote EXCEPT ![r] = Retitled(remote[r], title)]
      BY <2>1 DEF RemoteRename
    <3> QED BY <1>0, <3>1, RetitledKeeps DEF RemotesKept
  <2>2. ASSUME NEW r \in RemoteIds, RemoteDelete(r) PROVE RemotesKept
    BY <1>0, <2>2 DEF RemoteDelete, RemotesKept
  <2>3. ASSUME NEW r \in RemoteIds, NEW title \in Titles, RemoteNew(r, title)
        PROVE  RemotesKept
    BY <1>0, <2>3 DEF RemoteNew, RemotesKept
  <2>4. ASSUME NEW r \in RemoteIds, NEW t \in Tasks, RemoteMove(t, r) PROVE RemotesKept
    BY <2>4 DEF RemoteMove, RemotesKept
  <2> QED BY <2>1, <2>2, <2>3, <2>4 DEF Others
<1>4. TidsDiffer' /\ Remotes \subseteq Remotes'
  BY <1>2, <1>3, KeptTies
<1> QED BY <1>1, <1>2, <1>4 DEF TiesInv, Whole

LEMMA EndTies ==
  ASSUME TypeInv, TiesInv, GiveUp \/ Finish
  PROVE  TiesInv'
<1>0. local \in [LocalIds -> LocalRow] /\ remote \in [RemoteIds -> RemoteRow]
  BY DEF TypeInv, TypeOK
<1>1. half' = Whole /\ pulls' = {}
  BY DEF GiveUp, Finish, Applying, TasksDone
<1>2. TidsKept /\ RemotesKept
  <2>1. CASE GiveUp
    BY <2>1 DEF GiveUp, tables, TidsKept, RemotesKept
  <2>2. CASE Finish
    <3>1. /\ local' = [i \in LocalIds |-> [local[i] EXCEPT !.changed = FALSE]]
          /\ remote' = [r \in RemoteIds |-> [remote[r] EXCEPT !.changed = FALSE]]
      BY <2>2 DEF Finish
    <3>2. TidsKept
      BY <1>0, <3>1 DEF TidsKept, LocalRow
    <3>3. RemotesKept
      BY <1>0, <3>1 DEF RemotesKept, RemoteRow
    <3> QED BY <3>2, <3>3
  <2> QED BY <2>1, <2>2
<1> QED BY <1>1, <1>2, KeptTies DEF TiesInv, Whole

LEMMA SyncTies ==
  ASSUME TypeInv, TiesInv, Sync
  PROVE  TiesInv'
<1>0. /\ local \in [LocalIds -> LocalRow] /\ remote \in [RemoteIds -> RemoteRow]
      /\ pulls \subseteq Remotes
  BY DEF TypeInv, TypeOK, TiesInv
<1>a. ASSUME TidsKept, RemotesKept, pulls' \subseteq pulls, pc' = pc, pc = "apply",
             half'.op = "tid" => half' = half
      PROVE  TiesInv'
  <2>1. TidsDiffer' /\ Remotes \subseteq Remotes'
    BY <1>a, KeptTies
  <2>2. half.op = "tid" => half.remote \in RemoteIds /\ Copies(half.remote) = {}
    BY DEF TiesInv, Remotes
  <2>3. ASSUME half.op = "tid", half' = half PROVE (Copies(half.remote) = {})'
    <3>1. \A r \in RemoteIds : Copies(r) = {} => Copies(r)' = {}
      BY <1>a, KeptTies
    <3>2. PICK r \in RemoteIds : r = half.remote /\ Copies(r) = {}
      BY <2>2, <2>3
    <3>3. Copies(r)' = {}
      BY <3>1, <3>2
    <3> QED BY <2>3, <3>2, <3>3 DEF Copies
  <2> QED BY <1>a, <2>1, <2>2, <2>3 DEF TiesInv
<1>b. ASSUME Refuse PROVE TiesInv'
  BY <1>b, EndTies DEF Refuse
<1>1. CASE Begin
  <2>1. pulls' \subseteq Remotes /\ half = Whole /\ pc' = "apply"
        /\ UNCHANGED <<local, remote, half>>
    BY <1>1 DEF Begin, TiesInv, tables
  <2>2. TidsKept /\ RemotesKept
    BY <2>1 DEF TidsKept, RemotesKept
  <2> QED BY <2>1, <2>2, KeptTies DEF TiesInv, Whole
<1>2. ASSUME NEW i \in LocalIds, NEW r \in RemoteIds, Pull(r, i), ~Refuse PROVE TiesInv'
  <2>1. /\ local' = [local EXCEPT ![i] =
             IF local[i].exists THEN Retitled(local[i], remote[r].title)
             ELSE [exists |-> TRUE, tid |-> r, title |-> remote[r].title,
                   changed |-> TRUE, deleted |-> FALSE]]
        /\ pulls' = pulls \ {r} /\ r \in Remotes /\ pc' = "apply"
        /\ half = Whole /\ UNCHANGED <<remote, half>>
        /\ IF Copies(r) = {} THEN NextLocal(i) ELSE i \in Copies(r)
    BY <1>0, <1>2 DEF Pull, Silent, Applying
  <2>2. local'[i].tid = r /\ \A j \in LocalIds \ {i} : local'[j] = local[j]
    BY <1>0, <2>1 DEF Copies, Locals, NextLocal, Retitled, LocalRow
  <2>3. \A j \in Locals \ {i} : local[j].tid # r
    BY <2>1 DEF Copies, TiesInv, TidsDiffer
  <2>4. RemotesKept /\ Remotes' = Remotes
    BY <2>1 DEF RemotesKept, Remotes
  <2>5. TidsDiffer'
    BY <2>1, <2>2, <2>3, <2>4, GivenTies
  <2> QED BY <1>0, <2>1, <2>4, <2>5 DEF TiesInv, Whole
<1>3. ASSUME NEW i \in LocalIds, NEW r \in RemoteIds, PushNew(i, r), ~Refuse PROVE TiesInv'
  <2>1. /\ remote' = [remote EXCEPT ![r] = [exists |-> TRUE,
             title |-> local[i].title, changed |-> TRUE, deleted |-> FALSE]]
        /\ half' = [op |-> "tid", local |-> i, remote |-> r]
        /\ r \notin Remotes /\ UNCHANGED <<local, pulls>> /\ pc' = "apply"
    BY <1>3 DEF PushNew, NextRemote, Silent, Pushing, Applying, lists
  <2>2. TidsKept /\ RemotesKept /\ r \in Remotes'
    BY <1>0, <2>1 DEF TidsKept, RemotesKept, Remotes
  <2>3. TidsDiffer' /\ Remotes \subseteq Remotes'
    BY <2>2, KeptTies
  <2>4. Copies(r) = {}
    BY <2>1 DEF Copies, TiesInv, TidsDiffer
  <2>5. Copies(r)' = {}
    BY <2>2, <2>4, KeptTies
  <2> QED BY <1>0, <2>1, <2>2, <2>3, <2>5 DEF TiesInv
<1>4. CASE PushTid
  <2> DEFINE i == half.local
             r == half.remote
  <2>1. /\ local' = [local EXCEPT ![i].tid = r, ![i].changed = TRUE]
        /\ half' = Whole /\ UNCHANGED <<remote, pulls>> /\ r \in Remotes /\ Copies(r) = {}
    BY <1>4 DEF PushTid, TiesInv
  <2>2. RemotesKept /\ Remotes' = Remotes
    BY <2>1 DEF RemotesKept, Remotes
  <2>3. TidsDiffer'
    <3>1. CASE i \in LocalIds
      <4>1. local'[i].tid = r /\ \A j \in LocalIds \ {i} : local'[j] = local[j]
        <5>1. local \in [LocalIds -> LocalRow] /\ local[i] \in LocalRow
          BY <1>0, <3>1
        <5>2. local' = [local EXCEPT ![i] = [local[i] EXCEPT !.tid = r, !.changed = TRUE]]
          BY <2>1, <3>1, <5>1
        <5>3. [local[i] EXCEPT !.tid = r, !.changed = TRUE].tid = r
          BY <5>1 DEF LocalRow
        <5> HIDE DEF i, r
        <5> QED BY <3>1, <5>1, <5>2, <5>3
      <4>2. \A j \in Locals \ {i} : local[j].tid # r
        BY <2>1 DEF Copies
      <4>3. r \in Remotes'
        BY <2>1, <2>2
      <4> HIDE DEF i, r
      <4> QED BY <2>2, <3>1, <4>1, <4>2, <4>3, GivenTies
    <3>2. CASE i \notin LocalIds
      <4>1. TidsKept
        BY <1>0, <2>1, <3>2 DEF TidsKept
      <4> QED BY <2>2, <4>1, KeptTies
    <3> QED BY <3>1, <3>2
  <2> QED BY <1>0, <2>1, <2>2, <2>3 DEF TiesInv, Whole
<1>5. ASSUME NEW i \in LocalIds, PushUpdate(i), ~Refuse PROVE TiesInv'
  <2>1. TidsKept /\ RemotesKept
    <3> DEFINE r == local[i].tid
    <3>1. /\ r \in RemoteIds /\ local' = local
          /\ remote' = [remote EXCEPT ![r] = Retitled(remote[r], local[i].title)]
      BY <1>5 DEF PushUpdate, Remotes
    <3>2. remote[r] \in RemoteRow /\ local[i].title \in Titles
      BY <1>0, <3>1 DEF LocalRow
    <3>3. remote'[r].exists = remote[r].exists
      BY <1>0, <3>1, <3>2, RetitledKeeps
    <3> HIDE DEF r
    <3> QED BY <1>0, <3>1, <3>3 DEF TidsKept, RemotesKept
  <2> QED BY <1>5, <1>a, <2>1 DEF PushUpdate, Pushing, Applying, Silent
<1>6. ASSUME UNCHANGED <<local, remote, pulls>>, pc = "apply", pc' = pc, half'.op # "tid"
      PROVE  TiesInv'
  BY <1>6, <1>a DEF TidsKept, RemotesKept
<1>7. ASSUME NEW i \in LocalIds, PushSkip(i) \/ EraseTasks(i) PROVE TiesInv'
  BY <1>6, <1>7 DEF PushSkip, EraseTasks, Pushing, Applying, Silent, Whole, lists, tables
<1>8. ASSUME NEW t \in Tasks, PullTask(t) \/ PushTask(t), ~Refuse PROVE TiesInv'
  BY <1>6, <1>8 DEF PullTask, PushTask, Applying, Silent, Whole, lists
<1>9. CASE DropHere \/ EraseThere \/ \E r \in RemoteIds : DropTasks(r)
  <2>1. UNCHANGED <<local, remote, pulls>> /\ pc = "apply" /\ pc' = pc
    BY <1>9 DEF DropHere, EraseThere, DropTasks, Applying, Silent, lists
  <2>2. half'.op # "tid"
    <3>1. CASE DropHere
      BY <3>1 DEF DropHere, Whole, TypeInv, TypeOK
    <3>2. CASE EraseThere
      <4>1. \/ half' = [half EXCEPT !.op = "mark", !.remote = local[half.local].tid]
            \/ half' = [half EXCEPT !.op = "eraseLocal"]
        BY <3>2 DEF EraseThere
      <4> QED BY <4>1 DEF TypeInv, TypeOK
    <3>3. ASSUME NEW r \in RemoteIds, DropTasks(r) PROVE half'.op # "tid"
      BY <3>3 DEF DropTasks
    <3> QED BY <1>9, <3>1, <3>2, <3>3
  <2> QED BY <1>6, <2>1, <2>2
<1>10. CASE Drop \/ EraseLocal
  <2>1. TidsKept
    BY <1>0, <1>10 DEF Drop, EraseLocal, TidsKept, NoLocal
  <2>2. RemotesKept /\ half'.op # "tid"
    BY <1>10 DEF Drop, EraseLocal, RemotesKept, Whole
  <2> QED BY <1>10, <1>a, <2>1, <2>2 DEF Drop, EraseLocal, Silent
<1>11. CASE Mark
  <2>1. TidsKept /\ RemotesKept
    BY <1>0, <1>11 DEF Mark, TidsKept, RemotesKept
  <2>2. half'.op # "tid"
    BY <1>11 DEF Mark, TypeInv, TypeOK
  <2> QED BY <1>11, <1>a, <2>1, <2>2 DEF Mark, Silent, lists
<1>12. CASE Finish
  BY <1>12, EndTies
<1> QED BY <1>b, <1>1, <1>2, <1>3, <1>4, <1>5, <1>7, <1>8, <1>9, <1>10, <1>11, <1>12 DEF Sync

\* The tids of the client's containers are unique, and those below the temporary ones
\* are ids of the server, whatever is written and cut short.
THEOREM TidsCorrect == Spec => []TidsDiffer
<1>1. TypeInv /\ TiesInv /\ [Next]_vars => TiesInv'
  <2> SUFFICES ASSUME TypeInv, TiesInv, [Next]_vars PROVE TiesInv'
    OBVIOUS
  <2>1. CASE CutShort
    BY <2>1, EndTies DEF CutShort
  <2>2. CASE UNCHANGED vars
    BY <2>2 DEF vars, tables, lists, control, TiesInv, TidsDiffer, Locals, Remotes, Copies, Whole
  <2> QED BY <2>1, <2>2, UserTies, OthersTies, SyncTies DEF Next
<1> QED BY <1>1, TiesInit, TypeInvCorrect, PTL DEF Spec, TiesInv

-----------------------------------------------------------------------------
(* The map of titles                                                       *)

TitlesDiffer == kind = "context" =>
                  \A i, j \in Locals : i # j => local[i].title # local[j].title

LEMMA MapInit == Init => TitlesDiffer /\ MapKnowsContexts
<1> SUFFICES ASSUME Init PROVE TitlesDiffer /\ MapKnowsContexts
  OBVIOUS
<1>1. PICK title \in Titles \ {NoTitle} :
        /\ local = [i \in LocalIds |->
             IF i = 1 THEN [NoLocal EXCEPT !.exists = TRUE, !.tid = Default]
             ELSE IF i = 2
             THEN [NoLocal EXCEPT !.exists = TRUE, !.tid = 2, !.title = title]
             ELSE NoLocal]
        /\ map = [n \in Titles |-> IF n = NoTitle THEN Default
                                   ELSE IF n = title THEN 2 ELSE None]
  BY DEF Init
<1>2. \A i \in Locals : \/ i = 1 /\ local[i].tid = 1 /\ local[i].title = NoTitle
                        \/ i = 2 /\ local[i].tid = 2 /\ local[i].title = title
  BY <1>1 DEF Locals, NoLocal
<1>3. TitlesDiffer
  BY <1>2 DEF TitlesDiffer
<1>4. map[NoTitle] = 1 /\ map[title] = 2
  BY <1>1
<1>5. MapKnowsContexts
  BY <1>2, <1>4 DEF MapKnowsContexts
<1> QED BY <1>3, <1>5

\* The rows of the client keep their titles, or go.
TitlesKept == /\ kind' = kind
              /\ \A i \in LocalIds : local'[i].exists =>
                   local[i].exists /\ local'[i].title = local[i].title

LEMMA KeptTitles ==
  ASSUME TitlesDiffer, TitlesKept
  PROVE  TitlesDiffer'
BY DEF TitlesDiffer, TitlesKept, Locals

\* One row is given a title that is free.
LEMMA GivenTitle ==
  ASSUME TitlesDiffer, kind' = kind, NEW i \in LocalIds, NEW title,
         LocalFree(title, i), local'[i].title = title,
         \A j \in LocalIds \ {i} : local'[j] = local[j]
  PROVE  TitlesDiffer'
BY DEF TitlesDiffer, LocalFree, Locals

\* A map that has just been read is right.
LEMMA ReadKnows ==
  ASSUME NEW old \in [Titles -> Tids \cup {None}], map' = MapRead(old), TypeOK',
         TitlesDiffer'
  PROVE  MapKnowsContexts'
<1> SUFFICES ASSUME kind' = "context", NEW i \in Locals'
             PROVE  map'[local'[i].title] = local'[i].tid
  BY DEF MapKnowsContexts
<1>1. i \in LocalIds /\ local'[i].exists /\ local'[i].title \in Titles
  BY DEF Locals, TypeOK, LocalRow
<1>2. PICK j \in LocalIds : /\ local'[j].exists /\ local'[j].title = local'[i].title
                            /\ MapRead(old)[local'[i].title] = local'[j].tid
  BY <1>1, MapReadFinds
<1>3. i = j
  BY <1>1, <1>2 DEF TitlesDiffer, Locals
<1> QED BY <1>2, <1>3

LEMMA UserMap ==
  ASSUME TypeInv, TypeOK', TitlesDiffer, MapKnowsContexts, User \/ Others
  PROVE  TitlesDiffer' /\ MapKnowsContexts'
<1>0. /\ local \in [LocalIds -> LocalRow] /\ kind' = kind /\ pc' = pc /\ pc = "idle"
  BY DEF TypeInv, TypeOK, User, New, Toggle, Rename, Move, Restart, Unreachable, control, tables,
         Others, RemoteNew, RemoteRename, RemoteDelete, RemoteMove, program, Edit
<1>1. ASSUME NEW i \in LocalIds, NEW title \in Titles, New(i, title) \/ Rename(i, title)
      PROVE  TitlesDiffer' /\ MapKnowsContexts'
  <2>1. /\ LocalFree(title, i) /\ map' = map
        /\ \A j \in LocalIds \ {i} : local'[j] = local[j]
        /\ local'[i].title = title /\ local'[i].changed
    <3>1. CASE New(i, title)
      BY <1>0, <3>1 DEF New
    <3>2. CASE Rename(i, title)
      <4>1. /\ local' = [local EXCEPT ![i] = Retitled(local[i], title)]
            /\ local[i].title # title /\ LocalFree(title, i) /\ map' = map
        BY <3>2 DEF Rename, program
      <4>2. Retitled(local[i], title).changed /\ Retitled(local[i], title).title = title
        BY <1>0, <4>1 DEF Retitled, LocalRow
      <4> QED BY <1>0, <4>1, <4>2
    <3> QED BY <1>1, <3>1, <3>2
  <2>2. TitlesDiffer'
    BY <1>0, <2>1, GivenTitle
  <2>3. MapKnowsContexts'
    BY <1>0, <2>1 DEF MapKnowsContexts, Locals
  <2> QED BY <2>2, <2>3
<1>2. ASSUME NEW i \in LocalIds, Toggle(i) PROVE TitlesDiffer' /\ MapKnowsContexts'
  <2>1. /\ i \in Locals /\ map' = map
        /\ \A j \in LocalIds \ {i} : local'[j] = local[j]
        /\ local'[i].title = local[i].title /\ local'[i].changed
    BY <1>0, <1>2 DEF Toggle, LocalRow, program
  <2>2. TitlesDiffer'
    BY <1>0, <2>1, KeptTitles DEF TitlesKept, Locals
  <2>3. MapKnowsContexts'
    BY <1>0, <2>1 DEF MapKnowsContexts, Locals
  <2> QED BY <2>2, <2>3
<1>3. ASSUME local' = local, map' = map PROVE TitlesDiffer' /\ MapKnowsContexts'
  BY <1>0, <1>3 DEF TitlesDiffer, MapKnowsContexts, Locals
<1>4. CASE Restart \/ Unreachable
  <2>1. PICK old \in [Titles -> Tids \cup {None}] : map' = MapRead(old)
    BY <1>4 DEF Restart, Unreachable, TypeInv, TypeOK
  <2>2. TitlesDiffer'
    BY <1>0, <1>4 DEF Restart, Unreachable, tables, TitlesDiffer, Locals
  <2> QED BY <2>1, <2>2, ReadKnows
<1>5. CASE Others \/ \E t \in Tasks, n \in Titles : Move(t, n)
  BY <1>3, <1>5 DEF Others, RemoteNew, RemoteRename, RemoteDelete, RemoteMove, Move, program
<1> QED BY <1>1, <1>2, <1>4, <1>5 DEF User

LEMMA EndMap ==
  ASSUME TypeInv, TypeOK', TitlesDiffer, GiveUp \/ Finish
  PROVE  TitlesDiffer' /\ MapKnowsContexts'
<1>1. TitlesKept
  <2>1. CASE GiveUp
    BY <2>1 DEF GiveUp, tables, TitlesKept
  <2>2. CASE Finish
    <3>1. /\ local' = [i \in LocalIds |-> [local[i] EXCEPT !.changed = FALSE]] /\ kind' = kind
      BY <2>2 DEF Finish
    <3>2. local \in [LocalIds -> LocalRow]
      BY DEF TypeInv, TypeOK
    <3>3. \A i \in LocalIds : /\ local'[i].exists = local[i].exists
                              /\ local'[i].title = local[i].title
      BY <3>1, <3>2 DEF LocalRow
    <3> QED BY <3>1, <3>3 DEF TitlesKept
  <2> QED BY <2>1, <2>2
<1>2. map' = MapRead(map) /\ map \in [Titles -> Tids \cup {None}]
  BY DEF GiveUp, Finish, TypeInv, TypeOK
<1> QED BY <1>1, <1>2, KeptTitles, ReadKnows

LEMMA SyncMap ==
  ASSUME TypeInv, TypeOK', TitlesDiffer, Sync
  PROVE  TitlesDiffer' /\ MapKnowsContexts'
<1>0. local \in [LocalIds -> LocalRow] /\ remote \in [RemoteIds -> RemoteRow]
  BY DEF TypeInv, TypeOK
<1>a. ASSUME TitlesDiffer', pc' = "apply" PROVE TitlesDiffer' /\ MapKnowsContexts'
  BY <1>a DEF MapKnowsContexts
<1>b. ASSUME TitlesKept, pc' = "apply" PROVE TitlesDiffer' /\ MapKnowsContexts'
  BY <1>a, <1>b, KeptTitles
<1>1. CASE Refuse \/ Finish
  BY <1>1, EndMap DEF Refuse
<1>2. ASSUME NEW i \in LocalIds, NEW r \in RemoteIds, Pull(r, i), ~Refuse
      PROVE  TitlesDiffer' /\ MapKnowsContexts'
  <2>1. /\ local' = [local EXCEPT ![i] =
             IF local[i].exists THEN Retitled(local[i], remote[r].title)
             ELSE [exists |-> TRUE, tid |-> r, title |-> remote[r].title,
                   changed |-> TRUE, deleted |-> FALSE]]
        /\ LocalFree(remote[r].title, i) /\ pc' = "apply" /\ kind' = kind
    BY <1>2 DEF Pull, Silent, Applying, program
  <2>2. local[i] \in LocalRow /\ remote[r].title \in Titles
    BY <1>0 DEF RemoteRow
  <2>3. local'[i].title = remote[r].title /\ \A j \in LocalIds \ {i} : local'[j] = local[j]
    BY <1>0, <2>1, <2>2, RetitledKeeps
  <2> QED BY <1>a, <2>1, <2>3, GivenTitle
<1>3. CASE PushTid
  <2>1. /\ local' = [local EXCEPT ![half.local].tid = half.remote, ![half.local].changed = TRUE]
        /\ pc' = "apply" /\ kind' = kind
    BY <1>3 DEF PushTid, Silent, program
  <2>2. TitlesKept
    <3>1. CASE half.local \in LocalIds
      BY <1>0, <2>1, <3>1 DEF TitlesKept, LocalRow
    <3>2. CASE half.local \notin LocalIds
      BY <1>0, <2>1, <3>2 DEF TitlesKept
    <3> QED BY <3>1, <3>2
  <2> QED BY <1>b, <2>1, <2>2
<1>4. CASE Drop \/ EraseLocal
  <2>1. TitlesKept
    BY <1>0, <1>4 DEF Drop, EraseLocal, TitlesKept, NoLocal, Silent, program
  <2> QED BY <1>4, <1>b, <2>1 DEF Drop, EraseLocal, Silent
<1>5. ASSUME UNCHANGED <<local, kind>>, pc' = "apply" PROVE TitlesDiffer' /\ MapKnowsContexts'
  BY <1>5, <1>b DEF TitlesKept
<1>6. CASE Begin \/ DropHere \/ EraseThere \/ Mark \/ \E r \in RemoteIds : DropTasks(r)
  BY <1>5, <1>6 DEF Begin, DropHere, EraseThere, Mark, DropTasks, Applying, Silent, program, tables
<1>7. ASSUME NEW i \in LocalIds, ~Refuse, \/ PushUpdate(i) \/ PushSkip(i) \/ EraseTasks(i)
                                          \/ \E r \in RemoteIds : PushNew(i, r)
      PROVE  TitlesDiffer' /\ MapKnowsContexts'
  BY <1>5, <1>7 DEF PushUpdate, PushSkip, PushNew, EraseTasks, Pushing, Applying, Silent, program, tables
<1>8. ASSUME NEW t \in Tasks, PullTask(t) \/ PushTask(t), ~Refuse
      PROVE  TitlesDiffer' /\ MapKnowsContexts'
  BY <1>5, <1>8 DEF PullTask, PushTask, Applying, Silent, program
<1> QED BY <1>1, <1>2, <1>3, <1>4, <1>6, <1>7, <1>8 DEF Sync

\* Between syncs the map has the right tid for every context that waits for nothing,
\* although no write of a context tells it, since every sync ends by reading it.
THEOREM MapCorrect == Spec => []MapKnowsContexts
<1>1. /\ TypeInv /\ TypeOK' /\ TitlesDiffer /\ MapKnowsContexts /\ [Next]_vars
      => TitlesDiffer' /\ MapKnowsContexts'
  <2> SUFFICES ASSUME TypeInv, TypeOK', TitlesDiffer, MapKnowsContexts, [Next]_vars
               PROVE  TitlesDiffer' /\ MapKnowsContexts'
    OBVIOUS
  <2>1. CASE CutShort
    BY <2>1, EndMap DEF CutShort
  <2>2. CASE UNCHANGED vars
    BY <2>2 DEF vars, tables, program, control, TitlesDiffer, MapKnowsContexts, Locals
  <2> QED BY <2>1, <2>2, UserMap, SyncMap DEF Next
<1> QED BY <1>1, MapInit, TypeInvCorrect, PTL DEF Spec, TypeInv

-----------------------------------------------------------------------------
(* What a cut leaves: it holds at every step, so also when a sync ends.    *)

\* The default container is never deleted, on either side.
DefaultStays ==
  /\ local[Default].exists /\ local[Default].tid = Default /\ ~local[Default].deleted
  /\ remote[Default].exists /\ ~remote[Default].deleted

\* A row that is gone has no tid.
NoTid == \A i \in LocalIds \ Locals : local[i].tid = None

\* A row that is not marked is in step.
RowsInStep ==
  /\ \A r \in Remotes : ~remote[r].changed =>
       IF remote[r].deleted THEN Copies(r) = {}
       ELSE \E i \in Copies(r) : local[i].changed \/ local[i].title = remote[r].title
  /\ \A i \in Locals : ~local[i].changed => local[i].tid \in Remotes

\* A tid that the client may meet: of one of its containers, of one deleted on the
\* server, or temporary.
Known(tid) == \/ Copies(tid) # {}
              \/ tid >= TempBase
              \/ tid \in Remotes /\ remote[tid].deleted

Places == /\ \A t \in Tasks : Known(home[t])
          /\ \A n \in Titles : map[n] # None => Known(map[n])

\* A task in a container that both sides have deleted.
Stray(t) == /\ home[t] \in Remotes /\ remote[home[t]].deleted /\ Copies(home[t]) = {}

PlacesInStep ==
  /\ \A t \in Tasks : rhome[t] \in Remotes
  /\ \A t \in Tasks \ (homeChanged \cup rhomeChanged) : home[t] = rhome[t] \/ Stray(t)

-----------------------------------------------------------------------------
(* What a sync has still to do                                             *)

\* The lists hold rows that exist, and those of the last loops wait for the others.
Lists ==
  /\ updated \subseteq Remotes /\ drops \subseteq Remotes
  /\ pushes \subseteq Locals /\ Default \notin erases
  /\ pulls \subseteq updated
  /\ \A r \in drops : remote[r].deleted
  /\ \A r \in pulls : ~remote[r].deleted

Halfway ==
  /\ half # Whole => pulls = {}
  /\ half.op = "tid" =>
       /\ half.local \in pushes /\ half.remote \in Remotes
       /\ local[half.local].tid \notin Remotes
       /\ ~remote[half.remote].deleted
       /\ remote[half.remote].title = local[half.local].title
  /\ half.op \in {"drop", "dropRow"} =>
       half.remote \in drops /\ \A t \in Tasks : rhome[t] # half.remote
  /\ half.op = "dropRow" => \A t \in Tasks : home[t] # half.remote
  /\ half.op \in {"eraseThere", "mark", "eraseLocal"} => half.local \in erases /\ drops = {}
  /\ half.op = "eraseThere" => \A t \in Tasks : home[t] # local[half.local].tid
  /\ half.op = "mark" => local[half.local].tid = half.remote /\ half.remote \in Remotes
  /\ half.op = "eraseLocal" => LET tid == local[half.local].tid
                               IN  tid \in Remotes => remote[tid].deleted
  /\ half.op \notin {"none", "tid"} => TasksDone

\* The copy of a server row, or a row of the client, that the sync has still to see.
SameTitle(r)  == \E i \in Copies(r) : local[i].title = remote[r].title
Waiting(r)    == \E i \in Copies(r) : i \in pushes \cup erases

RowsToDo ==
  /\ \A r \in Remotes :
       IF remote[r].deleted THEN \/ Copies(r) = {}
                                 \/ r \in drops
                                 \/ \E i \in Copies(r) : i \in erases
       ELSE \/ SameTitle(r) \/ Waiting(r) \/ r \in pulls
            \/ half.op = "tid" /\ half.remote = r
  /\ \A r \in updated \ pulls : remote[r].deleted \/ SameTitle(r)
  /\ \A i \in Locals : local[i].tid \in Remotes \/ i \in pushes \cup erases

\* A task of the container that is being deleted, moved on one side only.
Moving(t) ==
  \/ half.op \in {"drop", "dropRow"} /\ home[t] \in {half.remote, Default} /\ rhome[t] = Default
  \/ half.op = "eraseThere" /\ home[t] = Default /\ rhome[t] = local[half.local].tid

PlacesToDo ==
  /\ taskPulls \subseteq taskUpdated
  /\ \A t \in Tasks \ (taskPulls \cup taskPushes) : home[t] = rhome[t] \/ Stray(t) \/ Moving(t)
  /\ \A t \in taskUpdated \ taskPulls : home[t] = rhome[t] \/ Stray(t) \/ Moving(t)

ToDo == Lists /\ Halfway /\ RowsToDo /\ PlacesToDo

StepInv ==
  /\ DefaultStays /\ NoTid /\ RowsInStep /\ Places /\ PlacesInStep
  /\ IF pc = "apply" THEN ToDo ELSE half = Whole

-----------------------------------------------------------------------------
(* What the steps share                                                    *)

Inv == TypeInv /\ TiesInv /\ StepInv

\* What the type invariant and the tids say, with the bounds of the ids worked out.
LEMMA Facts ==
  ASSUME TypeInv, TiesInv
  PROVE  /\ local \in [LocalIds -> LocalRow] /\ remote \in [RemoteIds -> RemoteRow]
         /\ home \in [Tasks -> Tids] /\ rhome \in [Tasks -> RemoteIds]
         /\ map \in [Titles -> Tids \cup {None}]
         /\ Default \in RemoteIds /\ Default \in LocalIds /\ Default \in Tids
         /\ None \notin Tids /\ RemoteIds \subseteq Tids
         /\ \A i, j \in Locals : local[i].tid = local[j].tid => i = j
         /\ \A i \in Locals : /\ i \in LocalIds /\ local[i].tid \in Tids
                              /\ local[i].tid \in Remotes \/ local[i].tid >= TempBase
         /\ \A r \in RemoteIds : ~(r >= TempBase)
         /\ \A r : r \in Remotes <=> r \in RemoteIds /\ remote[r].exists
<1> USE DEF LocalIds, RemoteIds, TempBase, Tids, Default, None
<1>1. /\ Default \in RemoteIds /\ Default \in LocalIds /\ Default \in Tids
      /\ None \notin Tids /\ RemoteIds \subseteq Tids /\ \A r \in RemoteIds : ~(r >= TempBase)
  OBVIOUS
<1>2. /\ local \in [LocalIds -> LocalRow] /\ remote \in [RemoteIds -> RemoteRow]
      /\ home \in [Tasks -> Tids] /\ rhome \in [Tasks -> RemoteIds]
      /\ map \in [Titles -> Tids \cup {None}]
  BY DEF TypeInv, TypeOK
<1>3. \A i, j \in Locals : local[i].tid = local[j].tid => i = j
  BY DEF TiesInv, TidsDiffer
<1>4. ASSUME NEW i \in Locals
      PROVE  /\ i \in LocalIds /\ local[i].tid \in Tids
             /\ local[i].tid \in Remotes \/ local[i].tid >= TempBase
  <2>1. i \in LocalIds /\ local[i].tid \in Tids \cup {None}
    BY <1>2 DEF Locals, LocalRow
  <2>2. local[i].tid < TempBase => local[i].tid \in Remotes
    BY DEF TiesInv, TidsDiffer
  <2>3. local[i].tid # None
    BY <2>2 DEF Remotes
  <2> QED BY <2>1, <2>2, <2>3
<1>5. \A r : r \in Remotes <=> r \in RemoteIds /\ remote[r].exists
  BY DEF Remotes
<1> QED BY <1>1, <1>2, <1>3, <1>4, <1>5

\* What is said of rows alone stays while no row is written.
LEMMA SameRows ==
  ASSUME UNCHANGED <<local, remote>>
  PROVE  /\ Locals' = Locals /\ Remotes' = Remotes
         /\ \A x : Copies(x)' = Copies(x)
         /\ \A x : Known(x) => Known(x)'
BY DEF Locals, Remotes, Copies, Known

\* When no row changes, what a cut leaves is about the places alone.
LEMMA SameStep ==
  ASSUME Inv, UNCHANGED <<local, remote>>, Places', PlacesInStep'
  PROVE  DefaultStays' /\ NoTid' /\ RowsInStep' /\ Places' /\ PlacesInStep'
<1>1. Locals' = Locals /\ Remotes' = Remotes /\ \A x : Copies(x)' = Copies(x)
  BY SameRows
<1> QED BY <1>1 DEF Inv, StepInv, DefaultStays, NoTid, RowsInStep

\* Reading the map finds what is known.
LEMMA MapKnown ==
  ASSUME Inv, NEW old \in [Titles -> Tids \cup {None}], map' = MapRead(old),
         \A n \in Titles : old[n] # None => Known(old[n])', TypeInv'
  PROVE  \A n \in Titles : map'[n] # None => Known(map[n])'
<1> SUFFICES ASSUME NEW n \in Titles, map'[n] # None PROVE Known(map[n])'
  OBVIOUS
<1>1. CASE \E i \in LocalIds : local'[i].exists /\ local'[i].title = n
  <2>1. PICK j \in LocalIds : local'[j].exists /\ map'[n] = local'[j].tid
    BY <1>1, MapReadFinds
  <2>2. j \in Copies(map[n])'
    BY <2>1 DEF Copies, Locals
  <2> QED BY <2>2 DEF Known
<1>2. CASE ~ \E i \in LocalIds : local'[i].exists /\ local'[i].title = n
  <2>1. map'[n] = old[n]
    BY <1>2 DEF MapRead
  <2>2. Known(old[n])'
    BY <2>1
  <2> QED BY <2>1, <2>2 DEF Known
<1> QED BY <1>1, <1>2

LEMMA StepInit == Init => StepInv
<1> USE DEF Default, None
<1> SUFFICES ASSUME Init PROVE StepInv
  OBVIOUS
<1>1. PICK title \in Titles \ {NoTitle} :
        /\ local = [i \in LocalIds |->
             IF i = 1 THEN [NoLocal EXCEPT !.exists = TRUE, !.tid = Default]
             ELSE IF i = 2
             THEN [NoLocal EXCEPT !.exists = TRUE, !.tid = 2, !.title = title]
             ELSE NoLocal]
        /\ remote = [r \in RemoteIds |->
             [NoRemote EXCEPT !.exists = r <= 2,
                              !.title = IF r = 2 THEN title ELSE NoTitle]]
        /\ map = [n \in Titles |-> IF n = NoTitle THEN Default
                                   ELSE IF n = title THEN 2 ELSE None]
  BY DEF Init
<1>2. 1 \in LocalIds /\ 2 \in LocalIds /\ 1 \in RemoteIds /\ 2 \in RemoteIds
  BY DEF LocalIds, RemoteIds
<1>3. /\ local[1] = [exists |-> TRUE, tid |-> 1, title |-> NoTitle, changed |-> FALSE,
                     deleted |-> FALSE]
      /\ local[2] = [exists |-> TRUE, tid |-> 2, title |-> title, changed |-> FALSE,
                     deleted |-> FALSE]
      /\ \A i \in LocalIds \ {1, 2} : ~local[i].exists /\ local[i].tid = 0
  <2>1. /\ local[1] = [NoLocal EXCEPT !.exists = TRUE, !.tid = 1]
        /\ \A i \in LocalIds : i = 2 =>
              local[i] = [NoLocal EXCEPT !.exists = TRUE, !.tid = 2, !.title = title]
        /\ \A i \in LocalIds \ {1, 2} : local[i] = NoLocal
    <3>1. local[1] = [NoLocal EXCEPT !.exists = TRUE, !.tid = 1]
      BY <1>1, <1>2
    <3>2. ASSUME NEW i \in LocalIds, i = 2
          PROVE  local[i] = [NoLocal EXCEPT !.exists = TRUE, !.tid = 2, !.title = title]
      <4>1. i # 1
        BY <3>2
      <4> QED BY <1>1, <3>2, <4>1
    <3>3. ASSUME NEW i \in LocalIds \ {1, 2} PROVE local[i] = NoLocal
      BY <1>1
    <3> QED BY <3>1, <3>2, <3>3
  <2>2. local[2] = [NoLocal EXCEPT !.exists = TRUE, !.tid = 2, !.title = title]
    BY <1>2, <2>1
  <2>3. local[1] = [exists |-> TRUE, tid |-> 1, title |-> NoTitle, changed |-> FALSE,
                    deleted |-> FALSE]
    BY <2>1 DEF NoLocal
  <2>4. local[2] = [exists |-> TRUE, tid |-> 2, title |-> title, changed |-> FALSE,
                    deleted |-> FALSE]
    BY <2>2 DEF NoLocal
  <2>5. \A i \in LocalIds \ {1, 2} : ~local[i].exists /\ local[i].tid = 0
    BY <2>1 DEF NoLocal
  <2> QED BY <2>3, <2>4, <2>5
<1>4. ASSUME NEW r \in RemoteIds
      PROVE  /\ remote[r].exists = (r <= 2) /\ ~remote[r].deleted
             /\ remote[r].title = IF r = 2 THEN title ELSE NoTitle
  BY <1>1 DEF NoRemote
<1>5. Remotes = {1, 2}
  <2>1. \A r \in RemoteIds : r <= 2 <=> r \in {1, 2}
    BY DEF RemoteIds
  <2>2. ASSUME NEW r \in RemoteIds PROVE r \in Remotes <=> r \in {1, 2}
    <3>1. remote[r].exists <=> r <= 2
      BY <1>4
    <3> QED BY <2>1, <3>1 DEF Remotes
  <2>3. Remotes \subseteq RemoteIds /\ {1, 2} \subseteq RemoteIds
    BY <1>2 DEF Remotes
  <2> QED BY <2>2, <2>3
<1>6. Locals = {1, 2} /\ 1 \in Copies(1) /\ 2 \in Copies(2)
  BY <1>2, <1>3 DEF Locals, Copies
<1>7. DefaultStays /\ NoTid
  <2>1. 1 <= 2
    OBVIOUS
  <2> QED BY <1>2, <1>3, <1>4, <1>5, <1>6, <2>1 DEF DefaultStays, NoTid, Remotes
<1>8. RowsInStep
  BY <1>2, <1>3, <1>4, <1>5, <1>6 DEF RowsInStep
<1>9. Places
  <2>1. Known(1) /\ Known(2)
    BY <1>6 DEF Known
  <2> QED BY <1>1, <2>1 DEF Init, Places
<1>10. PlacesInStep
  BY <1>5 DEF Init, PlacesInStep
<1> QED BY <1>7, <1>8, <1>9, <1>10 DEF StepInv, Init

-----------------------------------------------------------------------------
(* The user and the other clients                                          *)

LEMMA UserSteps ==
  ASSUME Inv, TypeInv', TiesInv', User
  PROVE  StepInv'
<1>0. pc = "idle" /\ pc' = "idle" /\ half' = half
  BY DEF User, New, Toggle, Rename, Move, Restart, Unreachable, Edit, control
<1>a. DefaultStays /\ NoTid /\ RowsInStep /\ Places /\ PlacesInStep /\ half = Whole
  BY <1>0 DEF Inv, StepInv
<1>b. SUFFICES DefaultStays' /\ NoTid' /\ RowsInStep' /\ Places' /\ PlacesInStep'
  BY <1>0, <1>a DEF StepInv, Whole
<1>1. ASSUME NEW i \in LocalIds, NEW title \in Titles, New(i, title)
      PROVE  DefaultStays' /\ NoTid' /\ RowsInStep' /\ Places' /\ PlacesInStep'
  <2>1. /\ local' = [local EXCEPT ![i] = [exists |-> TRUE, tid |-> temporary,
                       title |-> title, changed |-> TRUE, deleted |-> FALSE]]
        /\ NextLocal(i)
        /\ UNCHANGED <<remote, home, homeChanged, rhome, rhomeChanged, map>>
    BY <1>1 DEF New
  <2>2. i \notin Locals /\ i # Default
    BY <1>a, <2>1 DEF NextLocal, DefaultStays, Locals, LocalIds, Default
  <2>3. \A r \in RemoteIds : temporary # r
    BY DEF Inv, TypeInv, TemporaryBound, TypeOK, RemoteIds, TempBase
  <2>4. /\ \A j \in LocalIds \ {i} : local'[j] = local[j]
        /\ local'[i].changed /\ local'[i].exists /\ local'[i].tid = temporary
    BY <2>1, Facts DEF Inv
  <2>5. /\ Locals' = Locals \cup {i} /\ Remotes' = Remotes
        /\ \A x : Copies(x) \subseteq Copies(x)'
        /\ \A r \in RemoteIds : Copies(r)' = Copies(r)
    <3>1. Locals' = Locals \cup {i} /\ Remotes' = Remotes
      BY <2>1, <2>4 DEF Locals, Remotes
    <3>2. \A j \in Locals : local'[j] = local[j] /\ j # i
      BY <2>2, <2>4 DEF Locals
    <3> QED BY <2>3, <2>4, <3>1, <3>2 DEF Copies
  <2>6. DefaultStays'
    BY <1>a, <2>1, <2>2, <2>4, Facts DEF DefaultStays, Inv
  <2>7. NoTid'
    BY <1>a, <2>4, <2>5 DEF NoTid
  <2>8. RowsInStep'
    <3>1. \A j \in Locals : local'[j] = local[j] /\ j # i
      BY <2>2, <2>4 DEF Locals
    <3>2. \A r \in Remotes : r \in RemoteIds /\ Copies(r) \subseteq Locals
      BY Facts DEF Inv, Copies
    <3> QED BY <1>a, <2>1, <2>4, <2>5, <3>1, <3>2 DEF RowsInStep
  <2>9. \A x : Known(x) => Known(x)'
    BY <2>1, <2>5 DEF Known
  <2>10. Places'
    BY <1>a, <2>1, <2>9 DEF Places, Known
  <2>11. PlacesInStep'
    <3>1. \A t \in Tasks : Stray(t) => Stray(t)'
      BY <2>1, <2>5, Facts DEF Inv, Stray, Copies
    <3> QED BY <1>a, <2>1, <2>5, <3>1 DEF PlacesInStep
  <2> QED BY <2>6, <2>7, <2>8, <2>10, <2>11
<1>2. ASSUME NEW i \in LocalIds, Toggle(i) \/ \E title \in Titles : Rename(i, title)
      PROVE  DefaultStays' /\ NoTid' /\ RowsInStep' /\ Places' /\ PlacesInStep'
  <2>1. i \in Locals /\ i # Default
        /\ UNCHANGED <<remote, home, homeChanged, rhome, rhomeChanged, map>>
    BY <1>2 DEF Toggle, Rename, program, Default
  <2>2. /\ \A j \in LocalIds \ {i} : local'[j] = local[j]
        /\ local'[i].changed /\ local'[i].exists /\ local'[i].tid = local[i].tid
    <3>1. local \in [LocalIds -> LocalRow] /\ local[i].exists
      BY <2>1, Facts DEF Inv, Locals
    <3>2. CASE Toggle(i)
      BY <3>1, <3>2 DEF Toggle, LocalRow
    <3>3. ASSUME NEW title \in Titles, Rename(i, title)
          PROVE  /\ \A j \in LocalIds \ {i} : local'[j] = local[j]
                 /\ local'[i].changed /\ local'[i].exists /\ local'[i].tid = local[i].tid
      <4>1. /\ local' = [local EXCEPT ![i] = Retitled(local[i], title)]
            /\ local[i].title # title
        BY <3>3 DEF Rename
      <4>2. Retitled(local[i], title).changed
        BY <3>1, <4>1 DEF Retitled, LocalRow
      <4> QED BY <3>1, <4>1, <4>2, RetitledKeeps
    <3> QED BY <1>2, <3>2, <3>3
  <2>3. /\ Locals' = Locals /\ Remotes' = Remotes /\ \A x : Copies(x)' = Copies(x)
    <3>1. Locals' = Locals /\ Remotes' = Remotes
      BY <2>1, <2>2 DEF Locals, Remotes
    <3>2. \A j \in Locals : local'[j].tid = local[j].tid
      BY <2>2 DEF Locals
    <3> QED BY <3>1, <3>2 DEF Copies
  <2>4. DefaultStays'
    BY <1>a, <2>1, <2>2, Facts DEF DefaultStays, Inv
  <2>5. NoTid'
    BY <1>a, <2>1, <2>2, <2>3 DEF NoTid
  <2>6. RowsInStep'
    <3>1. \A j \in Locals : j = i \/ local'[j] = local[j]
      BY <2>2 DEF Locals
    <3>2. \A r \in RemoteIds : Copies(r)' = Copies(r) /\ Copies(r) \subseteq Locals
      BY <2>3 DEF Copies
    <3>3. \A r \in Remotes' : ~remote'[r].changed =>
            IF remote'[r].deleted THEN Copies(r)' = {}
            ELSE \E j \in Copies(r)' : local'[j].changed \/ local'[j].title = remote'[r].title
      <4>1. ASSUME NEW r \in Remotes, NEW j \in Copies(r),
                   local[j].changed \/ local[j].title = remote[r].title
            PROVE  local'[j].changed \/ local'[j].title = remote'[r].title
        BY <2>1, <2>2, <3>1, <3>2, <4>1 DEF Remotes
      <4> QED BY <1>a, <2>1, <2>3, <3>2, <4>1 DEF RowsInStep, Remotes
    <3>4. \A j \in Locals' : ~local'[j].changed => local'[j].tid \in Remotes'
      BY <1>a, <2>2, <2>3, <3>1 DEF RowsInStep
    <3> QED BY <3>3, <3>4 DEF RowsInStep
  <2>7. Places' /\ PlacesInStep'
    BY <1>a, <2>1, <2>3 DEF Places, Known, PlacesInStep, Stray
  <2> QED BY <2>4, <2>5, <2>6, <2>7
<1>3. ASSUME NEW t \in Tasks, NEW title \in Titles, Move(t, title)
      PROVE  DefaultStays' /\ NoTid' /\ RowsInStep' /\ Places' /\ PlacesInStep'
  <2>1. /\ UNCHANGED <<local, remote, rhome, rhomeChanged, map>> /\ map[title] # None
        /\ home' = [home EXCEPT ![t] = map[title]] /\ homeChanged' = homeChanged \cup {t}
    BY <1>3 DEF Move, program
  <2>2. /\ Remotes' = Remotes /\ \A x : Copies(x)' = Copies(x)
        /\ \A x : Known(x) => Known(x)'
    BY <2>1, SameRows
  <2>3. home \in [Tasks -> Tids]
    BY Facts DEF Inv
  <2>4. Places'
    BY <1>a, <2>1, <2>2, <2>3 DEF Places, Known
  <2>5. PlacesInStep'
    BY <1>a, <2>1, <2>2, <2>3 DEF PlacesInStep, Stray
  <2> QED BY <2>1, <2>4, <2>5, SameStep
<1>4. CASE Restart \/ Unreachable
  <2>1. UNCHANGED <<local, remote, home, rhome, homeChanged, rhomeChanged>>
    BY <1>4 DEF Restart, Unreachable, tables
  <2>2. /\ Remotes' = Remotes /\ \A x : Copies(x)' = Copies(x)
        /\ \A x : Known(x) => Known(x)'
    BY <2>1, SameRows
  <2>3. PICK old \in [Titles -> Tids \cup {None}] :
          /\ map' = MapRead(old)
          /\ \A n \in Titles : old[n] # None => Known(old[n])
    <3>1. map \in [Titles -> Tids \cup {None}]
      BY Facts DEF Inv
    <3>2. CASE Restart
      <4>1. [n \in Titles |-> None] \in [Titles -> Tids \cup {None}]
        OBVIOUS
      <4> QED BY <3>2, <4>1 DEF Restart
    <3>3. CASE Unreachable
      BY <1>a, <3>1, <3>3 DEF Unreachable, Places
    <3> QED BY <1>4, <3>2, <3>3
  <2>4. \A n \in Titles : map'[n] # None => Known(map[n])'
    BY <2>2, <2>3, MapKnown
  <2>5. Places'
    BY <1>a, <2>1, <2>2, <2>4 DEF Places, Known
  <2>6. PlacesInStep'
    BY <1>a, <2>1, <2>2 DEF PlacesInStep, Stray
  <2> QED BY <2>1, <2>5, <2>6, SameStep
<1> QED BY <1>1, <1>2, <1>3, <1>4 DEF User

-----------------------------------------------------------------------------
(* The other clients                                                       *)

Always == DefaultStays /\ NoTid /\ RowsInStep /\ Places /\ PlacesInStep

\* A row of the server that is written is marked; nothing else about the rows matters.
LEMMA WrittenThere ==
  ASSUME Inv, UNCHANGED <<local, home, homeChanged, map>>,
         NEW r \in RemoteIds, \A q \in RemoteIds \ {r} : remote'[q] = remote[q],
         remote'[r].exists, remote'[r].changed,
         remote[r].exists /\ remote[r].deleted => remote'[r].deleted,
         r = Default => ~remote'[r].deleted,
         \/ UNCHANGED <<rhome, rhomeChanged>>
         \/ EmptyThere(r)
  PROVE  Always' /\ Remotes' = Remotes \cup {r} /\ \A t \in Tasks : Stray(t) => Stray(t)'
<1>1. /\ remote \in [RemoteIds -> RemoteRow] /\ rhome \in [Tasks -> RemoteIds]
      /\ \A q : q \in Remotes <=> q \in RemoteIds /\ remote[q].exists
      /\ Default \in RemoteIds
  BY Facts DEF Inv
<1>2. DefaultStays /\ NoTid /\ RowsInStep /\ Places /\ PlacesInStep
  BY DEF Inv, StepInv
<1>3. /\ Locals' = Locals /\ \A x : Copies(x)' = Copies(x)
      /\ Remotes' = Remotes \cup {r}
  BY <1>1 DEF Locals, Copies, Remotes
<1>4. DefaultStays'
  BY <1>1, <1>2 DEF DefaultStays
<1>5. NoTid'
  BY <1>2, <1>3 DEF NoTid
<1>6. RowsInStep'
  BY <1>1, <1>2, <1>3 DEF RowsInStep
<1>7. \A x : Known(x) => Known(x)'
  BY <1>1, <1>3 DEF Known
<1>8. Places'
  BY <1>2, <1>7 DEF Places, Known
<1>9. \A t \in Tasks : Stray(t) => Stray(t)'
  BY <1>1, <1>3 DEF Stray
<1>10. PlacesInStep'
  <2>1. CASE UNCHANGED <<rhome, rhomeChanged>>
    BY <1>2, <1>3, <1>9, <2>1 DEF PlacesInStep
  <2>2. CASE EmptyThere(r)
    <3>1. /\ rhome' = [t \in Tasks |-> IF rhome[t] = r THEN Default ELSE rhome[t]]
          /\ rhomeChanged' = rhomeChanged \cup {t \in Tasks : rhome[t] = r}
      BY <2>2 DEF EmptyThere, Emptied, TasksOf
    <3>2. Default \in Remotes'
      BY <1>1, <1>2, <1>3 DEF DefaultStays
    <3> QED BY <1>2, <1>3, <1>9, <3>1, <3>2 DEF PlacesInStep
  <2> QED BY <2>1, <2>2
<1> QED BY <1>3, <1>4, <1>5, <1>6, <1>8, <1>9, <1>10 DEF Always

LEMMA OthersSteps ==
  ASSUME Inv, TypeInv', TiesInv', Others
  PROVE  StepInv'
<1>0. /\ pc = "idle" /\ pc' = "idle" /\ half' = half
      /\ UNCHANGED <<local, home, homeChanged, map>>
  BY DEF Others, RemoteNew, RemoteRename, RemoteDelete, RemoteMove, Edit, control, program
<1>a. DefaultStays /\ NoTid /\ RowsInStep /\ Places /\ PlacesInStep /\ half = Whole
  BY <1>0 DEF Inv, StepInv
<1>b. SUFFICES DefaultStays' /\ NoTid' /\ RowsInStep' /\ Places' /\ PlacesInStep'
  BY <1>0, <1>a DEF StepInv, Whole
<1>c. /\ remote \in [RemoteIds -> RemoteRow] /\ rhome \in [Tasks -> RemoteIds]
      /\ \A r : r \in Remotes <=> r \in RemoteIds /\ remote[r].exists
      /\ Default \in RemoteIds
  BY Facts DEF Inv
<1>d. Locals' = Locals /\ \A x : Copies(x)' = Copies(x)
  BY <1>0 DEF Locals, Copies
<1>e. Always' => DefaultStays' /\ NoTid' /\ RowsInStep' /\ Places' /\ PlacesInStep'
  BY DEF Always
<1>1. ASSUME NEW r \in RemoteIds, NEW title \in Titles, RemoteNew(r, title)
      PROVE  DefaultStays' /\ NoTid' /\ RowsInStep' /\ Places' /\ PlacesInStep'
  <2>1. /\ remote' = [remote EXCEPT ![r] = [exists |-> TRUE, title |-> title,
                        changed |-> TRUE, deleted |-> FALSE]]
        /\ r \notin Remotes /\ UNCHANGED <<rhome, rhomeChanged>>
    BY <1>1 DEF RemoteNew, NextRemote
  <2>2. /\ \A q \in RemoteIds \ {r} : remote'[q] = remote[q]
        /\ remote'[r].exists /\ remote'[r].changed
    BY <1>c, <2>1
  <2>3. ~remote[r].exists /\ r # Default
    BY <1>a, <1>c, <2>1 DEF DefaultStays
  <2> QED BY <1>0, <1>e, <2>1, <2>2, <2>3, WrittenThere
<1>2. ASSUME NEW r \in RemoteIds, NEW title \in Titles, RemoteRename(r, title)
      PROVE  DefaultStays' /\ NoTid' /\ RowsInStep' /\ Places' /\ PlacesInStep'
  <2>1. /\ remote' = [remote EXCEPT ![r] = Retitled(remote[r], title)]
        /\ r \in Remotes /\ r # Default /\ ~remote[r].deleted /\ remote[r].title # title
        /\ UNCHANGED <<rhome, rhomeChanged>>
    BY <1>2 DEF RemoteRename
  <2>2. Retitled(remote[r], title).changed /\ Retitled(remote[r], title).exists
    BY <1>c, <2>1 DEF Retitled, RemoteRow
  <2>3. /\ \A q \in RemoteIds \ {r} : remote'[q] = remote[q]
        /\ remote'[r].exists /\ remote'[r].changed
    BY <1>c, <2>1, <2>2
  <2> QED BY <1>0, <1>e, <2>1, <2>3, WrittenThere
<1>3. ASSUME NEW r \in RemoteIds, RemoteDelete(r)
      PROVE  DefaultStays' /\ NoTid' /\ RowsInStep' /\ Places' /\ PlacesInStep'
  <2>1. /\ remote' = [remote EXCEPT ![r].deleted = TRUE, ![r].changed = TRUE]
        /\ r \in Remotes /\ r # Default /\ EmptyThere(r)
    BY <1>3 DEF RemoteDelete
  <2>2. /\ \A q \in RemoteIds \ {r} : remote'[q] = remote[q]
        /\ remote'[r].exists /\ remote'[r].changed /\ remote'[r].deleted
    BY <1>c, <2>1 DEF RemoteRow
  <2> QED BY <1>0, <1>e, <2>1, <2>2, WrittenThere
<1>4. ASSUME NEW r \in RemoteIds, NEW t \in Tasks, RemoteMove(t, r)
      PROVE  DefaultStays' /\ NoTid' /\ RowsInStep' /\ Places' /\ PlacesInStep'
  <2>1. /\ UNCHANGED remote /\ r \in Remotes
        /\ rhome' = [rhome EXCEPT ![t] = r] /\ rhomeChanged' = rhomeChanged \cup {t}
    BY <1>4 DEF RemoteMove
  <2>2. Remotes' = Remotes /\ \A x : Known(x) => Known(x)'
    BY <1>0, <2>1, SameRows
  <2>3. Places'
    BY <1>0, <1>a, <2>2 DEF Places, Known
  <2>4. PlacesInStep'
    BY <1>0, <1>a, <1>c, <1>d, <2>1, <2>2 DEF PlacesInStep, Stray
  <2> QED BY <1>0, <2>1, <2>3, <2>4, SameStep
<1> QED BY <1>1, <1>2, <1>3, <1>4 DEF Others

-----------------------------------------------------------------------------
(* The sync: its beginning, and the containers                             *)

\* A sync that begins has everything that is marked in its lists.
LEMMA Begins ==
  ASSUME Inv, TypeInv', TiesInv', Begin
  PROVE  StepInv'
<1>0. /\ half = Whole /\ half' = half /\ pc' = "apply" /\ Always
      /\ UNCHANGED <<local, remote, home, rhome, homeChanged, rhomeChanged, map>>
  BY DEF Inv, StepInv, Begin, Always, tables, program
<1>1. /\ Locals' = Locals /\ Remotes' = Remotes /\ \A x : Copies(x)' = Copies(x)
      /\ \A x : Known(x) => Known(x)'
  BY <1>0, SameRows
<1>2. Always'
  <2>1. Places'
    BY <1>0, <1>1 DEF Always, Places, Known
  <2>2. PlacesInStep'
    BY <1>0, <1>1 DEF Always, PlacesInStep, Stray
  <2> QED BY <1>0, <2>1, <2>2, SameStep DEF Always
<1>3. /\ updated' = {r \in Remotes : remote[r].changed /\ ~remote[r].deleted}
      /\ pulls' = updated'
      /\ drops' = {r \in Remotes : remote[r].changed /\ remote[r].deleted}
      /\ pushes' = {i \in Locals : local[i].changed /\ ~local[i].deleted}
      /\ erases' = {i \in Locals : local[i].changed /\ local[i].deleted}
      /\ taskUpdated' = rhomeChanged /\ taskPulls' = rhomeChanged /\ taskPushes' = homeChanged
  BY DEF Begin
<1>4. Lists'
  BY <1>0, <1>1, <1>3 DEF Lists, Always, DefaultStays
<1>5. Halfway'
  BY <1>0 DEF Halfway, Whole
<1>6. RowsToDo'
  <2>1. ASSUME NEW r \in Remotes, remote[r].deleted PROVE Copies(r) = {} \/ r \in drops'
    BY <1>0, <1>3, <2>1 DEF Always, RowsInStep
  <2>2. ASSUME NEW r \in Remotes, ~remote[r].deleted, r \notin pulls'
        PROVE  \E i \in Copies(r) : \/ local[i].title = remote[r].title
                                    \/ i \in pushes' \cup erases'
    <3>1. PICK i \in Copies(r) : local[i].changed \/ local[i].title = remote[r].title
      BY <1>0, <1>3, <2>2 DEF Always, RowsInStep
    <3> QED BY <1>3, <3>1 DEF Copies
  <2>3. \A i \in Locals : local[i].tid \in Remotes \/ i \in pushes' \cup erases'
    BY <1>0, <1>3 DEF Always, RowsInStep
  <2> QED BY <1>0, <1>1, <1>3, <2>1, <2>2, <2>3 DEF RowsToDo, SameTitle, Waiting
<1>7. PlacesToDo'
  BY <1>0, <1>1, <1>3 DEF PlacesToDo, Always, PlacesInStep, Stray
<1> QED BY <1>0, <1>2, <1>4, <1>5, <1>6, <1>7 DEF StepInv, Always, ToDo

\* The form of the goal for each step of a sync that goes on.
LEMMA Applies ==
  ASSUME Inv, pc = "apply", pc' = "apply", Always', ToDo'
  PROVE  StepInv'
BY DEF StepInv, Always, ToDo

\* A container that is pulled has a copy of its title, and leaves the list.
LEMMA Pulls ==
  ASSUME Inv, TypeInv', TiesInv', NEW i \in LocalIds, NEW r \in RemoteIds, Pull(r, i), ~Refuse
  PROVE  StepInv'
<1>0. pc = "apply" /\ half = Whole /\ Always /\ ToDo /\ r \in pulls
  BY DEF Inv, StepInv, Pull, Applying, Always
<1>1. /\ local' = [local EXCEPT ![i] =
             IF local[i].exists THEN Retitled(local[i], remote[r].title)
             ELSE [exists |-> TRUE, tid |-> r, title |-> remote[r].title,
                   changed |-> TRUE, deleted |-> FALSE]]
      /\ IF Copies(r) = {} THEN NextLocal(i) ELSE i \in Copies(r)
      /\ pulls' = pulls \ {r} /\ pc' = "apply"
      /\ UNCHANGED <<remote, home, homeChanged, rhome, rhomeChanged, half,
                     updated, pushes, drops, erases, tasks, map>>
  BY <1>0 DEF Pull, Silent, program
<1>2. /\ local \in [LocalIds -> LocalRow] /\ remote \in [RemoteIds -> RemoteRow]
      /\ r \in Remotes /\ ~remote[r].deleted
      /\ \A j, k \in Locals : local[j].tid = local[k].tid => j = k
      /\ \A q : q \in Remotes <=> q \in RemoteIds /\ remote[q].exists
  BY <1>0, Facts DEF ToDo, Lists, Inv
<1>3. /\ i \in Locals => i \in Copies(r)
      /\ local'[i].exists /\ local'[i].tid = r /\ local'[i].title = remote[r].title
      /\ \A j \in LocalIds \ {i} : local'[j] = local[j]
      /\ i \in Locals /\ local[i].title # remote[r].title => local'[i].changed
      /\ i \notin Locals => local'[i].changed
      /\ i \in Locals => local'[i].deleted = local[i].deleted
  <2>1. remote[r].title \in Titles /\ local[i] \in LocalRow
    BY <1>2 DEF RemoteRow
  <2>2. CASE i \in Locals
    <3>1. i \in Copies(r) /\ local[i].exists /\ local[i].tid = r
      BY <1>1, <2>2 DEF Copies, NextLocal, Locals, LocalIds
    <3>2. local'[i] = Retitled(local[i], remote[r].title)
      BY <1>1, <1>2, <3>1
    <3>3. /\ local'[i].exists /\ local'[i].tid = r /\ local'[i].title = remote[r].title
          /\ local[i].title # remote[r].title => local'[i].changed
          /\ local'[i].deleted = local[i].deleted
      BY <2>1, <3>1, <3>2 DEF Retitled, LocalRow
    <3> QED BY <1>1, <1>2, <2>2, <3>1, <3>3
  <2>3. CASE i \notin Locals
    <3>1. ~local[i].exists
      BY <2>3 DEF Locals
    <3> QED BY <1>1, <1>2, <2>3, <3>1
  <2> QED BY <2>2, <2>3
<1>4. /\ Locals' = Locals \cup {i} /\ Remotes' = Remotes
      /\ \A x : Copies(x) \subseteq Copies(x)'
      /\ \A x : x # r => Copies(x)' = Copies(x)
      /\ i \in Copies(r)' /\ \A j \in Copies(r) : j = i
  <2>1. Locals' = Locals \cup {i} /\ Remotes' = Remotes
    BY <1>1, <1>3 DEF Locals, Remotes
  <2>2. \A j \in Locals : local'[j].tid = local[j].tid
    BY <1>3 DEF Locals, Copies
  <2>3. \A x : Copies(x) \subseteq Copies(x)'
    BY <2>1, <2>2 DEF Copies
  <2>4. ASSUME NEW x, x # r PROVE Copies(x)' = Copies(x)
    BY <1>3, <2>1, <2>2, <2>4 DEF Copies
  <2>5. i \in Copies(r)'
    BY <1>3, <2>1 DEF Copies
  <2>6. ASSUME NEW j \in Copies(r) PROVE j = i
    BY <1>1, <1>2, <2>6 DEF Copies
  <2> QED BY <2>1, <2>3, <2>4, <2>5, <2>6
<1>5. Always'
  <2>1. DefaultStays'
    <3>1. i = Default => i \in Locals
      BY <1>0, Facts DEF Always, DefaultStays, Locals, Inv
    <3>2. local'[Default].tid = Default
      <4>1. CASE i = Default
        BY <1>0, <1>3, <3>1, <4>1 DEF Always, DefaultStays, Copies
      <4>2. CASE i # Default
        BY <1>0, <1>3, <4>2, Facts DEF Always, DefaultStays, Inv
      <4> QED BY <4>1, <4>2
    <3> QED BY <1>0, <1>1, <1>3, <3>1, <3>2, Facts DEF Always, DefaultStays, Inv
  <2>2. NoTid'
    BY <1>0, <1>3, <1>4 DEF Always, NoTid
  <2>3. RowsInStep'
    <3>1. ASSUME NEW q \in Remotes, ~remote[q].changed
          PROVE  IF remote[q].deleted THEN Copies(q)' = {}
                 ELSE \E j \in Copies(q)' : local'[j].changed \/ local'[j].title = remote[q].title
      <4>1. CASE q = r
        BY <1>2, <1>3, <1>4, <4>1
      <4>2. CASE q # r
        <5>1. \A j \in Copies(q) : local'[j] = local[j]
          BY <1>3, <4>2 DEF Copies, Locals
        <5>2. Copies(q)' = Copies(q)
          BY <1>4, <4>2
        <5> QED BY <1>0, <3>1, <5>1, <5>2 DEF Always, RowsInStep
      <4> QED BY <4>1, <4>2
    <3>2. ASSUME NEW j \in Locals', ~local'[j].changed PROVE local'[j].tid \in Remotes
      <4>1. CASE j = i
        BY <1>2, <1>3, <4>1
      <4>2. CASE j # i
        BY <1>0, <1>3, <1>4, <3>2, <4>2 DEF Always, RowsInStep, Locals
      <4> QED BY <4>1, <4>2
    <3> QED BY <1>1, <1>4, <3>1, <3>2 DEF RowsInStep
  <2>4. \A x : Known(x) => Known(x)'
    BY <1>1, <1>4 DEF Known
  <2>5. Places'
    BY <1>0, <1>1, <2>4 DEF Always, Places, Known
  <2>6. \A t \in Tasks : Stray(t) => Stray(t)'
    BY <1>1, <1>2, <1>4 DEF Stray
  <2>7. PlacesInStep'
    BY <1>0, <1>1, <1>4, <2>6 DEF Always, PlacesInStep
  <2> QED BY <2>1, <2>2, <2>3, <2>5, <2>7 DEF Always
<1>6. ToDo'
  <2>1. Lists'
    BY <1>0, <1>1, <1>4 DEF ToDo, Lists
  <2>2. Halfway'
    BY <1>0, <1>1 DEF Halfway, Whole
  <2>3. RowsToDo'
    <3>1. ASSUME NEW q \in Remotes
          PROVE  /\ (SameTitle(q) => SameTitle(q)') /\ (Waiting(q) => Waiting(q)')
      <4>1. CASE q = r
        BY <1>1, <1>3, <1>4, <4>1 DEF SameTitle, Waiting
      <4>2. CASE q # r
        <5>1. \A j \in Copies(q) : local'[j] = local[j]
          BY <1>3, <4>2 DEF Copies, Locals
        <5>2. Copies(q)' = Copies(q)
          BY <1>4, <4>2
        <5> QED BY <1>1, <5>1, <5>2 DEF SameTitle, Waiting
      <4> QED BY <4>1, <4>2
    <3>2. SameTitle(r)'
      BY <1>1, <1>3, <1>4 DEF SameTitle
    <3>3. \A j \in Locals' : local'[j].tid \in Remotes' \/ j \in pushes' \cup erases'
      BY <1>0, <1>1, <1>2, <1>3, <1>4 DEF ToDo, RowsToDo, Locals
    <3>4. ASSUME NEW q \in Remotes, remote[q].deleted
          PROVE  \/ Copies(q)' = {} \/ q \in drops \/ \E j \in Copies(q)' : j \in erases
      BY <1>0, <1>2, <1>4, <3>4 DEF ToDo, RowsToDo
    <3>5. ASSUME NEW q \in Remotes, ~remote[q].deleted
          PROVE  SameTitle(q)' \/ Waiting(q)' \/ q \in pulls' \/ (half.op = "tid" /\ half.remote = q)
      BY <1>0, <1>1, <3>1, <3>2, <3>5 DEF ToDo, RowsToDo
    <3>6. \A q \in updated \ pulls' : remote[q].deleted \/ SameTitle(q)'
      BY <1>0, <1>1, <3>1, <3>2 DEF ToDo, RowsToDo, Lists
    <3> QED BY <1>1, <1>4, <3>3, <3>4, <3>5, <3>6 DEF RowsToDo
  <2>4. PlacesToDo'
    <3>1. \A t \in Tasks : Stray(t) => Stray(t)'
      BY <1>1, <1>2, <1>4 DEF Stray
    <3>2. \A t \in Tasks : ~Moving(t)
      BY <1>0 DEF Moving, Whole
    <3>3. PlacesToDo
      BY <1>0 DEF ToDo
    <3>4. UNCHANGED <<home, rhome, taskPulls, taskPushes, taskUpdated>>
      BY <1>1 DEF tasks
    <3>5. taskUpdated \subseteq Tasks
      BY DEF Inv, TypeInv, TypeOK
    <3> QED BY <3>1, <3>2, <3>3, <3>4, <3>5 DEF PlacesToDo
  <2> QED BY <2>1, <2>2, <2>3, <2>4 DEF ToDo
<1> QED BY <1>0, <1>1, <1>5, <1>6, Applies

\* The server's new row waits for the client's row to take its id.
LEMMA PushNewSteps ==
  ASSUME Inv, TypeInv', TiesInv', NEW i \in LocalIds, NEW r \in RemoteIds, PushNew(i, r), ~Refuse
  PROVE  StepInv'
<1>0. pc = "apply" /\ half = Whole /\ Always /\ ToDo /\ i \in pushes /\ pulls = {}
  BY DEF Inv, StepInv, PushNew, Pushing, Applying, Always
<1>1. /\ remote' = [remote EXCEPT ![r] = [exists |-> TRUE,
             title |-> local[i].title, changed |-> TRUE, deleted |-> FALSE]]
      /\ local[i].tid \notin Remotes /\ r \notin Remotes
      /\ half' = [op |-> "tid", local |-> i, remote |-> r]
      /\ pc' = "apply"
      /\ UNCHANGED <<local, home, homeChanged, rhome, rhomeChanged, lists, tasks, map>>
  BY <1>0 DEF PushNew, Silent, program, NextRemote
<1>2. /\ remote \in [RemoteIds -> RemoteRow]
      /\ \A q : q \in Remotes <=> q \in RemoteIds /\ remote[q].exists
      /\ \A j \in Locals : local[j].tid \in Remotes \/ local[j].tid >= TempBase
      /\ \A q \in RemoteIds : ~(q >= TempBase)
      /\ taskUpdated \subseteq Tasks
  BY Facts DEF Inv, TypeInv, TypeOK
<1>3. /\ \A q \in RemoteIds \ {r} : remote'[q] = remote[q]
      /\ remote'[r].exists /\ remote'[r].changed /\ ~remote'[r].deleted
      /\ remote'[r].title = local[i].title /\ ~remote[r].exists
  BY <1>1, <1>2
<1>4. Always' /\ Remotes' = Remotes \cup {r} /\ \A t \in Tasks : Stray(t) => Stray(t)'
  BY <1>1, <1>3, WrittenThere
<1>5. Locals' = Locals /\ \A x : Copies(x)' = Copies(x)
  BY <1>1 DEF Locals, Copies
<1>6. \A q \in Remotes : q # r /\ remote'[q] = remote[q]
  BY <1>1, <1>2, <1>3
<1>7. Lists'
  BY <1>0, <1>1, <1>4, <1>5, <1>6 DEF ToDo, Lists, lists
<1>8. Halfway'
  <2>1. i \in Locals
    BY <1>0 DEF ToDo, Lists
  <2>2. local[i].tid # r
    BY <1>2, <1>1, <2>1
  <2> QED BY <1>0, <1>1, <1>3, <1>4, <2>2 DEF Halfway, lists
<1>9. RowsToDo'
  <2>1. \A q \in Remotes : /\ (SameTitle(q) => SameTitle(q)')
                           /\ (Waiting(q) => Waiting(q)')
    BY <1>1, <1>5, <1>6 DEF SameTitle, Waiting, lists
  <2>2. half'.op = "tid" /\ half'.remote = r
    BY <1>1
  <2>3. ASSUME NEW q \in Remotes, remote[q].deleted
        PROVE  Copies(q)' = {} \/ q \in drops' \/ \E j \in Copies(q)' : j \in erases'
    BY <1>0, <1>1, <1>5, <2>3 DEF ToDo, RowsToDo, lists
  <2>4. ASSUME NEW q \in Remotes, ~remote[q].deleted
        PROVE  SameTitle(q)' \/ Waiting(q)' \/ q \in pulls'
    BY <1>0, <1>1, <2>1, <2>4 DEF ToDo, RowsToDo, Whole, lists
  <2>5. \A q \in updated' \ pulls' : remote'[q].deleted \/ SameTitle(q)'
    BY <1>0, <1>1, <1>6, <2>1 DEF ToDo, RowsToDo, Lists, lists
  <2>6. \A j \in Locals' : local'[j].tid \in Remotes' \/ j \in pushes' \cup erases'
    BY <1>0, <1>1, <1>4, <1>5 DEF ToDo, RowsToDo, lists
  <2> QED BY <1>3, <1>4, <1>6, <2>2, <2>3, <2>4, <2>5, <2>6 DEF RowsToDo
<1>10. PlacesToDo'
  <2>1. \A t \in Tasks : ~Moving(t)
    BY <1>0 DEF Moving, Whole
  <2>2. UNCHANGED <<home, rhome, taskPulls, taskPushes, taskUpdated>>
    BY <1>1 DEF tasks
  <2> QED BY <1>0, <1>2, <1>4, <2>1, <2>2 DEF ToDo, PlacesToDo
<1> QED BY <1>0, <1>1, <1>4, <1>7, <1>8, <1>9, <1>10, Applies DEF ToDo

\* A client's row takes the id of the row that was made for it.
LEMMA PushTidSteps ==
  ASSUME Inv, TypeInv', TiesInv', PushTid
  PROVE  StepInv'
<1>0. pc = "apply" /\ half.op = "tid" /\ Always /\ ToDo
  BY DEF Inv, StepInv, PushTid, Always
<1>a. PICK i \in Locals, r \in Remotes : i = half.local /\ r = half.remote
  BY <1>0 DEF ToDo, Halfway, Lists
<1>1. /\ local' = [local EXCEPT ![i].tid = r, ![i].changed = TRUE]
      /\ pushes' = pushes \ {i} /\ half' = Whole /\ pc' = "apply"
      /\ UNCHANGED <<remote, home, homeChanged, rhome, rhomeChanged, map,
                     updated, pulls, drops, erases, tasks>>
  BY <1>a DEF PushTid, Silent, program
<1>2. /\ local \in [LocalIds -> LocalRow]
      /\ \A j \in Locals : local[j].tid \in Remotes \/ local[j].tid >= TempBase
      /\ taskUpdated \subseteq Tasks
  BY Facts DEF Inv, TypeInv, TypeOK
<1>3. /\ i \in pushes /\ i \in Locals /\ i \in LocalIds /\ r \in Remotes /\ ~remote[r].deleted
      /\ local[i].tid \notin Remotes /\ local[i].tid >= TempBase
      /\ remote[r].title = local[i].title /\ Copies(r) = {} /\ pulls = {}
  <2>1. /\ i \in pushes /\ r \in Remotes /\ ~remote[r].deleted /\ local[i].tid \notin Remotes
        /\ remote[r].title = local[i].title
    BY <1>0, <1>a DEF ToDo, Halfway
  <2>2. pulls = {}
    BY <1>0 DEF ToDo, Halfway, Whole
  <2>3. Copies(r) = {}
    BY <1>0, <1>a DEF Inv, TiesInv
  <2>4. i \in LocalIds
    BY DEF Locals
  <2> QED BY <1>2, <2>1, <2>2, <2>3, <2>4
<1>4. /\ local'[i].tid = r /\ local'[i].changed /\ local'[i].exists
      /\ local'[i].title = local[i].title
      /\ \A j \in LocalIds \ {i} : local'[j] = local[j]
  <2>1. local'[i] = [local[i] EXCEPT !.tid = r, !.changed = TRUE]
    BY <1>1, <1>2, <1>3
  <2>2. local[i] \in LocalRow /\ local[i].exists
    BY <1>2, <1>3 DEF Locals
  <2>3. /\ local'[i].tid = r /\ local'[i].changed /\ local'[i].exists
        /\ local'[i].title = local[i].title
    BY <2>1, <2>2 DEF LocalRow
  <2>4. \A j \in LocalIds \ {i} : local'[j] = local[j]
    BY <1>1, <1>2
  <2> QED BY <2>3, <2>4
<1>5. /\ Locals' = Locals /\ Remotes' = Remotes
      /\ Copies(r)' = {i}
      /\ \A x \in Remotes \ {r} : Copies(x)' = Copies(x) /\ i \notin Copies(x)
      /\ \A x : x # r => Copies(x) \ {i} \subseteq Copies(x)'
      /\ \A j \in Locals \ {i} : local'[j] = local[j]
  <2>1. Locals' = Locals /\ Remotes' = Remotes
    BY <1>1, <1>3, <1>4 DEF Locals, Remotes
  <2>2. \A j \in Locals \ {i} : local'[j] = local[j]
    BY <1>4 DEF Locals
  <2>3. Copies(r)' = {i}
    <3>1. \A j \in Locals \ {i} : local'[j].tid # r
      BY <1>3, <2>2 DEF Copies
    <3> QED BY <1>3, <1>4, <2>1, <3>1 DEF Copies
  <2>4. ASSUME NEW x \in Remotes \ {r} PROVE Copies(x)' = Copies(x) /\ i \notin Copies(x)
    BY <1>3, <1>4, <2>1, <2>2 DEF Copies
  <2>5. ASSUME NEW x PROVE Copies(x) \ {i} \subseteq Copies(x)'
    BY <2>1, <2>2 DEF Copies
  <2> QED BY <2>1, <2>2, <2>3, <2>4, <2>5
<1>6. \A t \in Tasks : Stray(t) => Stray(t)'
  BY <1>1, <1>3, <1>5 DEF Stray
<1>7. Always'
  <2>1. DefaultStays'
    <3>1. Default # i /\ Default \in LocalIds
      BY <1>0, <1>3, Facts DEF Always, DefaultStays, Inv, Remotes
    <3> QED BY <1>0, <1>1, <1>4, <3>1 DEF Always, DefaultStays
  <2>2. NoTid'
    BY <1>0, <1>3, <1>4, <1>5 DEF Always, NoTid
  <2>3. RowsInStep'
    <3>1. ASSUME NEW q \in Remotes, ~remote[q].changed
          PROVE  IF remote[q].deleted THEN Copies(q)' = {}
                 ELSE \E j \in Copies(q)' : local'[j].changed \/ local'[j].title = remote[q].title
      <4>1. CASE q = r
        BY <1>3, <1>4, <1>5, <4>1
      <4>2. CASE q # r
        <5>1. Copies(q)' = Copies(q) /\ \A j \in Copies(q) : local'[j] = local[j]
          BY <1>5, <4>2 DEF Copies
        <5> QED BY <1>0, <3>1, <5>1 DEF Always, RowsInStep
      <4> QED BY <4>1, <4>2
    <3>2. \A j \in Locals : ~local'[j].changed => local'[j].tid \in Remotes
      <4>1. \A j \in Locals \ {i} : ~local[j].changed => local[j].tid \in Remotes
        BY <1>0 DEF Always, RowsInStep
      <4> QED BY <1>4, <1>5, <4>1
    <3>3. UNCHANGED remote /\ Locals' = Locals /\ Remotes' = Remotes
      BY <1>1, <1>5
    <3> QED BY <3>1, <3>2, <3>3 DEF RowsInStep
  <2>4. ASSUME NEW x, Known(x) PROVE Known(x)'
    <3>1. CASE x = local[i].tid
      BY <1>3, <3>1 DEF Known
    <3>2. CASE x # local[i].tid /\ x # r
      <4>1. i \notin Copies(x)
        BY <3>2 DEF Copies
      <4> QED BY <1>1, <1>5, <2>4, <3>2, <4>1 DEF Known
    <3>3. CASE x = r
      BY <1>5, <3>3 DEF Known
    <3> QED BY <3>1, <3>2, <3>3
  <2>5. Places'
    BY <1>0, <1>1, <2>4 DEF Always, Places, Known
  <2>6. PlacesInStep'
    BY <1>0, <1>1, <1>5, <1>6 DEF Always, PlacesInStep
  <2> QED BY <2>1, <2>2, <2>3, <2>5, <2>6 DEF Always
<1>8. ToDo'
  <2>1. Lists'
    BY <1>0, <1>1, <1>5 DEF ToDo, Lists
  <2>2. Halfway'
    BY <1>1 DEF Halfway, Whole
  <2>3. RowsToDo'
    <3>1. ASSUME NEW q \in Remotes \ {r}
          PROVE  /\ (SameTitle(q) => SameTitle(q)') /\ (Waiting(q) => Waiting(q)')
      <4>1. Copies(q)' = Copies(q) /\ \A j \in Copies(q) : local'[j] = local[j] /\ j # i
        BY <1>5 DEF Copies
      <4> QED BY <1>1, <4>1 DEF SameTitle, Waiting
    <3>2. SameTitle(r)'
      BY <1>1, <1>3, <1>4, <1>5 DEF SameTitle
    <3>3. \A j \in Locals : local'[j].tid \in Remotes \/ j \in pushes' \cup erases
      <4>1. \A j \in Locals : local[j].tid \in Remotes \/ j \in pushes \cup erases
        BY <1>0 DEF ToDo, RowsToDo
      <4>2. local'[i].tid \in Remotes
        BY <1>3, <1>4
      <4>3. \A j \in Locals \ {i} : local'[j] = local[j] /\ (j \in pushes => j \in pushes')
        BY <1>1, <1>5
      <4> QED BY <4>1, <4>2, <4>3
    <3>4. ASSUME NEW q \in Remotes, remote[q].deleted
          PROVE  \/ Copies(q)' = {} \/ q \in drops \/ \E j \in Copies(q)' : j \in erases
      BY <1>0, <1>3, <1>5, <3>4 DEF ToDo, RowsToDo
    <3>5. ASSUME NEW q \in Remotes, ~remote[q].deleted
          PROVE  SameTitle(q)' \/ Waiting(q)' \/ q \in pulls
      BY <1>0, <1>a, <3>1, <3>2, <3>5 DEF ToDo, RowsToDo
    <3>6. \A q \in updated \ pulls : remote[q].deleted \/ SameTitle(q)'
      BY <1>0, <3>1, <3>2 DEF ToDo, RowsToDo, Lists
    <3> QED BY <1>1, <1>5, <3>3, <3>4, <3>5, <3>6 DEF RowsToDo
  <2>4. PlacesToDo'
    <3>1. \A t \in Tasks : ~Moving(t)
      BY <1>0 DEF Moving
    <3>2. UNCHANGED <<home, rhome, taskPulls, taskPushes, taskUpdated>>
      BY <1>1 DEF tasks
    <3> QED BY <1>0, <1>2, <1>6, <3>1, <3>2 DEF ToDo, PlacesToDo
  <2> QED BY <2>1, <2>2, <2>3, <2>4 DEF ToDo
<1> QED BY <1>0, <1>1, <1>7, <1>8, Applies

LEMMA PushUpdateSteps ==
  ASSUME Inv, TypeInv', TiesInv', NEW i \in LocalIds, PushUpdate(i), ~Refuse
  PROVE  StepInv'
<1>0. pc = "apply" /\ half = Whole /\ Always /\ ToDo /\ i \in pushes /\ pulls = {}
  BY DEF Inv, StepInv, PushUpdate, Pushing, Applying, Always
<1>a. PICK r \in Remotes : r = local[i].tid /\ r \notin updated
  BY DEF PushUpdate
<1>1. /\ remote' = [remote EXCEPT ![r] = Retitled(remote[r], local[i].title)]
      /\ pushes' = pushes \ {i} /\ pc' = "apply"
      /\ UNCHANGED <<local, home, homeChanged, rhome, rhomeChanged, half, map,
                     updated, pulls, drops, erases, tasks>>
  BY <1>0, <1>a DEF PushUpdate, Silent, program
<1>2. /\ remote \in [RemoteIds -> RemoteRow] /\ i \in Copies(r) /\ r \in RemoteIds
      /\ remote[r].exists /\ local[i].title \in Titles
      /\ taskUpdated \subseteq Tasks
  <2>1. i \in Locals
    BY <1>0 DEF ToDo, Lists
  <2>2. local \in [LocalIds -> LocalRow] /\ remote \in [RemoteIds -> RemoteRow]
        /\ taskUpdated \subseteq Tasks
    BY Facts DEF Inv, TypeInv, TypeOK
  <2> QED BY <1>a, <2>1, <2>2 DEF Copies, Remotes, LocalRow
<1>3. /\ \A q \in RemoteIds \ {r} : remote'[q] = remote[q]
      /\ remote'[r].exists /\ remote'[r].deleted = remote[r].deleted
      /\ remote'[r].title = local[i].title
      /\ remote' = remote \/ remote'[r].changed
  <2>1. remote'[r] = Retitled(remote[r], local[i].title) /\ remote[r] \in RemoteRow
    BY <1>1, <1>2
  <2>2. /\ remote'[r].exists /\ remote'[r].deleted = remote[r].deleted
        /\ remote'[r].title = local[i].title
        /\ remote[r].title # local[i].title => remote'[r].changed
    BY <1>2, <2>1 DEF Retitled, RemoteRow
  <2>3. \A q \in RemoteIds \ {r} : remote'[q] = remote[q]
    BY <1>1, <1>2
  <2>4. remote[r].title = local[i].title => remote' = remote
    <3>1. SUFFICES ASSUME remote[r].title = local[i].title PROVE remote' = remote
      OBVIOUS
    <3>2. Retitled(remote[r], local[i].title) = remote[r]
      BY <2>1, <3>1 DEF Retitled, RemoteRow
    <3> QED BY <1>1, <1>2, <3>2
  <2> QED BY <2>2, <2>3, <2>4
<1>4. Always' /\ Remotes' = Remotes /\ \A t \in Tasks : Stray(t) => Stray(t)'
  <2>1. CASE remote' = remote
    <3>1. /\ Remotes' = Remotes /\ \A x : Copies(x)' = Copies(x)
          /\ \A x : Known(x) => Known(x)'
      BY <1>1, <2>1, SameRows
    <3>2. Places'
      BY <1>0, <1>1, <3>1 DEF Always, Places, Known
    <3>3. PlacesInStep' /\ \A t \in Tasks : Stray(t) => Stray(t)'
      BY <1>0, <1>1, <2>1, <3>1 DEF Always, PlacesInStep, Stray
    <3> QED BY <1>1, <2>1, <3>1, <3>2, <3>3, SameStep DEF Always
  <2>2. CASE remote'[r].changed
    <3>1. r = Default => ~remote'[r].deleted
      BY <1>0, <1>3 DEF Always, DefaultStays
    <3>2. Always' /\ Remotes' = Remotes \cup {r} /\ \A t \in Tasks : Stray(t) => Stray(t)'
      BY <1>1, <1>2, <1>3, <2>2, <3>1, WrittenThere
    <3> QED BY <3>2
  <2> QED BY <1>3, <2>1, <2>2
<1>5. Locals' = Locals /\ \A x : Copies(x)' = Copies(x)
  BY <1>1 DEF Locals, Copies
<1>6. \A q \in Remotes : /\ remote'[q].deleted = remote[q].deleted
                         /\ q # r => remote'[q] = remote[q]
  BY <1>3 DEF Remotes
<1>7. Lists'
  BY <1>0, <1>1, <1>4, <1>5, <1>6 DEF ToDo, Lists
<1>8. Halfway'
  BY <1>0, <1>1 DEF Halfway, Whole
<1>9. RowsToDo'
  <2>1. ASSUME NEW q \in Remotes \ {r}
        PROVE  /\ (SameTitle(q) => SameTitle(q)') /\ (Waiting(q) => Waiting(q)')
    <3>1. i \notin Copies(q)
      BY <1>2 DEF Copies
    <3> QED BY <1>1, <1>5, <1>6, <3>1 DEF SameTitle, Waiting
  <2>2. SameTitle(r)'
    BY <1>1, <1>2, <1>3, <1>5 DEF SameTitle
  <2>3. ASSUME NEW q \in Remotes, remote[q].deleted
        PROVE  Copies(q)' = {} \/ q \in drops' \/ \E j \in Copies(q)' : j \in erases'
    BY <1>0, <1>1, <1>5, <2>3 DEF ToDo, RowsToDo
  <2>4. ASSUME NEW q \in Remotes, ~remote[q].deleted
        PROVE  SameTitle(q)' \/ Waiting(q)' \/ q \in pulls'
    BY <1>0, <1>1, <2>1, <2>2, <2>4 DEF ToDo, RowsToDo, Whole
  <2>5. \A q \in updated' \ pulls' : remote'[q].deleted \/ SameTitle(q)'
    BY <1>0, <1>1, <1>6, <2>1, <2>2 DEF ToDo, RowsToDo, Lists
  <2>6. \A j \in Locals' : local'[j].tid \in Remotes' \/ j \in pushes' \cup erases'
    BY <1>0, <1>a, <1>1, <1>4, <1>5 DEF ToDo, RowsToDo
  <2> QED BY <1>4, <1>6, <2>3, <2>4, <2>5, <2>6 DEF RowsToDo
<1>10. PlacesToDo'
  <2>1. \A t \in Tasks : ~Moving(t)
    BY <1>0 DEF Moving, Whole
  <2>2. UNCHANGED <<home, rhome, taskPulls, taskPushes, taskUpdated>>
    BY <1>1 DEF tasks
  <2> QED BY <1>0, <1>2, <1>4, <2>1, <2>2 DEF ToDo, PlacesToDo
<1> QED BY <1>0, <1>1, <1>4, <1>7, <1>8, <1>9, <1>10, Applies DEF ToDo

\* Steps that leave the rows and their lists alone, or a row to drop that is gone.
LEMMA SameRowsToDo ==
  ASSUME RowsToDo, half.op # "tid",
         UNCHANGED <<local, remote, updated, pulls, pushes, erases>>,
         \A r \in drops \ drops' : Copies(r) = {}
  PROVE  RowsToDo'
<1>1. Locals' = Locals /\ Remotes' = Remotes /\ \A x : Copies(x)' = Copies(x)
  BY SameRows
<1>2. \A r : (SameTitle(r) => SameTitle(r)') /\ (Waiting(r) => Waiting(r)')
  BY <1>1 DEF SameTitle, Waiting
<1>3. ASSUME NEW r \in Remotes, remote[r].deleted
      PROVE  Copies(r) = {} \/ r \in drops' \/ \E i \in Copies(r) : i \in erases
  BY <1>3 DEF RowsToDo
<1>4. ASSUME NEW r \in Remotes, ~remote[r].deleted
      PROVE  SameTitle(r)' \/ Waiting(r)' \/ r \in pulls
  BY <1>2, <1>4 DEF RowsToDo
<1>5. \A r \in updated \ pulls : remote[r].deleted \/ SameTitle(r)'
  BY <1>2 DEF RowsToDo
<1>6. \A i \in Locals : local[i].tid \in Remotes \/ i \in pushes \cup erases
  BY DEF RowsToDo
<1> QED BY <1>1, <1>3, <1>4, <1>5, <1>6 DEF RowsToDo

LEMMA PushSkipSteps ==
  ASSUME Inv, TypeInv', TiesInv', NEW i \in LocalIds, PushSkip(i)
  PROVE  StepInv'
<1>0. pc = "apply" /\ half = Whole /\ Always /\ ToDo /\ i \in pushes /\ pulls = {}
      /\ local[i].tid \in updated
  BY DEF Inv, StepInv, PushSkip, Pushing, Applying, Always
<1>1. /\ pushes' = pushes \ {i} /\ pc' = "apply"
      /\ UNCHANGED <<local, remote, home, homeChanged, rhome, rhomeChanged, half, map,
                     updated, pulls, drops, erases, tasks>>
  BY <1>0 DEF PushSkip, Silent, program, tables
<1>2. taskUpdated \subseteq Tasks
  BY DEF Inv, TypeInv, TypeOK
<1>3. /\ Locals' = Locals /\ Remotes' = Remotes /\ \A x : Copies(x)' = Copies(x)
      /\ \A x : Known(x) => Known(x)'
  BY <1>1, SameRows
<1>4. Always' /\ \A t \in Tasks : Stray(t) => Stray(t)'
  <2>1. Places'
    BY <1>0, <1>1, <1>3 DEF Always, Places, Known
  <2>2. PlacesInStep' /\ \A t \in Tasks : Stray(t) => Stray(t)'
    BY <1>0, <1>1, <1>3 DEF Always, PlacesInStep, Stray
  <2> QED BY <1>1, <2>1, <2>2, SameStep DEF Always
<1>5. Lists' /\ Halfway'
  BY <1>0, <1>1, <1>3 DEF ToDo, Lists, Halfway, Whole
<1>6. RowsToDo'
  <2>1. ASSUME NEW r \in Remotes, ~remote[r].deleted
        PROVE  SameTitle(r)' \/ Waiting(r)'
    <3>1. CASE r = local[i].tid
      BY <1>0, <1>1, <1>3, <2>1, <3>1 DEF ToDo, RowsToDo, SameTitle
    <3>2. CASE r # local[i].tid
      <4>1. i \notin Copies(r)
        BY <3>2 DEF Copies
      <4>2. SameTitle(r) \/ Waiting(r)
        BY <1>0, <2>1 DEF ToDo, RowsToDo, Whole
      <4> QED BY <1>1, <1>3, <4>1, <4>2 DEF SameTitle, Waiting
    <3> QED BY <3>1, <3>2
  <2>2. ASSUME NEW r \in Remotes, remote[r].deleted
        PROVE  Copies(r) = {} \/ r \in drops \/ \E j \in Copies(r) : j \in erases
    BY <1>0, <2>2 DEF ToDo, RowsToDo
  <2>3. \A r \in updated \ pulls : remote[r].deleted \/ SameTitle(r)'
    BY <1>0, <1>1, <1>3 DEF ToDo, RowsToDo, SameTitle
  <2>4. \A j \in Locals : local[j].tid \in Remotes \/ j \in pushes' \cup erases
    BY <1>0, <1>1 DEF ToDo, RowsToDo, Lists
  <2> QED BY <1>1, <1>3, <2>1, <2>2, <2>3, <2>4 DEF RowsToDo
<1>7. PlacesToDo'
  <2>1. \A t \in Tasks : ~Moving(t)
    BY <1>0 DEF Moving, Whole
  <2>2. UNCHANGED <<home, rhome, taskPulls, taskPushes, taskUpdated>>
    BY <1>1 DEF tasks
  <2> QED BY <1>0, <1>2, <1>4, <2>1, <2>2 DEF ToDo, PlacesToDo
<1> QED BY <1>0, <1>1, <1>4, <1>5, <1>6, <1>7, Applies DEF ToDo

-----------------------------------------------------------------------------
(* The sync: the tasks                                                     *)

LEMMA PullTaskSteps ==
  ASSUME Inv, TypeInv', TiesInv', NEW t \in Tasks, PullTask(t)
  PROVE  StepInv'
<1>0. pc = "apply" /\ half = Whole /\ Always /\ ToDo /\ pulls = {} /\ pushes = {}
      /\ t \in taskPulls
  BY DEF Inv, StepInv, PullTask, Applying, Always
<1>1. /\ home' = [home EXCEPT ![t] = rhome[t]] /\ homeChanged' = homeChanged \cup {t}
      /\ taskPulls' = taskPulls \ {t} /\ pc' = "apply"
      /\ UNCHANGED <<local, remote, rhome, rhomeChanged, half, map,
                     updated, pulls, pushes, drops, erases, taskUpdated, taskPushes>>
  BY <1>0 DEF PullTask, Silent, program, lists
<1>2. taskUpdated \subseteq Tasks /\ home \in [Tasks -> Tids]
  BY Facts DEF Inv, TypeInv, TypeOK
<1>3. /\ Locals' = Locals /\ Remotes' = Remotes /\ \A x : Copies(x)' = Copies(x)
      /\ \A x : Known(x) => Known(x)'
  BY <1>1, SameRows
<1>4. home'[t] = rhome[t] /\ \A u \in Tasks \ {t} : home'[u] = home[u]
  BY <1>1, <1>2
<1>5. Known(rhome[t])
  <2>1. rhome[t] \in Remotes
    BY <1>0 DEF Always, PlacesInStep
  <2>2. ~remote[rhome[t]].deleted => SameTitle(rhome[t]) \/ Waiting(rhome[t])
    BY <1>0, <2>1 DEF ToDo, RowsToDo, Whole
  <2> QED BY <2>1, <2>2 DEF Known, SameTitle, Waiting
<1>6. \A u \in Tasks \ {t} : Stray(u) => Stray(u)'
  BY <1>1, <1>3, <1>4 DEF Stray
<1>7. Always'
  <2>1. \A u \in Tasks : Known(home[u])'
    <3>1. ASSUME NEW u \in Tasks PROVE Known(home'[u])
      BY <1>0, <1>4, <1>5 DEF Always, Places
    <3>2. ASSUME NEW u \in Tasks PROVE Known(home[u])'
      BY <1>1, <1>3, <3>1 DEF Known
    <3> QED BY <3>2
  <2>2. Places'
    BY <1>0, <1>1, <1>3, <2>1 DEF Always, Places, Known
  <2>3. PlacesInStep'
    BY <1>0, <1>1, <1>3, <1>4, <1>6 DEF Always, PlacesInStep
  <2> QED BY <1>1, <2>2, <2>3, SameStep DEF Always
<1>8. Lists' /\ Halfway' /\ RowsToDo'
  <2>1. RowsToDo'
    BY <1>0, <1>1, SameRowsToDo DEF ToDo, Whole
  <2> QED BY <1>0, <1>1, <1>3, <2>1 DEF ToDo, Lists, Halfway, Whole
<1>9. PlacesToDo'
  <2>1. \A u \in Tasks : ~Moving(u)
    BY <1>0 DEF Moving, Whole
  <2> QED BY <1>0, <1>1, <1>2, <1>4, <1>6, <2>1 DEF ToDo, PlacesToDo
<1> QED BY <1>0, <1>1, <1>7, <1>8, <1>9, Applies DEF ToDo

LEMMA PushTaskSteps ==
  ASSUME Inv, TypeInv', TiesInv', NEW t \in Tasks, PushTask(t), ~Refuse
  PROVE  StepInv'
<1>0. pc = "apply" /\ half = Whole /\ Always /\ ToDo /\ pulls = {} /\ pushes = {}
      /\ taskPulls = {} /\ t \in taskPushes
  BY DEF Inv, StepInv, PushTask, Applying, Always
<1>1. /\ t \in taskUpdated \/ home[t] \in Remotes
      /\ rhome' = [rhome EXCEPT ![t] = IF t \in taskUpdated THEN rhome[t] ELSE home[t]]
      /\ rhomeChanged' = rhomeChanged \cup {t}
      /\ taskPushes' = taskPushes \ {t} /\ pc' = "apply"
      /\ UNCHANGED <<local, remote, home, homeChanged, half, map,
                     updated, pulls, pushes, drops, erases, taskUpdated, taskPulls>>
  BY <1>0 DEF PushTask, Silent, program, lists
<1>2. taskUpdated \subseteq Tasks /\ rhome \in [Tasks -> RemoteIds]
  BY Facts DEF Inv, TypeInv, TypeOK
<1>3. /\ Locals' = Locals /\ Remotes' = Remotes /\ \A x : Copies(x)' = Copies(x)
      /\ \A x : Known(x) => Known(x)'
  BY <1>1, SameRows
<1>4. /\ rhome'[t] = IF t \in taskUpdated THEN rhome[t] ELSE home[t]
      /\ \A u \in Tasks \ {t} : rhome'[u] = rhome[u]
  BY <1>1, <1>2
<1>5. \A u \in Tasks : Stray(u) => Stray(u)'
  BY <1>1, <1>3 DEF Stray
<1>6. Always'
  <2>1. Places'
    BY <1>0, <1>1, <1>3 DEF Always, Places, Known
  <2>2. PlacesInStep'
    BY <1>0, <1>1, <1>3, <1>4, <1>5 DEF Always, PlacesInStep
  <2> QED BY <1>1, <2>1, <2>2, SameStep DEF Always
<1>7. Lists' /\ Halfway' /\ RowsToDo'
  <2>1. RowsToDo'
    BY <1>0, <1>1, SameRowsToDo DEF ToDo, Whole
  <2> QED BY <1>0, <1>1, <1>3, <2>1 DEF ToDo, Lists, Halfway, Whole
<1>8. PlacesToDo'
  <2>1. \A u \in Tasks : ~Moving(u)
    BY <1>0 DEF Moving, Whole
  <2> QED BY <1>0, <1>1, <1>2, <1>4, <1>5, <2>1 DEF ToDo, PlacesToDo
<1> QED BY <1>0, <1>1, <1>6, <1>7, <1>8, Applies DEF ToDo

-----------------------------------------------------------------------------
(* The sync: containers deleted on the server                              *)

LEMMA DropTasksSteps ==
  ASSUME Inv, TypeInv', TiesInv', NEW r \in RemoteIds, DropTasks(r)
  PROVE  StepInv'
<1>0. pc = "apply" /\ half = Whole /\ Always /\ ToDo /\ TasksDone /\ r \in drops
  BY DEF Inv, StepInv, DropTasks, Applying, Always
<1>1. /\ rhome' = [t \in Tasks |-> IF rhome[t] = r THEN Default ELSE rhome[t]]
      /\ rhomeChanged' = rhomeChanged \cup {t \in Tasks : rhome[t] = r}
      /\ half' = [op |-> "drop", local |-> None, remote |-> r] /\ pc' = "apply"
      /\ UNCHANGED <<local, remote, home, homeChanged, map, updated, pulls, pushes, drops,
                     erases, taskUpdated, taskPulls, taskPushes>>
  BY <1>0 DEF DropTasks, EmptyThere, Emptied, TasksOf, Silent, program, lists, tasks
<1>2. taskUpdated \subseteq Tasks
  BY DEF Inv, TypeInv, TypeOK
<1>3. /\ Locals' = Locals /\ Remotes' = Remotes /\ \A x : Copies(x)' = Copies(x)
      /\ \A x : Known(x) => Known(x)'
  BY <1>1, SameRows
<1>4. r # Default /\ Default \in Remotes
  BY <1>0, Facts DEF Always, DefaultStays, ToDo, Lists, Inv
<1>5. \A t \in Tasks : Stray(t) => Stray(t)'
  BY <1>1, <1>3 DEF Stray
<1>6. Always'
  <2>1. Places'
    BY <1>0, <1>1, <1>3 DEF Always, Places, Known
  <2>2. PlacesInStep'
    BY <1>0, <1>1, <1>3, <1>4, <1>5 DEF Always, PlacesInStep
  <2> QED BY <1>1, <2>1, <2>2, SameStep DEF Always
<1>7. Lists' /\ Halfway' /\ RowsToDo'
  <2>1. RowsToDo'
    BY <1>0, <1>1, SameRowsToDo DEF ToDo, Whole
  <2>2. \A t \in Tasks : rhome'[t] # r
    BY <1>1, <1>4
  <2>3. TasksDone' /\ pulls' = {}
    BY <1>0, <1>1 DEF TasksDone
  <2>4. Halfway'
    BY <1>0, <1>1, <2>2, <2>3 DEF Halfway
  <2> QED BY <1>0, <1>1, <1>3, <2>1, <2>4 DEF ToDo, Lists
<1>8. PlacesToDo'
  <2>1. \A t \in Tasks : home[t] = rhome[t] \/ Stray(t)
    BY <1>0 DEF Moving, Whole, ToDo, PlacesToDo, TasksDone
  <2>2. ASSUME NEW t \in Tasks PROVE home'[t] = rhome'[t] \/ Stray(t)' \/ Moving(t)'
    <3>1. CASE rhome[t] = r
      <4>1. home[t] = r => Moving(t)'
        BY <1>1, <3>1 DEF Moving
      <4> QED BY <1>5, <2>1, <3>1, <4>1
    <3>2. CASE rhome[t] # r
      BY <1>1, <1>5, <2>1, <3>2
    <3> QED BY <3>1, <3>2
  <2> QED BY <1>0, <1>1, <1>2, <2>2 DEF ToDo, PlacesToDo
<1> QED BY <1>0, <1>1, <1>6, <1>7, <1>8, Applies DEF ToDo

LEMMA DropHereSteps ==
  ASSUME Inv, TypeInv', TiesInv', DropHere
  PROVE  StepInv'
<1>0. pc = "apply" /\ half.op = "drop" /\ Always /\ ToDo /\ TasksDone
  BY DEF Inv, StepInv, DropHere, Always, ToDo, Halfway
<1>a. PICK r \in Remotes : r = half.remote /\ r \in drops /\ remote[r].deleted
                          /\ \A t \in Tasks : rhome[t] # r
  BY <1>0 DEF ToDo, Halfway, Lists
<1>1. /\ pc' = "apply"
      /\ UNCHANGED <<local, remote, rhome, rhomeChanged, map, updated, pulls, pushes,
                     erases, taskUpdated, taskPulls, taskPushes>>
  BY <1>0 DEF DropHere, Silent, program, tasks
<1>2. taskUpdated \subseteq Tasks /\ home \in [Tasks -> Tids] /\ half \in Halves
  BY Facts, TypeParts DEF Inv, TypeInv, TypeOK, ListTypes
<1>3. /\ Locals' = Locals /\ Remotes' = Remotes /\ \A x : Copies(x)' = Copies(x)
      /\ \A x : Known(x) => Known(x)'
  BY <1>1, SameRows
<1>4. r # Default /\ Copies(Default) # {}
  BY <1>0, <1>a, Facts DEF Always, DefaultStays, Inv, Copies, Locals
<1>5. ASSUME NEW t \in Tasks
      PROVE  \/ home[t] = rhome[t]
             \/ Stray(t)
             \/ home[t] \in {r, Default} /\ rhome[t] = Default
  BY <1>0, <1>a DEF ToDo, PlacesToDo, Moving, TasksDone
<1>6. CASE Copies(r) = {}
  <2>1. /\ drops' = drops \ {r} /\ half' = Whole /\ UNCHANGED <<home, homeChanged>>
    BY <1>6, <1>a DEF DropHere
  <2>2. Always'
    <3>1. Places'
      BY <1>0, <1>1, <1>3, <2>1 DEF Always, Places, Known
    <3>2. PlacesInStep'
      BY <1>0, <1>1, <1>3, <2>1 DEF Always, PlacesInStep, Stray
    <3> QED BY <1>1, <3>1, <3>2, SameStep DEF Always
  <2>3. RowsToDo'
    BY <1>0, <1>1, <1>6, <2>1, SameRowsToDo DEF ToDo
  <2>4. Lists' /\ Halfway'
    BY <1>0, <1>1, <1>3, <2>1 DEF ToDo, Lists, Halfway, Whole
  <2>5. PlacesToDo'
    <3>1. ASSUME NEW t \in Tasks PROVE home'[t] = rhome'[t] \/ Stray(t)'
      <4>1. home[t] = r => Stray(t)
        BY <1>6, <1>a DEF Stray
      <4>2. Stray(t) => Stray(t)'
        BY <1>1, <1>3, <2>1 DEF Stray
      <4> QED BY <1>1, <1>5, <2>1, <4>1, <4>2
    <3> QED BY <1>0, <1>1, <1>2, <3>1 DEF ToDo, PlacesToDo
  <2> QED BY <1>0, <1>1, <2>2, <2>3, <2>4, <2>5, Applies DEF ToDo
<1>7. CASE Copies(r) # {}
  <2>1. /\ home' = [t \in Tasks |-> IF home[t] = r THEN Default ELSE home[t]]
        /\ homeChanged' = homeChanged \cup {t \in Tasks : home[t] = r}
        /\ half' = [half EXCEPT !.op = "dropRow"] /\ UNCHANGED drops
    BY <1>7, <1>a DEF DropHere, EmptyHere, Emptied, TasksOf
  <2>2. half'.op = "dropRow" /\ half'.remote = r /\ half' # Whole
    BY <1>2, <1>a, <2>1 DEF Halves, Whole
  <2>3. \A t \in Tasks : home'[t] = IF home[t] = r THEN Default ELSE home[t]
    BY <2>1
  <2>4. ASSUME NEW t \in Tasks PROVE (Stray(t) => Stray(t)') /\ ~(Stray(t) /\ home[t] = r)
    BY <1>1, <1>3, <1>7, <2>3 DEF Stray
  <2>5. Always'
    <3>1. \A t \in Tasks : Known(home'[t])
      BY <1>0, <1>4, <2>3 DEF Always, Places, Known
    <3>2. \A t \in Tasks : Known(home[t])'
      BY <1>1, <1>3, <3>1 DEF Known
    <3>3. Places'
      BY <1>0, <1>1, <1>3, <3>2 DEF Always, Places, Known
    <3>4. PlacesInStep'
      BY <1>0, <1>1, <1>3, <2>1, <2>3, <2>4 DEF Always, PlacesInStep
    <3> QED BY <1>1, <3>3, <3>4, SameStep DEF Always
  <2>6. RowsToDo'
    BY <1>0, <1>1, <2>1, SameRowsToDo DEF ToDo
  <2>7. Lists' /\ Halfway'
    <3>1. TasksDone' /\ pulls' = {}
      BY <1>0, <1>1 DEF TasksDone
    <3>2. \A t \in Tasks : home'[t] # r /\ rhome'[t] # r
      BY <1>a, <1>1, <1>4, <2>3
    <3>3. Halfway'
      BY <1>a, <2>1, <2>2, <3>1, <3>2 DEF Halfway
    <3> QED BY <1>0, <1>1, <1>3, <2>1, <3>3 DEF ToDo, Lists
  <2>8. PlacesToDo'
    <3>1. ASSUME NEW t \in Tasks PROVE home'[t] = rhome'[t] \/ Stray(t)'
      <4>1. CASE home[t] = r
        <5>1. rhome[t] = Default
          BY <1>a, <1>5, <2>4, <4>1
        <5> QED BY <1>1, <2>3, <4>1, <5>1
      <4>2. CASE home[t] # r
        BY <1>1, <1>5, <2>3, <2>4, <4>2
      <4> QED BY <4>1, <4>2
    <3> QED BY <1>0, <1>1, <1>2, <3>1 DEF ToDo, PlacesToDo
  <2> QED BY <1>0, <1>1, <2>5, <2>6, <2>7, <2>8, Applies DEF ToDo
<1> QED BY <1>6, <1>7

LEMMA DropSteps ==
  ASSUME Inv, TypeInv', TiesInv', Drop
  PROVE  StepInv'
<1>0. pc = "apply" /\ half.op = "dropRow" /\ Always /\ ToDo /\ TasksDone
  BY DEF Inv, StepInv, Drop, Always, ToDo, Halfway
<1>a. PICK r \in Remotes : r = half.remote /\ r \in drops /\ remote[r].deleted
                          /\ \A t \in Tasks : rhome[t] # r /\ home[t] # r
  BY <1>0 DEF ToDo, Halfway, Lists
<1>1. /\ local' = [i \in LocalIds |-> IF i \in Copies(r) THEN NoLocal ELSE local[i]]
      /\ drops' = drops \ {r} /\ half' = Whole /\ pc' = "apply"
      /\ UNCHANGED <<remote, home, homeChanged, rhome, rhomeChanged, map, updated, pulls,
                     pushes, erases, taskUpdated, taskPulls, taskPushes>>
  BY <1>0, <1>a DEF Drop, Silent, program, tasks
<1>2. taskUpdated \subseteq Tasks
  BY DEF Inv, TypeInv, TypeOK
<1>3. /\ \A i \in LocalIds \ Copies(r) : local'[i] = local[i]
      /\ \A i \in Copies(r) : ~local'[i].exists /\ local'[i].tid = None
  BY <1>1 DEF NoLocal, Copies, Locals
<1>4. /\ Locals' = Locals \ Copies(r) /\ Remotes' = Remotes
      /\ Copies(r)' = {}
      /\ \A x : x # r => Copies(x)' = Copies(x)
      /\ \A x : Copies(x)' \subseteq Copies(x)
      /\ \A i \in Locals \ Copies(r) : local'[i] = local[i]
  <2>1. Locals' = Locals \ Copies(r) /\ Remotes' = Remotes
    BY <1>1, <1>3 DEF Locals, Remotes
  <2>2. \A i \in Locals \ Copies(r) : local'[i] = local[i]
    BY <1>3 DEF Locals
  <2>3. Copies(r)' = {}
    BY <2>1, <2>2 DEF Copies
  <2>4. ASSUME NEW x, x # r PROVE Copies(x)' = Copies(x)
    BY <2>1, <2>2, <2>4 DEF Copies
  <2>5. ASSUME NEW x PROVE Copies(x)' \subseteq Copies(x)
    BY <2>1, <2>2 DEF Copies
  <2> QED BY <2>1, <2>2, <2>3, <2>4, <2>5
<1>5. \A t \in Tasks : Stray(t) => Stray(t)'
  BY <1>1, <1>4 DEF Stray
<1>6. Always'
  <2>1. DefaultStays'
    <3>1. Default \in LocalIds /\ Default \notin Copies(r)
      BY <1>0, <1>a, Facts DEF Always, DefaultStays, Copies, Inv
    <3> QED BY <1>0, <1>1, <1>3, <3>1 DEF Always, DefaultStays
  <2>2. NoTid'
    BY <1>0, <1>3, <1>4 DEF Always, NoTid
  <2>3. RowsInStep'
    <3>1. ASSUME NEW q \in Remotes, ~remote[q].changed
          PROVE  IF remote[q].deleted THEN Copies(q)' = {}
                 ELSE \E j \in Copies(q)' : local'[j].changed \/ local'[j].title = remote[q].title
      <4>1. CASE q = r
        BY <1>a, <1>4, <4>1
      <4>2. CASE q # r
        <5>1. Copies(q)' = Copies(q) /\ \A j \in Copies(q) : local'[j] = local[j]
          BY <1>4, <4>2 DEF Copies
        <5> QED BY <1>0, <3>1, <5>1 DEF Always, RowsInStep
      <4> QED BY <4>1, <4>2
    <3>2. \A j \in Locals' : ~local'[j].changed => local'[j].tid \in Remotes
      BY <1>0, <1>4 DEF Always, RowsInStep
    <3>3. UNCHANGED remote /\ Remotes' = Remotes
      BY <1>1, <1>4
    <3> QED BY <3>1, <3>2, <3>3 DEF RowsInStep
  <2>4. ASSUME NEW x, Known(x) PROVE Known(x)'
    <3>1. CASE x = r
      BY <1>a, <1>1, <1>4, <3>1 DEF Known
    <3>2. CASE x # r
      BY <1>1, <1>4, <2>4, <3>2 DEF Known
    <3> QED BY <3>1, <3>2
  <2>5. Places'
    BY <1>0, <1>1, <2>4 DEF Always, Places, Known
  <2>6. PlacesInStep'
    BY <1>0, <1>1, <1>4, <1>5 DEF Always, PlacesInStep
  <2> QED BY <2>1, <2>2, <2>3, <2>5, <2>6 DEF Always
<1>7. ToDo'
  <2>1. Lists' /\ Halfway'
    BY <1>0, <1>1, <1>4 DEF ToDo, Lists, Halfway, Whole, TasksDone
  <2>2. RowsToDo'
    <3>1. ASSUME NEW q \in Remotes \ {r}
          PROVE  /\ (SameTitle(q) => SameTitle(q)') /\ (Waiting(q) => Waiting(q)')
                 /\ Copies(q)' = Copies(q)
      <4>1. Copies(q)' = Copies(q) /\ \A j \in Copies(q) : local'[j] = local[j]
        BY <1>4 DEF Copies
      <4> QED BY <1>1, <4>1 DEF SameTitle, Waiting
    <3>2. ASSUME NEW q \in Remotes, remote[q].deleted
          PROVE  \/ Copies(q)' = {} \/ q \in drops' \/ \E j \in Copies(q)' : j \in erases
      BY <1>0, <1>1, <1>4, <3>1, <3>2 DEF ToDo, RowsToDo
    <3>3. ASSUME NEW q \in Remotes, ~remote[q].deleted
          PROVE  SameTitle(q)' \/ Waiting(q)' \/ q \in pulls
      BY <1>0, <1>a, <3>1, <3>3 DEF ToDo, RowsToDo
    <3>4. \A q \in updated \ pulls : remote[q].deleted \/ SameTitle(q)'
      BY <1>0, <1>a, <3>1 DEF ToDo, RowsToDo, Lists
    <3>5. \A j \in Locals' : local'[j].tid \in Remotes \/ j \in pushes \cup erases
      BY <1>0, <1>4 DEF ToDo, RowsToDo
    <3>6. UNCHANGED <<remote, updated, pulls, pushes, erases>> /\ Remotes' = Remotes
      BY <1>1, <1>4
    <3> QED BY <3>2, <3>3, <3>4, <3>5, <3>6 DEF RowsToDo
  <2>3. PlacesToDo'
    <3>1. ASSUME NEW t \in Tasks PROVE home'[t] = rhome'[t] \/ Stray(t)'
      BY <1>0, <1>a, <1>1, <1>5 DEF ToDo, PlacesToDo, Moving, TasksDone
    <3> QED BY <1>0, <1>1, <1>2, <3>1 DEF ToDo, PlacesToDo
  <2> QED BY <2>1, <2>2, <2>3 DEF ToDo
<1> QED BY <1>0, <1>1, <1>6, <1>7, Applies

-----------------------------------------------------------------------------
(* The sync: containers deleted on the client                              *)

\* A row that is to be erased is not the default one, and has a tid of its own if any.
LEMMA ErasedRow ==
  ASSUME Inv, ToDo, NEW i \in erases
  PROVE  /\ i \in LocalIds /\ i # Default
         /\ local[i].tid # Default
         /\ local[i].tid # None => i \in Locals /\ i \in Copies(local[i].tid)
<1>1. i \in LocalIds /\ i # Default
  BY DEF Inv, TypeInv, TypeOK, ToDo, Lists
<1>2. local[i].tid # None => i \in Locals
  BY <1>1 DEF Inv, StepInv, NoTid
<1>3. Default \in Locals /\ local[Default].tid = Default /\ Default # None
  BY Facts DEF Inv, StepInv, DefaultStays, Locals
<1>4. local[i].tid # Default
  BY <1>1, <1>2, <1>3, Facts DEF Inv
<1> QED BY <1>1, <1>2, <1>4 DEF Copies

LEMMA EraseTasksSteps ==
  ASSUME Inv, TypeInv', TiesInv', NEW i \in LocalIds, EraseTasks(i)
  PROVE  StepInv'
<1>0. pc = "apply" /\ half = Whole /\ Always /\ ToDo /\ TasksDone /\ drops = {} /\ i \in erases
  BY DEF Inv, StepInv, EraseTasks, Applying, Always
<1> DEFINE x == local[i].tid
<1>1. /\ home' = [t \in Tasks |-> IF home[t] = x THEN Default ELSE home[t]]
      /\ homeChanged' = homeChanged \cup {t \in Tasks : home[t] = x}
      /\ half' = [op |-> "eraseThere", local |-> i, remote |-> None] /\ pc' = "apply"
      /\ UNCHANGED <<local, remote, rhome, rhomeChanged, map, updated, pulls, pushes, drops,
                     erases, taskUpdated, taskPulls, taskPushes>>
  BY <1>0 DEF EraseTasks, EmptyHere, Emptied, TasksOf, Silent, program, lists, tasks
<1>2. taskUpdated \subseteq Tasks /\ home \in [Tasks -> Tids] /\ None \notin Tids
  BY Facts DEF Inv, TypeInv, TypeOK
<1>3. /\ Locals' = Locals /\ Remotes' = Remotes /\ \A y : Copies(y)' = Copies(y)
      /\ \A y : Known(y) => Known(y)'
  BY <1>1, SameRows
<1>4. x # Default /\ Copies(Default) # {} /\ (x # None => i \in Copies(x))
  <2>1. Copies(Default) # {}
    BY <1>0, Facts DEF Always, DefaultStays, Inv, Copies, Locals
  <2> QED BY <1>0, <2>1, ErasedRow
<1>5. \A t \in Tasks : home'[t] = IF home[t] = x THEN Default ELSE home[t]
  BY <1>1
<1>6. ASSUME NEW t \in Tasks PROVE (Stray(t) => Stray(t)') /\ ~(Stray(t) /\ home[t] = x)
  <2>1. home[t] # None
    BY <1>2
  <2>2. ~(Stray(t) /\ home[t] = x)
    BY <1>4, <2>1 DEF Stray
  <2> QED BY <1>1, <1>3, <1>5, <2>2 DEF Stray
<1>7. Always'
  <2>1. \A t \in Tasks : Known(home'[t])
    BY <1>0, <1>4, <1>5 DEF Always, Places, Known
  <2>2. \A t \in Tasks : Known(home[t])'
    BY <1>1, <1>3, <2>1 DEF Known
  <2>3. Places'
    BY <1>0, <1>1, <1>3, <2>2 DEF Always, Places, Known
  <2>4. PlacesInStep'
    BY <1>0, <1>1, <1>3, <1>5, <1>6 DEF Always, PlacesInStep
  <2> QED BY <1>1, <2>3, <2>4, SameStep DEF Always
<1>8. RowsToDo'
  BY <1>0, <1>1, SameRowsToDo DEF ToDo, Whole
<1>9. Lists' /\ Halfway'
  <2>1. TasksDone' /\ pulls' = {}
    BY <1>0, <1>1 DEF TasksDone
  <2>2. \A t \in Tasks : home'[t] # local'[i].tid
    BY <1>1, <1>4, <1>5
  <2>3. Halfway'
    BY <1>0, <1>1, <2>1, <2>2 DEF Halfway
  <2> QED BY <1>0, <1>1, <1>3, <2>3 DEF ToDo, Lists
<1>10. PlacesToDo'
  <2>1. \A t \in Tasks : home[t] = rhome[t] \/ Stray(t)
    BY <1>0 DEF Moving, Whole, ToDo, PlacesToDo, TasksDone
  <2>2. ASSUME NEW t \in Tasks PROVE home'[t] = rhome'[t] \/ Stray(t)' \/ Moving(t)'
    <3>1. CASE home[t] = x
      <4>1. home'[t] = Default /\ rhome'[t] = local'[i].tid
        BY <1>1, <1>5, <1>6, <2>1, <3>1
      <4>2. Moving(t)'
        BY <1>1, <4>1 DEF Moving
      <4> QED BY <4>2
    <3>2. CASE home[t] # x
      BY <1>1, <1>5, <1>6, <2>1, <3>2
    <3> QED BY <3>1, <3>2
  <2> QED BY <1>0, <1>1, <1>2, <2>2 DEF ToDo, PlacesToDo
<1> QED BY <1>0, <1>1, <1>7, <1>8, <1>9, <1>10, Applies DEF ToDo

\* A row that is to be erased has a tid, or none.
LEMMA TidOf ==
  ASSUME Inv, NEW i \in erases
  PROVE  local[i].tid \in Tids \cup {None}
<1>1. i \in LocalIds /\ local \in [LocalIds -> LocalRow]
  BY Facts, ErasedRow DEF Inv, TypeInv, TypeOK
<1> QED BY <1>1 DEF LocalRow

LEMMA EraseThereSteps ==
  ASSUME Inv, TypeInv', TiesInv', EraseThere
  PROVE  StepInv'
<1>0. pc = "apply" /\ half.op = "eraseThere" /\ Always /\ ToDo /\ TasksDone
  BY DEF Inv, StepInv, EraseThere, Always, ToDo, Halfway
<1>a. PICK i \in erases, x \in Tids \cup {None} :
        /\ i = half.local /\ x = local[i].tid
        /\ drops = {} /\ \A t \in Tasks : home[t] # x
  <2>1. half.local \in erases /\ drops = {} /\ \A t \in Tasks : home[t] # local[half.local].tid
    BY <1>0 DEF ToDo, Halfway
  <2>2. local[half.local].tid \in Tids \cup {None}
    BY <2>1, TidOf
  <2> QED BY <2>1, <2>2
<1>1. /\ pc' = "apply"
      /\ UNCHANGED <<local, remote, home, homeChanged, map, updated, pulls, pushes, drops,
                     erases, taskUpdated, taskPulls, taskPushes>>
  BY <1>0 DEF EraseThere, Silent, program, lists, tasks
<1>2. taskUpdated \subseteq Tasks /\ half \in Halves
  BY TypeParts DEF Inv, TypeInv, TypeOK, ListTypes
<1>3. /\ Locals' = Locals /\ Remotes' = Remotes /\ \A y : Copies(y)' = Copies(y)
      /\ \A y : Known(y) => Known(y)'
  BY <1>1, SameRows
<1>4. \A t \in Tasks : Stray(t) => Stray(t)'
  BY <1>1, <1>3 DEF Stray
<1>5. Default \in Remotes
  BY <1>0, Facts DEF Always, DefaultStays, Inv
<1>6. ASSUME NEW t \in Tasks
      PROVE  home[t] = rhome[t] \/ Stray(t) \/ (home[t] = Default /\ rhome[t] = x)
  BY <1>0, <1>a DEF ToDo, PlacesToDo, Moving, TasksDone
<1>7. Places'
  BY <1>0, <1>1, <1>3 DEF Always, Places, Known
<1>8. RowsToDo' /\ Lists' /\ TasksDone' /\ pulls' = {}
  <2>1. RowsToDo'
    BY <1>0, <1>1, SameRowsToDo DEF ToDo
  <2> QED BY <1>0, <1>1, <1>3, <2>1 DEF ToDo, Lists, TasksDone
<1>9. CASE x \in Remotes
  <2>1. /\ rhome' = [t \in Tasks |-> IF rhome[t] = x THEN Default ELSE rhome[t]]
        /\ rhomeChanged' = rhomeChanged \cup {t \in Tasks : rhome[t] = x}
        /\ half' = [half EXCEPT !.op = "mark", !.remote = x]
    BY <1>9, <1>a DEF EraseThere, EmptyThere, Emptied, TasksOf
  <2>2. half'.op = "mark" /\ half'.remote = x /\ half'.local = i /\ half' # Whole
    BY <1>2, <1>a, <2>1 DEF Halves, Whole
  <2>3. \A t \in Tasks : rhome'[t] = IF rhome[t] = x THEN Default ELSE rhome[t]
    BY <2>1
  <2>4. PlacesInStep'
    BY <1>0, <1>1, <1>3, <1>4, <1>5, <2>1, <2>3 DEF Always, PlacesInStep
  <2>5. Halfway'
    BY <1>9, <1>a, <1>1, <1>3, <1>8, <2>2 DEF Halfway
  <2>6. PlacesToDo'
    <3>1. ASSUME NEW t \in Tasks PROVE home'[t] = rhome'[t] \/ Stray(t)'
      BY <1>a, <1>1, <1>4, <1>6, <2>3
    <3> QED BY <1>0, <1>1, <1>2, <3>1 DEF ToDo, PlacesToDo
  <2>7. Always'
    BY <1>1, <1>7, <2>4, SameStep DEF Always
  <2> QED BY <1>0, <1>1, <1>8, <2>5, <2>6, <2>7, Applies DEF ToDo
<1>10. CASE x \notin Remotes
  <2>1. UNCHANGED <<rhome, rhomeChanged>> /\ half' = [half EXCEPT !.op = "eraseLocal"]
    BY <1>10, <1>a DEF EraseThere
  <2>2. half'.op = "eraseLocal" /\ half'.local = i /\ half' # Whole
    BY <1>2, <1>a, <2>1 DEF Halves, Whole
  <2>3. PlacesInStep'
    BY <1>0, <1>1, <1>3, <1>4, <2>1 DEF Always, PlacesInStep
  <2>4. Halfway'
    BY <1>10, <1>a, <1>1, <1>3, <1>8, <2>2 DEF Halfway
  <2>5. PlacesToDo'
    <3>1. ASSUME NEW t \in Tasks PROVE home'[t] = rhome'[t] \/ Stray(t)'
      <4>1. rhome[t] # x
        BY <1>0, <1>10 DEF Always, PlacesInStep
      <4> QED BY <1>1, <1>4, <1>6, <2>1, <4>1
    <3> QED BY <1>0, <1>1, <1>2, <3>1 DEF ToDo, PlacesToDo
  <2>6. Always'
    BY <1>1, <1>7, <2>3, SameStep DEF Always
  <2> QED BY <1>0, <1>1, <1>8, <2>4, <2>5, <2>6, Applies DEF ToDo
<1> QED BY <1>9, <1>10

LEMMA MarkSteps ==
  ASSUME Inv, TypeInv', TiesInv', Mark
  PROVE  StepInv'
<1>0. pc = "apply" /\ half.op = "mark" /\ Always /\ ToDo /\ TasksDone
  BY DEF Inv, StepInv, Mark, Always, ToDo, Halfway
<1>a. PICK i \in erases, r \in Remotes : /\ i = half.local /\ r = half.remote
                                         /\ local[i].tid = r /\ drops = {}
  BY <1>0 DEF ToDo, Halfway
<1>1. /\ remote' = [remote EXCEPT ![r].changed = remote[r].changed \/ ~remote[r].deleted,
                                  ![r].deleted = TRUE]
      /\ half' = [half EXCEPT !.op = "eraseLocal"] /\ pc' = "apply"
      /\ UNCHANGED <<local, home, homeChanged, rhome, rhomeChanged, map, updated, pulls,
                     pushes, drops, erases, taskUpdated, taskPulls, taskPushes>>
  BY <1>0, <1>a DEF Mark, Silent, program, lists, tasks
<1>2. /\ taskUpdated \subseteq Tasks /\ half \in Halves
      /\ remote \in [RemoteIds -> RemoteRow] /\ r \in RemoteIds /\ remote[r].exists
      /\ None \notin RemoteIds
  BY Facts, TypeParts DEF Inv, TypeInv, TypeOK, ListTypes, Remotes
<1>3. /\ \A q \in RemoteIds \ {r} : remote'[q] = remote[q]
      /\ remote'[r].exists /\ remote'[r].deleted
      /\ remote' = remote \/ remote'[r].changed
  <2>1. /\ remote'[r] = [remote[r] EXCEPT !.changed = remote[r].changed \/ ~remote[r].deleted,
                                         !.deleted = TRUE]
        /\ remote[r] \in RemoteRow
    BY <1>1, <1>2
  <2>2. /\ remote'[r].exists /\ remote'[r].deleted
        /\ ~remote[r].deleted => remote'[r].changed
    BY <1>2, <2>1 DEF RemoteRow
  <2>3. \A q \in RemoteIds \ {r} : remote'[q] = remote[q]
    BY <1>1, <1>2
  <2>4. remote[r].deleted => remote' = remote
    <3>1. SUFFICES ASSUME remote[r].deleted PROVE remote' = remote
      OBVIOUS
    <3>2. (remote[r].changed \/ ~remote[r].deleted) = remote[r].changed
          /\ remote[r].deleted = TRUE
      BY <2>1, <3>1 DEF RemoteRow
    <3>3. remote'[r] = [remote[r] EXCEPT !.changed = remote[r].changed,
                                         !.deleted = remote[r].deleted]
      BY <2>1, <3>2
    <3>4. remote'[r] = remote[r]
      BY <2>1, <3>3 DEF RemoteRow
    <3> QED BY <1>1, <1>2, <3>4
  <2> QED BY <2>2, <2>3, <2>4
<1>b. /\ r # Default /\ i \in Copies(r)
  <2>1. local[i].tid # None
    BY <1>a, <1>2
  <2> QED BY <1>0, <1>a, <2>1, ErasedRow
<1>4. Always' /\ Remotes' = Remotes /\ \A t \in Tasks : Stray(t) => Stray(t)'
  <2>1. CASE remote' = remote
    <3>1. /\ Remotes' = Remotes /\ \A x : Copies(x)' = Copies(x)
          /\ \A x : Known(x) => Known(x)'
      BY <1>1, <2>1, SameRows
    <3>2. Places'
      BY <1>0, <1>1, <3>1 DEF Always, Places, Known
    <3>3. PlacesInStep' /\ \A t \in Tasks : Stray(t) => Stray(t)'
      BY <1>0, <1>1, <2>1, <3>1 DEF Always, PlacesInStep, Stray
    <3> QED BY <1>1, <2>1, <3>1, <3>2, <3>3, SameStep DEF Always
  <2>2. CASE remote'[r].changed
    <3>1. Always' /\ Remotes' = Remotes \cup {r} /\ \A t \in Tasks : Stray(t) => Stray(t)'
      BY <1>b, <1>1, <1>2, <1>3, <2>2, WrittenThere
    <3> QED BY <3>1
  <2> QED BY <1>3, <2>1, <2>2
<1>5. Locals' = Locals /\ \A x : Copies(x)' = Copies(x)
  BY <1>1 DEF Locals, Copies
<1>6. \A q \in Remotes \ {r} : remote'[q] = remote[q]
  BY <1>3 DEF Remotes
<1>7. Lists' /\ Halfway'
  <2>1. half'.op = "eraseLocal" /\ half'.local = i /\ half' # Whole
    BY <1>2, <1>a, <1>1 DEF Halves, Whole
  <2>2. TasksDone' /\ pulls' = {} /\ drops' = {}
    BY <1>0, <1>a, <1>1 DEF TasksDone
  <2>4. local'[i].tid = r /\ i \in erases'
    BY <1>a, <1>1
  <2>5. local'[half'.local].tid = r
    BY <2>1, <2>4
  <2>3. Halfway'
    BY <1>3, <2>1, <2>2, <2>4, <2>5 DEF Halfway
  <2> QED BY <1>0, <1>a, <1>1, <1>4, <1>5, <2>2, <2>3 DEF ToDo, Lists
<1>8. RowsToDo'
  <2>1. \A q \in Remotes \ {r} : /\ (SameTitle(q) => SameTitle(q)')
                                 /\ (Waiting(q) => Waiting(q)')
    BY <1>1, <1>5, <1>6 DEF SameTitle, Waiting
  <2>2. ASSUME NEW q \in Remotes \ {r}, remote[q].deleted
        PROVE  Copies(q)' = {} \/ q \in drops' \/ \E j \in Copies(q)' : j \in erases'
    BY <1>0, <1>1, <1>5, <2>2 DEF ToDo, RowsToDo
  <2>3. \E j \in Copies(r)' : j \in erases'
    BY <1>b, <1>1, <1>5
  <2>4. ASSUME NEW q \in Remotes \ {r}, ~remote[q].deleted
        PROVE  SameTitle(q)' \/ Waiting(q)' \/ q \in pulls'
    BY <1>0, <1>1, <2>1, <2>4 DEF ToDo, RowsToDo
  <2>5. \A q \in updated' \ pulls' : remote'[q].deleted \/ SameTitle(q)'
    BY <1>0, <1>1, <1>3, <1>6, <2>1 DEF ToDo, RowsToDo, Lists
  <2>6. \A j \in Locals' : local'[j].tid \in Remotes' \/ j \in pushes' \cup erases'
    BY <1>0, <1>1, <1>4, <1>5 DEF ToDo, RowsToDo
  <2> QED BY <1>3, <1>4, <1>6, <2>2, <2>3, <2>4, <2>5, <2>6 DEF RowsToDo
<1>9. PlacesToDo'
  <2>1. \A t \in Tasks : ~Moving(t)
    BY <1>0 DEF Moving
  <2> QED BY <1>0, <1>1, <1>2, <1>4, <2>1 DEF ToDo, PlacesToDo
<1> QED BY <1>0, <1>1, <1>4, <1>7, <1>8, <1>9, Applies DEF ToDo

LEMMA EraseLocalSteps ==
  ASSUME Inv, TypeInv', TiesInv', EraseLocal
  PROVE  StepInv'
<1>0. pc = "apply" /\ half.op = "eraseLocal" /\ Always /\ ToDo /\ TasksDone
  BY DEF Inv, StepInv, EraseLocal, Always, ToDo, Halfway
<1>a. PICK i \in erases, x \in Tids \cup {None} :
        /\ i = half.local /\ x = local[i].tid
        /\ drops = {} /\ (x \in Remotes => remote[x].deleted)
  <2>1. /\ half.local \in erases /\ drops = {}
        /\ local[half.local].tid \in Remotes => remote[local[half.local].tid].deleted
    BY <1>0 DEF ToDo, Halfway
  <2>2. local[half.local].tid \in Tids \cup {None}
    BY <2>1, TidOf
  <2> QED BY <2>1, <2>2
<1>1. /\ local' = [local EXCEPT ![i] = NoLocal]
      /\ erases' = erases \ {i} /\ half' = Whole /\ pc' = "apply"
      /\ UNCHANGED <<remote, home, homeChanged, rhome, rhomeChanged, map, updated, pulls,
                     pushes, drops, taskUpdated, taskPulls, taskPushes>>
  BY <1>0, <1>a DEF EraseLocal, Silent, program, tasks
<1>2. /\ taskUpdated \subseteq Tasks /\ i \in LocalIds /\ i # Default
      /\ local \in [LocalIds -> LocalRow]
      /\ \A j, k \in Locals : local[j].tid = local[k].tid => j = k
      /\ \A j \in Locals : local[j].tid \in Remotes \/ local[j].tid >= TempBase
  BY <1>0, Facts, ErasedRow DEF Inv, TypeInv, TypeOK
<1>3. /\ \A j \in LocalIds \ {i} : local'[j] = local[j]
      /\ ~local'[i].exists /\ local'[i].tid = None
  <2>1. local'[i] = NoLocal /\ \A j \in LocalIds \ {i} : local'[j] = local[j]
    BY <1>1, <1>2
  <2> QED BY <2>1 DEF NoLocal
<1>4. /\ Locals' = Locals \ {i} /\ Remotes' = Remotes
      /\ \A y : Copies(y)' = Copies(y) \ {i}
      /\ \A j \in Locals \ {i} : local'[j] = local[j]
  <2>1. Locals' = Locals \ {i} /\ Remotes' = Remotes
    BY <1>1, <1>3 DEF Locals, Remotes
  <2>2. \A j \in Locals \ {i} : local'[j] = local[j]
    BY <1>3 DEF Locals
  <2>3. ASSUME NEW y PROVE Copies(y)' = Copies(y) \ {i}
    BY <2>1, <2>2 DEF Copies
  <2> QED BY <2>1, <2>2, <2>3
<1>5. /\ \A y : y # x => i \notin Copies(y)
      /\ i \in Copies(x) => Copies(x) = {i}
  BY <1>a, <1>2 DEF Copies
<1>6. \A t \in Tasks : Stray(t) => Stray(t)'
  BY <1>1, <1>4 DEF Stray
<1>7. Always'
  <2>1. DefaultStays'
    <3>1. Default \in LocalIds
      BY Facts DEF Inv
    <3> QED BY <1>0, <1>1, <1>2, <1>3, <3>1 DEF Always, DefaultStays
  <2>2. NoTid'
    BY <1>0, <1>3, <1>4 DEF Always, NoTid
  <2>3. RowsInStep'
    <3>1. ASSUME NEW q \in Remotes, ~remote[q].changed
          PROVE  IF remote[q].deleted THEN Copies(q)' = {}
                 ELSE \E j \in Copies(q)' : local'[j].changed \/ local'[j].title = remote[q].title
      <4>1. CASE remote[q].deleted
        BY <1>0, <1>4, <3>1, <4>1 DEF Always, RowsInStep
      <4>2. CASE ~remote[q].deleted
        <5>1. q # x
          BY <1>a, <4>2
        <5>2. Copies(q)' = Copies(q) /\ \A j \in Copies(q) : local'[j] = local[j]
          BY <1>4, <1>5, <5>1 DEF Copies
        <5> QED BY <1>0, <3>1, <4>2, <5>2 DEF Always, RowsInStep
      <4> QED BY <4>1, <4>2
    <3>2. \A j \in Locals' : ~local'[j].changed => local'[j].tid \in Remotes
      BY <1>0, <1>4 DEF Always, RowsInStep
    <3>3. UNCHANGED remote /\ Remotes' = Remotes
      BY <1>1, <1>4
    <3> QED BY <3>1, <3>2, <3>3 DEF RowsInStep
  <2>4. ASSUME NEW y, Known(y) PROVE Known(y)'
    <3>1. CASE y = x /\ i \in Copies(y)
      <4>1. x >= TempBase \/ (x \in Remotes /\ remote[x].deleted)
        BY <1>a, <1>2, <3>1 DEF Copies
      <4> QED BY <1>1, <1>4, <3>1, <4>1 DEF Known
    <3>2. CASE i \notin Copies(y)
      BY <1>1, <1>4, <2>4, <3>2 DEF Known
    <3> QED BY <1>5, <3>1, <3>2
  <2>5. Places'
    BY <1>0, <1>1, <2>4 DEF Always, Places, Known
  <2>6. PlacesInStep'
    BY <1>0, <1>1, <1>4, <1>6 DEF Always, PlacesInStep
  <2> QED BY <2>1, <2>2, <2>3, <2>5, <2>6 DEF Always
<1>8. ToDo'
  <2>1. Lists' /\ Halfway'
    BY <1>0, <1>1, <1>4 DEF ToDo, Lists, Halfway, Whole, TasksDone
  <2>2. RowsToDo'
    <3>1. ASSUME NEW q \in Remotes, ~remote[q].deleted
          PROVE  /\ (SameTitle(q) => SameTitle(q)') /\ (Waiting(q) => Waiting(q)')
      <4>1. q # x
        BY <1>a, <3>1
      <4>2. Copies(q)' = Copies(q) /\ \A j \in Copies(q) : local'[j] = local[j] /\ j # i
        BY <1>4, <1>5, <4>1 DEF Copies
      <4> QED BY <1>1, <4>2 DEF SameTitle, Waiting
    <3>2. ASSUME NEW q \in Remotes, remote[q].deleted
          PROVE  \/ Copies(q)' = {} \/ q \in drops \/ \E j \in Copies(q)' : j \in erases'
      <4>1. CASE i \in Copies(q)
        <5>1. Copies(q) = {i}
          BY <1>5, <4>1
        <5> QED BY <1>4, <5>1
      <4>2. CASE i \notin Copies(q)
        BY <1>0, <1>1, <1>4, <3>2, <4>2 DEF ToDo, RowsToDo
      <4> QED BY <4>1, <4>2
    <3>3. ASSUME NEW q \in Remotes, ~remote[q].deleted
          PROVE  SameTitle(q)' \/ Waiting(q)' \/ q \in pulls
      BY <1>0, <3>1, <3>3 DEF ToDo, RowsToDo
    <3>4. \A q \in updated \ pulls : remote[q].deleted \/ SameTitle(q)'
      BY <1>0, <3>1 DEF ToDo, RowsToDo, Lists
    <3>5. \A j \in Locals' : local'[j].tid \in Remotes \/ j \in pushes \cup erases'
      BY <1>0, <1>1, <1>4 DEF ToDo, RowsToDo
    <3>6. UNCHANGED <<remote, updated, pulls, pushes, drops>> /\ Remotes' = Remotes
      BY <1>1, <1>4
    <3> QED BY <3>2, <3>3, <3>4, <3>5, <3>6 DEF RowsToDo
  <2>3. PlacesToDo'
    <3>1. \A t \in Tasks : ~Moving(t)
      BY <1>0 DEF Moving
    <3> QED BY <1>0, <1>1, <1>2, <1>6, <3>1 DEF ToDo, PlacesToDo
  <2> QED BY <2>1, <2>2, <2>3 DEF ToDo
<1> QED BY <1>0, <1>1, <1>7, <1>8, Applies

-----------------------------------------------------------------------------
(* The end of a sync                                                       *)

\* With nothing left to do, what is cleared of its mark is in step.
LEMMA FinishSteps ==
  ASSUME Inv, TypeInv', TiesInv', Finish
  PROVE  StepInv'
<1>0. /\ pc = "apply" /\ half = Whole /\ TasksDone /\ drops = {} /\ erases = {}
      /\ Always /\ ToDo
  BY DEF Inv, StepInv, Finish, Applying, Always
<1>1. /\ local' = [i \in LocalIds |-> [local[i] EXCEPT !.changed = FALSE]]
      /\ remote' = [r \in RemoteIds |-> [remote[r] EXCEPT !.changed = FALSE]]
      /\ homeChanged' = {} /\ rhomeChanged' = {} /\ map' = MapRead(map)
      /\ pc' = "idle" /\ UNCHANGED <<home, rhome, half>>
  BY DEF Finish
<1>2. /\ local \in [LocalIds -> LocalRow] /\ remote \in [RemoteIds -> RemoteRow]
      /\ map \in [Titles -> Tids \cup {None}] /\ Default \in LocalIds /\ Default \in RemoteIds
  BY Facts DEF Inv
<1>3. /\ \A i \in LocalIds : /\ local'[i].exists = local[i].exists
                              /\ local'[i].tid = local[i].tid
                              /\ local'[i].title = local[i].title
                              /\ local'[i].deleted = local[i].deleted
      /\ \A r \in RemoteIds : /\ remote'[r].exists = remote[r].exists
                               /\ remote'[r].title = remote[r].title
                               /\ remote'[r].deleted = remote[r].deleted
  BY <1>1, <1>2 DEF LocalRow, RemoteRow
<1>4. /\ Locals' = Locals /\ Remotes' = Remotes
      /\ \A x : Copies(x)' = Copies(x) /\ Copies(x) \subseteq LocalIds
      /\ Remotes \subseteq RemoteIds /\ Locals \subseteq LocalIds
  BY <1>3 DEF Locals, Remotes, Copies
<1>5. \A r \in Remotes : IF remote[r].deleted THEN Copies(r) = {} ELSE SameTitle(r)
  BY <1>0 DEF ToDo, RowsToDo, TasksDone, Waiting, Whole
<1>6. DefaultStays' /\ NoTid'
  BY <1>0, <1>2, <1>3, <1>4 DEF Always, DefaultStays, NoTid
<1>7. RowsInStep'
  <2>1. \A i \in Locals : local[i].tid \in Remotes
    BY <1>0 DEF ToDo, RowsToDo, TasksDone
  <2> QED BY <1>3, <1>4, <1>5, <2>1 DEF RowsInStep, SameTitle
<1>8. \A x : Known(x) => Known(x)'
  BY <1>3, <1>4 DEF Known
<1>9. Places'
  <2>1. PICK old \in [Titles -> Tids \cup {None}] : old = map /\ map' = MapRead(old)
    BY <1>1, <1>2
  <2>3. \A n \in Titles : old[n] # None => Known(old[n])'
    BY <1>0, <1>8, <2>1 DEF Always, Places
  <2>2. \A n \in Titles : map'[n] # None => Known(map[n])'
    BY <2>1, <2>3, MapKnown
  <2> QED BY <1>0, <1>1, <1>8, <2>2 DEF Always, Places
<1>10. PlacesInStep'
  <2>1. \A t \in Tasks : home[t] = rhome[t] \/ Stray(t)
    BY <1>0 DEF ToDo, PlacesToDo, TasksDone, Moving, Whole
  <2>2. \A t \in Tasks : Stray(t) => Stray(t)'
    BY <1>1, <1>3, <1>4 DEF Stray
  <2> QED BY <1>0, <1>1, <1>4, <2>1, <2>2 DEF Always, PlacesInStep
<1> QED BY <1>0, <1>1, <1>6, <1>7, <1>9, <1>10 DEF StepInv

\* A sync that is cut short, or refused, leaves the rows as they are.
LEMMA GiveUpSteps ==
  ASSUME Inv, TypeInv', GiveUp
  PROVE  StepInv'
<1>1. /\ UNCHANGED <<local, remote, home, homeChanged, rhome, rhomeChanged>>
      /\ map' = MapRead(map) /\ pc' = "idle" /\ half' = Whole
  BY DEF GiveUp, tables
<1>2. Places /\ PlacesInStep /\ map \in [Titles -> Tids \cup {None}]
  BY Facts DEF Inv, StepInv
<1>3. Remotes' = Remotes /\ \A x : Copies(x)' = Copies(x) /\ (Known(x) => Known(x)')
  BY <1>1, SameRows
<1>4. Places'
  <2>1. \A n \in Titles : map'[n] # None => Known(map[n])'
    BY <1>1, <1>2, <1>3, MapKnown DEF Places
  <2> QED BY <1>1, <1>2, <1>3, <2>1 DEF Places
<1>5. PlacesInStep'
  BY <1>1, <1>2, <1>3 DEF PlacesInStep, Stray
<1> QED BY <1>1, <1>4, <1>5, SameStep DEF StepInv, Whole

LEMMA SyncSteps ==
  ASSUME Inv, TypeInv', TiesInv', Sync
  PROVE  StepInv'
<1>1. CASE Refuse
  BY <1>1, GiveUpSteps DEF Refuse
<1>2. CASE ~Refuse
  <2>1. ASSUME NEW i \in LocalIds, NEW r \in RemoteIds, Pull(r, i) \/ PushNew(i, r)
        PROVE  StepInv'
    BY <1>2, <2>1, Pulls, PushNewSteps
  <2>2. ASSUME NEW i \in LocalIds, PushUpdate(i) \/ PushSkip(i) \/ EraseTasks(i)
        PROVE  StepInv'
    BY <1>2, <2>2, PushUpdateSteps, PushSkipSteps, EraseTasksSteps
  <2>3. ASSUME NEW t \in Tasks, PullTask(t) \/ PushTask(t)
        PROVE  StepInv'
    BY <1>2, <2>3, PullTaskSteps, PushTaskSteps
  <2>4. CASE Begin \/ PushTid \/ Finish
    BY <2>4, Begins, PushTidSteps, FinishSteps
  <2>5. CASE DropHere \/ Drop \/ \E r \in RemoteIds : DropTasks(r)
    BY <2>5, DropTasksSteps, DropHereSteps, DropSteps
  <2>6. CASE EraseThere \/ Mark \/ EraseLocal
    BY <2>6, EraseThereSteps, MarkSteps, EraseLocalSteps
  <2> QED BY <2>1, <2>2, <2>3, <2>4, <2>5, <2>6 DEF Sync
<1> QED BY <1>1, <1>2

LEMMA NextSteps ==
  ASSUME Inv, TypeInv', TiesInv', [Next]_vars
  PROVE  StepInv'
<1>1. CASE CutShort
  BY <1>1, GiveUpSteps DEF CutShort
<1>2. CASE UNCHANGED vars
  <2>1. /\ UNCHANGED <<local, remote, home, homeChanged, rhome, rhomeChanged, map, pc, half,
                       updated, pulls, pushes, drops, erases,
                       taskUpdated, taskPulls, taskPushes>>
    BY <1>2 DEF vars, tables, program, lists, tasks, control
  <2>2. /\ Locals' = Locals /\ Remotes' = Remotes /\ \A x : Copies(x)' = Copies(x)
        /\ \A x : Known(x) => Known(x)'
    BY <2>1, SameRows
  <2>3. Places' /\ PlacesInStep'
    BY <2>1, <2>2 DEF Inv, StepInv, Places, PlacesInStep, Known, Stray
  <2>4. Always'
    BY <2>1, <2>3, SameStep DEF Always
  <2>5. ASSUME pc = "apply" PROVE ToDo'
    <3>1. ToDo
      BY <2>5 DEF Inv, StepInv
    <3>2. RowsToDo'
      <4>1. \A r : (SameTitle(r)' <=> SameTitle(r)) /\ (Waiting(r)' <=> Waiting(r))
        BY <2>1, <2>2 DEF SameTitle, Waiting
      <4> QED BY <2>1, <2>2, <3>1, <4>1 DEF ToDo, RowsToDo
    <3>3. Lists' /\ Halfway' /\ PlacesToDo'
      BY <2>1, <2>2, <3>1
      DEF ToDo, Lists, Halfway, PlacesToDo, TasksDone, Stray, Moving, Whole
    <3> QED BY <3>2, <3>3 DEF ToDo
  <2> QED BY <2>1, <2>4, <2>5 DEF Inv, StepInv, Always, Whole
<1> QED BY <1>1, <1>2, UserSteps, OthersSteps, SyncSteps DEF Next

-----------------------------------------------------------------------------
(* The theorems                                                            *)

\* The invariant of this module, with the two it rests on.
LEMMA StepInvCorrect == Spec => [](TypeInv /\ TiesInv /\ StepInv)
<1>1. TypeInv /\ TiesInv /\ [Next]_vars => TiesInv'
  <2> SUFFICES ASSUME TypeInv, TiesInv, [Next]_vars PROVE TiesInv'
    OBVIOUS
  <2>1. CASE CutShort
    BY <2>1, EndTies DEF CutShort
  <2>2. CASE UNCHANGED vars
    BY <2>2 DEF vars, tables, lists, control, TiesInv, TidsDiffer, Locals, Remotes, Copies, Whole
  <2> QED BY <2>1, <2>2, UserTies, OthersTies, SyncTies DEF Next
<1>2. TypeInv /\ TiesInv /\ StepInv /\ TypeInv' /\ TiesInv' /\ [Next]_vars => StepInv'
  BY NextSteps DEF Inv
<1> QED BY <1>1, <1>2, TiesInit, StepInit, TypeInvCorrect, PTL DEF Spec

\* Between syncs the containers that no side has marked are in step, whatever was written,
\* refused or cut short before: a row is unmarked only by a sync that saw it through.
THEOREM ContainersCorrect == Spec => []ContainersInStep
<1>1. StepInv => ContainersInStep
  BY DEF StepInv, RowsInStep, ContainersInStep
<1> QED BY <1>1, StepInvCorrect, PTL

\* Between syncs the tasks that no side has marked are in the same container on both sides,
\* although a container that is deleted moves them there and here in two commits.
THEOREM TasksCorrect == Spec => []TasksInStep
<1>1. StepInv => TasksInStep
  BY DEF StepInv, PlacesInStep, Stray, TasksInStep
<1> QED BY <1>1, StepInvCorrect, PTL

\* A task is never in a container that the client has not heard of: it is one of its own, one
\* deleted on the server, or one that still has, or had, a temporary tid.
THEOREM PlacesCorrect == Spec => []PlacesKnown
<1>1. StepInv => PlacesKnown
  BY DEF StepInv, Places, Known, PlacesKnown
<1> QED BY <1>1, StepInvCorrect, PTL
=============================================================================
