--------------------------- MODULE TaskSyncProofs ---------------------------
(***************************************************************************)
(* Theorems about TaskSync, for every value of its constants, and then     *)
(* about TaskSyncMerge: TaskSync merges the two copies as Replica says,    *)
(* for every value that MergeAssumption admits, and misses no change. Only *)
(* the proofs of the second part cite MergeAssumption.                     *)
(***************************************************************************)
EXTENDS TaskSyncMerge, TLAPS

USE TaskSyncAssumption DEF Versions, Blank, NoId

-----------------------------------------------------------------------------
(* The rows that the actions write *)

LEMMA LocalRows ==
  ASSUME NEW row \in LocalRow, clock \in Int
  PROVE  /\ \A v \in Versions : Rewritten(row, v) \in LocalRow
         /\ Toggled(row) \in LocalRow
         /\ \A r \in RemoteIds : Tied(row, r) \in LocalRow
         /\ NoLocal \in LocalRow
<1>1. \A v \in Versions : Rewritten(row, v) \in LocalRow
  BY DEF Rewritten, LocalRow
<1>2. Toggled(row) \in LocalRow
  BY DEF Toggled, LocalRow
<1>3. \A r \in RemoteIds : Tied(row, r) \in LocalRow
  BY DEF Tied, LocalRow
<1>4. NoLocal \in LocalRow
  BY DEF NoLocal, LocalRow
<1> QED BY <1>1, <1>2, <1>3, <1>4

LEMMA RemoteRows ==
  ASSUME NEW row \in RemoteRow, NEW t \in Int, NEW ours \in BOOLEAN
  PROVE  /\ \A v \in Versions : Stored(row, v, t, ours) \in RemoteRow
         /\ Marked(row, t, ours) \in RemoteRow
  BY DEF Stored, Marked, RemoteRow

LEMMA UploadedType ==
  ASSUME TypeOK, NEW i \in LocalIds, NEW r \in RemoteIds
  PROVE  Uploaded(i, r) \in [RemoteIds -> RemoteRow]
<1>1. local[i].text \in Versions /\ clock \in Int
  BY DEF TypeOK, LocalRow
<1> QED BY <1>1, RemoteRows DEF Uploaded, TypeOK

-----------------------------------------------------------------------------
(* Type correctness *)

LEMMA InitTypeOK == Init => TypeOK
<1> SUFFICES ASSUME Init PROVE TypeOK
  OBVIOUS
<1> USE DEF Init, NoLocal, NoRemote, Whole
<1>1. local \in [LocalIds -> LocalRow]
  BY DEF LocalRow
<1>2. remote \in [RemoteIds -> RemoteRow]
  BY DEF RemoteRow
<1>3. /\ fts \subseteq LocalIds \X Versions
      /\ lastClient \in Int /\ lastServer \in Int
      /\ clock \in Nat /\ edits \in Versions /\ failures \in 0..MaxFailures
      /\ since \in 0..clock
  OBVIOUS
<1> QED BY <1>1, <1>2, <1>3 DEF TypeOK

\* The open transaction never began later than now.
LEMMA OpenSince ==
  ASSUME TypeOK
  PROVE  since \in 0..clock /\ Reading \in 0..clock /\ 0 \in 0..clock
  BY DEF TypeOK, Reading

LEMMA NextSince == TypeOK /\ [Next]_vars => since' \in 0..clock'
<1> SUFFICES ASSUME TypeOK, [Next]_vars PROVE since' \in 0..clock'
  OBVIOUS
<1>0. since \in 0..clock /\ Reading \in 0..clock /\ 0 \in 0..clock
  BY OpenSince
<1>C. clock \in Nat
  BY DEF TypeOK
<1>S. ASSUME clock' = clock, since' \in {0, since, Reading} PROVE since' \in 0..clock'
  BY <1>0, <1>S
<1> USE DEF vars, stores, stamps, counters, loops, control
<1>1. CASE User
  BY <1>1, <1>S DEF User, CreateTask, EditTask, ToggleDeleted
<1>2. CASE Others
  BY <1>2, <1>S DEF Others, RemoteCreate, RemoteEdit, RemoteDelete
<1>3. CASE Begin
  BY <1>3, <1>S DEF Begin
<1>4. CASE ListChanges \/ ReportOnly
  BY <1>4, <1>S DEF ListChanges, ReportOnly
<1>5. CASE Apply
  <2>1. ASSUME NEW r \in RemoteIds, NEW i \in LocalIds, NEW v \in Versions,
               PullUpdate(r, i, v) \/ PullCreate(r, i, v)
        PROVE clock' = clock /\ since' = since
    BY <2>1 DEF PullUpdate, PullCreate
  <2>2. CASE PullIndex
    BY <2>2, <1>S DEF PullIndex
  <2>3. ASSUME NEW i \in LocalIds, NEW r \in RemoteIds, PushCreate(i, r)
        PROVE clock' = clock /\ since' = 0
    BY <2>3 DEF PushCreate
  <2>4. CASE PushTid \/ PushFields
    BY <2>4, <1>S DEF PushTid, PushFields
  <2>5. ASSUME NEW i \in LocalIds, PushUpdate(i) \/ PushSkip(i)
        PROVE clock' = clock /\ since' \in {0, Reading}
    BY <2>5 DEF PushUpdate, PushSkip
  <2>6. ASSUME NEW r \in RemoteIds, Drop(r)
        PROVE clock' = clock /\ since' = 0
    BY <2>6 DEF Drop
  <2>7. ASSUME NEW i \in LocalIds, EraseRemote(i) \/ EraseLocal(i)
        PROVE clock' = clock /\ since' \in {0, since}
    BY <2>7 DEF EraseRemote, EraseLocal
  <2>8. CASE Finish
    <3>1. clock' = clock /\ since' \in Reading..clock
      BY <2>8 DEF Finish
    <3> QED BY <3>1, <1>0, <1>C
  <2> QED
    BY <1>5, <1>S, <2>1, <2>2, <2>3, <2>4, <2>5, <2>6, <2>7, <2>8 DEF Apply
<1>6. CASE RemoteFails \/ Kill \/ Restart
  BY <1>6, <1>S DEF RemoteFails, Kill, CutShort, Restart
<1>7. CASE Tick
  BY <1>7, <1>0, <1>C DEF Tick
<1>8. CASE UNCHANGED vars
  BY <1>8, <1>S
<1> QED BY <1>1, <1>2, <1>3, <1>4, <1>5, <1>6, <1>7, <1>8 DEF Next, Sync

LEMMA NextTypeOK == TypeOK /\ [Next]_vars => TypeOK'
<1> SUFFICES ASSUME TypeOK, [Next]_vars PROVE TypeOK'
  OBVIOUS
<1>0. clock \in Int
  BY DEF TypeOK
<1>S. since' \in 0..clock'
  BY NextSince
<1> USE <1>S DEF TypeOK, vars, stores, stamps, counters, loops, control
<1>1. CASE User
  <2>1. ASSUME NEW i \in LocalIds, CreateTask(i) PROVE TypeOK'
    <3>1. edits + 1 \in Versions
      BY <2>1 DEF CreateTask
    <3>2. local' \in [LocalIds -> LocalRow]
      BY <2>1, <3>1 DEF CreateTask, LocalRow
    <3>3. fts' \subseteq LocalIds \X Versions
      BY <2>1, <3>1 DEF CreateTask
    <3> QED BY <2>1, <3>1, <3>2, <3>3 DEF CreateTask
  <2>2. ASSUME NEW i \in LocalIds, EditTask(i) PROVE TypeOK'
    <3>1. edits + 1 \in Versions
      BY <2>2 DEF EditTask
    <3>2. local' \in [LocalIds -> LocalRow]
      BY <2>2, <3>1, <1>0, LocalRows DEF EditTask
    <3>3. fts' \subseteq LocalIds \X Versions
      BY <2>2, <3>1 DEF EditTask, Reindexed
    <3> QED BY <2>2, <3>1, <3>2, <3>3 DEF EditTask
  <2>3. ASSUME NEW i \in LocalIds, ToggleDeleted(i) PROVE TypeOK'
    <3>1. local' \in [LocalIds -> LocalRow]
      BY <2>3, <1>0, LocalRows DEF ToggleDeleted
    <3> QED BY <2>3, <3>1 DEF ToggleDeleted
  <2> QED BY <1>1, <2>1, <2>2, <2>3 DEF User
<1>2. CASE Others
  <2>1. ASSUME NEW r \in RemoteIds, NEW d \in Drift, NEW v \in Versions,
               RemoteCreate(r, d, v)
        PROVE TypeOK'
    <3>1. edits + 1 \in Versions /\ clock + d \in Int
      BY <2>1 DEF RemoteCreate
    <3>2. remote' \in [RemoteIds -> RemoteRow]
      BY <2>1, <3>1 DEF RemoteCreate, RemoteRow
    <3> QED BY <2>1, <3>1, <3>2 DEF RemoteCreate
  <2>2. ASSUME NEW r \in RemoteIds, NEW d \in Drift, RemoteEdit(r, d)
        PROVE TypeOK'
    <3>1. edits + 1 \in Versions /\ clock + d \in Int
      BY <2>2 DEF RemoteEdit
    <3>2. remote' \in [RemoteIds -> RemoteRow]
      BY <2>2, <3>1, RemoteRows DEF RemoteEdit
    <3> QED BY <2>2, <3>1, <3>2 DEF RemoteEdit
  <2>3. ASSUME NEW r \in RemoteIds, NEW d \in Drift, RemoteDelete(r, d)
        PROVE TypeOK'
    <3>1. clock + d \in Int
      OBVIOUS
    <3>2. remote' \in [RemoteIds -> RemoteRow]
      BY <2>3, <3>1, RemoteRows DEF RemoteDelete
    <3> QED BY <2>3, <3>2 DEF RemoteDelete
  <2> QED BY <1>2, <2>1, <2>2, <2>3 DEF Others
<1>3. CASE Begin
  <2>1. seen' \in [RemoteIds -> Versions]
    BY <1>3 DEF Begin, RemoteRow
  <2> QED BY <1>3, <2>1 DEF Begin
<1>4. CASE ListChanges \/ ReportOnly
  BY <1>4 DEF ListChanges, ReportOnly
<1>5. CASE Apply
  <2>1. ASSUME NEW r \in RemoteIds, NEW i \in LocalIds, NEW v \in Versions,
               PullUpdate(r, i, v)
        PROVE TypeOK'
    <3>1. local' \in [LocalIds -> LocalRow]
      BY <2>1, <1>0, LocalRows DEF PullUpdate
    <3> QED BY <2>1, <3>1 DEF PullUpdate
  <2>2. ASSUME NEW r \in RemoteIds, NEW i \in LocalIds, NEW v \in Versions,
               PullCreate(r, i, v)
        PROVE TypeOK'
    <3>1. local' \in [LocalIds -> LocalRow]
      BY <2>2 DEF PullCreate, LocalRow
    <3>2. half' \in Halves
      BY <2>2 DEF PullCreate, Halves
    <3> QED BY <2>2, <3>1, <3>2 DEF PullCreate
  <2>3. CASE PullIndex
    <3>1. half.task \in LocalIds
      BY <2>3 DEF PullIndex, Whole, Halves
    <3>2. local[half.task].text \in Versions
      BY <3>1 DEF LocalRow
    <3> QED BY <2>3, <3>1, <3>2 DEF PullIndex
  <2>4. ASSUME NEW i \in LocalIds, NEW r \in RemoteIds, PushCreate(i, r)
        PROVE TypeOK'
    <3>1. remote' \in [RemoteIds -> RemoteRow]
      BY <2>4 DEF PushCreate, RemoteRow
    <3>2. half' \in Halves
      BY <2>4 DEF PushCreate, Halves
    <3> QED BY <2>4, <3>1, <3>2 DEF PushCreate
  <2>5. CASE PushTid
    <3>1. half.task \in LocalIds /\ half.row \in RemoteIds
      BY <2>5 DEF PushTid, Whole, Halves
    <3>2. local' \in [LocalIds -> LocalRow]
      BY <2>5, <3>1, <1>0, LocalRows DEF PushTid
    <3>3. half' \in Halves
      BY <2>5, <3>1 DEF PushTid, Halves
    <3> QED BY <2>5, <3>2, <3>3 DEF PushTid
  <2>6. CASE PushFields
    <3>1. half.task \in LocalIds /\ half.row \in RemoteIds
      BY <2>6 DEF PushFields, Whole, Halves
    <3>2. remote' \in [RemoteIds -> RemoteRow]
      BY <2>6, <3>1, UploadedType DEF PushFields
    <3> QED BY <2>6, <3>2 DEF PushFields
  <2>7. ASSUME NEW i \in LocalIds, PushUpdate(i) PROVE TypeOK'
    <3>1. local[i].tid \in RemoteIds
      BY <2>7 DEF PushUpdate, HasRemote, LocalRow
    <3>2. remote' \in [RemoteIds -> RemoteRow]
      BY <2>7, <3>1, UploadedType DEF PushUpdate
    <3> QED BY <2>7, <3>2 DEF PushUpdate
  <2>8. ASSUME NEW i \in LocalIds, PushSkip(i) PROVE TypeOK'
    BY <2>8 DEF PushSkip
  <2>9. ASSUME NEW r \in RemoteIds, Drop(r) PROVE TypeOK'
    <3>1. NoLocal \in LocalRow
      BY DEF NoLocal, LocalRow
    <3>2. local' \in [LocalIds -> LocalRow]
      BY <2>9, <3>1 DEF Drop
    <3> QED BY <2>9, <3>2 DEF Drop
  <2>10. ASSUME NEW i \in LocalIds, EraseRemote(i) PROVE TypeOK'
    <3>1. local[i].tid \in RemoteIds
      BY <2>10 DEF EraseRemote, HasRemote, LocalRow
    <3>2. remote' \in [RemoteIds -> RemoteRow]
      BY <2>10, <3>1, <1>0, RemoteRows DEF EraseRemote
    <3>3. half' \in Halves
      BY <2>10 DEF EraseRemote, Halves
    <3> QED BY <2>10, <3>2, <3>3 DEF EraseRemote
  <2>11. ASSUME NEW i \in LocalIds, EraseLocal(i) PROVE TypeOK'
    <3>1. NoLocal \in LocalRow
      BY DEF NoLocal, LocalRow
    <3>2. local' \in [LocalIds -> LocalRow]
      BY <2>11, <3>1 DEF EraseLocal
    <3> QED BY <2>11, <3>2 DEF EraseLocal
  <2>12. CASE Finish
    <3>1. PICK t \in Reading..clock : lastServer' = ServerTime(t)
      BY <2>12 DEF Finish
    <3>2. lastServer' \in Int /\ lastClient' \in Int
      BY <2>12, <3>1, <1>0, OpenSince DEF Finish, ServerTime
    <3> QED BY <2>12, <3>2 DEF Finish
  <2> QED
    BY <1>5, <2>1, <2>2, <2>3, <2>4, <2>5, <2>6, <2>7, <2>8, <2>9, <2>10,
       <2>11, <2>12 DEF Apply
<1>6. CASE RemoteFails \/ Kill
  <2>1. CutShort /\ broken' \in BOOLEAN
    BY <1>6 DEF RemoteFails, Kill
  <2>2. failures' \in 0..MaxFailures
    BY <2>1 DEF CutShort
  <2> QED BY <2>1, <2>2 DEF CutShort
<1>7. CASE Restart
  BY <1>7 DEF Restart
<1>8. CASE Tick
  BY <1>8 DEF Tick
<1>9. CASE UNCHANGED vars
  BY <1>9
<1> QED
  BY <1>1, <1>2, <1>3, <1>4, <1>5, <1>6, <1>7, <1>8, <1>9 DEF Next, Sync

\* Type correctness.
THEOREM TypeCorrect == Spec => []TypeOK
  BY InitTypeOK, NextTypeOK, PTL DEF Spec
-----------------------------------------------------------------------------
(* Ties between the two sides.  Most actions leave exists and tid alone: for *)
(* them the frame lemma is enough.                                           *)

LEMMA TiesFrame ==
  ASSUME TypeOK, TiedInv,
         \A i \in LocalIds :
           /\ local'[i].exists <=> local[i].exists
           /\ local'[i].tid = local[i].tid
           /\ ~local[i].exists => local'[i].text = Blank,
         \A r \in RemoteIds :
           /\ remote[r].exists => remote'[r].exists
           /\ ~remote'[r].exists => remote'[r].text = Blank,
         \A r \in serverUpdated' \cup pulls' : r \in RemoteIds /\ remote[r].exists,
         \/ half' = half
         \/ half' = Whole
         \/ /\ half'.op = "erase" /\ pushes' = {}
            /\ half'.task \in LocalIds /\ local[half'.task].exists,
         half' # Whole => pc' = "apply",
         half' # Whole => pushes' \subseteq pushes,
         \A i \in pushes' : i \in LocalIds /\ local[i].exists
  PROVE  TiedInv'
<1>1. EmptyRows'
  BY DEF TiedInv, EmptyRows
<1>2. ListsExist'
  BY DEF ListsExist
<1>3. HalfMade'
  BY DEF TiedInv, HalfMade, TypeOK, Whole, Halves
<1>4. TidsMatch'
  BY DEF TiedInv, TidsMatch, HasRemote, TypeOK, LocalRow
<1> QED BY <1>1, <1>2, <1>3, <1>4 DEF TiedInv

LEMMA InitTied == Init => TiedInv
  BY DEF Init, TiedInv, EmptyRows, ListsExist, HalfMade, TidsMatch, NoLocal,
         NoRemote, Whole

\* What the row operators leave alone.
LEMMA LocalFields ==
  ASSUME NEW row \in LocalRow
  PROVE  /\ \A v : /\ Rewritten(row, v).exists = row.exists
                   /\ Rewritten(row, v).tid = row.tid
                   /\ Rewritten(row, v).text = v
         /\ Toggled(row).exists = row.exists
         /\ Toggled(row).tid = row.tid
         /\ Toggled(row).text = row.text
         /\ \A r : /\ Tied(row, r).exists = row.exists
                   /\ Tied(row, r).tid = r
                   /\ Tied(row, r).text = row.text
  BY DEF Rewritten, Toggled, Tied, LocalRow

LEMMA RemoteFields ==
  ASSUME NEW row \in RemoteRow
  PROVE  \A v, t, b : /\ Stored(row, v, t, b).exists = row.exists
                     /\ Marked(row, t, b).exists = row.exists
  BY DEF Stored, Marked, RemoteRow

\* A write to an existing server row destroys nothing.
LEMMA RemoteWrites ==
  ASSUME TypeOK, EmptyRows, NEW r \in RemoteIds, remote[r].exists,
         NEW row, row.exists,
         remote' = [remote EXCEPT ![r] = row]
  PROVE  \A q \in RemoteIds : /\ remote[q].exists => remote'[q].exists
                              /\ ~remote'[q].exists => remote'[q].text = Blank
  BY DEF TypeOK, EmptyRows

LEMMA UploadKeeps ==
  ASSUME TypeOK, EmptyRows, NEW i \in LocalIds, NEW r \in RemoteIds,
         remote[r].exists, remote' = Uploaded(i, r)
  PROVE  \A q \in RemoteIds : /\ remote[q].exists => remote'[q].exists
                              /\ ~remote'[q].exists => remote'[q].text = Blank
<1> DEFINE row == Stored(remote[r], local[i].text, clock, TRUE)
<1>1. row.exists
  BY RemoteFields DEF TypeOK
<1>2. remote' = [remote EXCEPT ![r] = row]
  BY DEF Uploaded
<1> HIDE DEF row
<1> QED BY <1>1, <1>2, RemoteWrites

LEMMA NextTied == TypeOK /\ TiedInv /\ [Next]_vars => TiedInv'
<1> SUFFICES ASSUME TypeOK, TiedInv, [Next]_vars PROVE TiedInv'
  OBVIOUS
<1>0. /\ TypeOK' /\ clock \in Int
      /\ \A i \in LocalIds : local[i] \in LocalRow
      /\ \A r \in RemoteIds : remote[r] \in RemoteRow
  BY NextTypeOK DEF TypeOK
<1>E. /\ \A i \in LocalIds :
           ~local[i].exists => local[i].tid = NoId /\ local[i].text = Blank
      /\ \A r \in RemoteIds : ~remote[r].exists => remote[r].text = Blank
      /\ \A r \in serverUpdated \cup pulls : r \in RemoteIds /\ remote[r].exists
      /\ \A i \in pushes : i \in LocalIds /\ local[i].exists
      /\ half # Whole => pc = "apply" /\ local[half.task].exists
  BY DEF TiedInv, EmptyRows, ListsExist, HalfMade, TypeOK
<1> USE DEF vars, stores, stamps, counters, loops, control
<1>1. CASE User
  <2>1. ASSUME NEW i \in LocalIds, CreateTask(i) PROVE TiedInv'
    <3>1. /\ ~local[i].exists
          /\ half = Whole
      BY <2>1, <1>E DEF CreateTask, UserMayWrite, NextLocal, LocalIds
    <3>2. /\ local'[i].exists /\ local'[i].tid = NoId
          /\ \A j \in LocalIds : j # i => local'[j] = local[j]
      BY <2>1 DEF CreateTask, TypeOK
    <3> QED
      BY <2>1, <3>1, <3>2, <1>0, <1>E
      DEF CreateTask, TiedInv, EmptyRows, ListsExist, HalfMade, TidsMatch,
          HasRemote, Whole
  <2>2. ASSUME NEW i \in LocalIds, EditTask(i) PROVE TiedInv'
    <3>1. edits + 1 \in Versions
      BY <2>2 DEF EditTask, TypeOK
    <3>2. \A j \in LocalIds : /\ local'[j].exists <=> local[j].exists
                              /\ local'[j].tid = local[j].tid
                              /\ ~local[j].exists => local'[j].text = Blank
      BY <2>2, <3>1, <1>0, <1>E, LocalFields DEF EditTask, TypeOK
    <3>3. UNCHANGED <<remote, loops, control>>
      BY <2>2 DEF EditTask
    <3> QED BY <3>2, <3>3, <1>E, TiesFrame
  <2>3. ASSUME NEW i \in LocalIds, ToggleDeleted(i) PROVE TiedInv'
    <3>1. \A j \in LocalIds : /\ local'[j].exists <=> local[j].exists
                              /\ local'[j].tid = local[j].tid
                              /\ ~local[j].exists => local'[j].text = Blank
      BY <2>3, <1>0, <1>E, LocalFields DEF ToggleDeleted, TypeOK
    <3>2. UNCHANGED <<remote, loops, control>>
      BY <2>3 DEF ToggleDeleted
    <3> QED BY <3>1, <3>2, <1>E, TiesFrame
  <2> QED BY <1>1, <2>1, <2>2, <2>3 DEF User
<1>2. CASE Others
  <2>1. ASSUME NEW r \in RemoteIds, NEW d \in Drift, NEW v \in Versions,
               RemoteCreate(r, d, v)
        PROVE TiedInv'
    <3>1. \A q \in RemoteIds : /\ remote[q].exists => remote'[q].exists
                               /\ ~remote'[q].exists => remote'[q].text = Blank
      BY <2>1, <1>E DEF RemoteCreate, TypeOK
    <3> QED BY <2>1, <3>1, <1>E, TiesFrame DEF RemoteCreate
  <2>2. ASSUME NEW r \in RemoteIds, NEW d \in Drift, RemoteEdit(r, d)
        PROVE TiedInv'
    <3>2. \A q \in RemoteIds : /\ remote[q].exists => remote'[q].exists
                               /\ ~remote'[q].exists => remote'[q].text = Blank
      <4> DEFINE row == Stored(remote[r], edits + 1, clock + d, FALSE)
      <4>1. row.exists
        BY <2>2, <1>0, RemoteFields DEF RemoteEdit
      <4>2. remote' = [remote EXCEPT ![r] = row] /\ remote[r].exists
        BY <2>2 DEF RemoteEdit
      <4> HIDE DEF row
      <4> QED BY <4>1, <4>2, RemoteWrites DEF TiedInv
    <3>3. UNCHANGED <<local, loops, control>>
      BY <2>2 DEF RemoteEdit
    <3> QED BY <3>2, <3>3, <1>E, TiesFrame
  <2>3. ASSUME NEW r \in RemoteIds, NEW d \in Drift, RemoteDelete(r, d)
        PROVE TiedInv'
    <3>2. \A q \in RemoteIds : /\ remote[q].exists => remote'[q].exists
                               /\ ~remote'[q].exists => remote'[q].text = Blank
      BY <2>3, <1>0, RemoteFields, RemoteWrites DEF RemoteDelete, TiedInv
    <3>3. UNCHANGED <<local, loops, control>>
      BY <2>3 DEF RemoteDelete
    <3> QED BY <3>2, <3>3, <1>E, TiesFrame
  <2> QED BY <1>2, <2>1, <2>2, <2>3 DEF Others
<1>3. CASE Begin
  BY <1>3, <1>E, TiesFrame DEF Begin
<1>4. CASE ListChanges
  BY <1>4, <1>E, TiesFrame DEF ListChanges
<1>R. CASE ReportOnly
  BY <1>R, <1>E, TiesFrame DEF ReportOnly
<1>5. CASE Apply
  <2>1. ASSUME NEW r \in RemoteIds, NEW i \in LocalIds, NEW v \in Versions,
               PullUpdate(r, i, v)
        PROVE TiedInv'
    <3>1. \A j \in LocalIds : /\ local'[j].exists <=> local[j].exists
                              /\ local'[j].tid = local[j].tid
                              /\ ~local[j].exists => local'[j].text = Blank
      BY <2>1, <1>0, <1>E, LocalFields DEF PullUpdate, Copies, TypeOK
    <3>2. /\ UNCHANGED <<remote, control, serverUpdated, pushes>>
          /\ pulls' \subseteq pulls
      BY <2>1 DEF PullUpdate
    <3> QED BY <3>1, <3>2, <1>E, TiesFrame
  <2>2. ASSUME NEW r \in RemoteIds, NEW i \in LocalIds, NEW v \in Versions,
               PullCreate(r, i, v)
        PROVE TiedInv'
    <3>1. /\ remote[r].exists /\ pc = "apply"
          /\ \A j \in LocalIds : local[j].exists => local[j].tid # r
      BY <2>2, <1>E DEF PullCreate, Pulling, Copies
    <3>2. /\ local'[i].exists /\ local'[i].tid = r
          /\ \A j \in LocalIds : j # i => local'[j] = local[j]
      BY <2>2 DEF PullCreate, TypeOK
    <3> QED
      BY <2>2, <3>1, <3>2, <1>0, <1>E
      DEF PullCreate, TiedInv, EmptyRows, ListsExist, HalfMade, TidsMatch,
          HasRemote, Whole
  <2>3. CASE PullIndex
    BY <2>3, <1>E, TiesFrame DEF PullIndex
  <2>4. ASSUME NEW i \in LocalIds, NEW r \in RemoteIds, PushCreate(i, r)
        PROVE TiedInv'
    <3>1. ~remote[r].exists /\ pc = "apply"
      BY <2>4 DEF PushCreate, Pushing, NextRemote
    <3>2. /\ remote'[r].exists
          /\ \A q \in RemoteIds : q # r => remote'[q] = remote[q]
      BY <2>4 DEF PushCreate, TypeOK
    <3>3. /\ local[i].tid = NoId
          /\ \A j \in LocalIds : local[j].tid # r
      BY <2>4, <3>1 DEF PushCreate, HasRemote, TiedInv, TidsMatch, RemoteIds
    <3>4. local[i].exists
      BY <2>4, <1>E DEF PushCreate, Pushing
    <3> QED
      BY <2>4, <3>1, <3>2, <3>3, <3>4, <1>0, <1>E
      DEF PushCreate, TiedInv, EmptyRows, ListsExist, HalfMade, TidsMatch,
          HasRemote, Whole
  <2>5. CASE PushTid
    <3>1. /\ half.task \in LocalIds /\ half.row \in RemoteIds
          /\ half.op = "tid" /\ half # Whole
      BY <2>5 DEF PushTid, TypeOK, Whole, Halves
    <3>2. /\ remote[half.row].exists
          /\ \A j \in LocalIds : local[j].tid # half.row
          /\ local[half.task].exists
      BY <3>1, <1>E DEF TiedInv, HalfMade
    <3>3. /\ local'[half.task].tid = half.row
          /\ local'[half.task].exists
          /\ \A j \in LocalIds : j # half.task => local'[j] = local[j]
      BY <2>5, <3>1, <3>2, <1>0, LocalFields DEF PushTid, TypeOK
    <3> QED
      BY <2>5, <3>1, <3>2, <3>3, <1>0, <1>E
      DEF PushTid, TiedInv, EmptyRows, ListsExist, HalfMade, TidsMatch,
          HasRemote, Whole
  <2>6. CASE PushFields
    <3>1. half.task \in LocalIds /\ half.row \in RemoteIds
      BY <2>6 DEF PushFields, TypeOK, Whole, Halves
    <3>2. local[half.task].text \in Versions /\ remote[half.row].exists
      BY <2>6, <3>1, <1>0
      DEF PushFields, TiedInv, HalfMade, TidsMatch, HasRemote, LocalRow, RemoteIds
    <3>3. \A q \in RemoteIds : /\ remote[q].exists => remote'[q].exists
                               /\ ~remote'[q].exists => remote'[q].text = Blank
      BY <2>6, <3>1, <3>2, UploadKeeps DEF PushFields, TiedInv
    <3>4. /\ UNCHANGED <<local, pc, serverUpdated, pulls>>
          /\ half' = Whole /\ pushes' \subseteq pushes
      BY <2>6 DEF PushFields
    <3> QED BY <3>3, <3>4, <1>E, TiesFrame
  <2>7. ASSUME NEW i \in LocalIds, PushUpdate(i) PROVE TiedInv'
    <3>1. local[i].tid \in RemoteIds /\ local[i].text \in Versions
      BY <2>7, <1>0 DEF PushUpdate, HasRemote, LocalRow
    <3>2. \A q \in RemoteIds : /\ remote[q].exists => remote'[q].exists
                               /\ ~remote'[q].exists => remote'[q].text = Blank
      BY <2>7, <3>1, UploadKeeps DEF PushUpdate, HasRemote, TiedInv
    <3>3. /\ UNCHANGED <<local, control, serverUpdated, pulls>>
          /\ pushes' \subseteq pushes
      BY <2>7 DEF PushUpdate
    <3> QED BY <3>2, <3>3, <1>E, TiesFrame
  <2>8. ASSUME NEW i \in LocalIds, PushSkip(i) PROVE TiedInv'
    BY <2>8, <1>E, TiesFrame DEF PushSkip
  <2>9. ASSUME NEW r \in RemoteIds, Drop(r) PROVE TiedInv'
    <3>1. \A j \in LocalIds : local'[j] = NoLocal \/ local'[j] = local[j]
      BY <2>9 DEF Drop
    <3>2. half = Whole
      BY <2>9 DEF Drop
    <3> QED
      BY <2>9, <3>1, <3>2, <1>0, <1>E
      DEF Drop, TiedInv, EmptyRows, ListsExist, HalfMade, TidsMatch, HasRemote,
          Whole, NoLocal
  <2>10. ASSUME NEW i \in LocalIds, EraseRemote(i) PROVE TiedInv'
    <3>1. /\ local[i].tid \in RemoteIds /\ local[i].exists
          /\ pc = "apply"
      BY <2>10, <1>0 DEF EraseRemote, Erasing, HasRemote, LocalRow
    <3>2. \A q \in RemoteIds : /\ remote[q].exists => remote'[q].exists
                               /\ ~remote'[q].exists => remote'[q].text = Blank
      BY <2>10, <3>1, <1>0, RemoteFields, RemoteWrites, <1>E
      DEF EraseRemote, HasRemote, TiedInv
    <3>3. /\ UNCHANGED <<local, pc, loops>> /\ pushes = {}
          /\ half' = [op |-> "erase", task |-> i, row |-> NoId]
      BY <2>10 DEF EraseRemote, Erasing
    <3> QED BY <3>1, <3>2, <3>3, <1>E, TiesFrame
  <2>11. ASSUME NEW i \in LocalIds, EraseLocal(i) PROVE TiedInv'
    <3>1. \A j \in LocalIds : local'[j] = NoLocal \/ local'[j] = local[j]
      BY <2>11 DEF EraseLocal, TypeOK
    <3>2. /\ UNCHANGED <<remote, pushes, serverUpdated, pulls>>
          /\ half' = Whole
      BY <2>11 DEF EraseLocal
    <3>3. pushes = {}
      BY <2>11 DEF EraseLocal, Erasing, TiedInv, HalfMade
    <3> QED
      BY <3>1, <3>2, <3>3, <1>0, <1>E
      DEF TiedInv, EmptyRows, ListsExist, HalfMade, TidsMatch, HasRemote,
          Whole, NoLocal
  <2>12. CASE Finish
    BY <2>12, <1>E, TiesFrame DEF Finish
  <2> QED
    BY <1>5, <2>1, <2>2, <2>3, <2>4, <2>5, <2>6, <2>7, <2>8, <2>9, <2>10,
       <2>11, <2>12 DEF Apply
<1>6. CASE RemoteFails \/ Kill
  BY <1>6, <1>E, TiesFrame DEF RemoteFails, Kill, CutShort
<1>7. CASE Restart
  BY <1>7, <1>E, TiesFrame DEF Restart
<1>8. CASE Tick
  BY <1>8, <1>E, TiesFrame DEF Tick
<1>9. CASE UNCHANGED vars
  BY <1>9, <1>E, TiesFrame
<1> QED
  BY <1>1, <1>2, <1>3, <1>4, <1>R, <1>5, <1>6, <1>7, <1>8, <1>9 DEF Next, Sync

\* No two tasks of the client are tied to one server row, and no task is tied
\* to a server row that does not exist.
THEOREM TiesCorrect == Spec => []TidsMatch
<1>1. Init => TypeOK /\ TiedInv
  BY InitTypeOK, InitTied
<1>2. TypeOK /\ TiedInv /\ [Next]_vars => (TypeOK /\ TiedInv)'
  BY NextTypeOK, NextTied
<1>3. TypeOK /\ TiedInv => TidsMatch
  BY DEF TiedInv
<1> QED BY <1>1, <1>2, <1>3, PTL DEF Spec

-----------------------------------------------------------------------------
(* The full-text index.  The only task without an entry is the one that was *)
(* created by the commit just before.                                       *)

Entered(i) == \E v \in Versions : <<i, v>> \in fts

Indexed ==
  failures = 0 =>
    \A i \in LocalIds :
      local[i].exists => Entered(i) \/ (half.op = "index" /\ half.task = i)

LEMMA NextIndexed == TypeOK /\ TiedInv /\ Indexed /\ [Next]_vars => Indexed'
<1> SUFFICES ASSUME TypeOK, TiedInv, Indexed, [Next]_vars, failures' = 0 PROVE Indexed'
  BY DEF Indexed
<1>0. /\ clock \in Int /\ edits \in Int
      /\ \A i \in LocalIds : local[i] \in LocalRow
  BY DEF TypeOK
<1>F. ASSUME failures' = failures, half' = half \/ half.op # "index",
             \A i \in LocalIds : local'[i].exists => local[i].exists,
             fts \subseteq fts'
      PROVE  Indexed'
  BY <1>F DEF Indexed, Entered
<1> USE DEF vars, stores, stamps, counters, loops, control
<1>1. CASE User
  <2>1. ASSUME NEW i \in LocalIds, CreateTask(i) PROVE Indexed'
    <3>1. edits + 1 \in Versions /\ failures' = failures /\ half' = half
      BY <2>1, <1>0 DEF CreateTask, TypeOK
    <3>2. fts' = fts \cup {<<i, edits + 1>>}
      BY <2>1 DEF CreateTask
    <3>3. Entered(i)' /\ \A j \in LocalIds : Entered(j) => Entered(j)'
      BY <3>1, <3>2 DEF Entered
    <3>4. \A j \in LocalIds : j # i => local'[j] = local[j]
      BY <2>1 DEF CreateTask, TypeOK
    <3> QED BY <3>1, <3>3, <3>4 DEF Indexed
  <2>2. ASSUME NEW i \in LocalIds, EditTask(i) PROVE Indexed'
    <3>1. edits + 1 \in Versions /\ failures' = failures /\ half' = half
      BY <2>2, <1>0 DEF EditTask, TypeOK
    <3>2. \A j \in LocalIds : local'[j].exists => local[j].exists
      BY <2>2, <1>0, LocalFields DEF EditTask, TypeOK
    <3>3. ASSUME NEW j \in LocalIds, Entered(j) PROVE Entered(j)'
      <4>1. PICK v \in Versions : <<j, v>> \in fts
        BY <3>3 DEF Entered
      <4>2. fts' = {IF e[1] = i THEN <<i, edits + 1>> ELSE e : e \in fts}
        BY <2>2 DEF EditTask, Reindexed
      <4>3. j = i => <<j, edits + 1>> \in fts'
        BY <4>1, <4>2
      <4>4. j # i => <<j, v>> \in fts'
        BY <4>1, <4>2
      <4> QED BY <3>1, <4>3, <4>4 DEF Entered
    <3> QED BY <3>1, <3>2, <3>3 DEF Indexed
  <2>3. ASSUME NEW i \in LocalIds, ToggleDeleted(i) PROVE Indexed'
    <3>1. \A j \in LocalIds : local'[j].exists => local[j].exists
      BY <2>3, <1>0, LocalFields DEF ToggleDeleted, TypeOK
    <3> QED BY <2>3, <3>1, <1>F DEF ToggleDeleted
  <2> QED BY <1>1, <2>1, <2>2, <2>3 DEF User
<1>2. CASE Others
  BY <1>2, <1>F DEF Others, RemoteCreate, RemoteEdit, RemoteDelete
<1>3. CASE Begin \/ ListChanges \/ ReportOnly
  BY <1>3, <1>F DEF Begin, ListChanges, ReportOnly
<1>4. CASE Apply
  <2>1. ASSUME NEW r \in RemoteIds, NEW i \in LocalIds, NEW v \in Versions,
               PullUpdate(r, i, v)
        PROVE Indexed'
    <3>1. \A j \in LocalIds : local'[j].exists => local[j].exists
      BY <2>1, <1>0, LocalFields DEF PullUpdate, TypeOK
    <3> QED BY <2>1, <3>1, <1>F DEF PullUpdate
  <2>2. ASSUME NEW r \in RemoteIds, NEW i \in LocalIds, NEW v \in Versions,
               PullCreate(r, i, v)
        PROVE Indexed'
    <3>1. half.op = "none" /\ half'.op = "index" /\ half'.task = i
      BY <2>2 DEF PullCreate, Pulling, Whole
    <3>2. \A j \in LocalIds : j # i => local'[j] = local[j]
      BY <2>2 DEF PullCreate, TypeOK
    <3>3. UNCHANGED <<fts, failures>>
      BY <2>2 DEF PullCreate
    <3> QED BY <3>1, <3>2, <3>3 DEF Indexed, Entered
  <2>3. CASE PullIndex
    <3>1. half.task \in LocalIds
      BY <2>3 DEF PullIndex, TypeOK, Whole, Halves
    <3>2. local[half.task].text \in Versions
      BY <3>1, <1>0 DEF LocalRow
    <3>3. /\ fts' = fts \cup {<<half.task, local[half.task].text>>}
          /\ UNCHANGED <<local, failures>>
      BY <2>3 DEF PullIndex
    <3>4. \A j \in LocalIds : Entered(j) \/ half.task = j => Entered(j)'
      BY <3>2, <3>3 DEF Entered
    <3> QED BY <3>3, <3>4 DEF Indexed
  <2>4. ASSUME NEW i \in LocalIds, NEW r \in RemoteIds, PushCreate(i, r)
        PROVE Indexed'
    BY <2>4, <1>F DEF PushCreate, Pushing, Whole
  <2>5. CASE PushTid
    <3>1. half.task \in LocalIds
      BY <2>5 DEF PushTid, TypeOK, Whole, Halves
    <3>2. \A j \in LocalIds : local'[j].exists => local[j].exists
      BY <2>5, <3>1, <1>0, LocalFields DEF PushTid, TypeOK
    <3> QED BY <2>5, <3>2, <1>F DEF PushTid
  <2>6. CASE PushFields \/ Finish
    BY <2>6, <1>F DEF PushFields, Finish, Whole
  <2>7. ASSUME NEW i \in LocalIds, PushUpdate(i) \/ PushSkip(i) \/ EraseRemote(i)
        PROVE Indexed'
    <3>1. half = Whole
      BY <2>7 DEF PushUpdate, PushSkip, EraseRemote, Pushing, Erasing
    <3>2. UNCHANGED <<local, fts, failures>>
      BY <2>7 DEF PushUpdate, PushSkip, EraseRemote
    <3> QED BY <3>1, <3>2, <1>F DEF Whole
  <2>8. ASSUME NEW i \in LocalIds, EraseLocal(i) PROVE Indexed'
    <3>1. \A j \in LocalIds : local'[j].exists => local[j].exists
      BY <2>8 DEF EraseLocal, NoLocal, TypeOK
    <3> QED BY <2>8, <3>1, <1>F DEF EraseLocal, Erasing, Whole
  <2>9. ASSUME NEW r \in RemoteIds, Drop(r) PROVE Indexed'
    <3>1. \A j \in LocalIds : local'[j].exists => local[j].exists
      BY <2>9 DEF Drop, NoLocal
    <3> QED BY <2>9, <3>1, <1>F DEF Drop
  <2> QED BY <1>4, <2>1, <2>2, <2>3, <2>4, <2>5, <2>6, <2>7, <2>8, <2>9 DEF Apply
<1>5. CASE RemoteFails \/ Kill
  BY <1>5 DEF RemoteFails, Kill, CutShort, TypeOK
<1>6. CASE Restart \/ Tick \/ UNCHANGED vars
  BY <1>6, <1>F DEF Restart, Tick
<1> QED BY <1>1, <1>2, <1>3, <1>4, <1>5, <1>6 DEF Next, Sync

\* As long as no sync was cut short, every task can be found by its text.
THEOREM IndexCorrect == Spec => []EveryTaskIndexed
<1>1. Init => TypeOK /\ TiedInv /\ Indexed
  BY InitTypeOK, InitTied DEF Init, Indexed, NoLocal
<1>2. TypeOK /\ TiedInv /\ Indexed /\ [Next]_vars => (TypeOK /\ TiedInv /\ Indexed)'
  BY NextTypeOK, NextTied, NextIndexed
<1>3. TiedInv /\ Indexed => EveryTaskIndexed
  BY DEF TiedInv, HalfMade, Indexed, Entered, EveryTaskIndexed, Whole
<1> QED BY <1>1, <1>2, <1>3, PTL DEF Spec

-----------------------------------------------------------------------------
(* The text of one edit has one place                                      *)

\* What is known of every text, and what has to be shown of it again.
OriginInv == EditsBound /\ OneOrigin

\* The typing facts the lemmas need.
TextTypes ==
  /\ edits \in Nat
  /\ \A i \in LocalIds : local[i].text \in Nat /\ local[i].tid \in Nat
  /\ \A r \in RemoteIds : remote[r].text \in Nat /\ seen[r] \in Nat

LEMMA TextTyping == TypeOK => TextTypes
<1> SUFFICES ASSUME TypeOK PROVE TextTypes
  OBVIOUS
<1>1. MaxVersion \in Nat /\ MaxRemote \in Nat
  OBVIOUS
<1>2. edits \in Nat
  BY <1>1 DEF TypeOK
<1>3. ASSUME NEW i \in LocalIds
      PROVE  local[i].text \in Nat /\ local[i].tid \in Nat
  <2>1. local[i].text \in 0..MaxVersion /\ local[i].tid \in RemoteIds \cup {NoId}
    BY DEF TypeOK, LocalRow
  <2>2. \A r \in RemoteIds : r \in Nat
    BY <1>1 DEF RemoteIds
  <2> QED BY <1>1, <2>1, <2>2
<1>4. ASSUME NEW r \in RemoteIds
      PROVE  remote[r].text \in Nat /\ seen[r] \in Nat
  <2>1. remote[r].text \in 0..MaxVersion
    BY DEF TypeOK, RemoteRow
  <2>2. seen[r] \in 0..MaxVersion
    BY DEF TypeOK
  <2> QED BY <1>1, <2>1, <2>2
<1> QED BY <1>2, <1>3, <1>4 DEF TextTypes

-----------------------------------------------------------------------------
(* The ways in which a step moves texts about *)

\* Texts stay where they are, or go.
LEMMA TextsStay ==
  ASSUME TextTypes, OriginInv, edits' \in Nat, edits <= edits',
         \A i \in LocalIds :
           \/ local'[i].text = Blank
           \/ local'[i].text = local[i].text /\ local'[i].tid = local[i].tid,
         \A r \in RemoteIds : remote'[r].text \in {remote[r].text, Blank},
         \A r \in RemoteIds : seen'[r] \in {seen[r], Blank}
  PROVE  OriginInv'
<1>1. EditsBound'
  <2>1. \A i \in LocalIds : local'[i].text <= edits'
    BY DEF OriginInv, EditsBound, TextTypes
  <2>2. ASSUME NEW r \in RemoteIds
        PROVE  remote'[r].text <= edits' /\ seen'[r] <= edits'
    <3>1. /\ remote[r].text \in Nat /\ remote[r].text <= edits
          /\ seen[r] \in Nat /\ seen[r] <= edits /\ edits \in Nat
      BY DEF OriginInv, EditsBound, TextTypes
    <3> QED BY <3>1
  <2> QED BY <2>1, <2>2 DEF EditsBound
<1>2. OneOrigin'
  BY DEF OriginInv, OneOrigin, SameText, TextTypes
<1> QED BY <1>1, <1>2 DEF OriginInv

\* A new text appears in one local row.
LEMMA FreshHere ==
  ASSUME TextTypes, OriginInv, edits' = edits + 1,
         NEW i \in LocalIds, local'[i].text = edits + 1,
         \A j \in LocalIds : j # i => local'[j] = local[j],
         UNCHANGED <<remote, seen>>
  PROVE  OriginInv'
<1>1. EditsBound'
  BY DEF OriginInv, EditsBound, TextTypes
<1>2. OneOrigin'
  BY DEF OriginInv, OneOrigin, EditsBound, SameText, TextTypes
<1> QED BY <1>1, <1>2 DEF OriginInv

\* A new text appears in one server row.
LEMMA FreshThere ==
  ASSUME TextTypes, OriginInv, edits' = edits + 1,
         NEW r \in RemoteIds, remote'[r].text \in {edits + 1, Blank},
         \A q \in RemoteIds : q # r => remote'[q] = remote[q],
         UNCHANGED <<local, seen>>
  PROVE  OriginInv'
<1>1. EditsBound'
  <2>1. remote'[r].text <= edits + 1
    BY DEF TextTypes
  <2> QED BY <2>1 DEF OriginInv, EditsBound, TextTypes
<1>2. OneOrigin'
  BY DEF OriginInv, OneOrigin, EditsBound, SameText, TextTypes
<1> QED BY <1>1, <1>2 DEF OriginInv

\* A text of a server row, or the one read from it, is copied to the local row
\* that is tied to it, and to no other.
LEMMA Pulled ==
  ASSUME TextTypes, OriginInv, UNCHANGED <<edits, remote, seen>>,
         NEW i \in LocalIds, NEW r \in RemoteIds,
         local'[i].text \in {seen[r], remote[r].text}, local'[i].tid = r,
         \A j \in LocalIds : j # i => local'[j] = local[j],
         \A j \in LocalIds : local[j].tid = r => j = i
  PROVE  OriginInv'
<1>1. EditsBound'
  BY DEF OriginInv, EditsBound, TextTypes
<1>2. OneOrigin'
  BY DEF OriginInv, OneOrigin, EditsBound, SameText, TextTypes
<1> QED BY <1>1, <1>2 DEF OriginInv

\* The text of a local row is copied to the server row it is tied to.
LEMMA Pushed ==
  ASSUME TextTypes, OriginInv, UNCHANGED <<edits, local, seen>>,
         NEW i \in LocalIds, NEW r \in RemoteIds,
         local[i].tid = r, remote'[r].text = local[i].text,
         \A q \in RemoteIds : q # r => remote'[q] = remote[q]
  PROVE  OriginInv'
<1>1. EditsBound'
  BY DEF OriginInv, EditsBound, TextTypes
<1>2. OneOrigin'
  BY DEF OriginInv, OneOrigin, EditsBound, SameText, TextTypes
<1> QED BY <1>1, <1>2 DEF OriginInv

\* A local row that was tied to nothing is tied to a server row.
LEMMA Joined ==
  ASSUME TextTypes, OriginInv, UNCHANGED <<edits, remote, seen>>,
         NEW i \in LocalIds, local[i].tid = NoId,
         local'[i].text = local[i].text,
         \A j \in LocalIds : j # i => local'[j] = local[j]
  PROVE  OriginInv'
<1>1. EditsBound'
  BY DEF OriginInv, EditsBound, TextTypes
<1>2. \A r \in RemoteIds : r # NoId
  BY DEF RemoteIds
<1>3. \A r \in RemoteIds : /\ ~SameText(local[i].text, remote[r].text)
                           /\ ~SameText(local[i].text, seen[r])
  BY <1>2 DEF OriginInv, OneOrigin
<1>4. OneOrigin'
  BY <1>3 DEF OriginInv, OneOrigin, SameText
<1> QED BY <1>1, <1>4 DEF OriginInv

\* A sync reads the texts of the server.
LEMMA Read ==
  ASSUME TextTypes, OriginInv, UNCHANGED <<edits, local, remote>>,
         \A r \in RemoteIds : seen'[r] = remote[r].text
  PROVE  OriginInv'
<1>1. EditsBound'
  BY DEF OriginInv, EditsBound, TextTypes
<1>2. OneOrigin'
  BY DEF OriginInv, OneOrigin, SameText, TextTypes
<1> QED BY <1>1, <1>2 DEF OriginInv

-----------------------------------------------------------------------------
LEMMA InitOrigin == Init => OriginInv
  BY DEF Init, OriginInv, EditsBound, OneOrigin, SameText, NoLocal, NoRemote

LEMMA UploadedTexts ==
  ASSUME TypeOK, NEW i \in LocalIds, NEW r \in RemoteIds
  PROVE  /\ Uploaded(i, r)[r].text = local[i].text
         /\ \A q \in RemoteIds : q # r => Uploaded(i, r)[q] = remote[q]
<1>1. Stored(remote[r], local[i].text, clock, TRUE).text = local[i].text
  BY DEF TypeOK, Stored, RemoteRow
<1> QED BY <1>1 DEF Uploaded, TypeOK

LEMMA NextOrigin == TypeOK /\ TiedInv /\ OriginInv /\ [Next]_vars => OriginInv'
<1> SUFFICES ASSUME TypeOK, TiedInv, OriginInv, [Next]_vars PROVE OriginInv'
  OBVIOUS
<1>0. /\ TextTypes /\ edits \in Nat /\ edits <= edits
      /\ \A i \in LocalIds : local[i] \in LocalRow
      /\ \A r \in RemoteIds : remote[r] \in RemoteRow
  BY TextTyping DEF TypeOK, TextTypes
<1>T. \A i \in LocalIds : ~local[i].exists => local[i].tid = NoId
  BY DEF TiedInv, EmptyRows
<1>M. \A i, j \in LocalIds : local[i].tid # NoId /\ local[i].tid = local[j].tid
                            => i = j
  BY <1>T DEF TiedInv, TidsMatch
<1>N. \A r \in RemoteIds : r # NoId
  BY DEF RemoteIds
<1> USE DEF vars, stores, stamps, counters, loops, control
<1>1. CASE User
  <2>1. ASSUME NEW i \in LocalIds, CreateTask(i) PROVE OriginInv'
    <3>1. /\ local'[i].text = edits + 1 /\ edits' = edits + 1
          /\ \A j \in LocalIds : j # i => local'[j] = local[j]
          /\ UNCHANGED <<remote, seen>>
      BY <2>1 DEF CreateTask, TypeOK
    <3> QED BY <3>1, <1>0, FreshHere
  <2>2. ASSUME NEW i \in LocalIds, EditTask(i) PROVE OriginInv'
    <3>1. /\ local'[i].text = edits + 1 /\ edits' = edits + 1
          /\ \A j \in LocalIds : j # i => local'[j] = local[j]
          /\ UNCHANGED <<remote, seen>>
      BY <2>2, <1>0, LocalFields DEF EditTask, TypeOK
    <3> QED BY <3>1, <1>0, FreshHere
  <2>3. ASSUME NEW i \in LocalIds, ToggleDeleted(i) PROVE OriginInv'
    <3>1. /\ \A j \in LocalIds : /\ local'[j].text = local[j].text
                                 /\ local'[j].tid = local[j].tid
          /\ UNCHANGED <<remote, seen, edits>>
      BY <2>3, <1>0, LocalFields DEF ToggleDeleted, TypeOK
    <3> QED BY <3>1, <1>0, TextsStay
  <2> QED BY <1>1, <2>1, <2>2, <2>3 DEF User
<1>2. CASE Others
  <2>1. ASSUME NEW r \in RemoteIds, NEW d \in Drift, NEW v \in Versions,
               RemoteCreate(r, d, v)
        PROVE OriginInv'
    <3>1. /\ remote'[r].text \in {edits + 1, Blank} /\ edits' = edits + 1
          /\ \A q \in RemoteIds : q # r => remote'[q] = remote[q]
          /\ UNCHANGED <<local, seen>>
      BY <2>1 DEF RemoteCreate, TypeOK
    <3> QED BY <3>1, <1>0, FreshThere
  <2>2. ASSUME NEW r \in RemoteIds, NEW d \in Drift, RemoteEdit(r, d)
        PROVE OriginInv'
    <3>1. /\ remote'[r].text = edits + 1 /\ edits' = edits + 1
          /\ \A q \in RemoteIds : q # r => remote'[q] = remote[q]
          /\ UNCHANGED <<local, seen>>
      <4>1. Stored(remote[r], edits + 1, clock + d, FALSE).text = edits + 1
        BY <1>0 DEF Stored, RemoteRow
      <4> QED BY <2>2, <4>1 DEF RemoteEdit, TypeOK
    <3> QED BY <3>1, <1>0, FreshThere
  <2>3. ASSUME NEW r \in RemoteIds, NEW d \in Drift, RemoteDelete(r, d)
        PROVE OriginInv'
    <3>1. /\ \A q \in RemoteIds : remote'[q].text = remote[q].text
          /\ UNCHANGED <<local, seen, edits>>
      <4>1. Marked(remote[r], clock + d, FALSE).text = remote[r].text
        BY <1>0 DEF Marked, RemoteRow
      <4> QED BY <2>3, <4>1 DEF RemoteDelete, TypeOK
    <3> QED BY <3>1, <1>0, TextsStay
  <2> QED BY <1>2, <2>1, <2>2, <2>3 DEF Others
<1>3. CASE Begin
  <2>1. /\ \A r \in RemoteIds : seen'[r] = remote[r].text
        /\ UNCHANGED <<edits, local, remote>>
    BY <1>3 DEF Begin
  <2> QED BY <2>1, <1>0, Read
<1>4. CASE ListChanges
  BY <1>4, <1>0, TextsStay DEF ListChanges
<1>R. CASE ReportOnly
  BY <1>R, <1>0, TextsStay DEF ReportOnly
<1>5. CASE Apply
  <2>1. ASSUME NEW r \in RemoteIds, NEW i \in LocalIds, NEW v \in Versions,
               PullUpdate(r, i, v)
        PROVE OriginInv'
    <3>1. /\ local'[i].text \in {seen[r], remote[r].text} /\ local'[i].tid = r
          /\ \A j \in LocalIds : j # i => local'[j] = local[j]
          /\ UNCHANGED <<edits, remote, seen>>
      BY <2>1, <1>0, LocalFields DEF PullUpdate, Copies, TypeOK
    <3>2. \A j \in LocalIds : local[j].tid = r => j = i
      BY <2>1, <1>M, <1>N DEF PullUpdate, Copies
    <3> QED BY <3>1, <3>2, <1>0, Pulled
  <2>2. ASSUME NEW r \in RemoteIds, NEW i \in LocalIds, NEW v \in Versions,
               PullCreate(r, i, v)
        PROVE OriginInv'
    <3>1. /\ local'[i].text \in {seen[r], remote[r].text} /\ local'[i].tid = r
          /\ \A j \in LocalIds : j # i => local'[j] = local[j]
          /\ UNCHANGED <<edits, remote, seen>>
      BY <2>2 DEF PullCreate, TypeOK
    <3>2. \A j \in LocalIds : local[j].tid = r => j = i
      BY <2>2, <1>T, <1>N DEF PullCreate, Copies
    <3> QED BY <3>1, <3>2, <1>0, Pulled
  <2>3. CASE PullIndex
    BY <2>3, <1>0, TextsStay DEF PullIndex
  <2>4. ASSUME NEW i \in LocalIds, NEW r \in RemoteIds, PushCreate(i, r)
        PROVE OriginInv'
    <3>1. /\ \A q \in RemoteIds : remote'[q].text \in {remote[q].text, Blank}
          /\ UNCHANGED <<edits, local, seen>>
      BY <2>4 DEF PushCreate, TypeOK
    <3> QED BY <3>1, <1>0, TextsStay
  <2>5. CASE PushTid
    <3>1. half.task \in LocalIds /\ half.row \in RemoteIds
      BY <2>5 DEF PushTid, TypeOK, Whole, Halves
    <3>2. local[half.task].tid = NoId
      BY <2>5 DEF PushTid, TiedInv, HalfMade
    <3>3. /\ local'[half.task].text = local[half.task].text
          /\ \A j \in LocalIds : j # half.task => local'[j] = local[j]
          /\ UNCHANGED <<edits, remote, seen>>
      BY <2>5, <3>1, <1>0, LocalFields DEF PushTid, TypeOK
    <3> QED BY <3>1, <3>2, <3>3, <1>0, Joined
  <2>6. CASE PushFields
    <3>1. half.task \in LocalIds /\ half.row \in RemoteIds
      BY <2>6 DEF PushFields, TypeOK, Whole, Halves
    <3>2. local[half.task].tid = half.row
      BY <2>6 DEF PushFields, TiedInv, HalfMade
    <3>3. /\ remote'[half.row].text = local[half.task].text
          /\ \A q \in RemoteIds : q # half.row => remote'[q] = remote[q]
          /\ UNCHANGED <<edits, local, seen>>
      BY <2>6, <3>1, UploadedTexts DEF PushFields
    <3> QED BY <3>1, <3>2, <3>3, <1>0, Pushed
  <2>7. ASSUME NEW i \in LocalIds, PushUpdate(i) PROVE OriginInv'
    <3>1. local[i].tid \in RemoteIds
      BY <2>7, <1>0 DEF PushUpdate, HasRemote, LocalRow
    <3>2. /\ remote'[local[i].tid].text = local[i].text
          /\ \A q \in RemoteIds : q # local[i].tid => remote'[q] = remote[q]
          /\ UNCHANGED <<edits, local, seen>>
      BY <2>7, <3>1, UploadedTexts DEF PushUpdate
    <3> QED BY <3>1, <3>2, <1>0, Pushed
  <2>8. ASSUME NEW i \in LocalIds, PushSkip(i) PROVE OriginInv'
    BY <2>8, <1>0, TextsStay DEF PushSkip
  <2>9. ASSUME NEW r \in RemoteIds, Drop(r) PROVE OriginInv'
    <3>1. /\ \A j \in LocalIds : local'[j] = NoLocal \/ local'[j] = local[j]
          /\ UNCHANGED <<edits, remote, seen>>
      BY <2>9 DEF Drop
    <3> QED BY <3>1, <1>0, TextsStay DEF NoLocal
  <2>10. ASSUME NEW i \in LocalIds, EraseRemote(i) PROVE OriginInv'
    <3>1. local[i].tid \in RemoteIds
      BY <2>10, <1>0 DEF EraseRemote, HasRemote, LocalRow
    <3>2. /\ \A q \in RemoteIds : remote'[q].text = remote[q].text
          /\ UNCHANGED <<local, seen, edits>>
      <4>1. Marked(remote[local[i].tid], clock, TRUE).text
              = remote[local[i].tid].text
        BY <3>1, <1>0 DEF Marked, RemoteRow
      <4> QED BY <2>10, <3>1, <4>1 DEF EraseRemote, TypeOK
    <3> QED BY <3>2, <1>0, TextsStay
  <2>11. ASSUME NEW i \in LocalIds, EraseLocal(i) PROVE OriginInv'
    <3>1. /\ \A j \in LocalIds : local'[j] = NoLocal \/ local'[j] = local[j]
          /\ UNCHANGED <<edits, remote, seen>>
      BY <2>11 DEF EraseLocal, TypeOK
    <3> QED BY <3>1, <1>0, TextsStay DEF NoLocal
  <2>12. CASE Finish
    BY <2>12, <1>0, TextsStay DEF Finish
  <2> QED
    BY <1>5, <2>1, <2>2, <2>3, <2>4, <2>5, <2>6, <2>7, <2>8, <2>9, <2>10,
       <2>11, <2>12 DEF Apply
<1>6. CASE RemoteFails \/ Kill
  BY <1>6, <1>0, TextsStay DEF RemoteFails, Kill, CutShort
<1>7. CASE Restart
  BY <1>7, <1>0, TextsStay DEF Restart
<1>8. CASE Tick
  BY <1>8, <1>0, TextsStay DEF Tick
<1>9. CASE UNCHANGED vars
  BY <1>9, <1>0, TextsStay
<1> QED
  BY <1>1, <1>2, <1>3, <1>4, <1>R, <1>5, <1>6, <1>7, <1>8, <1>9 DEF Next, Sync

\* The text of one edit has one place, on either side.
THEOREM OriginCorrect == Spec => []OneOrigin
<1>1. Init => TypeOK /\ TiedInv /\ OriginInv
  BY InitTypeOK, InitTied, InitOrigin
<1>2. TypeOK /\ TiedInv /\ OriginInv /\ [Next]_vars
      => (TypeOK /\ TiedInv /\ OriginInv)'
  BY NextTypeOK, NextTied, NextOrigin
<1>3. TypeOK /\ TiedInv /\ OriginInv => OneOrigin
  BY DEF OriginInv
<1> QED BY <1>1, <1>2, <1>3, PTL DEF Spec

-----------------------------------------------------------------------------
(* The merge                                                               *)

-----------------------------------------------------------------------------
(* What the actions write *)

LEMMA Columns ==
  ASSUME TypeOK
  PROVE  /\ clock \in Nat /\ lastClient \in Int /\ lastServer \in Int
         /\ \A i \in LocalIds :
              /\ local[i] \in LocalRow /\ local[i].modified \in Int
              /\ local[i].text \in Nat /\ local[i].tid \in RemoteIds \cup {NoId}
              /\ local[i].deleted \in BOOLEAN /\ local[i].exists \in BOOLEAN
         /\ \A r \in RemoteIds :
              /\ remote[r] \in RemoteRow /\ remote[r].modified \in Int
              /\ remote[r].text \in Nat
              /\ remote[r].deleted \in BOOLEAN /\ remote[r].exists \in BOOLEAN
              /\ remote[r].ours \in BOOLEAN
<1>1. MaxVersion \in Nat
  OBVIOUS
<1>2. ASSUME NEW i \in LocalIds PROVE local[i] \in LocalRow
  BY DEF TypeOK
<1>3. ASSUME NEW r \in RemoteIds PROVE remote[r] \in RemoteRow
  BY DEF TypeOK
<1>4. clock \in Nat /\ lastClient \in Int /\ lastServer \in Int
  BY DEF TypeOK
<1> QED BY <1>1, <1>2, <1>3, <1>4 DEF LocalRow, RemoteRow

LEMMA InitMerge == MergeInit => MergeInv
<1> SUFFICES ASSUME MergeInit PROVE MergeInv
  OBVIOUS
<1> USE DEF MergeInit, Init, NoLocal, NoRemote, Whole
<1>2. HaveText /\ Queried /\ PullsTell /\ PushesTell /\ ErasesTell /\ HalvesTell
  BY DEF HaveText, Queried, PullsTell, PushesTell, ErasesTell, HalvesTell
<1>3. InTime
  BY DEF InTime
<1>4. TimesTell
  BY DEF TimesTell, ChangedThere, ChangedHere
<1> QED BY <1>2, <1>3, <1>4 DEF MergeInv

\* A step with the history variables is a step of TaskSync.
LEMMA MergeStep == [MergeNext]_<<vars, exchange>> => [Next]_vars
<1> SUFFICES ASSUME MergeNext PROVE Next
  BY DEF exchange
<1> QED
  BY DEF MergeNext, MergeUser, MergeOthers, MergeApply, Next, User, Others, Sync, Apply

\* What a write leaves in a row, beside what LocalFields and RemoteFields say.
LEMMA LocalStamps ==
  ASSUME NEW row \in LocalRow
  PROVE  /\ \A v : /\ Rewritten(row, v).deleted = row.deleted
                   /\ Rewritten(row, v).modified = clock
         /\ Toggled(row).deleted = ~row.deleted /\ Toggled(row).modified = clock
         /\ \A r : /\ Tied(row, r).deleted = row.deleted
                   /\ Tied(row, r).modified = clock
  BY DEF Rewritten, Toggled, Tied, LocalRow

LEMMA RemoteStamps ==
  ASSUME NEW row \in RemoteRow
  PROVE  \A v, t, b :
           /\ Stored(row, v, t, b).text = v /\ Stored(row, v, t, b).modified = t
           /\ Stored(row, v, t, b).deleted = row.deleted
           /\ Marked(row, t, b).text = row.text /\ Marked(row, t, b).modified = t
           /\ Marked(row, t, b).deleted
           /\ Stored(row, v, t, b).ours = b /\ Marked(row, t, b).ours = b
  BY DEF Stored, Marked, RemoteRow

\* What each action that writes does to its row; the other rows stay.
LEMMA LocalWrites ==
  ASSUME TypeOK, NEW i \in LocalIds
  PROVE  /\ \A v \in Versions : local' = [local EXCEPT ![i] = Rewritten(@, v)] =>
              /\ local'[i].exists = local[i].exists /\ local'[i].tid = local[i].tid
              /\ local'[i].deleted = local[i].deleted
              /\ local'[i].text = v /\ local'[i].modified = clock
              /\ \A j \in LocalIds : j # i => local'[j] = local[j]
         /\ local' = [local EXCEPT ![i] = Toggled(@)] =>
              /\ local'[i].exists = local[i].exists /\ local'[i].tid = local[i].tid
              /\ local'[i].text = local[i].text
              /\ local'[i].deleted = ~local[i].deleted /\ local'[i].modified = clock
              /\ \A j \in LocalIds : j # i => local'[j] = local[j]
         /\ \A r \in RemoteIds : local' = [local EXCEPT ![i] = Tied(@, r)] =>
              /\ local'[i].exists = local[i].exists /\ local'[i].tid = r
              /\ local'[i].text = local[i].text /\ local'[i].modified = clock
              /\ local'[i].deleted = local[i].deleted
              /\ \A j \in LocalIds : j # i => local'[j] = local[j]
<1>1. local[i] \in LocalRow /\ local \in [LocalIds -> LocalRow]
  BY DEF TypeOK
<1> QED BY <1>1, LocalFields, LocalStamps

LEMMA RemoteStored ==
  ASSUME TypeOK, NEW r \in RemoteIds, NEW v, NEW t, NEW b,
         remote' = [remote EXCEPT ![r] = Stored(@, v, t, b)]
  PROVE  /\ remote'[r].exists = remote[r].exists
         /\ remote'[r].deleted = remote[r].deleted
         /\ remote'[r].text = v /\ remote'[r].modified = t /\ remote'[r].ours = b
         /\ \A q \in RemoteIds : q # r => remote'[q] = remote[q]
<1>1. remote[r] \in RemoteRow /\ remote \in [RemoteIds -> RemoteRow]
  BY DEF TypeOK
<1>2. remote'[r] = Stored(remote[r], v, t, b)
  BY <1>1
<1>3. \A q \in RemoteIds : q # r => remote'[q] = remote[q]
  BY <1>1
<1> QED BY <1>1, <1>2, <1>3, RemoteFields, RemoteStamps

LEMMA RemoteMarked ==
  ASSUME TypeOK, NEW r \in RemoteIds, NEW t, NEW b,
         remote' = [remote EXCEPT ![r] = Marked(@, t, b)]
  PROVE  /\ remote'[r].exists = remote[r].exists
         /\ remote'[r].text = remote[r].text
         /\ remote'[r].deleted /\ remote'[r].modified = t /\ remote'[r].ours = b
         /\ \A q \in RemoteIds : q # r => remote'[q] = remote[q]
<1>1. remote[r] \in RemoteRow /\ remote \in [RemoteIds -> RemoteRow]
  BY DEF TypeOK
<1>2. remote'[r] = Marked(remote[r], t, b)
  BY <1>1
<1>3. \A q \in RemoteIds : q # r => remote'[q] = remote[q]
  BY <1>1
<1> QED BY <1>1, <1>2, <1>3, RemoteFields, RemoteStamps

-----------------------------------------------------------------------------
(* The invariant is kept *)

\* While the lists are applied, nothing is said of the times.
LEMMA Applying ==
  ASSUME pc' = "apply", HaveText', InTime', PullsTell', PushesTell', ErasesTell',
         HalvesTell'
  PROVE  MergeInv'
  BY DEF MergeInv, TimesTell, Queried

\* Between two syncs no task is between its commits.
LEMMA AtRest ==
  ASSUME TiedInv, pc # "apply", pc' # "apply", half' = half,
         HaveText', InTime', TimesTell', Queried'
  PROVE  MergeInv'
<1>1. half = Whole
  BY DEF TiedInv, HalfMade
<1> QED BY <1>1 DEF MergeInv, PullsTell, PushesTell, ErasesTell, HalvesTell, Whole

\* What this client writes on the server ends the transaction that was open, so that
\* no row it wrote is younger than the one it reads in.
LEMMA InTimeKept ==
  ASSUME TypeOK, InTime, clock' \in Nat, clock <= clock', since' \in {0, since, Reading},
         \A i \in LocalIds : local'[i].modified \in {local[i].modified, clock, 0},
         \A r \in RemoteIds : \/ ~remote'[r].ours
                              \/ remote'[r] = remote[r]
                              \/ since' = 0 /\ remote'[r].modified = clock
  PROVE  InTime'
<1>1. /\ since \in Nat /\ clock \in Nat /\ Reading \in Nat /\ Reading <= clock
      /\ since # 0 => Reading = since
      /\ since = 0 => Reading = clock
  BY OpenSince DEF TypeOK, Reading
<1>2. Reading' \in Nat /\ Reading <= Reading' /\ (since' = 0 => clock <= Reading')
  BY <1>1 DEF Reading
<1>3. ASSUME NEW i \in LocalIds PROVE local'[i].modified <= clock'
  <2>1. local[i].modified \in Int /\ local[i].modified <= clock
    BY Columns DEF InTime
  <2> QED BY <1>1, <2>1
<1>4. ASSUME NEW r \in RemoteIds, remote'[r].ours PROVE remote'[r].modified <= Reading'
  <2>1. CASE remote'[r] = remote[r]
    <3>1. remote[r].modified \in Int /\ remote[r].modified <= Reading
      BY <1>4, <2>1, Columns DEF InTime
    <3> QED BY <1>1, <1>2, <2>1, <3>1
  <2>2. CASE since' = 0 /\ remote'[r].modified = clock
    BY <1>1, <1>2, <2>2
  <2> QED BY <1>4, <2>1, <2>2
<1> QED BY <1>3, <1>4 DEF InTime

LEMMA UserMerge ==
  ASSUME TypeOK, TiedInv, MergeInv, MergeUser
  PROVE  MergeInv'
<1>1. PICK i \in LocalIds :
        (CreateTask(i) \/ EditTask(i) \/ ToggleDeleted(i)) /\ UserWrote(i)
  BY DEF MergeUser
<1>2. /\ pc = "idle" /\ UNCHANGED <<pc, half, remote, stamps, clock, since, unseen>>
      /\ unsent' = unsent \cup {i}
  BY <1>1 DEF CreateTask, EditTask, ToggleDeleted, UserMayWrite, UserWrote, control,
              counters
<1>3. /\ local'[i].modified = clock
      /\ \/ local'[i].text # Blank
         \/ local[i].exists /\ local'[i].text = local[i].text
      /\ \A j \in LocalIds : j # i => local'[j] = local[j]
  <2>1. CASE CreateTask(i)
    BY <2>1 DEF CreateTask, TypeOK
  <2>2. CASE EditTask(i)
    <3>1. edits + 1 \in Versions /\ edits + 1 # Blank
      BY <2>2 DEF EditTask, TypeOK
    <3> QED BY <2>2, <3>1, LocalWrites DEF EditTask
  <2>3. CASE ToggleDeleted(i)
    BY <2>3, LocalWrites DEF ToggleDeleted
  <2> QED BY <1>1, <2>1, <2>2, <2>3
<1>4. HaveText'
  BY <1>2, <1>3 DEF MergeInv, HaveText
<1>5. InTime'
  BY <1>2, <1>3, Columns, InTimeKept DEF MergeInv
<1>6. TimesTell'
  BY <1>2, <1>3 DEF MergeInv, TimesTell, ChangedThere, ChangedHere, stamps
<1>7. Queried'
  BY <1>2 DEF Queried
<1> QED BY <1>2, <1>4, <1>5, <1>6, <1>7, AtRest

LEMMA OthersMerge ==
  ASSUME TypeOK, TiedInv, MergeInv, MergeOthers
  PROVE  MergeInv'
<1>1. PICK r \in RemoteIds, d \in Drift :
        /\ \/ \E v \in Versions : RemoteCreate(r, d, v)
           \/ RemoteEdit(r, d) \/ RemoteDelete(r, d)
        /\ OthersWrote(r)
  BY DEF MergeOthers
<1>2. /\ pc = "idle" /\ UNCHANGED <<pc, half, local, stamps, clock, since, unsent>>
      /\ unseen' = unseen \cup {r} /\ clock + d > lastServer
  BY <1>1, MergeAssumption
  DEF RemoteCreate, RemoteEdit, RemoteDelete, OthersMayWrite, OthersWrote, control,
      counters
<1>3. /\ remote'[r].exists /\ remote'[r].modified = clock + d /\ ~remote'[r].ours
      /\ \/ remote'[r].text # Blank
         \/ remote[r].exists /\ remote'[r].text = remote[r].text
      /\ \A q \in RemoteIds : q # r => remote'[q] = remote[q]
  <2>1. ASSUME NEW v \in Versions, RemoteCreate(r, d, v)
        PROVE  /\ remote'[r].exists /\ remote'[r].modified = clock + d
               /\ ~remote'[r].ours /\ remote'[r].text # Blank
               /\ \A q \in RemoteIds : q # r => remote'[q] = remote[q]
    <3>1. v = edits + 1 /\ edits \in Nat
      BY <2>1, MergeAssumption DEF RemoteCreate, TypeOK
    <3> QED BY <2>1, <3>1 DEF RemoteCreate, TypeOK
  <2>2. CASE RemoteEdit(r, d)
    <3> DEFINE row == Stored(remote[r], edits + 1, clock + d, FALSE)
    <3>1. remote[r].exists /\ remote' = [remote EXCEPT ![r] = row]
      BY <2>2 DEF RemoteEdit
    <3>2. edits + 1 # Blank
      BY DEF TypeOK
    <3>3. /\ row.exists /\ row.text = edits + 1
          /\ row.modified = clock + d /\ ~row.ours
      BY <3>1, Columns DEF Stored, RemoteRow
    <3> HIDE DEF row
    <3>4. remote'[r] = row /\ \A q \in RemoteIds : q # r => remote'[q] = remote[q]
      BY <3>1 DEF TypeOK
    <3> QED BY <3>1, <3>2, <3>3, <3>4
  <2>3. CASE RemoteDelete(r, d)
    BY <2>3, RemoteMarked DEF RemoteDelete
  <2> QED BY <1>1, <2>1, <2>2, <2>3
<1>4. HaveText'
  BY <1>2, <1>3 DEF MergeInv, HaveText, TiedInv, HalfMade, Whole
<1>5. InTime'
  BY <1>2, <1>3, Columns, InTimeKept DEF MergeInv
<1>6. TimesTell'
  BY <1>2, <1>3 DEF MergeInv, TimesTell, ChangedThere, ChangedHere, stamps
<1>7. Queried'
  BY <1>2 DEF Queried
<1> QED BY <1>2, <1>4, <1>5, <1>6, <1>7, AtRest

LEMMA QueryMerge ==
  ASSUME TypeOK, TiedInv, MergeInv, Begin \/ ListChanges \/ ReportOnly,
         UNCHANGED exchange
  PROVE  MergeInv'
<1>1. UNCHANGED <<local, remote, stamps, clock, half, unsent, unseen>>
  BY DEF Begin, ListChanges, ReportOnly, stores, counters, exchange
<1>2. half = Whole /\ pc # "apply"
  BY DEF TiedInv, HalfMade, Begin, ListChanges, ReportOnly
<1>3. HaveText' /\ HalvesTell'
  BY <1>1, <1>2 DEF MergeInv, HaveText, HalvesTell, Whole
<1>T. InTime'
  <2>1. since' \in {since, Reading}
    BY DEF Begin, ListChanges, ReportOnly
  <2> QED BY <1>1, <2>1, Columns, InTimeKept DEF MergeInv
<1>4. TimesTell'
  BY <1>1, <1>2 DEF MergeInv, TimesTell, ChangedThere, ChangedHere, stamps
<1>5. CASE Begin
  <2>1. Queried'
    BY <1>1, <1>5 DEF Begin, MergeInv, TimesTell, Queried, ChangedThere
  <2> QED BY <1>1, <1>2, <1>3, <1>T, <1>4, <1>5, <2>1, AtRest DEF Begin
<1>6. CASE ListChanges
  <2>1. PullsTell'
    BY <1>1, <1>6 DEF ListChanges, MergeInv, TimesTell, Queried, PullsTell, ChangedThere
  <2>2. PushesTell' /\ ErasesTell'
    BY <1>1, <1>6
    DEF ListChanges, MergeInv, TimesTell, PushesTell, ErasesTell, ChangedHere
  <2> QED BY <1>3, <1>T, <1>6, <2>1, <2>2, Applying DEF ListChanges
<1>7. CASE ReportOnly
  <2>1. Queried' /\ pc' # "apply"
    BY <1>7 DEF ReportOnly, Queried
  <2> QED BY <1>1, <1>2, <1>3, <1>T, <1>4, <2>1, AtRest
<1> QED BY <1>5, <1>6, <1>7

LEMMA PullMerge ==
  ASSUME TypeOK, TiedInv, MergeInv, NEW r \in RemoteIds, NEW i \in LocalIds,
         NEW v \in Versions, PullUpdate(r, i, v) \/ PullCreate(r, i, v), WasPulled(r)
  PROVE  MergeInv'
<1>1. /\ pc = "apply" /\ pc' = "apply" /\ half = Whole /\ r \in pulls
      /\ UNCHANGED <<remote, clock, since, serverUpdated, seen, pushes, drops, erases>>
      /\ pulls' = pulls \ {r} /\ unseen' = unseen \ {r}
      /\ unsent' = unsent \ {j \in Copies(r) : ~local[j].deleted}
  BY DEF PullUpdate, PullCreate, Pulling, WasPulled, control, counters
<1>2. /\ remote[r].exists /\ ~remote[r].deleted /\ seen[r] = remote[r].text
      /\ r \in serverUpdated
  BY <1>1 DEF MergeInv, PullsTell, TiedInv, ListsExist
<1>3. v # Blank
  BY <1>1, <1>2
  DEF PullUpdate, PullCreate, MergeInv, HaveText, Whole
<1>4. /\ local'[i].modified = clock /\ local'[i].text = v
      /\ \A j \in LocalIds : j # i => local'[j] = local[j]
      /\ local[i].exists => /\ local'[i].deleted = local[i].deleted
                            /\ local'[i].exists /\ local'[i].tid = local[i].tid
      /\ ~local[i].exists => local'[i].exists
  <2>1. CASE PullUpdate(r, i, v)
    BY <2>1, LocalWrites DEF PullUpdate, Copies
  <2>2. CASE PullCreate(r, i, v)
    <3>1. ~local[i].exists
      BY <2>2 DEF PullCreate, NextLocal, LocalIds
    <3> QED BY <2>2, <3>1 DEF PullCreate, TypeOK
  <2> QED BY <2>1, <2>2
<1>5. half' = Whole \/ half'.op = "index"
  BY <1>1 DEF PullUpdate, PullCreate, control
<1>6. HaveText'
  BY <1>1, <1>3, <1>4, <1>5 DEF MergeInv, HaveText, Whole
<1>7. InTime'
  BY <1>1, <1>4, Columns, InTimeKept DEF MergeInv
<1>8. PullsTell'
  BY <1>1, <1>2 DEF MergeInv, PullsTell
<1>9. PushesTell'
  <2>1. \A j \in pushes : local[j].exists
    BY DEF TiedInv, ListsExist
  <2> QED BY <1>1, <1>2, <1>4, <2>1 DEF MergeInv, PushesTell, Copies, TypeOK
<1>10. ErasesTell'
  BY <1>1, <1>4 DEF MergeInv, ErasesTell, TypeOK
<1>11. HalvesTell'
  BY <1>5 DEF HalvesTell, Whole
<1> QED BY <1>1, <1>6, <1>7, <1>8, <1>9, <1>10, <1>11, Applying

LEMMA IndexMerge ==
  ASSUME TypeOK, TiedInv, MergeInv, PullIndex, UNCHANGED exchange
  PROVE  MergeInv'
<1>1. /\ pc = "apply" /\ pc' = "apply" /\ half.op = "index" /\ half' = Whole
      /\ UNCHANGED <<local, remote, clock, since, loops, exchange>>
  BY DEF PullIndex, counters
<1>2. InTime'
  BY <1>1, Columns, InTimeKept DEF MergeInv
<1> QED BY <1>1, <1>2, Applying
  DEF MergeInv, HaveText, PullsTell, PushesTell, ErasesTell, HalvesTell,
      Whole, loops, exchange

LEMMA PushNewMerge ==
  ASSUME TypeOK, TiedInv, MergeInv, NEW i \in LocalIds, NEW r \in RemoteIds,
         PushCreate(i, r), UNCHANGED exchange
  PROVE  MergeInv'
<1>1. /\ pc = "apply" /\ pc' = "apply" /\ half = Whole /\ pulls = {} /\ i \in pushes
      /\ half' = [op |-> "tid", task |-> i, row |-> r] /\ since' = 0
      /\ UNCHANGED <<local, clock, unsent, unseen, serverUpdated, seen, pulls, pushes,
                     drops, erases>>
  BY DEF PushCreate, Pushing, counters, loops, exchange
<1>2. /\ ~remote[r].exists /\ remote'[r].exists /\ remote'[r].text = Blank
      /\ ~remote'[r].deleted /\ remote'[r].modified = clock
      /\ \A q \in RemoteIds : q # r => remote'[q] = remote[q]
  BY DEF PushCreate, NextRemote, TypeOK
<1>3. r \notin unseen /\ r \notin drops
  BY <1>1, <1>2 DEF MergeInv, PullsTell
<1>4. i \in unsent
  <2>1. \A q \in serverUpdated : q # NoId /\ remote[q].exists
    BY DEF TiedInv, ListsExist, TypeOK, RemoteIds
  <2>2. local[i].tid \notin serverUpdated
    BY <2>1 DEF PushCreate, HasRemote
  <2> QED BY <1>1, <2>2 DEF MergeInv, PushesTell
<1>5. HaveText'
  BY <1>1, <1>2 DEF MergeInv, HaveText, Whole
<1>6. InTime'
  BY <1>1, <1>2, Columns, InTimeKept DEF MergeInv
<1>7. PullsTell'
  BY <1>1, <1>2, <1>3 DEF MergeInv, PullsTell, TypeOK
<1>8. PushesTell' /\ ErasesTell'
  BY <1>1 DEF MergeInv, PushesTell, ErasesTell
<1>9. HalvesTell'
  BY <1>1, <1>2, <1>3, <1>4 DEF HalvesTell
<1> QED BY <1>1, <1>5, <1>6, <1>7, <1>8, <1>9, Applying

LEMMA PushTidMerge ==
  ASSUME TypeOK, TiedInv, MergeInv, PushTid, UNCHANGED exchange
  PROVE  MergeInv'
<1>1. /\ pc = "apply" /\ pc' = "apply" /\ half.op = "tid"
      /\ half.task \in LocalIds /\ half.row \in RemoteIds
      /\ half' = [op |-> "fields", task |-> half.task, row |-> half.row]
      /\ since' = Reading
      /\ UNCHANGED <<remote, clock, unsent, unseen, serverUpdated, seen, pulls, pushes,
                     drops, erases>>
  BY DEF PushTid, counters, loops, exchange, TypeOK, Whole, Halves
<1>2. /\ local'[half.task].exists = local[half.task].exists
      /\ local'[half.task].deleted = local[half.task].deleted
      /\ local'[half.task].text = local[half.task].text
      /\ local'[half.task].modified = clock
      /\ \A j \in LocalIds : j # half.task => local'[j] = local[j]
  BY <1>1, LocalWrites DEF PushTid
<1>3. half.task \in unsent /\ half.row \notin unseen /\ ~remote[half.row].deleted
      /\ pulls = {} /\ half.task \in pushes
  BY <1>1 DEF MergeInv, HalvesTell
<1>4. HaveText'
  BY <1>1, <1>2 DEF MergeInv, HaveText
<1>5. InTime'
  BY <1>1, <1>2, Columns, InTimeKept DEF MergeInv
<1>6. PullsTell'
  BY <1>1 DEF MergeInv, PullsTell
<1>7. PushesTell'
  BY <1>1, <1>2, <1>3 DEF MergeInv, PushesTell, TypeOK
<1>8. ErasesTell'
  BY <1>1, <1>2, <1>3 DEF MergeInv, ErasesTell, TypeOK
<1>9. HalvesTell'
  BY <1>1, <1>3 DEF HalvesTell
<1> QED BY <1>1, <1>4, <1>5, <1>6, <1>7, <1>8, <1>9, Applying

\* Text goes to the row of a task, in either of the two ways.
LEMMA PushTextMerge ==
  ASSUME TypeOK, TiedInv, MergeInv, NEW i \in LocalIds, NEW r \in RemoteIds,
         pc = "apply", pc' = "apply", half' = Whole, pulls = {}, i \in pushes,
         half = Whole \/ (half.op = "fields" /\ half.row = r),
         UNCHANGED <<local, clock, unseen, serverUpdated, seen, pulls, drops, erases>>,
         pushes' = pushes \ {i}, unsent' = unsent \/ unsent' = unsent \ {i},
         remote' = Uploaded(i, r), since' = 0
  PROVE  MergeInv'
<1>1. local[i].exists /\ local[i].text # Blank
  BY DEF MergeInv, HaveText, TiedInv, ListsExist
<1>2. /\ remote'[r].text = local[i].text /\ remote'[r].modified = clock
      /\ remote'[r].deleted = remote[r].deleted
      /\ remote'[r].exists = remote[r].exists
      /\ \A q \in RemoteIds : q # r => remote'[q] = remote[q]
  <2> DEFINE row == Stored(remote[r], local[i].text, clock, TRUE)
  <2>1. remote' = [remote EXCEPT ![r] = row]
    BY DEF Uploaded
  <2>2. /\ row.text = local[i].text /\ row.modified = clock
        /\ row.deleted = remote[r].deleted /\ row.exists = remote[r].exists
    BY Columns DEF Stored, RemoteRow
  <2> HIDE DEF row
  <2> QED BY <2>1, <2>2 DEF TypeOK
<1>3. HaveText'
  BY <1>1, <1>2 DEF MergeInv, HaveText, Whole
<1>4. InTime'
  BY <1>2, Columns, InTimeKept DEF MergeInv
<1>5. PullsTell'
  BY <1>2 DEF MergeInv, PullsTell, TypeOK
<1>6. PushesTell' /\ ErasesTell'
  BY DEF MergeInv, PushesTell, ErasesTell
<1>7. HalvesTell'
  BY DEF HalvesTell, Whole
<1> QED BY <1>3, <1>4, <1>5, <1>6, <1>7, Applying

LEMMA PushMerge ==
  ASSUME TypeOK, TiedInv, MergeInv,
         \/ PushFields /\ WasPushed(half.task)
         \/ \E i \in LocalIds :
              /\ PushUpdate(i) \/ PushSkip(i)
              /\ (WasPushed(i) /\ PushUpdate(i)) \/ UNCHANGED exchange
  PROVE  MergeInv'
<1>1. CASE PushFields /\ WasPushed(half.task)
  <2>1. /\ half.op = "fields" /\ half.task \in LocalIds /\ half.row \in RemoteIds
        /\ pc = "apply" /\ half.task \in pushes /\ pulls = {}
    BY <1>1 DEF PushFields, TypeOK, Whole, Halves, MergeInv, HalvesTell
  <2> QED BY <1>1, <2>1, PushTextMerge DEF PushFields, WasPushed, counters
<1>2. ASSUME NEW i \in LocalIds, PushUpdate(i), UNCHANGED unseen,
             unsent' = unsent \/ unsent' = unsent \ {i}
      PROVE  MergeInv'
  <2>1. local[i].tid \in RemoteIds
    BY <1>2, Columns DEF PushUpdate, HasRemote
  <2> QED BY <1>2, <2>1, PushTextMerge DEF PushUpdate, Pushing, control, counters
<1>3. ASSUME NEW i \in LocalIds, PushSkip(i), UNCHANGED exchange PROVE MergeInv'
  <2>1. /\ pc = "apply" /\ pc' = "apply" /\ half' = half /\ pushes' = pushes \ {i}
        /\ half = Whole
        /\ UNCHANGED <<local, remote, clock, unsent, unseen, serverUpdated, seen, pulls,
                       drops, erases>>
    BY <1>3 DEF PushSkip, Pushing, control, counters, stores, exchange
  <2>2. InTime'
    BY <1>3, <2>1, Columns, InTimeKept DEF PushSkip, MergeInv
  <2> QED BY <2>1, <2>2, Applying
    DEF MergeInv, HaveText, PullsTell, PushesTell, ErasesTell, HalvesTell, Whole
<1> QED BY <1>1, <1>2, <1>3 DEF WasPushed, exchange

LEMMA DropMerge ==
  ASSUME TypeOK, TiedInv, MergeInv, NEW r \in RemoteIds, Drop(r), WasDropped(r)
  PROVE  MergeInv'
<1>1. /\ pc = "apply" /\ pc' = "apply" /\ half = Whole /\ half' = Whole
      /\ pulls = {} /\ pushes = {} /\ drops' = drops \ {r} /\ unseen' = unseen \ {r}
      /\ since' = 0
      /\ UNCHANGED <<remote, clock, serverUpdated, seen, pulls, pushes, erases>>
  BY DEF Drop, WasDropped, control, counters
<1>2. \A j \in LocalIds :
        local'[j] = local[j] \/ (~local'[j].exists /\ local'[j].modified = 0)
  BY DEF Drop, NoLocal
<1>3. HaveText'
  BY <1>1, <1>2 DEF MergeInv, HaveText
<1>4. InTime'
  BY <1>1, <1>2, Columns, InTimeKept DEF MergeInv
<1>5. PullsTell' /\ PushesTell'
  BY <1>1 DEF MergeInv, PullsTell, PushesTell
<1>6. ErasesTell'
  BY <1>1, <1>2 DEF MergeInv, ErasesTell, TypeOK
<1>7. HalvesTell'
  BY <1>1 DEF HalvesTell, Whole
<1> QED BY <1>1, <1>3, <1>4, <1>5, <1>6, <1>7, Applying

LEMMA EraseMerge ==
  ASSUME TypeOK, TiedInv, MergeInv, NEW i \in LocalIds,
         (EraseRemote(i) /\ UNCHANGED exchange) \/ (EraseLocal(i) /\ WasPushed(i))
  PROVE  MergeInv'
<1>1. CASE EraseRemote(i) /\ UNCHANGED exchange
  <2> DEFINE r == local[i].tid
  <2>1. /\ pc = "apply" /\ pc' = "apply" /\ half = Whole
        /\ half' = [op |-> "erase", task |-> i, row |-> NoId]
        /\ pulls = {} /\ pushes = {} /\ drops = {} /\ i \in erases /\ local[i].exists
        /\ since' = 0
        /\ UNCHANGED <<local, clock, unsent, unseen, serverUpdated, seen, pulls, pushes,
                       drops, erases>>
    BY <1>1 DEF EraseRemote, Erasing, counters, loops, exchange
  <2>2. r \in RemoteIds
    BY <1>1, Columns DEF EraseRemote, HasRemote
  <2>3. /\ remote'[r].deleted
        /\ \A q \in RemoteIds :
             /\ remote'[q].text = remote[q].text /\ remote'[q].exists = remote[q].exists
             /\ remote'[q] = remote[q] \/ remote'[q].modified = clock
    <3>1. CASE remote[r].deleted
      BY <1>1, <3>1 DEF EraseRemote
    <3>2. CASE ~remote[r].deleted
      <4>1. remote' = [remote EXCEPT ![r] = Marked(@, clock, TRUE)]
        BY <1>1, <3>2 DEF EraseRemote
      <4>2. /\ remote'[r].exists = remote[r].exists /\ remote'[r].text = remote[r].text
            /\ remote'[r].deleted /\ remote'[r].modified = clock
            /\ \A q \in RemoteIds : q # r => remote'[q] = remote[q]
        BY <2>2, <4>1, RemoteMarked
      <4> QED BY <2>2, <4>2
    <3> QED BY <3>1, <3>2
  <2> HIDE DEF r
  <2>4. HaveText'
    BY <2>1, <2>3 DEF MergeInv, HaveText, Whole
  <2>5. InTime'
    BY <2>1, <2>3, Columns, InTimeKept DEF MergeInv
  <2>6. PullsTell' /\ PushesTell' /\ ErasesTell'
    BY <2>1 DEF MergeInv, PullsTell, PushesTell, ErasesTell
  <2>7. HalvesTell'
    BY <2>1, <2>3 DEF MergeInv, ErasesTell, HalvesTell, r
  <2> QED BY <2>1, <2>4, <2>5, <2>6, <2>7, Applying
<1>2. CASE EraseLocal(i) /\ WasPushed(i)
  <2>1. /\ pc = "apply" /\ pc' = "apply" /\ half' = Whole /\ pulls = {}
        /\ half = Whole \/ half.op = "erase"
        /\ pushes = {} /\ erases' = erases \ {i} /\ unsent' = unsent \ {i}
        /\ UNCHANGED <<remote, clock, since, unseen, serverUpdated, seen, pulls, pushes,
                       drops>>
    BY <1>2 DEF EraseLocal, Erasing, WasPushed, counters, MergeInv, HalvesTell, TiedInv,
                HalfMade
  <2>2. \A j \in LocalIds :
          local'[j] = local[j] \/ (~local'[j].exists /\ local'[j].modified = 0)
    BY <1>2 DEF EraseLocal, NoLocal, TypeOK
  <2>3. HaveText'
    BY <2>1, <2>2 DEF MergeInv, HaveText, Whole
  <2>4. InTime'
    BY <2>1, <2>2, Columns, InTimeKept DEF MergeInv
  <2>5. PullsTell' /\ PushesTell'
    BY <2>1 DEF MergeInv, PullsTell, PushesTell
  <2>6. ErasesTell'
    BY <2>1, <2>2 DEF MergeInv, ErasesTell, TypeOK
  <2>7. HalvesTell'
    BY <2>1 DEF HalvesTell, Whole
  <2> QED BY <2>1, <2>3, <2>4, <2>5, <2>6, <2>7, Applying
<1> QED BY <1>1, <1>2

\* The sync time of the server is not before the transaction that was open.
LEMMA FinishTimes ==
  ASSUME TypeOK, Finish
  PROVE  /\ lastServer' \in Int /\ Reading + ServerOffset + Slack <= lastServer'
         /\ since' \in Nat /\ Reading \in Nat /\ Reading <= Reading' /\ Reading' \in Nat
<1>1. PICK t \in Reading..clock : lastServer' = ServerTime(t) /\ since' = t
  BY DEF Finish
<1>2. clock' = clock /\ clock \in Nat /\ Reading \in Nat
  <2>1. clock \in Nat /\ Reading \in 0..clock
    BY OpenSince DEF TypeOK
  <2>2. clock' = clock
    BY DEF Finish, counters
  <2> QED BY <2>1, <2>2
<1>3. t \in Nat /\ Reading <= t /\ t <= clock
  BY <1>2
<1>4. Reading <= Reading' /\ Reading' \in Nat
  <2>1. Reading' = IF t = 0 THEN clock ELSE t
    BY <1>1, <1>2 DEF Reading
  <2> QED BY <1>2, <1>3, <2>1
<1>5. lastServer' \in Int /\ Reading + ServerOffset + Slack <= lastServer'
  BY <1>1, <1>2, <1>3 DEF ServerTime
<1> QED BY <1>1, <1>2, <1>3, <1>4, <1>5

LEMMA FinishMerge ==
  ASSUME TypeOK, TiedInv, MergeInv, Finish, WasFinished
  PROVE  MergeInv'
<1>1. /\ pc = "apply" /\ pc' = "idle" /\ half = Whole /\ half' = Whole
      /\ pulls = {} /\ drops = {}
      /\ lastClient' = clock + Slack
      /\ UNCHANGED <<local, remote, clock, unsent>>
      /\ unseen' = {r \in RemoteIds : remote[r].exists /\ ChangedThere(r)'}
  BY DEF Finish, WasFinished, stores, counters
<1>3. HaveText' /\ HalvesTell'
  BY <1>1 DEF MergeInv, HaveText, HalvesTell, Whole
<1>4. InTime'
  <2>1. ASSUME NEW r \in RemoteIds, remote[r].ours PROVE remote[r].modified <= Reading'
    <3>1. remote[r].modified \in Int /\ remote[r].modified <= Reading
      BY <2>1, Columns DEF MergeInv, InTime
    <3> QED BY <3>1, FinishTimes
  <2> QED BY <1>1, <2>1 DEF MergeInv, InTime
<1>5. TimesTell'
  <2>1. ASSUME NEW i \in LocalIds PROVE ~ChangedHere(i)'
    BY <1>1, Columns DEF MergeInv, InTime, ChangedHere
  <2> QED BY <1>1, <2>1 DEF TimesTell
<1> QED BY <1>1, <1>3, <1>4, <1>5
  DEF MergeInv, Queried, PullsTell, PushesTell, ErasesTell

LEMMA NextMerge ==
  TypeOK /\ TiedInv /\ MergeInv /\ [MergeNext]_<<vars, exchange>> => MergeInv'
<1> SUFFICES ASSUME TypeOK, TiedInv, MergeInv, [MergeNext]_<<vars, exchange>>
             PROVE  MergeInv'
  OBVIOUS
<1>1. CASE MergeUser
  BY <1>1, UserMerge
<1>2. CASE MergeOthers
  BY <1>2, OthersMerge
<1>3. CASE MergeApply
  <2>1. ASSUME NEW r \in RemoteIds, NEW i \in LocalIds, NEW v \in Versions,
               PullUpdate(r, i, v) \/ PullCreate(r, i, v), WasPulled(r)
        PROVE  MergeInv'
    BY <2>1, PullMerge
  <2>2. CASE PushFields /\ WasPushed(half.task)
    BY <2>2, PushMerge
  <2>3. ASSUME NEW i \in LocalIds,
               \/ PushUpdate(i) /\ WasPushed(i)
               \/ (PushUpdate(i) \/ PushSkip(i)) /\ UNCHANGED exchange
        PROVE  MergeInv'
    BY <2>3, PushMerge
  <2>4. ASSUME NEW i \in LocalIds,
               (EraseRemote(i) /\ UNCHANGED exchange) \/ (EraseLocal(i) /\ WasPushed(i))
        PROVE  MergeInv'
    BY <2>4, EraseMerge
  <2>5. ASSUME NEW r \in RemoteIds, Drop(r), WasDropped(r) PROVE MergeInv'
    BY <2>5, DropMerge
  <2>6. ASSUME NEW i \in LocalIds, NEW r \in RemoteIds, PushCreate(i, r),
               UNCHANGED exchange
        PROVE  MergeInv'
    BY <2>6, PushNewMerge
  <2>7. CASE (PullIndex \/ PushTid) /\ UNCHANGED exchange
    BY <2>7, IndexMerge, PushTidMerge
  <2>8. CASE Finish /\ WasFinished
    BY <2>8, FinishMerge
  <2> QED BY <1>3, <2>1, <2>2, <2>3, <2>4, <2>5, <2>6, <2>7, <2>8 DEF MergeApply
<1>4. CASE (Begin \/ ListChanges \/ ReportOnly) /\ UNCHANGED exchange
  BY <1>4, QueryMerge
<1>5. CASE RemoteFails \/ Kill
  BY <1>5, MergeAssumption DEF RemoteFails, Kill, CutShort, TypeOK
<1>6. CASE (Restart \/ Tick \/ UNCHANGED vars) /\ UNCHANGED exchange
  <2>1. /\ UNCHANGED <<local, remote, stamps, pc, half, serverUpdated, seen, pulls,
                       pushes, drops, erases, since, unsent, unseen>>
        /\ clock' \in Nat /\ clock' >= clock
    BY <1>6, Columns
    DEF Restart, Tick, vars, stores, counters, loops, control, exchange
  <2>2. InTime'
    BY <2>1, Columns, InTimeKept DEF MergeInv
  <2> QED BY <2>1, <2>2
    DEF MergeInv, HaveText, TimesTell, Queried, PullsTell, PushesTell, ErasesTell,
        HalvesTell, ChangedThere, ChangedHere, stamps
<1> QED BY <1>1, <1>2, <1>3, <1>4, <1>5, <1>6 DEF MergeNext, exchange

-----------------------------------------------------------------------------
(* Every step is a step of the merge, or leaves the two copies as they are *)

LEMMA HereFrame == UNCHANGED local => HereTexts' = HereTexts /\ Ties' = Ties
  BY DEF HereTexts, Ties

LEMMA ThereFrame == UNCHANGED remote => ThereTexts' = ThereTexts /\ Theirs' = Theirs
  BY DEF ThereTexts, Theirs

LEMMA HereWrite ==
  ASSUME NEW i \in LocalIds, \A j \in LocalIds : j # i => local'[j] = local[j]
  PROVE  /\ HereTexts' = [HereTexts EXCEPT ![i] = HereTexts'[i]]
         /\ Ties' = [Ties EXCEPT ![i] = local'[i].tid]
         /\ local'[i].tid = local[i].tid => Ties' = Ties
         /\ HereTexts'[i] = HereTexts[i] => HereTexts' = HereTexts
  BY DEF HereTexts, Ties

LEMMA ThereWrite ==
  ASSUME NEW r \in RemoteIds, \A q \in RemoteIds : q # r => remote'[q] = remote[q]
  PROVE  /\ ThereTexts' = [ThereTexts EXCEPT ![r] = ThereTexts'[r]]
         /\ ThereTexts'[r] = ThereTexts[r] => ThereTexts' = ThereTexts
         /\ Theirs' = IF r \in Theirs' THEN Theirs \cup {r} ELSE Theirs \ {r}
<1>1. \A q \in RemoteIds : q # r => (q \in Theirs' <=> q \in Theirs)
  BY DEF Theirs
<1>2. Theirs \subseteq RemoteIds /\ Theirs' \subseteq RemoteIds
  BY DEF Theirs
<1>3. Theirs' = IF r \in Theirs' THEN Theirs \cup {r} ELSE Theirs \ {r}
  BY <1>1, <1>2
<1> QED BY <1>3 DEF ThereTexts

\* What the two copies hold of a row.
LEMMA Views ==
  ASSUME TypeOK, TiedInv, HaveText, half.op \notin {"tid", "fields"}
  PROVE  /\ \A i \in LocalIds :
              /\ Ties[i] = local[i].tid /\ HereTexts[i] \in Versions
              /\ HereTexts[i] = NoId <=> ~local[i].exists \/ local[i].deleted
              /\ ~local[i].deleted => HereTexts[i] = local[i].text
         /\ \A r \in RemoteIds :
              /\ ThereTexts[r] \in Versions
              /\ ThereTexts[r] = NoId <=> ~remote[r].exists \/ remote[r].deleted
              /\ ~remote[r].deleted => ThereTexts[r] = remote[r].text
<1>1. ASSUME NEW i \in LocalIds
      PROVE  /\ Ties[i] = local[i].tid /\ HereTexts[i] \in Versions
             /\ HereTexts[i] = NoId <=> ~local[i].exists \/ local[i].deleted
             /\ ~local[i].deleted => HereTexts[i] = local[i].text
  <2>1. local[i].text \in Versions
    BY DEF TypeOK, LocalRow
  <2> QED BY <2>1 DEF HereTexts, Ties, TiedInv, EmptyRows, HaveText
<1>2. ASSUME NEW r \in RemoteIds
      PROVE  /\ ThereTexts[r] \in Versions
             /\ ThereTexts[r] = NoId <=> ~remote[r].exists \/ remote[r].deleted
             /\ ~remote[r].deleted => ThereTexts[r] = remote[r].text
  <2>1. remote[r].text \in Versions
    BY DEF TypeOK, RemoteRow
  <2> QED BY <2>1 DEF ThereTexts, TiedInv, EmptyRows, HaveText
<1> QED BY <1>1, <1>2

LEMMA InitReplica == MergeInit => Merged!Init
  BY DEF MergeInit, Init, Merged!Init, HereTexts, ThereTexts, Theirs, Ties, NoLocal,
         NoRemote

LEMMA UserReplica ==
  ASSUME TypeOK, TiedInv, MergeInv, TypeOK', TiedInv', MergeInv', MergeUser
  PROVE  Merged!Next
<1>1. PICK i \in LocalIds :
        (CreateTask(i) \/ EditTask(i) \/ ToggleDeleted(i)) /\ UserWrote(i)
  BY DEF MergeUser
<1>2. UNCHANGED <<remote, unseen>> /\ unsent' = unsent \cup {i}
  BY <1>1 DEF CreateTask, EditTask, ToggleDeleted, UserWrote
<1>3. /\ local'[i].tid = local[i].tid
      /\ \A j \in LocalIds : j # i => local'[j] = local[j]
  <2>1. CASE CreateTask(i)
    <3>1. ~local[i].exists
      BY <2>1 DEF CreateTask, NextLocal, LocalIds
    <3> QED BY <2>1, <3>1 DEF CreateTask, TiedInv, EmptyRows, TypeOK
  <2>2. CASE EditTask(i)
    <3>1. edits + 1 \in Versions
      BY <2>2 DEF EditTask, TypeOK
    <3> QED BY <2>2, <3>1, LocalWrites DEF EditTask
  <2>3. CASE ToggleDeleted(i)
    BY <2>3, LocalWrites DEF ToggleDeleted
  <2> QED BY <1>1, <2>1, <2>2, <2>3
<1>4. HereTexts'[i] \in Versions
  BY DEF HereTexts, TypeOK, LocalRow
<1>5. Merged!Change(i, HereTexts'[i])
  BY <1>2, <1>3, HereWrite, ThereFrame DEF Merged!Change
<1> QED BY <1>4, <1>5 DEF Merged!Next

LEMMA OthersReplica ==
  ASSUME TypeOK, TypeOK', TiedInv', MergeInv', MergeOthers
  PROVE  Merged!Next
<1>1. PICK r \in RemoteIds, d \in Drift :
        /\ \/ \E v \in Versions : RemoteCreate(r, d, v)
           \/ RemoteEdit(r, d) \/ RemoteDelete(r, d)
        /\ OthersWrote(r)
  BY DEF MergeOthers
<1>2. /\ UNCHANGED <<local, unsent>> /\ unseen' = unseen \cup {r}
      /\ \A q \in RemoteIds : q # r => remote'[q] = remote[q]
      /\ pc' = "idle"
  BY <1>1, MergeAssumption
  DEF RemoteCreate, RemoteEdit, RemoteDelete, OthersWrote, OthersMayWrite, control, TypeOK
<1>3. ThereTexts'[r] \in Versions
  BY DEF ThereTexts, TypeOK, RemoteRow
<1>4. r \in Theirs' <=> ThereTexts'[r] # NoId
  <2>1. remote'[r].exists /\ ~remote'[r].ours
    <3>1. ASSUME NEW v \in Versions, RemoteCreate(r, d, v)
          PROVE  remote'[r].exists /\ ~remote'[r].ours
      BY <3>1 DEF RemoteCreate, TypeOK
    <3>2. CASE RemoteEdit(r, d)
      BY <3>2, RemoteStored DEF RemoteEdit
    <3>3. CASE RemoteDelete(r, d)
      BY <3>3, RemoteMarked DEF RemoteDelete
    <3> QED BY <1>1, <3>1, <3>2, <3>3
  <2>2. remote'[r].text # Blank
    BY <1>2, <2>1 DEF MergeInv, HaveText, TiedInv, HalfMade, Whole
  <2> QED BY <2>1, <2>2 DEF Theirs, ThereTexts
<1>5. Merged!OthersChange(r, ThereTexts'[r])
  BY <1>2, <1>4, ThereWrite, HereFrame DEF Merged!OthersChange
<1> QED BY <1>3, <1>5 DEF Merged!Next

LEMMA PullReplica ==
  ASSUME TypeOK, TiedInv, MergeInv, NEW r \in RemoteIds, NEW i \in LocalIds,
         NEW v \in Versions, PullUpdate(r, i, v) \/ PullCreate(r, i, v), WasPulled(r)
  PROVE  Merged!Next
<1>1. /\ pc = "apply" /\ half = Whole /\ r \in pulls /\ UNCHANGED remote
      /\ unseen' = unseen \ {r} /\ v \in {seen[r], remote[r].text}
      /\ unsent' = unsent \ {j \in Copies(r) : ~local[j].deleted}
  BY DEF PullUpdate, PullCreate, Pulling, WasPulled
<1>2. /\ remote[r].exists /\ ~remote[r].deleted /\ v = remote[r].text /\ r \in unseen
  BY <1>1 DEF MergeInv, PullsTell, TiedInv, ListsExist
<1>3. ThereTexts[r] = v /\ v # NoId
  BY <1>1, <1>2, Views DEF MergeInv, Whole
<1>4. CASE PullUpdate(r, i, v)
  <2>1. /\ local[i].exists /\ local[i].tid = r
        /\ local'[i].tid = local[i].tid /\ local'[i].deleted = local[i].deleted
        /\ local'[i].text = v
        /\ \A j \in LocalIds : j # i => local'[j] = local[j]
    BY <1>4, LocalWrites DEF PullUpdate, Copies
  <2>2. Copies(r) = {i}
    BY <2>1, <1>4 DEF PullUpdate, Copies, TiedInv, TidsMatch, RemoteIds
  <2>3. Ties' = Ties /\ Ties[i] = r
    BY <2>1, HereWrite, <1>1, Views DEF MergeInv, Whole
  <2>4. CASE local[i].deleted
    <3>1. HereTexts' = HereTexts /\ HereTexts[i] = NoId
      BY <2>1, <2>4, HereWrite DEF HereTexts
    <3>2. unsent' = unsent
      BY <1>1, <2>2, <2>4
    <3> QED BY <1>1, <1>2, <1>3, <2>3, <3>1, <3>2, ThereFrame
      DEF Merged!Pull, Merged!Next
  <2>5. CASE ~local[i].deleted
    <3>1. HereTexts' = [HereTexts EXCEPT ![i] = ThereTexts[r]] /\ HereTexts[i] # NoId
      <4>1. HereTexts'[i] = v
        BY <2>1, <2>5 DEF HereTexts
      <4>2. HereTexts[i] # NoId
        BY <1>1, <2>1, <2>5, Views DEF MergeInv, Whole
      <4> QED BY <1>3, <2>1, <4>1, <4>2, HereWrite
    <3>2. unsent' = unsent \ {i}
      BY <1>1, <2>2, <2>5
    <3> QED BY <1>1, <1>2, <1>3, <2>3, <3>1, <3>2, ThereFrame
      DEF Merged!Pull, Merged!Next
  <2> QED BY <2>4, <2>5
<1>5. CASE PullCreate(r, i, v)
  <2>1. /\ Copies(r) = {} /\ ~local[i].exists
        /\ local'[i].tid = r /\ local'[i].text = v /\ ~local'[i].deleted
        /\ \A j \in LocalIds : j # i => local'[j] = local[j]
    BY <1>5 DEF PullCreate, NextLocal, LocalIds, TypeOK
  <2>2. Ties[i] = NoId /\ HereTexts[i] = NoId
    BY <2>1 DEF Ties, HereTexts, TiedInv, EmptyRows
  <2>3. Merged!Tied(r) = {}
    BY <2>1 DEF Merged!Tied, Ties, Copies, TiedInv, EmptyRows, RemoteIds
  <2>4. /\ HereTexts' = [HereTexts EXCEPT ![i] = ThereTexts[r]]
        /\ Ties' = [Ties EXCEPT ![i] = r]
    <3>1. HereTexts'[i] = v
      BY <2>1 DEF HereTexts
    <3> QED BY <1>3, <2>1, <3>1, HereWrite
  <2>5. unsent' = unsent
    BY <1>1, <2>1
  <2> QED BY <1>1, <1>2, <1>3, <2>2, <2>3, <2>4, <2>5, ThereFrame
    DEF Merged!Pull, Merged!Next
<1> QED BY <1>4, <1>5

LEMMA TieReplica ==
  ASSUME TypeOK, TiedInv, MergeInv, PushTid, UNCHANGED exchange
  PROVE  Merged!Next
<1> DEFINE i == half.task
           r == half.row
<1>1. half.op = "tid" /\ i \in LocalIds /\ r \in RemoteIds
  BY DEF PushTid, TypeOK, Whole, Halves
<1>2. /\ local'[i].tid = r /\ local'[i].text = local[i].text
      /\ local'[i].deleted = local[i].deleted
      /\ \A j \in LocalIds : j # i => local'[j] = local[j]
  BY <1>1, LocalWrites DEF PushTid
<1>3. /\ i \in unsent /\ r \notin unseen /\ remote[r].text = Blank
      /\ local[i].tid = NoId /\ \A j \in LocalIds : local[j].tid # r
  BY <1>1 DEF MergeInv, HaveText, HalvesTell, TiedInv, HalfMade
<1>4. UNCHANGED <<remote, unsent, unseen>>
  BY DEF PushTid, exchange
<1> HIDE DEF i, r
<1>5. Ties[i] = NoId /\ ThereTexts[r] = NoId /\ Merged!Tied(r) = {}
  BY <1>1, <1>3 DEF Ties, ThereTexts, Merged!Tied
<1>6. Ties' = [Ties EXCEPT ![i] = r] /\ HereTexts' = HereTexts
  <2>1. HereTexts'[i] = HereTexts[i]
    BY <1>1, <1>2 DEF HereTexts
  <2> QED BY <1>1, <1>2, <2>1, HereWrite
<1>7. Merged!Tie(i, r)
  BY <1>3, <1>4, <1>5, <1>6, ThereFrame DEF Merged!Tie
<1> QED BY <1>1, <1>7 DEF Merged!Next

\* Text goes to the row of a task: a push, unless others deleted the row.
LEMMA PushReplica ==
  ASSUME TypeOK, TiedInv, MergeInv, NEW i \in LocalIds, NEW r \in RemoteIds,
         local[i].exists, ~local[i].deleted, local[i].tid = r,
         remote' = Uploaded(i, r), UNCHANGED <<local, unseen>>,
         \/ /\ ~remote[r].deleted /\ i \in unsent /\ r \notin unseen
            /\ unsent' = unsent \ {i}
         \/ remote[r].deleted /\ unsent' = unsent
  PROVE  Merged!Next \/ UNCHANGED Merged!vars
<1>1. /\ remote'[r].text = local[i].text /\ remote'[r].deleted = remote[r].deleted
      /\ remote'[r].ours
      /\ \A q \in RemoteIds : q # r => remote'[q] = remote[q]
  <2> DEFINE row == Stored(remote[r], local[i].text, clock, TRUE)
  <2>1. remote' = [remote EXCEPT ![r] = row]
    BY DEF Uploaded
  <2>2. row.text = local[i].text /\ row.deleted = remote[r].deleted /\ row.ours
    BY Columns DEF Stored, RemoteRow
  <2> HIDE DEF row
  <2> QED BY <2>1, <2>2 DEF TypeOK
<1>2. HereTexts' = HereTexts /\ Ties' = Ties /\ Ties[i] = r
  BY HereFrame DEF Ties
<1>3. CASE ~remote[r].deleted
  <2>1. HereTexts[i] = local[i].text /\ HereTexts[i] # NoId
    BY DEF HereTexts, MergeInv, HaveText
  <2>2. ThereTexts' = [ThereTexts EXCEPT ![r] = HereTexts[i]]
    <3>1. ThereTexts'[r] = HereTexts[i]
      BY <1>1, <1>3, <2>1 DEF ThereTexts
    <3> QED BY <1>1, <3>1, ThereWrite
  <2>3. Theirs' = Theirs \ {r}
    BY <1>1, ThereWrite DEF Theirs
  <2>4. Merged!Push(i)
    BY <1>2, <1>3, <2>1, <2>2, <2>3 DEF Merged!Push, RemoteIds
  <2> QED BY <2>4 DEF Merged!Next
<1>4. CASE remote[r].deleted
  <2>1. ThereTexts' = ThereTexts
    <3>1. ThereTexts'[r] = ThereTexts[r]
      BY <1>1, <1>4 DEF ThereTexts
    <3> QED BY <1>1, <3>1, ThereWrite
  <2>2. Theirs' = Theirs
    <3>1. r \notin Theirs /\ r \notin Theirs'
      BY <1>1, <1>4 DEF Theirs
    <3> QED BY <1>1, <3>1, ThereWrite
  <2> QED BY <1>2, <1>4, <2>1, <2>2 DEF Merged!vars
<1> QED BY <1>3, <1>4

LEMMA UploadReplica ==
  ASSUME TypeOK, TiedInv, MergeInv,
         \/ PushFields /\ WasPushed(half.task)
         \/ \E i \in LocalIds :
              /\ PushUpdate(i)
              /\ \/ ~remote[local[i].tid].deleted /\ WasPushed(i)
                 \/ remote[local[i].tid].deleted /\ UNCHANGED exchange
  PROVE  Merged!Next \/ UNCHANGED Merged!vars
<1>1. CASE PushFields /\ WasPushed(half.task)
  <2>1. /\ half.op = "fields" /\ half.task \in LocalIds /\ half.row \in RemoteIds
        /\ pc = "apply" /\ half # Whole
    BY <1>1 DEF PushFields, TypeOK, Whole, Halves
  <2>2. /\ half.task \in unsent /\ half.task \in pushes /\ half.row \notin unseen
        /\ ~remote[half.row].deleted
        /\ local[half.task].exists /\ local[half.task].tid = half.row
    BY <2>1 DEF MergeInv, HalvesTell, TiedInv, HalfMade
  <2>3. ~local[half.task].deleted
    BY <2>1, <2>2 DEF MergeInv, PushesTell
  <2> QED BY <1>1, <2>1, <2>2, <2>3, PushReplica DEF PushFields, WasPushed
<1>2. ASSUME NEW i \in LocalIds, PushUpdate(i),
             \/ ~remote[local[i].tid].deleted /\ WasPushed(i)
             \/ remote[local[i].tid].deleted /\ UNCHANGED exchange
      PROVE  Merged!Next \/ UNCHANGED Merged!vars
  <2> DEFINE r == local[i].tid
  <2>1. /\ r \in RemoteIds /\ r \notin serverUpdated
        /\ pc = "apply" /\ pulls = {} /\ i \in pushes
        /\ remote' = Uploaded(i, r) /\ UNCHANGED local
    BY <1>2, Columns DEF PushUpdate, Pushing, HasRemote
  <2>2. local[i].exists /\ ~local[i].deleted /\ i \in unsent
    BY <2>1 DEF MergeInv, PushesTell, TiedInv, ListsExist
  <2>3. ~remote[r].deleted => r \notin unseen
    BY <2>1 DEF MergeInv, PullsTell
  <2>4. UNCHANGED unseen
    BY <1>2 DEF WasPushed, exchange
  <2>5. \/ ~remote[r].deleted /\ unsent' = unsent \ {i}
        \/ remote[r].deleted /\ unsent' = unsent
    BY <1>2 DEF WasPushed, exchange
  <2> HIDE DEF r
  <2>6. local[i].tid = r
    BY DEF r
  <2> QED BY <2>1, <2>2, <2>3, <2>4, <2>5, <2>6, PushReplica
<1> QED BY <1>1, <1>2

LEMMA PushNewReplica ==
  ASSUME TypeOK, TiedInv, NEW i \in LocalIds, NEW r \in RemoteIds,
         PushCreate(i, r), UNCHANGED exchange
  PROVE  UNCHANGED Merged!vars
<1>1. /\ UNCHANGED <<local, unsent, unseen>> /\ ~remote[r].exists
      /\ remote'[r].text = Blank /\ remote'[r].ours
      /\ \A q \in RemoteIds : q # r => remote'[q] = remote[q]
  BY DEF PushCreate, NextRemote, TypeOK, exchange
<1>2. ThereTexts'[r] = ThereTexts[r]
  BY <1>1 DEF ThereTexts, TiedInv, EmptyRows
<1>3. Theirs' = Theirs
  <2>1. r \notin Theirs /\ r \notin Theirs'
    BY <1>1 DEF Theirs
  <2> QED BY <1>1, <2>1, ThereWrite
<1> QED BY <1>1, <1>2, <1>3, HereFrame, ThereWrite DEF Merged!vars

LEMMA DropReplica ==
  ASSUME TypeOK, TiedInv, MergeInv, NEW r \in RemoteIds, Drop(r), WasDropped(r)
  PROVE  Merged!Next
<1>1. /\ pc = "apply" /\ r \in drops /\ UNCHANGED remote
      /\ local' = [i \in LocalIds |-> IF i \in Copies(r) THEN NoLocal ELSE local[i]]
      /\ unsent' = unsent \ Copies(r) /\ unseen' = unseen \ {r}
  BY DEF Drop, WasDropped
<1>2. r \in unseen /\ ThereTexts[r] = NoId
  BY <1>1 DEF MergeInv, PullsTell, ThereTexts
<1>3. Merged!Tied(r) = Copies(r)
  BY DEF Merged!Tied, Ties, Copies, TiedInv, EmptyRows, RemoteIds
<1>4. /\ HereTexts' = [i \in LocalIds |-> IF Ties[i] = r THEN NoId ELSE HereTexts[i]]
      /\ Ties' = [i \in LocalIds |-> IF Ties[i] = r THEN NoId ELSE Ties[i]]
  <2>1. \A i \in LocalIds : i \in Copies(r) <=> Ties[i] = r
    BY <1>3 DEF Merged!Tied
  <2> QED BY <1>1, <2>1 DEF HereTexts, Ties, NoLocal
<1>5. Merged!TakeRemoval(r)
  BY <1>1, <1>2, <1>3, <1>4, ThereFrame DEF Merged!TakeRemoval
<1> QED BY <1>5 DEF Merged!Next

LEMMA EraseReplica ==
  ASSUME TypeOK, TiedInv, MergeInv, NEW i \in LocalIds,
         (EraseRemote(i) /\ UNCHANGED exchange) \/ (EraseLocal(i) /\ WasPushed(i))
  PROVE  Merged!Next \/ UNCHANGED Merged!vars
<1>1. CASE EraseRemote(i) /\ UNCHANGED exchange
  <2> DEFINE r == local[i].tid
  <2>1. /\ r \in RemoteIds /\ pc = "apply" /\ pulls = {} /\ drops = {} /\ i \in erases
        /\ local[i].exists /\ UNCHANGED <<local, unsent, unseen>>
    BY <1>1, Columns DEF EraseRemote, Erasing, HasRemote, exchange
  <2>2. local[i].deleted /\ unseen = {}
    BY <2>1 DEF MergeInv, ErasesTell, PullsTell
  <2>3. HereTexts' = HereTexts /\ Ties' = Ties /\ Ties[i] = r /\ HereTexts[i] = NoId
    BY <2>1, <2>2, HereFrame DEF Ties, HereTexts
  <2>4. CASE remote[r].deleted
    <3>1. UNCHANGED remote
      BY <1>1, <2>4 DEF EraseRemote
    <3> QED BY <2>1, <2>3, <3>1, ThereFrame DEF Merged!vars
  <2>5. CASE ~remote[r].deleted
    <3>1. remote' = [remote EXCEPT ![r] = Marked(@, clock, TRUE)]
      BY <1>1, <2>5 DEF EraseRemote
    <3> HIDE DEF r
    <3>2. remote'[r].deleted /\ \A q \in RemoteIds : q # r => remote'[q] = remote[q]
      BY <2>1, <3>1, RemoteMarked
    <3>3. ThereTexts' = [ThereTexts EXCEPT ![r] = NoId]
      <4>1. ThereTexts'[r] = NoId
        BY <2>1, <3>2 DEF ThereTexts
      <4> QED BY <2>1, <3>2, <4>1, ThereWrite
    <3>4. Theirs' = Theirs \ {r}
      BY <2>1, <3>2, ThereWrite DEF Theirs
    <3>5. Merged!SendRemoval(i)
      BY <2>1, <2>2, <2>3, <3>3, <3>4 DEF Merged!SendRemoval, RemoteIds
    <3> QED BY <3>5 DEF Merged!Next
  <2> QED BY <2>4, <2>5
<1>2. CASE EraseLocal(i) /\ WasPushed(i)
  <2>1. /\ UNCHANGED <<remote, unseen>> /\ unsent' = unsent \ {i}
        /\ local'[i] = NoLocal /\ \A j \in LocalIds : j # i => local'[j] = local[j]
    BY <1>2 DEF EraseLocal, WasPushed, TypeOK
  <2>2. HereTexts[i] = NoId /\ Ties[i] = local[i].tid
    <3>1. local[i].exists => local[i].deleted
      BY <1>2 DEF EraseLocal, Erasing, MergeInv, ErasesTell, HalvesTell
    <3> QED BY <3>1 DEF HereTexts, Ties, TiedInv, EmptyRows
  <2>3. Ties[i] # NoId => ThereTexts[Ties[i]] = NoId
    <3>1. local[i].tid # NoId => remote[local[i].tid].deleted
      BY <1>2 DEF EraseLocal, MergeInv, HalvesTell, TiedInv, EmptyRows
    <3> QED BY <2>2, <3>1, Columns DEF ThereTexts
  <2>4. HereTexts' = HereTexts /\ Ties' = [Ties EXCEPT ![i] = NoId]
    <3>1. HereTexts'[i] = HereTexts[i] /\ local'[i].tid = NoId
      BY <2>1, <2>2 DEF HereTexts, NoLocal
    <3> QED BY <2>1, <3>1, HereWrite
  <2>5. Merged!Forget(i)
    BY <2>1, <2>2, <2>3, <2>4, ThereFrame DEF Merged!Forget
  <2> QED BY <2>5 DEF Merged!Next
<1> QED BY <1>1, <1>2

\* At the end of a sync the rows that its new sync time does not cover count as changed
\* again: others wrote them, or the sync time would be later.
LEMMA FinishUnseen ==
  ASSUME TypeOK, MergeInv, Finish, WasFinished
  PROVE  /\ UNCHANGED <<local, remote, unsent>> /\ unseen = {}
         /\ \A r \in unseen' : r \in RemoteIds /\ remote[r].exists /\ ~remote[r].ours
<1>1. /\ UNCHANGED <<local, remote, unsent>> /\ unseen = {}
      /\ unseen' = {r \in RemoteIds : remote[r].exists /\ ChangedThere(r)'}
  BY DEF Finish, WasFinished, stores, MergeInv, PullsTell
<1>2. ASSUME NEW r \in unseen'
      PROVE  r \in RemoteIds /\ remote[r].exists /\ ~remote[r].ours
  <2>1. r \in RemoteIds /\ remote[r].exists /\ remote[r].modified > lastServer'
    BY <1>1, <1>2 DEF ChangedThere
  <2>2. Reading <= lastServer' /\ lastServer' \in Int /\ Reading \in Nat
    BY FinishTimes, MergeAssumption
  <2> QED BY <2>1, <2>2, Columns DEF MergeInv, InTime
<1> QED BY <1>1, <1>2

LEMMA FinishReplica ==
  ASSUME TypeOK, MergeInv, Finish, WasFinished
  PROVE  Merged!Next
<1>1. ASSUME NEW r \in unseen' PROVE r \in Theirs \/ ThereTexts[r] = NoId
  BY <1>1, FinishUnseen DEF Theirs, ThereTexts
<1>2. Merged!Relist(unseen')
  BY <1>1, FinishUnseen, HereFrame, ThereFrame DEF Merged!Relist
<1>3. unseen' \in SUBSET RemoteIds
  BY FinishUnseen
<1> QED BY <1>2, <1>3 DEF Merged!Next

LEMMA StepReplica ==
  ASSUME TypeOK, TiedInv, MergeInv, TypeOK', TiedInv', MergeInv',
         [MergeNext]_<<vars, exchange>>
  PROVE  [Merged!Next]_Merged!vars
<1>1. ASSUME UNCHANGED <<local, remote, exchange>> PROVE UNCHANGED Merged!vars
  BY <1>1, HereFrame, ThereFrame DEF Merged!vars, exchange
<1>2. CASE MergeUser \/ MergeOthers
  BY <1>2, UserReplica, OthersReplica
<1>3. CASE MergeApply
  <2>1. ASSUME NEW r \in RemoteIds, NEW i \in LocalIds, NEW v \in Versions,
               PullUpdate(r, i, v) \/ PullCreate(r, i, v), WasPulled(r)
        PROVE  Merged!Next
    BY <2>1, PullReplica
  <2>2. CASE PushFields /\ WasPushed(half.task)
    BY <2>2, UploadReplica
  <2>3. ASSUME NEW i \in LocalIds, PushUpdate(i),
               \/ ~remote[local[i].tid].deleted /\ WasPushed(i)
               \/ remote[local[i].tid].deleted /\ UNCHANGED exchange
        PROVE  Merged!Next \/ UNCHANGED Merged!vars
    BY <2>3, UploadReplica
  <2>4. ASSUME NEW i \in LocalIds, PushSkip(i) /\ UNCHANGED exchange
        PROVE  UNCHANGED Merged!vars
    BY <1>1, <2>4 DEF PushSkip, stores
  <2>5. ASSUME NEW i \in LocalIds,
               (EraseRemote(i) /\ UNCHANGED exchange) \/ (EraseLocal(i) /\ WasPushed(i))
        PROVE  Merged!Next \/ UNCHANGED Merged!vars
    BY <2>5, EraseReplica
  <2>6. ASSUME NEW r \in RemoteIds, Drop(r), WasDropped(r) PROVE Merged!Next
    BY <2>6, DropReplica
  <2>7. ASSUME NEW i \in LocalIds, NEW r \in RemoteIds, PushCreate(i, r),
               UNCHANGED exchange
        PROVE  UNCHANGED Merged!vars
    BY <2>7, PushNewReplica
  <2>8. CASE PushTid /\ UNCHANGED exchange
    BY <2>8, TieReplica
  <2>9. CASE PullIndex /\ UNCHANGED exchange
    BY <1>1, <2>9 DEF PullIndex
  <2>10. CASE Finish /\ WasFinished
    BY <2>10, FinishReplica
  <2> QED
    BY <1>3, <2>1, <2>2, <2>3, <2>4, <2>5, <2>6, <2>7, <2>8, <2>9, <2>10 DEF MergeApply
<1>4. CASE /\ Begin \/ ListChanges \/ ReportOnly \/ RemoteFails \/ Kill \/ Restart \/ Tick
           /\ UNCHANGED exchange
  <2>1. UNCHANGED <<local, remote>>
    BY <1>4
    DEF Begin, ListChanges, ReportOnly, RemoteFails, Kill, CutShort, Restart, Tick, stores
  <2> QED BY <1>1, <1>4, <2>1
<1>5. CASE UNCHANGED <<vars, exchange>>
  BY <1>1, <1>5 DEF vars, stores
<1> QED BY <1>2, <1>3, <1>4, <1>5 DEF MergeNext

\* The replication of tasks merges the two copies.
THEOREM MergeCorrect == MergeSpec => Merges
<1>1. MergeInit => TypeOK /\ TiedInv /\ MergeInv
  BY InitTypeOK, InitTied, InitMerge DEF MergeInit
<1>2. TypeOK /\ TiedInv /\ MergeInv /\ [MergeNext]_<<vars, exchange>>
      => (TypeOK /\ TiedInv /\ MergeInv)'
  BY MergeStep, NextTypeOK, NextTied, NextMerge
<1>3. MergeInit => Merged!Init
  BY InitReplica
<1>4. /\ TypeOK /\ TiedInv /\ MergeInv /\ (TypeOK /\ TiedInv /\ MergeInv)'
      /\ [MergeNext]_<<vars, exchange>>
      => [Merged!Next]_Merged!vars
  BY StepReplica
<1> QED BY <1>1, <1>2, <1>3, <1>4, PTL DEF MergeSpec, Merges, Merged!Spec

-----------------------------------------------------------------------------
(* No change is missed, whatever the order of edits and syncs              *)

LEMMA InitSettled == MergeInit => SettledInv
  BY DEF MergeInit, Init, SettledInv, RowsSettled, PulledHere, TasksSettled, NoLocal,
         NoRemote

LEMMA UserSettled ==
  ASSUME TypeOK, TiedInv, SettledInv, MergeUser
  PROVE  SettledInv'
<1>1. PICK i \in LocalIds :
        (CreateTask(i) \/ EditTask(i) \/ ToggleDeleted(i)) /\ UserWrote(i)
  BY DEF MergeUser
<1>2. /\ pc = "idle" /\ UNCHANGED <<pc, half, remote, lastClient, unseen>>
      /\ clock > lastClient
  BY <1>1, MergeAssumption
  DEF CreateTask, EditTask, ToggleDeleted, UserMayWrite, UserWrote, control, stamps
<1>3. /\ local'[i].modified = clock /\ local'[i].exists
      /\ local'[i].tid = local[i].tid
      /\ ~local[i].exists => local'[i].tid = NoId
      /\ \A j \in LocalIds : j # i => local'[j] = local[j]
  <2>1. CASE CreateTask(i)
    <3>1. ~local[i].exists /\ local[i].tid = NoId
      BY <2>1 DEF CreateTask, NextLocal, LocalIds, TiedInv, EmptyRows
    <3> QED BY <2>1, <3>1 DEF CreateTask, TypeOK
  <2>2. CASE EditTask(i)
    <3>1. edits + 1 \in Versions
      BY <2>2 DEF EditTask, TypeOK
    <3> QED BY <2>2, <3>1, LocalWrites DEF EditTask
  <2>3. CASE ToggleDeleted(i)
    BY <2>3, LocalWrites DEF ToggleDeleted
  <2> QED BY <1>1, <2>1, <2>2, <2>3
<1>4. ChangedHere(i)'
  BY <1>2, <1>3 DEF ChangedHere
<1>5. \A j \in LocalIds : j # i => ChangedHere(j)' = ChangedHere(j)
  BY <1>2, <1>3 DEF ChangedHere
<1>6. \A r \in RemoteIds : Copies(r)' = Copies(r)
  BY <1>3 DEF Copies, RemoteIds
<1>7. RowsSettled'
  BY <1>2, <1>3, <1>4, <1>5, <1>6 DEF SettledInv, RowsSettled, Settled, Copies
<1>8. TasksSettled'
  BY <1>2, <1>3, <1>4, <1>5 DEF SettledInv, TasksSettled, HasRemote
<1> QED BY <1>2, <1>7, <1>8 DEF SettledInv, PulledHere

LEMMA OthersSettled ==
  ASSUME TypeOK, SettledInv, MergeOthers
  PROVE  SettledInv'
<1>1. PICK r \in RemoteIds, d \in Drift :
        /\ \/ \E v \in Versions : RemoteCreate(r, d, v)
           \/ RemoteEdit(r, d) \/ RemoteDelete(r, d)
        /\ OthersWrote(r)
  BY DEF MergeOthers
<1>2. /\ pc = "idle" /\ UNCHANGED <<pc, half, local, lastClient>>
      /\ unseen' = unseen \cup {r}
  BY <1>1, MergeAssumption
  DEF RemoteCreate, RemoteEdit, RemoteDelete, OthersMayWrite, OthersWrote, control, stamps
<1>3. \A q \in RemoteIds : q # r => remote'[q] = remote[q]
  BY <1>1 DEF RemoteCreate, RemoteEdit, RemoteDelete, TypeOK
<1>4. remote'[r].exists
  <2>1. ASSUME NEW v \in Versions, RemoteCreate(r, d, v) PROVE remote'[r].exists
    BY <2>1 DEF RemoteCreate, TypeOK
  <2>2. CASE RemoteEdit(r, d)
    BY <2>2, Columns DEF RemoteEdit, Stored, RemoteRow, TypeOK
  <2>3. CASE RemoteDelete(r, d)
    BY <2>3, RemoteMarked DEF RemoteDelete
  <2> QED BY <1>1, <2>1, <2>2, <2>3
<1>5. RowsSettled'
  BY <1>2, <1>3 DEF SettledInv, RowsSettled, Settled, Copies, ChangedHere
<1>6. TasksSettled'
  BY <1>2, <1>3, <1>4, Columns DEF SettledInv, TasksSettled, HasRemote, ChangedHere
<1> QED BY <1>2, <1>5, <1>6 DEF SettledInv, PulledHere

LEMMA QuerySettled ==
  ASSUME TypeOK, TiedInv, SettledInv, Begin \/ ListChanges \/ ReportOnly,
         UNCHANGED exchange
  PROVE  SettledInv'
<1>1. /\ UNCHANGED <<local, remote, lastClient, half, unseen>> /\ pc # "apply"
  BY DEF Begin, ListChanges, ReportOnly, stores, stamps, exchange
<1>2. CASE Begin \/ ReportOnly
  <2>1. pc' # "apply"
    BY <1>2 DEF Begin, ReportOnly
  <2> QED BY <1>1, <2>1
    DEF SettledInv, RowsSettled, Settled, PulledHere, TasksSettled, HasRemote,
        Copies, ChangedHere
<1>3. CASE ListChanges
  <2>1. /\ pc' = "apply" /\ pulls' = serverUpdated /\ serverUpdated' = serverUpdated
        /\ \A i \in LocalIds :
             local[i].exists => (i \in erases' <=> local[i].deleted)
        /\ \A i \in LocalIds :
             local[i].exists /\ ~local[i].deleted => (i \in pushes' <=> ChangedHere(i))
    BY <1>3 DEF ListChanges
  <2>2. RowsSettled'
    BY <1>1, <2>1 DEF SettledInv, RowsSettled, Settled, Copies
  <2>3. PulledHere'
    BY <2>1 DEF PulledHere
  <2>4. TasksSettled'
    BY <1>1, <2>1 DEF SettledInv, TasksSettled, HasRemote
  <2> QED BY <2>2, <2>3, <2>4 DEF SettledInv
<1> QED BY <1>2, <1>3

LEMMA PullSettled ==
  ASSUME TypeOK, TiedInv, MergeInv, SettledInv, NEW r \in RemoteIds, NEW i \in LocalIds,
         NEW v \in Versions, PullUpdate(r, i, v) \/ PullCreate(r, i, v), WasPulled(r)
  PROVE  SettledInv'
<1>1. /\ pc = "apply" /\ pc' = "apply" /\ half = Whole /\ r \in pulls
      /\ UNCHANGED <<remote, serverUpdated, pushes, erases>>
      /\ pulls' = pulls \ {r} /\ unseen' = unseen \ {r}
      /\ v \in {seen[r], remote[r].text}
  BY DEF PullUpdate, PullCreate, Pulling, WasPulled, control
<1>2. /\ remote[r].exists /\ ~remote[r].deleted /\ v = remote[r].text
  BY <1>1 DEF MergeInv, PullsTell, TiedInv, ListsExist
<1>3. /\ local'[i].exists /\ local'[i].tid = r /\ local'[i].text = v
      /\ local[i].exists => local[i].tid = r
      /\ \A j \in LocalIds : j # i => local'[j] = local[j]
  <2>1. CASE PullUpdate(r, i, v)
    BY <2>1, LocalWrites DEF PullUpdate, Copies
  <2>2. CASE PullCreate(r, i, v)
    <3>1. ~local[i].exists
      BY <2>2 DEF PullCreate, NextLocal, LocalIds
    <3> QED BY <2>2, <3>1 DEF PullCreate, TypeOK
  <2> QED BY <2>1, <2>2
<1>4. half' = Whole \/ half'.op = "index"
  BY <1>1 DEF PullUpdate, PullCreate, control
<1>5. i \in Copies(r)' /\ local'[i].text = remote'[r].text
  BY <1>1, <1>2, <1>3 DEF Copies
<1>6. \A q \in RemoteIds : q # r => /\ Copies(q)' = Copies(q)
                                    /\ \A j \in Copies(q) : local'[j] = local[j]
  BY <1>3 DEF Copies
<1>7. RowsSettled'
  <2>1. ASSUME NEW q \in RemoteIds, q \notin unseen', remote'[q].exists
        PROVE  Settled(q)'
    <3>1. CASE q = r
      BY <1>1, <1>2, <1>5, <3>1 DEF Settled
    <3>2. CASE q # r
      <4>1. Settled(q)
        BY <1>1, <2>1, <3>2 DEF SettledInv, RowsSettled
      <4> QED BY <1>1, <1>4, <1>6, <3>2, <4>1 DEF Settled, Whole
    <3> QED BY <3>1, <3>2
  <2> QED BY <2>1 DEF RowsSettled
<1>8. PulledHere'
  BY <1>1, <1>5, <1>6 DEF SettledInv, PulledHere, TypeOK
<1>9. TasksSettled'
  BY <1>1, <1>2, <1>3 DEF SettledInv, TasksSettled, HasRemote, RemoteIds
<1> QED BY <1>7, <1>8, <1>9 DEF SettledInv

LEMMA IndexSettled ==
  ASSUME SettledInv, PullIndex, UNCHANGED exchange
  PROVE  SettledInv'
<1>1. /\ pc = "apply" /\ pc' = "apply" /\ half.op = "index" /\ half' = Whole
      /\ UNCHANGED <<local, remote, loops, unseen>>
  BY DEF PullIndex, exchange
<1> QED BY <1>1
  DEF SettledInv, RowsSettled, Settled, PulledHere, TasksSettled, HasRemote, Copies,
      Whole, loops

LEMMA PushNewSettled ==
  ASSUME TypeOK, TiedInv, SettledInv, NEW i \in LocalIds, NEW r \in RemoteIds,
         PushCreate(i, r), UNCHANGED exchange
  PROVE  SettledInv'
<1>1. /\ pc = "apply" /\ pc' = "apply" /\ half = Whole
      /\ half'.op = "tid" /\ half'.row = r
      /\ UNCHANGED <<local, unseen, serverUpdated, pulls, pushes, erases>>
  BY DEF PushCreate, Pushing, loops, exchange
<1>2. /\ ~remote[r].exists /\ remote'[r].exists /\ ~remote'[r].deleted
      /\ \A q \in RemoteIds : q # r => remote'[q] = remote[q]
  BY DEF PushCreate, NextRemote, TypeOK
<1>3. r \notin serverUpdated
  BY <1>2 DEF TiedInv, ListsExist
<1>4. \A q \in RemoteIds : Copies(q)' = Copies(q)
  BY <1>1 DEF Copies
<1>5. RowsSettled'
  BY <1>1, <1>2, <1>4 DEF SettledInv, RowsSettled, Settled, Whole
<1>6. PulledHere'
  BY <1>1, <1>2, <1>3, <1>4 DEF SettledInv, PulledHere, TypeOK
<1>7. TasksSettled'
  BY <1>1, <1>2, Columns DEF SettledInv, TasksSettled, HasRemote
<1> QED BY <1>5, <1>6, <1>7 DEF SettledInv

LEMMA PushTidSettled ==
  ASSUME TypeOK, TiedInv, MergeInv, SettledInv, PushTid, UNCHANGED exchange
  PROVE  SettledInv'
<1>1. /\ pc = "apply" /\ pc' = "apply" /\ half.op = "tid" /\ half'.op = "fields"
      /\ half.task \in LocalIds /\ half.row \in RemoteIds
      /\ UNCHANGED <<remote, unseen, serverUpdated, pulls, pushes, erases>>
  BY DEF PushTid, loops, exchange, TypeOK, Whole, Halves
<1>2. PICK i \in LocalIds, r \in RemoteIds : i = half.task /\ r = half.row
  BY <1>1
<1>3. /\ i \in pushes /\ local[i].tid = NoId /\ remote[r].exists
      /\ local[i].exists /\ \A j \in LocalIds : local[j].tid # r
      /\ ~remote[r].deleted
  BY <1>1, <1>2 DEF MergeInv, HalvesTell, TiedInv, HalfMade, Whole
<1>4. /\ local'[i].exists /\ local'[i].tid = r
      /\ local'[i].deleted = local[i].deleted
      /\ \A j \in LocalIds : j # i => local'[j] = local[j]
  BY <1>1, <1>3, <1>2, LocalWrites DEF PushTid
<1>5. i \in Copies(r)' /\ Copies(r) = {}
  BY <1>1, <1>3, <1>4 DEF Copies
<1>6. \A q \in RemoteIds : q # r => /\ Copies(q)' = Copies(q)
                                    /\ \A j \in Copies(q) : local'[j] = local[j]
  BY <1>3, <1>4 DEF Copies, RemoteIds
<1>7. RowsSettled'
  <2>1. ASSUME NEW q \in RemoteIds, q \notin unseen', remote'[q].exists
        PROVE  Settled(q)'
    <3>1. CASE q = r
      BY <1>1, <1>3, <1>5, <3>1 DEF Settled
    <3>2. CASE q # r
      <4>1. Settled(q)
        BY <1>1, <2>1, <3>2 DEF SettledInv, RowsSettled
      <4> QED BY <1>1, <1>2, <1>6, <3>2, <4>1 DEF Settled
    <3> QED BY <3>1, <3>2
  <2> QED BY <2>1 DEF RowsSettled
<1>8. PulledHere'
  BY <1>1, <1>3, <1>5, <1>6 DEF SettledInv, PulledHere, TypeOK
<1>9. TasksSettled'
  BY <1>1, <1>3, <1>4 DEF SettledInv, TasksSettled, HasRemote, RemoteIds
<1> QED BY <1>7, <1>8, <1>9 DEF SettledInv

\* Text goes to the row of a task: the two sides agree on it.
LEMMA PushTextSettled ==
  ASSUME TypeOK, TiedInv, SettledInv, NEW i \in LocalIds, NEW r \in RemoteIds,
         pc = "apply", pc' = "apply", half' = Whole, pulls = {}, pushes = {} \/ i \in pushes,
         half = Whole \/ (half.op = "fields" /\ half.row = r),
         local[i].exists, local[i].tid = r, remote[r].exists,
         UNCHANGED <<local, unseen, serverUpdated, pulls, erases>>,
         pushes' = pushes \ {i}, remote' = Uploaded(i, r)
  PROVE  SettledInv'
<1>1. /\ remote'[r].text = local[i].text /\ remote'[r].deleted = remote[r].deleted
      /\ remote'[r].exists
      /\ \A q \in RemoteIds : q # r => remote'[q] = remote[q]
  <2> DEFINE row == Stored(remote[r], local[i].text, clock, TRUE)
  <2>1. remote' = [remote EXCEPT ![r] = row]
    BY DEF Uploaded
  <2>2. row.text = local[i].text /\ row.deleted = remote[r].deleted /\ row.exists
    BY Columns DEF Stored, RemoteRow
  <2> HIDE DEF row
  <2> QED BY <2>1, <2>2 DEF TypeOK
<1>2. /\ \A q \in RemoteIds : Copies(q)' = Copies(q)
      /\ \A q \in RemoteIds : i \in Copies(q) <=> q = r
  BY DEF Copies
<1>3. half.op # "erase" /\ half'.op # "erase"
  BY DEF Whole
<1>4. RowsSettled'
  <2>1. ASSUME NEW q \in RemoteIds, q \notin unseen', remote'[q].exists
        PROVE  Settled(q)'
    <3>1. Settled(q)
      BY <1>1, <2>1 DEF SettledInv, RowsSettled
    <3>2. CASE q = r
      BY <1>1, <1>2, <1>3, <3>1, <3>2 DEF Settled
    <3>3. CASE q # r
      BY <1>1, <1>2, <1>3, <3>1, <3>3 DEF Settled, Whole
    <3> QED BY <3>2, <3>3
  <2> QED BY <2>1 DEF RowsSettled
<1>5. PulledHere'
  BY <1>1, <1>2 DEF SettledInv, PulledHere, TypeOK
<1>6. TasksSettled'
  BY <1>1, Columns DEF SettledInv, TasksSettled, HasRemote, RemoteIds
<1> QED BY <1>4, <1>5, <1>6 DEF SettledInv

LEMMA PushSettled ==
  ASSUME TypeOK, TiedInv, MergeInv, SettledInv, UNCHANGED unseen,
         PushFields \/ \E i \in LocalIds : PushUpdate(i) \/ PushSkip(i)
  PROVE  SettledInv'
<1>1. CASE PushFields
  <2>1. /\ half.op = "fields" /\ half.task \in LocalIds /\ half.row \in RemoteIds
        /\ half # Whole
    BY <1>1 DEF PushFields, TypeOK, Whole, Halves
  <2>2. /\ half.task \in pushes /\ pulls = {}
        /\ local[half.task].exists /\ local[half.task].tid = half.row
        /\ remote[half.row].exists
    BY <2>1 DEF MergeInv, HalvesTell, TiedInv, HalfMade, TidsMatch, HasRemote, RemoteIds
  <2> QED BY <1>1, <2>1, <2>2, PushTextSettled DEF PushFields
<1>2. ASSUME NEW i \in LocalIds, PushUpdate(i) PROVE SettledInv'
  <2>1. local[i].tid \in RemoteIds /\ local[i].exists /\ remote[local[i].tid].exists
    BY <1>2, Columns DEF PushUpdate, Pushing, HasRemote, TiedInv, ListsExist
  <2> QED BY <1>2, <2>1, PushTextSettled DEF PushUpdate, Pushing, control
<1>3. ASSUME NEW i \in LocalIds, PushSkip(i) PROVE SettledInv'
  <2>1. /\ pc = "apply" /\ pc' = "apply" /\ half = Whole /\ half' = Whole /\ pulls = {}
        /\ HasRemote(i) /\ local[i].tid \in serverUpdated /\ pushes' = pushes \ {i}
        /\ UNCHANGED <<local, remote, serverUpdated, pulls, erases>>
    BY <1>3 DEF PushSkip, Pushing, control, stores
  <2>2. \A q \in RemoteIds : Copies(q)' = Copies(q)
    BY <2>1 DEF Copies
  <2>3. PulledHere'
    BY <2>1, <2>2 DEF SettledInv, PulledHere, TypeOK
  <2>4. RowsSettled'
    <3>1. ASSUME NEW q \in RemoteIds, q \notin unseen', remote'[q].exists
          PROVE  Settled(q)'
      <4>1. Settled(q)
        BY <2>1, <3>1 DEF SettledInv, RowsSettled
      <4>2. CASE i \in Copies(q) /\ ~remote[q].deleted
        <5>1. \E j \in Copies(q) : local[j].text = remote[q].text
          BY <2>1, <4>2 DEF SettledInv, PulledHere, Copies
        <5> QED BY <2>1, <2>2, <4>2, <5>1 DEF Settled
      <4>3. CASE i \notin Copies(q) \/ remote[q].deleted
        BY <2>1, <2>2, <4>1, <4>3 DEF Settled, Whole
      <4> QED BY <4>2, <4>3
    <3> QED BY <3>1 DEF RowsSettled
  <2>5. TasksSettled'
    BY <2>1 DEF SettledInv, TasksSettled, HasRemote
  <2> QED BY <2>3, <2>4, <2>5 DEF SettledInv
<1> QED BY <1>1, <1>2, <1>3

LEMMA DropSettled ==
  ASSUME TypeOK, TiedInv, MergeInv, SettledInv, NEW r \in RemoteIds, Drop(r),
         WasDropped(r)
  PROVE  SettledInv'
<1>1. /\ pc = "apply" /\ pc' = "apply" /\ half = Whole /\ half' = Whole /\ r \in drops
      /\ UNCHANGED <<remote, serverUpdated, pulls, pushes, erases>>
      /\ unseen' = unseen \ {r}
      /\ local' = [i \in LocalIds |-> IF i \in Copies(r) THEN NoLocal ELSE local[i]]
  BY DEF Drop, WasDropped, control
<1>2. remote[r].deleted
  BY <1>1 DEF MergeInv, PullsTell
<1>3. Copies(r)' = {}
  BY <1>1 DEF Copies, NoLocal, RemoteIds
<1>4. \A q \in RemoteIds : q # r => /\ Copies(q)' = Copies(q)
                                    /\ \A j \in Copies(q) : local'[j] = local[j]
  BY <1>1 DEF Copies, NoLocal, RemoteIds
<1>5. RowsSettled'
  <2>1. ASSUME NEW q \in RemoteIds, q \notin unseen', remote'[q].exists
        PROVE  Settled(q)'
    <3>1. CASE q = r
      BY <1>1, <1>2, <1>3, <3>1 DEF Settled
    <3>2. CASE q # r
      <4>1. Settled(q)
        BY <1>1, <2>1, <3>2 DEF SettledInv, RowsSettled
      <4> QED BY <1>1, <1>4, <3>2, <4>1 DEF Settled
    <3> QED BY <3>1, <3>2
  <2> QED BY <2>1 DEF RowsSettled
<1>6. PulledHere'
  <2>1. ASSUME NEW q \in serverUpdated \ pulls
        PROVE  remote[q].deleted \/ \E j \in Copies(q)' : local'[j].text = remote[q].text
    <3>1. q \in RemoteIds
      BY DEF TypeOK
    <3>2. CASE q # r
      <4>1. remote[q].deleted \/ \E j \in Copies(q) : local[j].text = remote[q].text
        BY <1>1 DEF SettledInv, PulledHere
      <4> QED BY <1>4, <3>1, <3>2, <4>1
    <3> QED BY <1>2, <3>2
  <2> QED BY <1>1, <2>1 DEF PulledHere
<1>7. TasksSettled'
  BY <1>1 DEF SettledInv, TasksSettled, HasRemote, NoLocal
<1> QED BY <1>5, <1>6, <1>7 DEF SettledInv

LEMMA EraseSettled ==
  ASSUME TypeOK, TiedInv, MergeInv, SettledInv, NEW i \in LocalIds, UNCHANGED unseen,
         EraseRemote(i) \/ EraseLocal(i)
  PROVE  SettledInv'
<1>1. CASE EraseRemote(i)
  <2> DEFINE r == local[i].tid
  <2>1. /\ r \in RemoteIds /\ pc = "apply" /\ pc' = "apply" /\ half = Whole
        /\ half'.op = "erase" /\ half'.task = i /\ local[i].exists
        /\ UNCHANGED <<local, serverUpdated, pulls, pushes, erases>>
    BY <1>1, Columns DEF EraseRemote, Erasing, HasRemote, loops
  <2>2. /\ remote'[r].deleted /\ remote'[r].exists = remote[r].exists
        /\ \A q \in RemoteIds : q # r => remote'[q] = remote[q]
    <3>1. CASE remote[r].deleted
      BY <1>1, <3>1 DEF EraseRemote
    <3>2. CASE ~remote[r].deleted
      <4>1. remote' = [remote EXCEPT ![r] = Marked(@, clock, TRUE)]
        BY <1>1, <3>2 DEF EraseRemote
      <4> QED BY <2>1, <4>1, RemoteMarked
    <3> QED BY <3>1, <3>2
  <2>3. Copies(r) = {i}
    BY <2>1 DEF Copies, TiedInv, TidsMatch, RemoteIds
  <2>4. \A q \in RemoteIds : Copies(q)' = Copies(q)
    BY <2>1 DEF Copies
  <2> HIDE DEF r
  <2>5. RowsSettled'
    <3>1. ASSUME NEW q \in RemoteIds, q \notin unseen', remote'[q].exists
          PROVE  Settled(q)'
      <4>1. CASE q = r
        BY <2>1, <2>2, <2>3, <2>4, <4>1 DEF Settled
      <4>2. CASE q # r
        <5>1. Settled(q)
          BY <2>2, <3>1, <4>2 DEF SettledInv, RowsSettled
        <5> QED BY <2>1, <2>2, <2>4, <4>2, <5>1 DEF Settled, Whole
      <4> QED BY <4>1, <4>2
    <3> QED BY <3>1 DEF RowsSettled
  <2>6. PulledHere'
    BY <2>1, <2>2, <2>4 DEF SettledInv, PulledHere, TypeOK
  <2>7. TasksSettled'
    BY <2>1, <2>2, Columns DEF SettledInv, TasksSettled, HasRemote
  <2> QED BY <2>5, <2>6, <2>7 DEF SettledInv
<1>2. CASE EraseLocal(i)
  <2>1. /\ pc = "apply" /\ pc' = "apply" /\ half' = Whole
        /\ half = Whole \/ (half.op = "erase" /\ half.task = i)
        /\ UNCHANGED <<remote, serverUpdated, pulls, pushes>>
        /\ erases' = erases \ {i}
        /\ ~local'[i].exists /\ \A j \in LocalIds : j # i => local'[j] = local[j]
    BY <1>2 DEF EraseLocal, Erasing, NoLocal, TypeOK
  <2>2. \A q \in RemoteIds : i \in Copies(q) => remote[q].deleted /\ half.op = "erase"
    BY <1>2 DEF EraseLocal, Copies, MergeInv, HalvesTell, RemoteIds
  <2>3. \A q \in RemoteIds : Copies(q)' = Copies(q) \ {i}
    BY <2>1 DEF Copies
  <2>4. RowsSettled'
    <3>1. ASSUME NEW q \in RemoteIds, q \notin unseen', remote'[q].exists
          PROVE  Settled(q)'
      <4>1. Settled(q)
        BY <2>1, <3>1 DEF SettledInv, RowsSettled
      <4>2. CASE remote[q].deleted
        BY <2>1, <2>3, <4>1, <4>2 DEF Settled, Whole
      <4>3. CASE ~remote[q].deleted
        <5>1. i \notin Copies(q)
          BY <2>2, <4>3
        <5>2. \A j \in Copies(q) : local'[j] = local[j] /\ (j \in erases => j \in erases')
          BY <2>1, <5>1 DEF Copies
        <5> QED BY <2>1, <2>3, <4>1, <4>3, <5>1, <5>2 DEF Settled, Whole
      <4> QED BY <4>2, <4>3
    <3> QED BY <3>1 DEF RowsSettled
  <2>5. PulledHere'
    BY <2>1, <2>2, <2>3 DEF SettledInv, PulledHere, TypeOK, Copies
  <2>6. TasksSettled'
    BY <2>1 DEF SettledInv, TasksSettled, HasRemote
  <2> QED BY <2>4, <2>5, <2>6 DEF SettledInv
<1> QED BY <1>1, <1>2

LEMMA FinishSettled ==
  ASSUME TypeOK, MergeInv, SettledInv, Finish, WasFinished
  PROVE  SettledInv'
<1>1. /\ pc = "apply" /\ pc' = "idle" /\ half = Whole /\ half' = Whole
      /\ pushes = {} /\ erases = {} /\ unseen = {}
      /\ UNCHANGED <<local, remote>>
  BY FinishUnseen DEF Finish
<1>2. \A q \in RemoteIds : Copies(q)' = Copies(q)
  BY <1>1 DEF Copies
<1>3. RowsSettled'
  BY <1>1, <1>2 DEF SettledInv, RowsSettled, Settled, Whole
<1>4. TasksSettled'
  BY <1>1 DEF SettledInv, TasksSettled, HasRemote
<1> QED BY <1>1, <1>3, <1>4 DEF SettledInv, PulledHere

LEMMA NextSettled ==
  TypeOK /\ TiedInv /\ MergeInv /\ SettledInv /\ [MergeNext]_<<vars, exchange>>
  => SettledInv'
<1> SUFFICES ASSUME TypeOK, TiedInv, MergeInv, SettledInv,
                    [MergeNext]_<<vars, exchange>>
             PROVE  SettledInv'
  OBVIOUS
<1>1. CASE MergeUser \/ MergeOthers
  BY <1>1, UserSettled, OthersSettled
<1>2. CASE MergeApply
  <2>1. ASSUME NEW r \in RemoteIds, NEW i \in LocalIds, NEW v \in Versions,
               PullUpdate(r, i, v) \/ PullCreate(r, i, v), WasPulled(r)
        PROVE  SettledInv'
    BY <2>1, PullSettled
  <2>2. CASE /\ PushFields \/ \E i \in LocalIds : PushUpdate(i) \/ PushSkip(i)
             /\ UNCHANGED unseen
    BY <2>2, PushSettled
  <2>3. ASSUME NEW i \in LocalIds, EraseRemote(i) \/ EraseLocal(i), UNCHANGED unseen
        PROVE  SettledInv'
    BY <2>3, EraseSettled
  <2>4. ASSUME NEW r \in RemoteIds, Drop(r), WasDropped(r) PROVE SettledInv'
    BY <2>4, DropSettled
  <2>5. ASSUME NEW i \in LocalIds, NEW r \in RemoteIds, PushCreate(i, r),
               UNCHANGED exchange
        PROVE  SettledInv'
    BY <2>5, PushNewSettled
  <2>6. CASE (PullIndex \/ PushTid) /\ UNCHANGED exchange
    BY <2>6, IndexSettled, PushTidSettled
  <2>7. CASE Finish /\ WasFinished
    BY <2>7, FinishSettled
  <2> QED
    BY <1>2, <2>1, <2>2, <2>3, <2>4, <2>5, <2>6, <2>7 DEF MergeApply, WasPushed, exchange
<1>3. CASE (Begin \/ ListChanges \/ ReportOnly) /\ UNCHANGED exchange
  BY <1>3, QuerySettled
<1>4. CASE RemoteFails \/ Kill
  BY <1>4, MergeAssumption DEF RemoteFails, Kill, CutShort, TypeOK
<1>5. CASE (Restart \/ Tick \/ UNCHANGED vars) /\ UNCHANGED exchange
  BY <1>5
  DEF Restart, Tick, vars, stores, stamps, loops, control, exchange, SettledInv,
      RowsSettled, Settled, PulledHere, TasksSettled, HasRemote, Copies, ChangedHere
<1> QED BY <1>1, <1>2, <1>3, <1>4, <1>5 DEF MergeNext, exchange

\* Between syncs, nothing that anybody changed is missed by the next sync.
THEOREM NothingMissedCorrect == MergeSpec => []NothingMissed
<1>1. MergeInit => TypeOK /\ TiedInv /\ MergeInv /\ SettledInv
  BY InitTypeOK, InitTied, InitMerge, InitSettled DEF MergeInit
<1>2. TypeOK /\ TiedInv /\ MergeInv /\ SettledInv /\ [MergeNext]_<<vars, exchange>>
      => (TypeOK /\ TiedInv /\ MergeInv /\ SettledInv)'
  BY MergeStep, NextTypeOK, NextTied, NextMerge, NextSettled
<1>3. TiedInv /\ MergeInv /\ SettledInv => NothingMissed
  <2> SUFFICES ASSUME TiedInv, MergeInv, SettledInv, pc = "idle" PROVE NothingMissed
    BY DEF NothingMissed
  <2>1. half = Whole
    BY DEF TiedInv, HalfMade
  <2>2. \A r \in RemoteIds : r \in unseen <=> remote[r].exists /\ ChangedThere(r)
    BY DEF MergeInv, TimesTell
  <2>3. \A r \in RemoteIds : remote[r].exists /\ ~ChangedThere(r) => Settled(r)
    BY <2>2 DEF SettledInv, RowsSettled
  <2>4. \A i \in LocalIds :
          local[i].exists /\ ~local[i].deleted /\ ~ChangedHere(i) => HasRemote(i)
    BY DEF SettledInv, TasksSettled
  <2> QED BY <2>1, <2>3, <2>4 DEF NothingMissed, Settled, Whole
<1> QED BY <1>1, <1>2, <1>3, PTL DEF MergeSpec

-----------------------------------------------------------------------------
(* What a sync takes from the server was written by somebody else *)

LEMMA NextNotOurs ==
  TypeOK /\ TiedInv /\ MergeInv /\ NotOurs /\ [MergeNext]_<<vars, exchange>> => NotOurs'
<1> SUFFICES ASSUME TypeOK, TiedInv, MergeInv, NotOurs, [MergeNext]_<<vars, exchange>>
             PROVE  NotOurs'
  OBVIOUS
<1>F. ASSUME UNCHANGED remote, unseen' \subseteq unseen PROVE NotOurs'
  BY <1>F DEF NotOurs
<1>W. ASSUME NEW r \in RemoteIds, unseen' = unseen,
             r \notin unseen \/ remote'[r].deleted,
             \A q \in RemoteIds : q # r => remote'[q] = remote[q],
             unseen \subseteq RemoteIds
      PROVE  NotOurs'
  BY <1>W DEF NotOurs
<1>1. CASE MergeUser
  BY <1>1, <1>F DEF MergeUser, CreateTask, EditTask, ToggleDeleted, UserWrote
<1>2. CASE MergeOthers
  <2>1. PICK r \in RemoteIds, d \in Drift :
          /\ \/ \E v \in Versions : RemoteCreate(r, d, v)
             \/ RemoteEdit(r, d) \/ RemoteDelete(r, d)
          /\ OthersWrote(r)
    BY <1>2 DEF MergeOthers
  <2>2. /\ unseen' = unseen \cup {r}
        /\ \A q \in RemoteIds : q # r => remote'[q] = remote[q]
    BY <2>1 DEF RemoteCreate, RemoteEdit, RemoteDelete, OthersWrote, TypeOK
  <2>3. remote'[r].deleted \/ ~remote'[r].ours
    <3>1. ASSUME NEW v \in Versions, RemoteCreate(r, d, v) PROVE ~remote'[r].ours
      BY <3>1 DEF RemoteCreate, TypeOK
    <3>2. CASE RemoteEdit(r, d)
      BY <3>2, Columns DEF RemoteEdit, Stored, RemoteRow, TypeOK
    <3>3. CASE RemoteDelete(r, d)
      BY <3>3, RemoteMarked DEF RemoteDelete
    <3> QED BY <2>1, <3>1, <3>2, <3>3
  <2>4. unseen \subseteq RemoteIds
    <3>1. pc = "idle"
      BY <2>1, MergeAssumption DEF RemoteCreate, RemoteEdit, RemoteDelete, OthersMayWrite
    <3> QED BY <3>1 DEF MergeInv, TimesTell
  <2> QED BY <2>2, <2>3, <2>4 DEF NotOurs
<1>3. CASE MergeApply
  <2>0. ASSUME pc = "apply" PROVE unseen = pulls \cup drops /\ unseen \subseteq RemoteIds
    BY <2>0 DEF MergeInv, PullsTell, TypeOK
  <2>1. ASSUME NEW r \in RemoteIds, NEW i \in LocalIds, NEW v \in Versions,
               PullUpdate(r, i, v) \/ PullCreate(r, i, v), WasPulled(r)
        PROVE  NotOurs'
    BY <2>1, <1>F DEF PullUpdate, PullCreate, WasPulled
  <2>2. CASE PushFields /\ WasPushed(half.task)
    <3>1. half.row \in RemoteIds /\ half.row \notin unseen /\ unseen \subseteq RemoteIds
      BY <2>0, <2>2 DEF PushFields, TypeOK, Whole, Halves, MergeInv, HalvesTell
    <3>2. \A q \in RemoteIds : q # half.row => remote'[q] = remote[q]
      BY <2>2 DEF PushFields, Uploaded, TypeOK
    <3> QED BY <2>2, <3>1, <3>2, <1>W DEF WasPushed
  <2>3. ASSUME NEW i \in LocalIds, PushUpdate(i), UNCHANGED unseen PROVE NotOurs'
    <3>1. PICK r \in RemoteIds : r = local[i].tid
      BY <2>3, Columns DEF PushUpdate, HasRemote
    <3>2. /\ pc = "apply" /\ pulls = {} /\ remote' = Uploaded(i, r)
          /\ unseen \subseteq RemoteIds
      BY <2>0, <2>3, <3>1 DEF PushUpdate, Pushing
    <3>3. \A q \in RemoteIds : q # r => remote'[q] = remote[q]
      BY <3>2 DEF Uploaded, TypeOK
    <3>4. remote'[r].deleted = remote[r].deleted
      BY <3>2, RemoteStored, Columns DEF Uploaded, Stored, RemoteRow, TypeOK
    <3>5. r \notin unseen \/ remote'[r].deleted
      BY <3>2, <3>4 DEF MergeInv, PullsTell
    <3> QED BY <2>3, <3>2, <3>3, <3>5, <1>W
  <2>4. ASSUME NEW i \in LocalIds, PushSkip(i) \/ EraseLocal(i), UNCHANGED unseen
        PROVE  NotOurs'
    BY <2>4, <1>F DEF PushSkip, EraseLocal, stores
  <2>5. ASSUME NEW i \in LocalIds, EraseRemote(i), UNCHANGED unseen PROVE NotOurs'
    BY <2>0, <2>5 DEF EraseRemote, Erasing, NotOurs
  <2>6. ASSUME NEW r \in RemoteIds, Drop(r), WasDropped(r) PROVE NotOurs'
    BY <2>6, <1>F DEF Drop, WasDropped
  <2>7. ASSUME NEW i \in LocalIds, NEW r \in RemoteIds, PushCreate(i, r),
               UNCHANGED unseen
        PROVE  NotOurs'
    <3>1. /\ pc = "apply" /\ ~remote[r].exists /\ unseen \subseteq RemoteIds
          /\ pulls = {}
      BY <2>0, <2>7 DEF PushCreate, Pushing, NextRemote
    <3>2. r \notin unseen
      BY <3>1 DEF MergeInv, PullsTell
    <3>3. \A q \in RemoteIds : q # r => remote'[q] = remote[q]
      BY <2>7 DEF PushCreate, TypeOK
    <3> QED BY <2>7, <3>1, <3>2, <3>3, <1>W
  <2>8. CASE (PullIndex \/ PushTid) /\ UNCHANGED exchange
    BY <2>8, <1>F DEF PullIndex, PushTid, exchange
  <2>9. CASE Finish /\ WasFinished
    BY <2>9, FinishUnseen DEF NotOurs
  <2> QED BY <1>3, <2>1, <2>2, <2>3, <2>4, <2>5, <2>6, <2>7, <2>8, <2>9
    DEF MergeApply, WasPushed, exchange
<1>4. CASE /\ Begin \/ ListChanges \/ ReportOnly \/ RemoteFails \/ Kill \/ Restart
              \/ Tick
           /\ UNCHANGED exchange
  BY <1>4, <1>F
  DEF Begin, ListChanges, ReportOnly, RemoteFails, Kill, CutShort, Restart, Tick, stores,
      exchange
<1>5. CASE UNCHANGED <<vars, exchange>>
  BY <1>5, <1>F DEF vars, stores, exchange
<1> QED BY <1>1, <1>2, <1>3, <1>4, <1>5 DEF MergeNext

\* A sync never undoes an edit of the user with text that this client pushed itself.
THEOREM ServerWinsCorrect == MergeSpec => ServerWinsOnConflict
<1>1. MergeInit => TypeOK /\ TiedInv /\ MergeInv /\ NotOurs
  BY InitTypeOK, InitTied, InitMerge DEF MergeInit, NotOurs
<1>2. TypeOK /\ TiedInv /\ MergeInv /\ NotOurs /\ [MergeNext]_<<vars, exchange>>
      => (TypeOK /\ TiedInv /\ MergeInv /\ NotOurs)'
  BY MergeStep, NextTypeOK, NextTied, NextMerge, NextNotOurs
<1>3. ASSUME TypeOK, MergeInv, NotOurs, NEW r \in RemoteIds, NEW i \in LocalIds,
             NEW v \in Versions, PullUpdate(r, i, v)
      PROVE  ~remote[r].ours
  <2>1. r \in pulls /\ pc = "apply"
    BY <1>3 DEF PullUpdate, Pulling
  <2>2. r \in unseen /\ ~remote[r].deleted
    BY <1>3, <2>1 DEF MergeInv, PullsTell
  <2> QED BY <1>3, <2>2 DEF NotOurs
<1>4. TypeOK /\ MergeInv /\ NotOurs =>
        [failures = 0 =>
           \A r \in RemoteIds, i \in LocalIds, v \in Versions :
             PullUpdate(r, i, v) /\ ChangedHere(i) /\ local[i].text # v
             => ~remote[r].ours]_vars
  BY <1>3
<1> QED BY <1>1, <1>2, <1>4, PTL DEF MergeSpec, ServerWinsOnConflict
=============================================================================
