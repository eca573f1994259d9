---------------------------- MODULE TaskSyncLate ----------------------------
(***************************************************************************)
(* TaskSync with everybody writing at any time, and a history of the       *)
(* writes that come too late for the sync times: those of others during a  *)
(* sync, and those of anybody in the seconds added to the last one.  The   *)
(* code does not know of them, and so no sync may ever list them.          *)
(***************************************************************************)
EXTENDS TaskSync

VARIABLES
  lateHere,   \* tasks that the user wrote last behind the client's sync time
  lateThere   \* rows last written during a sync or behind the server's sync time

late == <<lateHere, lateThere>>

LateInit == Init /\ lateHere = {} /\ lateThere = {}

UserWrote(i) ==
  /\ lateHere' = IF clock > lastClient THEN lateHere \ {i} ELSE lateHere \cup {i}
  /\ UNCHANGED lateThere

OthersWrote(r, d) ==
  /\ lateThere' = IF pc = "idle" /\ clock + d > lastServer
                  THEN lateThere \ {r} ELSE lateThere \cup {r}
  /\ UNCHANGED lateHere

\* once the two copies of a row are the same, nothing of it is late; but a deletion
\* that others made meanwhile is no text, and nothing takes it back
Exchanged(r, I) ==
  /\ lateHere' = lateHere \ I
  /\ lateThere' = IF remote[r].deleted THEN lateThere ELSE lateThere \ {r}

LateUser ==
  \E i \in LocalIds : (CreateTask(i) \/ EditTask(i) \/ ToggleDeleted(i)) /\ UserWrote(i)

LateOthers ==
  \E r \in RemoteIds, d \in Drift :
    /\ \/ \E v \in Versions : RemoteCreate(r, d, v)
       \/ RemoteEdit(r, d) \/ RemoteDelete(r, d)
    /\ OthersWrote(r, d)

LatePull ==
  \E r \in RemoteIds, i \in LocalIds, v \in Versions :
    /\ PullUpdate(r, i, v) \/ PullCreate(r, i, v)
    /\ IF v = remote[r].text THEN Exchanged(r, {i})
       ELSE lateHere' = lateHere \ {i} /\ UNCHANGED lateThere

LatePush ==
  \/ PushFields /\ Exchanged(half.row, {half.task})
  \/ \E i \in LocalIds : PushUpdate(i) /\ Exchanged(local[i].tid, {i})

LateRemoval ==
  \/ \E r \in RemoteIds : Drop(r) /\ lateHere' = lateHere \ Copies(r)
                                  /\ lateThere' = lateThere \ {r}
  \/ \E i \in LocalIds :
       \/ EraseRemote(i) /\ UNCHANGED lateHere
                         /\ lateThere' = IF clock > lastServer THEN lateThere
                                         ELSE lateThere \cup {local[i].tid}
       \/ EraseLocal(i) /\ lateHere' = lateHere \ {i}
                        /\ lateThere' = lateThere \ {local[i].tid}

LateRest ==
  \/ Begin \/ ListChanges \/ ReportOnly \/ PullIndex \/ PushTid
  \/ \E i \in LocalIds : \/ \E r \in RemoteIds : PushCreate(i, r)
                         \/ PushSkip(i)
  \/ Finish \/ RemoteFails \/ Kill \/ Restart \/ Tick

LateNext ==
  \/ LateUser \/ LateOthers \/ LatePull \/ LatePush \/ LateRemoval
  \/ LateRest /\ UNCHANGED late

LateSpec == LateInit /\ [][LateNext]_<<vars, late>>

-----------------------------------------------------------------------------
(* Properties *)

\* What a late write leaves behind stays with the row it was made to: between syncs,
\* every other row agrees with its copy or is still to be seen as changed, and so is
\* every other task without a row.
MissedOnlyLate ==
  pc = "idle" =>
    /\ \A r \in RemoteIds \ lateThere :
         remote[r].exists /\ ~ChangedThere(r) =>
           IF remote[r].deleted
           THEN Copies(r) = {}
           ELSE \E i \in Copies(r) : \/ local[i].deleted \/ i \in lateHere
                                     \/ ChangedHere(i)
                                     \/ local[i].text = remote[r].text
    /\ \A i \in LocalIds \ lateHere :
         local[i].exists /\ ~local[i].deleted /\ ~ChangedHere(i) => HasRemote(i)
=============================================================================
