--------------------------- MODULE TaskSyncMerge ----------------------------
(***************************************************************************)
(* TaskSync with two history variables, and the merge of two copies that   *)
(* it implements as long as nobody writes during a sync and none is cut    *)
(* short.  The code knows of neither variable: it has the modified times   *)
(* of the rows and the two sync times instead.                             *)
(***************************************************************************)
EXTENDS TaskSync

\* This client's clock is not ahead of the server's by more than what is added to the
\* sync times.
ASSUME MergeAssumption == Quiet /\ MaxFailures = 0 /\ ServerOffset + Slack >= 0

VARIABLES
  unsent,  \* tasks that the user wrote since they were pushed or pulled
  unseen   \* server rows that others wrote since they were pulled, or that
           \* the next sync takes for such rows

exchange == <<unsent, unseen>>

MergeInit == Init /\ unsent = {} /\ unseen = {}

UserWrote(i)   == unsent' = unsent \cup {i} /\ UNCHANGED unseen
OthersWrote(r) == unseen' = unseen \cup {r} /\ UNCHANGED unsent
WasPulled(r)   == /\ unseen' = unseen \ {r}
                  /\ unsent' = unsent \ {i \in Copies(r) : ~local[i].deleted}
WasPushed(i)   == unsent' = unsent \ {i} /\ UNCHANGED unseen
WasDropped(r)  == unseen' = unseen \ {r} /\ unsent' = unsent \ Copies(r)

\* the new sync time may be one that is long past
WasFinished    == /\ unseen' = {r \in RemoteIds : remote[r].exists /\ ChangedThere(r)'}
                  /\ UNCHANGED unsent

MergeUser ==
  \E i \in LocalIds : (CreateTask(i) \/ EditTask(i) \/ ToggleDeleted(i)) /\ UserWrote(i)

MergeOthers ==
  \E r \in RemoteIds, d \in Drift :
    /\ \/ \E v \in Versions : RemoteCreate(r, d, v)
       \/ RemoteEdit(r, d) \/ RemoteDelete(r, d)
    /\ OthersWrote(r)

\* text pushed to a row that others deleted is not seen by anybody
MergeApply ==
  \/ \E r \in RemoteIds, i \in LocalIds, v \in Versions :
       (PullUpdate(r, i, v) \/ PullCreate(r, i, v)) /\ WasPulled(r)
  \/ PushFields /\ WasPushed(half.task)
  \/ \E i \in LocalIds :
       \/ PushUpdate(i) /\ ~remote[local[i].tid].deleted /\ WasPushed(i)
       \/ PushUpdate(i) /\ remote[local[i].tid].deleted /\ UNCHANGED exchange
       \/ EraseLocal(i) /\ WasPushed(i)
       \/ (PushSkip(i) \/ EraseRemote(i)) /\ UNCHANGED exchange
  \/ \E r \in RemoteIds : Drop(r) /\ WasDropped(r)
  \/ \E i \in LocalIds, r \in RemoteIds : PushCreate(i, r) /\ UNCHANGED exchange
  \/ (PullIndex \/ PushTid) /\ UNCHANGED exchange
  \/ Finish /\ WasFinished

MergeNext ==
  \/ MergeUser \/ MergeOthers \/ MergeApply
  \/ /\ Begin \/ ListChanges \/ ReportOnly \/ RemoteFails \/ Kill \/ Restart \/ Tick
     /\ UNCHANGED exchange

MergeSpec == MergeInit /\ [][MergeNext]_<<vars, exchange>>

-----------------------------------------------------------------------------
(* Properties *)

\* A task that is marked as deleted is not there, nor is a row without its fields.
HereTexts  == [i \in LocalIds |-> IF local[i].deleted THEN NoId ELSE local[i].text]
ThereTexts == [r \in RemoteIds |-> IF remote[r].deleted THEN NoId ELSE remote[r].text]
Ties       == [i \in LocalIds |-> local[i].tid]
Theirs     == {r \in RemoteIds : remote[r].exists /\ ~remote[r].deleted /\ ~remote[r].ours}

Merged == INSTANCE Replica WITH
  Here <- LocalIds, There <- RemoteIds, Texts <- Versions \ {Blank}, None <- NoId,
  here <- HereTexts, there <- ThereTexts, tie <- Ties,
  theirs <- Theirs

\* The lists that synchronize() makes from times, and the order in which it goes through
\* them, are a merge: a push replaces only what this client has had before, a pull takes
\* only what others wrote, and a removal takes away only what has been had.
Merges == Merged!Spec

-----------------------------------------------------------------------------
(* What that rests on, between the commits of a sync and between two syncs *)

\* every task and row has a text, but for a row that is just being made
HaveText ==
  /\ \A i \in LocalIds : local[i].exists => local[i].text # Blank
  /\ \A r \in RemoteIds : remote[r].exists /\ remote[r].text = Blank =>
       half.op \in {"tid", "fields"} /\ half.row = r
  /\ half.op = "tid" => remote[half.row].text = Blank

\* no task was written after the sync time that a sync would set now, and no row by
\* this client since the open transaction began: a commit ends it
InTime ==
  /\ \A i \in LocalIds : local[i].modified <= clock
  /\ \A r \in RemoteIds : remote[r].ours => remote[r].modified <= Reading

\* until a sync applies its lists, the times tell what is to be exchanged
TimesTell ==
  pc # "apply" =>
    /\ unseen \subseteq RemoteIds
    /\ \A r \in RemoteIds : r \in unseen <=> remote[r].exists /\ ChangedThere(r)
    /\ \A i \in LocalIds : local[i].exists /\ ChangedHere(i) => i \in unsent

Queried ==
  pc = "query" =>
    /\ serverUpdated = {r \in unseen : ~remote[r].deleted}
    /\ \A r \in RemoteIds : seen[r] = remote[r].text

\* then the lists do
PullsTell ==
  pc = "apply" =>
    /\ unseen = pulls \cup drops /\ pulls \subseteq serverUpdated
    /\ \A r \in pulls : ~remote[r].deleted /\ seen[r] = remote[r].text
    /\ \A r \in drops : remote[r].exists /\ remote[r].deleted

PushesTell ==
  pc = "apply" =>
    \A i \in pushes : /\ ~local[i].deleted
                      /\ i \in unsent \/ local[i].tid \in serverUpdated

ErasesTell ==
  pc = "apply" =>
    /\ \A i \in erases : local[i].exists => local[i].deleted
    /\ pulls # {} => \A i \in erases : local[i].exists

HalvesTell ==
  /\ half.op \in {"tid", "fields"} =>
       /\ pulls = {} /\ half.task \in pushes /\ half.task \in unsent
       /\ half.row \notin unseen /\ ~remote[half.row].deleted
  /\ half.op = "erase" =>
       /\ pulls = {} /\ drops = {} /\ local[half.task].deleted
       /\ local[half.task].tid # NoId => remote[local[half.task].tid].deleted

MergeInv ==
  /\ HaveText /\ InTime /\ TimesTell /\ Queried
  /\ PullsTell /\ PushesTell /\ ErasesTell /\ HalvesTell

-----------------------------------------------------------------------------
(* And what NothingMissed rests on *)

\* Nothing of a row is missed that others have not written since: the copy of the client
\* has its text or is still to be exchanged, and a deleted row has no copy.
Settled(r) ==
  IF remote[r].deleted
  THEN Copies(r) = {} \/ (half.op = "erase" /\ Copies(r) = {half.task})
  ELSE \/ half.op = "tid" /\ half.row = r
       \/ \E i \in Copies(r) :
            \/ local[i].text = remote[r].text
            \/ pc = "apply" /\ i \in pushes \cup erases
            \/ pc # "apply" /\ (local[i].deleted \/ ChangedHere(i))

RowsSettled == \A r \in RemoteIds \ unseen : remote[r].exists => Settled(r)

\* what others wrote is here once it is pulled, so that no push of it is missed
PulledHere ==
  pc = "apply" =>
    \A r \in serverUpdated \ pulls :
      remote[r].deleted \/ \E i \in Copies(r) : local[i].text = remote[r].text

TasksSettled ==
  \A i \in LocalIds :
    local[i].exists /\ ~local[i].deleted =>
      \/ HasRemote(i)
      \/ pc = "apply" /\ i \in pushes
      \/ pc # "apply" /\ ChangedHere(i)

\* And ServerWinsOnConflict: what is to be pulled was written by somebody else.
NotOurs == \A r \in unseen : remote[r].deleted \/ ~remote[r].ours

SettledInv == RowsSettled /\ PulledHere /\ TasksSettled
=============================================================================
