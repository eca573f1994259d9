--------------------------- MODULE MCTaskSyncLate ---------------------------
(* How much of TaskSyncLate the run goes through. *)
EXTENDS TaskSyncLate

\* Two writes are late at the same time, one on each side, so that they may be to one task
\* and its row, or to two; a third one adds nothing that they do to each other.
LateBound ==
  /\ \A i, j \in lateHere : i = j
  /\ \A q, r \in lateThere : q = r

\* the index has no part in what the run checks, and only its own writes read it
WithoutIndex == <<local, remote, stamps, counters, loops, control, since, late>>
=============================================================================
