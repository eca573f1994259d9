------------------------------ MODULE Replica -------------------------------
(***************************************************************************)
(* What the replication of tasks promises: a merge of two copies.  Each    *)
(* side knows which of its texts the other has not had yet.  A text is     *)
(* replaced by one of the other side only, and on the server only by one   *)
(* of a client that has had what it replaces.  What others wrote, and this *)
(* client has had, may count as new again.  Nothing is said of how the     *)
(* changes are found, or of how many commits an exchange takes.            *)
(***************************************************************************)
CONSTANTS Here, There, Texts, None

VARIABLES
  here, there,   \* the texts of the two sides, None where there is no task
  tie,           \* the server row of a task, None if it has none yet
  unsent,        \* tasks that the user changed since they were exchanged
  unseen,        \* server rows that others changed since they were exchanged
  theirs         \* server rows whose text others wrote

vars == <<here, there, tie, unsent, unseen, theirs>>

TypeOK ==
  /\ here \in [Here -> Texts \cup {None}] /\ there \in [There -> Texts \cup {None}]
  /\ tie \in [Here -> There \cup {None}]
  /\ unsent \subseteq Here /\ unseen \subseteq There /\ theirs \subseteq There

Init ==
  /\ here = [i \in Here |-> None] /\ there = [r \in There |-> None]
  /\ tie = [i \in Here |-> None]
  /\ unsent = {} /\ unseen = {} /\ theirs = {}

Tied(r) == {i \in Here : tie[i] = r}

\* the user writes or removes a task; others do so on the server
Change(i, v) ==
  /\ here' = [here EXCEPT ![i] = v] /\ unsent' = unsent \cup {i}
  /\ UNCHANGED <<there, tie, unseen, theirs>>

OthersChange(r, v) ==
  /\ there' = [there EXCEPT ![r] = v] /\ unseen' = unseen \cup {r}
  /\ theirs' = IF v = None THEN theirs \ {r} ELSE theirs \cup {r}
  /\ UNCHANGED <<here, tie, unsent>>

\* rows that others wrote or removed count as changed once more
Relist(R) ==
  /\ \A r \in R : r \in theirs \/ there[r] = None
  /\ unseen' = unseen \cup R
  /\ UNCHANGED <<here, there, tie, unsent, theirs>>

\* what others wrote wins, but for a task that was removed here
Pull(i, r) ==
  /\ r \in unseen /\ there[r] # None
  /\ unseen' = unseen \ {r}
  /\ \/ /\ tie[i] = r /\ here[i] = None
        /\ UNCHANGED <<here, tie, unsent>>
     \/ /\ tie[i] = r /\ here[i] # None
        /\ here' = [here EXCEPT ![i] = there[r]] /\ unsent' = unsent \ {i}
        /\ UNCHANGED tie
     \/ /\ Tied(r) = {} /\ tie[i] = None /\ here[i] = None
        /\ here' = [here EXCEPT ![i] = there[r]] /\ tie' = [tie EXCEPT ![i] = r]
        /\ UNCHANGED unsent
  /\ UNCHANGED <<there, theirs>>

\* a new task gets a row of its own
Tie(i, r) ==
  /\ i \in unsent /\ tie[i] = None
  /\ r \notin unseen /\ there[r] = None /\ Tied(r) = {}
  /\ tie' = [tie EXCEPT ![i] = r]
  /\ UNCHANGED <<here, there, unsent, unseen, theirs>>

Push(i) ==
  /\ i \in unsent /\ tie[i] # None /\ tie[i] \notin unseen /\ here[i] # None
  /\ there' = [there EXCEPT ![tie[i]] = here[i]] /\ unsent' = unsent \ {i}
  /\ theirs' = theirs \ {tie[i]}
  /\ UNCHANGED <<here, tie, unseen>>

\* a removal goes to the server, and the task is forgotten; or it comes from there
SendRemoval(i) ==
  /\ here[i] = None /\ tie[i] # None /\ tie[i] \notin unseen
  /\ there' = [there EXCEPT ![tie[i]] = None] /\ theirs' = theirs \ {tie[i]}
  /\ UNCHANGED <<here, tie, unsent, unseen>>

Forget(i) ==
  /\ here[i] = None /\ (tie[i] # None => there[tie[i]] = None)
  /\ tie' = [tie EXCEPT ![i] = None] /\ unsent' = unsent \ {i}
  /\ UNCHANGED <<here, there, unseen, theirs>>

TakeRemoval(r) ==
  /\ r \in unseen /\ there[r] = None
  /\ here' = [i \in Here |-> IF tie[i] = r THEN None ELSE here[i]]
  /\ tie'  = [i \in Here |-> IF tie[i] = r THEN None ELSE tie[i]]
  /\ unsent' = unsent \ Tied(r) /\ unseen' = unseen \ {r}
  /\ UNCHANGED <<there, theirs>>

Next ==
  \/ \E i \in Here : \/ \E v \in Texts \cup {None} : Change(i, v)
                     \/ Push(i) \/ SendRemoval(i) \/ Forget(i)
  \/ \E r \in There : \/ \E v \in Texts \cup {None} : OthersChange(r, v)
                      \/ TakeRemoval(r)
  \/ \E i \in Here, r \in There : Pull(i, r) \/ Tie(i, r)
  \/ \E R \in SUBSET There : Relist(R)

Spec == Init /\ [][Next]_vars
=============================================================================
