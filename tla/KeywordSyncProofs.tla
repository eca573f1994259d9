------------------------- MODULE KeywordSyncProofs --------------------------
(***************************************************************************)
(* Proofs about the replication of keywords, for any keywords, tasks,      *)
(* words, edits and syncs that are cut short: the types, that unmarked     *)
(* keywords are the same on both sides, the keywords of unmarked tasks,    *)
(* and that a sync is refused only for one of the reasons named.           *)
(***************************************************************************)
EXTENDS KeywordSync, FiniteSetTheorems, WellFoundedInduction, TLAPS

-----------------------------------------------------------------------------
(* Numbers, names and rows *)

\* The last of some numbers.
LEMMA MaxIs ==
  ASSUME NEW n \in Nat, NEW S \in SUBSET (0..n), S # {}
  PROVE  Max(S) \in S /\ \A j \in S : j <= Max(S)
<1> DEFINE T == {n - i : i \in S}
           R == OpToRel(<, Nat)
<1>1. T \subseteq Nat /\ T # {}
  <2>1. PICK i \in S : TRUE
    OBVIOUS
  <2>2. n - i \in T
    OBVIOUS
  <2>3. T \subseteq Nat
    OBVIOUS
  <2> QED BY <2>2, <2>3
<1>2. PICK x \in T : \A y \in T : ~ (<<y, x>> \in R)
  <2> HIDE DEF T, R
  <2>1. IsWellFoundedOn(R, Nat)
    BY NatLessThanWellFounded DEF R
  <2> QED BY <1>1, <2>1, WFMin
<1>3. \A y \in T : x <= y
  <2>1. \A a, b \in Nat : a < b => <<a, b>> \in R
    <3> SUFFICES ASSUME NEW a \in Nat, NEW b \in Nat, a < b PROVE <<a, b>> \in R
      OBVIOUS
    <3>1. <<a, b>> \in Nat \X Nat /\ <<a, b>>[1] = a /\ <<a, b>>[2] = b
      OBVIOUS
    <3> QED BY <3>1 DEF OpToRel
  <2> HIDE DEF R, T
  <2>2. SUFFICES ASSUME NEW y \in T PROVE x <= y
    OBVIOUS
  <2>3. x \in Nat /\ y \in Nat
    BY <1>1
  <2>4. ~(y < x)
    BY <1>2, <2>1, <2>3
  <2> QED BY <2>3, <2>4
<1>4. PICK i \in S : x = n - i
  OBVIOUS
<1>5. \A j \in S : j <= i
  BY <1>3, <1>4
<1> QED BY <1>4, <1>5 DEF Max

LEMMA BoundsAre ==
  MaxLocal \in Nat \ {0} /\ MaxRemote \in Nat \ {0} /\ MaxEdits \in Nat /\ MaxCuts \in Nat
BY KeywordSyncAssumption

USE BoundsAre DEF LocalIds, RemoteIds, None

\* The next ids are those of no row.
LEMMA NextIsNew ==
  /\ \A i \in LocalIds : NextLocal(i) => i \notin Locals
  /\ \A r \in RemoteIds : NextRemote(r) => r \notin Remotes
<1>1. \A n \in Nat : \A S \in SUBSET (1..n) : Max(S \cup {0}) + 1 \notin S
  <2> SUFFICES ASSUME NEW n \in Nat, NEW S \in SUBSET (1..n)
               PROVE  Max(S \cup {0}) + 1 \notin S
    OBVIOUS
  <2>0. S \cup {0} \in SUBSET (0..n)
    <3>1. \A j \in S : j \in 0..n
      OBVIOUS
    <3>2. 0 \in 0..n
      OBVIOUS
    <3> QED BY <3>1, <3>2
  <2>1. PICK T \in SUBSET (0..n) : T = S \cup {0}
    BY <2>0
  <2>2. Max(T) \in T /\ \A j \in T : j <= Max(T)
    BY <2>1, MaxIs
  <2>3. PICK m \in 0..n : m = Max(T)
    BY <2>2
  <2>4. \A j \in T : j <= m
    BY <2>2, <2>3
  <2>5. m + 1 \notin T
    BY <2>4
  <2> QED BY <2>1, <2>3, <2>5
<1>2. Locals \in SUBSET (1..MaxLocal) /\ Remotes \in SUBSET (1..MaxRemote)
  BY DEF Locals, Remotes
<1>3. MaxLocal \in Nat /\ MaxRemote \in Nat
  OBVIOUS
<1> QED BY <1>1, <1>2, <1>3 DEF NextLocal, NextRemote

LEMMA NameIs ==
  /\ \A w \in Words \cup {""} : Plain(w) \in Names
  /\ \A n \in Names : Suffixed(n) \in Names
  /\ NoName \in Names
<1>1. \A w \in Words \cup {""} : Plain(w) \in Names
  BY DEF Plain, Names
<1>2. \A n \in Names : Suffixed(n) \in Names
  <2>1. ASSUME NEW W, NEW n \in [word : W, suffix : Nat]
        PROVE  [n EXCEPT !.suffix = @ + 1] \in [word : W, suffix : Nat]
    <3>1. n.suffix \in Nat /\ n.suffix + 1 \in Nat
      OBVIOUS
    <3>2. PICK k \in Nat : k = n.suffix + 1
      BY <3>1
    <3>3. [n EXCEPT !.suffix = k] \in [word : W, suffix : Nat]
      OBVIOUS
    <3> QED BY <3>2, <3>3
  <2> QED BY <2>1 DEF Suffixed, Names
<1> QED BY <1>1, <1>2 DEF NoName

LEMMA SuffixIs == \A n \in Names : Suffixed(n).suffix > 0
<1>1. ASSUME NEW W, NEW n \in [word : W, suffix : Nat]
      PROVE  [n EXCEPT !.suffix = @ + 1].suffix > 0
  <2>1. PICK k \in Nat : k = n.suffix + 1 /\ k > 0
    OBVIOUS
  <2>2. [n EXCEPT !.suffix = k].suffix = k
    OBVIOUS
  <2> QED BY <2>1, <2>2
<1> QED BY <1>1 DEF Suffixed, Names

LEMMA LocalIs ==
  ASSUME NEW rows \in [LocalIds -> LocalRow], NEW i \in LocalIds
  PROVE  /\ rows[i] \in LocalRow /\ rows[i].exists \in BOOLEAN
         /\ rows[i].tid \in RemoteIds \cup {None} /\ rows[i].name \in Names
         /\ rows[i].star \in BOOLEAN /\ rows[i].changed \in BOOLEAN
         /\ rows[i].deleted \in BOOLEAN
<1>1. PICK row \in LocalRow : row = rows[i]
  OBVIOUS
<1> QED BY <1>1 DEF LocalRow

LEMMA RemoteIs ==
  ASSUME NEW rows \in [RemoteIds -> RemoteRow], NEW r \in RemoteIds
  PROVE  /\ rows[r] \in RemoteRow /\ rows[r].exists \in BOOLEAN
         /\ rows[r].name \in Names /\ rows[r].star \in BOOLEAN
         /\ rows[r].changed \in BOOLEAN /\ rows[r].deleted \in BOOLEAN
<1>1. PICK row \in RemoteRow : row = rows[r]
  OBVIOUS
<1> QED BY <1>1 DEF RemoteRow

LEMMA NewRows ==
  /\ NoLocal \in LocalRow /\ NoRemote \in RemoteRow
  /\ NoLocal.exists = FALSE
  /\ \A n \in Names, star \in BOOLEAN :
       /\ Fresh(n, star) \in LocalRow
       /\ Fresh(n, star).exists = TRUE /\ Fresh(n, star).tid = None
       /\ Fresh(n, star).name = n /\ Fresh(n, star).star = star
       /\ Fresh(n, star).changed = TRUE /\ Fresh(n, star).deleted = FALSE
<1>1. NoName \in Names
  BY NameIs
<1>2. NoLocal \in LocalRow /\ NoRemote \in RemoteRow /\ NoLocal.exists = FALSE
  BY <1>1 DEF NoLocal, NoRemote, LocalRow, RemoteRow
<1>3. ASSUME NEW n \in Names, NEW star \in BOOLEAN
      PROVE  /\ Fresh(n, star) \in LocalRow
             /\ Fresh(n, star).exists = TRUE /\ Fresh(n, star).tid = None
             /\ Fresh(n, star).name = n /\ Fresh(n, star).star = star
             /\ Fresh(n, star).changed = TRUE /\ Fresh(n, star).deleted = FALSE
  BY DEF Fresh, LocalRow
<1> QED BY <1>2, <1>3

LEMMA WrittenLocal ==
  ASSUME NEW row \in LocalRow, NEW name \in Names, NEW star \in BOOLEAN
  PROVE  LET new == Written(row, name, star) IN
         /\ new \in LocalRow /\ new.exists = row.exists /\ new.tid = row.tid
         /\ new.name = name /\ new.star = star /\ new.deleted = row.deleted
         /\ row.changed => new.changed
<1>1. PICK c \in BOOLEAN : c = (row.changed \/ row.name # name \/ row.star # star)
  OBVIOUS
<1>2. PICK new : new = [row EXCEPT !.name = name, !.star = star, !.changed = c]
  OBVIOUS
<1>3. Written(row, name, star) = new
  BY <1>1, <1>2 DEF Written
<1>4. /\ new \in LocalRow /\ new.exists = row.exists /\ new.tid = row.tid
      /\ new.name = name /\ new.star = star /\ new.deleted = row.deleted
      /\ new.changed = c
  BY <1>2 DEF LocalRow
<1> QED BY <1>1, <1>3, <1>4

LEMMA WrittenRemote ==
  ASSUME NEW row \in RemoteRow, NEW name \in Names, NEW star \in BOOLEAN
  PROVE  LET new == Written(row, name, star) IN
         /\ new \in RemoteRow /\ new.exists = row.exists
         /\ new.name = name /\ new.star = star /\ new.deleted = row.deleted
         /\ row.changed => new.changed
         /\ row.name # name \/ row.star # star => new.changed
<1>1. PICK c \in BOOLEAN : c = (row.changed \/ row.name # name \/ row.star # star)
  OBVIOUS
<1>2. PICK new : new = [row EXCEPT !.name = name, !.star = star, !.changed = c]
  OBVIOUS
<1>3. Written(row, name, star) = new
  BY <1>1, <1>2 DEF Written
<1>4. /\ new \in RemoteRow /\ new.exists = row.exists
      /\ new.name = name /\ new.star = star /\ new.deleted = row.deleted
      /\ new.changed = c
  BY <1>2 DEF RemoteRow
<1> QED BY <1>1, <1>3, <1>4

-----------------------------------------------------------------------------
(* What the writes do to a row *)

LEMMA LocalSet ==
  ASSUME TypeOK, NEW i \in LocalIds, NEW row \in LocalRow, local' = [local EXCEPT ![i] = row]
  PROVE  /\ local' \in [LocalIds -> LocalRow] /\ local'[i] = row
         /\ \A j \in LocalIds : j # i => local'[j] = local[j]
         /\ row.exists => Locals' = Locals \cup {i}
         /\ ~row.exists => Locals' = Locals \ {i}
<1>1. local \in [LocalIds -> LocalRow]
  BY DEF TypeOK
<1>2. /\ local' \in [LocalIds -> LocalRow] /\ local'[i] = row
      /\ \A j \in LocalIds : j # i => local'[j] = local[j]
  BY <1>1
<1>3. row.exists => Locals' = Locals \cup {i}
  BY <1>2 DEF Locals
<1>4. ~row.exists => Locals' = Locals \ {i}
  BY <1>2 DEF Locals
<1> QED BY <1>2, <1>3, <1>4

LEMMA RemoteSet ==
  ASSUME TypeOK, NEW r \in RemoteIds, NEW row \in RemoteRow, row.exists,
         remote' = [remote EXCEPT ![r] = row]
  PROVE  /\ remote' \in [RemoteIds -> RemoteRow] /\ remote'[r] = row
         /\ \A q \in RemoteIds : q # r => remote'[q] = remote[q]
         /\ Remotes' = Remotes \cup {r}
<1>1. remote \in [RemoteIds -> RemoteRow]
  BY DEF TypeOK
<1>2. /\ remote' \in [RemoteIds -> RemoteRow] /\ remote'[r] = row
      /\ \A q \in RemoteIds : q # r => remote'[q] = remote[q]
  BY <1>1
<1>3. Remotes' = Remotes \cup {r}
  BY <1>2 DEF Remotes
<1> QED BY <1>2, <1>3

LEMMA RowsAre ==
  ASSUME TypeOK
  PROVE  /\ \A i \in LocalIds : /\ local[i] \in LocalRow /\ local[i].exists \in BOOLEAN
                                /\ local[i].tid \in RemoteIds \cup {None}
                                /\ local[i].name \in Names /\ local[i].star \in BOOLEAN
                                /\ local[i].changed \in BOOLEAN
                                /\ local[i].deleted \in BOOLEAN
         /\ \A r \in RemoteIds : /\ remote[r] \in RemoteRow /\ remote[r].exists \in BOOLEAN
                                 /\ remote[r].name \in Names /\ remote[r].star \in BOOLEAN
                                 /\ remote[r].changed \in BOOLEAN
                                 /\ remote[r].deleted \in BOOLEAN
<1>1. local \in [LocalIds -> LocalRow] /\ remote \in [RemoteIds -> RemoteRow]
  BY DEF TypeOK
<1> QED BY <1>1, LocalIs, RemoteIs

\* The user writes a keyword of the client: it keeps its tid and is marked.
LEMMA RewrittenIs ==
  ASSUME TypeOK, NEW i \in LocalIds,
         (\E n \in Names : Rename(i, n)) \/ Star(i) \/ Toggle(i)
  PROVE  \E row \in LocalRow :
           /\ local' = [local EXCEPT ![i] = row] /\ i \in Locals
           /\ row.exists /\ row.tid = local[i].tid /\ row.changed
           /\ row.name = local[i].name \/ LocalFree(row.name, i)
           /\ row.deleted = local[i].deleted \/ (Toggle(i) /\ row.deleted = ~local[i].deleted)
<1>0. /\ local \in [LocalIds -> LocalRow] /\ local[i] \in LocalRow
      /\ local[i].exists \in BOOLEAN /\ local[i].star \in BOOLEAN
      /\ local[i].deleted \in BOOLEAN /\ local[i].name \in Names
  BY RowsAre DEF TypeOK
<1>1. CASE \E n \in Names : Rename(i, n)
  <2>1. PICK n \in Names : Rename(i, n)
    BY <1>1
  <2>2. PICK row : row = [local[i] EXCEPT !.name = n, !.changed = TRUE]
    OBVIOUS
  <2>3. /\ row \in LocalRow /\ row.exists = local[i].exists /\ row.tid = local[i].tid
        /\ row.changed = TRUE /\ row.name = n /\ row.deleted = local[i].deleted
    BY <1>0, <2>2 DEF LocalRow
  <2>4. local' = [local EXCEPT ![i] = row]
    BY <1>0, <2>1, <2>2 DEF Rename
  <2>5. i \in Locals /\ LocalFree(n, i)
    BY <2>1 DEF Rename
  <2>6. row.exists
    BY <2>3, <2>5 DEF Locals
  <2> QED BY <2>3, <2>4, <2>5, <2>6
<1>2. CASE Star(i)
  <2>1. PICK s \in BOOLEAN : s = ~local[i].star
    OBVIOUS
  <2>2. PICK row : row = [local[i] EXCEPT !.star = s, !.changed = TRUE]
    OBVIOUS
  <2>3. /\ row \in LocalRow /\ row.exists = local[i].exists /\ row.tid = local[i].tid
        /\ row.changed = TRUE /\ row.name = local[i].name /\ row.deleted = local[i].deleted
    BY <1>0, <2>2 DEF LocalRow
  <2>4. local' = [local EXCEPT ![i] = row]
    BY <1>0, <1>2, <2>1, <2>2 DEF Star
  <2>5. i \in Locals
    BY <1>2 DEF Star
  <2>6. row.exists
    BY <2>3, <2>5 DEF Locals
  <2> QED BY <2>3, <2>4, <2>5, <2>6
<1>3. CASE Toggle(i)
  <2>1. PICK d \in BOOLEAN : d = ~local[i].deleted
    OBVIOUS
  <2>2. PICK row : row = [local[i] EXCEPT !.deleted = d, !.changed = TRUE]
    OBVIOUS
  <2>3. /\ row \in LocalRow /\ row.exists = local[i].exists /\ row.tid = local[i].tid
        /\ row.changed = TRUE /\ row.name = local[i].name /\ row.deleted = d
    BY <1>0, <2>2 DEF LocalRow
  <2>4. local' = [local EXCEPT ![i] = row]
    BY <1>0, <1>3, <2>1, <2>2 DEF Toggle
  <2>5. i \in Locals
    BY <1>3 DEF Toggle
  <2>6. row.exists
    BY <2>3, <2>5 DEF Locals
  <2>7. row.deleted = ~local[i].deleted
    BY <2>1, <2>3
  <2> QED BY <1>3, <2>3, <2>4, <2>5, <2>6, <2>7
<1> QED BY <1>1, <1>2, <1>3

\* The user makes a keyword.
LEMMA NewIs ==
  ASSUME TypeOK, NEW i \in LocalIds, NEW n \in Names,
         New(i, n) \/ \E t \in Tasks : TagNamed(t, i, n)
  PROVE  \/ local' = local /\ Locals' = Locals
         \/ \E star \in BOOLEAN :
              /\ local' = [local EXCEPT ![i] = Fresh(n, star)]
              /\ i \notin Locals /\ LocalFree(n, i) /\ NewFree
<1>1. CASE New(i, n)
  <2>1. i \notin Locals /\ LocalFree(n, i) /\ NewFree
    BY <1>1, NextIsNew DEF New
  <2>2. local' = [local EXCEPT ![i] = Fresh(n, FALSE)]
    BY <1>1 DEF New
  <2> QED BY <2>1, <2>2
<1>2. CASE \E t \in Tasks : TagNamed(t, i, n)
  <2>1. PICK t \in Tasks : TagNamed(t, i, n)
    BY <1>2
  <2>2. i \notin Locals
    BY <2>1, NextIsNew DEF TagNamed
  <2>3. \/ local' = local
        \/ Named(n) = {} /\ NewFree /\ local' = [local EXCEPT ![i] = Fresh(n, TRUE)]
    BY <2>1 DEF TagNamed
  <2>4. Named(n) = {} => LocalFree(n, i)
    BY DEF LocalFree
  <2>5. local' = local => Locals' = Locals
    BY DEF Locals
  <2> QED BY <2>2, <2>3, <2>4, <2>5
<1> QED BY <1>1, <1>2

\* Another client makes, writes or deletes a keyword of the server.
LEMMA OthersIs ==
  ASSUME TypeOK, NEW r \in RemoteIds,
         \/ \E n \in Names : RemoteNew(r, n)
         \/ \E n \in Names, star \in BOOLEAN : RemoteWrite(r, n, star)
         \/ RemoteDelete(r)
  PROVE  \E row \in RemoteRow :
           /\ remote' = [remote EXCEPT ![r] = row] /\ row.exists /\ row.changed
           /\ \/ RemoteFree(row.name, r)
              \/ r \in Remotes /\ row.name = remote[r].name
           /\ r \in Remotes => ~remote[r].deleted
           /\ \/ ~row.deleted /\ rtags' = rtags
              \/ row.deleted /\ RemoteDelete(r) /\ r \in Remotes
<1>0. /\ remote \in [RemoteIds -> RemoteRow] /\ remote[r] \in RemoteRow
      /\ remote[r].exists \in BOOLEAN /\ remote[r].name \in Names
  BY RowsAre DEF TypeOK
<1>1. ASSUME NEW n \in Names, RemoteNew(r, n)
      PROVE  \E row \in RemoteRow :
               /\ remote' = [remote EXCEPT ![r] = row] /\ row.exists /\ row.changed
               /\ RemoteFree(row.name, r) /\ r \notin Remotes /\ ~row.deleted
               /\ rtags' = rtags
  <2>1. PICK row : row = [NoRemote EXCEPT !.exists = TRUE, !.name = n, !.changed = TRUE]
    OBVIOUS
  <2>2. /\ row \in RemoteRow /\ row.exists = TRUE /\ row.changed = TRUE /\ row.name = n
        /\ row.deleted = FALSE
    BY <2>1, NewRows DEF NoRemote, RemoteRow
  <2>3. /\ remote' = [remote EXCEPT ![r] = row] /\ RemoteFree(n, r) /\ rtags' = rtags
        /\ r \notin Remotes
    BY <1>1, <2>1, NextIsNew DEF RemoteNew
  <2> QED BY <2>2, <2>3
<1>2. ASSUME NEW n \in Names, NEW star \in BOOLEAN, RemoteWrite(r, n, star)
      PROVE  \E row \in RemoteRow :
               /\ remote' = [remote EXCEPT ![r] = row] /\ row.exists /\ row.changed
               /\ RemoteFree(row.name, r) /\ ~remote[r].deleted /\ ~row.deleted
               /\ rtags' = rtags
  <2>1. PICK row : row = [remote[r] EXCEPT !.name = n, !.star = star, !.changed = TRUE]
    OBVIOUS
  <2>2. /\ row \in RemoteRow /\ row.exists = remote[r].exists /\ row.changed = TRUE
        /\ row.name = n /\ row.deleted = remote[r].deleted
    BY <1>0, <2>1 DEF RemoteRow
  <2>3. remote' = [remote EXCEPT ![r] = row]
    BY <1>0, <1>2, <2>1 DEF RemoteWrite
  <2>4. RemoteFree(n, r) /\ rtags' = rtags /\ r \in Remotes /\ ~remote[r].deleted
    BY <1>2 DEF RemoteWrite
  <2>5. row.exists
    BY <2>2, <2>4 DEF Remotes
  <2> QED BY <2>2, <2>3, <2>4, <2>5
<1>3. ASSUME RemoteDelete(r)
      PROVE  \E row \in RemoteRow :
               /\ remote' = [remote EXCEPT ![r] = row] /\ row.exists /\ row.changed
               /\ row.name = remote[r].name /\ ~remote[r].deleted /\ row.deleted
               /\ r \in Remotes
  <2>1. PICK row : row = [remote[r] EXCEPT !.deleted = TRUE, !.changed = TRUE]
    OBVIOUS
  <2>2. /\ row \in RemoteRow /\ row.exists = remote[r].exists /\ row.changed = TRUE
        /\ row.name = remote[r].name /\ row.deleted = TRUE
    BY <1>0, <2>1 DEF RemoteRow
  <2>3. remote' = [remote EXCEPT ![r] = row]
    BY <1>0, <1>3, <2>1 DEF RemoteDelete
  <2>4. r \in Remotes /\ ~remote[r].deleted
    BY <1>3 DEF RemoteDelete
  <2>5. row.exists
    BY <2>2, <2>4 DEF Remotes
  <2> QED BY <2>2, <2>3, <2>4, <2>5
<1> QED BY <1>1, <1>2, <1>3

\* What a keyword of the server becomes on the client.
LEMMA PullIs ==
  ASSUME TypeOK, NEW r \in RemoteIds, NEW i \in LocalIds, Pull(r, i), ~Refuse
  PROVE  /\ Applying /\ r \in todo.pulls
         /\ todo' = [todo EXCEPT !.pulls = @ \ {r}]
         /\ Silent /\ UNCHANGED <<tags, tagsChanged, server, half>>
         /\ \E row \in LocalRow :
              /\ local' = [local EXCEPT ![i] = row] /\ row.exists /\ row.tid = r
              /\ row.name = remote[r].name /\ row.star = remote[r].star
              /\ LocalFree(row.name, i)
              /\ \/ /\ i \in Copies(r) /\ row.deleted = local[i].deleted
                    /\ local[i].changed => row.changed
                 \/ /\ Copies(r) = {} /\ i \notin Locals
                    /\ row.changed /\ ~row.deleted
<1>1. /\ Applying /\ r \in todo.pulls
      /\ IF Copies(r) = {} THEN NextLocal(i) ELSE i \in Copies(r)
  BY DEF Pull
<1>2. /\ LocalFree(remote[r].name, i)
      /\ local' = [local EXCEPT ![i] =
             IF @.exists THEN Written(@, remote[r].name, remote[r].star)
             ELSE [Fresh(remote[r].name, remote[r].star) EXCEPT !.tid = r]]
      /\ todo' = [todo EXCEPT !.pulls = @ \ {r}]
      /\ Silent /\ UNCHANGED <<tags, tagsChanged, server, half>>
  BY DEF Pull
<1>3. PICK n \in Names, s \in BOOLEAN : n = remote[r].name /\ s = remote[r].star
  BY RowsAre
<1>4. local \in [LocalIds -> LocalRow] /\ local[i] \in LocalRow /\ local[i].exists \in BOOLEAN
  BY RowsAre DEF TypeOK
<1>5. CASE i \in Copies(r)
  <2>1. local[i].exists /\ local[i].tid = r
    BY <1>5 DEF Copies, Locals
  <2>2. PICK row : row = Written(local[i], n, s)
    OBVIOUS
  <2>3. /\ row \in LocalRow /\ row.exists = local[i].exists /\ row.tid = local[i].tid
        /\ row.name = n /\ row.star = s /\ row.deleted = local[i].deleted
        /\ local[i].changed => row.changed
    BY <1>3, <1>4, <2>2, WrittenLocal
  <2>4. local' = [local EXCEPT ![i] = row]
    BY <1>2, <1>3, <1>4, <2>1, <2>2
  <2> QED BY <1>1, <1>2, <1>3, <1>5, <2>1, <2>3, <2>4
<1>6. CASE i \notin Copies(r)
  <2>1. Copies(r) = {} /\ i \notin Locals
    BY <1>1, <1>6, NextIsNew
  <2>2. ~local[i].exists
    BY <2>1 DEF Locals
  <2>3. PICK new : new = Fresh(n, s)
    OBVIOUS
  <2>4. PICK row : row = [new EXCEPT !.tid = r]
    OBVIOUS
  <2>5. /\ new \in LocalRow /\ new.exists = TRUE /\ new.name = n /\ new.star = s
        /\ new.changed = TRUE /\ new.deleted = FALSE
    BY <1>3, <2>3, NewRows
  <2>6. /\ row \in LocalRow /\ row.exists = TRUE /\ row.tid = r /\ row.name = n /\ row.star = s
        /\ row.changed = TRUE /\ row.deleted = FALSE
    BY <2>4, <2>5 DEF LocalRow
  <2>7. local' = [local EXCEPT ![i] = row]
    BY <1>2, <1>3, <1>4, <2>2, <2>3, <2>4
  <2> QED BY <1>1, <1>2, <1>3, <2>1, <2>6, <2>7
<1> QED BY <1>5, <1>6

\* The name a keyword gets on the server, and that the server is then apart.
LEMMA PushNameIs ==
  ASSUME TypeOK, NEW i \in LocalIds, NEW r \in RemoteIds, Renamed(i, r)
  PROVE  /\ PushName(i) \in Names
         /\ \/ PushName(i) = local[i].name
            \/ PushName(i) = Suffixed(local[i].name) /\ r \in apart'
         /\ apart \subseteq apart' /\ apart' \in SUBSET RemoteIds
         /\ \A q \in apart' : q \in apart \/ q = r
<1>1. local[i].name \in Names /\ apart \in SUBSET RemoteIds
  BY RowsAre DEF TypeOK
<1>2. PushName(i) \in {local[i].name, Suffixed(local[i].name)}
  BY DEF PushName
<1>3. PushName(i) \in Names
  BY <1>1, <1>2, NameIs
<1>4. CASE PushName(i) = local[i].name
  <2>1. apart' = apart
    BY <1>4 DEF Renamed
  <2> QED BY <1>1, <1>3, <1>4, <2>1
<1>5. CASE PushName(i) # local[i].name
  <2>1. apart' = apart \cup {r}
    BY <1>5 DEF Renamed
  <2>2. apart' \in SUBSET RemoteIds
    <3>1. PICK S : S = RemoteIds
      OBVIOUS
    <3>2. apart \in SUBSET S /\ r \in S
      BY <1>1, <3>1
    <3> HIDE DEF RemoteIds
    <3> QED BY <2>1, <3>1, <3>2
  <2> QED BY <1>1, <1>2, <1>3, <1>5, <2>1, <2>2
<1> QED BY <1>4, <1>5

\* A keyword that is new to the server.
LEMMA PushNewIs ==
  ASSUME TypeOK, NEW i \in LocalIds, NEW r \in RemoteIds, PushNew(i, r), ~Refuse
  PROVE  /\ Pushing(i) /\ local[i].tid \notin Remotes /\ r \notin Remotes
         /\ RemoteFree(PushName(i), r) /\ Renamed(i, r) /\ Then("tid", i, r)
         /\ Silent /\ UNCHANGED <<client, rtags, rtagsChanged, todo>>
         /\ \E row \in RemoteRow :
              /\ remote' = [remote EXCEPT ![r] = row] /\ row.exists
              /\ row.name = PushName(i) /\ row.changed /\ ~row.deleted
<1>1. /\ Pushing(i) /\ local[i].tid \notin Remotes /\ r \notin Remotes
      /\ RemoteFree(PushName(i), r) /\ Renamed(i, r) /\ Then("tid", i, r)
      /\ Silent /\ UNCHANGED <<client, rtags, rtagsChanged, todo>>
  BY NextIsNew DEF PushNew
<1>2. remote' = [remote EXCEPT ![r] = [NoRemote EXCEPT
             !.exists = TRUE, !.name = PushName(i), !.changed = TRUE]]
  BY DEF PushNew
<1>3. PICK n \in Names : n = PushName(i)
  BY <1>1, PushNameIs
<1>4. PICK row : row = [NoRemote EXCEPT !.exists = TRUE, !.name = n, !.changed = TRUE]
  OBVIOUS
<1>5. /\ row \in RemoteRow /\ row.exists = TRUE /\ row.name = n /\ row.changed = TRUE
      /\ row.deleted = FALSE
  BY <1>4, NewRows DEF NoRemote, RemoteRow
<1>6. remote' = [remote EXCEPT ![r] = row]
  BY <1>2, <1>3, <1>4
<1> QED BY <1>1, <1>3, <1>5, <1>6

\* Its tid.
LEMMA PushTidIs ==
  ASSUME TypeOK, half.local \in LocalIds, half.remote \in RemoteIds, PushTid
  PROVE  \E row \in LocalRow :
           /\ local' = [local EXCEPT ![half.local] = row]
           /\ row.exists = local[half.local].exists /\ row.tid = half.remote
           /\ row.name = local[half.local].name /\ row.star = local[half.local].star
           /\ row.changed /\ row.deleted = local[half.local].deleted
<1>1. PICK i \in LocalIds, r \in RemoteIds : i = half.local /\ r = half.remote
  OBVIOUS
<1>2. local \in [LocalIds -> LocalRow] /\ local[i] \in LocalRow
  BY RowsAre DEF TypeOK
<1>3. PICK row : row = [local[i] EXCEPT !.tid = r, !.changed = TRUE]
  OBVIOUS
<1>4. /\ row \in LocalRow /\ row.exists = local[i].exists /\ row.tid = r
      /\ row.name = local[i].name /\ row.star = local[i].star
      /\ row.changed = TRUE /\ row.deleted = local[i].deleted
  BY <1>2, <1>3 DEF LocalRow
<1>5. local' = [local EXCEPT ![i] = row]
  BY <1>1, <1>2, <1>3 DEF PushTid, NewTid
<1> QED BY <1>1, <1>4, <1>5

\* A keyword that is on the server.
LEMMA PushUpdateIs ==
  ASSUME TypeOK, NEW i \in LocalIds, PushUpdate(i), ~Refuse
  PROVE  \E r \in RemoteIds :
         /\ Pushing(i) /\ r = local[i].tid /\ r \in Remotes \ todo.updated
         /\ RemoteFree(PushName(i), r) /\ Renamed(i, r) /\ Then("star", i, r)
         /\ Silent /\ UNCHANGED <<client, rtags, rtagsChanged, todo>>
         /\ \E row \in RemoteRow :
              /\ remote' = [remote EXCEPT ![r] = row] /\ row.exists
              /\ row.name = PushName(i) /\ row.deleted = remote[r].deleted
              /\ remote[r].changed => row.changed
              /\ row.changed \/ (row.name = remote[r].name /\ row.star = remote[r].star)
<1>1. PICK r : r = local[i].tid
  OBVIOUS
<1>2. /\ Pushing(i) /\ r \in Remotes \ todo.updated
      /\ RemoteFree(PushName(i), r) /\ Renamed(i, r) /\ Then("star", i, r)
      /\ Silent /\ UNCHANGED <<client, rtags, rtagsChanged, todo>>
      /\ remote' = [remote EXCEPT ![r] = Written(@, PushName(i), @.star)]
  BY <1>1 DEF PushUpdate
<1>3. r \in RemoteIds
  BY <1>2 DEF Remotes
<1>4. /\ remote \in [RemoteIds -> RemoteRow] /\ remote[r] \in RemoteRow
      /\ remote[r].star \in BOOLEAN /\ remote[r].changed \in BOOLEAN
  BY <1>3, RowsAre DEF TypeOK
<1>5. PICK n \in Names : n = PushName(i)
  BY <1>2, <1>3, PushNameIs
<1>6. PICK row : row = Written(remote[r], n, remote[r].star)
  OBVIOUS
<1>7. /\ row \in RemoteRow /\ row.exists = remote[r].exists
      /\ row.name = n /\ row.star = remote[r].star /\ row.deleted = remote[r].deleted
      /\ remote[r].changed => row.changed
      /\ remote[r].name # n => row.changed
  BY <1>4, <1>5, <1>6, WrittenRemote
<1>8. remote' = [remote EXCEPT ![r] = row]
  BY <1>2, <1>3, <1>4, <1>5, <1>6
<1>9. row.exists
  BY <1>2, <1>7 DEF Remotes
<1> QED BY <1>1, <1>2, <1>3, <1>5, <1>7, <1>8, <1>9

LEMMA PushStarIs ==
  ASSUME TypeOK, half.local \in LocalIds, half.remote \in RemoteIds, PushStar
  PROVE  \E row \in RemoteRow :
           /\ remote' = [remote EXCEPT ![half.remote] = row]
           /\ row.exists = remote[half.remote].exists
           /\ row.name = remote[half.remote].name /\ row.star = local[half.local].star
           /\ row.deleted = remote[half.remote].deleted
           /\ remote[half.remote].changed => row.changed
           /\ row.changed \/ row.star = remote[half.remote].star
<1>1. PICK i \in LocalIds, r \in RemoteIds : i = half.local /\ r = half.remote
  OBVIOUS
<1>2. /\ remote \in [RemoteIds -> RemoteRow] /\ remote[r] \in RemoteRow
      /\ remote[r].name \in Names /\ remote[r].star \in BOOLEAN
  BY RowsAre DEF TypeOK
<1>3. PICK s \in BOOLEAN : s = local[i].star
  BY RowsAre
<1>4. PICK row : row = Written(remote[r], remote[r].name, s)
  OBVIOUS
<1>5. /\ row \in RemoteRow /\ row.exists = remote[r].exists
      /\ row.name = remote[r].name /\ row.star = s /\ row.deleted = remote[r].deleted
      /\ remote[r].changed => row.changed
      /\ remote[r].star # s => row.changed
  BY <1>2, <1>3, <1>4, WrittenRemote
<1>6. remote' = [remote EXCEPT ![r] = row]
  BY <1>1, <1>2, <1>3, <1>4 DEF PushStar
<1> QED BY <1>1, <1>3, <1>5, <1>6

LEMMA MarkIs ==
  ASSUME TypeOK, half.remote \in RemoteIds, Mark
  PROVE  \E row \in RemoteRow :
           /\ remote' = [remote EXCEPT ![half.remote] = row]
           /\ row.exists = remote[half.remote].exists
           /\ row.name = remote[half.remote].name
           /\ row.deleted
           /\ remote[half.remote].changed \/ ~remote[half.remote].deleted => row.changed
<1>1. PICK r \in RemoteIds : r = half.remote
  OBVIOUS
<1>2. /\ remote \in [RemoteIds -> RemoteRow] /\ remote[r] \in RemoteRow
  BY RowsAre DEF TypeOK
<1>3. PICK c \in BOOLEAN : c = (remote[r].changed \/ ~remote[r].deleted)
  OBVIOUS
<1>4. PICK row : row = [remote[r] EXCEPT !.changed = c, !.deleted = TRUE]
  OBVIOUS
<1>5. /\ row \in RemoteRow /\ row.exists = remote[r].exists
      /\ row.name = remote[r].name /\ row.deleted = TRUE /\ row.changed = c
  BY <1>2, <1>4 DEF RemoteRow
<1>6. remote' = [remote EXCEPT ![r] = row]
  BY <1>1, <1>2, <1>3, <1>4 DEF Mark
<1> QED BY <1>1, <1>3, <1>5, <1>6

\* After a sync nothing is marked, and nothing else has changed.
LEMMA FinishIs ==
  ASSUME TypeOK, Finish
  PROVE  /\ local' \in [LocalIds -> LocalRow] /\ remote' \in [RemoteIds -> RemoteRow]
         /\ \A i \in LocalIds :
              /\ local'[i].exists = local[i].exists /\ local'[i].tid = local[i].tid
              /\ local'[i].name = local[i].name /\ local'[i].star = local[i].star
              /\ local'[i].deleted = local[i].deleted /\ ~local'[i].changed
         /\ \A r \in RemoteIds :
              /\ remote'[r].exists = remote[r].exists /\ remote'[r].name = remote[r].name
              /\ remote'[r].star = remote[r].star
              /\ remote'[r].deleted = remote[r].deleted /\ ~remote'[r].changed
         /\ Locals' = Locals /\ Remotes' = Remotes
<1>1. /\ local' = [i \in LocalIds |-> [local[i] EXCEPT !.changed = FALSE]]
      /\ remote' = [r \in RemoteIds |-> [remote[r] EXCEPT !.changed = FALSE]]
  BY DEF Finish
<1>2. ASSUME NEW i \in LocalIds
      PROVE  /\ local'[i] \in LocalRow
             /\ local'[i].exists = local[i].exists /\ local'[i].tid = local[i].tid
             /\ local'[i].name = local[i].name /\ local'[i].star = local[i].star
             /\ local'[i].deleted = local[i].deleted /\ local'[i].changed = FALSE
  <2>1. PICK row \in LocalRow : row = local[i]
    BY RowsAre
  <2>2. local'[i] = [row EXCEPT !.changed = FALSE]
    BY <1>1, <2>1
  <2> QED BY <2>1, <2>2 DEF LocalRow
<1>3. ASSUME NEW r \in RemoteIds
      PROVE  /\ remote'[r] \in RemoteRow
             /\ remote'[r].exists = remote[r].exists /\ remote'[r].name = remote[r].name
             /\ remote'[r].star = remote[r].star
             /\ remote'[r].deleted = remote[r].deleted /\ remote'[r].changed = FALSE
  <2>1. PICK row \in RemoteRow : row = remote[r]
    BY RowsAre
  <2>2. remote'[r] = [row EXCEPT !.changed = FALSE]
    BY <1>1, <2>1
  <2> QED BY <2>1, <2>2 DEF RemoteRow
<1>4. local' \in [LocalIds -> LocalRow]
  BY <1>1, <1>2
<1>5. remote' \in [RemoteIds -> RemoteRow]
  BY <1>1, <1>3
<1>6. Locals' = Locals
  BY <1>2 DEF Locals
<1>7. Remotes' = Remotes
  BY <1>3 DEF Remotes
<1> QED BY <1>2, <1>3, <1>4, <1>5, <1>6, <1>7

-----------------------------------------------------------------------------
(* Types *)

\* What the row is that a sync has written one half of, and that there is none, and
\* nothing to do, between syncs.
HalfOK ==
  /\ half.op \in {"tid", "star", "dropTags", "drop", "eraseThere", "mark"} =>
       half.local \in LocalIds /\ half.remote \in RemoteIds
  /\ half.op = "eraseLocal" => half.local \in LocalIds
  /\ half.op \in {"pullTags", "pushTags"} => half.local \in Tasks
  /\ pc = "idle" => half = Whole /\ todo = Nothing

TypeInv == TypeOK /\ HalfOK

ClientOK == /\ local \in [LocalIds -> LocalRow]
            /\ tags \in [Tasks -> SUBSET LocalIds] /\ tagsChanged \subseteq Tasks
ServerOK == /\ remote \in [RemoteIds -> RemoteRow]
            /\ rtags \in [Tasks -> SUBSET RemoteIds] /\ rtagsChanged \subseteq Tasks
            /\ apart \subseteq RemoteIds
BoundsOK == clash \in BOOLEAN /\ edits \in 0..MaxEdits /\ cuts \in 0..MaxCuts
ControlOK ==
  /\ pc \in {"idle", "apply"} /\ broken \in BOOLEAN
  /\ half.op \in {"none", "tid", "star", "pullTags", "pushTags", "dropTags", "drop",
                  "eraseThere", "mark", "eraseLocal"}
  /\ half.local \in LocalIds \cup Tasks \cup {None}
  /\ half.remote \in RemoteIds \cup {None}
  /\ todo \in Lists
  /\ HalfOK

LEMMA TypeParts == TypeInv <=> ClientOK /\ ServerOK /\ BoundsOK /\ ControlOK
BY Zenon DEF TypeInv, TypeOK, ClientOK, ServerOK, BoundsOK, ControlOK

LEMMA TypePartsNext == ClientOK' /\ ServerOK' /\ BoundsOK' /\ ControlOK' => TypeInv'
BY Zenon DEF TypeInv, TypeOK, ClientOK, ServerOK, BoundsOK, ControlOK

LEMMA SameParts ==
  /\ ClientOK /\ UNCHANGED client => ClientOK'
  /\ ServerOK /\ UNCHANGED server => ServerOK'
  /\ BoundsOK /\ UNCHANGED <<clash, bounds>> => BoundsOK'
  /\ ControlOK /\ UNCHANGED <<pc, broken, half, todo>> => ControlOK'
<1>1. ClientOK /\ UNCHANGED client => ClientOK'
  BY DEF ClientOK, client
<1>2. ServerOK /\ UNCHANGED server => ServerOK'
  BY DEF ServerOK, server
<1>3. BoundsOK /\ UNCHANGED <<clash, bounds>> => BoundsOK'
  BY DEF BoundsOK, bounds
<1>4. ControlOK /\ UNCHANGED <<pc, broken, half, todo>> => ControlOK'
  BY DEF ControlOK, HalfOK
<1> QED BY <1>1, <1>2, <1>3, <1>4

LEMMA NothingIs ==
  /\ Nothing \in Lists /\ Nothing.updated = {} /\ Nothing.pulls = {} /\ Nothing.pushes = {}
  /\ Nothing.drops = {} /\ Nothing.erases = {} /\ Nothing.taskUpdated = {}
  /\ Nothing.taskPulls = {} /\ Nothing.taskPushes = {}
BY DEF Nothing, Lists

\* One thing less to do.
LEMMA LessTodo ==
  ASSUME todo \in Lists, NEW x
  PROVE  /\ todo' = [todo EXCEPT !.pulls = @ \ {x}] =>
              /\ todo' \in Lists /\ todo'.pulls = todo.pulls \ {x}
              /\ todo'.updated = todo.updated /\ todo'.pushes = todo.pushes
              /\ todo'.drops = todo.drops /\ todo'.erases = todo.erases
              /\ todo'.taskUpdated = todo.taskUpdated /\ todo'.taskPulls = todo.taskPulls
              /\ todo'.taskPushes = todo.taskPushes
         /\ todo' = [todo EXCEPT !.pushes = @ \ {x}] =>
              /\ todo' \in Lists /\ todo'.pushes = todo.pushes \ {x}
              /\ todo'.updated = todo.updated /\ todo'.pulls = todo.pulls
              /\ todo'.drops = todo.drops /\ todo'.erases = todo.erases
              /\ todo'.taskUpdated = todo.taskUpdated /\ todo'.taskPulls = todo.taskPulls
              /\ todo'.taskPushes = todo.taskPushes
         /\ todo' = [todo EXCEPT !.drops = @ \ {x}] =>
              /\ todo' \in Lists /\ todo'.drops = todo.drops \ {x}
              /\ todo'.updated = todo.updated /\ todo'.pulls = todo.pulls
              /\ todo'.pushes = todo.pushes /\ todo'.erases = todo.erases
              /\ todo'.taskUpdated = todo.taskUpdated /\ todo'.taskPulls = todo.taskPulls
              /\ todo'.taskPushes = todo.taskPushes
         /\ todo' = [todo EXCEPT !.erases = @ \ {x}] =>
              /\ todo' \in Lists /\ todo'.erases = todo.erases \ {x}
              /\ todo'.updated = todo.updated /\ todo'.pulls = todo.pulls
              /\ todo'.pushes = todo.pushes /\ todo'.drops = todo.drops
              /\ todo'.taskUpdated = todo.taskUpdated /\ todo'.taskPulls = todo.taskPulls
              /\ todo'.taskPushes = todo.taskPushes
         /\ todo' = [todo EXCEPT !.taskPulls = @ \ {x}] =>
              /\ todo' \in Lists /\ todo'.taskPulls = todo.taskPulls \ {x}
              /\ todo'.updated = todo.updated /\ todo'.pulls = todo.pulls
              /\ todo'.pushes = todo.pushes /\ todo'.drops = todo.drops
              /\ todo'.erases = todo.erases /\ todo'.taskUpdated = todo.taskUpdated
              /\ todo'.taskPushes = todo.taskPushes
         /\ todo' = [todo EXCEPT !.taskPushes = @ \ {x}] =>
              /\ todo' \in Lists /\ todo'.taskPushes = todo.taskPushes \ {x}
              /\ todo'.updated = todo.updated /\ todo'.pulls = todo.pulls
              /\ todo'.pushes = todo.pushes /\ todo'.drops = todo.drops
              /\ todo'.erases = todo.erases /\ todo'.taskUpdated = todo.taskUpdated
              /\ todo'.taskPulls = todo.taskPulls
BY DEF Lists

LEMMA ThenIs ==
  ASSUME NEW op, NEW l, NEW r, Then(op, l, r)
  PROVE  half'.op = op /\ half'.local = l /\ half'.remote = r
BY DEF Then

LEMMA WholeIs == Whole.op = "none" /\ Whole.local = None /\ Whole.remote = None
BY DEF Whole

\* A sync stops, for whatever reason.
LEMMA GiveUpTypes == ASSUME TypeInv, GiveUp, Refuse \/ CutShort PROVE TypeInv'
<1>1. ClientOK' /\ ServerOK'
  BY TypeParts, SameParts DEF GiveUp
<1>2. BoundsOK'
  <2>1. clash \in BOOLEAN /\ edits \in 0..MaxEdits /\ cuts \in 0..MaxCuts
    BY TypeParts DEF BoundsOK
  <2>2. clash' = clash /\ edits' = edits
    BY DEF GiveUp
  <2>3. cuts' = cuts \/ (cuts < MaxCuts /\ cuts' = cuts + 1)
    BY DEF Refuse, CutShort
  <2>4. cuts' \in 0..MaxCuts
    BY <2>1, <2>3
  <2> QED BY <2>1, <2>2, <2>4 DEF BoundsOK
<1>3. ControlOK'
  <2>1. pc' = "idle" /\ broken' = TRUE /\ half' = Whole /\ todo' = Nothing
    BY DEF GiveUp
  <2>2. /\ half'.op = "none" /\ half'.local = None /\ half'.remote = None
        /\ todo' \in Lists
    BY <2>1, NothingIs, WholeIs
  <2>3. HalfOK'
    BY <2>1, <2>2 DEF HalfOK
  <2>4. half'.local \in LocalIds \cup Tasks \cup {None} /\ half'.remote \in RemoteIds \cup {None}
    BY <2>2
  <2>5. /\ pc' \in {"idle", "apply"} /\ broken' \in BOOLEAN
        /\ half'.op \in {"none", "tid", "star", "pullTags", "pushTags", "dropTags", "drop",
                         "eraseThere", "mark", "eraseLocal"}
    BY <2>1, <2>2
  <2> QED BY <2>2, <2>3, <2>4, <2>5 DEF ControlOK
<1> QED BY <1>1, <1>2, <1>3, TypePartsNext

LEMMA EditTypes ==
  ASSUME TypeInv, Edit, UNCHANGED <<clash, cuts, control, todo>>
  PROVE  BoundsOK' /\ ControlOK'
<1>1. edits \in 0..MaxEdits /\ edits < MaxEdits /\ edits' = edits + 1
  BY TypeParts DEF BoundsOK, Edit
<1>2. edits' \in 0..MaxEdits
  BY <1>1
<1>3. BoundsOK'
  BY <1>2, TypeParts DEF BoundsOK
<1>4. ControlOK'
  BY TypeParts, SameParts DEF control
<1> QED BY <1>3, <1>4

\* The user's writes.
LEMMA UserTypes ==
  ASSUME TypeInv, UserEdit, NEW i \in LocalIds, NEW n \in Names,
         \/ Rename(i, n) \/ Star(i) \/ Toggle(i) \/ New(i, n)
         \/ \E t \in Tasks : Tag(t, i) \/ TagNamed(t, i, n) \/ UntagAll(t)
  PROVE  TypeInv'
<1>1. BoundsOK' /\ ControlOK'
  BY EditTypes DEF UserEdit
<1>2. ClientOK /\ ServerOK /\ TypeOK
  BY TypeParts DEF TypeInv
<1>3. local' \in [LocalIds -> LocalRow]
  <2>1. CASE Rename(i, n) \/ Star(i) \/ Toggle(i)
    <3>1. PICK row \in LocalRow : local' = [local EXCEPT ![i] = row]
      BY <1>2, <2>1, RewrittenIs
    <3> QED BY <1>2, <3>1, LocalSet
  <2>2. CASE New(i, n) \/ \E t \in Tasks : TagNamed(t, i, n)
    <3>1. CASE local' = local
      BY <1>2, <3>1 DEF ClientOK
    <3>2. CASE \E star \in BOOLEAN : local' = [local EXCEPT ![i] = Fresh(n, star)]
      <4>1. PICK star \in BOOLEAN : local' = [local EXCEPT ![i] = Fresh(n, star)]
        BY <3>2
      <4>2. PICK row \in LocalRow : row = Fresh(n, star)
        BY NewRows
      <4> QED BY <1>2, <4>1, <4>2, LocalSet
    <3> QED BY <1>2, <2>2, <3>1, <3>2, NewIs
  <2>3. CASE \E t \in Tasks : Tag(t, i) \/ UntagAll(t)
    BY <1>2, <2>3 DEF Tag, UntagAll, ClientOK
  <2> QED BY <2>1, <2>2, <2>3
<1>4. tags' \in [Tasks -> SUBSET LocalIds] /\ tagsChanged' \subseteq Tasks
  <2>0. tags \in [Tasks -> SUBSET LocalIds] /\ tagsChanged \subseteq Tasks
    BY <1>2 DEF ClientOK
  <2>1. CASE UNCHANGED <<tags, tagsChanged>>
    BY <2>0, <2>1
  <2>2. Rename(i, n) \/ Star(i) \/ Toggle(i) \/ New(i, n) => UNCHANGED <<tags, tagsChanged>>
    BY DEF Rename, Star, Toggle, New
  <2>3. ASSUME NEW t \in Tasks, Tag(t, i) \/ TagNamed(t, i, n) \/ UntagAll(t)
        PROVE  tags' \in [Tasks -> SUBSET LocalIds] /\ tagsChanged' \subseteq Tasks
    <3>1. CASE tagsChanged' = tagsChanged \cup {t} /\ \E S \in SUBSET LocalIds : tags' = [tags EXCEPT ![t] = S]
      BY <2>0, <3>1
    <3>2. PICK S \in SUBSET LocalIds : S = tags[t]
      BY <2>0
    <3>3. Tag(t, i) => tagsChanged' = tagsChanged \cup {t} /\ tags' = [tags EXCEPT ![t] = S \cup {i}]
      BY <3>2 DEF Tag
    <3>4. UntagAll(t) => tagsChanged' = tagsChanged \cup {t} /\ tags' = [tags EXCEPT ![t] = {}]
      BY DEF UntagAll
    <3>5. PICK U \in SUBSET LocalIds :
            U = {j \in LocalIds : local'[j].exists /\ local'[j].name = n}
      OBVIOUS
    <3>6. TagNamed(t, i, n) =>
            tagsChanged' = tagsChanged \cup {t} /\ tags' = [tags EXCEPT ![t] = S \cup U]
      BY <3>2, <3>5 DEF TagNamed
    <3>7. S \cup {i} \in SUBSET LocalIds /\ S \cup U \in SUBSET LocalIds /\ {} \in SUBSET LocalIds
      <4> HIDE DEF LocalIds
      <4> QED BY <3>2, <3>5
    <3> QED BY <2>3, <3>1, <3>3, <3>4, <3>6, <3>7
  <2> QED BY <2>1, <2>2, <2>3
<1>5. ServerOK'
  <2>1. UNCHANGED <<remote, rtags, rtagsChanged>>
    BY DEF UserEdit
  <2>2. CASE apart' = apart
    BY <1>2, <2>1, <2>2 DEF ServerOK
  <2>3. CASE apart' = apart \cup {local[i].tid} /\ local[i].tid # None
    <3>1. PICK r : r = local[i].tid
      OBVIOUS
    <3>2. r \in RemoteIds /\ apart \in SUBSET RemoteIds
      BY <1>2, <2>3, <3>1, RowsAre DEF ServerOK
    <3>3. apart' \subseteq RemoteIds
      <4> HIDE DEF RemoteIds
      <4> QED BY <2>3, <3>1, <3>2
    <3> QED BY <1>2, <2>1, <3>3 DEF ServerOK
  <2>4. CASE Toggle(i)
    <3>1. \/ apart' = apart
          \/ apart' = apart \cup {local[i].tid} /\ local[i].tid # None
      BY <2>4 DEF Toggle
    <3> QED BY <2>2, <2>3, <3>1
  <2>5. (\/ Rename(i, n) \/ Star(i) \/ New(i, n)
         \/ \E t \in Tasks : Tag(t, i) \/ TagNamed(t, i, n) \/ UntagAll(t)) => apart' = apart
    BY DEF Rename, Star, New, Tag, TagNamed, UntagAll
  <2> QED BY <2>2, <2>4, <2>5
<1> QED BY <1>1, <1>3, <1>4, <1>5, TypePartsNext DEF ClientOK

\* The other clients' writes.
LEMMA OthersTypes ==
  ASSUME TypeInv, OthersEdit, NEW r \in RemoteIds, NEW n \in Names, NEW star \in BOOLEAN,
         \/ RemoteNew(r, n) \/ RemoteWrite(r, n, star) \/ RemoteDelete(r)
         \/ \E t \in Tasks, S \in SUBSET RemoteIds : RemoteTag(t, S)
  PROVE  TypeInv'
<1>1. BoundsOK' /\ ControlOK'
  BY EditTypes DEF OthersEdit
<1>2. ClientOK /\ ServerOK /\ TypeOK
  BY TypeParts DEF TypeInv
<1>3. ClientOK'
  BY <1>2, SameParts DEF OthersEdit
<1>4. remote' \in [RemoteIds -> RemoteRow]
  <2>1. CASE RemoteNew(r, n) \/ RemoteWrite(r, n, star) \/ RemoteDelete(r)
    <3>1. PICK row \in RemoteRow : remote' = [remote EXCEPT ![r] = row] /\ row.exists
      BY <1>2, <2>1, OthersIs
    <3> QED BY <1>2, <3>1, RemoteSet
  <2>2. CASE \E t \in Tasks, S \in SUBSET RemoteIds : RemoteTag(t, S)
    BY <1>2, <2>2 DEF RemoteTag, ServerOK
  <2> QED BY <2>1, <2>2
<1>5. rtags' \in [Tasks -> SUBSET RemoteIds] /\ rtagsChanged' \subseteq Tasks
  <2>0. rtags \in [Tasks -> SUBSET RemoteIds] /\ rtagsChanged \subseteq Tasks
    BY <1>2 DEF ServerOK
  <2>1. CASE RemoteNew(r, n) \/ RemoteWrite(r, n, star)
    BY <2>0, <2>1 DEF RemoteNew, RemoteWrite
  <2>2. CASE RemoteDelete(r)
    BY <2>0, <2>2 DEF RemoteDelete, RUntagged
  <2>3. CASE \E t \in Tasks, S \in SUBSET RemoteIds : RemoteTag(t, S)
    BY <2>0, <2>3 DEF RemoteTag
  <2> QED BY <2>1, <2>2, <2>3
<1>6. apart' \subseteq RemoteIds
  BY <1>2 DEF ServerOK, OthersEdit
<1> QED BY <1>1, <1>3, <1>4, <1>5, <1>6, TypePartsNext DEF ServerOK

LEMMA ControlIs ==
  ASSUME ControlOK, Silent, pc = "apply", todo' \in Lists,
         \/ half' = half
         \/ half' = Whole
         \/ \E op \in {"tid", "star", "dropTags", "drop", "eraseThere", "mark"},
               l \in LocalIds, r \in RemoteIds : Then(op, l, r)
         \/ \E l \in LocalIds : Then("eraseLocal", l, None)
         \/ \E op \in {"pullTags", "pushTags"}, t \in Tasks : Then(op, t, None)
  PROVE  ControlOK'
<1>1. pc' = "apply" /\ broken' \in BOOLEAN
  BY DEF Silent, ControlOK
<1>2. CASE half' = half
  BY <1>1, <1>2 DEF ControlOK, HalfOK
<1>3. CASE half' = Whole
  <2>1. half'.op = "none" /\ half'.local = None /\ half'.remote = None
    BY <1>3, WholeIs
  <2> QED BY <1>1, <2>1 DEF ControlOK, HalfOK
<1>4. CASE \E op \in {"tid", "star", "dropTags", "drop", "eraseThere", "mark"},
               l \in LocalIds, r \in RemoteIds : Then(op, l, r)
  <2>1. PICK op \in {"tid", "star", "dropTags", "drop", "eraseThere", "mark"},
               l \in LocalIds, r \in RemoteIds : Then(op, l, r)
    BY <1>4
  <2>2. half'.op = op /\ half'.local = l /\ half'.remote = r
    BY <2>1, ThenIs
  <2> QED BY <1>1, <2>2 DEF ControlOK, HalfOK
<1>5. CASE \E l \in LocalIds : Then("eraseLocal", l, None)
  <2>1. PICK l \in LocalIds : Then("eraseLocal", l, None)
    BY <1>5
  <2>2. half'.op = "eraseLocal" /\ half'.local = l /\ half'.remote = None
    BY <2>1, ThenIs
  <2> QED BY <1>1, <2>2 DEF ControlOK, HalfOK
<1>6. CASE \E op \in {"pullTags", "pushTags"}, t \in Tasks : Then(op, t, None)
  <2>1. PICK op \in {"pullTags", "pushTags"}, t \in Tasks : Then(op, t, None)
    BY <1>6
  <2>2. half'.op = op /\ half'.local = t /\ half'.remote = None
    BY <2>1, ThenIs
  <2> QED BY <1>1, <2>2 DEF ControlOK, HalfOK
<1> QED BY <1>2, <1>3, <1>4, <1>5, <1>6

LEMMA BeginTypes == ASSUME TypeInv, Begin PROVE TypeInv'
<1>1. ClientOK' /\ ServerOK'
  BY TypeParts, SameParts DEF Begin
<1>2. BoundsOK'
  <2>1. clash' \in BOOLEAN
    BY Zenon DEF Begin, Clashing
  <2> QED BY <2>1, TypeParts DEF Begin, BoundsOK, bounds
<1>3. todo' \in Lists
  <2>1. tagsChanged \in SUBSET Tasks /\ rtagsChanged \in SUBSET Tasks
    BY TypeParts DEF ClientOK, ServerOK
  <2>2. Locals \in SUBSET LocalIds /\ Remotes \in SUBSET RemoteIds
    BY DEF Locals, Remotes
  <2> HIDE DEF LocalIds, RemoteIds
  <2>3. /\ todo'.updated \in SUBSET RemoteIds /\ todo'.pulls \in SUBSET RemoteIds
        /\ todo'.pushes \in SUBSET LocalIds /\ todo'.drops \in SUBSET RemoteIds
        /\ todo'.erases \in SUBSET LocalIds
    BY <2>2 DEF Begin
  <2>4. /\ todo'.taskUpdated = rtagsChanged /\ todo'.taskPulls = rtagsChanged
        /\ todo'.taskPushes = tagsChanged
    BY DEF Begin
  <2>5. todo' = [updated |-> todo'.updated, pulls |-> todo'.pulls, pushes |-> todo'.pushes,
                 drops |-> todo'.drops, erases |-> todo'.erases,
                 taskUpdated |-> todo'.taskUpdated, taskPulls |-> todo'.taskPulls,
                 taskPushes |-> todo'.taskPushes]
    BY DEF Begin
  <2> QED BY <2>1, <2>3, <2>4, <2>5 DEF Lists
<1>4. ControlOK'
  <2>1. pc' = "apply" /\ broken' = broken /\ half' = half /\ pc = "idle"
    BY DEF Begin
  <2>2. half.op = "none" /\ half.local = None /\ half.remote = None
    BY <2>1, TypeParts, WholeIs DEF ControlOK, HalfOK
  <2> QED BY <1>3, <2>1, <2>2, TypeParts DEF ControlOK, HalfOK
<1> QED BY <1>1, <1>2, <1>4, TypePartsNext

\* The keywords the server has changed, and those the client has.
LEMMA PullTypes ==
  ASSUME TypeInv, NEW r \in RemoteIds, NEW i \in LocalIds, Pull(r, i), ~Refuse
  PROVE  TypeInv'
<1>1. ClientOK /\ ServerOK /\ BoundsOK /\ ControlOK /\ TypeOK
  BY TypeParts DEF TypeInv
<1>2. /\ Applying /\ todo' = [todo EXCEPT !.pulls = @ \ {r}]
      /\ Silent /\ UNCHANGED <<tags, tagsChanged, server, half>>
  BY <1>1, PullIs
<1>3. PICK row \in LocalRow : local' = [local EXCEPT ![i] = row]
  BY <1>1, PullIs
<1>4. ClientOK'
  BY <1>1, <1>2, <1>3, LocalSet DEF ClientOK
<1>5. ServerOK' /\ BoundsOK'
  BY <1>1, <1>2, SameParts DEF Silent
<1>6. todo' \in Lists
  BY <1>1, <1>2, LessTodo DEF ControlOK
<1>7. ControlOK'
  BY <1>1, <1>2, <1>6, ControlIs DEF Applying
<1> QED BY <1>4, <1>5, <1>7, TypePartsNext

LEMMA PushTypes ==
  ASSUME TypeInv, NEW i \in LocalIds, NEW r \in RemoteIds,
         PushNew(i, r) \/ PushUpdate(i), ~Refuse
  PROVE  TypeInv'
<1>1. ClientOK /\ ServerOK /\ BoundsOK /\ ControlOK /\ TypeOK
  BY TypeParts DEF TypeInv
<1>2. PICK q \in RemoteIds, op \in {"tid", "star"}, row \in RemoteRow :
        /\ Pushing(i) /\ Renamed(i, q) /\ Then(op, i, q) /\ Silent
        /\ UNCHANGED <<client, rtags, rtagsChanged, todo>>
        /\ remote' = [remote EXCEPT ![q] = row] /\ row.exists
  BY <1>1, PushNewIs, PushUpdateIs
<1>3. ClientOK' /\ BoundsOK'
  BY <1>1, <1>2, SameParts DEF Silent
<1>4. remote' \in [RemoteIds -> RemoteRow]
  BY <1>1, <1>2, RemoteSet
<1>5. apart' \in SUBSET RemoteIds
  BY <1>1, <1>2, PushNameIs
<1>6. ServerOK'
  BY <1>1, <1>2, <1>4, <1>5 DEF ServerOK
<1>7. todo' \in Lists /\ pc = "apply"
  BY <1>1, <1>2 DEF ControlOK, Pushing, Applying
<1>8. ControlOK'
  BY <1>1, <1>2, <1>7, ControlIs
<1> QED BY <1>3, <1>6, <1>8, TypePartsNext

LEMMA PushedTypes ==
  ASSUME TypeInv, PushTid \/ PushStar \/ \E i \in LocalIds : PushSkip(i)
  PROVE  TypeInv'
<1>1. ClientOK /\ ServerOK /\ BoundsOK /\ ControlOK /\ TypeOK /\ HalfOK
  BY TypeParts DEF TypeInv
<1>2. CASE PushTid
  <2>1. half.local \in LocalIds /\ half.remote \in RemoteIds
    BY <1>1, <1>2 DEF PushTid, After, HalfOK
  <2>2. PICK row \in LocalRow : local' = [local EXCEPT ![half.local] = row]
    BY <1>1, <1>2, <2>1, PushTidIs
  <2>3. ClientOK'
    BY <1>1, <1>2, <2>1, <2>2, LocalSet DEF ClientOK, PushTid
  <2>4. ServerOK' /\ BoundsOK'
    BY <1>1, <1>2, SameParts DEF PushTid, Silent
  <2>5. pc = "apply" /\ todo' \in Lists /\ Silent /\ Then("star", half.local, half.remote)
    BY <1>1, <1>2 DEF ControlOK, PushTid, After
  <2>6. ControlOK'
    BY <1>1, <2>1, <2>5, ControlIs
  <2> QED BY <2>3, <2>4, <2>6, TypePartsNext
<1>3. CASE PushStar
  <2>1. half.local \in LocalIds /\ half.remote \in RemoteIds
    BY <1>1, <1>3 DEF PushStar, After, HalfOK
  <2>2. PICK row \in RemoteRow : remote' = [remote EXCEPT ![half.remote] = row]
    BY <1>1, <1>3, <2>1, PushStarIs
  <2>3. remote' \in [RemoteIds -> RemoteRow]
    BY <1>1, <2>1, <2>2 DEF ServerOK
  <2>4. ServerOK'
    BY <1>1, <1>3, <2>3 DEF ServerOK, PushStar
  <2>5. ClientOK' /\ BoundsOK'
    BY <1>1, <1>3, SameParts DEF PushStar, Silent
  <2>6. todo' \in Lists
    BY <1>1, <1>3, LessTodo DEF ControlOK, PushStar
  <2>7. ControlOK'
    BY <1>1, <1>3, <2>6, ControlIs DEF PushStar, After
  <2> QED BY <2>4, <2>5, <2>7, TypePartsNext
<1>4. CASE \E i \in LocalIds : PushSkip(i)
  <2>1. PICK i \in LocalIds : PushSkip(i)
    BY <1>4
  <2>2. todo' \in Lists
    BY <1>1, <2>1, LessTodo DEF ControlOK, PushSkip
  <2>3. ControlOK'
    BY <1>1, <2>1, <2>2, ControlIs DEF PushSkip, Pushing, Applying
  <2>4. ClientOK' /\ ServerOK' /\ BoundsOK'
    BY <1>1, <2>1, SameParts DEF PushSkip, Silent
  <2> QED BY <2>3, <2>4, TypePartsNext
<1> QED BY <1>2, <1>3, <1>4

\* The keywords of tasks.
LEMMA TaskTypes ==
  ASSUME TypeInv, ~Refuse,
         PullTags \/ PushTags \/ \E t \in Tasks : PullTask(t) \/ PushTask(t)
  PROVE  TypeInv'
<1>1. ClientOK /\ ServerOK /\ BoundsOK /\ ControlOK /\ TypeOK /\ HalfOK
  BY TypeParts DEF TypeInv
<1>2. /\ tags \in [Tasks -> SUBSET LocalIds] /\ tagsChanged \subseteq Tasks
      /\ rtags \in [Tasks -> SUBSET RemoteIds] /\ rtagsChanged \subseteq Tasks
  BY <1>1 DEF ClientOK, ServerOK
<1>3. CASE PullTags
  <2>1. half.local \in Tasks /\ pc = "apply"
    BY <1>1, <1>3 DEF PullTags, After, HalfOK
  <2>2. PICK S \in SUBSET LocalIds :
          S = {i \in Locals : local[i].name \in {remote[r].name : r \in rtags[half.local]}}
    BY DEF Locals
  <2>3. /\ tags' = [tags EXCEPT ![half.local] = S]
        /\ todo' = [todo EXCEPT !.taskPulls = @ \ {half.local}]
        /\ half' = Whole /\ Silent /\ UNCHANGED <<local, tagsChanged, server>>
    BY <1>3, <2>2 DEF PullTags
  <2>4. ClientOK'
    BY <1>1, <1>2, <2>1, <2>3 DEF ClientOK
  <2>5. ServerOK' /\ BoundsOK'
    BY <1>1, <2>3, SameParts DEF Silent
  <2>6. ControlOK'
    BY <1>1, <2>1, <2>3, LessTodo, ControlIs DEF ControlOK
  <2> QED BY <2>4, <2>5, <2>6, TypePartsNext
<1>4. CASE PushTags
  <2>1. half.local \in Tasks /\ pc = "apply"
    BY <1>1, <1>4 DEF PushTags, After, HalfOK
  <2>2. PICK S \in SUBSET RemoteIds :
          S = {r \in Remotes : remote[r].name \in {local[i].name : i \in tags[half.local]}}
    BY DEF Remotes
  <2>3. /\ rtags' = [rtags EXCEPT ![half.local] = S]
        /\ todo' = [todo EXCEPT !.taskPushes = @ \ {half.local}]
        /\ half' = Whole /\ Silent /\ UNCHANGED <<client, remote, rtagsChanged, apart>>
    BY <1>4, <2>2 DEF PushTags
  <2>4. ServerOK'
    BY <1>1, <1>2, <2>1, <2>3 DEF ServerOK
  <2>5. ClientOK' /\ BoundsOK'
    BY <1>1, <2>3, SameParts DEF Silent
  <2>6. ControlOK'
    BY <1>1, <2>1, <2>3, LessTodo, ControlIs DEF ControlOK
  <2> QED BY <2>4, <2>5, <2>6, TypePartsNext
<1>5. ASSUME NEW t \in Tasks, PullTask(t) PROVE TypeInv'
  <2>1. /\ pc = "apply" /\ tags' = [tags EXCEPT ![t] = {}]
        /\ tagsChanged' = tagsChanged \cup {t}
        /\ Then("pullTags", t, None) /\ Silent /\ UNCHANGED <<local, server, todo>>
    BY <1>5 DEF PullTask, Applying
  <2>2. ClientOK'
    BY <1>1, <1>2, <2>1 DEF ClientOK
  <2>3. ServerOK' /\ BoundsOK'
    BY <1>1, <2>1, SameParts DEF Silent
  <2>4. todo' \in Lists
    BY <1>1, <2>1 DEF ControlOK
  <2>5. ControlOK'
    BY <1>1, <2>1, <2>4, ControlIs
  <2> QED BY <2>2, <2>3, <2>5, TypePartsNext
<1>6. ASSUME NEW t \in Tasks, PushTask(t) PROVE TypeInv'
  <2>1. pc = "apply" /\ Silent /\ UNCHANGED <<client, remote, apart>>
    BY <1>6 DEF PushTask, Applying
  <2>2. ClientOK' /\ BoundsOK'
    BY <1>1, <2>1, SameParts DEF Silent
  <2>3. CASE todo' = [todo EXCEPT !.taskPushes = @ \ {t}] /\ UNCHANGED <<rtags, rtagsChanged, half>>
    <3>1. ServerOK'
      BY <1>1, <2>1, <2>3 DEF ServerOK
    <3>2. ControlOK'
      BY <1>1, <2>1, <2>3, LessTodo, ControlIs DEF ControlOK
    <3> QED BY <2>2, <3>1, <3>2, TypePartsNext
  <2>4. CASE /\ rtags' = [rtags EXCEPT ![t] = {}] /\ rtagsChanged' = rtagsChanged \cup {t}
             /\ Then("pushTags", t, None) /\ UNCHANGED todo
    <3>1. ServerOK'
      BY <1>1, <1>2, <2>1, <2>4 DEF ServerOK
    <3>2. todo' \in Lists
      BY <1>1, <2>4 DEF ControlOK
    <3>3. ControlOK'
      BY <1>1, <2>1, <2>4, <3>2, ControlIs
    <3> QED BY <2>2, <3>1, <3>3, TypePartsNext
  <2> QED BY <1>6, <2>3, <2>4 DEF PushTask
<1> QED BY <1>3, <1>4, <1>5, <1>6

\* The keywords that go.
LEMMA DropTypes ==
  ASSUME TypeInv, DropTags \/ Drop \/ \E r \in RemoteIds : DropThere(r)
  PROVE  TypeInv'
<1>1. ClientOK /\ ServerOK /\ BoundsOK /\ ControlOK /\ TypeOK /\ HalfOK
  BY TypeParts DEF TypeInv
<1>2. ASSUME NEW r \in RemoteIds, DropThere(r) PROVE TypeInv'
  <2>1. /\ pc = "apply" /\ rtags' = RUntagged(r) /\ Silent
        /\ UNCHANGED <<client, remote, rtagsChanged, apart>>
    BY <1>2 DEF DropThere, Applying
  <2>2. ClientOK' /\ BoundsOK'
    BY <1>1, <2>1, SameParts DEF Silent
  <2>3. ServerOK'
    BY <1>1, <2>1 DEF ServerOK, RUntagged
  <2>4. CASE Copies(r) = {}
    <3>1. todo' = [todo EXCEPT !.drops = @ \ {r}] /\ half' = half
      BY <1>2, <2>4 DEF DropThere
    <3>2. ControlOK'
      BY <1>1, <2>1, <3>1, LessTodo, ControlIs DEF ControlOK
    <3> QED BY <2>2, <2>3, <3>2, TypePartsNext
  <2>5. CASE Copies(r) # {}
    <3>1. Copies(r) \in SUBSET (0..MaxLocal)
      BY DEF Copies, Locals
    <3>2. PICK i \in LocalIds : i = Max(Copies(r))
      <4>1. Max(Copies(r)) \in Copies(r)
        BY <2>5, <3>1, MaxIs
      <4> QED BY <4>1 DEF Copies, Locals
    <3>3. Then("dropTags", i, r) /\ todo' = todo
      BY <1>2, <2>5, <3>2 DEF DropThere
    <3>4. todo' \in Lists
      BY <1>1, <3>3 DEF ControlOK
    <3>5. ControlOK'
      BY <1>1, <2>1, <3>3, <3>4, ControlIs
    <3> QED BY <2>2, <2>3, <3>5, TypePartsNext
  <2> QED BY <2>4, <2>5
<1>3. CASE DropTags
  <2>1. /\ pc = "apply" /\ half.local \in LocalIds /\ half.remote \in RemoteIds
        /\ tags' = Untagged(half.local) /\ Then("drop", half.local, half.remote) /\ Silent
        /\ UNCHANGED <<local, tagsChanged, server, todo>>
    BY <1>1, <1>3 DEF DropTags, After, HalfOK
  <2>2. ClientOK'
    BY <1>1, <2>1 DEF ClientOK, Untagged
  <2>3. ServerOK' /\ BoundsOK'
    BY <1>1, <2>1, SameParts DEF Silent
  <2>4. todo' \in Lists
    BY <1>1, <2>1 DEF ControlOK
  <2>5. ControlOK'
    BY <1>1, <2>1, <2>4, ControlIs
  <2> QED BY <2>2, <2>3, <2>5, TypePartsNext
<1>4. CASE Drop
  <2>1. /\ pc = "apply" /\ half.local \in LocalIds
        /\ local' = [local EXCEPT ![half.local] = NoLocal]
        /\ todo' = [todo EXCEPT !.drops = @ \ {half.remote}]
        /\ half' = Whole /\ Silent /\ UNCHANGED <<tags, tagsChanged, server>>
    BY <1>1, <1>4 DEF Drop, After, HalfOK
  <2>2. ClientOK'
    BY <1>1, <2>1, NewRows DEF ClientOK
  <2>3. ServerOK' /\ BoundsOK'
    BY <1>1, <2>1, SameParts DEF Silent
  <2>4. ControlOK'
    BY <1>1, <2>1, LessTodo, ControlIs DEF ControlOK
  <2> QED BY <2>2, <2>3, <2>4, TypePartsNext
<1> QED BY <1>2, <1>3, <1>4

LEMMA EraseTypes ==
  ASSUME TypeInv, \/ \E i \in LocalIds : EraseTags(i)
                  \/ EraseThere \/ Mark \/ EraseLocal
  PROVE  TypeInv'
<1>1. ClientOK /\ ServerOK /\ BoundsOK /\ ControlOK /\ TypeOK /\ HalfOK
  BY TypeParts DEF TypeInv
<1>2. ASSUME NEW i \in LocalIds, EraseTags(i) PROVE TypeInv'
  <2>1. /\ pc = "apply" /\ tags' = Untagged(i) /\ Silent
        /\ UNCHANGED <<local, tagsChanged, server, todo>>
    BY <1>2 DEF EraseTags, Applying
  <2>2. ClientOK'
    BY <1>1, <2>1 DEF ClientOK, Untagged
  <2>3. ServerOK' /\ BoundsOK'
    BY <1>1, <2>1, SameParts DEF Silent
  <2>4. todo' \in Lists
    BY <1>1, <2>1 DEF ControlOK
  <2>5. \/ \E r \in RemoteIds : Then("eraseThere", i, r)
        \/ Then("eraseLocal", i, None)
    <3>1. local[i].tid \in Remotes => local[i].tid \in RemoteIds
      BY DEF Remotes
    <3> QED BY <1>2, <3>1 DEF EraseTags
  <2>6. ControlOK'
    BY <1>1, <2>1, <2>4, <2>5, ControlIs
  <2> QED BY <2>2, <2>3, <2>6, TypePartsNext
<1>3. CASE EraseThere
  <2>1. /\ pc = "apply" /\ half.local \in LocalIds /\ half.remote \in RemoteIds
        /\ rtags' = RUntagged(half.remote) /\ Then("mark", half.local, half.remote) /\ Silent
        /\ UNCHANGED <<client, remote, rtagsChanged, apart, todo>>
    BY <1>1, <1>3 DEF EraseThere, After, HalfOK
  <2>2. ServerOK'
    BY <1>1, <2>1 DEF ServerOK, RUntagged
  <2>3. ClientOK' /\ BoundsOK'
    BY <1>1, <2>1, SameParts DEF Silent
  <2>4. todo' \in Lists
    BY <1>1, <2>1 DEF ControlOK
  <2>5. ControlOK'
    BY <1>1, <2>1, <2>4, ControlIs
  <2> QED BY <2>2, <2>3, <2>5, TypePartsNext
<1>4. CASE Mark
  <2>1. /\ pc = "apply" /\ half.local \in LocalIds /\ half.remote \in RemoteIds
        /\ Then("eraseLocal", half.local, None) /\ Silent
        /\ UNCHANGED <<client, rtags, rtagsChanged, apart, todo>>
    BY <1>1, <1>4 DEF Mark, After, HalfOK
  <2>2. PICK row \in RemoteRow : remote' = [remote EXCEPT ![half.remote] = row]
    BY <1>1, <1>4, <2>1, MarkIs
  <2>3. ServerOK'
    BY <1>1, <2>1, <2>2 DEF ServerOK
  <2>4. ClientOK' /\ BoundsOK'
    BY <1>1, <2>1, SameParts DEF Silent
  <2>5. todo' \in Lists
    BY <1>1, <2>1 DEF ControlOK
  <2>6. ControlOK'
    BY <1>1, <2>1, <2>5, ControlIs
  <2> QED BY <2>3, <2>4, <2>6, TypePartsNext
<1>5. CASE EraseLocal
  <2>1. /\ pc = "apply" /\ half.local \in LocalIds
        /\ local' = [local EXCEPT ![half.local] = NoLocal]
        /\ todo' = [todo EXCEPT !.erases = @ \ {half.local}]
        /\ half' = Whole /\ Silent /\ UNCHANGED <<tags, tagsChanged, server>>
    BY <1>1, <1>5 DEF EraseLocal, After, HalfOK
  <2>2. ClientOK'
    BY <1>1, <2>1, NewRows DEF ClientOK
  <2>3. ServerOK' /\ BoundsOK'
    BY <1>1, <2>1, SameParts DEF Silent
  <2>4. ControlOK'
    BY <1>1, <2>1, LessTodo, ControlIs DEF ControlOK
  <2> QED BY <2>2, <2>3, <2>4, TypePartsNext
<1> QED BY <1>2, <1>3, <1>4, <1>5

LEMMA FinishTypes == ASSUME TypeInv, Finish PROVE TypeInv'
<1>1. ClientOK /\ ServerOK /\ BoundsOK /\ ControlOK /\ TypeOK /\ HalfOK
  BY TypeParts DEF TypeInv
<1>2. /\ tags' = tags /\ rtags' = rtags /\ apart' = apart
      /\ tagsChanged' = {} /\ rtagsChanged' = {} /\ UNCHANGED bounds /\ clash' = FALSE
      /\ todo' = Nothing /\ pc' = "idle" /\ broken' = broken /\ half' = half /\ half = Whole
  BY DEF Finish, Applying
<1>3. ClientOK' /\ ServerOK'
  BY <1>1, <1>2, FinishIs DEF ClientOK, ServerOK
<1>4. BoundsOK'
  BY <1>1, <1>2 DEF BoundsOK, bounds
<1>5. ControlOK'
  BY <1>1, <1>2, NothingIs, WholeIs DEF ControlOK, HalfOK
<1> QED BY <1>3, <1>4, <1>5, TypePartsNext

\* What the program does: what the user and the others write, one statement of a sync,
\* or that it stops.
UserWrite ==
  UserEdit /\ \E i \in LocalIds, n \in Names :
    \/ Rename(i, n) \/ Star(i) \/ Toggle(i) \/ New(i, n)
    \/ \E t \in Tasks : Tag(t, i) \/ TagNamed(t, i, n) \/ UntagAll(t)

OthersWrite ==
  OthersEdit /\ \E r \in RemoteIds, n \in Names, star \in BOOLEAN :
    \/ RemoteNew(r, n) \/ RemoteWrite(r, n, star) \/ RemoteDelete(r)
    \/ \E t \in Tasks, S \in SUBSET RemoteIds : RemoteTag(t, S)

Stop == GiveUp /\ ((Refuse /\ half.op \in {"none", "pullTags"}) \/ CutShort)

KeywordStep ==
  \/ \E i \in LocalIds, r \in RemoteIds :
       ~Refuse /\ (Pull(r, i) \/ PushNew(i, r) \/ PushUpdate(i))
  \/ PushTid \/ PushStar \/ \E i \in LocalIds : PushSkip(i)

TaskStep == ~Refuse /\ (PullTags \/ PushTags \/ \E t \in Tasks : PullTask(t) \/ PushTask(t))

GoneStep ==
  \/ DropTags \/ Drop \/ \E r \in RemoteIds : DropThere(r)
  \/ EraseThere \/ Mark \/ EraseLocal \/ \E i \in LocalIds : EraseTags(i)

LEMMA NextKinds ==
  ASSUME TypeInv, [Next]_vars
  PROVE  \/ UNCHANGED vars \/ Restart \/ UserWrite \/ OthersWrite \/ Stop
         \/ Begin \/ KeywordStep \/ TaskStep \/ GoneStep \/ Finish
<1>0. 1 \in LocalIds /\ 1 \in RemoteIds /\ NoName \in Names /\ TRUE \in BOOLEAN
  <2>1. 1 \in LocalIds /\ 1 \in RemoteIds
    OBVIOUS
  <2> QED BY <2>1, NameIs
<1>1. \A w \in Words : Plain(w) \in Names
  BY NameIs
<1>2. CASE User
  <2>1. CASE Restart
    BY <2>1
  <2>2. ASSUME NEW i \in LocalIds, Star(i) \/ Toggle(i) PROVE UserWrite
    <3>1. UserEdit
      BY <2>2 DEF Star, Toggle
    <3> QED BY <1>0, <2>2, <3>1 DEF UserWrite
  <2>3. ASSUME NEW i \in LocalIds, NEW w \in Words,
               \/ New(i, Plain(w)) \/ Rename(i, Plain(w))
               \/ \E t \in Tasks : TagNamed(t, i, Plain(w))
        PROVE  UserWrite
    <3>1. UserEdit
      BY <2>3 DEF New, Rename, TagNamed
    <3>2. PICK n \in Names : n = Plain(w)
      BY <1>1
    <3> QED BY <2>3, <3>1, <3>2 DEF UserWrite
  <2>4. ASSUME NEW i \in LocalIds, NEW t \in Tasks, Tag(t, i) \/ UntagAll(t) PROVE UserWrite
    <3>1. UserEdit
      BY <2>4 DEF Tag, UntagAll
    <3> QED BY <1>0, <2>4, <3>1 DEF UserWrite
  <2> QED BY <1>0, <1>2, <2>1, <2>2, <2>3, <2>4 DEF User
<1>3. CASE Others
  <2>1. ASSUME NEW r \in RemoteIds, NEW n \in Names, NEW star \in BOOLEAN,
               RemoteNew(r, n) \/ RemoteWrite(r, n, star) \/ RemoteDelete(r)
        PROVE  OthersWrite
    <3>1. OthersEdit
      BY <2>1 DEF RemoteNew, RemoteWrite, RemoteDelete
    <3> QED BY <2>1, <3>1 DEF OthersWrite
  <2>2. ASSUME NEW t \in Tasks, NEW S \in SUBSET RemoteIds, RemoteTag(t, S)
        PROVE  OthersWrite
    <3>1. OthersEdit
      BY <2>2 DEF RemoteTag
    <3> QED BY <1>0, <2>2, <3>1 DEF OthersWrite
  <2>3. ASSUME NEW r \in Remotes, RemoteWrite(r, Suffixed(remote[r].name), remote[r].star)
        PROVE  OthersWrite
    <3>1. r \in RemoteIds
      BY DEF Remotes
    <3>2. remote[r].name \in Names /\ remote[r].star \in BOOLEAN
      BY <3>1, RowsAre DEF TypeInv
    <3>3. PICK n \in Names, s \in BOOLEAN : n = Suffixed(remote[r].name) /\ s = remote[r].star
      BY <3>2, NameIs
    <3>4. RemoteWrite(r, n, s)
      BY <2>3, <3>3
    <3> QED BY <2>1, <3>1, <3>4
  <2>4. ASSUME NEW r \in Remotes, RemoteDelete(r) PROVE OthersWrite
    <3>1. r \in RemoteIds
      BY DEF Remotes
    <3> QED BY <1>0, <2>1, <2>4, <3>1
  <2>5. ASSUME NEW r \in RemoteIds, NEW w \in Words,
               RemoteNew(r, Plain(w)) \/ \E star \in BOOLEAN : RemoteWrite(r, Plain(w), star)
        PROVE  OthersWrite
    <3>1. PICK n \in Names : n = Plain(w)
      BY <1>1
    <3>2. RemoteNew(r, n) \/ \E star \in BOOLEAN : RemoteWrite(r, n, star)
      BY <2>5, <3>1
    <3> QED BY <1>0, <2>1, <3>2
  <2> QED BY <1>3, <2>2, <2>3, <2>4, <2>5 DEF Others
<1>4. Refuse => GiveUp
  BY DEF Refuse
<1>5. CutShort => GiveUp
  BY DEF CutShort
<1>6. CASE Sync
  <2>1. CASE Refuse
    <3>1. pc' = "idle"
      BY <1>4, <2>1 DEF GiveUp
    <3>2. \/ half = Whole \/ half.op = "pullTags" \/ pc' = "apply"
      BY <1>6 DEF Sync, Begin, Pull, PushNew, PushUpdate, PushSkip, Pushing, EraseTags, PullTask,
         PushTask, DropThere, Finish, PullTags, Applying, After, PushTid, PushStar,
         PushTags, DropTags, Drop, EraseThere, Mark, EraseLocal, Silent
    <3>3. half.op \in {"none", "pullTags"}
      BY <3>1, <3>2, WholeIs
    <3> QED BY <1>4, <2>1, <3>3 DEF Stop
  <2>2. CASE ~Refuse
    <3>1. \/ Begin \/ Finish
          \/ \E i \in LocalIds, r \in RemoteIds : Pull(r, i) \/ PushNew(i, r)
          \/ \E i \in LocalIds : PushUpdate(i) \/ PushSkip(i) \/ EraseTags(i)
          \/ PushTid \/ PushStar
          \/ \E t \in Tasks : PullTask(t) \/ PushTask(t)
          \/ PullTags \/ PushTags
          \/ \E r \in RemoteIds : DropThere(r)
          \/ DropTags \/ Drop \/ EraseThere \/ Mark \/ EraseLocal
      BY <1>6 DEF Sync
    <3> QED BY <1>0, <2>2, <3>1 DEF KeywordStep, TaskStep, GoneStep
  <2> QED BY <2>1, <2>2
<1>7. CASE CutShort
  BY <1>5, <1>7 DEF Stop
<1> QED BY <1>2, <1>3, <1>6, <1>7 DEF Next

LEMMA NextTypes == ASSUME TypeInv, [Next]_vars PROVE TypeInv'
<1>1. CASE UNCHANGED vars
  <2>1. UNCHANGED <<client, server, clash, bounds, control, todo>>
    BY <1>1 DEF vars
  <2> QED BY <2>1, TypeParts, TypePartsNext, SameParts DEF control
<1>2. CASE Restart
  <2>1. /\ UNCHANGED <<client, server, clash, bounds, pc, half, todo>> /\ broken' = FALSE
    BY <1>2 DEF Restart
  <2>2. ClientOK' /\ ServerOK' /\ BoundsOK'
    BY <2>1, TypeParts, SameParts
  <2>3. ControlOK'
    BY <2>1, TypeParts DEF ControlOK, HalfOK
  <2> QED BY <2>2, <2>3, TypePartsNext
<1>3. CASE UserWrite
  BY <1>3, UserTypes DEF UserWrite
<1>4. CASE OthersWrite
  BY <1>4, OthersTypes DEF OthersWrite
<1>5. CASE Stop
  BY <1>5, GiveUpTypes DEF Stop
<1>6. CASE Begin \/ Finish
  BY <1>6, BeginTypes, FinishTypes
<1>7. CASE KeywordStep
  BY <1>7, PullTypes, PushTypes, PushedTypes DEF KeywordStep
<1>8. CASE TaskStep
  BY <1>8, TaskTypes DEF TaskStep
<1>9. CASE GoneStep
  BY <1>9, DropTypes, EraseTypes DEF GoneStep
<1> QED BY <1>1, <1>2, <1>3, <1>4, <1>5, <1>6, <1>7, <1>8, <1>9, NextKinds

LEMMA InitRows ==
  ASSUME Init
  PROVE  \E w \in Words, tagged \in SUBSET Tasks :
           /\ \A i \in LocalIds :
                /\ local[i] \in LocalRow
                /\ local[i].exists <=> i = 1
                /\ i = 1 => /\ local[i].tid = 1 /\ local[i].name = Plain(w)
                            /\ ~local[i].star /\ ~local[i].deleted
           /\ \A r \in RemoteIds :
                /\ remote[r] \in RemoteRow
                /\ remote[r].exists <=> r = 1
                /\ r = 1 => /\ remote[r].name = Plain(w) /\ ~remote[r].star
                            /\ ~remote[r].changed /\ ~remote[r].deleted
           /\ local \in [LocalIds -> LocalRow] /\ remote \in [RemoteIds -> RemoteRow]
           /\ tags = [t \in Tasks |-> IF t \in tagged THEN {1} ELSE {}]
           /\ rtags = [t \in Tasks |-> IF t \in tagged THEN {1} ELSE {}]
<1>1. PICK w \in Words, tagged \in SUBSET Tasks :
       /\ local = [i \in LocalIds |-> IF i # 1 THEN NoLocal ELSE
            [NoLocal EXCEPT !.exists = TRUE, !.tid = 1, !.name = Plain(w)]]
       /\ remote = [r \in RemoteIds |-> IF r # 1 THEN NoRemote ELSE
            [NoRemote EXCEPT !.exists = TRUE, !.name = Plain(w)]]
       /\ tags = [t \in Tasks |-> IF t \in tagged THEN {1} ELSE {}]
       /\ rtags = [t \in Tasks |-> IF t \in tagged THEN {1} ELSE {}]
  BY DEF Init
<1>2. PICK n \in Names : n = Plain(w)
  BY NameIs
<1>3. PICK here : here = [NoLocal EXCEPT !.exists = TRUE, !.tid = 1, !.name = n]
  OBVIOUS
<1>4. PICK there : there = [NoRemote EXCEPT !.exists = TRUE, !.name = n]
  OBVIOUS
<1>5. /\ here \in LocalRow /\ here.exists = TRUE /\ here.tid = 1 /\ here.name = n
      /\ here.star = FALSE /\ here.deleted = FALSE
  <2>1. here = [exists |-> TRUE, tid |-> 1, name |-> n, star |-> FALSE,
                changed |-> FALSE, deleted |-> FALSE]
    BY <1>3 DEF NoLocal
  <2>2. PICK one \in RemoteIds \cup {None} : one = 1
    OBVIOUS
  <2> QED BY <2>1, <2>2 DEF LocalRow
<1>6. /\ there \in RemoteRow /\ there.exists = TRUE /\ there.name = n
      /\ there.star = FALSE /\ there.changed = FALSE /\ there.deleted = FALSE
  BY <1>4, NewRows DEF NoRemote, RemoteRow
<1>7. /\ NoLocal \in LocalRow /\ NoRemote \in RemoteRow
      /\ NoLocal.exists = FALSE /\ NoRemote.exists = FALSE
  BY NewRows DEF NoRemote
<1>8. \A i \in LocalIds : local[i] = IF i = 1 THEN here ELSE NoLocal
  BY <1>1, <1>2, <1>3
<1>9. \A r \in RemoteIds : remote[r] = IF r = 1 THEN there ELSE NoRemote
  BY <1>1, <1>2, <1>4
<1>10. local \in [LocalIds -> LocalRow]
  <2>1. local = [i \in LocalIds |-> local[i]]
    BY <1>1
  <2> QED BY <2>1, <1>5, <1>7, <1>8
<1>11. remote \in [RemoteIds -> RemoteRow]
  <2>1. remote = [r \in RemoteIds |-> remote[r]]
    BY <1>1
  <2> QED BY <2>1, <1>6, <1>7, <1>9
<1>12. \A i \in LocalIds :
                /\ local[i] \in LocalRow
                /\ local[i].exists <=> i = 1
                /\ i = 1 => /\ local[i].tid = 1 /\ local[i].name = Plain(w)
                            /\ ~local[i].star /\ ~local[i].deleted
  BY <1>2, <1>5, <1>7, <1>8
<1>13. \A r \in RemoteIds :
                /\ remote[r] \in RemoteRow
                /\ remote[r].exists <=> r = 1
                /\ r = 1 => /\ remote[r].name = Plain(w) /\ ~remote[r].star
                            /\ ~remote[r].changed /\ ~remote[r].deleted
  BY <1>2, <1>6, <1>7, <1>9
<1> QED BY <1>1, <1>10, <1>11, <1>12, <1>13

LEMMA TypeInit == Init => TypeInv
<1> SUFFICES ASSUME Init PROVE TypeInv
  OBVIOUS
<1>1. PICK tagged \in SUBSET Tasks :
         /\ local \in [LocalIds -> LocalRow] /\ remote \in [RemoteIds -> RemoteRow]
         /\ tags = [t \in Tasks |-> IF t \in tagged THEN {1} ELSE {}]
         /\ rtags = [t \in Tasks |-> IF t \in tagged THEN {1} ELSE {}]
  BY InitRows
<1>2. /\ tagsChanged = {} /\ rtagsChanged = {} /\ apart = {} /\ clash = FALSE
      /\ edits = 0 /\ cuts = 0
      /\ pc = "idle" /\ broken = FALSE /\ half = Whole /\ todo = Nothing
  BY DEF Init
<1>3. {1} \in SUBSET LocalIds /\ {1} \in SUBSET RemoteIds
  OBVIOUS
<1>4. ClientOK /\ ServerOK
  BY <1>1, <1>2, <1>3 DEF ClientOK, ServerOK
<1>5. BoundsOK
  <2>1. 0 \in 0..MaxEdits /\ 0 \in 0..MaxCuts
    OBVIOUS
  <2> QED BY <1>2, <2>1 DEF BoundsOK
<1>6. ControlOK
  <2>1. half.op = "none" /\ half.local = None /\ half.remote = None /\ todo \in Lists
    BY <1>2, NothingIs, WholeIs
  <2>2. half.local \in LocalIds \cup Tasks \cup {None} /\ half.remote \in RemoteIds \cup {None}
    BY <2>1
  <2>3. HalfOK
    BY <1>2, <2>1 DEF HalfOK
  <2>4. pc \in {"idle", "apply"} /\ broken \in BOOLEAN
    BY <1>2
  <2>5. half.op \in {"none", "tid", "star", "pullTags", "pushTags", "dropTags", "drop",
                     "eraseThere", "mark", "eraseLocal"}
    BY <2>1
  <2> QED BY <2>1, <2>2, <2>3, <2>4, <2>5 DEF ControlOK
<1> QED BY <1>4, <1>5, <1>6, TypeParts

LEMMA TypesKept == Spec => []TypeInv
BY TypeInit, NextTypes, PTL DEF Spec

\* Every variable keeps its type, whatever the ids, the words, the edits and the cuts.
THEOREM TypeCorrect == Spec => []TypeOK
<1>1. TypeInv => TypeOK
  BY DEF TypeInv
<1> QED BY <1>1, TypesKept, PTL

-----------------------------------------------------------------------------
(* The keywords are in step *)

\* A keyword and its server row have the same name, or the suffix the client gave it.
SameName(i, r) == \/ remote[r].name = local[i].name
                  \/ r \in apart /\ remote[r].name = Suffixed(local[i].name)
InStep(i, r) == local[i].star = remote[r].star /\ SameName(i, r)

\* A tid is that of a server row, and of one keyword; so one keyword at most has none.
\* A keyword that is gone has none.
Tied == /\ \A i \in Locals : local[i].tid \in Remotes \cup {None}
        /\ \A i, j \in Locals : local[i].tid = local[j].tid => i = j
        /\ \A i \in LocalIds \ Locals : local[i].tid = None

\* What KeywordsInStep says, whether a sync runs or not.
Marked ==
  /\ \A r \in Remotes : ~remote[r].changed =>
       IF remote[r].deleted THEN Copies(r) = {}
       ELSE \E i \in Copies(r) : local[i].changed \/ InStep(i, r)
  /\ \A i \in Locals : ~local[i].changed => local[i].tid \in Remotes

\* The rows on the lists are still as they were when the lists were made.
ListsOK ==
  /\ todo.pulls \subseteq todo.updated /\ todo.updated \subseteq Remotes
  /\ \A r \in todo.pulls : ~remote[r].deleted
  /\ \A r \in todo.drops : r \in Remotes /\ remote[r].changed /\ remote[r].deleted
  /\ \A i \in todo.pushes : i \in Locals /\ local[i].changed /\ ~local[i].deleted
  /\ \A i \in todo.erases \cap Locals : local[i].changed /\ local[i].deleted
  /\ todo.pulls # {} => todo.erases \subseteq Locals

\* What is true of a keyword that is half done.
HalfRows ==
  /\ half.op = "tid" =>
       /\ half.local \in todo.pushes /\ local[half.local].tid = None
       /\ half.remote \in Remotes \ todo.updated /\ half.remote \notin todo.drops
       /\ ~remote[half.remote].deleted /\ remote[half.remote].changed
       /\ \A i \in Locals : local[i].tid # half.remote
       /\ SameName(half.local, half.remote)
  /\ half.op = "star" =>
       /\ half.local \in todo.pushes /\ local[half.local].tid = half.remote
       /\ half.remote \in Remotes \ todo.updated
       /\ SameName(half.local, half.remote)
  /\ half.op \in {"dropTags", "drop"} =>
       /\ half.local \in Locals /\ local[half.local].tid = half.remote
       /\ half.remote \in todo.drops
  /\ half.op \in {"eraseThere", "mark"} =>
       /\ half.local \in todo.erases \cap Locals /\ local[half.local].tid = half.remote
       /\ half.remote \in Remotes
  /\ half.op = "eraseLocal" =>
       /\ half.local \in todo.erases
       /\ half.local \in Locals /\ local[half.local].tid # None =>
            /\ remote[local[half.local].tid].deleted
            /\ remote[local[half.local].tid].changed
  /\ half.op \in {"tid", "star"} => todo.pulls = {}
  /\ half.op \in {"dropTags", "drop", "eraseThere", "mark", "eraseLocal"} =>
       todo.pulls = {} /\ todo.pushes = {}
  /\ half.op \in {"eraseThere", "mark", "eraseLocal"} => todo.drops = {}

\* During a sync, what is not in step is still on a list, or half done.
Gone(r) == \/ r \in todo.drops \/ \A i \in Locals : local[i].tid # r
           \/ half.op = "eraseLocal" /\ half.local \in Locals /\ local[half.local].tid = r
Served(r) == \/ r \in todo.pulls
             \/ half.op = "tid" /\ half.remote = r
             \/ \E i \in Locals : /\ local[i].tid = r
                                  /\ \/ InStep(i, r)
                                     \/ i \in todo.pushes /\ r \notin todo.updated
                                     \/ i \in todo.erases
Progress ==
  pc = "apply" =>
    /\ \A i \in Locals : local[i].tid = None => i \in todo.pushes \cup todo.erases
    /\ \A r \in Remotes : IF remote[r].deleted THEN Gone(r) ELSE Served(r)

StepInv == TypeInv /\ Tied /\ Marked /\ ListsOK /\ HalfRows /\ Progress

LEMMA IdleRows ==
  ASSUME TypeInv', pc' = "idle", Tied', Marked' PROVE StepInv'
<1>1. half' = Whole /\ todo' = Nothing
  BY DEF TypeInv, HalfOK
<1>2. half'.op = "none"
  BY <1>1, WholeIs
<1>3. ListsOK'
  BY <1>1, NothingIs DEF ListsOK
<1>4. HalfRows'
  BY <1>2 DEF HalfRows
<1>5. Progress'
  BY DEF Progress
<1> QED BY <1>3, <1>4, <1>5 DEF StepInv

LEMMA UserRows == ASSUME StepInv, TypeInv', UserWrite PROVE StepInv'
<1>0. TypeOK /\ Tied /\ Marked
  BY DEF StepInv, TypeInv
<1>1. PICK i \in LocalIds, n \in Names :
        \/ Rename(i, n) \/ Star(i) \/ Toggle(i) \/ New(i, n)
        \/ \E t \in Tasks : Tag(t, i) \/ TagNamed(t, i, n) \/ UntagAll(t)
  BY DEF UserWrite
<1>2. pc' = "idle" /\ remote' = remote
  BY DEF UserWrite, UserEdit, Edit, control
<1>3. Remotes' = Remotes
  BY <1>2 DEF Remotes
<1>4. \A q \in apart : q \in apart'
  BY <1>1 DEF Rename, Star, Toggle, New, Tag, TagNamed, UntagAll
<1>5. CASE Rename(i, n) \/ Star(i) \/ Toggle(i)
  <2>1. PICK row \in LocalRow :
           /\ local' = [local EXCEPT ![i] = row] /\ i \in Locals
           /\ row.exists /\ row.tid = local[i].tid /\ row.changed
    BY <1>0, <1>5, RewrittenIs
  <2>2. /\ local'[i] = row /\ \A j \in LocalIds : j # i => local'[j] = local[j]
        /\ Locals' = Locals
    <3>1. /\ local'[i] = row /\ \A j \in LocalIds : j # i => local'[j] = local[j]
          /\ Locals' = Locals \cup {i} /\ i \in Locals
      BY <1>0, <2>1, LocalSet
    <3> QED BY <3>1
  <2>3. Tied'
    BY <1>0, <1>3, <2>1, <2>2 DEF Tied, Locals
  <2>4. Marked'
    BY <1>0, <1>2, <1>3, <1>4, <2>1, <2>2 DEF Marked, Copies, InStep, SameName, Locals
  <2> QED BY <1>2, <2>3, <2>4, IdleRows
<1>6. CASE local' = local
  <2>1. Locals' = Locals
    BY <1>6 DEF Locals
  <2>2. Tied'
    BY <1>0, <1>3, <1>6, <2>1 DEF Tied
  <2>3. Marked'
    BY <1>0, <1>2, <1>3, <1>4, <1>6, <2>1 DEF Marked, Copies, InStep, SameName
  <2> QED BY <1>2, <2>2, <2>3, IdleRows
<1>7. CASE \E star \in BOOLEAN :
              /\ local' = [local EXCEPT ![i] = Fresh(n, star)]
              /\ i \notin Locals /\ LocalFree(n, i) /\ NewFree
  <2>1. PICK star \in BOOLEAN : local' = [local EXCEPT ![i] = Fresh(n, star)]
    BY <1>7
  <2>2. PICK row \in LocalRow : row = Fresh(n, star) /\ row.exists /\ row.tid = None /\ row.changed
    BY NewRows
  <2>3. /\ local'[i] = row /\ \A j \in LocalIds : j # i => local'[j] = local[j]
        /\ Locals' = Locals \cup {i}
    <3>1. local' = [local EXCEPT ![i] = row] /\ row.exists
      BY <2>1, <2>2
    <3> QED BY <1>0, <3>1, LocalSet
  <2>4. i \notin Locals /\ \A j \in Locals : local[j].tid # None
    BY <1>7 DEF NewFree
  <2>5. Tied'
    BY <1>0, <1>3, <2>2, <2>3, <2>4 DEF Tied, Locals
  <2>6. Marked'
    <3>1. \A q \in Remotes : Copies(q)' = Copies(q)
      <4>1. \A q \in Remotes : q # None
        BY DEF Remotes
      <4>2. \A q \in Remotes : \A j : j \in Copies(q)' <=> j \in Copies(q)
        BY <2>2, <2>3, <2>4, <4>1 DEF Copies, Locals
      <4> QED BY <4>2
    <3>2. \A j \in Locals : local'[j] = local[j]
      BY <2>3, <2>4 DEF Locals
    <3>3. \A j \in Locals, q \in Remotes : InStep(j, q) => InStep(j, q)'
      BY <1>2, <1>4, <3>2 DEF InStep, SameName
    <3>4. \A j \in Locals' : ~local'[j].changed => local'[j].tid \in Remotes'
      BY <1>0, <1>3, <2>2, <2>3, <3>2 DEF Marked
    <3>5. \A q \in Remotes : ~remote[q].changed => IF remote[q].deleted THEN Copies(q)' = {}
       ELSE \E j \in Copies(q)' : local'[j].changed \/ InStep(j, q)'
      BY <1>0, <3>1, <3>2, <3>3 DEF Marked, Copies
    <3> QED BY <1>2, <1>3, <3>4, <3>5 DEF Marked
  <2> QED BY <1>2, <2>5, <2>6, IdleRows
<1>8. New(i, n) \/ (\E t \in Tasks : TagNamed(t, i, n)) =>
        \/ local' = local
        \/ \E star \in BOOLEAN :
              /\ local' = [local EXCEPT ![i] = Fresh(n, star)]
              /\ i \notin Locals /\ LocalFree(n, i) /\ NewFree
  BY <1>0, NewIs
<1>9. (\E t \in Tasks : Tag(t, i) \/ UntagAll(t)) => local' = local
  BY DEF Tag, UntagAll
<1> QED BY <1>1, <1>5, <1>6, <1>7, <1>8, <1>9

LEMMA OthersRows == ASSUME StepInv, TypeInv', OthersWrite PROVE StepInv'
<1>0. TypeOK /\ Tied /\ Marked
  BY DEF StepInv, TypeInv
<1>1. PICK r \in RemoteIds, n \in Names, star \in BOOLEAN :
        \/ RemoteNew(r, n) \/ RemoteWrite(r, n, star) \/ RemoteDelete(r)
        \/ \E t \in Tasks, S \in SUBSET RemoteIds : RemoteTag(t, S)
  BY DEF OthersWrite
<1>2. pc' = "idle" /\ local' = local /\ apart' = apart
  BY DEF OthersWrite, OthersEdit, Edit, control, client
<1>3. Locals' = Locals
  BY <1>2 DEF Locals
<1>4. CASE RemoteNew(r, n) \/ RemoteWrite(r, n, star) \/ RemoteDelete(r)
  <2>1. PICK row \in RemoteRow : /\ remote' = [remote EXCEPT ![r] = row]
                                 /\ row.exists /\ row.changed
    BY <1>0, <1>4, OthersIs
  <2>2. /\ remote'[r] = row /\ \A q \in RemoteIds : q # r => remote'[q] = remote[q]
        /\ Remotes' = Remotes \cup {r}
    BY <1>0, <2>1, RemoteSet
  <2>3. Tied'
    BY <1>0, <1>2, <1>3, <2>2 DEF Tied
  <2>4. Marked'
    BY <1>0, <1>2, <1>3, <2>1, <2>2 DEF Marked, Copies, InStep, SameName, Remotes
  <2> QED BY <1>2, <2>3, <2>4, IdleRows
<1>5. CASE \E t \in Tasks, S \in SUBSET RemoteIds : RemoteTag(t, S)
  <2>1. remote' = remote /\ Remotes' = Remotes
    BY <1>5 DEF RemoteTag, Remotes
  <2>2. Tied' /\ Marked'
    BY <1>0, <1>2, <1>3, <2>1 DEF Tied, Marked, Copies, InStep, SameName
  <2> QED BY <1>2, <2>2, IdleRows
<1> QED BY <1>1, <1>4, <1>5

LEMMA SameRows ==
  ASSUME StepInv, TypeInv', local' = local, remote' = remote, apart' = apart, pc' = "idle"
  PROVE  StepInv'
<1>1. Tied /\ Marked
  BY DEF StepInv
<1>2. Locals' = Locals /\ Remotes' = Remotes
  BY DEF Locals, Remotes
<1>3. Tied' /\ Marked'
  BY <1>1, <1>2 DEF Tied, Marked, Copies, InStep, SameName
<1> QED BY <1>3, IdleRows

LEMMA BeginRows == ASSUME StepInv, TypeInv', Begin PROVE StepInv'
<1>0. TypeOK /\ HalfOK /\ Tied /\ Marked
  BY DEF StepInv, TypeInv
<1>1. /\ local' = local /\ remote' = remote /\ apart' = apart /\ half' = half /\ pc = "idle"
      /\ pc' = "apply"
  BY DEF Begin, client, server
<1>2. Locals' = Locals /\ Remotes' = Remotes
  BY <1>1 DEF Locals, Remotes
<1>3. Tied' /\ Marked'
  BY <1>0, <1>1, <1>2 DEF Tied, Marked, Copies, InStep, SameName
<1>4. half'.op = "none"
  BY <1>0, <1>1, WholeIs DEF HalfOK
<1>5. /\ todo'.updated = {r \in Remotes : remote[r].changed /\ ~remote[r].deleted}
      /\ todo'.pulls = {r \in Remotes : remote[r].changed /\ ~remote[r].deleted}
      /\ todo'.pushes = {i \in Locals : local[i].changed /\ ~local[i].deleted}
      /\ todo'.drops = {r \in Remotes : remote[r].changed /\ remote[r].deleted}
      /\ todo'.erases = {i \in Locals : local[i].changed /\ local[i].deleted}
  BY DEF Begin
<1>6. ListsOK'
  BY <1>1, <1>2, <1>5 DEF ListsOK
<1>7. HalfRows'
  BY <1>4 DEF HalfRows
<1>8. \A i \in Locals : local[i].changed => i \in todo'.pushes \cup todo'.erases
  BY <1>5
<1>9. \A i \in Locals : local[i].tid = None => local[i].changed
  <2>1. None \notin Remotes
    BY DEF Remotes
  <2> QED BY <1>0, <2>1 DEF Marked
<1>10. \A r \in Remotes : remote[r].deleted => Gone(r)'
  <2> SUFFICES ASSUME NEW r \in Remotes, remote[r].deleted PROVE Gone(r)'
    OBVIOUS
  <2>1. CASE remote[r].changed
    BY <1>5, <2>1 DEF Gone
  <2>2. CASE ~remote[r].changed
    <3>1. \A i \in Locals : local[i].tid # r
      BY <1>0, <2>2 DEF Marked, Copies
    <3> QED BY <1>1, <1>2, <3>1 DEF Gone
  <2> QED BY <2>1, <2>2
<1>11. \A r \in Remotes : ~remote[r].deleted => Served(r)'
  <2> SUFFICES ASSUME NEW r \in Remotes, ~remote[r].deleted PROVE Served(r)'
    OBVIOUS
  <2>1. CASE remote[r].changed
    BY <1>5, <2>1 DEF Served
  <2>2. CASE ~remote[r].changed
    <3>1. PICK i \in Locals : local[i].tid = r /\ (local[i].changed \/ InStep(i, r))
      BY <1>0, <2>2 DEF Marked, Copies
    <3>2. r \notin todo'.updated
      BY <1>5, <2>2
    <3> QED BY <1>1, <1>2, <1>8, <3>1, <3>2 DEF Served, InStep, SameName
  <2> QED BY <2>1, <2>2
<1>12. Progress'
  BY <1>1, <1>2, <1>8, <1>9, <1>10, <1>11 DEF Progress
<1> QED BY <1>3, <1>6, <1>7, <1>12 DEF StepInv

LEMMA WholeRows == ASSUME half' = Whole PROVE HalfRows'
<1>1. half'.op = "none"
  BY WholeIs
<1> QED BY <1>1 DEF HalfRows

LEMMA PullRows ==
  ASSUME StepInv, TypeInv', NEW r \in RemoteIds, NEW i \in LocalIds, Pull(r, i), ~Refuse
  PROVE  StepInv'
<1>0. TypeOK /\ Tied /\ Marked /\ ListsOK /\ Progress
  BY DEF StepInv, TypeInv
<1>1. /\ Applying /\ r \in todo.pulls /\ todo' = [todo EXCEPT !.pulls = @ \ {r}]
      /\ Silent /\ UNCHANGED <<tags, tagsChanged, server, half>>
  BY <1>0, PullIs
<1>2. PICK row \in LocalRow :
              /\ local' = [local EXCEPT ![i] = row] /\ row.exists /\ row.tid = r
              /\ row.name = remote[r].name /\ row.star = remote[r].star
              /\ \/ /\ i \in Copies(r) /\ row.deleted = local[i].deleted
                    /\ local[i].changed => row.changed
                 \/ /\ Copies(r) = {} /\ i \notin Locals
                    /\ row.changed /\ ~row.deleted
  BY <1>0, PullIs
<1>3. /\ local'[i] = row /\ \A j \in LocalIds : j # i => local'[j] = local[j]
      /\ Locals' = Locals \cup {i}
  BY <1>0, <1>2, LocalSet
<1>4. /\ remote' = remote /\ apart' = apart /\ half' = Whole /\ half = Whole
      /\ pc = "apply" /\ pc' = "apply"
  BY <1>1 DEF server, Applying, Silent
<1>5. Remotes' = Remotes
  BY <1>4 DEF Remotes
<1>6. /\ todo'.pulls = todo.pulls \ {r} /\ todo'.updated = todo.updated
      /\ todo'.pushes = todo.pushes /\ todo'.drops = todo.drops /\ todo'.erases = todo.erases
  BY <1>0, <1>1, LessTodo DEF TypeOK
<1>7. r \in Remotes /\ ~remote[r].deleted /\ r # None
  BY <1>0, <1>1 DEF ListsOK
<1>8. \A j \in Locals : j # i => local[j].tid # r
  BY <1>0, <1>2 DEF Copies, Tied
<1>9. i \in Locals => local[i].tid = r
  BY <1>2 DEF Copies
<1>10. Tied'
  BY <1>0, <1>2, <1>3, <1>5, <1>7, <1>8, <1>9 DEF Tied, Locals
<1>11. InStep(i, r)'
  BY <1>2, <1>3, <1>4 DEF InStep, SameName
<1>12. \A j \in LocalIds, q \in Remotes : j # i /\ InStep(j, q) => InStep(j, q)'
  BY <1>3, <1>4 DEF InStep, SameName
<1>13. Marked'
  <2>1. \A q \in Remotes : q # r => \A j : j \in Copies(q)' <=> j \in Copies(q) /\ j # i
    BY <1>2, <1>3, <1>9 DEF Copies, Locals
  <2>2. i \in Copies(r)'
    BY <1>2, <1>3 DEF Copies
  <2>3. \A j \in Locals' : ~local'[j].changed => local'[j].tid \in Remotes'
    BY <1>0, <1>2, <1>3, <1>5, <1>7 DEF Marked, Locals
  <2>4. ASSUME NEW q \in Remotes, ~remote[q].changed
        PROVE  IF remote[q].deleted THEN Copies(q)' = {}
               ELSE \E j \in Copies(q)' : local'[j].changed \/ InStep(j, q)'
    <3>1. CASE q = r
      BY <1>7, <1>11, <2>2, <3>1
    <3>2. CASE q # r
      <4>1. \A j \in Copies(q) : j # i /\ j \in LocalIds /\ local'[j] = local[j]
        BY <1>3, <1>9, <3>2 DEF Copies, Locals
      <4> QED BY <1>0, <1>12, <2>1, <2>4, <3>2, <4>1 DEF Marked
    <3> QED BY <3>1, <3>2
  <2> QED BY <1>4, <1>5, <2>3, <2>4 DEF Marked
<1>14. ListsOK'
  <2>1. \A j \in Locals : /\ local'[j].deleted = local[j].deleted
                          /\ local[j].changed => local'[j].changed
    BY <1>2, <1>3 DEF Locals
  <2>2. todo.erases \subseteq Locals
    BY <1>0, <1>1 DEF ListsOK
  <2> QED BY <1>0, <1>3, <1>4, <1>5, <1>6, <2>1, <2>2 DEF ListsOK
<1>15. HalfRows'
  BY <1>4, WholeRows
<1>16. Progress'
  <2>0. half.op = "none" /\ half'.op = "none"
    BY <1>4, WholeIs
  <2>1. \A j \in Locals' : local'[j].tid = None => j \in todo'.pushes \cup todo'.erases
    BY <1>0, <1>2, <1>3, <1>4, <1>6, <1>7 DEF Progress, Locals
  <2>2. ASSUME NEW q \in Remotes, remote[q].deleted PROVE Gone(q)'
    <3>1. Gone(q) /\ q # r
      BY <1>0, <1>4, <1>7, <2>2 DEF Progress
    <3> QED BY <1>2, <1>3, <1>6, <2>0, <3>1 DEF Gone, Locals
  <2>3. ASSUME NEW q \in Remotes, ~remote[q].deleted PROVE Served(q)'
    <3>1. CASE q = r
      BY <1>2, <1>3, <1>11, <3>1 DEF Served
    <3>2. CASE q # r
      <4>1. Served(q)
        BY <1>0, <1>4, <2>3 DEF Progress
      <4>2. CASE q \in todo.pulls
        BY <1>6, <3>2, <4>2 DEF Served
      <4>3. CASE q \notin todo.pulls
        <5>1. PICK j \in Locals : /\ local[j].tid = q
                                  /\ \/ InStep(j, q)
                                     \/ j \in todo.pushes /\ q \notin todo.updated
                                     \/ j \in todo.erases
          BY <2>0, <4>1, <4>3 DEF Served
        <5>2. j # i /\ j \in LocalIds
          BY <1>9, <3>2, <5>1 DEF Locals
        <5> QED BY <1>3, <1>6, <1>12, <5>1, <5>2 DEF Served
      <4> QED BY <4>2, <4>3
    <3> QED BY <3>1, <3>2
  <2> QED BY <1>4, <1>5, <2>1, <2>2, <2>3 DEF Progress
<1> QED BY <1>10, <1>13, <1>14, <1>15, <1>16 DEF StepInv

LEMMA PushNewRows ==
  ASSUME StepInv, TypeInv', NEW r \in RemoteIds, NEW i \in LocalIds, PushNew(i, r), ~Refuse
  PROVE  StepInv'
<1>0. TypeOK /\ Tied /\ Marked /\ ListsOK /\ Progress
  BY DEF StepInv, TypeInv
<1>1. /\ Pushing(i) /\ local[i].tid \notin Remotes /\ r \notin Remotes
      /\ Renamed(i, r) /\ Then("tid", i, r)
      /\ Silent /\ UNCHANGED <<client, rtags, rtagsChanged, todo>>
  BY <1>0, PushNewIs
<1>2. PICK row \in RemoteRow :
              /\ remote' = [remote EXCEPT ![r] = row] /\ row.exists
              /\ row.name = PushName(i) /\ row.changed /\ ~row.deleted
  BY <1>0, PushNewIs
<1>3. /\ remote'[r] = row /\ \A q \in RemoteIds : q # r => remote'[q] = remote[q]
      /\ Remotes' = Remotes \cup {r}
  BY <1>0, <1>2, RemoteSet
<1>4. /\ local' = local /\ todo' = todo /\ half = Whole /\ pc = "apply" /\ pc' = "apply"
      /\ todo.pulls = {} /\ i \in todo.pushes
  BY <1>1 DEF client, Pushing, Applying, Silent
<1>5. Locals' = Locals
  BY <1>4 DEF Locals
<1>6. half'.op = "tid" /\ half'.local = i /\ half'.remote = r /\ half.op = "none"
  BY <1>1, <1>4, ThenIs, WholeIs
<1>7. /\ \/ PushName(i) = local[i].name
         \/ PushName(i) = Suffixed(local[i].name) /\ r \in apart'
      /\ apart \subseteq apart'
  BY <1>0, <1>1, PushNameIs
<1>8. i \in Locals /\ local[i].tid = None
  BY <1>0, <1>1, <1>4 DEF ListsOK, Tied
<1>9. \A j \in Locals : local[j].tid # r
  <2>1. r # None
    OBVIOUS
  <2> QED BY <1>0, <1>1, <2>1 DEF Tied
<1>10. \A q \in Remotes : q # r /\ q \in RemoteIds /\ remote'[q] = remote[q]
  BY <1>1, <1>3 DEF Remotes
<1>11. Tied'
  BY <1>0, <1>3, <1>4, <1>5 DEF Tied
<1>12. \A j \in Locals, q \in Remotes : InStep(j, q) => InStep(j, q)'
  BY <1>4, <1>7, <1>10 DEF InStep, SameName
<1>13. Marked'
  BY <1>0, <1>2, <1>3, <1>4, <1>5, <1>10, <1>12 DEF Marked, Copies
<1>14. ListsOK'
  BY <1>0, <1>3, <1>4, <1>5, <1>10 DEF ListsOK
<1>15. SameName(i, r)'
  BY <1>2, <1>3, <1>4, <1>7 DEF SameName
<1>16. HalfRows'
  BY <1>0, <1>1, <1>2, <1>3, <1>4, <1>5, <1>6, <1>8, <1>9, <1>15 DEF HalfRows, ListsOK
<1>17. Progress'
  <2>1. ASSUME NEW q \in Remotes, remote[q].deleted PROVE Gone(q)'
    BY <1>0, <1>4, <1>5, <1>6, <2>1 DEF Progress, Gone
  <2>2. ASSUME NEW q \in Remotes, ~remote[q].deleted PROVE Served(q)'
    BY <1>0, <1>4, <1>5, <1>6, <1>12, <2>2 DEF Progress, Served
  <2>3. Served(r)'
    BY <1>6 DEF Served
  <2> QED BY <1>0, <1>2, <1>3, <1>4, <1>5, <1>10, <2>1, <2>2, <2>3 DEF Progress
<1> QED BY <1>11, <1>13, <1>14, <1>16, <1>17 DEF StepInv

LEMMA PushTidRows == ASSUME StepInv, TypeInv', PushTid PROVE StepInv'
<1>0. TypeOK /\ HalfOK /\ Tied /\ Marked /\ ListsOK /\ Progress /\ HalfRows
  BY DEF StepInv, TypeInv
<1>1. /\ half.op = "tid" /\ pc = "apply" /\ pc' = "apply"
      /\ todo' = todo /\ remote' = remote /\ apart' = apart
      /\ Then("star", half.local, half.remote)
  BY DEF PushTid, After, Silent, server
<1>2. PICK i \in LocalIds, r \in RemoteIds : i = half.local /\ r = half.remote
  BY <1>0, <1>1 DEF HalfOK
<1>3. /\ i \in todo.pushes /\ local[i].tid = None
      /\ r \in Remotes \ todo.updated /\ r \notin todo.drops
      /\ ~remote[r].deleted /\ remote[r].changed
      /\ \A j \in Locals : local[j].tid # r
      /\ SameName(i, r) /\ todo.pulls = {}
  BY <1>0, <1>1, <1>2 DEF HalfRows
<1>4. i \in Locals
  BY <1>0, <1>3 DEF ListsOK
<1>5. PICK row \in LocalRow :
           /\ local' = [local EXCEPT ![i] = row]
           /\ row.exists = local[i].exists /\ row.tid = r
           /\ row.name = local[i].name /\ row.star = local[i].star
           /\ row.changed /\ row.deleted = local[i].deleted
  BY <1>0, <1>2, PushTidIs
<1>6. /\ local'[i] = row /\ \A j \in LocalIds : j # i => local'[j] = local[j]
      /\ Locals' = Locals
  <2>1. row.exists
    BY <1>4, <1>5 DEF Locals
  <2>2. /\ local'[i] = row /\ \A j \in LocalIds : j # i => local'[j] = local[j]
        /\ Locals' = Locals \cup {i}
    BY <1>0, <1>5, <2>1, LocalSet
  <2> QED BY <1>4, <2>2
<1>7. Remotes' = Remotes
  BY <1>1 DEF Remotes
<1>8. half'.op = "star" /\ half'.local = i /\ half'.remote = r
  BY <1>1, <1>2, ThenIs
<1>9. Tied'
  BY <1>0, <1>3, <1>4, <1>5, <1>6, <1>7 DEF Tied, Locals
<1>10. \A j \in Locals, q \in Remotes : InStep(j, q) => InStep(j, q)'
  BY <1>1, <1>5, <1>6 DEF InStep, SameName, Locals
<1>11. \A q \in Remotes : q # None
  BY DEF Remotes
<1>12. Marked'
  <2>1. \A q \in Remotes : q # r => \A j : j \in Copies(q)' <=> j \in Copies(q)
    BY <1>3, <1>5, <1>6, <1>11 DEF Copies, Locals
  <2>2. \A j \in Locals : local[j].changed => local'[j].changed
    BY <1>5, <1>6 DEF Locals
  <2>3. \A j \in Locals' : ~local'[j].changed => local'[j].tid \in Remotes'
    BY <1>0, <1>5, <1>6, <1>7 DEF Marked, Locals
  <2>4. ASSUME NEW q \in Remotes, ~remote[q].changed
        PROVE  IF remote[q].deleted THEN Copies(q)' = {}
               ELSE \E j \in Copies(q)' : local'[j].changed \/ InStep(j, q)'
    <3>1. q # r /\ \A j \in Copies(q) : j \in Locals
      BY <1>3, <2>4 DEF Copies
    <3> QED BY <1>0, <1>10, <2>1, <2>2, <2>4, <3>1 DEF Marked
  <2> QED BY <1>1, <1>7, <2>3, <2>4 DEF Marked
<1>13. ListsOK'
  <2>1. \A j \in Locals : /\ local'[j].deleted = local[j].deleted
                          /\ local[j].changed => local'[j].changed
    BY <1>5, <1>6 DEF Locals
  <2> QED BY <1>0, <1>1, <1>6, <1>7, <2>1 DEF ListsOK
<1>14. SameName(i, r)'
  BY <1>1, <1>3, <1>5, <1>6 DEF SameName
<1>15. HalfRows'
  BY <1>1, <1>3, <1>5, <1>6, <1>7, <1>8, <1>14 DEF HalfRows
<1>16. Progress'
  <2>1. ASSUME NEW q \in Remotes, remote[q].deleted PROVE Gone(q)'
    <3>1. Gone(q) /\ q # r /\ q # None
      BY <1>0, <1>1, <1>3, <1>11, <2>1 DEF Progress
    <3> QED BY <1>1, <1>3, <1>5, <1>6, <1>8, <3>1 DEF Gone, Locals
  <2>2. ASSUME NEW q \in Remotes, ~remote[q].deleted PROVE Served(q)'
    <3>1. CASE q = r
      BY <1>1, <1>3, <1>4, <1>5, <1>6, <3>1 DEF Served
    <3>2. CASE q # r
      <4>1. PICK j \in Locals : /\ local[j].tid = q
                                /\ \/ InStep(j, q)
                                   \/ j \in todo.pushes /\ q \notin todo.updated
                                   \/ j \in todo.erases
        BY <1>0, <1>1, <1>2, <1>3, <2>2, <3>2 DEF Progress, Served
      <4>2. j # i /\ j \in LocalIds
        BY <1>3, <1>11, <4>1 DEF Locals
      <4> QED BY <1>1, <1>6, <1>10, <4>1, <4>2 DEF Served
    <3> QED BY <3>1, <3>2
  <2>3. \A j \in Locals' : local'[j].tid = None => j \in todo'.pushes \cup todo'.erases
    BY <1>0, <1>1, <1>3, <1>6 DEF Progress, Locals
  <2> QED BY <1>1, <1>7, <2>1, <2>2, <2>3 DEF Progress
<1> QED BY <1>9, <1>12, <1>13, <1>15, <1>16 DEF StepInv

LEMMA PushUpdateRows ==
  ASSUME StepInv, TypeInv', NEW i \in LocalIds, PushUpdate(i), ~Refuse PROVE StepInv'
<1>0. TypeOK /\ Tied /\ Marked /\ ListsOK /\ Progress
  BY DEF StepInv, TypeInv
<1>1. PICK r \in RemoteIds, row \in RemoteRow :
        /\ Pushing(i) /\ r = local[i].tid /\ r \in Remotes \ todo.updated
        /\ Renamed(i, r) /\ Then("star", i, r)
        /\ Silent /\ UNCHANGED <<client, rtags, rtagsChanged, todo>>
        /\ remote' = [remote EXCEPT ![r] = row] /\ row.exists
        /\ row.name = PushName(i) /\ row.deleted = remote[r].deleted
        /\ remote[r].changed => row.changed
        /\ row.changed \/ (row.name = remote[r].name /\ row.star = remote[r].star)
  BY <1>0, PushUpdateIs
<1>2. /\ remote'[r] = row /\ \A q \in RemoteIds : q # r => remote'[q] = remote[q]
      /\ Remotes' = Remotes
  <2>1. /\ remote'[r] = row /\ \A q \in RemoteIds : q # r => remote'[q] = remote[q]
        /\ Remotes' = Remotes \cup {r}
    BY <1>0, <1>1, RemoteSet
  <2> QED BY <1>1, <2>1
<1>3. /\ local' = local /\ todo' = todo /\ half = Whole /\ pc = "apply" /\ pc' = "apply"
      /\ todo.pulls = {} /\ i \in todo.pushes
  BY <1>1 DEF client, Pushing, Applying, Silent
<1>4. Locals' = Locals
  BY <1>3 DEF Locals
<1>5. half'.op = "star" /\ half'.local = i /\ half'.remote = r /\ half.op = "none"
  BY <1>1, <1>3, ThenIs, WholeIs
<1>6. /\ \/ PushName(i) = local[i].name
         \/ PushName(i) = Suffixed(local[i].name) /\ r \in apart'
      /\ apart \subseteq apart'
  BY <1>0, <1>1, PushNameIs
<1>7. i \in Locals
  BY <1>0, <1>3 DEF ListsOK
<1>8. \A q \in Remotes : /\ q \in RemoteIds /\ remote'[q].deleted = remote[q].deleted
                         /\ remote[q].changed => remote'[q].changed
  BY <1>1, <1>2 DEF Remotes
<1>9. Tied'
  BY <1>0, <1>2, <1>3, <1>4 DEF Tied
<1>10. \A j \in Locals, q \in Remotes :
         InStep(j, q) /\ (q # r \/ ~row.changed) => InStep(j, q)'
  <2>1. ASSUME NEW j \in Locals, NEW q \in Remotes, InStep(j, q), q # r \/ ~row.changed
        PROVE  InStep(j, q)'
    <3>1. remote'[q].name = remote[q].name /\ remote'[q].star = remote[q].star
      BY <1>1, <1>2, <1>8, <2>1
    <3> QED BY <1>3, <1>6, <2>1, <3>1 DEF InStep, SameName
  <2> QED BY <2>1
<1>11. Marked'
  <2>1. \A j \in Locals' : ~local'[j].changed => local'[j].tid \in Remotes'
    BY <1>0, <1>2, <1>3, <1>4 DEF Marked
  <2>2. \A q \in Remotes : Copies(q)' = Copies(q) /\ Copies(q) \subseteq Locals
    BY <1>3, <1>4 DEF Copies
  <2>3. ASSUME NEW q \in Remotes, ~remote'[q].changed
        PROVE  IF remote'[q].deleted THEN Copies(q)' = {}
               ELSE \E j \in Copies(q)' : local'[j].changed \/ InStep(j, q)'
    <3>1. ~remote[q].changed /\ remote'[q].deleted = remote[q].deleted
      BY <1>8, <2>3
    <3>2. q # r \/ ~row.changed
      BY <1>2, <2>3
    <3> QED BY <1>0, <1>3, <1>10, <2>2, <3>1, <3>2 DEF Marked
  <2> QED BY <1>2, <2>1, <2>3 DEF Marked
<1>12. ListsOK'
  BY <1>0, <1>2, <1>3, <1>4, <1>8 DEF ListsOK
<1>13. SameName(i, r)'
  BY <1>1, <1>2, <1>3, <1>6 DEF SameName
<1>14. HalfRows'
  BY <1>1, <1>2, <1>3, <1>5, <1>13 DEF HalfRows
<1>15. Progress'
  <2>1. ASSUME NEW q \in Remotes, remote[q].deleted PROVE Gone(q)'
    BY <1>0, <1>3, <1>4, <1>5, <2>1 DEF Progress, Gone
  <2>2. ASSUME NEW q \in Remotes, ~remote[q].deleted PROVE Served(q)'
    <3>1. CASE q = r
      BY <1>1, <1>3, <1>4, <1>7, <3>1 DEF Served
    <3>2. CASE q # r
      BY <1>0, <1>3, <1>4, <1>5, <1>10, <2>2, <3>2 DEF Progress, Served
    <3> QED BY <3>1, <3>2
  <2> QED BY <1>0, <1>2, <1>3, <1>4, <1>8, <2>1, <2>2 DEF Progress
<1> QED BY <1>9, <1>11, <1>12, <1>14, <1>15 DEF StepInv

LEMMA PushStarRows == ASSUME StepInv, TypeInv', PushStar PROVE StepInv'
<1>0. TypeOK /\ HalfOK /\ Tied /\ Marked /\ ListsOK /\ Progress /\ HalfRows
  BY DEF StepInv, TypeInv
<1>1. /\ half.op = "star" /\ pc = "apply" /\ pc' = "apply" /\ half' = Whole
      /\ todo' = [todo EXCEPT !.pushes = @ \ {half.local}] /\ local' = local /\ apart' = apart
  BY DEF PushStar, After, Silent, client
<1>2. PICK i \in LocalIds, r \in RemoteIds : i = half.local /\ r = half.remote
  BY <1>0, <1>1 DEF HalfOK
<1>3. /\ i \in todo.pushes /\ local[i].tid = r /\ r \in Remotes \ todo.updated
      /\ SameName(i, r) /\ todo.pulls = {}
  BY <1>0, <1>1, <1>2 DEF HalfRows
<1>4. i \in Locals
  BY <1>0, <1>3 DEF ListsOK
<1>5. PICK row \in RemoteRow :
           /\ remote' = [remote EXCEPT ![r] = row]
           /\ row.exists = remote[r].exists
           /\ row.name = remote[r].name /\ row.star = local[i].star
           /\ row.deleted = remote[r].deleted
           /\ remote[r].changed => row.changed
           /\ row.changed \/ row.star = remote[r].star
  BY <1>0, <1>2, PushStarIs
<1>6. /\ remote'[r] = row /\ \A q \in RemoteIds : q # r => remote'[q] = remote[q]
      /\ Remotes' = Remotes
  <2>1. row.exists
    BY <1>3, <1>5 DEF Remotes
  <2>2. /\ remote'[r] = row /\ \A q \in RemoteIds : q # r => remote'[q] = remote[q]
        /\ Remotes' = Remotes \cup {r}
    BY <1>0, <1>5, <2>1, RemoteSet
  <2> QED BY <1>3, <2>2
<1>7. Locals' = Locals
  BY <1>1 DEF Locals
<1>8. \A q \in Remotes : /\ q \in RemoteIds /\ remote'[q].deleted = remote[q].deleted
                         /\ remote'[q].name = remote[q].name
                         /\ remote[q].changed => remote'[q].changed
                         /\ remote'[q].changed \/ remote'[q].star = remote[q].star
                         /\ q # r => remote'[q].star = remote[q].star
  BY <1>5, <1>6 DEF Remotes
<1>9. /\ todo'.pulls = todo.pulls /\ todo'.updated = todo.updated
      /\ todo'.pushes = todo.pushes \ {i} /\ todo'.drops = todo.drops
      /\ todo'.erases = todo.erases
  BY <1>0, <1>1, <1>2, LessTodo DEF TypeOK
<1>10. half.op # "tid" /\ half.op # "eraseLocal" /\ half'.op = "none"
  BY <1>1, WholeIs
<1>11. Tied'
  BY <1>0, <1>1, <1>6, <1>7 DEF Tied
<1>12. \A j \in Locals, q \in Remotes :
         InStep(j, q) /\ (q # r \/ ~remote'[q].changed) => InStep(j, q)'
  BY <1>1, <1>8 DEF InStep, SameName
<1>13. InStep(i, r)'
  BY <1>1, <1>3, <1>5, <1>6 DEF InStep, SameName
<1>14. Marked'
  <2>1. \A j \in Locals' : ~local'[j].changed => local'[j].tid \in Remotes'
    BY <1>0, <1>1, <1>6, <1>7 DEF Marked
  <2>2. \A q \in Remotes : Copies(q)' = Copies(q) /\ Copies(q) \subseteq Locals
    BY <1>1, <1>7 DEF Copies
  <2>3. ASSUME NEW q \in Remotes, ~remote'[q].changed
        PROVE  IF remote'[q].deleted THEN Copies(q)' = {}
               ELSE \E j \in Copies(q)' : local'[j].changed \/ InStep(j, q)'
    <3>1. ~remote[q].changed /\ remote'[q].deleted = remote[q].deleted
      BY <1>8, <2>3
    <3> QED BY <1>0, <1>1, <1>12, <2>2, <2>3, <3>1 DEF Marked
  <2> QED BY <1>6, <2>1, <2>3 DEF Marked
<1>15. ListsOK'
  BY <1>0, <1>1, <1>6, <1>7, <1>8, <1>9 DEF ListsOK
<1>16. HalfRows'
  BY <1>1, WholeRows
<1>17. Progress'
  <2>1. ASSUME NEW q \in Remotes, remote[q].deleted PROVE Gone(q)'
    BY <1>0, <1>1, <1>7, <1>9, <1>10, <2>1 DEF Progress, Gone
  <2>2. ASSUME NEW q \in Remotes, ~remote[q].deleted PROVE Served(q)'
    <3>1. CASE q = r
      BY <1>1, <1>3, <1>4, <1>7, <1>13, <3>1 DEF Served
    <3>2. CASE q # r
      <4>1. Served(q)
        BY <1>0, <1>1, <2>2 DEF Progress
      <4>2. CASE q \in todo.pulls
        BY <1>3, <4>2
      <4>3. CASE q \notin todo.pulls
        <5>1. PICK j \in Locals : /\ local[j].tid = q
                                  /\ \/ InStep(j, q)
                                     \/ j \in todo.pushes /\ q \notin todo.updated
                                     \/ j \in todo.erases
          BY <1>10, <4>1, <4>3 DEF Served
        <5>2. j # i
          BY <1>3, <3>2, <5>1
        <5> QED BY <1>1, <1>7, <1>9, <1>12, <3>2, <5>1, <5>2 DEF Served
      <4> QED BY <4>2, <4>3
    <3> QED BY <3>1, <3>2
  <2>3. \A j \in Locals : local[j].tid = None => j \in todo'.pushes \cup todo'.erases
    <3>1. r # None
      OBVIOUS
    <3> QED BY <1>0, <1>1, <1>3, <1>9, <3>1 DEF Progress
  <2> QED BY <1>1, <1>6, <1>7, <1>8, <2>1, <2>2, <2>3 DEF Progress
<1> QED BY <1>11, <1>14, <1>15, <1>16, <1>17 DEF StepInv

\* Steps that write no keyword: the lists may get shorter where nothing depends on it.
LEMMA ListRows ==
  ASSUME StepInv, TypeInv', local' = local, remote' = remote, apart' = apart,
         pc = "apply", pc' = "apply",
         todo'.updated = todo.updated, todo'.pulls = todo.pulls,
         todo'.pushes \subseteq todo.pushes, todo'.drops \subseteq todo.drops,
         todo'.erases = todo.erases,
         half.op \notin {"tid", "eraseLocal"},
         \A i \in todo.pushes \ todo'.pushes : local[i].tid \in todo.updated,
         \A r \in todo.drops \ todo'.drops : Copies(r) = {},
         HalfRows'
  PROVE  StepInv'
<1>0. TypeOK /\ Tied /\ Marked /\ ListsOK /\ Progress
  BY DEF StepInv, TypeInv
<1>1. Locals' = Locals /\ Remotes' = Remotes
  BY DEF Locals, Remotes
<1>2. Tied' /\ Marked'
  BY <1>0, <1>1 DEF Tied, Marked, Copies, InStep, SameName
<1>3. ListsOK'
  BY <1>0, <1>1 DEF ListsOK
<1>4. ASSUME NEW q \in Remotes, remote[q].deleted PROVE Gone(q)'
  <2>1. q \in todo.drops \/ \A i \in Locals : local[i].tid # q
    BY <1>0, <1>4 DEF Progress, Gone
  <2>2. q \in todo.drops \ todo'.drops => \A i \in Locals : local[i].tid # q
    BY DEF Copies
  <2> QED BY <1>1, <2>1, <2>2 DEF Gone
<1>5. ASSUME NEW q \in Remotes, ~remote[q].deleted PROVE Served(q)'
  <2>1. Served(q)
    BY <1>0, <1>5 DEF Progress
  <2>2. CASE q \in todo.pulls
    BY <2>2 DEF Served
  <2>3. CASE q \notin todo.pulls
    <3>1. PICK j \in Locals : /\ local[j].tid = q
                              /\ \/ InStep(j, q)
                                 \/ j \in todo.pushes /\ q \notin todo.updated
                                 \/ j \in todo.erases
      BY <2>1, <2>3 DEF Served
    <3>2. InStep(j, q) => InStep(j, q)'
      BY DEF InStep, SameName
    <3>3. j \in todo.pushes /\ q \notin todo.updated => j \in todo'.pushes
      BY <3>1
    <3> QED BY <1>1, <3>1, <3>2, <3>3 DEF Served
  <2> QED BY <2>2, <2>3
<1>6. \A i \in Locals : local[i].tid = None => i \in todo'.pushes \cup todo'.erases
  <2>1. None \notin todo.updated
    BY <1>0 DEF ListsOK, Remotes
  <2> QED BY <1>0, <2>1 DEF Progress
<1>7. Progress'
  BY <1>1, <1>4, <1>5, <1>6 DEF Progress
<1> QED BY <1>2, <1>3, <1>7 DEF StepInv

LEMMA PushSkipRows ==
  ASSUME StepInv, TypeInv', NEW i \in LocalIds, PushSkip(i) PROVE StepInv'
<1>0. TypeOK
  BY DEF StepInv, TypeInv
<1>1. /\ pc = "apply" /\ pc' = "apply" /\ half = Whole /\ half' = half
      /\ local' = local /\ remote' = remote /\ apart' = apart
      /\ todo' = [todo EXCEPT !.pushes = @ \ {i}] /\ local[i].tid \in todo.updated
  BY DEF PushSkip, Pushing, Applying, Silent, client, server
<1>2. /\ todo'.pulls = todo.pulls /\ todo'.updated = todo.updated
      /\ todo'.pushes = todo.pushes \ {i} /\ todo'.drops = todo.drops
      /\ todo'.erases = todo.erases
  BY <1>0, <1>1, LessTodo DEF TypeOK
<1>3. half.op = "none" /\ HalfRows'
  BY <1>1, WholeIs, WholeRows
<1> QED BY <1>1, <1>2, <1>3, ListRows

LEMMA TaskRows == ASSUME StepInv, TypeInv', TaskStep PROVE StepInv'
<1>0. TypeOK
  BY DEF StepInv, TypeInv
<1>1. pc = "apply" /\ pc' = "apply" /\ local' = local /\ remote' = remote /\ apart' = apart
  <2>1. PullTags /\ ~Refuse => /\ pc = "apply" /\ Silent
                               /\ local' = local /\ remote' = remote /\ apart' = apart
    BY DEF PullTags, After, server
  <2>2. PushTags => /\ pc = "apply" /\ Silent
                    /\ local' = local /\ remote' = remote /\ apart' = apart
    BY DEF PushTags, After, client
  <2>3. \A t \in Tasks : PullTask(t) => /\ pc = "apply" /\ Silent
                                        /\ local' = local /\ remote' = remote /\ apart' = apart
    BY DEF PullTask, Applying, server
  <2>4. \A t \in Tasks : PushTask(t) => /\ pc = "apply" /\ Silent
                                        /\ local' = local /\ remote' = remote /\ apart' = apart
    BY DEF PushTask, Applying, client
  <2> QED BY <2>1, <2>2, <2>3, <2>4 DEF TaskStep, Silent
<1>2. /\ todo'.updated = todo.updated /\ todo'.pulls = todo.pulls
      /\ todo'.pushes = todo.pushes /\ todo'.drops = todo.drops
      /\ todo'.erases = todo.erases
  <2>1. \/ todo' = todo
        \/ \E t : todo' = [todo EXCEPT !.taskPulls = @ \ {t}]
        \/ \E t : todo' = [todo EXCEPT !.taskPushes = @ \ {t}]
    BY DEF TaskStep, PullTags, PushTags, PullTask, PushTask
  <2> QED BY <1>0, <2>1, LessTodo DEF TypeOK
<1>3. half.op \in {"none", "pullTags", "pushTags"} /\ half'.op \in {"none", "pullTags", "pushTags"}
  <2>1. PullTags /\ ~Refuse => half.op = "pullTags" /\ half' = Whole
    BY DEF PullTags, After
  <2>2. PushTags => half.op = "pushTags" /\ half' = Whole
    BY DEF PushTags, After
  <2>3. ASSUME NEW t \in Tasks, PullTask(t) PROVE half = Whole /\ half'.op = "pullTags"
    BY <2>3, ThenIs DEF PullTask, Applying
  <2>4. ASSUME NEW t \in Tasks, PushTask(t)
        PROVE  half = Whole /\ (half' = Whole \/ half'.op = "pushTags")
    <3>1. half = Whole /\ (half' = half \/ Then("pushTags", t, None))
      BY <2>4 DEF PushTask, Applying
    <3> QED BY <3>1, ThenIs
  <2> QED BY <2>1, <2>2, <2>3, <2>4, WholeIs DEF TaskStep
<1>4. HalfRows'
  BY <1>3 DEF HalfRows
<1> QED BY <1>1, <1>2, <1>3, <1>4, ListRows

\* A keyword goes; the server row that it is a copy of, if any, is deleted.
LEMMA GoneRows ==
  ASSUME StepInv, TypeInv', NEW i \in LocalIds, local' = [local EXCEPT ![i] = NoLocal],
         remote' = remote, apart' = apart, pc = "apply", pc' = "apply", half' = Whole,
         todo'.updated = todo.updated, todo'.pulls = {}, todo.pulls = {},
         todo'.pushes = {}, todo.pushes = {}, todo'.drops \subseteq todo.drops,
         \A r \in todo.drops \ todo'.drops : i \in Copies(r),
         \A j \in todo.erases : j = i \/ j \in todo'.erases,
         todo'.erases \subseteq todo.erases,
         half.op # "tid", half.op = "eraseLocal" => half.local = i,
         i \in Locals => local[i].tid = None \/ (/\ remote[local[i].tid].deleted
                                                /\ remote[local[i].tid].changed)
  PROVE  StepInv'
<1>0. TypeOK /\ Tied /\ Marked /\ ListsOK /\ Progress
  BY DEF StepInv, TypeInv
<1>1. /\ local'[i].exists = FALSE /\ local'[i].tid = None
      /\ \A j \in LocalIds : j # i => local'[j] = local[j]
      /\ Locals' = Locals \ {i}
  <2>1. NoLocal \in LocalRow /\ NoLocal.exists = FALSE /\ NoLocal.tid = None
    BY NewRows DEF NoLocal
  <2> QED BY <1>0, <2>1, LocalSet
<1>2. Remotes' = Remotes
  BY DEF Remotes
<1>3. \A j \in Locals' : j \in Locals /\ j # i /\ local'[j] = local[j]
  BY <1>1 DEF Locals
<1>4. Tied'
  BY <1>0, <1>1, <1>2, <1>3 DEF Tied
<1>5. \A q \in Remotes : q # None
  BY DEF Remotes
<1>6. ASSUME NEW q \in Remotes, ~remote[q].deleted \/ ~remote[q].changed
      PROVE  \A j \in Locals : local[j].tid = q => j # i /\ j \in Locals'
  BY <1>1, <1>5, <1>6
<1>7. Marked'
  <2>1. \A j \in Locals' : ~local'[j].changed => local'[j].tid \in Remotes'
    BY <1>0, <1>2, <1>3 DEF Marked
  <2>2. ASSUME NEW q \in Remotes, ~remote[q].changed
        PROVE  IF remote[q].deleted THEN Copies(q)' = {}
               ELSE \E j \in Copies(q)' : local'[j].changed \/ InStep(j, q)'
    <3>1. CASE remote[q].deleted
      BY <1>0, <1>3, <2>2, <3>1 DEF Marked, Copies
    <3>2. CASE ~remote[q].deleted
      <4>1. PICK j \in Locals : local[j].tid = q /\ (local[j].changed \/ InStep(j, q))
        BY <1>0, <2>2, <3>2 DEF Marked, Copies
      <4>2. j \in Locals' /\ local'[j] = local[j]
        BY <1>3, <1>6, <2>2, <4>1
      <4> QED BY <3>2, <4>1, <4>2 DEF Copies, InStep, SameName
    <3> QED BY <3>1, <3>2
  <2> QED BY <1>2, <2>1, <2>2 DEF Marked
<1>8. ListsOK'
  BY <1>0, <1>2, <1>3 DEF ListsOK
<1>9. HalfRows'
  BY WholeRows
<1>10. ASSUME NEW q \in Remotes, remote[q].deleted PROVE Gone(q)'
  <2>1. \/ q \in todo.drops \/ \A j \in Locals : local[j].tid # q
        \/ i \in Locals /\ local[i].tid = q
    BY <1>0, <1>10 DEF Progress, Gone
  <2>2. ASSUME i \in Locals, local[i].tid = q PROVE \A j \in Locals' : local'[j].tid # q
    <3>1. \A j \in Locals : local[j].tid = q => j = i
      BY <1>0, <2>2 DEF Tied
    <3> QED BY <1>3, <3>1
  <2>3. (\A j \in Locals : local[j].tid # q) => \A j \in Locals' : local'[j].tid # q
    BY <1>3
  <2>4. q \in todo.drops => q \in todo'.drops \/ (i \in Locals /\ local[i].tid = q)
    BY DEF Copies
  <2> QED BY <2>1, <2>2, <2>3, <2>4 DEF Gone
<1>11. ASSUME NEW q \in Remotes, ~remote[q].deleted PROVE Served(q)'
  <2>1. PICK j \in Locals : local[j].tid = q /\ (InStep(j, q) \/ j \in todo.erases)
    BY <1>0, <1>11 DEF Progress, Served
  <2>2. j \in Locals' /\ local'[j] = local[j] /\ j # i
    BY <1>3, <1>6, <1>11, <2>1
  <2> QED BY <2>1, <2>2 DEF Served, InStep, SameName
<1>12. Progress'
  BY <1>0, <1>2, <1>3, <1>10, <1>11 DEF Progress
<1> QED BY <1>4, <1>7, <1>8, <1>9, <1>12 DEF StepInv

LEMMA DropRows ==
  ASSUME StepInv, TypeInv', DropTags \/ Drop \/ \E r \in RemoteIds : DropThere(r)
  PROVE  StepInv'
<1>0. TypeOK /\ HalfOK /\ ListsOK /\ HalfRows
  BY DEF StepInv, TypeInv
<1>1. ASSUME NEW r \in RemoteIds, DropThere(r) PROVE StepInv'
  <2>1. /\ pc = "apply" /\ pc' = "apply" /\ half = Whole /\ TasksDone /\ r \in todo.drops
        /\ local' = local /\ remote' = remote /\ apart' = apart
    BY <1>1 DEF DropThere, Applying, Silent, client
  <2>2. half.op = "none" /\ todo.pulls = {} /\ todo.pushes = {}
    BY <2>1, WholeIs DEF TasksDone, KeywordsDone
  <2>3. CASE Copies(r) = {}
    <3>1. todo' = [todo EXCEPT !.drops = @ \ {r}] /\ half' = half
      BY <1>1, <2>3 DEF DropThere
    <3>2. /\ todo'.pulls = todo.pulls /\ todo'.updated = todo.updated
          /\ todo'.pushes = todo.pushes /\ todo'.drops = todo.drops \ {r}
          /\ todo'.erases = todo.erases
      BY <1>0, <3>1, LessTodo DEF TypeOK
    <3>3. HalfRows'
      BY <2>1, <3>1, WholeRows
    <3> QED BY <2>1, <2>2, <2>3, <3>2, <3>3, ListRows
  <2>4. CASE Copies(r) # {}
    <3>1. Copies(r) \in SUBSET (0..MaxLocal)
      BY DEF Copies, Locals
    <3>2. PICK i \in Copies(r) : i = Max(Copies(r))
      BY <2>4, <3>1, MaxIs
    <3>3. Then("dropTags", i, r) /\ todo' = todo
      BY <1>1, <2>4, <3>2 DEF DropThere
    <3>4. half'.op = "dropTags" /\ half'.local = i /\ half'.remote = r
      BY <3>3, ThenIs
    <3>5. i \in Locals' /\ local'[i].tid = r
      BY <2>1 DEF Copies, Locals
    <3>6. HalfRows'
      BY <2>1, <2>2, <3>3, <3>4, <3>5 DEF HalfRows
    <3> QED BY <2>1, <2>2, <3>3, <3>6, ListRows
  <2> QED BY <2>3, <2>4
<1>2. CASE DropTags
  <2>1. /\ pc = "apply" /\ pc' = "apply" /\ half.op = "dropTags" /\ todo' = todo
        /\ local' = local /\ remote' = remote /\ apart' = apart
        /\ Then("drop", half.local, half.remote)
    BY <1>2 DEF DropTags, After, Silent, server
  <2>2. half'.op = "drop" /\ half'.local = half.local /\ half'.remote = half.remote
    BY <2>1, ThenIs
  <2>3. Locals' = Locals
    BY <2>1 DEF Locals
  <2>4. HalfRows'
    BY <1>0, <2>1, <2>2, <2>3 DEF HalfRows
  <2> QED BY <2>1, <2>4, ListRows
<1>3. CASE Drop
  <2>1. /\ pc = "apply" /\ pc' = "apply" /\ half.op = "drop" /\ half' = Whole
        /\ local' = [local EXCEPT ![half.local] = NoLocal]
        /\ todo' = [todo EXCEPT !.drops = @ \ {half.remote}]
        /\ remote' = remote /\ apart' = apart
    BY <1>3 DEF Drop, After, Silent, server
  <2>2. PICK i \in LocalIds, r \in RemoteIds : i = half.local /\ r = half.remote
    BY <1>0, <2>1 DEF HalfOK
  <2>3. /\ i \in Locals /\ local[i].tid = r /\ r \in todo.drops
        /\ todo.pulls = {} /\ todo.pushes = {}
    BY <1>0, <2>1, <2>2 DEF HalfRows
  <2>4. /\ todo'.pulls = todo.pulls /\ todo'.updated = todo.updated
        /\ todo'.pushes = todo.pushes /\ todo'.drops = todo.drops \ {r}
        /\ todo'.erases = todo.erases
    BY <1>0, <2>1, <2>2, LessTodo DEF TypeOK
  <2>5. remote[r].deleted /\ remote[r].changed
    BY <1>0, <2>3 DEF ListsOK
  <2>6. i \in Copies(r)
    BY <2>3 DEF Copies
  <2> QED BY <2>1, <2>2, <2>3, <2>4, <2>5, <2>6, GoneRows
<1> QED BY <1>1, <1>2, <1>3

LEMMA EraseRows ==
  ASSUME StepInv, TypeInv', \/ \E i \in LocalIds : EraseTags(i)
                            \/ EraseThere \/ EraseLocal
  PROVE  StepInv'
<1>0. TypeOK /\ HalfOK /\ ListsOK /\ HalfRows /\ Tied
  BY DEF StepInv, TypeInv
<1>1. ASSUME NEW i \in LocalIds, EraseTags(i) PROVE StepInv'
  <2>1. /\ pc = "apply" /\ pc' = "apply" /\ half = Whole /\ todo' = todo
        /\ local' = local /\ remote' = remote /\ apart' = apart
        /\ todo.drops = {} /\ TasksDone /\ i \in todo.erases
    BY <1>1 DEF EraseTags, Applying, Silent, server
  <2>2. half.op = "none" /\ todo.pulls = {} /\ todo.pushes = {}
    BY <2>1, WholeIs DEF TasksDone, KeywordsDone
  <2>3. Locals' = Locals /\ Remotes' = Remotes
    BY <2>1 DEF Locals, Remotes
  <2>4. CASE local[i].tid \in Remotes
    <3>1. PICK r \in Remotes : r = local[i].tid
      BY <2>4
    <3>2. Then("eraseThere", i, r)
      BY <1>1, <3>1 DEF EraseTags
    <3>3. half'.op = "eraseThere" /\ half'.local = i /\ half'.remote = r
      BY <3>2, ThenIs
    <3>4. i \in Locals
      <4>1. r # None
        BY DEF Remotes
      <4> QED BY <1>0, <3>1, <4>1 DEF Tied
    <3>5. HalfRows'
      BY <2>1, <2>2, <2>3, <3>1, <3>3, <3>4 DEF HalfRows
    <3> QED BY <2>1, <2>2, <3>5, ListRows
  <2>5. CASE local[i].tid \notin Remotes
    <3>1. Then("eraseLocal", i, None)
      BY <1>1, <2>5 DEF EraseTags
    <3>2. half'.op = "eraseLocal" /\ half'.local = i
      BY <3>1, ThenIs
    <3>3. i \in Locals => local[i].tid = None
      BY <1>0, <2>5 DEF Tied
    <3>4. HalfRows'
      BY <2>1, <2>2, <2>3, <3>2, <3>3 DEF HalfRows
    <3> QED BY <2>1, <2>2, <3>4, ListRows
  <2> QED BY <2>4, <2>5
<1>2. CASE EraseThere
  <2>1. /\ pc = "apply" /\ pc' = "apply" /\ half.op = "eraseThere" /\ todo' = todo
        /\ local' = local /\ remote' = remote /\ apart' = apart
        /\ Then("mark", half.local, half.remote)
    BY <1>2 DEF EraseThere, After, Silent, client
  <2>2. half'.op = "mark" /\ half'.local = half.local /\ half'.remote = half.remote
    BY <2>1, ThenIs
  <2>3. Locals' = Locals /\ Remotes' = Remotes
    BY <2>1 DEF Locals, Remotes
  <2>4. HalfRows'
    BY <1>0, <2>1, <2>2, <2>3 DEF HalfRows
  <2> QED BY <2>1, <2>4, ListRows
<1>3. CASE EraseLocal
  <2>1. /\ pc = "apply" /\ pc' = "apply" /\ half.op = "eraseLocal" /\ half' = Whole
        /\ local' = [local EXCEPT ![half.local] = NoLocal]
        /\ todo' = [todo EXCEPT !.erases = @ \ {half.local}]
        /\ remote' = remote /\ apart' = apart
    BY <1>3 DEF EraseLocal, After, Silent, server
  <2>2. PICK i \in LocalIds : i = half.local
    BY <1>0, <2>1 DEF HalfOK
  <2>3. /\ i \in Locals => local[i].tid = None \/ (/\ remote[local[i].tid].deleted
                                                   /\ remote[local[i].tid].changed)
        /\ todo.pulls = {} /\ todo.pushes = {} /\ todo.drops = {}
    BY <1>0, <2>1, <2>2 DEF HalfRows
  <2>4. /\ todo'.pulls = todo.pulls /\ todo'.updated = todo.updated
        /\ todo'.pushes = todo.pushes /\ todo'.drops = todo.drops
        /\ todo'.erases = todo.erases \ {i}
    BY <1>0, <2>1, <2>2, LessTodo DEF TypeOK
  <2> QED BY <2>1, <2>2, <2>3, <2>4, GoneRows
<1> QED BY <1>1, <1>2, <1>3

LEMMA MarkRows == ASSUME StepInv, TypeInv', Mark PROVE StepInv'
<1>0. TypeOK /\ HalfOK /\ Tied /\ Marked /\ ListsOK /\ Progress /\ HalfRows
  BY DEF StepInv, TypeInv
<1>1. /\ half.op = "mark" /\ pc = "apply" /\ pc' = "apply"
      /\ todo' = todo /\ local' = local /\ apart' = apart
      /\ Then("eraseLocal", half.local, None)
  BY DEF Mark, After, Silent, client
<1>2. PICK i \in LocalIds, r \in RemoteIds : i = half.local /\ r = half.remote
  BY <1>0, <1>1 DEF HalfOK
<1>3. /\ i \in todo.erases \cap Locals /\ local[i].tid = r /\ r \in Remotes
      /\ todo.drops = {} /\ todo.pulls = {} /\ todo.pushes = {}
  BY <1>0, <1>1, <1>2 DEF HalfRows
<1>4. PICK row \in RemoteRow :
           /\ remote' = [remote EXCEPT ![r] = row]
           /\ row.exists = remote[r].exists /\ row.name = remote[r].name /\ row.deleted
           /\ remote[r].changed \/ ~remote[r].deleted => row.changed
  BY <1>0, <1>2, MarkIs
<1>5. /\ remote'[r] = row /\ \A q \in RemoteIds : q # r => remote'[q] = remote[q]
      /\ Remotes' = Remotes
  <2>1. row.exists
    BY <1>3, <1>4 DEF Remotes
  <2>2. /\ remote'[r] = row /\ \A q \in RemoteIds : q # r => remote'[q] = remote[q]
        /\ Remotes' = Remotes \cup {r}
    BY <1>0, <1>4, <2>1, RemoteSet
  <2> QED BY <1>3, <2>2
<1>6. Locals' = Locals
  BY <1>1 DEF Locals
<1>7. row.changed
  <2>1. i \in Copies(r)
    BY <1>3 DEF Copies
  <2>2. remote[r].changed \/ ~remote[r].deleted
    BY <1>0, <1>3, <2>1 DEF Marked
  <2> QED BY <1>4, <2>2
<1>8. half'.op = "eraseLocal" /\ half'.local = i
  BY <1>1, <1>2, ThenIs
<1>9. \A q \in Remotes : q # r => q \in RemoteIds /\ remote'[q] = remote[q]
  BY <1>5 DEF Remotes
<1>10. Tied'
  BY <1>0, <1>1, <1>5, <1>6 DEF Tied
<1>11. \A q \in Remotes, j \in Locals : q # r /\ InStep(j, q) => InStep(j, q)'
  BY <1>1, <1>9 DEF InStep, SameName
<1>12. Marked'
  <2>1. \A q \in Remotes : Copies(q)' = Copies(q) /\ Copies(q) \subseteq Locals
    BY <1>1, <1>6 DEF Copies
  <2>2. ASSUME NEW q \in Remotes, ~remote'[q].changed
        PROVE  IF remote'[q].deleted THEN Copies(q)' = {}
               ELSE \E j \in Copies(q)' : local'[j].changed \/ InStep(j, q)'
    <3>1. q # r
      BY <1>5, <1>7, <2>2
    <3> QED BY <1>0, <1>1, <1>9, <1>11, <2>1, <2>2, <3>1 DEF Marked
  <2> QED BY <1>0, <1>1, <1>5, <1>6, <2>2 DEF Marked
<1>13. ListsOK'
  BY <1>0, <1>1, <1>3, <1>5, <1>6 DEF ListsOK
<1>14. HalfRows'
  BY <1>1, <1>3, <1>4, <1>5, <1>7, <1>8 DEF HalfRows
<1>15. Progress'
  <2>1. ASSUME NEW q \in Remotes, remote'[q].deleted PROVE Gone(q)'
    <3>1. CASE q = r
      BY <1>1, <1>3, <1>6, <1>8, <3>1 DEF Gone
    <3>2. CASE q # r
      <4>1. \A j \in Locals : local[j].tid # q
        BY <1>0, <1>1, <1>3, <1>9, <2>1, <3>2 DEF Progress, Gone
      <4> QED BY <1>1, <1>6, <4>1 DEF Gone
    <3> QED BY <3>1, <3>2
  <2>2. ASSUME NEW q \in Remotes, ~remote'[q].deleted PROVE Served(q)'
    <3>1. q # r /\ ~remote[q].deleted
      BY <1>4, <1>5, <1>9, <2>2
    <3>2. PICK j \in Locals : local[j].tid = q /\ (InStep(j, q) \/ j \in todo.erases)
      BY <1>0, <1>1, <1>3, <3>1 DEF Progress, Served
    <3> QED BY <1>1, <1>6, <1>11, <3>1, <3>2 DEF Served
  <2> QED BY <1>0, <1>1, <1>5, <1>6, <2>1, <2>2 DEF Progress
<1> QED BY <1>10, <1>12, <1>13, <1>14, <1>15 DEF StepInv

LEMMA FinishRows == ASSUME StepInv, TypeInv', Finish PROVE StepInv'
<1>0. TypeOK /\ Tied /\ Progress
  BY DEF StepInv, TypeInv
<1>1. /\ half = Whole /\ pc = "apply" /\ pc' = "idle" /\ apart' = apart
      /\ todo.pulls = {} /\ todo.pushes = {} /\ todo.drops = {} /\ todo.erases = {}
  BY DEF Finish, Applying, TasksDone, KeywordsDone
<1>2. half.op = "none"
  BY <1>1, WholeIs
<1>3. /\ \A i \in LocalIds :
              /\ local'[i].tid = local[i].tid
              /\ local'[i].name = local[i].name /\ local'[i].star = local[i].star
      /\ \A r \in RemoteIds :
              /\ remote'[r].name = remote[r].name /\ remote'[r].star = remote[r].star
              /\ remote'[r].deleted = remote[r].deleted
      /\ Locals' = Locals /\ Remotes' = Remotes
  BY <1>0, FinishIs
<1>4. Locals \subseteq LocalIds /\ Remotes \subseteq RemoteIds
  BY DEF Locals, Remotes
<1>5. Tied'
  BY <1>0, <1>3, <1>4 DEF Tied
<1>6. \A i \in Locals, r \in Remotes : InStep(i, r) => InStep(i, r)'
  BY <1>1, <1>3, <1>4 DEF InStep, SameName
<1>7. Marked'
  <2>1. \A r \in Remotes : Copies(r)' = Copies(r) /\ Copies(r) \subseteq Locals
    BY <1>3, <1>4 DEF Copies
  <2>2. ASSUME NEW r \in Remotes
        PROVE  IF remote[r].deleted THEN Copies(r) = {}
               ELSE \E i \in Copies(r) : InStep(i, r)
    BY <1>0, <1>1, <1>2 DEF Progress, Gone, Served, Copies
  <2>3. \A i \in Locals : local[i].tid \in Remotes
    BY <1>0, <1>1 DEF Progress, Tied
  <2> QED BY <1>3, <1>4, <1>6, <2>1, <2>2, <2>3 DEF Marked
<1> QED BY <1>1, <1>5, <1>7, IdleRows

LEMMA NextRows == ASSUME StepInv, [Next]_vars PROVE StepInv'
<1>1. TypeInv /\ TypeInv'
  BY NextTypes DEF StepInv
<1>2. CASE UNCHANGED vars
  <2>1. /\ local' = local /\ remote' = remote /\ apart' = apart /\ pc' = pc
        /\ half' = half /\ todo' = todo
    BY <1>2 DEF vars, client, server, control
  <2>2. Locals' = Locals /\ Remotes' = Remotes
    BY <2>1 DEF Locals, Remotes
  <2>3. Tied' /\ Marked' /\ ListsOK'
    BY <2>1, <2>2 DEF StepInv, Tied, Marked, Copies, InStep, SameName, ListsOK
  <2>4. HalfRows'
    BY <2>1, <2>2 DEF StepInv, HalfRows, SameName
  <2>5. Progress'
    BY <2>1, <2>2 DEF StepInv, Progress, Gone, Served, InStep, SameName
  <2> QED BY <1>1, <2>3, <2>4, <2>5 DEF StepInv
<1>3. CASE Restart
  BY <1>1, <1>3, SameRows DEF Restart, client, server
<1>4. CASE UserWrite
  BY <1>1, <1>4, UserRows
<1>5. CASE OthersWrite
  BY <1>1, <1>5, OthersRows
<1>6. CASE Stop
  BY <1>1, <1>6, SameRows DEF Stop, GiveUp, client, server
<1>7. CASE Begin \/ Finish
  BY <1>1, <1>7, BeginRows, FinishRows
<1>8. CASE KeywordStep
  BY <1>1, <1>8, PullRows, PushNewRows, PushUpdateRows, PushTidRows, PushStarRows,
     PushSkipRows DEF KeywordStep
<1>9. CASE TaskStep
  BY <1>1, <1>9, TaskRows
<1>10. CASE GoneStep
  BY <1>1, <1>10, DropRows, EraseRows, MarkRows DEF GoneStep
<1> QED BY <1>1, <1>2, <1>3, <1>4, <1>5, <1>6, <1>7, <1>8, <1>9, <1>10, NextKinds

LEMMA RowsInit == Init => StepInv
<1> SUFFICES ASSUME Init PROVE StepInv
  OBVIOUS
<1>1. TypeInv
  BY TypeInit
<1>2. PICK w \in Words :
           /\ \A i \in LocalIds :
                /\ local[i].exists <=> i = 1
                /\ i = 1 => /\ local[i].tid = 1 /\ local[i].name = Plain(w)
                            /\ ~local[i].star
           /\ \A r \in RemoteIds :
                /\ remote[r].exists <=> r = 1
                /\ r = 1 => /\ remote[r].name = Plain(w) /\ ~remote[r].star
                            /\ ~remote[r].deleted
  BY InitRows
<1>3. 1 \in LocalIds /\ 1 \in RemoteIds
  OBVIOUS
<1>4. Locals = {1} /\ Remotes = {1}
  <2>1. \A i : i \in Locals <=> i = 1
    BY <1>2, <1>3 DEF Locals
  <2>2. \A r : r \in Remotes <=> r = 1
    BY <1>2, <1>3 DEF Remotes
  <2> QED BY <2>1, <2>2
<1>5. /\ local[1].tid = 1 /\ local[1].name = remote[1].name
      /\ local[1].star = remote[1].star /\ ~remote[1].deleted
  <2>1. local[1].star = FALSE /\ remote[1].star = FALSE
    BY <1>1, <1>2, <1>3, RowsAre DEF TypeInv
  <2> QED BY <1>2, <1>3, <2>1
<1>6. \A i \in LocalIds \ Locals : local[i].tid = None
  <2>1. NoLocal.tid = None
    BY DEF NoLocal
  <2>2. \A i \in LocalIds : i # 1 => local[i] = NoLocal
    BY DEF Init
  <2> QED BY <1>4, <2>1, <2>2
<1>7. Tied
  BY <1>4, <1>5, <1>6 DEF Tied
<1>8. InStep(1, 1)
  BY <1>5 DEF InStep, SameName
<1>9. Copies(1) = {1}
  BY <1>4, <1>5 DEF Copies
<1>10. Marked
  BY <1>4, <1>5, <1>8, <1>9 DEF Marked
<1>11. pc = "idle" /\ half = Whole /\ todo = Nothing
  BY DEF Init
<1>12. ListsOK
  BY <1>11, NothingIs DEF ListsOK
<1>13. half.op = "none"
  BY <1>11, WholeIs
<1>14. HalfRows
  BY <1>13 DEF HalfRows
<1>15. Progress
  BY <1>11 DEF Progress
<1> QED BY <1>1, <1>7, <1>10, <1>12, <1>14, <1>15 DEF StepInv

LEMMA RowsKept == Spec => []StepInv
BY RowsInit, NextRows, PTL DEF Spec

\* Between syncs an unmarked keyword is the same on both sides, but for one suffix of
\* its name on the server, however syncs were cut short or refused.
THEOREM KeywordsCorrect == Spec => []KeywordsInStep
<1>1. StepInv => KeywordsInStep
  <2> SUFFICES ASSUME StepInv PROVE KeywordsInStep
    OBVIOUS
  <2>1. Marked
    BY DEF StepInv
  <2> QED BY <2>1 DEF Marked, KeywordsInStep, Copies, InStep, SameName
<1> QED BY <1>1, RowsKept, PTL

-----------------------------------------------------------------------------
(* The keywords of the tasks are in step *)

\* A name is that of one keyword here, and of one on the server.
NamesOnce ==
  /\ \A i, j \in Locals : local[i].name = local[j].name => i = j
  /\ \A q, r \in Remotes : remote[q].name = remote[r].name => q = r

\* The tasks have keywords that exist.
TagRows == \A t \in Tasks : tags[t] \subseteq Locals /\ rtags[t] \subseteq Remotes

\* A keyword that is deleted here is marked, and a sync has it on its list.
DeletedKnown ==
  \A i \in Locals : local[i].deleted =>
    local[i].changed /\ (pc = "apply" => i \in todo.erases)

\* A keyword that is about to go is no task's here.
HalfTags ==
  half.op \in {"drop", "eraseThere", "mark", "eraseLocal"} =>
    \A t \in Tasks : half.local \notin tags[t]

\* A task whose keywords are half written is marked, and all keywords are done.
HalfTask ==
  half.op \in {"pullTags", "pushTags"} =>
    /\ KeywordsDone
    /\ half.op = "pullTags" => half.local \in tagsChanged
    /\ half.op = "pushTags" => half.local \in rtagsChanged

\* A task that is not marked has no keyword that is new to the other side.
TagsNew ==
  /\ \A t \in Tasks \ tagsChanged : \A i \in tags[t] : local[i].tid # None
  /\ \A t \in Tasks \ (tagsChanged \cup rtagsChanged) : \A r \in rtags[t] :
       remote[r].deleted \/ \E i \in Locals : local[i].tid = r

\* What TagsInStep says, of the keywords that it can be said of when a sync runs too:
\* one that a sync is erasing here, or that a sync that was cut short may have, is not.
Agree(t, i) == i \in tags[t] <=> local[i].tid \in rtags[t]
Shared(i) == /\ local[i].tid \in Remotes /\ local[i].tid \notin apart
             /\ ~remote[local[i].tid].deleted
Erasing(i) == half.op \in {"eraseThere", "mark", "eraseLocal"} /\ half.local = i
TagsKept ==
  \A t \in Tasks \ (tagsChanged \cup rtagsChanged) : \A i \in Locals :
    Shared(i) /\ (~local[i].deleted \/ (cuts = 0 /\ ~Erasing(i))) => Agree(t, i)

\* The marked tasks are on the lists until all keywords are done, and from then on
\* every other task is in step.
ListsKept ==
  pc = "apply" /\ ~KeywordsDone =>
    /\ todo.taskPulls = rtagsChanged /\ todo.taskUpdated = rtagsChanged
    /\ todo.taskPushes = tagsChanged
TaskLists ==
  pc = "apply" /\ KeywordsDone => \A t \in Tasks :
    \/ t \in todo.taskPulls \/ t \in todo.taskPushes \ todo.taskUpdated
    \/ half.op \in {"pullTags", "pushTags"} /\ half.local = t
    \/ \A i \in Locals \ todo.erases : Shared(i) => Agree(t, i)

TagInv == /\ StepInv /\ NamesOnce /\ TagRows /\ DeletedKnown /\ HalfTags /\ HalfTask
          /\ TagsNew /\ TagsKept /\ ListsKept /\ TaskLists

LEMMA ClientNames ==
  ASSUME TypeOK, NamesOnce, NEW i \in LocalIds, NEW row \in LocalRow,
         local' = [local EXCEPT ![i] = row], remote' = remote,
         ~row.exists \/ LocalFree(row.name, i) \/ (i \in Locals /\ row.name = local[i].name)
  PROVE  NamesOnce'
<1>1. /\ local'[i] = row /\ \A j \in LocalIds : j # i => local'[j] = local[j]
      /\ row.exists => Locals' = Locals \cup {i}
      /\ ~row.exists => Locals' = Locals \ {i}
  BY LocalSet
<1>2. Remotes' = Remotes
  BY DEF Remotes
<1>3. \A j \in Locals' : j # i => j \in Locals /\ local'[j] = local[j]
  BY <1>1 DEF Locals
<1>4. row.exists => \A j \in Locals : j # i => local[j].name # row.name
  BY DEF NamesOnce, LocalFree, Named
<1>5. i \in Locals' => row.exists
  BY <1>1
<1>6. \A j, k \in Locals' : local'[j].name = local'[k].name => j = k
  BY <1>1, <1>3, <1>4, <1>5 DEF NamesOnce
<1> QED BY <1>2, <1>6 DEF NamesOnce

LEMMA ServerNames ==
  ASSUME TypeOK, NamesOnce, NEW r \in RemoteIds, NEW row \in RemoteRow, row.exists,
         remote' = [remote EXCEPT ![r] = row], local' = local,
         RemoteFree(row.name, r) \/ (r \in Remotes /\ row.name = remote[r].name)
  PROVE  NamesOnce'
<1>1. /\ remote'[r] = row /\ \A q \in RemoteIds : q # r => remote'[q] = remote[q]
      /\ Remotes' = Remotes \cup {r}
  BY RemoteSet
<1>2. Locals' = Locals
  BY DEF Locals
<1>3. \A q \in Remotes' : q # r => q \in Remotes /\ remote'[q] = remote[q]
  BY <1>1 DEF Remotes
<1>4. \A q \in Remotes : q # r => remote[q].name # row.name
  BY DEF NamesOnce, RemoteFree, RemotesNamed
<1>5. \A p, q \in Remotes' : remote'[p].name = remote'[q].name => p = q
  BY <1>1, <1>3, <1>4 DEF NamesOnce
<1> QED BY <1>2, <1>5 DEF NamesOnce

LEMMA SameNames ==
  ASSUME NamesOnce, local' = local, remote' = remote PROVE NamesOnce'
<1>1. Locals' = Locals /\ Remotes' = Remotes
  BY DEF Locals, Remotes
<1> QED BY <1>1 DEF NamesOnce

LEMMA IdleTags ==
  ASSUME StepInv', pc' = "idle", NamesOnce', TagRows', TagsNew', TagsKept',
         \A i \in Locals' : local'[i].deleted => local'[i].changed
  PROVE  TagInv'
<1>1. half'.op = "none"
  <2>1. half' = Whole
    BY DEF StepInv, TypeInv, HalfOK
  <2> QED BY <2>1, WholeIs
<1>2. HalfTags' /\ HalfTask'
  BY <1>1 DEF HalfTags, HalfTask
<1>3. ListsKept' /\ TaskLists'
  BY DEF ListsKept, TaskLists
<1>4. DeletedKnown'
  BY DEF DeletedKnown
<1> QED BY <1>2, <1>3, <1>4 DEF TagInv

\* The lists of tasks, when the keywords are all done.
LEMMA ListsFromKept ==
  ASSUME TagsKept', DeletedKnown', pc' = "apply",
         todo'.taskPulls = rtagsChanged', todo'.taskUpdated = rtagsChanged',
         todo'.taskPushes = tagsChanged'
  PROVE  ListsKept' /\ TaskLists'
<1>1. ListsKept'
  BY DEF ListsKept
<1>2. ASSUME NEW t \in Tasks, t \notin todo'.taskPulls,
             t \notin todo'.taskPushes \ todo'.taskUpdated,
             NEW i \in Locals' \ todo'.erases, Shared(i)'
      PROVE  Agree(t, i)'
  <2>1. t \in Tasks \ (tagsChanged' \cup rtagsChanged')
    BY <1>2
  <2>2. ~local'[i].deleted
    BY <1>2 DEF DeletedKnown
  <2> QED BY <1>2, <2>1, <2>2 DEF TagsKept
<1>3. TaskLists'
  BY <1>2 DEF TaskLists
<1> QED BY <1>1, <1>3

\* What a step for a keyword does: rows are added and filled in, and no task is touched.
KeywordsGrow ==
  /\ UNCHANGED <<tags, tagsChanged, rtags, rtagsChanged, cuts>>
  /\ todo'.erases = todo.erases /\ todo'.taskPulls = todo.taskPulls
  /\ todo'.taskUpdated = todo.taskUpdated /\ todo'.taskPushes = todo.taskPushes
  /\ pc = "apply" /\ pc' = "apply" /\ ~KeywordsDone
  /\ half.op \in {"none", "tid", "star"} /\ half'.op \in {"none", "tid", "star"}
  /\ Locals \subseteq Locals' /\ Remotes \subseteq Remotes' /\ apart \subseteq apart'
  /\ \A r \in Remotes : remote'[r].deleted = remote[r].deleted
  /\ \A i \in Locals : /\ local'[i].deleted = local[i].deleted
                       /\ local[i].changed => local'[i].changed
  /\ \A i \in Locals' : \/ i \in Locals /\ local'[i].tid = local[i].tid
                        \/ /\ i \notin Locals /\ ~local'[i].deleted
                           /\ \A j \in Locals : local[j].tid # local'[i].tid
                        \/ /\ i \in Locals /\ local[i].tid = None
                           /\ \A j \in Locals : local[j].tid # local'[i].tid

LEMMA PullGrows ==
  ASSUME StepInv, NamesOnce, NEW r \in RemoteIds, NEW i \in LocalIds, Pull(r, i), ~Refuse
  PROVE  KeywordsGrow /\ NamesOnce'
<1>0. TypeOK /\ ListsOK /\ todo \in Lists
  BY DEF StepInv, TypeInv, TypeOK
<1>1. /\ Applying /\ r \in todo.pulls /\ todo' = [todo EXCEPT !.pulls = @ \ {r}]
      /\ Silent /\ UNCHANGED <<tags, tagsChanged, server, half>>
  BY <1>0, PullIs
<1>2. PICK row \in LocalRow :
              /\ local' = [local EXCEPT ![i] = row] /\ row.exists /\ row.tid = r
              /\ LocalFree(row.name, i)
              /\ \/ /\ i \in Copies(r) /\ row.deleted = local[i].deleted
                    /\ local[i].changed => row.changed
                 \/ /\ Copies(r) = {} /\ i \notin Locals
                    /\ row.changed /\ ~row.deleted
  BY <1>0, PullIs
<1>3. /\ local'[i] = row /\ \A j \in LocalIds : j # i => local'[j] = local[j]
      /\ Locals' = Locals \cup {i}
  BY <1>0, <1>2, LocalSet
<1>4. /\ remote' = remote /\ apart' = apart /\ half' = Whole /\ half = Whole
      /\ UNCHANGED <<tags, tagsChanged, rtags, rtagsChanged, cuts>>
      /\ pc = "apply" /\ pc' = "apply" /\ ~KeywordsDone
  BY <1>1 DEF server, bounds, Applying, Silent, KeywordsDone
<1>5. Remotes' = Remotes
  BY <1>4 DEF Remotes
<1>6. /\ todo'.erases = todo.erases /\ todo'.taskPulls = todo.taskPulls
      /\ todo'.taskUpdated = todo.taskUpdated /\ todo'.taskPushes = todo.taskPushes
  BY <1>0, <1>1, LessTodo
<1>7. half.op = "none" /\ half'.op = "none"
  BY <1>4, WholeIs
<1>8. \A j \in Locals : j \in LocalIds
  BY DEF Locals
<1>9. i \in Copies(r) => i \in Locals /\ local[i].tid = r
  BY DEF Copies
<1>10. Copies(r) = {} => \A j \in Locals : local[j].tid # r
  BY DEF Copies
<1>11. KeywordsGrow
  BY <1>2, <1>3, <1>4, <1>5, <1>6, <1>7, <1>8, <1>9, <1>10 DEF KeywordsGrow
<1>12. NamesOnce'
  BY <1>0, <1>2, <1>4, ClientNames
<1> QED BY <1>11, <1>12

LEMMA PushGrows ==
  ASSUME StepInv, NamesOnce, NEW i \in LocalIds, NEW r \in RemoteIds,
         PushNew(i, r) \/ PushUpdate(i), ~Refuse
  PROVE  KeywordsGrow /\ NamesOnce'
<1>0. TypeOK /\ ListsOK /\ todo \in Lists
  BY DEF StepInv, TypeInv, TypeOK
<1>1. PICK q \in RemoteIds, op \in {"tid", "star"}, row \in RemoteRow :
        /\ Pushing(i) /\ Renamed(i, q) /\ Then(op, i, q) /\ Silent
        /\ UNCHANGED <<client, rtags, rtagsChanged, todo>>
        /\ remote' = [remote EXCEPT ![q] = row] /\ row.exists
        /\ RemoteFree(row.name, q)
        /\ q \in Remotes => row.deleted = remote[q].deleted
  BY <1>0, PushNewIs, PushUpdateIs
<1>2. /\ remote'[q] = row /\ \A p \in RemoteIds : p # q => remote'[p] = remote[p]
      /\ Remotes' = Remotes \cup {q}
  BY <1>0, <1>1, RemoteSet
<1>3. /\ UNCHANGED <<local, todo, tags, tagsChanged, rtags, rtagsChanged, cuts>>
      /\ pc = "apply" /\ pc' = "apply" /\ half = Whole /\ ~KeywordsDone
  BY <1>1 DEF client, bounds, Pushing, Applying, Silent, KeywordsDone
<1>4. half.op = "none" /\ half'.op = op
  BY <1>1, <1>3, ThenIs, WholeIs
<1>5. apart \subseteq apart'
  BY <1>0, <1>1, PushNameIs
<1>6. Locals' = Locals
  BY <1>3 DEF Locals
<1>7. \A p \in Remotes : p \in RemoteIds
  BY DEF Remotes
<1>8. KeywordsGrow
  BY <1>1, <1>2, <1>3, <1>4, <1>5, <1>6, <1>7 DEF KeywordsGrow
<1>9. NamesOnce'
  BY <1>0, <1>1, <1>3, ServerNames
<1> QED BY <1>8, <1>9

LEMMA PushTidGrows ==
  ASSUME StepInv, NamesOnce, PushTid PROVE KeywordsGrow /\ NamesOnce'
<1>0. TypeOK /\ HalfOK /\ ListsOK /\ HalfRows /\ half.op = "tid"
  BY DEF StepInv, TypeInv, PushTid, After
<1>1. PICK i \in LocalIds, r \in RemoteIds : i = half.local /\ r = half.remote
  BY <1>0 DEF HalfOK
<1>2. PICK row \in LocalRow :
           /\ local' = [local EXCEPT ![i] = row]
           /\ row.exists = local[i].exists /\ row.tid = r
           /\ row.name = local[i].name
           /\ row.changed /\ row.deleted = local[i].deleted
  BY <1>0, <1>1, PushTidIs
<1>3. /\ i \in todo.pushes /\ i \in Locals /\ local[i].tid = None
      /\ \A j \in Locals : local[j].tid # r
  BY <1>0, <1>1 DEF HalfRows, ListsOK
<1>4. row.exists
  BY <1>2, <1>3 DEF Locals
<1>5. /\ local'[i] = row /\ \A j \in LocalIds : j # i => local'[j] = local[j]
      /\ Locals' = Locals \cup {i}
  BY <1>0, <1>2, <1>4, LocalSet
<1>6. /\ UNCHANGED <<remote, apart, todo, tags, tagsChanged, rtags, rtagsChanged, cuts>>
      /\ pc = "apply" /\ pc' = "apply" /\ ~KeywordsDone
  BY <1>3 DEF PushTid, After, server, bounds, Silent, KeywordsDone
<1>7. half'.op = "star"
  BY ThenIs DEF PushTid
<1>8. Remotes' = Remotes
  BY <1>6 DEF Remotes
<1>9. \A j \in Locals : j \in LocalIds
  BY DEF Locals
<1>10. KeywordsGrow
  BY <1>0, <1>2, <1>3, <1>5, <1>6, <1>7, <1>8, <1>9 DEF KeywordsGrow
<1>11. NamesOnce'
  BY <1>0, <1>2, <1>3, <1>6, ClientNames
<1> QED BY <1>10, <1>11

LEMMA PushStarGrows ==
  ASSUME StepInv, NamesOnce, PushStar \/ \E i \in LocalIds : PushSkip(i)
  PROVE  KeywordsGrow /\ NamesOnce'
<1>0. TypeOK /\ HalfOK /\ ListsOK /\ HalfRows /\ todo \in Lists
  BY DEF StepInv, TypeInv, TypeOK
<1>1. PICK i : /\ todo' = [todo EXCEPT !.pushes = @ \ {i}] /\ i \in todo.pushes
               /\ local' = local /\ apart' = apart
               /\ UNCHANGED <<tags, tagsChanged, rtags, rtagsChanged, cuts>>
               /\ pc = "apply" /\ pc' = "apply"
               /\ half.op \in {"none", "star"} /\ half'.op = "none"
  <2>1. CASE PushStar
    <3>1. half.op = "star" /\ half' = Whole
      BY <2>1 DEF PushStar, After
    <3>2. half.local \in todo.pushes
      BY <1>0, <3>1 DEF HalfRows
    <3> QED BY <2>1, <3>1, <3>2, WholeIs DEF PushStar, After, client, bounds, Silent
  <2>2. CASE \E i \in LocalIds : PushSkip(i)
    <3>1. half = Whole /\ half' = half
      BY <2>2 DEF PushSkip, Pushing, Applying
    <3> QED BY <2>2, <3>1, WholeIs DEF PushSkip, Pushing, Applying, client, server, bounds, Silent
  <2> QED BY <2>1, <2>2
<1>2. /\ todo'.erases = todo.erases /\ todo'.taskPulls = todo.taskPulls
      /\ todo'.taskUpdated = todo.taskUpdated /\ todo'.taskPushes = todo.taskPushes
  BY <1>0, <1>1, LessTodo
<1>3. ~KeywordsDone /\ Locals' = Locals
  BY <1>1 DEF KeywordsDone, Locals
<1>4. /\ Remotes' = Remotes /\ NamesOnce'
      /\ \A r \in Remotes : remote'[r].deleted = remote[r].deleted
  <2>1. CASE PushStar
    <3>1. half.op = "star"
      BY <2>1 DEF PushStar, After
    <3>2. half.local \in LocalIds /\ half.remote \in RemoteIds /\ half.remote \in Remotes
      BY <1>0, <3>1 DEF HalfOK, HalfRows
    <3>3. PICK q \in RemoteIds : q = half.remote
      BY <3>2
    <3>4. PICK row \in RemoteRow :
             /\ remote' = [remote EXCEPT ![q] = row]
             /\ row.exists = remote[q].exists /\ row.name = remote[q].name
             /\ row.deleted = remote[q].deleted
      BY <1>0, <2>1, <3>2, <3>3, PushStarIs
    <3>5. row.exists
      BY <3>2, <3>3, <3>4 DEF Remotes
    <3>6. /\ remote'[q] = row /\ \A p \in RemoteIds : p # q => remote'[p] = remote[p]
          /\ Remotes' = Remotes \cup {q}
      BY <1>0, <3>4, <3>5, RemoteSet
    <3>7. Remotes' = Remotes
      BY <3>2, <3>3, <3>6
    <3>8. \A p \in Remotes : remote'[p].deleted = remote[p].deleted
      BY <3>4, <3>6 DEF Remotes
    <3>9. NamesOnce'
      BY <1>0, <1>1, <3>2, <3>3, <3>4, <3>5, ServerNames
    <3> QED BY <3>7, <3>8, <3>9
  <2>2. CASE \E i_1 \in LocalIds : PushSkip(i_1)
    <3>1. remote' = remote
      BY <2>2 DEF PushSkip, server
    <3> QED BY <1>1, <3>1, SameNames DEF Remotes
  <2> QED BY <2>1, <2>2
<1>5. \A i_1 \in Locals' : i_1 \in Locals /\ local'[i_1].tid = local[i_1].tid
  BY <1>1, <1>3
<1>6. KeywordsGrow
  BY <1>1, <1>2, <1>3, <1>4, <1>5 DEF KeywordsGrow
<1> QED BY <1>4, <1>6

LEMMA KeywordTags ==
  ASSUME TagInv, StepInv', KeywordStep PROVE TagInv'
<1>0. /\ StepInv /\ NamesOnce /\ TagRows /\ DeletedKnown /\ TagsNew /\ TagsKept /\ ListsKept
      /\ TypeOK /\ Tied /\ Tied'
  BY DEF TagInv, StepInv, TypeInv
<1>1. KeywordsGrow /\ NamesOnce'
  BY <1>0, PullGrows, PushGrows, PushTidGrows, PushStarGrows DEF KeywordStep
<1>2. TagRows'
  BY <1>0, <1>1 DEF KeywordsGrow, TagRows
<1>3. DeletedKnown'
  <2> SUFFICES ASSUME NEW i \in Locals', local'[i].deleted
               PROVE  local'[i].changed /\ i \in todo'.erases
    BY DEF DeletedKnown
  <2>1. i \in Locals /\ local[i].deleted
    BY <1>1 DEF KeywordsGrow
  <2> QED BY <1>0, <1>1, <2>1 DEF DeletedKnown, KeywordsGrow
<1>4. half'.op \in {"none", "tid", "star"} /\ half.op \in {"none", "tid", "star"}
  BY <1>1 DEF KeywordsGrow
<1>5. HalfTags' /\ HalfTask'
  BY <1>4 DEF HalfTags, HalfTask
<1>6. /\ tags' = tags /\ rtags' = rtags /\ tagsChanged' = tagsChanged
      /\ rtagsChanged' = rtagsChanged
  BY <1>1 DEF KeywordsGrow
<1>7. \A i \in Locals : local[i].tid # None => i \in Locals' /\ local'[i].tid = local[i].tid
  BY <1>1 DEF KeywordsGrow
<1>8. TagsNew'
  <2>1. ASSUME NEW t \in Tasks \ tagsChanged, NEW i \in tags[t]
        PROVE  local'[i].tid # None
    <3>1. i \in Locals /\ local[i].tid # None
      BY <1>0 DEF TagRows, TagsNew
    <3> QED BY <1>7, <3>1
  <2>2. ASSUME NEW t \in Tasks \ (tagsChanged \cup rtagsChanged), NEW r \in rtags[t],
               ~remote'[r].deleted
        PROVE  \E i \in Locals' : local'[i].tid = r
    <3>1. r \in Remotes /\ r # None
      BY <1>0 DEF TagRows, Remotes
    <3>2. ~remote[r].deleted
      BY <1>1, <2>2, <3>1 DEF KeywordsGrow
    <3>3. PICK i \in Locals : local[i].tid = r
      BY <1>0, <3>2 DEF TagsNew
    <3> QED BY <1>7, <3>1, <3>3
  <2> QED BY <1>6, <2>1, <2>2 DEF TagsNew
<1>9. TagsKept'
  <2> SUFFICES ASSUME NEW t \in Tasks \ (tagsChanged \cup rtagsChanged), NEW i \in Locals',
                      Shared(i)', ~local'[i].deleted \/ cuts' = 0
               PROVE  Agree(t, i)'
    BY <1>6 DEF TagsKept
  <2>1. CASE i \in Locals /\ local'[i].tid = local[i].tid
    <3>1. local[i].tid \in Remotes
      <4>1. None \notin Remotes'
        BY DEF Remotes
      <4> QED BY <1>0, <2>1, <4>1 DEF Tied, Shared
    <3>2. Shared(i)
      BY <1>1, <2>1, <3>1 DEF Shared, KeywordsGrow
    <3>3. ~Erasing(i)
      BY <1>4 DEF Erasing
    <3>4. ~local[i].deleted \/ cuts = 0
      BY <1>1, <2>1 DEF KeywordsGrow
    <3>5. Agree(t, i)
      BY <1>0, <2>1, <3>2, <3>3, <3>4 DEF TagsKept
    <3> QED BY <1>6, <2>1, <3>5 DEF Agree
  <2>2. CASE /\ i \notin Locals \/ local[i].tid = None
             /\ \A j \in Locals : local[j].tid # local'[i].tid
    <3>1. i \notin tags[t]
      BY <1>0, <2>2 DEF TagRows, TagsNew
    <3>2. local'[i].tid \notin rtags[t]
      <4> SUFFICES ASSUME local'[i].tid \in rtags[t] PROVE FALSE
        OBVIOUS
      <4>1. local'[i].tid \in Remotes /\ ~remote'[local'[i].tid].deleted
        BY <1>0 DEF TagRows, Shared
      <4>2. ~remote[local'[i].tid].deleted
        BY <1>1, <4>1 DEF KeywordsGrow
      <4> QED BY <1>0, <2>2, <4>2 DEF TagsNew
    <3> QED BY <1>6, <3>1, <3>2 DEF Agree
  <2> QED BY <1>1, <2>1, <2>2 DEF KeywordsGrow
<1>10. /\ todo'.taskPulls = rtagsChanged' /\ todo'.taskUpdated = rtagsChanged'
       /\ todo'.taskPushes = tagsChanged' /\ pc' = "apply"
  BY <1>0, <1>1 DEF ListsKept, KeywordsGrow
<1>11. ListsKept' /\ TaskLists'
  BY <1>3, <1>9, <1>10, ListsFromKept
<1> QED BY <1>1, <1>2, <1>3, <1>5, <1>8, <1>9, <1>11 DEF TagInv

\* A keyword that both sides have has one name, once the keywords are done.
LEMMA NamesAgree ==
  ASSUME StepInv, pc = "apply", KeywordsDone, half.op \in {"pullTags", "pushTags"},
         NEW i \in Locals \ todo.erases, Shared(i)
  PROVE  remote[local[i].tid].name = local[i].name
<1>1. PICK r : r = local[i].tid
  OBVIOUS
<1>2. r \in Remotes /\ r \notin apart /\ ~remote[r].deleted
  BY <1>1 DEF Shared
<1>3. Served(r)
  BY <1>2 DEF StepInv, Progress
<1>4. PICK j \in Locals : local[j].tid = r /\ (InStep(j, r) \/ j \in todo.erases)
  BY <1>3 DEF Served, KeywordsDone
<1>5. j = i
  BY <1>1, <1>4 DEF StepInv, Tied
<1>6. InStep(i, r)
  BY <1>4, <1>5
<1> QED BY <1>1, <1>2, <1>6 DEF InStep, SameName

\* What a step for a task does: the rows stay, and an unmarked task.
TaskWritten(t) ==
  /\ UNCHANGED <<local, remote, apart, cuts>>
  /\ pc = "apply" /\ pc' = "apply" /\ KeywordsDone /\ KeywordsDone'
  /\ todo'.erases = todo.erases
  /\ \A u \in Tasks : u # t => tags'[u] = tags[u] /\ rtags'[u] = rtags[u]
  /\ tagsChanged \subseteq tagsChanged' /\ rtagsChanged \subseteq rtagsChanged'
  /\ t \in tagsChanged' \/ tags'[t] = tags[t]
  /\ t \in rtagsChanged' \/ rtags'[t] = rtags[t]
  /\ todo'.taskUpdated = todo.taskUpdated
  /\ \A u \in Tasks : u # t =>
       /\ u \in todo.taskPulls => u \in todo'.taskPulls
       /\ u \in todo.taskPushes => u \in todo'.taskPushes
  /\ half.op = "none" \/ (half.op \in {"pullTags", "pushTags"} /\ half.local = t)
  /\ half'.op \in {"none", "pullTags", "pushTags"}
  /\ HalfTask' /\ TagRows'

LEMMA PullTaskIs ==
  ASSUME TagInv, NEW t \in Tasks, PullTask(t)
  PROVE  TaskWritten(t) /\ half'.op = "pullTags" /\ half'.local = t
<1>0. /\ TagRows /\ tags \in [Tasks -> SUBSET LocalIds] /\ TypeOK
  BY DEF TagInv, StepInv, TypeInv, TypeOK
<1>1. /\ UNCHANGED <<local, remote, apart, cuts, rtags, rtagsChanged, todo>>
      /\ pc = "apply" /\ pc' = "apply" /\ KeywordsDone /\ half = Whole
      /\ tags' = [tags EXCEPT ![t] = {}] /\ tagsChanged' = tagsChanged \cup {t}
      /\ Then("pullTags", t, None)
  BY DEF PullTask, Applying, server, bounds, Silent
<1>2. half.op = "none" /\ half'.op = "pullTags" /\ half'.local = t
  BY <1>1, ThenIs, WholeIs
<1>3. KeywordsDone'
  BY <1>1 DEF KeywordsDone
<1>4. tags'[t] = {} /\ \A u \in Tasks : u # t => tags'[u] = tags[u]
  BY <1>0, <1>1
<1>5. Locals' = Locals /\ Remotes' = Remotes
  BY <1>1 DEF Locals, Remotes
<1>6. TagRows'
  BY <1>0, <1>1, <1>4, <1>5 DEF TagRows
<1>7. HalfTask'
  BY <1>1, <1>2, <1>3 DEF HalfTask
<1> QED BY <1>1, <1>2, <1>3, <1>4, <1>6, <1>7 DEF TaskWritten

LEMMA PullTagsIs ==
  ASSUME TagInv, PullTags, ~Refuse
  PROVE  \E t \in Tasks :
           /\ TaskWritten(t)
           /\ \A i \in Locals \ todo.erases : Shared(i) => Agree(t, i)'
<1>0. /\ TagRows /\ tags \in [Tasks -> SUBSET LocalIds] /\ StepInv /\ NamesOnce
      /\ HalfOK /\ HalfTask /\ todo \in Lists
  BY DEF TagInv, StepInv, TypeInv, TypeOK
<1>1. half.op = "pullTags" /\ half.local \in Tasks
  BY <1>0 DEF PullTags, After, HalfOK
<1>2. PICK t \in Tasks : t = half.local
  BY <1>1
<1>3. /\ tags' = [tags EXCEPT ![t] =
             {i \in Locals : local[i].name \in {remote[r].name : r \in rtags[t]}}]
      /\ todo' = [todo EXCEPT !.taskPulls = @ \ {t}]
      /\ half' = Whole /\ Silent /\ UNCHANGED <<local, tagsChanged, server>> /\ pc = "apply"
  BY <1>2 DEF PullTags, After
<1>4. /\ UNCHANGED <<local, remote, apart, cuts, rtags, rtagsChanged, tagsChanged>>
      /\ pc' = "apply"
  BY <1>3 DEF server, bounds, Silent
<1>5. half'.op = "none"
  BY <1>3, WholeIs
<1>6. /\ todo'.erases = todo.erases /\ todo'.taskPulls = todo.taskPulls \ {t}
      /\ todo'.taskUpdated = todo.taskUpdated /\ todo'.taskPushes = todo.taskPushes
      /\ todo'.pulls = todo.pulls /\ todo'.pushes = todo.pushes
  BY <1>0, <1>3, LessTodo
<1>7. /\ tags'[t] = {i \in Locals : local[i].name \in {remote[r].name : r \in rtags[t]}}
      /\ \A u \in Tasks : u # t => tags'[u] = tags[u]
  BY <1>0, <1>3
<1>8. KeywordsDone /\ t \in tagsChanged
  BY <1>0, <1>1, <1>2 DEF HalfTask
<1>9. KeywordsDone'
  BY <1>6, <1>8 DEF KeywordsDone
<1>10. Locals' = Locals /\ Remotes' = Remotes
  BY <1>4 DEF Locals, Remotes
<1>11. TagRows'
  BY <1>0, <1>4, <1>7, <1>10 DEF TagRows
<1>12. HalfTask'
  BY <1>5 DEF HalfTask
<1>13. TaskWritten(t)
  BY <1>1, <1>2, <1>3, <1>4, <1>5, <1>6, <1>7, <1>8, <1>9, <1>11, <1>12 DEF TaskWritten
<1>14. ASSUME NEW i \in Locals \ todo.erases, Shared(i) PROVE Agree(t, i)'
  <2>1. remote[local[i].tid].name = local[i].name
    BY <1>0, <1>1, <1>3, <1>8, <1>14, NamesAgree
  <2>2. local[i].tid \in Remotes
    BY <1>14 DEF Shared
  <2>3. \A r \in rtags[t] : remote[r].name = local[i].name => r = local[i].tid
    BY <1>0, <2>1, <2>2 DEF NamesOnce, TagRows
  <2>4. i \in tags'[t] <=> local[i].tid \in rtags[t]
    BY <1>7, <2>1, <2>3
  <2> QED BY <1>4, <2>4 DEF Agree
<1> QED BY <1>13, <1>14

LEMMA PushTaskIs ==
  ASSUME TagInv, NEW t \in Tasks, PushTask(t)
  PROVE  /\ TaskWritten(t)
         /\ \/ half'.op = "pushTags" /\ half'.local = t
            \/ /\ t \in todo.taskUpdated /\ t \notin todo.taskPulls
               /\ UNCHANGED <<tags, rtags>> /\ half.op = "none"
<1>0. /\ TagRows /\ rtags \in [Tasks -> SUBSET RemoteIds] /\ HalfTask /\ todo \in Lists
  BY DEF TagInv, StepInv, TypeInv, TypeOK
<1>1. /\ UNCHANGED <<local, remote, apart, cuts, tags, tagsChanged>>
      /\ pc = "apply" /\ pc' = "apply" /\ KeywordsDone /\ half = Whole
      /\ todo.taskPulls = {}
  BY DEF PushTask, Applying, client, bounds, Silent
<1>2. half.op = "none"
  BY <1>1, WholeIs
<1>3. Locals' = Locals /\ Remotes' = Remotes
  BY <1>1 DEF Locals, Remotes
<1>4. CASE t \in todo.taskUpdated
  <2>1. /\ todo' = [todo EXCEPT !.taskPushes = @ \ {t}]
        /\ UNCHANGED <<rtags, rtagsChanged, half>>
    BY <1>4 DEF PushTask
  <2>2. /\ todo'.erases = todo.erases /\ todo'.taskPulls = todo.taskPulls
        /\ todo'.taskUpdated = todo.taskUpdated /\ todo'.taskPushes = todo.taskPushes \ {t}
        /\ todo'.pulls = todo.pulls /\ todo'.pushes = todo.pushes
    BY <1>0, <2>1, LessTodo
  <2>3. KeywordsDone' /\ half'.op = "none"
    BY <1>1, <1>2, <2>1, <2>2 DEF KeywordsDone
  <2>4. TagRows' /\ HalfTask'
    BY <1>0, <1>1, <1>3, <2>1, <2>3 DEF TagRows, HalfTask
  <2>5. TaskWritten(t)
    BY <1>1, <1>2, <2>1, <2>2, <2>3, <2>4 DEF TaskWritten
  <2> QED BY <1>1, <1>2, <1>4, <2>1, <2>5
<1>5. CASE t \notin todo.taskUpdated
  <2>1. /\ rtags' = [rtags EXCEPT ![t] = {}] /\ rtagsChanged' = rtagsChanged \cup {t}
        /\ Then("pushTags", t, None) /\ todo' = todo
    BY <1>5 DEF PushTask
  <2>2. half'.op = "pushTags" /\ half'.local = t
    BY <2>1, ThenIs
  <2>3. KeywordsDone'
    BY <1>1, <2>1 DEF KeywordsDone
  <2>4. rtags'[t] = {} /\ \A u \in Tasks : u # t => rtags'[u] = rtags[u]
    BY <1>0, <2>1
  <2>5. TagRows' /\ HalfTask'
    BY <1>0, <1>1, <1>3, <2>1, <2>2, <2>3, <2>4 DEF TagRows, HalfTask
  <2>6. TaskWritten(t)
    BY <1>1, <1>2, <2>1, <2>2, <2>3, <2>4, <2>5 DEF TaskWritten
  <2> QED BY <2>2, <2>6
<1> QED BY <1>4, <1>5

LEMMA PushTagsIs ==
  ASSUME TagInv, PushTags
  PROVE  \E t \in Tasks :
           /\ TaskWritten(t)
           /\ \A i \in Locals \ todo.erases : Shared(i) => Agree(t, i)'
<1>0. /\ TagRows /\ rtags \in [Tasks -> SUBSET RemoteIds] /\ StepInv /\ NamesOnce
      /\ HalfOK /\ HalfTask /\ todo \in Lists
  BY DEF TagInv, StepInv, TypeInv, TypeOK
<1>1. half.op = "pushTags" /\ half.local \in Tasks
  BY <1>0 DEF PushTags, After, HalfOK
<1>2. PICK t \in Tasks : t = half.local
  BY <1>1
<1>3. /\ rtags' = [rtags EXCEPT ![t] =
             {r \in Remotes : remote[r].name \in {local[i].name : i \in tags[t]}}]
      /\ todo' = [todo EXCEPT !.taskPushes = @ \ {t}]
      /\ half' = Whole /\ Silent /\ UNCHANGED <<client, remote, rtagsChanged, apart>>
      /\ pc = "apply"
  BY <1>2 DEF PushTags, After
<1>4. /\ UNCHANGED <<local, remote, apart, cuts, tags, rtagsChanged, tagsChanged>>
      /\ pc' = "apply"
  BY <1>3 DEF client, bounds, Silent
<1>5. half'.op = "none"
  BY <1>3, WholeIs
<1>6. /\ todo'.erases = todo.erases /\ todo'.taskPushes = todo.taskPushes \ {t}
      /\ todo'.taskUpdated = todo.taskUpdated /\ todo'.taskPulls = todo.taskPulls
      /\ todo'.pulls = todo.pulls /\ todo'.pushes = todo.pushes
  BY <1>0, <1>3, LessTodo
<1>7. /\ rtags'[t] = {r \in Remotes : remote[r].name \in {local[i].name : i \in tags[t]}}
      /\ \A u \in Tasks : u # t => rtags'[u] = rtags[u]
  BY <1>0, <1>3
<1>8. KeywordsDone /\ t \in rtagsChanged
  BY <1>0, <1>1, <1>2 DEF HalfTask
<1>9. KeywordsDone'
  BY <1>6, <1>8 DEF KeywordsDone
<1>10. Locals' = Locals /\ Remotes' = Remotes
  BY <1>4 DEF Locals, Remotes
<1>11. TagRows'
  BY <1>0, <1>4, <1>7, <1>10 DEF TagRows
<1>12. HalfTask'
  BY <1>5 DEF HalfTask
<1>13. TaskWritten(t)
  BY <1>1, <1>2, <1>3, <1>4, <1>5, <1>6, <1>7, <1>8, <1>9, <1>11, <1>12 DEF TaskWritten
<1>14. ASSUME NEW i \in Locals \ todo.erases, Shared(i) PROVE Agree(t, i)'
  <2>1. remote[local[i].tid].name = local[i].name
    BY <1>0, <1>1, <1>3, <1>8, <1>14, NamesAgree
  <2>2. local[i].tid \in Remotes
    BY <1>14 DEF Shared
  <2>3. \A j \in tags[t] : local[j].name = local[i].name => j = i
    BY <1>0 DEF NamesOnce, TagRows
  <2>4. i \in tags[t] <=> local[i].tid \in rtags'[t]
    BY <1>7, <2>1, <2>2, <2>3
  <2> QED BY <1>4, <2>4 DEF Agree
<1> QED BY <1>13, <1>14

LEMMA TaskTags ==
  ASSUME TagInv, StepInv', TaskStep PROVE TagInv'
<1>0. /\ StepInv /\ NamesOnce /\ TagRows /\ DeletedKnown /\ TagsNew /\ TagsKept /\ TaskLists
  BY DEF TagInv
<1>1. PICK t \in Tasks :
        /\ TaskWritten(t)
        /\ \/ half'.op \in {"pullTags", "pushTags"} /\ half'.local = t
           \/ \A i \in Locals \ todo.erases : Shared(i) => Agree(t, i)'
           \/ /\ t \in todo.taskUpdated /\ t \notin todo.taskPulls
              /\ UNCHANGED <<tags, rtags>> /\ half.op = "none"
  BY PullTaskIs, PullTagsIs, PushTaskIs, PushTagsIs DEF TaskStep
<1>2. /\ UNCHANGED <<local, remote, apart, cuts>>
      /\ pc = "apply" /\ pc' = "apply" /\ KeywordsDone /\ KeywordsDone'
      /\ todo'.erases = todo.erases
      /\ HalfTask' /\ TagRows'
      /\ half'.op \in {"none", "pullTags", "pushTags"}
      /\ half.op \in {"none", "pullTags", "pushTags"}
  BY <1>1 DEF TaskWritten
<1>3. Locals' = Locals /\ Remotes' = Remotes
  BY <1>2 DEF Locals, Remotes
<1>4. NamesOnce' /\ DeletedKnown'
  BY <1>0, <1>2, <1>3, SameNames DEF DeletedKnown
<1>5. HalfTags' /\ ListsKept'
  BY <1>2 DEF HalfTags, ListsKept
<1>6. \A i : Shared(i)' = Shared(i) /\ ~Erasing(i) /\ ~Erasing(i)'
  BY <1>2, <1>3 DEF Shared, Erasing
<1>7. /\ \A u \in Tasks \ tagsChanged' : u \notin tagsChanged /\ tags'[u] = tags[u]
      /\ \A u \in Tasks \ rtagsChanged' : u \notin rtagsChanged /\ rtags'[u] = rtags[u]
  BY <1>1 DEF TaskWritten
<1>8. TagsNew'
  BY <1>0, <1>2, <1>3, <1>7 DEF TagsNew
<1>9. TagsKept'
  BY <1>0, <1>2, <1>3, <1>6, <1>7 DEF TagsKept, Agree
<1>10. TaskLists'
  <2> SUFFICES ASSUME NEW u \in Tasks
               PROVE  \/ u \in todo'.taskPulls \/ u \in todo'.taskPushes \ todo'.taskUpdated
                      \/ half'.op \in {"pullTags", "pushTags"} /\ half'.local = u
                      \/ \A i \in Locals \ todo.erases : Shared(i) => Agree(u, i)'
    BY <1>2, <1>3, <1>6 DEF TaskLists
  <2>1. \/ u \in todo.taskPulls \/ u \in todo.taskPushes \ todo.taskUpdated
        \/ half.op \in {"pullTags", "pushTags"} /\ half.local = u
        \/ \A i \in Locals \ todo.erases : Shared(i) => Agree(u, i)
    BY <1>0, <1>2 DEF TaskLists
  <2>2. CASE u # t
    <3>1. /\ tags'[u] = tags[u] /\ rtags'[u] = rtags[u]
          /\ u \in todo.taskPulls => u \in todo'.taskPulls
          /\ u \in todo.taskPushes => u \in todo'.taskPushes
          /\ todo'.taskUpdated = todo.taskUpdated
          /\ half.op = "none" \/ half.local = t
      BY <1>1, <2>2 DEF TaskWritten
    <3>2. \A i : Agree(u, i)' <=> Agree(u, i)
      BY <1>2, <3>1 DEF Agree
    <3> QED BY <2>1, <2>2, <3>1, <3>2
  <2>3. CASE u = t
    <3>1. \A i : UNCHANGED <<tags, rtags>> => (Agree(u, i)' <=> Agree(u, i))
      BY <1>2 DEF Agree
    <3> QED BY <1>1, <2>1, <2>3, <3>1
  <2> QED BY <2>2, <2>3
<1> QED BY <1>2, <1>4, <1>5, <1>8, <1>9, <1>10 DEF TagInv

\* What a step that drops or erases a keyword does: rows and tags only go.
KeywordsGo ==
  /\ UNCHANGED <<tagsChanged, rtagsChanged, apart, cuts>>
  /\ pc = "apply" /\ pc' = "apply" /\ KeywordsDone /\ KeywordsDone'
  /\ half.op \notin {"pullTags", "pushTags"} /\ half'.op \notin {"pullTags", "pushTags"}
  /\ todo'.taskPulls = todo.taskPulls /\ todo'.taskPushes = todo.taskPushes
  /\ todo'.taskUpdated = todo.taskUpdated
  /\ \A i \in Locals' : /\ i \in Locals /\ local'[i] = local[i]
                        /\ i \in todo.erases <=> i \in todo'.erases
                        /\ Erasing(i) => Erasing(i)'
  /\ \A i \in Locals \ Locals' : local[i].tid = None \/ remote[local[i].tid].deleted
  /\ Remotes' = Remotes
  /\ \A r \in Remotes : /\ remote'[r].name = remote[r].name
                        /\ remote[r].deleted => remote'[r].deleted
  /\ \A t \in Tasks : /\ tags'[t] \subseteq tags[t] /\ tags'[t] \subseteq Locals'
                      /\ rtags'[t] \subseteq rtags[t]
  /\ \A i \in Locals' : \/ ~Shared(i)'
                        \/ i \in todo'.erases /\ Erasing(i)'
                        \/ \A t \in Tasks : Agree(t, i)' <=> Agree(t, i)

LEMMA DropThereGoes ==
  ASSUME TagInv, NEW r \in RemoteIds, DropThere(r) PROVE KeywordsGo /\ HalfTags'
<1>0. /\ TagRows /\ rtags \in [Tasks -> SUBSET RemoteIds] /\ ListsOK /\ todo \in Lists
  BY DEF TagInv, StepInv, TypeInv, TypeOK
<1>1. /\ UNCHANGED <<local, remote, tags, tagsChanged, rtagsChanged, apart, cuts>>
      /\ pc = "apply" /\ pc' = "apply" /\ KeywordsDone /\ half = Whole /\ r \in todo.drops
      /\ rtags' = RUntagged(r)
  BY DEF DropThere, Applying, TasksDone, client, bounds, Silent
<1>2. /\ half'.op \in {"none", "dropTags"}
      /\ todo'.erases = todo.erases /\ todo'.taskPulls = todo.taskPulls
      /\ todo'.taskUpdated = todo.taskUpdated /\ todo'.taskPushes = todo.taskPushes
      /\ todo'.pulls = todo.pulls /\ todo'.pushes = todo.pushes
  <2>1. CASE Copies(r) = {}
    <3>1. todo' = [todo EXCEPT !.drops = @ \ {r}] /\ half' = Whole
      BY <1>1, <2>1 DEF DropThere
    <3> QED BY <1>0, <3>1, LessTodo, WholeIs
  <2>2. CASE Copies(r) # {}
    <3>1. todo' = todo /\ Then("dropTags", Max(Copies(r)), r)
      BY <2>2 DEF DropThere
    <3> QED BY <3>1, ThenIs
  <2> QED BY <2>1, <2>2
<1>3. half.op = "none" /\ KeywordsDone'
  BY <1>1, <1>2, WholeIs DEF KeywordsDone
<1>4. Locals' = Locals /\ Remotes' = Remotes
  BY <1>1 DEF Locals, Remotes
<1>5. \A t \in Tasks : rtags'[t] = rtags[t] \ {r}
  BY <1>0, <1>1 DEF RUntagged
<1>6. remote[r].deleted
  BY <1>0, <1>1 DEF ListsOK
<1>7. \A i \in Locals' : Shared(i)' => \A t \in Tasks : Agree(t, i)' <=> Agree(t, i)
  BY <1>1, <1>5, <1>6 DEF Shared, Agree
<1>8. \A i : ~Erasing(i)
  BY <1>3 DEF Erasing
<1>9. HalfTags'
  BY <1>2 DEF HalfTags
<1> QED BY <1>0, <1>1, <1>2, <1>3, <1>4, <1>5, <1>7, <1>8, <1>9 DEF KeywordsGo, TagRows

LEMMA DropTagsGoes ==
  ASSUME TagInv, DropTags PROVE KeywordsGo /\ HalfTags'
<1>0. /\ TagRows /\ tags \in [Tasks -> SUBSET LocalIds] /\ ListsOK /\ HalfRows /\ Tied
  BY DEF TagInv, StepInv, TypeInv, TypeOK
<1>1. /\ UNCHANGED <<local, remote, rtags, tagsChanged, rtagsChanged, apart, cuts, todo>>
      /\ pc = "apply" /\ pc' = "apply" /\ half.op = "dropTags"
      /\ tags' = Untagged(half.local) /\ Then("drop", half.local, half.remote)
  BY DEF DropTags, After, server, bounds, Silent
<1>2. PICK i : i = half.local
  OBVIOUS
<1>3. half'.op = "drop" /\ half'.local = i
  BY <1>1, <1>2, ThenIs
<1>4. /\ KeywordsDone /\ KeywordsDone'
      /\ i \in Locals /\ local[i].tid = half.remote /\ remote[local[i].tid].deleted
  BY <1>0, <1>1, <1>2 DEF HalfRows, KeywordsDone, ListsOK
<1>5. Locals' = Locals /\ Remotes' = Remotes
  BY <1>1 DEF Locals, Remotes
<1>6. \A t \in Tasks : tags'[t] = tags[t] \ {i}
  BY <1>0, <1>1, <1>2 DEF Untagged
<1>7. \A j \in Locals' : Shared(j)' => \A t \in Tasks : Agree(t, j)' <=> Agree(t, j)
  BY <1>1, <1>4, <1>6 DEF Shared, Agree
<1>8. \A j : ~Erasing(j)
  BY <1>1 DEF Erasing
<1>9. HalfTags'
  BY <1>3, <1>6 DEF HalfTags
<1> QED BY <1>0, <1>1, <1>3, <1>4, <1>5, <1>6, <1>7, <1>8, <1>9 DEF KeywordsGo, TagRows

LEMMA RowGoes ==
  ASSUME TagInv, Drop \/ EraseLocal PROVE KeywordsGo /\ HalfTags'
<1>0. /\ TagRows /\ TypeOK /\ HalfOK /\ ListsOK /\ HalfRows /\ HalfTags /\ Tied /\ todo \in Lists
  BY DEF TagInv, StepInv, TypeInv, TypeOK
<1>1. /\ UNCHANGED <<remote, tags, rtags, tagsChanged, rtagsChanged, apart, cuts>>
      /\ pc = "apply" /\ pc' = "apply" /\ half.op \in {"drop", "eraseLocal"}
      /\ local' = [local EXCEPT ![half.local] = NoLocal] /\ half' = Whole
  BY DEF Drop, EraseLocal, After, server, bounds, Silent
<1>2. PICK l \in LocalIds : l = half.local
  BY <1>0, <1>1 DEF HalfOK
<1>3. half'.op = "none" /\ HalfTags'
  BY <1>1, WholeIs DEF HalfTags
<1>4. /\ Locals' = Locals \ {l}
      /\ \A i \in LocalIds : i # l => local'[i] = local[i]
  <2>1. PICK row \in LocalRow : row = NoLocal /\ ~row.exists
    BY NewRows
  <2>2. local' = [local EXCEPT ![l] = row] /\ ~row.exists
    BY <1>1, <1>2, <2>1
  <2> QED BY <1>0, <2>2, LocalSet
<1>5. /\ \A i : i # l => (i \in todo.erases <=> i \in todo'.erases)
      /\ todo'.taskPulls = todo.taskPulls
      /\ todo'.taskUpdated = todo.taskUpdated /\ todo'.taskPushes = todo.taskPushes
      /\ todo'.pulls = todo.pulls /\ todo'.pushes = todo.pushes
  <2>1. \/ todo' = [todo EXCEPT !.drops = @ \ {half.remote}]
        \/ todo' = [todo EXCEPT !.erases = @ \ {l}]
    BY <1>2 DEF Drop, EraseLocal
  <2>2. CASE todo' = [todo EXCEPT !.drops = @ \ {half.remote}]
    BY <1>0, <2>2, LessTodo
  <2>3. CASE todo' = [todo EXCEPT !.erases = @ \ {l}]
    BY <1>0, <2>3, LessTodo
  <2> QED BY <2>1, <2>2, <2>3
<1>6. KeywordsDone /\ KeywordsDone'
  BY <1>0, <1>1, <1>5 DEF HalfRows, KeywordsDone
<1>7. l \in Locals => local[l].tid = None \/ remote[local[l].tid].deleted
  BY <1>0, <1>1, <1>2 DEF HalfRows, ListsOK
<1>8. \A t \in Tasks : l \notin tags[t]
  BY <1>0, <1>1, <1>2 DEF HalfTags
<1>9. Remotes' = Remotes /\ \A i \in Locals : i \in LocalIds
  BY <1>1 DEF Locals, Remotes
<1>10. \A i \in Locals' : \A t \in Tasks : Agree(t, i)' <=> Agree(t, i)
  BY <1>1, <1>4, <1>9 DEF Agree
<1>11. \A i \in Locals' : ~Erasing(i)
  BY <1>2, <1>4 DEF Erasing
<1>12. \A t \in Tasks : tags[t] \subseteq Locals'
  BY <1>0, <1>4, <1>8 DEF TagRows
<1> QED BY <1>1, <1>3, <1>4, <1>5, <1>6, <1>7, <1>9, <1>10, <1>11, <1>12 DEF KeywordsGo

LEMMA EraseTagsGoes ==
  ASSUME TagInv, NEW i \in LocalIds, EraseTags(i) PROVE KeywordsGo /\ HalfTags'
<1>0. /\ TagRows /\ tags \in [Tasks -> SUBSET LocalIds] /\ HalfRows
  BY DEF TagInv, StepInv, TypeInv, TypeOK
<1>1. /\ UNCHANGED <<local, remote, rtags, tagsChanged, rtagsChanged, apart, cuts, todo>>
      /\ pc = "apply" /\ pc' = "apply" /\ KeywordsDone /\ half = Whole /\ i \in todo.erases
      /\ tags' = Untagged(i)
      /\ Then("eraseThere", i, local[i].tid) \/ Then("eraseLocal", i, None)
  BY DEF EraseTags, Applying, TasksDone, server, bounds, Silent
<1>2. half'.op \in {"eraseThere", "eraseLocal"} /\ half'.local = i
  BY <1>1, ThenIs
<1>3. half.op = "none" /\ KeywordsDone'
  BY <1>1, WholeIs DEF KeywordsDone
<1>4. Locals' = Locals /\ Remotes' = Remotes
  BY <1>1 DEF Locals, Remotes
<1>5. \A t \in Tasks : tags'[t] = tags[t] \ {i}
  BY <1>0, <1>1 DEF Untagged
<1>6. \A j \in Locals' : j # i => \A t \in Tasks : Agree(t, j)' <=> Agree(t, j)
  BY <1>1, <1>5 DEF Agree
<1>7. Erasing(i)' /\ \A j : ~Erasing(j)
  BY <1>2, <1>3 DEF Erasing
<1>8. HalfTags'
  BY <1>2, <1>5 DEF HalfTags
<1>9. i \in Locals' => i \in todo'.erases /\ Erasing(i)'
  BY <1>1, <1>7
<1> QED BY <1>0, <1>1, <1>2, <1>3, <1>4, <1>5, <1>6, <1>7, <1>8, <1>9 DEF KeywordsGo, TagRows

LEMMA EraseThereGoes ==
  ASSUME TagInv, EraseThere \/ Mark PROVE KeywordsGo /\ HalfTags'
<1>0. /\ TagRows /\ rtags \in [Tasks -> SUBSET RemoteIds] /\ TypeOK /\ HalfOK /\ HalfRows
      /\ HalfTags /\ Tied
  BY DEF TagInv, StepInv, TypeInv, TypeOK
<1>1. /\ UNCHANGED <<local, tags, tagsChanged, rtagsChanged, apart, cuts, todo>>
      /\ pc = "apply" /\ pc' = "apply" /\ half.op \in {"eraseThere", "mark"}
      /\ \/ Then("mark", half.local, half.remote) \/ Then("eraseLocal", half.local, None)
  BY DEF EraseThere, Mark, After, client, bounds, Silent
<1>2. PICK i \in LocalIds, r \in RemoteIds : i = half.local /\ r = half.remote
  BY <1>0, <1>1 DEF HalfOK
<1>3. half'.op \in {"mark", "eraseLocal"} /\ half'.local = i
  BY <1>1, <1>2, ThenIs
<1>4. /\ KeywordsDone /\ KeywordsDone' /\ i \in todo.erases \cap Locals
      /\ local[i].tid = r /\ r \in Remotes
  BY <1>0, <1>1, <1>2 DEF HalfRows, KeywordsDone
<1>5. Locals' = Locals
  BY <1>1 DEF Locals
<1>6. /\ Remotes' = Remotes
      /\ \A q \in Remotes : /\ remote'[q].name = remote[q].name
                            /\ remote[q].deleted => remote'[q].deleted
      /\ \A t \in Tasks : rtags'[t] = rtags[t] \/ rtags'[t] = rtags[t] \ {r}
  <2>1. CASE EraseThere
    <3>1. remote' = remote /\ rtags' = RUntagged(r)
      BY <1>2, <2>1 DEF EraseThere
    <3> QED BY <1>0, <3>1 DEF RUntagged, Remotes
  <2>2. CASE Mark
    <3>1. PICK row \in RemoteRow :
           /\ remote' = [remote EXCEPT ![r] = row]
           /\ row.exists = remote[r].exists /\ row.name = remote[r].name /\ row.deleted
      BY <1>0, <1>2, <2>2, MarkIs
    <3>2. row.exists
      BY <1>4, <3>1 DEF Remotes
    <3>3. /\ remote'[r] = row /\ \A q \in RemoteIds : q # r => remote'[q] = remote[q]
          /\ Remotes' = Remotes \cup {r}
      BY <1>0, <3>1, <3>2, RemoteSet
    <3>4. rtags' = rtags /\ Remotes' = Remotes
      BY <1>4, <2>2, <3>3 DEF Mark
    <3>5. \A q \in Remotes : q \in RemoteIds
      BY DEF Remotes
    <3> QED BY <3>1, <3>3, <3>4, <3>5
  <2> QED BY <1>1, <2>1, <2>2 DEF EraseThere, Mark, After
<1>7. \A j \in Locals' : j # i => \A t \in Tasks : Agree(t, j)' <=> Agree(t, j)
  <2>1. \A j \in Locals : j # i => local[j].tid # r
    BY <1>0, <1>4 DEF Tied
  <2> QED BY <1>1, <1>5, <1>6, <2>1 DEF Agree
<1>8. Erasing(i)' /\ \A j : Erasing(j) => j = i
  BY <1>2, <1>3 DEF Erasing
<1>9. HalfTags'
  <2>1. \A t \in Tasks : i \notin tags[t]
    BY <1>0, <1>1, <1>2 DEF HalfTags
  <2> QED BY <1>1, <1>3, <2>1 DEF HalfTags
<1>10. \A j \in Locals' :
         \/ j \in todo'.erases /\ Erasing(j)'
         \/ \A t \in Tasks : Agree(t, j)' <=> Agree(t, j)
  BY <1>1, <1>4, <1>7, <1>8
<1>11. \A j \in Locals' : Erasing(j) => Erasing(j)'
  BY <1>8
<1>12. \A t \in Tasks : /\ tags'[t] = tags[t] /\ tags[t] \subseteq Locals
                        /\ rtags'[t] \subseteq rtags[t]
  BY <1>0, <1>1, <1>6 DEF TagRows
<1> QED BY <1>1, <1>3, <1>4, <1>5, <1>6, <1>9, <1>10, <1>11, <1>12 DEF KeywordsGo

LEMMA GoneTags ==
  ASSUME TagInv, StepInv', GoneStep PROVE TagInv'
<1>0. /\ StepInv /\ NamesOnce /\ TagRows /\ DeletedKnown /\ TagsNew /\ TagsKept /\ TaskLists
      /\ Tied /\ ListsOK'
  BY DEF TagInv, StepInv
<1>1. KeywordsGo /\ HalfTags'
  BY DropThereGoes, DropTagsGoes, RowGoes, EraseTagsGoes, EraseThereGoes DEF GoneStep
<1>2. /\ UNCHANGED <<tagsChanged, rtagsChanged, apart, cuts>>
      /\ pc = "apply" /\ pc' = "apply" /\ KeywordsDone /\ KeywordsDone'
      /\ half.op \notin {"pullTags", "pushTags"} /\ half'.op \notin {"pullTags", "pushTags"}
      /\ todo'.taskPulls = todo.taskPulls /\ todo'.taskPushes = todo.taskPushes
      /\ todo'.taskUpdated = todo.taskUpdated /\ Remotes' = Remotes
  BY <1>1 DEF KeywordsGo
<1>3. \A i \in Locals' : /\ i \in Locals /\ local'[i] = local[i]
                         /\ i \in todo.erases <=> i \in todo'.erases
                         /\ Erasing(i) => Erasing(i)'
  BY <1>1 DEF KeywordsGo
<1>4. \A r \in Remotes : /\ remote'[r].name = remote[r].name
                         /\ remote[r].deleted => remote'[r].deleted
  BY <1>1 DEF KeywordsGo
<1>5. \A t \in Tasks : /\ tags'[t] \subseteq tags[t] /\ tags'[t] \subseteq Locals'
                       /\ rtags'[t] \subseteq rtags[t]
  BY <1>1 DEF KeywordsGo
<1>6. \A i \in Locals' : \/ ~Shared(i)'
                         \/ i \in todo'.erases /\ Erasing(i)'
                         \/ \A t \in Tasks : Agree(t, i)' <=> Agree(t, i)
  BY <1>1 DEF KeywordsGo
<1>7. NamesOnce'
  BY <1>0, <1>2, <1>3, <1>4 DEF NamesOnce
<1>8. TagRows'
  BY <1>0, <1>2, <1>5 DEF TagRows
<1>9. DeletedKnown'
  BY <1>0, <1>2, <1>3 DEF DeletedKnown
<1>10. HalfTask' /\ ListsKept'
  BY <1>2 DEF HalfTask, ListsKept
<1>11. \A i \in Locals' : Shared(i)' => Shared(i)
  BY <1>2, <1>3, <1>4 DEF Shared
<1>12. TagsNew'
  <2>1. ASSUME NEW t \in Tasks \ tagsChanged, NEW i \in tags'[t]
        PROVE  local'[i].tid # None
    BY <1>0, <1>3, <1>5 DEF TagsNew
  <2>2. ASSUME NEW t \in Tasks \ (tagsChanged \cup rtagsChanged), NEW r \in rtags'[t],
               ~remote'[r].deleted
        PROVE  \E i \in Locals' : local'[i].tid = r
    <3>1. r \in rtags[t] /\ r \in Remotes /\ r # None
      BY <1>0, <1>5 DEF TagRows, Remotes
    <3>2. ~remote[r].deleted
      BY <1>4, <2>2, <3>1
    <3>3. PICK i \in Locals : local[i].tid = r
      BY <1>0, <3>1, <3>2 DEF TagsNew
    <3>4. i \in Locals'
      BY <1>1, <3>1, <3>2, <3>3 DEF KeywordsGo
    <3> QED BY <1>3, <3>3, <3>4
  <2> QED BY <1>2, <2>1, <2>2 DEF TagsNew
<1>13. TagsKept'
  <2> SUFFICES ASSUME NEW t \in Tasks \ (tagsChanged \cup rtagsChanged), NEW i \in Locals',
                      Shared(i)', ~local'[i].deleted \/ (cuts = 0 /\ ~Erasing(i)')
               PROVE  Agree(t, i)'
    BY <1>2 DEF TagsKept
  <2>1. Shared(i) /\ (~local[i].deleted \/ (cuts = 0 /\ ~Erasing(i)))
    BY <1>3, <1>11
  <2>2. Agree(t, i)
    BY <1>0, <1>3, <2>1 DEF TagsKept
  <2>3. i \in todo'.erases => local'[i].deleted
    BY <1>0 DEF ListsOK
  <2> QED BY <1>6, <2>2, <2>3
<1>14. TaskLists'
  BY <1>0, <1>2, <1>3, <1>6, <1>11 DEF TaskLists
<1> QED BY <1>1, <1>7, <1>8, <1>9, <1>10, <1>12, <1>13, <1>14 DEF TagInv

LEMMA UserTags ==
  ASSUME TagInv, StepInv', UserWrite PROVE TagInv'
<1>0. /\ StepInv /\ TypeOK /\ NamesOnce /\ TagRows /\ DeletedKnown /\ TagsNew /\ TagsKept
      /\ Tied /\ HalfOK /\ tags \in [Tasks -> SUBSET LocalIds]
  BY DEF TagInv, StepInv, TypeInv, TypeOK
<1>1. PICK i \in LocalIds, n \in Names :
        \/ Rename(i, n) \/ Star(i) \/ Toggle(i) \/ New(i, n)
        \/ \E t \in Tasks : Tag(t, i) \/ TagNamed(t, i, n) \/ UntagAll(t)
  BY DEF UserWrite
<1>2. /\ pc = "idle" /\ pc' = "idle"
      /\ UNCHANGED <<remote, rtags, rtagsChanged, cuts>> /\ half.op = "none"
  BY <1>0, WholeIs DEF UserWrite, UserEdit, Edit, control, HalfOK
<1>3. Remotes' = Remotes
  BY <1>2 DEF Remotes
<1>4. /\ apart \subseteq apart' /\ tagsChanged \subseteq tagsChanged'
      /\ ~Toggle(i) => apart' = apart
  BY <1>1 DEF Rename, Star, Toggle, New, Tag, TagNamed, UntagAll
\* the rows
<1>5. /\ NamesOnce' /\ Locals \subseteq Locals'
      /\ \A j \in Locals : /\ local'[j].tid = local[j].tid
                           /\ \/ local'[j].deleted = local[j].deleted
                              \/ Toggle(j)
                           /\ local'[j].deleted => local'[j].changed
      /\ \A j \in Locals' \ Locals : local'[j].tid = None /\ ~local'[j].deleted
  <2>0. \A j \in Locals : j \in LocalIds /\ (local[j].deleted => local[j].changed)
    BY <1>0 DEF DeletedKnown, Locals
  <2>1. CASE Rename(i, n) \/ Star(i) \/ Toggle(i)
    <3>1. PICK row \in LocalRow :
             /\ local' = [local EXCEPT ![i] = row] /\ i \in Locals
             /\ row.exists /\ row.tid = local[i].tid /\ row.changed
             /\ row.name = local[i].name \/ LocalFree(row.name, i)
             /\ row.deleted = local[i].deleted \/ Toggle(i)
      BY <1>0, <2>1, RewrittenIs
    <3>2. /\ local'[i] = row /\ \A j \in LocalIds : j # i => local'[j] = local[j]
          /\ Locals' = Locals \cup {i}
      BY <1>0, <3>1, LocalSet
    <3>3. NamesOnce'
      BY <1>0, <1>2, <3>1, ClientNames
    <3>4. Locals' = Locals
      BY <3>1, <3>2
    <3>5. ASSUME NEW j \in Locals
          PROVE  /\ local'[j].tid = local[j].tid
                 /\ local'[j].deleted = local[j].deleted \/ Toggle(j)
                 /\ local'[j].deleted => local'[j].changed
      <4>1. CASE j = i
        BY <3>1, <3>2, <4>1
      <4>2. CASE j # i
        BY <2>0, <3>2, <4>2
      <4> QED BY <4>1, <4>2
    <3> QED BY <3>3, <3>4, <3>5
  <2>2. CASE local' = local
    <3>1. Locals' = Locals
      BY <2>2 DEF Locals
    <3> QED BY <1>0, <1>2, <2>0, <2>2, <3>1, SameNames
  <2>3. CASE \E star \in BOOLEAN :
              /\ local' = [local EXCEPT ![i] = Fresh(n, star)]
              /\ i \notin Locals /\ LocalFree(n, i)
    <3>1. PICK star \in BOOLEAN : local' = [local EXCEPT ![i] = Fresh(n, star)]
      BY <2>3
    <3>2. PICK row \in LocalRow : /\ row = Fresh(n, star) /\ row.exists /\ row.tid = None
                                  /\ row.name = n /\ ~row.deleted
      BY NewRows
    <3>0. local' = [local EXCEPT ![i] = row] /\ TypeOK
      BY <1>0, <3>1, <3>2
    <3>3. /\ local'[i] = row /\ \A j \in LocalIds : j # i => local'[j] = local[j]
          /\ Locals' = Locals \cup {i}
      <4>1. row.exists
        BY <3>2
      <4> QED BY <3>0, <4>1, LocalSet
    <3>4. NamesOnce'
      BY <1>0, <1>2, <2>3, <3>0, <3>2, ClientNames
    <3>5. \A j \in Locals : j # i /\ local'[j] = local[j]
      BY <2>0, <2>3, <3>3
    <3>6. \A j \in Locals' \ Locals : local'[j].tid = None /\ ~local'[j].deleted
      BY <3>2, <3>3
    <3> QED BY <2>0, <3>3, <3>4, <3>5, <3>6
  <2>4. New(i, n) \/ (\E t \in Tasks : TagNamed(t, i, n)) =>
          \/ local' = local
          \/ \E star \in BOOLEAN :
                /\ local' = [local EXCEPT ![i] = Fresh(n, star)]
                /\ i \notin Locals /\ LocalFree(n, i)
    BY <1>0, NewIs
  <2>5. (\E t \in Tasks : Tag(t, i) \/ UntagAll(t)) => local' = local
    BY DEF Tag, UntagAll
  <2> QED BY <1>1, <2>1, <2>2, <2>3, <2>4, <2>5
\* the tags
<1>6. \A t \in Tasks : /\ t \in tagsChanged' \/ tags'[t] = tags[t]
                       /\ tags'[t] \subseteq Locals'
  <2>0. \A t \in Tasks : tags[t] \subseteq Locals'
    BY <1>0, <1>5 DEF TagRows
  <2>1. CASE tags' = tags
    BY <2>0, <2>1
  <2>2. ASSUME NEW t \in Tasks, Tag(t, i) \/ TagNamed(t, i, n) \/ UntagAll(t)
        PROVE  \E S \in SUBSET Locals' :
                 tags' = [tags EXCEPT ![t] = S] /\ tagsChanged' = tagsChanged \cup {t}
    <3>1. CASE Tag(t, i)
      <4>1. i \in Locals'
        BY <1>5, <3>1 DEF Tag
      <4>2. tags[t] \cup {i} \in SUBSET Locals'
        BY <2>0, <4>1
      <4> QED BY <3>1, <4>2 DEF Tag
    <3>2. CASE TagNamed(t, i, n)
      <4>1. PICK U : U = {j \in LocalIds : local'[j].exists /\ local'[j].name = n}
        OBVIOUS
      <4>2. U \in SUBSET Locals'
        BY <4>1 DEF Locals
      <4>3. tags[t] \cup U \in SUBSET Locals'
        BY <2>0, <4>2
      <4>4. tags' = [tags EXCEPT ![t] = tags[t] \cup U]
        BY <1>0, <3>2, <4>1 DEF TagNamed
      <4>5. tagsChanged' = tagsChanged \cup {t}
        BY <3>2 DEF TagNamed
      <4> QED BY <4>3, <4>4, <4>5
    <3>3. CASE UntagAll(t)
      <4>1. PICK S \in SUBSET Locals' : S = {}
        OBVIOUS
      <4> QED BY <3>3, <4>1 DEF UntagAll
    <3> QED BY <2>2, <3>1, <3>2, <3>3
  <2>3. ASSUME NEW t \in Tasks, NEW S \in SUBSET Locals',
               tags' = [tags EXCEPT ![t] = S], tagsChanged' = tagsChanged \cup {t}
        PROVE  \A u \in Tasks : /\ u \in tagsChanged' \/ tags'[u] = tags[u]
                                /\ tags'[u] \subseteq Locals'
    <3>1. tags'[t] = S /\ \A u \in Tasks : u # t => tags'[u] = tags[u]
      BY <1>0, <2>3
    <3> QED BY <2>0, <2>3, <3>1
  <2>4. Rename(i, n) \/ Star(i) \/ Toggle(i) \/ New(i, n) => tags' = tags
    BY DEF Rename, Star, Toggle, New
  <2> QED BY <1>1, <2>1, <2>2, <2>3, <2>4
<1>7. TagRows'
  BY <1>0, <1>2, <1>3, <1>6 DEF TagRows
<1>8. TagsNew'
  <2>1. ASSUME NEW t \in Tasks \ tagsChanged', NEW j \in tags'[t]
        PROVE  local'[j].tid # None
    <3>1. t \notin tagsChanged /\ j \in tags[t] /\ j \in Locals
      BY <1>0, <1>4, <1>6 DEF TagRows
    <3> QED BY <1>0, <1>5, <3>1 DEF TagsNew
  <2>2. ASSUME NEW t \in Tasks \ (tagsChanged' \cup rtagsChanged), NEW r \in rtags[t],
               ~remote[r].deleted
        PROVE  \E j \in Locals' : local'[j].tid = r
    <3>1. PICK j \in Locals : local[j].tid = r
      BY <1>0, <1>4, <2>2 DEF TagsNew
    <3> QED BY <1>5, <3>1
  <2> QED BY <1>2, <2>1, <2>2 DEF TagsNew
<1>9. TagsKept'
  <2> SUFFICES ASSUME NEW t \in Tasks \ (tagsChanged' \cup rtagsChanged), NEW j \in Locals',
                      Shared(j)', ~local'[j].deleted \/ cuts = 0
               PROVE  Agree(t, j)'
    BY <1>2 DEF TagsKept
  <2>1. local'[j].tid # None
    BY DEF Shared, Remotes
  <2>2. j \in Locals /\ local'[j].tid = local[j].tid
    BY <1>5, <2>1
  <2>3. Shared(j)
    BY <1>2, <1>3, <1>4, <2>2 DEF Shared
  <2>4. ~local[j].deleted \/ cuts = 0
    <3> SUFFICES ASSUME local[j].deleted, cuts # 0 PROVE FALSE
      OBVIOUS
    <3>1. Toggle(j)
      BY <1>5, <2>2
    <3>2. cuts > 0
      BY <1>0 DEF TypeOK
    <3>3. apart' = apart \cup {local[j].tid}
      BY <2>1, <2>2, <3>1, <3>2 DEF Toggle
    <3> QED BY <2>2, <3>3 DEF Shared
  <2>5. ~Erasing(j)
    BY <1>2 DEF Erasing
  <2>6. Agree(t, j)
    BY <1>0, <1>4, <2>2, <2>3, <2>4, <2>5 DEF TagsKept
  <2> QED BY <1>2, <1>6, <2>2, <2>6 DEF Agree
<1>10. \A j \in Locals' : local'[j].deleted => local'[j].changed
  BY <1>5
<1> QED BY <1>2, <1>5, <1>7, <1>8, <1>9, <1>10, IdleTags

LEMMA OthersTags ==
  ASSUME TagInv, StepInv', OthersWrite PROVE TagInv'
<1>0. /\ StepInv /\ TypeOK /\ NamesOnce /\ TagRows /\ DeletedKnown /\ TagsNew /\ TagsKept
      /\ Tied /\ HalfOK /\ rtags \in [Tasks -> SUBSET RemoteIds]
  BY DEF TagInv, StepInv, TypeInv, TypeOK
<1>1. PICK r \in RemoteIds, n \in Names, star \in BOOLEAN :
        \/ RemoteNew(r, n) \/ RemoteWrite(r, n, star) \/ RemoteDelete(r)
        \/ \E t \in Tasks, S \in SUBSET RemoteIds : RemoteTag(t, S)
  BY DEF OthersWrite
<1>2. /\ pc = "idle" /\ pc' = "idle" /\ half' = half
      /\ UNCHANGED <<local, tags, tagsChanged, apart, cuts>>
  BY DEF OthersWrite, OthersEdit, Edit, control, client
<1>3. Locals' = Locals
  BY <1>2 DEF Locals
<1>4. /\ NamesOnce' /\ Remotes \subseteq Remotes' /\ rtagsChanged \subseteq rtagsChanged'
      /\ \A q \in Remotes : remote[q].deleted => remote'[q].deleted
      /\ \A t \in Tasks : rtags'[t] \subseteq Remotes'
      /\ \A t \in Tasks \ rtagsChanged' :
           /\ rtags'[t] \subseteq rtags[t]
           /\ \A q \in rtags[t] \ rtags'[t] : remote'[q].deleted
  <2>1. CASE RemoteNew(r, n) \/ RemoteWrite(r, n, star) \/ RemoteDelete(r)
    <3>1. PICK row \in RemoteRow :
           /\ remote' = [remote EXCEPT ![r] = row] /\ row.exists
           /\ RemoteFree(row.name, r) \/ (r \in Remotes /\ row.name = remote[r].name)
           /\ r \in Remotes => ~remote[r].deleted
           /\ \/ ~row.deleted /\ rtags' = rtags
              \/ row.deleted /\ RemoteDelete(r) /\ r \in Remotes
      BY <1>0, <2>1, OthersIs
    <3>2. /\ remote'[r] = row /\ \A q \in RemoteIds : q # r => remote'[q] = remote[q]
          /\ Remotes' = Remotes \cup {r}
      BY <1>0, <3>1, RemoteSet
    <3>3. NamesOnce'
      BY <1>0, <1>2, <3>1, ServerNames
    <3>4. \A q \in Remotes : remote[q].deleted => remote'[q].deleted
      BY <3>1, <3>2 DEF Remotes
    <3>5. rtagsChanged' = rtagsChanged
      BY <2>1 DEF RemoteNew, RemoteWrite, RemoteDelete
    <3>6. \A t \in Tasks : /\ rtags'[t] \subseteq rtags[t]
                           /\ \A q \in rtags[t] \ rtags'[t] : remote'[q].deleted
      <4>1. CASE rtags' = rtags
        BY <4>1
      <4>2. CASE row.deleted /\ RemoteDelete(r)
        <5>1. \A t \in Tasks : rtags'[t] = rtags[t] \ {r}
          BY <1>0, <4>2 DEF RemoteDelete, RUntagged
        <5> QED BY <3>2, <4>2, <5>1
      <4> QED BY <3>1, <4>1, <4>2
    <3>7. \A t \in Tasks : rtags'[t] \subseteq Remotes'
      BY <1>0, <3>2, <3>6 DEF TagRows
    <3> QED BY <3>2, <3>3, <3>4, <3>5, <3>6, <3>7
  <2>2. ASSUME NEW t \in Tasks, NEW S \in SUBSET RemoteIds, RemoteTag(t, S)
        PROVE  /\ NamesOnce' /\ Remotes' = Remotes /\ remote' = remote
               /\ rtagsChanged' = rtagsChanged \cup {t} /\ S \subseteq Remotes
               /\ \A u \in Tasks : rtags'[u] = IF u = t THEN S ELSE rtags[u]
    <3>1. /\ remote' = remote /\ rtagsChanged' = rtagsChanged \cup {t}
          /\ rtags' = [rtags EXCEPT ![t] = S] /\ S \subseteq Remotes
      BY <2>2 DEF RemoteTag
    <3> QED BY <1>0, <1>2, <3>1, SameNames DEF Remotes
  <2>3. CASE \E t \in Tasks, S \in SUBSET RemoteIds : RemoteTag(t, S)
    BY <1>0, <2>2, <2>3 DEF TagRows
  <2> QED BY <1>1, <2>1, <2>3
<1>5. TagRows'
  BY <1>0, <1>2, <1>3, <1>4 DEF TagRows
<1>6. TagsNew'
  <2>1. ASSUME NEW t \in Tasks \ (tagsChanged \cup rtagsChanged'), NEW q \in rtags'[t],
               ~remote'[q].deleted
        PROVE  \E j \in Locals : local[j].tid = q
    <3>1. t \notin rtagsChanged /\ q \in rtags[t] /\ q \in Remotes
      BY <1>0, <1>4 DEF TagRows
    <3>2. ~remote[q].deleted
      BY <1>4, <2>1, <3>1
    <3> QED BY <1>0, <3>1, <3>2 DEF TagsNew
  <2> QED BY <1>0, <1>2, <1>3, <2>1 DEF TagsNew
<1>7. TagsKept'
  <2> SUFFICES ASSUME NEW t \in Tasks \ (tagsChanged \cup rtagsChanged'), NEW j \in Locals,
                      Shared(j)', ~local[j].deleted \/ (cuts = 0 /\ ~Erasing(j))
               PROVE  Agree(t, j)'
    BY <1>2, <1>3 DEF TagsKept, Erasing
  <2>1. local[j].tid # None
    BY <1>2 DEF Shared, Remotes
  <2>2. local[j].tid \in Remotes /\ ~remote'[local[j].tid].deleted
    BY <1>0, <1>2, <2>1 DEF Tied, Shared
  <2>3. Shared(j)
    BY <1>2, <1>4, <2>2 DEF Shared
  <2>4. Agree(t, j)
    BY <1>0, <1>4, <2>3 DEF TagsKept
  <2>5. local[j].tid \in rtags'[t] <=> local[j].tid \in rtags[t]
    BY <1>4, <2>2
  <2> QED BY <1>2, <2>4, <2>5 DEF Agree
<1>8. \A j \in Locals' : local'[j].deleted => local'[j].changed
  BY <1>0, <1>2, <1>3 DEF DeletedKnown
<1> QED BY <1>2, <1>4, <1>5, <1>6, <1>7, <1>8, IdleTags

\* A sync begins, ends or stops, or the program is started again.
LEMMA SameTags ==
  ASSUME TagInv, UNCHANGED <<local, tags, tagsChanged, remote, rtags, rtagsChanged, apart>>,
         cuts' = 0 => cuts = 0 /\ \A i : Erasing(i) => Erasing(i)'
  PROVE  /\ NamesOnce' /\ TagRows' /\ TagsNew' /\ TagsKept' /\ Locals' = Locals
         /\ \A i \in Locals' : local'[i].deleted => local'[i].changed
<1>0. NamesOnce /\ TagRows /\ TagsNew /\ TagsKept /\ DeletedKnown
  BY DEF TagInv
<1>1. Locals' = Locals /\ Remotes' = Remotes
  BY DEF Locals, Remotes
<1>2. NamesOnce' /\ TagRows' /\ TagsNew'
  BY <1>0, <1>1, SameNames DEF TagRows, TagsNew
<1>3. TagsKept'
  BY <1>0, <1>1 DEF TagsKept, Shared, Agree
<1> QED BY <1>0, <1>1, <1>2, <1>3 DEF DeletedKnown

LEMMA StopTags ==
  ASSUME TagInv, StepInv', Stop \/ Restart PROVE TagInv'
<1>1. /\ UNCHANGED <<local, tags, tagsChanged, remote, rtags, rtagsChanged, apart>>
      /\ pc' = "idle"
  BY DEF Stop, Restart, GiveUp, client, server
<1>2. cuts' = 0 => cuts = 0 /\ \A i : Erasing(i) => Erasing(i)'
  <2>1. CASE Restart
    BY <2>1 DEF Restart, bounds, Erasing
  <2>2. CASE CutShort
    <3>1. cuts \in Nat /\ cuts' = cuts + 1
      BY <2>2 DEF CutShort, TagInv, StepInv, TypeInv, TypeOK
    <3>2. cuts' # 0
      BY <3>1
    <3> QED BY <3>2
  <2>3. CASE Refuse /\ half.op \in {"none", "pullTags"}
    BY <2>3 DEF Refuse, Erasing
  <2> QED BY <2>1, <2>2, <2>3 DEF Stop
<1>3. /\ NamesOnce' /\ TagRows' /\ TagsNew' /\ TagsKept'
      /\ \A i \in Locals' : local'[i].deleted => local'[i].changed
  BY <1>1, <1>2, SameTags
<1> QED BY <1>1, <1>3, IdleTags

LEMMA BeginTags ==
  ASSUME TagInv, StepInv', Begin PROVE TagInv'
<1>1. /\ UNCHANGED <<local, tags, tagsChanged, remote, rtags, rtagsChanged, apart, cuts, half>>
      /\ pc = "idle" /\ pc' = "apply"
  BY DEF Begin, client, server, bounds
<1>2. /\ todo'.erases = {i \in Locals : local[i].changed /\ local[i].deleted}
      /\ todo'.taskPulls = rtagsChanged /\ todo'.taskUpdated = rtagsChanged
      /\ todo'.taskPushes = tagsChanged
  BY DEF Begin
<1>3. /\ NamesOnce' /\ TagRows' /\ TagsNew' /\ TagsKept' /\ Locals' = Locals
      /\ \A i \in Locals' : local'[i].deleted => local'[i].changed
  BY <1>1, SameTags DEF Erasing
<1>4. half'.op = "none"
  BY <1>1, WholeIs DEF TagInv, StepInv, TypeInv, HalfOK
<1>5. HalfTags' /\ HalfTask'
  BY <1>4 DEF HalfTags, HalfTask
<1>6. DeletedKnown'
  BY <1>1, <1>2, <1>3 DEF DeletedKnown
<1>7. ListsKept' /\ TaskLists'
  BY <1>1, <1>2, <1>3, <1>6, ListsFromKept
<1> QED BY <1>3, <1>5, <1>6, <1>7 DEF TagInv

LEMMA FinishTags ==
  ASSUME TagInv, StepInv', Finish PROVE TagInv'
<1>0. /\ StepInv /\ TypeOK /\ NamesOnce /\ TagRows /\ DeletedKnown /\ TaskLists /\ Progress
  BY DEF TagInv, StepInv, TypeInv
<1>1. /\ UNCHANGED <<tags, rtags, apart, cuts>> /\ tagsChanged' = {} /\ rtagsChanged' = {}
      /\ pc = "apply" /\ pc' = "idle" /\ half = Whole
      /\ KeywordsDone /\ todo.taskPulls = {} /\ todo.taskPushes = {}
      /\ todo.drops = {} /\ todo.erases = {}
  BY DEF Finish, Applying, TasksDone, bounds
<1>2. /\ \A i \in LocalIds : /\ local'[i].tid = local[i].tid /\ local'[i].name = local[i].name
                             /\ local'[i].deleted = local[i].deleted
      /\ \A r \in RemoteIds : /\ remote'[r].name = remote[r].name
                              /\ remote'[r].deleted = remote[r].deleted
      /\ Locals' = Locals /\ Remotes' = Remotes
  BY <1>0, FinishIs
<1>3. half.op = "none"
  BY <1>1, WholeIs
<1>4. (\A i \in Locals : i \in LocalIds) /\ (\A r \in Remotes : r \in RemoteIds)
  BY DEF Locals, Remotes
<1>5. NamesOnce'
  BY <1>0, <1>2, <1>4 DEF NamesOnce
<1>6. TagRows'
  BY <1>0, <1>1, <1>2 DEF TagRows
<1>7. TagsNew'
  <2>1. ASSUME NEW t \in Tasks, NEW i \in tags[t] PROVE local'[i].tid # None
    <3>1. i \in Locals /\ i \in LocalIds
      BY <1>0, <1>4 DEF TagRows
    <3>2. local[i].tid # None
      BY <1>0, <1>1, <3>1 DEF Progress, KeywordsDone
    <3> QED BY <1>2, <3>1, <3>2
  <2>2. ASSUME NEW t \in Tasks, NEW r \in rtags[t], ~remote'[r].deleted
        PROVE  \E i \in Locals' : local'[i].tid = r
    <3>1. r \in Remotes /\ r \in RemoteIds
      BY <1>0, <1>4 DEF TagRows
    <3>2. Served(r)
      BY <1>0, <1>1, <1>2, <2>2, <3>1 DEF Progress
    <3>3. PICK i \in Locals : local[i].tid = r
      BY <1>1, <1>3, <3>2 DEF Served, KeywordsDone
    <3> QED BY <1>2, <1>4, <3>3
  <2> QED BY <1>1, <2>1, <2>2 DEF TagsNew
<1>8. TagsKept'
  <2> SUFFICES ASSUME NEW t \in Tasks, NEW i \in Locals, Shared(i)' PROVE Agree(t, i)'
    BY <1>1, <1>2 DEF TagsKept
  <2>1. Shared(i)
    BY <1>1, <1>2, <1>4 DEF Shared
  <2>2. Agree(t, i)
    BY <1>0, <1>1, <1>3, <2>1 DEF TaskLists
  <2> QED BY <1>1, <1>2, <1>4, <2>2 DEF Agree
<1>9. \A i \in Locals' : local'[i].deleted => local'[i].changed
  <2>1. \A i \in Locals : ~local[i].deleted
    BY <1>0, <1>1 DEF DeletedKnown
  <2> QED BY <1>2, <1>4, <2>1
<1> QED BY <1>1, <1>5, <1>6, <1>7, <1>8, <1>9, IdleTags

LEMMA NextTags == ASSUME TagInv, [Next]_vars PROVE TagInv'
<1>1. StepInv /\ TypeInv
  BY DEF TagInv, StepInv
<1>2. StepInv'
  BY <1>1, NextRows
<1>3. CASE UNCHANGED vars
  <2>1. /\ UNCHANGED <<local, tags, tagsChanged, remote, rtags, rtagsChanged, apart>>
        /\ cuts' = cuts /\ pc' = pc /\ half' = half /\ todo' = todo
    BY <1>3 DEF vars, client, server, bounds, control
  <2>2. /\ NamesOnce' /\ TagRows' /\ TagsNew' /\ TagsKept' /\ Locals' = Locals
    BY <2>1, SameTags DEF Erasing
  <2>3. DeletedKnown' /\ HalfTags' /\ HalfTask'
    BY <2>1, <2>2 DEF TagInv, DeletedKnown, HalfTags, HalfTask, KeywordsDone
  <2>4. ListsKept'
    BY <2>1 DEF TagInv, ListsKept, KeywordsDone
  <2>5. TaskLists'
    <3>1. Remotes' = Remotes
      BY <2>1 DEF Remotes
    <3>2. TaskLists
      BY DEF TagInv
    <3> QED BY <2>1, <2>2, <3>1, <3>2 DEF TaskLists, KeywordsDone, Shared, Agree
  <2> QED BY <1>2, <2>2, <2>3, <2>4, <2>5 DEF TagInv
<1> QED BY <1>1, <1>2, <1>3, NextKinds, UserTags, OthersTags, StopTags, BeginTags, FinishTags,
           KeywordTags, TaskTags, GoneTags

LEMMA TagsInit == Init => TagInv
<1> SUFFICES ASSUME Init PROVE TagInv
  OBVIOUS
<1>1. StepInv
  BY RowsInit
<1>2. PICK w \in Words, tagged \in SUBSET Tasks :
           /\ \A i \in LocalIds :
                /\ local[i] \in LocalRow
                /\ local[i].exists <=> i = 1
                /\ i = 1 => /\ local[i].tid = 1 /\ local[i].name = Plain(w)
                            /\ ~local[i].star /\ ~local[i].deleted
           /\ \A r \in RemoteIds :
                /\ remote[r] \in RemoteRow
                /\ remote[r].exists <=> r = 1
                /\ r = 1 => /\ remote[r].name = Plain(w) /\ ~remote[r].star
                            /\ ~remote[r].changed /\ ~remote[r].deleted
           /\ tags = [t \in Tasks |-> IF t \in tagged THEN {1} ELSE {}]
           /\ rtags = [t \in Tasks |-> IF t \in tagged THEN {1} ELSE {}]
  BY InitRows
<1>3. (\A i \in Locals : i = 1) /\ (\A r \in Remotes : r = 1) /\ 1 \in Locals /\ 1 \in Remotes
  <2>1. 1 \in LocalIds /\ 1 \in RemoteIds
    OBVIOUS
  <2> QED BY <1>2, <2>1 DEF Locals, Remotes
<1>4. local[1].tid = 1 /\ ~local[1].deleted
  BY <1>2, <1>3 DEF Locals
<1>5. \A t \in Tasks : tags[t] \subseteq {1} /\ rtags[t] = tags[t]
  BY <1>2
<1>6. NamesOnce /\ DeletedKnown
  BY <1>3, <1>4 DEF NamesOnce, DeletedKnown
<1>7. TagRows
  BY <1>3, <1>5 DEF TagRows
<1>8. TagsNew
  BY <1>3, <1>4, <1>5 DEF TagsNew
<1>9. TagsKept
  BY <1>3, <1>4, <1>5 DEF TagsKept, Agree
<1>10. pc = "idle" /\ half.op = "none"
  BY WholeIs DEF Init
<1>11. HalfTags /\ HalfTask /\ ListsKept /\ TaskLists
  BY <1>10 DEF HalfTags, HalfTask, ListsKept, TaskLists
<1> QED BY <1>1, <1>6, <1>7, <1>8, <1>9, <1>11 DEF TagInv

LEMMA TagsAlways == Spec => []TagInv
BY TagsInit, NextTags, PTL DEF Spec

\* Between syncs a task that no side has marked has the same keywords on both sides, but
\* for one that waits to be synced or is apart, and it has none that does not exist.
THEOREM TagsCorrect == Spec => []TagsInStep
<1>1. TagInv => TagsInStep
  <2> SUFFICES ASSUME TagInv, pc = "idle", NEW t \in Tasks
               PROVE  /\ tags[t] \subseteq Locals
                      /\ t \notin tagsChanged \cup rtagsChanged =>
                           \A i \in Locals :
                             LET r == local[i].tid IN
                             ~local[i].changed /\ r \notin apart /\ ~remote[r].changed =>
                               (i \in tags[t] <=> r \in rtags[t])
    BY DEF TagsInStep
  <2>1. TagRows /\ DeletedKnown /\ TagsKept /\ Marked
    BY DEF TagInv, StepInv
  <2>2. tags[t] \subseteq Locals
    BY <2>1 DEF TagRows
  <2>3. ASSUME t \notin tagsChanged \cup rtagsChanged, NEW i \in Locals,
               ~local[i].changed, local[i].tid \notin apart, ~remote[local[i].tid].changed
        PROVE  Agree(t, i)
    <3>1. local[i].tid \in Remotes
      BY <2>1, <2>3 DEF Marked
    <3>2. ~remote[local[i].tid].deleted
      BY <2>1, <2>3, <3>1 DEF Marked, Copies
    <3>3. Shared(i) /\ ~local[i].deleted
      BY <2>1, <2>3, <3>1, <3>2 DEF Shared, DeletedKnown
    <3> QED BY <2>1, <2>3, <3>3 DEF TagsKept
  <2> QED BY <2>2, <2>3 DEF Agree
<1> QED BY <1>1, TagsAlways, PTL

-----------------------------------------------------------------------------
(* A refusal has a cause *)

\* What a sync that began without a clash still knows of the names: until the pulls are
\* done, that a name of both sides is that of one keyword, and until its end, that a
\* keyword to be erased has one name.
Clear ==
  pc = "apply" =>
    /\ ~broken
    /\ ~clash =>
         /\ todo.pulls # {} => \A i \in Locals, r \in Remotes :
              local[i].name = remote[r].name => local[i].tid = r
         /\ \A i \in Locals : i \in todo.erases /\ local[i].tid \in Remotes =>
              local[i].name = remote[local[i].tid].name

LEMMA StepsAreSilent ==
  ASSUME KeywordStep \/ TaskStep \/ GoneStep PROVE Silent /\ pc = "apply"
<1>1. CASE KeywordStep
  BY <1>1 DEF KeywordStep, Pull, PushNew, PushUpdate, PushSkip, Pushing, PushTid, PushStar,
     Applying, After
<1>2. CASE TaskStep
  BY <1>2 DEF TaskStep, PullTask, PullTags, PushTask, PushTags, Applying, After
<1>3. CASE GoneStep
  BY <1>3 DEF GoneStep, DropThere, DropTags, Drop, EraseTags, EraseThere, Mark, EraseLocal,
     Applying, After
<1> QED BY <1>1, <1>2, <1>3

LEMMA KeywordClear ==
  ASSUME TagInv, Clear, ~clash, KeywordStep
  PROVE  /\ todo'.pulls # {} => \A i \in Locals', r \in Remotes' :
              local'[i].name = remote'[r].name => local'[i].tid = r
         /\ \A i \in Locals' : i \in todo'.erases /\ local'[i].tid \in Remotes' =>
              local'[i].name = remote'[local'[i].tid].name
<1>0. /\ TypeOK /\ HalfOK /\ Tied /\ ListsOK /\ HalfRows /\ NamesOnce /\ todo \in Lists
  BY DEF TagInv, StepInv, TypeInv, TypeOK
<1>1. /\ todo.pulls # {} => \A i \in Locals, r \in Remotes :
              local[i].name = remote[r].name => local[i].tid = r
      /\ \A i \in Locals : i \in todo.erases /\ local[i].tid \in Remotes =>
              local[i].name = remote[local[i].tid].name
  BY StepsAreSilent DEF Clear
<1>2. (\A i \in Locals : i \in LocalIds) /\ (\A r \in Remotes : r \in RemoteIds /\ r # None)
  BY DEF Locals, Remotes
<1>3. ASSUME NEW r \in RemoteIds, NEW i \in LocalIds, Pull(r, i), ~Refuse
      PROVE  /\ \A j \in Locals', q \in Remotes' :
                  local'[j].name = remote'[q].name => local'[j].tid = q
             /\ \A j \in Locals' : j \in todo'.erases /\ local'[j].tid \in Remotes' =>
                  local'[j].name = remote'[local'[j].tid].name
  <2>1. /\ r \in todo.pulls /\ todo' = [todo EXCEPT !.pulls = @ \ {r}] /\ remote' = remote
    BY <1>0, <1>3, PullIs DEF server
  <2>2. PICK row \in LocalRow : /\ local' = [local EXCEPT ![i] = row] /\ row.exists
                                /\ row.tid = r /\ row.name = remote[r].name
    BY <1>0, <1>3, PullIs
  <2>3. /\ local'[i] = row /\ \A j \in LocalIds : j # i => local'[j] = local[j]
        /\ Locals' = Locals \cup {i}
    BY <1>0, <2>2, LocalSet
  <2>4. Remotes' = Remotes /\ r \in Remotes /\ todo'.erases = todo.erases
    BY <1>0, <2>1, LessTodo DEF Remotes, ListsOK
  <2>5. \A j \in Locals' : j # i => j \in Locals /\ local'[j] = local[j]
    BY <1>2, <2>3
  <2>6. \A q \in Remotes : remote[r].name = remote[q].name => q = r
    BY <1>0, <2>4 DEF NamesOnce
  <2> QED BY <1>1, <2>1, <2>2, <2>3, <2>4, <2>5, <2>6
<1>4. ASSUME NEW i \in LocalIds, NEW r \in RemoteIds, PushNew(i, r) \/ PushUpdate(i), ~Refuse
      PROVE  /\ todo'.pulls = {}
             /\ \A j \in Locals' : j \in todo'.erases /\ local'[j].tid \in Remotes' =>
                  local'[j].name = remote'[local'[j].tid].name
  <2>1. PICK q \in RemoteIds, row \in RemoteRow :
          /\ Pushing(i) /\ UNCHANGED <<client, todo>>
          /\ remote' = [remote EXCEPT ![q] = row] /\ row.exists
          /\ q \notin Remotes \/ local[i].tid = q
    BY <1>0, <1>4, PushNewIs, PushUpdateIs
  <2>2. /\ remote'[q] = row /\ \A p \in RemoteIds : p # q => remote'[p] = remote[p]
        /\ Remotes' = Remotes \cup {q}
    BY <1>0, <2>1, RemoteSet
  <2>3. /\ todo' = todo /\ local' = local /\ Locals' = Locals
        /\ todo.pulls = {} /\ i \in todo.pushes
    BY <2>1 DEF client, Pushing, Locals
  <2>4. i \in Locals /\ i \notin todo.erases
    BY <1>0, <2>3 DEF ListsOK
  <2>5. ASSUME NEW j \in Locals, j \in todo.erases PROVE local[j].tid # q
    <3>1. j # i /\ local[j].tid \in Remotes \cup {None}
      BY <1>0, <2>4, <2>5 DEF Tied
    <3>2. local[i].tid = q => local[j].tid # q
      BY <1>0, <2>4, <3>1 DEF Tied
    <3>3. q # None
      OBVIOUS
    <3> QED BY <2>1, <3>1, <3>2, <3>3
  <2>6. \A j \in Locals : j \in todo.erases /\ local[j].tid \in Remotes' =>
          local[j].tid \in Remotes /\ remote'[local[j].tid] = remote[local[j].tid]
    BY <1>2, <2>2, <2>5
  <2> QED BY <1>1, <2>3, <2>6
<1>5. ASSUME PushTid
      PROVE  /\ todo'.pulls = {}
             /\ \A j \in Locals' : j \in todo'.erases /\ local'[j].tid \in Remotes' =>
                  local'[j].name = remote'[local'[j].tid].name
  <2>1. half.op = "tid" /\ remote' = remote /\ todo' = todo
    BY <1>5 DEF PushTid, After, server
  <2>2. PICK i \in LocalIds, r \in RemoteIds : i = half.local /\ r = half.remote
    BY <1>0, <2>1 DEF HalfOK
  <2>3. todo.pulls = {} /\ i \in todo.pushes /\ i \in Locals /\ i \notin todo.erases
    BY <1>0, <2>1, <2>2 DEF HalfRows, ListsOK
  <2>4. PICK row \in LocalRow : /\ local' = [local EXCEPT ![i] = row]
                                /\ row.exists = local[i].exists
    BY <1>0, <1>5, <2>2, PushTidIs
  <2>5. row.exists
    BY <2>3, <2>4 DEF Locals
  <2>6. /\ \A j \in LocalIds : j # i => local'[j] = local[j]
        /\ Locals' = Locals \cup {i}
    BY <1>0, <2>4, <2>5, LocalSet
  <2>7. \A j \in Locals' : j \in todo.erases => j \in Locals /\ local'[j] = local[j]
    BY <1>2, <2>3, <2>6
  <2>8. Remotes' = Remotes
    BY <2>1 DEF Remotes
  <2> QED BY <1>1, <2>1, <2>3, <2>7, <2>8
<1>6. ASSUME PushStar \/ \E i \in LocalIds : PushSkip(i)
      PROVE  /\ todo'.pulls = {}
             /\ \A j \in Locals' : j \in todo'.erases /\ local'[j].tid \in Remotes' =>
                  local'[j].name = remote'[local'[j].tid].name
  <2>1. PICK i : todo' = [todo EXCEPT !.pushes = @ \ {i}] /\ local' = local
    BY <1>6 DEF PushStar, PushSkip, client
  <2>2. /\ todo'.pulls = todo.pulls /\ todo'.erases = todo.erases /\ Locals' = Locals
    BY <1>0, <2>1, LessTodo DEF Locals
  <2>3. todo.pulls = {}
    BY <1>0, <1>6 DEF PushStar, After, PushSkip, Pushing, HalfRows
  <2>4. Remotes' = Remotes /\ \A q \in Remotes : remote'[q].name = remote[q].name
    <3>1. CASE PushStar
      <4>1. half.op = "star"
        BY <3>1 DEF PushStar, After
      <4>2. half.local \in LocalIds /\ half.remote \in RemoteIds /\ half.remote \in Remotes
        BY <1>0, <4>1 DEF HalfOK, HalfRows
      <4>3. PICK r \in RemoteIds : r = half.remote
        BY <4>2
      <4>4. PICK row \in RemoteRow :
               /\ remote' = [remote EXCEPT ![r] = row]
               /\ row.exists = remote[r].exists /\ row.name = remote[r].name
        BY <1>0, <3>1, <4>2, <4>3, PushStarIs
      <4>5. row.exists
        BY <4>2, <4>3, <4>4 DEF Remotes
      <4>6. /\ remote'[r] = row /\ \A q \in RemoteIds : q # r => remote'[q] = remote[q]
            /\ Remotes' = Remotes \cup {r}
        BY <1>0, <4>4, <4>5, RemoteSet
      <4> QED BY <1>2, <4>2, <4>3, <4>4, <4>6
    <3>2. CASE \E j \in LocalIds : PushSkip(j)
      <4>1. remote' = remote
        BY <3>2 DEF PushSkip, server
      <4> QED BY <4>1 DEF Remotes
    <3> QED BY <1>6, <3>1, <3>2
  <2> QED BY <1>1, <2>1, <2>2, <2>3, <2>4
<1> QED BY <1>3, <1>4, <1>5, <1>6 DEF KeywordStep

LEMMA NextClear ==
  ASSUME TagInv, Clear, [Next]_vars PROVE Clear'
<1>0. TypeInv /\ TagRows
  BY DEF TagInv, StepInv
<1>1. CASE UNCHANGED vars
  <2>1. /\ UNCHANGED <<local, remote, clash, pc, broken, todo>>
    BY <1>1 DEF vars, client, server, control
  <2>2. Locals' = Locals /\ Remotes' = Remotes
    BY <2>1 DEF Locals, Remotes
  <2> QED BY <2>1, <2>2 DEF Clear
<1>2. CASE Restart \/ UserWrite \/ OthersWrite \/ Stop \/ Finish
  <2>1. pc' = "idle"
    BY <1>2 DEF Restart, UserWrite, UserEdit, OthersWrite, OthersEdit, Edit, control, Stop,
       GiveUp, Finish
  <2> QED BY <2>1 DEF Clear
<1>3. CASE Begin
  <2>1. /\ UNCHANGED <<local, remote>> /\ ~broken /\ broken' = broken /\ clash' = Clashing
        /\ todo'.erases = {i \in Locals : local[i].changed /\ local[i].deleted}
    BY <1>3 DEF Begin, client, server
  <2>2. Locals' = Locals /\ Remotes' = Remotes
    BY <2>1 DEF Locals, Remotes
  <2>3. ~Clashing =>
          /\ \A i \in Locals, r \in Remotes :
               local[i].name = remote[r].name => local[i].tid = r
          /\ \A i \in Locals : local[i].deleted /\ local[i].tid \in Remotes =>
               local[i].name = remote[local[i].tid].name
    BY DEF Clashing
  <2> QED BY <2>1, <2>2, <2>3 DEF Clear
<1>4. CASE KeywordStep \/ TaskStep \/ GoneStep
  <2>1. /\ clash' = clash /\ broken' = broken /\ pc' = pc /\ pc = "apply"
    BY <1>4, StepsAreSilent DEF Silent
  <2>2. ~broken
    BY <2>1 DEF Clear
  <2>3. CASE KeywordStep
    BY <2>1, <2>2, <2>3, KeywordClear DEF Clear
  <2>4. CASE TaskStep
    <3>1. PICK t \in Tasks : TaskWritten(t)
      BY <2>4, PullTaskIs, PullTagsIs, PushTaskIs, PushTagsIs DEF TaskStep
    <3>2. /\ UNCHANGED <<local, remote>> /\ todo'.erases = todo.erases /\ todo'.pulls = {}
      BY <3>1 DEF TaskWritten, KeywordsDone
    <3>3. Locals' = Locals /\ Remotes' = Remotes
      BY <3>2 DEF Locals, Remotes
    <3> QED BY <2>1, <2>2, <3>2, <3>3 DEF Clear
  <2>5. CASE GoneStep
    <3>1. KeywordsGo
      BY <2>5, DropThereGoes, DropTagsGoes, RowGoes, EraseTagsGoes, EraseThereGoes DEF GoneStep
    <3>2. todo'.pulls = {} /\ Remotes' = Remotes
      BY <3>1 DEF KeywordsGo, KeywordsDone
    <3>3. \A i \in Locals' : /\ i \in Locals /\ local'[i] = local[i]
                             /\ i \in todo.erases <=> i \in todo'.erases
      BY <3>1 DEF KeywordsGo
    <3>4. \A r \in Remotes : remote'[r].name = remote[r].name
      BY <3>1 DEF KeywordsGo
    <3> QED BY <2>1, <2>2, <3>2, <3>3, <3>4 DEF Clear
  <2> QED BY <1>4, <2>3, <2>4, <2>5
<1> QED BY <1>0, <1>1, <1>2, <1>3, <1>4, NextKinds

\* The statements that a constraint may refuse.
LEMMA Refusals ==
  ASSUME TagInv, Clear, Next, pc = "apply", pc' = "idle", broken', cuts' = cuts
  PROVE  \/ \E r \in RemoteIds, i \in LocalIds : Pull(r, i) /\ ~LocalFree(remote[r].name, i)
         \/ \E r \in RemoteIds, i \in LocalIds : ~RemoteFree(PushName(i), r) /\ Pushing(i)
         \/ After("pullTags") /\ \E r \in rtags[half.local] : Named(remote[r].name) = {}
<1>1. ~User /\ ~Others
  BY DEF User, UserEdit, New, Rename, Star, Toggle, Tag, TagNamed, UntagAll, Restart, Others,
     OthersEdit, RemoteNew, RemoteWrite, RemoteDelete, RemoteTag, Edit
<1>2. ~CutShort
  <2>1. cuts \in Nat
    BY DEF TagInv, StepInv, TypeInv, TypeOK
  <2>2. cuts + 1 # cuts
    BY <2>1
  <2> QED BY <2>2 DEF CutShort
<1>3. ~Begin /\ ~Finish
  BY DEF Begin, Finish, Clear
<1>4. ~Silent
  BY DEF Silent
<1>5. \/ \E i \in LocalIds, r \in RemoteIds : Pull(r, i) \/ PushNew(i, r)
      \/ (\E i \in LocalIds : PushUpdate(i)) \/ PullTags
  <2>1. Sync
    BY <1>1, <1>2 DEF Next
  <2> QED BY <1>3, <1>4, <2>1 DEF Sync, PushSkip, EraseTags, PushTid, PushStar, PullTask, PushTask,
     PushTags, DropThere, DropTags, Drop, EraseThere, Mark, EraseLocal
<1>6. \A r \in RemoteIds, i \in LocalIds : Pull(r, i) => ~LocalFree(remote[r].name, i)
  BY <1>4 DEF Pull
<1>7. \A r \in RemoteIds, i \in LocalIds : PushNew(i, r) => ~RemoteFree(PushName(i), r) /\ Pushing(i)
  BY <1>4 DEF PushNew
<1>8. ASSUME NEW i \in LocalIds, PushUpdate(i)
      PROVE  \E r \in RemoteIds : ~RemoteFree(PushName(i), r) /\ Pushing(i)
  <2>1. local[i].tid \in RemoteIds /\ Pushing(i) /\ ~RemoteFree(PushName(i), local[i].tid)
    BY <1>4, <1>8 DEF PushUpdate, Remotes
  <2> QED BY <2>1
<1>9. PullTags => After("pullTags") /\ \E r \in rtags[half.local] : Named(remote[r].name) = {}
  BY <1>4 DEF PullTags
<1> QED BY <1>5, <1>6, <1>7, <1>8, <1>9

\* A sync that a constraint refuses had two keywords of one name to begin with, or a
\* name with a suffix on the server, or a task there with a keyword that is deleted.
THEOREM RefusalCorrect == Spec => RefusalHasCause
<1>1. ASSUME TagInv, Clear, [Next]_vars
      PROVE  [pc = "apply" /\ pc' = "idle" /\ broken' /\ cuts' = cuts =>
                \/ clash
                \/ \E r \in Remotes : remote[r].name.suffix > 0
                \/ \E t \in Tasks : \E r \in rtags[t] : remote[r].deleted]_vars
  <2> SUFFICES ASSUME Next, pc = "apply", pc' = "idle", broken', cuts' = cuts, ~clash,
                      ~ \E r \in Remotes : remote[r].name.suffix > 0,
                      ~ \E t \in Tasks : \E r \in rtags[t] : remote[r].deleted
               PROVE  FALSE
    BY <1>1
  <2>0. /\ TypeOK /\ HalfOK /\ Tied /\ ListsOK /\ Progress /\ NamesOnce /\ TagRows /\ HalfTask
    BY <1>1 DEF TagInv, StepInv, TypeInv
  <2>1. \A r \in Remotes, n \in Names : remote[r].name # Suffixed(n)
    BY SuffixIs
  <2>2. ASSUME NEW r \in RemoteIds, NEW i \in LocalIds, Pull(r, i),
               ~LocalFree(remote[r].name, i)
        PROVE  FALSE
    <3>1. /\ r \in todo.pulls /\ r \in Remotes
          /\ IF Copies(r) = {} THEN NextLocal(i) ELSE i \in Copies(r)
      BY <2>0, <2>2 DEF Pull, ListsOK
    <3>2. PICK j \in Locals : j # i /\ local[j].name = remote[r].name
      BY <2>2 DEF LocalFree, Named
    <3>3. local[j].tid = r
      BY <1>1, <3>1, <3>2 DEF Clear
    <3>4. j \in Copies(r)
      BY <3>3 DEF Copies
    <3>5. i \in Locals /\ local[i].tid = r
      BY <3>1, <3>4 DEF Copies
    <3> QED BY <2>0, <3>2, <3>3, <3>5 DEF Tied
  <2>3. ASSUME NEW r \in RemoteIds, NEW i \in LocalIds, ~RemoteFree(PushName(i), r)
        PROVE  FALSE
    <3>1. RemotesNamed(PushName(i)) # {}
      BY <2>3 DEF RemoteFree
    <3>2. PushName(i) = Suffixed(local[i].name)
      BY <3>1 DEF PushName
    <3>3. local[i].name \in Names
      BY <2>0, RowsAre
    <3> QED BY <2>1, <3>1, <3>2, <3>3 DEF RemotesNamed
  <2>4. ASSUME After("pullTags"), NEW r \in rtags[half.local], Named(remote[r].name) = {}
        PROVE  FALSE
    <3>1. half.op = "pullTags" /\ half.local \in Tasks
      BY <2>0, <2>4 DEF After, HalfOK
    <3>2. KeywordsDone /\ r \in Remotes /\ ~remote[r].deleted
      BY <2>0, <3>1 DEF HalfTask, TagRows
    <3>3. Served(r)
      BY <2>0, <3>2 DEF Progress
    <3>4. PICK i \in Locals : local[i].tid = r /\ (InStep(i, r) \/ i \in todo.erases)
      BY <3>1, <3>2, <3>3 DEF Served, KeywordsDone
    <3>5. local[i].name # remote[r].name
      BY <2>4, <3>4 DEF Named
    <3>6. i \notin todo.erases
      BY <1>1, <3>2, <3>4, <3>5 DEF Clear
    <3>7. remote[r].name = Suffixed(local[i].name)
      BY <3>4, <3>5, <3>6 DEF InStep, SameName
    <3>8. local[i].name \in Names
      BY <2>0, RowsAre DEF Locals
    <3> QED BY <2>1, <3>2, <3>7, <3>8
  <2> QED BY <1>1, <2>2, <2>3, <2>4, Refusals
<1>2. Init => TagInv /\ Clear
  <2>1. Init => Clear
    BY DEF Init, Clear
  <2> QED BY <2>1, TagsInit
<1>3. TagInv /\ Clear /\ [Next]_vars => TagInv' /\ Clear'
  BY NextTags, NextClear
<1> QED BY <1>1, <1>2, <1>3, PTL DEF Spec, RefusalHasCause
=============================================================================
