-------------------------- MODULE LspThreadsProofs --------------------------
(***************************************************************************)
(* Proofs about LspThreads, for any number of language servers, editors    *)
(* and saves.                                                              *)
(***************************************************************************)
EXTENDS LspThreads, TLAPS

USE LspThreadsAssumption DEF Lsps, Texts, Unset, NoLsp, NoEditor, Steps

(* Every variable keeps its type. *)
THEOREM TypeCorrect == Spec => []TypeOK
<1>1. Init => TypeOK
  BY DEF Init, TypeOK
<1>2. TypeOK /\ [Next]_vars => TypeOK'
  <2> SUFFICES ASSUME TypeOK, [Next]_vars PROVE TypeOK'
    OBVIOUS
  <2> USE DEF TypeOK, ofLsps, threads, editors, ofMain
  <2>1. CASE Start
    <3>1. lsps + 1 \in Lsps /\ name[lsps + 1] \in Names /\ lsps' = lsps + 1
      BY <2>1 DEF Start
    <3>2. saved' \in [Names -> Texts]
      BY <2>1, <3>1 DEF Start
    <3>3. main' = "run"
      BY <2>1 DEF Start, Command
    <3>4. closed' \in [Lsps -> BOOLEAN] /\ pc' \in [Lsps -> Steps]
      BY <2>1, <3>1 DEF Start
    <3>5. UNCHANGED <<name, changed, stopped, freed, mine, server,
                      open, p, code, saves, turn, patient>>
      BY <2>1 DEF Start
    <3>6. lsps' \in 0..MaxLsps
      BY <3>1
    <3>7. turn' \in 0..MaxLsps /\ mine' \in [Lsps -> 0..MaxLsps]
      BY <3>5
    <3>8. name' \in [Lsps -> Names] /\ server' \in [Lsps -> Texts]
      BY <3>5
    <3>9. code' \in [Editors -> Texts] /\ saves' \in Texts
      BY <3>5
    <3> QED BY <3>2, <3>3, <3>4, <3>5, <3>6, <3>7, <3>8, <3>9
  <2>2. ASSUME NEW e \in Editors, Edit(e) PROVE TypeOK'
    <3>1. code' \in [Editors -> Texts]
      <4>1. CASE e \in open
        BY <2>2, <4>1 DEF Edit
      <4>2. CASE e \notin open
        BY <2>2, <4>2 DEF Edit
      <4> QED BY <4>1, <4>2
    <3> QED BY <2>2, <3>1 DEF Edit, Started
  <2>3. CASE Close
    BY <2>3 DEF Close, Started
  <2>4. CASE Save
    <3>1. saves' \in Texts /\ main' = "save" /\ turn' \in 0..MaxLsps
      BY <2>4 DEF Save
    <3> QED BY <2>4, <3>1 DEF Save, Started
  <2>5. CASE Quit
    <3>1. CASE lsps = 0
      BY <2>5, <3>1 DEF Quit
    <3>2. CASE lsps # 0
      BY <2>5, <3>2, SMTT(30) DEF Quit, Started
    <3> QED BY <3>1, <3>2
  <2>6. CASE SaveCode
    <3>1. code' \in [Editors -> Texts] /\ saved' \in [Names -> Texts]
      BY <2>6 DEF SaveCode
    <3> QED BY <2>6, <3>1 DEF SaveCode, Started
  <2>7. CASE SaveFlag
    BY <2>7 DEF SaveFlag, Started
  <2>8. CASE Reassign
    BY <2>8 DEF Reassign, Started
  <2>9. CASE Stop
    BY <2>9 DEF Stop, Started
  <2>10. CASE Wait
    BY <2>10 DEF Wait, Started
  <2>11. CASE Join
    <3>1. lsps \in Nat /\ lsps <= MaxLsps /\ turn \in 1..lsps
      BY <2>11 DEF Join, Started
    <3>2. CASE turn = lsps
      <4>1. main' = "ended" /\ turn' = 0
        BY <2>11, <3>2 DEF Join
      <4> QED BY <2>11, <3>1, <4>1, SMTT(30) DEF Join
    <3>3. CASE turn # lsps
      <4>1. main' = "stop" /\ turn' = turn + 1 /\ lsps' = lsps
        BY <2>11, <3>3 DEF Join
      <4>2. turn' \in 1..lsps /\ turn' \in 0..MaxLsps
        BY <3>1, <3>3, <4>1
      <4>3. freed' \subseteq Lsps
        BY <2>11, <3>1, SMTT(30) DEF Join
      <4>4. UNCHANGED <<name, changed, closed, stopped, threads, editors, patient>>
        BY <2>11 DEF Join
      <4> QED BY <4>1, <4>2, <4>3, <4>4 DEF Started
    <3> QED BY <3>2, <3>3
  <2>12. ASSUME NEW t \in Lsps, Thread(t) PROVE TypeOK'
    <3>1. CASE Take(t)
      BY <3>1 DEF Take, Back, Started
    <3>2. CASE Open(t)
      BY <3>2, SMTT(30) DEF Open, Started
    <3>3. CASE Check(t)
      BY <3>3 DEF Check, Started
    <3>4. CASE Read(t)
      <4>1. PICK v \in Texts : server' = [server EXCEPT ![t] = v]
        BY <3>4 DEF Read
      <4> QED BY <3>4, <4>1 DEF Read, Started
    <3>5. CASE Crash(t)
      BY <3>5 DEF Crash, Started
    <3>6. CASE Clear(t)
      BY <3>6 DEF Clear, Started
    <3>7. CASE Exit(t)
      BY <3>7 DEF Exit, Started
    <3> QED BY <2>12, <3>1, <3>2, <3>3, <3>4, <3>5, <3>6, <3>7 DEF Thread
  <2>13. CASE UNCHANGED vars
    BY <2>13 DEF vars, Started
  <2> QED
    BY <2>1, <2>2, <2>3, <2>4, <2>5, <2>6, <2>7, <2>8, <2>9, <2>10, <2>11,
       <2>12, <2>13 DEF Next, User, Saving, Shutdown
<1> QED BY <1>1, <1>2, PTL DEF Spec

-----------------------------------------------------------------------------
(* A thread serves its own Lsp or a later one; the Lsps are deleted in order, *)
(* each when its own thread and those before it have ended.                   *)
ServesLater ==
  /\ \A t \in Lsps : t > lsps => pc[t] = "none"
  /\ \A t \in Lsps : pc[t] \notin {"none", "take"} => mine[t] \in t..lsps

FreedInOrder ==
  /\ freed \subseteq Started
  /\ \A f \in freed : \A t \in 1..f : pc[t] = "done"
  /\ main \in {"stop", "wait", "join"} =>
       turn \in Started /\ \A t \in 1..(turn - 1) : pc[t] = "done"

SafeInv == TypeOK /\ ServesLater /\ FreedInOrder

LEMMA SafeInvInit == Init => SafeInv
  BY DEF Init, SafeInv, TypeOK, ServesLater, FreedInOrder, Started

(* What a step of a thread does to the invariant: its own place moves on from *)
(* one that is not the last, and it may choose the Lsp it serves.             *)
LEMMA ThreadMoves ==
  ASSUME SafeInv, TypeOK', NEW t \in Lsps, NEW s \in Steps \ {"none", "take"},
         pc[t] \notin {"none", "done"}, pc' = [pc EXCEPT ![t] = s],
         \/ mine' = mine /\ pc[t] # "take"
         \/ mine' = [mine EXCEPT ![t] = lsps],
         lsps' = lsps, freed' = freed, main' = main, turn' = turn
  PROVE  SafeInv'
<1>0. pc \in [Lsps -> Steps] /\ mine \in [Lsps -> 0..MaxLsps]
      /\ lsps \in 0..MaxLsps
  BY DEF SafeInv, TypeOK
<1>1. t <= lsps /\ (pc[t] # "take" => mine[t] \in t..lsps)
  <2>1. t > lsps => pc[t] = "none"
    BY DEF SafeInv, ServesLater
  <2>2. pc[t] \notin {"none", "take"} => mine[t] \in t..lsps
    BY DEF SafeInv, ServesLater
  <2> QED BY <1>0, <2>1, <2>2
<1>2. ServesLater'
  <2>1. \A k \in Lsps : k # t => pc'[k] = pc[k] /\ mine'[k] = mine[k]
    BY <1>0
  <2>2. pc'[t] = s /\ mine'[t] \in t..lsps
    BY <1>0, <1>1
  <2> QED BY <1>0, <1>1, <2>1, <2>2 DEF SafeInv, ServesLater
<1>3. FreedInOrder'
  <2>1. \A k \in Lsps : pc[k] = "done" => pc'[k] = "done"
    BY <1>0
  <2>2. \A f \in Started : 1..f \subseteq Lsps /\ 1..(f - 1) \subseteq Lsps
    BY <1>0 DEF Started
  <2>3. freed' \subseteq Started'
    BY DEF SafeInv, FreedInOrder, Started
  <2>4. \A f \in freed' : \A k \in 1..f : pc'[k] = "done"
    BY <2>1, <2>2 DEF SafeInv, FreedInOrder
  <2>5. main' \in {"stop", "wait", "join"} =>
          turn' \in Started' /\ \A k \in 1..(turn' - 1) : pc'[k] = "done"
    BY <2>1, <2>2 DEF SafeInv, FreedInOrder, Started
  <2> QED BY <2>3, <2>4, <2>5 DEF FreedInOrder
<1> QED BY <1>2, <1>3 DEF SafeInv

(* A step that leaves the threads and the Lsps alone, outside the shutdown. *)
LEMMA MainMoves ==
  ASSUME SafeInv, TypeOK', UNCHANGED <<pc, mine, lsps, freed>>,
         main' \notin {"stop", "wait", "join"} \/ UNCHANGED <<main, turn>>
  PROVE  SafeInv'
  BY DEF SafeInv, ServesLater, FreedInOrder, Started

LEMMA SafeInvStep == SafeInv /\ TypeOK' /\ [Next]_vars => SafeInv'
<1> SUFFICES ASSUME SafeInv, TypeOK', [Next]_vars PROVE SafeInv'
  OBVIOUS
<1> USE DEF ofLsps, threads, editors, ofMain
<1>1. CASE Start
  <2>1. lsps' = lsps + 1 /\ lsps' \in Lsps /\ freed' = freed /\ mine' = mine
        /\ main' = main /\ main = "run" /\ pc' = [pc EXCEPT ![lsps + 1] = "take"]
    BY <1>1 DEF Start, Command, SafeInv, TypeOK
  <2>2. lsps \in Nat /\ pc \in [Lsps -> Steps] /\ freed \subseteq Lsps
    BY DEF SafeInv, TypeOK
  <2>3. /\ \A t \in Lsps : t # lsps + 1 => pc'[t] = pc[t]
        /\ pc'[lsps + 1] = "take"
    BY <2>1, <2>2
  <2>4. ServesLater'
    BY <2>1, <2>2, <2>3 DEF SafeInv, ServesLater
  <2>5. FreedInOrder'
    BY <2>1, <2>2, <2>3 DEF SafeInv, FreedInOrder, Started
  <2> QED BY <2>4, <2>5 DEF SafeInv
<1>2. ASSUME NEW e \in Editors, Edit(e) PROVE SafeInv'
  BY <1>2, MainMoves DEF Edit
<1>3. CASE Close
  BY <1>3, MainMoves DEF Close
<1>4. CASE Save
  BY <1>4, MainMoves DEF Save
<1>5. CASE Quit
  <2>1. lsps \in Nat
    BY DEF SafeInv, TypeOK
  <2> QED BY <1>5, <2>1 DEF Quit, SafeInv, ServesLater, FreedInOrder, Started
<1>6. CASE SaveCode
  BY <1>6, MainMoves DEF SaveCode
<1>7. CASE SaveFlag
  BY <1>7, MainMoves DEF SaveFlag
<1>8. CASE Reassign
  BY <1>8, MainMoves DEF Reassign
<1>9. CASE Stop
  BY <1>9 DEF Stop, SafeInv, ServesLater, FreedInOrder, Started
<1>10. CASE Wait
  BY <1>10 DEF Wait, SafeInv, ServesLater, FreedInOrder, Started
<1>11. CASE Join
  <2>1. /\ turn \in Started /\ \A t \in 1..(turn - 1) : pc[t] = "done"
        /\ pc[turn] = "done" /\ lsps \in Nat /\ turn \in Nat
    BY <1>11 DEF Join, SafeInv, FreedInOrder, Started, TypeOK
  <2>2. \A t \in 1..turn : pc[t] = "done"
    BY <2>1
  <2>3. ServesLater'
    BY <1>11 DEF Join, SafeInv, ServesLater
  <2>4. FreedInOrder'
    BY <1>11, <2>1, <2>2 DEF Join, SafeInv, FreedInOrder, Started
  <2> QED BY <2>3, <2>4 DEF SafeInv
<1>12. ASSUME NEW t \in Lsps, Thread(t) PROVE SafeInv'
  <2>1. CASE Take(t)
    BY <2>1, ThreadMoves DEF Take, Runs, Back
  <2>2. CASE Open(t)
    BY <2>2, ThreadMoves DEF Open, Runs
  <2>3. CASE Check(t)
    <3>1. PICK s \in {"exit", "read"} : pc' = [pc EXCEPT ![t] = s]
      BY <2>3 DEF Check
    <3> QED BY <2>3, <3>1, ThreadMoves DEF Check, Runs
  <2>4. CASE Read(t)
    BY <2>4, ThreadMoves DEF Read, Runs
  <2>5. CASE Crash(t)
    BY <2>5, MainMoves DEF Crash
  <2>6. CASE Clear(t)
    BY <2>6, ThreadMoves DEF Clear, Runs
  <2>7. CASE Exit(t)
    BY <2>7, ThreadMoves DEF Exit, Runs
  <2> QED BY <1>12, <2>1, <2>2, <2>3, <2>4, <2>5, <2>6, <2>7 DEF Thread
<1>13. CASE UNCHANGED vars
  BY <1>13, MainMoves DEF vars
<1> QED
  BY <1>1, <1>2, <1>3, <1>4, <1>5, <1>6, <1>7, <1>8, <1>9, <1>10, <1>11,
     <1>12, <1>13 DEF Next, User, Saving, Shutdown

(* No thread uses an Lsp that lsp_shutdown has deleted, even if it took the *)
(* Lsp of a server started just after its own.                              *)
THEOREM FreedCorrect == Spec => []NoFreedLsp
<1>1. SafeInv => NoFreedLsp
  <2> SUFFICES ASSUME SafeInv, NEW t \in Started, NEW l \in Uses(t), l \in freed
               PROVE  FALSE
    BY DEF NoFreedLsp
  <2>1. t \in Lsps /\ pc[t] \in Steps
    BY DEF SafeInv, TypeOK, Started
  <2>2. t <= l
    BY <2>1 DEF Uses, Back, SafeInv, ServesLater, TypeOK, Started
  <2>3. pc[t] = "done"
    BY <2>1, <2>2 DEF SafeInv, FreedInOrder, Started, TypeOK
  <2> QED BY <2>3 DEF Uses
<1>2. TypeOK /\ TypeOK' /\ SafeInv /\ [Next]_vars => SafeInv'
  BY SafeInvStep
<1> QED BY <1>1, <1>2, SafeInvInit, TypeCorrect, PTL DEF Spec

-----------------------------------------------------------------------------
(* A patient user's notes reach the language servers: UpToDate. *)

Running == main \in {"run", "save", "flag", "reassign"}

\* code has been saved, and the flag of its server is still to be set
Unflagged(l) == main = "flag" /\ name[l] = Language[p]

\* A thread serves its own Lsp, and does what it does because of a flag.
Alone ==
  /\ \A l \in Lsps : /\ ~stopped[l]
                     /\ l > lsps => pc[l] = "none" /\ ~changed[l]
  /\ \A l \in Started :
       /\ pc[l] \in {"take", "open", "check", "read", "clear"}
       /\ pc[l] # "take" => mine[l] = l
       /\ pc[l] = "take" => main = "run" /\ l = lsps
       /\ pc[l] \in {"read", "clear"} => changed[l]

\* While a flag is set, the user waits, and code is what was saved.
Waits ==
  /\ main = "run" => p \in open \cup {NoEditor}
  /\ main \in {"save", "flag"} => p \in open
  /\ main = "flag" => code[p] = saved[Language[p]]
  /\ \A l \in Started : changed[l] =>
       /\ main = "run" /\ FirstOfItsName(l)
       /\ p \in open /\ Language[p] = name[l] /\ code[p] = saved[name[l]]

\* Without a flag, the server has been told what was saved, or nothing was.
Told ==
  \A l \in Started :
    /\ pc[l] = "clear" => server[l] = saved[name[l]]
    /\ FirstOfItsName(l) /\ ~Unflagged(l) /\ ~changed[l] =>
         /\ pc[l] = "check" => server[l] = saved[name[l]]
         /\ pc[l] \in {"take", "open"} => saved[name[l]] = Unset

WaitInv == patient /\ Running => Alone /\ Waits /\ Told

LEMMA WaitInit == Init => WaitInv
  BY DEF Init, WaitInv, Alone, Waits, Told, Started

\* The user begins something only when no flag is set and no thread is being started.
LEMMA Idle ==
  ASSUME TypeOK, WaitInv, Command, patient
  PROVE  /\ main = "run" /\ Alone /\ Waits /\ Told
         /\ \A l \in Started :
              /\ ~changed[l] /\ pc[l] \in {"open", "check"} /\ mine[l] = l
              /\ FirstOfItsName(l) =>
                   /\ pc[l] = "check" => server[l] = saved[name[l]]
                   /\ pc[l] = "open" => saved[name[l]] = Unset
<1>1. main = "run" /\ Alone /\ Waits /\ Told
  BY DEF Command, WaitInv, Running
<1>2. \A l \in Started : ~changed[l] /\ pc[l] # "take"
  BY DEF Command, Pending
<1> QED BY <1>1, <1>2 DEF Alone, Told, Unflagged, Started

LEMMA UserWaits ==
  ASSUME TypeOK, WaitInv, User, patient', Running'
  PROVE  Alone' /\ Waits' /\ Told'
<1>0. patient /\ main = "run"
  BY DEF User, Start, Close, Save, Quit, Edit, Command
<1>1. CASE Start
  <2> DEFINE n == lsps + 1
  <2>1. /\ Command /\ lsps' = n /\ n \in Lsps /\ lsps \in Nat
        /\ pc' = [pc EXCEPT ![n] = "take"] /\ main' = "run"
        /\ UNCHANGED <<name, changed, stopped, mine, server, open, p, code>>
    BY <1>1 DEF Start, TypeOK, ofMain, Command
  <2>2. /\ pc'[n] = "take" /\ \A l \in Lsps : l # n => pc'[l] = pc[l]
    BY <2>1 DEF TypeOK
  <2>3. ~changed[n]
    BY <1>0, <2>1, Idle DEF Alone
  <2>4. Alone'
    BY <1>0, <2>1, <2>2, <2>3, Idle DEF Alone, Started
  <2>5. Waits'
    BY <1>0, <2>1, <2>3, Idle DEF Waits, Started
  <2>6. /\ FirstOfItsName(n) => saved'[name[n]] = Unset
        /\ \A l \in Started : FirstOfItsName(l) => saved'[name[l]] = saved[name[l]]
    <3>1. saved' = IF FirstOfItsName(n) THEN [saved EXCEPT ![name[n]] = Unset] ELSE saved
      BY <1>1 DEF Start
    <3>2. \A l \in Started : l \in 1..(n - 1) /\ name[l] \in Names
      BY <2>1 DEF Started, TypeOK
    <3> QED BY <2>1, <3>1, <3>2 DEF FirstOfItsName, TypeOK
  <2>7. Told'
    <3>1. ASSUME NEW l \in Started' PROVE l \in Lsps /\ (l = n \/ l \in Started)
      BY <2>1 DEF Started
    <3>2. \A l \in Lsps : FirstOfItsName(l)' = FirstOfItsName(l)
      BY <2>1 DEF FirstOfItsName
    <3>3. \A l \in Started : l # n
      BY <2>1 DEF Started
    <3> QED BY <1>0, <2>1, <2>2, <2>6, <3>1, <3>2, <3>3, Idle DEF Told
  <2> QED BY <2>4, <2>5, <2>7
<1>2. ASSUME NEW e \in Editors, Edit(e) PROVE Alone' /\ Waits' /\ Told'
  <2>1. /\ Command /\ main' = "run" /\ UNCHANGED <<ofLsps, threads, saved>>
        /\ p' \in open'
    BY <1>2 DEF Edit, ofMain, Command
  <2> QED BY <1>0, <2>1, Idle
    DEF Alone, Waits, Told, Started, Unflagged, FirstOfItsName, ofLsps, threads
<1>3. CASE Close \/ Save
  <2>1. /\ Command /\ main' \in {"reassign", "save"}
        /\ main' = "save" => p' \in open'
        /\ UNCHANGED <<ofLsps, threads, saved>>
    BY <1>0, <1>3, Idle DEF Close, Save, Waits
  <2> QED BY <1>0, <2>1, Idle
    DEF Alone, Waits, Told, Started, Unflagged, FirstOfItsName, ofLsps, threads
<1>4. CASE Quit
  BY <1>4 DEF Quit, Running
<1> QED BY <1>1, <1>2, <1>3, <1>4 DEF User

LEMMA SavingWaits ==
  ASSUME TypeOK, WaitInv, Saving, patient', Running'
  PROVE  Alone' /\ Waits' /\ Told'
<1>1. /\ patient /\ main \in {"save", "flag", "reassign"} /\ Alone /\ Waits /\ Told
      /\ \A l \in Started : ~changed[l] /\ pc[l] \in {"open", "check"}
  BY DEF Saving, SaveCode, SaveFlag, Reassign, WaitInv, Running, Alone, Waits
<1>2. CASE SaveCode
  <2>1. /\ main' = "flag" /\ p \in open /\ p \in Editors /\ saves \in Texts
        /\ Language[p] \in Names
        /\ code' = [code EXCEPT ![p] = saves]
        /\ saved' = [saved EXCEPT ![Language[p]] = saves]
        /\ UNCHANGED <<ofLsps, threads, open, p>>
    BY <1>1, <1>2 DEF SaveCode, Waits, TypeOK
  <2>2. code'[p] = saved'[Language[p]]
    BY <2>1 DEF TypeOK
  <2>3. \A l \in Started : name[l] # Language[p] => saved'[name[l]] = saved[name[l]]
    BY <2>1 DEF TypeOK, Started
  <2>4. \A l \in Started : ~Unflagged(l)
    BY <1>2 DEF SaveCode, Unflagged
  <2> QED BY <1>1, <2>1, <2>2, <2>3, <2>4
    DEF Alone, Waits, Told, Started, Unflagged, FirstOfItsName, ofLsps, threads
<1>3. CASE SaveFlag
  <2>1. /\ main = "flag" /\ main' = "run" /\ p \in open /\ code[p] = saved[Language[p]]
        /\ changed' = [l \in Lsps |-> changed[l] \/ l \in First(Language[p])]
        /\ UNCHANGED <<lsps, name, stopped, threads, open, p, code, saved>>
    BY <1>1, <1>3 DEF SaveFlag, Waits, editors
  <2>2. \A l \in Lsps :
          changed'[l] <=> changed[l] \/ (l \in Started /\ name[l] = Language[p]
                                         /\ FirstOfItsName(l))
    BY <2>1 DEF First
  <2>3. Alone'
    BY <1>1, <2>1, <2>2 DEF Alone, Started, threads
  <2>4. Waits'
    BY <1>1, <2>1, <2>2 DEF Waits, Started, FirstOfItsName, TypeOK
  <2>5. Told'
    <3>1. ASSUME NEW l \in Started, FirstOfItsName(l), ~changed'[l]
          PROVE  ~Unflagged(l) /\ ~changed[l]
      <4>1. l \in Lsps
        BY DEF Started, TypeOK
      <4> QED BY <2>2, <3>1, <4>1 DEF Unflagged
    <3>2. /\ Started' = Started /\ \A l \in Started : FirstOfItsName(l)' = FirstOfItsName(l)
          /\ pc' = pc /\ server' = server /\ saved' = saved /\ name' = name
      BY <2>1 DEF Started, FirstOfItsName, threads
    <3>3. ASSUME NEW l \in Started
          PROVE  /\ pc[l] = "clear" => server[l] = saved[name[l]]
                 /\ FirstOfItsName(l) /\ ~changed'[l] =>
                      /\ pc[l] = "check" => server[l] = saved[name[l]]
                      /\ pc[l] \in {"take", "open"} => saved[name[l]] = Unset
      BY <1>1, <3>1, <3>3 DEF Told
    <3> QED BY <3>2, <3>3 DEF Told
  <2> QED BY <2>3, <2>4, <2>5
<1>4. CASE Reassign
  <2>1. /\ main' = "run" /\ p' \in open' \cup {NoEditor}
        /\ UNCHANGED <<ofLsps, threads, saved>>
    BY <1>4 DEF Reassign
  <2> QED BY <1>1, <1>4, <2>1
    DEF Reassign, Alone, Waits, Told, Started, Unflagged, FirstOfItsName, ofLsps, threads
<1> QED BY <1>2, <1>3, <1>4 DEF Saving

LEMMA ThreadWaits ==
  ASSUME TypeOK, WaitInv, NEW t \in Lsps, Thread(t), patient', Running'
  PROVE  Alone' /\ Waits' /\ Told'
<1>0. main # "crashed" /\ UNCHANGED <<lsps, name, stopped, editors, main, patient>>
  <2>1. ~Crash(t)
    BY DEF Crash, Running
  <2> QED BY <2>1
    DEF Thread, Take, Open, Check, Read, Clear, Exit, Runs, ofLsps, ofMain, editors
<1>1. Alone /\ Waits /\ Told
  BY <1>0 DEF WaitInv, Running
<1>2. t \in Started
  <2>1. pc[t] # "none"
    BY DEF Thread, Take, Open, Check, Read, Crash, Clear, Exit, Runs
  <2>2. ~(t > lsps)
    BY <1>1, <2>1 DEF Alone
  <2> QED BY <2>2 DEF Started, TypeOK
<1>3. CASE Take(t)
  <2>1. pc[t] = "take" /\ t = lsps /\ mine' = [mine EXCEPT ![t] = t]
        /\ pc' = [pc EXCEPT ![t] = "open"] /\ UNCHANGED <<changed, server>>
    BY <1>1, <1>2, <1>3 DEF Take, Runs, Back, Alone, ofLsps
  <2>2. /\ mine'[t] = t /\ pc'[t] = "open"
        /\ \A l \in Lsps : l # t => mine'[l] = mine[l] /\ pc'[l] = pc[l]
    BY <2>1 DEF TypeOK
  <2> QED BY <1>0, <1>1, <1>2, <2>1, <2>2
    DEF Alone, Waits, Told, Started, Unflagged, FirstOfItsName, editors
<1>4. CASE Open(t)
  <2>1. pc[t] = "open" /\ server' = [server EXCEPT ![t] = Unset]
        /\ pc' = [pc EXCEPT ![t] = "check"] /\ UNCHANGED <<changed, mine>>
    BY <1>4 DEF Open, Runs, ofLsps
  <2>2. /\ server'[t] = Unset /\ pc'[t] = "check"
        /\ \A l \in Lsps : l # t => server'[l] = server[l] /\ pc'[l] = pc[l]
    BY <2>1 DEF TypeOK
  <2> QED BY <1>0, <1>1, <1>2, <2>1, <2>2
    DEF Alone, Waits, Told, Started, Unflagged, FirstOfItsName, editors
<1>5. CASE Check(t)
  <2>1. pc[t] = "check" /\ changed[t] /\ pc' = [pc EXCEPT ![t] = "read"]
        /\ UNCHANGED <<changed, mine, server>>
    BY <1>1, <1>2, <1>5 DEF Check, Runs, Alone, ofLsps
  <2>2. pc'[t] = "read" /\ \A l \in Lsps : l # t => pc'[l] = pc[l]
    BY <2>1 DEF TypeOK
  <2> QED BY <1>0, <1>1, <1>2, <2>1, <2>2
    DEF Alone, Waits, Told, Started, Unflagged, FirstOfItsName, editors
<1>6. CASE Read(t)
  <2>1. /\ changed[t] /\ main = "run" /\ p \in open /\ code[p] = saved[name[t]]
    BY <1>1, <1>2, <1>6 DEF Read, Runs, Alone, Waits
  <2>2. /\ server' = [server EXCEPT ![t] = code[p]]
        /\ pc' = [pc EXCEPT ![t] = "clear"] /\ UNCHANGED <<changed, mine>>
    BY <1>6, <2>1 DEF Read, ofLsps
  <2>3. /\ server'[t] = saved[name[t]] /\ pc'[t] = "clear"
        /\ \A l \in Lsps : l # t => server'[l] = server[l] /\ pc'[l] = pc[l]
    BY <2>1, <2>2 DEF TypeOK
  <2> QED BY <1>0, <1>1, <1>2, <1>6, <2>1, <2>2, <2>3
    DEF Read, Runs, Alone, Waits, Told, Started, Unflagged, FirstOfItsName, editors
<1>7. CASE Clear(t)
  <2>1. /\ pc[t] = "clear" /\ changed' = [changed EXCEPT ![t] = FALSE]
        /\ pc' = [pc EXCEPT ![t] = "check"] /\ UNCHANGED <<mine, server>>
    BY <1>1, <1>2, <1>7 DEF Clear, Runs, Alone
  <2>2. /\ ~changed'[t] /\ pc'[t] = "check"
        /\ \A l \in Lsps : l # t => changed'[l] = changed[l] /\ pc'[l] = pc[l]
    BY <2>1 DEF TypeOK
  <2> QED BY <1>0, <1>1, <1>2, <2>1, <2>2
    DEF Alone, Waits, Told, Started, Unflagged, FirstOfItsName, editors
<1>8. CASE Exit(t) \/ Crash(t)
  BY <1>1, <1>2, <1>8 DEF Exit, Crash, Runs, Alone, Running
<1> QED BY <1>3, <1>4, <1>5, <1>6, <1>7, <1>8 DEF Thread

\* A patient user's server has the text last saved as soon as its thread is back in its
\* loop, whatever the order in which the threads run.
THEOREM UpToDateCorrect == Spec => []UpToDate
<1>1. TypeOK /\ WaitInv /\ [Next]_vars => WaitInv'
  <2> SUFFICES ASSUME TypeOK, WaitInv, [Next]_vars, patient', Running'
               PROVE  Alone' /\ Waits' /\ Told'
    BY DEF WaitInv
  <2>1. CASE Shutdown
    BY <2>1 DEF Shutdown, Stop, Wait, Join, Running
  <2>2. CASE UNCHANGED vars
    BY <2>2 DEF vars, ofLsps, threads, editors, ofMain, WaitInv, Running, Alone, Waits,
                Told, Started, Unflagged, FirstOfItsName
  <2> QED BY <2>1, <2>2, UserWaits, SavingWaits, ThreadWaits DEF Next
<1>2. TypeOK /\ WaitInv => UpToDate
  <2> SUFFICES ASSUME TypeOK, WaitInv, patient, main = "run" PROVE UpToDate
    BY DEF UpToDate
  <2>1. Told
    BY DEF WaitInv, Running
  <2> QED BY <2>1 DEF Told, UpToDate, Unflagged
<1> QED BY <1>1, <1>2, WaitInit, TypeCorrect, PTL DEF Spec
=============================================================================
