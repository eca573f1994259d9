------------------------ MODULE EditorWindowsProofs -------------------------
(***************************************************************************)
(* Proofs about the windows, for any numbers of tasks, windows, links,     *)
(* texts and failures: no pointer is left to a window that is closed, a    *)
(* note is open once, a window that is not dirty shows what is stored, and *)
(* a step leaves the other notes alone.                                    *)
(***************************************************************************)
EXTENDS EditorWindows, SequenceTheorems, WellFoundedInduction, TLAPS

USE EditorWindowsAssumption DEF Ids, NoId, Windows, Null, Texts, NoText

-----------------------------------------------------------------------------
(* Lists and addresses *)

Distinct(s) == \A j, k \in DOMAIN s : s[j] = s[k] => j = k

LEMMA OpenRange == Open = Range(editors)
BY DEF Open, Range

\* What std::erase leaves of a list without duplicates.
LEMMA ErasedIs ==
  ASSUME NEW S, NEW s \in Seq(S), NEW w, Distinct(s)
  PROVE  /\ Erased(s, w) \in Seq(S) /\ Distinct(Erased(s, w))
         /\ Range(Erased(s, w)) = Range(s) \ {w}
<1>1. CASE ~ \E k \in DOMAIN s : s[k] = w
  BY <1>1 DEF Erased, Range
<1>2. CASE \E k \in DOMAIN s : s[k] = w
  <2>1. PICK at : at = CHOOSE k \in DOMAIN s : s[k] = w
    OBVIOUS
  <2>2. at \in 1..Len(s) /\ s[at] = w /\ Len(s) \in Nat
    BY <1>2, <2>1
  <2>3. PICK t : t = RemoveAt(s, at)
    OBVIOUS
  <2>4. Erased(s, w) = t
    BY <1>2, <2>1, <2>3 DEF Erased
  <2> HIDE DEF Distinct
  <2>5. /\ SubSeq(s, 1, at - 1) \in Seq(S) /\ Len(SubSeq(s, 1, at - 1)) = at - 1
        /\ \A i \in 1..(at - 1) : SubSeq(s, 1, at - 1)[i] = s[i]
    <3>1. \A i \in 1..(at - 1) : s[i] \in S
      BY <2>2, ElementOfSeq
    <3> QED BY <2>2, <3>1, SubSeqProperties
  <2>6. /\ SubSeq(s, at + 1, Len(s)) \in Seq(S) /\ Len(SubSeq(s, at + 1, Len(s))) = Len(s) - at
        /\ \A i \in 1..(Len(s) - at) : SubSeq(s, at + 1, Len(s))[i] = s[at + i]
    <3>1. \A i \in (at + 1)..Len(s) : s[i] \in S
      BY <2>2, ElementOfSeq
    <3>2. PICK m \in Int : m = at + 1
      BY <2>2
    <3>3. PICK q : q = SubSeq(s, m, Len(s))
      OBVIOUS
    <3>4. /\ q \in Seq(S) /\ Len(q) = IF m <= Len(s) THEN Len(s) - m + 1 ELSE 0
          /\ \A i \in 1..(Len(s) - m + 1) : q[i] = s[m + i - 1]
      BY <2>2, <3>1, <3>2, <3>3, SubSeqProperties
    <3>5. Len(s) - m + 1 = Len(s) - at /\ (m <= Len(s) <=> at < Len(s))
          /\ \A i \in 1..(Len(s) - at) : m + i - 1 = at + i
      BY <2>2, <3>2
    <3>6. Len(q) = Len(s) - at
      BY <2>2, <3>4, <3>5
    <3> QED BY <3>2, <3>3, <3>4, <3>5, <3>6
  <2>7. /\ t \in Seq(S) /\ Len(t) = Len(s) - 1
        /\ \A i \in 1..Len(t) : t[i] = IF i < at THEN s[i] ELSE s[i + 1]
    <3>1. t = SubSeq(s, 1, at - 1) \o SubSeq(s, at + 1, Len(s))
      BY <2>3 DEF RemoveAt
    <3>2. /\ t \in Seq(S) /\ Len(t) = (at - 1) + (Len(s) - at)
          /\ \A i \in 1..((at - 1) + (Len(s) - at)) :
               t[i] = IF i <= at - 1 THEN SubSeq(s, 1, at - 1)[i]
                      ELSE SubSeq(s, at + 1, Len(s))[i - (at - 1)]
      <4>1. PICK a \in Seq(S), b \in Seq(S) :
              a = SubSeq(s, 1, at - 1) /\ b = SubSeq(s, at + 1, Len(s))
        BY <2>5, <2>6
      <4>2. t = a \o b /\ Len(a) = at - 1 /\ Len(b) = Len(s) - at
        BY <2>5, <2>6, <3>1, <4>1
      <4>3. /\ a \o b \in Seq(S) /\ Len(a \o b) = Len(a) + Len(b)
            /\ \A i \in 1..(Len(a) + Len(b)) :
                 (a \o b)[i] = IF i <= Len(a) THEN a[i] ELSE b[i - Len(a)]
        BY ConcatProperties
      <4> QED BY <4>1, <4>2, <4>3
    <3>3. \A i \in 1..(Len(s) - 1) : i > at - 1 =>
            i - (at - 1) \in 1..(Len(s) - at) /\ at + (i - (at - 1)) = i + 1
      BY <2>2
    <3> QED BY <2>2, <2>5, <2>6, <3>2, <3>3
  <2>8. DOMAIN t = 1..Len(t) /\ DOMAIN s = 1..Len(s)
    BY <2>7, LenProperties
  <2>9. Distinct(t)
    <3>1. SUFFICES ASSUME NEW j \in 1..Len(t), NEW k \in 1..Len(t), t[j] = t[k] PROVE j = k
      BY <2>8 DEF Distinct
    <3>2. PICK a \in 1..Len(s) : t[j] = s[a] /\ a = IF j < at THEN j ELSE j + 1
      BY <2>2, <2>7
    <3>3. PICK b \in 1..Len(s) : t[k] = s[b] /\ b = IF k < at THEN k ELSE k + 1
      BY <2>2, <2>7
    <3>4. a = b
      BY <2>8, <3>1, <3>2, <3>3 DEF Distinct
    <3> QED BY <2>2, <3>2, <3>3, <3>4
  <2>10. Range(t) = Range(s) \ {w}
    <3>1. ASSUME NEW i \in 1..Len(t) PROVE t[i] \in Range(s) \ {w}
      <4>1. CASE i < at
        BY <2>2, <2>7, <2>8, <4>1 DEF Distinct, Range
      <4>2. CASE i >= at
        <5>1. i + 1 \in DOMAIN s /\ i + 1 # at /\ t[i] = s[i + 1]
          BY <2>2, <2>7, <2>8, <4>2
        <5> QED BY <2>2, <2>8, <5>1 DEF Distinct, Range
      <4> QED BY <2>2, <4>1, <4>2
    <3>2. ASSUME NEW k \in 1..Len(s), s[k] # w PROVE s[k] \in Range(t)
      <4>1. CASE k < at
        BY <2>2, <2>7, <2>8, <4>1 DEF Range
      <4>2. CASE k > at
        <5>1. k - 1 \in DOMAIN t /\ t[k - 1] = s[k]
          BY <2>2, <2>7, <2>8, <4>2
        <5> QED BY <5>1 DEF Range
      <4> QED BY <2>2, <3>2, <4>1, <4>2
    <3>3. Range(t) \subseteq Range(s) \ {w}
      BY <2>8, <3>1 DEF Range
    <3>4. Range(s) \ {w} \subseteq Range(t)
      BY <2>8, <3>2 DEF Range
    <3> QED BY <3>3, <3>4
  <2> QED BY <2>4, <2>7, <2>9, <2>10
<1> QED BY <1>1, <1>2

\* An address that is not used is found, if there is one.
LEMMA FreshIs ==
  ASSUME NEW used, MaxWindows + 1 \notin used
  PROVE  Fresh(used) \in 1..(MaxWindows + 1) /\ Fresh(used) \notin used
<1> DEFINE T == {n \in Nat : n >= 1 /\ n \notin used}
           R == OpToRel(<, Nat)
<1>1. T \subseteq Nat /\ MaxWindows + 1 \in T
  OBVIOUS
<1>2. PICK x \in T : \A y \in T : ~ (<<y, x>> \in R)
  <2> HIDE DEF T, R
  <2>1. IsWellFoundedOn(R, Nat)
    BY NatLessThanWellFounded DEF R
  <2> QED BY <1>1, <2>1, WFMin
<1>3. \A y \in T : x <= y
  <2>1. \A a, b \in Nat : a < b => <<a, b>> \in R
    <3> SUFFICES ASSUME NEW a \in Nat, NEW b \in Nat, a < b PROVE <<a, b>> \in R
      OBVIOUS
    <3>1. <<a, b>> \in Nat \X Nat /\ <<a, b>>[1] = a /\ <<a, b>>[2] = b
      OBVIOUS
    <3> QED BY <3>1 DEF OpToRel
  <2> HIDE DEF R, T
  <2>2. SUFFICES ASSUME NEW y \in T PROVE x <= y
    OBVIOUS
  <2>3. x \in Nat /\ y \in Nat
    BY <1>1
  <2>4. ~(y < x)
    BY <1>2, <2>1, <2>3
  <2> QED BY <2>3, <2>4
<1>4. x \in 1..(MaxWindows + 2) /\ x \notin used /\ \A v \in 1..(x - 1) : v \in used
  BY <1>1, <1>3
<1>5. PICK f : f = Fresh(used)
  OBVIOUS
<1>6. f \in 1..(MaxWindows + 2) /\ f \notin used /\ \A v \in 1..(f - 1) : v \in used
  BY <1>4, <1>5 DEF Fresh
<1>7. f <= MaxWindows + 1
  BY <1>6
<1> QED BY <1>5, <1>6, <1>7

-----------------------------------------------------------------------------
(* The list of windows and the pointers *)

\* No window is twice in the list: an erased one is gone from it.
ListInv == TypeOK /\ Distinct(editors) /\ PointersOpen /\ OpenOnce

LEMMA Facts ==
  ASSUME ListInv
  PROVE  /\ Open \subseteq Windows /\ (editors # <<>> <=> Open # {})
         /\ InEditor => p \in Open
         /\ editors # <<>> => p \in Open
         /\ \A w \in Windows :
              /\ win[w] \in Window /\ win[w].id \in Ids \cup {NoId}
              /\ win[w].linked \in Windows \cup {Null} /\ win[w].sub \in BOOLEAN
              /\ win[w].below \in BOOLEAN /\ win[w].text \in Texts
              /\ win[w].below => win[w].sub
         /\ \A i : NoteRead(i) \in Texts
         /\ MaxWindows + 1 \notin Open
<1>1. editors \in Seq(Windows) /\ win \in [Windows -> Window]
      /\ \A w \in Windows : win[w].below => win[w].sub
  BY DEF ListInv, TypeOK
<1>2. Open \subseteq Windows /\ (editors # <<>> <=> Open # {})
  <2>1. DOMAIN editors = 1..Len(editors) /\ Len(editors) \in Nat
    BY <1>1, LenProperties
  <2>2. \A k \in DOMAIN editors : editors[k] \in Windows
    BY <1>1, <2>1, ElementOfSeq
  <2>3. editors # <<>> => 1 \in DOMAIN editors
    BY <1>1, <2>1, EmptySeq
  <2>4. Open # {} => editors # <<>>
    BY DEF Open
  <2> QED BY <2>2, <2>3, <2>4 DEF Open
<1>3. InEditor => p \in Open
  BY DEF ListInv, PointersOpen, InEditor
<1>4. editors # <<>> => p \in Open
  BY DEF ListInv, PointersOpen
<1>5. \A w \in Windows :
        /\ win[w] \in Window /\ win[w].id \in Ids \cup {NoId}
        /\ win[w].linked \in Windows \cup {Null} /\ win[w].sub \in BOOLEAN
        /\ win[w].below \in BOOLEAN /\ win[w].text \in Texts
        /\ win[w].below => win[w].sub
  BY <1>1 DEF Window
<1>6. \A i : NoteRead(i) \in Texts
  <2>1. \A i \in tasks : note[i] \in Texts
    BY DEF ListInv, TypeOK
  <2> QED BY <2>1 DEF NoteRead
<1> QED BY <1>2, <1>3, <1>4, <1>5, <1>6

\* Which windows there are, of which notes, and which belong together.
SameWindow(w) ==
  win'[w].id = win[w].id /\ win'[w].linked = win[w].linked /\ win'[w].sub = win[w].sub

LEMMA KeptWindows ==
  ASSUME ListInv, editors' = editors, \A w \in Open : SameWindow(w),
         IF editors = <<>> THEN p' = Null /\ ~editorMode' ELSE p' \in Open
  PROVE  Distinct(editors') /\ PointersOpen' /\ OpenOnce'
<1>1. Open' = Open
  BY DEF Open
<1>2. Distinct(editors')
  BY DEF ListInv
<1>3. PointersOpen'
  <2>1. ASSUME NEW w \in Open
        PROVE  /\ win'[w].sub => win'[w].linked # Null
               /\ win'[w].linked # Null =>
                    /\ win'[w].linked \in Open
                    /\ win'[win'[w].linked].linked = w
                    /\ win'[win'[w].linked].id = win'[w].id
                    /\ win'[win'[w].linked].sub = ~win'[w].sub
    <3>1. /\ win[w].sub => win[w].linked # Null
          /\ win[w].linked # Null =>
               /\ win[w].linked \in Open
               /\ win[win[w].linked].linked = w
               /\ win[win[w].linked].id = win[w].id
               /\ win[win[w].linked].sub = ~win[w].sub
      BY DEF ListInv, PointersOpen
    <3>2. SameWindow(w) /\ (win[w].linked # Null => SameWindow(win[w].linked))
      BY <3>1
    <3> QED BY <3>1, <3>2 DEF SameWindow
  <2> QED BY <1>1, <2>1 DEF PointersOpen
<1>4. OpenOnce'
  <2>1. Mains' = Mains
    BY <1>1 DEF Mains, SameWindow
  <2>2. \A w \in Mains : w \in Open
    BY DEF Mains
  <2> QED BY <2>1, <2>2 DEF ListInv, OpenOnce, SameWindow
<1> QED BY <1>2, <1>3, <1>4

LEMMA EndedWindows ==
  ASSUME NEW how, Ended(how) PROVE Distinct(editors') /\ PointersOpen' /\ OpenOnce'
<1>1. Open' = {} /\ DOMAIN editors' = {}
  <2>1. editors' = <<>>
    BY DEF Ended
  <2>2. DOMAIN editors' = {}
    BY <2>1
  <2> QED BY <2>2 DEF Open
<1> QED BY <1>1 DEF Ended, Distinct, PointersOpen, OpenOnce, Mains

\* A window for a note that has none, and one for its output.
LEMMA AddedWindows ==
  ASSUME ListInv, NEW i \in Ids \cup {NoId}, NEW code \in BOOLEAN,
         Found(i) = {}, NewWindow(i, code)
  PROVE  /\ editors' \in Seq(Windows) /\ p' \in Windows
         /\ win' \in [Windows -> Window] /\ \A w \in Windows : win'[w].below => win'[w].sub
         /\ Distinct(editors') /\ PointersOpen' /\ OpenOnce'
         /\ \A w \in Open : w \in Open' /\ win'[w] = win[w]
         /\ \A w \in Open' \ Open : win'[w].sub \/ win'[w].text = NoteRead(win'[w].id)
<1>1. PICK w, o : /\ w = Fresh(Open) /\ o = Fresh(Open \cup {w})
  OBVIOUS
<1>2. w \in Windows /\ p' = w
  BY <1>1 DEF NewWindow
<1>3. w \notin Open
  BY <1>1, Facts, FreshIs
<1>4. o \notin Open \cup {w}
  <2>1. MaxWindows + 1 \notin Open \cup {w}
    BY <1>2, Facts
  <2> QED BY <1>1, <2>1, FreshIs
<1>5. editors \in Seq(Windows) /\ win \in [Windows -> Window]
  BY DEF ListInv, TypeOK
<1>6. \/ /\ o \in Windows
         /\ editors' = editors \o <<w, o>>
         /\ win' = [win EXCEPT ![w] = NoteWindow(o, i), ![o] = OutputOf(w, i)]
      \/ /\ editors' = Append(editors, w)
         /\ win' = [win EXCEPT ![w] = NoteWindow(Null, i)]
  BY <1>1 DEF NewWindow
<1>7. /\ NoteWindow(Null, i) \in Window /\ NoteWindow(Null, i).id = i
      /\ NoteWindow(Null, i).linked = Null /\ NoteWindow(Null, i).sub = FALSE
      /\ NoteWindow(Null, i).text = NoteRead(i) /\ NoteWindow(Null, i).below = FALSE
  BY Facts DEF NoteWindow, Blank, Window
<1>8. ASSUME o \in Windows
      PROVE  /\ NoteWindow(o, i) \in Window /\ NoteWindow(o, i).id = i
             /\ NoteWindow(o, i).linked = o /\ NoteWindow(o, i).sub = FALSE
             /\ NoteWindow(o, i).text = NoteRead(i) /\ NoteWindow(o, i).below = FALSE
  BY <1>8, Facts DEF NoteWindow, Blank, Window
<1>9. /\ OutputOf(w, i) \in Window /\ OutputOf(w, i).id = i
      /\ OutputOf(w, i).linked = w /\ OutputOf(w, i).sub = TRUE
  <2>0. Blank \in Window
    BY DEF Blank, Window
  <2>1. PICK b \in Window : b = Blank
    BY <2>0
  <2>2. OutputOf(w, i) = [b EXCEPT !.id = i, !.sub = TRUE, !.below = TRUE, !.linked = w]
    BY <2>1 DEF OutputOf
  <2> QED BY <1>2, <2>2 DEF Window
<1>10. PICK new \in SUBSET Windows :
         /\ w \in new /\ \A v \in new : v = w \/ v = o
         /\ editors' \in Seq(Windows) /\ Distinct(editors')
         /\ Open' = Open \cup new /\ editors' # <<>>
         /\ o \in new => win' = [win EXCEPT ![w] = NoteWindow(o, i), ![o] = OutputOf(w, i)]
         /\ o \notin new => win' = [win EXCEPT ![w] = NoteWindow(Null, i)]
  <2>0. DOMAIN editors = 1..Len(editors) /\ Len(editors) \in Nat
    BY <1>5, LenProperties
  <2>1. CASE o \in Windows /\ editors' = editors \o <<w, o>>
             /\ win' = [win EXCEPT ![w] = NoteWindow(o, i), ![o] = OutputOf(w, i)]
    <3>1. <<w, o>> \in Seq(Windows) /\ Len(<<w, o>>) = 2
          /\ <<w, o>>[1] = w /\ <<w, o>>[2] = o
      BY <1>2, <2>1
    <3>2. /\ editors' \in Seq(Windows) /\ Len(editors') = Len(editors) + 2
          /\ \A k \in 1..(Len(editors) + 2) :
               editors'[k] = IF k <= Len(editors) THEN editors[k]
                             ELSE <<w, o>>[k - Len(editors)]
      BY <1>5, <2>1, <3>1, ConcatProperties
    <3>3. DOMAIN editors' = 1..(Len(editors) + 2)
      BY <3>2, LenProperties
    <3>4. /\ \A k \in DOMAIN editors : k \in DOMAIN editors' /\ editors'[k] = editors[k]
          /\ Len(editors) + 1 \in DOMAIN editors' /\ editors'[Len(editors) + 1] = w
          /\ Len(editors) + 2 \in DOMAIN editors' /\ editors'[Len(editors) + 2] = o
      <4>1. \A k \in DOMAIN editors : k \in DOMAIN editors' /\ editors'[k] = editors[k]
        BY <2>0, <3>2, <3>3
      <4>2. PICK n \in Nat : n = Len(editors)
        BY <2>0
      <4>3. editors'[n + 1] = <<w, o>>[(n + 1) - n] /\ editors'[n + 2] = <<w, o>>[(n + 2) - n]
        <5>1. n + 1 \in 1..(n + 2) /\ n + 2 \in 1..(n + 2) /\ ~(n + 1 <= n) /\ ~(n + 2 <= n)
          BY <4>2
        <5>2. PICK q : q = <<w, o>>
          OBVIOUS
        <5>3. \A k \in 1..(n + 2) : ~(k <= n) => editors'[k] = q[k - n]
          BY <3>2, <4>2, <5>2
        <5> QED BY <5>1, <5>2, <5>3
      <4>4. (n + 1) - n = 1 /\ (n + 2) - n = 2
        BY <4>2
      <4>5. editors'[n + 1] = w /\ editors'[n + 2] = o
        BY <3>1, <4>3, <4>4
      <4> QED BY <3>3, <4>1, <4>2, <4>5
    <3>5. \A k \in DOMAIN editors' : \/ k \in DOMAIN editors
                                     \/ k = Len(editors) + 1 \/ k = Len(editors) + 2
      BY <2>0, <3>3
    <3>6. Open' = Open \cup {w, o}
      BY <3>4, <3>5 DEF Open
    <3>7. Distinct(editors')
      BY <1>3, <1>4, <2>0, <3>4, <3>5 DEF Distinct, ListInv, Open
    <3>8. editors' # <<>>
      BY <3>4
    <3>9. {w, o} \in SUBSET Windows
      BY <1>2, <2>1
    <3> QED BY <2>1, <3>2, <3>6, <3>7, <3>8, <3>9
  <2>2. CASE editors' = Append(editors, w) /\ win' = [win EXCEPT ![w] = NoteWindow(Null, i)]
    <3>2. /\ editors' \in Seq(Windows) /\ Len(editors') = Len(editors) + 1
          /\ \A k \in 1..Len(editors) : editors'[k] = editors[k]
          /\ editors'[Len(editors) + 1] = w
      BY <1>2, <1>5, <2>2, AppendProperties
    <3>3. DOMAIN editors' = 1..(Len(editors) + 1)
      BY <3>2, LenProperties
    <3>4. /\ \A k \in DOMAIN editors : k \in DOMAIN editors' /\ editors'[k] = editors[k]
          /\ Len(editors) + 1 \in DOMAIN editors' /\ editors'[Len(editors) + 1] = w
      BY <2>0, <3>2, <3>3
    <3>5. \A k \in DOMAIN editors' : k \in DOMAIN editors \/ k = Len(editors) + 1
      BY <2>0, <3>3
    <3>6. Open' = Open \cup {w}
      BY <3>4, <3>5 DEF Open
    <3>7. Distinct(editors')
      BY <1>3, <2>0, <3>4, <3>5 DEF Distinct, ListInv, Open
    <3>8. editors' # <<>>
      BY <3>4
    <3> QED BY <1>2, <1>4, <2>2, <3>2, <3>6, <3>7, <3>8
  <2> QED BY <1>6, <2>1, <2>2
<1>11. /\ \A v \in Windows \ new : win'[v] = win[v]
       /\ win'[w].id = i /\ win'[w].sub = FALSE /\ win'[w].text = NoteRead(i)
       /\ win'[w].below = FALSE /\ win'[w] \in Window
       /\ win'[w].linked = IF o \in new THEN o ELSE Null
       /\ win' \in [Windows -> Window]
  <2>1. CASE o \in new
    <3>1. o \in Windows /\ o # w
          /\ win' = [win EXCEPT ![w] = NoteWindow(o, i), ![o] = OutputOf(w, i)]
      BY <1>4, <1>10, <2>1
    <3>2. /\ win'[w] = NoteWindow(o, i) /\ win'[o] = OutputOf(w, i)
          /\ \A v \in Windows \ new : win'[v] = win[v]
      BY <1>2, <1>5, <1>10, <2>1, <3>1
    <3>3. win' \in [Windows -> Window]
      BY <1>2, <1>5, <1>8, <1>9, <3>1
    <3> QED BY <1>8, <2>1, <3>1, <3>2, <3>3
  <2>2. CASE o \notin new
    BY <1>2, <1>5, <1>7, <1>10, <2>2
  <2> QED BY <2>1, <2>2
<1>12. o \in new => /\ win'[o].id = i /\ win'[o].sub = TRUE /\ win'[o].linked = w
  BY <1>2, <1>4, <1>5, <1>9, <1>10
<1>13. \A v \in Open : v \notin new
  BY <1>3, <1>4, <1>10
<1>14. \A v \in Windows : win'[v].below => win'[v].sub
  BY <1>10, <1>11, <1>12, Facts
<1>15. PointersOpen'
  <2>1. ASSUME NEW v \in Open'
        PROVE  /\ win'[v].sub => win'[v].linked # Null
               /\ win'[v].linked # Null =>
                    /\ win'[v].linked \in Open'
                    /\ win'[win'[v].linked].linked = v
                    /\ win'[win'[v].linked].id = win'[v].id
                    /\ win'[win'[v].linked].sub = ~win'[v].sub
    <3>1. CASE v \in Open
      <4>1. win'[v] = win[v] /\ (win[v].linked # Null => win[v].linked \in Open)
        BY <1>11, <1>13, <3>1, Facts DEF ListInv, PointersOpen
      <4>2. win[v].linked # Null => win'[win[v].linked] = win[win[v].linked]
        BY <1>11, <1>13, <4>1, Facts
      <4> QED BY <1>10, <3>1, <4>1, <4>2 DEF ListInv, PointersOpen
    <3>2. CASE v = w
      BY <1>2, <1>10, <1>11, <1>12, <3>2
    <3>3. CASE v = o /\ o \in new
      <4>1. win'[v].linked = w /\ win'[w].linked = v /\ w # Null /\ w \in Open'
        BY <1>2, <1>10, <1>11, <1>12, <3>3
      <4>2. win'[v].id = i /\ win'[v].sub = TRUE /\ win'[w].id = i /\ win'[w].sub = FALSE
        BY <1>11, <1>12, <3>3
      <4> QED BY <4>1, <4>2
    <3> QED BY <1>10, <3>1, <3>2, <3>3
  <2>2. p' \in Open' /\ editors' # <<>>
    BY <1>2, <1>10
  <2> QED BY <2>1, <2>2 DEF PointersOpen
<1>16. OpenOnce'
  <2>1. \A v \in Mains' : v # w => v \in Mains /\ win'[v].id = win[v].id /\ win[v].id # i
    <3> SUFFICES ASSUME NEW v \in Mains', v # w
                 PROVE  v \in Mains /\ win'[v].id = win[v].id /\ win[v].id # i
      OBVIOUS
    <3>2. v \in Open' /\ ~win'[v].sub
      BY DEF Mains
    <3>3. v \in Open
      BY <1>10, <1>12, <3>2
    <3>4. win'[v] = win[v]
      BY <1>11, <1>13, <3>3, Facts
    <3> QED BY <3>2, <3>3, <3>4 DEF Mains, Found
  <2>2. win'[w].id = i
    BY <1>11
  <2> QED BY <2>1, <2>2 DEF OpenOnce, ListInv
<1>17. \A v \in Open : v \in Open' /\ win'[v] = win[v]
  BY <1>10, <1>11, <1>13, Facts
<1>18. \A v \in Open' \ Open : win'[v].sub \/ win'[v].text = NoteRead(win'[v].id)
  BY <1>10, <1>11, <1>12
<1> QED BY <1>2, <1>10, <1>11, <1>14, <1>15, <1>16, <1>17, <1>18

\* A note and its output are closed together.
LEMMA ClosedWindows ==
  ASSUME ListInv, InEditor, Closed
  PROVE  /\ editors' \in Seq(Windows) /\ p' \in Windows \cup {Null} /\ editorMode' \in BOOLEAN
         /\ win' \in [Windows -> Window] /\ \A w \in Windows : win'[w].below => win'[w].sub
         /\ Distinct(editors') /\ PointersOpen' /\ OpenOnce'
         /\ Open' = Open \ {p, win[p].linked}
         /\ \A w \in Open' : win'[w] = win[w]
<1>1. p \in Open /\ p \in Windows
  BY Facts
<1>2. editors \in Seq(Windows) /\ Distinct(editors) /\ win \in [Windows -> Window]
  BY DEF ListInv, TypeOK
<1>3. PICK o : o = win[p].linked
  OBVIOUS
<1>4. /\ editors' \in Seq(Windows) /\ Distinct(editors')
      /\ Range(editors') = Range(editors) \ {p, o}
  <2>1. PICK s : s = Erased(editors, p)
    OBVIOUS
  <2>2. s \in Seq(Windows) /\ Distinct(s) /\ Range(s) = Range(editors) \ {p}
    BY <1>2, <2>1, ErasedIs
  <2>3. editors' = Erased(s, o)
    BY <1>3, <2>1 DEF Closed, LinkedTo
  <2>4. editors' \in Seq(Windows) /\ Distinct(editors') /\ Range(editors') = Range(s) \ {o}
    BY <2>2, <2>3, ErasedIs
  <2> QED BY <2>2, <2>4
<1>5. Open' = Open \ {p, o}
  BY <1>4, OpenRange DEF Open, Range
<1>6. Blank \in Window /\ Blank.below = FALSE
  BY DEF Blank, Window
<1>7. win' = [w \in Windows |-> IF w \in {p, o} THEN Blank ELSE win[w]]
  BY <1>3 DEF Closed, LinkedTo
<1>8. win' \in [Windows -> Window] /\ \A w \in Windows : win'[w].below => win'[w].sub
  BY <1>2, <1>6, <1>7, Facts
<1>9. \A w \in Open' : w \in Open /\ win'[w] = win[w]
  BY <1>5, <1>7, Facts
<1>10. editors' # <<>> => p' \in Open' /\ p' \in Windows /\ editorMode' = editorMode
  <2>1. SUFFICES ASSUME editors' # <<>>
                 PROVE  editors'[1] \in Open' /\ editors'[1] \in Windows
    BY DEF Closed
  <2>2. 1 \in DOMAIN editors' /\ DOMAIN editors' = 1..Len(editors')
    BY <1>4, <2>1, EmptySeq, LenProperties
  <2> QED BY <1>4, <2>2, ElementOfSeq DEF Open
<1>11. editors' = <<>> => p' = Null /\ editorMode' = FALSE
  BY DEF Closed
<1>12. PointersOpen'
  <2>1. ASSUME NEW w \in Open'
        PROVE  /\ win'[w].sub => win'[w].linked # Null
               /\ win'[w].linked # Null =>
                    /\ win'[w].linked \in Open'
                    /\ win'[win'[w].linked].linked = w
                    /\ win'[win'[w].linked].id = win'[w].id
                    /\ win'[win'[w].linked].sub = ~win'[w].sub
    <3>1. w \in Open /\ w # p /\ w # o /\ win'[w] = win[w]
      BY <1>5, <1>9
    <3>2. /\ win[w].sub => win[w].linked # Null
          /\ win[w].linked # Null =>
               /\ win[w].linked \in Open
               /\ win[win[w].linked].linked = w
               /\ win[win[w].linked].id = win[w].id
               /\ win[win[w].linked].sub = ~win[w].sub
      BY <3>1 DEF ListInv, PointersOpen
    <3>3. o # Null => win[o].linked = p
      BY <1>1, <1>3 DEF ListInv, PointersOpen
    <3>4. win[w].linked # Null => win[w].linked # p /\ win[w].linked # o
      BY <1>3, <3>1, <3>2, <3>3
    <3>5. win[w].linked # Null => win[w].linked \in Open' /\ win'[win[w].linked] = win[win[w].linked]
      BY <1>5, <1>9, <3>2, <3>4
    <3> QED BY <3>1, <3>2, <3>5
  <2>2. IF editors' = <<>> THEN p' = Null /\ ~editorMode' ELSE p' \in Open'
    BY <1>10, <1>11
  <2> QED BY <2>1, <2>2 DEF PointersOpen
<1>13. OpenOnce'
  <2>1. \A v \in Mains' : v \in Mains /\ win'[v] = win[v]
    BY <1>9 DEF Mains
  <2> QED BY <2>1 DEF OpenOnce, ListInv
<1>14. p' \in Windows \cup {Null} /\ editorMode' \in BOOLEAN
  BY <1>10, <1>11 DEF ListInv, TypeOK
<1> QED BY <1>3, <1>4, <1>5, <1>8, <1>9, <1>12, <1>13, <1>14

-----------------------------------------------------------------------------
(* What the actions do to the list *)

Tables ==
  /\ tasks \subseteq Ids /\ note \in [Ids -> Texts]
  /\ links \subseteq (Ids \cup {NoId}) \X Ids
  /\ run \in {"yes", "quit", "crash"}
  /\ texts \in Texts /\ faults \in 0..MaxFaults

Lists ==
  /\ editors \in Seq(Windows) /\ p \in Windows \cup {Null} /\ editorMode \in BOOLEAN
  /\ win \in [Windows -> Window] /\ \A w \in Windows : win[w].below => win[w].sub
  /\ Distinct(editors) /\ PointersOpen /\ OpenOnce

LEMMA ListParts == (ListInv <=> Tables /\ Lists) /\ (ListInv' <=> Tables' /\ Lists')
BY DEF ListInv, TypeOK, Tables, Lists

LEMMA ListInit == Init => ListInv
<1> SUFFICES ASSUME Init PROVE ListInv
  OBVIOUS
<1>1. Blank \in Window /\ Blank.below = FALSE
  BY DEF Blank, Window
<1>2. editors = <<>> /\ DOMAIN editors = {} /\ editors \in Seq(Windows)
  <2>1. editors = <<>>
    BY DEF Init
  <2> QED BY <2>1
<1>3. Open = {}
  BY <1>2 DEF Open
<1>4. Tables
  BY DEF Init, Tables
<1>5. PointersOpen /\ OpenOnce /\ Distinct(editors)
  BY <1>2, <1>3 DEF Init, PointersOpen, OpenOnce, Mains, Distinct
<1>6. win \in [Windows -> Window] /\ \A w \in Windows : win[w].below => win[w].sub
  BY <1>1 DEF Init
<1> QED BY <1>2, <1>4, <1>5, <1>6, ListParts DEF Init, Lists

LEMMA EndedLists == ASSUME NEW how, Ended(how) PROVE Lists'
<1>1. Blank \in Window /\ Blank.below = FALSE
  BY DEF Blank, Window
<1>2. win' \in [Windows -> Window] /\ \A w \in Windows : win'[w].below => win'[w].sub
  BY <1>1 DEF Ended
<1>3. editors' \in Seq(Windows)
  BY DEF Ended
<1> QED BY <1>2, <1>3, EndedWindows DEF Ended, Lists

\* The windows stay, and their contents.
LEMMA SameLists ==
  ASSUME ListInv, UNCHANGED <<editors, win>>, editorMode' \in BOOLEAN,
         IF editors = <<>> THEN p' = Null /\ ~editorMode' ELSE p' \in Open
  PROVE  Lists'
<1>1. Distinct(editors') /\ PointersOpen' /\ OpenOnce'
  BY KeptWindows DEF SameWindow
<1>2. p' \in Windows \cup {Null}
  BY Facts
<1> QED BY <1>1, <1>2 DEF ListInv, TypeOK, Lists

\* The text of a window changes, or what is known of it.
LEMMA ChangedLists ==
  ASSUME ListInv, UNCHANGED <<editors, p, editorMode>>, win' \in [Windows -> Window],
         \A w \in Windows : SameWindow(w) /\ (win'[w].below => win'[w].sub)
  PROVE  Lists'
<1>1. IF editors = <<>> THEN p' = Null /\ ~editorMode' ELSE p' \in Open
  BY DEF ListInv, PointersOpen
<1>2. Distinct(editors') /\ PointersOpen' /\ OpenOnce'
  BY <1>1, KeptWindows, Facts
<1> QED BY <1>2 DEF ListInv, TypeOK, Lists

LEMMA EditNoteLists ==
  ASSUME ListInv, NEW i \in Ids, NEW code \in BOOLEAN, EditNote(i, code)
  PROVE  Lists'
<1>1. CASE Found(i) = {} /\ NewWindow(i, code)
  BY <1>1, AddedWindows DEF EditNote, Lists
<1>2. CASE p' \in Found(i) /\ UNCHANGED <<editors, win>>
  <2>1. p' \in Open /\ editors # <<>>
    BY <1>2, Facts DEF Found
  <2> QED BY <1>2, <2>1, SameLists DEF EditNote
<1> QED BY <1>1, <1>2 DEF EditNote

LEMMA SameTables ==
  ASSUME ListInv, UNCHANGED <<stored, texts, faults>>, run' \in {"yes", "quit", "crash"}
  PROVE  Tables'
BY DEF ListInv, TypeOK, Tables, stored

LEMMA EditLists ==
  ASSUME ListInv, NEW i \in Ids, NEW code \in BOOLEAN, Edit(i, code) PROVE ListInv'
<1>1. Tables'
  BY SameTables DEF Edit, bounds, ListInv, TypeOK
<1> QED BY <1>1, EditNoteLists, ListParts DEF Edit

LEMMA GetLinkedFromListLists ==
  ASSUME ListInv, NEW code \in BOOLEAN, GetLinkedFromList(code) PROVE ListInv'
<1>1. Tables'
  BY SameTables DEF GetLinkedFromList, bounds, ListInv, TypeOK
<1> QED BY <1>1, EditNoteLists, ListParts DEF GetLinkedFromList

LEMMA GetLinkedLists ==
  ASSUME ListInv, NEW code \in BOOLEAN, GetLinked(code) PROVE ListInv'
<1>1. Tables'
  BY SameTables DEF GetLinked, bounds, ListInv, TypeOK
<1>2. PICK i \in Ids \cup {NoId} : i \notin IdsOpen /\ NewWindow(i, code)
  BY DEF GetLinked
<1>3. Found(i) = {}
  BY <1>2 DEF Found, IdsOpen
<1>4. Lists'
  BY <1>2, <1>3, AddedWindows DEF GetLinked, Lists, ListInv, TypeOK
<1> QED BY <1>1, <1>4, ListParts

LEMMA GoToEditorsLists == ASSUME ListInv, GoToEditors PROVE ListInv'
<1>1. Tables'
  BY SameTables DEF GoToEditors, bounds, ListInv, TypeOK
<1>2. Lists'
  BY SameLists, Facts DEF GoToEditors
<1> QED BY <1>1, <1>2, ListParts

LEMMA QuitLists == ASSUME ListInv, Quit PROVE ListInv'
<1>1. Tables'
  BY SameTables DEF Quit, Ended, bounds
<1> QED BY <1>1, EndedLists, ListParts DEF Quit

LEMMA OutdatedIs ==
  ASSUME ListInv, NEW i, win' = Outdated(i)
  PROVE  /\ win' \in [Windows -> Window]
         /\ \A w \in Windows :
              /\ SameWindow(w) /\ win'[w].below = win[w].below /\ win'[w].text = win[w].text
              /\ win'[w].dirty = win[w].dirty
              /\ ~win'[w].behind => ~win[w].behind
              /\ w \in Mains /\ win[w].id = i /\ ~win[w].dirty => win'[w].behind
<1> SUFFICES ASSUME NEW w \in Windows
             PROVE  /\ win'[w] \in Window
                    /\ SameWindow(w) /\ win'[w].below = win[w].below
                    /\ win'[w].text = win[w].text /\ win'[w].dirty = win[w].dirty
                    /\ ~win'[w].behind => ~win[w].behind
                    /\ w \in Mains /\ win[w].id = i /\ ~win[w].dirty => win'[w].behind
  BY DEF Outdated
<1>1. PICK x \in Window : x = win[w]
  BY Facts
<1>2. win'[w] = x \/ (win'[w] = [x EXCEPT !.behind = TRUE])
  BY <1>1 DEF Outdated
<1>3. w \in Mains /\ win[w].id = i /\ ~win[w].dirty => win'[w] = [x EXCEPT !.behind = TRUE]
  BY <1>1 DEF Outdated
<1> QED BY <1>1, <1>2, <1>3 DEF SameWindow, Window

LEMMA TaskChangedLists == ASSUME ListInv, NEW i \in Ids, TaskChanged(i) PROVE ListInv'
<1>1. Tables'
  <2>1. faults' \in 0..MaxFaults
    BY DEF TaskChanged, ListInv, TypeOK
  <2>2. note' \in [Ids -> Texts] /\ texts' \in Texts
    <3>1. note \in [Ids -> Texts] /\ texts \in Texts /\ NoText \in Texts
          /\ (texts < MaxTexts => texts + 1 \in Texts)
      BY DEF ListInv, TypeOK
    <3>2. \/ texts < MaxTexts /\ texts' = texts + 1 /\ note' = [note EXCEPT ![i] = texts + 1]
          \/ texts' = texts /\ note' = [note EXCEPT ![i] = NoText]
          \/ texts' = texts /\ note' = note
      BY DEF TaskChanged
    <3> QED BY <3>1, <3>2
  <2>3. tasks' \subseteq Ids /\ UNCHANGED <<links, run>>
    BY DEF TaskChanged, ListInv, TypeOK
  <2> QED BY <2>1, <2>2, <2>3 DEF Tables, ListInv, TypeOK
<1>2. Lists'
  <2>1. win' = Outdated(i) /\ UNCHANGED <<editors, p, editorMode>>
    BY DEF TaskChanged
  <2> QED BY <2>1, OutdatedIs, ChangedLists, Facts DEF SameWindow
<1> QED BY <1>1, <1>2, ListParts

LEMMA CreateLinkLists == ASSUME ListInv, CreateLink PROVE ListInv'
<1>1. \A i \in IdsOpen : i \in Ids \cup {NoId}
  BY Facts DEF IdsOpen
<1>2. \A pair \in IdsOpen \X IdsOpen : pair[1] < pair[2] => pair \in (Ids \cup {NoId}) \X Ids
  <2>1. SUFFICES ASSUME NEW a \in IdsOpen, NEW b \in IdsOpen, a < b
                 PROVE  <<a, b>> \in (Ids \cup {NoId}) \X Ids
    OBVIOUS
  <2> QED BY <1>1, <2>1
<1>3. links' \subseteq (Ids \cup {NoId}) \X Ids
  BY <1>2 DEF CreateLink, ListInv, TypeOK
<1>4. Tables'
  BY <1>3 DEF CreateLink, Tables, ListInv, TypeOK, bounds
<1>5. Lists'
  BY SameLists, Facts DEF CreateLink, windows, ListInv, TypeOK, PointersOpen
<1> QED BY <1>4, <1>5, ListParts

LEMMA TypeLists == ASSUME ListInv, Type PROVE ListInv'
<1>1. texts + 1 \in Texts /\ texts' = texts + 1
  BY DEF Type, ListInv, TypeOK
<1>2. Tables'
  BY <1>1 DEF Type, Tables, ListInv, TypeOK, stored
<1>3. PICK x \in Window : x = win[p] /\ p \in Windows
  BY Facts DEF Type
<1>4. PICK new : new = [x EXCEPT !.text = texts + 1, !.dirty = TRUE, !.behind = FALSE]
  OBVIOUS
<1>5. /\ new \in Window /\ new.id = x.id /\ new.linked = x.linked /\ new.sub = x.sub
      /\ new.below = x.below
  BY <1>1, <1>4 DEF Window
<1>6. win' = [win EXCEPT ![p] = new]
  BY <1>3, <1>4 DEF Type
<1>7. win' \in [Windows -> Window]
      /\ \A w \in Windows : SameWindow(w) /\ (win'[w].below => win'[w].sub)
  BY <1>3, <1>5, <1>6, Facts DEF SameWindow, ListInv, TypeOK
<1>8. Lists'
  BY <1>7, ChangedLists DEF Type
<1> QED BY <1>2, <1>8, ListParts

\* A pointer to a window that is open is what every linked window holds.
LEMMA LinkedOpen ==
  ASSUME ListInv, NEW w \in Open
  PROVE  /\ win[w].sub => win[w].linked # Null
         /\ win[w].linked # Null => win[w].linked \in Open /\ win[w].linked # w
         /\ win[w].linked # Null => win[win[w].linked].sub = ~win[w].sub
         /\ win[w].linked # Null => win[win[w].linked].id = win[w].id
BY Facts DEF ListInv, PointersOpen

LEMMA SwitchLists == ASSUME ListInv, NEW step \in {-1, 1}, Switch(step) PROVE ListInv'
<1>1. Tables'
  BY SameTables DEF Switch, bounds, ListInv, TypeOK
<1>2. p \in Open /\ p \in Windows /\ editors # <<>>
  BY Facts DEF Switch
<1>3. (win[p].sub \/ win[p].below) => win[p].linked \in Open
  BY <1>2, Facts, LinkedOpen
<1>4. p' \in Open
  <2>1. PICK empty \in BOOLEAN :
          \/ p' = p
          \/ \E k \in DOMAIN editors : p' = editors[k]
          \/ p' = win[p].linked /\ (win[p].sub \/ win[p].below)
    BY <1>2, Facts DEF Switch
  <2> QED BY <1>2, <1>3, <2>1 DEF Open
<1>5. editorMode' \in BOOLEAN
  BY DEF Switch, ListInv, TypeOK
<1> QED BY <1>1, <1>2, <1>4, <1>5, SameLists, ListParts DEF Switch

LEMMA DownLists == ASSUME ListInv, Down PROVE ListInv'
<1>1. Tables'
  BY SameTables DEF Down, Ended, bounds, ListInv, TypeOK
<1>2. CASE win[p].linked = Null
  BY <1>1, <1>2, EndedLists, ListParts DEF Down
<1>3. CASE win[p].linked # Null
  <2>1. p \in Open /\ win[p].linked \in Open /\ editors # <<>>
    BY <1>3, Facts, LinkedOpen DEF Down
  <2>2. p' \in Open /\ UNCHANGED <<editors, win, editorMode>>
    BY <1>3, <2>1 DEF Down
  <2> QED BY <1>1, <2>1, <2>2, SameLists, ListParts DEF ListInv, TypeOK
<1> QED BY <1>2, <1>3

LEMMA UpLists == ASSUME ListInv, Up PROVE ListInv'
<1>1. Tables'
  BY SameTables DEF Up, bounds, ListInv, TypeOK
<1>2. p \in Open /\ win[p].linked \in Open /\ editors # <<>>
  BY Facts, LinkedOpen DEF Up
<1> QED BY <1>1, <1>2, SameLists, ListParts DEF Up, ListInv, TypeOK

LEMMA AcrossLists == ASSUME ListInv, Across PROVE ListInv'
<1>1. Tables'
  BY SameTables DEF Across, bounds, ListInv, TypeOK
<1>2. p \in Open /\ win[p].linked \in Open /\ editors # <<>>
  BY Facts, LinkedOpen DEF Across
<1> QED BY <1>1, <1>2, SameLists, ListParts DEF Across, ListInv, TypeOK

LEMMA MoveOutputLists == ASSUME ListInv, MoveOutput PROVE ListInv'
<1>1. Tables'
  BY SameTables DEF MoveOutput, bounds, ListInv, TypeOK
<1>2. PICK x \in Window : x = win[p] /\ p \in Windows
  BY Facts DEF MoveOutput
<1>3. PICK new : new = [x EXCEPT !.below = ~@]
  OBVIOUS
<1>4. new \in Window /\ new.id = x.id /\ new.linked = x.linked /\ new.sub = x.sub
  BY <1>3 DEF Window
<1>5. win' = [win EXCEPT ![p] = new] /\ win[p].sub
  BY <1>2, <1>3 DEF MoveOutput
<1>6. win' \in [Windows -> Window]
      /\ \A w \in Windows : SameWindow(w) /\ (win'[w].below => win'[w].sub)
  BY <1>2, <1>4, <1>5, Facts DEF SameWindow, ListInv, TypeOK
<1>7. Lists'
  BY <1>6, ChangedLists DEF MoveOutput
<1> QED BY <1>1, <1>7, ListParts

LEMMA StoredTables ==
  ASSUME ListInv, InEditor, NEW ok \in BOOLEAN, StoreNote(ok), UNCHANGED <<tasks, links, run, texts>>
  PROVE  Tables'
<1>1. faults' \in 0..MaxFaults
  BY DEF StoreNote, ListInv, TypeOK
<1>2. note' \in [Ids -> Texts]
  <2>1. p \in Windows /\ win[p].text \in Texts /\ note \in [Ids -> Texts]
    BY Facts DEF ListInv, TypeOK
  <2> QED BY <2>1 DEF StoreNote
<1> QED BY <1>1, <1>2 DEF Tables, ListInv, TypeOK

LEMMA WriteLists == ASSUME ListInv, NEW ok \in BOOLEAN, Write(ok) PROVE ListInv'
<1>1. Tables'
  BY StoredTables DEF Write
<1>2. PICK x \in Window : x = win[p] /\ p \in Windows
  BY Facts DEF Write
<1>3. PICK behind \in BOOLEAN : behind = ~(ok /\ x.id \in tasks)
  OBVIOUS
<1>4. PICK new : new = [x EXCEPT !.dirty = FALSE, !.behind = behind]
  OBVIOUS
<1>5. /\ new \in Window /\ new.id = x.id /\ new.linked = x.linked /\ new.sub = x.sub
      /\ new.below = x.below
  BY <1>4 DEF Window
<1>6. win' = [win EXCEPT ![p] = new]
  BY <1>2, <1>3, <1>4 DEF Write, Written
<1>7. win' \in [Windows -> Window]
      /\ \A w \in Windows : SameWindow(w) /\ (win'[w].below => win'[w].sub)
  BY <1>2, <1>5, <1>6, Facts DEF SameWindow, ListInv, TypeOK
<1>8. Lists'
  BY <1>7, ChangedLists DEF Write
<1> QED BY <1>1, <1>8, ListParts

\* Running a note changes the window of its output only.
LEMMA RunChanges ==
  ASSUME ListInv, RunNote, win[p].linked # Null
  PROVE  /\ win[p].linked \in Windows /\ win[win[p].linked].sub
         /\ UNCHANGED <<editors, p, editorMode, run>>
         /\ win' \in [Windows -> Window]
         /\ \A w \in Windows : SameWindow(w) /\ (win'[w].below => win'[w].sub)
         /\ \A w \in Windows : w # win[p].linked => win'[w] = win[w]
<1>1. p \in Open /\ win[p].linked \in Windows /\ win[win[p].linked].sub
  BY Facts, LinkedOpen DEF RunNote
<1>2. PICK o \in Windows : o = win[p].linked
  BY <1>1
<1>3. PICK x \in Window : x = win[o]
  BY Facts
<1>4. PICK t \in Texts : t = Output
  BY DEF Output
<1>5. PICK new : new = [x EXCEPT !.text = t, !.dirty = TRUE]
  OBVIOUS
<1>6. win' = [win EXCEPT ![o] = new]
      /\ new \in Window /\ new.id = x.id /\ new.linked = x.linked /\ new.sub = x.sub
      /\ new.below = x.below
  <2>1. win' = [win EXCEPT ![o] = new]
    BY <1>2, <1>3, <1>4, <1>5 DEF RunNote
  <2>2. /\ new \in Window /\ new.id = x.id /\ new.linked = x.linked /\ new.sub = x.sub
        /\ new.below = x.below
    BY <1>5 DEF Window
  <2> QED BY <2>1, <2>2
<1>7. win' \in [Windows -> Window]
      /\ \A w \in Windows : SameWindow(w) /\ (win'[w].below => win'[w].sub)
  BY <1>3, <1>6, Facts DEF SameWindow, ListInv, TypeOK
<1> QED BY <1>1, <1>2, <1>6, <1>7 DEF RunNote, ListInv, TypeOK

LEMMA RunNoteLists == ASSUME ListInv, RunNote PROVE ListInv'
<1>1. Tables'
  BY SameTables DEF RunNote, Ended, bounds, ListInv, TypeOK
<1>2. CASE win[p].linked = Null
  BY <1>1, <1>2, EndedLists, ListParts DEF RunNote
<1>3. CASE win[p].linked # Null
  BY <1>1, <1>3, RunChanges, ChangedLists, ListParts
<1> QED BY <1>2, <1>3

LEMMA CloseLists == ASSUME ListInv, CloseClean \/ CloseAnyway PROVE ListInv'
<1>1. Tables' /\ InEditor /\ Closed
  BY SameTables DEF CloseClean, CloseAnyway, bounds, ListInv, TypeOK
<1> QED BY <1>1, ClosedWindows, ListParts DEF Lists

LEMMA WriteAndCloseLists == ASSUME ListInv, NEW ok \in BOOLEAN, WriteAndClose(ok) PROVE ListInv'
<1>1. Tables' /\ InEditor /\ Closed
  BY StoredTables DEF WriteAndClose
<1> QED BY <1>1, ClosedWindows, ListParts DEF Lists

LEMMA NextLists == ListInv /\ [Next]_vars => ListInv'
<1> SUFFICES ASSUME ListInv, [Next]_vars PROVE ListInv'
  OBVIOUS
<1>1. ASSUME NEW code \in BOOLEAN, NEW i \in Ids, Edit(i, code) PROVE ListInv'
  BY <1>1, EditLists
<1>2. ASSUME NEW code \in BOOLEAN, GetLinkedFromList(code) \/ GetLinked(code) PROVE ListInv'
  BY <1>2, GetLinkedFromListLists, GetLinkedLists
<1>3. ASSUME NEW ok \in BOOLEAN, Write(ok) \/ WriteAndClose(ok) PROVE ListInv'
  BY <1>3, WriteLists, WriteAndCloseLists
<1>4. ASSUME NEW step \in {-1, 1}, Switch(step) PROVE ListInv'
  BY <1>4, SwitchLists
<1>5. ASSUME NEW i \in Ids, TaskChanged(i) PROVE ListInv'
  BY <1>5, TaskChangedLists
<1>6. CASE \/ GoToEditors \/ Quit \/ CreateLink \/ Type \/ Down \/ Up \/ Across \/ MoveOutput
           \/ RunNote \/ CloseClean \/ CloseAnyway
  BY <1>6, GoToEditorsLists, QuitLists, CreateLinkLists, TypeLists, DownLists, UpLists,
     AcrossLists, MoveOutputLists, RunNoteLists, CloseLists
<1>7. CASE UNCHANGED vars
  <2>1. UNCHANGED <<tasks, note, links, editors, p, win, editorMode, run, texts, faults>>
    BY <1>7 DEF vars, stored, windows, bounds
  <2>2. Open' = Open
    BY <2>1 DEF Open
  <2>3. PointersOpen' /\ OpenOnce' /\ TypeOK' /\ Distinct(editors)'
    BY <2>1, <2>2 DEF ListInv, PointersOpen, OpenOnce, Mains, TypeOK
  <2> QED BY <2>1, <2>3 DEF ListInv
<1> QED BY <1>1, <1>2, <1>3, <1>4, <1>5, <1>6, <1>7 DEF Next

LEMMA ListCorrect == Spec => []ListInv
BY ListInit, NextLists, PTL DEF Spec

\* Every variable keeps its kind of value: the pointers are needed for it, as sess.p is
\* followed without asking whether there is a window.
THEOREM TypeCorrect == Spec => []TypeOK
<1>1. ListInv => TypeOK
  BY DEF ListInv
<1> QED BY <1>1, ListCorrect, PTL

\* No pointer is left to a window that is closed, through any order of opening, linking,
\* running and closing.
THEOREM PointersCorrect == Spec => []PointersOpen
<1>1. ListInv => PointersOpen
  BY DEF ListInv
<1> QED BY <1>1, ListCorrect, PTL

\* No note is in two windows.
THEOREM OnceCorrect == Spec => []OpenOnce
<1>1. ListInv => OpenOnce
  BY DEF ListInv
<1> QED BY <1>1, ListCorrect, PTL

-----------------------------------------------------------------------------
(* What the windows show, and what a step leaves alone *)

CleanInv == ListInv /\ CleanIsStored

\* The windows that a step does not concern.
Stays(w) == /\ w \in Open'
            /\ win'[w].id = win[w].id
            /\ win'[w].text = win[w].text /\ win'[w].dirty = win[w].dirty
Keeps    == run' = "yes" => \A w \in Mains : \/ w = p
                                             \/ p # Null /\ w = win[p].linked
                                             \/ Stays(w)

\* The notes stay; the windows are the same, new, or dirty.
LEMMA SameNotes ==
  ASSUME CleanInv, UNCHANGED <<tasks, note>>,
         \A w \in Open' : \/ win'[w].sub \/ win'[w].dirty
                          \/ w \in Open /\ win'[w] = win[w]
                          \/ win'[w].text = NoteRead(win'[w].id)
  PROVE  CleanIsStored'
<1> SUFFICES ASSUME NEW w \in Open', ~win'[w].sub, ~win'[w].dirty, ~win'[w].behind
             PROVE  win'[w].text = NoteRead(win[w].id)'
  BY DEF CleanIsStored, Mains
<1>1. NoteRead(win[w].id)' = NoteRead(win'[w].id)
  BY DEF NoteRead
<1>2. CASE w \in Open /\ win'[w] = win[w]
  BY <1>1, <1>2 DEF CleanInv, CleanIsStored, Mains
<1> QED BY <1>1, <1>2

LEMMA SameWindows ==
  ASSUME CleanInv, UNCHANGED <<tasks, note, editors, win>>
  PROVE  CleanIsStored' /\ Keeps
<1>1. Open' = Open
  BY DEF Open
<1>2. Keeps
  BY <1>1 DEF Keeps, Stays, Mains
<1>3. CleanIsStored'
  BY <1>1, SameNotes
<1> QED BY <1>2, <1>3

LEMMA NoWindows == ASSUME NEW how \in {"quit", "crash"}, Ended(how) PROVE CleanIsStored' /\ Keeps
<1>1. Open' = {}
  BY DEF Open, Ended
<1> QED BY <1>1 DEF CleanIsStored, Mains, Keeps, Ended

LEMMA NewStays ==
  ASSUME CleanInv, NEW i \in Ids \cup {NoId}, NEW code \in BOOLEAN,
         Found(i) = {}, NewWindow(i, code), UNCHANGED <<tasks, note>>
  PROVE  CleanIsStored' /\ Keeps
<1>1. /\ \A w \in Open : w \in Open' /\ win'[w] = win[w]
      /\ \A w \in Open' \ Open : win'[w].sub \/ win'[w].text = NoteRead(win'[w].id)
  BY AddedWindows DEF CleanInv
<1>2. Keeps
  BY <1>1 DEF Keeps, Stays, Mains
<1>3. CleanIsStored'
  BY <1>1, SameNotes
<1> QED BY <1>2, <1>3

LEMMA EditStays ==
  ASSUME CleanInv, NEW i \in Ids, NEW code \in BOOLEAN, EditNote(i, code),
         UNCHANGED <<tasks, note>>
  PROVE  CleanIsStored' /\ Keeps
BY NewStays, SameWindows DEF EditNote

LEMMA GetLinkedStays ==
  ASSUME CleanInv, NEW code \in BOOLEAN, GetLinked(code) PROVE CleanIsStored' /\ Keeps
<1>1. PICK i \in Ids \cup {NoId} : i \notin IdsOpen /\ NewWindow(i, code)
  BY DEF GetLinked
<1>2. Found(i) = {}
  BY <1>1 DEF Found, IdsOpen
<1> QED BY <1>1, <1>2, NewStays DEF GetLinked, stored

LEMMA TaskChangedStays ==
  ASSUME CleanInv, NEW i \in Ids, TaskChanged(i) PROVE CleanIsStored' /\ Keeps
<1>1. win' = Outdated(i) /\ ListInv /\ UNCHANGED editors
  BY DEF TaskChanged, CleanInv
<1>2. Open' = Open /\ Open \subseteq Windows
  BY <1>1, Facts DEF Open
<1>3. Keeps
  BY <1>1, <1>2, OutdatedIs DEF Keeps, Stays, Mains, SameWindow
<1>4. \A j : j # i => NoteRead(j)' = NoteRead(j)
  <2> SUFFICES ASSUME NEW j, j # i PROVE NoteRead(j)' = NoteRead(j)
    OBVIOUS
  <2>1. note \in [Ids -> Texts] /\ tasks \subseteq Ids
    BY DEF CleanInv, ListInv, TypeOK
  <2>2. j \in tasks' <=> j \in tasks
    BY DEF TaskChanged
  <2>3. j \in Ids => note'[j] = note[j]
    BY <2>1 DEF TaskChanged
  <2> QED BY <2>1, <2>2, <2>3 DEF NoteRead
<1>5. CleanIsStored'
  <2> SUFFICES ASSUME NEW w \in Open, ~win'[w].sub, ~win'[w].dirty, ~win'[w].behind
               PROVE  win'[w].text = NoteRead(win[w].id)'
    BY <1>2 DEF CleanIsStored, Mains
  <2>1. /\ w \in Mains /\ ~win[w].dirty /\ ~win[w].behind /\ win[w].id # i
        /\ win'[w].text = win[w].text /\ win'[w].id = win[w].id
    BY <1>1, <1>2, OutdatedIs DEF Mains, SameWindow
  <2>2. win[w].text = NoteRead(win[w].id)
    BY <2>1 DEF CleanInv, CleanIsStored
  <2>3. PICK j : j = win[w].id
    OBVIOUS
  <2>4. NoteRead(win[w].id)' = NoteRead(j)'
    BY <2>1, <2>3 DEF NoteRead
  <2> QED BY <1>4, <2>1, <2>2, <2>3, <2>4
<1> QED BY <1>3, <1>5

\* What the steps that keep the list of windows start from.
LEMMA SameList ==
  ASSUME CleanInv, UNCHANGED editors
  PROVE  /\ Open' = Open /\ Open \subseteq Windows /\ win \in [Windows -> Window]
         /\ tasks \subseteq Ids /\ note \in [Ids -> Texts]
         /\ InEditor => p \in Windows
<1>1. Open' = Open
  BY DEF Open
<1>2. ListInv /\ TypeOK
  BY DEF CleanInv, ListInv
<1>3. Open \subseteq Windows /\ (InEditor => p \in Open)
  BY <1>2, Facts
<1> QED BY <1>1, <1>2, <1>3 DEF TypeOK

LEMMA TypeStays == ASSUME CleanInv, Type PROVE CleanIsStored' /\ Keeps
<1>1. Open' = Open /\ Open \subseteq Windows /\ p \in Windows
      /\ win \in [Windows -> Window]
  BY SameList DEF Type
<1>2. win'[p].dirty /\ \A w \in Windows : w # p => win'[w] = win[w]
  BY <1>1 DEF Type, Window
<1>3. Keeps
  BY <1>1, <1>2 DEF Keeps, Stays, Mains
<1>4. CleanIsStored'
  BY <1>1, <1>2, SameNotes DEF Type, stored
<1> QED BY <1>3, <1>4

LEMMA MoveOutputStays == ASSUME CleanInv, MoveOutput PROVE CleanIsStored' /\ Keeps
<1>1. Open' = Open /\ Open \subseteq Windows /\ p \in Windows
      /\ win \in [Windows -> Window] /\ win[p].sub
  BY SameList DEF MoveOutput
<1>2. win'[p].sub /\ \A w \in Windows : w # p => win'[w] = win[w]
  BY <1>1 DEF MoveOutput, Window
<1>3. Keeps
  BY <1>1, <1>2 DEF Keeps, Stays, Mains
<1>4. CleanIsStored'
  BY <1>1, <1>2, SameNotes DEF MoveOutput, stored
<1> QED BY <1>3, <1>4

LEMMA RunNoteStays == ASSUME CleanInv, RunNote PROVE CleanIsStored' /\ Keeps
<1>1. CASE win[p].linked = Null
  BY <1>1, NoWindows DEF RunNote
<1>2. CASE win[p].linked # Null
  <2>1. /\ UNCHANGED <<editors, p>> /\ win[p].linked \in Windows /\ win'[win[p].linked].sub
        /\ \A w \in Windows : w # win[p].linked => win'[w] = win[w]
    BY <1>2, RunChanges DEF CleanInv, SameWindow
  <2>2. Open' = Open /\ Open \subseteq Windows /\ p \in Windows
    BY <2>1, SameList DEF RunNote
  <2>3. Keeps
    <3>1. p # Null
      BY <2>2 DEF Windows, Null
    <3>2. ASSUME NEW w \in Mains, w # win[p].linked PROVE Stays(w)
      BY <2>1, <2>2, <3>2 DEF Stays, Mains
    <3> QED BY <3>1, <3>2 DEF Keeps
  <2>4. CleanIsStored'
    BY <2>1, <2>2, SameNotes DEF RunNote, stored
  <2> QED BY <2>3, <2>4
<1> QED BY <1>1, <1>2

\* A note that is stored is in no other window.
LEMMA StoredElsewhere ==
  ASSUME CleanInv, InEditor, ~win[p].sub, NEW ok \in BOOLEAN, StoreNote(ok), UNCHANGED tasks,
         NEW w \in Mains, w # p
  PROVE  win[w].id # win[p].id /\ NoteRead(win[w].id) = IF win[w].id \in tasks' THEN note'[win[w].id]
                                                      ELSE NoText
<1>1. p \in Mains
  BY Facts DEF CleanInv, Mains
<1>2. win[w].id # win[p].id
  BY <1>1 DEF CleanInv, ListInv, OpenOnce
<1>3. note \in [Ids -> Texts] /\ tasks \subseteq Ids
  BY DEF CleanInv, ListInv, TypeOK
<1>4. win[w].id \in tasks => note'[win[w].id] = note[win[w].id]
  BY <1>2, <1>3 DEF StoreNote
<1> QED BY <1>2, <1>4 DEF NoteRead

LEMMA WriteStays == ASSUME CleanInv, NEW ok \in BOOLEAN, Write(ok) PROVE CleanIsStored' /\ Keeps
<1>1. Open' = Open /\ Open \subseteq Windows /\ p \in Windows
      /\ win \in [Windows -> Window] /\ tasks \subseteq Ids /\ note \in [Ids -> Texts]
  BY SameList DEF Write
<1>2. PICK x \in Window : x = win[p]
  BY <1>1
<1>3. \A w \in Windows : w # p => win'[w] = win[w]
  BY <1>1 DEF Write
<1>4. /\ win'[p].id = x.id /\ win'[p].text = x.text
      /\ ~win'[p].behind => ok /\ x.id \in tasks
  <2>1. PICK behind \in BOOLEAN : behind = ~(ok /\ x.id \in tasks)
    OBVIOUS
  <2>2. win'[p] = [x EXCEPT !.dirty = FALSE, !.behind = behind]
    BY <1>1, <1>2, <2>1 DEF Write, Written
  <2> QED BY <2>1, <2>2 DEF Window
<1>5. Keeps
  BY <1>1, <1>3 DEF Keeps, Stays, Mains
<1>6. CleanIsStored'
  <2> SUFFICES ASSUME NEW w \in Open, ~win'[w].sub, ~win'[w].dirty, ~win'[w].behind
               PROVE  win'[w].text = NoteRead(win[w].id)'
    BY <1>1 DEF CleanIsStored, Mains
  <2>1. CASE w = p
    <3>1. ok /\ x.id \in tasks /\ note' = [note EXCEPT ![x.id] = x.text]
      BY <1>2, <1>4, <2>1 DEF Write, StoreNote
    <3>2. x.id \in tasks' /\ note'[x.id] = x.text
      BY <1>1, <3>1 DEF Write
    <3> QED BY <1>4, <2>1, <3>2 DEF NoteRead
  <2>2. CASE w # p
    <3>1. w \in Mains /\ win'[w] = win[w] /\ ~win[w].dirty /\ ~win[w].behind
      BY <1>1, <1>3, <2>2 DEF Mains
    <3>2. win[w].text = NoteRead(win[w].id)
      BY <3>1 DEF CleanInv, CleanIsStored
    <3> QED BY <2>2, <3>1, <3>2, StoredElsewhere DEF Write, NoteRead
  <2> QED BY <2>1, <2>2
<1> QED BY <1>5, <1>6

LEMMA CloseStays ==
  ASSUME CleanInv, CloseClean \/ CloseAnyway PROVE CleanIsStored' /\ Keeps
<1>1. InEditor /\ Closed /\ UNCHANGED <<tasks, note>>
  BY DEF CloseClean, CloseAnyway, stored
<1>2. p \in Windows /\ Open' = Open \ {p, win[p].linked} /\ \A w \in Open' : win'[w] = win[w]
  BY <1>1, ClosedWindows, Facts DEF CleanInv
<1>3. Keeps
  BY <1>2 DEF Keeps, Stays, Mains
<1> QED BY <1>1, <1>2, <1>3, SameNotes

LEMMA WriteAndCloseStays ==
  ASSUME CleanInv, NEW ok \in BOOLEAN, WriteAndClose(ok) PROVE CleanIsStored' /\ Keeps
<1>1. InEditor /\ Closed /\ ~win[p].sub /\ StoreNote(ok) /\ UNCHANGED tasks
  BY DEF WriteAndClose
<1>2. p \in Windows /\ Open' = Open \ {p, win[p].linked} /\ \A w \in Open' : win'[w] = win[w]
  BY <1>1, ClosedWindows, Facts DEF CleanInv
<1>3. Keeps
  BY <1>2 DEF Keeps, Stays, Mains
<1>4. CleanIsStored'
  <2> SUFFICES ASSUME NEW w \in Open', ~win'[w].sub, ~win'[w].dirty, ~win'[w].behind
               PROVE  win'[w].text = NoteRead(win[w].id)'
    BY DEF CleanIsStored, Mains
  <2>1. w \in Mains /\ w # p /\ win'[w] = win[w]
    BY <1>2 DEF Mains
  <2>2. win[w].text = NoteRead(win[w].id)
    BY <2>1 DEF CleanInv, CleanIsStored
  <2> QED BY <1>1, <2>1, <2>2, StoredElsewhere DEF NoteRead
<1> QED BY <1>3, <1>4

LEMMA NextStays == ASSUME CleanInv, Next PROVE CleanIsStored' /\ Keeps
<1>1. ASSUME NEW code \in BOOLEAN, NEW i \in Ids, Edit(i, code) PROVE CleanIsStored' /\ Keeps
  BY <1>1, EditStays DEF Edit, stored
<1>2. ASSUME NEW code \in BOOLEAN, GetLinkedFromList(code) PROVE CleanIsStored' /\ Keeps
  BY <1>2, EditStays DEF GetLinkedFromList, stored
<1>3. ASSUME NEW code \in BOOLEAN, GetLinked(code) PROVE CleanIsStored' /\ Keeps
  BY <1>3, GetLinkedStays
<1>4. ASSUME NEW ok \in BOOLEAN, Write(ok) \/ WriteAndClose(ok) PROVE CleanIsStored' /\ Keeps
  BY <1>4, WriteStays, WriteAndCloseStays
<1>5. ASSUME NEW step \in {-1, 1}, Switch(step) PROVE CleanIsStored' /\ Keeps
  BY <1>5, SameWindows DEF Switch, stored
<1>6. ASSUME NEW i \in Ids, TaskChanged(i) PROVE CleanIsStored' /\ Keeps
  BY <1>6, TaskChangedStays
<1>7. CASE GoToEditors \/ CreateLink \/ Up \/ Across
  BY <1>7, SameWindows DEF GoToEditors, CreateLink, Up, Across, stored, windows
<1>8. CASE Quit
  BY <1>8, NoWindows DEF Quit
<1>9. CASE Down
  BY <1>9, NoWindows, SameWindows DEF Down, stored
<1>10. CASE Type \/ MoveOutput \/ RunNote \/ CloseClean \/ CloseAnyway
  BY <1>10, TypeStays, MoveOutputStays, RunNoteStays, CloseStays
<1> QED BY <1>1, <1>2, <1>3, <1>4, <1>5, <1>6, <1>7, <1>8, <1>9, <1>10 DEF Next

LEMMA CleanCorrect == Spec => []CleanInv
<1>1. Init => CleanInv
  <2> SUFFICES ASSUME Init PROVE CleanIsStored
    BY ListInit DEF CleanInv
  <2>1. editors = <<>> /\ DOMAIN editors = {}
    <3>1. editors = <<>>
      BY DEF Init
    <3> QED BY <3>1
  <2> QED BY <2>1 DEF CleanIsStored, Mains, Open
<1>2. CleanInv /\ [Next]_vars => CleanInv'
  <2> SUFFICES ASSUME CleanInv, [Next]_vars PROVE CleanIsStored'
    BY NextLists DEF CleanInv
  <2>1. CASE UNCHANGED vars
    BY <2>1, SameWindows DEF vars, stored, windows
  <2> QED BY <2>1, NextStays
<1> QED BY <1>1, <1>2, PTL DEF Spec

\* A window that is not dirty shows its note as it is stored, unless something is known
\* to have come between.
THEOREM StoredCorrect == Spec => []CleanIsStored
<1>1. CleanInv => CleanIsStored
  BY DEF CleanInv
<1> QED BY <1>1, CleanCorrect, PTL

\* A step leaves the windows of other notes as they are.
THEOREM OthersCorrect == Spec => OthersStay
<1>1. CleanInv /\ [Next]_vars
      => [run' = "yes" =>
            \A w \in Mains :
              \/ w = p
              \/ p # Null /\ w = win[p].linked
              \/ /\ w \in Open'
                 /\ win'[w].id = win[w].id
                 /\ win'[w].text = win[w].text /\ win'[w].dirty = win[w].dirty]_vars
  BY NextStays DEF Keeps, Stays
<1> QED BY <1>1, CleanCorrect, PTL DEF Spec, OthersStay

=============================================================================
