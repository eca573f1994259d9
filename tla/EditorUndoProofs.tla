-------------------------- MODULE EditorUndoProofs --------------------------
(***************************************************************************)
(* Theorems about EditorUndo, for every value of its constants.            *)
(*                                                                         *)
(* What the operators of EditorUndo do to the rows is stated with a text    *)
(* taken apart at the cursor (At): the rows above, the row before and      *)
(* behind the cursor, and the rows below.                                  *)
(***************************************************************************)
EXTENDS EditorUndo, SequenceTheorems, FiniteSetTheorems, TLAPS

AnyKey == Letters \cup {Return}
Line   == Seq(AnyKey)

-----------------------------------------------------------------------------
(* Induction, over sets *)

LEMMA NatSet ==
  ASSUME NEW S \in SUBSET Nat, 0 \in S, \A n \in S : n + 1 \in S
  PROVE  S = Nat
<1> SUFFICES ASSUME Nat \ S # {} PROVE FALSE
  OBVIOUS
<1>1. PICK m \in Nat \ S : \A n \in Nat \ S : ~(<<n, m>> \in OpToRel(<, Nat))
  BY WFMin, NatLessThanWellFounded
<1>2. m - 1 \in S /\ m # 0
  <2>1. m # 0
    OBVIOUS
  <2>2. m - 1 \in Nat
    BY <2>1
  <2>3. <<m - 1, m>> \in OpToRel(<, Nat)
    BY <2>2 DEF OpToRel
  <2> QED BY <1>1, <2>1, <2>2, <2>3
<1> QED BY <1>2

LEMMA SeqSet ==
  ASSUME NEW A, NEW T \in SUBSET Seq(A), <<>> \in T,
         \A s \in T : \A a \in A : Append(s, a) \in T
  PROVE  T = Seq(A)
<1> DEFINE S == {n \in Nat : \A s \in Seq(A) : Len(s) = n => s \in T}
<1>1. 0 \in S
  BY EmptySeq
<1>2. ASSUME NEW n \in S PROVE n + 1 \in S
  <2> SUFFICES ASSUME NEW s \in Seq(A), Len(s) = n + 1 PROVE s \in T
    OBVIOUS
  <2>1. PICK r \in Seq(A), a \in A : s = Append(r, a)
    <3>1. s # <<>>
      BY EmptySeq
    <3> QED BY <3>1, SequenceEmptyOrAppend
  <2>2. Len(r) = n
    BY <2>1
  <2> QED BY <2>1, <2>2
<1>3. S \in SUBSET Nat
  OBVIOUS
<1> HIDE DEF S
<1>4. S = Nat
  BY <1>1, <1>2, <1>3, NatSet
<1>5. ASSUME NEW s \in Seq(A) PROVE s \in T
  <2>1. Len(s) \in S
    BY <1>4
  <2> QED BY <2>1 DEF S
<1> QED BY <1>5

-----------------------------------------------------------------------------
(* Sequences that are taken apart *)

LEMMA HeadPart ==
  ASSUME NEW A, NEW s \in Seq(A), NEW i \in 0..Len(s), NEW a, a = SubSeq(s, 1, i)
  PROVE  a \in Seq(A) /\ Len(a) = i
  OBVIOUS

LEMMA RestPart ==
  ASSUME NEW A, NEW s \in Seq(A), s # <<>>, NEW t, t = SubSeq(s, 2, Len(s))
  PROVE  t \in Seq(A) /\ Len(t) = Len(s) - 1
<1>1. PICK n \in Nat : n = Len(s) /\ 1 <= n
  OBVIOUS
<1>2. \A i \in 2..n : s[i] \in A
  BY <1>1, ElementOfSeq
<1>3. /\ SubSeq(s, 2, n) \in Seq(A)
      /\ Len(SubSeq(s, 2, n)) = IF 2 <= n THEN n - 2 + 1 ELSE 0
  BY <1>1, <1>2, SubSeqProperties
<1> QED BY <1>1, <1>3

\* s \o t, <<x>>, and the item x between h and t, as terms that provers leave as they are
Cat(s, t)       == s \o t
One(x)          == <<x>>
Joined(h, x, t) == h \o (<<x>> \o t)
SetTo(s, i, x)  == [s EXCEPT ![i] = x]

LEMMA CatIn ==
  ASSUME NEW A, NEW s \in Seq(A), NEW t \in Seq(A)
  PROVE  /\ Cat(s, t) \in Seq(A) /\ Len(Cat(s, t)) = Len(s) + Len(t)
         /\ Len(s) \in Nat /\ Len(t) \in Nat
  BY DEF Cat

LEMMA CatOf ==
  ASSUME NEW A, NEW s \in Seq(A), NEW t \in Seq(A), NEW u \in Seq(A)
  PROVE  Cat(Cat(s, t), u) = Cat(s, Cat(t, u))
  BY ConcatAssociative DEF Cat

LEMMA CatNone ==
  ASSUME NEW A, NEW s \in Seq(A)
  PROVE  Cat(<<>>, s) = s /\ Cat(s, <<>>) = s
  BY ConcatEmptySeq DEF Cat

LEMMA OneIs ==
  ASSUME NEW A, NEW x \in A
  PROVE  One(x) \in Seq(A) /\ Len(One(x)) = 1
  BY DEF One

LEMMA TwoIs ==
  ASSUME NEW A, NEW x \in A, NEW y \in A
  PROVE  Cat(One(x), One(y)) = <<x, y>>
<1>1. PICK o \in Seq(A) : o = One(x) /\ Len(o) = 1
  BY OneIs
<1>2. o[1] = x
  BY <1>1 DEF One
<1>3. PICK u : u = Append(o, y)
  OBVIOUS
<1>4. u \in Seq(A) /\ Len(u) = 2 /\ u[1] = x /\ u[2] = y
  BY <1>1, <1>2, <1>3
<1>5. PICK v : v = <<x, y>>
  OBVIOUS
<1>6. v \in Seq(A) /\ Len(v) = 2 /\ v[1] = x /\ v[2] = y
  BY <1>5
<1>7. u = v
  <2>1. \A i \in 1..Len(u) : u[i] = v[i]
    BY <1>4, <1>6
  <2> QED BY <1>4, <1>6, <2>1, SeqEqual
<1>8. Cat(o, One(y)) = Append(o, y)
  BY AppendIsConcat DEF Cat, One
<1> QED BY <1>1, <1>3, <1>5, <1>7, <1>8

LEMMA JoinedCat ==
  ASSUME NEW A, NEW h \in Seq(A), NEW x \in A, NEW t \in Seq(A)
  PROVE  /\ Joined(h, x, t) = Cat(h, Cat(One(x), t))
         /\ Joined(h, x, t) = Cat(Cat(h, One(x)), t)
<1>1. Joined(h, x, t) = Cat(h, Cat(One(x), t))
  BY DEF Joined, Cat, One
<1>2. Cat(Cat(h, One(x)), t) = Cat(h, Cat(One(x), t))
  BY OneIs, CatOf
<1> QED BY <1>1, <1>2

LEMMA JoinedIs ==
  ASSUME NEW A, NEW h \in Seq(A), NEW x \in A, NEW t \in Seq(A)
  PROVE  /\ Joined(h, x, t) \in Seq(A) /\ Len(Joined(h, x, t)) = Len(h) + 1 + Len(t)
         /\ Joined(h, x, t)[Len(h) + 1] = x
         /\ Len(h) \in Nat /\ Len(t) \in Nat
<1>1. PICK o : o = Cat(<<x>>, t)
  OBVIOUS
<1>2. o \in Seq(A) /\ Len(o) = 1 + Len(t) /\ o[1] = x /\ Len(h) \in Nat /\ Len(t) \in Nat
  BY <1>1 DEF Cat
<1>3. /\ Cat(h, o) \in Seq(A) /\ Len(Cat(h, o)) = Len(h) + (1 + Len(t))
      /\ Cat(h, o)[Len(h) + 1] = o[1]
  BY <1>2 DEF Cat
<1>4. Joined(h, x, t) = Cat(h, o)
  BY <1>1 DEF Joined, Cat
<1> QED BY <1>2, <1>3, <1>4

LEMMA HeadOf ==
  ASSUME NEW A, NEW s \in Seq(A), NEW t \in Seq(A)
  PROVE  SubSeq(Cat(s, t), 1, Len(s)) = s
<1>1. PICK u : u = s \o t
  OBVIOUS
<1>2. u \in Seq(A) /\ Len(u) = Len(s) + Len(t) /\ \A i \in 1..Len(s) : u[i] = s[i]
  BY <1>1
<1>3. PICK n \in Nat : n = Len(s)
  OBVIOUS
<1>4. \A i \in 1..n : u[i] \in A
  BY <1>2, <1>3, ElementOfSeq
<1>5. PICK v : v = SubSeq(u, 1, n)
  OBVIOUS
<1>6. v \in Seq(A) /\ Len(v) = n /\ \A i \in 1..n : v[i] = u[i]
  BY <1>2, <1>3, <1>5
<1>7. v = s
  BY <1>2, <1>3, <1>6, SeqEqual
<1> QED BY <1>1, <1>3, <1>5, <1>7 DEF Cat

LEMMA TailOf ==
  ASSUME NEW A, NEW s \in Seq(A), NEW t \in Seq(A)
  PROVE  SubSeq(Cat(s, t), Len(s) + 1, Len(Cat(s, t))) = t
<1>1. PICK u : u = s \o t
  OBVIOUS
<1>2. /\ u \in Seq(A) /\ Len(u) = Len(s) + Len(t)
      /\ \A i \in 1..Len(t) : u[i + Len(s)] = t[i]
  BY <1>1
<1>3. PICK n \in Nat, m \in Nat : n = Len(s) /\ m = Len(t)
  OBVIOUS
<1>4. PICK v : v = SubSeq(u, n + 1, Len(u))
  OBVIOUS
<1>5. v \in Seq(A) /\ Len(v) = m /\ \A i \in 1..m : v[i] = u[i + n]
  BY <1>2, <1>3, <1>4
<1>6. v = t
  BY <1>2, <1>3, <1>5, SeqEqual
<1> QED BY <1>1, <1>3, <1>4, <1>6 DEF Cat

LEMMA MiddleOf ==
  ASSUME NEW A, NEW s \in Seq(A), NEW m \in Seq(A), NEW t \in Seq(A)
  PROVE  SubSeq(Cat(s, Cat(m, t)), Len(s) + 1, Len(s) + Len(m)) = m
<1>1. PICK u : u = s \o (m \o t)
  OBVIOUS
<1>2. /\ m \o t \in Seq(A) /\ Len(m \o t) = Len(m) + Len(t)
      /\ \A i \in 1..Len(m) : (m \o t)[i] = m[i]
  OBVIOUS
<1>3. /\ u \in Seq(A) /\ Len(u) = Len(s) + Len(m \o t)
      /\ \A i \in 1..Len(m \o t) : u[i + Len(s)] = (m \o t)[i]
  BY <1>1, <1>2
<1>4. PICK n \in Nat, k \in Nat, l \in Nat : n = Len(s) /\ k = Len(m) /\ l = Len(t)
  OBVIOUS
<1>5. PICK v : v = SubSeq(u, n + 1, n + k)
  OBVIOUS
<1>6. v \in Seq(A) /\ Len(v) = k /\ \A i \in 1..k : v[i] = u[i + n]
  <2>1. u \in Seq(A) /\ n + k <= Len(u) /\ n + 1 \in Int /\ n + k \in Int
    BY <1>2, <1>3, <1>4
  <2>2. \A i \in n + 1..n + k : u[i] \in A
    BY <2>1, <1>4, ElementOfSeq
  <2>3. /\ v \in Seq(A) /\ Len(v) = (IF n + 1 <= n + k THEN n + k - (n + 1) + 1 ELSE 0)
        /\ \A i \in 1..n + k - (n + 1) + 1 : v[i] = u[n + 1 + i - 1]
    BY <1>5, <2>1, <2>2, SubSeqProperties
  <2> QED BY <1>4, <2>3
<1>7. \A i \in 1..k : u[i + n] = m[i]
  BY <1>2, <1>3, <1>4
<1>8. v = m
  BY <1>4, <1>6, <1>7, SeqEqual
<1> QED BY <1>1, <1>4, <1>5, <1>8 DEF Cat

LEMMA CutAt ==
  ASSUME NEW A, NEW s \in Seq(A), NEW m \in Seq(A), NEW t \in Seq(A)
  PROVE  Cut(Cat(s, Cat(m, t)), Len(s), Len(m)) = Cat(s, t)
<1>1. Cat(m, t) \in Seq(A) /\ Cat(s, m) \in Seq(A) /\ Cat(s, Cat(m, t)) = Cat(Cat(s, m), t)
  BY CatOf, CatIn
<1>2. SubSeq(Cat(s, Cat(m, t)), 1, Len(s)) = s
  BY <1>1, HeadOf
<1>3. SubSeq(Cat(Cat(s, m), t), Len(Cat(s, m)) + 1, Len(Cat(Cat(s, m), t))) = t
  BY <1>1, TailOf
<1>4. Len(Cat(s, m)) = Len(s) + Len(m)
  BY CatIn
<1>5. PICK u : u = Cat(s, Cat(m, t))
  OBVIOUS
<1>6. SubSeq(u, 1, Len(s)) = s /\ SubSeq(u, Len(s) + Len(m) + 1, Len(u)) = t
  BY <1>1, <1>2, <1>3, <1>4, <1>5
<1>7. Cut(u, Len(s), Len(m)) = SubSeq(u, 1, Len(s)) \o SubSeq(u, Len(s) + Len(m) + 1, Len(u))
  BY DEF Cut
<1> QED BY <1>5, <1>6, <1>7 DEF Cat

LEMMA PutAt ==
  ASSUME NEW A, NEW s \in Seq(A), NEW new \in Seq(A), NEW t \in Seq(A)
  PROVE  Put(Cat(s, t), Len(s), new) = Cat(s, Cat(new, t))
<1>1. PICK u : u = Cat(s, t)
  OBVIOUS
<1>2. SubSeq(u, 1, Len(s)) = s /\ SubSeq(u, Len(s) + 1, Len(u)) = t
  BY <1>1, HeadOf, TailOf
<1>3. Cat(Cat(s, new), t) = Cat(s, Cat(new, t))
  BY CatOf
<1>4. Put(u, Len(s), new) = Cat(Cat(SubSeq(u, 1, Len(s)), new), SubSeq(u, Len(s) + 1, Len(u)))
  BY DEF Put, Cat
<1> QED BY <1>1, <1>2, <1>3, <1>4

LEMMA SetAt ==
  ASSUME NEW A, NEW s \in Seq(A), NEW x \in A, NEW y \in A, NEW t \in Seq(A)
  PROVE  SetTo(Joined(s, x, t), Len(s) + 1, y) = Joined(s, y, t)
<1>1. PICK u, v : u = s \o (<<x>> \o t) /\ v = s \o (<<y>> \o t)
  OBVIOUS
<1>2. PICK n \in Nat, k \in Nat : n = Len(s) /\ k = Len(t)
  OBVIOUS
<1>3. /\ u \in Seq(A) /\ Len(u) = n + 1 + k
      /\ \A i \in 1..(n + 1 + k) : i # n + 1 =>
           u[i] = IF i <= n THEN s[i] ELSE t[i - (n + 1)]
  <2>1. PICK z : z = <<x>> \o t
    OBVIOUS
  <2>2. /\ z \in Seq(A) /\ Len(z) = 1 + k
        /\ \A i \in 2..(1 + k) : z[i] = t[i - 1]
    BY <1>2, <2>1
  <2>3. /\ u \in Seq(A) /\ Len(u) = n + 1 + k
        /\ \A i \in 1..(n + 1 + k) : u[i] = IF i <= n THEN s[i] ELSE z[i - n]
    BY <1>1, <1>2, <2>1, <2>2
  <2>4. ASSUME NEW i \in 1..(n + 1 + k), i # n + 1
        PROVE  u[i] = IF i <= n THEN s[i] ELSE t[i - (n + 1)]
    <3>1. CASE i <= n
      BY <2>3, <3>1
    <3>2. CASE ~(i <= n)
      <4>1. i - n \in 2..(1 + k) /\ i - n - 1 = i - (n + 1)
        BY <2>4, <3>2
      <4>2. z[i - n] = t[i - (n + 1)]
        BY <2>2, <4>1
      <4> QED BY <2>3, <3>2, <4>2
    <3> QED BY <3>1, <3>2
  <2> QED BY <2>3, <2>4
<1>4. /\ v \in Seq(A) /\ Len(v) = n + 1 + k /\ v[n + 1] = y
      /\ \A i \in 1..(n + 1 + k) : i # n + 1 =>
           v[i] = IF i <= n THEN s[i] ELSE t[i - (n + 1)]
  <2>1. PICK z : z = <<y>> \o t
    OBVIOUS
  <2>2. /\ z \in Seq(A) /\ Len(z) = 1 + k /\ z[1] = y
        /\ \A i \in 2..(1 + k) : z[i] = t[i - 1]
    BY <1>2, <2>1
  <2>3. /\ v \in Seq(A) /\ Len(v) = n + 1 + k
        /\ \A i \in 1..(n + 1 + k) : v[i] = IF i <= n THEN s[i] ELSE z[i - n]
    BY <1>1, <1>2, <2>1, <2>2
  <2>4. ASSUME NEW i \in 1..(n + 1 + k), i # n + 1
        PROVE  v[i] = IF i <= n THEN s[i] ELSE t[i - (n + 1)]
    <3>1. CASE i <= n
      BY <2>3, <3>1
    <3>2. CASE ~(i <= n)
      <4>1. i - n \in 2..(1 + k) /\ i - n - 1 = i - (n + 1)
        BY <2>4, <3>2
      <4>2. z[i - n] = t[i - (n + 1)]
        BY <2>2, <4>1
      <4> QED BY <2>3, <3>2, <4>2
    <3> QED BY <3>1, <3>2
  <2>5. v[n + 1] = y
    <3>1. n + 1 \in 1..(n + 1 + k) /\ ~(n + 1 <= n) /\ n + 1 - n = 1
      OBVIOUS
    <3> QED BY <2>2, <2>3, <3>1
  <2> QED BY <2>3, <2>4, <2>5
<1>5. PICK w : w = [u EXCEPT ![n + 1] = y]
  OBVIOUS
<1>6. /\ w \in Seq(A) /\ Len(w) = n + 1 + k
      /\ \A i \in 1..(n + 1 + k) : w[i] = IF i = n + 1 THEN y ELSE u[i]
  <2>1. n + 1 \in 1..Len(u)
    BY <1>3
  <2> QED BY <1>3, <1>5, <2>1, ExceptSeq
<1>7. \A i \in 1..(n + 1 + k) : w[i] = v[i]
  BY <1>3, <1>4, <1>6
<1>8. w = v
  BY <1>4, <1>6, <1>7, SeqEqual
<1> QED BY <1>1, <1>2, <1>5, <1>8 DEF SetTo, Joined

Halved(A, s, i) ==
  \E h \in Seq(A), t \in Seq(A) : s = Cat(h, t) /\ Len(h) = i /\ Len(t) = Len(s) - i

LEMMA Halves ==
  ASSUME NEW A, NEW s \in Seq(A), NEW i \in Nat, i <= Len(s)
  PROVE  Halved(A, s, i)
<1>1. PICK h, t : h = SubSeq(s, 1, i) /\ t = SubSeq(s, i + 1, Len(s))
  OBVIOUS
<1>2. h \in Seq(A) /\ Len(h) = i
  <2>1. i \in 0..Len(s)
    OBVIOUS
  <2> QED BY <1>1, <2>1, HeadPart
<1>3. t \in Seq(A) /\ Len(t) = Len(s) - i
  BY <1>1
<1>4. h \o t = s
  <2>1. 1 \in 1..Len(s) + 1 /\ i \in 1 - 1..Len(s) /\ Len(s) \in i..Len(s)
    OBVIOUS
  <2>2. SubSeq(s, 1, i) \o SubSeq(s, i + 1, Len(s)) = SubSeq(s, 1, Len(s))
    BY <2>1, ConcatAdjacentSubSeq
  <2> QED BY <1>1, <2>2, SubSeqFull
<1>5. Cat(h, t) = s
  BY <1>4 DEF Cat
<1> QED BY <1>2, <1>3, <1>5 DEF Halved

Surrounded(A, s, i) ==
  \E h \in Seq(A), t \in Seq(A), x \in A :
    s = Joined(h, x, t) /\ Len(h) = i /\ s[i + 1] = x

LEMMA FirstOf ==
  ASSUME NEW A, NEW s \in Seq(A), s # <<>>
  PROVE  \E x \in A, t \in Seq(A) : s = Cat(One(x), t) /\ Len(t) = Len(s) - 1
<1>1. 1 \in 1..Len(s) /\ Len(s) \in 1..Len(s) /\ s[1] \in A
  OBVIOUS
<1>2. s = <<s[1]>> \o SubSeq(s, 2, Len(s))
  <2>1. SubSeq(s, 1, Len(s)) = <<s[1]>> \o SubSeq(s, 1 + 1, Len(s))
    BY <1>1, SubSeqRecursiveFirst
  <2> QED BY <2>1, SubSeqFull
<1>3. PICK t : t = SubSeq(s, 2, Len(s))
  OBVIOUS
<1>4. t \in Seq(A) /\ Len(t) = Len(s) - 1
  BY <1>3, RestPart
<1>5. s = Cat(One(s[1]), t)
  BY <1>2, <1>3 DEF Cat, One
<1> QED BY <1>1, <1>4, <1>5

LEMMA LastOf ==
  ASSUME NEW A, NEW s \in Seq(A), s # <<>>
  PROVE  \E x \in A, h \in Seq(A) : s = Cat(h, One(x))
<1>1. PICK h \in Seq(A), x \in A : s = Append(h, x)
  BY SequenceEmptyOrAppend
<1>2. Cat(h, One(x)) = Append(h, x)
  BY AppendIsConcat DEF Cat, One
<1> QED BY <1>1, <1>2

LEMMA Around ==
  ASSUME NEW A, NEW s \in Seq(A), NEW i \in Nat, i < Len(s)
  PROVE  Surrounded(A, s, i)
<1>1. i <= Len(s) /\ Len(s) \in Nat
  OBVIOUS
<1>2. PICK h \in Seq(A), t \in Seq(A) :
        s = Cat(h, t) /\ Len(h) = i /\ Len(t) = Len(s) - i
  <2>1. Halved(A, s, i)
    BY <1>1, Halves
  <2> QED BY <2>1 DEF Halved
<1>3. t # <<>>
  BY <1>1, <1>2
<1>4. PICK x \in A, u \in Seq(A) : t = Cat(One(x), u)
  BY <1>3, FirstOf
<1>5. s = Joined(h, x, u) /\ s[i + 1] = x
  <2>1. Joined(h, x, u) = Cat(h, Cat(One(x), u))
    BY JoinedCat
  <2>2. Joined(h, x, u)[Len(h) + 1] = x
    BY JoinedIs
  <2> QED BY <1>2, <1>4, <2>1, <2>2
<1> QED BY <1>2, <1>5 DEF Surrounded

-----------------------------------------------------------------------------
(* Editors *)

LEMMA TextsAre == Texts = Seq(Line)
  BY DEF Texts, Line, AnyKey

LEMMA Parts ==
  ASSUME NEW e \in Editors
  PROVE  /\ e.rows \in Seq(Line) /\ e.fr \in Nat /\ e.fc \in Nat
         /\ e.dirty \in BOOLEAN /\ e.ok \in BOOLEAN /\ Len(e.rows) \in Nat
         /\ \A i \in 1..Len(e.rows) : e.rows[i] \in Line /\ Len(e.rows[i]) \in Nat
<1>1. e.rows \in Seq(Line)
  BY TextsAre DEF Editors
<1>2. \A i \in 1..Len(e.rows) : e.rows[i] \in Line /\ Len(e.rows[i]) \in Nat
  <2> TAKE i \in 1..Len(e.rows)
  <2>1. e.rows[i] \in Line
    BY <1>1, ElementOfSeq
  <2> QED BY <2>1 DEF Line
<1> QED BY <1>1, <1>2 DEF Editors

LEMMA FailedIs ==
  ASSUME NEW e \in Editors, NEW f, f = Failed(e)
  PROVE  /\ f \in Editors /\ f.rows = e.rows /\ f.fr = e.fr /\ f.fc = e.fc
         /\ f.dirty = e.dirty /\ ~f.ok
  BY DEF Failed, Editors

LEMMA ChangedIs ==
  ASSUME NEW e \in Editors, NEW rs \in Seq(Line), NEW f, f = Changed(e, rs)
  PROVE  /\ f \in Editors /\ f.rows = rs /\ f.fr = e.fr /\ f.fc = e.fc
         /\ f.dirty /\ f.ok = e.ok
  BY TextsAre DEF Changed, Editors

LEMMA EmptyRow ==
  << <<>> >> \in Seq(Line) /\ <<>> \in Line /\ Len(<< <<>> >>) = 1 /\ <<>> \in Seq(Line)
  BY DEF Line

\* e is on a row made of a and b, between the rows h above and t below, and its
\* cursor between a and b
At(e, h, a, b, t) ==
  /\ e \in Editors /\ h \in Seq(Line) /\ a \in Line /\ b \in Line /\ t \in Seq(Line)
  /\ e.ok /\ e.rows = Joined(h, Cat(a, b), t) /\ e.fr = Len(h) /\ e.fc = Len(a)

Alike(e, f) == e.rows = f.rows /\ e.fr = f.fr /\ e.fc = f.fc /\ e.ok = f.ok

LEMMA AtText ==
  ASSUME NEW e, NEW h, NEW a, NEW b, NEW t, At(e, h, a, b, t)
  PROVE  /\ e \in Editors /\ OnText(e) /\ e.rows # <<>> /\ Row(e) = Cat(a, b)
         /\ h \in Seq(Line) /\ a \in Line /\ b \in Line /\ t \in Seq(Line)
         /\ e.ok /\ e.rows = Joined(h, Cat(a, b), t) /\ e.fr = Len(h) /\ e.fc = Len(a)
         /\ Cat(a, b) \in Line /\ Len(Cat(a, b)) = Len(a) + Len(b)
         /\ Len(e.rows) = Len(h) + 1 + Len(t) /\ Len(h) \in Nat /\ Len(t) \in Nat
         /\ Len(a) \in Nat /\ Len(b) \in Nat
<1>1. /\ e \in Editors /\ e.ok /\ e.fr = Len(h) /\ e.fc = Len(a)
      /\ h \in Seq(Line) /\ a \in Line /\ b \in Line /\ t \in Seq(Line)
      /\ e.rows = Joined(h, Cat(a, b), t)
  BY DEF At
<1>2. /\ Cat(a, b) \in Line /\ Len(Cat(a, b)) = Len(a) + Len(b)
      /\ Len(a) \in Nat /\ Len(b) \in Nat
  BY <1>1, CatIn DEF Line
<1>3. PICK row \in Line : row = Cat(a, b)
  BY <1>2
<1>4. /\ Joined(h, row, t)[Len(h) + 1] = row /\ Len(Joined(h, row, t)) = Len(h) + 1 + Len(t)
      /\ Len(h) \in Nat /\ Len(t) \in Nat
  <2>1. h \in Seq(Line) /\ t \in Seq(Line)
    BY <1>1
  <2> QED BY <2>1, JoinedIs
<1>5. Row(e) = row /\ Len(e.rows) = Len(h) + 1 + Len(t)
  BY <1>1, <1>3, <1>4 DEF Row
<1>6. OnRow(e) /\ OnText(e)
  BY <1>1, <1>2, <1>3, <1>4, <1>5 DEF OnRow, OnText
<1>7. e.rows # <<>>
  BY <1>4, <1>5
<1> QED BY <1>1, <1>2, <1>3, <1>4, <1>5, <1>6, <1>7

Placed(e) == \E h, a, b, t : At(e, h, a, b, t)

LEMMA TextAt ==
  ASSUME NEW e \in Editors, OnText(e)
  PROVE  Placed(e)
<1>1. /\ e.ok /\ e.fr \in Nat /\ e.fr < Len(e.rows) /\ e.rows \in Seq(Line)
      /\ e.fc \in Nat /\ e.fc <= Len(Row(e))
  BY Parts DEF OnText, OnRow
<1>2. PICK h \in Seq(Line), t \in Seq(Line), x \in Line :
        e.rows = Joined(h, x, t) /\ Len(h) = e.fr /\ e.rows[e.fr + 1] = x
  <2>1. Surrounded(Line, e.rows, e.fr)
    BY <1>1, Around
  <2> QED BY <2>1 DEF Surrounded
<1>3. PICK a \in Line, b \in Line : x = Cat(a, b) /\ Len(a) = e.fc
  <2>1. e.fc \in Nat /\ e.fc <= Len(x) /\ x \in Seq(AnyKey)
    BY <1>1, <1>2 DEF Row, Line
  <2>2. Halved(AnyKey, x, e.fc)
    BY <2>1, Halves
  <2> QED BY <2>2 DEF Halved, Line
<1>4. At(e, h, a, b, t)
  BY <1>1, <1>2, <1>3 DEF At
<1> QED BY <1>4 DEF Placed

LEMMA AtAlike ==
  ASSUME NEW e, NEW f, NEW h, NEW a, NEW b, NEW t, At(e, h, a, b, t), At(f, h, a, b, t)
  PROVE  Alike(e, f)
  BY DEF At, Alike

LEMMA AlikeAt ==
  ASSUME NEW e, NEW f \in Editors, NEW h, NEW a, NEW b, NEW t, At(e, h, a, b, t), Alike(e, f)
  PROVE  At(f, h, a, b, t)
  BY DEF At, Alike

LEMMA AlikeText ==
  ASSUME NEW e \in Editors, NEW f \in Editors, OnText(e), Alike(e, f)
  PROVE  OnText(f)
  BY DEF Alike, OnText, OnRow, Row

\* e, put there
Laid(e, h, a, b, t) ==
  [e EXCEPT !.rows = Joined(h, Cat(a, b), t), !.fr = Len(h), !.fc = Len(a)]

LEMMA LaidAt ==
  ASSUME NEW e \in Editors, NEW h \in Seq(Line), NEW a \in Line, NEW b \in Line,
         NEW t \in Seq(Line), e.ok
  PROVE  At(Laid(e, h, a, b, t), h, a, b, t) /\ Laid(e, h, a, b, t).dirty = e.dirty
<1>1. Cat(a, b) \in Line /\ Len(a) \in Nat
  BY CatIn DEF Line
<1>2. PICK row \in Line, c \in Nat : row = Cat(a, b) /\ c = Len(a)
  BY <1>1
<1>3. Joined(h, row, t) \in Seq(Line) /\ Len(h) \in Nat
  BY JoinedIs
<1>4. PICK rs \in Texts, r \in Nat : rs = Joined(h, row, t) /\ r = Len(h)
  BY <1>3, TextsAre
<1>5. PICK f : f = [e EXCEPT !.rows = rs, !.fr = r, !.fc = c]
  OBVIOUS
<1>6. f \in Editors /\ f.rows = rs /\ f.fr = r /\ f.fc = c /\ f.ok /\ f.dirty = e.dirty
  BY <1>5 DEF Editors
<1>7. f = Laid(e, h, a, b, t)
  BY <1>2, <1>4, <1>5 DEF Laid
<1>8. At(f, h, a, b, t)
  BY <1>2, <1>4, <1>6 DEF At
<1> QED BY <1>6, <1>7, <1>8

\* another row in the place of the one with the cursor
LEMMA RowSet ==
  ASSUME NEW e, NEW h, NEW a, NEW b, NEW t, At(e, h, a, b, t), NEW row \in Line
  PROVE  SetTo(e.rows, e.fr + 1, row) = Joined(h, row, t) /\ Joined(h, row, t) \in Seq(Line)
<1>1. /\ h \in Seq(Line) /\ t \in Seq(Line) /\ Cat(a, b) \in Line
      /\ e.rows = Joined(h, Cat(a, b), t) /\ e.fr = Len(h)
  BY AtText
<1>2. SetTo(Joined(h, Cat(a, b), t), Len(h) + 1, row) = Joined(h, row, t)
  BY <1>1, SetAt
<1>3. Joined(h, row, t) \in Seq(Line)
  BY <1>1, JoinedIs
<1> QED BY <1>1, <1>2, <1>3

LEMMA CharsAt ==
  ASSUME NEW e, NEW h, NEW a, NEW b, NEW t, At(e, h, a, b, t),
         NEW chars \in Line, chars # <<>>, NEW f, f = InsertChars(e, chars)
  PROVE  At(f, h, Cat(a, chars), b, t) /\ f.dirty
<1>1. /\ e \in Editors /\ OnText(e) /\ e.rows # <<>> /\ Row(e) = Cat(a, b) /\ e.ok
      /\ a \in Line /\ b \in Line /\ e.fc = Len(a) /\ e.fr = Len(h) /\ h \in Seq(Line)
      /\ t \in Seq(Line) /\ Len(h) \in Nat /\ Len(a) \in Nat
  BY AtText
<1>2. PICK row : row = Put(Cat(a, b), Len(a), chars)
  OBVIOUS
<1>3. /\ row = Cat(Cat(a, chars), b) /\ row \in Line /\ Cat(a, chars) \in Line
      /\ Len(Cat(a, chars)) = Len(a) + Len(chars) /\ Len(a) + Len(chars) \in Nat
  <2>1. a \in Seq(AnyKey) /\ b \in Seq(AnyKey) /\ chars \in Seq(AnyKey)
    BY <1>1 DEF Line
  <2>2. Put(Cat(a, b), Len(a), chars) = Cat(a, Cat(chars, b))
    BY <2>1, PutAt
  <2>3. Cat(Cat(a, chars), b) = Cat(a, Cat(chars, b))
    BY <2>1, CatOf
  <2>4. /\ Cat(a, chars) \in Seq(AnyKey) /\ Len(Cat(a, chars)) = Len(a) + Len(chars)
        /\ Len(a) \in Nat /\ Len(chars) \in Nat
    BY <2>1, CatIn
  <2>5. Cat(Cat(a, chars), b) \in Seq(AnyKey)
    BY <2>1, <2>4, CatIn
  <2> QED BY <1>2, <2>2, <2>3, <2>4, <2>5 DEF Line
<1>4. PICK rs : rs = SetTo(e.rows, e.fr + 1, row)
  OBVIOUS
<1>5. rs = Joined(h, row, t) /\ rs \in Seq(Line)
  BY <1>3, <1>4, RowSet
<1>6. PICK g : g = Changed(e, rs)
  OBVIOUS
<1>7. /\ g \in Editors /\ g.rows = rs /\ g.fr = Len(h) /\ g.fc = Len(a) /\ g.dirty /\ g.ok
  BY <1>1, <1>5, <1>6, ChangedIs
<1>8. f = [g EXCEPT !.fc = @ + Len(chars)]
  <2>1. [e.rows EXCEPT ![e.fr + 1] = Put(@, e.fc, chars)] = rs
    BY <1>1, <1>2, <1>4 DEF Row, SetTo
  <2> QED BY <1>1, <1>6, <2>1 DEF InsertChars
<1>9. f = Laid(g, h, Cat(a, chars), b, t)
  BY <1>3, <1>5, <1>7, <1>8 DEF Editors, Laid
<1>10. At(f, h, Cat(a, chars), b, t) /\ f.dirty = g.dirty
  <2>1. Cat(a, chars) \in Line /\ b \in Line /\ h \in Seq(Line) /\ t \in Seq(Line) /\ g \in Editors /\ g.ok
    BY <1>1, <1>3, <1>7
  <2> QED BY <1>9, <2>1, LaidAt
<1> QED BY <1>7, <1>10

LEMMA ReturnAt ==
  ASSUME NEW e, NEW h, NEW a, NEW b, NEW t, At(e, h, a, b, t), NEW f, f = InsertReturn(e)
  PROVE  At(f, Cat(h, One(a)), <<>>, b, t) /\ f.dirty = e.dirty
<1>1. /\ e \in Editors /\ OnText(e) /\ e.rows # <<>> /\ Row(e) = Cat(a, b) /\ e.ok
      /\ a \in Line /\ b \in Line /\ e.fc = Len(a) /\ e.fr = Len(h) /\ h \in Seq(Line)
      /\ t \in Seq(Line) /\ Len(h) \in Nat /\ Cat(a, b) \in Line
      /\ e.rows = Joined(h, Cat(a, b), t)
  BY AtText
<1>2. SubSeq(Cat(a, b), 1, Len(a)) = a /\ SubSeq(Cat(a, b), Len(a) + 1, Len(Cat(a, b))) = b
  BY <1>1, HeadOf, TailOf DEF Line
<1>3. PICK new : new = <<a, b>>
  OBVIOUS
<1>4. PICK x, y : x = One(a) /\ y = One(b)
  OBVIOUS
<1>5. /\ new \in Seq(Line) /\ x \in Seq(Line) /\ y \in Seq(Line) /\ new = Cat(x, y)
      /\ Len(x) = 1
  <2>1. new = Cat(x, y)
    BY <1>1, <1>3, <1>4, TwoIs
  <2>2. x \in Seq(Line) /\ y \in Seq(Line) /\ Len(x) = 1
    BY <1>1, <1>4, OneIs
  <2>3. Cat(x, y) \in Seq(Line)
    BY <2>2, CatIn
  <2> QED BY <2>1, <2>2, <2>3
<1>6. Cut(e.rows, e.fr, 1) = Cat(h, t)
  <2>1. PICK z : z = One(Cat(a, b))
    OBVIOUS
  <2>2. z \in Seq(Line) /\ Len(z) = 1
    BY <1>1, <2>1, OneIs
  <2>3. Joined(h, Cat(a, b), t) = Cat(h, Cat(z, t))
    BY <1>1, <2>1, JoinedCat
  <2>4. Cut(Cat(h, Cat(z, t)), Len(h), Len(z)) = Cat(h, t)
    BY <1>1, <2>2, CutAt
  <2> QED BY <1>1, <2>2, <2>3, <2>4
<1>7. PICK rs : rs = Put(Cat(h, t), Len(h), new)
  OBVIOUS
<1>8. /\ rs = Joined(Cat(h, x), Cat(<<>>, b), t) /\ Cat(h, x) \in Seq(Line)
      /\ Len(Cat(h, x)) = Len(h) + 1
  <2>1. rs = Cat(h, Cat(new, t))
    BY <1>1, <1>5, <1>7, PutAt
  <2>2. Cat(Cat(x, y), t) = Cat(x, Cat(y, t))
    BY <1>1, <1>5, CatOf
  <2>3. Cat(y, t) \in Seq(Line) /\ Cat(h, x) \in Seq(Line) /\ Len(Cat(h, x)) = Len(h) + Len(x)
    <3>1. h \in Seq(Line) /\ t \in Seq(Line)
      BY <1>1
    <3> QED BY <1>5, <3>1, CatIn
  <2>4. Cat(Cat(h, x), Cat(y, t)) = Cat(h, Cat(x, Cat(y, t)))
    BY <1>1, <1>5, <2>3, CatOf
  <2>5. Joined(Cat(h, x), b, t) = Cat(Cat(h, x), Cat(y, t))
    BY <1>1, <1>4, <2>3, JoinedCat
  <2>6. Cat(<<>>, b) = b
    BY <1>1, CatNone DEF Line
  <2> QED BY <1>5, <2>1, <2>2, <2>3, <2>4, <2>5, <2>6
<1>9. f = Laid(e, Cat(h, x), <<>>, b, t)
  <2>1. f = [e EXCEPT !.rows = Put(Cut(@, e.fr, 1), e.fr, new), !.fr = @ + 1, !.fc = 0]
    BY <1>1, <1>2, <1>3 DEF InsertReturn
  <2> QED BY <1>1, <1>6, <1>7, <1>8, <2>1 DEF Laid
<1>10. <<>> \in Line
  BY EmptyRow
<1>11. /\ e \in Editors /\ e.ok /\ Cat(h, x) \in Seq(Line) /\ b \in Line /\ t \in Seq(Line)
  BY <1>1, <1>4, <1>8
<1>12. /\ At(Laid(e, Cat(h, x), <<>>, b, t), Cat(h, x), <<>>, b, t)
       /\ Laid(e, Cat(h, x), <<>>, b, t).dirty = e.dirty
  BY ONLY <1>10, <1>11, LaidAt
<1> QED BY <1>4, <1>9, <1>12

-----------------------------------------------------------------------------
(* What keys and commands may do to any editor *)

\* Nat, as a set that provers leave as it is
Num == Nat

After(e) == {f \in Editors : (f.ok => e.ok) /\ (e.dirty => f.dirty)}

LEMMA AfterIs ==
  ASSUME NEW e, NEW f, f \in After(e)
  PROVE  f \in Editors /\ (f.ok => e.ok) /\ (e.dirty => f.dirty)
  BY DEF After

LEMMA SameAfter == ASSUME NEW e \in Editors PROVE e \in After(e)
  BY DEF After

LEMMA AfterAfter ==
  ASSUME NEW e \in Editors, NEW f \in After(e), NEW g \in After(f)
  PROVE  g \in After(e)
  BY DEF After

LEMMA FailedAfter == ASSUME NEW e \in Editors PROVE Failed(e) \in After(e)
<1>1. PICK f : f = Failed(e)
  OBVIOUS
<1>2. f \in Editors /\ ~f.ok /\ f.dirty = e.dirty
  BY <1>1, FailedIs
<1> QED BY <1>1, <1>2 DEF After

LEMMA ChangedAfter ==
  ASSUME NEW e \in Editors, NEW rs \in Seq(Line) PROVE Changed(e, rs) \in After(e)
<1>1. PICK f : f = Changed(e, rs)
  OBVIOUS
<1>2. f \in Editors /\ f.dirty /\ f.ok = e.ok
  BY <1>1, ChangedIs
<1> QED BY <1>1, <1>2 DEF After

LEMMA PutIn ==
  ASSUME NEW A, NEW s \in Seq(A), NEW i \in Num, NEW new \in Seq(A), i <= Len(s)
  PROVE  Put(s, i, new) \in Seq(A)
<1>1. PICK h \in Seq(A), t \in Seq(A) : s = Cat(h, t) /\ Len(h) = i
  <2>1. Halved(A, s, i)
    BY Halves DEF Num
  <2> QED BY <2>1 DEF Halved
<1>2. Put(Cat(h, t), Len(h), new) = Cat(h, Cat(new, t))
  BY PutAt
<1>3. Cat(new, t) \in Seq(A)
  BY CatIn
<1>4. Cat(h, Cat(new, t)) \in Seq(A)
  BY <1>3, CatIn
<1> QED BY <1>1, <1>2, <1>4

LEMMA CutIn ==
  ASSUME NEW A, NEW s \in Seq(A), NEW i \in Num, NEW n \in Num, i + n <= Len(s)
  PROVE  Cut(s, i, n) \in Seq(A) /\ Len(Cut(s, i, n)) = Len(s) - n
<1>0. i \in Nat /\ n \in Nat /\ Len(s) \in Nat
  BY DEF Num
<1>1. PICK h \in Seq(A), r \in Seq(A) : s = Cat(h, r) /\ Len(h) = i /\ Len(r) = Len(s) - i
  <2>1. Halved(A, s, i)
    BY <1>0, Halves
  <2> QED BY <2>1 DEF Halved
<1>2. PICK m \in Seq(A), t \in Seq(A) : r = Cat(m, t) /\ Len(m) = n /\ Len(t) = Len(r) - n
  <2>1. n <= Len(r)
    BY <1>0, <1>1
  <2>2. Halved(A, r, n)
    BY <1>0, <2>1, Halves
  <2> QED BY <2>2 DEF Halved
<1>3. Cut(Cat(h, Cat(m, t)), Len(h), Len(m)) = Cat(h, t)
  BY CutAt
<1>4. Cat(h, t) \in Seq(A) /\ Len(Cat(h, t)) = Len(h) + Len(t)
  BY CatIn
<1> QED BY <1>0, <1>1, <1>2, <1>3, <1>4

LEMMA SliceIn ==
  ASSUME NEW A, NEW s \in Seq(A), NEW i \in Num, NEW j \in Num, i <= Len(s), j <= Len(s)
  PROVE  /\ SubSeq(s, i + 1, j) \in Seq(A)
         /\ Len(SubSeq(s, i + 1, j)) = IF i < j THEN j - i ELSE 0
<1>1. PICK m \in Int, n \in Int : m = i + 1 /\ n = j /\ i \in Nat /\ j \in Nat
  BY DEF Num
<1>2. \A k \in m..n : s[k] \in A
  <2> TAKE k \in m..n
  <2>1. k \in 1..Len(s)
    BY <1>1
  <2> QED BY <2>1, ElementOfSeq
<1>3. /\ SubSeq(s, m, n) \in Seq(A)
      /\ Len(SubSeq(s, m, n)) = IF m <= n THEN n - m + 1 ELSE 0
  BY <1>2, SubSeqProperties
<1> QED BY <1>1, <1>3

LEMMA CharsAfter ==
  ASSUME NEW e \in Editors, NEW chars \in Line
  PROVE  InsertChars(e, chars) \in After(e)
<1>1. CASE chars = <<>>
  BY <1>1, SameAfter DEF InsertChars
<1>2. ASSUME NEW g \in Editors, chars # <<>>, OnText(g)
      PROVE  InsertChars(g, chars) \in After(g)
  <2>1. PICK h, a, b, t : At(g, h, a, b, t)
    BY <1>2, TextAt DEF Placed
  <2>2. PICK f : f = InsertChars(g, chars)
    OBVIOUS
  <2>3. At(f, h, Cat(a, chars), b, t) /\ f.dirty
    BY <1>2, <2>1, <2>2, CharsAt
  <2>4. f \in Editors /\ g.ok
    BY <2>1, <2>3, AtText
  <2> QED BY <2>2, <2>3, <2>4 DEF After
<1>3. CASE chars # <<>> /\ e.ok /\ e.rows = <<>>
  <2>1. PICK g : g = Changed(e, << <<>> >>)
    OBVIOUS
  <2>2. g \in After(e) /\ g \in Editors /\ g.rows = << <<>> >>
    BY <2>1, ChangedAfter, ChangedIs, EmptyRow
  <2>3. InsertChars(e, chars) = IF OnText(g) THEN InsertChars(g, chars) ELSE Failed(g)
    <3>1. g.rows # <<>>
      BY <2>2, EmptyRow
    <3>2. (IF e.ok /\ e.rows = <<>> THEN Changed(e, << <<>> >>) ELSE e) = g
      BY <1>3, <2>1
    <3>3. (IF g.ok /\ g.rows = <<>> THEN Changed(g, << <<>> >>) ELSE g) = g
      BY <3>1
    <3> QED BY ONLY <1>3, <3>2, <3>3 DEF InsertChars
  <2>4. InsertChars(e, chars) \in After(g)
    BY <1>2, <1>3, <2>2, <2>3, FailedAfter
  <2> QED BY <2>2, <2>4, AfterAfter
<1>4. CASE chars # <<>> /\ ~(e.ok /\ e.rows = <<>>)
  <2>1. CASE OnText(e)
    BY <1>2, <1>4, <2>1
  <2>2. CASE ~OnText(e)
    <3>1. InsertChars(e, chars) = Failed(e)
      BY <1>4, <2>2 DEF InsertChars
    <3> QED BY <3>1, FailedAfter
  <2> QED BY <2>1, <2>2
<1> QED BY <1>1, <1>3, <1>4

LEMMA KeyAfter ==
  ASSUME NEW e \in Editors, NEW k \in AnyKey
  PROVE  InsertKey(e, k) \in After(e)
<1>1. CASE k = Return
  <2>1. CASE OnText(e)
    <3>1. PICK h, a, b, t : At(e, h, a, b, t)
      BY <2>1, TextAt DEF Placed
    <3>2. PICK f : f = InsertReturn(e)
      OBVIOUS
    <3>3. At(f, Cat(h, One(a)), <<>>, b, t) /\ f.dirty = e.dirty
      BY <3>1, <3>2, ReturnAt
    <3>4. f \in Editors /\ e.ok
      BY <3>1, <3>3, AtText
    <3>5. f \in After(e)
      BY <3>3, <3>4 DEF After
    <3> QED BY <1>1, <3>2, <3>5 DEF InsertKey
  <2>2. CASE ~OnText(e)
    BY <1>1, <2>2, FailedAfter DEF InsertKey, InsertReturn
  <2> QED BY <2>1, <2>2
<1>2. CASE k # Return
  <2>1. InsertKey(e, k) = InsertChars(e, <<k>>)
    BY <1>2 DEF InsertKey, InsertChar
  <2>2. <<k>> \in Line
    BY DEF Line
  <2> QED BY <2>1, <2>2, CharsAfter
<1> QED BY <1>1, <1>2

LEMMA NewlineAfter ==
  ASSUME NEW e \in Editors, NEW dir \in {0, 1}
  PROVE  InsertNewline(e, dir) \in After(e)
<1>1. CASE e.ok /\ e.rows = <<>>
  BY <1>1, ChangedAfter, EmptyRow DEF InsertNewline
<1>2. CASE ~(e.ok /\ e.rows = <<>>) /\ ~OnRow(e)
  BY <1>2, FailedAfter DEF InsertNewline
<1>3. CASE ~(e.ok /\ e.rows = <<>>) /\ OnRow(e)
  <2>1. e.fr + dir \in Num /\ e.fr + dir <= Len(e.rows) /\ e.rows \in Seq(Line) /\ e.fr + dir \in Nat
    BY <1>3, Parts DEF OnRow, Num
  <2>2. PICK rs : rs = Put(e.rows, e.fr + dir, << <<>> >>)
    OBVIOUS
  <2>3. rs \in Seq(Line)
    BY <2>1, <2>2, PutIn, EmptyRow
  <2>4. PICK g : g = Changed(e, rs)
    OBVIOUS
  <2>5. g \in Editors /\ g.fr = e.fr /\ g \in After(e)
    BY <2>3, <2>4, ChangedIs, ChangedAfter
  <2>6. PICK r \in Nat : r = g.fr + dir
    BY <2>1, <2>5
  <2>7. PICK f : f = [g EXCEPT !.fr = r, !.fc = 0]
    OBVIOUS
  <2>8. f \in Editors /\ f.ok = g.ok /\ f.dirty = g.dirty
    BY <2>5, <2>7 DEF Editors
  <2>9. f \in After(g)
    BY <2>8 DEF After
  <2>10. InsertNewline(e, dir) = f
    BY <1>3, <2>2, <2>4, <2>6, <2>7 DEF InsertNewline
  <2> QED BY <2>5, <2>9, <2>10, AfterAfter
<1> QED BY <1>1, <1>2, <1>3

LEMMA PastedAfter ==
  ASSUME NEW e \in Editors, buffer \in Texts
  PROVE  Pasted(e) \in After(e)
<1>1. CASE e.ok /\ e.rows = <<>>
  <2>1. PICK f : f = [e EXCEPT !.rows = buffer, !.fr = 0, !.fc = 0]
    OBVIOUS
  <2>2. f \in Editors /\ f.ok = e.ok /\ f.dirty = e.dirty
    BY <2>1 DEF Editors
  <2>3. f \in After(e)
    BY <2>2 DEF After
  <2> QED BY <1>1, <2>1, <2>3 DEF Pasted
<1>2. CASE ~(e.ok /\ e.rows = <<>>) /\ ~OnRow(e)
  BY <1>2, FailedAfter DEF Pasted
<1>3. CASE ~(e.ok /\ e.rows = <<>>) /\ OnRow(e)
  <2>1. e.fr + 1 \in Num /\ e.fr + 1 <= Len(e.rows) /\ e.rows \in Seq(Line) /\ buffer \in Seq(Line)
    BY <1>3, Parts, TextsAre DEF OnRow, Num
  <2>2. PICK rs : rs = Put(e.rows, e.fr + 1, buffer)
    OBVIOUS
  <2>3. rs \in Texts
    BY <2>1, <2>2, PutIn, TextsAre
  <2>4. PICK r \in Nat : r = e.fr + 1
    BY Parts
  <2>5. PICK f : f = [e EXCEPT !.rows = rs, !.fr = r, !.fc = 0]
    OBVIOUS
  <2>6. f \in Editors /\ f.ok = e.ok /\ f.dirty = e.dirty
    BY <2>3, <2>5 DEF Editors
  <2>7. f \in After(e)
    BY <2>6 DEF After
  <2> QED BY <1>3, <2>2, <2>4, <2>5, <2>7 DEF Pasted
<1> QED BY <1>1, <1>2, <1>3

LEMMA TakenIn ==
  ASSUME NEW e \in Editors, NEW n \in Nat
  PROVE  /\ Taken(e, n) \in Seq(Line)
         /\ Taken(e, n) # <<>> => e.fr + Len(Taken(e, n)) <= Len(e.rows)
<1>1. PICK j : j = Lesser(e.fr + n, Len(e.rows))
  OBVIOUS
<1>2. j \in Nat /\ j <= Len(e.rows) /\ e.rows \in Seq(Line) /\ e.fr \in Nat
  BY <1>1, Parts DEF Lesser
<1>3. Taken(e, n) = SubSeq(e.rows, e.fr + 1, j)
  BY <1>1 DEF Taken
<1>4. CASE e.fr <= Len(e.rows)
  <2>1. e.fr \in Num /\ j \in Num
    BY <1>2 DEF Num
  <2>2. /\ SubSeq(e.rows, e.fr + 1, j) \in Seq(Line)
        /\ Len(SubSeq(e.rows, e.fr + 1, j)) = IF e.fr < j THEN j - e.fr ELSE 0
    BY <1>2, <1>4, <2>1, SliceIn
  <2>3. PICK m \in Seq(Line) : m = Taken(e, n) /\ Len(m) = IF e.fr < j THEN j - e.fr ELSE 0
    BY <1>3, <2>2
  <2>4. m # <<>> => e.fr + Len(m) <= Len(e.rows)
    BY <1>2, <2>3
  <2> QED BY <2>3, <2>4
<1>5. CASE e.fr > Len(e.rows)
  <2>1. PICK m \in Int, k \in Int : m = e.fr + 1 /\ k = j /\ k < m
    BY <1>2, <1>5
  <2>2. SubSeq(e.rows, m, k) = <<>>
    BY <2>1, SubSeqEmpty
  <2> QED BY <1>3, <2>1, <2>2, EmptyRow
<1> QED BY <1>2, <1>4, <1>5

LEMMA RowsDeletedAfter ==
  ASSUME NEW e \in Editors, NEW n \in Nat
  PROVE  RowsDeleted(e, n) \in After(e)
<1>1. CASE Taken(e, n) = <<>>
  BY <1>1, SameAfter DEF RowsDeleted
<1>2. CASE Taken(e, n) # <<>>
  <2>1. PICK left : left = Cut(e.rows, e.fr, Len(Taken(e, n)))
    OBVIOUS
  <2>2. left \in Seq(Line)
    <3>1. /\ e.fr \in Num /\ Len(Taken(e, n)) \in Num /\ e.rows \in Seq(Line)
          /\ e.fr + Len(Taken(e, n)) <= Len(e.rows)
      BY <1>2, Parts, TakenIn DEF Num
    <3> QED BY <2>1, <3>1, CutIn
  <2>3. CASE left # <<>>
    BY <1>2, <2>1, <2>2, <2>3, ChangedAfter DEF RowsDeleted
  <2>4. CASE left = <<>>
    <3>1. PICK d \in BOOLEAN : d = (e.dirty \/ Len(e.rows) > 1)
      OBVIOUS
    <3>2. PICK f : f = [e EXCEPT !.rows = left, !.fr = 0, !.fc = 0, !.dirty = d]
      OBVIOUS
    <3>3. f \in Editors /\ f.ok = e.ok /\ f.dirty = d
      BY <2>2, <3>2, TextsAre DEF Editors
    <3>4. f \in After(e)
      BY <3>1, <3>3 DEF After
    <3>5. RowsDeleted(e, n) = f
      BY <1>2, <2>1, <2>4, <3>1, <3>2 DEF RowsDeleted
    <3> QED BY <3>4, <3>5
  <2> QED BY <2>3, <2>4
<1> QED BY <1>1, <1>2

-----------------------------------------------------------------------------
(* What keys and commands do to an editor with its cursor on the text *)

\* e, with rows and cursor there, and dirty
Dirtied(e, h, a, b, t) ==
  [Changed(e, Joined(h, Cat(a, b), t)) EXCEPT !.fr = Len(h), !.fc = Len(a)]

LEMMA DirtiedAt ==
  ASSUME NEW e \in Editors, NEW h \in Seq(Line), NEW a \in Line, NEW b \in Line,
         NEW t \in Seq(Line), e.ok
  PROVE  At(Dirtied(e, h, a, b, t), h, a, b, t) /\ Dirtied(e, h, a, b, t).dirty
<1>1. Cat(a, b) \in Line
  BY CatIn DEF Line
<1>2. Joined(h, Cat(a, b), t) \in Seq(Line)
  BY <1>1, JoinedIs
<1>3. PICK g : g = Changed(e, Joined(h, Cat(a, b), t))
  OBVIOUS
<1>4. g \in Editors /\ g.rows = Joined(h, Cat(a, b), t) /\ g.ok /\ g.dirty
  BY <1>2, <1>3, ChangedIs
<1>5. At(Laid(g, h, a, b, t), h, a, b, t) /\ Laid(g, h, a, b, t).dirty
  BY <1>4, LaidAt
<1>6. Dirtied(e, h, a, b, t) = Laid(g, h, a, b, t)
  BY <1>3, <1>4 DEF Dirtied, Laid, Editors
<1> QED BY <1>5, <1>6

\* x and s take some of what is behind the cursor
LEMMA ErasedAt ==
  ASSUME NEW a \in Line, NEW b \in Line, NEW n \in Nat
  PROVE  \E b2 \in Line : \A e, h, t : At(e, h, a, b, t) =>
           /\ At(Erased(e, n), h, a, b2, t)
           /\ Erased(e, n) = e \/ Erased(e, n).dirty
<1>1. Len(a) \in Nat /\ Len(b) \in Nat /\ a \in Seq(AnyKey) /\ b \in Seq(AnyKey)
  BY DEF Line
<1>2. PICK k : k = Lesser(n, Len(b))
  OBVIOUS
<1>3. k \in Nat /\ k <= Len(b)
  BY <1>1, <1>2 DEF Lesser
<1>4. PICK m \in Seq(AnyKey), b2 \in Seq(AnyKey) : b = Cat(m, b2) /\ Len(m) = k
  <2>1. Halved(AnyKey, b, k)
    BY <1>1, <1>3, Halves
  <2> QED BY <2>1 DEF Halved
<1>5. CASE Cat(a, b) = <<>>
  <2>1. ASSUME NEW e, NEW h, NEW t, At(e, h, a, b, t)
        PROVE  Erased(e, n) = e
    <3>1. OnText(e) /\ Row(e) = <<>>
      BY <1>5, <2>1, AtText
    <3> QED BY <3>1 DEF Erased
  <2> QED BY <2>1
<1>6. CASE Cat(a, b) # <<>>
  <2>1. ASSUME NEW e, NEW h, NEW t, At(e, h, a, b, t)
        PROVE  At(Erased(e, n), h, a, b2, t) /\ Erased(e, n).dirty
    <3>1. /\ e \in Editors /\ OnText(e) /\ Row(e) = Cat(a, b) /\ e.ok /\ e.fc = Len(a)
          /\ e.fr = Len(h) /\ h \in Seq(Line) /\ t \in Seq(Line)
          /\ Len(Cat(a, b)) = Len(a) + Len(b)
      BY <2>1, AtText
    <3>2. PICK row : row = Cut(Cat(a, b), Len(a), k)
      OBVIOUS
    <3>3. row = Cat(a, b2) /\ row \in Line /\ b2 \in Line
      <4>1. Cut(Cat(a, Cat(m, b2)), Len(a), Len(m)) = Cat(a, b2)
        BY <1>1, CutAt
      <4>2. Cat(a, b2) \in Seq(AnyKey)
        BY <1>1, CatIn
      <4> QED BY <1>4, <3>2, <4>1, <4>2 DEF Line
    <3>4. Lesser(n, Len(Cat(a, b)) - Len(a)) = k
      BY <1>1, <1>2, <3>1
    <3>5. PICK rs : rs = SetTo(e.rows, e.fr + 1, row)
      OBVIOUS
    <3>6. rs = Joined(h, row, t)
      BY <2>1, <3>3, <3>5, RowSet
    <3>7. [e.rows EXCEPT ![e.fr + 1] = Cut(@, e.fc, Lesser(n, Len(@) - e.fc))] = rs
      BY <3>1, <3>2, <3>4, <3>5 DEF Row, SetTo
    <3>8. Erased(e, n) = Changed(e, rs)
      BY <1>6, <3>1, <3>7 DEF Erased
    <3>9. Joined(h, row, t) \in Seq(Line)
      BY <3>1, <3>3, JoinedIs
    <3>10. PICK f : f = Changed(e, rs)
      OBVIOUS
    <3>11. f \in Editors /\ f.rows = rs /\ f.fr = e.fr /\ f.fc = e.fc /\ f.dirty /\ f.ok = e.ok
      <4>1. e \in Editors /\ rs \in Seq(Line)
        BY <3>1, <3>6, <3>9
      <4> QED BY ONLY <3>10, <4>1, ChangedIs
    <3>12. At(f, h, a, b2, t)
      BY <3>1, <3>3, <3>6, <3>11 DEF At
    <3> QED BY <3>8, <3>10, <3>11, <3>12
  <2>2. b2 \in Line
    BY DEF Line
  <2> QED BY <2>1, <2>2
<1> QED BY <1>5, <1>6

\* o and O
LEMMA NewlineAt ==
  ASSUME NEW e, NEW h, NEW a, NEW b, NEW t, At(e, h, a, b, t)
  PROVE  /\ At(InsertNewline(e, 1), Cat(h, One(Cat(a, b))), <<>>, <<>>, t)
         /\ InsertNewline(e, 1).dirty
         /\ At(InsertNewline(e, 0), h, <<>>, <<>>, Cat(One(Cat(a, b)), t))
         /\ InsertNewline(e, 0).dirty
<1>1. /\ e \in Editors /\ OnText(e) /\ OnRow(e) /\ e.ok /\ e.rows # <<>>
      /\ e.fr = Len(h) /\ h \in Seq(Line) /\ t \in Seq(Line) /\ Cat(a, b) \in Line
      /\ e.rows = Joined(h, Cat(a, b), t) /\ Len(h) \in Nat
  BY AtText DEF OnText
<1>2. PICK o, n : o = One(Cat(a, b)) /\ n = One(<<>>)
  OBVIOUS
<1>3. o \in Seq(Line) /\ n \in Seq(Line) /\ Len(o) = 1
  BY <1>1, <1>2, OneIs, EmptyRow
<1>4. /\ Cat(h, o) \in Seq(Line) /\ Len(Cat(h, o)) = Len(h) + 1 /\ Cat(o, t) \in Seq(Line)
      /\ e.rows = Cat(h, Cat(o, t)) /\ e.rows = Cat(Cat(h, o), t)
  <2>1. Cat(h, o) \in Seq(Line) /\ Len(Cat(h, o)) = Len(h) + Len(o) /\ Cat(o, t) \in Seq(Line)
    <3>1. h \in Seq(Line) /\ t \in Seq(Line)
      BY <1>1
    <3> QED BY <1>3, <3>1, CatIn
  <2> QED BY <1>1, <1>2, <1>3, <2>1, JoinedCat
<1>5. Cat(<<>>, <<>>) = <<>>
  BY EmptyRow, CatNone
<1>6. Put(e.rows, e.fr + 1, n) = Joined(Cat(h, o), Cat(<<>>, <<>>), t)
  <2>1. Put(Cat(Cat(h, o), t), Len(Cat(h, o)), n) = Cat(Cat(h, o), Cat(n, t))
    <3>1. Cat(h, o) \in Seq(Line) /\ t \in Seq(Line)
      BY <1>1, <1>4
    <3> QED BY <1>3, <3>1, PutAt
  <2>2. Joined(Cat(h, o), <<>>, t) = Cat(Cat(h, o), Cat(n, t))
    BY <1>1, <1>2, <1>4, EmptyRow, JoinedCat
  <2> QED BY <1>1, <1>4, <1>5, <2>1, <2>2
<1>7. Put(e.rows, e.fr, n) = Joined(h, Cat(<<>>, <<>>), Cat(o, t))
  <2>1. Put(Cat(h, Cat(o, t)), Len(h), n) = Cat(h, Cat(n, Cat(o, t)))
    <3>1. h \in Seq(Line) /\ Cat(o, t) \in Seq(Line)
      BY <1>1, <1>4
    <3> QED BY <1>3, <3>1, PutAt
  <2>2. Joined(h, <<>>, Cat(o, t)) = Cat(h, Cat(n, Cat(o, t)))
    BY <1>1, <1>2, <1>4, EmptyRow, JoinedCat
  <2> QED BY <1>1, <1>4, <1>5, <2>1, <2>2
<1>8. ASSUME NEW dir \in {0, 1}
      PROVE  InsertNewline(e, dir) = [Changed(e, Put(e.rows, e.fr + dir, n))
                                      EXCEPT !.fr = @ + dir, !.fc = 0]
  BY <1>1, <1>2 DEF InsertNewline, One
<1>9. InsertNewline(e, 1) = Dirtied(e, Cat(h, o), <<>>, <<>>, t)
  <2>1. PICK rs : rs = Put(e.rows, e.fr + 1, n)
    OBVIOUS
  <2>2. rs \in Seq(Line)
    BY <1>1, <1>3, <1>4, <1>5, <1>6, <2>1, EmptyRow, JoinedIs
  <2>3. PICK g : g = Changed(e, rs)
    OBVIOUS
  <2>4. g.fr = e.fr /\ g \in Editors
    BY <1>1, <2>2, <2>3, ChangedIs
  <2>5. InsertNewline(e, 1) = [g EXCEPT !.fr = @ + 1, !.fc = 0]
    BY <1>8, <2>1, <2>3
  <2>6. Dirtied(e, Cat(h, o), <<>>, <<>>, t) = [g EXCEPT !.fr = Len(Cat(h, o)), !.fc = Len(<<>>)]
    BY <1>6, <2>1, <2>3 DEF Dirtied
  <2>7. Len(<<>>) = 0 /\ Len(Cat(h, o)) = g.fr + 1
    BY <1>1, <1>4, <2>4
  <2> QED BY <2>4, <2>5, <2>6, <2>7 DEF Editors
<1>10. InsertNewline(e, 0) = Dirtied(e, h, <<>>, <<>>, Cat(o, t))
  <2>1. PICK rs : rs = Put(e.rows, e.fr, n)
    OBVIOUS
  <2>2. rs \in Seq(Line)
    BY <1>1, <1>3, <1>4, <1>5, <1>7, <2>1, EmptyRow, JoinedIs
  <2>3. PICK g : g = Changed(e, rs)
    OBVIOUS
  <2>4. g.fr = e.fr /\ g \in Editors
    BY <1>1, <2>2, <2>3, ChangedIs
  <2>5. InsertNewline(e, 0) = [g EXCEPT !.fr = @ + 0, !.fc = 0]
    BY <1>1, <1>8, <2>1, <2>3
  <2>6. Dirtied(e, h, <<>>, <<>>, Cat(o, t)) = [g EXCEPT !.fr = Len(h), !.fc = Len(<<>>)]
    BY <1>7, <2>1, <2>3 DEF Dirtied
  <2>7. Len(<<>>) = 0 /\ Len(h) = g.fr + 0
    BY <1>1, <2>4
  <2> QED BY <2>4, <2>5, <2>6, <2>7 DEF Editors
<1>11. /\ e \in Editors /\ e.ok /\ <<>> \in Line
       /\ h \in Seq(Line) /\ t \in Seq(Line) /\ Cat(h, o) \in Seq(Line) /\ Cat(o, t) \in Seq(Line)
  BY <1>1, <1>4, EmptyRow
<1>12. /\ At(Dirtied(e, Cat(h, o), <<>>, <<>>, t), Cat(h, o), <<>>, <<>>, t)
       /\ Dirtied(e, Cat(h, o), <<>>, <<>>, t).dirty
  BY ONLY <1>11, DirtiedAt
<1>13. /\ At(Dirtied(e, h, <<>>, <<>>, Cat(o, t)), h, <<>>, <<>>, Cat(o, t))
       /\ Dirtied(e, h, <<>>, <<>>, Cat(o, t)).dirty
  BY ONLY <1>11, DirtiedAt
<1> QED BY <1>2, <1>9, <1>10, <1>12, <1>13

\* in INSERT mode, and on the text, the cursor stays
LEMMA ScrollAt ==
  ASSUME NEW e \in Editors, OnText(e)
  PROVE  Scroll(e, "INSERT") = e
<1>1. /\ e.fr \in Nat /\ e.fc \in Nat /\ e.fr < Len(e.rows) /\ Len(e.rows) \in Nat
      /\ e.fc <= Len(Row(e)) /\ e.rows # <<>> /\ Len(Row(e)) \in Nat
  <2>1. PICK h, a, b, t : At(e, h, a, b, t)
    BY TextAt DEF Placed
  <2>2. e.fr < Len(e.rows) /\ e.fc <= Len(Row(e))
    BY DEF OnText, OnRow
  <2>3. e.rows # <<>> /\ Row(e) = Cat(a, b) /\ Cat(a, b) \in Line
    BY <2>1, AtText
  <2> QED BY <2>2, <2>3, Parts DEF Line
<1>2. Lesser(e.fr, Len(e.rows) - 1) = e.fr
  BY <1>1 DEF Lesser
<1>3. Len(e.rows[e.fr + 1]) = Len(Row(e))
  BY DEF Row
<1>4. Scroll(e, "INSERT") =
        [e EXCEPT !.fr = e.fr, !.fc = IF e.fc < Len(Row(e)) THEN e.fc ELSE Len(Row(e))]
  BY <1>1, <1>2, <1>3 DEF Scroll
<1>5. (IF e.fc < Len(Row(e)) THEN e.fc ELSE Len(Row(e))) = e.fc
  BY <1>1
<1>6. Scroll(e, "INSERT") = [e EXCEPT !.fr = e.fr, !.fc = e.fc]
  BY <1>4, <1>5
<1> QED BY <1>1, <1>6 DEF Editors

LEMMA BackspacedChar ==
  ASSUME NEW e, NEW h, NEW a \in Line, NEW c \in AnyKey, NEW b, NEW t,
         At(e, h, Cat(a, One(c)), b, t)
  PROVE  At(Backspaced(e), h, a, b, t) /\ Backspaced(e).dirty
<1>1. /\ e \in Editors /\ OnText(e) /\ e.ok /\ e.fr = Len(h) /\ h \in Seq(Line)
      /\ t \in Seq(Line) /\ b \in Line /\ Row(e) = Cat(Cat(a, One(c)), b)
      /\ e.fc = Len(Cat(a, One(c)))
  BY AtText
<1>2. PICK o : o = One(c)
  OBVIOUS
<1>3. a \in Seq(AnyKey) /\ b \in Seq(AnyKey) /\ o \in Seq(AnyKey) /\ Len(o) = 1
  BY <1>1, <1>2, OneIs DEF Line
<1>4. e.fc = Len(a) + 1 /\ Len(a) \in Nat
  <2>1. Len(Cat(a, o)) = Len(a) + Len(o) /\ Len(a) \in Nat
    BY <1>3, CatIn
  <2> QED BY <1>1, <1>2, <1>3, <2>1
<1>5. PICK row : row = Cut(Cat(Cat(a, o), b), Len(a), Len(o))
  OBVIOUS
<1>6. row = Cat(a, b) /\ row \in Line
  <2>1. Cut(Cat(a, Cat(o, b)), Len(a), Len(o)) = Cat(a, b)
    BY <1>3, CutAt
  <2>2. Cat(Cat(a, o), b) = Cat(a, Cat(o, b))
    BY <1>3, CatOf
  <2>3. Cat(a, b) \in Seq(AnyKey)
    BY <1>3, CatIn
  <2> QED BY <1>5, <2>1, <2>2, <2>3 DEF Line
<1>7. PICK rs : rs = SetTo(e.rows, e.fr + 1, row)
  OBVIOUS
<1>8. rs = Joined(h, Cat(a, b), t)
  <2>1. rs = Joined(h, row, t)
    BY <1>6, <1>7, RowSet
  <2> QED BY <1>6, <2>1
<1>9. [e.rows EXCEPT ![e.fr + 1] = Cut(@, e.fc - 1, 1)] = rs
  <2>1. e.fc - 1 = Len(a)
    BY <1>4
  <2> QED BY <1>1, <1>2, <1>3, <1>5, <1>7, <2>1 DEF Row, SetTo
<1>10. Backspaced(e) = [Changed(e, rs) EXCEPT !.fc = @ - 1]
  <2>1. OnText(e) /\ e.fc # 0 /\ e.fc > 0
    BY <1>1, <1>4
  <2> QED BY ONLY <1>9, <2>1 DEF Backspaced
<1>11. Backspaced(e) = Dirtied(e, h, a, b, t)
  <2>1. Cat(a, b) \in Line
    BY <1>6
  <2>2. rs \in Seq(Line)
    BY <1>1, <1>8, <2>1, JoinedIs
  <2>3. PICK g : g = Changed(e, rs)
    OBVIOUS
  <2>4. g \in Editors /\ g.fr = e.fr /\ g.fc = e.fc
    BY <1>1, <2>2, <2>3, ChangedIs
  <2>5. Backspaced(e) = [g EXCEPT !.fc = @ - 1]
    BY <1>10, <2>3
  <2>6. Dirtied(e, h, a, b, t) = [g EXCEPT !.fr = Len(h), !.fc = Len(a)]
    BY <1>8, <2>3 DEF Dirtied
  <2>7. g.fr = Len(h) /\ g.fc - 1 = Len(a)
    BY <1>1, <1>4, <2>4
  <2> QED BY <2>4, <2>5, <2>6, <2>7 DEF Editors
<1> QED BY <1>1, <1>11, DirtiedAt

LEMMA BackspacedReturn ==
  ASSUME NEW e, NEW h \in Seq(Line), NEW p \in Line, NEW b, NEW t,
         At(e, Cat(h, One(p)), <<>>, b, t)
  PROVE  \E j \in Line : /\ b = <<>> => j = p
                         /\ At(Backspaced(e), h, j, <<>>, t) /\ Backspaced(e).dirty
<1>1. PICK o : o = One(p)
  OBVIOUS
<1>2. o \in Seq(Line) /\ Len(o) = 1
  BY <1>1, OneIs
<1>3. /\ e \in Editors /\ OnText(e) /\ e.ok /\ e.fr = Len(Cat(h, o))
      /\ t \in Seq(Line) /\ b \in Line /\ Row(e) = Cat(<<>>, b)
      /\ e.fc = Len(<<>>) /\ e.rows = Joined(Cat(h, o), Cat(<<>>, b), t)
  BY <1>1, AtText
<1>4. Cat(<<>>, b) = b /\ Len(b) \in Nat
  BY <1>3, CatNone DEF Line
<1>5. Cat(h, o) \in Seq(Line) /\ Len(Cat(h, o)) = Len(h) + 1 /\ Len(h) \in Nat
  <2>1. Cat(h, o) \in Seq(Line) /\ Len(Cat(h, o)) = Len(h) + Len(o) /\ Len(h) \in Nat
    BY <1>2, CatIn
  <2> QED BY <1>2, <2>1
<1>6. e.fc = 0 /\ e.fr = Len(h) + 1 /\ Row(e) = b
  BY <1>3, <1>4, <1>5
<1>7. PICK j : j = IF Len(b) > 1 THEN p \o b ELSE p
  OBVIOUS
<1>8. j \in Line
  <2>1. p \o b \in Line
    BY <1>3 DEF Line
  <2> QED BY <1>7, <2>1
<1>9. PICK ob : ob = One(b)
  OBVIOUS
<1>10. ob \in Seq(Line) /\ Len(ob) = 1
  BY <1>3, <1>9, OneIs
<1>11. Cat(ob, t) \in Seq(Line)
  <2>1. t \in Seq(Line)
    BY <1>3
  <2> QED BY <1>10, <2>1, CatIn
<1>12. e.rows = Joined(h, p, Cat(ob, t))
  <2>1. Joined(Cat(h, o), b, t) = Cat(Cat(h, o), Cat(ob, t))
    BY <1>3, <1>5, <1>9, JoinedCat
  <2>2. Joined(h, p, Cat(ob, t)) = Cat(Cat(h, o), Cat(ob, t))
    BY <1>1, <1>11, JoinedCat
  <2> QED BY <1>3, <1>4, <2>1, <2>2
<1>13. e.rows[e.fr] = p
  <2>1. Joined(h, p, Cat(ob, t))[Len(h) + 1] = p
    BY <1>11, JoinedIs
  <2> QED BY <1>6, <1>12, <2>1
<1>14. (IF Len(Row(e)) > 1 THEN e.rows[e.fr] \o Row(e) ELSE e.rows[e.fr]) = j
  BY <1>6, <1>7, <1>13
<1>15. SetTo(e.rows, e.fr, j) = Joined(h, j, Cat(ob, t))
  <2>1. SetTo(Joined(h, p, Cat(ob, t)), Len(h) + 1, j) = Joined(h, j, Cat(ob, t))
    BY <1>8, <1>11, SetAt
  <2> QED BY <1>6, <1>12, <2>1
<1>16. Cut(SetTo(e.rows, e.fr, j), e.fr, 1) = Joined(h, Cat(j, <<>>), t)
  <2>1. PICK oj : oj = One(j)
    OBVIOUS
  <2>2. oj \in Seq(Line) /\ Len(oj) = 1
    BY <1>8, <2>1, OneIs
  <2>3. PICK hj : hj = Cat(h, oj)
    OBVIOUS
  <2>4. hj \in Seq(Line) /\ Len(hj) = Len(h) + 1
    <3>1. hj \in Seq(Line) /\ Len(hj) = Len(h) + Len(oj)
      BY <2>2, <2>3, CatIn
    <3> QED BY <2>2, <3>1
  <2>5. Joined(h, j, Cat(ob, t)) = Cat(hj, Cat(ob, t))
    BY <1>8, <1>11, <2>1, <2>3, JoinedCat
  <2>6. Cut(Cat(hj, Cat(ob, t)), Len(hj), Len(ob)) = Cat(hj, t)
    <3>1. t \in Seq(Line)
      BY <1>3
    <3> QED BY <1>10, <2>4, <3>1, CutAt
  <2>7. Joined(h, j, t) = Cat(hj, t)
    BY <1>3, <1>8, <2>1, <2>3, JoinedCat
  <2>8. Cat(j, <<>>) = j
    BY <1>8, CatNone DEF Line
  <2> QED BY <1>6, <1>10, <1>15, <2>4, <2>5, <2>6, <2>7, <2>8
<1>17. Backspaced(e) = [Changed(e, Joined(h, Cat(j, <<>>), t)) EXCEPT !.fr = @ - 1, !.fc = Len(j)]
  <2>1. [e.rows EXCEPT ![e.fr] = j] = SetTo(e.rows, e.fr, j)
    BY DEF SetTo
  <2>2. ~(e.fc = 0 /\ e.fr = 0) /\ ~(e.fc > 0)
    BY <1>5, <1>6
  <2>3. Backspaced(e) = [Changed(e, Cut([e.rows EXCEPT ![e.fr] = j], e.fr, 1))
                         EXCEPT !.fr = @ - 1, !.fc = Len(j)]
    BY <1>3, <1>14, <2>2 DEF Backspaced
  <2> QED BY <1>16, <2>1, <2>3
<1>18. Backspaced(e) = Dirtied(e, h, j, <<>>, t)
  <2>1. PICK rs : rs = Joined(h, Cat(j, <<>>), t)
    OBVIOUS
  <2>2. rs \in Seq(Line)
    <3>1. Cat(j, <<>>) = j
      BY <1>8, CatNone DEF Line
    <3> QED BY <1>3, <1>8, <2>1, <3>1, JoinedIs
  <2>3. PICK g : g = Changed(e, rs)
    OBVIOUS
  <2>4. g \in Editors /\ g.fr = e.fr
    BY <1>3, <2>2, <2>3, ChangedIs
  <2>5. Backspaced(e) = [g EXCEPT !.fr = @ - 1, !.fc = Len(j)]
    BY <1>17, <2>1, <2>3
  <2>6. Dirtied(e, h, j, <<>>, t) = [g EXCEPT !.fr = Len(h), !.fc = Len(j)]
    BY <2>1, <2>3 DEF Dirtied
  <2>7. g.fr - 1 = Len(h)
    BY <1>5, <1>6, <2>4
  <2> QED BY <2>4, <2>5, <2>6, <2>7 DEF Editors
<1>19. b = <<>> => j = p
  BY <1>7
<1>20. At(Dirtied(e, h, j, <<>>, t), h, j, <<>>, t) /\ Dirtied(e, h, j, <<>>, t).dirty
  BY <1>3, <1>8, EmptyRow, DirtiedAt
<1> QED BY <1>8, <1>18, <1>19, <1>20

LEMMA BackspacedAfter ==
  ASSUME NEW e \in Editors
  PROVE  /\ Backspaced(e) \in After(e)
         /\ Backspaced(e) = e \/ ~Backspaced(e).ok \/ Backspaced(e).dirty
<1>1. CASE e.fc = 0 /\ e.fr = 0
  BY <1>1, SameAfter DEF Backspaced
<1>2. CASE ~(e.fc = 0 /\ e.fr = 0) /\ ~OnText(e)
  <2>1. PICK f : f = Failed(e)
    OBVIOUS
  <2>2. Backspaced(e) = f /\ ~f.ok
    BY <1>2, <2>1, FailedIs DEF Backspaced
  <2> QED BY <2>1, <2>2, FailedAfter
<1>3. CASE ~(e.fc = 0 /\ e.fr = 0) /\ OnText(e)
  <2>1. PICK h, a, b, t : At(e, h, a, b, t)
    BY <1>3, TextAt DEF Placed
  <2>2. /\ h \in Seq(Line) /\ a \in Seq(AnyKey) /\ e.fr = Len(h) /\ e.fc = Len(a)
        /\ e.ok
    BY <2>1, AtText DEF Line
  <2>3. PICK f : f = Backspaced(e)
    OBVIOUS
  <2>4. f \in Editors /\ f.dirty
    <3>1. CASE a # <<>>
      <4>1. PICK c \in AnyKey, r \in Seq(AnyKey) : a = Cat(r, One(c))
        BY <2>2, <3>1, LastOf
      <4>2. At(f, h, r, b, t) /\ f.dirty
        BY <2>1, <2>3, <4>1, BackspacedChar DEF Line
      <4> QED BY <4>2, AtText
    <3>2. CASE a = <<>>
      <4>1. h # <<>>
        BY <1>3, <2>2, <3>2
      <4>2. PICK p \in Line, r \in Seq(Line) : h = Cat(r, One(p))
        BY <2>2, <4>1, LastOf
      <4>3. PICK j \in Line : At(f, r, j, <<>>, t) /\ f.dirty
        BY <2>1, <2>3, <3>2, <4>2, BackspacedReturn
      <4> QED BY <4>3, AtText
    <3> QED BY <3>1, <3>2
  <2> QED BY <2>2, <2>3, <2>4 DEF After
<1> QED BY <1>1, <1>2, <1>3

LEMMA ErasedAfter ==
  ASSUME NEW e \in Editors, NEW n \in Nat
  PROVE  /\ Erased(e, n) \in After(e)
         /\ Erased(e, n) = e \/ ~Erased(e, n).ok \/ Erased(e, n).dirty
<1>1. CASE ~OnText(e)
  <2>1. PICK f : f = Failed(e)
    OBVIOUS
  <2>2. Erased(e, n) = f /\ ~f.ok
    BY <1>1, <2>1, FailedIs DEF Erased
  <2> QED BY <2>1, <2>2, FailedAfter
<1>2. CASE OnText(e)
  <2>1. PICK h, a, b, t : At(e, h, a, b, t)
    BY <1>2, TextAt DEF Placed
  <2>2. a \in Line /\ b \in Line /\ e.ok
    BY <2>1, AtText
  <2>3. PICK b2 \in Line : \A g, l, r : At(g, l, a, b, r) =>
          /\ At(Erased(g, n), l, a, b2, r)
          /\ Erased(g, n) = g \/ Erased(g, n).dirty
    BY <2>2, ErasedAt
  <2>4. PICK f : f = Erased(e, n)
    OBVIOUS
  <2>5. At(f, h, a, b2, t) /\ (f = e \/ f.dirty)
    BY <2>1, <2>3, <2>4
  <2>6. f \in Editors
    BY <2>5, AtText
  <2> QED BY <2>2, <2>4, <2>5, <2>6 DEF After
<1> QED BY <1>1, <1>2

LEMMA DoesAfter ==
  ASSUME NEW e \in Editors, NEW n \in Nat, buffer \in Texts,
         NEW command \in InsertCommands \cup OtherCommands
  PROVE  Does(command, e, n) \in After(e)
<1>1. CASE command = "i"
  BY <1>1, SameAfter DEF Does
<1>2. CASE command = "a"
  <2>1. CASE e.rows = <<>>
    BY <1>2, <2>1, SameAfter DEF Does
  <2>2. CASE e.rows # <<>>
    <3>1. PICK c \in Nat : c = e.fc + 1
      BY Parts
    <3>2. PICK f : f = [e EXCEPT !.fc = c]
      OBVIOUS
    <3>3. f \in Editors /\ f.ok = e.ok /\ f.dirty = e.dirty
      BY <3>2 DEF Editors
    <3>4. f \in After(e)
      BY <3>3 DEF After
    <3>5. Does(command, e, n) = f
      BY <1>2, <2>2, <3>1, <3>2 DEF Does
    <3> QED BY <3>4, <3>5
  <2> QED BY <2>1, <2>2
<1>3. CASE command = "o"
  BY <1>3, NewlineAfter DEF Does
<1>4. CASE command = "O"
  BY <1>4, NewlineAfter DEF Does
<1>5. CASE command \in {"x", "s"}
  BY <1>5, ErasedAfter DEF Does
<1>6. CASE command = "dd"
  BY <1>6, RowsDeletedAfter DEF Does
<1>7. CASE command = "p"
  BY <1>7, PastedAfter DEF Does
<1> QED BY <1>1, <1>2, <1>3, <1>4, <1>5, <1>6, <1>7
        DEF InsertCommands, OtherCommands, Map1, Map2, Map3, Map4

-----------------------------------------------------------------------------
(* Runs of keys *)

KeysFrom(E, e, keys) ==
  \E f \in [0..Len(keys) -> E] :
    /\ f[0] = e /\ \A i \in 1..Len(keys) : f[i] = InsertKey(f[i - 1], keys[i])
    /\ InsertKeys(e, keys) = f[Len(keys)]

LEMMA KeysRun ==
  ASSUME NEW E, NEW e \in E, NEW K, NEW keys \in Seq(K),
         \A f \in E : \A k \in K : InsertKey(f, k) \in E
  PROVE  KeysFrom(E, e, keys)
<1> DEFINE Runs(f, n) == f[0] = e /\ \A i \in 1..n : f[i] = InsertKey(f[i - 1], keys[i])
           S == {n \in Nat : n <= Len(keys) => \E f \in [0..n -> E] : Runs(f, n)}
<1>1. 0 \in S
  <2>1. [i \in 0..0 |-> e] \in [0..0 -> E] /\ Runs([i \in 0..0 |-> e], 0)
    OBVIOUS
  <2> QED BY <2>1
<1>2. ASSUME NEW n \in S PROVE n + 1 \in S
  <2> SUFFICES ASSUME n + 1 <= Len(keys) PROVE \E f \in [0..(n + 1) -> E] : Runs(f, n + 1)
    OBVIOUS
  <2>1. PICK f \in [0..n -> E] : Runs(f, n)
    OBVIOUS
  <2>2. keys[n + 1] \in K /\ f[n] \in E
    BY ElementOfSeq
  <2> DEFINE g == [i \in 0..(n + 1) |-> IF i <= n THEN f[i] ELSE InsertKey(f[n], keys[n + 1])]
  <2>3. g \in [0..(n + 1) -> E]
    BY <2>2
  <2>4. Runs(g, n + 1)
    BY <2>1
  <2> QED BY <2>3, <2>4
<1>3. S \in SUBSET Nat
  OBVIOUS
<1> HIDE DEF S
<1>4. Len(keys) \in S
  <2>1. S = Nat
    BY ONLY <1>1, <1>2, <1>3, NatSet
  <2> QED BY <2>1
<1>5. PICK f \in [0..Len(keys) -> E] : Runs(f, Len(keys))
  BY <1>4 DEF S
<1> DEFINE after == CHOOSE g : g = [i \in 0..Len(keys) |->
                                     IF i = 0 THEN e ELSE InsertKey(g[i - 1], keys[i])]
<1>6. f = [i \in 0..Len(keys) |-> IF i = 0 THEN e ELSE InsertKey(f[i - 1], keys[i])]
  BY <1>5
<1>7. after = [i \in 0..Len(keys) |-> IF i = 0 THEN e ELSE InsertKey(after[i - 1], keys[i])]
  BY <1>6
<1>8. InsertKeys(e, keys) = after[Len(keys)]
  BY DEF InsertKeys
<1> HIDE DEF after
<1>9. Len(keys) \in Nat
  OBVIOUS
<1> DEFINE P == {n \in Nat : n <= Len(keys) => after[n] = f[n]}
<1>10. 0 \in P
  BY <1>5, <1>7, <1>9
<1>11. ASSUME NEW n \in P PROVE n + 1 \in P
  <2> SUFFICES ASSUME n + 1 <= Len(keys) PROVE after[n + 1] = f[n + 1]
    OBVIOUS
  <2>1. after[n] = f[n] /\ (n + 1) - 1 = n /\ n + 1 \in 1..Len(keys)
    BY <1>9
  <2> QED BY <1>5, <1>7, <2>1
<1>12. P \in SUBSET Nat
  OBVIOUS
<1> HIDE DEF P
<1>13. Len(keys) \in P
  BY <1>9, <1>10, <1>11, <1>12, NatSet
<1>14. after[Len(keys)] = f[Len(keys)]
  BY <1>9, <1>13 DEF P
<1> QED BY <1>5, <1>8, <1>14 DEF KeysFrom

LEMMA KeysIn ==
  ASSUME NEW E, NEW e \in E, NEW K, NEW keys \in Seq(K),
         \A f \in E : \A k \in K : InsertKey(f, k) \in E
  PROVE  InsertKeys(e, keys) \in E
<1>1. KeysFrom(E, e, keys)
  BY KeysRun
<1>2. PICK f \in [0..Len(keys) -> E] : InsertKeys(e, keys) = f[Len(keys)]
  BY <1>1 DEF KeysFrom
<1> QED BY <1>2

LEMMA NoKeys == ASSUME NEW e \in Editors PROVE InsertKeys(e, <<>>) = e
<1>1. PICK keys \in Seq(AnyKey) : keys = <<>>
  BY EmptyRow DEF Line
<1>2. \A f \in Editors : \A k \in AnyKey : InsertKey(f, k) \in Editors
  BY KeyAfter, AfterIs
<1>3. KeysFrom(Editors, e, keys)
  BY <1>2, KeysRun
<1>4. PICK f : f[0] = e /\ InsertKeys(e, keys) = f[Len(keys)]
  BY <1>3 DEF KeysFrom
<1>5. Len(keys) = 0
  BY <1>1
<1> QED BY <1>1, <1>4, <1>5

LEMMA OneKeyMore ==
  ASSUME NEW e \in Editors, NEW keys \in Line, NEW k \in AnyKey
  PROVE  InsertKeys(e, Append(keys, k)) = InsertKey(InsertKeys(e, keys), k)
<1>1. PICK more : more = Append(keys, k)
  OBVIOUS
<1>2. /\ more \in Seq(AnyKey) /\ keys \in Seq(AnyKey) /\ Len(keys) \in Nat
      /\ Len(more) = Len(keys) + 1 /\ more[Len(keys) + 1] = k
      /\ \A i \in 1..Len(keys) : more[i] = keys[i]
  BY <1>1 DEF Line
<1>3. \A f \in Editors : \A c \in AnyKey : InsertKey(f, c) \in Editors
  BY KeyAfter, AfterIs
<1>4. PICK f \in [0..Len(keys) -> Editors] :
        /\ f[0] = e /\ \A i \in 1..Len(keys) : f[i] = InsertKey(f[i - 1], keys[i])
        /\ InsertKeys(e, keys) = f[Len(keys)]
  <2>1. keys \in Seq(AnyKey)
    BY <1>2
  <2>2. KeysFrom(Editors, e, keys)
    BY <1>3, <2>1, KeysRun
  <2> QED BY <2>2 DEF KeysFrom
<1>5. PICK g \in [0..Len(more) -> Editors] :
        /\ g[0] = e /\ \A i \in 1..Len(more) : g[i] = InsertKey(g[i - 1], more[i])
        /\ InsertKeys(e, more) = g[Len(more)]
  <2>1. more \in Seq(AnyKey)
    BY <1>2
  <2>2. KeysFrom(Editors, e, more)
    BY <1>3, <2>1, KeysRun
  <2> QED BY <2>2 DEF KeysFrom
<1> DEFINE P == {n \in Nat : n <= Len(keys) => g[n] = f[n]}
<1>6. 0 \in P
  BY <1>4, <1>5
<1>7. ASSUME NEW n \in P PROVE n + 1 \in P
  <2> SUFFICES ASSUME n + 1 <= Len(keys) PROVE g[n + 1] = f[n + 1]
    OBVIOUS
  <2>1. /\ g[n] = f[n] /\ (n + 1) - 1 = n /\ n + 1 \in 1..Len(keys)
        /\ n + 1 \in 1..Len(more) /\ more[n + 1] = keys[n + 1]
    BY <1>2
  <2> QED BY <1>4, <1>5, <2>1
<1>8. P \in SUBSET Nat
  OBVIOUS
<1> HIDE DEF P
<1>9. Len(keys) \in P
  BY <1>2, <1>6, <1>7, <1>8, NatSet
<1>10. g[Len(keys)] = f[Len(keys)]
  BY <1>2, <1>9 DEF P
<1>11. Len(more) \in 1..Len(more) /\ Len(more) - 1 = Len(keys) /\ more[Len(more)] = k
  BY <1>2
<1> QED BY <1>1, <1>4, <1>5, <1>10, <1>11

LEMMA KeysAfter ==
  ASSUME NEW e \in Editors, NEW keys \in Line
  PROVE  InsertKeys(e, keys) \in After(e)
<1>1. e \in After(e) /\ keys \in Seq(AnyKey)
  BY SameAfter DEF Line
<1>2. \A f \in After(e) : \A k \in AnyKey : InsertKey(f, k) \in After(e)
  <2> SUFFICES ASSUME NEW f \in After(e), NEW k \in AnyKey PROVE InsertKey(f, k) \in After(e)
    OBVIOUS
  <2>1. f \in Editors
    BY AfterIs
  <2>2. InsertKey(f, k) \in After(f)
    BY <2>1, KeyAfter
  <2> QED BY <2>2, AfterAfter
<1> QED BY <1>1, <1>2, KeysIn

-----------------------------------------------------------------------------
(* Texts that are repeated *)

TimesFrom(A, n, s) ==
  \E f \in [0..n -> Seq(A)] :
    /\ f[0] = <<>> /\ \A i \in 1..n : f[i] = Cat(f[i - 1], s)
    /\ Times(n, s) = f[n]

LEMMA TimesRun ==
  ASSUME NEW A, NEW s \in Seq(A), NEW n \in Num
  PROVE  TimesFrom(A, n, s)
<1>0. n \in Nat
  BY DEF Num
<1> DEFINE Runs(f, m) == f[0] = <<>> /\ \A i \in 1..m : f[i] = Cat(f[i - 1], s)
           S == {m \in Nat : \E f \in [0..m -> Seq(A)] : Runs(f, m)}
<1>1. 0 \in S
  <2>1. [i \in 0..0 |-> <<>>] \in [0..0 -> Seq(A)] /\ Runs([i \in 0..0 |-> <<>>], 0)
    BY EmptySeq
  <2> QED BY <2>1
<1>2. ASSUME NEW m \in S PROVE m + 1 \in S
  <2>1. PICK f \in [0..m -> Seq(A)] : Runs(f, m)
    OBVIOUS
  <2>2. f[m] \in Seq(A)
    OBVIOUS
  <2>3. Cat(f[m], s) \in Seq(A)
    BY <2>2, CatIn
  <2> DEFINE g == [i \in 0..(m + 1) |-> IF i <= m THEN f[i] ELSE Cat(f[m], s)]
  <2>4. g \in [0..(m + 1) -> Seq(A)]
    BY <2>3
  <2>5. m \in Nat
    OBVIOUS
  <2>6. g[0] = f[0] /\ \A i \in 0..m : g[i] = f[i]
    BY <2>5
  <2>7. g[m + 1] = Cat(f[m], s)
    BY <2>5
  <2> HIDE DEF g
  <2>8. ASSUME NEW i \in 1..(m + 1) PROVE g[i] = Cat(g[i - 1], s)
    <3>1. CASE i = m + 1
      <4>1. i - 1 = m /\ m \in 0..m
        BY <2>5, <3>1
      <4> QED BY <2>6, <2>7, <3>1, <4>1
    <3>2. CASE i # m + 1
      <4>1. i \in 1..m /\ i \in 0..m /\ i - 1 \in 0..m
        BY <2>5, <3>2
      <4>2. f[i] = Cat(f[i - 1], s)
        BY <2>1, <4>1
      <4> QED BY <2>6, <4>1, <4>2
    <3> QED BY <3>1, <3>2
  <2>9. Runs(g, m + 1)
    BY <2>1, <2>6, <2>8
  <2>10. m + 1 \in Nat
    BY <2>5
  <2> QED BY <2>4, <2>9, <2>10
<1>3. S \in SUBSET Nat
  OBVIOUS
<1> HIDE DEF S
<1>4. n \in S
  BY <1>0, <1>1, <1>2, <1>3, NatSet
<1>5. PICK f \in [0..n -> Seq(A)] : Runs(f, n)
  BY <1>4 DEF S
<1> DEFINE after == CHOOSE g : g = [i \in 0..n |-> IF i = 0 THEN <<>> ELSE Cat(g[i - 1], s)]
<1>6. f = [i \in 0..n |-> IF i = 0 THEN <<>> ELSE Cat(f[i - 1], s)]
  BY <1>0, <1>5
<1>7. after = [i \in 0..n |-> IF i = 0 THEN <<>> ELSE Cat(after[i - 1], s)]
  BY <1>6
<1>8. Times(n, s) = after[n]
  BY DEF Times, Cat
<1> HIDE DEF after
<1> DEFINE P == {m \in Nat : m <= n => after[m] = f[m]}
<1>9. 0 \in P
  BY <1>0, <1>5, <1>7
<1>10. ASSUME NEW m \in P PROVE m + 1 \in P
  <2> SUFFICES ASSUME m + 1 <= n PROVE after[m + 1] = f[m + 1]
    OBVIOUS
  <2>1. after[m] = f[m] /\ (m + 1) - 1 = m /\ m + 1 \in 1..n /\ m + 1 \in 0..n /\ m + 1 # 0
    BY <1>0
  <2>2. after[m + 1] = Cat(after[m], s)
    BY <1>7, <2>1
  <2>3. f[m + 1] = Cat(f[m], s)
    BY <1>5, <2>1
  <2> QED BY <2>1, <2>2, <2>3
<1>11. P \in SUBSET Nat
  OBVIOUS
<1> HIDE DEF P
<1>12. n \in P
  BY <1>0, <1>9, <1>10, <1>11, NatSet
<1>13. after[n] = f[n]
  BY <1>0, <1>12 DEF P
<1> QED BY <1>5, <1>8, <1>13 DEF TimesFrom

LEMMA TimesIn ==
  ASSUME NEW A, NEW s \in Seq(A), NEW n \in Num
  PROVE  Times(n, s) \in Seq(A)
<1>1. PICK f \in [0..n -> Seq(A)] : Times(n, s) = f[n]
  <2>1. TimesFrom(A, n, s)
    BY TimesRun
  <2> QED BY <2>1 DEF TimesFrom
<1>2. n \in 0..n
  BY DEF Num
<1> QED BY <1>1, <1>2

LEMMA TimesNone ==
  ASSUME NEW A, NEW s \in Seq(A)
  PROVE  Times(0, s) = <<>>
<1>1. PICK n \in Num : n = 0
  BY DEF Num
<1>2. TimesFrom(A, n, s)
  BY TimesRun
<1>3. PICK f : f[0] = <<>> /\ Times(n, s) = f[n]
  BY <1>2 DEF TimesFrom
<1> QED BY <1>1, <1>3

LEMMA TimesMore ==
  ASSUME NEW A, NEW s \in Seq(A), NEW n \in Num
  PROVE  Times(n + 1, s) = Cat(Times(n, s), s)
<1>0. n \in Nat
  BY DEF Num
<1>1. PICK f \in [0..n -> Seq(A)] :
        /\ f[0] = <<>> /\ \A i \in 1..n : f[i] = Cat(f[i - 1], s)
        /\ Times(n, s) = f[n]
  <2>1. TimesFrom(A, n, s)
    BY TimesRun
  <2> QED BY <2>1 DEF TimesFrom
<1>2. PICK k \in Num : k = n + 1
  BY <1>0 DEF Num
<1>3. PICK g \in [0..k -> Seq(A)] :
        /\ g[0] = <<>> /\ \A i \in 1..k : g[i] = Cat(g[i - 1], s)
        /\ Times(k, s) = g[k]
  <2>1. TimesFrom(A, k, s)
    BY TimesRun
  <2> QED BY <2>1 DEF TimesFrom
<1> DEFINE P == {m \in Nat : m <= n => g[m] = f[m]}
<1>4. 0 \in P
  BY <1>1, <1>3
<1>5. ASSUME NEW m \in P PROVE m + 1 \in P
  <2> SUFFICES ASSUME m + 1 <= n PROVE g[m + 1] = f[m + 1]
    OBVIOUS
  <2>1. g[m] = f[m] /\ (m + 1) - 1 = m /\ m + 1 \in 1..n /\ m + 1 \in 1..k
    BY <1>0, <1>2
  <2> QED BY <1>1, <1>3, <2>1
<1>6. P \in SUBSET Nat
  OBVIOUS
<1> HIDE DEF P
<1>7. n \in P
  BY <1>0, <1>4, <1>5, <1>6, NatSet
<1>8. g[n] = f[n]
  BY <1>0, <1>7 DEF P
<1>9. k \in 1..k /\ k - 1 = n
  BY <1>0, <1>2
<1> QED BY <1>1, <1>2, <1>3, <1>8, <1>9

LEMMA TimesFirst ==
  ASSUME NEW A, NEW s \in Seq(A), NEW n \in Num
  PROVE  Times(n + 1, s) = Cat(s, Times(n, s))
<1> DEFINE P == {m \in Nat : Times(m + 1, s) = Cat(s, Times(m, s))}
<1>1. 0 \in P
  <2>1. PICK m \in Num : m = 0
    BY DEF Num
  <2>2. Times(m + 1, s) = Cat(Times(m, s), s) /\ Times(0, s) = <<>>
    BY TimesMore, TimesNone
  <2>3. Cat(<<>>, s) = s /\ Cat(s, <<>>) = s
    BY CatNone
  <2> QED BY <2>1, <2>2, <2>3
<1>2. ASSUME NEW m \in P PROVE m + 1 \in P
  <2>1. PICK k \in Num, l \in Num : k = m /\ l = m + 1
    BY DEF Num
  <2>2. Times(k + 1, s) = Cat(Times(k, s), s) /\ Times(l + 1, s) = Cat(Times(l, s), s)
    BY TimesMore
  <2>3. Times(k, s) \in Seq(A)
    BY TimesIn
  <2>4. Cat(Cat(s, Times(k, s)), s) = Cat(s, Cat(Times(k, s), s))
    BY <2>3, CatOf
  <2> QED BY <2>1, <2>2, <2>4
<1>3. P \in SUBSET Nat
  OBVIOUS
<1> HIDE DEF P
<1>4. n \in P
  BY <1>1, <1>2, <1>3, NatSet DEF Num
<1> QED BY <1>4 DEF P

LEMMA TimesOnce ==
  ASSUME NEW A, NEW s \in Seq(A)
  PROVE  Times(1, s) = s
<1>1. PICK n \in Num : n = 0
  BY DEF Num
<1>2. Times(n + 1, s) = Cat(Times(n, s), s) /\ Times(0, s) = <<>>
  BY TimesMore, TimesNone
<1> QED BY <1>1, <1>2, CatNone

-----------------------------------------------------------------------------
(* o and O *)

OpenedFrom(E, command, e, n, keys) ==
  \E f \in [0..n -> E] :
    /\ f[0] = e
    /\ \A i \in 1..n : f[i] = InsertKeys(Does(command, f[i - 1], 1), keys)
    /\ Opened(command, e, n, keys) = f[n]

LEMMA OpenedRun ==
  ASSUME NEW E, NEW e \in E, NEW command, NEW keys, NEW n \in Num,
         \A f \in E : InsertKeys(Does(command, f, 1), keys) \in E
  PROVE  OpenedFrom(E, command, e, n, keys)
<1>0. n \in Nat
  BY DEF Num
<1> DEFINE Step(f) == InsertKeys(Does(command, f, 1), keys)
           Runs(f, m) == f[0] = e /\ \A i \in 1..m : f[i] = Step(f[i - 1])
           S == {m \in Nat : \E f \in [0..m -> E] : Runs(f, m)}
<1> HIDE DEF Step
<1>1. 0 \in S
  <2>1. [i \in 0..0 |-> e] \in [0..0 -> E] /\ Runs([i \in 0..0 |-> e], 0)
    OBVIOUS
  <2> QED BY <2>1
<1>2. ASSUME NEW m \in S PROVE m + 1 \in S
  <2>1. PICK f \in [0..m -> E] : Runs(f, m)
    OBVIOUS
  <2>2. f[m] \in E
    OBVIOUS
  <2>3. Step(f[m]) \in E
    BY <2>2 DEF Step
  <2> DEFINE g == [i \in 0..(m + 1) |-> IF i <= m THEN f[i] ELSE Step(f[m])]
  <2>4. g \in [0..(m + 1) -> E]
    BY <2>3
  <2>5. m \in Nat
    OBVIOUS
  <2>6. g[0] = f[0] /\ \A i \in 0..m : g[i] = f[i]
    BY <2>5
  <2>7. g[m + 1] = Step(f[m])
    BY <2>5
  <2> HIDE DEF g
  <2>8. ASSUME NEW i \in 1..(m + 1) PROVE g[i] = Step(g[i - 1])
    <3>1. CASE i = m + 1
      <4>1. i - 1 = m /\ m \in 0..m
        BY <2>5, <3>1
      <4> QED BY <2>6, <2>7, <3>1, <4>1
    <3>2. CASE i # m + 1
      <4>1. i \in 1..m /\ i \in 0..m /\ i - 1 \in 0..m
        BY <2>5, <3>2
      <4>2. f[i] = Step(f[i - 1])
        BY <2>1, <4>1
      <4> QED BY <2>6, <4>1, <4>2
    <3> QED BY <3>1, <3>2
  <2>9. Runs(g, m + 1)
    BY <2>1, <2>6, <2>8
  <2>10. m + 1 \in Nat
    BY <2>5
  <2> QED BY <2>4, <2>9, <2>10
<1>3. S \in SUBSET Nat
  OBVIOUS
<1> HIDE DEF S
<1>4. n \in S
  BY <1>0, <1>1, <1>2, <1>3, NatSet
<1>5. PICK f \in [0..n -> E] : Runs(f, n)
  BY <1>4 DEF S
<1> DEFINE after == CHOOSE g : g = [i \in 0..n |-> IF i = 0 THEN e ELSE Step(g[i - 1])]
<1>6. f = [i \in 0..n |-> IF i = 0 THEN e ELSE Step(f[i - 1])]
  BY <1>0, <1>5
<1>7. after = [i \in 0..n |-> IF i = 0 THEN e ELSE Step(after[i - 1])]
  BY <1>6
<1>8. Opened(command, e, n, keys) = after[n]
  BY DEF Opened, Step
<1> HIDE DEF after
<1> DEFINE P == {m \in Nat : m <= n => after[m] = f[m]}
<1>9. 0 \in P
  BY <1>0, <1>5, <1>7
<1>10. ASSUME NEW m \in P PROVE m + 1 \in P
  <2> SUFFICES ASSUME m + 1 <= n PROVE after[m + 1] = f[m + 1]
    OBVIOUS
  <2>1. after[m] = f[m] /\ (m + 1) - 1 = m /\ m + 1 \in 1..n /\ m + 1 \in 0..n /\ m + 1 # 0
    BY <1>0
  <2>2. after[m + 1] = Step(after[m])
    BY <1>7, <2>1
  <2>3. f[m + 1] = Step(f[m])
    BY <1>5, <2>1
  <2> QED BY <2>1, <2>2, <2>3
<1>11. P \in SUBSET Nat
  OBVIOUS
<1> HIDE DEF P
<1>12. n \in P
  BY <1>0, <1>9, <1>10, <1>11, NatSet
<1>13. after[n] = f[n]
  BY <1>0, <1>12 DEF P
<1> QED BY <1>5, <1>8, <1>13 DEF OpenedFrom, Step

LEMMA OpenedAfter ==
  ASSUME NEW e \in Editors, NEW command \in Map2, NEW n \in Nat, NEW keys \in Line,
         buffer \in Texts
  PROVE  Opened(command, e, n, keys) \in After(e)
<1>1. \A f \in After(e) : InsertKeys(Does(command, f, 1), keys) \in After(e)
  <2> TAKE f \in After(e)
  <2>1. f \in Editors
    BY AfterIs
  <2>2. PICK one \in Nat : one = 1
    OBVIOUS
  <2>3. Does(command, f, one) \in After(f)
    BY <2>1, DoesAfter DEF InsertCommands
  <2>4. Does(command, f, one) \in Editors
    BY <2>3, AfterIs
  <2>5. InsertKeys(Does(command, f, one), keys) \in After(Does(command, f, one))
    BY <2>4, KeysAfter
  <2>6. InsertKeys(Does(command, f, one), keys) \in After(f)
    BY <2>1, <2>3, <2>5, AfterAfter
  <2>7. InsertKeys(Does(command, f, one), keys) \in After(e)
    BY <2>6, AfterAfter
  <2> QED BY <2>2, <2>7
<1>2. OpenedFrom(After(e), command, e, n, keys)
  BY <1>1, SameAfter, OpenedRun DEF Num
<1>3. PICK f \in [0..n -> After(e)] : Opened(command, e, n, keys) = f[n]
  BY <1>2 DEF OpenedFrom
<1> QED BY <1>3

LEMMA OpenedNone ==
  ASSUME NEW e, NEW command, NEW keys
  PROVE  Opened(command, e, 0, keys) = e
<1> DEFINE Step(f) == InsertKeys(Does(command, f, 1), keys)
           after == CHOOSE g : g = [i \in 0..0 |-> IF i = 0 THEN e ELSE Step(g[i - 1])]
<1> HIDE DEF Step
<1>1. PICK f : f = [i \in 0..0 |-> e]
  OBVIOUS
<1>2. f = [i \in 0..0 |-> IF i = 0 THEN e ELSE Step(f[i - 1])]
  BY <1>1
<1>3. after = [i \in 0..0 |-> IF i = 0 THEN e ELSE Step(after[i - 1])]
  BY <1>2
<1>4. after[0] = e
  BY <1>3
<1>5. Opened(command, e, 0, keys) = after[0]
  BY DEF Opened, Step
<1> QED BY <1>4, <1>5

LEMMA OpenedOnce ==
  ASSUME NEW e \in Editors, NEW command \in Map2, NEW keys \in Line, buffer \in Texts
  PROVE  Opened(command, e, 1, keys) = InsertKeys(Does(command, e, 1), keys)
<1>1. \A f \in Editors : InsertKeys(Does(command, f, 1), keys) \in Editors
  <2> TAKE f \in Editors
  <2>1. PICK one \in Nat : one = 1
    OBVIOUS
  <2>2. Does(command, f, one) \in Editors
    BY DoesAfter, AfterIs DEF InsertCommands
  <2>3. InsertKeys(Does(command, f, one), keys) \in Editors
    BY <2>2, KeysAfter, AfterIs
  <2> QED BY <2>1, <2>3
<1>2. PICK n \in Num : n = 1
  BY DEF Num
<1>3. OpenedFrom(Editors, command, e, n, keys)
  BY <1>1, OpenedRun
<1>4. PICK f : /\ f[0] = e
               /\ \A i \in 1..n : f[i] = InsertKeys(Does(command, f[i - 1], 1), keys)
               /\ Opened(command, e, n, keys) = f[n]
  BY <1>3 DEF OpenedFrom
<1>5. 1 \in 1..n /\ 1 - 1 = 0
  BY <1>2
<1> QED BY <1>2, <1>4, <1>5

LEMMA RepeatedAfter ==
  ASSUME NEW e \in Editors, NEW n \in Nat, NEW keys \in Line, buffer \in Texts,
         NEW command \in InsertCommands \cup OtherCommands
  PROVE  Repeated(command, e, n, keys) \in After(e)
<1>1. PICK g : g = Does(command, e, n)
  OBVIOUS
<1>2. g \in After(e) /\ g \in Editors
  BY <1>1, DoesAfter, AfterIs
<1>3. CASE command \in Map1
  <2>1. Times(n, keys) \in Line
    BY TimesIn DEF Line, Num
  <2>2. InsertKeys(g, Times(n, keys)) \in After(g)
    BY <1>2, <2>1, KeysAfter
  <2>3. Repeated(command, e, n, keys) = InsertKeys(g, Times(n, keys))
    BY <1>1, <1>3 DEF Repeated, Map1, Map2, Map4
  <2> QED BY <1>2, <2>2, <2>3, AfterAfter
<1>4. CASE command \in Map2
  <2>1. Repeated(command, e, n, keys) = Opened(command, e, n, keys)
    BY <1>4 DEF Repeated, Map1, Map2, Map4
  <2> QED BY <1>4, <2>1, OpenedAfter
<1>5. CASE command \in Map4
  <2>1. InsertKeys(g, keys) \in After(g)
    BY <1>2, KeysAfter
  <2>2. Repeated(command, e, n, keys) = InsertKeys(g, keys)
    BY <1>1, <1>5 DEF Repeated, Map1, Map2, Map4
  <2> QED BY <1>2, <2>1, <2>2, AfterAfter
<1>6. CASE command \in OtherCommands
  <2>1. Repeated(command, e, n, keys) = g
    BY <1>1, <1>6 DEF Repeated, Map1, Map2, Map4, OtherCommands, Map3
  <2> QED BY <1>2, <2>1
<1> QED BY <1>3, <1>4, <1>5, <1>6 DEF InsertCommands

-----------------------------------------------------------------------------
(* Types *)

Bounded(e) ==
  e.ok => IF e.rows = <<>> THEN e.fr = 0 /\ e.fc = 0
          ELSE e.fr \in 0..Len(e.rows) - 1 /\ e.fc \in 0..Len(Row(e))

LEMMA BoundedText ==
  ASSUME NEW e \in Editors, Bounded(e), e.ok, e.rows # <<>>
  PROVE  OnText(e) /\ e.fr < Len(e.rows)
  BY Parts DEF Bounded, OnText, OnRow

\* editorScroll moves nothing but the cursor, and puts it on the text
LEMMA ScrollIs ==
  ASSUME NEW e \in Editors, NEW m, NEW f, f = Scroll(e, m)
  PROVE  /\ f \in Editors /\ f.rows = e.rows /\ f.dirty = e.dirty /\ f.ok = e.ok
         /\ Bounded(f)
<1>0. /\ e.rows \in Seq(Line) /\ e.fr \in Nat /\ e.fc \in Nat /\ Len(e.rows) \in Nat
      /\ e.rows # <<>> => Len(e.rows) > 0
  BY Parts
<1>1. CASE e.rows = <<>>
  <2>1. f = [e EXCEPT !.fr = 0, !.fc = 0]
    BY <1>1 DEF Scroll
  <2>2. /\ f \in Editors /\ f.rows = e.rows /\ f.dirty = e.dirty /\ f.ok = e.ok
        /\ f.fr = 0 /\ f.fc = 0
    <3>1. PICK z \in Nat : z = 0
      OBVIOUS
    <3>2. f = [e EXCEPT !.fr = z, !.fc = z]
      BY <2>1, <3>1
    <3>3. f.fr = z /\ f.fc = z
      BY <3>2 DEF Editors
    <3>4. f \in Editors
      BY <3>2 DEF Editors
    <3>5. f.rows = e.rows /\ f.dirty = e.dirty /\ f.ok = e.ok
      BY <3>2 DEF Editors
    <3> QED BY <3>1, <3>3, <3>4, <3>5
  <2> QED BY <1>1, <2>2 DEF Bounded
<1>2. CASE e.rows # <<>>
  <2>1. PICK r \in Nat : r = Lesser(e.fr, Len(e.rows) - 1) /\ r <= Len(e.rows) - 1
    BY <1>0, <1>2 DEF Lesser
  <2>2. PICK size \in Nat : size = Len(e.rows[r + 1])
    <3>1. r + 1 \in 1..Len(e.rows)
      BY <1>0, <2>1
    <3> QED BY <3>1, Parts
  <2>3. PICK last : last = IF m = "INSERT" \/ size = 0 THEN size ELSE size - 1
    OBVIOUS
  <2>4. PICK c \in Nat : c = (IF e.fc < size THEN e.fc ELSE last) /\ c <= size
    BY <1>0, <2>3
  <2>5. f = [e EXCEPT !.fr = r, !.fc = c]
    BY <1>2, <2>1, <2>2, <2>3, <2>4 DEF Scroll
  <2>6. /\ f \in Editors /\ f.rows = e.rows /\ f.dirty = e.dirty /\ f.ok = e.ok
        /\ f.fr = r /\ f.fc = c
    BY <2>5 DEF Editors
  <2>7. Len(Row(f)) = size
    BY <2>2, <2>6 DEF Row
  <2> QED BY <1>0, <1>2, <2>1, <2>4, <2>6, <2>7 DEF Bounded
<1> QED BY <1>1, <1>2

LEMMA FailedBounded == ASSUME NEW e \in Editors PROVE Failed(e) \in Editors /\ Bounded(Failed(e))
<1>1. PICK f : f = Failed(e)
  OBVIOUS
<1>2. f \in Editors /\ ~f.ok
  BY <1>1, FailedIs
<1> QED BY <1>1, <1>2 DEF Bounded

LEMMA NoteIs ==
  ASSUME NEW rows \in Texts
  PROVE  Note(rows) \in Texts
  BY EmptyRow, TextsAre DEF Note

LEMMA KeysLine ==
  ASSUME EditorUndoAssumption
  PROVE  Keys \subseteq AnyKey /\ \A keys \in Seq(Keys) : keys \in Line
<1>1. Keys \subseteq AnyKey
  BY DEF Keys, AnyKey, EditorUndoAssumption
<1> QED BY <1>1, SeqMonotonic DEF Line

LEMMA NumRowsIs ==
  ASSUME NEW A, NEW keys \in Seq(A)
  PROVE  NumRows(keys) \in Nat /\ NumRows(keys) > 0
<1>1. IsFiniteSet(1..Len(keys)) /\ DOMAIN keys = 1..Len(keys)
  BY FS_Interval
<1>2. IsFiniteSet({i \in DOMAIN keys : keys[i] = Return})
  BY <1>1, FS_Subset
<1>3. Cardinality({i \in DOMAIN keys : keys[i] = Return}) \in Nat
  BY <1>2, FS_CardinalityType
<1> QED BY <1>3 DEF NumRows

Cursors == [fr : Nat, fc : Nat]

SoundDiffs == {d \in Diffs : d.method = "CHANGE_ROW_AND_DELETE_ROWS" =>
                 d.command \in LineCommands /\ d.rows # <<>> /\ d.num_rows > 0}

LEMMA DiffParts ==
  ASSUME NEW d \in Diffs
  PROVE  /\ d.fr \in Nat /\ d.fc \in Nat /\ d.repeat \in Nat /\ d.num_rows \in Nat
         /\ d.typed \in Seq(Keys) /\ d.command \in InsertCommands \cup OtherCommands
         /\ d.rows \in Texts /\ d.rows \in Seq(Line)
         /\ d.method \in {"CHANGE_ROW", "CHANGE_ROW_AND_DELETE_ROWS", "ADD_ROWS",
                          "DELETE_ROWS", "REPLACE_NOTE"}
<1>1. d.rows \in Texts
  BY DEF Diffs
<1> QED BY <1>1, TextsAre
        DEF Diffs, LineCommands, InsertCommands, OtherCommands, Map1, Map2, Map3, Map4

LEMMA KeptIn ==
  ASSUME NEW command \in InsertCommands \cup OtherCommands, NEW n \in Nat,
         NEW snap \in Texts, NEW at \in Cursors, Keepable(command, n, snap, at)
  PROVE  /\ Kept(command, n, snap, at) \in Texts
         /\ command \in LineCommands => Kept(command, n, snap, at) # <<>>
<1>0. snap \in Seq(Line) /\ at.fr \in Nat /\ Len(snap) \in Nat
  BY TextsAre DEF Cursors
<1>1. CASE command \in LineCommands
  <2>1. at.fr + 1 \in 1..Len(snap)
    BY <1>0, <1>1 DEF Keepable, LineCommands
  <2>2. snap[at.fr + 1] \in Line
    BY <1>0, <2>1, ElementOfSeq
  <2>3. PICK x \in Line : x = snap[at.fr + 1]
    BY <2>2
  <2>4. Kept(command, n, snap, at) = <<x>>
    BY <1>1, <2>3 DEF Kept, LineCommands
  <2> QED BY <2>4, TextsAre
<1>2. CASE command = "dd"
  <2>1. at.fr \in Num /\ at.fr + n \in Num /\ at.fr <= Len(snap) /\ at.fr + n <= Len(snap)
    BY <1>0, <1>2 DEF Keepable, Num, LineCommands
  <2>2. SubSeq(snap, at.fr + 1, at.fr + n) \in Seq(Line)
    BY <1>0, <2>1, SliceIn
  <2> QED BY <1>2, <2>2, TextsAre DEF Kept, LineCommands
<1>3. CASE command \notin LineCommands /\ command # "dd"
  BY <1>3, EmptyRow, TextsAre DEF Kept
<1> QED BY <1>1, <1>2, <1>3

\* push_current
LEMMA DiffOfIn ==
  ASSUME EditorUndoAssumption, buffer \in Texts,
         NEW command \in InsertCommands \cup OtherCommands, NEW n \in Nat,
         NEW keys \in Seq(Keys), NEW snap \in Texts, NEW at \in Cursors,
         Keepable(command, n, snap, at),
         command = "p" /\ buffer = <<>> => at.fr < Len(snap)
  PROVE  DiffOf(command, n, keys, snap, at) \in SoundDiffs
<1>1. PICK num \in Nat : num = NumRows(keys) /\ num > 0
  BY NumRowsIs
<1>2. PICK rows : rows = IF command # "p" THEN Kept(command, n, snap, at)
                         ELSE IF buffer # <<>> THEN buffer ELSE << snap[at.fr + 1] >>
  OBVIOUS
<1>3. rows \in Texts /\ (command \in LineCommands => rows # <<>>)
  <2>1. CASE command # "p"
    BY <1>2, <2>1, KeptIn
  <2>2. CASE command = "p" /\ buffer # <<>>
    BY <1>2, <2>2 DEF LineCommands
  <2>3. CASE command = "p" /\ buffer = <<>>
    <3>1. snap \in Seq(Line) /\ at.fr + 1 \in 1..Len(snap)
      BY <2>3, TextsAre DEF Cursors
    <3>2. PICK x \in Line : x = snap[at.fr + 1]
      BY <3>1, ElementOfSeq
    <3>3. rows = <<x>>
      BY <1>2, <2>3, <3>2
    <3> QED BY <2>3, <3>3, TextsAre DEF LineCommands
  <2> QED BY <2>1, <2>2, <2>3
<1>4. PICK m : m = Method(command, num)
  OBVIOUS
<1>5. /\ m \in {"CHANGE_ROW", "CHANGE_ROW_AND_DELETE_ROWS", "ADD_ROWS", "DELETE_ROWS"}
      /\ m = "CHANGE_ROW_AND_DELETE_ROWS" => command \in LineCommands
  BY <1>4 DEF Method, LineCommands, InsertCommands, OtherCommands, Map1, Map2, Map3, Map4
<1>6. PICK k : k = IF command # "p" THEN num ELSE IF buffer # <<>> THEN Len(buffer) ELSE 1
  OBVIOUS
<1>7. k \in Nat /\ (command \in LineCommands => k > 0)
  BY <1>1, <1>6, TextsAre DEF LineCommands
<1>8. PICK d : d = DiffOf(command, n, keys, snap, at)
  OBVIOUS
<1>9. d = [fr |-> at.fr, fc |-> at.fc, repeat |-> n, command |-> command, typed |-> keys,
           method |-> m, rows |-> rows, num_rows |-> k]
  BY <1>1, <1>2, <1>4, <1>6, <1>8 DEF DiffOf
<1>10. command \in LineCommands \cup Map2 \cup Map3 \cup {"p"}
  BY DEF LineCommands, InsertCommands, OtherCommands, Map1, Map2, Map3, Map4
<1>11. d \in Diffs
  BY <1>3, <1>5, <1>7, <1>9, <1>10 DEF Diffs, Cursors
<1> QED BY <1>3, <1>5, <1>7, <1>8, <1>9, <1>11 DEF SoundDiffs

\* push_previous
LEMMA DiffAgainIn ==
  ASSUME NEW d \in SoundDiffs, buffer \in Texts, NEW n \in Nat, NEW snap \in Texts,
         NEW at \in Cursors, Keepable(d.command, n, snap, at)
  PROVE  DiffAgain(d, n, snap, at) \in SoundDiffs
<1>1. d \in Diffs /\ d.command \in InsertCommands \cup OtherCommands
  BY DiffParts DEF SoundDiffs
<1>2. PICK rows : rows = IF d.command = "p" THEN buffer
                         ELSE IF d.command \in Map2 THEN snap
                         ELSE Kept(d.command, n, snap, at)
  OBVIOUS
<1>3. rows \in Texts /\ (d.command \in LineCommands => rows # <<>>)
  BY <1>1, <1>2, KeptIn DEF LineCommands, Map2
<1>4. PICK m : m = IF d.command \in Map2 THEN "REPLACE_NOTE" ELSE d.method
  OBVIOUS
<1>5. PICK r : r = IF d.command = "p" THEN at.fr + 1 ELSE at.fr
  OBVIOUS
<1>6. r \in Nat /\ at.fc \in Nat
  BY <1>5 DEF Cursors
<1>7. PICK f : f = [d EXCEPT !.fr = r, !.fc = at.fc, !.method = m, !.rows = rows]
  OBVIOUS
<1>8. /\ f \in Diffs /\ f.method = m /\ f.rows = rows /\ f.command = d.command
      /\ f.num_rows = d.num_rows
  BY <1>1, <1>3, <1>4, <1>6, <1>7 DEF Diffs
<1>9. f \in SoundDiffs
  BY <1>3, <1>4, <1>8 DEF SoundDiffs
<1>10. DiffAgain(d, n, snap, at) = f
  BY <1>2, <1>4, <1>5, <1>7 DEF DiffAgain
<1> QED BY <1>9, <1>10

LEMMA SetIn ==
  ASSUME NEW A, NEW s \in Seq(A), NEW i \in 1..Len(s), NEW x \in A
  PROVE  SetTo(s, i, x) \in Seq(A)
  BY ExceptSeq DEF SetTo

\* undo
LEMMA UndoneIn ==
  ASSUME NEW rows \in Texts, NEW d \in SoundDiffs, CanUndo(rows, d)
  PROVE  Undone(rows, d) \in Texts
<1>0. /\ d.fr \in Nat /\ d.num_rows \in Nat /\ d.rows \in Seq(Line) /\ rows \in Seq(Line)
      /\ d.rows # <<>> => d.rows[1] \in Line
      /\ d.method \in {"CHANGE_ROW", "CHANGE_ROW_AND_DELETE_ROWS", "ADD_ROWS",
                       "DELETE_ROWS", "REPLACE_NOTE"}
      /\ d.method = "CHANGE_ROW_AND_DELETE_ROWS" => d.rows # <<>> /\ d.num_rows > 0
  <2>1. d \in Diffs /\ d.method = "CHANGE_ROW_AND_DELETE_ROWS" => d.rows # <<>> /\ d.num_rows > 0
    BY DEF SoundDiffs
  <2>2. d \in Diffs
    BY DEF SoundDiffs
  <2>3. d.rows \in Seq(Line)
    BY <2>2, DiffParts
  <2>4. d.rows # <<>> => d.rows[1] \in Line
    BY <2>3
  <2> QED BY <2>1, <2>2, <2>3, <2>4, DiffParts, TextsAre
<1>1. CASE d.method = "CHANGE_ROW"
  <2>1. d.fr + 1 \in 1..Len(rows) /\ d.rows[1] \in Line
    BY <1>0, <1>1 DEF CanUndo
  <2>2. Undone(rows, d) = SetTo(rows, d.fr + 1, d.rows[1])
    BY <1>1 DEF Undone, SetTo
  <2> QED BY <1>0, <2>1, <2>2, SetIn, TextsAre
<1>2. CASE d.method = "ADD_ROWS"
  <2>1. d.fr \in Num /\ d.fr <= Len(rows)
    BY <1>0, <1>2 DEF CanUndo, Num
  <2>2. Undone(rows, d) = Put(rows, d.fr, d.rows)
    BY <1>2 DEF Undone
  <2> QED BY <1>0, <2>1, <2>2, PutIn, TextsAre
<1>3. CASE d.method = "DELETE_ROWS"
  <2>1. PICK first : first = First(d)
    OBVIOUS
  <2>2. first \in Num /\ d.num_rows \in Num /\ first + d.num_rows <= Len(rows)
    BY <1>0, <1>3, <2>1 DEF CanUndo, First, Num
  <2>3. Undone(rows, d) = Cut(rows, first, d.num_rows)
    BY <1>3, <2>1 DEF Undone
  <2> QED BY <1>0, <2>2, <2>3, CutIn, TextsAre
<1>4. CASE d.method = "REPLACE_NOTE"
  BY <1>0, <1>4, TextsAre DEF Undone
<1>5. CASE d.method = "CHANGE_ROW_AND_DELETE_ROWS"
  <2>1. /\ d.fr + 1 \in Num /\ d.num_rows - 1 \in Num
        /\ d.fr + 1 + (d.num_rows - 1) <= Len(rows) /\ d.rows[1] \in Line
    BY <1>0, <1>5 DEF CanUndo, Num
  <2>2. PICK s : s = Cut(rows, d.fr + 1, d.num_rows - 1)
    OBVIOUS
  <2>3. s \in Seq(Line) /\ Len(s) = Len(rows) - (d.num_rows - 1)
    BY <1>0, <2>1, <2>2, CutIn
  <2>4. d.fr + 1 \in 1..Len(s)
    BY <1>0, <2>1, <2>3
  <2>5. Undone(rows, d) = SetTo(s, d.fr + 1, d.rows[1])
    BY <1>5, <2>2 DEF Undone, SetTo
  <2> QED BY <2>1, <2>3, <2>4, <2>5, SetIn, TextsAre
<1> QED BY <1>0, <1>1, <1>2, <1>3, <1>4, <1>5

TextInv    == ed \in Editors /\ Bounded(ed)
HistoryInv ==
  /\ undo_deque \in Seq(SoundDiffs) /\ d_index \in Nat
  /\ timeline \in Seq(Texts) /\ Len(timeline) = Len(undo_deque) + 1
  /\ undo_deque # <<>> => d_index <= Len(undo_deque)
OtherInv ==
  /\ mode \in {"NORMAL", "INSERT", "NO_ROWS", "CLOSED"}
  /\ prev \in Cursors /\ snapshot \in Texts
  /\ lastCommand \in InsertCommands \cup OtherCommands \cup {""}
  /\ lastRepeat \in 0..MaxRepeat /\ lastTyped \in Seq(Keys)
  /\ buffer \in Texts /\ saved \in Texts
  /\ stuck \in BOOLEAN /\ plain \in BOOLEAN /\ changes \in 0..MaxChanges
  /\ mode = "INSERT" => lastCommand \in InsertCommands /\ lastRepeat > 0
  /\ undo_deque # <<>> => lastCommand # ""
TypeInv == TextInv /\ HistoryInv /\ OtherInv

LEMMA TypeInvTypes == TypeInv => TypeOK
<1> SUFFICES ASSUME TypeInv PROVE TypeOK
  OBVIOUS
<1>1. undo_deque \in Seq(Diffs)
  <2>1. undo_deque \in Seq(SoundDiffs)
    BY DEF TypeInv, HistoryInv
  <2>2. SoundDiffs \subseteq Diffs
    BY DEF SoundDiffs
  <2> QED BY <2>1, <2>2, SeqMonotonic
<1>2. d_index \in Nat /\ timeline \in Seq(Texts)
  BY DEF TypeInv, HistoryInv
<1>3. ed \in Editors /\ Bounded(ed)
  BY DEF TypeInv, TextInv
<1>4. OtherInv
  BY DEF TypeInv
<1> QED BY <1>1, <1>2, <1>3, <1>4 DEF TypeOK, OtherInv, Bounded, Cursors

LEMMA OneMore ==
  ASSUME NEW A, NEW x \in A, NEW s \in Seq(A)
  PROVE  <<x>> \o s \in Seq(A) /\ Len(<<x>> \o s) = Len(s) + 1 /\ <<x>> \o s # <<>>
<1>1. PICK o : o = One(x)
  OBVIOUS
<1>2. o \in Seq(A) /\ Len(o) = 1
  BY <1>1, OneIs
<1>3. Cat(o, s) \in Seq(A) /\ Len(Cat(o, s)) = Len(o) + Len(s) /\ Len(s) \in Nat
  BY <1>2, CatIn
<1>4. <<x>> \o s = Cat(o, s)
  BY <1>1 DEF Cat, One
<1>5. Cat(o, s) # <<>>
  BY <1>2, <1>3
<1> QED BY <1>2, <1>3, <1>4, <1>5

\* a key that ends on e
LEMMA ShownTypes ==
  ASSUME NEW e \in Editors, NEW m, Shown(e, m)
  PROVE  /\ TextInv' /\ mode' \in {m, "NO_ROWS"} /\ (m # "NORMAL" => mode' = m)
         /\ ed'.rows = e.rows /\ ed'.dirty = e.dirty /\ ed'.ok = e.ok
  BY ScrollIs DEF Shown, TextInv

LEMMA PushTypes ==
  ASSUME EditorUndoAssumption, buffer \in Texts, HistoryInv,
         NEW command \in InsertCommands \cup OtherCommands, NEW n \in Nat,
         NEW keys \in Seq(Keys), NEW snap \in Texts, NEW at \in Cursors, NEW m,
         NEW rows, NEW e \in Editors, PushCurrent(rows, e, command, n, keys, snap, at, m),
         command = "p" /\ buffer = <<>> /\ e.ok /\ rows # <<>> => at.fr < Len(snap)
  PROVE  /\ TextInv' /\ HistoryInv' /\ mode' \in {m, "NO_ROWS"}
         /\ \E f \in {e, Failed(e)} : ed'.rows = f.rows /\ ed'.dirty = f.dirty /\ ed'.ok = f.ok
<1>1. CASE ~e.ok \/ rows = <<>>
  <2>1. Shown(e, m) /\ UNCHANGED <<undo_deque, d_index, timeline>>
    BY <1>1 DEF PushCurrent, history
  <2>2. HistoryInv'
    BY <2>1 DEF HistoryInv
  <2> QED BY <2>1, <2>2, ShownTypes
<1>2. CASE ~(~e.ok \/ rows = <<>>) /\ ~Keepable(command, n, snap, at)
  <2>1. Shown(Failed(e), m) /\ UNCHANGED <<undo_deque, d_index, timeline>>
    BY <1>2 DEF PushCurrent, history
  <2>2. HistoryInv'
    BY <2>1 DEF HistoryInv
  <2>3. Failed(e) \in Editors
    BY FailedBounded
  <2> QED BY <2>1, <2>2, <2>3, ShownTypes
<1>3. CASE ~(~e.ok \/ rows = <<>>) /\ Keepable(command, n, snap, at)
  <2>1. /\ Shown(e, m) /\ d_index' = 0
        /\ undo_deque' = << DiffOf(command, n, keys, snap, at) >> \o
                         (IF d_index # 0 THEN <<>> ELSE undo_deque)
        /\ timeline' = << Note(e.rows), Note(snap) >> \o
                       (IF d_index = 0 THEN Tail(timeline) ELSE <<>>)
    BY <1>3 DEF PushCurrent
  <2>2. PICK d \in SoundDiffs : d = DiffOf(command, n, keys, snap, at)
    BY <1>3, DiffOfIn
  <2>3. PICK old \in Seq(SoundDiffs) : old = IF d_index # 0 THEN <<>> ELSE undo_deque
    BY EmptySeq DEF HistoryInv
  <2>4. undo_deque' \in Seq(SoundDiffs) /\ Len(undo_deque') = Len(old) + 1
    BY <2>1, <2>2, <2>3, OneMore
  <2>5. PICK x \in Texts, y \in Texts : x = Note(e.rows) /\ y = Note(snap)
    BY Parts, TextsAre, NoteIs
  <2>6. PICK past \in Seq(Texts) :
          past = (IF d_index = 0 THEN Tail(timeline) ELSE <<>>) /\ Len(past) = Len(old)
    <3>1. CASE d_index = 0
      <4>1. timeline \in Seq(Texts) /\ timeline # <<>> /\ Len(timeline) = Len(undo_deque) + 1
        BY DEF HistoryInv
      <4>2. Tail(timeline) \in Seq(Texts) /\ Len(Tail(timeline)) = Len(timeline) - 1
        BY <4>1, HeadTailProperties
      <4>3. Len(undo_deque) \in Nat
        BY DEF HistoryInv
      <4>4. PICK p \in Seq(Texts) : p = Tail(timeline) /\ Len(p) = Len(timeline) - 1
        BY <4>2
      <4>5. old = undo_deque
        BY <2>3, <3>1
      <4>6. Len(p) = Len(old)
        BY <4>1, <4>3, <4>4, <4>5
      <4> QED BY <3>1, <4>4, <4>6
    <3>2. CASE d_index # 0
      <4>1. <<>> \in Seq(Texts) /\ Len(<<>>) = 0
        BY EmptySeq
      <4> QED BY <2>3, <3>2, <4>1
    <3> QED BY <3>1, <3>2
  <2>7. timeline' = Cat(Cat(One(x), One(y)), past)
    <3>1. Cat(One(x), One(y)) = <<x, y>>
      BY TwoIs
    <3> QED BY <2>1, <2>5, <2>6, <3>1 DEF Cat
  <2>8. timeline' \in Seq(Texts) /\ Len(timeline') = Len(past) + 2
    <3>1. One(x) \in Seq(Texts) /\ One(y) \in Seq(Texts) /\ Len(One(x)) = 1 /\ Len(One(y)) = 1
      BY OneIs
    <3>2. PICK two : two = Cat(One(x), One(y))
      OBVIOUS
    <3>3. two \in Seq(Texts) /\ Len(two) = Len(One(x)) + Len(One(y))
      <4>1. One(x) \in Seq(Texts) /\ One(y) \in Seq(Texts)
        BY <3>1
      <4> QED BY ONLY <3>2, <4>1, CatIn
    <3>4. Cat(two, past) \in Seq(Texts) /\ Len(Cat(two, past)) = Len(two) + Len(past)
          /\ Len(past) \in Nat
      <4>1. two \in Seq(Texts) /\ past \in Seq(Texts)
        BY <2>6, <3>3
      <4> QED BY ONLY <4>1, CatIn
    <3> QED BY <2>7, <3>1, <3>2, <3>3, <3>4
  <2>9. Len(old) \in Nat
    BY <2>3
  <2>10. HistoryInv'
    BY <2>1, <2>4, <2>6, <2>8, <2>9 DEF HistoryInv
  <2> QED BY <2>1, <2>10, ShownTypes
<1> QED BY <1>1, <1>2, <1>3

LEMMA TypeInit == EditorUndoAssumption /\ Init => TypeInv
<1> SUFFICES ASSUME EditorUndoAssumption, Init PROVE TypeInv
  OBVIOUS
<1>1. PICK note \in Notes :
        /\ ed = [rows |-> note, fr |-> 0, fc |-> 0, dirty |-> FALSE, ok |-> TRUE]
        /\ mode = IF note = <<>> THEN "INSERT" ELSE "NORMAL"
        /\ prev = [fr |-> 0, fc |-> 0]
        /\ snapshot = IF note = <<>> THEN << <<>> >> ELSE <<>>
        /\ lastCommand = IF note = <<>> THEN "i" ELSE ""
        /\ lastRepeat = 1 /\ lastTyped = <<>>
        /\ buffer = <<>>
        /\ undo_deque = <<>> /\ d_index \in {0, 1}
        /\ timeline = << Note(note) >>
        /\ stuck = FALSE /\ saved = Note(note)
        /\ changes = 0 /\ plain = TRUE
  BY DEF Init
<1>2. note \in Texts /\ note \in Seq(Line)
  <2>1. note \in Seq(Seq(Letters))
    BY DEF EditorUndoAssumption
  <2>2. Seq(Letters) \subseteq Line
    BY SeqMonotonic DEF Line, AnyKey
  <2>3. note \in Seq(Line)
    BY <2>1, <2>2, SeqMonotonic
  <2> QED BY <2>3, TextsAre
<1>3. TextInv
  <2>1. PICK z \in Nat, no \in BOOLEAN, yes \in BOOLEAN :
          ed = [rows |-> note, fr |-> z, fc |-> z, dirty |-> no, ok |-> yes] /\ z = 0 /\ yes
    BY <1>1
  <2>2. ed \in Editors
    BY <1>2, <2>1 DEF Editors
  <2>3. ed.fr = z /\ ed.fc = z /\ ed.rows = note
    BY <2>1
  <2>4. note # <<>> => Len(note) \in Nat /\ Len(note) > 0 /\ Len(note[1]) \in Nat
    <3>1. ASSUME note # <<>> PROVE 1 \in 1..Len(note) /\ Len(note) \in Nat /\ Len(note) > 0
      BY <1>2, <3>1
    <3>2. ASSUME note # <<>> PROVE note[1] \in Line
      BY <1>2, <3>1, <3>2, ElementOfSeq
    <3> QED BY <3>1, <3>2 DEF Line
  <2> QED BY <2>1, <2>2, <2>3, <2>4 DEF TextInv, Bounded, Row
<1>4. HistoryInv
  <2>1. PICK x \in Texts : timeline = <<x>>
    BY <1>1, <1>2, NoteIs
  <2>2. undo_deque \in Seq(SoundDiffs) /\ Len(undo_deque) = 0
    BY <1>1, EmptySeq
  <2>3. d_index \in Nat
    <3>1. d_index \in {0, 1}
      BY DEF Init
    <3> QED BY <3>1
  <2>4. timeline \in Seq(Texts) /\ Len(timeline) = 1
    BY <2>1
  <2>5. undo_deque = <<>>
    BY <1>1
  <2> QED BY <2>2, <2>3, <2>4, <2>5 DEF HistoryInv
<1>5. OtherInv
  <2>1. snapshot \in Texts /\ buffer \in Texts /\ saved \in Texts
    BY <1>1, <1>2, EmptyRow, TextsAre, NoteIs
  <2>2. prev \in Cursors
    BY <1>1 DEF Cursors
  <2>3. lastTyped \in Seq(Keys)
    BY <1>1, EmptySeq
  <2>4. lastRepeat \in 0..MaxRepeat /\ lastRepeat > 0 /\ changes \in 0..MaxChanges
    <3>1. MaxRepeat \in Nat \ {0} /\ MaxChanges \in Nat
      BY DEF EditorUndoAssumption
    <3>2. lastRepeat = 1 /\ changes = 0
      BY <1>1
    <3> QED BY <3>1, <3>2
  <2>5. /\ mode \in {"NORMAL", "INSERT", "NO_ROWS", "CLOSED"}
        /\ mode = "INSERT" => lastCommand \in InsertCommands
        /\ lastCommand \in InsertCommands \cup OtherCommands \cup {""}
    BY <1>1 DEF InsertCommands, Map1
  <2>6. undo_deque = <<>> /\ stuck \in BOOLEAN /\ plain \in BOOLEAN
    BY <1>1
  <2> QED BY <2>1, <2>2, <2>3, <2>4, <2>5, <2>6 DEF OtherInv
<1> QED BY <1>3, <1>4, <1>5 DEF TypeInv

\* what the steps have in common
Known == EditorUndoAssumption /\ TypeInv

LEMMA KnownIs ==
  ASSUME Known
  PROVE  /\ EditorUndoAssumption /\ TextInv /\ HistoryInv /\ OtherInv
         /\ ed \in Editors /\ Bounded(ed) /\ buffer \in Texts /\ lastTyped \in Seq(Keys)
         /\ lastTyped \in Line /\ prev \in Cursors /\ snapshot \in Texts /\ saved \in Texts
         /\ ed.rows \in Texts /\ [fr |-> ed.fr, fc |-> ed.fc] \in Cursors
         /\ lastRepeat \in Nat /\ plain \in BOOLEAN
<1>1. ed.rows \in Texts /\ ed.fr \in Nat /\ ed.fc \in Nat
  BY Parts, TextsAre DEF Known, TypeInv, TextInv
<1>2. lastTyped \in Line
  BY KeysLine DEF Known, TypeInv, OtherInv
<1>3. /\ EditorUndoAssumption /\ TextInv /\ HistoryInv /\ OtherInv
      /\ ed \in Editors /\ Bounded(ed)
  BY DEF Known, TypeInv, TextInv
<1>4. /\ buffer \in Texts /\ lastTyped \in Seq(Keys) /\ prev \in Cursors /\ snapshot \in Texts
      /\ saved \in Texts /\ plain \in BOOLEAN /\ lastRepeat \in 0..MaxRepeat
  BY <1>3 DEF OtherInv
<1>5. [fr |-> ed.fr, fc |-> ed.fc] \in Cursors
  BY <1>1 DEF Cursors
<1>6. lastRepeat \in Nat
  BY <1>4 DEF EditorUndoAssumption
<1> QED BY <1>1, <1>2, <1>3, <1>4, <1>5, <1>6

LEMMA ExcludingIs ==
  ASSUME NEW uses, plain \in BOOLEAN, Excluding(uses)
  PROVE  plain' \in BOOLEAN
  BY DEF Excluding

LEMMA YankedIn ==
  ASSUME NEW command, NEW e \in Editors, NEW n \in Nat, buffer \in Texts
  PROVE  Yanked(command, e, n) \in Texts
  BY TakenIn, TextsAre DEF Yanked

LEMMA CountUp ==
  ASSUME Known, changes < MaxChanges, changes' = changes + 1
  PROVE  changes' \in 0..MaxChanges
<1>1. changes \in 0..MaxChanges /\ MaxChanges \in Nat
  BY DEF Known, TypeInv, OtherInv, EditorUndoAssumption
<1> QED BY <1>1

LEMMA InsertionTypes ==
  ASSUME Known, NEW command \in InsertCommands, NEW n \in Repeats, Insertion(command, n)
  PROVE  TypeInv'
<1>1. /\ ed \in Editors /\ n \in Nat /\ n > 0 /\ n \in 0..MaxRepeat /\ EditorUndoAssumption
      /\ buffer \in Texts
  BY KnownIs DEF Repeats, EditorUndoAssumption
<1>2. Does(command, ed, n) \in Editors
  <2>1. Does(command, ed, n) \in After(ed)
    BY <1>1, DoesAfter
  <2> QED BY <2>1, AfterIs
<1>3. TextInv' /\ mode' = "INSERT"
  <2>1. Shown(Does(command, ed, n), "INSERT")
    BY DEF Insertion
  <2> QED BY <1>2, <2>1, ShownTypes
<1>4. HistoryInv'
  BY KnownIs DEF Insertion, HistoryInv, history
<1>5. lastTyped' \in Seq(Keys)
  BY KnownIs, EmptySeq DEF Insertion
<1>6. changes' \in 0..MaxChanges
  BY CountUp DEF Insertion, Commanded
<1>7. plain' \in BOOLEAN
  BY KnownIs, ExcludingIs DEF Insertion
<1>8. OtherInv'
  <2>1. /\ prev' = [fr |-> ed.fr, fc |-> ed.fc] /\ snapshot' = ed.rows
        /\ lastCommand' = command /\ lastRepeat' = n
        /\ buffer' = buffer /\ stuck' = stuck /\ saved' = saved
    BY DEF Insertion
  <2>2. prev' \in Cursors /\ snapshot' \in Texts /\ buffer' \in Texts /\ saved' \in Texts
    BY <2>1, KnownIs
  <2>3. stuck' \in BOOLEAN
    BY <2>1 DEF Known, TypeInv, OtherInv
  <2>4. lastCommand' # ""
    BY <2>1 DEF InsertCommands, Map1, Map2, Map4
  <2> QED BY <1>1, <1>3, <1>5, <1>6, <1>7, <2>1, <2>2, <2>3, <2>4 DEF OtherInv
<1> QED BY <1>3, <1>4, <1>8 DEF TypeInv

LEMMA ChangeTypes ==
  ASSUME Known, NEW command \in OtherCommands, NEW n \in Repeats, Change(command, n)
  PROVE  TypeInv'
<1>1. /\ ed \in Editors /\ n \in Nat /\ n \in 0..MaxRepeat /\ EditorUndoAssumption
      /\ buffer \in Texts /\ lastTyped \in Seq(Keys) /\ ed.rows \in Texts /\ Bounded(ed)
      /\ HistoryInv
  BY KnownIs DEF Repeats, EditorUndoAssumption
<1>2. PICK at \in Cursors : at = [fr |-> ed.fr, fc |-> ed.fc]
  BY KnownIs
<1>3. PICK e \in Editors : e = Does(command, ed, n)
  <2>1. Does(command, ed, n) \in After(ed)
    BY <1>1, DoesAfter
  <2> QED BY <2>1, AfterIs
<1>4. /\ PushCurrent(e.rows, e, command, n, lastTyped, ed.rows, at, "NORMAL")
      /\ ed.ok
  BY <1>2, <1>3 DEF Change, Commanded
<1>5. command = "p" /\ buffer = <<>> /\ e.ok /\ e.rows # <<>> => at.fr < Len(ed.rows)
  <2> SUFFICES ASSUME command = "p", buffer = <<>>, e.rows # <<>> PROVE at.fr < Len(ed.rows)
    OBVIOUS
  <2>1. ed.rows # <<>>
    BY <1>1, <1>3, <1>4 DEF Does, Pasted, Editors
  <2>2. ed.fr < Len(ed.rows)
    BY <1>1, <1>4, <2>1, BoundedText
  <2> QED BY <1>2, <2>2
<1>6. TextInv' /\ HistoryInv' /\ mode' \in {"NORMAL", "NO_ROWS"}
  BY <1>1, <1>3, <1>4, <1>5, PushTypes
<1>7. OtherInv'
  <2>1. /\ prev' = at /\ snapshot' = ed.rows
        /\ lastCommand' = command /\ lastRepeat' = n
        /\ buffer' = Yanked(command, ed, n)
        /\ lastTyped' = lastTyped /\ stuck' = stuck /\ saved' = saved
    BY <1>2 DEF Change
  <2>2. prev' \in Cursors /\ snapshot' \in Texts /\ buffer' \in Texts /\ saved' \in Texts
    BY <1>1, <2>1, KnownIs, YankedIn
  <2>3. stuck' \in BOOLEAN
    BY <2>1 DEF Known, TypeInv, OtherInv
  <2>4. changes' \in 0..MaxChanges
    BY CountUp DEF Change, Commanded
  <2>5. plain' \in BOOLEAN
    BY KnownIs, ExcludingIs DEF Change
  <2>6. lastCommand' # ""
    BY <2>1 DEF OtherCommands, Map3
  <2> QED BY <1>1, <1>6, <2>1, <2>2, <2>3, <2>4, <2>5, <2>6 DEF OtherInv
<1> QED BY <1>6, <1>7 DEF TypeInv

LEMMA YankTypes ==
  ASSUME Known, NEW n \in Repeats, YankLine(n)
  PROVE  TypeInv'
<1>1. /\ n \in Nat /\ ed \in Editors /\ Bounded(ed)
  BY KnownIs DEF Repeats
<1>2. TextInv'
  BY <1>1, FailedBounded DEF YankLine, TextInv
<1>3. HistoryInv'
  BY KnownIs DEF YankLine, HistoryInv, history
<1>4. OtherInv'
  <2>1. buffer' = Taken(ed, n) /\ prev' = [fr |-> ed.fr, fc |-> ed.fc] /\ snapshot' = ed.rows
        /\ UNCHANGED <<mode, lastCommand, lastRepeat, lastTyped, undo_deque, stuck, saved>>
    BY DEF YankLine, typing, history
  <2>2. prev' \in Cursors /\ snapshot' \in Texts
    BY <2>1, KnownIs
  <2>3. buffer' \in Texts
    BY <1>1, <2>1, TakenIn, TextsAre
  <2>4. changes' \in 0..MaxChanges
    BY CountUp DEF YankLine, Commanded
  <2>5. plain' \in BOOLEAN
    BY KnownIs, ExcludingIs DEF YankLine
  <2> QED BY <2>1, <2>2, <2>3, <2>4, <2>5, KnownIs DEF OtherInv
<1> QED BY <1>2, <1>3, <1>4 DEF TypeInv

LEMMA MoveTypes == ASSUME Known, Move PROVE TypeInv'
<1>1. ed \in Editors /\ Bounded(ed)
  BY KnownIs
<1>2. TextInv'
  <2>1. CASE ed.rows = <<>>
    BY <1>1, <2>1 DEF Move, TextInv
  <2>2. CASE ed.rows # <<>>
    <3>1. PICK r \in 0..Len(ed.rows) - 1 : \E c \in 0..Len(ed.rows[r + 1]) :
            ed' = Scroll([ed EXCEPT !.fr = r, !.fc = c], mode)
      BY <2>2 DEF Move
    <3>2. PICK c \in 0..Len(ed.rows[r + 1]) :
            ed' = Scroll([ed EXCEPT !.fr = r, !.fc = c], mode)
      BY <3>1
    <3>3. PICK r1 \in Nat, c1 \in Nat : r1 = r /\ c1 = c
      OBVIOUS
    <3>4. PICK e : e = [ed EXCEPT !.fr = r1, !.fc = c1]
      OBVIOUS
    <3>5. e \in Editors
      BY <1>1, <3>4 DEF Editors
    <3>6. ed' = Scroll(e, mode)
      BY <3>2, <3>3, <3>4
    <3> QED BY <3>5, <3>6, ScrollIs DEF TextInv
  <2> QED BY <2>1, <2>2
<1>3. HistoryInv'
  BY KnownIs DEF Move, HistoryInv, history
<1>4. OtherInv'
  BY KnownIs DEF Move, OtherInv, history, typing, before
<1> QED BY <1>2, <1>3, <1>4 DEF TypeInv

LEMMA UndoTypes == ASSUME Known, Undo PROVE TypeInv'
<1>1. ed \in Editors /\ Bounded(ed) /\ HistoryInv
  BY KnownIs
<1>2. OtherInv'
  BY KnownIs DEF Undo, OtherInv, typing, before
<1>3. undo_deque' = undo_deque /\ timeline' = timeline
  BY DEF Undo
<1>4. CASE undo_deque = <<>> \/ d_index = Len(undo_deque)
  <2>1. ed' = ed /\ d_index' = d_index
    BY <1>4 DEF Undo
  <2> QED BY <1>1, <1>2, <1>3, <2>1 DEF TypeInv, TextInv, HistoryInv
<1>5. CASE ~(undo_deque = <<>> \/ d_index = Len(undo_deque))
  <2>1. PICK d : d = undo_deque[d_index + 1]
    OBVIOUS
  <2>2. PICK e : e = [ed EXCEPT !.rows = Undone(ed.rows, d), !.fr = d.fr, !.fc = d.fc]
    OBVIOUS
  <2>3. /\ ed' = IF CanUndo(ed.rows, d) THEN Scroll(e, mode) ELSE Failed(ed)
        /\ d_index' = d_index + 1
    BY <1>5, <2>1, <2>2 DEF Undo
  <2>4. d_index + 1 \in 1..Len(undo_deque) /\ undo_deque \in Seq(SoundDiffs)
    BY <1>1, <1>5 DEF HistoryInv
  <2>5. d \in SoundDiffs
    BY <2>1, <2>4, ElementOfSeq
  <2>6. TextInv'
    <3>1. CASE CanUndo(ed.rows, d)
      <4>1. PICK rows \in Texts, r \in Nat, c \in Nat :
              rows = Undone(ed.rows, d) /\ r = d.fr /\ c = d.fc
        BY <2>5, <3>1, KnownIs, UndoneIn, DiffParts DEF SoundDiffs
      <4>2. e = [ed EXCEPT !.rows = rows, !.fr = r, !.fc = c]
        BY <2>2, <4>1
      <4>3. e \in Editors
        BY <1>1, <4>2 DEF Editors
      <4> QED BY <2>3, <3>1, <4>3, ScrollIs DEF TextInv
    <3>2. CASE ~CanUndo(ed.rows, d)
      BY <1>1, <2>3, <3>2, FailedBounded DEF TextInv
    <3> QED BY <3>1, <3>2
  <2>7. HistoryInv'
    BY <1>1, <1>3, <2>3, <2>4 DEF HistoryInv
  <2> QED BY <1>2, <2>6, <2>7 DEF TypeInv
<1> QED BY <1>4, <1>5

LEMMA RedoTypes == ASSUME Known, Redo PROVE TypeInv'
<1>1. ed \in Editors /\ Bounded(ed) /\ HistoryInv
  BY KnownIs
<1>2. /\ d_index' = (IF d_index > 0 THEN d_index - 1 ELSE 0)
      /\ undo_deque' = undo_deque /\ timeline' = timeline
  BY DEF Redo
<1>3. HistoryInv'
  BY <1>1, <1>2 DEF HistoryInv
<1>4. TextInv' /\ buffer' \in Texts /\ lastTyped' \in Seq(Keys) /\ mode' \in {"NORMAL", "NO_ROWS"}
      /\ plain' \in BOOLEAN
  <2>1. CASE d_index = 0
    <3>1. UNCHANGED <<ed, mode, lastTyped, buffer, plain>> /\ mode = "NORMAL"
      BY <2>1 DEF Redo
    <3> QED BY <1>1, <3>1, KnownIs DEF TextInv
  <2>2. CASE d_index # 0 /\ d_index > Len(undo_deque)
    <3>1. /\ ed' = Failed(ed) /\ UNCHANGED <<mode, lastTyped, buffer>> /\ mode = "NORMAL"
          /\ Excluding(TRUE)
      BY <2>2 DEF Redo
    <3> QED BY <1>1, <3>1, KnownIs, FailedBounded, ExcludingIs DEF TextInv
  <2>3. CASE d_index # 0 /\ ~(d_index > Len(undo_deque))
    <3>1. PICK d : d = undo_deque[d_index]
      OBVIOUS
    <3>2. RedoOf(d) /\ mode = "NORMAL"
      BY <2>3, <3>1 DEF Redo
    <3>3. d_index \in 1..Len(undo_deque) /\ undo_deque \in Seq(SoundDiffs)
      BY <1>1, <2>3 DEF HistoryInv
    <3>4. d \in SoundDiffs
      BY <3>1, <3>3, ElementOfSeq
    <3>5. /\ d.fr \in Nat /\ d.fc \in Nat /\ d.repeat \in Nat /\ d.typed \in Seq(Keys)
          /\ d.typed \in Line /\ d.command \in InsertCommands \cup OtherCommands
      BY <3>4, KnownIs, DiffParts, KeysLine DEF SoundDiffs
    <3>6. PICK start : start = [ed EXCEPT !.fr = d.fr, !.fc = d.fc]
      OBVIOUS
    <3>7. start \in Editors
      BY <1>1, <3>5, <3>6 DEF Editors
    <3>8. PICK pasting \in BOOLEAN : pasting = (d.command = "p" /\ lastCommand = "p")
      OBVIOUS
    <3>9. PICK e : e = IF d.command = "p" /\ ~pasting THEN start
                       ELSE Repeated(d.command, start, d.repeat, d.typed)
      OBVIOUS
    <3>10. e \in Editors
      <4>1. Repeated(d.command, start, d.repeat, d.typed) \in After(start)
        BY <3>5, <3>7, KnownIs, RepeatedAfter
      <4> QED BY <3>7, <3>9, <4>1, AfterIs
    <3>11. PICK f : f = IF pasting \/ ~e.ok THEN e ELSE [e EXCEPT !.fr = d.fr, !.fc = d.fc]
      OBVIOUS
    <3>12. f \in Editors
      <4>1. [e EXCEPT !.fr = d.fr, !.fc = d.fc] \in Editors
        BY <3>5, <3>10 DEF Editors
      <4> QED BY <3>10, <3>11, <4>1
    <3>13. Shown(f, mode)
      BY <3>2, <3>6, <3>8, <3>9, <3>11 DEF RedoOf
    <3>14. lastTyped' = d.typed /\ buffer' = Yanked(d.command, start, d.repeat)
      BY <3>2, <3>6 DEF RedoOf
    <3>15. plain' \in BOOLEAN
      BY <3>2, KnownIs, ExcludingIs DEF RedoOf
    <3>16. buffer' \in Texts
      BY <3>5, <3>7, <3>14, KnownIs, YankedIn
    <3>17. TextInv' /\ mode' \in {mode, "NO_ROWS"}
      BY <3>12, <3>13, ShownTypes
    <3> QED BY <3>2, <3>5, <3>14, <3>15, <3>16, <3>17
  <2> QED BY <2>1, <2>2, <2>3
<1>5. OtherInv'
  BY <1>2, <1>4, KnownIs DEF Redo, OtherInv, before
<1> QED BY <1>3, <1>4, <1>5 DEF TypeInv

LEMMA DotTypes ==
  ASSUME Known, NEW n \in Repeats, Dot(n)
  PROVE  TypeInv'
<1>1. /\ ed \in Editors /\ Bounded(ed) /\ HistoryInv /\ n \in Nat /\ ed.rows \in Texts
      /\ buffer \in Texts /\ lastRepeat \in Nat /\ OtherInv
  BY KnownIs DEF Repeats
<1>2. PICK at \in Cursors : at = [fr |-> ed.fr, fc |-> ed.fc]
  BY KnownIs
<1>3. PICK d : d = undo_deque[1]
  OBVIOUS
<1>4. /\ mode = "NORMAL" /\ prev' = at /\ snapshot' = ed.rows /\ stuck' = TRUE
      /\ changes' = changes + 1 /\ changes < MaxChanges
      /\ UNCHANGED <<lastCommand, lastRepeat, lastTyped, saved>>
  BY <1>2 DEF Dot, Commanded, typing
<1>5. /\ TextInv' /\ HistoryInv' /\ mode' \in {"NORMAL", "NO_ROWS"} /\ buffer' \in Texts
      /\ plain' \in BOOLEAN /\ (undo_deque' # <<>> => undo_deque # <<>>)
  <2>1. CASE undo_deque = <<>>
    <3>1. /\ ed' = Failed(ed) /\ Excluding(TRUE)
          /\ UNCHANGED <<mode, buffer, undo_deque, d_index, timeline>>
      BY <2>1 DEF Dot, history
    <3>2. HistoryInv'
      BY <1>1, <3>1 DEF HistoryInv
    <3> QED BY <1>1, <1>4, <3>1, <3>2, KnownIs, FailedBounded, ExcludingIs DEF TextInv
  <2>2. CASE undo_deque # <<>>
    <3>1. PICK keys : keys = IF lastCommand \in Map2 THEN lastTyped ELSE d.typed
      OBVIOUS
    <3>2. PICK e : e = Repeated(lastCommand, ed, lastRepeat, keys)
      OBVIOUS
    <3>3. PICK ok \in BOOLEAN :
            ok = (e.ok /\ (e.rows # <<>> => Keepable(d.command, n, ed.rows, at)))
      OBVIOUS
    <3>4. /\ Shown(IF ok THEN e ELSE Failed(e), mode)
          /\ buffer' = Yanked(lastCommand, ed, lastRepeat)
          /\ IF ~ok \/ e.rows = <<>>
             THEN UNCHANGED <<undo_deque, d_index, timeline>>
             ELSE /\ undo_deque' = << DiffAgain(d, n, ed.rows, at) >> \o undo_deque
                  /\ d_index' = 0
                  /\ timeline' = << Note(e.rows) >> \o timeline
      <4> USE <1>2, <1>3, <2>2, <3>1, <3>2, <3>3
      <4>1. Shown(IF ok THEN e ELSE Failed(e), mode)
        BY DEF Dot
      <4>2. buffer' = Yanked(lastCommand, ed, lastRepeat)
        BY DEF Dot
      <4>3. IF ~ok \/ e.rows = <<>>
             THEN UNCHANGED <<undo_deque, d_index, timeline>>
             ELSE /\ undo_deque' = << DiffAgain(d, n, ed.rows, at) >> \o undo_deque
                  /\ d_index' = 0
                  /\ timeline' = << Note(e.rows) >> \o timeline
        BY DEF Dot, history
      <4> QED BY <4>1, <4>2, <4>3
    <3>5. plain' \in BOOLEAN
      BY <2>2, KnownIs, ExcludingIs DEF Dot
    <3>6. d \in SoundDiffs
      <4>1. undo_deque \in Seq(SoundDiffs)
        BY <1>1 DEF HistoryInv
      <4>2. 1 \in 1..Len(undo_deque)
        BY <2>2, <4>1
      <4> QED BY <1>3, <4>1, <4>2, ElementOfSeq
    <3>7. keys \in Line
      <4>1. d.typed \in Seq(Keys)
        BY <3>6, DiffParts DEF SoundDiffs
      <4> QED BY <3>1, <4>1, KnownIs, KeysLine
    <3>8. e \in Editors
      <4>1. lastCommand \in InsertCommands \cup OtherCommands
        BY <1>1, <2>2 DEF OtherInv
      <4>2. Repeated(lastCommand, ed, lastRepeat, keys) \in After(ed)
        BY <1>1, <3>7, <4>1, RepeatedAfter
      <4> QED BY <1>1, <3>2, <4>2, AfterIs
    <3>9. PICK f \in Editors : f = IF ok THEN e ELSE Failed(e)
      BY <3>8, FailedBounded
    <3>10. TextInv' /\ mode' \in {mode, "NO_ROWS"}
      BY <3>4, <3>9, ShownTypes
    <3>11. buffer' \in Texts
      BY <1>1, <3>4, YankedIn
    <3>12. HistoryInv'
      <4>1. CASE ~ok \/ e.rows = <<>>
        BY <1>1, <3>4, <4>1 DEF HistoryInv
      <4>2. CASE ~(~ok \/ e.rows = <<>>)
        <5>1. PICK d1 \in SoundDiffs : d1 = DiffAgain(d, n, ed.rows, at)
          BY <1>1, <3>3, <3>6, <4>2, DiffAgainIn
        <5>2. PICK x \in Texts : x = Note(e.rows)
          BY <3>8, Parts, TextsAre, NoteIs
        <5>3. /\ undo_deque' = <<d1>> \o undo_deque /\ d_index' = 0
              /\ timeline' = <<x>> \o timeline
          BY <3>4, <4>2, <5>1, <5>2
        <5>4. undo_deque' \in Seq(SoundDiffs) /\ Len(undo_deque') = Len(undo_deque) + 1
          BY <1>1, <5>3, OneMore DEF HistoryInv
        <5>5. timeline' \in Seq(Texts) /\ Len(timeline') = Len(timeline) + 1
          BY <1>1, <5>3, OneMore DEF HistoryInv
        <5>6. Len(timeline) = Len(undo_deque) + 1 /\ Len(undo_deque) \in Nat
          BY <1>1 DEF HistoryInv
        <5> QED BY <5>3, <5>4, <5>5, <5>6 DEF HistoryInv
      <4> QED BY <4>1, <4>2
    <3> QED BY <1>4, <2>2, <3>5, <3>10, <3>11, <3>12
  <2> QED BY <2>1, <2>2
<1>6. changes' \in 0..MaxChanges
  BY <1>4, CountUp
<1>7. OtherInv'
  BY <1>1, <1>4, <1>5, <1>6 DEF OtherInv
<1> QED BY <1>5, <1>7 DEF TypeInv

LEMMA NoRowsInsertTypes == ASSUME Known, NoRowsInsert PROVE TypeInv'
<1>1. TextInv'
  BY KnownIs DEF NoRowsInsert, TextInv
<1>2. HistoryInv'
  BY KnownIs DEF NoRowsInsert, HistoryInv, history
<1>3. OtherInv'
  <2>1. /\ mode' = "INSERT" /\ prev' = [fr |-> 0, fc |-> 0] /\ snapshot' = << <<>> >>
        /\ lastCommand' = "i" /\ lastRepeat' = 1
        /\ UNCHANGED <<lastTyped, buffer, stuck, saved>>
    BY DEF NoRowsInsert
  <2>2. changes' \in 0..MaxChanges
    BY CountUp DEF NoRowsInsert
  <2>3. plain' \in BOOLEAN
    BY KnownIs, ExcludingIs DEF NoRowsInsert
  <2>4. prev' \in Cursors /\ snapshot' \in Texts
    BY <2>1, EmptyRow, TextsAre DEF Cursors
  <2>5. lastRepeat' \in 0..MaxRepeat /\ lastRepeat' > 0
    <3>1. MaxRepeat \in Nat \ {0} /\ lastRepeat' = 1
      BY <2>1 DEF Known, EditorUndoAssumption
    <3> QED BY <3>1
  <2>6. lastCommand' \in InsertCommands /\ lastCommand' # ""
    BY <2>1 DEF InsertCommands, Map1
  <2>7. /\ mode' \in {"NORMAL", "INSERT", "NO_ROWS", "CLOSED"}
        /\ lastTyped' \in Seq(Keys) /\ buffer' \in Texts /\ saved' \in Texts /\ stuck' \in BOOLEAN
    BY <2>1, KnownIs DEF OtherInv
  <2> QED BY <2>2, <2>3, <2>4, <2>5, <2>6, <2>7 DEF OtherInv
<1> QED BY <1>1, <1>2, <1>3 DEF TypeInv

LEMMA TypeTypes == ASSUME Known, NEW k \in Keys, Type(k) PROVE TypeInv'
<1>1. ed \in Editors /\ k \in AnyKey /\ OtherInv
  BY KnownIs, KeysLine DEF Known
<1>2. InsertKey(ed, k) \in Editors
  BY <1>1, KeyAfter, AfterIs
<1>3. /\ Shown(InsertKey(ed, k), mode) /\ mode = "INSERT"
      /\ lastTyped' = Append(lastTyped, k)
      /\ UNCHANGED <<prev, snapshot, lastCommand, lastRepeat, buffer, undo_deque, d_index,
                     timeline, stuck, saved, changes>>
  BY DEF Type, Inserting, before, history
<1>4. TextInv' /\ mode' = "INSERT"
  BY <1>2, <1>3, ShownTypes
<1>5. HistoryInv'
  BY <1>3, KnownIs DEF HistoryInv
<1>6. lastTyped' \in Seq(Keys)
  <2>1. lastTyped \in Seq(Keys) /\ k \in Keys /\ lastTyped' = Append(lastTyped, k)
    BY <1>1, <1>3 DEF OtherInv
  <2> QED BY <2>1
<1>7. plain' \in BOOLEAN
  BY KnownIs, ExcludingIs DEF Type
<1>8. OtherInv'
  BY <1>1, <1>3, <1>4, <1>6, <1>7 DEF OtherInv
<1> QED BY <1>4, <1>5, <1>8 DEF TypeInv

LEMMA FrontIn ==
  ASSUME NEW A, NEW s \in Seq(A), s # <<>>
  PROVE  Front(s) \in Seq(A)
<1>1. Len(s) - 1 \in 0..Len(s)
  OBVIOUS
<1> QED BY <1>1, HeadPart DEF Front

LEMMA BackspaceTypes == ASSUME Known, Backspace PROVE TypeInv'
<1>1. ed \in Editors /\ OtherInv
  BY KnownIs
<1>2. Backspaced(ed) \in Editors
  BY <1>1, BackspacedAfter, AfterIs
<1>3. /\ Shown(Backspaced(ed), mode) /\ mode = "INSERT"
      /\ lastTyped' = (IF lastTyped = <<>> THEN <<>> ELSE Front(lastTyped))
      /\ UNCHANGED <<prev, snapshot, lastCommand, lastRepeat, buffer, undo_deque, d_index,
                     timeline, stuck, saved, changes>>
  BY DEF Backspace, Inserting, before, history
<1>4. TextInv' /\ mode' = "INSERT"
  BY <1>2, <1>3, ShownTypes
<1>5. HistoryInv'
  BY <1>3, KnownIs DEF HistoryInv
<1>6. lastTyped' \in Seq(Keys)
  BY <1>3, EmptySeq, FrontIn, KnownIs
<1>7. plain' \in BOOLEAN
  BY KnownIs, ExcludingIs DEF Backspace
<1>8. OtherInv'
  BY <1>1, <1>3, <1>4, <1>6, <1>7 DEF OtherInv
<1> QED BY <1>4, <1>5, <1>8 DEF TypeInv

\* what INSERT mode ends on, but for the column
Ended ==
  IF lastCommand \in Map1 THEN InsertChars(ed, Times(lastRepeat - 1, lastTyped))
  ELSE IF lastCommand \in Map2 THEN Opened(lastCommand, ed, lastRepeat - 1, lastTyped)
  ELSE ed

Left(e) == [e EXCEPT !.fc = IF @ > 0 THEN @ - 1 ELSE 0]

LEMMA LeftIs ==
  ASSUME NEW e \in Editors, NEW f, f = Left(e)
  PROVE  /\ f \in Editors /\ f.rows = e.rows /\ f.fr = e.fr /\ f.dirty = e.dirty /\ f.ok = e.ok
         /\ f.fc = IF e.fc > 0 THEN e.fc - 1 ELSE 0
<1>1. PICK c \in Nat : c = IF e.fc > 0 THEN e.fc - 1 ELSE 0
  BY Parts
<1>2. f = [e EXCEPT !.fc = c]
  BY <1>1 DEF Left
<1>3. f \in Editors
  BY <1>2 DEF Editors
<1>4. f.rows = e.rows /\ f.fr = e.fr /\ f.dirty = e.dirty /\ f.ok = e.ok /\ f.fc = c
  BY <1>2 DEF Editors
<1> QED BY <1>1, <1>3, <1>4

LEMMA EndedAfter ==
  ASSUME Known, mode = "INSERT"
  PROVE  Ended \in After(ed) /\ lastCommand \in InsertCommands /\ lastRepeat - 1 \in Nat
<1>1. /\ lastCommand \in InsertCommands /\ lastRepeat \in Nat /\ lastRepeat > 0
      /\ ed \in Editors /\ lastTyped \in Line /\ buffer \in Texts
  BY KnownIs DEF OtherInv
<1>2. PICK n \in Nat : n = lastRepeat - 1
  BY <1>1
<1>3. CASE lastCommand \in Map1
  <2>1. Times(n, lastTyped) \in Line
    BY <1>1, TimesIn DEF Line, Num
  <2> QED BY <1>1, <1>2, <1>3, <2>1, CharsAfter DEF Ended
<1>4. CASE lastCommand \in Map2
  <2>1. Opened(lastCommand, ed, n, lastTyped) \in After(ed)
    BY <1>1, <1>4, OpenedAfter
  <2> QED BY <1>1, <1>2, <1>4, <2>1 DEF Ended, Map1, Map2
<1>5. CASE lastCommand \in Map4
  BY <1>1, <1>2, <1>5, SameAfter DEF Ended, Map1, Map2, Map4
<1> QED BY <1>1, <1>2, <1>3, <1>4, <1>5 DEF InsertCommands

\* what Escape gives push_current: Map1 keeps the rows that were typed
LEMMA EscapeIs ==
  ASSUME Escape
  PROVE  /\ mode = "INSERT" /\ ed.ok /\ lastTyped' = <<>>
         /\ \E rows : PushCurrent(rows, Left(Ended), lastCommand, lastRepeat, lastTyped,
                                  snapshot, prev, "NORMAL")
         /\ UNCHANGED <<prev, snapshot, lastCommand, lastRepeat, buffer, stuck, saved, changes>>
<1>1. PICK e : e = IF lastCommand \in Map2
               THEN Opened(lastCommand, ed, lastRepeat - 1, lastTyped) ELSE ed
  OBVIOUS
<1>2. Ended = IF lastCommand \in Map1 THEN InsertChars(e, Times(lastRepeat - 1, lastTyped)) ELSE e
  BY <1>1 DEF Ended, Map1, Map2
<1>3. PushCurrent(e.rows, Left(Ended), lastCommand, lastRepeat, lastTyped, snapshot, prev, "NORMAL")
  BY <1>1, <1>2 DEF Escape, Left
<1>4. /\ mode = "INSERT" /\ ed.ok /\ lastTyped' = <<>>
      /\ UNCHANGED <<prev, snapshot, lastCommand, lastRepeat, buffer, stuck, saved, changes>>
  BY DEF Escape, Inserting, before
<1> QED BY <1>3, <1>4

LEMMA EscapeTypes == ASSUME Known, Escape PROVE TypeInv'
<1>1. /\ mode = "INSERT" /\ ed.ok /\ lastTyped' = <<>>
      /\ UNCHANGED <<prev, snapshot, lastCommand, lastRepeat, buffer, stuck, saved, changes>>
  BY EscapeIs
<1>2. /\ ed \in Editors /\ Ended \in After(ed) /\ lastCommand \in InsertCommands
  BY <1>1, EndedAfter, KnownIs
<1>3. PICK e \in Editors : e = Left(Ended)
  BY <1>2, AfterIs, LeftIs
<1>4. PICK rows : PushCurrent(rows, e, lastCommand, lastRepeat, lastTyped, snapshot, prev, "NORMAL")
  BY <1>3, EscapeIs
<1>5. TextInv' /\ HistoryInv' /\ mode' \in {"NORMAL", "NO_ROWS"}
  <2>1. lastCommand # "p"
    BY <1>2 DEF InsertCommands, Map1, Map2, Map4
  <2> QED BY <1>2, <1>4, <2>1, KnownIs, PushTypes
<1>6. plain' \in BOOLEAN
  BY KnownIs, ExcludingIs DEF Escape
<1>7. lastTyped' \in Seq(Keys)
  BY <1>1, EmptySeq
<1>8. lastCommand # ""
  BY <1>2 DEF InsertCommands, Map1, Map2, Map4
<1>9. OtherInv'
  BY <1>1, <1>5, <1>6, <1>7, <1>8, KnownIs DEF OtherInv
<1> QED BY <1>5, <1>9 DEF TypeInv

LEMMA CommandLineTypes ==
  ASSUME Known,
         \/ \E ok \in Outcomes : Write(ok) \/ WriteAndQuit(ok)
         \/ Cancel \/ Quit \/ QuitRefused \/ Abandon
  PROVE  TypeInv'
<1>1. ed \in Editors /\ Bounded(ed) /\ OtherInv /\ ed.rows \in Texts /\ HistoryInv
  BY KnownIs
<1>2. ASSUME NEW ok, Saved(ok) PROVE saved' \in Texts
  BY <1>1, <1>2, NoteIs DEF Saved, OtherInv
<1>3. ASSUME ed' = ed \/ ed' = [ed EXCEPT !.dirty = FALSE],
             UNCHANGED <<undo_deque, d_index, timeline>>, OtherInv'
      PROVE  TypeInv'
  <2>1. PICK no \in BOOLEAN : no = FALSE
    OBVIOUS
  <2>2. PICK e : e = [ed EXCEPT !.dirty = no]
    OBVIOUS
  <2>3. e \in Editors /\ e.rows = ed.rows /\ e.fr = ed.fr /\ e.fc = ed.fc /\ e.ok = ed.ok
    BY <1>1, <2>2 DEF Editors
  <2>4. Bounded(e)
    BY <1>1, <2>3 DEF Bounded, Row
  <2>5. TextInv'
    BY <1>1, <1>3, <2>1, <2>2, <2>3, <2>4 DEF TextInv
  <2>6. HistoryInv'
    BY <1>1, <1>3 DEF HistoryInv
  <2> QED BY <1>3, <2>5, <2>6 DEF TypeInv
<1>4. ASSUME NEW ok \in Outcomes, Write(ok) PROVE TypeInv'
  <2>1. /\ saved' \in Texts /\ ed' = [ed EXCEPT !.dirty = FALSE]
        /\ mode' = "NORMAL" /\ stuck' = FALSE /\ changes' \in 0..MaxChanges
        /\ UNCHANGED <<prev, snapshot, lastCommand, lastRepeat, lastTyped, buffer,
                       undo_deque, d_index, timeline, plain>>
    BY <1>2, <1>4, CountUp DEF Write, typing, before, history
  <2>2. OtherInv'
    BY <1>1, <2>1 DEF OtherInv
  <2> QED BY <1>3, <2>1, <2>2
<1>5. ASSUME NEW ok \in Outcomes, WriteAndQuit(ok) PROVE TypeInv'
  <2>1. /\ saved' \in Texts /\ mode' = "CLOSED"
        /\ UNCHANGED <<ed, prev, snapshot, lastCommand, lastRepeat, lastTyped, buffer,
                       undo_deque, d_index, timeline, stuck, changes, plain>>
    BY <1>2, <1>5 DEF WriteAndQuit, Closed, typing, before, history
  <2>2. OtherInv'
    BY <1>1, <2>1 DEF OtherInv
  <2> QED BY <1>3, <2>1, <2>2
<1>6. ASSUME Cancel PROVE TypeInv'
  <2>1. /\ mode' = "NORMAL" /\ stuck' = FALSE /\ changes' \in 0..MaxChanges /\ lastRepeat' = 0
        /\ UNCHANGED <<ed, prev, snapshot, lastCommand, lastTyped, buffer, saved,
                       undo_deque, d_index, timeline, plain>>
    BY <1>6, CountUp DEF Cancel, before, history
  <2>2. 0 \in 0..MaxRepeat
    BY DEF Known, EditorUndoAssumption
  <2>3. OtherInv'
    BY <1>1, <2>1, <2>2 DEF OtherInv
  <2> QED BY <1>3, <2>1, <2>3
<1>7. ASSUME QuitRefused \/ Quit \/ Abandon PROVE TypeInv'
  <2>1. /\ mode' \in {"NORMAL", "CLOSED"} /\ stuck' \in BOOLEAN
        /\ UNCHANGED <<ed, prev, snapshot, lastCommand, lastRepeat, lastTyped, buffer, saved,
                       undo_deque, d_index, timeline, changes, plain>>
    BY <1>1, <1>7 DEF QuitRefused, Quit, Abandon, Closed, typing, before, history, OtherInv
  <2>2. OtherInv'
    BY <1>1, <2>1 DEF OtherInv
  <2> QED BY <1>3, <2>1, <2>2
<1> QED BY <1>4, <1>5, <1>6, <1>7

LEMMA StutterTypes == ASSUME Known, UNCHANGED vars PROVE TypeInv'
<1>1. UNCHANGED <<ed, mode, prev, snapshot, lastCommand, lastRepeat, lastTyped, buffer, saved,
                  undo_deque, d_index, timeline, stuck, changes, plain>>
  BY DEF vars, typing, before, history
<1>2. TextInv' /\ HistoryInv' /\ OtherInv'
  BY <1>1, KnownIs DEF TextInv, HistoryInv, OtherInv
<1> QED BY <1>2 DEF TypeInv

LEMMA TypeStep == EditorUndoAssumption /\ TypeInv /\ [Next]_vars => TypeInv'
<1> SUFFICES ASSUME EditorUndoAssumption, TypeInv, [Next]_vars PROVE TypeInv'
  OBVIOUS
<1>1. Known
  BY DEF Known
<1> QED BY <1>1, InsertionTypes, ChangeTypes, YankTypes, DotTypes, MoveTypes, UndoTypes,
        RedoTypes, NoRowsInsertTypes, TypeTypes, BackspaceTypes, EscapeTypes,
        CommandLineTypes, StutterTypes DEF Next

\* The cursor is on the text, and every Diff has the fields that undo and redo read, whatever
\* is typed (editorProcessKeypress in src/listman.cpp, undo_deque in src/editor.h).
THEOREM TypeCorrect == Spec => []TypeOK
<1>1. Init => TypeInv
  BY EditorUndoAssumption, TypeInit
<1>2. TypeInv /\ [Next]_vars => TypeInv'
  BY EditorUndoAssumption, TypeStep
<1> QED BY <1>1, <1>2, TypeInvTypes, PTL DEF Spec

-----------------------------------------------------------------------------
(* Which keys mark the note as changed *)

Marked(e) == {f \in After(e) : f = e \/ ~f.ok \/ f.dirty}

LEMMA CharsMarked ==
  ASSUME NEW e \in Editors, NEW chars \in Line
  PROVE  /\ InsertChars(e, chars) \in Marked(e)
         /\ chars # <<>> => ~InsertChars(e, chars).ok \/ InsertChars(e, chars).dirty
<1>0. InsertChars(e, chars) \in After(e)
  BY CharsAfter
<1>1. CASE chars = <<>>
  BY <1>0, <1>1 DEF InsertChars, Marked
<1>2. CASE chars # <<>>
  <2>1. PICK g \in Editors : g = IF e.ok /\ e.rows = <<>> THEN Changed(e, << <<>> >>) ELSE e
    BY ChangedIs, EmptyRow
  <2>2. CASE ~OnText(g)
    <3>1. PICK f : f = Failed(g)
      OBVIOUS
    <3>2. ~f.ok
      BY <3>1, FailedIs
    <3>3. InsertChars(e, chars) = f
      BY <1>2, <2>1, <2>2, <3>1 DEF InsertChars
    <3> QED BY <1>0, <3>2, <3>3 DEF Marked
  <2>3. CASE OnText(g)
    <3>1. PICK h, a, b, t : At(g, h, a, b, t)
      BY <2>3, TextAt DEF Placed
    <3>2. PICK f : f = InsertChars(g, chars)
      OBVIOUS
    <3>3. f.dirty
      BY <1>2, <3>1, <3>2, CharsAt
    <3>4. g.rows # <<>>
      BY <3>1, AtText
    <3>5. InsertChars(e, chars) = f
      BY <1>2, <2>1, <2>3, <3>2, <3>4 DEF InsertChars
    <3> QED BY <1>0, <3>3, <3>5 DEF Marked
  <2> QED BY <2>2, <2>3
<1> QED BY <1>1, <1>2

LEMMA NewlineMarked ==
  ASSUME NEW e \in Editors, NEW dir \in {0, 1}
  PROVE  ~InsertNewline(e, dir).ok \/ InsertNewline(e, dir).dirty
<1>1. CASE e.ok /\ e.rows = <<>>
  <2>1. PICK f : f = Changed(e, << <<>> >>)
    OBVIOUS
  <2>2. f.dirty
    BY <2>1, ChangedIs, EmptyRow
  <2> QED BY <1>1, <2>1, <2>2 DEF InsertNewline
<1>2. CASE ~(e.ok /\ e.rows = <<>>) /\ ~OnRow(e)
  <2>1. PICK f : f = Failed(e)
    OBVIOUS
  <2>2. ~f.ok
    BY <2>1, FailedIs
  <2> QED BY <1>2, <2>1, <2>2 DEF InsertNewline
<1>3. CASE ~(e.ok /\ e.rows = <<>>) /\ OnRow(e)
  <2>1. e.fr + dir \in Num /\ e.fr + dir <= Len(e.rows) /\ e.rows \in Seq(Line) /\ e.fr + dir \in Nat
    BY <1>3, Parts DEF OnRow, Num
  <2>2. PICK rs \in Seq(Line) : rs = Put(e.rows, e.fr + dir, << <<>> >>)
    BY <2>1, PutIn, EmptyRow
  <2>3. PICK g : g = Changed(e, rs)
    OBVIOUS
  <2>4. g \in Editors /\ g.dirty
    BY <2>3, ChangedIs
  <2>5. PICK f : f = [g EXCEPT !.fr = @ + dir, !.fc = 0]
    OBVIOUS
  <2>6. f.dirty = g.dirty
    BY <2>4, <2>5 DEF Editors
  <2>7. InsertNewline(e, dir) = f
    BY <1>3, <2>2, <2>3, <2>5 DEF InsertNewline
  <2> QED BY <2>4, <2>6, <2>7
<1> QED BY <1>1, <1>2, <1>3

LEMMA ErasedMarked ==
  ASSUME NEW e \in Editors, NEW n \in Nat PROVE Erased(e, n) \in Marked(e)
  BY ErasedAfter DEF Marked

\* i, a, o, O, s and x: the rows stay, or the note is changed
LEMMA DoesMarked ==
  ASSUME NEW e \in Editors, NEW n \in Nat, NEW command \in InsertCommands \cup {"x"},
         NEW f, f = Does(command, e, n)
  PROVE  f.rows = e.rows \/ ~f.ok \/ f.dirty
<1>1. CASE command = "i"
  BY <1>1 DEF Does
<1>2. CASE command = "a"
  BY <1>2 DEF Does, Editors
<1>3. CASE command = "o"
  <2>1. f = InsertNewline(e, 1)
    BY <1>3 DEF Does
  <2> QED BY <2>1, NewlineMarked
<1>4. CASE command = "O"
  <2>1. f = InsertNewline(e, 0)
    BY <1>4 DEF Does
  <2> QED BY <2>1, NewlineMarked
<1>5. CASE command \in {"x", "s"}
  <2>1. f = Erased(e, n)
    BY <1>5 DEF Does
  <2> QED BY <2>1, ErasedMarked DEF Marked
<1> QED BY <1>1, <1>2, <1>3, <1>4, <1>5 DEF InsertCommands, Map1, Map2, Map4

\* dd, unless it takes the last row
LEMMA DeletedMarked ==
  ASSUME NEW e \in Editors, NEW n \in Nat, NEW f, f = RowsDeleted(e, n)
  PROVE  f = e \/ f.dirty \/ f.rows = <<>>
<1>1. CASE Taken(e, n) = <<>>
  BY <1>1 DEF RowsDeleted
<1>2. CASE Taken(e, n) # <<>>
  <2>1. PICK left : left = Cut(e.rows, e.fr, Len(Taken(e, n)))
    OBVIOUS
  <2>2. left \in Seq(Line)
    <3>1. /\ e.fr \in Num /\ Len(Taken(e, n)) \in Num /\ e.rows \in Seq(Line)
          /\ e.fr + Len(Taken(e, n)) <= Len(e.rows)
      BY <1>2, Parts, TakenIn DEF Num
    <3> QED BY <2>1, <3>1, CutIn
  <2>3. CASE left # <<>>
    <3>1. f = Changed(e, left)
      BY <1>2, <2>1, <2>3 DEF RowsDeleted
    <3> QED BY <2>2, <3>1, ChangedIs
  <2>4. CASE left = <<>>
    <3>1. PICK d \in BOOLEAN : d = (e.dirty \/ Len(e.rows) > 1)
      OBVIOUS
    <3>2. f = [e EXCEPT !.rows = left, !.fr = 0, !.fc = 0, !.dirty = d]
      BY <1>2, <2>1, <2>4, <3>1 DEF RowsDeleted
    <3>3. f.rows = left
      BY <3>2 DEF Editors
    <3> QED BY <2>4, <3>3
  <2> QED BY <2>3, <2>4
<1> QED BY <1>1, <1>2

LEMMA OpenedMarked ==
  ASSUME NEW e \in Editors, NEW command \in Map2, NEW n \in Nat, NEW keys \in Line,
         buffer \in Texts
  PROVE  Opened(command, e, n, keys) \in Marked(e)
<1>1. \A f \in Marked(e) : InsertKeys(Does(command, f, 1), keys) \in Marked(e)
  <2> TAKE f \in Marked(e)
  <2>1. f \in Editors /\ f \in After(e)
    BY AfterIs DEF Marked
  <2>2. PICK one \in Nat : one = 1
    OBVIOUS
  <2>3. PICK g : g = Does(command, f, one)
    OBVIOUS
  <2>4. g \in After(f)
    BY <2>1, <2>3, DoesAfter DEF InsertCommands
  <2>5. ~g.ok \/ g.dirty
    <3>1. CASE command = "o"
      <4>1. g = InsertNewline(f, 1)
        BY <2>3, <3>1 DEF Does
      <4> QED BY <2>1, <4>1, NewlineMarked
    <3>2. CASE command = "O"
      <4>1. g = InsertNewline(f, 0)
        BY <2>3, <3>2 DEF Does
      <4> QED BY <2>1, <4>1, NewlineMarked
    <3> QED BY <3>1, <3>2 DEF Map2
  <2>6. g \in Editors
    BY <2>1, <2>4, AfterIs
  <2>7. PICK i : i = InsertKeys(g, keys)
    OBVIOUS
  <2>8. i \in After(g)
    BY <2>6, <2>7, KeysAfter
  <2>9. i \in After(f)
    BY <2>1, <2>4, <2>8, AfterAfter
  <2>10. i \in After(e)
    BY <2>1, <2>9, AfterAfter
  <2>11. ~i.ok \/ i.dirty
    BY <2>5, <2>8, AfterIs
  <2> QED BY <2>2, <2>3, <2>7, <2>10, <2>11 DEF Marked
<1>2. e \in Marked(e)
  BY SameAfter DEF Marked
<1>3. OpenedFrom(Marked(e), command, e, n, keys)
  BY <1>1, <1>2, OpenedRun DEF Num
<1>4. PICK f \in [0..n -> Marked(e)] : Opened(command, e, n, keys) = f[n]
  BY <1>3 DEF OpenedFrom
<1> QED BY <1>4

Clean == ed'.ok /\ Note(ed'.rows) # Note(ed.rows) /\ ~ed'.dirty

LEMMA DirtyStep ==
  ASSUME Known, [Next]_vars, Clean
  PROVE  \/ Type(Return) \/ Undo \/ Redo
         \/ \E n \in Repeats : Change("p", n) \/ Dot(n)
         \/ ed'.rows = <<>>
<1>0. ed \in Editors /\ buffer \in Texts /\ HistoryInv /\ EditorUndoAssumption
  BY KnownIs
<1>1. ASSUME NEW e \in Editors, NEW m, Shown(e, m)
      PROVE  ed'.rows = e.rows /\ ed'.dirty = e.dirty /\ ed'.ok = e.ok
  BY <1>1, ShownTypes
<1>2. ASSUME ed'.rows = ed.rows PROVE FALSE
  BY <1>2 DEF Clean
<1>3. ASSUME NEW command \in InsertCommands, NEW n \in Repeats, Insertion(command, n)
      PROVE  FALSE
  <2>1. n \in Nat
    BY <1>0 DEF Repeats, EditorUndoAssumption
  <2>2. PICK f : f = Does(command, ed, n)
    OBVIOUS
  <2>3. f \in Editors
    BY <1>0, <2>1, <2>2, DoesAfter, AfterIs
  <2>4. f.rows = ed.rows \/ ~f.ok \/ f.dirty
    BY <1>0, <2>1, <2>2, DoesMarked
  <2>5. Shown(f, "INSERT")
    BY <1>3, <2>2 DEF Insertion
  <2> QED BY <1>1, <2>3, <2>4, <2>5 DEF Clean
<1>4. ASSUME NEW command \in OtherCommands, NEW n \in Repeats, Change(command, n)
      PROVE  command = "p" \/ ed'.rows = <<>>
  <2> SUFFICES ASSUME command # "p" PROVE ed'.rows = <<>>
    OBVIOUS
  <2>1. n \in Nat
    BY <1>0 DEF Repeats, EditorUndoAssumption
  <2>2. PICK f : f = Does(command, ed, n)
    OBVIOUS
  <2>3. f \in Editors
    BY <1>0, <2>1, <2>2, DoesAfter, AfterIs
  <2>4. f.rows = ed.rows \/ ~f.ok \/ f.dirty \/ f.rows = <<>>
    <3>1. CASE command = "x"
      BY <1>0, <2>1, <2>2, <3>1, DoesMarked
    <3>2. CASE command = "dd"
      <4>1. f = RowsDeleted(ed, n)
        BY <2>2, <3>2 DEF Does
      <4> QED BY <1>0, <2>1, <4>1, DeletedMarked
    <3> QED BY <3>1, <3>2 DEF OtherCommands, Map3
  <2>5. PICK at \in Cursors : at = [fr |-> ed.fr, fc |-> ed.fc]
    BY KnownIs
  <2>6. PushCurrent(f.rows, f, command, n, lastTyped, ed.rows, at, "NORMAL")
    BY <1>4, <2>2, <2>5 DEF Change
  <2>7. \E g \in {f, Failed(f)} : ed'.rows = g.rows /\ ed'.dirty = g.dirty /\ ed'.ok = g.ok
    BY <1>0, <2>1, <2>3, <2>6, KnownIs, PushTypes
  <2>8. ed'.rows = f.rows /\ ed'.dirty = f.dirty /\ ed'.ok = f.ok
    <3>1. PICK g : g = Failed(f)
      OBVIOUS
    <3>2. ~g.ok
      BY <2>3, <3>1, FailedIs
    <3> QED BY <2>7, <3>1, <3>2 DEF Clean
  <2> QED BY <1>2, <2>4, <2>8 DEF Clean
<1>5. ASSUME NEW n \in Repeats, YankLine(n) PROVE FALSE
  <2>1. PICK f : f = Failed(ed)
    OBVIOUS
  <2>2. f.rows = ed.rows
    BY <1>0, <2>1, FailedIs
  <2> QED BY <1>2, <1>5, <2>1, <2>2 DEF YankLine
<1>6. ASSUME Move PROVE FALSE
  <2>1. CASE ed.rows = <<>>
    BY <1>2, <1>6, <2>1 DEF Move
  <2>2. CASE ed.rows # <<>>
    <3>1. PICK r \in 0..Len(ed.rows) - 1 : \E c \in 0..Len(ed.rows[r + 1]) :
            ed' = Scroll([ed EXCEPT !.fr = r, !.fc = c], mode)
      BY <1>6, <2>2 DEF Move
    <3>2. PICK c \in 0..Len(ed.rows[r + 1]) :
            ed' = Scroll([ed EXCEPT !.fr = r, !.fc = c], mode)
      BY <3>1
    <3>3. PICK r1 \in Nat, c1 \in Nat : r1 = r /\ c1 = c
      OBVIOUS
    <3>4. PICK e : e = [ed EXCEPT !.fr = r1, !.fc = c1]
      OBVIOUS
    <3>5. e \in Editors /\ e.rows = ed.rows
      BY <1>0, <3>4 DEF Editors
    <3>6. ed' = Scroll(e, mode)
      BY <3>2, <3>3, <3>4
    <3>7. ed'.rows = e.rows
      BY <3>5, <3>6, ScrollIs
    <3> QED BY <1>2, <3>5, <3>7
  <2> QED BY <2>1, <2>2
<1>7. ASSUME NEW k \in Keys, Type(k) PROVE k = Return
  <2> SUFFICES ASSUME k # Return PROVE FALSE
    OBVIOUS
  <2>1. k \in AnyKey /\ <<k>> \in Line /\ <<k>> # <<>>
    BY <1>0, KeysLine DEF Line
  <2>2. PICK f : f = InsertChars(ed, <<k>>)
    OBVIOUS
  <2>3. f \in Editors /\ (~f.ok \/ f.dirty)
    BY <1>0, <2>1, <2>2, CharsAfter, CharsMarked, AfterIs
  <2>4. Shown(f, mode)
    BY <1>7, <2>2 DEF Type, InsertKey, InsertChar
  <2> QED BY <1>1, <2>3, <2>4 DEF Clean
<1>8. ASSUME Backspace PROVE FALSE
  <2>1. PICK f : f = Backspaced(ed)
    OBVIOUS
  <2>2. f \in Editors /\ (f = ed \/ ~f.ok \/ f.dirty)
    BY <1>0, <2>1, BackspacedAfter, AfterIs
  <2>3. Shown(f, mode)
    BY <1>8, <2>1 DEF Backspace
  <2> QED BY <1>1, <1>2, <2>2, <2>3 DEF Clean
<1>9. ASSUME Escape PROVE FALSE
  <2>1. mode = "INSERT"
    BY <1>9, EscapeIs
  <2>2. /\ Ended \in After(ed) /\ lastCommand \in InsertCommands /\ lastRepeat - 1 \in Nat
    BY <2>1, EndedAfter
  <2>3. Ended = ed \/ ~Ended.ok \/ Ended.dirty
    <3>1. PICK n \in Nat : n = lastRepeat - 1
      BY <2>2
    <3>2. CASE lastCommand \in Map1
      <4>1. Times(n, lastTyped) \in Line
        BY KnownIs, TimesIn DEF Line, Num
      <4>2. InsertChars(ed, Times(n, lastTyped)) \in Marked(ed)
        BY <1>0, <4>1, CharsMarked
      <4> QED BY <3>1, <3>2, <4>2 DEF Ended, Marked
    <3>3. CASE lastCommand \in Map2
      <4>1. Opened(lastCommand, ed, n, lastTyped) \in Marked(ed)
        BY <1>0, <3>3, KnownIs, OpenedMarked
      <4> QED BY <3>1, <3>3, <4>1 DEF Ended, Marked, Map1, Map2
    <3>4. CASE lastCommand \in Map4
      BY <3>4 DEF Ended, Map1, Map2, Map4
    <3> QED BY <2>2, <3>2, <3>3, <3>4 DEF InsertCommands
  <2>4. PICK f : f = Left(Ended)
    OBVIOUS
  <2>5. f \in Editors /\ f.rows = Ended.rows /\ f.dirty = Ended.dirty /\ f.ok = Ended.ok
    BY <2>2, <2>4, AfterIs, LeftIs
  <2>6. PICK rows : PushCurrent(rows, f, lastCommand, lastRepeat, lastTyped, snapshot, prev, "NORMAL")
    BY <1>9, <2>4, EscapeIs
  <2>7. \E g \in {f, Failed(f)} : ed'.rows = g.rows /\ ed'.dirty = g.dirty /\ ed'.ok = g.ok
    <3>1. lastCommand # "p"
      BY <2>2 DEF InsertCommands, Map1, Map2, Map4
    <3> QED BY <1>0, <2>2, <2>5, <2>6, <3>1, KnownIs, PushTypes
  <2>8. ed'.rows = f.rows /\ ed'.dirty = f.dirty /\ ed'.ok = f.ok
    <3>1. PICK g : g = Failed(f)
      OBVIOUS
    <3>2. ~g.ok
      BY <2>5, <3>1, FailedIs
    <3> QED BY <2>7, <3>1, <3>2 DEF Clean
  <2> QED BY <1>2, <2>3, <2>5, <2>8 DEF Clean
<1>10. ASSUME NEW ok \in Outcomes, Write(ok) PROVE FALSE
  <2>1. ed' = [ed EXCEPT !.dirty = FALSE]
    BY <1>10 DEF Write
  <2>2. ed'.rows = ed.rows
    BY <1>0, <2>1 DEF Editors
  <2> QED BY <1>2, <2>2
<1>11. ASSUME UNCHANGED ed PROVE FALSE
  BY <1>2, <1>11
<1>12. ASSUME \/ NoRowsInsert \/ Cancel \/ Quit \/ QuitRefused \/ Abandon
              \/ \E ok \in Outcomes : WriteAndQuit(ok)
              \/ UNCHANGED vars
       PROVE  FALSE
  BY <1>11, <1>12 DEF NoRowsInsert, Cancel, Quit, QuitRefused, Abandon, WriteAndQuit, Closed, vars
<1> QED BY <1>3, <1>4, <1>5, <1>6, <1>7, <1>8, <1>9, <1>10, <1>12 DEF Next

\* Whatever is typed, the keys that leave another text mark the note as changed, but for the
\* ones DirtyIsSet names (dirty in src/editor.h, read by :q in src/listman.cpp).
THEOREM DirtyCorrect == Spec => DirtyIsSet
<1>1. Init => TypeInv
  BY EditorUndoAssumption, TypeInit
<1>2. TypeInv /\ [Next]_vars => TypeInv'
  BY EditorUndoAssumption, TypeStep
<1>3. TypeInv /\ [Next]_vars =>
        [ed'.ok /\ Note(ed'.rows) # Note(ed.rows) /\ ~ed'.dirty =>
           \/ Type(Return) \/ Undo \/ Redo
           \/ \E n \in Repeats : Change("p", n) \/ Dot(n)
           \/ ed'.rows = <<>>]_vars
  BY EditorUndoAssumption, DirtyStep DEF Known, Clean
<1> QED BY <1>1, <1>2, <1>3, PTL DEF Spec, DirtyIsSet

-----------------------------------------------------------------------------
(* What typed keys make of a text: the row with the cursor becomes as many   *)
(* rows as get_num_rows counts, and what is behind the cursor stays behind it *)

Returns(keys) == {i \in DOMAIN keys : keys[i] = Return}

LEMMA ReturnsAre ==
  ASSUME NEW keys \in Line
  PROVE  /\ IsFiniteSet(Returns(keys)) /\ Returns(keys) \subseteq 1..Len(keys)
         /\ NumRows(keys) = 1 + Cardinality(Returns(keys))
         /\ Cardinality(Returns(keys)) \in Nat /\ Len(keys) \in Nat
<1>1. IsFiniteSet(1..Len(keys)) /\ DOMAIN keys = 1..Len(keys) /\ Len(keys) \in Nat
  BY FS_Interval DEF Line
<1>2. Returns(keys) \subseteq 1..Len(keys)
  BY <1>1 DEF Returns
<1>3. IsFiniteSet(Returns(keys))
  BY <1>1, <1>2, FS_Subset
<1>4. Cardinality(Returns(keys)) \in Nat
  BY <1>3, FS_CardinalityType
<1> QED BY <1>1, <1>2, <1>3, <1>4 DEF NumRows, Returns

LEMMA NumRowsNone == NumRows(<<>>) = 1
<1>1. Returns(<<>>) = {}
  BY DEF Returns
<1>2. PICK keys \in Line : keys = <<>>
  BY EmptyRow
<1>3. Cardinality(Returns(<<>>)) = 0
  BY <1>1, FS_EmptySet
<1>4. NumRows(keys) = 1 + Cardinality(Returns(keys))
  BY ReturnsAre
<1> QED BY <1>2, <1>3, <1>4

LEMMA NumRowsMore ==
  ASSUME NEW keys \in Line, NEW k \in AnyKey
  PROVE  NumRows(Append(keys, k)) = IF k = Return THEN NumRows(keys) + 1 ELSE NumRows(keys)
<1>1. PICK more : more = Append(keys, k)
  OBVIOUS
<1>2. /\ more \in Line /\ Len(more) = Len(keys) + 1 /\ more[Len(keys) + 1] = k
      /\ \A i \in 1..Len(keys) : more[i] = keys[i]
      /\ DOMAIN more = 1..(Len(keys) + 1) /\ DOMAIN keys = 1..Len(keys) /\ Len(keys) \in Nat
  BY <1>1 DEF Line
<1>3. PICK n \in Nat : n = Len(keys)
  BY <1>2
<1>4. CASE k # Return
  <2>1. Returns(more) = Returns(keys)
    BY <1>2, <1>4 DEF Returns
  <2> QED BY <1>1, <1>2, <1>4, <2>1, ReturnsAre
<1>5. CASE k = Return
  <2>1. Returns(more) = Returns(keys) \cup {n + 1}
    BY <1>2, <1>3, <1>5 DEF Returns
  <2>2. n + 1 \notin Returns(keys)
    BY <1>2, <1>3 DEF Returns
  <2>3. Cardinality(Returns(keys) \cup {n + 1}) = Cardinality(Returns(keys)) + 1
    BY <2>2, ReturnsAre, FS_AddElement
  <2>4. NumRows(more) = 1 + Cardinality(Returns(more))
    BY <1>2, ReturnsAre
  <2>5. NumRows(keys) = 1 + Cardinality(Returns(keys)) /\ Cardinality(Returns(keys)) \in Nat
    BY ReturnsAre
  <2>6. NumRows(more) = NumRows(keys) + 1
    BY <2>1, <2>3, <2>4, <2>5
  <2> QED BY <1>1, <1>5, <2>6
<1> QED BY <1>4, <1>5

Keyed(keys, h, a, q, c) ==
  /\ q \in Seq(Line) /\ c \in Line /\ NumRows(keys) = Len(q) + 1
  /\ NumRows(keys) = 1 => q = <<>> /\ c = Cat(a, keys)
  /\ \A e, b, t : At(e, h, a, b, t) => At(InsertKeys(e, keys), Cat(h, q), c, b, t)

CanKey(keys, h, a) == \E q, c : Keyed(keys, h, a, q, c)

LEMMA KeyedNone ==
  ASSUME NEW h \in Seq(Line), NEW a \in Line
  PROVE  Keyed(<<>>, h, a, <<>>, a)
<1>1. Cat(h, <<>>) = h /\ Cat(a, <<>>) = a
  BY CatNone DEF Line
<1>2. Len(<<>>) = 0 /\ <<>> \in Seq(Line)
  BY EmptySeq
<1>3. ASSUME NEW e, NEW b, NEW t, At(e, h, a, b, t) PROVE InsertKeys(e, <<>>) = e
  BY <1>3, AtText, NoKeys
<1> QED BY <1>1, <1>2, <1>3, NumRowsNone DEF Keyed

\* one more key
MoreRows(k, q, c) == IF k = Return THEN Cat(q, One(c)) ELSE q
MoreRow(k, c)     == IF k = Return THEN <<>> ELSE Cat(c, One(k))

LEMMA KeyedMore ==
  ASSUME NEW h \in Seq(Line), NEW a \in Line, NEW keys \in Line, NEW k \in AnyKey,
         NEW q, NEW c, Keyed(keys, h, a, q, c)
  PROVE  Keyed(Append(keys, k), h, a, MoreRows(k, q, c), MoreRow(k, c))
<1>1. /\ q \in Seq(Line) /\ c \in Line /\ NumRows(keys) = Len(q) + 1 /\ Len(q) \in Nat
      /\ NumRows(keys) = 1 => q = <<>> /\ c = Cat(a, keys)
  BY DEF Keyed
<1>2. One(c) \in Seq(Line) /\ Len(One(c)) = 1 /\ One(k) \in Line /\ One(k) # <<>>
  <2>1. One(k) \in Line /\ Len(One(k)) = 1
    BY OneIs DEF Line
  <2>2. One(c) \in Seq(Line) /\ Len(One(c)) = 1
    BY <1>1, OneIs
  <2>4. One(k) # <<>>
    BY DEF One
  <2> QED BY <2>1, <2>2, <2>4
<1>3. Cat(q, One(c)) \in Seq(Line) /\ Len(Cat(q, One(c))) = Len(q) + 1
  <2>1. Cat(q, One(c)) \in Seq(Line) /\ Len(Cat(q, One(c))) = Len(q) + Len(One(c))
    BY <1>1, <1>2, CatIn
  <2> QED BY <1>2, <2>1
<1>4. Cat(c, One(k)) \in Line
  BY <1>1, <1>2, CatIn DEF Line
<1>5. ASSUME NEW e, NEW b, NEW t, At(e, h, a, b, t)
      PROVE  /\ InsertKeys(e, Append(keys, k)) = InsertKey(InsertKeys(e, keys), k)
             /\ At(InsertKeys(e, keys), Cat(h, q), c, b, t)
  BY <1>5, AtText, OneKeyMore DEF Keyed
<1>6. CASE k = Return
  <2>1. ASSUME NEW e, NEW b, NEW t, At(e, h, a, b, t)
        PROVE  At(InsertKeys(e, Append(keys, k)), Cat(h, Cat(q, One(c))), <<>>, b, t)
    <3>1. PICK f : f = InsertKeys(e, keys)
      OBVIOUS
    <3>2. At(f, Cat(h, q), c, b, t)
      BY <1>5, <2>1, <3>1
    <3>3. At(InsertReturn(f), Cat(Cat(h, q), One(c)), <<>>, b, t)
      BY <3>2, ReturnAt
    <3>4. Cat(Cat(h, q), One(c)) = Cat(h, Cat(q, One(c)))
      BY <1>1, <1>2, CatOf
    <3> QED BY <1>5, <1>6, <2>1, <3>1, <3>3, <3>4 DEF InsertKey
  <2>2. NumRows(Append(keys, k)) = NumRows(keys) + 1
    BY <1>6, NumRowsMore
  <2>3. NumRows(Append(keys, k)) = Len(Cat(q, One(c))) + 1 /\ NumRows(Append(keys, k)) # 1
    BY <1>1, <1>3, <2>2
  <2> QED BY <1>3, <1>6, <2>1, <2>3, EmptyRow DEF Keyed, MoreRows, MoreRow
<1>7. CASE k # Return
  <2>1. ASSUME NEW e, NEW b, NEW t, At(e, h, a, b, t)
        PROVE  At(InsertKeys(e, Append(keys, k)), Cat(h, q), Cat(c, One(k)), b, t)
    <3>1. PICK f : f = InsertKeys(e, keys)
      OBVIOUS
    <3>2. At(f, Cat(h, q), c, b, t)
      BY <1>5, <2>1, <3>1
    <3>3. At(InsertChars(f, One(k)), Cat(h, q), Cat(c, One(k)), b, t)
      BY <1>2, <3>2, CharsAt
    <3>4. InsertKey(f, k) = InsertChars(f, One(k))
      BY <1>7 DEF InsertKey, InsertChar, One
    <3> QED BY <1>5, <2>1, <3>1, <3>3, <3>4
  <2>2. NumRows(Append(keys, k)) = NumRows(keys)
    BY <1>7, NumRowsMore
  <2>3. Cat(Cat(a, keys), One(k)) = Cat(a, Append(keys, k))
    <3>1. Append(keys, k) = Cat(keys, One(k))
      BY AppendIsConcat DEF Cat, One, Line
    <3>2. Cat(Cat(a, keys), One(k)) = Cat(a, Cat(keys, One(k)))
      BY <1>2, CatOf DEF Line
    <3> QED BY <3>1, <3>2
  <2>4. NumRows(Append(keys, k)) = 1 => q = <<>> /\ Cat(c, One(k)) = Cat(a, Append(keys, k))
    BY <1>1, <2>2, <2>3
  <2> QED BY <1>1, <1>4, <1>7, <2>1, <2>2, <2>4 DEF Keyed, MoreRows, MoreRow
<1> QED BY <1>6, <1>7

LEMMA KeysAt ==
  ASSUME NEW h \in Seq(Line), NEW a \in Line, NEW keys \in Line
  PROVE  CanKey(keys, h, a)
<1> DEFINE T == {s \in Line : CanKey(s, h, a)}
<1>1. <<>> \in T
  BY KeyedNone, EmptyRow DEF CanKey
<1>2. ASSUME NEW s \in T, NEW k \in AnyKey PROVE Append(s, k) \in T
  <2>1. PICK q, c : Keyed(s, h, a, q, c)
    BY DEF CanKey
  <2>2. Keyed(Append(s, k), h, a, MoreRows(k, q, c), MoreRow(k, c))
    BY <2>1, KeyedMore
  <2>3. Append(s, k) \in Line
    BY DEF Line
  <2> QED BY <2>2, <2>3 DEF CanKey
<1>3. T \in SUBSET Seq(AnyKey)
  BY DEF Line
<1> HIDE DEF T
<1>4. T = Seq(AnyKey)
  BY <1>1, <1>2, <1>3, SeqSet
<1>5. keys \in T
  BY <1>4 DEF Line
<1> QED BY <1>5 DEF T

-----------------------------------------------------------------------------
(* A command, at any text that is the same around the cursor *)

Fits(rows, at) ==
  /\ at.fr < Len(rows)
  /\ at.fc < Len(rows[at.fr + 1]) \/ (rows[at.fr + 1] = <<>> /\ at.fc = 0)

Start(e, rows, at) ==
  e \in Editors /\ e.ok /\ e.rows = rows /\ e.fr = at.fr /\ e.fc = at.fc

Split(rows, at, h, a, b, t) ==
  /\ h \in Seq(Line) /\ a \in Line /\ b \in Line /\ t \in Seq(Line)
  /\ rows = Joined(h, Cat(a, b), t) /\ at.fr = Len(h) /\ at.fc = Len(a)
  /\ rows[at.fr + 1] = Cat(a, b) /\ (b = <<>> => a = <<>>)

Splits(rows, at) == \E h, a, b, t : Split(rows, at, h, a, b, t)

LEMMA FitsSplits ==
  ASSUME NEW rows \in Seq(Line), NEW at, at.fr \in Nat, at.fc \in Nat, Fits(rows, at)
  PROVE  Splits(rows, at)
<1>1. PICK i \in Nat, j \in Nat : i = at.fr /\ j = at.fc
  OBVIOUS
<1>2. i < Len(rows) /\ (j < Len(rows[i + 1]) \/ (rows[i + 1] = <<>> /\ j = 0))
  BY <1>1 DEF Fits
<1>3. PICK h \in Seq(Line), t \in Seq(Line), x \in Line :
        rows = Joined(h, x, t) /\ Len(h) = i /\ rows[i + 1] = x
  BY <1>2, Around DEF Surrounded
<1>4. j <= Len(x) /\ Len(x) \in Nat /\ (j = Len(x) => j = 0)
  BY <1>2, <1>3 DEF Line
<1>5. Halved(AnyKey, x, j)
  BY <1>4, Halves DEF Line
<1>6. PICK a \in Line, b \in Line : x = Cat(a, b) /\ Len(a) = j /\ Len(b) = Len(x) - j
  BY <1>5 DEF Halved, Line
<1>7. b = <<>> => a = <<>>
  <2>1. ASSUME b = <<>> PROVE a = <<>>
    <3>1. Len(b) = 0
      BY <2>1
    <3>2. j = 0
      BY <1>4, <1>6, <3>1
    <3> QED BY <1>6, <3>2 DEF Line
  <2> QED BY <2>1
<1> QED BY <1>1, <1>3, <1>6, <1>7 DEF Splits, Split

LEMMA SplitAt ==
  ASSUME NEW rows, NEW at, NEW h, NEW a, NEW b, NEW t, Split(rows, at, h, a, b, t),
         NEW e, Start(e, rows, at)
  PROVE  At(e, h, a, b, t)
BY DEF Split, Start, At

\* i, a, o, O, s and x, which do not look at the buffer
DoesAgain(command, e, n) ==
  CASE command = "i" -> e
    [] command = "a" -> IF e.rows = <<>> THEN e ELSE [e EXCEPT !.fc = @ + 1]
    [] command = "o" -> InsertNewline(e, 1)
    [] command = "O" -> InsertNewline(e, 0)
    [] OTHER         -> Erased(e, n)

LEMMA DoesIs ==
  ASSUME NEW command \in InsertCommands \cup {"x"}, NEW e, NEW n
  PROVE  Does(command, e, n) = DoesAgain(command, e, n)
BY DEF Does, DoesAgain, InsertCommands, Map1, Map2, Map4

\* the rows that a command leaves around the cursor
Lays(command, h, x, t, H, A, B, T) ==
  /\ command \in LineCommands => H = h /\ T = t
  /\ command = "o" => H = Cat(h, One(x)) /\ T = t /\ B = <<>>
  /\ command = "O" => H = h /\ T = Cat(One(x), t) /\ B = <<>>

AtEnd(command, b) == command = "a" /\ b = <<>>

Begun(command, n, h, a, b, t, H, A, B, T) ==
  /\ H \in Seq(Line) /\ A \in Line /\ B \in Line /\ T \in Seq(Line)
  /\ Lays(command, h, Cat(a, b), t, H, A, B, T)
  /\ \A e : At(e, h, a, b, t) =>
       /\ At(Scroll(DoesAgain(command, e, n), "INSERT"), H, A, B, T)
       /\ ~AtEnd(command, b) => At(DoesAgain(command, e, n), H, A, B, T)

Begins(command, n, h, a, b, t) ==
  \E H, A, B, T : Begun(command, n, h, a, b, t, H, A, B, T)

LEMMA AtScroll ==
  ASSUME NEW e, NEW h, NEW a, NEW b, NEW t, At(e, h, a, b, t)
  PROVE  At(Scroll(e, "INSERT"), h, a, b, t)
<1>1. e \in Editors /\ OnText(e)
  BY AtText
<1>2. Scroll(e, "INSERT") = e
  BY <1>1, ScrollAt
<1> QED BY <1>2

LEMMA BeginsBy ==
  ASSUME NEW command, NEW n, NEW h, NEW a, NEW b, NEW t,
         NEW H \in Seq(Line), NEW A \in Line, NEW B \in Line, NEW T \in Seq(Line),
         Lays(command, h, Cat(a, b), t, H, A, B, T),
         \A e : At(e, h, a, b, t) => At(DoesAgain(command, e, n), H, A, B, T)
  PROVE  Begins(command, n, h, a, b, t)
<1>1. ASSUME NEW e, At(e, h, a, b, t)
      PROVE  At(Scroll(DoesAgain(command, e, n), "INSERT"), H, A, B, T)
  BY <1>1, AtScroll
<1>2. Begun(command, n, h, a, b, t, H, A, B, T)
  BY <1>1 DEF Begun
<1> QED BY <1>2 DEF Begins

\* the cursor one further
LEMMA NextAt ==
  ASSUME NEW e, NEW h, NEW a, NEW y \in AnyKey, NEW c \in Line, NEW t,
         At(e, h, a, Cat(One(y), c), t)
  PROVE  At([e EXCEPT !.fc = @ + 1], h, Cat(a, One(y)), c, t)
<1>1. /\ e \in Editors /\ h \in Seq(Line) /\ a \in Line /\ t \in Seq(Line) /\ e.ok
      /\ e.rows = Joined(h, Cat(a, Cat(One(y), c)), t) /\ e.fr = Len(h) /\ e.fc = Len(a)
      /\ Len(a) \in Nat
  BY AtText
<1>2. One(y) \in Line /\ Len(One(y)) = 1
  BY OneIs DEF Line
<1>3. Cat(a, One(y)) \in Line /\ Len(Cat(a, One(y))) = Len(a) + 1
  <2>1. a \in Seq(AnyKey) /\ One(y) \in Seq(AnyKey)
    BY <1>1, <1>2 DEF Line
  <2>2. Cat(a, One(y)) \in Seq(AnyKey) /\ Len(Cat(a, One(y))) = Len(a) + Len(One(y))
    BY <2>1, CatIn
  <2> QED BY <1>2, <2>2 DEF Line
<1>4. Cat(Cat(a, One(y)), c) = Cat(a, Cat(One(y), c))
  BY <1>1, <1>2, CatOf DEF Line
<1>5. PICK k \in Nat : k = Len(a)
  BY <1>1
<1>6. PICK f : f = [e EXCEPT !.fc = @ + 1]
  OBVIOUS
<1>7. f \in Editors /\ f.rows = e.rows /\ f.fr = e.fr /\ f.fc = k + 1 /\ f.ok = e.ok
  <2>1. e.fc = k /\ e \in Editors
    BY <1>1, <1>5
  <2>2. f \in Editors
    BY <1>6, <2>1 DEF Editors
  <2>3. f.rows = e.rows /\ f.fr = e.fr /\ f.fc = k + 1 /\ f.ok = e.ok
    BY <1>6, <2>1 DEF Editors
  <2> QED BY <2>2, <2>3
<1>8. f.fc = Len(Cat(a, One(y))) /\ f.rows = Joined(h, Cat(Cat(a, One(y)), c), t)
  BY <1>1, <1>3, <1>4, <1>5, <1>7
<1>9. At(f, h, Cat(a, One(y)), c, t)
  BY <1>1, <1>3, <1>7, <1>8 DEF At
<1> QED BY <1>6, <1>9

\* a on an empty row: the cursor is put back
LEMMA NextBack ==
  ASSUME NEW e, NEW h, NEW t, At(e, h, <<>>, <<>>, t)
  PROVE  At(Scroll([e EXCEPT !.fc = @ + 1], "INSERT"), h, <<>>, <<>>, t)
<1>1. /\ e \in Editors /\ h \in Seq(Line) /\ t \in Seq(Line) /\ e.ok /\ e.rows # <<>>
      /\ e.rows = Joined(h, Cat(<<>>, <<>>), t) /\ e.fr = Len(h) /\ e.fc = Len(<<>>)
      /\ Len(e.rows) = Len(h) + 1 + Len(t) /\ Len(h) \in Nat /\ Len(t) \in Nat
      /\ Row(e) = Cat(<<>>, <<>>) /\ <<>> \in Line
  BY AtText
<1>2. Cat(<<>>, <<>>) = <<>>
  BY <1>1, CatNone DEF Line
<1>3. e.fc = 0 /\ Len(Row(e)) = 0
  BY <1>1, <1>2
<1>4. PICK f : f = [e EXCEPT !.fc = @ + 1]
  OBVIOUS
<1>5. f \in Editors /\ f.rows = e.rows /\ f.fr = e.fr /\ f.fc = 1 /\ f.ok = e.ok
  <2>1. e \in Editors /\ e.fc = 0
    BY <1>1, <1>3
  <2>2. f \in Editors
    BY <1>4, <2>1 DEF Editors
  <2>3. f.rows = e.rows /\ f.fr = e.fr /\ f.fc = 1 /\ f.ok = e.ok
    BY <1>4, <2>1 DEF Editors
  <2> QED BY <2>2, <2>3
<1>6. Lesser(f.fr, Len(f.rows) - 1) = e.fr
  BY <1>1, <1>5 DEF Lesser
<1>7. Len(f.rows[e.fr + 1]) = 0 /\ f.rows # <<>>
  BY <1>1, <1>3, <1>5 DEF Row
<1>8. Scroll(f, "INSERT") = [f EXCEPT !.fr = e.fr, !.fc = 0]
  <2>1. f.fr < Len(f.rows) /\ f.rows # <<>> /\ ~(f.fc < Len(f.rows[e.fr + 1]))
    BY <1>1, <1>5, <1>7
  <2>2. f \in Editors /\ f.fc = 1 /\ Lesser(f.fr, Len(f.rows) - 1) = e.fr
    BY <1>5, <1>6
  <2>3. (IF f.fc < Len(f.rows[e.fr + 1]) THEN f.fc ELSE Len(f.rows[e.fr + 1])) = 0
    BY <1>7, <2>1
  <2> QED BY <1>7, <2>1, <2>2, <2>3 DEF Scroll
<1>9. PICK z \in Nat, i \in Nat : z = 0 /\ i = e.fr
  BY <1>1
<1>10. PICK g : g = [f EXCEPT !.fr = i, !.fc = z]
  OBVIOUS
<1>11. g \in Editors /\ g.rows = f.rows /\ g.fr = i /\ g.fc = z /\ g.ok = f.ok
  <2>1. f \in Editors
    BY <1>5
  <2>2. g \in Editors
    BY <1>10, <2>1 DEF Editors
  <2>3. g.rows = f.rows /\ g.fr = i /\ g.fc = z /\ g.ok = f.ok
    BY <1>10, <2>1 DEF Editors
  <2> QED BY <2>2, <2>3
<1>12. At(g, h, <<>>, <<>>, t)
  BY <1>1, <1>3, <1>5, <1>9, <1>11 DEF At
<1> QED BY <1>4, <1>8, <1>9, <1>10, <1>12

LEMMA InsertBegins ==
  ASSUME NEW h \in Seq(Line), NEW a \in Line, NEW b \in Line, NEW t \in Seq(Line), NEW n
  PROVE  Begins("i", n, h, a, b, t)
<1>1. Lays("i", h, Cat(a, b), t, h, a, b, t)
  BY DEF Lays
<1>2. \A e : DoesAgain("i", e, n) = e
  BY DEF DoesAgain
<1> QED BY <1>1, <1>2, BeginsBy

LEMMA AppendBegins ==
  ASSUME NEW h \in Seq(Line), NEW a \in Line, NEW b \in Line, NEW t \in Seq(Line), NEW n,
         b = <<>> => a = <<>>
  PROVE  Begins("a", n, h, a, b, t)
<1>1. ASSUME NEW e, e.rows # <<>>
      PROVE  DoesAgain("a", e, n) = [e EXCEPT !.fc = @ + 1]
  BY <1>1 DEF DoesAgain
<1>2. CASE b # <<>>
  <2>1. PICK y \in AnyKey, c \in Seq(AnyKey) : b = Cat(One(y), c)
    BY <1>2, FirstOf DEF Line
  <2>2. c \in Line /\ Cat(a, One(y)) \in Line /\ Cat(Cat(a, One(y)), c) = Cat(a, b)
    <3>1. a \in Seq(AnyKey) /\ One(y) \in Seq(AnyKey)
      BY OneIs DEF Line
    <3>2. Cat(a, One(y)) \in Seq(AnyKey)
      BY <3>1, CatIn
    <3>3. Cat(Cat(a, One(y)), c) = Cat(a, Cat(One(y), c))
      BY <2>1, <3>1, CatOf
    <3> QED BY <2>1, <3>2, <3>3 DEF Line
  <2>3. Lays("a", h, Cat(a, b), t, h, Cat(a, One(y)), c, t)
    BY DEF Lays
  <2>4. ASSUME NEW e, At(e, h, a, b, t)
        PROVE  At(DoesAgain("a", e, n), h, Cat(a, One(y)), c, t)
    <3>1. At([e EXCEPT !.fc = @ + 1], h, Cat(a, One(y)), c, t)
      BY <2>1, <2>2, <2>4, NextAt
    <3>2. e.rows # <<>>
      BY <2>4, AtText
    <3> QED BY <1>1, <3>1, <3>2
  <2> QED BY <2>2, <2>3, <2>4, BeginsBy
<1>3. CASE b = <<>>
  <2>1. Lays("a", h, Cat(a, b), t, h, a, b, t) /\ AtEnd("a", b) /\ a = <<>>
    BY <1>3 DEF Lays, AtEnd
  <2>2. ASSUME NEW e, At(e, h, a, b, t)
        PROVE  At(Scroll(DoesAgain("a", e, n), "INSERT"), h, a, b, t)
    <3>1. At(e, h, <<>>, <<>>, t)
      BY <1>3, <2>1, <2>2
    <3>2. At(Scroll([e EXCEPT !.fc = @ + 1], "INSERT"), h, <<>>, <<>>, t)
      BY <3>1, NextBack
    <3>3. e.rows # <<>>
      BY <2>2, AtText
    <3>4. DoesAgain("a", e, n) = [e EXCEPT !.fc = @ + 1]
      BY <1>1, <3>3
    <3> QED BY <1>3, <2>1, <3>2, <3>4
  <2>3. Begun("a", n, h, a, b, t, h, a, b, t)
    BY <2>1, <2>2 DEF Begun
  <2> QED BY <2>3 DEF Begins
<1> QED BY <1>2, <1>3

LEMMA EraseBegins ==
  ASSUME NEW command \in {"s", "x"}, NEW h \in Seq(Line), NEW a \in Line, NEW b \in Line,
         NEW t \in Seq(Line), NEW n \in Nat
  PROVE  Begins(command, n, h, a, b, t)
<1>1. PICK b2 \in Line : \A e, u, v : At(e, u, a, b, v) => At(Erased(e, n), u, a, b2, v)
  BY ErasedAt
<1>2. \A e : At(e, h, a, b, t) => At(DoesAgain(command, e, n), h, a, b2, t)
  BY <1>1 DEF DoesAgain
<1>3. Lays(command, h, Cat(a, b), t, h, a, b2, t)
  BY DEF Lays
<1> QED BY <1>2, <1>3, BeginsBy

LEMMA OpenBegins ==
  ASSUME NEW command \in Map2, NEW h \in Seq(Line), NEW a \in Line, NEW b \in Line,
         NEW t \in Seq(Line), NEW n
  PROVE  Begins(command, n, h, a, b, t)
<1>1. Cat(a, b) \in Line
  BY CatIn DEF Line
<1>2. PICK x \in Line : x = Cat(a, b)
  BY <1>1
<1>3. One(x) \in Seq(Line)
  BY OneIs
<1>4. Cat(h, One(x)) \in Seq(Line) /\ Cat(One(x), t) \in Seq(Line)
  BY <1>3, CatIn
<1>5. <<>> \in Line
  BY EmptyRow
<1>6. CASE command = "o"
  <2>1. Lays(command, h, Cat(a, b), t, Cat(h, One(x)), <<>>, <<>>, t)
    BY <1>2, <1>6 DEF Lays, LineCommands
  <2>2. ASSUME NEW e, At(e, h, a, b, t)
        PROVE  At(DoesAgain(command, e, n), Cat(h, One(x)), <<>>, <<>>, t)
    <3>1. At(InsertNewline(e, 1), Cat(h, One(x)), <<>>, <<>>, t)
      BY <1>2, <2>2, NewlineAt
    <3> QED BY <1>6, <3>1 DEF DoesAgain
  <2> QED BY <1>4, <1>5, <2>1, <2>2, BeginsBy
<1>7. CASE command = "O"
  <2>1. Lays(command, h, Cat(a, b), t, h, <<>>, <<>>, Cat(One(x), t))
    BY <1>2, <1>7 DEF Lays, LineCommands
  <2>2. ASSUME NEW e, At(e, h, a, b, t)
        PROVE  At(DoesAgain(command, e, n), h, <<>>, <<>>, Cat(One(x), t))
    <3>1. At(InsertNewline(e, 0), h, <<>>, <<>>, Cat(One(x), t))
      BY <1>2, <2>2, NewlineAt
    <3> QED BY <1>7, <3>1 DEF DoesAgain
  <2> QED BY <1>4, <1>5, <2>1, <2>2, BeginsBy
<1> QED BY <1>6, <1>7 DEF Map2

\* every command that goes to INSERT mode, and x, begins at a split text
LEMMA CommandBegins ==
  ASSUME NEW command \in InsertCommands \cup {"x"}, NEW n \in Nat,
         NEW rows, NEW at, NEW h, NEW a, NEW b, NEW t, Split(rows, at, h, a, b, t)
  PROVE  Begins(command, n, h, a, b, t)
<1>1. /\ h \in Seq(Line) /\ a \in Line /\ b \in Line /\ t \in Seq(Line)
      /\ (b = <<>> => a = <<>>)
  BY DEF Split
<1>2. command \in {"i", "a", "o", "O", "s", "x"}
  BY DEF InsertCommands, Map1, Map2, Map4
<1>3. CASE command \in Map2
  BY <1>1, <1>3, OpenBegins
<1>4. CASE command \in {"s", "x"}
  BY <1>1, <1>4, EraseBegins
<1>5. CASE command = "i"
  BY <1>1, <1>5, InsertBegins
<1>6. CASE command = "a"
  BY <1>1, <1>6, AppendBegins
<1> QED BY <1>2, <1>3, <1>4, <1>5, <1>6 DEF Map2

-----------------------------------------------------------------------------
(* A command done again, with its keys *)

AgainKeys(command, n, keys) == IF command \in Map1 THEN Times(n, keys) ELSE keys

Again(command, e, n, keys) ==
  IF command = "dd" THEN RowsDeleted(e, n)
  ELSE InsertKeys(DoesAgain(command, e, n), AgainKeys(command, n, keys))

EndRow(command, n, keys, c) == IF command \in Map1 THEN Cat(c, Times(n - 1, keys)) ELSE c

\* what a count and typed keys can be
Made1(command, n, keys) ==
  /\ n \in Nat \ {0} /\ keys \in Line
  /\ command \in Map2 => n = 1
  /\ command = "x" => keys = <<>>
  /\ command \in Map1 /\ n > 1 => NumRows(keys) = 1

LEMMA AgainIs ==
  ASSUME NEW command \in InsertCommands \cup {"x", "dd"}, NEW e \in Editors, NEW n, NEW keys,
         Made1(command, n, keys), buffer \in Texts
  PROVE  Repeated(command, e, n, keys) = Again(command, e, n, keys)
<1>1. command \in {"i", "a", "o", "O", "s", "x", "dd"}
  BY DEF InsertCommands, Map1, Map2, Map4
<1>2. keys \in Line /\ n \in Nat
  BY DEF Made1
<1>3. CASE command = "dd"
  BY <1>3 DEF Repeated, Again, Does, Map1, Map2, Map4
<1>4. CASE command = "x"
  <2>1. DoesAgain(command, e, n) = Erased(e, n) /\ Repeated(command, e, n, keys) = Erased(e, n)
    BY <1>4 DEF Repeated, DoesAgain, Does, Map1, Map2, Map4
  <2>2. keys = <<>>
    BY <1>4 DEF Made1
  <2>3. Again(command, e, n, keys) = InsertKeys(Erased(e, n), <<>>)
    BY <1>4, <2>1, <2>2 DEF Again, AgainKeys, Map1
  <2>4. Erased(e, n) \in Editors
    BY <1>2, ErasedAfter, AfterIs
  <2> QED BY <2>1, <2>3, <2>4, NoKeys
<1>5. CASE command \in Map2
  <2>1. n = 1
    BY <1>5 DEF Made1
  <2>2. Repeated(command, e, n, keys) = Opened(command, e, 1, keys)
    <3>1. Repeated(command, e, n, keys) = Opened(command, e, n, keys)
      BY <1>5 DEF Repeated, Map1, Map2, Map4
    <3> QED BY <2>1, <3>1
  <2>3. Opened(command, e, 1, keys) = InsertKeys(Does(command, e, 1), keys)
    BY <1>2, <1>5, OpenedOnce
  <2>4. Does(command, e, 1) = DoesAgain(command, e, n)
    <3>1. command \in InsertCommands \cup {"x"}
      BY <1>5 DEF InsertCommands
    <3>2. Does(command, e, n) = DoesAgain(command, e, n)
      BY <3>1, DoesIs
    <3> QED BY <2>1, <3>2
  <2> QED BY <1>5, <2>2, <2>3, <2>4 DEF Again, AgainKeys, Map1, Map2
<1>6. CASE command \in {"i", "a", "s"}
  <2>1. Does(command, e, n) = DoesAgain(command, e, n)
    BY <1>6, DoesIs DEF InsertCommands, Map1, Map4
  <2> QED BY <1>6, <2>1 DEF Repeated, Again, AgainKeys, Map1, Map2, Map4
<1> QED BY <1>1, <1>3, <1>4, <1>5, <1>6 DEF Map2

\* keys without a return
LettersOnly == AnyKey \ {Return}

LEMMA OneRowIs ==
  ASSUME NEW keys \in Line
  PROVE  NumRows(keys) = 1 <=> keys \in Seq(LettersOnly)
<1>1. IsFiniteSet(Returns(keys)) /\ NumRows(keys) = 1 + Cardinality(Returns(keys))
      /\ Cardinality(Returns(keys)) \in Nat
  BY ReturnsAre
<1>2. Cardinality(Returns(keys)) = 0 <=> Returns(keys) = {}
  BY <1>1, FS_EmptySet
<1>3. NumRows(keys) = 1 <=> Returns(keys) = {}
  BY <1>1, <1>2
<1>4. keys \in Seq(AnyKey) /\ DOMAIN keys = 1..Len(keys)
  BY DEF Line
<1>5. Returns(keys) = {} => keys \in Seq(LettersOnly)
  <2>1. ASSUME Returns(keys) = {} PROVE keys \in Seq(LettersOnly)
    <3>1. \A i \in 1..Len(keys) : keys[i] \in LettersOnly
      BY <1>4, <2>1 DEF Returns, LettersOnly
    <3> QED BY <1>4, <3>1
  <2> QED BY <2>1
<1>6. keys \in Seq(LettersOnly) => Returns(keys) = {}
  BY DEF Returns, LettersOnly
<1> QED BY <1>3, <1>5, <1>6

LEMMA OneRowTimes ==
  ASSUME NEW keys \in Line, NumRows(keys) = 1, NEW n \in Num
  PROVE  Times(n, keys) \in Line /\ NumRows(Times(n, keys)) = 1
<1>1. keys \in Seq(LettersOnly)
  BY OneRowIs
<1>2. Times(n, keys) \in Seq(LettersOnly)
  BY <1>1, TimesIn
<1>3. Times(n, keys) \in Line
  BY TimesIn DEF Line
<1> QED BY <1>2, <1>3, OneRowIs

LEMMA AgainAt ==
  ASSUME NEW command \in InsertCommands \cup {"x"}, NEW n, NEW keys, Made1(command, n, keys),
         NEW h, NEW a, NEW b, NEW t, NEW H, NEW A, NEW B, NEW T,
         Begun(command, n, h, a, b, t, H, A, B, T),
         NEW q, NEW c, Keyed(keys, H, A, q, c),
         NEW e, At(e, h, a, b, t), ~AtEnd(command, b)
  PROVE  At(Again(command, e, n, keys), Cat(H, q), EndRow(command, n, keys, c), B, T)
<1>1. PICK f : f = DoesAgain(command, e, n)
  OBVIOUS
<1>2. At(f, H, A, B, T) /\ command # "dd" /\ keys \in Line
  BY <1>1 DEF Begun, InsertCommands, Map1, Map2, Map4, Made1
<1>3. CASE command \notin Map1
  BY <1>1, <1>2, <1>3 DEF Again, AgainKeys, EndRow, Keyed
<1>4. CASE command \in Map1
  <2>1. n - 1 \in Nat /\ (n - 1 # 0 => NumRows(keys) = 1)
    BY <1>4 DEF Made1
  <2>2. PICK m \in Num : m = n - 1
    BY <2>1 DEF Num
  <2>3. n = m + 1
    BY <2>2 DEF Made1, Num
  <2>4. Times(n, keys) = Cat(keys, Times(m, keys)) /\ Times(m, keys) \in Line
    <3>1. keys \in Seq(AnyKey)
      BY <1>2 DEF Line
    <3>2. Times(m + 1, keys) = Cat(keys, Times(m, keys)) /\ Times(m, keys) \in Seq(AnyKey)
      BY <3>1, TimesFirst, TimesIn
    <3> QED BY <2>3, <3>2 DEF Line
  <2>5. Again(command, e, n, keys) = InsertKeys(f, Times(n, keys))
        /\ EndRow(command, n, keys, c) = Cat(c, Times(m, keys))
    BY <1>1, <1>2, <1>4, <2>2 DEF Again, AgainKeys, EndRow
  <2>6. /\ c \in Line /\ At(InsertKeys(f, keys), Cat(H, q), c, B, T) /\ H \in Seq(Line)
        /\ A \in Line /\ (NumRows(keys) = 1 => q = <<>> /\ c = Cat(A, keys))
    BY <1>2, AtText DEF Keyed
  <2>7. CASE m = 0
    <3>1. Times(m, keys) = <<>>
      BY <1>2, <2>7, TimesNone DEF Line
    <3>2. Times(n, keys) = keys /\ Cat(c, Times(m, keys)) = c
      BY <1>2, <2>4, <2>6, <3>1, CatNone DEF Line
    <3> QED BY <2>5, <2>6, <3>2
  <2>8. CASE m # 0
    <3>1. NumRows(keys) = 1
      BY <2>1, <2>2, <2>8
    <3>2. q = <<>> /\ c = Cat(A, keys)
      BY <2>6, <3>1
    <3>3. n \in Num
      BY DEF Made1, Num
    <3>4. Times(n, keys) \in Line /\ NumRows(Times(n, keys)) = 1
      BY <1>2, <3>1, <3>3, OneRowTimes
    <3>5. PICK q2, c2 : Keyed(Times(n, keys), H, A, q2, c2)
      BY <2>6, <3>4, KeysAt DEF CanKey
    <3>6. /\ q2 = <<>> /\ c2 = Cat(A, Times(n, keys))
          /\ At(InsertKeys(f, Times(n, keys)), Cat(H, q2), c2, B, T)
      BY <1>2, <3>4, <3>5 DEF Keyed
    <3>7. Cat(Cat(A, keys), Times(m, keys)) = Cat(A, Cat(keys, Times(m, keys)))
      BY <1>2, <2>4, <2>6, CatOf DEF Line
    <3>8. Cat(c, Times(m, keys)) = c2
      BY <2>4, <3>2, <3>6, <3>7
    <3> QED BY <2>5, <3>2, <3>6, <3>8
  <2> QED BY <2>7, <2>8
<1> QED BY <1>3, <1>4

-----------------------------------------------------------------------------
(* What undo does to the rows that a command has left *)

\* a block of rows is cut
LEMMA UndoBlock ==
  ASSUME NEW k \in Seq(Line), NEW q \in Seq(Line), NEW y \in Line, NEW u \in Seq(Line)
  PROVE  /\ Cut(Joined(Cat(k, q), y, u), Len(k), Len(q) + 1) = Cat(k, u)
         /\ Len(Joined(Cat(k, q), y, u)) = Len(k) + Len(q) + 1 + Len(u)
         /\ Len(k) \in Nat /\ Len(q) \in Nat /\ Len(u) \in Nat
<1>1. One(y) \in Seq(Line) /\ Len(One(y)) = 1
  BY OneIs
<1>2. Cat(k, q) \in Seq(Line) /\ Len(Cat(k, q)) = Len(k) + Len(q)
      /\ Len(k) \in Nat /\ Len(q) \in Nat
  BY CatIn
<1>3. Cat(q, One(y)) \in Seq(Line) /\ Len(Cat(q, One(y))) = Len(q) + 1
  <2>1. Cat(q, One(y)) \in Seq(Line) /\ Len(Cat(q, One(y))) = Len(q) + Len(One(y))
    BY <1>1, CatIn
  <2> QED BY <1>1, <2>1
<1>4. Joined(Cat(k, q), y, u) = Cat(k, Cat(Cat(q, One(y)), u))
  <2>1. Joined(Cat(k, q), y, u) = Cat(Cat(Cat(k, q), One(y)), u)
    BY <1>2, JoinedCat
  <2>2. Cat(Cat(k, q), One(y)) = Cat(k, Cat(q, One(y)))
    BY <1>1, CatOf
  <2>3. Cat(Cat(k, Cat(q, One(y))), u) = Cat(k, Cat(Cat(q, One(y)), u))
    BY <1>3, CatOf
  <2> QED BY <2>1, <2>2, <2>3
<1>5. Cut(Cat(k, Cat(Cat(q, One(y)), u)), Len(k), Len(Cat(q, One(y)))) = Cat(k, u)
  BY <1>3, CutAt
<1>6. Len(Joined(Cat(k, q), y, u)) = Len(Cat(k, q)) + 1 + Len(u) /\ Len(u) \in Nat
  <2>1. Cat(k, q) \in Seq(Line)
    BY <1>2
  <2> QED BY <2>1, JoinedIs
<1> QED BY <1>2, <1>3, <1>4, <1>5, <1>6

\* the rows below the first are cut, and that row is set
LEMMA UndoLine ==
  ASSUME NEW h \in Seq(Line), NEW q \in Seq(Line), q # <<>>, NEW y \in Line,
         NEW x \in Line, NEW t \in Seq(Line)
  PROVE  SetTo(Cut(Joined(Cat(h, q), y, t), Len(h) + 1, Len(q)), Len(h) + 1, x) = Joined(h, x, t)
<1>1. PICK z \in Line, p \in Seq(Line) : q = Cat(One(z), p) /\ Len(p) = Len(q) - 1
  BY FirstOf
<1>2. One(z) \in Seq(Line) /\ Len(One(z)) = 1
  BY OneIs
<1>3. PICK k : k = Cat(h, One(z))
  OBVIOUS
<1>4. k \in Seq(Line) /\ Len(k) = Len(h) + 1
  <2>1. Cat(h, One(z)) \in Seq(Line) /\ Len(Cat(h, One(z))) = Len(h) + Len(One(z))
    BY <1>2, CatIn
  <2> QED BY <1>2, <1>3, <2>1
<1>5. Cat(h, q) = Cat(k, p)
  BY <1>1, <1>2, <1>3, CatOf
<1>6. Cut(Joined(Cat(k, p), y, t), Len(k), Len(p) + 1) = Cat(k, t)
      /\ Len(p) \in Nat
  BY <1>4, UndoBlock
<1>7. Len(p) + 1 = Len(q)
  BY <1>1, <1>6
<1>8. Cat(k, t) = Joined(h, z, t)
  BY <1>3, JoinedCat
<1>9. SetTo(Joined(h, z, t), Len(h) + 1, x) = Joined(h, x, t)
  BY SetAt
<1>10. Cut(Joined(Cat(h, q), y, t), Len(h) + 1, Len(q)) = Joined(h, z, t)
  BY <1>4, <1>5, <1>6, <1>7, <1>8
<1> QED BY <1>9, <1>10

-----------------------------------------------------------------------------
(* A Diff, and the rows before and after its change *)

Made(d) ==
  /\ Made1(d.command, d.repeat, d.typed)
  /\ d.command # "p" => d.num_rows = NumRows(d.typed)
  /\ d.command \in LineCommands =>
       d.method = IF d.num_rows = 1 THEN "CHANGE_ROW" ELSE "CHANGE_ROW_AND_DELETE_ROWS"
  /\ d.command = "dd" => d.method = "ADD_ROWS"

Remade(d, old, new) ==
  \A e : Start(e, old, d) /\ ~(d.command = "a" /\ old[d.fr + 1] = <<>>) =>
    /\ Again(d.command, e, d.repeat, d.typed).ok
    /\ Again(d.command, e, d.repeat, d.typed).rows = new

Reverts(d, old, new) == CanUndo(new, d) /\ Undone(new, d) = old

Linked(d, old, new) ==
  /\ Made(d) /\ Fits(old, d) /\ new # <<>>
  /\ Reverts(d, old, new)
  /\ d.command = "p" /\ d.method = "DELETE_ROWS" => new = Put(old, d.fr + 1, d.rows)
  /\ d.command # "p" => Remade(d, old, new)

\* what the fields of d undo
LEMMA LineReverts ==
  ASSUME NEW d \in Diffs, Made(d), d.command \in LineCommands,
         NEW h \in Seq(Line), NEW q \in Seq(Line), NEW y \in Line, NEW x \in Line,
         NEW t \in Seq(Line), d.fr = Len(h), d.num_rows = Len(q) + 1, d.rows = One(x)
  PROVE  Reverts(d, Joined(h, x, t), Joined(Cat(h, q), y, t))
<1>1. PICK new : new = Joined(Cat(h, q), y, t)
  OBVIOUS
<1>2. /\ Len(new) = Len(h) + Len(q) + 1 + Len(t)
      /\ Len(h) \in Nat /\ Len(q) \in Nat /\ Len(t) \in Nat
  BY <1>1, UndoBlock
<1>3. d.rows # <<>> /\ d.rows[1] = x
  BY DEF One
<1>4. CASE d.num_rows = 1
  <2>1. Len(q) = 0
    BY <1>2, <1>4
  <2>2. q = <<>>
    BY <2>1
  <2>3. new = Joined(h, y, t)
    BY <1>1, <2>2, CatNone
  <2>4. d.method = "CHANGE_ROW"
    BY <1>4 DEF Made
  <2>5. SetTo(new, d.fr + 1, x) = Joined(h, x, t)
    BY <2>3, SetAt
  <2>6. Undone(new, d) = Joined(h, x, t)
    BY <1>3, <2>4, <2>5 DEF Undone, SetTo
  <2>7. d.fr < Len(new)
    BY <1>2
  <2>8. CanUndo(new, d)
    BY <1>3, <2>4, <2>7 DEF CanUndo
  <2> QED BY <1>1, <2>6, <2>8 DEF Reverts
<1>5. CASE d.num_rows # 1
  <2>1. Len(q) # 0
    BY <1>2, <1>5
  <2>2. q # <<>>
    BY <2>1
  <2>3. d.method = "CHANGE_ROW_AND_DELETE_ROWS"
    BY <1>5 DEF Made
  <2>4. SetTo(Cut(new, Len(h) + 1, Len(q)), Len(h) + 1, x) = Joined(h, x, t)
    BY <1>1, <2>2, UndoLine
  <2>5. d.num_rows - 1 = Len(q)
    BY <1>2
  <2>6. SetTo(Cut(new, d.fr + 1, d.num_rows - 1), d.fr + 1, x) = Joined(h, x, t)
    BY <2>4, <2>5
  <2>7. Undone(new, d) = Joined(h, x, t)
    BY <1>3, <2>3, <2>6 DEF Undone, SetTo
  <2>8. d.fr + d.num_rows <= Len(new)
    BY <1>2
  <2>9. CanUndo(new, d)
    BY <2>3, <2>8 DEF CanUndo
  <2> QED BY <1>1, <2>7, <2>9 DEF Reverts
<1> QED BY <1>4, <1>5

LEMMA BlockReverts ==
  ASSUME NEW d \in Diffs, d.method = "DELETE_ROWS",
         NEW k \in Seq(Line), NEW q \in Seq(Line), NEW y \in Line, NEW u \in Seq(Line),
         First(d) = Len(k), d.num_rows = Len(q) + 1
  PROVE  Reverts(d, Cat(k, u), Joined(Cat(k, q), y, u))
<1>1. PICK new : new = Joined(Cat(k, q), y, u)
  OBVIOUS
<1>2. /\ Cut(new, Len(k), Len(q) + 1) = Cat(k, u)
      /\ Len(new) = Len(k) + Len(q) + 1 + Len(u)
      /\ Len(k) \in Nat /\ Len(q) \in Nat /\ Len(u) \in Nat
  BY <1>1, UndoBlock
<1>3. Undone(new, d) = Cat(k, u)
  BY <1>2 DEF Undone
<1>4. First(d) + d.num_rows <= Len(new)
  BY <1>2
<1>5. CanUndo(new, d)
  BY <1>4 DEF CanUndo
<1> QED BY <1>1, <1>3, <1>5 DEF Reverts

\* i, a, o, O, s and x
LEMMA LinkMade ==
  ASSUME NEW d \in Diffs, Made(d), d.command \in InsertCommands \cup {"x"},
         NEW old, Fits(old, d), NEW h, NEW a, NEW b, NEW t, Split(old, d, h, a, b, t),
         NEW H, NEW A, NEW B, NEW T, Begun(d.command, d.repeat, h, a, b, t, H, A, B, T),
         NEW q, NEW c, Keyed(d.typed, H, A, q, c),
         NEW new,
         new = Joined(Cat(H, q), Cat(EndRow(d.command, d.repeat, d.typed, c), B), T),
         d.command \in LineCommands => d.rows = One(old[d.fr + 1]),
         d.command \in Map2 => d.method = "DELETE_ROWS"
  PROVE  Linked(d, old, new)
<1>1. PICK y : y = Cat(EndRow(d.command, d.repeat, d.typed, c), B)
  OBVIOUS
<1>2. PICK x : x = Cat(a, b)
  OBVIOUS
<1>3. /\ h \in Seq(Line) /\ a \in Line /\ b \in Line /\ t \in Seq(Line)
      /\ old = Joined(h, x, t) /\ d.fr = Len(h) /\ old[d.fr + 1] = x
      /\ b = <<>> => a = <<>>
  BY <1>2 DEF Split
<1>4. /\ H \in Seq(Line) /\ A \in Line /\ B \in Line /\ T \in Seq(Line)
      /\ Lays(d.command, h, x, t, H, A, B, T)
  BY <1>2 DEF Begun
<1>5. q \in Seq(Line) /\ c \in Line /\ NumRows(d.typed) = Len(q) + 1
  BY DEF Keyed
<1>6. d.repeat \in Nat \ {0} /\ d.typed \in Line /\ d.command # "p" /\ d.command # "dd"
  BY DEF Made, Made1, InsertCommands, Map1, Map2, Map4
<1>7. x \in Line
  BY <1>2, <1>3, CatIn DEF Line
<1>8. EndRow(d.command, d.repeat, d.typed, c) \in Line
  <2>1. PICK m \in Num : m = d.repeat - 1
    BY <1>6 DEF Num
  <2>2. Times(m, d.typed) \in Line
    BY <1>6, TimesIn DEF Line
  <2>3. Cat(c, Times(m, d.typed)) \in Line
    BY <1>5, <2>2, CatIn DEF Line
  <2> QED BY <1>5, <2>1, <2>3 DEF EndRow
<1>9. y \in Line
  BY <1>1, <1>4, <1>8, CatIn DEF Line
<1>10. d.num_rows = Len(q) + 1
  BY <1>5, <1>6 DEF Made
<1>11. new = Joined(Cat(H, q), y, T)
  BY <1>1
<1>12. Reverts(d, old, new)
  <2>1. CASE d.command \in LineCommands
    <3>1. H = h /\ T = t
      BY <1>4, <2>1 DEF Lays
    <3>2. d.rows = One(x)
      BY <1>3, <2>1
    <3>3. Reverts(d, Joined(h, x, t), Joined(Cat(h, q), y, t))
      BY <1>3, <1>5, <1>7, <1>9, <1>10, <2>1, <3>2, LineReverts
    <3> QED BY <1>3, <1>11, <3>1, <3>3
  <2>2. CASE d.command \in Map2
    <3>1. First(d) = Len(H) /\ Cat(H, T) = old
      <4>1. One(x) \in Seq(Line) /\ Len(One(x)) = 1
        BY <1>7, OneIs
      <4>2. CASE d.command = "o"
        <5>1. H = Cat(h, One(x)) /\ T = t
          BY <1>4, <4>2 DEF Lays
        <5>2. Len(Cat(h, One(x))) = Len(h) + 1
          <6>1. h \in Seq(Line) /\ One(x) \in Seq(Line)
            BY <1>3, <4>1
          <6>2. Len(Cat(h, One(x))) = Len(h) + Len(One(x))
            BY <6>1, CatIn
          <6> QED BY <4>1, <6>2
        <5>3. First(d) = d.fr + 1
          BY <4>2 DEF First
        <5>4. Cat(Cat(h, One(x)), t) = Joined(h, x, t)
          BY <1>3, <1>7, JoinedCat
        <5> QED BY <1>3, <5>1, <5>2, <5>3, <5>4
      <4>3. CASE d.command = "O"
        <5>1. H = h /\ T = Cat(One(x), t)
          BY <1>4, <4>3 DEF Lays
        <5>2. First(d) = d.fr
          BY <4>3 DEF First
        <5>3. Cat(h, Cat(One(x), t)) = Joined(h, x, t)
          BY <1>3, <1>7, JoinedCat
        <5> QED BY <1>3, <5>1, <5>2, <5>3
      <4> QED BY <2>2, <4>2, <4>3 DEF Map2
    <3>2. d.method = "DELETE_ROWS"
      BY <2>2
    <3>3. Reverts(d, Cat(H, T), Joined(Cat(H, q), y, T))
      BY <1>4, <1>5, <1>9, <1>10, <3>1, <3>2, BlockReverts
    <3> QED BY <1>11, <3>1, <3>3
  <2> QED BY <2>1, <2>2 DEF InsertCommands, LineCommands, Map1, Map4
<1>13. new # <<>>
  <2>1. Cat(H, q) \in Seq(Line)
    BY <1>4, <1>5, CatIn
  <2>2. Len(Joined(Cat(H, q), y, T)) = Len(Cat(H, q)) + 1 + Len(T)
        /\ Len(Cat(H, q)) \in Nat /\ Len(T) \in Nat
    BY <1>4, <1>9, <2>1, JoinedIs
  <2>3. Len(new) # 0
    BY <1>11, <2>2
  <2> QED BY <2>3
<1>14. Remade(d, old, new)
  <2>1. SUFFICES ASSUME NEW e, Start(e, old, d), ~(d.command = "a" /\ old[d.fr + 1] = <<>>)
                 PROVE  /\ Again(d.command, e, d.repeat, d.typed).ok
                        /\ Again(d.command, e, d.repeat, d.typed).rows = new
    BY DEF Remade
  <2>2. At(e, h, a, b, t)
    BY <2>1, SplitAt
  <2>3. ~AtEnd(d.command, b)
    <3>1. ASSUME d.command = "a", b = <<>> PROVE FALSE
      <4>1. x = <<>>
        BY <1>2, <1>3, <3>1, CatNone DEF Line
      <4> QED BY <1>3, <2>1, <3>1, <4>1
    <3> QED BY <3>1 DEF AtEnd
  <2>4. PICK f : f = Again(d.command, e, d.repeat, d.typed)
    OBVIOUS
  <2>5. At(f, Cat(H, q), EndRow(d.command, d.repeat, d.typed, c), B, T)
    BY <2>2, <2>3, <2>4, AgainAt DEF Made
  <2>6. f.ok /\ f.rows = new
    BY <2>5, AtText
  <2> QED BY <2>4, <2>6
<1> QED BY <1>6, <1>12, <1>13, <1>14 DEF Linked

-----------------------------------------------------------------------------
(* dd and p *)

\* what is cut can be put back
LEMMA CutBack ==
  ASSUME NEW A, NEW s \in Seq(A), NEW i \in Num, NEW n \in Num, i + n <= Len(s)
  PROVE  /\ Put(Cut(s, i, n), i, SubSeq(s, i + 1, i + n)) = s
         /\ i <= Len(Cut(s, i, n)) /\ Len(SubSeq(s, i + 1, i + n)) = n
<1>1. i \in Nat /\ n \in Nat /\ i <= Len(s) /\ Len(s) \in Nat
  BY DEF Num
<1>2. PICK h \in Seq(A), u \in Seq(A) : s = Cat(h, u) /\ Len(h) = i /\ Len(u) = Len(s) - i
  BY <1>1, Halves DEF Halved
<1>3. n <= Len(u)
  BY <1>1, <1>2
<1>4. PICK m \in Seq(A), t \in Seq(A) : u = Cat(m, t) /\ Len(m) = n /\ Len(t) = Len(u) - n
  BY <1>1, <1>3, Halves DEF Halved
<1>5. s = Cat(h, Cat(m, t))
  BY <1>2, <1>4
<1>6. Cut(s, i, n) = Cat(h, t)
  BY <1>2, <1>4, <1>5, CutAt
<1>7. SubSeq(s, i + 1, i + n) = m
  <2>1. SubSeq(Cat(h, Cat(m, t)), Len(h) + 1, Len(h) + Len(m)) = m
    BY MiddleOf
  <2> QED BY <1>2, <1>4, <1>5, <2>1
<1>8. Put(Cat(h, t), i, m) = s
  BY <1>2, <1>5, PutAt
<1>9. Len(Cat(h, t)) = Len(h) + Len(t) /\ Len(h) \in Nat /\ Len(t) \in Nat
  BY CatIn
<1>10. i <= Len(Cat(h, t))
  BY <1>2, <1>9
<1> QED BY <1>4, <1>6, <1>7, <1>8, <1>10

\* what is put there can be cut
LEMMA PutBack ==
  ASSUME NEW A, NEW s \in Seq(A), NEW i \in Num, i <= Len(s), NEW m \in Seq(A)
  PROVE  /\ Cut(Put(s, i, m), i, Len(m)) = s
         /\ i + Len(m) <= Len(Put(s, i, m)) /\ Len(Put(s, i, m)) = Len(s) + Len(m)
<1>1. i \in Nat /\ Len(s) \in Nat
  BY DEF Num
<1>2. PICK h \in Seq(A), t \in Seq(A) : s = Cat(h, t) /\ Len(h) = i /\ Len(t) = Len(s) - i
  BY <1>1, Halves DEF Halved
<1>3. Put(s, i, m) = Cat(h, Cat(m, t))
  BY <1>2, PutAt
<1>4. Cut(Cat(h, Cat(m, t)), i, Len(m)) = s
  BY <1>2, CutAt
<1>5. Cat(m, t) \in Seq(A) /\ Len(Cat(m, t)) = Len(m) + Len(t)
      /\ Len(m) \in Nat /\ Len(t) \in Nat
  BY CatIn
<1>6. Len(Cat(h, Cat(m, t))) = Len(h) + Len(Cat(m, t)) /\ Len(h) \in Nat
  BY <1>5, CatIn
<1>7. Len(Put(s, i, m)) = Len(s) + Len(m) /\ i + Len(m) <= Len(Put(s, i, m))
  BY <1>1, <1>2, <1>3, <1>5, <1>6
<1> QED BY <1>3, <1>4, <1>7

LEMMA DeletedIs ==
  ASSUME NEW e, NEW rows \in Seq(Line), NEW at, Start(e, rows, at), NEW n \in Nat \ {0},
         at.fr + n <= Len(rows)
  PROVE  /\ RowsDeleted(e, n).rows = Cut(rows, at.fr, n) /\ RowsDeleted(e, n).ok
         /\ RowsDeleted(e, n) \in Editors
<1>1. e \in Editors /\ e.ok /\ e.rows = rows /\ e.fr = at.fr /\ e.fr \in Nat /\ Len(rows) \in Nat
  BY DEF Start, Editors
<1>2. PICK i \in Num, m \in Num : i = e.fr /\ m = n
  BY <1>1 DEF Num
<1>3. m > 0 /\ i \in Nat /\ m \in Nat /\ i + m <= Len(rows)
  BY <1>1, <1>2 DEF Num
<1>4. Lesser(e.fr + n, Len(e.rows)) = i + m
  BY <1>1, <1>2, <1>3 DEF Lesser
<1>5. Taken(e, n) = SubSeq(rows, i + 1, i + m)
  BY <1>1, <1>2, <1>4 DEF Taken
<1>6. Len(Taken(e, n)) = m
  <2>1. rows \in Seq(Line) /\ i \in Num /\ m \in Num /\ i + m <= Len(rows)
    BY <1>2, <1>3
  <2>2. Len(SubSeq(rows, i + 1, i + m)) = m
    BY ONLY <2>1, CutBack
  <2> QED BY <1>5, <2>2
<1>7. Taken(e, n) # <<>>
  <2>1. Len(Taken(e, n)) # 0
    BY <1>3, <1>6
  <2> QED BY <2>1
<1>8. PICK left : left = Cut(rows, at.fr, n)
  OBVIOUS
<1>9. left = Cut(e.rows, e.fr, Len(Taken(e, n)))
  BY <1>1, <1>2, <1>6, <1>8
<1>10. RowsDeleted(e, n) =
         IF left = <<>>
         THEN [e EXCEPT !.rows = left, !.fr = 0, !.fc = 0, !.dirty = @ \/ Len(e.rows) > 1]
         ELSE Changed(e, left)
  BY <1>7, <1>9 DEF RowsDeleted
<1>11. RowsDeleted(e, n).rows = left /\ RowsDeleted(e, n).ok = e.ok
  BY <1>1, <1>10 DEF Changed, Editors
<1>12. RowsDeleted(e, n) \in Editors
  BY <1>1, RowsDeletedAfter, AfterIs
<1> QED BY <1>1, <1>8, <1>11, <1>12

LEMMA LinkDeleted ==
  ASSUME NEW d \in Diffs, Made(d), d.command = "dd", NEW old \in Seq(Line), Fits(old, d),
         d.fr + d.repeat <= Len(old), d.rows = SubSeq(old, d.fr + 1, d.fr + d.repeat),
         NEW new, new = Cut(old, d.fr, d.repeat), new # <<>>
  PROVE  Linked(d, old, new)
<1>1. d.repeat \in Nat \ {0} /\ d.method = "ADD_ROWS" /\ d.fr \in Nat
  BY DiffParts DEF Made, Made1
<1>2. PICK i \in Num, n \in Num : i = d.fr /\ n = d.repeat
  BY <1>1 DEF Num
<1>3. Put(new, d.fr, d.rows) = old /\ d.fr <= Len(new)
  <2>1. i + n <= Len(old)
    BY <1>2
  <2>2. Put(Cut(old, i, n), i, SubSeq(old, i + 1, i + n)) = old /\ i <= Len(Cut(old, i, n))
    BY <2>1, CutBack
  <2> QED BY <1>2, <2>2
<1>4. Reverts(d, old, new)
  BY <1>1, <1>3 DEF Reverts, CanUndo, Undone
<1>5. Remade(d, old, new)
  <2>1. SUFFICES ASSUME NEW e, Start(e, old, d)
                 PROVE  /\ Again(d.command, e, d.repeat, d.typed).ok
                        /\ Again(d.command, e, d.repeat, d.typed).rows = new
    BY DEF Remade
  <2>2. Again(d.command, e, d.repeat, d.typed) = RowsDeleted(e, d.repeat)
    BY DEF Again
  <2>3. RowsDeleted(e, d.repeat).rows = new /\ RowsDeleted(e, d.repeat).ok
    <3>1. PICK m \in Nat \ {0} : m = d.repeat
      BY <1>1
    <3>2. Start(e, old, d) /\ d.fr + m <= Len(old) /\ new = Cut(old, d.fr, m)
      BY <2>1, <3>1
    <3>3. RowsDeleted(e, m).rows = Cut(old, d.fr, m) /\ RowsDeleted(e, m).ok
      BY <3>2, DeletedIs
    <3> QED BY <3>1, <3>2, <3>3
  <2> QED BY <2>2, <2>3
<1> QED BY <1>4, <1>5 DEF Linked

LEMMA PastedIs ==
  ASSUME NEW e, NEW rows \in Seq(Line), NEW at, Start(e, rows, at), at.fr < Len(rows)
  PROVE  /\ Pasted(e).rows = Put(rows, at.fr + 1, buffer) /\ Pasted(e).ok
<1>1. e \in Editors /\ e.ok /\ e.rows = rows /\ e.fr = at.fr /\ e.fr \in Nat /\ Len(rows) \in Nat
  BY DEF Start, Editors
<1>2. rows # <<>> /\ OnRow(e)
  BY <1>1 DEF OnRow
<1>3. Pasted(e) = [e EXCEPT !.rows = Put(@, e.fr + 1, buffer), !.fr = @ + 1, !.fc = 0]
  BY <1>1, <1>2 DEF Pasted
<1> QED BY <1>1, <1>3 DEF Editors

LEMMA LinkPasted ==
  ASSUME NEW d \in Diffs, Made(d), d.command = "p", NEW old \in Seq(Line), Fits(old, d),
         NEW pasted \in Seq(Line),
         IF pasted = <<>>
         THEN d.method = "CHANGE_ROW" /\ d.rows = One(old[d.fr + 1])
         ELSE d.method = "DELETE_ROWS" /\ d.rows = pasted /\ d.num_rows = Len(pasted),
         NEW new, new = Put(old, d.fr + 1, pasted)
  PROVE  Linked(d, old, new)
<1>1. d.fr \in Nat /\ d.fr < Len(old) /\ Len(old) \in Nat
  BY DiffParts DEF Fits
<1>2. PICK i \in Num : i = d.fr + 1
  BY <1>1 DEF Num
<1>3. i <= Len(old)
  BY <1>1, <1>2
<1>4. /\ Cut(new, i, Len(pasted)) = old /\ i + Len(pasted) <= Len(new)
      /\ Len(new) = Len(old) + Len(pasted) /\ Len(pasted) \in Nat
  BY <1>2, <1>3, PutBack
<1>5. new # <<>>
  <2>1. Len(new) # 0
    BY <1>1, <1>4
  <2> QED BY <2>1
<1>6. CASE pasted # <<>>
  <2>1. d.method = "DELETE_ROWS" /\ d.rows = pasted /\ d.num_rows = Len(pasted)
    BY <1>6
  <2>2. First(d) = i
    BY <1>2 DEF First
  <2>3. Reverts(d, old, new)
    BY <1>4, <2>1, <2>2 DEF Reverts, CanUndo, Undone
  <2> QED BY <1>5, <2>1, <2>3 DEF Linked
<1>7. CASE pasted = <<>>
  <2>1. d.method = "CHANGE_ROW" /\ d.rows = One(old[d.fr + 1])
    BY <1>7
  <2>2. new = old
    <3>1. PICK h \in Seq(Line), t \in Seq(Line) : old = Cat(h, t) /\ Len(h) = i
      BY <1>1, <1>2, <1>3, Halves DEF Halved, Num
    <3>2. Put(Cat(h, t), Len(h), pasted) = Cat(h, Cat(pasted, t))
      BY PutAt
    <3>3. Cat(pasted, t) = t
      BY <1>7, CatNone
    <3> QED BY <1>2, <3>1, <3>2, <3>3
  <2>3. [old EXCEPT ![d.fr + 1] = old[d.fr + 1]] = old
    BY <1>1
  <2>4. d.rows # <<>> /\ d.rows[1] = old[d.fr + 1]
    BY <2>1 DEF One
  <2>5. Undone(new, d) = old
    BY <2>1, <2>2, <2>3, <2>4 DEF Undone
  <2>6. CanUndo(new, d)
    BY <1>1, <2>1, <2>2, <2>4 DEF CanUndo
  <2>7. Reverts(d, old, new)
    BY <2>5, <2>6 DEF Reverts
  <2> QED BY <1>5, <2>1, <2>7 DEF Linked
<1> QED BY <1>6, <1>7

-----------------------------------------------------------------------------
(* The invariant: undo_deque leads back through the timeline, and while text  *)
(* is inserted, it is the snapshot with the command and the keys typed so far *)

\* Each Diff leads from the older of its two texts to the newer one and back.
Chain(u, tl) == \A i \in 1..Len(u) : Linked(u[i], tl[i + 1], tl[i])

\* e is the text rows with command done n times at the cursor at, and keys typed since.
TypedAt(command, n, keys, rows, at, e) ==
  \E h, a, b, t, H, A, B, T, q, c :
    /\ Split(rows, at, h, a, b, t)
    /\ Begun(command, n, h, a, b, t, H, A, B, T)
    /\ Keyed(keys, H, A, q, c)
    /\ At(e, Cat(H, q), c, B, T)

\* A note without rows, to which nothing has been done yet.
NothingYet ==
  /\ lastTyped = <<>> /\ undo_deque = <<>> /\ lastCommand = "i" /\ lastRepeat = 1
  /\ snapshot = << <<>> >> /\ prev.fr = 0 /\ prev.fc = 0

\* What holds while text is inserted: Escape finds in the snapshot what undo needs.
Inserts ==
  /\ lastCommand \in Map2 => lastRepeat = 1
  /\ Fits(snapshot, prev)
  /\ undo_deque # <<>> => snapshot = timeline[d_index + 1]
  /\ IF ed.rows = <<>> THEN NothingYet
     ELSE TypedAt(lastCommand, lastRepeat, lastTyped, snapshot, prev, ed)

\* What holds between commands: the cursor fits, and the text is where the timeline has it.
Rests ==
  /\ ed.rows # <<>> => mode \in {"NORMAL", "CLOSED"} /\ Fits(ed.rows, ed)
  /\ ed.rows = <<>> => undo_deque = <<>>
  /\ undo_deque # <<>> => /\ ed.rows = timeline[d_index + 1]
                          /\ undo_deque[1].command = lastCommand
                          /\ lastRepeat \in {0, undo_deque[1].repeat}

UndoInv ==
  plain => /\ ed.ok /\ Chain(undo_deque, timeline)
           /\ IF mode = "INSERT" THEN Inserts ELSE Rests

-----------------------------------------------------------------------------
\* in NORMAL mode the cursor is on a character, or on an empty row
LEMMA ScrollFits ==
  ASSUME NEW e \in Editors, e.rows # <<>>, NEW f, f = Scroll(e, "NORMAL")
  PROVE  Fits(f.rows, f)
<1>1. /\ e.fr \in Nat /\ e.fc \in Nat /\ Len(e.rows) \in Nat /\ e.rows \in Seq(Line)
      /\ \A i \in 1..Len(e.rows) : Len(e.rows[i]) \in Nat
  BY Parts
<1>2. Len(e.rows) # 0
  BY <1>1
<1>3. PICK r : r = Lesser(e.fr, Len(e.rows) - 1)
  OBVIOUS
<1>4. r \in Nat /\ r < Len(e.rows)
  BY <1>1, <1>2, <1>3 DEF Lesser
<1>5. PICK size : size = Len(e.rows[r + 1])
  OBVIOUS
<1>6. size \in Nat
  BY <1>1, <1>4, <1>5
<1>7. PICK col : col = IF e.fc < size THEN e.fc ELSE IF size = 0 THEN size ELSE size - 1
  OBVIOUS
<1>8. col \in Nat /\ (col < size \/ (size = 0 /\ col = 0))
  BY <1>1, <1>6, <1>7
<1>9. f = [e EXCEPT !.fr = r, !.fc = col]
  BY <1>3, <1>5, <1>7 DEF Scroll
<1>10. f.rows = e.rows /\ f.fr = r /\ f.fc = col
  BY <1>9 DEF Editors
<1>11. size = 0 => e.rows[r + 1] = <<>>
  <2>1. PICK row \in Line : row = e.rows[r + 1]
    BY <1>1, <1>4, Parts
  <2>2. Len(row) = 0 => row = <<>>
    BY DEF Line
  <2> QED BY <1>5, <2>1, <2>2
<1> QED BY <1>4, <1>5, <1>8, <1>10, <1>11 DEF Fits

LEMMA ShownNormal ==
  ASSUME NEW e \in Editors, e.rows # <<>>, Shown(e, "NORMAL")
  PROVE  /\ mode' = "NORMAL" /\ ed'.rows = e.rows /\ ed'.ok = e.ok /\ Fits(ed'.rows, ed')
<1>1. mode' = "NORMAL" /\ ed' = Scroll(e, "NORMAL")
  BY DEF Shown
<1>2. ed'.rows = e.rows /\ ed'.ok = e.ok
  BY <1>1, ScrollIs
<1>3. Fits(ed'.rows, ed')
  BY <1>1, ScrollFits
<1> QED BY <1>1, <1>2, <1>3

LEMMA NoteSame == ASSUME NEW rows, rows # <<>> PROVE Note(rows) = rows
BY DEF Note

LEMMA ChainNone == ASSUME NEW tl PROVE Chain(<<>>, tl)
BY DEF Chain

\* one more change, with the rows before and after it
LEMMA ChainMore ==
  ASSUME NEW S, NEW u \in Seq(S), NEW X, NEW tl \in Seq(X), Len(tl) = Len(u) + 1,
         Chain(u, tl), NEW d \in S, NEW new \in X, Linked(d, tl[1], new)
  PROVE  Chain(<<d>> \o u, <<new>> \o tl)
<1>1. PICK v : v = <<d>> \o u
  OBVIOUS
<1>2. PICK nl : nl = <<new>> \o tl
  OBVIOUS
<1>3. Len(u) \in Nat /\ Len(v) = Len(u) + 1 /\ v[1] = d
      /\ \A i \in 1..Len(u) : v[i + 1] = u[i]
  BY <1>1
<1>4. Len(nl) = Len(tl) + 1 /\ nl[1] = new /\ \A i \in 1..Len(tl) : nl[i + 1] = tl[i]
  BY <1>2
<1>5. ASSUME NEW i \in 1..Len(v) PROVE Linked(v[i], nl[i + 1], nl[i])
  <2>1. CASE i = 1
    <3>1. nl[i + 1] = tl[1] /\ v[i] = d /\ nl[i] = new
      BY <1>3, <1>4, <2>1
    <3> QED BY <3>1
  <2>2. CASE i # 1
    <3>1. PICK j \in 1..Len(u) : i = j + 1
      <4>1. i - 1 \in 1..Len(u) /\ i = (i - 1) + 1
        BY <1>3, <2>2
      <4> QED BY <4>1
    <3>2. v[i] = u[j] /\ nl[i + 1] = tl[j + 1] /\ nl[i] = tl[j]
      <4>1. v[j + 1] = u[j] /\ nl[j + 1] = tl[j]
        BY <1>3, <1>4
      <4>2. j + 1 \in 1..Len(tl)
        BY <1>3
      <4>3. nl[(j + 1) + 1] = tl[j + 1]
        BY <1>4, <4>2
      <4> QED BY <3>1, <4>1, <4>3
    <3>3. Linked(u[j], tl[j + 1], tl[j])
      BY DEF Chain
    <3> QED BY <3>2, <3>3
  <2> QED BY <2>1, <2>2
<1>6. Chain(v, nl)
  BY <1>5 DEF Chain
<1> QED BY <1>1, <1>2, <1>6

LEMMA AloneIs ==
  ASSUME NEW A, NEW s \in Seq(A)
  PROVE  s \o <<>> = s
BY CatNone DEF Cat

LEMMA ChainFirst ==
  ASSUME NEW d, NEW old, NEW new, Linked(d, old, new)
  PROVE  Chain(<<d>>, <<new, old>>)
<1>1. \A i \in 1..1 : i = 1
  OBVIOUS
<1>2. <<d>>[1] = d /\ <<new, old>>[1] = new /\ <<new, old>>[2] = old /\ Len(<<d>>) = 1
  OBVIOUS
<1> QED BY <1>1, <1>2 DEF Chain

\* push_current
LEMMA PushLinks ==
  ASSUME HistoryInv, Chain(undo_deque, timeline), NEW rows, rows # <<>>, NEW e \in Editors, e.ok,
         e.rows # <<>>, NEW command, NEW n, NEW keys, NEW snap, snap # <<>>, NEW at,
         undo_deque # <<>> => snap = timeline[d_index + 1],
         Keepable(command, n, snap, at), snap \in Texts,
         DiffOf(command, n, keys, snap, at) \in SoundDiffs,
         PushCurrent(rows, e, command, n, keys, snap, at, "NORMAL"),
         Linked(DiffOf(command, n, keys, snap, at), snap, e.rows)
  PROVE  /\ ed'.ok /\ Chain(undo_deque', timeline') /\ mode' = "NORMAL"
         /\ ed'.rows # <<>> /\ Fits(ed'.rows, ed') /\ ed'.rows = timeline'[d_index' + 1]
         /\ undo_deque'[1] = DiffOf(command, n, keys, snap, at)
<1>1. PICK d : d = DiffOf(command, n, keys, snap, at)
  OBVIOUS
<1>2. Note(e.rows) = e.rows /\ Note(snap) = snap
  BY NoteSame
<1>3. /\ Shown(e, "NORMAL") /\ d_index' = 0
      /\ undo_deque' = <<d>> \o (IF d_index # 0 THEN <<>> ELSE undo_deque)
      /\ timeline' = <<e.rows, snap>> \o (IF d_index = 0 THEN Tail(timeline) ELSE <<>>)
  BY <1>1, <1>2 DEF PushCurrent
<1>4. mode' = "NORMAL" /\ ed'.rows = e.rows /\ ed'.ok /\ Fits(ed'.rows, ed')
  BY <1>3, ShownNormal
<1>5. e.rows \in Texts
  BY DEF Editors
<1>6. /\ undo_deque \in Seq(SoundDiffs) /\ d_index \in Nat /\ timeline \in Seq(Texts)
      /\ Len(timeline) = Len(undo_deque) + 1
  BY DEF HistoryInv
<1>7. undo_deque'[1] = d /\ timeline'[1] = e.rows
  BY <1>3, <1>6
<1>8. Chain(undo_deque', timeline')
  <2>1. CASE undo_deque = <<>> \/ d_index # 0
    <3>1. undo_deque' = <<d>>
      <4>1. <<d>> \in Seq(SoundDiffs)
        BY <1>1
      <4>2. <<d>> \o <<>> = <<d>>
        BY <4>1, AloneIs
      <4> QED BY <1>3, <2>1, <4>2
    <3>2. timeline' = <<e.rows, snap>>
      <4> DEFINE both == <<e.rows, snap>>
      <4>4. both \in Seq(Texts)
        BY <1>5
      <4>3. both \o <<>> = both
        BY <4>4, AloneIs
      <4>1. CASE d_index # 0
        BY <1>3, <4>1, <4>3
      <4>2. CASE d_index = 0
        <5>1. Len(timeline) = 1
          BY <1>6, <2>1, <4>2
        <5>2. Tail(timeline) = <<>>
          BY <1>6, <5>1
        <5> QED BY <1>3, <4>2, <4>3, <5>2
      <4> QED BY <4>1, <4>2
    <3> QED BY <1>1, <3>1, <3>2, ChainFirst
  <2>2. CASE undo_deque # <<>> /\ d_index = 0
    <3>1. snap = timeline[1]
      BY <2>2
    <3>2. timeline' = <<e.rows>> \o timeline
      <4>1. PICK l : l = timeline
        OBVIOUS
      <4>2. l \in Seq(Texts) /\ Len(l) >= 1 /\ l[1] = snap
        BY <1>6, <3>1, <4>1
      <4>3. <<e.rows, snap>> \o Tail(l) = <<e.rows>> \o l
        BY <1>5, <4>2
      <4> QED BY <1>3, <2>2, <4>1, <4>3
    <3>3. undo_deque' = <<d>> \o undo_deque
      BY <1>3, <2>2
    <3>4. Linked(d, timeline[1], e.rows)
      BY <1>1, <3>1
    <3>5. Chain(<<d>> \o undo_deque, <<e.rows>> \o timeline)
      BY <1>1, <1>5, <1>6, <3>4, ChainMore
    <3> QED BY <3>2, <3>3, <3>5
  <2> QED BY <2>1, <2>2
<1>9. ed'.rows = timeline'[d_index' + 1]
  BY <1>3, <1>4, <1>7
<1> QED BY <1>1, <1>4, <1>7, <1>8, <1>9

-----------------------------------------------------------------------------
(* Each action keeps UndoInv *)

Plainly == Known /\ UndoInv /\ plain

LEMMA PlainlyIs ==
  ASSUME Plainly
  PROVE  /\ Known /\ EditorUndoAssumption /\ HistoryInv /\ OtherInv /\ ed \in Editors /\ Bounded(ed)
         /\ buffer \in Texts /\ ed.rows \in Seq(Line) /\ ed.ok
         /\ Chain(undo_deque, timeline) /\ (mode = "INSERT" => Inserts)
         /\ (mode # "INSERT" => Rests)
         /\ lastTyped \in Line /\ lastRepeat \in Nat
BY KnownIs, TextsAre DEF Plainly, UndoInv, Editors

LEMMA HistoryIs ==
  ASSUME HistoryInv
  PROVE  /\ undo_deque \in Seq(SoundDiffs) /\ d_index \in Nat /\ timeline \in Seq(Texts)
         /\ Len(timeline) = Len(undo_deque) + 1 /\ Len(undo_deque) \in Nat
         /\ (undo_deque # <<>> => d_index <= Len(undo_deque))
         /\ \A i \in 1..Len(undo_deque) : undo_deque[i] \in SoundDiffs /\ undo_deque[i] \in Diffs
BY DEF HistoryInv, SoundDiffs

LEMMA ExcludingPlain ==
  ASSUME NEW uses, Excluding(uses), plain'
  PROVE  plain /\ ~uses
BY DEF Excluding

LEMMA UndoInit == EditorUndoAssumption /\ Init => UndoInv
<1>1. SUFFICES ASSUME EditorUndoAssumption, Init PROVE UndoInv
  OBVIOUS
<1>2. PICK note \in Notes :
        /\ ed = [rows |-> note, fr |-> 0, fc |-> 0, dirty |-> FALSE, ok |-> TRUE]
        /\ mode = IF note = <<>> THEN "INSERT" ELSE "NORMAL"
        /\ prev = [fr |-> 0, fc |-> 0]
        /\ snapshot = IF note = <<>> THEN << <<>> >> ELSE <<>>
        /\ lastCommand = IF note = <<>> THEN "i" ELSE ""
        /\ lastRepeat = 1 /\ lastTyped = <<>> /\ undo_deque = <<>>
  BY <1>1 DEF Init
<1>3. ed.ok /\ ed.rows = note /\ ed.fr = 0 /\ ed.fc = 0 /\ prev.fr = 0 /\ prev.fc = 0
  BY <1>2
<1>4. Chain(undo_deque, timeline)
  BY <1>2, ChainNone
<1>5. CASE note = <<>>
  <2>1. snapshot = << <<>> >> /\ mode = "INSERT" /\ lastCommand = "i" /\ ed.rows = <<>>
    BY <1>2, <1>3, <1>5
  <2>2. Fits(snapshot, prev)
    BY <1>3, <2>1 DEF Fits
  <2>3. NothingYet
    BY <1>2, <1>3, <2>1 DEF NothingYet
  <2>4. Inserts
    BY <1>2, <2>1, <2>2, <2>3 DEF Inserts, Map2
  <2> QED BY <1>3, <1>4, <2>1, <2>4 DEF UndoInv
<1>6. CASE note # <<>>
  <2>1. note \in Seq(Seq(Letters))
    BY <1>1 DEF EditorUndoAssumption
  <2>2. Len(note) \in Nat /\ Len(note) # 0 /\ note[1] \in Seq(Letters)
    BY <1>6, <2>1
  <2>3. Len(note[1]) \in Nat /\ (Len(note[1]) = 0 => note[1] = <<>>)
    BY <2>2
  <2>4. Fits(ed.rows, ed)
    BY <1>3, <2>2, <2>3 DEF Fits
  <2>5. mode = "NORMAL"
    BY <1>2, <1>6
  <2>6. Rests
    BY <1>2, <2>4, <2>5 DEF Rests
  <2> QED BY <1>3, <1>4, <2>5, <2>6 DEF UndoInv
<1> QED BY <1>5, <1>6

\* nothing but the cursor moves, and it comes to fit
LEMMA RestsKept ==
  ASSUME Plainly, mode # "INSERT", ed'.rows = ed.rows, ed'.ok,
         ed.rows # <<>> => Fits(ed'.rows, ed') /\ mode' \in {"NORMAL", "CLOSED"},
         mode' # "INSERT",
         UNCHANGED <<undo_deque, d_index, timeline, lastCommand>>,
         lastRepeat' \in {0, lastRepeat}
  PROVE  UndoInv'
<1>1. Rests /\ Chain(undo_deque, timeline)
  BY PlainlyIs
<1>2. undo_deque' = undo_deque /\ d_index' = d_index /\ timeline' = timeline
      /\ lastCommand' = lastCommand
  OBVIOUS
<1>3. Chain(undo_deque', timeline')
  BY <1>1, <1>2
<1>4. Rests'
  BY <1>1, <1>2 DEF Rests
<1> QED BY <1>3, <1>4 DEF UndoInv

LEMMA MoveUndo == ASSUME Plainly, Move PROVE UndoInv'
<1>1. /\ mode = "NORMAL" /\ ed.ok
      /\ IF ed.rows = <<>> THEN UNCHANGED ed
         ELSE \E r \in 0..Len(ed.rows) - 1 : \E c \in 0..Len(ed.rows[r + 1]) :
                ed' = Scroll([ed EXCEPT !.fr = r, !.fc = c], mode)
      /\ mode' = mode /\ lastRepeat' = lastRepeat
      /\ UNCHANGED <<undo_deque, d_index, timeline, lastCommand>>
  BY DEF Move, before, typing, history
<1>2. CASE ed.rows = <<>>
  BY <1>1, <1>2, RestsKept
<1>3. CASE ed.rows # <<>>
  <2>1. PICK r \in Nat, c \in Nat : ed' = Scroll([ed EXCEPT !.fr = r, !.fc = c], "NORMAL")
    <3>1. PICK i \in 0..Len(ed.rows) - 1 : \E c \in 0..Len(ed.rows[i + 1]) :
            ed' = Scroll([ed EXCEPT !.fr = i, !.fc = c], mode)
      BY <1>1, <1>3
    <3>2. PICK j \in 0..Len(ed.rows[i + 1]) :
            ed' = Scroll([ed EXCEPT !.fr = i, !.fc = j], mode)
      BY <3>1
    <3>3. PICK r1 \in Nat, c1 \in Nat : r1 = i /\ c1 = j
      OBVIOUS
    <3> QED BY <1>1, <3>2, <3>3
  <2>2. PICK f : f = [ed EXCEPT !.fr = r, !.fc = c]
    OBVIOUS
  <2>3. ed \in Editors
    BY PlainlyIs
  <2>4. f \in Editors
    BY <2>2, <2>3 DEF Editors
  <2>5. f.rows = ed.rows /\ f.ok = ed.ok
    BY <2>2, <2>3 DEF Editors
  <2>6. ed'.rows = ed.rows /\ ed'.ok /\ Fits(ed'.rows, ed')
    <3>1. ed' = Scroll(f, "NORMAL") /\ f \in Editors
      BY <2>1, <2>2, <2>4
    <3>2. f.rows # <<>>
      BY <1>3, <2>5
    <3>3. ed'.rows = f.rows /\ ed'.ok = f.ok
      BY ONLY <3>1, ScrollIs
    <3>4. Fits(ed'.rows, ed')
      BY ONLY <3>1, <3>2, ScrollFits
    <3> QED BY <1>1, <2>5, <3>3, <3>4
  <2> QED BY <1>1, <2>6, RestsKept
<1> QED BY <1>2, <1>3

LEMMA YankUndo == ASSUME Plainly, plain', NEW n \in Repeats, YankLine(n) PROVE UndoInv'
<1>1. /\ mode = "NORMAL" /\ mode' = mode /\ lastRepeat' = lastRepeat
      /\ ed' = (IF ed.fr + n <= Len(ed.rows) THEN ed ELSE Failed(ed))
      /\ Excluding(ed.fr + n > Len(ed.rows))
      /\ UNCHANGED <<undo_deque, d_index, timeline, lastCommand>>
  BY DEF YankLine, Commanded, typing, history
<1>2. ~(ed.fr + n > Len(ed.rows))
  BY <1>1, ExcludingPlain
<1>3. ed.fr \in Nat /\ Len(ed.rows) \in Nat /\ n \in Nat
  BY PlainlyIs DEF Editors, Repeats
<1>4. ed' = ed
  BY <1>1, <1>2, <1>3
<1>5. ed.ok /\ Rests
  BY <1>1, PlainlyIs
<1>6. ed.rows # <<>> => Fits(ed'.rows, ed')
  BY <1>4, <1>5 DEF Rests
<1> QED BY <1>1, <1>4, <1>5, <1>6, RestsKept

LEMMA CommandLineUndo ==
  ASSUME Plainly, \/ \E ok \in Outcomes : Write(ok) \/ WriteAndQuit(ok)
                  \/ Cancel \/ Quit \/ QuitRefused \/ Abandon
  PROVE  UndoInv'
<1>1. /\ mode \in {"NORMAL", "NO_ROWS"} /\ mode' \in {"NORMAL", "CLOSED"}
      /\ ed' = ed \/ ed' = [ed EXCEPT !.dirty = FALSE]
      /\ lastRepeat' \in {0, lastRepeat}
      /\ UNCHANGED <<undo_deque, d_index, timeline, lastCommand>>
  BY DEF Write, WriteAndQuit, Cancel, Quit, QuitRefused, Abandon, Closed, AtCommandLine,
         before, typing, history
<1>2. ed \in Editors /\ ed.ok /\ Rests
  BY <1>1, PlainlyIs
<1>3. ed'.rows = ed.rows /\ ed'.fr = ed.fr /\ ed'.fc = ed.fc /\ ed'.ok
  BY <1>1, <1>2 DEF Editors
<1>4. ed.rows # <<>> => Fits(ed.rows, ed)
  BY <1>2 DEF Rests
<1>5. ed.rows # <<>> => Fits(ed'.rows, ed')
  BY <1>3, <1>4 DEF Fits
<1> QED BY <1>1, <1>3, <1>5, RestsKept

LEMMA UndoUndo == ASSUME Plainly, Undo PROVE UndoInv'
<1>1. /\ mode = "NORMAL" /\ mode' = mode /\ lastRepeat' = lastRepeat
      /\ UNCHANGED <<undo_deque, timeline, lastCommand>>
  BY DEF Undo, before, typing
<1>2. /\ ed \in Editors /\ ed.ok /\ Rests /\ Chain(undo_deque, timeline)
      /\ HistoryInv
  BY <1>1, PlainlyIs
<1>3. CASE undo_deque = <<>> \/ d_index = Len(undo_deque)
  <2>1. ed' = ed /\ d_index' = d_index
    BY <1>3 DEF Undo
  <2>2. ed.rows # <<>> => Fits(ed'.rows, ed')
    BY <1>2, <2>1 DEF Rests
  <2> QED BY <1>1, <1>2, <2>1, <2>2, RestsKept
<1>4. CASE undo_deque # <<>> /\ d_index # Len(undo_deque)
  <2>1. /\ d_index \in Nat /\ Len(undo_deque) \in Nat /\ d_index <= Len(undo_deque)
    BY <1>2, <1>4, HistoryIs
  <2>2. d_index + 1 \in 1..Len(undo_deque)
    BY <1>4, <2>1
  <2>3. PICK d : d = undo_deque[d_index + 1]
    OBVIOUS
  <2>4. d \in SoundDiffs /\ d \in Diffs
    BY <1>2, <2>2, <2>3, HistoryIs
  <2>5. Linked(d, timeline[(d_index + 1) + 1], timeline[d_index + 1])
    BY <1>2, <2>2, <2>3 DEF Chain
  <2>6. ed.rows = timeline[d_index + 1]
    BY <1>2, <1>4 DEF Rests
  <2>7. PICK old : old = timeline[(d_index + 1) + 1]
    OBVIOUS
  <2>8. CanUndo(ed.rows, d) /\ Undone(ed.rows, d) = old /\ Fits(old, d)
    BY <2>5, <2>6, <2>7 DEF Linked, Reverts
  <2>9. PICK e : e = [ed EXCEPT !.rows = old, !.fr = d.fr, !.fc = d.fc]
    OBVIOUS
  <2>10. ed' = Scroll(e, "NORMAL") /\ d_index' = d_index + 1
    <3>1. ed' = Scroll([ed EXCEPT !.rows = Undone(ed.rows, d), !.fr = d.fr, !.fc = d.fc], mode)
          /\ d_index' = d_index + 1
      BY <1>4, <2>3, <2>8 DEF Undo
    <3> QED BY <1>1, <2>8, <2>9, <3>1
  <2>11. old \in Texts
    BY <1>2, <2>4, <2>8, UndoneIn DEF Editors
  <2>12. d.fr \in Nat /\ d.fc \in Nat
    BY <2>4, DiffParts
  <2>13. e \in Editors
    BY <1>2, <2>9, <2>11, <2>12 DEF Editors
  <2>14. e.rows = old /\ e.ok
    BY <1>2, <2>9 DEF Editors
  <2>15. old # <<>>
    <3>1. d.fr < Len(old)
      BY <2>8 DEF Fits
    <3>2. Len(old) # 0
      BY <2>12, <3>1
    <3> QED BY <3>2
  <2>16. ed'.rows = old /\ ed'.ok /\ Fits(ed'.rows, ed')
    BY <2>10, <2>13, <2>14, <2>15, ScrollIs, ScrollFits
  <2>17. undo_deque' = undo_deque /\ timeline' = timeline /\ lastCommand' = lastCommand
    BY <1>1
  <2>18. timeline'[d_index' + 1] = old
    BY <2>7, <2>10, <2>17
  <2>19. Rests'
    BY <1>1, <1>2, <2>15, <2>16, <2>17, <2>18 DEF Rests
  <2> QED BY <1>1, <1>2, <2>16, <2>17, <2>19 DEF UndoInv
<1> QED BY <1>3, <1>4

\* the cursor, put where a Diff says
LEMMA StartIs ==
  ASSUME NEW e \in Editors, e.ok, NEW d, d.fr \in Nat, d.fc \in Nat, NEW f,
         f = [e EXCEPT !.fr = d.fr, !.fc = d.fc]
  PROVE  Start(f, e.rows, d) /\ f \in Editors
<1>1. PICK i \in Nat, j \in Nat : i = d.fr /\ j = d.fc
  OBVIOUS
<1>2. f = [e EXCEPT !.fr = i, !.fc = j]
  BY <1>1
<1>3. f \in Editors
  BY <1>2 DEF Editors
<1>4. f.rows = e.rows /\ f.fr = i /\ f.fc = j /\ f.ok = e.ok
  BY <1>2 DEF Editors
<1> QED BY <1>1, <1>3, <1>4 DEF Start

LEMMA CursorStart ==
  ASSUME NEW e \in Editors, e.ok
  PROVE  Start(e, e.rows, e) /\ Start(e, e.rows, [fr |-> e.fr, fc |-> e.fc])
BY DEF Start

LEMMA RedoKeeps ==
  ASSUME Plainly, plain', mode = "NORMAL", d_index # 0, d_index \in 1..Len(undo_deque),
         d_index' = d_index - 1,
         UNCHANGED <<undo_deque, timeline, lastCommand, lastRepeat>>,
         RedoOf(undo_deque[d_index])
  PROVE  UndoInv'
<1>1. PICK d : d = undo_deque[d_index]
  OBVIOUS
<1>2. /\ ed \in Editors /\ ed.ok /\ Rests /\ Chain(undo_deque, timeline)
      /\ HistoryInv /\ buffer \in Texts /\ ed.rows \in Seq(Line)
  BY PlainlyIs
<1>3. d \in SoundDiffs /\ d \in Diffs /\ undo_deque # <<>> /\ d_index \in Nat
  BY <1>1, <1>2, HistoryIs
<1>4. PICK new : new = timeline[d_index]
  OBVIOUS
<1>5. Linked(d, ed.rows, new)
  <2>1. Linked(undo_deque[d_index], timeline[d_index + 1], timeline[d_index])
    BY <1>2 DEF Chain
  <2>2. ed.rows = timeline[d_index + 1]
    BY <1>2, <1>3 DEF Rests
  <2> QED BY <1>1, <1>4, <2>1, <2>2
<1>6. /\ d.fr \in Nat /\ d.fc \in Nat /\ d.repeat \in Nat /\ d.typed \in Seq(Keys)
      /\ d.command \in InsertCommands \cup OtherCommands
  BY <1>3, DiffParts
<1>7. PICK start : start = [ed EXCEPT !.fr = d.fr, !.fc = d.fc]
  OBVIOUS
<1>8. Start(start, ed.rows, d) /\ start \in Editors
  BY <1>2, <1>6, <1>7, StartIs
<1>9. PICK e : e = IF d.command = "p" /\ lastCommand # "p" THEN start
                   ELSE Repeated(d.command, start, d.repeat, d.typed)
  OBVIOUS
<1>10. PICK g : g = IF (d.command = "p" /\ lastCommand = "p") \/ ~e.ok THEN e
                    ELSE [e EXCEPT !.fr = d.fr, !.fc = d.fc]
  OBVIOUS
<1>11. /\ Shown(g, "NORMAL")
       /\ Excluding(\/ /\ d.command = "p"
                       /\ ~(d.command = "p" /\ lastCommand = "p") \/ d.method # "DELETE_ROWS"
                          \/ buffer # d.rows
                    \/ d.command = "a" /\ Row(start) = <<>>)
  <2>1. RedoOf(d)
    BY <1>1
  <2>2. e = IF d.command = "p" /\ ~(d.command = "p" /\ lastCommand = "p") THEN start
            ELSE Repeated(d.command, start, d.repeat, d.typed)
    BY <1>9
  <2>3. Shown(g, mode)
    BY <1>7, <1>10, <2>1, <2>2 DEF RedoOf
  <2>4. Excluding(\/ /\ d.command = "p"
                     /\ ~(d.command = "p" /\ lastCommand = "p") \/ d.method # "DELETE_ROWS"
                        \/ buffer # d.rows
                  \/ d.command = "a" /\ Row(start) = <<>>)
    BY <1>7, <2>1 DEF RedoOf
  <2> QED BY <2>3, <2>4
<1>12. /\ d.command = "p" => lastCommand = "p" /\ d.method = "DELETE_ROWS" /\ buffer = d.rows
       /\ ~(d.command = "a" /\ Row(start) = <<>>)
  BY <1>11, ExcludingPlain
<1>13. new # <<>>
  BY <1>5 DEF Linked
<1>14. g \in Editors /\ g.rows = new /\ g.ok
  <2>1. CASE d.command = "p"
    <3>1. g = Pasted(start)
      <4>1. g = Repeated("p", start, d.repeat, d.typed)
        BY <1>9, <1>10, <1>12, <2>1
      <4>2. Repeated("p", start, d.repeat, d.typed) = Pasted(start)
        BY DEF Repeated, Does, Map1, Map2, Map4
      <4> QED BY <4>1, <4>2
    <3>2. d.fr < Len(ed.rows)
      BY <1>5 DEF Linked, Fits
    <3>3. Pasted(start).rows = Put(ed.rows, d.fr + 1, buffer) /\ Pasted(start).ok
      BY <1>2, <1>8, <3>2, PastedIs
    <3>4. new = Put(ed.rows, d.fr + 1, buffer)
      BY <1>5, <1>12, <2>1 DEF Linked
    <3>5. Pasted(start) \in Editors
      BY <1>2, <1>8, PastedAfter, AfterIs
    <3> QED BY <3>1, <3>3, <3>4, <3>5
  <2>2. CASE d.command # "p"
    <3>1. e = Repeated(d.command, start, d.repeat, d.typed)
      BY <1>9, <2>2
    <3>2. Made1(d.command, d.repeat, d.typed)
      BY <1>5 DEF Linked, Made
    <3>3. d.command \in InsertCommands \cup {"x", "dd"}
      BY <1>6, <2>2 DEF OtherCommands, Map3
    <3>4. e = Again(d.command, start, d.repeat, d.typed)
      <4>1. buffer \in Texts /\ start \in Editors
        BY <1>2, <1>8
      <4>2. Repeated(d.command, start, d.repeat, d.typed)
              = Again(d.command, start, d.repeat, d.typed)
        BY <3>2, <3>3, <4>1, AgainIs
      <4> QED BY <3>1, <4>2
    <3>5. start.rows = ed.rows /\ start.fr = d.fr
      BY <1>8 DEF Start
    <3>6. ~(d.command = "a" /\ ed.rows[d.fr + 1] = <<>>)
      BY <1>12, <3>5 DEF Row
    <3>7. Remade(d, ed.rows, new)
      BY <1>5, <2>2 DEF Linked
    <3>8. e.ok /\ e.rows = new
      BY <1>8, <3>4, <3>6, <3>7 DEF Remade
    <3>9. e \in Editors
      <4>1. d.typed \in Line
        BY <3>2 DEF Made1
      <4> QED BY <1>2, <1>6, <1>8, <3>1, <4>1, RepeatedAfter, AfterIs
    <3>10. g = [e EXCEPT !.fr = d.fr, !.fc = d.fc]
      BY <1>10, <2>2, <3>8
    <3>11. Start(g, e.rows, d)
      BY <1>6, <3>8, <3>9, <3>10, StartIs
    <3> QED BY <3>8, <3>11 DEF Start
  <2> QED BY <2>1, <2>2
<1>15. mode' = "NORMAL" /\ ed'.rows = new /\ ed'.ok /\ Fits(ed'.rows, ed')
  BY <1>11, <1>13, <1>14, ShownNormal
<1>16. /\ undo_deque' = undo_deque /\ timeline' = timeline /\ lastCommand' = lastCommand
       /\ lastRepeat' = lastRepeat /\ d_index' + 1 = d_index
  BY <1>3
<1>17. Rests'
  <2>1. /\ undo_deque'[1].command = lastCommand' /\ lastRepeat' \in {0, undo_deque'[1].repeat}
    BY <1>2, <1>3, <1>16 DEF Rests
  <2>2. ed'.rows = timeline'[d_index' + 1] /\ ed'.rows # <<>>
    BY <1>4, <1>13, <1>15, <1>16
  <2> QED BY <1>15, <2>1, <2>2 DEF Rests
<1> QED BY <1>2, <1>15, <1>16, <1>17 DEF UndoInv

LEMMA RedoUndo == ASSUME Plainly, plain', Redo PROVE UndoInv'
<1>1. /\ mode = "NORMAL" /\ d_index' = (IF d_index > 0 THEN d_index - 1 ELSE 0)
      /\ UNCHANGED <<undo_deque, timeline, lastCommand, lastRepeat>>
      /\ IF d_index = 0
         THEN UNCHANGED <<ed, mode, lastTyped, buffer, plain>>
         ELSE IF d_index > Len(undo_deque)
         THEN ed' = Failed(ed) /\ Excluding(TRUE) /\ UNCHANGED <<mode, lastTyped, buffer>>
         ELSE RedoOf(undo_deque[d_index])
  BY DEF Redo, before
<1>2. ed.ok /\ Rests /\ HistoryInv
  BY <1>1, PlainlyIs
<1>3. d_index \in Nat /\ Len(undo_deque) \in Nat
  BY <1>2, HistoryIs
<1>4. CASE d_index = 0
  <2>1. ed' = ed /\ mode' = mode /\ d_index' = d_index
    BY <1>1, <1>4
  <2>2. ed.rows # <<>> => Fits(ed'.rows, ed')
    BY <1>2, <2>1 DEF Rests
  <2> QED BY <1>1, <1>2, <2>1, <2>2, RestsKept
<1>5. CASE d_index # 0 /\ d_index > Len(undo_deque)
  BY <1>1, <1>5, ExcludingPlain
<1>6. CASE d_index # 0 /\ ~(d_index > Len(undo_deque))
  <2>1. d_index \in 1..Len(undo_deque)
    BY <1>3, <1>6
  <2>2. d_index' = d_index - 1
    BY <1>1, <1>3, <1>6
  <2>3. RedoOf(undo_deque[d_index])
    BY <1>1, <1>6
  <2> QED BY <1>1, <1>6, <2>1, <2>2, <2>3, RedoKeeps
<1> QED BY <1>4, <1>5, <1>6

-----------------------------------------------------------------------------
LEMMA InsertionUndo ==
  ASSUME Plainly, plain', NEW command \in InsertCommands, NEW n \in Repeats,
         Insertion(command, n)
  PROVE  UndoInv'
<1>1. /\ mode = "NORMAL" /\ mode' = "INSERT"
      /\ Shown(Does(command, ed, n), "INSERT")
      /\ prev' = [fr |-> ed.fr, fc |-> ed.fc] /\ snapshot' = ed.rows
      /\ lastCommand' = command /\ lastRepeat' = n
      /\ undo_deque' = undo_deque /\ d_index' = d_index /\ timeline' = timeline
      /\ Excluding(\/ ed.rows = <<>>
                   \/ command \in Map2 /\ n > 1
                   \/ lastTyped' # <<>>)
  BY DEF Insertion, Commanded, Shown, history
<1>2. /\ ed \in Editors /\ ed.ok /\ Rests /\ Chain(undo_deque, timeline)
      /\ HistoryInv /\ ed.rows \in Seq(Line)
  BY <1>1, PlainlyIs
<1>3. ed.rows # <<>> /\ ~(command \in Map2 /\ n > 1) /\ lastTyped' = <<>>
  BY <1>1, ExcludingPlain
<1>4. Fits(ed.rows, ed) /\ (undo_deque # <<>> => ed.rows = timeline[d_index + 1])
  BY <1>2, <1>3 DEF Rests
<1>5. n \in Nat /\ n > 0
  BY <1>2, PlainlyIs DEF Repeats, EditorUndoAssumption
<1>6. /\ prev'.fr = ed.fr /\ prev'.fc = ed.fc /\ ed.fr \in Nat /\ ed.fc \in Nat
  BY <1>1, <1>2 DEF Editors
<1>7. Fits(snapshot', prev')
  BY <1>1, <1>4, <1>6 DEF Fits
<1>8. PICK h, a, b, t : Split(snapshot', prev', h, a, b, t)
  BY <1>1, <1>2, <1>6, <1>7, FitsSplits DEF Splits
<1>9. PICK H, A, B, T : Begun(command, n, h, a, b, t, H, A, B, T)
  BY <1>5, <1>8, CommandBegins DEF Begins
<1>10. At(ed, h, a, b, t)
  <2>1. Start(ed, snapshot', prev')
    BY <1>1, <1>2, <1>6 DEF Start
  <2> QED BY <1>8, <2>1, SplitAt
<1>11. At(ed', H, A, B, T)
  <2>1. At(Scroll(DoesAgain(command, ed, n), "INSERT"), H, A, B, T)
    BY <1>9, <1>10 DEF Begun
  <2>2. Does(command, ed, n) = DoesAgain(command, ed, n)
    BY DoesIs
  <2>3. ed' = Scroll(Does(command, ed, n), "INSERT")
    BY <1>1 DEF Shown
  <2> QED BY <2>1, <2>2, <2>3
<1>12. H \in Seq(Line) /\ A \in Line
  BY <1>9 DEF Begun
<1>13. Keyed(<<>>, H, A, <<>>, A) /\ Cat(H, <<>>) = H
  BY <1>12, KeyedNone, CatNone
<1>14. At(ed', Cat(H, <<>>), A, B, T)
  BY <1>11, <1>13
<1>15. TypedAt(lastCommand', lastRepeat', lastTyped', snapshot', prev', ed')
  BY <1>1, <1>3, <1>8, <1>9, <1>13, <1>14 DEF TypedAt
<1>16. ed'.rows # <<>> /\ ed'.ok
  BY <1>11, AtText
<1>17. lastCommand' \in Map2 => lastRepeat' = 1
  BY <1>1, <1>3, <1>5
<1>18. undo_deque' # <<>> => snapshot' = timeline'[d_index' + 1]
  BY <1>1, <1>4
<1>19. Inserts'
  BY <1>7, <1>15, <1>16, <1>17, <1>18 DEF Inserts
<1> QED BY <1>1, <1>2, <1>16, <1>19 DEF UndoInv

\* the fields of a Diff
IsDiff(d, command, n, keys, snap, at) ==
  /\ d.fr = at.fr /\ d.fc = at.fc /\ d.repeat = n /\ d.command = command
  /\ d.typed = keys /\ d.method = Method(command, NumRows(keys))
  /\ command # "p" => d.rows = Kept(command, n, snap, at) /\ d.num_rows = NumRows(keys)
  /\ command = "p" => /\ d.rows = IF buffer # <<>> THEN buffer ELSE << snap[at.fr + 1] >>
                      /\ d.num_rows = IF buffer # <<>> THEN Len(buffer) ELSE 1

LEMMA DiffFields ==
  ASSUME NEW command, NEW n, NEW keys, NEW snap, NEW at
  PROVE  IsDiff(DiffOf(command, n, keys, snap, at), command, n, keys, snap, at)
BY DEF DiffOf, IsDiff

LEMMA DiffMade ==
  ASSUME NEW command, NEW n, NEW keys, NEW snap, NEW at, NEW d,
         d = DiffOf(command, n, keys, snap, at), Made1(command, n, keys)
  PROVE  Made(d)
<1>0. IsDiff(d, command, n, keys, snap, at)
  BY DiffFields
<1>1. /\ d.repeat = n /\ d.command = command /\ d.typed = keys
      /\ d.method = Method(command, NumRows(keys))
      /\ command # "p" => d.num_rows = NumRows(keys)
  BY <1>0 DEF IsDiff
<1>2. Made1(d.command, d.repeat, d.typed)
  BY <1>1
<1>3. ASSUME command \in LineCommands
      PROVE  d.method = IF d.num_rows = 1 THEN "CHANGE_ROW" ELSE "CHANGE_ROW_AND_DELETE_ROWS"
  <2>1. command # "p" /\ command # "dd" /\ command \notin Map2
    BY <1>3 DEF LineCommands, Map2
  <2>2. d.num_rows = NumRows(keys)
    BY <1>1, <2>1
  <2>3. Method(command, NumRows(keys)) = IF NumRows(keys) = 1 THEN "CHANGE_ROW"
                                         ELSE "CHANGE_ROW_AND_DELETE_ROWS"
    BY <1>3, <2>1 DEF Method
  <2> QED BY <1>1, <2>2, <2>3
<1>4. command = "dd" => d.method = "ADD_ROWS"
  BY <1>1 DEF Method, LineCommands, Map2
<1> QED BY <1>1, <1>2, <1>3, <1>4 DEF Made

\* a command on one row, done at e
LEMMA LineDone ==
  ASSUME NEW d \in Diffs, Made(d), d.command \in LineCommands,
         NEW old \in Seq(Line), Fits(old, d), NEW e, Start(e, old, d),
         d.rows = << old[d.fr + 1] >>, ~(d.command = "a" /\ old[d.fr + 1] = <<>>),
         NEW f, f = Again(d.command, e, d.repeat, d.typed)
  PROVE  f \in Editors /\ f.ok /\ f.rows # <<>> /\ Linked(d, old, f.rows)
<1>1. /\ d.command \in InsertCommands \cup {"x"} /\ d.command \notin Map2
      /\ Made1(d.command, d.repeat, d.typed)
  BY DEF Made, LineCommands, InsertCommands, Map1, Map2, Map4
<1>2. d.typed \in Line /\ d.repeat \in Nat /\ d.fr \in Nat /\ d.fc \in Nat
  BY <1>1, DiffParts DEF Made1
<1>3. PICK h, a, b, t : Split(old, d, h, a, b, t)
  BY <1>2, FitsSplits DEF Splits
<1>4. PICK H, A, B, T : Begun(d.command, d.repeat, h, a, b, t, H, A, B, T)
  BY <1>1, <1>2, <1>3, CommandBegins DEF Begins
<1>5. H \in Seq(Line) /\ A \in Line
  BY <1>4 DEF Begun
<1>6. PICK q, c : Keyed(d.typed, H, A, q, c)
  BY <1>2, <1>5, KeysAt DEF CanKey
<1>7. At(e, h, a, b, t)
  BY <1>3, SplitAt
<1>8. ~AtEnd(d.command, b)
  <2>1. ASSUME d.command = "a", b = <<>> PROVE FALSE
    <3>1. a = <<>> /\ old[d.fr + 1] = Cat(a, b) /\ <<>> \in Line
      BY <1>3, <2>1, EmptyRow DEF Split
    <3>2. old[d.fr + 1] = <<>>
      BY <2>1, <3>1, CatNone DEF Line
    <3> QED BY <2>1, <3>2
  <2> QED BY <2>1 DEF AtEnd
<1>9. At(f, Cat(H, q), EndRow(d.command, d.repeat, d.typed, c), B, T)
  BY <1>1, <1>4, <1>6, <1>7, <1>8, AgainAt
<1>10. /\ f \in Editors /\ f.ok /\ f.rows # <<>>
       /\ f.rows = Joined(Cat(H, q), Cat(EndRow(d.command, d.repeat, d.typed, c), B), T)
  BY <1>9, AtText
<1>11. d.rows = One(old[d.fr + 1])
  BY DEF One
<1>12. Linked(d, old, f.rows)
  BY <1>1, <1>3, <1>4, <1>6, <1>10, <1>11, LinkMade
<1> QED BY <1>10, <1>12

-----------------------------------------------------------------------------
\* the new Diff is that of the last command
LEMMA PushKeeps ==
  ASSUME Plainly, NEW rows, rows # <<>>, NEW e \in Editors, e.ok, e.rows # <<>>,
         NEW command \in InsertCommands \cup OtherCommands, NEW n, NEW keys, NEW snap, NEW at,
         snap \in Texts, snap # <<>>, undo_deque # <<>> => snap = timeline[d_index + 1],
         Keepable(command, n, snap, at), DiffOf(command, n, keys, snap, at) \in SoundDiffs,
         PushCurrent(rows, e, command, n, keys, snap, at, "NORMAL"),
         Linked(DiffOf(command, n, keys, snap, at), snap, e.rows),
         lastCommand' = command, lastRepeat' = n
  PROVE  UndoInv'
<1>1. HistoryInv /\ Chain(undo_deque, timeline)
  BY PlainlyIs
<1>2. /\ ed'.ok /\ Chain(undo_deque', timeline') /\ mode' = "NORMAL"
      /\ ed'.rows # <<>> /\ Fits(ed'.rows, ed') /\ ed'.rows = timeline'[d_index' + 1]
      /\ undo_deque'[1] = DiffOf(command, n, keys, snap, at)
  BY <1>1, PushLinks
<1>3. undo_deque'[1].command = lastCommand' /\ lastRepeat' = undo_deque'[1].repeat
  <2>1. IsDiff(undo_deque'[1], command, n, keys, snap, at)
    BY <1>2, DiffFields
  <2> QED BY <2>1 DEF IsDiff
<1>4. Rests'
  BY <1>2, <1>3 DEF Rests
<1> QED BY <1>2, <1>4 DEF UndoInv

\* what x, dd and p find
LEMMA ChangeIs ==
  ASSUME Plainly, plain', NEW command \in OtherCommands, NEW n \in Repeats, Change(command, n),
         NEW at, at = [fr |-> ed.fr, fc |-> ed.fc], NEW e, e = Does(command, ed, n)
  PROVE  /\ mode = "NORMAL" /\ lastCommand' = command /\ lastRepeat' = n
         /\ PushCurrent(e.rows, e, command, n, lastTyped, ed.rows, at, "NORMAL")
         /\ ed.rows # <<>> /\ ~(e.rows = <<>> /\ undo_deque # <<>>)
         /\ (command = "x" => lastTyped = <<>>)
         /\ (command = "dd" => Keepable(command, n, ed.rows, at))
         /\ ed.ok /\ Rests /\ ed.rows \in Seq(Line) /\ ed.rows \in Texts /\ ed \in Editors
         /\ Fits(ed.rows, at) /\ Fits(ed.rows, ed) /\ Start(ed, ed.rows, at)
         /\ (undo_deque # <<>> => ed.rows = timeline[d_index + 1])
         /\ n \in Nat \ {0} /\ at \in Cursors /\ lastTyped \in Seq(Keys) /\ lastTyped \in Line
<1>1. /\ mode = "NORMAL" /\ lastCommand' = command /\ lastRepeat' = n
      /\ PushCurrent(e.rows, e, command, n, lastTyped, ed.rows, at, "NORMAL")
      /\ Excluding(\/ ed.rows = <<>>
                   \/ e.rows = <<>> /\ undo_deque # <<>>
                   \/ command = "x" /\ lastTyped # <<>>
                   \/ command = "dd" /\ ~Keepable(command, n, ed.rows, at))
  BY DEF Change, Commanded
<1>2. /\ ed.rows # <<>> /\ ~(e.rows = <<>> /\ undo_deque # <<>>)
      /\ (command = "x" => lastTyped = <<>>)
      /\ (command = "dd" => Keepable(command, n, ed.rows, at))
  BY <1>1, ExcludingPlain
<1>3. ed.ok /\ Rests /\ ed.rows \in Seq(Line) /\ ed \in Editors /\ Known
  BY <1>1, PlainlyIs
<1>4. Fits(ed.rows, ed) /\ (undo_deque # <<>> => ed.rows = timeline[d_index + 1])
  BY <1>2, <1>3 DEF Rests
<1>5. at.fr = ed.fr /\ at.fc = ed.fc
  OBVIOUS
<1>6. Fits(ed.rows, at)
  BY <1>4, <1>5 DEF Fits
<1>7. Start(ed, ed.rows, at)
  BY <1>3, <1>5 DEF Start
<1>8. n \in Nat \ {0}
  BY <1>3 DEF Repeats, Known, EditorUndoAssumption
<1>9. ed.rows \in Texts /\ at \in Cursors /\ lastTyped \in Seq(Keys) /\ lastTyped \in Line
  BY <1>3, KnownIs
<1> QED BY <1>1, <1>2, <1>3, <1>4, <1>6, <1>7, <1>8, <1>9

LEMMA FitsAt ==
  ASSUME NEW rows, NEW at, NEW d, Fits(rows, at), d.fr = at.fr, d.fc = at.fc
  PROVE  Fits(rows, d)
BY DEF Fits

LEMMA StartAt ==
  ASSUME NEW e, NEW rows, NEW at, NEW d, Start(e, rows, at), d.fr = at.fr, d.fc = at.fc
  PROVE  Start(e, rows, d)
BY DEF Start

LEMMA EraseUndo ==
  ASSUME Plainly, plain', NEW n \in Repeats, Change("x", n)
  PROVE  UndoInv'
<1>1. PICK at : at = [fr |-> ed.fr, fc |-> ed.fc]
  OBVIOUS
<1>2. PICK e : e = Does("x", ed, n)
  OBVIOUS
<1>3. "x" \in OtherCommands /\ "x" \in LineCommands /\ "x" \notin Map1 /\ "x" \notin Map2
  BY DEF OtherCommands, Map3, LineCommands, Map1, Map2
<1>4. /\ mode = "NORMAL" /\ lastCommand' = "x" /\ lastRepeat' = n
      /\ PushCurrent(e.rows, e, "x", n, <<>>, ed.rows, at, "NORMAL")
      /\ ed.rows # <<>> /\ ed.rows \in Seq(Line) /\ ed.rows \in Texts /\ ed \in Editors
      /\ Fits(ed.rows, at) /\ Start(ed, ed.rows, at)
      /\ (undo_deque # <<>> => ed.rows = timeline[d_index + 1])
      /\ n \in Nat \ {0} /\ at \in Cursors /\ <<>> \in Seq(Keys) /\ <<>> \in Line
  BY <1>1, <1>2, <1>3, ChangeIs
<1>5. EditorUndoAssumption /\ buffer \in Texts
  BY PlainlyIs
<1>6. Keepable("x", n, ed.rows, at)
  BY <1>3, <1>4 DEF Keepable, Fits
<1>7. PICK d : d = DiffOf("x", n, <<>>, ed.rows, at)
  OBVIOUS
<1>8. d \in SoundDiffs /\ d \in Diffs
  <2>1. n \in Nat /\ "x" \in InsertCommands \cup OtherCommands /\ "x" # "p"
    BY <1>3, <1>4
  <2>2. DiffOf("x", n, <<>>, ed.rows, at) \in SoundDiffs
    BY <1>4, <1>5, <1>6, <2>1, DiffOfIn
  <2> QED BY <1>7, <2>2 DEF SoundDiffs
<1>9. /\ d.fr = at.fr /\ d.fc = at.fc /\ d.repeat = n /\ d.command = "x" /\ d.typed = <<>>
      /\ d.rows = Kept("x", n, ed.rows, at)
  <2>1. IsDiff(d, "x", n, <<>>, ed.rows, at)
    BY <1>7, DiffFields
  <2> QED BY <2>1 DEF IsDiff
<1>10. Made1("x", n, <<>>)
  BY <1>3, <1>4 DEF Made1
<1>11. Made(d)
  BY <1>7, <1>10, DiffMade
<1>12. Fits(ed.rows, d) /\ Start(ed, ed.rows, d)
  BY <1>4, <1>9, FitsAt, StartAt
<1>13. d.rows = << ed.rows[d.fr + 1] >>
  <2>1. Kept("x", n, ed.rows, at) = << ed.rows[at.fr + 1] >>
    BY <1>3 DEF Kept
  <2> QED BY <1>9, <2>1
<1>14. e = Again("x", ed, n, <<>>)
  <2>1. Repeated("x", ed, n, <<>>) = Again("x", ed, n, <<>>)
    BY <1>4, <1>5, <1>10, AgainIs
  <2>2. Repeated("x", ed, n, <<>>) = Does("x", ed, n)
    BY DEF Repeated, Map1, Map2, Map4
  <2> QED BY <1>2, <2>1, <2>2
<1>15. e \in Editors /\ e.ok /\ e.rows # <<>> /\ Linked(d, ed.rows, e.rows)
  <2>1. d.command \in LineCommands /\ d.command # "a"
    BY <1>3, <1>9
  <2>2. e = Again(d.command, ed, d.repeat, d.typed)
    BY <1>9, <1>14
  <2> QED BY <1>4, <1>8, <1>11, <1>12, <1>13, <2>1, <2>2, LineDone
<1>16. /\ DiffOf("x", n, <<>>, ed.rows, at) \in SoundDiffs
       /\ Linked(DiffOf("x", n, <<>>, ed.rows, at), ed.rows, e.rows)
       /\ "x" \in InsertCommands \cup OtherCommands
  BY <1>3, <1>7, <1>8, <1>15
<1> QED BY <1>4, <1>6, <1>15, <1>16, PushKeeps

\* the last row of all is taken: nothing is pushed
LEMMA EmptiedUndo ==
  ASSUME Plainly, NEW e \in Editors, e.ok, e.rows = <<>>, undo_deque = <<>>, ed.rows # <<>>,
         NEW command, NEW n, NEW keys, NEW snap, NEW at,
         PushCurrent(e.rows, e, command, n, keys, snap, at, "NORMAL")
  PROVE  UndoInv'
<1>1. Shown(e, "NORMAL") /\ undo_deque' = undo_deque
  BY DEF PushCurrent, history
<1>2. mode' = "NO_ROWS" /\ ed' = Scroll(e, "NORMAL")
  BY <1>1 DEF Shown
<1>3. ed'.rows = <<>> /\ ed'.ok
  BY <1>2, ScrollIs
<1>4. Rests'
  BY <1>1, <1>3 DEF Rests
<1>5. Chain(undo_deque', timeline')
  BY <1>1, ChainNone
<1> QED BY <1>2, <1>3, <1>4, <1>5 DEF UndoInv

LEMMA DeleteUndo ==
  ASSUME Plainly, plain', NEW n \in Repeats, Change("dd", n)
  PROVE  UndoInv'
<1>1. PICK at : at = [fr |-> ed.fr, fc |-> ed.fc]
  OBVIOUS
<1>2. PICK e : e = Does("dd", ed, n)
  OBVIOUS
<1>3. "dd" \in OtherCommands /\ "dd" \notin LineCommands /\ "dd" \notin Map1 /\ "dd" \notin Map2
  BY DEF OtherCommands, Map3, LineCommands, Map1, Map2
<1>4. /\ mode = "NORMAL" /\ lastCommand' = "dd" /\ lastRepeat' = n
      /\ PushCurrent(e.rows, e, "dd", n, lastTyped, ed.rows, at, "NORMAL")
      /\ ed.rows # <<>> /\ ~(e.rows = <<>> /\ undo_deque # <<>>)
      /\ Keepable("dd", n, ed.rows, at)
      /\ ed.rows \in Seq(Line) /\ ed.rows \in Texts /\ ed \in Editors
      /\ Fits(ed.rows, at) /\ Start(ed, ed.rows, at)
      /\ (undo_deque # <<>> => ed.rows = timeline[d_index + 1])
      /\ n \in Nat \ {0} /\ at \in Cursors /\ lastTyped \in Seq(Keys) /\ lastTyped \in Line
  BY <1>1, <1>2, <1>3, ChangeIs
<1>5. EditorUndoAssumption /\ buffer \in Texts
  BY PlainlyIs
<1>6. at.fr + n <= Len(ed.rows)
  BY <1>3, <1>4 DEF Keepable
<1>7. e = RowsDeleted(ed, n)
  BY <1>2 DEF Does
<1>8. e \in Editors /\ e.ok /\ e.rows = Cut(ed.rows, at.fr, n)
  <2>1. /\ ed.rows \in Seq(Line) /\ Start(ed, ed.rows, at) /\ n \in Nat \ {0}
        /\ at.fr + n <= Len(ed.rows)
    BY <1>4, <1>6
  <2>2. /\ RowsDeleted(ed, n).rows = Cut(ed.rows, at.fr, n) /\ RowsDeleted(ed, n).ok
        /\ RowsDeleted(ed, n) \in Editors
    BY ONLY <2>1, DeletedIs
  <2> QED BY <1>7, <2>2
<1>9. CASE e.rows = <<>>
  <2>1. undo_deque = <<>>
    BY <1>4, <1>9
  <2> QED BY <1>4, <1>8, <1>9, <2>1, EmptiedUndo
<1>10. CASE e.rows # <<>>
  <2>1. PICK d : d = DiffOf("dd", n, lastTyped, ed.rows, at)
    OBVIOUS
  <2>2. d \in SoundDiffs /\ d \in Diffs
    <3>1. n \in Nat /\ "dd" \in InsertCommands \cup OtherCommands /\ "dd" # "p"
      BY <1>3, <1>4
    <3>2. DiffOf("dd", n, lastTyped, ed.rows, at) \in SoundDiffs
      BY <1>4, <1>5, <3>1, DiffOfIn
    <3> QED BY <2>1, <3>2 DEF SoundDiffs
  <2>3. /\ d.fr = at.fr /\ d.fc = at.fc /\ d.repeat = n /\ d.command = "dd"
        /\ d.rows = Kept("dd", n, ed.rows, at)
    <3>1. IsDiff(d, "dd", n, lastTyped, ed.rows, at)
      BY <2>1, DiffFields
    <3> QED BY <3>1 DEF IsDiff
  <2>4. Made(d)
    <3>1. Made1("dd", n, lastTyped)
      BY <1>3, <1>4 DEF Made1
    <3> QED BY <2>1, <3>1, DiffMade
  <2>5. Fits(ed.rows, d)
    BY <1>4, <2>3, FitsAt
  <2>6. Kept("dd", n, ed.rows, at) = SubSeq(ed.rows, at.fr + 1, at.fr + n)
    BY <1>3 DEF Kept
  <2>7. /\ d.rows = SubSeq(ed.rows, d.fr + 1, d.fr + d.repeat)
        /\ d.fr + d.repeat <= Len(ed.rows) /\ e.rows = Cut(ed.rows, d.fr, d.repeat)
    BY <1>6, <1>8, <2>3, <2>6
  <2>8. Linked(d, ed.rows, e.rows)
    BY <1>4, <1>10, <2>2, <2>3, <2>4, <2>5, <2>7, LinkDeleted
  <2>9. /\ DiffOf("dd", n, lastTyped, ed.rows, at) \in SoundDiffs
        /\ Linked(DiffOf("dd", n, lastTyped, ed.rows, at), ed.rows, e.rows)
        /\ "dd" \in InsertCommands \cup OtherCommands
    BY <1>3, <2>1, <2>2, <2>8
  <2> QED BY <1>4, <1>8, <1>10, <2>9, PushKeeps
<1> QED BY <1>9, <1>10

LEMMA PasteUndo ==
  ASSUME Plainly, plain', NEW n \in Repeats, Change("p", n)
  PROVE  UndoInv'
<1>1. PICK at : at = [fr |-> ed.fr, fc |-> ed.fc]
  OBVIOUS
<1>2. PICK e : e = Does("p", ed, n)
  OBVIOUS
<1>3. /\ "p" \in OtherCommands /\ "p" \notin LineCommands /\ "p" \notin Map1 /\ "p" \notin Map2
      /\ "p" # "dd"
  BY DEF OtherCommands, Map3, LineCommands, Map1, Map2
<1>4. /\ mode = "NORMAL" /\ lastCommand' = "p" /\ lastRepeat' = n
      /\ PushCurrent(e.rows, e, "p", n, lastTyped, ed.rows, at, "NORMAL")
      /\ ed.rows # <<>> /\ ed.rows \in Seq(Line) /\ ed.rows \in Texts /\ ed \in Editors
      /\ Fits(ed.rows, at) /\ Start(ed, ed.rows, at)
      /\ (undo_deque # <<>> => ed.rows = timeline[d_index + 1])
      /\ n \in Nat \ {0} /\ at \in Cursors /\ lastTyped \in Seq(Keys) /\ lastTyped \in Line
  BY <1>1, <1>2, <1>3, ChangeIs
<1>5. EditorUndoAssumption /\ buffer \in Texts
  BY PlainlyIs
<1>6. Keepable("p", n, ed.rows, at)
  BY <1>3 DEF Keepable
<1>7. PICK d : d = DiffOf("p", n, lastTyped, ed.rows, at)
  OBVIOUS
<1>8. at.fr < Len(ed.rows)
  BY <1>4 DEF Fits
<1>9. d \in SoundDiffs /\ d \in Diffs
  <2>1. n \in Nat /\ "p" \in InsertCommands \cup OtherCommands
    BY <1>3, <1>4
  <2>2. DiffOf("p", n, lastTyped, ed.rows, at) \in SoundDiffs
    BY <1>4, <1>5, <1>6, <1>8, <2>1, DiffOfIn
  <2> QED BY <1>7, <2>2 DEF SoundDiffs
<1>10. /\ d.fr = at.fr /\ d.fc = at.fc /\ d.repeat = n /\ d.command = "p"
       /\ d.rows = (IF buffer # <<>> THEN buffer ELSE << ed.rows[at.fr + 1] >>)
       /\ d.num_rows = (IF buffer # <<>> THEN Len(buffer) ELSE 1)
       /\ d.method = Method("p", NumRows(lastTyped))
  <2>1. IsDiff(d, "p", n, lastTyped, ed.rows, at)
    BY <1>7, DiffFields
  <2> QED BY <2>1 DEF IsDiff
<1>11. d.method = IF buffer = <<>> THEN "CHANGE_ROW" ELSE "DELETE_ROWS"
  BY <1>3, <1>10 DEF Method
<1>12. Made(d)
  <2>1. Made1("p", n, lastTyped)
    BY <1>3, <1>4 DEF Made1
  <2> QED BY <1>7, <2>1, DiffMade
<1>13. Fits(ed.rows, d)
  BY <1>4, <1>10, FitsAt
<1>14. PICK pasted \in Seq(Line) : pasted = buffer
  BY <1>5, TextsAre
<1>15. e.rows = Put(ed.rows, at.fr + 1, buffer) /\ e.ok /\ e \in Editors
  <2>1. e = Pasted(ed)
    BY <1>2 DEF Does
  <2>2. Pasted(ed).rows = Put(ed.rows, at.fr + 1, buffer) /\ Pasted(ed).ok
    BY <1>4, <1>8, PastedIs
  <2>3. Pasted(ed) \in Editors
    BY <1>4, <1>5, PastedAfter, AfterIs
  <2> QED BY <2>1, <2>2, <2>3
<1>16. Linked(d, ed.rows, e.rows)
  <2>1. IF pasted = <<>>
        THEN d.method = "CHANGE_ROW" /\ d.rows = One(ed.rows[d.fr + 1])
        ELSE d.method = "DELETE_ROWS" /\ d.rows = pasted /\ d.num_rows = Len(pasted)
    BY <1>10, <1>11, <1>14 DEF One
  <2>2. e.rows = Put(ed.rows, d.fr + 1, pasted)
    BY <1>10, <1>14, <1>15
  <2>3. d.command = "p" /\ ed.rows \in Seq(Line)
    BY <1>4, <1>10
  <2> QED BY <1>9, <1>12, <1>13, <1>14, <2>1, <2>2, <2>3, LinkPasted
<1>17. e.rows # <<>>
  BY <1>16 DEF Linked
<1>18. /\ DiffOf("p", n, lastTyped, ed.rows, at) \in SoundDiffs
       /\ Linked(DiffOf("p", n, lastTyped, ed.rows, at), ed.rows, e.rows)
       /\ "p" \in InsertCommands \cup OtherCommands
  BY <1>3, <1>7, <1>9, <1>16
<1> QED BY <1>4, <1>6, <1>15, <1>17, <1>18, PushKeeps

LEMMA ChangeUndo ==
  ASSUME Plainly, plain', NEW command \in OtherCommands, NEW n \in Repeats, Change(command, n)
  PROVE  UndoInv'
<1>1. command = "x" \/ command = "dd" \/ command = "p"
  BY DEF OtherCommands, Map3
<1>2. CASE command = "x"
  BY <1>2, EraseUndo
<1>3. CASE command = "dd"
  BY <1>3, DeleteUndo
<1>4. CASE command = "p"
  BY <1>4, PasteUndo
<1> QED BY <1>1, <1>2, <1>3, <1>4

\* the Diff of a dot
IsAgain(f, d, n, snap, at) ==
  /\ f.fr = at.fr /\ f.fc = at.fc /\ f.repeat = d.repeat /\ f.command = d.command
  /\ f.typed = d.typed /\ f.num_rows = d.num_rows /\ f.method = d.method
  /\ f.rows = Kept(d.command, n, snap, at)

LEMMA AgainFields ==
  ASSUME NEW d \in Diffs, NEW n, NEW snap, NEW at, d.command # "p", d.command \notin Map2
  PROVE  IsAgain(DiffAgain(d, n, snap, at), d, n, snap, at)
<1>1. PICK kept : kept = Kept(d.command, n, snap, at)
  OBVIOUS
<1>2. PICK f : f = [d EXCEPT !.fr = at.fr, !.fc = at.fc, !.method = d.method, !.rows = kept]
  OBVIOUS
<1>3. DiffAgain(d, n, snap, at) = f
  BY <1>1, <1>2 DEF DiffAgain
<1>4. /\ f.fr = at.fr /\ f.fc = at.fc /\ f.repeat = d.repeat /\ f.command = d.command
      /\ f.typed = d.typed /\ f.num_rows = d.num_rows /\ f.method = d.method /\ f.rows = kept
  BY <1>2 DEF Diffs
<1> QED BY <1>1, <1>3, <1>4 DEF IsAgain

LEMMA AgainMade ==
  ASSUME NEW d, Made(d), NEW f, NEW n, NEW snap, NEW at, IsAgain(f, d, n, snap, at)
  PROVE  Made(f)
BY DEF Made, IsAgain

\* what a dot finds
LEMMA DotIs ==
  ASSUME Plainly, plain', NEW n \in Repeats, Dot(n),
         NEW at, at = [fr |-> ed.fr, fc |-> ed.fc], NEW d, d = undo_deque[1],
         NEW e, e = Repeated(lastCommand, ed, lastRepeat, d.typed)
  PROVE  /\ mode = "NORMAL" /\ lastCommand' = lastCommand /\ lastRepeat' = lastRepeat
         /\ undo_deque # <<>> /\ d_index = 0 /\ e.rows # <<>>
         /\ lastCommand \notin Map2 /\ lastCommand # "p" /\ lastRepeat # 0
         /\ (lastCommand = "dd" => n = lastRepeat /\ Keepable("dd", n, ed.rows, at))
         /\ ~(lastCommand = "a" /\ Row(ed) = <<>>)
         /\ LET ok == e.ok /\ Keepable(d.command, n, ed.rows, at)
            IN  /\ Shown(IF ok THEN e ELSE Failed(e), mode)
                /\ ok => /\ undo_deque' = << DiffAgain(d, n, ed.rows, at) >> \o undo_deque
                         /\ d_index' = 0 /\ timeline' = << Note(e.rows) >> \o timeline
<1>1. /\ mode = "NORMAL" /\ lastCommand' = lastCommand /\ lastRepeat' = lastRepeat
  BY DEF Dot, Commanded, typing
<1>2. undo_deque # <<>>
  <2>1. ASSUME undo_deque = <<>> PROVE FALSE
    <3>1. Excluding(TRUE)
      BY <2>1 DEF Dot
    <3> QED BY <3>1, ExcludingPlain
  <2> QED BY <2>1
<1>3. PICK g : g = Repeated(lastCommand, ed, lastRepeat,
                            IF lastCommand \in Map2 THEN lastTyped ELSE d.typed)
  OBVIOUS
<1>4. PICK ok : ok = (g.ok /\ (g.rows # <<>> => Keepable(d.command, n, ed.rows, at)))
  OBVIOUS
<1>5. /\ Shown(IF ok THEN g ELSE Failed(g), mode)
      /\ IF ~ok \/ g.rows = <<>>
         THEN UNCHANGED history
         ELSE /\ undo_deque' = << DiffAgain(d, n, ed.rows, at) >> \o undo_deque
              /\ d_index' = 0
              /\ timeline' = << Note(g.rows) >> \o timeline
      /\ Excluding(\/ d_index # 0 \/ lastRepeat = 0 \/ g.rows = <<>>
                   \/ lastCommand \in Map2 \cup {"p"}
                   \/ lastCommand = "dd" /\ (\/ n # lastRepeat
                                             \/ ~Keepable("dd", n, ed.rows, at))
                   \/ lastCommand = "a" /\ Row(ed) = <<>>)
  BY <1>2, <1>3, <1>4 DEF Dot
<1>6. ~(\/ d_index # 0 \/ lastRepeat = 0 \/ g.rows = <<>>
        \/ lastCommand \in Map2 \cup {"p"}
        \/ lastCommand = "dd" /\ (\/ n # lastRepeat \/ ~Keepable("dd", n, ed.rows, at))
        \/ lastCommand = "a" /\ Row(ed) = <<>>)
  BY <1>5, ExcludingPlain
<1>7. g = e /\ g.rows # <<>>
  BY <1>3, <1>6
<1> QED BY <1>1, <1>2, <1>4, <1>5, <1>6, <1>7

LEMMA DotUndo ==
  ASSUME Plainly, plain', NEW n \in Repeats, Dot(n)
  PROVE  UndoInv'
<1>1. PICK at : at = [fr |-> ed.fr, fc |-> ed.fc]
  OBVIOUS
<1>2. PICK d : d = undo_deque[1]
  OBVIOUS
<1>3. PICK e : e = Repeated(lastCommand, ed, lastRepeat, d.typed)
  OBVIOUS
<1>4. /\ mode = "NORMAL" /\ lastCommand' = lastCommand /\ lastRepeat' = lastRepeat
      /\ undo_deque # <<>> /\ d_index = 0 /\ e.rows # <<>>
      /\ lastCommand \notin Map2 /\ lastCommand # "p" /\ lastRepeat # 0
      /\ (lastCommand = "dd" => n = lastRepeat /\ Keepable("dd", n, ed.rows, at))
      /\ ~(lastCommand = "a" /\ Row(ed) = <<>>)
  BY <1>1, <1>2, <1>3, DotIs
<1>5. /\ ed \in Editors /\ ed.ok /\ Rests /\ Chain(undo_deque, timeline)
      /\ HistoryInv /\ buffer \in Texts /\ ed.rows \in Seq(Line)
  BY <1>4, PlainlyIs
<1>6. /\ undo_deque \in Seq(SoundDiffs) /\ timeline \in Seq(Texts)
      /\ Len(timeline) = Len(undo_deque) + 1 /\ Len(undo_deque) \in Nat
      /\ 1 \in 1..Len(undo_deque)
  <2>1. undo_deque \in Seq(SoundDiffs) /\ Len(undo_deque) \in Nat
    BY <1>5, HistoryIs
  <2>2. 1 \in 1..Len(undo_deque)
    BY <1>4, <2>1
  <2> QED BY <1>5, <2>1, <2>2, HistoryIs
<1>7. d \in SoundDiffs /\ d \in Diffs
  BY <1>2, <1>5, <1>6, HistoryIs
<1>8. ed.rows = timeline[1] /\ d.command = lastCommand /\ lastRepeat = d.repeat /\ ed.rows # <<>>
      /\ Fits(ed.rows, ed)
  BY <1>2, <1>4, <1>5 DEF Rests
<1>9. Made(d)
  <2>1. Linked(undo_deque[1], timeline[1 + 1], timeline[1])
    BY <1>5, <1>6 DEF Chain
  <2> QED BY <1>2, <2>1 DEF Linked
<1>10. Made1(d.command, d.repeat, d.typed) /\ d.typed \in Line /\ d.repeat \in Nat \ {0}
  BY <1>9 DEF Made, Made1
<1>11. d.command \in LineCommands \cup {"dd"}
  <2>1. d.command \in InsertCommands \cup OtherCommands
    BY <1>7, DiffParts
  <2> QED BY <1>4, <1>8, <2>1 DEF InsertCommands, OtherCommands, LineCommands, Map1, Map2, Map3, Map4
<1>12. at.fr = ed.fr /\ at.fc = ed.fc /\ at \in Cursors
  BY <1>1, <1>5 DEF Editors, Cursors
<1>13. PICK f : f = DiffAgain(d, n, ed.rows, at)
  OBVIOUS
<1>14. /\ f.fr = at.fr /\ f.fc = at.fc /\ f.repeat = d.repeat /\ f.command = d.command
       /\ f.typed = d.typed /\ f.rows = Kept(d.command, n, ed.rows, at) /\ Made(f)
  <2>1. IsAgain(f, d, n, ed.rows, at)
    BY <1>4, <1>7, <1>8, <1>13, AgainFields
  <2>2. Made(f)
    BY <1>9, <2>1, AgainMade
  <2> QED BY <2>1, <2>2 DEF IsAgain
<1>15. Fits(ed.rows, f) /\ Start(ed, ed.rows, f)
  <2>1. f.fr = ed.fr /\ f.fc = ed.fc
    BY <1>12, <1>14
  <2>2. Start(ed, ed.rows, ed)
    BY <1>5, CursorStart
  <2> QED BY <1>8, <2>1, <2>2, FitsAt, StartAt
<1>16. Keepable(d.command, n, ed.rows, at)
  <2>1. CASE d.command \in LineCommands
    <3>1. at.fr < Len(ed.rows)
      BY <1>8, <1>12 DEF Fits
    <3> QED BY <2>1, <3>1 DEF Keepable, LineCommands
  <2>2. CASE d.command = "dd"
    BY <1>4, <1>8, <2>2
  <2> QED BY <1>11, <2>1, <2>2
<1>17. f \in SoundDiffs /\ f \in Diffs
  <2>1. n \in Nat /\ ed.rows \in Texts
    BY <1>5 DEF Repeats, Editors
  <2>2. DiffAgain(d, n, ed.rows, at) \in SoundDiffs
    BY <1>5, <1>7, <1>12, <1>16, <2>1, DiffAgainIn
  <2> QED BY <1>13, <2>2 DEF SoundDiffs
<1>18. e = Again(d.command, ed, d.repeat, d.typed)
  <2>1. d.command \in InsertCommands \cup {"x", "dd"}
    BY <1>11 DEF LineCommands, InsertCommands, Map1, Map4
  <2>2. Repeated(d.command, ed, d.repeat, d.typed) = Again(d.command, ed, d.repeat, d.typed)
    <3>1. buffer \in Texts /\ ed \in Editors /\ Made1(d.command, d.repeat, d.typed)
      BY <1>5, <1>10
    <3> QED BY <2>1, <3>1, AgainIs
  <2> QED BY <1>3, <1>8, <2>2
<1>19. e \in Editors /\ e.ok /\ Linked(f, ed.rows, e.rows)
  <2>1. CASE d.command \in LineCommands
    <3>1. f.rows = << ed.rows[f.fr + 1] >>
      <4>1. Kept(d.command, n, ed.rows, at) = << ed.rows[at.fr + 1] >>
        BY <2>1 DEF Kept, LineCommands
      <4> QED BY <1>14, <4>1
    <3>2. ~(f.command = "a" /\ ed.rows[f.fr + 1] = <<>>)
      BY <1>4, <1>8, <1>12, <1>14 DEF Row
    <3>3. e = Again(f.command, ed, f.repeat, f.typed) /\ f.command \in LineCommands
      BY <1>14, <1>18, <2>1
    <3> QED BY <1>5, <1>14, <1>15, <1>17, <3>1, <3>2, <3>3, LineDone
  <2>2. CASE d.command = "dd"
    <3>1. n = d.repeat /\ at.fr + n <= Len(ed.rows)
      BY <1>4, <1>8, <2>2 DEF Keepable, LineCommands
    <3>2. e = RowsDeleted(ed, n)
      BY <1>18, <2>2, <3>1 DEF Again
    <3>3. e.rows = Cut(ed.rows, ed.fr, n) /\ e.ok /\ e \in Editors
      <4>1. Start(ed, ed.rows, ed) /\ ed.fr + n <= Len(ed.rows) /\ n \in Nat \ {0}
        BY <1>5, <1>10, <1>12, <3>1, CursorStart
      <4>2. /\ RowsDeleted(ed, n).rows = Cut(ed.rows, ed.fr, n) /\ RowsDeleted(ed, n).ok
            /\ RowsDeleted(ed, n) \in Editors
        BY <1>5, <4>1, DeletedIs
      <4> QED BY <3>2, <4>2
    <3>4. Kept("dd", n, ed.rows, at) = SubSeq(ed.rows, at.fr + 1, at.fr + n)
      BY DEF Kept, LineCommands
    <3>5. /\ f.rows = SubSeq(ed.rows, f.fr + 1, f.fr + f.repeat) /\ f.command = "dd"
          /\ f.fr + f.repeat <= Len(ed.rows) /\ e.rows = Cut(ed.rows, f.fr, f.repeat)
      BY <1>12, <1>14, <2>2, <3>1, <3>3, <3>4
    <3>6. Linked(f, ed.rows, e.rows)
      BY <1>4, <1>5, <1>14, <1>15, <1>17, <3>5, LinkDeleted
    <3> QED BY <3>3, <3>6
  <2> QED BY <1>11, <2>1, <2>2
<1>20. /\ Shown(e, "NORMAL") /\ undo_deque' = << f >> \o undo_deque
       /\ d_index' = 0 /\ timeline' = << e.rows >> \o timeline
  <2>1. Note(e.rows) = e.rows
    BY <1>4, NoteSame
  <2>2. LET ok == e.ok /\ Keepable(d.command, n, ed.rows, at)
        IN  /\ Shown(IF ok THEN e ELSE Failed(e), mode)
            /\ ok => /\ undo_deque' = << DiffAgain(d, n, ed.rows, at) >> \o undo_deque
                     /\ d_index' = 0 /\ timeline' = << Note(e.rows) >> \o timeline
    BY <1>1, <1>2, <1>3, DotIs
  <2> QED BY <1>4, <1>13, <1>16, <1>19, <2>1, <2>2
<1>21. mode' = "NORMAL" /\ ed'.rows = e.rows /\ ed'.ok /\ Fits(ed'.rows, ed')
  BY <1>4, <1>19, <1>20, ShownNormal
<1>22. Chain(undo_deque', timeline')
  <2>1. Linked(f, timeline[1], e.rows) /\ e.rows \in Texts
    BY <1>8, <1>19 DEF Editors
  <2>2. Chain(<< f >> \o undo_deque, << e.rows >> \o timeline)
    BY <1>5, <1>6, <1>17, <2>1, ChainMore
  <2> QED BY <1>20, <2>2
<1>23. undo_deque'[1] = f /\ timeline'[1] = e.rows
  BY <1>6, <1>20
<1>24. Rests'
  <2>1. undo_deque'[1].command = lastCommand' /\ lastRepeat' = undo_deque'[1].repeat
    BY <1>4, <1>8, <1>14, <1>23
  <2>2. ed'.rows = timeline'[d_index' + 1] /\ ed'.rows # <<>>
    BY <1>4, <1>20, <1>21, <1>23
  <2> QED BY <1>21, <2>1, <2>2 DEF Rests
<1> QED BY <1>21, <1>22, <1>24 DEF UndoInv

LEMMA EmptyFits ==
  ASSUME NEW at, at.fr = 0, at.fc = 0
  PROVE  Fits(<< <<>> >>, at)
<1>1. Len(<< <<>> >>) = 1 /\ << <<>> >>[0 + 1] = <<>>
  OBVIOUS
<1> QED BY <1>1 DEF Fits

LEMMA NoRowsUndo == ASSUME Plainly, plain', NoRowsInsert PROVE UndoInv'
<1>1. /\ mode = "NO_ROWS" /\ mode' = "INSERT" /\ prev' = [fr |-> 0, fc |-> 0]
      /\ snapshot' = << <<>> >> /\ lastCommand' = "i" /\ lastRepeat' = 1
      /\ Excluding(lastTyped # <<>>)
      /\ ed' = ed /\ lastTyped' = lastTyped /\ undo_deque' = undo_deque
  BY DEF NoRowsInsert, history
<1>2. lastTyped' = <<>>
  BY <1>1, ExcludingPlain
<1>3. ed.ok /\ Rests
  BY <1>1, PlainlyIs
<1>4. ed'.rows = <<>> /\ undo_deque' = <<>> /\ ed'.ok
  BY <1>1, <1>3 DEF Rests
<1>5. prev'.fr = 0 /\ prev'.fc = 0
  BY <1>1
<1>6. NothingYet'
  BY <1>1, <1>2, <1>4, <1>5 DEF NothingYet
<1>7. Fits(snapshot', prev')
  BY <1>1, <1>5, EmptyFits
<1>8. lastCommand' \notin Map2
  BY <1>1 DEF Map2
<1>9. Inserts'
  BY <1>4, <1>6, <1>7, <1>8 DEF Inserts
<1>10. Chain(undo_deque', timeline')
  BY <1>4, ChainNone
<1> QED BY <1>1, <1>4, <1>9, <1>10 DEF UndoInv

\* the text that is being inserted, after one more key or one less
LEMMA InsertsStill ==
  ASSUME Plainly, mode = "INSERT", mode' = "INSERT",
         UNCHANGED <<prev, snapshot, lastCommand, lastRepeat, undo_deque, d_index, timeline>>,
         ed'.ok, ed'.rows # <<>>,
         TypedAt(lastCommand, lastRepeat, lastTyped', snapshot, prev, ed')
  PROVE  UndoInv'
<1>1. Inserts /\ Chain(undo_deque, timeline)
  BY PlainlyIs
<1>2. /\ prev' = prev /\ snapshot' = snapshot /\ lastCommand' = lastCommand
      /\ lastRepeat' = lastRepeat /\ undo_deque' = undo_deque /\ d_index' = d_index
      /\ timeline' = timeline
  OBVIOUS
<1>3. TypedAt(lastCommand', lastRepeat', lastTyped', snapshot', prev', ed')
  BY <1>2
<1>4. /\ lastCommand' \in Map2 => lastRepeat' = 1
      /\ Fits(snapshot', prev')
      /\ undo_deque' # <<>> => snapshot' = timeline'[d_index' + 1]
  BY <1>1, <1>2 DEF Inserts
<1>5. Inserts'
  BY <1>3, <1>4 DEF Inserts
<1>6. Chain(undo_deque', timeline')
  BY <1>1, <1>2
<1> QED BY <1>5, <1>6 DEF UndoInv

\* a key at the end of what the others have typed
LEMMA KeyedNext ==
  ASSUME NEW h \in Seq(Line), NEW a \in Line, NEW keys \in Line, NEW k \in AnyKey,
         NEW q, NEW c, Keyed(keys, h, a, q, c), NEW e, NEW b, NEW t, At(e, Cat(h, q), c, b, t)
  PROVE  /\ Keyed(Append(keys, k), h, a, MoreRows(k, q, c), MoreRow(k, c))
         /\ At(InsertKey(e, k), Cat(h, MoreRows(k, q, c)), MoreRow(k, c), b, t)
<1>1. Keyed(Append(keys, k), h, a, MoreRows(k, q, c), MoreRow(k, c))
  BY KeyedMore
<1>2. CASE k = Return
  <2>1. At(InsertReturn(e), Cat(Cat(h, q), One(c)), <<>>, b, t)
    BY ReturnAt
  <2>2. q \in Seq(Line) /\ One(c) \in Seq(Line)
    <3>1. q \in Seq(Line) /\ c \in Line
      BY DEF Keyed
    <3> QED BY <3>1, OneIs
  <2>3. Cat(Cat(h, q), One(c)) = Cat(h, Cat(q, One(c)))
    BY <2>2, CatOf
  <2> QED BY <1>1, <1>2, <2>1, <2>3 DEF InsertKey, MoreRows, MoreRow
<1>3. CASE k # Return
  <2>1. One(k) \in Line /\ One(k) # <<>>
    <3>1. One(k) \in Line
      BY OneIs DEF Line
    <3>2. One(k) # <<>>
      BY DEF One
    <3> QED BY <3>1, <3>2
  <2>2. At(InsertChars(e, One(k)), Cat(h, q), Cat(c, One(k)), b, t)
    BY <2>1, CharsAt
  <2>3. InsertKey(e, k) = InsertChars(e, One(k))
    BY <1>3 DEF InsertKey, InsertChar, One
  <2> QED BY <1>1, <1>3, <2>2, <2>3 DEF MoreRows, MoreRow
<1> QED BY <1>2, <1>3

LEMMA TypedParts ==
  ASSUME Plainly, mode = "INSERT", ed.rows # <<>>
  PROVE  TypedAt(lastCommand, lastRepeat, lastTyped, snapshot, prev, ed)
BY PlainlyIs DEF Inserts

LEMMA NothingParts ==
  ASSUME Plainly, mode = "INSERT", ed.rows = <<>>
  PROVE  NothingYet /\ Fits(snapshot, prev)
BY PlainlyIs DEF Inserts

LEMMA EmptyJoined == Joined(<<>>, <<>>, <<>>) = << <<>> >>
<1>1. PICK row \in Line : row = <<>>
  BY EmptyRow
<1>2. PICK none \in Seq(Line) : none = <<>>
  BY EmptyRow
<1>3. One(row) \in Seq(Line)
  BY OneIs
<1>4. Cat(One(row), none) = One(row) /\ Cat(none, One(row)) = One(row)
  BY <1>2, <1>3, CatNone
<1>5. Joined(none, row, none) = Cat(none, Cat(One(row), none))
  BY JoinedCat
<1> QED BY <1>1, <1>2, <1>4, <1>5 DEF One

\* the first key of a note without rows
LEMMA FirstKey ==
  ASSUME NEW e \in Editors, e.ok, e.rows = <<>>, e.fr = 0, e.fc = 0, NEW k \in AnyKey, k # Return
  PROVE  At(InsertKey(e, k), Cat(<<>>, <<>>), One(k), <<>>, <<>>)
<1>1. << <<>> >> \in Seq(Line) /\ <<>> \in Line /\ <<>> \in Seq(Line)
  BY EmptyRow
<1>2. PICK g : g = Changed(e, << <<>> >>)
  OBVIOUS
<1>3. g \in Editors /\ g.rows = << <<>> >> /\ g.fr = e.fr /\ g.fc = e.fc /\ g.ok = e.ok
  <2>1. PICK rs \in Seq(Line) : rs = << <<>> >>
    BY <1>1
  <2>2. g = Changed(e, rs)
    BY <1>2, <2>1
  <2>3. g \in Editors /\ g.rows = rs
    BY <2>2, ChangedIs
  <2>4. g.fr = e.fr /\ g.fc = e.fc
    BY <2>2, ChangedIs
  <2>5. g.ok = e.ok
    BY <2>2, ChangedIs
  <2> QED BY <2>1, <2>3, <2>4, <2>5
<1>4. Cat(<<>>, <<>>) = <<>>
  BY <1>1, CatNone
<1>5. Joined(<<>>, <<>>, <<>>) = << <<>> >>
  BY EmptyJoined
<1>6. At(g, <<>>, <<>>, <<>>, <<>>)
  <2>1. Len(<<>>) = 0
    OBVIOUS
  <2> QED BY <1>1, <1>3, <1>4, <1>5, <2>1 DEF At
<1>7. One(k) \in Line /\ One(k) # <<>>
  <2>1. One(k) \in Line
    BY OneIs DEF Line
  <2>2. One(k) # <<>>
    BY DEF One
  <2> QED BY <2>1, <2>2
<1>8. At(InsertChars(g, One(k)), <<>>, Cat(<<>>, One(k)), <<>>, <<>>)
  BY <1>6, <1>7, CharsAt
<1>9. Cat(<<>>, One(k)) = One(k)
  BY <1>7, CatNone DEF Line
<1>10. InsertChars(e, One(k)) = InsertChars(g, One(k))
  <2>1. g.rows # <<>>
    BY <1>6, AtText
  <2>2. PICK chars : chars = One(k)
    OBVIOUS
  <2>3. InsertChars(e, chars) = InsertChars(g, chars)
    BY <1>2, <1>7, <2>1, <2>2 DEF InsertChars
  <2> QED BY <2>2, <2>3
<1>11. InsertKey(e, k) = InsertChars(e, One(k))
  BY DEF InsertKey, InsertChar, One
<1> QED BY <1>4, <1>8, <1>9, <1>10, <1>11

LEMMA EmptySplit ==
  ASSUME NEW at, at.fr = 0, at.fc = 0
  PROVE  Split(<< <<>> >>, at, <<>>, <<>>, <<>>, <<>>)
<1>1. << <<>> >> \in Seq(Line) /\ <<>> \in Line /\ <<>> \in Seq(Line)
  BY EmptyRow
<1>6. Joined(<<>>, <<>>, <<>>) = << <<>> >>
  BY EmptyJoined
<1>7. Cat(<<>>, <<>>) = <<>>
  BY <1>1, CatNone
<1>8. << <<>> >>[0 + 1] = <<>> /\ Len(<<>>) = 0
  OBVIOUS
<1> QED BY <1>1, <1>6, <1>7, <1>8 DEF Split

LEMMA TypeUndo == ASSUME Plainly, plain', NEW k \in Keys, Type(k) PROVE UndoInv'
<1>1. /\ mode = "INSERT" /\ mode' = "INSERT" /\ ed' = Scroll(InsertKey(ed, k), "INSERT")
      /\ lastTyped' = Append(lastTyped, k)
      /\ Excluding(k = Return /\ ed.rows = <<>>)
      /\ UNCHANGED <<prev, snapshot, lastCommand, lastRepeat, undo_deque, d_index, timeline>>
  BY DEF Type, Inserting, Shown, before, history
<1>2. /\ ed \in Editors /\ Bounded(ed) /\ ed.ok /\ lastTyped \in Line /\ EditorUndoAssumption
  BY PlainlyIs
<1>3. k \in AnyKey
  BY <1>2, KeysLine
<1>4. CASE ed.rows # <<>>
  <2>1. PICK h, a, b, t, H, A, B, T, q, c :
          /\ Split(snapshot, prev, h, a, b, t)
          /\ Begun(lastCommand, lastRepeat, h, a, b, t, H, A, B, T)
          /\ Keyed(lastTyped, H, A, q, c)
          /\ At(ed, Cat(H, q), c, B, T)
    BY <1>1, <1>4, TypedParts DEF TypedAt
  <2>2. H \in Seq(Line) /\ A \in Line
    BY <2>1 DEF Begun
  <2>3. /\ Keyed(Append(lastTyped, k), H, A, MoreRows(k, q, c), MoreRow(k, c))
        /\ At(InsertKey(ed, k), Cat(H, MoreRows(k, q, c)), MoreRow(k, c), B, T)
    BY <1>2, <1>3, <2>1, <2>2, KeyedNext
  <2>4. At(ed', Cat(H, MoreRows(k, q, c)), MoreRow(k, c), B, T)
    BY <1>1, <2>3, AtScroll
  <2>5. TypedAt(lastCommand, lastRepeat, Append(lastTyped, k), snapshot, prev, ed')
    BY <2>1, <2>3, <2>4 DEF TypedAt
  <2>6. ed'.ok /\ ed'.rows # <<>>
    BY <2>4, AtText
  <2> QED BY <1>1, <2>5, <2>6, InsertsStill
<1>5. CASE ed.rows = <<>>
  <2>1. /\ lastTyped = <<>> /\ lastCommand = "i" /\ lastRepeat = 1
        /\ snapshot = << <<>> >> /\ prev.fr = 0 /\ prev.fc = 0
    BY <1>1, <1>5, NothingParts DEF NothingYet
  <2>2. k # Return
    BY <1>1, <1>5, ExcludingPlain
  <2>3. ed.fr = 0 /\ ed.fc = 0
    BY <1>2, <1>5 DEF Bounded
  <2>4. At(InsertKey(ed, k), Cat(<<>>, <<>>), One(k), <<>>, <<>>)
    BY <1>2, <1>3, <1>5, <2>2, <2>3, FirstKey
  <2>5. At(ed', Cat(<<>>, <<>>), One(k), <<>>, <<>>)
    BY <1>1, <2>4, AtScroll
  <2>6. Split(snapshot, prev, <<>>, <<>>, <<>>, <<>>)
    BY <2>1, EmptySplit
  <2>7. Begun("i", 1, <<>>, <<>>, <<>>, <<>>, <<>>, <<>>, <<>>, <<>>)
    <3>1. <<>> \in Line /\ <<>> \in Seq(Line)
      BY EmptyRow
    <3>2. \A e : DoesAgain("i", e, 1) = e
      BY DEF DoesAgain
    <3>3. ASSUME NEW e, At(e, <<>>, <<>>, <<>>, <<>>)
          PROVE  At(Scroll(e, "INSERT"), <<>>, <<>>, <<>>, <<>>)
      BY <3>3, AtScroll
    <3>4. Lays("i", <<>>, Cat(<<>>, <<>>), <<>>, <<>>, <<>>, <<>>, <<>>)
      BY DEF Lays
    <3> QED BY <3>1, <3>2, <3>3, <3>4 DEF Begun
  <2>8. Keyed(Append(<<>>, k), <<>>, <<>>, <<>>, One(k))
    <3>1. <<>> \in Line /\ <<>> \in Seq(Line)
      BY EmptyRow
    <3>2. Keyed(<<>>, <<>>, <<>>, <<>>, <<>>)
      BY <3>1, KeyedNone
    <3>3. Keyed(Append(<<>>, k), <<>>, <<>>, MoreRows(k, <<>>, <<>>), MoreRow(k, <<>>))
      BY <1>3, <3>1, <3>2, KeyedMore
    <3>4. Cat(<<>>, One(k)) = One(k)
      BY <1>3, OneIs, CatNone
    <3>5. MoreRows(k, <<>>, <<>>) = <<>> /\ MoreRow(k, <<>>) = One(k)
      BY <2>2, <3>4 DEF MoreRows, MoreRow
    <3> QED BY <3>3, <3>5
  <2>9. TypedAt("i", 1, Append(<<>>, k), snapshot, prev, ed')
    BY <2>5, <2>6, <2>7, <2>8 DEF TypedAt
  <2>10. TypedAt(lastCommand, lastRepeat, lastTyped', snapshot, prev, ed')
    BY <1>1, <2>1, <2>9
  <2>11. ed'.ok /\ ed'.rows # <<>>
    BY <2>5, AtText
  <2> QED BY <1>1, <2>10, <2>11, InsertsStill
<1> QED BY <1>4, <1>5

-----------------------------------------------------------------------------
\* the last key, and what there was without it
LEMMA LastKey ==
  ASSUME NEW keys \in Line, keys # <<>>
  PROVE  \E k \in AnyKey : Front(keys) \in Line /\ keys = Append(Front(keys), k)
<1>1. keys \in Seq(AnyKey) /\ Len(keys) \in Nat /\ Len(keys) # 0
  BY DEF Line
<1>2. PICK f : f = Front(keys)
  OBVIOUS
<1>3. f = SubSeq(keys, 1, Len(keys) - 1)
  BY <1>2 DEF Front
<1>4. PICK n \in Nat : Len(keys) = n + 1
  <2>1. Len(keys) - 1 \in Nat /\ Len(keys) = (Len(keys) - 1) + 1
    BY <1>1
  <2> QED BY <2>1
<1>5. PICK k \in AnyKey : k = keys[n + 1]
  BY <1>1, <1>4
<1>6. f \in Seq(AnyKey) /\ Len(f) = n /\ \A i \in 1..n : f[i] = keys[i]
  BY <1>1, <1>3, <1>4
<1>7. Append(f, k) \in Seq(AnyKey) /\ Len(Append(f, k)) = n + 1
      /\ Append(f, k)[n + 1] = k /\ \A i \in 1..n : Append(f, k)[i] = f[i]
  BY <1>6
<1>8. \A i \in 1..(n + 1) : keys[i] = Append(f, k)[i]
  <2>1. ASSUME NEW i \in 1..(n + 1) PROVE keys[i] = Append(f, k)[i]
    <3>1. i = n + 1 \/ i \in 1..n
      OBVIOUS
    <3> QED BY <1>5, <1>6, <1>7, <3>1
  <2> QED BY <2>1
<1>9. keys = Append(f, k)
  <2>1. PICK g : g = Append(f, k)
    OBVIOUS
  <2>2. g \in Seq(AnyKey) /\ Len(g) = Len(keys) /\ \A i \in 1..Len(keys) : keys[i] = g[i]
    BY <1>4, <1>7, <1>8, <2>1
  <2>3. keys = g
    BY <1>1, <2>2, SeqEqual
  <2> QED BY <2>1, <2>3
<1> QED BY <1>2, <1>6, <1>9 DEF Line

\* whatever keys are said to make of a row, the text is the same
LEMMA KeyedAt ==
  ASSUME NEW keys, NEW h \in Seq(Line), NEW a \in Line, NEW q, NEW c, NEW q1, NEW c1,
         Keyed(keys, h, a, q, c), Keyed(keys, h, a, q1, c1),
         NEW e, NEW b, NEW t, At(e, Cat(h, q), c, b, t)
  PROVE  At(e, Cat(h, q1), c1, b, t)
<1>1. e \in Editors /\ b \in Line /\ t \in Seq(Line) /\ e.ok
  BY AtText
<1>2. PICK f : At(f, h, a, b, t)
  BY <1>1, LaidAt
<1>3. PICK g : g = InsertKeys(f, keys)
  OBVIOUS
<1>4. At(g, Cat(h, q), c, b, t) /\ At(g, Cat(h, q1), c1, b, t)
  BY <1>2, <1>3 DEF Keyed
<1>5. Alike(g, e)
  BY <1>4, AtAlike
<1> QED BY <1>1, <1>4, <1>5, AlikeAt

LEMMA BackspaceUndo == ASSUME Plainly, plain', Backspace PROVE UndoInv'
<1>1. /\ mode = "INSERT" /\ mode' = "INSERT" /\ ed' = Scroll(Backspaced(ed), "INSERT")
      /\ lastTyped' = (IF lastTyped = <<>> THEN <<>> ELSE Front(lastTyped))
      /\ Excluding(/\ ed.fr # 0 \/ ed.fc # 0
                   /\ lastTyped # <<>> => ed.fc = 0 /\ Row(ed) # <<>>)
      /\ UNCHANGED <<prev, snapshot, lastCommand, lastRepeat, undo_deque, d_index, timeline>>
  BY DEF Backspace, Inserting, Shown, before, history
<1>2. /\ ed \in Editors /\ Bounded(ed) /\ ed.ok /\ lastTyped \in Line /\ EditorUndoAssumption
  BY PlainlyIs
<1>3. \/ ed.fr = 0 /\ ed.fc = 0
      \/ lastTyped # <<>> /\ (ed.fc = 0 => Row(ed) = <<>>)
  BY <1>1, ExcludingPlain
<1>4. CASE ed.rows = <<>>
  <2>1. /\ NothingYet /\ Fits(snapshot, prev)
    BY <1>1, <1>4, NothingParts
  <2>2. ed.fr = 0 /\ ed.fc = 0
    BY <1>2, <1>4 DEF Bounded
  <2>3. Backspaced(ed) = ed
    BY <2>2 DEF Backspaced
  <2>4. ed'.rows = <<>> /\ ed'.ok
    BY <1>1, <1>2, <1>4, <2>3, ScrollIs
  <2>5. lastTyped' = <<>>
    BY <1>1, <2>1 DEF NothingYet
  <2>6. NothingYet' /\ Fits(snapshot', prev')
    BY <1>1, <2>1, <2>5 DEF NothingYet
  <2>7. undo_deque' = <<>> /\ lastCommand' \notin Map2
    BY <2>6 DEF NothingYet, Map2
  <2>8. Inserts'
    BY <2>4, <2>6, <2>7 DEF Inserts
  <2>9. Chain(undo_deque', timeline')
    BY <2>7, ChainNone
  <2> QED BY <1>1, <2>4, <2>8, <2>9 DEF UndoInv
<1>5. CASE ed.rows # <<>>
  <2>1. PICK h, a, b, t, H, A, B, T, q, c :
          /\ Split(snapshot, prev, h, a, b, t)
          /\ Begun(lastCommand, lastRepeat, h, a, b, t, H, A, B, T)
          /\ Keyed(lastTyped, H, A, q, c)
          /\ At(ed, Cat(H, q), c, B, T)
    BY <1>1, <1>5, TypedParts DEF TypedAt
  <2>2. H \in Seq(Line) /\ A \in Line /\ B \in Line /\ T \in Seq(Line)
    BY <2>1 DEF Begun
  <2>3. CASE lastTyped = <<>>
    <3>1. Backspaced(ed) = ed
      BY <1>3, <2>3 DEF Backspaced
    <3>2. At(ed', Cat(H, q), c, B, T)
      BY <1>1, <2>1, <3>1, AtScroll
    <3>3. lastTyped' = lastTyped
      BY <1>1, <2>3
    <3>4. TypedAt(lastCommand, lastRepeat, lastTyped', snapshot, prev, ed')
      BY <2>1, <3>2, <3>3 DEF TypedAt
    <3>5. ed'.ok /\ ed'.rows # <<>>
      BY <3>2, AtText
    <3> QED BY <1>1, <3>4, <3>5, InsertsStill
  <2>4. CASE lastTyped # <<>>
    <3>1. PICK front \in Line : front = Front(lastTyped)
      BY <1>2, <2>4, LastKey
    <3>2. PICK k \in AnyKey : lastTyped = Append(front, k)
      BY <1>2, <2>4, <3>1, LastKey
    <3>3. PICK q0, c0 : Keyed(front, H, A, q0, c0)
      BY <2>2, KeysAt DEF CanKey
    <3>4. q0 \in Seq(Line) /\ c0 \in Line
      BY <3>3 DEF Keyed
    <3>5. Keyed(lastTyped, H, A, MoreRows(k, q0, c0), MoreRow(k, c0))
      BY <2>2, <3>2, <3>3, KeyedMore
    <3>6. At(ed, Cat(H, MoreRows(k, q0, c0)), MoreRow(k, c0), B, T)
      BY <2>1, <2>2, <3>5, KeyedAt
    <3>7. At(Backspaced(ed), Cat(H, q0), c0, B, T)
      <4>1. CASE k # Return
        <5>1. At(ed, Cat(H, q0), Cat(c0, One(k)), B, T)
          BY <3>6, <4>1 DEF MoreRows, MoreRow
        <5> QED BY <3>4, <5>1, BackspacedChar
      <4>2. CASE k = Return
        <5>1. Cat(H, q0) \in Seq(Line) /\ Cat(H, Cat(q0, One(c0))) = Cat(Cat(H, q0), One(c0))
          <6>1. One(c0) \in Seq(Line)
            BY <3>4, OneIs
          <6>2. Cat(H, q0) \in Seq(Line)
            BY <2>2, <3>4, CatIn
          <6> QED BY <2>2, <3>4, <6>1, <6>2, CatOf
        <5>2. At(ed, Cat(Cat(H, q0), One(c0)), <<>>, B, T)
          BY <3>6, <4>2, <5>1 DEF MoreRows, MoreRow
        <5>3. Row(ed) = Cat(<<>>, B) /\ ed.fc = Len(<<>>)
          BY <5>2, AtText
        <5>4. ed.fc = 0
          BY <5>3
        <5>5. Row(ed) = <<>>
          <6>1. ed.fr # 0
            <7>1. Len(Cat(H, q0)) \in Nat /\ ed.fr = Len(Cat(Cat(H, q0), One(c0)))
              BY <5>1, <5>2, AtText
            <7>2. Len(One(c0)) = 1 /\ One(c0) \in Seq(Line)
              BY <3>4, OneIs
            <7>3. Len(Cat(Cat(H, q0), One(c0))) = Len(Cat(H, q0)) + Len(One(c0))
              BY <5>1, <7>2, CatIn
            <7> QED BY <7>1, <7>2, <7>3
          <6> QED BY <1>3, <5>4, <6>1
        <5>6. B = <<>>
          BY <2>2, <5>3, <5>5, CatNone DEF Line
        <5>7. PICK j \in Line : (B = <<>> => j = c0) /\ At(Backspaced(ed), Cat(H, q0), j, <<>>, T)
          BY <3>4, <5>1, <5>2, BackspacedReturn
        <5> QED BY <5>6, <5>7
      <4> QED BY <4>1, <4>2
    <3>8. At(ed', Cat(H, q0), c0, B, T)
      BY <1>1, <3>7, AtScroll
    <3>9. lastTyped' = front
      BY <1>1, <2>4, <3>1
    <3>10. TypedAt(lastCommand, lastRepeat, lastTyped', snapshot, prev, ed')
      BY <2>1, <3>3, <3>8, <3>9 DEF TypedAt
    <3>11. ed'.ok /\ ed'.rows # <<>>
      BY <3>8, AtText
    <3> QED BY <1>1, <3>10, <3>11, InsertsStill
  <2> QED BY <2>3, <2>4
<1> QED BY <1>4, <1>5

\* what Escape finds
LEMMA EscapeFinds ==
  ASSUME Plainly, plain', Escape
  PROVE  /\ mode = "INSERT" /\ lastCommand' = lastCommand /\ lastRepeat' = lastRepeat
         /\ PushCurrent(ed.rows, Left(Ended), lastCommand, lastRepeat, lastTyped,
                        snapshot, prev, "NORMAL")
         /\ Made1(lastCommand, lastRepeat, lastTyped)
         /\ lastCommand \in InsertCommands /\ ed.ok /\ Inserts
<1>1. /\ mode = "INSERT" /\ lastCommand' = lastCommand /\ lastRepeat' = lastRepeat
      /\ Excluding(lastCommand \in Map1 /\ lastRepeat > 1
                   /\ \E i \in 1..Len(lastTyped) : lastTyped[i] = Return)
  BY DEF Escape, Inserting, before
<1>2. /\ ed.ok /\ Inserts /\ OtherInv /\ lastTyped \in Line /\ lastRepeat \in Nat
  BY <1>1, PlainlyIs
<1>3. lastCommand \in InsertCommands /\ lastRepeat > 0
  BY <1>1, <1>2 DEF OtherInv
<1>4. ~(lastCommand \in Map1 /\ lastRepeat > 1
        /\ \E i \in 1..Len(lastTyped) : lastTyped[i] = Return)
  BY <1>1, ExcludingPlain
<1>5. ASSUME lastCommand \in Map1, lastRepeat > 1 PROVE NumRows(lastTyped) = 1
  <2>1. lastTyped \in Seq(AnyKey) /\ \A i \in 1..Len(lastTyped) : lastTyped[i] # Return
    BY <1>2, <1>4, <1>5 DEF Line
  <2>2. \A i \in 1..Len(lastTyped) : lastTyped[i] \in LettersOnly
    BY <2>1 DEF LettersOnly
  <2>3. lastTyped \in Seq(LettersOnly)
    BY <2>1, <2>2
  <2> QED BY <1>2, <2>3, OneRowIs
<1>6. lastCommand \in Map2 => lastRepeat = 1
  BY <1>2 DEF Inserts
<1>7. Made1(lastCommand, lastRepeat, lastTyped)
  <2>1. lastCommand # "x" /\ lastRepeat \in Nat \ {0}
    BY <1>2, <1>3 DEF InsertCommands, Map1, Map2, Map4
  <2> QED BY <1>2, <1>5, <1>6, <2>1 DEF Made1
<1>8. PICK e : e = IF lastCommand \in Map2
               THEN Opened(lastCommand, ed, lastRepeat - 1, lastTyped) ELSE ed
  OBVIOUS
<1>9. e = ed
  <2>1. CASE lastCommand \in Map2
    <3>1. lastRepeat - 1 = 0
      BY <1>6, <2>1
    <3>2. Opened(lastCommand, ed, 0, lastTyped) = ed
      BY OpenedNone
    <3> QED BY <1>8, <2>1, <3>1, <3>2
  <2> QED BY <1>8, <2>1
<1>10. Ended = IF lastCommand \in Map1 THEN InsertChars(e, Times(lastRepeat - 1, lastTyped)) ELSE e
  BY <1>8 DEF Ended, Map1, Map2
<1>11. PushCurrent(e.rows, Left(Ended), lastCommand, lastRepeat, lastTyped, snapshot, prev, "NORMAL")
  BY <1>8, <1>10 DEF Escape, Left
<1> QED BY <1>1, <1>2, <1>3, <1>7, <1>9, <1>11

\* the count of i and a
LEMMA EndedAt ==
  ASSUME Plainly, Made1(lastCommand, lastRepeat, lastTyped),
         NEW h, NEW c, NEW b, NEW t, At(ed, h, c, b, t)
  PROVE  At(Ended, h, EndRow(lastCommand, lastRepeat, lastTyped, c), b, t)
<1>1. CASE lastCommand \in Map1
  <2>1. PICK m \in Num : m = lastRepeat - 1
    <3>1. lastRepeat - 1 \in Nat
      BY DEF Made1
    <3> QED BY <3>1 DEF Num
  <2>2. PICK again : again = Times(m, lastTyped)
    OBVIOUS
  <2>3. again \in Line
    <3>1. lastTyped \in Seq(AnyKey)
      BY DEF Made1, Line
    <3> QED BY <2>2, <3>1, TimesIn DEF Line
  <2>4. Ended = InsertChars(ed, again) /\ EndRow(lastCommand, lastRepeat, lastTyped, c) = Cat(c, again)
    BY <1>1, <2>1, <2>2 DEF Ended, EndRow
  <2>5. CASE again = <<>>
    <3>1. InsertChars(ed, again) = ed
      BY <2>5 DEF InsertChars
    <3>2. Cat(c, again) = c
      BY <2>5, AtText, CatNone DEF Line
    <3> QED BY <2>4, <3>1, <3>2
  <2>6. CASE again # <<>>
    <3>1. At(InsertChars(ed, again), h, Cat(c, again), b, t)
      BY <2>3, <2>6, CharsAt
    <3> QED BY <2>4, <3>1
  <2> QED BY <2>5, <2>6
<1>2. CASE lastCommand \notin Map1
  <2>1. Ended = ed
    <3>1. CASE lastCommand \in Map2
      <4>1. lastRepeat - 1 = 0
        BY <3>1 DEF Made1
      <4>2. Opened(lastCommand, ed, 0, lastTyped) = ed
        BY OpenedNone
      <4> QED BY <1>2, <3>1, <4>1, <4>2 DEF Ended
    <3> QED BY <1>2, <3>1 DEF Ended
  <2> QED BY <1>2, <2>1 DEF EndRow
<1> QED BY <1>1, <1>2

LEMMA EscapeUndo == ASSUME Plainly, plain', Escape PROVE UndoInv'
<1>1. /\ mode = "INSERT" /\ lastCommand' = lastCommand /\ lastRepeat' = lastRepeat
      /\ PushCurrent(ed.rows, Left(Ended), lastCommand, lastRepeat, lastTyped,
                     snapshot, prev, "NORMAL")
      /\ Made1(lastCommand, lastRepeat, lastTyped)
      /\ lastCommand \in InsertCommands /\ ed.ok /\ Inserts
  BY EscapeFinds
<1>2. /\ EditorUndoAssumption /\ Known /\ ed \in Editors /\ buffer \in Texts
      /\ prev \in Cursors /\ snapshot \in Texts /\ lastTyped \in Seq(Keys)
  BY PlainlyIs, KnownIs
<1>3. lastRepeat \in Nat \ {0} /\ lastRepeat \in Nat
  BY <1>1 DEF Made1
<1>4. CASE ed.rows = <<>>
  <2>1. Shown(Left(Ended), "NORMAL") /\ undo_deque' = undo_deque
    BY <1>1, <1>4 DEF PushCurrent, history
  <2>2. lastTyped = <<>> /\ undo_deque = <<>> /\ lastCommand = "i" /\ lastRepeat = 1
    BY <1>1, <1>4 DEF Inserts, NothingYet
  <2>3. Ended = ed
    <3>1. Times(0, lastTyped) = <<>>
      BY <1>2, TimesNone
    <3>2. lastRepeat - 1 = 0
      BY <2>2
    <3>3. Ended = InsertChars(ed, Times(0, lastTyped))
      BY <2>2, <3>2 DEF Ended, Map1
    <3> QED BY <3>1, <3>3 DEF InsertChars
  <2>4. Left(Ended) \in Editors /\ Left(Ended).rows = <<>> /\ Left(Ended).ok
    BY <1>1, <1>2, <1>4, <2>3, LeftIs
  <2>5. ed' = Scroll(Left(Ended), "NORMAL") /\ mode' = "NORMAL"
    BY <1>4, <2>1 DEF Shown
  <2>6. ed'.rows = <<>> /\ ed'.ok
    BY <2>4, <2>5, ScrollIs
  <2>7. undo_deque' = <<>>
    BY <2>1, <2>2
  <2>8. Rests'
    BY <2>6, <2>7 DEF Rests
  <2>9. Chain(undo_deque', timeline')
    BY <2>7, ChainNone
  <2> QED BY <2>5, <2>6, <2>8, <2>9 DEF UndoInv
<1>5. CASE ed.rows # <<>>
  <2>1. PICK h, a, b, t, H, A, B, T, q, c :
          /\ Split(snapshot, prev, h, a, b, t)
          /\ Begun(lastCommand, lastRepeat, h, a, b, t, H, A, B, T)
          /\ Keyed(lastTyped, H, A, q, c)
          /\ At(ed, Cat(H, q), c, B, T)
    BY <1>1, <1>5, TypedParts DEF TypedAt
  <2>2. At(Ended, Cat(H, q), EndRow(lastCommand, lastRepeat, lastTyped, c), B, T)
    BY <1>1, <2>1, EndedAt
  <2>3. PICK new : new = Joined(Cat(H, q), Cat(EndRow(lastCommand, lastRepeat, lastTyped, c), B), T)
    OBVIOUS
  <2>4. Ended \in Editors /\ Ended.ok /\ Ended.rows = new
    BY <2>2, <2>3, AtText
  <2>5. PICK e \in Editors : e = Left(Ended)
    BY <2>4, LeftIs
  <2>6. e.ok /\ e.rows = new
    BY <2>4, <2>5, LeftIs
  <2>7. PICK d : d = DiffOf(lastCommand, lastRepeat, lastTyped, snapshot, prev)
    OBVIOUS
  <2>8. Fits(snapshot, prev) /\ (undo_deque # <<>> => snapshot = timeline[d_index + 1])
    BY <1>1 DEF Inserts
  <2>9. Keepable(lastCommand, lastRepeat, snapshot, prev)
    <3>1. lastCommand # "dd"
      BY <1>1 DEF InsertCommands, Map1, Map2, Map4
    <3> QED BY <2>8, <3>1 DEF Keepable, Fits
  <2>10. d \in SoundDiffs /\ d \in Diffs
    <3>1. lastCommand \in InsertCommands \cup OtherCommands /\ lastCommand # "p"
      BY <1>1 DEF InsertCommands, Map1, Map2, Map4
    <3>2. DiffOf(lastCommand, lastRepeat, lastTyped, snapshot, prev) \in SoundDiffs
      BY <1>2, <1>3, <2>9, <3>1, DiffOfIn
    <3> QED BY <2>7, <3>2 DEF SoundDiffs
  <2>11. /\ d.fr = prev.fr /\ d.fc = prev.fc /\ d.repeat = lastRepeat /\ d.command = lastCommand
         /\ d.typed = lastTyped /\ d.method = Method(lastCommand, NumRows(lastTyped))
         /\ d.rows = Kept(lastCommand, lastRepeat, snapshot, prev)
    <3>1. IsDiff(d, lastCommand, lastRepeat, lastTyped, snapshot, prev)
      BY <2>7, DiffFields
    <3>2. lastCommand # "p"
      BY <1>1 DEF InsertCommands, Map1, Map2, Map4
    <3> QED BY <3>1, <3>2 DEF IsDiff
  <2>12. Made(d)
    BY <1>1, <2>7, DiffMade
  <2>13. Fits(snapshot, d)
    BY <2>8, <2>11, FitsAt
  <2>14. Split(snapshot, d, h, a, b, t)
    BY <2>1, <2>11 DEF Split
  <2>15. d.command \in LineCommands => d.rows = One(snapshot[d.fr + 1])
    <3>1. ASSUME lastCommand \in LineCommands
          PROVE  Kept(lastCommand, lastRepeat, snapshot, prev) = << snapshot[prev.fr + 1] >>
      BY <3>1 DEF Kept, LineCommands
    <3> QED BY <2>11, <3>1 DEF One
  <2>16. d.command \in Map2 => d.method = "DELETE_ROWS"
    BY <2>11 DEF Method, LineCommands, Map2
  <2>17. Linked(d, snapshot, new)
    <3>1. Begun(d.command, d.repeat, h, a, b, t, H, A, B, T) /\ Keyed(d.typed, H, A, q, c)
      BY <2>1, <2>11
    <3>2. new = Joined(Cat(H, q), Cat(EndRow(d.command, d.repeat, d.typed, c), B), T)
      BY <2>3, <2>11
    <3>3. d.command \in InsertCommands \cup {"x"}
      BY <1>1, <2>11
    <3> QED BY <2>10, <2>12, <2>13, <2>14, <2>15, <2>16, <3>1, <3>2, <3>3, LinkMade
  <2>18. e.rows # <<>>
    BY <2>6, <2>17 DEF Linked
  <2>19. snapshot # <<>>
    <3>1. prev.fr \in Nat /\ prev.fr < Len(snapshot)
      BY <1>2, <2>8 DEF Fits, Cursors
    <3>2. Len(snapshot) # 0
      BY <3>1
    <3> QED BY <3>2
  <2>20. /\ DiffOf(lastCommand, lastRepeat, lastTyped, snapshot, prev) \in SoundDiffs
         /\ Linked(DiffOf(lastCommand, lastRepeat, lastTyped, snapshot, prev), snapshot, e.rows)
         /\ lastCommand \in InsertCommands \cup OtherCommands
         /\ PushCurrent(ed.rows, e, lastCommand, lastRepeat, lastTyped, snapshot, prev, "NORMAL")
    BY <1>1, <2>5, <2>6, <2>7, <2>10, <2>17
  <2> QED BY <1>1, <1>2, <1>5, <2>6, <2>8, <2>9, <2>18, <2>19, <2>20, PushKeeps
<1> QED BY <1>4, <1>5

-----------------------------------------------------------------------------
LEMMA UndoStep ==
  ASSUME EditorUndoAssumption, TypeInv, UndoInv, [Next]_vars
  PROVE  UndoInv'
<1>1. CASE UNCHANGED vars
  <2>1. /\ ed' = ed /\ mode' = mode /\ prev' = prev /\ snapshot' = snapshot
        /\ lastCommand' = lastCommand /\ lastRepeat' = lastRepeat /\ lastTyped' = lastTyped
        /\ undo_deque' = undo_deque /\ d_index' = d_index /\ timeline' = timeline
        /\ plain' = plain
    BY <1>1 DEF vars, before, typing, history
  <2>2. ASSUME plain, mode = "INSERT" PROVE Inserts'
    <3>1. Inserts
      BY <2>2 DEF UndoInv
    <3> QED BY <2>1, <3>1 DEF Inserts, NothingYet
  <2>3. ASSUME plain, mode # "INSERT" PROVE Rests'
    <3>1. Rests
      BY <2>3 DEF UndoInv
    <3> QED BY <2>1, <3>1 DEF Rests
  <2>4. plain => ed'.ok /\ Chain(undo_deque', timeline')
    BY <2>1 DEF UndoInv
  <2> QED BY <2>1, <2>2, <2>3, <2>4 DEF UndoInv
<1>2. ASSUME Next, plain' PROVE UndoInv'
  <2>1. Known
    BY DEF Known
  <2>2. plain
    BY <1>2, ExcludingPlain DEF Next, Insertion, Change, YankLine, Dot, Move, Undo, Redo, RedoOf,
       NoRowsInsert, Type, Backspace, Escape, Write, WriteAndQuit, Cancel, Quit, QuitRefused,
       Abandon, Closed
  <2>3. Plainly
    BY <2>1, <2>2 DEF Plainly
  <2>4. CASE \E command \in InsertCommands, n \in Repeats : Insertion(command, n)
    BY <1>2, <2>3, <2>4, InsertionUndo
  <2>5. CASE \E command \in OtherCommands, n \in Repeats : Change(command, n)
    BY <1>2, <2>3, <2>5, ChangeUndo
  <2>6. CASE \E n \in Repeats : YankLine(n) \/ Dot(n)
    BY <1>2, <2>3, <2>6, YankUndo, DotUndo
  <2>7. CASE Move \/ Undo \/ Redo
    BY <1>2, <2>3, <2>7, MoveUndo, UndoUndo, RedoUndo
  <2>8. CASE NoRowsInsert \/ Backspace \/ Escape
    BY <1>2, <2>3, <2>8, NoRowsUndo, BackspaceUndo, EscapeUndo
  <2>9. CASE \E k \in Keys : Type(k)
    BY <1>2, <2>3, <2>9, TypeUndo
  <2>10. CASE \/ \E ok \in Outcomes : Write(ok) \/ WriteAndQuit(ok)
              \/ Cancel \/ Quit \/ QuitRefused \/ Abandon
    BY <2>3, <2>10, CommandLineUndo
  <2> QED BY <1>2, <2>4, <2>5, <2>6, <2>7, <2>8, <2>9, <2>10 DEF Next
<1>3. ~plain' => UndoInv'
  BY DEF UndoInv
<1> QED BY <1>1, <1>2, <1>3

LEMMA UndoInvGoesBack == TypeInv /\ UndoInv => UndoGoesBack
<1>1. SUFFICES ASSUME TypeInv, UndoInv, plain, mode = "NORMAL", undo_deque # <<>>
               PROVE  /\ Len(timeline) = Len(undo_deque) + 1 /\ d_index <= Len(undo_deque)
                      /\ Note(ed.rows) = timeline[d_index + 1]
  BY DEF UndoGoesBack
<1>2. Len(timeline) = Len(undo_deque) + 1 /\ d_index <= Len(undo_deque)
  BY <1>1 DEF TypeInv, HistoryInv
<1>3. Rests
  BY <1>1 DEF UndoInv
<1>4. ed.rows # <<>> /\ ed.rows = timeline[d_index + 1]
  BY <1>1, <1>3 DEF Rests
<1> QED BY <1>2, <1>4, NoteSame

\* Without the keys that plain excludes, no key reaches beyond the rows, a row, the snapshot or
\* the changes to undo (rows.at, row.insert, snapshot.at and undo_deque.at in src/editor.cpp).
THEOREM InBoundsCorrect == Spec => []InBounds
<1>1. Init => TypeInv /\ UndoInv
  BY EditorUndoAssumption, TypeInit, UndoInit
<1>2. TypeInv /\ UndoInv /\ [Next]_vars => (TypeInv /\ UndoInv)'
  BY EditorUndoAssumption, TypeStep, UndoStep
<1>3. UndoInv => InBounds
  BY DEF UndoInv, InBounds
<1> QED BY <1>1, <1>2, <1>3, PTL DEF Spec

\* Without the keys that plain excludes, undo takes back just what a change did, and redo does
\* just that again, however many changes, undos, redos and dots there are (push_current,
\* push_previous, undo and redo in src/editor.cpp).
THEOREM UndoCorrect == Spec => []UndoGoesBack
<1>1. Init => TypeInv /\ UndoInv
  BY EditorUndoAssumption, TypeInit, UndoInit
<1>2. TypeInv /\ UndoInv /\ [Next]_vars => (TypeInv /\ UndoInv)'
  BY EditorUndoAssumption, TypeStep, UndoStep
<1>3. TypeInv /\ UndoInv => UndoGoesBack
  BY UndoInvGoesBack
<1> QED BY <1>1, <1>2, <1>3, PTL DEF Spec
=============================================================================
