-------------------------- MODULE PinyinInputProofs -------------------------
(***************************************************************************)
(* Proofs about the Pinyin segmentors, for any syllables, any plan of      *)
(* shuangpin, any corrections and inputs of any length.                    *)
(***************************************************************************)
EXTENDS PinyinInput, FiniteSetTheorems, SequenceTheorems, WellFoundedInduction, TLAPS

-----------------------------------------------------------------------------
(* The segmentors.                                                         *)

Key == Letters \cup UNION {s.typed : s \in Setups}
PyKey == [ch : Key, hi : BOOLEAN]

SegTypes == {"syllable", "sep", "invalid", "string"}
SegClasses == {"py", "syllable", "sep", "string"}
Segs == [start : Nat, len : Nat \ {0}, type : SegTypes, class : SegClasses, syls : SUBSET Syllables]

Fields == {"buf", "pystr", "segs", "updatedFrom", "stuck"}
IsSegmentor(s) ==
  /\ Fields \subseteq DOMAIN s
  /\ s.buf \in Seq(Key) /\ s.pystr \in Seq(PyKey) /\ s.segs \in Seq(Segs)
  /\ s.updatedFrom \in Nat /\ s.stuck \in BOOLEAN

\* segs lie one behind the other over n keys.
EndOf(segs, j) == IF j = 0 THEN 0 ELSE End(segs[j])
Tiles(segs, n) ==
  /\ \A j \in 1 .. Len(segs) : segs[j].start = EndOf(segs, j - 1)
  /\ n = EndOf(segs, Len(segs))

\* A segmentor that did not get stuck.
Whole(class, s) ==
  /\ IsSegmentor(s) /\ ~s.stuck
  /\ class # "shuangpin" => Tiles(s.segs, Len(s.pystr))

-----------------------------------------------------------------------------
(* Numbers.                                                                *)

\* A set of numbers has a least one.
LEMMA LeastNumber ==
  ASSUME NEW S \in SUBSET Nat, S # {}
  PROVE  \E x \in S : \A y \in S : x <= y
<1>1. PICK x \in S : \A y \in S : ~ (<<y, x>> \in OpToRel(<, Nat))
  BY NatLessThanWellFounded, WFMin
<1>2. \A y \in S : ~ (y < x)
  BY <1>1 DEF OpToRel
<1>. QED
  BY <1>2

\* A bounded one has a greatest.
LEMMA GreatestNumber ==
  ASSUME NEW S \in SUBSET Nat, S # {}, NEW n \in Nat, \A s \in S : s <= n
  PROVE  Max(S) \in S /\ \A s \in S : s <= Max(S)
<1> DEFINE T == {n - s : s \in S}
<1>1. T \in SUBSET Nat
  <2>1. ASSUME NEW s \in S
        PROVE  n - s \in Nat
    <3>1. s \in Nat /\ s <= n
      OBVIOUS
    <3>. QED
      BY <3>1
  <2>. QED
    BY <2>1
<1>a. T # {}
  OBVIOUS
<1> HIDE DEF T
<1>2. PICK t \in T : \A y \in T : t <= y
  BY <1>1, <1>a, LeastNumber
<1>3. PICK x \in S : t = n - x
  BY DEF T
<1>4. \A s \in S : n - s \in T
  BY DEF T
<1>5. \A s \in S : x >= s
  BY <1>2, <1>3, <1>4
<1>. QED
  BY <1>5 DEF Max

\* Induction, for a set of numbers.
LEMMA NumbersFromZero ==
  ASSUME NEW S \in SUBSET Nat, 0 \in S, \A n \in S : n + 1 \in S
  PROVE  Nat \subseteq S
<1> SUFFICES ASSUME Nat \ S # {} PROVE FALSE
  OBVIOUS
<1>1. PICK x \in Nat \ S : \A y \in Nat \ S : x <= y
  BY LeastNumber, Nat \ S \in SUBSET Nat
<1>2. x - 1 \in Nat /\ (x - 1) + 1 = x
  OBVIOUS
<1>3. x - 1 \notin S
  BY <1>2
<1>. QED
  BY <1>1, <1>2, <1>3

\* What holds at first and is passed on from each turn to the next always holds.
LEMMA Stays ==
  ASSUME NEW n \in Nat, NEW P, 0 \in P, \A k \in 1 .. n : k - 1 \in P => k \in P
  PROVE  0 .. n \subseteq P
<1> DEFINE S == {m \in Nat : m <= n => m \in P}
<1>1. 0 \in S
  OBVIOUS
<1>2. ASSUME NEW m \in S
      PROVE  m + 1 \in S
  <2>1. CASE m + 1 <= n
    <3>1. m + 1 \in 1 .. n /\ (m + 1) - 1 = m /\ m \in P
      BY <2>1
    <3>. QED
      BY <3>1
  <2>. QED
    BY <2>1
<1>3. S \in SUBSET Nat
  OBVIOUS
<1> HIDE DEF S
<1>4. Nat \subseteq S
  BY <1>1, <1>2, <1>3, NumbersFromZero
<1>. QED
  BY <1>4 DEF S

-----------------------------------------------------------------------------
(* Sequences of keys.                                                      *)

\* The keys of a sequence of letters.
LEMMA KeysAre ==
  ASSUME NEW p \in Seq(PyKey)
  PROVE  /\ Keys(p) \in Seq(Key) /\ Len(Keys(p)) = Len(p)
         /\ \A k \in 1 .. Len(p) : Keys(p)[k] = p[k].ch
<1>1. DOMAIN p = 1 .. Len(p) /\ Len(p) \in Nat
  OBVIOUS
<1>2. \A k \in 1 .. Len(p) : p[k].ch \in Key
  <2>1. ASSUME NEW x \in PyKey PROVE x.ch \in Key
    BY DEF PyKey
  <2>2. \A k \in 1 .. Len(p) : p[k] \in PyKey
    BY <1>1
  <2>. QED
    BY <2>1, <2>2
<1>. QED
  BY <1>1, <1>2 DEF Keys

\* See Keys.
LEMMA KeysOfPart ==
  ASSUME NEW p \in Seq(PyKey), NEW a \in 1 .. Len(p) + 1, NEW b \in a - 1 .. Len(p)
  PROVE  /\ SubSeq(p, a, b) \in Seq(PyKey) /\ Len(SubSeq(p, a, b)) = b - a + 1
         /\ Keys(SubSeq(p, a, b)) = SubSeq(Keys(p), a, b)
<1> DEFINE q == SubSeq(p, a, b)
           r == SubSeq(Keys(p), a, b)
<1>1. Len(p) \in Nat /\ a \in Nat /\ b \in Nat /\ b - a + 1 \in Nat
  OBVIOUS
<1>2. q \in Seq(PyKey) /\ Len(q) = b - a + 1 /\ \A k \in 1 .. b - a + 1 : q[k] = p[a + k - 1]
  BY <1>1, SubSeqProperties
<1>3. Keys(p) \in Seq(Key) /\ Len(Keys(p)) = Len(p) /\ \A k \in 1 .. Len(p) : Keys(p)[k] = p[k].ch
  BY KeysAre
<1>4. r \in Seq(Key) /\ Len(r) = b - a + 1 /\ \A k \in 1 .. b - a + 1 : r[k] = Keys(p)[a + k - 1]
  BY <1>1, <1>3, SubSeqProperties
<1> HIDE DEF q, r
<1>5. Keys(q) \in Seq(Key) /\ Len(Keys(q)) = b - a + 1 /\ \A k \in 1 .. b - a + 1 : Keys(q)[k] = q[k].ch
  BY <1>2, KeysAre
<1>6. \A k \in 1 .. b - a + 1 : Keys(q)[k] = r[k]
  <2>1. \A k \in 1 .. b - a + 1 : a + k - 1 \in 1 .. Len(p)
    BY <1>1
  <2>. QED
    BY <1>2, <1>3, <1>4, <1>5, <2>1
<1>7. Keys(q) = r
  BY <1>4, <1>5, <1>6, SeqEqual
<1>. QED
  BY <1>2, <1>7 DEF q, r

\* See Keys.
LEMMA KeysOfConcat ==
  ASSUME NEW p \in Seq(PyKey), NEW q \in Seq(PyKey)
  PROVE  p \o q \in Seq(PyKey) /\ Len(p \o q) = Len(p) + Len(q) /\ Keys(p \o q) = Keys(p) \o Keys(q)
<1> DEFINE b == p \o q
           x == Keys(p)
           y == Keys(q)
           r == x \o y
           l == Len(p)
           m == Len(q)
<1>1. /\ b \in Seq(PyKey) /\ Len(b) = l + m /\ l \in Nat /\ m \in Nat
      /\ \A k \in 1 .. l : b[k] = p[k]
      /\ \A k \in l + 1 .. l + m : b[k] = q[k - l]
  BY ConcatProperties
<1>2. /\ x \in Seq(Key) /\ Len(x) = l /\ \A k \in 1 .. l : x[k] = p[k].ch
      /\ y \in Seq(Key) /\ Len(y) = m /\ \A k \in 1 .. m : y[k] = q[k].ch
  BY KeysAre
<1> HIDE DEF x, y, l, m
<1>3. /\ r \in Seq(Key) /\ Len(r) = l + m
      /\ \A k \in 1 .. l : r[k] = x[k]
      /\ \A k \in l + 1 .. l + m : r[k] = y[k - l]
  BY <1>1, <1>2, ConcatProperties
<1> HIDE DEF b, r
<1>4. Keys(b) \in Seq(Key) /\ Len(Keys(b)) = l + m /\ \A k \in 1 .. l + m : Keys(b)[k] = b[k].ch
  BY <1>1, KeysAre
<1>5. \A k \in 1 .. l + m : Keys(b)[k] = r[k]
  <2>1. ASSUME NEW k \in 1 .. l PROVE b[k].ch = r[k]
    BY <1>1, <1>2, <1>3
  <2>2. ASSUME NEW k \in l + 1 .. l + m PROVE b[k].ch = r[k]
    <3> DEFINE i == k - l
    <3>1. i \in 1 .. m /\ b[k] = q[i] /\ r[k] = y[i]
      BY <1>1, <1>3
    <3> HIDE DEF i
    <3>. QED
      BY <3>1, <1>2
  <2>3. \A k \in 1 .. l + m : k \in 1 .. l \/ k \in l + 1 .. l + m
    BY <1>1
  <2>. QED
    BY <2>1, <2>2, <2>3, <1>4
<1>6. Keys(b) = r
  BY <1>3, <1>4, <1>5, SeqEqual
<1>. QED
  BY <1>1, <1>6 DEF b, r, x, y, l, m

\* See Keys.
LEMMA KeysOfOne ==
  ASSUME NEW ch \in Key
  PROVE  /\ Plain(ch) \in PyKey /\ <<Plain(ch)>> \in Seq(PyKey) /\ Keys(<<Plain(ch)>>) = <<ch>>
         /\ Plain(ch).ch = ch /\ Plain(ch).hi = FALSE
<1>1. Plain(ch) \in PyKey /\ Plain(ch).ch = ch /\ Plain(ch).hi = FALSE
  BY DEF Plain, PyKey
<1> HIDE DEF Plain
<1>2. <<Plain(ch)>> \in Seq(PyKey) /\ Len(<<Plain(ch)>>) = 1 /\ <<Plain(ch)>>[1] = Plain(ch)
  BY <1>1
<1>3. Keys(<<Plain(ch)>>) \in Seq(Key) /\ Len(Keys(<<Plain(ch)>>)) = 1 /\ Keys(<<Plain(ch)>>)[1] = ch
  <2> DEFINE q == <<Plain(ch)>>
  <2>1. q \in Seq(PyKey) /\ Len(q) = 1 /\ q[1].ch = ch
    BY <1>1, <1>2
  <2> HIDE DEF q
  <2>2. Keys(q) \in Seq(Key) /\ Len(Keys(q)) = 1 /\ Keys(q)[1] = ch
    BY <2>1, KeysAre
  <2>. QED
    BY <2>2 DEF q
<1>4. <<ch>> \in Seq(Key) /\ Len(<<ch>>) = 1 /\ <<ch>>[1] = ch
  OBVIOUS
<1>. QED
  BY <1>1, <1>2, <1>3, <1>4, SeqEqual

\* See Keys.
LEMMA KeysOfAppend ==
  ASSUME NEW p \in Seq(PyKey), NEW ch \in Key
  PROVE  /\ Append(p, Plain(ch)) \in Seq(PyKey) /\ Len(Append(p, Plain(ch))) = Len(p) + 1
         /\ Keys(Append(p, Plain(ch))) = Append(Keys(p), ch)
<1>1. Append(p, Plain(ch)) = p \o <<Plain(ch)>> /\ Append(Keys(p), ch) = Keys(p) \o <<ch>>
  BY KeysAre, KeysOfOne, AppendIsConcat
<1>. QED
  BY <1>1, KeysOfOne, KeysOfConcat

\* A key that is marked, or no longer, is the same key.
LEMMA KeysMarked ==
  ASSUME NEW p \in Seq(PyKey), NEW k \in 1 .. Len(p), NEW b \in BOOLEAN
  PROVE  LET q == [p EXCEPT ![k].hi = b] IN q \in Seq(PyKey) /\ Len(q) = Len(p) /\ Keys(q) = Keys(p)
<1> DEFINE x == [p[k] EXCEPT !.hi = b]
           q == [p EXCEPT ![k] = x]
<1>1. x \in PyKey /\ x.ch = p[k].ch
  <2>1. ASSUME NEW y \in PyKey PROVE [y EXCEPT !.hi = b] \in PyKey /\ [y EXCEPT !.hi = b].ch = y.ch
    BY DEF PyKey
  <2>2. p[k] \in PyKey
    OBVIOUS
  <2>. QED
    BY <2>1, <2>2
<1>2. q = [p EXCEPT ![k].hi = b]
  OBVIOUS
<1> HIDE DEF x
<1>3. q \in Seq(PyKey) /\ Len(q) = Len(p) /\ \A i \in 1 .. Len(p) : q[i].ch = p[i].ch
  BY <1>1
<1> HIDE DEF q
<1>4. Keys(q) = Keys(p)
  BY <1>3, KeysAre, SeqEqual
<1>. QED
  BY <1>2, <1>3, <1>4

-----------------------------------------------------------------------------
(* The keys of the first segments.                                         *)

\* f adds up the lengths of the first n segments.
IsSum(f, segs, n) == f = [i \in 0 .. n |-> IF i = 0 THEN 0 ELSE f[i - 1] + segs[i].len]

\* There is such a function.
LEMMA SumExists ==
  ASSUME NEW segs, NEW n \in Nat
  PROVE  \E f : IsSum(f, segs, n) /\ KeysOf(segs, n) = f[n]
<1> DEFINE S == {m \in Nat : \E f : IsSum(f, segs, m)}
<1>1. 0 \in S
  <2>1. IsSum([i \in 0 .. 0 |-> 0], segs, 0)
    BY DEF IsSum
  <2>. QED
    BY <2>1
<1>2. ASSUME NEW m \in S
      PROVE  m + 1 \in S
  <2>1. PICK f : IsSum(f, segs, m)
    OBVIOUS
  <2> DEFINE g == [i \in 0 .. m + 1 |-> IF i = m + 1 THEN f[m] + segs[m + 1].len ELSE f[i]]
  <2>2. ASSUME NEW i \in 0 .. m + 1
        PROVE  g[i] = IF i = 0 THEN 0 ELSE g[i - 1] + segs[i].len
    <3>1. CASE i = 0
      BY <3>1, <2>1 DEF IsSum
    <3>2. CASE i = m + 1
      BY <3>2
    <3>3. CASE i \in 1 .. m
      <4>1. g[i] = f[i] /\ g[i - 1] = f[i - 1]
        BY <3>3
      <4>. QED
        BY <4>1, <3>3, <2>1 DEF IsSum
    <3>. QED
      BY <3>1, <3>2, <3>3
  <2>3. IsSum(g, segs, m + 1)
    BY <2>2 DEF IsSum
  <2> HIDE DEF g
  <2>. QED
    BY <2>3
<1>3. S \in SUBSET Nat
  OBVIOUS
<1> HIDE DEF S
<1>4. n \in S
  BY <1>1, <1>2, <1>3, NumbersFromZero
<1>5. \E f : IsSum(f, segs, n)
  BY <1>4 DEF S
<1>6. IsSum(CHOOSE f : IsSum(f, segs, n), segs, n)
  BY <1>5
<1>7. KeysOf(segs, n) = (CHOOSE f : IsSum(f, segs, n))[n]
  BY DEF KeysOf, IsSum
<1>. QED
  BY <1>6, <1>7

\* What a segment is.
LEMMA SegFacts ==
  ASSUME NEW x \in Segs
  PROVE  x.start \in Nat /\ x.len \in Nat /\ x.len > 0 /\ End(x) = x.start + x.len
BY DEF Segs, End

\* Each segment adds its keys.
LEMMA KeysOfSteps ==
  ASSUME NEW segs \in Seq(Segs)
  PROVE  /\ KeysOf(segs, 0) = 0
         /\ \A j \in 1 .. Len(segs) : KeysOf(segs, j) = KeysOf(segs, j - 1) + segs[j].len
         /\ \A j \in 0 .. Len(segs) : KeysOf(segs, j) \in Nat
<1>1. KeysOf(segs, 0) = 0
  <2>1. PICK f : IsSum(f, segs, 0) /\ KeysOf(segs, 0) = f[0]
    BY SumExists
  <2>. QED
    BY <2>1 DEF IsSum
<1>2. ASSUME NEW j \in 1 .. Len(segs)
      PROVE  KeysOf(segs, j) = KeysOf(segs, j - 1) + segs[j].len
  <2>1. j \in Nat /\ j - 1 \in Nat
    OBVIOUS
  <2>2. PICK f : IsSum(f, segs, j) /\ KeysOf(segs, j) = f[j]
    BY <2>1, SumExists
  <2>3. PICK g : IsSum(g, segs, j - 1) /\ KeysOf(segs, j - 1) = g[j - 1]
    BY <2>1, SumExists
  <2> DEFINE P == {i \in 0 .. j - 1 : f[i] = g[i]}
  <2>4. f[0] = 0 /\ g[0] = 0
    BY <2>1, <2>2, <2>3 DEF IsSum
  <2>5. ASSUME NEW i \in 1 .. j - 1, i - 1 \in P
        PROVE  i \in P
    <3>1. f[i] = f[i - 1] + segs[i].len
      BY <2>1, <2>2 DEF IsSum
    <3>2. g[i] = g[i - 1] + segs[i].len
      BY <2>1, <2>3 DEF IsSum
    <3>. QED
      BY <3>1, <3>2, <2>5
  <2>6. 0 \in P
    BY <2>1, <2>4
  <2> HIDE DEF P
  <2>7. 0 .. j - 1 \subseteq P
    BY <2>1, <2>5, <2>6, Stays
  <2>8. f[j - 1] = g[j - 1]
    BY <2>1, <2>7 DEF P
  <2>9. f[j] = f[j - 1] + segs[j].len
    BY <2>1, <2>2 DEF IsSum
  <2>. QED
    BY <2>2, <2>3, <2>8, <2>9
<1>3. \A j \in 0 .. Len(segs) : KeysOf(segs, j) \in Nat
  <2> DEFINE P == {j \in 0 .. Len(segs) : KeysOf(segs, j) \in Nat}
  <2>1. 0 \in P
    BY <1>1
  <2>2. ASSUME NEW j \in 1 .. Len(segs), j - 1 \in P
        PROVE  j \in P
    <3>1. segs[j].len \in Nat
      BY SegFacts
    <3>. QED
      BY <3>1, <2>2, <1>2
  <2> HIDE DEF P
  <2>3. 0 .. Len(segs) \subseteq P
    <3>1. Len(segs) \in Nat
      OBVIOUS
    <3>. QED
      BY <3>1, <2>1, <2>2, Stays
  <2>. QED
    BY <2>3 DEF P
<1>. QED
  BY <1>1, <1>2, <1>3

\* Where a segment ends.
LEMMA Ends ==
  ASSUME NEW segs \in Seq(Segs), NEW j \in 0 .. Len(segs)
  PROVE  /\ EndOf(segs, j) \in Nat
         /\ j > 0 => /\ segs[j] \in Segs /\ segs[j].start \in Nat /\ segs[j].len \in Nat \ {0}
                     /\ EndOf(segs, j) = segs[j].start + segs[j].len
<1>1. ASSUME j > 0 PROVE segs[j] \in Segs
  BY <1>1
<1>2. ASSUME NEW x \in Segs PROVE x.start \in Nat /\ x.len \in Nat \ {0} /\ End(x) = x.start + x.len
  BY DEF Segs, End
<1>. QED
  BY <1>1, <1>2 DEF EndOf

\* Of segments that lie one behind the other, it is where the last of them ends.
LEMMA TiledKeys ==
  ASSUME NEW segs \in Seq(Segs), NEW n, Tiles(segs, n)
  PROVE  /\ n \in Nat
         /\ \A j \in 0 .. Len(segs) : KeysOf(segs, j) = EndOf(segs, j) /\ EndOf(segs, j) <= n
         /\ \A j \in 1 .. Len(segs) : EndOf(segs, j - 1) < EndOf(segs, j)
         /\ \A i, j \in 0 .. Len(segs) : i < j => EndOf(segs, i) < EndOf(segs, j)
<1> DEFINE m == Len(segs)
<1>1. m \in Nat /\ EndOf(segs, m) \in Nat /\ n = EndOf(segs, m)
  BY Ends DEF Tiles
<1>2. ASSUME NEW j \in 1 .. m
      PROVE  /\ EndOf(segs, j) = EndOf(segs, j - 1) + segs[j].len
             /\ EndOf(segs, j - 1) \in Nat /\ EndOf(segs, j) \in Nat /\ segs[j].len \in Nat \ {0}
  <2>1. j \in 0 .. m /\ j - 1 \in 0 .. m /\ j > 0
    BY <1>1
  <2>. QED
    BY <2>1, Ends DEF Tiles
<1> HIDE DEF EndOf
<1>3. \A j \in 0 .. m : KeysOf(segs, j) = EndOf(segs, j)
  <2> DEFINE P == {j \in 0 .. m : KeysOf(segs, j) = EndOf(segs, j)}
  <2>1. 0 \in P
    BY <1>1, KeysOfSteps DEF EndOf
  <2>2. ASSUME NEW j \in 1 .. m, j - 1 \in P
        PROVE  j \in P
    BY <2>2, <1>1, <1>2, KeysOfSteps
  <2> HIDE DEF P
  <2>3. 0 .. m \subseteq P
    BY <1>1, <2>1, <2>2, Stays
  <2>. QED
    BY <2>3 DEF P
<1>4. \A i, j \in 0 .. m : i < j => EndOf(segs, i) < EndOf(segs, j)
  <2> DEFINE P == {j \in 0 .. m : \A i \in 0 .. m : i < j => EndOf(segs, i) < EndOf(segs, j)}
  <2>1. 0 \in P
    BY <1>1
  <2>2. ASSUME NEW j \in 1 .. m, j - 1 \in P
        PROVE  j \in P
    <3>1. ASSUME NEW i \in 0 .. m, i < j PROVE EndOf(segs, i) < EndOf(segs, j)
      <4>1. EndOf(segs, j - 1) < EndOf(segs, j) /\ EndOf(segs, j - 1) \in Nat /\ EndOf(segs, j) \in Nat
        BY <1>2
      <4>2. CASE i = j - 1
        BY <4>1, <4>2
      <4>3. CASE i < j - 1
        <5>1. EndOf(segs, i) < EndOf(segs, j - 1) /\ EndOf(segs, i) \in Nat
          BY <4>3, <2>2, Ends
        <5>. QED
          BY <4>1, <5>1
      <4>. QED
        BY <3>1, <4>2, <4>3, <1>1
    <3>. QED
      BY <3>1
  <2> HIDE DEF P
  <2>3. 0 .. m \subseteq P
    BY <1>1, <2>1, <2>2, Stays
  <2>. QED
    BY <2>3 DEF P
<1>5. \A j \in 0 .. m : EndOf(segs, j) <= n
  <2>1. ASSUME NEW j \in 0 .. m PROVE EndOf(segs, j) <= n
    <3>1. EndOf(segs, j) \in Nat /\ m \in 0 .. m
      BY <1>1, Ends
    <3>2. j = m \/ j < m
      BY <1>1
    <3>. QED
      BY <3>1, <3>2, <1>1, <1>4
  <2>. QED
    BY <2>1
<1>6. \A j \in 1 .. m : EndOf(segs, j - 1) < EndOf(segs, j)
  <2>1. ASSUME NEW j \in 1 .. m PROVE EndOf(segs, j - 1) < EndOf(segs, j)
    <3>1. /\ EndOf(segs, j) = EndOf(segs, j - 1) + segs[j].len
          /\ EndOf(segs, j - 1) \in Nat /\ segs[j].len \in Nat \ {0}
      BY <1>2
    <3>. QED
      BY <3>1
  <2>. QED
    BY <2>1
<1>. QED
  BY <1>1, <1>3, <1>4, <1>5, <1>6

\* The first segments of a tiling tile what they cover.
LEMMA FirstTile ==
  ASSUME NEW segs \in Seq(Segs), NEW n, Tiles(segs, n), NEW j \in 0 .. Len(segs)
  PROVE  /\ SubSeq(segs, 1, j) \in Seq(Segs) /\ Len(SubSeq(segs, 1, j)) = j
         /\ \A i \in 1 .. j : SubSeq(segs, 1, j)[i] = segs[i]
         /\ Tiles(SubSeq(segs, 1, j), EndOf(segs, j))
<1> DEFINE a == SubSeq(segs, 1, j)
<1>1. a \in Seq(Segs) /\ Len(a) = j /\ \A i \in 1 .. j : a[i] = segs[i]
  <2>1. 1 \in 1 .. Len(segs) + 1 /\ j \in 0 .. Len(segs) /\ Len(segs) \in Nat /\ j \in Nat
    OBVIOUS
  <2>. QED
    BY <2>1, SubSeqProperties
<1> HIDE DEF a
<1>2. \A i \in 0 .. j : EndOf(a, i) = EndOf(segs, i)
  BY <1>1 DEF EndOf
<1>3. Tiles(a, EndOf(segs, j))
  <2>1. ASSUME NEW i \in 1 .. Len(a)
        PROVE  a[i].start = EndOf(a, i - 1)
    <3>1. i \in 1 .. Len(segs) /\ i - 1 \in 0 .. j /\ i \in 1 .. j
      BY <1>1
    <3>. QED
      BY <3>1, <1>1, <1>2 DEF Tiles
  <2>. QED
    BY <2>1, <1>1, <1>2 DEF Tiles
<1>. QED
  BY <1>1, <1>3 DEF a

\* One more segment behind a tiling.
LEMMA NextTile ==
  ASSUME NEW segs \in Seq(Segs), NEW n, Tiles(segs, n), NEW seg \in Segs, seg.start = n
  PROVE  /\ Append(segs, seg) \in Seq(Segs) /\ Len(Append(segs, seg)) = Len(segs) + 1
         /\ Append(segs, seg)[Len(segs) + 1] = seg /\ \A i \in 1 .. Len(segs) : Append(segs, seg)[i] = segs[i]
         /\ Tiles(Append(segs, seg), n + seg.len)
<1> DEFINE a == Append(segs, seg)
           m == Len(segs)
<1>1. /\ a \in Seq(Segs) /\ Len(a) = m + 1 /\ m \in Nat
      /\ a[m + 1] = seg /\ \A i \in 1 .. m : a[i] = segs[i]
  BY AppendProperties
<1> HIDE DEF a
<1>2. \A i \in 0 .. m : EndOf(a, i) = EndOf(segs, i)
  BY <1>1 DEF EndOf
<1>3. EndOf(a, m + 1) = n + seg.len
  BY <1>1 DEF EndOf, End
<1>4. ASSUME NEW i \in 1 .. m + 1
      PROVE  a[i].start = EndOf(a, i - 1)
  <2>1. CASE i = m + 1
    BY <2>1, <1>1, <1>2 DEF Tiles
  <2>2. CASE i \in 1 .. m
    <3>1. i - 1 \in 0 .. m
      BY <2>2, <1>1
    <3>. QED
      BY <2>2, <3>1, <1>1, <1>2 DEF Tiles
  <2>. QED
    BY <2>1, <2>2, <1>1
<1>5. Tiles(a, n + seg.len)
  BY <1>1, <1>3, <1>4 DEF Tiles
<1>. QED
  BY <1>1, <1>5 DEF a

\* Where _locateSegment stops.
LEMMA LocatedBefore ==
  ASSUME NEW s, IsSegmentor(s), NEW idx \in Nat
  PROVE  /\ Located(s, idx) \in 0 .. Len(s.segs)
         /\ KeysOf(s.segs, Located(s, idx)) \in Nat /\ KeysOf(s.segs, Located(s, idx)) <= idx
<1> DEFINE S == {j \in 0 .. Len(s.segs) : KeysOf(s.segs, j) <= idx}
<1>1. s.segs \in Seq(Segs) /\ Len(s.segs) \in Nat
  BY DEF IsSegmentor
<1>2. S \in SUBSET Nat /\ \A j \in S : j <= Len(s.segs)
  BY <1>1
<1>3. 0 \in S
  BY <1>1, KeysOfSteps
<1>4. Located(s, idx) = Max(S)
  BY DEF Located
<1>5. \A j \in S : j \in 0 .. Len(s.segs) /\ KeysOf(s.segs, j) <= idx
  OBVIOUS
<1> HIDE DEF S, Located
<1>6. Max(S) \in S
  BY <1>1, <1>2, <1>3, GreatestNumber
<1>. QED
  BY <1>1, <1>4, <1>5, <1>6, KeysOfSteps

-----------------------------------------------------------------------------
(* Syllables and segments.                                                 *)

\* The longest syllable is no longer than the letters.
LEMMA LongestFits ==
  ASSUME NEW p, Len(p) \in Nat
  PROVE  match_longest(p) \in 0 .. Len(p)
<1> DEFINE S == {0} \cup {l \in 1 .. Len(p) : IsSyllable(Ending(p, l))}
<1>1. match_longest(p) = Max(S)
  BY DEF match_longest
<1>2. S \in SUBSET Nat /\ 0 \in S /\ \A l \in S : l \in 0 .. Len(p) /\ l <= Len(p)
  OBVIOUS
<1> HIDE DEF S
<1>3. Max(S) \in S
  BY <1>2, GreatestNumber
<1>. QED
  BY <1>1, <1>2, <1>3

\* What the plan maps two keys to.
LEMMA MappedAreSyllables ==
  /\ \A spelling : Encoded(spelling) \in SUBSET Syllables
  /\ \A k1, k2 : MappedSyllables(k1, k2) \in SUBSET Syllables
<1>1. \A spelling : Encoded(spelling) \in SUBSET Syllables
  BY DEF Encoded
<1>3. ASSUME NEW k1, NEW k2
      PROVE  MappedSyllables(k1, k2) \in SUBSET Syllables
  <2> DEFINE zero == {z \in ZeroInitials : z[1] = <<k1, k2>>}
             spelled == {i \o f : i \in MappedInitials(k1),
                                  f \in {m[2] : m \in {m \in MapFinals : m[1] = k2}}}
  <2>1. MappedSyllables(k1, k2) = IF zero # {} THEN UNION {Encoded(z[2]) : z \in zero}
                                  ELSE UNION {Encoded(sp) : sp \in spelled}
    BY DEF MappedSyllables
  <2> HIDE DEF zero, spelled
  <2>2. UNION {Encoded(z[2]) : z \in zero} \in SUBSET Syllables
    BY <1>1
  <2>3. UNION {Encoded(sp) : sp \in spelled} \in SUBSET Syllables
    BY <1>1
  <2>. QED
    BY <2>1, <2>2, <2>3
<1>. QED
  BY <1>1, <1>3

\* A segment of syllables.
LEMMA PySegmentIs ==
  ASSUME NEW start \in Nat, NEW len \in Nat \ {0}, NEW spelling
  PROVE  LET x == PySegment(start, len, Encoded(spelling))
         IN x \in Segs /\ x.start = start /\ x.len = len
<1>1. Encoded(spelling) \in SUBSET Syllables
  BY MappedAreSyllables
<1> HIDE DEF Encoded
<1>. QED
  BY <1>1 DEF PySegment, Segment, Segs, SegTypes, SegClasses

\* One of a key that no syllable has.
LEMMA OddSegmentIs ==
  ASSUME NEW s, NEW at \in Nat, NEW ch
  PROVE  LET x == OddSegment(s, at, ch) IN x \in Segs /\ x.start = at /\ x.len = 1
<1> DEFINE type == CASE ch = "'" /\ Len(s.buf) > 1 -> "sep"
                     [] ch \in Letters              -> "invalid"
                     [] OTHER                       -> "string"
<1>1. type \in SegTypes
  BY SyllablesAssumption DEF SegTypes
<1>2. OddSegment(s, at, ch) = Segment(at, 1, type, IF type = "sep" THEN "sep" ELSE "string", {})
  BY DEF OddSegment
<1> HIDE DEF type
<1>. QED
  BY <1>1, <1>2 DEF Segment, Segs, SegTypes, SegClasses

-----------------------------------------------------------------------------
(* Segments behind others.                                                 *)

\* segs lie one behind the other from key a to key b.
Covers(segs, a, b) ==
  /\ \A j \in 1 .. Len(segs) : segs[j].start = IF j = 1 THEN a ELSE End(segs[j - 1])
  /\ b = IF Len(segs) = 0 THEN a ELSE End(segs[Len(segs)])

\* The segments that start before key u.
Before(segs, u) == {x \in Range(segs) : x.start < u}

\* A covering continues a tiling.
LEMMA JoinTiles ==
  ASSUME NEW segs \in Seq(Segs), NEW a, Tiles(segs, a),
         NEW more \in Seq(Segs), NEW b, Covers(more, a, b)
  PROVE  /\ segs \o more \in Seq(Segs) /\ Len(segs \o more) = Len(segs) + Len(more)
         /\ \A i \in 1 .. Len(segs) : (segs \o more)[i] = segs[i]
         /\ \A i \in 1 .. Len(more) : (segs \o more)[Len(segs) + i] = more[i]
         /\ Tiles(segs \o more, b)
<1> DEFINE d == segs \o more
           m == Len(segs)
           n == Len(more)
<1>1. /\ d \in Seq(Segs) /\ Len(d) = m + n /\ m \in Nat /\ n \in Nat
      /\ \A i \in 1 .. m : d[i] = segs[i]
      /\ \A i \in m + 1 .. m + n : d[i] = more[i - m]
  BY ConcatProperties
<1> HIDE DEF d
<1>a. \A i \in 1 .. n : d[m + i] = more[i]
  <2>1. ASSUME NEW i \in 1 .. n PROVE d[m + i] = more[i]
    <3>1. m + i \in m + 1 .. m + n /\ (m + i) - m = i
      BY <1>1
    <3>. QED
      BY <3>1, <1>1
  <2>. QED
    BY <2>1
<1>2. \A i \in 0 .. m : EndOf(d, i) = EndOf(segs, i)
  BY <1>1 DEF EndOf
<1>b. \A i \in 1 .. m : segs[i].start = EndOf(segs, i - 1)
  BY DEF Tiles
<1>c. a = EndOf(segs, m)
  BY DEF Tiles
<1>3. ASSUME NEW i \in 1 .. m + n
      PROVE  d[i].start = EndOf(d, i - 1)
  <2>1. CASE i \in 1 .. m
    <3>1. i - 1 \in 0 .. m
      BY <2>1, <1>1
    <3>. QED
      BY <2>1, <3>1, <1>1, <1>2, <1>b
  <2>2. CASE i = m + 1
    <3>1. 1 \in 1 .. n /\ d[m + 1] = more[1] /\ m \in 0 .. m /\ i - 1 = m
      BY <2>2, <1>1, <1>a
    <3>2. more[1].start = a
      BY <3>1 DEF Covers
    <3>. QED
      BY <2>2, <3>1, <3>2, <1>2, <1>c
  <2>3. CASE i \in m + 2 .. m + n
    <3> DEFINE k == i - m
    <3>1. k \in 1 .. n /\ k - 1 \in 1 .. n /\ k # 1 /\ m + k = i /\ m + (k - 1) = i - 1 /\ i - 1 # 0
      BY <2>3, <1>1
    <3> HIDE DEF k
    <3>2. d[i] = more[k] /\ d[i - 1] = more[k - 1]
      BY <3>1, <1>a
    <3>3. more[k].start = End(more[k - 1])
      BY <3>1 DEF Covers
    <3>4. EndOf(d, i - 1) = End(d[i - 1])
      BY <3>1 DEF EndOf
    <3> HIDE DEF EndOf, End
    <3>. QED
      BY <3>2, <3>3, <3>4
  <2>4. \A p, q \in Nat : \A k \in 1 .. p + q : k \in 1 .. p \/ k = p + 1 \/ k \in p + 2 .. p + q
    OBVIOUS
  <2>5. m \in Nat /\ n \in Nat
    BY <1>1
  <2>6. i \in 1 .. m \/ i = m + 1 \/ i \in m + 2 .. m + n
    BY <2>4, <2>5, Zenon
  <2>. QED
    BY <2>1, <2>2, <2>3, <2>6, Zenon
<1>4. b = EndOf(d, m + n)
  <2>1. CASE n = 0
    <3>1. m + n = m /\ m \in 0 .. m
      BY <2>1, <1>1
    <3>2. b = a
      BY <2>1 DEF Covers
    <3>. QED
      BY <3>1, <3>2, <1>2, <1>c
  <2>2. CASE n # 0
    <3>1. n \in 1 .. n /\ m + n # 0
      BY <2>2, <1>1
    <3>2. b = End(more[n])
      BY <2>2 DEF Covers
    <3>. QED
      BY <3>1, <3>2, <1>a DEF EndOf
  <2>. QED
    BY <2>1, <2>2
<1>5. Tiles(d, b)
  BY <1>1, <1>3, <1>4 DEF Tiles
<1>. QED
  BY <1>1, <1>a, <1>5 DEF d

\* One more segment before a covering.
LEMMA CoverMore ==
  ASSUME NEW seg \in Segs, NEW more \in Seq(Segs), NEW b, Covers(more, seg.start + seg.len, b)
  PROVE  <<seg>> \o more \in Seq(Segs) /\ Covers(<<seg>> \o more, seg.start, b)
<1> DEFINE d == <<seg>> \o more
           n == Len(more)
<1>1. /\ d \in Seq(Segs) /\ Len(d) = n + 1 /\ n \in Nat
      /\ d[1] = seg /\ \A i \in 2 .. n + 1 : d[i] = more[i - 1]
  <2>1. <<seg>> \in Seq(Segs) /\ Len(<<seg>>) = 1 /\ <<seg>>[1] = seg
    OBVIOUS
  <2>. QED
    BY <2>1, ConcatProperties
<1>2. End(seg) = seg.start + seg.len
  BY DEF End
<1> HIDE DEF d
<1>3. ASSUME NEW i \in 1 .. n + 1
      PROVE  d[i].start = IF i = 1 THEN seg.start ELSE End(d[i - 1])
  <2>1. CASE i = 1
    BY <2>1, <1>1
  <2>2. CASE i = 2
    <3>1. 1 \in 1 .. n /\ d[2] = more[1] /\ i - 1 = 1
      BY <2>2, <1>1
    <3>2. more[1].start = seg.start + seg.len
      BY <3>1 DEF Covers
    <3>. QED
      BY <2>2, <3>1, <3>2, <1>1, <1>2
  <2>3. CASE i \in 3 .. n + 1
    <3> DEFINE k == i - 1
    <3>1. k \in 1 .. n /\ k # 1 /\ k \in 2 .. n + 1 /\ i \in 2 .. n + 1 /\ i # 1
      BY <2>3, <1>1
    <3>2. d[i] = more[k] /\ d[k] = more[k - 1]
      BY <3>1, <1>1
    <3> HIDE DEF k
    <3>3. more[k].start = End(more[k - 1])
      BY <3>1 DEF Covers
    <3>. QED
      BY <3>1, <3>2, <3>3 DEF k
  <2>. QED
    BY <2>1, <2>2, <2>3, <1>1
<1>4. b = End(d[n + 1])
  <2>1. CASE n = 0
    BY <2>1, <1>1, <1>2 DEF Covers
  <2>2. CASE n # 0
    <3>1. n + 1 \in 2 .. n + 1 /\ (n + 1) - 1 = n
      BY <2>2, <1>1
    <3>2. b = End(more[n])
      BY <2>2 DEF Covers
    <3>. QED
      BY <3>1, <3>2, <1>1
  <2>. QED
    BY <2>1, <2>2
<1>5. Covers(d, seg.start, b)
  BY <1>1, <1>3, <1>4 DEF Covers
<1>. QED
  BY <1>1, <1>5 DEF d

\* Segments that differ only from key u on are the same before it.
LEMMA SameBefore ==
  ASSUME NEW x \in Seq(Segs), NEW y \in Seq(Segs), NEW j \in 0 .. Len(x), j <= Len(y), NEW u \in Int,
         \A i \in 1 .. j : x[i] = y[i],
         \A i \in j + 1 .. Len(x) : x[i].start >= u,
         \A i \in j + 1 .. Len(y) : y[i].start >= u
  PROVE  Before(x, u) = Before(y, u)
<1>1. /\ DOMAIN x = 1 .. Len(x) /\ Len(x) \in Nat /\ DOMAIN y = 1 .. Len(y) /\ Len(y) \in Nat
      /\ \A i \in 1 .. Len(x) : x[i].start \in Nat
      /\ \A i \in 1 .. Len(y) : y[i].start \in Nat
  BY SegFacts
<1>2. ASSUME NEW i \in 1 .. Len(x), x[i].start < u PROVE i \in 1 .. j
  <2>1. i \in 1 .. j \/ i \in j + 1 .. Len(x)
    BY <1>1
  <2>2. ASSUME i \in j + 1 .. Len(x) PROVE FALSE
    <3>1. x[i].start >= u /\ x[i].start \in Nat
      BY <2>2, <1>1
    <3>. QED
      BY <3>1, <1>2
  <2>. QED
    BY <2>1, <2>2
<1>3. ASSUME NEW i \in 1 .. Len(y), y[i].start < u PROVE i \in 1 .. j
  <2>1. i \in 1 .. j \/ i \in j + 1 .. Len(y)
    BY <1>1
  <2>2. ASSUME i \in j + 1 .. Len(y) PROVE FALSE
    <3>1. y[i].start >= u /\ y[i].start \in Nat
      BY <2>2, <1>1
    <3>. QED
      BY <3>1, <1>3
  <2>. QED
    BY <2>1, <2>2
<1>4. \A i \in 1 .. j : i \in 1 .. Len(x) /\ i \in 1 .. Len(y)
  BY <1>1
<1>5. \A i \in 1 .. Len(x) : x[i].start < u => \E k \in 1 .. Len(y) : y[k] = x[i] /\ y[k].start < u
  BY <1>2, <1>4
<1>6. \A i \in 1 .. Len(y) : y[i].start < u => \E k \in 1 .. Len(x) : x[k] = y[i] /\ x[k].start < u
  BY <1>3, <1>4
<1>. QED
  BY <1>1, <1>5, <1>6 DEF Before, Range

\* What is the same before a key is the same before an earlier one.
LEMMA SameEarlier ==
  ASSUME NEW x, NEW y, NEW u \in Int, NEW v \in Int, v <= u, Before(x, u) = Before(y, u),
         x \in Seq(Segs), y \in Seq(Segs)
  PROVE  Before(x, v) = Before(y, v)
<1>1. ASSUME NEW z \in Seq(Segs), NEW s \in Range(z) PROVE s.start \in Nat
  <2>1. \A i \in DOMAIN z : z[i] \in Segs
    OBVIOUS
  <2>2. s \in Segs
    BY <2>1 DEF Range
  <2>. QED
    BY <2>2, SegFacts
<1>2. ASSUME NEW z \in Seq(Segs) PROVE Before(z, v) = {s \in Before(z, u) : s.start < v}
  <2>1. \A s \in Range(z) : s.start \in Nat
    BY <1>1
  <2>2. \A s \in Range(z) : s.start < v => s.start < u
    BY <2>1
  <2>. QED
    BY <2>2 DEF Before
<1>. QED
  BY <1>2

-----------------------------------------------------------------------------
(* Room for a syllable.                                                    *)

Rooms == [gone : Nat, isum : Nat, lsum : Nat, stuck : BOOLEAN, segs : Seq(Segs)]

\* After k turns: the gone segments and the key have isum keys, the new ones
\* cover the last lsum.
RoomAfter(c, s, p, k) ==
  LET n == Len(p)
      m == Len(s.segs)
  IN /\ c \in Rooms
     /\ ~c.stuck => /\ c.gone \in 1 .. m /\ c.isum = n - EndOf(s.segs, m - c.gone)
                    /\ c.lsum \in 1 .. n /\ Covers(c.segs, n - c.lsum, n)
                    /\ c.isum # c.lsum => c.isum + c.lsum >= k + 2

\* What a room is.
LEMMA RoomFacts ==
  ASSUME NEW c \in Rooms
  PROVE  c.gone \in Nat /\ c.isum \in Nat /\ c.lsum \in Nat /\ c.stuck \in BOOLEAN /\ c.segs \in Seq(Segs)
BY DEF Rooms

\* A segment more is given up.
LEMMA RoomsWith ==
  ASSUME NEW x \in Rooms, NEW a \in Nat
  PROVE  LET y == [x EXCEPT !.gone = @ + 1, !.isum = @ + a]
         IN /\ y \in Rooms /\ y.gone = x.gone + 1 /\ y.isum = x.isum + a
            /\ y.lsum = x.lsum /\ y.stuck = x.stuck /\ y.segs = x.segs
<1> DEFINE z == [x EXCEPT !.gone = @ + 1]
           y == [z EXCEPT !.isum = x.isum + a]
<1>a. x.gone + 1 \in Nat /\ x.isum + a \in Nat
  BY RoomFacts
<1>1. /\ z \in Rooms /\ z.gone = x.gone + 1 /\ z.isum = x.isum
      /\ z.lsum = x.lsum /\ z.stuck = x.stuck /\ z.segs = x.segs
  BY <1>a DEF Rooms
<1> HIDE DEF z
<1>2. /\ y \in Rooms /\ y.gone = z.gone /\ y.isum = x.isum + a
      /\ y.lsum = z.lsum /\ y.stuck = z.stuck /\ y.segs = z.segs
  BY <1>a, <1>1 DEF Rooms
<1>. QED
  BY <1>1, <1>2 DEF z

\* A new one is made.
LEMMA RoomsWithSegs ==
  ASSUME NEW x \in Rooms, NEW a \in Nat, NEW seg, <<seg>> \o x.segs \in Seq(Segs)
  PROVE  LET y == [x EXCEPT !.lsum = @ + a, !.segs = <<seg>> \o @]
         IN /\ y \in Rooms /\ y.gone = x.gone /\ y.isum = x.isum
            /\ y.lsum = x.lsum + a /\ y.stuck = x.stuck /\ y.segs = <<seg>> \o x.segs
<1> DEFINE w == <<seg>> \o x.segs
           z == [x EXCEPT !.lsum = @ + a]
           y == [z EXCEPT !.segs = w]
<1>a. x.lsum + a \in Nat /\ w \in Seq(Segs)
  BY RoomFacts
<1> HIDE DEF w
<1>1. z \in Rooms /\ z.gone = x.gone /\ z.isum = x.isum /\ z.lsum = x.lsum + a /\ z.stuck = x.stuck
  BY <1>a DEF Rooms
<1> HIDE DEF z
<1>2. y \in Rooms /\ y.gone = z.gone /\ y.isum = z.isum /\ y.lsum = z.lsum /\ y.stuck = z.stuck /\ y.segs = w
  BY <1>a, <1>1 DEF Rooms
<1>. QED
  BY <1>1, <1>2 DEF z, w

\* One turn.
LEMMA MoreRoomKeeps ==
  ASSUME NEW s, IsSegmentor(s), NEW p \in Seq(PyKey), Len(p) > 0, Tiles(s.segs, Len(p) - 1),
         NEW c, NEW k \in Nat, RoomAfter(c, s, p, k)
  PROVE  RoomAfter(MoreRoom(s, p, c), s, p, k + 1)
<1> DEFINE n == Len(p)
           m == Len(s.segs)
           left == n - c.lsum
           l == match_longest(SubSeq(p, 1, left))
           keys == Keys(SubSeq(p, left - l + 1, left))
           wider == [c EXCEPT !.gone = @ + 1, !.isum = @ + s.segs[m - c.gone].len]
           seg == PySegment(left - l, l, Encoded(keys))
           more == [c EXCEPT !.lsum = @ + l, !.segs = <<seg>> \o @]
           next == MoreRoom(s, p, c)
<1>1. n \in Nat /\ m \in Nat /\ s.segs \in Seq(Segs) /\ n > 0
  BY DEF IsSegmentor
<1>2. c \in Rooms
  BY DEF RoomAfter
<1>3. next = IF c.isum = c.lsum \/ c.stuck THEN c
             ELSE IF c.isum < c.lsum THEN wider
             ELSE IF l = 0 THEN [c EXCEPT !.stuck = TRUE] ELSE more
  BY DEF MoreRoom
<1>4. CASE c.stuck
  <2>1. next = c
    BY <1>3, <1>4
  <2>. QED
    BY <2>1, <1>2, <1>4 DEF RoomAfter
<1>5. CASE ~c.stuck
  <2>1. /\ c.gone \in 1 .. m /\ c.isum = n - EndOf(s.segs, m - c.gone)
        /\ c.lsum \in 1 .. n /\ Covers(c.segs, n - c.lsum, n)
        /\ c.isum # c.lsum => c.isum + c.lsum >= k + 2
    BY <1>5 DEF RoomAfter
  <2>2. CASE c.isum = c.lsum
    <3>1. next = c
      BY <1>3, <2>2
    <3>. QED
      BY <3>1, <1>2, <2>1, <2>2 DEF RoomAfter
  <2>3. CASE c.isum < c.lsum
    <3>1. next = wider
      BY <1>2, <1>3, <2>3, <1>5, RoomFacts
    <3> DEFINE g == c.gone
               i == m - g
    <3>2. g \in 1 .. m /\ i \in 0 .. m /\ EndOf(s.segs, i) \in Nat
      <4>1. i \in 0 .. m
        BY <1>1, <2>1
      <4>. QED
        BY <4>1, <2>1, <1>1, Ends
    <3>3. i # 0
      <4>1. ASSUME i = 0 PROVE FALSE
        <5>1. c.isum = n
          BY <4>1, <2>1, <1>1 DEF EndOf
        <5>. QED
          BY <5>1, <2>1, <2>3, <1>1
      <4>. QED
        BY <4>1
    <3>4. /\ i \in 1 .. m /\ i - 1 \in 0 .. m /\ i > 0
      BY <1>1, <3>2, <3>3
    <3>5. /\ s.segs[i].start = EndOf(s.segs, i - 1) /\ s.segs[i].len \in Nat \ {0}
          /\ EndOf(s.segs, i) = s.segs[i].start + s.segs[i].len /\ EndOf(s.segs, i - 1) \in Nat
      BY <1>1, <3>2, <3>4, Ends DEF Tiles
    <3>6. /\ wider \in Rooms /\ wider.gone = g + 1 /\ wider.isum = c.isum + s.segs[i].len
          /\ wider.lsum = c.lsum /\ wider.stuck = c.stuck /\ wider.segs = c.segs
      <4>1. s.segs[i].len \in Nat
        BY <3>5
      <4>. QED
        BY <4>1, <1>2, RoomsWith
    <3>7. g + 1 \in 1 .. m /\ m - (g + 1) = i - 1
      BY <1>1, <3>2, <3>4
    <3>8. /\ EndOf(s.segs, i) \in Nat /\ EndOf(s.segs, i - 1) \in Nat
          /\ EndOf(s.segs, i) = EndOf(s.segs, i - 1) + s.segs[i].len /\ s.segs[i].len > 0
          /\ s.segs[i].len \in Nat /\ c.isum = n - EndOf(s.segs, i) /\ c.isum \in Nat /\ c.lsum \in Nat
          /\ c.isum + c.lsum >= k + 2
      <4>1. c.isum \in Nat /\ c.lsum \in Nat
        BY <1>2, RoomFacts
      <4>2. c.isum # c.lsum
        BY <4>1, <2>3
      <4>3. c.isum = n - EndOf(s.segs, i) /\ c.isum + c.lsum >= k + 2
        BY <4>2, <2>1
      <4> HIDE DEF i, m, n
      <4>. QED
        BY <3>2, <3>5, <4>1, <4>3
    <3> HIDE DEF wider, i, g
    <3>9. wider.isum = n - EndOf(s.segs, i - 1) /\ wider.isum + wider.lsum >= k + 1 + 2
      <4> DEFINE e == EndOf(s.segs, i - 1)
                 d == s.segs[i].len
                 a == c.isum
                 b == c.lsum
      <4>1. /\ e \in Nat /\ d \in Nat /\ d > 0 /\ a \in Nat /\ b \in Nat
            /\ a = n - (e + d) /\ a + b >= k + 2 /\ wider.isum = a + d /\ wider.lsum = b
        BY <3>6, <3>8
      <4> HIDE DEF e, d, a, b
      <4>. QED
        <5>1. wider.isum = n - e /\ wider.isum + wider.lsum >= k + 1 + 2
          BY <4>1, <1>1
        <5>. QED
          BY <5>1 DEF e
    <3>. QED
      BY <3>1, <3>6, <3>7, <3>9, <2>1 DEF RoomAfter
  <2>4. CASE c.isum > c.lsum
    <3>1. /\ c.lsum \in Nat /\ c.isum \in Nat /\ c.isum <= n /\ left \in 1 .. n
      <4>1. EndOf(s.segs, m - c.gone) \in Nat
        <5>1. m - c.gone \in 0 .. m
          BY <1>1, <2>1
        <5>. QED
          BY <5>1, <1>1, Ends
      <4>2. c.lsum \in Nat /\ c.isum \in Nat
        BY <1>2, RoomFacts
      <4>. QED
        BY <4>1, <4>2, <2>1, <2>4, <1>1
    <3>2. Len(SubSeq(p, 1, left)) = left /\ l \in 0 .. left
      <4>1. 1 \in 1 .. n + 1 /\ left \in 0 .. n
        BY <3>1, <1>1
      <4>2. Len(SubSeq(p, 1, left)) = left
        BY <4>1, <1>1, <3>1, SubSeqProperties
      <4>a. Len(SubSeq(p, 1, left)) \in Nat
        BY <4>2, <3>1
      <4> HIDE DEF left
      <4>3. l \in 0 .. Len(SubSeq(p, 1, left))
        BY <4>a, LongestFits
      <4>. QED
        BY <4>2, <4>3
    <3>3. CASE l = 0
      <4>1. next = [c EXCEPT !.stuck = TRUE]
        BY <1>3, <1>5, <2>4, <3>1, <3>3
      <4>2. [c EXCEPT !.stuck = TRUE] \in Rooms /\ [c EXCEPT !.stuck = TRUE].stuck = TRUE
        BY <1>2 DEF Rooms
      <4>. QED
        BY <4>1, <4>2 DEF RoomAfter
    <3>4. CASE l # 0
      <4>1. next = more
        BY <1>3, <1>5, <2>4, <3>1, <3>4
      <4>2. left - l \in Nat /\ l \in Nat \ {0} /\ left - l + l = left
        BY <3>1, <3>2, <3>4, <1>1
      <4>3. seg \in Segs /\ seg.start = left - l /\ seg.len = l
        <5> HIDE DEF left, l, keys
        <5>. QED
          BY <4>2, PySegmentIs
      <4> HIDE DEF seg
      <4>4. /\ more \in Rooms /\ more.gone = c.gone /\ more.isum = c.isum
            /\ more.lsum = c.lsum + l /\ more.stuck = c.stuck /\ more.segs = <<seg>> \o c.segs
        <5>1. <<seg>> \o c.segs \in Seq(Segs) /\ l \in Nat
          BY <4>2, <4>3, <1>2, RoomFacts
        <5> HIDE DEF l
        <5>. QED
          BY <5>1, <1>2, RoomsWithSegs
      <4>5. Covers(more.segs, n - more.lsum, n)
        <5>1. n - more.lsum = left - l /\ seg.start + seg.len = n - c.lsum
          BY <4>2, <4>3, <4>4, <3>1, <1>1
        <5>2. Covers(c.segs, seg.start + seg.len, n) /\ c.segs \in Seq(Segs)
          BY <5>1, <2>1, <1>2, RoomFacts
        <5>3. Covers(<<seg>> \o c.segs, seg.start, n)
          BY <5>2, <4>3, CoverMore
        <5>. QED
          BY <5>1, <5>3, <4>3, <4>4
      <4>6. more.lsum \in 1 .. n /\ more.isum + more.lsum >= k + 1 + 2
        <5>1. c.isum + c.lsum >= k + 2 /\ c.lsum \in 1 .. n
          BY <3>1, <2>1, <2>4
        <5>2. c.lsum + l <= n
          BY <3>1, <3>2, <1>1
        <5> DEFINE a == c.isum
                   b == c.lsum
        <5>3. /\ a \in Nat /\ b \in Nat /\ l \in Nat /\ l > 0 /\ a + b >= k + 2 /\ b \in 1 .. n /\ b + l <= n
              /\ more.lsum = b + l /\ more.isum = a
          BY <5>1, <5>2, <4>2, <4>4, <3>1
        <5> HIDE DEF more, l, a, b
        <5>. QED
          BY <5>3, <1>1
      <4> HIDE DEF more
      <4>. QED
        BY <4>1, <4>4, <4>5, <4>6, <2>1 DEF RoomAfter
    <3>. QED
      BY <3>3, <3>4
  <2>. QED
    BY <2>2, <2>3, <2>4, <2>1, <1>2, RoomFacts
<1>. QED
  BY <1>4, <1>5, <1>2, RoomFacts

\* f is the course of the loop.
IsRoomCourse(f, s, p, start, n) ==
  f = [k \in 0 .. n |-> IF k = 0 THEN start ELSE MoreRoom(s, p, f[k - 1])]

\* There is such a function.
LEMMA RoomCourseExists ==
  ASSUME NEW s, NEW p, NEW start, NEW n \in Nat
  PROVE  \E f : IsRoomCourse(f, s, p, start, n)
<1> DEFINE S == {m \in Nat : \E f : IsRoomCourse(f, s, p, start, m)}
<1>1. 0 \in S
  <2>1. IsRoomCourse([k \in 0 .. 0 |-> start], s, p, start, 0)
    BY DEF IsRoomCourse
  <2>. QED
    BY <2>1
<1>2. ASSUME NEW m \in S
      PROVE  m + 1 \in S
  <2>1. PICK f : IsRoomCourse(f, s, p, start, m)
    OBVIOUS
  <2> DEFINE g == [i \in 0 .. m + 1 |-> IF i = m + 1 THEN MoreRoom(s, p, f[m]) ELSE f[i]]
  <2>2. ASSUME NEW i \in 0 .. m + 1
        PROVE  g[i] = IF i = 0 THEN start ELSE MoreRoom(s, p, g[i - 1])
    <3>1. CASE i = 0
      BY <3>1, <2>1 DEF IsRoomCourse
    <3>2. CASE i = m + 1
      BY <3>2
    <3>3. CASE i \in 1 .. m
      <4>1. g[i] = f[i] /\ g[i - 1] = f[i - 1]
        BY <3>3
      <4>. QED
        BY <4>1, <3>3, <2>1 DEF IsRoomCourse
    <3>. QED
      BY <3>1, <3>2, <3>3
  <2>3. IsRoomCourse(g, s, p, start, m + 1)
    BY <2>2 DEF IsRoomCourse
  <2> HIDE DEF g
  <2>. QED
    BY <2>3
<1>3. S \in SUBSET Nat
  OBVIOUS
<1> HIDE DEF S
<1>4. n \in S
  BY <1>1, <1>2, <1>3, NumbersFromZero
<1>. QED
  BY <1>4 DEF S

\* The loop comes to an end or gets stuck, and the new segments take the
\* place of those that are gone.
LEMMA RoomMade ==
  ASSUME NEW s, IsSegmentor(s), NEW p \in Seq(PyKey), Tiles(s.segs, Len(p) - 1), s.segs # << >>,
         NEW l \in 1 .. Len(p)
  PROVE  LET r == MakeRoom(s, p, l)
             n == Len(p)
             m == Len(s.segs)
         IN /\ r \in Rooms
            /\ ~r.stuck => /\ r.gone \in 1 .. m /\ r.lsum \in 1 .. n /\ Covers(r.segs, n - r.lsum, n)
                           /\ EndOf(s.segs, m - r.gone) = n - r.lsum
<1> DEFINE n == Len(p)
           m == Len(s.segs)
           seg == PySegment(n - l, l, Encoded(Keys(Ending(p, l))))
           start == [gone |-> 1, isum |-> Last(s.segs).len + 1, lsum |-> l, stuck |-> FALSE, segs |-> <<seg>>]
           r == MakeRoom(s, p, l)
<1>1. n \in Nat /\ l \in Nat /\ n > 0 /\ 2 * n \in Nat
  OBVIOUS
<1>2. m \in Nat /\ s.segs \in Seq(Segs) /\ m > 0
  BY DEF IsSegmentor
<1>3. /\ s.segs[m] \in Segs /\ s.segs[m].start \in Nat /\ s.segs[m].len \in Nat \ {0}
      /\ n - 1 = s.segs[m].start + s.segs[m].len /\ s.segs[m].start = EndOf(s.segs, m - 1)
  <2>1. m \in 0 .. m /\ m \in 1 .. m
    BY <1>2
  <2>. QED
    BY <2>1, <1>2, Ends DEF Tiles
<1>4. seg \in Segs /\ seg.start = n - l /\ seg.len = l
  <2>1. n - l \in Nat /\ l \in Nat \ {0}
    BY <1>1
  <2>. QED
    BY <2>1, PySegmentIs
<1>5. RoomAfter(start, s, p, 0)
  <2>1. <<seg>> \in Seq(Segs) /\ Len(<<seg>>) = 1 /\ <<seg>>[1] = seg
    BY <1>4
  <2>2. Covers(<<seg>>, n - l, n)
    <3> DEFINE x == <<seg>>
    <3>1. Len(x) = 1 /\ x[1] = seg /\ End(seg) = n
      BY <2>1, <1>4, <1>1 DEF End
    <3> HIDE DEF x, seg
    <3>2. \A j \in 1 .. Len(x) : j = 1
      BY <3>1
    <3>3. Covers(x, n - l, n)
      BY <3>1, <3>2, <1>4 DEF Covers
    <3>. QED
      BY <3>3 DEF x
  <2> HIDE DEF seg
  <2>3. Last(s.segs).len + 1 = n - EndOf(s.segs, m - 1) /\ Last(s.segs).len + 1 \in Nat
        /\ Last(s.segs).len + 1 + l >= 0 + 2
    <3> DEFINE a == s.segs[m].len
               b == s.segs[m].start
    <3>1. a \in Nat /\ a > 0 /\ b \in Nat /\ n - 1 = b + a /\ b = EndOf(s.segs, m - 1) /\ l \in 1 .. n
      BY <1>3
    <3>2. Last(s.segs).len = a
      BY DEF Last
    <3> HIDE DEF a, b, n, m
    <3>3. a + 1 = n - b /\ a + 1 \in Nat /\ a + 1 + l >= 0 + 2
      BY <3>1, <1>1
    <3>. QED
      BY <3>1, <3>2, <3>3
  <2>4. start \in Rooms
    BY <2>1, <2>3, <1>1 DEF Rooms
  <2>5. /\ start.gone = 1 /\ start.isum = Last(s.segs).len + 1 /\ start.lsum = l /\ start.stuck = FALSE
        /\ start.segs = <<seg>>
    OBVIOUS
  <2> HIDE DEF start
  <2>6. start.gone \in 1 .. m
    BY <2>5, <1>2
  <2>. QED
    BY <2>2, <2>3, <2>4, <2>5, <2>6 DEF RoomAfter
<1> HIDE DEF seg, start
<1>6. IsRoomCourse(CHOOSE f : IsRoomCourse(f, s, p, start, 2 * n), s, p, start, 2 * n)
  BY <1>1, RoomCourseExists
<1>7. r = (CHOOSE f : IsRoomCourse(f, s, p, start, 2 * n))[2 * n]
  BY DEF MakeRoom, IsRoomCourse, start, seg
<1>8. PICK f : IsRoomCourse(f, s, p, start, 2 * n) /\ r = f[2 * n]
  BY <1>6, <1>7
<1> HIDE DEF r
<1>9. RoomAfter(f[2 * n], s, p, 2 * n)
  <2> DEFINE P == {k \in 0 .. 2 * n : RoomAfter(f[k], s, p, k)}
  <2>1. f[0] = start
    BY <1>1, <1>8 DEF IsRoomCourse
  <2>2. 0 \in P
    BY <2>1, <1>1, <1>5
  <2>3. ASSUME NEW k \in 1 .. 2 * n, k - 1 \in P
        PROVE  k \in P
    <3>1. f[k] = MoreRoom(s, p, f[k - 1])
      BY <1>1, <1>8 DEF IsRoomCourse
    <3>2. k - 1 \in Nat /\ (k - 1) + 1 = k /\ RoomAfter(f[k - 1], s, p, k - 1)
      BY <2>3
    <3>3. RoomAfter(MoreRoom(s, p, f[k - 1]), s, p, (k - 1) + 1)
      BY <3>2, <1>1, MoreRoomKeeps
    <3>. QED
      BY <3>1, <3>2, <3>3
  <2> HIDE DEF P
  <2>4. 0 .. 2 * n \subseteq P
    BY <1>1, <2>2, <2>3, Stays
  <2>. QED
    BY <2>4, <1>1 DEF P
<1>10. RoomAfter(r, s, p, 2 * n) /\ r \in Rooms
  BY <1>8, <1>9 DEF RoomAfter
<1>11. ASSUME ~r.stuck
       PROVE  /\ r.gone \in 1 .. m /\ r.lsum \in 1 .. n /\ Covers(r.segs, n - r.lsum, n)
              /\ EndOf(s.segs, m - r.gone) = n - r.lsum
  <2>1. /\ r.gone \in 1 .. m /\ r.isum = n - EndOf(s.segs, m - r.gone)
        /\ r.lsum \in 1 .. n /\ Covers(r.segs, n - r.lsum, n)
        /\ r.isum # r.lsum => r.isum + r.lsum >= 2 * n + 2
    BY <1>10, <1>11 DEF RoomAfter
  <2>2. EndOf(s.segs, m - r.gone) \in Nat
    <3>1. m - r.gone \in 0 .. m
      BY <2>1, <1>2
    <3>. QED
      BY <3>1, <1>2, Ends
  <2>3. r.isum \in Nat /\ r.lsum \in Nat
    BY <1>10, RoomFacts
  <2> DEFINE e == EndOf(s.segs, m - r.gone)
             a == r.isum
             b == r.lsum
  <2>4. e \in Nat /\ a \in Nat /\ b \in Nat /\ a = n - e /\ b <= n /\ (a # b => a + b >= 2 * n + 2)
    BY <2>1, <2>2, <2>3
  <2> HIDE DEF e, a, b
  <2>5. e = n - b
    BY <2>4, <1>1
  <2>. QED
    BY <2>1, <2>5 DEF e, b
<1>. QED
  BY <1>10, <1>11 DEF r

\* No segment of a covering starts before it.
LEMMA CoversStart ==
  ASSUME NEW segs \in Seq(Segs), NEW a \in Nat, NEW b, Covers(segs, a, b)
  PROVE  \A j \in 1 .. Len(segs) : segs[j].start >= a
<1> DEFINE m == Len(segs)
           P == {j \in 0 .. m : j > 0 => segs[j].start >= a}
<1>1. m \in Nat /\ 0 \in P
  OBVIOUS
<1>2. ASSUME NEW j \in 1 .. m, j - 1 \in P
      PROVE  j \in P
  <2>1. CASE j = 1
    <3>1. segs[1].start = a
      BY <2>1 DEF Covers
    <3>. QED
      BY <3>1, <2>1
  <2>2. CASE j # 1
    <3>1. j - 1 \in 1 .. m /\ segs[j].start = End(segs[j - 1])
      BY <2>2, <1>1 DEF Covers
    <3>2. segs[j - 1] \in Segs
      BY <3>1
    <3>3. segs[j - 1].start \in Nat /\ segs[j - 1].len \in Nat /\ End(segs[j - 1]) = segs[j - 1].start + segs[j - 1].len
      BY <3>2, SegFacts
    <3>4. segs[j - 1].start >= a
      BY <3>1, <1>2
    <3>. QED
      BY <3>1, <3>3, <3>4
  <2>. QED
    BY <2>1, <2>2
<1> HIDE DEF P
<1>3. 0 .. m \subseteq P
  BY <1>1, <1>2, Stays
<1>4. \A j \in 1 .. m : j \in 0 .. m /\ j > 0
  BY <1>1
<1>. QED
  BY <1>3, <1>4 DEF P

\* No segment of a tiling starts before the end of an earlier one.
LEMMA TileStart ==
  ASSUME NEW segs \in Seq(Segs), NEW n, Tiles(segs, n), NEW j \in 0 .. Len(segs)
  PROVE  \A i \in j + 1 .. Len(segs) : segs[i].start >= EndOf(segs, j)
<1> SUFFICES ASSUME NEW i \in j + 1 .. Len(segs)
             PROVE  segs[i].start >= EndOf(segs, j)
  OBVIOUS
<1>1. i - 1 \in 0 .. Len(segs) /\ i \in 1 .. Len(segs) /\ (j = i - 1 \/ j < i - 1)
  OBVIOUS
<1>2. segs[i].start = EndOf(segs, i - 1) /\ EndOf(segs, i - 1) \in Nat /\ EndOf(segs, j) \in Nat
  BY <1>1, Ends DEF Tiles
<1>3. j < i - 1 => EndOf(segs, j) < EndOf(segs, i - 1)
  BY <1>1, TiledKeys
<1>. QED
  BY <1>1, <1>2, <1>3

-----------------------------------------------------------------------------
(* A key is pushed.                                                        *)

\* q is what the segmentor s becomes by a key.
PushOf(class, s, q, ch) ==
  /\ IsSegmentor(q) /\ q.buf = s.buf
  /\ s.stuck => q.stuck
  /\ class = "hunpin" => ~q.stuck
  /\ ~q.stuck => Whole(class, q) /\ Keys(q.pystr) = Append(Keys(s.pystr), ch)
  /\ class # "shuangpin" /\ ~q.stuck
       => q.updatedFrom <= Len(s.pystr) /\ Before(s.segs, q.updatedFrom) = Before(q.segs, q.updatedFrom)

\* The segmentor with its letters, segments and updatedFrom set.
SetTo(s, p, segs, u) == [s EXCEPT !.pystr = p, !.segs = segs, !.updatedFrom = u]

\* It is a segmentor.
LEMMA SetSegmentor ==
  ASSUME NEW s, IsSegmentor(s), NEW p \in Seq(PyKey), NEW segs \in Seq(Segs), NEW u \in Nat
  PROVE  LET q == SetTo(s, p, segs, u)
         IN /\ IsSegmentor(q) /\ q.buf = s.buf /\ q.stuck = s.stuck
            /\ q.pystr = p /\ q.segs = segs /\ q.updatedFrom = u
BY DEF IsSegmentor, Fields, SetTo

\* See Added.
LEMMA AddedTiles ==
  ASSUME NEW s, Whole("quanpin", s), NEW p \in Seq(PyKey), NEW ch,
         Len(p) = Len(s.pystr) + 1, Keys(p) = Append(Keys(s.pystr), ch),
         NEW seg \in Segs, seg.start = Len(p) - 1, seg.len = 1
  PROVE  PushOf("quanpin", s, Added(s, p, seg), ch)
<1> DEFINE n == Len(p)
           m == Len(s.segs)
           x == Append(s.segs, seg)
           u == n - 1
           q == SetTo(s, p, x, u)
<1>1. /\ IsSegmentor(s) /\ s.segs \in Seq(Segs) /\ m \in Nat /\ n \in Nat /\ n - 1 \in Nat
      /\ Tiles(s.segs, n - 1) /\ ~s.stuck /\ n - 1 = Len(s.pystr)
  BY DEF Whole, IsSegmentor
<1>2. /\ x \in Seq(Segs) /\ Len(x) = m + 1 /\ x[m + 1] = seg /\ \A i \in 1 .. m : x[i] = s.segs[i]
      /\ Tiles(x, n)
  <2>1. n - 1 + seg.len = n
    BY <1>1
  <2>. QED
    BY <2>1, <1>1, NextTile
<1>3. Added(s, p, seg) = q
  BY DEF Added, SetTo
<1>a. u \in Nat /\ u = Len(s.pystr) /\ seg.start = u
  BY <1>1
<1> HIDE DEF x, u
<1>4. IsSegmentor(q) /\ q.buf = s.buf /\ q.stuck = s.stuck /\ q.pystr = p /\ q.segs = x /\ q.updatedFrom = u
  <2>1. IsSegmentor(s) /\ x \in Seq(Segs) /\ u \in Nat
    BY <1>1, <1>2, <1>a
  <2>. QED
    BY <2>1, SetSegmentor
<1> HIDE DEF q
<1>5. Before(s.segs, u) = Before(x, u)
  <2>1. ASSUME NEW i \in m + 1 .. Len(x) PROVE x[i].start >= u
    <3>1. i = m + 1
      BY <1>1, <1>2
    <3>. QED
      BY <3>1, <1>2, <1>a
  <2>2. m \in 0 .. m /\ m <= Len(x) /\ u \in Int
    BY <1>1, <1>2, <1>a
  <2>3. \A i \in m + 1 .. m : FALSE
    BY <1>1
  <2> HIDE DEF m
  <2>. QED
    BY <2>1, <2>2, <2>3, <1>1, <1>2, SameBefore DEF m
<1>. QED
  BY <1>1, <1>2, <1>3, <1>4, <1>5, <1>a DEF PushOf, Whole

\* See Extended.
LEMMA ExtendedTiles ==
  ASSUME NEW s, Whole("quanpin", s), NEW p \in Seq(PyKey), NEW ch,
         Len(p) = Len(s.pystr) + 1, Keys(p) = Append(Keys(s.pystr), ch), s.segs # << >>
  PROVE  PushOf("quanpin", s, Extended(s, p, Last(s.segs).len + 1), ch)
<1> DEFINE n == Len(p)
           m == Len(s.segs)
           l == Last(s.segs).len + 1
           old == s.segs[m]
           seg == Longer(old, Encoded(Keys(Ending(p, l))))
           x == [s.segs EXCEPT ![m] = seg]
           u == n - l
           q == SetTo(s, p, x, u)
<1>1. /\ IsSegmentor(s) /\ s.segs \in Seq(Segs) /\ m \in Nat /\ m > 0 /\ n \in Nat
      /\ Tiles(s.segs, n - 1) /\ ~s.stuck /\ n - 1 = Len(s.pystr)
  BY DEF Whole, IsSegmentor
<1>2. /\ old \in Segs /\ old.start \in Nat /\ old.len \in Nat /\ old.len > 0
      /\ n - 1 = old.start + old.len /\ old.start = EndOf(s.segs, m - 1)
  <2>1. m \in 0 .. m /\ m \in 1 .. m
    BY <1>1
  <2>. QED
    BY <2>1, <1>1, Ends DEF Tiles
<1>3. n - l = old.start
  <2> DEFINE a == old.len
             b == old.start
  <2>1. a \in Nat /\ b \in Nat /\ n - 1 = b + a /\ l = a + 1
    BY <1>2 DEF Last
  <2> HIDE DEF a, b, l
  <2>2. n - l = b
    BY <2>1, <1>1
  <2>. QED
    BY <2>2 DEF b
<1>4. seg \in Segs /\ seg.start = old.start /\ seg.len = old.len + 1 /\ End(seg) = n
  <2>1. ASSUME NEW y \in Segs, NEW syls \in SUBSET Syllables
        PROVE  LET z == Longer(y, syls)
               IN z \in Segs /\ z.start = y.start /\ z.len = y.len + 1
    <3> DEFINE w == [y EXCEPT !.len = @ + 1]
               z == [w EXCEPT !.syls = syls]
    <3>1. y.len + 1 \in Nat \ {0}
      BY SegFacts
    <3>2. w \in Segs /\ w.start = y.start /\ w.len = y.len + 1
      BY <3>1 DEF Segs
    <3> HIDE DEF w
    <3>3. z \in Segs /\ z.start = w.start /\ z.len = w.len
      BY <3>2 DEF Segs
    <3>. QED
      BY <3>2, <3>3 DEF w, Longer
  <2>2. Encoded(Keys(Ending(p, l))) \in SUBSET Syllables
    BY MappedAreSyllables
  <2>3. seg \in Segs /\ seg.start = old.start /\ seg.len = old.len + 1
    <3> HIDE DEF old, l
    <3>. QED
      BY <2>1, <2>2, <1>2
  <2> DEFINE a == old.len
             b == old.start
             c == seg.start
             d == seg.len
  <2>4. a \in Nat /\ b \in Nat /\ n - 1 = b + a /\ c = b /\ d = a + 1 /\ End(seg) = c + d
    BY <2>3, <1>2 DEF End
  <2> HIDE DEF seg, old, a, b, c, d, n
  <2>5. End(seg) = n
    BY <2>4, <1>1
  <2>. QED
    BY <2>3, <2>5
<1>b. l = Last(s.segs).len + 1
  OBVIOUS
<1> HIDE DEF l
<1>5. Extended(s, p, l) = q
  BY DEF Extended, SetTo
<1> HIDE DEF seg, old
<1>6. x \in Seq(Segs) /\ Len(x) = m /\ x[m] = seg /\ \A i \in 1 .. m - 1 : x[i] = s.segs[i]
  BY <1>1, <1>4
<1> HIDE DEF x
<1>7. Tiles(x, n)
  <2>1. \A i \in 0 .. m - 1 : EndOf(x, i) = EndOf(s.segs, i)
    BY <1>1, <1>6 DEF EndOf
  <2>2. ASSUME NEW i \in 1 .. m PROVE x[i].start = EndOf(x, i - 1)
    <3>1. i - 1 \in 0 .. m - 1 /\ (i = m \/ i \in 1 .. m - 1)
      BY <1>1
    <3>2. CASE i = m
      BY <3>1, <3>2, <2>1, <1>2, <1>4, <1>6
    <3>3. CASE i \in 1 .. m - 1
      <4>1. s.segs[i].start = EndOf(s.segs, i - 1)
        BY <1>1 DEF Tiles
      <4>. QED
        BY <3>1, <3>3, <4>1, <2>1, <1>6
    <3>. QED
      BY <3>1, <3>2, <3>3
  <2>3. EndOf(x, m) = n
    BY <1>1, <1>4, <1>6 DEF EndOf
  <2>. QED
    BY <2>2, <2>3, <1>6 DEF Tiles
<1>8. n - l \in Nat /\ n - l <= n - 1
  BY <1>1, <1>2, <1>3
<1>a. u = n - l
  OBVIOUS
<1> HIDE DEF u
<1>9. IsSegmentor(q) /\ q.buf = s.buf /\ q.stuck = s.stuck /\ q.pystr = p /\ q.segs = x /\ q.updatedFrom = u
  <2>1. u \in Nat
    BY <1>8, <1>a
  <2>. QED
    BY <2>1, <1>1, <1>6, SetSegmentor
<1> HIDE DEF q
<1>10. Before(s.segs, n - l) = Before(x, n - l)
  <2>1. \A i \in m - 1 + 1 .. Len(x) : x[i].start >= n - l
    BY <1>1, <1>2, <1>3, <1>4, <1>6
  <2>2. \A i \in m - 1 + 1 .. Len(s.segs) : s.segs[i].start >= n - l
    BY <1>1, <1>2, <1>3 DEF old
  <2>3. m - 1 \in 0 .. m /\ m - 1 <= Len(x) /\ n - l \in Int
    BY <1>1, <1>6, <1>8
  <2>. QED
    BY <2>1, <2>2, <2>3, <1>1, <1>6, SameBefore
<1>. QED
  <2>1. PushOf("quanpin", s, q, ch)
    BY <1>1, <1>6, <1>7, <1>8, <1>9, <1>10, <1>a DEF PushOf, Whole
  <2>. QED
    BY <2>1, <1>5, <1>b

\* The first segments, up to where a covering begins, and the covering.
LEMMA Recovered ==
  ASSUME NEW class \in {"quanpin", "hunpin"}, NEW s, Whole(class, s),
         NEW p \in Seq(PyKey), NEW ch, Len(p) = Len(s.pystr) + 1, Keys(p) = Append(Keys(s.pystr), ch),
         NEW j \in 0 .. Len(s.segs), NEW more \in Seq(Segs), Covers(more, EndOf(s.segs, j), Len(p)),
         NEW q, q = SetTo(s, p, SubSeq(s.segs, 1, j) \o more, EndOf(s.segs, j))
  PROVE  PushOf(class, s, q, ch)
<1> DEFINE n == Len(p)
           e == EndOf(s.segs, j)
           kept == SubSeq(s.segs, 1, j)
           x == kept \o more
<1>1. /\ IsSegmentor(s) /\ s.segs \in Seq(Segs) /\ n \in Nat
      /\ Tiles(s.segs, n - 1) /\ ~s.stuck /\ n - 1 = Len(s.pystr)
  BY DEF Whole, IsSegmentor
<1>2. kept \in Seq(Segs) /\ Len(kept) = j /\ (\A i \in 1 .. j : kept[i] = s.segs[i]) /\ Tiles(kept, e)
  BY <1>1, FirstTile
<1>3. e \in Nat /\ e <= n - 1 /\ j \in Nat
  BY <1>1, Ends, TiledKeys
<1>4. \A i \in j + 1 .. Len(s.segs) : s.segs[i].start >= e
  BY <1>1, TileStart
<1>5. \A i \in 1 .. Len(more) : more[i].start >= e
  BY <1>3, CoversStart
<1> HIDE DEF kept, e
<1>6. /\ x \in Seq(Segs) /\ Len(x) = j + Len(more) /\ Tiles(x, n)
      /\ \A i \in 1 .. j : x[i] = kept[i]
      /\ \A i \in 1 .. Len(more) : x[j + i] = more[i]
  <2>1. Covers(more, e, n)
    BY DEF e
  <2>. QED
    BY <1>2, <2>1, JoinTiles
<1>a. q = SetTo(s, p, x, e)
  BY DEF kept, e
<1> HIDE DEF x, n
<1>7. IsSegmentor(q) /\ q.buf = s.buf /\ q.stuck = s.stuck /\ q.pystr = p /\ q.segs = x /\ q.updatedFrom = e
  <2>1. IsSegmentor(s) /\ x \in Seq(Segs) /\ e \in Nat
    BY <1>1, <1>3, <1>6
  <2> DEFINE y == SetTo(s, p, x, e)
  <2>2. IsSegmentor(y) /\ y.buf = s.buf /\ y.stuck = s.stuck /\ y.pystr = p /\ y.segs = x /\ y.updatedFrom = e
    BY <2>1, SetSegmentor
  <2> HIDE DEF y
  <2>. QED
    BY <2>2, <1>a DEF y
<1>8. Before(s.segs, e) = Before(x, e)
  <2>1. ASSUME NEW i \in j + 1 .. Len(x) PROVE x[i].start >= e
    <3>1. i - j \in 1 .. Len(more) /\ j + (i - j) = i
      BY <1>3, <1>6
    <3>2. x[i] = more[i - j]
      BY <3>1, <1>6
    <3>. QED
      BY <3>1, <3>2, <1>5
  <2>2. j <= Len(x) /\ e \in Int
    BY <1>3, <1>6
  <2>3. \A i \in 1 .. j : s.segs[i] = x[i]
    BY <1>2, <1>6
  <2>. QED
    BY <2>1, <2>2, <2>3, <1>1, <1>4, <1>6, SameBefore
<1>9. Len(p) = n
  BY DEF n
<1>. QED
  BY <1>1, <1>3, <1>6, <1>7, <1>8, <1>9 DEF PushOf, Whole

\* See Split: the key makes a syllable of several segments.
LEMMA SplitTiles ==
  ASSUME NEW s, Whole("quanpin", s), NEW p \in Seq(PyKey), NEW ch,
         Len(p) = Len(s.pystr) + 1, Keys(p) = Append(Keys(s.pystr), ch), s.segs # << >>,
         NEW l \in 1 .. Len(p)
  PROVE  PushOf("quanpin", s, Split(s, p, l), ch)
<1> DEFINE n == Len(p)
           m == Len(s.segs)
           marked == IF Last(s.segs).len + 1 < l THEN [p EXCEPT ![Len(p)].hi = TRUE] ELSE p
           room == MakeRoom(s, marked, l)
           q == [s EXCEPT !.pystr = marked, !.segs = SubSeq(@, 1, Len(@) - room.gone) \o room.segs,
                          !.updatedFrom = Len(p) - room.lsum]
<1>1. /\ IsSegmentor(s) /\ s.segs \in Seq(Segs) /\ n \in Nat /\ m \in Nat
      /\ Tiles(s.segs, n - 1) /\ ~s.stuck /\ n - 1 = Len(s.pystr)
  BY DEF Whole, IsSegmentor
<1>2. marked \in Seq(PyKey) /\ Len(marked) = n /\ Keys(marked) = Keys(p)
  <2>1. n \in 1 .. Len(p)
    BY <1>1
  <2>2. LET y == [p EXCEPT ![n].hi = TRUE] IN y \in Seq(PyKey) /\ Len(y) = Len(p) /\ Keys(y) = Keys(p)
    BY <2>1, KeysMarked
  <2>. QED
    BY <2>2
<1> HIDE DEF marked
<1>3. /\ room \in Rooms
      /\ ~room.stuck => /\ room.gone \in 1 .. m /\ room.lsum \in 1 .. n /\ Covers(room.segs, n - room.lsum, n)
                        /\ EndOf(s.segs, m - room.gone) = n - room.lsum
  <2>1. Tiles(s.segs, Len(marked) - 1) /\ l \in 1 .. Len(marked)
    BY <1>1, <1>2
  <2>. QED
    BY <2>1, <1>1, <1>2, RoomMade
<1>4. Split(s, p, l) = IF room.stuck THEN [s EXCEPT !.stuck = TRUE] ELSE q
  BY DEF Split, marked
<1> HIDE DEF room
<1>5. CASE room.stuck
  <2>1. IsSegmentor([s EXCEPT !.stuck = TRUE]) /\ [s EXCEPT !.stuck = TRUE].buf = s.buf
        /\ [s EXCEPT !.stuck = TRUE].stuck = TRUE
    BY <1>1 DEF IsSegmentor, Fields
  <2>2. Split(s, p, l) = [s EXCEPT !.stuck = TRUE]
    BY <1>4, <1>5
  <2> DEFINE y == [s EXCEPT !.stuck = TRUE]
  <2> HIDE DEF y
  <2>3. PushOf("quanpin", s, y, ch)
    BY <2>1 DEF PushOf, y
  <2>. QED
    BY <2>2, <2>3 DEF y
<1>6. CASE ~room.stuck
  <2> DEFINE j == m - room.gone
  <2>1. /\ j \in 0 .. m /\ room.segs \in Seq(Segs)
        /\ EndOf(s.segs, j) = n - room.lsum /\ Covers(room.segs, EndOf(s.segs, j), Len(marked))
    BY <1>1, <1>2, <1>3, <1>6, RoomFacts
  <2>2. Split(s, p, l) = q
    BY <1>4, <1>6
  <2>3. q = SetTo(s, marked, SubSeq(s.segs, 1, j) \o room.segs, n - room.lsum)
    BY DEF SetTo
  <2> HIDE DEF q, j
  <2>4. q = SetTo(s, marked, SubSeq(s.segs, 1, j) \o room.segs, EndOf(s.segs, j))
    BY <2>1, <2>3
  <2>5. Len(marked) = Len(s.pystr) + 1 /\ Keys(marked) = Append(Keys(s.pystr), ch)
    BY <1>2
  <2>6. PushOf("quanpin", s, q, ch)
    BY <2>1, <2>4, <2>5, <1>2, Recovered
  <2>. QED
    BY <2>2, <2>6
<1>. QED
  BY <1>5, <1>6

\* See QuanpinPush.
LEMMA QuanpinPushes ==
  ASSUME NEW s, IsSegmentor(s), s.stuck \/ Whole("quanpin", s), NEW ch \in Key
  PROVE  PushOf("quanpin", s, QuanpinPush(s, ch), ch)
<1> DEFINE p == Append(s.pystr, Plain(ch))
           n == Len(p)
           l == match_longest(p)
           unmarked == [p EXCEPT ![n - 1].hi = FALSE]
           reopens == n > 1 /\ p[n - 1].hi /\ match_longest(unmarked) = Last(s.segs).len + 1
           q == QuanpinPush(s, ch)
<1>1. q = IF s.stuck THEN s
          ELSE IF l = 0 THEN Added(s, p, OddSegment(s, n - 1, ch))
          ELSE IF l = 1
          THEN IF reopens THEN Extended(s, unmarked, Last(s.segs).len + 1)
               ELSE Added(s, p, PySegment(n - 1, 1, Encoded(<<ch>>)))
          ELSE IF l = Last(s.segs).len + 1 THEN Extended(s, p, l)
          ELSE Split(s, p, l)
  BY DEF QuanpinPush
<1>2. CASE s.stuck
  BY <1>1, <1>2 DEF PushOf
<1>3. CASE ~s.stuck
  <2>1. /\ Whole("quanpin", s) /\ s.pystr \in Seq(PyKey) /\ s.segs \in Seq(Segs)
        /\ Tiles(s.segs, Len(s.pystr)) /\ Len(s.pystr) \in Nat
    BY <1>3 DEF Whole, IsSegmentor
  <2>2. /\ p \in Seq(PyKey) /\ n = Len(s.pystr) + 1 /\ Keys(p) = Append(Keys(s.pystr), ch)
        /\ n \in Nat /\ n - 1 \in Nat /\ n > 0
    BY <2>1, KeysOfAppend
  <2>3. l \in 0 .. n
    BY <2>2, LongestFits
  <2>4. ASSUME n > 1 PROVE s.segs # << >>
    <3> SUFFICES ASSUME s.segs = << >> PROVE FALSE
      OBVIOUS
    <3>1. Len(s.segs) = 0
      OBVIOUS
    <3>2. Len(s.pystr) = 0
      BY <2>1, <3>1 DEF Tiles, EndOf
    <3>. QED
      BY <3>2, <2>2, <2>4
  <2> HIDE DEF p, l, q
  <2>5. CASE l = 0
    <3>1. q = Added(s, p, OddSegment(s, n - 1, ch))
      BY <1>1, <1>3, <2>5
    <3>2. OddSegment(s, n - 1, ch) \in Segs /\ OddSegment(s, n - 1, ch).start = n - 1
          /\ OddSegment(s, n - 1, ch).len = 1
      BY <2>2, OddSegmentIs
    <3>. QED
      BY <3>1, <3>2, <2>1, <2>2, AddedTiles DEF q
  <2>6. CASE l = 1 /\ reopens
    <3>1. q = Extended(s, unmarked, Last(s.segs).len + 1)
      BY <1>1, <1>3, <2>6
    <3>2. n > 1 /\ n - 1 \in 1 .. Len(p)
      BY <2>2, <2>6
    <3>3. unmarked \in Seq(PyKey) /\ Len(unmarked) = Len(p) /\ Keys(unmarked) = Keys(p)
      <4>1. LET y == [p EXCEPT ![n - 1].hi = FALSE]
            IN y \in Seq(PyKey) /\ Len(y) = Len(p) /\ Keys(y) = Keys(p)
        BY <2>2, <3>2, KeysMarked
      <4>. QED
        BY <4>1
    <3> HIDE DEF unmarked
    <3>. QED
      BY <3>1, <3>2, <3>3, <2>1, <2>2, <2>4, ExtendedTiles DEF q
  <2>7. CASE l = 1 /\ ~reopens
    <3>1. q = Added(s, p, PySegment(n - 1, 1, Encoded(<<ch>>)))
      BY <1>1, <1>3, <2>7
    <3>2. LET x == PySegment(n - 1, 1, Encoded(<<ch>>)) IN x \in Segs /\ x.start = n - 1 /\ x.len = 1
      <4>1. 1 \in Nat \ {0}
        OBVIOUS
      <4>. QED
        BY <4>1, <2>2, PySegmentIs
    <3>. QED
      BY <3>1, <3>2, <2>1, <2>2, AddedTiles DEF q
  <2>8. CASE l > 1 /\ l = Last(s.segs).len + 1
    <3>1. q = Extended(s, p, Last(s.segs).len + 1)
      BY <1>1, <1>3, <2>8, <2>3
    <3>2. s.segs # << >>
      BY <2>8, <2>3, <2>4
    <3>. QED
      BY <3>1, <3>2, <2>1, <2>2, ExtendedTiles DEF q
  <2>9. CASE l > 1 /\ l # Last(s.segs).len + 1
    <3>1. q = Split(s, p, l)
      BY <1>1, <1>3, <2>9, <2>3
    <3>2. s.segs # << >> /\ l \in 1 .. Len(p)
      BY <2>9, <2>3, <2>4
    <3>. QED
      BY <3>1, <3>2, <2>1, <2>2, SplitTiles DEF q
  <2>. QED
    BY <2>3, <2>5, <2>6, <2>7, <2>8, <2>9 DEF q
<1>. QED
  BY <1>2, <1>3

\* See AsPair.
LEMMA AsPairIs ==
  ASSUME NEW seg \in Segs, NEW start \in Nat, NEW syls \in SUBSET Syllables
  PROVE  LET x == AsPair(seg, start, syls) IN x \in Segs /\ x.start = start /\ x.len = 2
<1> DEFINE a == [seg EXCEPT !.start = start]
           b == [a EXCEPT !.len = 2]
           c == [b EXCEPT !.type = "syllable"]
           d == [c EXCEPT !.syls = syls]
<1>1. a \in Segs /\ a.start = start
  BY DEF Segs
<1> HIDE DEF a
<1>2. b \in Segs /\ b.start = a.start /\ b.len = 2
  BY <1>1 DEF Segs
<1> HIDE DEF b
<1>3. c \in Segs /\ c.start = b.start /\ c.len = b.len
  BY <1>2 DEF Segs, SegTypes
<1> HIDE DEF c
<1>4. d \in Segs /\ d.start = c.start /\ d.len = c.len
  BY <1>3 DEF Segs
<1>. QED
  BY <1>1, <1>2, <1>3, <1>4 DEF AsPair, a, b, c

\* One segment covers its keys.
LEMMA CoversOne ==
  ASSUME NEW seg \in Segs, NEW a, seg.start = a, NEW b, seg.start + seg.len = b
  PROVE  <<seg>> \in Seq(Segs) /\ Covers(<<seg>>, a, b)
<1> DEFINE x == <<seg>>
<1>1. x \in Seq(Segs) /\ Len(x) = 1 /\ x[1] = seg
  OBVIOUS
<1>2. End(seg) = b
  BY DEF End
<1> HIDE DEF x
<1>3. \A j \in 1 .. Len(x) : j = 1
  BY <1>1
<1>4. Covers(x, a, b)
  BY <1>1, <1>2, <1>3 DEF Covers
<1>. QED
  BY <1>1, <1>4 DEF x

\* The segments that are tried again are among those there are.
LEMMA SyllablesCounted ==
  ASSUME NEW segs \in Seq(Segs)
  PROVE  SyllableCount(segs) \in 0 .. Len(segs)
<1> DEFINE S == {0} \cup {k \in DOMAIN segs : End(Last(segs)) - segs[Len(segs) - k + 1].start <= MaxStringCount}
<1>1. SyllableCount(segs) = Max(S)
  BY DEF SyllableCount
<1>2. DOMAIN segs = 1 .. Len(segs) /\ Len(segs) \in Nat
  OBVIOUS
<1>3. S \in SUBSET Nat /\ 0 \in S /\ \A l \in S : l \in 0 .. Len(segs) /\ l <= Len(segs)
  BY <1>2
<1> HIDE DEF S
<1>4. Max(S) \in S
  BY <1>2, <1>3, GreatestNumber
<1>. QED
  BY <1>1, <1>3, <1>4

\* segs is what is left of those of s, and one segment behind it up to key n.
EndsWithOne(s, segs, n) ==
  \E j \in 0 .. Len(s.segs), seg \in Segs :
    /\ segs = SubSeq(s.segs, 1, j) \o <<seg>>
    /\ seg.start = EndOf(s.segs, j) /\ seg.start + seg.len = n

\* See Merged.
LEMMA MergedEnds ==
  ASSUME NEW s, Whole("hunpin", s), NEW p, Len(p) = Len(s.pystr) + 1,
         NEW index \in 1 .. Len(s.segs), NEW segs \in Merged(s, p, index)
  PROVE  EndsWithOne(s, segs, Len(p))
<1> DEFINE n == Len(p)
           m == Len(s.segs)
           i == m - index
           from == s.segs[m - index + 1].start
           pair == IF n - from = 2 THEN MappedSyllables(p[n - 1].ch, p[n].ch) ELSE {}
           old == s.segs[m]
           mapped == AsPair(old, n - 2, pair)
           seg == PySegment(from, n - from, Encoded(Keys(Ending(p, n - from))))
<1>1. /\ IsSegmentor(s) /\ s.segs \in Seq(Segs) /\ n \in Nat /\ m \in Nat /\ m > 0
      /\ Tiles(s.segs, n - 1) /\ n - 1 = Len(s.pystr) /\ index \in Nat /\ index > 0
  BY DEF Whole, IsSegmentor
<1>2. i \in 0 .. m /\ i + 1 \in 1 .. m /\ m - index + 1 = i + 1 /\ i < m /\ m \in 0 .. m
  BY <1>1
<1>3. from = EndOf(s.segs, i) /\ EndOf(s.segs, i) \in Nat
  <2>1. s.segs[i + 1].start = EndOf(s.segs, i + 1 - 1)
    BY <1>1, <1>2 DEF Tiles
  <2>2. i + 1 - 1 = i
    BY <1>2
  <2>. QED
    BY <1>1, <1>2, <2>1, <2>2, Ends
<1>4. EndOf(s.segs, m) = n - 1
  BY <1>1 DEF Tiles
<1>5. from < n - 1
  BY <1>1, <1>2, <1>3, <1>4, TiledKeys
<1>6. CASE pair # {}
  <2>1. segs = [s.segs EXCEPT ![m] = mapped]
    BY <1>6 DEF Merged
  <2>2. n - from = 2
    BY <1>6
  <2>3. i = m - 1
    <3> SUFFICES ASSUME i < m - 1 PROVE FALSE
      BY <1>1, <1>2
    <3>1. m - 1 \in 0 .. m /\ m - 1 < m
      BY <1>1
    <3>2. EndOf(s.segs, i) < EndOf(s.segs, m - 1) /\ EndOf(s.segs, m - 1) < EndOf(s.segs, m)
          /\ EndOf(s.segs, m - 1) \in Nat
      BY <3>1, <1>1, <1>2, TiledKeys, Ends
    <3> HIDE DEF i, from, m
    <3>. QED
      BY <3>2, <2>2, <1>1, <1>3, <1>4
  <2>4. pair \in SUBSET Syllables /\ n - 2 \in Nat
    <3>1. pair \in SUBSET Syllables
      <4>1. MappedSyllables(p[n - 1].ch, p[n].ch) \in SUBSET Syllables
        BY MappedAreSyllables
      <4>. QED
        BY <4>1
    <3>. QED
      BY <3>1, <1>1, <1>5, <1>3
  <2>5. old \in Segs
    BY <1>1
  <2>6. mapped \in Segs /\ mapped.start = n - 2 /\ mapped.len = 2
    BY <2>4, <2>5, AsPairIs
  <2> HIDE DEF mapped
  <2> DEFINE x == SubSeq(s.segs, 1, m - 1)
             y == x \o <<mapped>>
  <2>7. x \in Seq(Segs) /\ Len(x) = m - 1 /\ (\A k \in 1 .. m - 1 : x[k] = s.segs[k])
    BY <1>1, <1>2, <2>3, FirstTile
  <2>8. y \in Seq(Segs) /\ Len(y) = m /\ y[m] = mapped /\ \A k \in 1 .. m - 1 : y[k] = x[k]
    <3> HIDE DEF x
    <3>1. y = Append(x, mapped)
      BY <2>6, <2>7, AppendIsConcat
    <3>2. m - 1 + 1 = m
      BY <1>1
    <3>. QED
      BY <3>1, <3>2, <2>6, <2>7, AppendProperties
  <2>9. segs \in Seq(Segs) /\ Len(segs) = m /\ segs[m] = mapped /\ \A k \in 1 .. m - 1 : segs[k] = s.segs[k]
    BY <1>1, <2>1, <2>6
  <2> HIDE DEF x, y
  <2>10. segs = y
    <3>1. \A k \in 1 .. m : k = m \/ k \in 1 .. m - 1
      BY <1>1
    <3>2. \A k \in 1 .. m : segs[k] = y[k]
      BY <3>1, <2>7, <2>8, <2>9
    <3>. QED
      BY <3>2, <2>8, <2>9, SeqEqual
  <2>11. mapped.start = EndOf(s.segs, m - 1) /\ mapped.start + mapped.len = n /\ m - 1 \in 0 .. m
    <3>1. mapped.start = from
      BY <2>2, <2>6, <1>1, <1>3
    <3>2. from = EndOf(s.segs, m - 1)
      BY <2>3, <1>3
    <3>3. mapped.start + mapped.len = n
      <4> DEFINE a == mapped.start
                 b == mapped.len
      <4>1. a = n - 2 /\ b = 2
        BY <2>6
      <4> HIDE DEF a, b
      <4>. QED
        BY <4>1, <1>1 DEF a, b
    <3>. QED
      BY <3>1, <3>2, <3>3, <1>1
  <2>. QED
    BY <2>6, <2>10, <2>11 DEF EndsWithOne, x, y
<1>7. CASE pair = {}
  <2>1. segs = SubSeq(s.segs, 1, i) \o <<seg>>
    BY <1>7 DEF Merged
  <2>2. n - from \in Nat \ {0} /\ from \in Nat /\ from + (n - from) = n
    BY <1>1, <1>3, <1>5
  <2>3. seg \in Segs /\ seg.start = from /\ seg.len = n - from
    <3> HIDE DEF from
    <3>. QED
      BY <2>2, PySegmentIs
  <2> HIDE DEF seg
  <2>. QED
    BY <2>1, <2>2, <2>3, <1>2, <1>3 DEF EndsWithOne
<1>. QED
  BY <1>6, <1>7

\* See HunpinPush.
LEMMA HunpinPushes ==
  ASSUME NEW s, Whole("hunpin", s), NEW ch \in Key
  PROVE  PushOf("hunpin", s, HunpinPush(s, ch), ch)
<1> DEFINE p == Append(s.pystr, Plain(ch))
           n == Len(p)
           m == Len(s.segs)
           merges == {k \in 1 .. SyllableCount(s.segs) : Merged(s, p, k) # {}}
           single == IF match_longest(<<Plain(ch)>>) = 0 THEN OddSegment(s, n - 1, ch)
                     ELSE PySegment(n - 1, 1, Encoded(<<ch>>))
           segs == IF merges = {} THEN Append(s.segs, single)
                   ELSE CHOOSE x \in Merged(s, p, Max(merges)) : TRUE
           q == [s EXCEPT !.pystr = p, !.segs = segs, !.updatedFrom = Last(segs).start]
<1>1. /\ IsSegmentor(s) /\ s.pystr \in Seq(PyKey) /\ s.segs \in Seq(Segs) /\ m \in Nat
      /\ Tiles(s.segs, Len(s.pystr)) /\ Len(s.pystr) \in Nat /\ ~s.stuck
  BY DEF Whole, IsSegmentor
<1>2. /\ p \in Seq(PyKey) /\ n = Len(s.pystr) + 1 /\ Keys(p) = Append(Keys(s.pystr), ch)
      /\ n \in Nat /\ n - 1 \in Nat /\ n > 0
  BY <1>1, KeysOfAppend
<1>3. HunpinPush(s, ch) = q
  BY DEF HunpinPush
<1> HIDE DEF p
<1>4. EndsWithOne(s, segs, n)
  <2>1. CASE merges = {}
    <3>1. single \in Segs /\ single.start = n - 1 /\ single.len = 1
      <4>1. OddSegment(s, n - 1, ch) \in Segs /\ OddSegment(s, n - 1, ch).start = n - 1
            /\ OddSegment(s, n - 1, ch).len = 1
        BY <1>2, OddSegmentIs
      <4>2. LET x == PySegment(n - 1, 1, Encoded(<<ch>>)) IN x \in Segs /\ x.start = n - 1 /\ x.len = 1
        <5>1. 1 \in Nat \ {0}
          OBVIOUS
        <5>. QED
          BY <5>1, <1>2, PySegmentIs
      <4>. QED
        BY <4>1, <4>2
    <3>2. segs = Append(s.segs, single)
      BY <2>1
    <3> HIDE DEF single, segs
    <3>3. SubSeq(s.segs, 1, m) = s.segs
      BY <1>1
    <3>4. segs = SubSeq(s.segs, 1, m) \o <<single>>
      BY <3>1, <3>2, <3>3, <1>1, AppendIsConcat
    <3>5. EndOf(s.segs, m) = n - 1 /\ m \in 0 .. m /\ single.start + single.len = n
      BY <3>1, <1>1, <1>2 DEF Tiles
    <3>. QED
      BY <3>1, <3>4, <3>5 DEF EndsWithOne
  <2>2. CASE merges # {}
    <3>1. SyllableCount(s.segs) \in 0 .. m
      BY <1>1, SyllablesCounted
    <3>2. merges \in SUBSET Nat /\ \A k \in merges : k <= m /\ k \in 1 .. m
      BY <3>1, <1>1
    <3>3. Max(merges) \in merges
      <4> HIDE DEF merges
      <4>. QED
        BY <2>2, <3>2, <1>1, GreatestNumber
    <3>4. Max(merges) \in 1 .. m /\ Merged(s, p, Max(merges)) # {}
      BY <3>2, <3>3
    <3>5. segs = CHOOSE x \in Merged(s, p, Max(merges)) : TRUE
      BY <2>2
    <3> HIDE DEF merges, segs
    <3>6. segs \in Merged(s, p, Max(merges))
      BY <3>4, <3>5
    <3>. QED
      BY <3>4, <3>6, <1>2, MergedEnds
  <2>. QED
    BY <2>1, <2>2
<1>5. q = SetTo(s, p, segs, Last(segs).start)
  BY DEF SetTo
<1> HIDE DEF segs, q
<1>6. PICK j \in 0 .. m, seg \in Segs :
        segs = SubSeq(s.segs, 1, j) \o <<seg>> /\ seg.start = EndOf(s.segs, j) /\ seg.start + seg.len = n
  BY <1>4 DEF EndsWithOne
<1>7. Last(segs) = seg
  <2>1. SubSeq(s.segs, 1, j) \in Seq(Segs)
    BY <1>1, FirstTile
  <2> DEFINE x == SubSeq(s.segs, 1, j)
  <2>2. segs = Append(x, seg)
    BY <1>6, <2>1, AppendIsConcat
  <2> HIDE DEF x
  <2>3. Len(segs) = Len(x) + 1 /\ segs[Len(x) + 1] = seg
    BY <2>1, <2>2, AppendProperties DEF x
  <2>. QED
    BY <2>3 DEF Last
<1>8. <<seg>> \in Seq(Segs) /\ Covers(<<seg>>, EndOf(s.segs, j), n)
  BY <1>6, CoversOne
<1>9. q = SetTo(s, p, SubSeq(s.segs, 1, j) \o <<seg>>, EndOf(s.segs, j))
  BY <1>5, <1>6, <1>7
<1>10. PushOf("hunpin", s, q, ch)
  BY <1>2, <1>8, <1>9, Recovered
<1>. QED
  BY <1>3, <1>10

-----------------------------------------------------------------------------
(* A key is pushed: shuangpin.                                             *)

\* t has the input, the letters and the segments of s.
Kin(s, t) ==
  /\ IsSegmentor(t) /\ t.buf = s.buf /\ t.pystr = s.pystr /\ t.segs = s.segs /\ t.stuck = s.stuck

\* What the shuangpin segmentor counts besides changes nothing of that.
LEMMA KinCounts ==
  ASSUME NEW s, IsSegmentor(s), NEW v
  PROVE  /\ Kin(s, [s EXCEPT !.nAlpha = v]) /\ Kin(s, [s EXCEPT !.hasInvalid = v])
         /\ Kin(s, [s EXCEPT !.nLastValidPos = v]) /\ Kin(s, Accepted(s))
<1>1. /\ Kin(s, [s EXCEPT !.nAlpha = v]) /\ Kin(s, [s EXCEPT !.hasInvalid = v])
  BY DEF Kin, IsSegmentor, Fields
<1>2. \A w : Kin(s, [s EXCEPT !.nLastValidPos = w])
  BY DEF Kin, IsSegmentor, Fields
<1>3. Kin(s, Accepted(s))
  BY <1>2 DEF Accepted
<1>. QED
  BY <1>1, <1>2, <1>3

\* See Adds.
LEMMA AddsKeeps ==
  ASSUME NEW s, IsSegmentor(s), NEW seg \in Segs
  PROVE  LET t == Adds(s, seg)
         IN IsSegmentor(t) /\ t.buf = s.buf /\ t.pystr = s.pystr /\ t.stuck = s.stuck
<1> DEFINE x == Append(s.segs, seg)
           u == seg.start
<1>1. x \in Seq(Segs) /\ u \in Nat
  <2>1. s.segs \in Seq(Segs)
    BY DEF IsSegmentor
  <2>. QED
    BY <2>1, SegFacts
<1>2. Adds(s, seg) = [s EXCEPT !.segs = x, !.updatedFrom = u]
  BY DEF Adds
<1> HIDE DEF x, u
<1>3. LET t == [s EXCEPT !.segs = x, !.updatedFrom = u]
      IN IsSegmentor(t) /\ t.buf = s.buf /\ t.pystr = s.pystr /\ t.stuck = s.stuck
  BY <1>1 DEF IsSegmentor, Fields
<1>. QED
  BY <1>2, <1>3

\* See Invalid.
LEMMA InvalidKeeps ==
  ASSUME NEW s, IsSegmentor(s), NEW n \in Nat \ {0}, NEW ch
  PROVE  LET t == Invalid(s, n, ch)
         IN IsSegmentor(t) /\ t.buf = s.buf /\ t.pystr = s.pystr /\ t.stuck = s.stuck
<1> DEFINE z == [s EXCEPT !.hasInvalid = TRUE]
           seg == Segment(n - 1, 1, "invalid", "string", {})
<1>1. Kin(s, z)
  BY KinCounts
<1>2. seg \in Segs
  BY DEF Segment, Segs, SegTypes, SegClasses
<1>3. Invalid(s, n, ch) = Adds(z, seg)
  BY DEF Invalid
<1> HIDE DEF z, seg
<1>. QED
  BY <1>1, <1>2, <1>3, AddsKeeps DEF Kin

\* See FirstKey.
LEMMA FirstKeyKeeps ==
  ASSUME NEW s, IsSegmentor(s), NEW n \in Nat \ {0}, NEW ch
  PROVE  LET t == FirstKey(s, n, ch)
         IN IsSegmentor(t) /\ t.buf = s.buf /\ t.pystr = s.pystr /\ t.stuck = s.stuck
<1> DEFINE initials == MappedInitials(ch)
           initial == CHOOSE i \in initials : TRUE
           t == FirstKey(s, n, ch)
           a == Segment(n - 1, 1, "string", "string", {})
           b == Segment(n - 1, 1, "syllable", "syllable", Encoded(initial))
<1>1. t = IF initials = {} THEN Invalid(s, n, ch)
          ELSE IF Encoded(initial) = {} THEN Adds(Accepted(s), a) ELSE Adds(Accepted(s), b)
  BY DEF FirstKey
<1>2. a \in Segs /\ b \in Segs
  <2>1. Encoded(initial) \in SUBSET Syllables
    BY MappedAreSyllables
  <2> HIDE DEF initial
  <2>. QED
    BY <2>1 DEF Segment, Segs, SegTypes, SegClasses
<1>3. Kin(s, Accepted(s))
  BY KinCounts
<1> HIDE DEF initials, initial, a, b
<1>4. /\ IsSegmentor(Adds(Accepted(s), a)) /\ Adds(Accepted(s), a).buf = s.buf
      /\ Adds(Accepted(s), a).pystr = s.pystr /\ Adds(Accepted(s), a).stuck = s.stuck
  BY <1>2, <1>3, AddsKeeps DEF Kin
<1>5. /\ IsSegmentor(Adds(Accepted(s), b)) /\ Adds(Accepted(s), b).buf = s.buf
      /\ Adds(Accepted(s), b).pystr = s.pystr /\ Adds(Accepted(s), b).stuck = s.stuck
  BY <1>2, <1>3, AddsKeeps DEF Kin
<1>6. /\ IsSegmentor(Invalid(s, n, ch)) /\ Invalid(s, n, ch).buf = s.buf
      /\ Invalid(s, n, ch).pystr = s.pystr /\ Invalid(s, n, ch).stuck = s.stuck
  BY InvalidKeeps
<1> HIDE DEF t
<1>7. CASE initials = {}
  BY <1>1, <1>6, <1>7 DEF t
<1>8. CASE initials # {} /\ Encoded(initial) = {}
  BY <1>1, <1>4, <1>8 DEF t
<1>9. CASE initials # {} /\ Encoded(initial) # {}
  BY <1>1, <1>5, <1>9 DEF t
<1>. QED
  BY <1>7, <1>8, <1>9

\* See Stuck.
LEMMA StuckIs ==
  ASSUME NEW s, IsSegmentor(s)
  PROVE  LET t == Stuck(s)
         IN IsSegmentor(t) /\ t.buf = s.buf /\ t.pystr = s.pystr /\ t.segs = s.segs /\ t.stuck = TRUE
BY DEF IsSegmentor, Fields, Stuck

\* See SecondKey.
LEMMA SecondKeyKeeps ==
  ASSUME NEW s, IsSegmentor(s), NEW n \in Nat \ {0}, NEW ch
  PROVE  LET t == SecondKey(s, n, ch)
         IN IsSegmentor(t) /\ t.buf = s.buf /\ t.pystr = s.pystr /\ (s.stuck => t.stuck)
<1> DEFINE syls == MappedSyllables(s.pystr[n - 1].ch, ch)
           m == Len(s.segs)
           a == Accepted(s)
           old == s.segs[m]
           pair == AsPair(old, n - 2, syls)
           x == [s.segs EXCEPT ![m] = pair]
           u == n - 2
           made == [a EXCEPT !.updatedFrom = u, !.segs = x]
           t == SecondKey(s, n, ch)
<1>1. Kin(s, a)
  BY KinCounts
<1>2. CASE n < 2 \/ s.segs = << >>
  <2>1. t = Stuck(s)
    BY <1>2 DEF SecondKey
  <2> HIDE DEF t
  <2>. QED
    BY <2>1, StuckIs DEF t
<1>3. CASE ~(n < 2 \/ s.segs = << >>) /\ syls = {}
  <2>1. t = Invalid(s, n, ch)
    BY <1>3 DEF SecondKey
  <2> HIDE DEF t
  <2>. QED
    BY <2>1, InvalidKeeps DEF t
<1>4. CASE ~(n < 2 \/ s.segs = << >>) /\ syls # {}
  <2>1. a.segs = s.segs
    BY <1>1 DEF Kin
  <2>2. t = [a EXCEPT !.updatedFrom = n - 2, !.segs[Len(s.segs)] = AsPair(@, n - 2, syls)]
    BY <1>4 DEF SecondKey
  <2>3. s.segs \in Seq(Segs) /\ m \in 1 .. m /\ old \in Segs /\ u \in Nat /\ syls \in SUBSET Syllables
    <3>1. s.segs \in Seq(Segs) /\ s.segs # << >>
      BY <1>4 DEF IsSegmentor
    <3>2. syls \in SUBSET Syllables
      BY MappedAreSyllables
    <3>. QED
      BY <3>1, <3>2, <1>4
  <2> HIDE DEF syls, a
  <2>4. [a EXCEPT !.updatedFrom = n - 2, !.segs[Len(s.segs)] = AsPair(@, n - 2, syls)] = made
    BY <2>1
  <2>5. pair \in Segs
    <3> HIDE DEF old
    <3>. QED
      BY <2>3, AsPairIs
  <2> HIDE DEF pair
  <2>6. x \in Seq(Segs)
    BY <2>3, <2>5
  <2> HIDE DEF x, u
  <2>7. IsSegmentor(made) /\ made.buf = a.buf /\ made.pystr = a.pystr /\ made.stuck = a.stuck
    <3>1. IsSegmentor(a)
      BY <1>1 DEF Kin
    <3>. QED
      BY <3>1, <2>3, <2>6 DEF IsSegmentor, Fields
  <2> HIDE DEF made, t
  <2>8. t = made
    BY <2>2, <2>4
  <2>. QED
    BY <2>7, <2>8, <1>1 DEF Kin, t
<1>. QED
  BY <1>2, <1>3, <1>4

\* See ShuangpinPush.
LEMMA ShuangpinPushes ==
  ASSUME NEW s, IsSegmentor(s), NEW ch \in Key
  PROVE  PushOf("shuangpin", s, ShuangpinPush(s, ch), ch)
<1> DEFINE p == Append(s.pystr, Plain(ch))
           t == [s EXCEPT !.pystr = p]
           n == Len(t.pystr)
           a == Accepted(t)
           b == [a EXCEPT !.nAlpha = 1 - @]
           odd == OddSegment(s, n - 1, ch)
           q == ShuangpinPush(s, ch)
           Typed1(x) == IsSegmentor(x) /\ x.buf = s.buf /\ x.pystr = p /\ (s.stuck => x.stuck)
<1>1. /\ s.pystr \in Seq(PyKey) /\ p \in Seq(PyKey) /\ Len(p) \in Nat \ {0}
      /\ Keys(p) = Append(Keys(s.pystr), ch)
  <2>1. s.pystr \in Seq(PyKey)
    BY DEF IsSegmentor
  <2>2. Len(s.pystr) \in Nat
    BY <2>1
  <2>. QED
    BY <2>1, <2>2, KeysOfAppend
<1>2. q = IF s.stuck THEN s
          ELSE IF s.hasInvalid THEN Invalid(t, n, ch)
          ELSE IF ~isInputPy(ch) THEN Adds(b, odd)
          ELSE IF (n - s.nAlpha) % 2 = 0 THEN SecondKey(t, n, ch)
          ELSE FirstKey(t, n, ch)
  <2>1. "pystr" \in DOMAIN s /\ t.hasInvalid = t.hasInvalid
    BY DEF IsSegmentor, Fields
  <2>. QED
    BY <2>1 DEF ShuangpinPush
<1> HIDE DEF p, q
<1>3. /\ IsSegmentor(t) /\ t.buf = s.buf /\ t.pystr = p /\ t.stuck = s.stuck
  BY <1>1 DEF IsSegmentor, Fields
<1>4. n \in Nat \ {0} /\ n - 1 \in Nat
  BY <1>1, <1>3
<1>5. odd \in Segs
  BY <1>4, OddSegmentIs
<1> HIDE DEF t, n, odd
<1>6. Kin(t, a)
  BY <1>3, KinCounts
<1>7. Kin(a, b)
  <2> DEFINE v == 1 - a.nAlpha
  <2>1. b = [a EXCEPT !.nAlpha = v]
    OBVIOUS
  <2>2. IsSegmentor(a)
    BY <1>6 DEF Kin
  <2> HIDE DEF a, b, v
  <2>3. Kin(a, [a EXCEPT !.nAlpha = v])
    BY <2>2, KinCounts
  <2>. QED
    BY <2>1, <2>3
<1> HIDE DEF a, b
<1>8. Typed1(q) \/ (s.stuck /\ q = s)
  <2>1. Typed1(Invalid(t, n, ch))
    BY <1>3, <1>4, InvalidKeeps
  <2>2. Typed1(Adds(b, odd))
    <3>1. IsSegmentor(b) /\ b.buf = s.buf /\ b.pystr = p /\ b.stuck = s.stuck
      BY <1>3, <1>6, <1>7 DEF Kin
    <3>. QED
      BY <3>1, <1>5, AddsKeeps
  <2>3. Typed1(SecondKey(t, n, ch))
    BY <1>3, <1>4, SecondKeyKeeps
  <2>4. Typed1(FirstKey(t, n, ch))
    BY <1>3, <1>4, FirstKeyKeeps
  <2> HIDE DEF Typed1
  <2>. QED
    BY <2>1, <2>2, <2>3, <2>4, <1>2
<1>9. PushOf("shuangpin", s, q, ch)
  BY <1>1, <1>8 DEF PushOf, Whole
<1>. QED
  BY <1>9 DEF q

\* A segmentor that may be stuck, but that of hunpin never is.
Good(class, s) ==
  IsSegmentor(s) /\ (class = "hunpin" => ~s.stuck) /\ (s.stuck \/ Whole(class, s))

Classes == {"quanpin", "hunpin", "shuangpin"}

\* See _push.
LEMMA Pushes ==
  ASSUME NEW class \in Classes, NEW s, Good(class, s), NEW ch \in Key
  PROVE  PushOf(class, s, _push(class, s, ch), ch) /\ Good(class, _push(class, s, ch))
<1>1. PushOf(class, s, _push(class, s, ch), ch)
  <2>1. CASE class = "quanpin"
    <3>1. _push(class, s, ch) = QuanpinPush(s, ch)
      BY <2>1 DEF _push
    <3>. QED
      BY <3>1, <2>1, QuanpinPushes DEF Good
  <2>2. CASE class = "hunpin"
    <3>1. _push(class, s, ch) = HunpinPush(s, ch)
      BY <2>2 DEF _push
    <3>. QED
      BY <3>1, <2>2, HunpinPushes DEF Good
  <2>3. CASE class = "shuangpin"
    <3>1. _push(class, s, ch) = ShuangpinPush(s, ch)
      BY <2>3 DEF _push
    <3>. QED
      BY <3>1, <2>3, ShuangpinPushes DEF Good
  <2>. QED
    BY <2>1, <2>2, <2>3 DEF Classes
<1> DEFINE q == _push(class, s, ch)
<1> HIDE DEF q
<1>2. PushOf(class, s, q, ch) => Good(class, q)
  BY DEF PushOf, Good
<1>. QED
  BY <1>1, <1>2 DEF q

-----------------------------------------------------------------------------
(* Several keys are pushed.                                                *)

\* q is what the segmentor s becomes by the keys ks.
UpdatedTo(class, s, q, ks, from) ==
  /\ Good(class, q) /\ q.buf = s.buf
  /\ s.stuck => q.stuck
  /\ ~q.stuck => Keys(q.pystr) = Keys(s.pystr) \o ks
  /\ Len(ks) = 0 => q.updatedFrom = from
  /\ class # "shuangpin" /\ ~q.stuck
       => /\ q.updatedFrom <= from
          /\ Len(ks) > 0 => q.updatedFrom <= Len(s.pystr)
          /\ Before(s.segs, q.updatedFrom) = Before(q.segs, q.updatedFrom)

\* Another updatedFrom.
LEMMA UpdatedFromSet ==
  ASSUME NEW class, NEW s, Good(class, s), NEW u \in Nat
  PROVE  LET q == [s EXCEPT !.updatedFrom = u]
         IN /\ Good(class, q) /\ q.buf = s.buf /\ q.pystr = s.pystr /\ q.segs = s.segs
            /\ q.stuck = s.stuck /\ q.updatedFrom = u
<1> DEFINE q == [s EXCEPT !.updatedFrom = u]
<1>1. IsSegmentor(s)
  BY DEF Good
<1>2. /\ IsSegmentor(q) /\ q.buf = s.buf /\ q.pystr = s.pystr /\ q.segs = s.segs
      /\ q.stuck = s.stuck /\ q.updatedFrom = u
  BY <1>1 DEF IsSegmentor, Fields
<1> HIDE DEF q
<1>3. Good(class, q)
  BY <1>2 DEF Good, Whole
<1>. QED
  BY <1>2, <1>3 DEF q

\* One more key.
LEMMA UpdateStep ==
  ASSUME NEW class \in Classes, NEW s, Good(class, s), NEW prev, NEW ks \in Seq(Key), NEW from \in Nat,
         UpdatedTo(class, s, prev, ks, from), NEW ch \in Key
  PROVE  UpdatedTo(class, s, UpdatedBy(class, prev, ch), Append(ks, ch), from)
<1> DEFINE next == _push(class, prev, ch)
           u == IF next.updatedFrom < prev.updatedFrom THEN next.updatedFrom ELSE prev.updatedFrom
           q == [next EXCEPT !.updatedFrom = u]
<1>1. Good(class, prev) /\ prev.buf = s.buf /\ (s.stuck => prev.stuck) /\ IsSegmentor(prev) /\ IsSegmentor(s)
  BY DEF UpdatedTo, Good
<1>2. PushOf(class, prev, next, ch) /\ Good(class, next) /\ IsSegmentor(next)
  BY <1>1, Pushes DEF Good
<1>3. UpdatedBy(class, prev, ch) = q
  BY DEF UpdatedBy
<1> HIDE DEF next
<1>4. u \in Nat /\ u <= next.updatedFrom /\ u <= prev.updatedFrom
      /\ next.updatedFrom \in Nat /\ prev.updatedFrom \in Nat
  BY <1>1, <1>2 DEF IsSegmentor
<1> HIDE DEF u
<1>5. /\ Good(class, q) /\ q.buf = next.buf /\ q.pystr = next.pystr /\ q.segs = next.segs
      /\ q.stuck = next.stuck /\ q.updatedFrom = u
  BY <1>2, <1>4, UpdatedFromSet
<1> HIDE DEF q
<1>6. /\ next.buf = s.buf /\ (prev.stuck => next.stuck) /\ (s.stuck => q.stuck)
  BY <1>1, <1>2, <1>5 DEF PushOf
<1>7. ASSUME ~q.stuck
      PROVE  Keys(q.pystr) = Keys(s.pystr) \o Append(ks, ch)
  <2>1. Keys(q.pystr) = Append(Keys(prev.pystr), ch) /\ Keys(prev.pystr) = Keys(s.pystr) \o ks
    BY <1>2, <1>5, <1>6, <1>7 DEF PushOf, UpdatedTo
  <2>2. Keys(s.pystr) \in Seq(Key)
    <3>1. s.pystr \in Seq(PyKey)
      BY <1>1 DEF IsSegmentor
    <3>. QED
      BY <3>1, KeysAre
  <2> DEFINE a == Keys(s.pystr)
  <2> HIDE DEF a
  <2>3. Append(a \o ks, ch) = a \o Append(ks, ch)
    <3>1. <<ch>> \in Seq(Key) /\ a \o ks \in Seq(Key) /\ a \in Seq(Key)
      BY <2>2, ConcatProperties DEF a
    <3>2. Append(a \o ks, ch) = (a \o ks) \o <<ch>> /\ Append(ks, ch) = ks \o <<ch>>
      BY <3>1, AppendIsConcat
    <3>3. (a \o ks) \o <<ch>> = a \o (ks \o <<ch>>)
      BY <3>1, ConcatAssociative
    <3>. QED
      BY <3>2, <3>3
  <2>. QED
    BY <2>1, <2>3 DEF a
<1>8. ASSUME class # "shuangpin", ~q.stuck
      PROVE  /\ q.updatedFrom <= from
             /\ Len(Append(ks, ch)) > 0 => q.updatedFrom <= Len(s.pystr)
             /\ Before(s.segs, q.updatedFrom) = Before(q.segs, q.updatedFrom)
  <2>1. ~prev.stuck /\ ~next.stuck
    BY <1>5, <1>6, <1>8
  <2>2. /\ prev.updatedFrom <= from
        /\ Len(ks) > 0 => prev.updatedFrom <= Len(s.pystr)
        /\ Before(s.segs, prev.updatedFrom) = Before(prev.segs, prev.updatedFrom)
        /\ Keys(prev.pystr) = Keys(s.pystr) \o ks
    BY <2>1, <1>8 DEF UpdatedTo
  <2>3. next.updatedFrom <= Len(prev.pystr) /\ Before(prev.segs, next.updatedFrom) = Before(next.segs, next.updatedFrom)
    BY <2>1, <1>2, <1>8 DEF PushOf
  <2>4. s.segs \in Seq(Segs) /\ prev.segs \in Seq(Segs) /\ next.segs \in Seq(Segs)
    BY <1>1, <1>2 DEF IsSegmentor
  <2>5. Before(s.segs, u) = Before(prev.segs, u)
    BY <2>2, <2>4, <1>4, SameEarlier
  <2>6. Before(prev.segs, u) = Before(next.segs, u)
    BY <2>3, <2>4, <1>4, SameEarlier
  <2>7. u <= Len(s.pystr)
    <3>1. /\ Len(s.pystr) \in Nat /\ Len(prev.pystr) \in Nat /\ Len(ks) \in Nat
          /\ Len(Keys(prev.pystr)) = Len(prev.pystr) /\ Len(Keys(s.pystr)) = Len(s.pystr)
          /\ Keys(s.pystr) \in Seq(Key)
      <4>1. s.pystr \in Seq(PyKey) /\ prev.pystr \in Seq(PyKey)
        BY <1>1 DEF IsSegmentor
      <4>. QED
        BY <4>1, KeysAre
    <3>2. Len(prev.pystr) = Len(s.pystr) + Len(ks)
      BY <2>2, <3>1, ConcatProperties
    <3>3. CASE Len(ks) > 0
      BY <3>1, <3>3, <2>2, <1>4
    <3>4. CASE Len(ks) = 0
      BY <3>1, <3>2, <3>4, <2>3, <1>4
    <3>. QED
      BY <3>1, <3>3, <3>4
  <2>8. u <= from
    BY <2>2, <1>4
  <2>. QED
    BY <2>5, <2>6, <2>7, <2>8, <1>5
<1>9. UpdatedTo(class, s, q, Append(ks, ch), from)
  BY <1>1, <1>5, <1>6, <1>7, <1>8 DEF UpdatedTo
<1>. QED
  BY <1>3, <1>9

\* f is the course of the pushes.
IsUpdateCourse(f, class, start, ks, n) ==
  f = [k \in 0 .. n |-> IF k = 0 THEN start ELSE UpdatedBy(class, f[k - 1], ks[k])]

\* There is such a function.
LEMMA UpdateCourseExists ==
  ASSUME NEW class, NEW start, NEW ks, NEW n \in Nat
  PROVE  \E f : IsUpdateCourse(f, class, start, ks, n)
<1> DEFINE S == {m \in Nat : \E f : IsUpdateCourse(f, class, start, ks, m)}
<1>1. 0 \in S
  <2>1. IsUpdateCourse([k \in 0 .. 0 |-> start], class, start, ks, 0)
    BY DEF IsUpdateCourse
  <2>. QED
    BY <2>1
<1>2. ASSUME NEW m \in S
      PROVE  m + 1 \in S
  <2>1. PICK f : IsUpdateCourse(f, class, start, ks, m)
    OBVIOUS
  <2> DEFINE g == [i \in 0 .. m + 1 |-> IF i = m + 1 THEN UpdatedBy(class, f[m], ks[m + 1]) ELSE f[i]]
  <2>2. ASSUME NEW i \in 0 .. m + 1
        PROVE  g[i] = IF i = 0 THEN start ELSE UpdatedBy(class, g[i - 1], ks[i])
    <3>1. CASE i = 0
      BY <3>1, <2>1 DEF IsUpdateCourse
    <3>2. CASE i = m + 1
      BY <3>2
    <3>3. CASE i \in 1 .. m
      <4>1. g[i] = f[i] /\ g[i - 1] = f[i - 1]
        BY <3>3
      <4>. QED
        BY <4>1, <3>3, <2>1 DEF IsUpdateCourse
    <3>. QED
      BY <3>1, <3>2, <3>3
  <2>3. IsUpdateCourse(g, class, start, ks, m + 1)
    BY <2>2 DEF IsUpdateCourse
  <2> HIDE DEF g
  <2>. QED
    BY <2>3
<1>3. S \in SUBSET Nat
  OBVIOUS
<1> HIDE DEF S
<1>4. n \in S
  BY <1>1, <1>2, <1>3, NumbersFromZero
<1>. QED
  BY <1>4 DEF S

\* See UpdatedWith.
LEMMA Updates ==
  ASSUME NEW class \in Classes, NEW s, Good(class, s), NEW ks \in Seq(Key), NEW from \in Nat
  PROVE  UpdatedTo(class, s, UpdatedWith(class, s, ks, from), ks, from)
<1> DEFINE n == Len(ks)
           start == [s EXCEPT !.updatedFrom = from]
           r == UpdatedWith(class, s, ks, from)
<1>1. n \in Nat
  OBVIOUS
<1>2. UpdatedTo(class, s, start, << >>, from)
  <2>1. /\ Good(class, start) /\ start.buf = s.buf /\ start.pystr = s.pystr /\ start.segs = s.segs
        /\ start.stuck = s.stuck /\ start.updatedFrom = from
    BY UpdatedFromSet
  <2> HIDE DEF start
  <2>2. Keys(s.pystr) \o << >> = Keys(s.pystr)
    <3>1. s.pystr \in Seq(PyKey)
      BY DEF Good, IsSegmentor
    <3>2. Keys(s.pystr) \in Seq(Key)
      BY <3>1, KeysAre
    <3>. QED
      BY <3>2, ConcatEmptySeq
  <2>3. Len(<< >>) = 0
    OBVIOUS
  <2>. QED
    BY <2>1, <2>2, <2>3 DEF UpdatedTo
<1> HIDE DEF start
<1>3. IsUpdateCourse(CHOOSE f : IsUpdateCourse(f, class, start, ks, n), class, start, ks, n)
  BY <1>1, UpdateCourseExists
<1>4. r = (CHOOSE f : IsUpdateCourse(f, class, start, ks, n))[n]
  BY DEF UpdatedWith, IsUpdateCourse, start
<1>5. PICK f : IsUpdateCourse(f, class, start, ks, n) /\ r = f[n]
  BY <1>3, <1>4
<1> HIDE DEF r
<1> DEFINE P == {k \in 0 .. n : UpdatedTo(class, s, f[k], SubSeq(ks, 1, k), from)}
<1>6. 0 \in P
  <2>1. f[0] = start
    BY <1>1, <1>5 DEF IsUpdateCourse
  <2>2. SubSeq(ks, 1, 0) = << >>
    OBVIOUS
  <2>3. UpdatedTo(class, s, f[0], SubSeq(ks, 1, 0), from)
    BY <2>1, <2>2, <1>2
  <2>. QED
    BY <2>3, <1>1
<1>7. ASSUME NEW k \in 1 .. n, k - 1 \in P
      PROVE  k \in P
  <2>1. f[k] = UpdatedBy(class, f[k - 1], ks[k])
    BY <1>1, <1>5 DEF IsUpdateCourse
  <2>2. UpdatedTo(class, s, f[k - 1], SubSeq(ks, 1, k - 1), from)
    BY <1>7
  <2>3. ks[k] \in Key /\ SubSeq(ks, 1, k - 1) \in Seq(Key)
    OBVIOUS
  <2>4. UpdatedTo(class, s, f[k], Append(SubSeq(ks, 1, k - 1), ks[k]), from)
    BY <2>1, <2>2, <2>3, UpdateStep
  <2>5. Append(SubSeq(ks, 1, k - 1), ks[k]) = SubSeq(ks, 1, k)
    <3>1. k - 1 + 1 = k /\ k - 1 \in 1 - 1 .. Len(ks) - 1
      BY <1>1
    <3> DEFINE a == Append(SubSeq(ks, 1, k - 1), ks[k])
               b == SubSeq(ks, 1, k)
               c == SubSeq(ks, 1, k - 1)
    <3>2. c \in Seq(Key) /\ Len(c) = k - 1 /\ \A i \in 1 .. k - 1 : c[i] = ks[i]
      OBVIOUS
    <3>3. b \in Seq(Key) /\ Len(b) = k /\ \A i \in 1 .. k : b[i] = ks[i]
      OBVIOUS
    <3> HIDE DEF b, c
    <3>4. a \in Seq(Key) /\ Len(a) = k /\ a[k] = ks[k] /\ \A i \in 1 .. k - 1 : a[i] = c[i]
      BY <2>3, <3>1, <3>2, AppendProperties DEF c
    <3> HIDE DEF a
    <3>5. \A i \in 1 .. k : i = k \/ i \in 1 .. k - 1
      BY <1>1
    <3>6. \A i \in 1 .. k : a[i] = b[i]
      BY <3>2, <3>3, <3>4, <3>5
    <3>7. a = b
      BY <3>3, <3>4, <3>6, SeqEqual
    <3>. QED
      BY <3>7 DEF a, b
  <2>6. UpdatedTo(class, s, f[k], SubSeq(ks, 1, k), from)
    BY <2>4, <2>5
  <2>. QED
    BY <2>6, <1>1
<1> HIDE DEF P
<1>8. 0 .. n \subseteq P
  BY <1>1, <1>6, <1>7, Stays
<1>9. UpdatedTo(class, s, f[n], SubSeq(ks, 1, n), from)
  BY <1>1, <1>8 DEF P
<1>10. SubSeq(ks, 1, n) = ks
  OBVIOUS
<1>. QED
  BY <1>5, <1>9, <1>10 DEF r

-----------------------------------------------------------------------------
(* Keys are cut again.                                                     *)

\* A sequence is its first part and the rest.
LEMMA PartsJoin ==
  ASSUME NEW S, NEW x \in Seq(S), NEW at \in 0 .. Len(x)
  PROVE  /\ SubSeq(x, 1, at) \in Seq(S) /\ Len(SubSeq(x, 1, at)) = at
         /\ SubSeq(x, at + 1, Len(x)) \in Seq(S) /\ Len(SubSeq(x, at + 1, Len(x))) = Len(x) - at
         /\ SubSeq(x, 1, at) \o SubSeq(x, at + 1, Len(x)) = x
<1> DEFINE n == Len(x)
           a == SubSeq(x, 1, at)
           b == SubSeq(x, at + 1, n)
           c == a \o b
<1>1. n \in Nat /\ at \in Nat /\ at <= n
  OBVIOUS
<1>2. a \in Seq(S) /\ Len(a) = at /\ \A i \in 1 .. at : a[i] = x[i]
  BY <1>1
<1>3. b \in Seq(S) /\ Len(b) = n - at /\ \A i \in 1 .. n - at : b[i] = x[at + i]
  BY <1>1
<1> HIDE DEF a, b
<1>4. /\ c \in Seq(S) /\ Len(c) = at + (n - at)
      /\ \A i \in 1 .. at : c[i] = a[i]
      /\ \A i \in at + 1 .. at + (n - at) : c[i] = b[i - at]
  BY <1>2, <1>3, ConcatProperties
<1>5. at + (n - at) = n
  BY <1>1
<1> HIDE DEF c
<1>6. ASSUME NEW i \in 1 .. n PROVE c[i] = x[i]
  <2>1. CASE i \in 1 .. at
    BY <2>1, <1>2, <1>4
  <2>2. CASE i \in at + 1 .. n
    <3>1. i - at \in 1 .. n - at /\ at + (i - at) = i
      BY <2>2, <1>1
    <3>. QED
      BY <3>1, <2>2, <1>3, <1>4, <1>5
  <2>. QED
    BY <2>1, <2>2, <1>1
<1>7. c = x
  <2>1. x \in Seq(S) /\ Len(x) = n /\ Len(c) = n
    BY <1>4, <1>5
  <2>. QED
    BY <2>1, <1>4, <1>6, SeqEqual
<1>. QED
  BY <1>2, <1>3, <1>7 DEF a, b, c

\* What a segmentor becomes when str is cut again from key at on.
CutTo(class, s, r, at, str, from) ==
  /\ Good(class, r) /\ r.buf = s.buf
  /\ ~r.stuck => Keys(r.pystr) = Keys(str)
  /\ class # "shuangpin" /\ ~r.stuck
       => /\ r.updatedFrom <= from
          /\ Len(str) = at => r.updatedFrom = from
          /\ Len(str) > at => r.updatedFrom <= at
          /\ r.updatedFrom <= at => Before(s.segs, r.updatedFrom) = Before(r.segs, r.updatedFrom)

\* The segmentor with its letters and segments set.
LettersAndSegs(s, p, segs) == [s EXCEPT !.segs = segs, !.pystr = p]

\* It is a segmentor.
LEMMA LettersAndSegsSet ==
  ASSUME NEW s, IsSegmentor(s), NEW p \in Seq(PyKey), NEW segs \in Seq(Segs)
  PROVE  LET q == LettersAndSegs(s, p, segs)
         IN IsSegmentor(q) /\ q.buf = s.buf /\ q.stuck = s.stuck /\ q.pystr = p /\ q.segs = segs
BY DEF IsSegmentor, Fields, LettersAndSegs

\* See CutAgain.
LEMMA Cuts ==
  ASSUME NEW class \in Classes, NEW s, Good(class, s), ~s.stuck, NEW j \in 0 .. Len(s.segs),
         NEW str \in Seq(PyKey), KeysOf(s.segs, j) <= Len(str), NEW from \in Nat
  PROVE  CutTo(class, s, CutAgain(class, s, j, str, from), KeysOf(s.segs, j), str, from)
<1> DEFINE at == KeysOf(s.segs, j)
           n == Len(str)
           x == SubSeq(s.segs, 1, j)
           p == SubSeq(str, 1, at)
           kept == LettersAndSegs(s, p, x)
           rest == SubSeq(str, at + 1, n)
           r == CutAgain(class, s, j, str, from)
<1>1. IsSegmentor(s) /\ Whole(class, s) /\ s.segs \in Seq(Segs) /\ n \in Nat
  BY DEF Good, Whole, IsSegmentor
<1>2. at \in 0 .. n /\ at \in Nat
  <2>1. at \in Nat
    BY <1>1, KeysOfSteps
  <2>. QED
    BY <2>1, <1>1
<1>3. r = UpdatedWith(class, kept, Keys(rest), from)
  BY DEF CutAgain, LettersAndSegs
<1> HIDE DEF at, r
<1>4. /\ p \in Seq(PyKey) /\ Len(p) = at /\ Keys(p) = SubSeq(Keys(str), 1, at)
      /\ rest \in Seq(PyKey) /\ Len(rest) = n - at /\ Keys(rest) = SubSeq(Keys(str), at + 1, n)
  <2>1. 1 \in 1 .. n + 1 /\ at \in 1 - 1 .. n /\ at + 1 \in 1 .. n + 1 /\ n \in (at + 1) - 1 .. n
    BY <1>1, <1>2
  <2>2. p \in Seq(PyKey) /\ Len(p) = at - 1 + 1 /\ Keys(p) = SubSeq(Keys(str), 1, at)
    BY <2>1, KeysOfPart
  <2>3. rest \in Seq(PyKey) /\ Len(rest) = n - (at + 1) + 1 /\ Keys(rest) = SubSeq(Keys(str), at + 1, n)
    BY <2>1, KeysOfPart
  <2> HIDE DEF p, rest
  <2>. QED
    BY <2>2, <2>3, <1>1, <1>2
<1>5. Keys(p) \o Keys(rest) = Keys(str) /\ Keys(rest) \in Seq(Key) /\ Len(Keys(rest)) = n - at
  <2>1. Keys(str) \in Seq(Key) /\ Len(Keys(str)) = n
    BY KeysAre
  <2>2. Keys(rest) \in Seq(Key) /\ Len(Keys(rest)) = Len(rest)
    BY <1>4, KeysAre
  <2> DEFINE y == Keys(str)
  <2>3. y \in Seq(Key) /\ Len(y) = n /\ at \in 0 .. Len(y)
    BY <2>1, <1>2
  <2> HIDE DEF y, n
  <2>4. SubSeq(y, 1, at) \o SubSeq(y, at + 1, Len(y)) = y
    BY <2>3, PartsJoin
  <2>. QED
    BY <2>2, <2>3, <2>4, <1>4 DEF y
<1>6. /\ x \in Seq(Segs) /\ Len(x) = j /\ \A i \in 1 .. j : x[i] = s.segs[i]
  BY <1>1
<1>7. ASSUME class # "shuangpin"
      PROVE  /\ Tiles(s.segs, Len(s.pystr)) /\ Tiles(x, at) /\ at = EndOf(s.segs, j)
             /\ \A i \in j + 1 .. Len(s.segs) : s.segs[i].start >= at
  <2>1. Tiles(s.segs, Len(s.pystr))
    BY <1>1, <1>7 DEF Whole
  <2>2. at = EndOf(s.segs, j)
    BY <1>1, <2>1, TiledKeys DEF at
  <2>3. Tiles(x, EndOf(s.segs, j))
    BY <1>1, <2>1, FirstTile
  <2>4. \A i \in j + 1 .. Len(s.segs) : s.segs[i].start >= EndOf(s.segs, j)
    BY <1>1, <2>1, TileStart
  <2>. QED
    BY <2>1, <2>2, <2>3, <2>4
<1> HIDE DEF x, p, rest
<1>8. IsSegmentor(kept) /\ kept.buf = s.buf /\ kept.stuck = s.stuck /\ kept.pystr = p /\ kept.segs = x
  <2>1. IsSegmentor(s) /\ p \in Seq(PyKey) /\ x \in Seq(Segs)
    BY <1>1, <1>4, <1>6
  <2>. QED
    BY <2>1, LettersAndSegsSet
<1> HIDE DEF kept
<1>9. Good(class, kept)
  BY <1>4, <1>7, <1>8 DEF Good, Whole
<1>10. UpdatedTo(class, kept, r, Keys(rest), from)
  BY <1>3, <1>5, <1>9, Updates
<1>11. ASSUME class # "shuangpin", ~r.stuck
       PROVE  /\ r.updatedFrom <= from
              /\ n = at => r.updatedFrom = from
              /\ n > at => r.updatedFrom <= at
              /\ r.updatedFrom <= at => Before(s.segs, r.updatedFrom) = Before(r.segs, r.updatedFrom)
  <2>1. /\ r.updatedFrom <= from
        /\ Len(Keys(rest)) = 0 => r.updatedFrom = from
        /\ Len(Keys(rest)) > 0 => r.updatedFrom <= Len(kept.pystr)
        /\ Before(kept.segs, r.updatedFrom) = Before(r.segs, r.updatedFrom)
    BY <1>10, <1>11 DEF UpdatedTo
  <2>2. (n > at => Len(Keys(rest)) > 0) /\ (n = at => Len(Keys(rest)) = 0)
    BY <1>1, <1>2, <1>5
  <2>3. Len(kept.pystr) = at
    BY <1>4, <1>8
  <2>4. ASSUME r.updatedFrom <= at PROVE Before(s.segs, r.updatedFrom) = Before(x, r.updatedFrom)
    <3> DEFINE u == r.updatedFrom
    <3>1. u \in Nat /\ u \in Int /\ u <= at
      BY <1>10, <2>4 DEF UpdatedTo, Good, IsSegmentor
    <3> HIDE DEF u
    <3>2. ASSUME NEW i \in j + 1 .. Len(s.segs) PROVE s.segs[i].start >= u
      <4>1. s.segs[i].start >= at /\ s.segs[i] \in Segs
        <5>1. i \in 1 .. Len(s.segs)
          BY <1>1
        <5>. QED
          BY <5>1, <1>1, <1>7, <1>11
      <4>2. s.segs[i].start \in Nat
        BY <4>1, SegFacts
      <4>. QED
        BY <4>1, <4>2, <3>1, <1>2
    <3>3. j <= Len(x) /\ \A i \in j + 1 .. Len(x) : FALSE
      BY <1>6, <1>1
    <3>4. Before(s.segs, u) = Before(x, u)
      BY <3>1, <3>2, <3>3, <1>1, <1>6, SameBefore
    <3>. QED
      BY <3>4 DEF u
  <2>. QED
    BY <2>1, <2>2, <2>3, <2>4, <1>8
<1>12. Good(class, r) /\ r.buf = s.buf
  BY <1>8, <1>10 DEF UpdatedTo
<1>13. ~r.stuck => Keys(r.pystr) = Keys(str)
  BY <1>5, <1>8, <1>10 DEF UpdatedTo
<1>14. CutTo(class, s, r, at, str, from)
  BY <1>11, <1>12, <1>13 DEF CutTo
<1>. QED
  BY <1>14 DEF at, r

-----------------------------------------------------------------------------
(* Edits.                                                                  *)

\* A segmentor whose letters are the keys that were typed.
Held(class, s) == Good(class, s) /\ (~s.stuck => Keys(s.pystr) = s.buf)

\* Before the key it says changed, r is as s was.
Told(class, s, r) ==
  class # "shuangpin" /\ ~r.stuck /\ r.updatedFrom # UINT_MAX
    => Before(s.segs, r.updatedFrom) = Before(r.segs, r.updatedFrom)

\* The segmentor with its input set.
WithBuf(s, b) == [s EXCEPT !.buf = b]

\* It is a segmentor.
LEMMA BufSet ==
  ASSUME NEW class, NEW s, Good(class, s), NEW b \in Seq(Key)
  PROVE  LET q == WithBuf(s, b)
         IN /\ Good(class, q) /\ q.buf = b /\ q.pystr = s.pystr /\ q.segs = s.segs
            /\ q.stuck = s.stuck /\ q.updatedFrom = s.updatedFrom
<1> DEFINE q == WithBuf(s, b)
<1>1. IsSegmentor(s)
  BY DEF Good
<1>2. /\ IsSegmentor(q) /\ q.buf = b /\ q.pystr = s.pystr /\ q.segs = s.segs
      /\ q.stuck = s.stuck /\ q.updatedFrom = s.updatedFrom
  BY <1>1 DEF IsSegmentor, Fields, WithBuf
<1> HIDE DEF q
<1>3. Good(class, q)
  BY <1>2 DEF Good, Whole
<1>. QED
  BY <1>2, <1>3 DEF q

\* A key put in among others.
LEMMA KeysInsert ==
  ASSUME NEW p \in Seq(PyKey), NEW idx \in 0 .. Len(p), NEW ch \in Key
  PROVE  LET q == InsertAt(p, idx + 1, Plain(ch))
         IN q \in Seq(PyKey) /\ Len(q) = Len(p) + 1 /\ Keys(q) = InsertAt(Keys(p), idx + 1, ch)
<1> DEFINE a == SubSeq(p, 1, idx)
           b == SubSeq(p, idx + 1, Len(p))
           one == <<Plain(ch)>>
           ks == Keys(p)
<1>1. Len(p) \in Nat /\ idx + 1 - 1 = idx /\ idx \in Nat
      /\ 1 \in 1 .. Len(p) + 1 /\ idx \in 1 - 1 .. Len(p)
      /\ idx + 1 \in 1 .. Len(p) + 1 /\ Len(p) \in (idx + 1) - 1 .. Len(p)
      /\ idx - 1 + 1 = idx /\ Len(p) - (idx + 1) + 1 = Len(p) - idx
  OBVIOUS
<1>2. a \in Seq(PyKey) /\ Len(a) = idx /\ Keys(a) = SubSeq(ks, 1, idx)
  BY <1>1, KeysOfPart
<1>3. b \in Seq(PyKey) /\ Len(b) = Len(p) - idx /\ Keys(b) = SubSeq(ks, idx + 1, Len(p))
  BY <1>1, KeysOfPart
<1>4. one \in Seq(PyKey) /\ Len(one) = 1 /\ Keys(one) = <<ch>>
  BY KeysOfOne
<1>5. Len(ks) = Len(p)
  BY KeysAre
<1>6. /\ InsertAt(p, idx + 1, Plain(ch)) = a \o one \o b
      /\ InsertAt(ks, idx + 1, ch) = SubSeq(ks, 1, idx) \o <<ch>> \o SubSeq(ks, idx + 1, Len(p))
  <2> DEFINE k == idx + 1
  <2>1. k - 1 = idx
    BY <1>1
  <2> HIDE DEF k, ks
  <2>2. InsertAt(p, k, Plain(ch)) = SubSeq(p, 1, idx) \o one \o SubSeq(p, k, Len(p))
    BY <2>1 DEF InsertAt
  <2>3. InsertAt(ks, k, ch) = SubSeq(ks, 1, idx) \o <<ch>> \o SubSeq(ks, k, Len(p))
    BY <2>1, <1>5 DEF InsertAt
  <2>. QED
    BY <2>2, <2>3 DEF k
<1> HIDE DEF a, b, one, ks
<1>7. a \o one \in Seq(PyKey) /\ Len(a \o one) = idx + 1 /\ Keys(a \o one) = Keys(a) \o Keys(one)
  BY <1>2, <1>4, KeysOfConcat
<1>8. /\ (a \o one) \o b \in Seq(PyKey) /\ Len((a \o one) \o b) = (idx + 1) + (Len(p) - idx)
      /\ Keys((a \o one) \o b) = Keys(a \o one) \o Keys(b)
  BY <1>3, <1>7, KeysOfConcat
<1>9. (idx + 1) + (Len(p) - idx) = Len(p) + 1
  BY <1>1
<1>. QED
  BY <1>2, <1>3, <1>4, <1>6, <1>7, <1>8, <1>9 DEF ks

\* A key taken out.
LEMMA KeysRemove ==
  ASSUME NEW p \in Seq(PyKey), NEW idx \in Nat, idx < Len(p)
  PROVE  LET q == RemoveAt(p, idx + 1)
         IN q \in Seq(PyKey) /\ Len(q) = Len(p) - 1 /\ Keys(q) = RemoveAt(Keys(p), idx + 1)
<1> DEFINE a == SubSeq(p, 1, idx)
           b == SubSeq(p, idx + 2, Len(p))
           ks == Keys(p)
<1>1. Len(p) \in Nat /\ idx + 1 - 1 = idx /\ idx + 1 + 1 = idx + 2
      /\ 1 \in 1 .. Len(p) + 1 /\ idx \in 1 - 1 .. Len(p)
      /\ idx + 2 \in 1 .. Len(p) + 1 /\ Len(p) \in (idx + 2) - 1 .. Len(p)
      /\ idx - 1 + 1 = idx /\ Len(p) - (idx + 2) + 1 = Len(p) - idx - 1
  OBVIOUS
<1>2. a \in Seq(PyKey) /\ Len(a) = idx /\ Keys(a) = SubSeq(ks, 1, idx)
  BY <1>1, KeysOfPart
<1>3. b \in Seq(PyKey) /\ Len(b) = Len(p) - idx - 1 /\ Keys(b) = SubSeq(ks, idx + 2, Len(p))
  BY <1>1, KeysOfPart
<1>5. Len(ks) = Len(p)
  BY KeysAre
<1>6. /\ RemoveAt(p, idx + 1) = a \o b
      /\ RemoveAt(ks, idx + 1) = SubSeq(ks, 1, idx) \o SubSeq(ks, idx + 2, Len(p))
  BY <1>1, <1>5 DEF RemoveAt
<1> HIDE DEF a, b, ks
<1>7. a \o b \in Seq(PyKey) /\ Len(a \o b) = idx + (Len(p) - idx - 1) /\ Keys(a \o b) = Keys(a) \o Keys(b)
  BY <1>2, <1>3, KeysOfConcat, ConcatProperties
<1>8. idx + (Len(p) - idx - 1) = Len(p) - 1
  BY <1>1
<1>. QED
  BY <1>2, <1>3, <1>6, <1>7, <1>8 DEF ks

\* An edit that cuts again from a segment on.
LEMMA CutHeld ==
  ASSUME NEW class \in Classes, NEW s, Good(class, s), ~s.stuck, NEW b \in Seq(Key),
         NEW j \in 0 .. Len(s.segs), NEW str \in Seq(PyKey), Keys(str) = b, KeysOf(s.segs, j) <= Len(str)
  PROVE  LET r == CutAgain(class, WithBuf(s, b), j, str, UINT_MAX)
         IN Held(class, r) /\ r.buf = b /\ Told(class, s, r)
<1> DEFINE q == WithBuf(s, b)
           at == KeysOf(s.segs, j)
           r == CutAgain(class, q, j, str, UINT_MAX)
<1>1. /\ Good(class, q) /\ q.buf = b /\ q.segs = s.segs /\ q.stuck = s.stuck
  BY BufSet
<1> HIDE DEF q
<1>2. UINT_MAX \in Nat
  BY DEF UINT_MAX
<1>3. j \in 0 .. Len(q.segs) /\ KeysOf(q.segs, j) = at /\ at <= Len(str) /\ ~q.stuck
  BY <1>1
<1>4. CutTo(class, q, r, at, str, UINT_MAX)
  <2>1. CutTo(class, q, r, KeysOf(q.segs, j), str, UINT_MAX)
    BY <1>1, <1>2, <1>3, Cuts
  <2>. QED
    BY <2>1, <1>3
<1>5. at \in Nat /\ Len(str) \in Nat
  <2>1. s.segs \in Seq(Segs)
    BY DEF Good, IsSegmentor
  <2>. QED
    BY <2>1, KeysOfSteps
<1> HIDE DEF r, at
<1>6. Good(class, r) /\ r.buf = b /\ (~r.stuck => Keys(r.pystr) = b)
  BY <1>1, <1>4 DEF CutTo
<1>7. Told(class, s, r)
  <2> SUFFICES ASSUME class # "shuangpin", ~r.stuck, r.updatedFrom # UINT_MAX
               PROVE  Before(s.segs, r.updatedFrom) = Before(r.segs, r.updatedFrom)
    BY DEF Told
  <2>1. /\ Len(str) = at => r.updatedFrom = UINT_MAX
        /\ Len(str) > at => r.updatedFrom <= at
        /\ r.updatedFrom <= at => Before(q.segs, r.updatedFrom) = Before(r.segs, r.updatedFrom)
    BY <1>4 DEF CutTo
  <2>2. Len(str) > at
    BY <2>1, <1>3, <1>5
  <2>. QED
    BY <2>1, <2>2, <1>1
<1>. QED
  BY <1>6, <1>7 DEF Held, q, r

\* What an edit makes of the segmentor s, held and not stuck.
EditOf(class, s, r) == Held(class, r) /\ Told(class, s, r) /\ (class = "hunpin" => ~r.stuck)

\* See Pushed.
LEMMA PushedHeld ==
  ASSUME NEW class \in Classes, NEW s, Held(class, s), ~s.stuck, NEW ch \in Key
  PROVE  EditOf(class, s, Pushed(class, s, ch)) /\ Pushed(class, s, ch).buf = Append(s.buf, ch)
<1> DEFINE b == Append(s.buf, ch)
           q == WithBuf(s, b)
           r == Pushed(class, s, ch)
<1>1. Good(class, s) /\ Keys(s.pystr) = s.buf /\ s.buf \in Seq(Key)
  BY DEF Held, Good, IsSegmentor
<1>2. r = _push(class, q, ch)
  BY DEF Pushed, WithBuf
<1>3. /\ Good(class, q) /\ q.buf = b /\ q.pystr = s.pystr /\ q.segs = s.segs /\ q.stuck = s.stuck
  <2>1. b \in Seq(Key)
    BY <1>1
  <2>2. Good(class, s)
    BY <1>1
  <2> HIDE DEF b
  <2>. QED
    BY <2>1, <2>2, BufSet
<1> HIDE DEF q, r, b
<1>4. PushOf(class, q, r, ch) /\ Good(class, r)
  BY <1>2, <1>3, Pushes
<1>a. q.buf = b
  BY <1>3
<1>5. /\ r.buf = b /\ (~r.stuck => Keys(r.pystr) = Append(Keys(q.pystr), ch))
      /\ (class = "hunpin" => ~r.stuck)
      /\ (class # "shuangpin" /\ ~r.stuck => Before(q.segs, r.updatedFrom) = Before(r.segs, r.updatedFrom))
  BY <1>4, <1>a DEF PushOf
<1>6. Held(class, r)
  BY <1>1, <1>3, <1>4, <1>5 DEF Held, b
<1>7. Told(class, s, r)
  BY <1>3, <1>5 DEF Told
<1>. QED
  BY <1>5, <1>6, <1>7 DEF EditOf, r, b

\* Which hunpin never is.
LEMMA CutEdit ==
  ASSUME NEW class \in Classes, NEW s, Good(class, s), ~s.stuck, NEW b \in Seq(Key),
         NEW j \in 0 .. Len(s.segs), NEW str \in Seq(PyKey), Keys(str) = b, KeysOf(s.segs, j) <= Len(str)
  PROVE  LET r == CutAgain(class, WithBuf(s, b), j, str, UINT_MAX)
         IN EditOf(class, s, r) /\ r.buf = b
<1> DEFINE r == CutAgain(class, WithBuf(s, b), j, str, UINT_MAX)
<1>1. Held(class, r) /\ r.buf = b /\ Told(class, s, r)
  BY CutHeld
<1> HIDE DEF r
<1>2. class = "hunpin" => ~r.stuck
  BY <1>1 DEF Held, Good
<1>. QED
  BY <1>1, <1>2 DEF EditOf, r

\* See InsertedAt.
LEMMA InsertedHeld ==
  ASSUME NEW class \in Classes, NEW s, Held(class, s), ~s.stuck, NEW idx \in Nat, idx < Len(s.buf), NEW ch \in Key
  PROVE  /\ EditOf(class, s, InsertedAt(class, s, idx, ch))
         /\ InsertedAt(class, s, idx, ch).buf = InsertAt(s.buf, idx + 1, ch)
<1> DEFINE b == InsertAt(s.buf, idx + 1, ch)
           str == InsertAt(s.pystr, idx + 1, Plain(ch))
           j == Located(s, idx)
           r == InsertedAt(class, s, idx, ch)
<1>1. /\ Good(class, s) /\ IsSegmentor(s) /\ Keys(s.pystr) = s.buf
      /\ s.buf \in Seq(Key) /\ s.pystr \in Seq(PyKey)
  BY DEF Held, Good, IsSegmentor
<1>2. Len(s.buf) = Len(s.pystr) /\ Len(s.pystr) \in Nat
  BY <1>1, KeysAre
<1>3. str \in Seq(PyKey) /\ Len(str) = Len(s.pystr) + 1 /\ Keys(str) = b
  <2>1. idx \in 0 .. Len(s.pystr)
    BY <1>2
  <2>. QED
    BY <2>1, <1>1, KeysInsert
<1>4. r = CutAgain(class, WithBuf(s, b), j, str, UINT_MAX)
  <2>1. WithBuf(s, b).segs = s.segs /\ WithBuf(s, b).pystr = s.pystr
    BY <1>1 DEF WithBuf, IsSegmentor, Fields
  <2>. QED
    BY <2>1 DEF InsertedAt, WithBuf
<1>5. j \in 0 .. Len(s.segs) /\ KeysOf(s.segs, j) \in Nat /\ KeysOf(s.segs, j) <= idx
  BY <1>1, LocatedBefore
<1> HIDE DEF j, r, str, b
<1>6. b \in Seq(Key) /\ KeysOf(s.segs, j) <= Len(str)
  <2>1. KeysOf(s.segs, j) <= Len(str)
    BY <1>2, <1>3, <1>5
  <2>. QED
    BY <2>1, <1>3, KeysAre
<1>. QED
  BY <1>1, <1>3, <1>4, <1>5, <1>6, CutEdit DEF r, b

\* See DeletedAt.
LEMMA DeletedHeld ==
  ASSUME NEW class \in Classes, NEW s, Held(class, s), ~s.stuck, NEW idx \in Nat, idx < Len(s.buf)
  PROVE  /\ EditOf(class, s, DeletedAt(class, s, idx))
         /\ DeletedAt(class, s, idx).buf = RemoveAt(s.buf, idx + 1)
<1> DEFINE b == RemoveAt(s.buf, idx + 1)
           str == RemoveAt(s.pystr, idx + 1)
           j == Located(s, idx)
           r == DeletedAt(class, s, idx)
<1>1. /\ Good(class, s) /\ IsSegmentor(s) /\ Keys(s.pystr) = s.buf
      /\ s.buf \in Seq(Key) /\ s.pystr \in Seq(PyKey)
  BY DEF Held, Good, IsSegmentor
<1>2. Len(s.buf) = Len(s.pystr) /\ Len(s.pystr) \in Nat
  BY <1>1, KeysAre
<1>3. str \in Seq(PyKey) /\ Len(str) = Len(s.pystr) - 1 /\ Keys(str) = b
  <2>1. idx < Len(s.pystr)
    BY <1>2
  <2>. QED
    BY <2>1, <1>1, KeysRemove
<1>4. r = CutAgain(class, WithBuf(s, b), j, str, UINT_MAX)
  <2>1. WithBuf(s, b).segs = s.segs /\ WithBuf(s, b).pystr = s.pystr
    BY <1>1 DEF WithBuf, IsSegmentor, Fields
  <2>. QED
    BY <2>1 DEF DeletedAt, WithBuf
<1>5. j \in 0 .. Len(s.segs) /\ KeysOf(s.segs, j) \in Nat /\ KeysOf(s.segs, j) <= idx
  BY <1>1, LocatedBefore
<1> HIDE DEF j, r, str, b
<1>6. b \in Seq(Key) /\ KeysOf(s.segs, j) <= Len(str)
  <2>1. KeysOf(s.segs, j) <= Len(str)
    BY <1>2, <1>3, <1>5
  <2>. QED
    BY <2>1, <1>3, KeysAre
<1>. QED
  BY <1>1, <1>3, <1>4, <1>5, <1>6, CutEdit DEF r, b

\* All but the last key.
LEMMA KeysFront ==
  ASSUME NEW p \in Seq(PyKey), Len(p) > 0
  PROVE  /\ Front(p) \in Seq(PyKey) /\ Len(Front(p)) = Len(p) - 1 /\ Keys(Front(p)) = Front(Keys(p))
         /\ Front(Keys(p)) \in Seq(Key)
<1> DEFINE n == Len(p)
<1>1. n \in Nat \ {0} /\ 1 \in 1 .. n + 1 /\ n - 1 \in 1 - 1 .. n /\ (n - 1) - 1 + 1 = n - 1
  OBVIOUS
<1>2. Len(Keys(p)) = n /\ Keys(p) \in Seq(Key)
  BY KeysAre
<1>3. /\ SubSeq(p, 1, n - 1) \in Seq(PyKey) /\ Len(SubSeq(p, 1, n - 1)) = (n - 1) - 1 + 1
      /\ Keys(SubSeq(p, 1, n - 1)) = SubSeq(Keys(p), 1, n - 1)
  BY <1>1, KeysOfPart
<1>4. Front(p) = SubSeq(p, 1, n - 1) /\ Front(Keys(p)) = SubSeq(Keys(p), 1, n - 1)
  BY <1>2 DEF Front
<1> DEFINE x == SubSeq(p, 1, n - 1)
           y == SubSeq(Keys(p), 1, n - 1)
<1>5. x \in Seq(PyKey) /\ Keys(x) \in Seq(Key)
  BY <1>3, KeysAre
<1>6. Len(x) = n - 1 /\ Keys(x) = y /\ Front(p) = x /\ Front(Keys(p)) = y
  BY <1>1, <1>3, <1>4
<1> HIDE DEF x, y
<1>. QED
  BY <1>5, <1>6

\* The segmentor without its last key and segment.
Shortened(s, b, p, segs, u) == [s EXCEPT !.buf = b, !.pystr = p, !.segs = segs, !.updatedFrom = u]

\* It is a segmentor.
LEMMA ShortenedIs ==
  ASSUME NEW s, IsSegmentor(s), NEW b \in Seq(Key), NEW p \in Seq(PyKey), NEW segs \in Seq(Segs), NEW u \in Nat
  PROVE  LET q == Shortened(s, b, p, segs, u)
         IN /\ IsSegmentor(q) /\ q.buf = b /\ q.stuck = s.stuck
            /\ q.pystr = p /\ q.segs = segs /\ q.updatedFrom = u
BY DEF IsSegmentor, Fields, Shortened

\* See Popped.
LEMMA PoppedHeld ==
  ASSUME NEW class \in Classes, class # "shuangpin", NEW s, Held(class, s), ~s.stuck, s.buf # << >>
  PROVE  EditOf(class, s, Popped(class, s)) /\ Popped(class, s).buf = Front(s.buf)
<1> DEFINE n == Len(s.buf)
           m == Len(s.segs)
           b == Front(s.buf)
           p == Front(s.pystr)
           x == Front(s.segs)
           r == Popped(class, s)
<1>1. /\ Good(class, s) /\ IsSegmentor(s) /\ Keys(s.pystr) = s.buf
      /\ s.buf \in Seq(Key) /\ s.pystr \in Seq(PyKey) /\ s.segs \in Seq(Segs) /\ Tiles(s.segs, Len(s.pystr))
  BY DEF Held, Good, Whole, IsSegmentor
<1>2. n = Len(s.pystr) /\ n \in Nat \ {0} /\ s.pystr # << >>
  <2>1. n = Len(s.pystr) /\ n \in Nat
    BY <1>1, KeysAre
  <2>2. n # 0
    BY <1>1
  <2>3. s.pystr # << >>
    BY <2>1, <2>2
  <2>. QED
    BY <2>1, <2>2, <2>3
<1>3. p \in Seq(PyKey) /\ Len(p) = n - 1 /\ Keys(p) = b /\ b \in Seq(Key)
  <2>1. Len(s.pystr) > 0
    BY <1>2
  <2>2. /\ Front(s.pystr) \in Seq(PyKey) /\ Len(Front(s.pystr)) = Len(s.pystr) - 1
        /\ Keys(Front(s.pystr)) = Front(Keys(s.pystr)) /\ Front(Keys(s.pystr)) \in Seq(Key)
    BY <1>1, <2>1, KeysFront
  <2>. QED
    BY <2>2, <1>1, <1>2
<1> HIDE DEF p, b
<1>4. m \in Nat \ {0} /\ n = EndOf(s.segs, m)
  <2>1. n = EndOf(s.segs, m) /\ m \in Nat
    BY <1>1, <1>2 DEF Tiles
  <2>2. m # 0
    BY <2>1, <1>2 DEF EndOf
  <2>. QED
    BY <2>1, <2>2
<1> DEFINE e == EndOf(s.segs, m - 1)
<1>5. /\ m - 1 \in 0 .. m /\ m \in 1 .. m /\ e \in Nat /\ e < n /\ KeysOf(s.segs, m - 1) = e
      /\ s.segs[m].start = e /\ n = s.segs[m].start + s.segs[m].len
  <2>1. m - 1 \in 0 .. m /\ m \in 1 .. m
    BY <1>4
  <2>2. e \in Nat
    BY <1>1, <2>1, Ends
  <2>3. e < n /\ KeysOf(s.segs, m - 1) = e
    BY <1>1, <1>4, <2>1, TiledKeys
  <2>4. s.segs[m].start = e
    BY <1>1, <2>1 DEF Tiles
  <2>5. n = s.segs[m].start + s.segs[m].len
    BY <1>4 DEF EndOf, End
  <2>. QED
    BY <2>1, <2>2, <2>3, <2>4, <2>5
<1> HIDE DEF e
<1>6. x \in Seq(Segs) /\ Len(x) = m - 1 /\ (\A i \in 1 .. m - 1 : x[i] = s.segs[i]) /\ Tiles(x, e)
  <2>1. x = SubSeq(s.segs, 1, m - 1)
    BY DEF Front
  <2>. QED
    BY <2>1, <1>1, <1>5, FirstTile DEF e
<1>7. r = IF s.segs[m].len = 1 THEN Shortened(s, b, p, x, n - 1)
          ELSE CutAgain(class, WithBuf(s, b), m - 1, p, UINT_MAX)
  BY <1>2 DEF Popped, Last, Shortened, WithBuf, b, p
<1> HIDE DEF r, x
<1>8. CASE s.segs[m].len = 1
  <2>1. e = n - 1 /\ n - 1 \in Nat
    BY <1>2, <1>5, <1>8
  <2>2. r = Shortened(s, b, p, x, n - 1)
    BY <1>7, <1>8
  <2>3. /\ IsSegmentor(r) /\ r.buf = b /\ r.stuck = s.stuck
        /\ r.pystr = p /\ r.segs = x /\ r.updatedFrom = n - 1
    <3>1. IsSegmentor(s) /\ b \in Seq(Key) /\ p \in Seq(PyKey) /\ x \in Seq(Segs)
      BY <1>1, <1>3, <1>6
    <3> DEFINE u == n - 1
    <3>2. u \in Nat /\ r = Shortened(s, b, p, x, u)
      BY <2>1, <2>2
    <3> HIDE DEF u
    <3>3. /\ IsSegmentor(r) /\ r.buf = b /\ r.stuck = s.stuck
          /\ r.pystr = p /\ r.segs = x /\ r.updatedFrom = u
      BY <3>1, <3>2, ShortenedIs
    <3>. QED
      BY <3>3 DEF u
  <2>4. Held(class, r)
    BY <2>1, <2>3, <1>3, <1>6 DEF Held, Good, Whole
  <2>5. Before(s.segs, n - 1) = Before(x, n - 1)
    <3> DEFINE u == n - 1
               k == m - 1
    <3>1. k \in 0 .. Len(s.segs) /\ k <= Len(x) /\ u \in Int
      BY <1>5, <1>6, <2>1
    <3>2. \A i \in k + 1 .. Len(s.segs) : i = m
      BY <1>4
    <3>3. \A i \in k + 1 .. Len(x) : FALSE
      BY <1>4, <1>6
    <3>4. \A i \in k + 1 .. Len(s.segs) : s.segs[i].start >= u
      BY <3>2, <1>5, <2>1
    <3>5. \A i \in 1 .. k : s.segs[i] = x[i]
      BY <1>6
    <3> HIDE DEF u, k
    <3>6. Before(s.segs, u) = Before(x, u)
      BY <3>1, <3>3, <3>4, <3>5, <1>1, <1>6, SameBefore
    <3>. QED
      BY <3>6 DEF u
  <2>. QED
    BY <2>3, <2>4, <2>5 DEF EditOf, Told, b, r
<1>9. CASE s.segs[m].len # 1
  <2>1. r = CutAgain(class, WithBuf(s, b), m - 1, p, UINT_MAX)
    BY <1>7, <1>9
  <2>2. KeysOf(s.segs, m - 1) <= Len(p)
    BY <1>2, <1>3, <1>5
  <2>3. EditOf(class, s, r) /\ r.buf = b
    BY <2>1, <2>2, <1>1, <1>3, <1>5, CutEdit
  <2>. QED
    BY <2>3 DEF b, r
<1>. QED
  BY <1>8, <1>9

-----------------------------------------------------------------------------
(* A mistyped syllable is put right.                                       *)

\* t is the segmentor s, but with the letters p, which its segments need not cover.
Lettered(t, s, p) ==
  t.pystr = p /\ t.segs = s.segs /\ \A q, x : LettersAndSegs(t, q, x) = LettersAndSegs(s, q, x)

\* See there.
LEMMA LettersSet ==
  ASSUME NEW s, IsSegmentor(s), NEW p
  PROVE  Lettered([s EXCEPT !.pystr = p], s, p)
BY DEF IsSegmentor, Fields, LettersAndSegs, Lettered

\* See ClearedFrom.
LEMMA ClearedIs ==
  ASSUME NEW class \in Classes, NEW s, Good(class, s), ~s.stuck, NEW p \in Seq(PyKey),
         NEW from \in 0 .. Len(p), NEW t, Lettered(t, s, p)
  PROVE  LET r == ClearedFrom(class, t, from)
         IN /\ Good(class, r) /\ r.buf = s.buf
            /\ ~r.stuck => Keys(r.pystr) = SubSeq(Keys(p), 1, from)
<1> DEFINE j == Located(s, from)
           str == SubSeq(p, 1, from)
           r == ClearedFrom(class, t, from)
<1>1. IsSegmentor(s) /\ from \in Nat /\ from <= Len(p) /\ Len(p) \in Nat
  BY DEF Good
<1>2. t.segs = s.segs /\ t.pystr = p
  BY DEF Lettered
<1>3. Located(t, from) = j
  BY <1>2 DEF Located
<1>4. r = CutAgain(class, s, j, str, from)
  <2>1. r = CutAgain(class, t, j, str, from)
    BY <1>2, <1>3 DEF ClearedFrom
  <2> HIDE DEF r, j, str
  <2> DEFINE at == KeysOf(s.segs, j)
             x == SubSeq(s.segs, 1, j)
             q == SubSeq(str, 1, at)
             ks == Keys(SubSeq(str, at + 1, Len(str)))
  <2>2. CutAgain(class, t, j, str, from) = UpdatedWith(class, LettersAndSegs(t, q, x), ks, from)
    BY <1>2 DEF CutAgain, LettersAndSegs
  <2>3. CutAgain(class, s, j, str, from) = UpdatedWith(class, LettersAndSegs(s, q, x), ks, from)
    BY DEF CutAgain, LettersAndSegs
  <2>4. LettersAndSegs(t, q, x) = LettersAndSegs(s, q, x)
    BY DEF Lettered
  <2>. QED
    BY <2>1, <2>2, <2>3, <2>4
<1>5. j \in 0 .. Len(s.segs) /\ KeysOf(s.segs, j) <= from
  BY <1>1, LocatedBefore
<1>6. str \in Seq(PyKey) /\ Len(str) = from /\ Keys(str) = SubSeq(Keys(p), 1, from)
  <2>1. 1 \in 1 .. Len(p) + 1 /\ from \in 1 - 1 .. Len(p) /\ from - 1 + 1 = from
    BY <1>1
  <2>. QED
    BY <2>1, KeysOfPart
<1> HIDE DEF r, j, str
<1>7. CutTo(class, s, r, KeysOf(s.segs, j), str, from)
  <2>1. KeysOf(s.segs, j) <= Len(str)
    BY <1>5, <1>6
  <2>. QED
    BY <2>1, <1>1, <1>4, <1>5, <1>6, Cuts
<1>8. Good(class, r) /\ r.buf = s.buf /\ (~r.stuck => Keys(r.pystr) = Keys(str))
  BY <1>7 DEF CutTo
<1>. QED
  BY <1>6, <1>8 DEF r

\* The last n keys of p are pushed again as ks.
LEMMA AgainIs ==
  ASSUME NEW s, Good("quanpin", s), ~s.stuck, NEW p \in Seq(PyKey), NEW n \in 0 .. Len(p), NEW ks \in Seq(Key),
         NEW t, Lettered(t, s, p)
  PROVE  LET r == Again(t, n, ks)
         IN /\ Good("quanpin", r) /\ r.buf = s.buf
            /\ ~r.stuck => Keys(r.pystr) = SubSeq(Keys(p), 1, Len(p) - n) \o ks
<1> DEFINE c == ClearedFrom("quanpin", t, Len(p) - n)
           r == Again(t, n, ks)
<1>1. t.pystr = p
  BY DEF Lettered
<1>2. r = UpdatedWith("quanpin", c, ks, UINT_MAX)
  BY <1>1 DEF Again
<1>3. "quanpin" \in Classes /\ Len(p) - n \in 0 .. Len(p) /\ UINT_MAX \in Nat
  BY DEF Classes, UINT_MAX
<1>4. /\ Good("quanpin", c) /\ c.buf = s.buf
      /\ ~c.stuck => Keys(c.pystr) = SubSeq(Keys(p), 1, Len(p) - n)
  BY <1>3, ClearedIs
<1> HIDE DEF c, r
<1>5. UpdatedTo("quanpin", c, r, ks, UINT_MAX)
  BY <1>2, <1>3, <1>4, Updates
<1>6. /\ Good("quanpin", r) /\ r.buf = c.buf
      /\ (c.stuck => r.stuck) /\ (~r.stuck => Keys(r.pystr) = Keys(c.pystr) \o ks)
  BY <1>5 DEF UpdatedTo
<1>7. c.stuck \in BOOLEAN /\ r.stuck \in BOOLEAN
  BY <1>4, <1>6 DEF Good, IsSegmentor
<1>. QED
  BY <1>4, <1>6, <1>7 DEF r

\* A tiling whose last segment is given d more keys.
LEMMA LastLonger ==
  ASSUME NEW x \in Seq(Segs), NEW n, Tiles(x, n), Len(x) > 0, NEW d \in Nat
  PROVE  LET y == [x EXCEPT ![Len(x)].len = @ + d] IN y \in Seq(Segs) /\ Len(y) = Len(x) /\ Tiles(y, n + d)
<1> DEFINE m == Len(x)
           l == x[m].len + d
           last == [x[m] EXCEPT !.len = l]
           y == [x EXCEPT ![m] = last]
<1>1. m \in Nat \ {0} /\ m \in 1 .. m /\ x[m] \in Segs
  OBVIOUS
<1>2. [x EXCEPT ![Len(x)].len = @ + d] = y
  OBVIOUS
<1>3. x[m].len \in Nat \ {0} /\ l \in Nat \ {0}
  BY <1>1, SegFacts
<1>4. last \in Segs /\ last.start = x[m].start /\ last.len = l
  <2> DEFINE old == x[m]
  <2>1. old \in Segs /\ l \in Nat \ {0}
    BY <1>1, <1>3
  <2> HIDE DEF l, old
  <2>. QED
    BY <2>1 DEF Segs, old
<1> HIDE DEF last
<1>5. y \in Seq(Segs) /\ Len(y) = m /\ y[m] = last /\ \A i \in 1 .. m : i # m => y[i] = x[i]
  BY <1>1, <1>4
<1> HIDE DEF y
<1>6. ASSUME NEW i \in 1 .. m PROVE y[i].start = EndOf(y, i - 1)
  <2>1. y[i].start = x[i].start
    BY <1>4, <1>5
  <2>2. EndOf(y, i - 1) = EndOf(x, i - 1)
    <3>1. i - 1 # 0 => i - 1 \in 1 .. m /\ i - 1 # m
      BY <1>1
    <3>. QED
      BY <3>1, <1>5 DEF EndOf
  <2>. QED
    BY <2>1, <2>2 DEF Tiles
<1>7. n + d = EndOf(y, m)
  <2>1. n = x[m].start + x[m].len
    BY <1>1 DEF Tiles, EndOf, End
  <2>2. EndOf(y, m) = x[m].start + l
    BY <1>1, <1>4, <1>5 DEF EndOf, End
  <2>3. x[m].start \in Nat
    BY <1>1, SegFacts
  <2> DEFINE a == x[m].start
             b == x[m].len
  <2>4. a \in Nat /\ b \in Nat /\ n = a + b /\ EndOf(y, m) = a + (b + d)
    BY <2>1, <2>2, <2>3, <1>3
  <2> HIDE DEF a, b
  <2>. QED
    BY <2>4
<1>8. Tiles(y, n + d)
  BY <1>5, <1>6, <1>7 DEF Tiles
<1>. QED
  BY <1>2, <1>5, <1>8

\* See Mistyped.
LEMMA MistypedIs ==
  ASSUME NEW p \in Seq(PyKey), NEW pair \in Mistyped(p)
  PROVE  /\ pair[1] \in Seq(Key) /\ pair[2] \in Seq(Key)
         /\ Len(pair[1]) \in 1 .. Len(p) /\ Len(pair[2]) \in 1 .. Len(pair[1])
<1> DEFINE hits == {k \in DOMAIN CorrectionPairs :
                     LET l == Len(CorrectionPairs[k][1])
                     IN l <= Len(p) /\ Ending(p, l) = [j \in 1 .. l |-> Plain(CorrectionPairs[k][1][j])]}
<1>1. hits # {} /\ pair = CorrectionPairs[Min(hits)]
  BY DEF Mistyped
<1>2. hits \in SUBSET Nat /\ hits \subseteq DOMAIN CorrectionPairs
  BY CorrectionAssumption
<1>3. \A k \in hits : Len(CorrectionPairs[k][1]) <= Len(p)
  OBVIOUS
<1> HIDE DEF hits
<1>4. Min(hits) \in hits
  BY <1>1, <1>2, LeastNumber DEF Min
<1>5. PICK k \in DOMAIN CorrectionPairs : pair = CorrectionPairs[k] /\ Len(pair[1]) <= Len(p)
  BY <1>1, <1>2, <1>3, <1>4
<1>6. CorrectionPairs[k] \in Seq(Letters) \X Seq(Letters)
  BY CorrectionAssumption
<1>7. Seq(Letters) \subseteq Seq(Key)
  BY DEF Key
<1>8. pair[1] \in Seq(Letters) /\ pair[2] \in Seq(Letters)
  BY <1>5, <1>6
<1>9. Len(pair[2]) \in 1 .. Len(pair[1])
  BY <1>5, CorrectionAssumption
<1>10. Len(pair[1]) \in Nat /\ Len(p) \in Nat
  BY <1>8
<1>. QED
  BY <1>5, <1>7, <1>8, <1>9, <1>10

\* Keys are letters that match.
LEMMA PlainKeys ==
  ASSUME NEW ks \in Seq(Key)
  PROVE  LET p == [k \in 1 .. Len(ks) |-> Plain(ks[k])]
         IN p \in Seq(PyKey) /\ Len(p) = Len(ks) /\ Keys(p) = ks
<1> DEFINE p == [k \in 1 .. Len(ks) |-> Plain(ks[k])]
           n == Len(ks)
<1>1. n \in Nat /\ \A k \in 1 .. n : ks[k] \in Key
  OBVIOUS
<1>2. \A k \in 1 .. n : Plain(ks[k]) \in PyKey /\ Plain(ks[k]).ch = ks[k]
  BY <1>1, KeysOfOne
<1> HIDE DEF Plain
<1>3. p \in Seq(PyKey) /\ Len(p) = n /\ \A k \in 1 .. n : p[k].ch = ks[k]
  BY <1>1, <1>2
<1> HIDE DEF p, n
<1>4. Keys(p) \in Seq(Key) /\ Len(Keys(p)) = n /\ \A k \in 1 .. n : Keys(p)[k] = p[k].ch
  BY <1>3, KeysAre
<1>5. Keys(p) = ks
  BY <1>1, <1>3, <1>4, SeqEqual DEF n
<1>. QED
  BY <1>3, <1>5 DEF p, n

\* A sequence is what comes before its ending and the ending.
LEMMA EndingJoins ==
  ASSUME NEW x \in Seq(Key), NEW l \in 0 .. Len(x)
  PROVE  Ending(x, l) \in Seq(Key) /\ Len(Ending(x, l)) = l /\ SubSeq(x, 1, Len(x) - l) \o Ending(x, l) = x
<1> DEFINE at == Len(x) - l
<1>1. at \in 0 .. Len(x) /\ Len(x) - at = l /\ Len(x) - l + 1 = at + 1
  OBVIOUS
<1>2. Ending(x, l) = SubSeq(x, at + 1, Len(x))
  BY DEF Ending
<1> HIDE DEF at
<1>3. /\ SubSeq(x, at + 1, Len(x)) \in Seq(Key) /\ Len(SubSeq(x, at + 1, Len(x))) = Len(x) - at
      /\ SubSeq(x, 1, at) \o SubSeq(x, at + 1, Len(x)) = x
  BY <1>1, PartsJoin
<1>. QED
  BY <1>1, <1>2, <1>3 DEF at

\* See Corrected.
LEMMA CorrectedHeld ==
  ASSUME NEW s, Good("quanpin", s), ~s.stuck, NEW p \in Seq(PyKey), Keys(p) = s.buf,
         NEW pair \in Mistyped(p)
  PROVE  Held("quanpin", Corrected(s, p, pair)) /\ Corrected(s, p, pair).buf = s.buf
<1> DEFINE class == "quanpin"
           b == s.buf
           N == Len(p)
           l == Len(pair[1])
           l2 == Len(pair[2])
           new == pair[2]
           keys == Ending(b, l)
           t == [s EXCEPT !.pystr = p]
           meant == Again(t, l, new)
           again == Again(meant, l2, keys)
           m == Len(meant.segs)
           d == l - l2
           segs == [meant.segs EXCEPT ![m].len = @ + d]
           kept == SubSeq(meant.pystr, 1, N - l)
           typed == [k \in 1 .. l |-> Plain(keys[k])]
           whole == kept \o typed
           last == LettersAndSegs(meant, whole, segs)
           r == Corrected(s, p, pair)
<1>1. /\ IsSegmentor(s) /\ b \in Seq(Key) /\ N \in Nat /\ Len(b) = N
      /\ new \in Seq(Key) /\ Len(new) = l2 /\ l \in 1 .. N /\ l2 \in 1 .. l /\ l \in Nat /\ l2 \in Nat
      /\ d \in Nat /\ N - l \in Nat /\ l \in 0 .. N
  <2>1. IsSegmentor(s) /\ b \in Seq(Key)
    BY DEF Good, IsSegmentor
  <2>2. N \in Nat /\ Len(b) = N
    BY KeysAre
  <2>3. pair[2] \in Seq(Key) /\ l \in 1 .. N /\ l2 \in 1 .. l
    BY MistypedIs
  <2>. QED
    BY <2>1, <2>2, <2>3
<1>2. r = IF meant.stuck THEN meant ELSE IF m >= Len(s.segs) THEN again ELSE last
  <2>1. t.pystr = p
    BY <1>1 DEF IsSegmentor, Fields
  <2>2. t.segs = s.segs /\ t.buf = b
    BY <1>1 DEF IsSegmentor, Fields
  <2>. QED
    BY <2>1, <2>2, <1>1 DEF Corrected, Again, LettersAndSegs
<1>3. keys \in Seq(Key) /\ Len(keys) = l /\ SubSeq(b, 1, N - l) \o keys = b
  <2>1. l \in 0 .. Len(b) /\ Len(b) - l = N - l
    BY <1>1
  <2>. QED
    BY <2>1, <1>1, EndingJoins
<1>4. Lettered(t, s, p)
  BY <1>1, LettersSet
<1> HIDE DEF r, t, keys, new, l, l2
<1>5. /\ Good(class, meant) /\ meant.buf = b
      /\ ~meant.stuck => Keys(meant.pystr) = SubSeq(b, 1, N - l) \o new
  <2>1. l \in 0 .. Len(p) /\ new \in Seq(Key)
    BY <1>1
  <2>2. /\ Good("quanpin", meant) /\ meant.buf = s.buf
        /\ ~meant.stuck => Keys(meant.pystr) = SubSeq(Keys(p), 1, Len(p) - l) \o new
    BY <2>1, <1>4, AgainIs
  <2>. QED
    BY <2>2
<1> HIDE DEF meant, N
<1>6. CASE meant.stuck
  BY <1>2, <1>5, <1>6 DEF Held, r
<1>7. ASSUME ~meant.stuck
      PROVE  /\ meant.pystr \in Seq(PyKey) /\ Len(meant.pystr) = N - l + l2
             /\ SubSeq(Keys(meant.pystr), 1, N - l) = SubSeq(b, 1, N - l)
  <2> DEFINE x == SubSeq(b, 1, N - l)
             y == new
             z == Keys(meant.pystr)
  <2>1. x \in Seq(Key) /\ Len(x) = N - l /\ Len(y) = l2
    <3> DEFINE at == N - l
    <3>1. at \in 0 .. Len(b)
      BY <1>1
    <3> HIDE DEF at
    <3>2. SubSeq(b, 1, at) \in Seq(Key) /\ Len(SubSeq(b, 1, at)) = at
      BY <3>1, <1>1, PartsJoin
    <3>. QED
      BY <3>2, <1>1 DEF at
  <2>2. z = x \o y /\ y \in Seq(Key)
    BY <1>1, <1>5, <1>7
  <2>3. meant.pystr \in Seq(PyKey) /\ Len(z) = Len(meant.pystr)
    <3>1. meant.pystr \in Seq(PyKey)
      BY <1>5 DEF Good, IsSegmentor
    <3>. QED
      BY <3>1, KeysAre
  <2> HIDE DEF x, y, z
  <2>4. Len(z) = Len(x) + Len(y) /\ SubSeq(z, 1, Len(x)) = x
    <3>a. x \o y \in Seq(Key) /\ Len(x \o y) = Len(x) + Len(y) /\ \A i \in 1 .. Len(x) : (x \o y)[i] = x[i]
      BY <2>1, <2>2, ConcatProperties
    <3>1. z \in Seq(Key) /\ Len(z) = Len(x) + Len(y) /\ \A i \in 1 .. Len(x) : z[i] = x[i]
      BY <3>a, <2>2
    <3>2. Len(x) \in 0 .. Len(z) /\ Len(y) \in Nat
      BY <3>1, <2>1, <2>2
    <3>3. /\ SubSeq(z, 1, Len(x)) \in Seq(Key) /\ Len(SubSeq(z, 1, Len(x))) = Len(x)
          /\ \A i \in 1 .. Len(x) : SubSeq(z, 1, Len(x))[i] = z[i]
      BY <3>1, <3>2
    <3>4. SubSeq(z, 1, Len(x)) = x
      BY <3>1, <3>3, <2>1, SeqEqual
    <3>. QED
      BY <3>1, <3>4
  <2>. QED
    BY <2>1, <2>3, <2>4 DEF x, y, z
<1>8. CASE ~meant.stuck /\ m >= Len(s.segs)
  <2>1. r = again
    BY <1>2, <1>8
  <2>2. l2 \in 0 .. Len(meant.pystr) /\ Len(meant.pystr) - l2 = N - l
    <3>1. Len(meant.pystr) = N - l + l2
      BY <1>7, <1>8
    <3>2. N - l \in Nat /\ l2 \in Nat /\ N \in Nat /\ l \in Nat
      BY <1>1
    <3>. QED
      BY <3>1, <3>2
  <2>3. Lettered(meant, meant, meant.pystr)
    BY DEF Lettered
  <2>4. Good("quanpin", meant) /\ ~meant.stuck /\ meant.pystr \in Seq(PyKey)
    BY <1>5, <1>7, <1>8
  <2>5. /\ Good("quanpin", again) /\ again.buf = meant.buf
        /\ ~again.stuck => Keys(again.pystr) = SubSeq(Keys(meant.pystr), 1, Len(meant.pystr) - l2) \o keys
    <3> DEFINE q == meant.pystr
    <3>1. q \in Seq(PyKey) /\ l2 \in 0 .. Len(q) /\ keys \in Seq(Key) /\ Lettered(meant, meant, q)
      BY <2>2, <2>3, <2>4, <1>3
    <3>2. Good("quanpin", meant) /\ ~meant.stuck
      BY <2>4
    <3> HIDE DEF q
    <3>3. /\ Good("quanpin", again) /\ again.buf = meant.buf
          /\ ~again.stuck => Keys(again.pystr) = SubSeq(Keys(q), 1, Len(q) - l2) \o keys
      BY <3>1, <3>2, AgainIs
    <3>. QED
      BY <3>3 DEF q
  <2> HIDE DEF again
  <2>6. Held(class, r) /\ r.buf = b
    BY <2>1, <2>2, <2>5, <1>3, <1>5, <1>7, <1>8 DEF Held
  <2>. QED
    BY <2>6 DEF r
<1>9. CASE ~meant.stuck /\ ~(m >= Len(s.segs))
  <2>1. r = last
    BY <1>2, <1>9
  <2>2. /\ kept \in Seq(PyKey) /\ Len(kept) = N - l /\ Keys(kept) = SubSeq(b, 1, N - l)
    <3> DEFINE at == N - l
    <3>1. 1 \in 1 .. Len(meant.pystr) + 1 /\ at \in 1 - 1 .. Len(meant.pystr) /\ at - 1 + 1 = at
      <4>1. Len(meant.pystr) = N - l + l2 /\ N - l \in Nat /\ l2 \in Nat
        BY <1>1, <1>7, <1>9
      <4> HIDE DEF at
      <4>2. Len(meant.pystr) = at + l2 /\ at \in Nat /\ l2 \in Nat
        BY <4>1 DEF at
      <4>. QED
        BY <4>2
    <3> HIDE DEF at
    <3>2. /\ SubSeq(meant.pystr, 1, at) \in Seq(PyKey) /\ Len(SubSeq(meant.pystr, 1, at)) = at - 1 + 1
          /\ Keys(SubSeq(meant.pystr, 1, at)) = SubSeq(Keys(meant.pystr), 1, at)
      BY <3>1, <1>7, <1>9, KeysOfPart
    <3>. QED
      BY <3>1, <3>2, <1>7, <1>9 DEF at
  <2>3. typed \in Seq(PyKey) /\ Len(typed) = l /\ Keys(typed) = keys
    BY <1>3, PlainKeys
  <2> HIDE DEF kept, typed
  <2>4. whole \in Seq(PyKey) /\ Len(whole) = N - l + l /\ Keys(whole) = b
    BY <2>2, <2>3, <1>3, KeysOfConcat
  <2>5. Len(whole) = N
    BY <2>4, <1>1
  <2> HIDE DEF whole
  <2>6. meant.segs \in Seq(Segs) /\ IsSegmentor(meant) /\ Tiles(meant.segs, N - l + l2)
    BY <1>5, <1>7, <1>9 DEF Good, Whole, IsSegmentor
  <2>7. m > 0
    <3>1. m \in Nat
      BY <2>6
    <3>2. m = 0 => N - l + l2 = 0
      BY <2>6 DEF Tiles, EndOf
    <3>. QED
      BY <3>1, <3>2, <1>1
  <2> HIDE DEF d
  <2>8. segs \in Seq(Segs) /\ Tiles(segs, N - l + l2 + d)
    BY <2>6, <2>7, <1>1, LastLonger
  <2>9. N - l + l2 + d = N
    BY <1>1 DEF d
  <2> HIDE DEF segs
  <2>10. /\ IsSegmentor(last) /\ last.buf = meant.buf /\ last.stuck = meant.stuck
         /\ last.pystr = whole /\ last.segs = segs
    <3>1. IsSegmentor(meant) /\ whole \in Seq(PyKey) /\ segs \in Seq(Segs)
      BY <2>4, <2>6, <2>8
    <3>. QED
      BY <3>1, LettersAndSegsSet
  <2> HIDE DEF last
  <2>11. Held(class, last) /\ last.buf = b
    BY <2>4, <2>5, <2>8, <2>9, <2>10, <1>5, <1>9 DEF Held, Good, Whole
  <2>. QED
    BY <2>1, <2>11 DEF r
<1>. QED
  BY <1>6, <1>8, <1>9

-----------------------------------------------------------------------------
(* The edits of shuangpin.                                                 *)

\* Of shuangpin, only the keys matter.
LEMMA ShuangpinUpdated ==
  ASSUME NEW s, NEW t, IsSegmentor(t), NEW ks \in Seq(Key), Keys(t.pystr) \o ks = t.buf
  PROVE  LET r == UpdatedWith("shuangpin", t, ks, UINT_MAX) IN EditOf("shuangpin", s, r) /\ r.buf = t.buf
<1> DEFINE r == UpdatedWith("shuangpin", t, ks, UINT_MAX)
<1>1. "shuangpin" \in Classes /\ UINT_MAX \in Nat
  BY DEF Classes, UINT_MAX
<1>2. Good("shuangpin", t)
  <2>1. t.stuck \in BOOLEAN
    BY DEF IsSegmentor
  <2>. QED
    BY <2>1 DEF Good, Whole
<1> HIDE DEF r
<1>3. UpdatedTo("shuangpin", t, r, ks, UINT_MAX)
  BY <1>1, <1>2, Updates DEF r
<1>4. Good("shuangpin", r) /\ r.buf = t.buf /\ (~r.stuck => Keys(r.pystr) = Keys(t.pystr) \o ks)
  BY <1>3 DEF UpdatedTo
<1>5. EditOf("shuangpin", s, r)
  BY <1>4 DEF EditOf, Held, Told
<1>. QED
  BY <1>4, <1>5 DEF r

\* See Stuck.
LEMMA ShuangpinStuck ==
  ASSUME NEW s, NEW t, IsSegmentor(t)
  PROVE  EditOf("shuangpin", s, Stuck(t)) /\ Stuck(t).buf = t.buf
<1> DEFINE r == Stuck(t)
<1>1. IsSegmentor(r) /\ r.buf = t.buf /\ r.stuck = TRUE
  BY StuckIs
<1> HIDE DEF r
<1>. QED
  BY <1>1 DEF EditOf, Held, Told, Good, r

\* A segmentor whose letters are the keys.
LEMMA ShuangpinHeld ==
  ASSUME NEW s, NEW t, IsSegmentor(t), Keys(t.pystr) = t.buf
  PROVE  EditOf("shuangpin", s, t)
<1>1. t.stuck \in BOOLEAN
  BY DEF IsSegmentor
<1>. QED
  BY <1>1 DEF EditOf, Held, Told, Good, Whole

\* See CutBack.
LEMMA CutBackIs ==
  ASSUME NEW s, IsSegmentor(s), NEW j \in 0 .. Len(s.segs), NEW at \in 0 .. Len(s.pystr)
  PROVE  LET q == CutBack(s, j, at)
         IN /\ IsSegmentor(q) /\ q.buf = s.buf /\ q.stuck = s.stuck
            /\ q.pystr = SubSeq(s.pystr, 1, at) /\ q.segs = SubSeq(s.segs, 1, j)
<1> DEFINE x == SubSeq(s.segs, 1, j)
           p == SubSeq(s.pystr, 1, at)
<1>1. s.segs \in Seq(Segs) /\ s.pystr \in Seq(PyKey)
  BY DEF IsSegmentor
<1>2. x \in Seq(Segs) /\ p \in Seq(PyKey)
  BY <1>1, PartsJoin
<1>3. CutBack(s, j, at) = LettersAndSegs(s, p, x)
  BY DEF CutBack, LettersAndSegs
<1> HIDE DEF x, p
<1> DEFINE q == LettersAndSegs(s, p, x)
<1>4. IsSegmentor(q) /\ q.buf = s.buf /\ q.stuck = s.stuck /\ q.pystr = p /\ q.segs = x
  BY <1>2, LettersAndSegsSet
<1> HIDE DEF q
<1>5. CutBack(s, j, at) = q
  BY <1>3 DEF q
<1>. QED
  BY <1>4, <1>5 DEF x, p

\* The segmentor with another input, not cut yet.
Retyped(s, b, p) == [s EXCEPT !.buf = b, !.pystr = p]

\* It is a segmentor.
LEMMA RetypedIs ==
  ASSUME NEW s, IsSegmentor(s), NEW b \in Seq(Key), NEW p \in Seq(PyKey)
  PROVE  LET q == Retyped(s, b, p)
         IN IsSegmentor(q) /\ q.buf = b /\ q.pystr = p /\ q.segs = s.segs /\ q.stuck = s.stuck
BY DEF IsSegmentor, Fields, Retyped

\* See ShuangpinPopped.
LEMMA ShuangpinPoppedHeld ==
  ASSUME NEW s, Held("shuangpin", s), ~s.stuck, s.buf # << >>
  PROVE  EditOf("shuangpin", s, ShuangpinPopped(s)) /\
         (~ShuangpinPopped(s).stuck => ShuangpinPopped(s).buf = Front(s.buf))
<1> DEFINE n == Len(s.buf)
           l == Last(s.segs).len
           b == Front(s.buf)
           x == Front(s.segs)
           p == SubSeq(s.pystr, 1, n - l)
           ks == Keys(SubSeq(s.pystr, n - l + 1, n - 1))
           alpha == IF isInputPy(Last(s.pystr).ch) THEN s.nAlpha ELSE 1 - s.nAlpha
           left == [s EXCEPT !.buf = b, !.nAlpha = alpha, !.segs = x, !.pystr = p]
           invalid == left.hasInvalid /\ left.segs # << >> /\ Last(left.segs).type = "invalid"
           freed == [left EXCEPT !.hasInvalid = invalid]
           popped == [freed EXCEPT !.updatedFrom = n - 1]
           lost == s.segs = << >> \/ l > n \/ (n > 1 /\ left.segs = << >> /\ s.hasInvalid)
           r == ShuangpinPopped(s)
<1>1. /\ IsSegmentor(s) /\ Keys(s.pystr) = s.buf
      /\ s.buf \in Seq(Key) /\ s.pystr \in Seq(PyKey) /\ s.segs \in Seq(Segs)
  BY DEF Held, Good, IsSegmentor
<1>2. n = Len(s.pystr) /\ n \in Nat \ {0} /\ s.pystr # << >>
  <2>1. n = Len(s.pystr) /\ n \in Nat
    BY <1>1, KeysAre
  <2>2. n # 0
    BY <1>1
  <2>3. s.pystr # << >>
    BY <2>1, <2>2
  <2>. QED
    BY <2>1, <2>2, <2>3
<1>3. r = IF lost THEN Stuck(s) ELSE IF l = 1 THEN popped ELSE UpdatedWith("shuangpin", freed, ks, UINT_MAX)
  BY <1>2 DEF ShuangpinPopped
<1>4. CASE lost
  <2>1. r = Stuck(s)
    BY <1>3, <1>4
  <2>2. EditOf("shuangpin", s, Stuck(s)) /\ Stuck(s).stuck = TRUE
    BY <1>1, ShuangpinStuck, StuckIs
  <2>. QED
    BY <2>1, <2>2
<1>5. ASSUME ~lost
      PROVE  /\ l \in 1 .. n /\ IsSegmentor(freed) /\ freed.buf = b /\ freed.pystr = p /\ b \in Seq(Key)
             /\ Keys(p) = SubSeq(s.buf, 1, n - l) /\ ks \in Seq(Key) /\ ks = SubSeq(s.buf, n - l + 1, n - 1)
  <2>1. s.segs # << >> /\ ~(l > n)
    BY <1>5
  <2> HIDE DEF lost
  <2>2. Len(s.segs) \in Nat \ {0}
    BY <2>1, <1>1
  <2>3. l \in 1 .. n
    <3>1. s.segs[Len(s.segs)] \in Segs
      BY <2>2, <1>1
    <3>2. l \in Nat /\ l > 0
      BY <3>1, SegFacts DEF Last
    <3>. QED
      BY <3>2, <2>1, <1>2
  <2> HIDE DEF l
  <2>4. p \in Seq(PyKey) /\ Keys(p) = SubSeq(s.buf, 1, n - l)
    <3> DEFINE at == n - l
    <3>1. 1 \in 1 .. Len(s.pystr) + 1 /\ at \in 1 - 1 .. Len(s.pystr)
      BY <2>3, <1>2
    <3> HIDE DEF at
    <3>2. SubSeq(s.pystr, 1, at) \in Seq(PyKey) /\ Keys(SubSeq(s.pystr, 1, at)) = SubSeq(Keys(s.pystr), 1, at)
      BY <3>1, <1>1, KeysOfPart
    <3>. QED
      BY <3>2, <1>1 DEF at
  <2>5. ks \in Seq(Key) /\ ks = SubSeq(s.buf, n - l + 1, n - 1)
    <3> DEFINE at == n - l + 1
               to == n - 1
    <3>1. at \in 1 .. Len(s.pystr) + 1 /\ to \in at - 1 .. Len(s.pystr)
      BY <2>3, <1>2
    <3> HIDE DEF at, to
    <3>2. SubSeq(s.pystr, at, to) \in Seq(PyKey) /\ Keys(SubSeq(s.pystr, at, to)) = SubSeq(Keys(s.pystr), at, to)
      BY <3>1, <1>1, KeysOfPart
    <3> DEFINE y == SubSeq(s.pystr, at, to)
    <3> HIDE DEF y
    <3>3. y \in Seq(PyKey) /\ Keys(y) = SubSeq(Keys(s.pystr), at, to)
      BY <3>2 DEF y
    <3>4. Keys(y) \in Seq(Key)
      BY <3>3, KeysAre
    <3>. QED
      BY <3>3, <3>4, <1>1 DEF at, to, y
  <2>6. b \in Seq(Key)
    <3>1. Front(Keys(s.pystr)) \in Seq(Key)
      BY <1>1, <1>2, KeysFront
    <3>. QED
      BY <3>1, <1>1
  <2>7. x \in Seq(Segs)
    <3>1. Len(s.segs) - 1 \in 0 .. Len(s.segs)
      BY <2>2
    <3>2. SubSeq(s.segs, 1, Len(s.segs) - 1) \in Seq(Segs)
      BY <3>1, <1>1, PartsJoin
    <3>. QED
      BY <3>2 DEF Front
  <2> HIDE DEF p, ks, b, x, alpha
  <2>8. IsSegmentor(left) /\ left.buf = b /\ left.pystr = p
    BY <2>4, <2>6, <2>7, <1>1 DEF IsSegmentor, Fields
  <2> HIDE DEF left
  <2>9. Kin(left, freed)
    BY <2>8, KinCounts
  <2>10. IsSegmentor(freed) /\ freed.buf = b /\ freed.pystr = p
    BY <2>8, <2>9 DEF Kin
  <2>. QED
    BY <2>3, <2>4, <2>5, <2>6, <2>10
<1> HIDE DEF freed, p, ks, r, lost
<1>6. CASE ~lost /\ l = 1
  <2>1. r = popped
    BY <1>3, <1>6
  <2>2. IsSegmentor(popped) /\ popped.buf = b /\ popped.pystr = p
    <3>1. n - 1 \in Nat
      BY <1>2
    <3>. QED
      BY <3>1, <1>5, <1>6 DEF IsSegmentor, Fields
  <2>3. b = Keys(p)
    BY <1>5, <1>6 DEF Front
  <2>4. EditOf("shuangpin", s, popped)
    BY <2>2, <2>3, ShuangpinHeld
  <2>. QED
    BY <2>1, <2>2, <2>4 DEF r
<1>7. CASE ~lost /\ l # 1
  <2>1. r = UpdatedWith("shuangpin", freed, ks, UINT_MAX)
    BY <1>3, <1>7
  <2>2. Keys(freed.pystr) \o ks = freed.buf
    <3>1. b \in Seq(Key) /\ Len(b) = n - 1 /\ \A i \in 1 .. n - 1 : b[i] = s.buf[i]
      BY <1>1, <1>2 DEF Front
    <3> DEFINE at == n - l
    <3>2. at \in 0 .. Len(b) /\ n - l + 1 = at + 1
      BY <3>1, <1>2, <1>5, <1>7
    <3> HIDE DEF at
    <3>3. SubSeq(b, 1, at) \o SubSeq(b, at + 1, Len(b)) = b
      BY <3>1, <3>2, PartsJoin
    <3>4. SubSeq(b, 1, at) = SubSeq(s.buf, 1, at) /\ SubSeq(b, at + 1, Len(b)) = SubSeq(s.buf, at + 1, n - 1)
      <4>1. Len(s.buf) = n /\ n \in Nat /\ at \in 0 .. n - 1
        BY <3>1, <3>2, <1>2
      <4> HIDE DEF b, n
      <4>2. SubSeq(b, 1, at) = SubSeq(s.buf, 1, at)
        BY <3>1, <4>1, <1>1
      <4>3. SubSeq(b, at + 1, Len(b)) = SubSeq(s.buf, at + 1, n - 1)
        BY <3>1, <4>1, <1>1
      <4>. QED
        BY <4>2, <4>3
    <3>. QED
      BY <3>2, <3>3, <3>4, <1>5, <1>7 DEF at
  <2>3. IsSegmentor(freed) /\ ks \in Seq(Key) /\ freed.buf = b
    BY <1>5, <1>7
  <2>4. EditOf("shuangpin", s, r) /\ r.buf = b
    BY <2>1, <2>2, <2>3, ShuangpinUpdated
  <2>. QED
    BY <2>4 DEF r
<1>. QED
  BY <1>4, <1>6, <1>7

\* A sequence with one of its elements at its place.
LEMMA ElementJoins ==
  ASSUME NEW x \in Seq(Key), NEW at \in 1 .. Len(x)
  PROVE  SubSeq(x, 1, at - 1) \o (<<x[at]>> \o SubSeq(x, at + 1, Len(x))) = x
<1> DEFINE n == Len(x)
           a == SubSeq(x, 1, at - 1)
           b == SubSeq(x, at, n)
           c == SubSeq(x, at + 1, n)
           d == <<x[at]>> \o c
<1>1. n \in Nat /\ at \in 1 .. n /\ at - 1 + 1 = at /\ at - 1 \in 0 .. n /\ at \in 0 .. n /\ n - (at - 1) = n - at + 1
  OBVIOUS
<1>2. a \o b = x /\ b \in Seq(Key) /\ Len(b) = n - at + 1
  <2> DEFINE k == at - 1
  <2>1. k \in 0 .. Len(x) /\ k + 1 = at
    BY <1>1
  <2> HIDE DEF k
  <2>2. SubSeq(x, 1, k) \o SubSeq(x, k + 1, Len(x)) = x
    BY <2>1, PartsJoin
  <2>3. SubSeq(x, k + 1, Len(x)) \in Seq(Key) /\ Len(SubSeq(x, k + 1, Len(x))) = Len(x) - k
    BY <2>1, PartsJoin
  <2>. QED
    BY <2>1, <2>2, <2>3, <1>1 DEF k
<1>3. c \in Seq(Key) /\ Len(c) = n - at /\ \A i \in 1 .. n - at : c[i] = x[at + i]
  BY <1>1
<1>4. \A i \in 1 .. n - at + 1 : b[i] = x[at + i - 1]
  BY <1>1
<1> HIDE DEF a, b, c
<1>5. /\ d \in Seq(Key) /\ Len(d) = n - at + 1 /\ d[1] = x[at]
      /\ \A i \in 2 .. n - at + 1 : d[i] = c[i - 1]
  <2>1. <<x[at]>> \in Seq(Key) /\ Len(<<x[at]>>) = 1 /\ <<x[at]>>[1] = x[at]
    BY <1>1
  <2> DEFINE one == <<x[at]>>
  <2> HIDE DEF one
  <2>2. /\ one \o c \in Seq(Key) /\ Len(one \o c) = Len(one) + Len(c)
        /\ \A i \in 1 .. Len(one) + Len(c) : (one \o c)[i] = IF i <= Len(one) THEN one[i] ELSE c[i - Len(one)]
    BY <2>1, <1>3, ConcatProperties DEF one
  <2>3. Len(one) = 1 /\ one[1] = x[at] /\ d = one \o c
    BY <2>1 DEF one
  <2> HIDE DEF d
  <2>. QED
    BY <2>2, <2>3, <1>1, <1>3
<1> HIDE DEF d
<1>6. ASSUME NEW i \in 1 .. n - at + 1 PROVE b[i] = d[i]
  <2>1. CASE i = 1
    <3>1. at + 1 - 1 = at
      BY <1>1
    <3>. QED
      BY <2>1, <3>1, <1>4, <1>5
  <2>2. CASE i # 1
    <3>1. i \in 2 .. n - at + 1 /\ i - 1 \in 1 .. n - at /\ at + (i - 1) = at + i - 1
      BY <2>2, <1>1
    <3>. QED
      BY <3>1, <1>3, <1>4, <1>5
  <2>. QED
    BY <2>1, <2>2
<1>7. b = d
  BY <1>2, <1>5, <1>6, SeqEqual
<1>. QED
  BY <1>2, <1>7 DEF a, c, d

\* See ShuangpinInsertedAt.
LEMMA ShuangpinInsertedHeld ==
  ASSUME NEW s, Held("shuangpin", s), ~s.stuck, NEW idx \in Nat, idx < Len(s.buf), NEW ch \in Key
  PROVE  EditOf("shuangpin", s, ShuangpinInsertedAt(s, idx, ch))
         /\ ShuangpinInsertedAt(s, idx, ch).buf = InsertAt(s.buf, idx + 1, ch)
<1> DEFINE b == InsertAt(s.buf, idx + 1, ch)
           j == Located(s, idx)
           at == KeysOf(s.segs, j)
           str == InsertAt(s.pystr, idx + 1, Plain(ch))
           N == Len(str)
           rest == Keys(SubSeq(str, at + 1, N))
           typed == Retyped(s, b, str)
           cut == CutBack(typed, j, at)
           back == CutBack(cut, j - 1, at - 1)
           backed == [back EXCEPT !.hasInvalid = FALSE, !.nLastValidPos = idx - 1]
           counted(t) == [t EXCEPT !.nAlpha = NumberOfNonAlpha(t.pystr)]
           invalid == cut.hasInvalid /\ s.nLastValidPos + 1 < idx
           pos == IF idx < s.nLastValidPos THEN idx ELSE cut.nLastValidPos
           shorter == [cut EXCEPT !.hasInvalid = invalid, !.nLastValidPos = pos]
           key == Last(cut.pystr).ch
           r == ShuangpinInsertedAt(s, idx, ch)
<1>1. /\ IsSegmentor(s) /\ Keys(s.pystr) = s.buf
      /\ s.buf \in Seq(Key) /\ s.pystr \in Seq(PyKey) /\ s.segs \in Seq(Segs)
  BY DEF Held, Good, IsSegmentor
<1>2. Len(s.buf) = Len(s.pystr) /\ Len(s.pystr) \in Nat
  BY <1>1, KeysAre
<1>3. str \in Seq(PyKey) /\ Len(str) = Len(s.pystr) + 1 /\ Keys(str) = b
  <2>1. idx \in 0 .. Len(s.pystr)
    BY <1>2
  <2>. QED
    BY <2>1, <1>1, KeysInsert
<1>4. r = IF s.nLastValidPos + 1 = idx /\ at = 0 THEN Stuck(cut)
          ELSE IF s.nLastValidPos + 1 = idx /\ key \in Letters
          THEN UpdatedWith("shuangpin", counted(backed), <<key>> \o rest, UINT_MAX)
          ELSE UpdatedWith("shuangpin", counted(shorter), rest, UINT_MAX)
  BY DEF ShuangpinInsertedAt, Retyped
<1>5. j \in 0 .. Len(s.segs) /\ at \in Nat /\ at <= idx
  BY <1>1, LocatedBefore
<1>6. at = 0 \/ j - 1 \in 0 .. j
  <2>1. j = 0 => at = 0
    BY <1>1, KeysOfSteps
  <2>. QED
    BY <2>1, <1>5
<1> HIDE DEF j, r, str, b, at, N
<1>7. N \in Nat /\ at \in 0 .. N /\ b \in Seq(Key) /\ Len(b) = N /\ at < N
  <2>1. b \in Seq(Key) /\ Len(b) = Len(str)
    BY <1>3, KeysAre
  <2>. QED
    BY <2>1, <1>2, <1>3, <1>5 DEF N
<1>8. IsSegmentor(typed) /\ typed.buf = b /\ typed.pystr = str /\ typed.segs = s.segs
  BY <1>1, <1>3, <1>7, RetypedIs
<1> HIDE DEF typed
<1>9. IsSegmentor(cut) /\ cut.buf = b /\ cut.pystr = SubSeq(str, 1, at) /\ cut.segs = SubSeq(s.segs, 1, j)
  <2>1. j \in 0 .. Len(typed.segs) /\ at \in 0 .. Len(typed.pystr)
    BY <1>5, <1>7, <1>8 DEF N
  <2>. QED
    BY <2>1, <1>8, CutBackIs
<1> HIDE DEF cut
<1>10. /\ Keys(cut.pystr) = SubSeq(b, 1, at) /\ cut.pystr \in Seq(PyKey) /\ Len(cut.pystr) = at
       /\ rest \in Seq(Key) /\ rest = SubSeq(b, at + 1, N)
  <2>1. 1 \in 1 .. Len(str) + 1 /\ at \in 1 - 1 .. Len(str) /\ at + 1 \in 1 .. Len(str) + 1
        /\ N \in (at + 1) - 1 .. Len(str) /\ at - 1 + 1 = at
    BY <1>7 DEF N
  <2>2. SubSeq(str, 1, at) \in Seq(PyKey) /\ Len(SubSeq(str, 1, at)) = at /\ Keys(SubSeq(str, 1, at)) = SubSeq(b, 1, at)
    BY <2>1, <1>3, KeysOfPart
  <2> DEFINE y == SubSeq(str, at + 1, N)
  <2>3. y \in Seq(PyKey) /\ Keys(y) = SubSeq(b, at + 1, N)
    BY <2>1, <1>3, KeysOfPart
  <2> HIDE DEF y
  <2>4. Keys(y) \in Seq(Key)
    BY <2>3, KeysAre
  <2>. QED
    BY <2>2, <2>3, <2>4, <1>9 DEF y
<1> HIDE DEF rest
<1>11. CASE s.nLastValidPos + 1 = idx /\ at = 0
  <2>1. r = Stuck(cut)
    BY <1>4, <1>11
  <2>2. EditOf("shuangpin", s, Stuck(cut)) /\ Stuck(cut).buf = b
    BY <1>9, ShuangpinStuck
  <2>. QED
    BY <2>1, <2>2 DEF r, b
<1>12. ASSUME NEW t, IsSegmentor(t)
       PROVE  Kin(t, counted(t))
  BY <1>12, KinCounts
<1> HIDE DEF counted
<1>13. ASSUME ~(s.nLastValidPos + 1 = idx /\ at = 0), s.nLastValidPos + 1 = idx, key \in Letters
       PROVE  EditOf("shuangpin", s, r) /\ r.buf = b
  <2>1. r = UpdatedWith("shuangpin", counted(backed), <<key>> \o rest, UINT_MAX)
    BY <1>4, <1>13
  <2>2. j - 1 \in 0 .. j /\ at - 1 \in 0 .. at /\ at \in 1 .. N /\ at - 1 \in 0 .. N
    BY <1>5, <1>6, <1>7, <1>13
  <2>3. /\ IsSegmentor(back) /\ back.buf = b /\ back.pystr = SubSeq(cut.pystr, 1, at - 1)
    <3>1. Len(cut.segs) = j
      BY <1>1, <1>5, <1>9
    <3> DEFINE k == j - 1
               f == at - 1
    <3>2. k \in 0 .. Len(cut.segs) /\ f \in 0 .. Len(cut.pystr)
      BY <2>2, <3>1, <1>10
    <3> HIDE DEF k, f
    <3> DEFINE q == CutBack(cut, k, f)
    <3>3. IsSegmentor(q) /\ q.buf = cut.buf /\ q.pystr = SubSeq(cut.pystr, 1, f)
      BY <3>2, <1>9, CutBackIs
    <3>. QED
      BY <3>3, <1>9 DEF k, f
  <2>4. Keys(back.pystr) = SubSeq(b, 1, at - 1)
    <3> DEFINE f == at - 1
    <3>1. 1 \in 1 .. Len(str) + 1 /\ f \in 1 - 1 .. Len(str)
      BY <2>2, <1>7 DEF N
    <3>2. SubSeq(cut.pystr, 1, f) = SubSeq(str, 1, f)
      <4>1. str \in Seq(PyKey) /\ at \in 1 .. Len(str)
        BY <1>3, <2>2 DEF N
      <4>2. SubSeq(SubSeq(str, 1, at), 1, at - 1) = SubSeq(str, 1, at - 1)
        BY <4>1
      <4>. QED
        BY <4>2, <1>9
    <3> HIDE DEF f
    <3>3. Keys(SubSeq(str, 1, f)) = SubSeq(Keys(str), 1, f)
      BY <3>1, <1>3, KeysOfPart
    <3>4. back.pystr = SubSeq(str, 1, f) /\ Keys(str) = b
      BY <3>2, <2>3, <1>3 DEF f
    <3> HIDE DEF back
    <3>. QED
      BY <3>3, <3>4 DEF f
  <2>5. key = b[at] /\ key \in Key
    <3>1. /\ Len(Keys(cut.pystr)) = at /\ Keys(cut.pystr)[at] = cut.pystr[at].ch
          /\ Keys(cut.pystr) \in Seq(Key)
      <4> DEFINE q == cut.pystr
      <4>1. q \in Seq(PyKey) /\ Len(q) = at /\ at \in 1 .. at
        BY <2>2, <1>10
      <4> HIDE DEF q
      <4>2. Keys(q) \in Seq(Key) /\ Len(Keys(q)) = Len(q) /\ \A k \in 1 .. Len(q) : Keys(q)[k] = q[k].ch
        BY <4>1, KeysAre
      <4>. QED
        BY <4>1, <4>2 DEF q
    <3>2. SubSeq(b, 1, at)[at] = b[at]
      BY <2>2, <1>7
    <3>3. b[at] \in Key
      BY <2>2, <1>7
    <3>. QED
      BY <3>1, <3>2, <3>3, <1>10 DEF Last
  <2> HIDE DEF back, key
  <2>6. IsSegmentor(backed) /\ backed.buf = b /\ backed.pystr = back.pystr
    <3> DEFINE once == [back EXCEPT !.hasInvalid = FALSE]
    <3>1. Kin(back, once)
      BY <2>3, KinCounts
    <3> HIDE DEF once
    <3>2. Kin(once, [once EXCEPT !.nLastValidPos = idx - 1])
      BY <3>1, KinCounts DEF Kin
    <3>3. backed = [once EXCEPT !.nLastValidPos = idx - 1]
      BY DEF once
    <3>. QED
      BY <3>1, <3>2, <3>3, <2>3 DEF Kin
  <2> HIDE DEF backed
  <2>7. Kin(backed, counted(backed))
    BY <2>6, <1>12
  <2> DEFINE t == counted(backed)
             ks == <<key>> \o rest
  <2>8. IsSegmentor(t) /\ t.buf = b /\ t.pystr = back.pystr
    BY <2>6, <2>7 DEF Kin
  <2>9. ks \in Seq(Key)
    <3>1. <<key>> \in Seq(Key)
      BY <2>5
    <3>. QED
      BY <3>1, <1>10, ConcatProperties
  <2>10. Keys(t.pystr) \o ks = b
    <3>1. SubSeq(b, 1, at - 1) \o (<<b[at]>> \o SubSeq(b, at + 1, Len(b))) = b
      BY <2>2, <1>7, ElementJoins
    <3>. QED
      BY <3>1, <2>4, <2>5, <2>8, <1>7, <1>10
  <2> HIDE DEF t, ks
  <2>11. r = UpdatedWith("shuangpin", t, ks, UINT_MAX)
    BY <2>1 DEF t, ks
  <2>. QED
    BY <2>8, <2>9, <2>10, <2>11, ShuangpinUpdated
<1>14. ASSUME ~(s.nLastValidPos + 1 = idx /\ at = 0), ~(s.nLastValidPos + 1 = idx /\ key \in Letters)
       PROVE  EditOf("shuangpin", s, r) /\ r.buf = b
  <2>1. r = UpdatedWith("shuangpin", counted(shorter), rest, UINT_MAX)
    BY <1>4, <1>14
  <2> HIDE DEF invalid, pos
  <2>2. IsSegmentor(shorter) /\ shorter.buf = b /\ shorter.pystr = cut.pystr
    <3> DEFINE once == [cut EXCEPT !.hasInvalid = invalid]
    <3>1. Kin(cut, once)
      BY <1>9, KinCounts
    <3>2. shorter = [once EXCEPT !.nLastValidPos = pos]
      OBVIOUS
    <3> HIDE DEF once
    <3>3. Kin(once, [once EXCEPT !.nLastValidPos = pos])
      BY <3>1, KinCounts DEF Kin
    <3>. QED
      BY <3>1, <3>2, <3>3, <1>9 DEF Kin
  <2> HIDE DEF shorter
  <2>3. Kin(shorter, counted(shorter))
    BY <2>2, <1>12
  <2> DEFINE t == counted(shorter)
  <2>4. IsSegmentor(t) /\ t.buf = b /\ t.pystr = cut.pystr
    BY <2>2, <2>3 DEF Kin
  <2>5. Keys(t.pystr) \o rest = b
    <3>1. SubSeq(b, 1, at) \o SubSeq(b, at + 1, Len(b)) = b
      BY <1>7, PartsJoin
    <3>. QED
      BY <3>1, <2>4, <1>7, <1>10
  <2> HIDE DEF t
  <2>6. r = UpdatedWith("shuangpin", t, rest, UINT_MAX)
    BY <2>1 DEF t
  <2>. QED
    BY <2>4, <2>5, <2>6, <1>10, ShuangpinUpdated
<1>. QED
  BY <1>11, <1>13, <1>14 DEF r, b

\* See ShuangpinDeletedAt.
LEMMA ShuangpinDeletedHeld ==
  ASSUME NEW s, Held("shuangpin", s), ~s.stuck, NEW idx \in Nat, idx < Len(s.buf)
  PROVE  EditOf("shuangpin", s, ShuangpinDeletedAt(s, idx))
         /\ ShuangpinDeletedAt(s, idx).buf = RemoveAt(s.buf, idx + 1)
<1> DEFINE b == RemoveAt(s.buf, idx + 1)
           j == Located(s, idx)
           at == KeysOf(s.segs, j)
           str == RemoveAt(s.pystr, idx + 1)
           N == Len(str)
           rest == Keys(SubSeq(str, at + 1, N))
           typed == Retyped(s, b, str)
           cut == CutBack(typed, j, at)
           odd == NumberOfNonAlpha(cut.pystr)
           again == [cut EXCEPT !.hasInvalid = FALSE, !.nAlpha = odd]
           behind == SubSeq(s.segs, j + 2, Len(s.segs))
           more == cut.segs \o behind
           kept == LettersAndSegs(cut, str, more)
           r == ShuangpinDeletedAt(s, idx)
<1>1. /\ IsSegmentor(s) /\ Keys(s.pystr) = s.buf
      /\ s.buf \in Seq(Key) /\ s.pystr \in Seq(PyKey) /\ s.segs \in Seq(Segs)
  BY DEF Held, Good, IsSegmentor
<1>2. Len(s.buf) = Len(s.pystr) /\ Len(s.pystr) \in Nat
  BY <1>1, KeysAre
<1>3. str \in Seq(PyKey) /\ Len(str) = Len(s.pystr) - 1 /\ Keys(str) = b
  <2>1. idx < Len(s.pystr)
    BY <1>2
  <2>. QED
    BY <2>1, <1>1, KeysRemove
<1>4. r = IF s.nLastValidPos + 1 >= idx THEN UpdatedWith("shuangpin", again, rest, UINT_MAX)
          ELSE IF idx > at THEN Stuck(cut)
          ELSE kept
  <2>1. s.pystr = s.pystr /\ "segs" \in DOMAIN cut
    BY <1>1 DEF IsSegmentor, Fields, CutBack, Retyped
  <2>2. [cut EXCEPT !.pystr = str, !.segs = @ \o behind] = kept
    BY <2>1 DEF LettersAndSegs
  <2> HIDE DEF kept
  <2>. QED
    BY <2>2 DEF ShuangpinDeletedAt, Retyped
<1>5. j \in 0 .. Len(s.segs) /\ at \in Nat /\ at <= idx
  BY <1>1, LocatedBefore
<1>6. behind \in Seq(Segs)
  <2>1. Len(s.segs) \in Nat /\ j \in 0 .. Len(s.segs)
    BY <1>1, <1>5
  <2> HIDE DEF j
  <2>2. CASE j + 1 <= Len(s.segs)
    <3>1. j + 1 \in 0 .. Len(s.segs) /\ (j + 1) + 1 = j + 2
      BY <2>1, <2>2
    <3> DEFINE k == j + 1
    <3> HIDE DEF k
    <3>2. SubSeq(s.segs, k + 1, Len(s.segs)) \in Seq(Segs)
      BY <3>1, <1>1, PartsJoin DEF k
    <3>. QED
      BY <3>1, <3>2 DEF k
  <2>3. CASE ~(j + 1 <= Len(s.segs))
    <3>1. j + 2 > Len(s.segs) /\ j + 2 \in Nat
      BY <2>1, <2>3
    <3>2. behind = << >>
      BY <3>1, <2>1
    <3>3. << >> \in Seq(Segs)
      OBVIOUS
    <3> HIDE DEF behind
    <3>. QED
      BY <3>2, <3>3
  <2>. QED
    BY <2>2, <2>3
<1> HIDE DEF j, r, str, b, at, N, behind
<1>7. N \in Nat /\ at \in 0 .. N /\ b \in Seq(Key) /\ Len(b) = N
  <2>1. b \in Seq(Key) /\ Len(b) = Len(str)
    BY <1>3, KeysAre
  <2>. QED
    BY <2>1, <1>2, <1>3, <1>5 DEF N
<1>8. IsSegmentor(typed) /\ typed.buf = b /\ typed.pystr = str /\ typed.segs = s.segs
  BY <1>1, <1>3, <1>7, RetypedIs
<1> HIDE DEF typed
<1>9. IsSegmentor(cut) /\ cut.buf = b /\ cut.pystr = SubSeq(str, 1, at) /\ cut.segs = SubSeq(s.segs, 1, j)
  <2>1. j \in 0 .. Len(typed.segs) /\ at \in 0 .. Len(typed.pystr)
    BY <1>5, <1>7, <1>8 DEF N
  <2>. QED
    BY <2>1, <1>8, CutBackIs
<1> HIDE DEF cut
<1>10. Keys(cut.pystr) = SubSeq(b, 1, at) /\ rest \in Seq(Key) /\ rest = SubSeq(b, at + 1, N)
  <2>1. 1 \in 1 .. Len(str) + 1 /\ at \in 1 - 1 .. Len(str) /\ at + 1 \in 1 .. Len(str) + 1
        /\ N \in (at + 1) - 1 .. Len(str)
    BY <1>7 DEF N
  <2>2. Keys(SubSeq(str, 1, at)) = SubSeq(b, 1, at)
    BY <2>1, <1>3, KeysOfPart
  <2> DEFINE y == SubSeq(str, at + 1, N)
  <2>3. y \in Seq(PyKey) /\ Keys(y) = SubSeq(b, at + 1, N)
    BY <2>1, <1>3, KeysOfPart
  <2> HIDE DEF y
  <2>4. Keys(y) \in Seq(Key)
    BY <2>3, KeysAre
  <2>. QED
    BY <2>2, <2>3, <2>4, <1>9 DEF y
<1> HIDE DEF rest, odd
<1>11. CASE s.nLastValidPos + 1 >= idx
  <2>1. r = UpdatedWith("shuangpin", again, rest, UINT_MAX)
    BY <1>4, <1>11
  <2>2. IsSegmentor(again) /\ again.buf = b /\ again.pystr = cut.pystr
    <3> DEFINE once == [cut EXCEPT !.hasInvalid = FALSE]
    <3>1. Kin(cut, once)
      BY <1>9, KinCounts
    <3>2. again = [once EXCEPT !.nAlpha = odd]
      OBVIOUS
    <3> HIDE DEF once
    <3>3. Kin(once, [once EXCEPT !.nAlpha = odd])
      BY <3>1, KinCounts DEF Kin
    <3>. QED
      BY <3>1, <3>2, <3>3, <1>9 DEF Kin
  <2> HIDE DEF again
  <2>3. Keys(again.pystr) \o rest = b
    <3>1. SubSeq(b, 1, at) \o SubSeq(b, at + 1, Len(b)) = b
      BY <1>7, PartsJoin
    <3>. QED
      BY <3>1, <2>2, <1>7, <1>10
  <2>4. EditOf("shuangpin", s, r) /\ r.buf = b
    BY <2>1, <2>2, <2>3, <1>10, ShuangpinUpdated
  <2>. QED
    BY <2>4 DEF r, b
<1>12. CASE ~(s.nLastValidPos + 1 >= idx) /\ idx > at
  <2>1. r = Stuck(cut)
    BY <1>4, <1>12
  <2>2. EditOf("shuangpin", s, Stuck(cut)) /\ Stuck(cut).buf = b
    BY <1>9, ShuangpinStuck
  <2>. QED
    BY <2>1, <2>2 DEF r, b
<1>13. CASE ~(s.nLastValidPos + 1 >= idx) /\ ~(idx > at)
  <2>1. r = kept
    BY <1>4, <1>13
  <2>2. more \in Seq(Segs)
    <3>1. cut.segs \in Seq(Segs)
      BY <1>9 DEF IsSegmentor
    <3>. QED
      BY <3>1, <1>6, ConcatProperties
  <2> HIDE DEF more
  <2>3. IsSegmentor(kept) /\ kept.buf = cut.buf /\ kept.pystr = str
    BY <2>2, <1>3, <1>9, LettersAndSegsSet
  <2> HIDE DEF kept
  <2>4. EditOf("shuangpin", s, kept)
    BY <2>3, <1>3, <1>9, ShuangpinHeld
  <2>. QED
    BY <2>1, <2>3, <2>4, <1>9 DEF r, b
<1>. QED
  BY <1>11, <1>12, <1>13

-----------------------------------------------------------------------------
(* The virtual functions.                                                  *)

\* See push.  Told, unless a mistyped syllable is put right.
LEMMA PushHeld ==
  ASSUME NEW class \in Classes, NEW s, Held(class, s), ~s.stuck, NEW ch \in Key
  PROVE  LET q == push(class, s, ch)
         IN /\ Held(class, q) /\ q.buf = Append(s.buf, ch) /\ (class = "hunpin" => ~q.stuck)
            /\ class # "quanpin" \/ Mistyped(Append(s.pystr, Plain(ch))) = {} => Told(class, s, q)
<1> DEFINE p == Append(s.pystr, Plain(ch))
           b == Append(s.buf, ch)
           pair == CHOOSE pair \in Mistyped(p) : TRUE
           q == push(class, s, ch)
<1>1. Good(class, s) /\ Keys(s.pystr) = s.buf /\ s.pystr \in Seq(PyKey) /\ s.buf \in Seq(Key)
  BY DEF Held, Good, IsSegmentor
<1>2. p \in Seq(PyKey) /\ Keys(p) = b /\ b \in Seq(Key)
  <2>1. p \in Seq(PyKey) /\ Keys(p) = b
    BY <1>1, KeysOfAppend
  <2>. QED
    BY <2>1, KeysAre
<1> HIDE DEF p, b
<1>3. CASE class = "quanpin" /\ Mistyped(p) # {}
  <2>1. q = Corrected(WithBuf(s, b), p, pair)
    BY <1>3 DEF push, WithBuf, b, p
  <2>2. pair \in Mistyped(p)
    BY <1>3
  <2> DEFINE t == WithBuf(s, b)
  <2>3. Good("quanpin", t) /\ t.buf = b /\ ~t.stuck
    BY <1>1, <1>2, <1>3, BufSet
  <2> HIDE DEF t, pair, q
  <2>4. Held("quanpin", Corrected(t, p, pair)) /\ Corrected(t, p, pair).buf = t.buf
    BY <2>2, <2>3, <1>2, CorrectedHeld
  <2>5. Held(class, q) /\ q.buf = b
    BY <2>1, <2>3, <2>4, <1>3 DEF t
  <2>6. "quanpin" # "hunpin"
    OBVIOUS
  <2>. QED
    BY <2>5, <2>6, <1>3 DEF q, b, p
<1>4. CASE ~(class = "quanpin" /\ Mistyped(p) # {})
  <2>1. q = Pushed(class, s, ch)
    BY <1>4 DEF push, p
  <2>2. EditOf(class, s, Pushed(class, s, ch)) /\ Pushed(class, s, ch).buf = b
    BY PushedHeld DEF b
  <2> HIDE DEF q
  <2>. QED
    BY <2>1, <2>2 DEF EditOf, q, b
<1>. QED
  BY <1>3, <1>4

\* See pop.
LEMMA PopHeld ==
  ASSUME NEW class \in Classes, NEW s, Held(class, s), ~s.stuck, s.buf # << >>
  PROVE  LET q == pop(class, s) IN EditOf(class, s, q) /\ (~q.stuck => q.buf = Front(s.buf))
<1>1. CASE class = "shuangpin"
  BY <1>1, ShuangpinPoppedHeld DEF pop
<1>2. CASE class # "shuangpin"
  BY <1>2, PoppedHeld DEF pop
<1>. QED
  BY <1>1, <1>2

\* See insertAt.
LEMMA InsertHeld ==
  ASSUME NEW class \in Classes, NEW s, Held(class, s), ~s.stuck, NEW idx \in Nat, idx < Len(s.buf), NEW ch \in Key
  PROVE  LET q == insertAt(class, s, idx, ch) IN EditOf(class, s, q) /\ q.buf = InsertAt(s.buf, idx + 1, ch)
<1>1. CASE class = "shuangpin"
  BY <1>1, ShuangpinInsertedHeld DEF insertAt
<1>2. CASE class # "shuangpin"
  BY <1>2, InsertedHeld DEF insertAt
<1>. QED
  BY <1>1, <1>2

\* See deleteAt.
LEMMA DeleteHeld ==
  ASSUME NEW class \in Classes, NEW s, Held(class, s), ~s.stuck, NEW idx \in Nat, idx < Len(s.buf)
  PROVE  LET q == deleteAt(class, s, idx) IN EditOf(class, s, q) /\ q.buf = RemoveAt(s.buf, idx + 1)
<1>1. CASE class = "shuangpin"
  BY <1>1, ShuangpinDeletedHeld DEF deleteAt
<1>2. CASE class # "shuangpin"
  BY <1>2, DeletedHeld DEF deleteAt
<1>. QED
  BY <1>1, <1>2

\* A segmentor before the first key.
LEMMA EmptyHeld ==
  ASSUME NEW class, NEW s, Fields \subseteq DOMAIN s, s.buf = << >>, s.pystr = << >>, s.segs = << >>,
         s.updatedFrom = 0, s.stuck = FALSE
  PROVE  Held(class, s)
<1>1. /\ << >> \in Seq(Key) /\ << >> \in Seq(PyKey) /\ << >> \in Seq(Segs) /\ Len(<< >>) = 0
  OBVIOUS
<1>2. IsSegmentor(s)
  <2>1. s.buf \in Seq(Key) /\ s.pystr \in Seq(PyKey) /\ s.segs \in Seq(Segs)
    BY <1>1, Zenon
  <2>2. s.updatedFrom \in Nat
    OBVIOUS
  <2>3. s.stuck \in BOOLEAN
    BY Zenon
  <2>. QED
    BY <2>1, <2>2, <2>3 DEF IsSegmentor
<1>3. Tiles(<< >>, 0)
  BY <1>1 DEF Tiles, EndOf
<1>4. Keys(<< >>) = << >>
  <2>1. Keys(<< >>) \in Seq(Key) /\ Len(Keys(<< >>)) = Len(<< >>)
    BY <1>1, KeysAre
  <2> DEFINE y == Keys(<< >>)
  <2>2. y \in Seq(Key) /\ Len(y) = 0
    BY <2>1, <1>1
  <2> HIDE DEF y
  <2>3. y = << >>
    BY <2>2
  <2>. QED
    BY <2>3 DEF y
<1> HIDE DEF Keys
<1>. QED
  BY <1>1, <1>2, <1>3, <1>4 DEF Held, Good, Whole

\* See clear.
LEMMA ClearHeld ==
  ASSUME NEW class, NEW s
  PROVE  LET q == clear(class, s) IN Held(class, q) /\ ~q.stuck /\ q.buf = << >>
<1> DEFINE q == clear(class, s)
<1>1. /\ Fields \subseteq DOMAIN q /\ q.buf = << >> /\ q.pystr = << >> /\ q.segs = << >>
      /\ q.updatedFrom = 0 /\ q.stuck = FALSE
  <2>1. CASE class = "shuangpin"
    BY <2>1 DEF clear, EmptyShuangpin, Fields
  <2>2. CASE class # "shuangpin"
    BY <2>2 DEF clear, Empty, Fields
  <2>. QED
    BY <2>1, <2>2
<1> HIDE DEF q
<1>2. Held(class, q)
  BY <1>1, EmptyHeld
<1>. QED
  BY <1>1, <1>2 DEF q

-----------------------------------------------------------------------------
(* The invariant.                                                          *)

PinyinInv ==
  /\ setup \in Setups
  /\ Held(scheme, sg) /\ ~sg.stuck
  /\ sg.buf \in Seq(setup.typed)

\* It holds at first.
LEMMA PinyinInit == Init => PinyinInv
<1> SUFFICES ASSUME Init PROVE PinyinInv
  OBVIOUS
<1>1. sg = IF setup.scheme = "shuangpin" THEN EmptyShuangpin ELSE Empty
  BY DEF Init
<1>2. /\ Fields \subseteq DOMAIN sg /\ sg.buf = << >> /\ sg.pystr = << >> /\ sg.segs = << >>
      /\ sg.updatedFrom = 0 /\ sg.stuck = FALSE
  BY <1>1 DEF Empty, EmptyShuangpin, Fields
<1>3. Held(scheme, sg)
  BY <1>2, EmptyHeld
<1>4. << >> \in Seq(setup.typed)
  OBVIOUS
<1>. QED
  BY <1>2, <1>3, <1>4 DEF PinyinInv, Init

\* The schemes of an input.
LEMMA ReadyScheme ==
  ASSUME PinyinInv, Ready
  PROVE  scheme \in Classes
BY InputAssumption DEF PinyinInv, Ready, scheme, Classes

\* What an edit leaves.
LEMMA EditedKeeps ==
  ASSUME PinyinInv, Ready, NEW s, Held(scheme, s),
         ~s.stuck => s.buf \in Seq(setup.typed), Edited(s), UNCHANGED making
  PROVE  PinyinInv' /\ (sg' = sg \/ (sg' = s /\ ~s.stuck))
<1>1. setup' = setup /\ scheme' = scheme
  BY DEF making, scheme
<1>2. CASE s.stuck \/ DeletesShared(rebuildFrom(s))
  <2>1. UNCHANGED sg
    BY <1>2 DEF Edited
  <2>. QED
    BY <1>1, <2>1 DEF PinyinInv
<1>3. CASE ~(s.stuck \/ DeletesShared(rebuildFrom(s)))
  <2>1. sg' = s /\ ~s.stuck
    BY <1>3 DEF Edited
  <2>. QED
    BY <1>1, <2>1 DEF PinyinInv
<1>. QED
  BY <1>2, <1>3


\* A key is put in.
LEMMA PushKeeps ==
  ASSUME PinyinInv, NEW ch \in setup.typed, Push(ch)
  PROVE  PinyinInv' /\ (UNCHANGED sg \/ (sg' = push(scheme, sg, ch) /\ scheme \in Classes))
<1> DEFINE s == push(scheme, sg, ch)
<1>1. Ready /\ Edited(s) /\ UNCHANGED making
  BY DEF Push
<1>2. scheme \in Classes /\ Held(scheme, sg) /\ ~sg.stuck /\ setup \in Setups
  BY <1>1, ReadyScheme DEF PinyinInv
<1>3. ch \in Key
  BY <1>2 DEF Key
<1>4. Held(scheme, s) /\ s.buf = Append(sg.buf, ch) /\ (scheme = "hunpin" => ~s.stuck)
  BY <1>2, <1>3, PushHeld
<1>5. s.buf \in Seq(setup.typed)
  <2>1. sg.buf \in Seq(setup.typed)
    BY DEF PinyinInv
  <2> DEFINE T == setup.typed
             x == sg.buf
  <2>a. x \in Seq(T) /\ ch \in T
    BY <2>1
  <2> HIDE DEF T, x
  <2>b. Append(x, ch) \in Seq(T)
    BY <2>a, AppendProperties
  <2>2. Append(sg.buf, ch) \in Seq(setup.typed)
    BY <2>b DEF T, x
  <2> HIDE DEF s
  <2>. QED
    BY <2>2, <1>4
<1> HIDE DEF s
<1>6. PinyinInv' /\ (sg' = sg \/ (sg' = s /\ ~s.stuck))
  BY <1>1, <1>4, <1>5, EditedKeeps
<1>. QED
  BY <1>2, <1>6 DEF s

\* One is put in among others.
LEMMA InsertAtCaretKeeps ==
  ASSUME PinyinInv, NEW idx \in Nat, NEW ch \in setup.typed, InsertAtCaret(idx, ch)
  PROVE  PinyinInv' /\ (UNCHANGED sg \/ EditOf(scheme, sg, sg'))
<1> DEFINE s == insertAt(scheme, sg, idx, ch)
<1>1. Ready /\ Edited(s) /\ UNCHANGED making /\ idx < Len(sg.buf)
  BY DEF InsertAtCaret
<1>2. scheme \in Classes /\ Held(scheme, sg) /\ ~sg.stuck /\ setup \in Setups
  BY <1>1, ReadyScheme DEF PinyinInv
<1>3. ch \in Key
  BY <1>2 DEF Key
<1>4. EditOf(scheme, sg, s) /\ s.buf = InsertAt(sg.buf, idx + 1, ch)
  BY <1>1, <1>2, <1>3, InsertHeld
<1>5. InsertAt(sg.buf, idx + 1, ch) \in Seq(setup.typed)
  <2> DEFINE T == setup.typed
             x == sg.buf
  <2>1. x \in Seq(T) /\ Len(x) \in Nat /\ ch \in T
    BY DEF PinyinInv
  <2>2. idx \in 0 .. Len(x) /\ idx + 1 - 1 = idx
    BY <1>1, <2>1
  <2> HIDE DEF T, x
  <2>3. SubSeq(x, 1, idx) \in Seq(T) /\ SubSeq(x, idx + 1, Len(x)) \in Seq(T)
    BY <2>1, <2>2, PartsJoin
  <2>4. <<ch>> \in Seq(T)
    BY <2>1
  <2>5. (SubSeq(x, 1, idx) \o <<ch>>) \o SubSeq(x, idx + 1, Len(x)) \in Seq(T)
    BY <2>3, <2>4, ConcatProperties
  <2>6. InsertAt(x, idx + 1, ch) = (SubSeq(x, 1, idx) \o <<ch>>) \o SubSeq(x, idx + 1, Len(x))
    <3> DEFINE k == idx + 1
    <3>1. k - 1 = idx
      BY <2>2
    <3> HIDE DEF k
    <3>2. InsertAt(x, k, ch) = (SubSeq(x, 1, idx) \o <<ch>>) \o SubSeq(x, k, Len(x))
      BY <3>1 DEF InsertAt
    <3>. QED
      BY <3>2 DEF k
  <2>. QED
    BY <2>5, <2>6 DEF T, x
<1> HIDE DEF s
<1>6. Held(scheme, s) /\ (scheme = "hunpin" => ~s.stuck) /\ s.buf \in Seq(setup.typed)
  BY <1>4, <1>5 DEF EditOf
<1>7. PinyinInv' /\ (sg' = sg \/ (sg' = s /\ ~s.stuck))
  BY <1>1, <1>6, EditedKeeps
<1>. QED
  BY <1>4, <1>7

\* The last one goes.
LEMMA PopKeeps ==
  ASSUME PinyinInv, Pop
  PROVE  PinyinInv' /\ (UNCHANGED sg \/ EditOf(scheme, sg, sg'))
<1> DEFINE s == pop(scheme, sg)
<1>1. Ready /\ Edited(s) /\ UNCHANGED making /\ sg.buf # << >>
  BY DEF Pop
<1>2. scheme \in Classes /\ Held(scheme, sg) /\ ~sg.stuck
  BY <1>1, ReadyScheme DEF PinyinInv
<1>4. EditOf(scheme, sg, s) /\ (~s.stuck => s.buf = Front(sg.buf))
  BY <1>1, <1>2, PopHeld
<1>5. Front(sg.buf) \in Seq(setup.typed)
  <2> DEFINE T == setup.typed
             x == sg.buf
  <2>1. x \in Seq(T) /\ Len(x) - 1 \in 0 .. Len(x)
    BY <1>1 DEF PinyinInv
  <2> HIDE DEF T, x
  <2>2. SubSeq(x, 1, Len(x) - 1) \in Seq(T)
    BY <2>1, PartsJoin
  <2>. QED
    BY <2>2 DEF T, x, Front
<1> HIDE DEF s
<1>6. Held(scheme, s) /\ (scheme = "hunpin" => ~s.stuck) /\ (~s.stuck => s.buf \in Seq(setup.typed))
  BY <1>4, <1>5 DEF EditOf
<1>7. PinyinInv' /\ (sg' = sg \/ (sg' = s /\ ~s.stuck))
  BY <1>1, <1>6, EditedKeeps
<1>. QED
  BY <1>4, <1>7

\* Another one goes.
LEMMA DeleteAtCaretKeeps ==
  ASSUME PinyinInv, NEW idx \in Nat, DeleteAtCaret(idx)
  PROVE  PinyinInv' /\ (UNCHANGED sg \/ EditOf(scheme, sg, sg'))
<1> DEFINE s == deleteAt(scheme, sg, idx)
<1>1. Ready /\ Edited(s) /\ UNCHANGED making /\ idx < Len(sg.buf) - 1
  BY DEF DeleteAtCaret
<1>2. scheme \in Classes /\ Held(scheme, sg) /\ ~sg.stuck
  BY <1>1, ReadyScheme DEF PinyinInv
<1>3. sg.buf \in Seq(setup.typed) /\ Len(sg.buf) \in Nat /\ idx < Len(sg.buf)
  BY <1>1 DEF PinyinInv
<1>4. EditOf(scheme, sg, s) /\ s.buf = RemoveAt(sg.buf, idx + 1)
  BY <1>2, <1>3, DeleteHeld
<1>5. RemoveAt(sg.buf, idx + 1) \in Seq(setup.typed)
  <2> DEFINE T == setup.typed
             x == sg.buf
             k == idx + 1
  <2>1. x \in Seq(T)
    BY <1>3
  <2>2. idx \in 0 .. Len(x) /\ k \in 0 .. Len(x) /\ k - 1 = idx
    BY <1>3
  <2> HIDE DEF T, x, k
  <2>3. SubSeq(x, 1, idx) \in Seq(T) /\ SubSeq(x, k + 1, Len(x)) \in Seq(T)
    BY <2>1, <2>2, PartsJoin
  <2>4. SubSeq(x, 1, idx) \o SubSeq(x, k + 1, Len(x)) \in Seq(T)
    BY <2>3, ConcatProperties
  <2>5. RemoveAt(x, k) = SubSeq(x, 1, idx) \o SubSeq(x, k + 1, Len(x))
    BY <2>2 DEF RemoveAt
  <2>. QED
    BY <2>4, <2>5 DEF T, x, k
<1> HIDE DEF s
<1>6. Held(scheme, s) /\ (scheme = "hunpin" => ~s.stuck) /\ s.buf \in Seq(setup.typed)
  BY <1>4, <1>5 DEF EditOf
<1>7. PinyinInv' /\ (sg' = sg \/ (sg' = s /\ ~s.stuck))
  BY <1>1, <1>6, EditedKeeps
<1>. QED
  BY <1>4, <1>7

\* All go.
LEMMA ClearInputKeeps ==
  ASSUME PinyinInv, ClearInput
  PROVE  PinyinInv' /\ (UNCHANGED sg \/ sg'.buf = << >>)
<1>1. UNCHANGED making
  BY DEF ClearInput
<1>2. setup' = setup /\ scheme' = scheme
  BY <1>1 DEF making, scheme
<1>3. CASE fault' = "double delete" /\ UNCHANGED sg
  <2>1. fault' # "segmentor"
    BY <1>3
  <2>. QED
    BY <1>2, <1>3, <2>1 DEF PinyinInv
<1>4. CASE sg' = clear(scheme, sg) /\ UNCHANGED fault
  <2> DEFINE s == clear(scheme, sg)
  <2>1. Held(scheme, s) /\ ~s.stuck /\ s.buf = << >>
    BY ClearHeld
  <2>2. << >> \in Seq(setup.typed)
    OBVIOUS
  <2> HIDE DEF s
  <2>3. sg' = s
    BY <1>4 DEF s
  <2>. QED
    BY <2>1, <2>2, <2>3, <1>2, <1>4 DEF PinyinInv
<1>. QED
  BY <1>3, <1>4 DEF ClearInput

\* Every step keeps the invariant, and changes the segmentor by a function of it.
LEMMA PinyinStep ==
  ASSUME PinyinInv, [Next]_vars
  PROVE  /\ PinyinInv'
         /\ \/ UNCHANGED sg
            \/ EditOf(scheme, sg, sg')
            \/ sg'.buf = << >>
            \/ scheme \in Classes /\ \E ch \in setup.typed : sg' = push(scheme, sg, ch)
<1>1. CASE UNCHANGED vars
  <2>1. UNCHANGED <<setup, sg, fault>> /\ scheme' = scheme
    BY <1>1 DEF vars, scheme
  <2>. QED
    BY <2>1 DEF PinyinInv
<1>2. CASE ReadLine \/ ThreadNode
  <2>1. UNCHANGED <<setup, sg, fault>>
    BY <1>2 DEF ReadLine, ThreadNode, typing
  <2>2. scheme' = scheme
    BY <2>1 DEF scheme
  <2>. QED
    BY <2>1, <2>2 DEF PinyinInv
<1>3. ASSUME NEW ch \in setup.typed, Push(ch) \/ \E idx \in 0 .. MaxKeys : InsertAtCaret(idx, ch)
      PROVE  /\ PinyinInv'
             /\ UNCHANGED sg \/ EditOf(scheme, sg, sg') \/ (sg' = push(scheme, sg, ch) /\ scheme \in Classes)
  <2>1. CASE Push(ch)
    BY <2>1, PushKeeps
  <2>2. ASSUME NEW idx \in 0 .. MaxKeys, InsertAtCaret(idx, ch)
        PROVE  PinyinInv' /\ (UNCHANGED sg \/ EditOf(scheme, sg, sg'))
    <3>1. idx \in Nat
      OBVIOUS
    <3>. QED
      BY <2>2, <3>1, InsertAtCaretKeeps
  <2>. QED
    BY <2>1, <2>2, <1>3
<1>4. CASE Pop
  BY <1>4, PopKeeps
<1>5. ASSUME NEW idx \in 0 .. MaxKeys, DeleteAtCaret(idx)
      PROVE  PinyinInv' /\ (UNCHANGED sg \/ EditOf(scheme, sg, sg'))
  <2>1. idx \in Nat
    OBVIOUS
  <2>. QED
    BY <1>5, <2>1, DeleteAtCaretKeeps
<1>6. CASE ClearInput
  BY <1>6, ClearInputKeeps
<1>. QED
  BY <1>1, <1>2, <1>3, <1>4, <1>5, <1>6 DEF Next

\* The keys tile.
LEMMA InvTiles == PinyinInv => SegmentsTile
<1> SUFFICES ASSUME PinyinInv PROVE SegmentsTile
  OBVIOUS
<1>1. /\ IsSegmentor(sg) /\ Keys(sg.pystr) = sg.buf /\ sg.segs \in Seq(Segs) /\ sg.pystr \in Seq(PyKey)
      /\ scheme # "shuangpin" => Tiles(sg.segs, Len(sg.pystr))
  BY DEF PinyinInv, Held, Good, Whole, IsSegmentor
<1>2. Len(sg.buf) = Len(sg.pystr)
  BY <1>1, KeysAre
<1>3. ASSUME scheme # "shuangpin"
      PROVE  /\ KeysOf(sg.segs, Len(sg.segs)) = Len(sg.buf)
             /\ \A j \in DOMAIN sg.segs : sg.segs[j].start = KeysOf(sg.segs, j - 1)
  <2>1. Tiles(sg.segs, Len(sg.pystr)) /\ Len(sg.segs) \in Nat /\ DOMAIN sg.segs = 1 .. Len(sg.segs)
    BY <1>1, <1>3
  <2>2. \A j \in 0 .. Len(sg.segs) : KeysOf(sg.segs, j) = EndOf(sg.segs, j)
    BY <1>1, <2>1, TiledKeys
  <2>3. KeysOf(sg.segs, Len(sg.segs)) = Len(sg.buf)
    <3>1. Len(sg.segs) \in 0 .. Len(sg.segs)
      BY <2>1
    <3>2. Len(sg.pystr) = EndOf(sg.segs, Len(sg.segs))
      BY <2>1 DEF Tiles
    <3>. QED
      BY <3>1, <3>2, <2>2, <1>2
  <2>4. ASSUME NEW j \in 1 .. Len(sg.segs)
        PROVE  sg.segs[j].start = KeysOf(sg.segs, j - 1)
    <3>1. j - 1 \in 0 .. Len(sg.segs)
      BY <2>1
    <3>2. sg.segs[j].start = EndOf(sg.segs, j - 1)
      BY <2>1 DEF Tiles
    <3>. QED
      BY <3>1, <3>2, <2>2
  <2>. QED
    BY <2>1, <2>3, <2>4
<1>. QED
  BY <1>1, <1>3 DEF SegmentsTile

\* The segments of quanpin and hunpin always lie one behind the other over all
\* the keys, and of every scheme the keys are those that were typed: whatever
\* was pushed, popped, inserted, deleted or put right.
THEOREM SegmentsStayTiled == Spec => []SegmentsTile
<1>1. Init => PinyinInv
  BY PinyinInit
<1>2. PinyinInv /\ [Next]_vars => PinyinInv'
  BY PinyinStep
<1>3. PinyinInv => SegmentsTile
  BY InvTiles
<1>. QED
  BY <1>1, <1>2, <1>3, PTL DEF Spec

\* Keys that never make a mistyped syllable are not put right.
LEMMA NotMistyped ==
  ASSUME PinyinInv, NeverCorrected, NEW ch \in setup.typed
  PROVE  Mistyped(Append(sg.pystr, Plain(ch))) = {}
<1> DEFINE p == Append(sg.pystr, Plain(ch))
           n == Len(p)
           T == setup.typed
<1>1. /\ p \in Seq(PyKey) /\ n \in Nat
      /\ Keys(p) \in Seq(T) /\ \A i \in 1 .. n : Keys(p)[i] = p[i].ch
  <2>1. sg.pystr \in Seq(PyKey) /\ Keys(sg.pystr) = sg.buf /\ sg.buf \in Seq(T) /\ setup \in Setups
    BY DEF PinyinInv, Held, Good, IsSegmentor
  <2>2. ch \in Key
    BY <2>1 DEF Key
  <2>3. p \in Seq(PyKey) /\ Keys(p) = Append(sg.buf, ch)
    BY <2>1, <2>2, KeysOfAppend
  <2> DEFINE x == sg.buf
  <2>4. x \in Seq(T) /\ ch \in T
    BY <2>1
  <2> HIDE DEF T, x, p
  <2>5. Append(x, ch) \in Seq(T)
    BY <2>4, AppendProperties
  <2>. QED
    BY <2>3, <2>5, KeysAre DEF x
<1>2. Len(Keys(p)) = n
  BY <1>1, KeysAre
<1>3. \A i \in 1 .. n : p[i].ch \in T
  <2> DEFINE y == Keys(p)
  <2>1. y \in Seq(T) /\ Len(y) = n /\ \A i \in 1 .. n : y[i] = p[i].ch
    BY <1>1, <1>2
  <2> HIDE DEF y, T, p
  <2>. QED
    BY <2>1
<1> HIDE DEF p, T
<1>4. ASSUME NEW k \in DOMAIN CorrectionPairs,
             LET l == Len(CorrectionPairs[k][1])
             IN l <= n /\ Ending(p, l) = [j \in 1 .. l |-> Plain(CorrectionPairs[k][1][j])]
      PROVE  Range(CorrectionPairs[k][1]) \subseteq T
  <2> DEFINE w == CorrectionPairs[k][1]
             l == Len(w)
  <2>1. w \in Seq(Letters)
    <3>1. CorrectionPairs[k] \in Seq(Letters) \X Seq(Letters)
      BY CorrectionAssumption
    <3>. QED
      BY <3>1
  <2>2. l \in Nat /\ l <= n /\ DOMAIN w = 1 .. l
    BY <2>1, <1>4
  <2>3. Ending(p, l) = [j \in 1 .. l |-> Plain(w[j])]
    BY <1>4
  <2> HIDE DEF w, l
  <2>4. ASSUME NEW j \in 1 .. l PROVE w[j] \in T
    <3> DEFINE from == n - l + 1
               i == from + j - 1
    <3>1. from \in 1 .. n + 1 /\ i \in 1 .. n /\ n - from + 1 = l /\ i = from + j - 1
      BY <2>2, <1>1
    <3>2. Ending(p, l) = SubSeq(p, from, n)
      BY DEF Ending
    <3> HIDE DEF from, i
    <3>3. SubSeq(p, from, n)[j] = p[i]
      <4>1. \A a \in 1 .. n - from + 1 : SubSeq(p, from, n)[a] = p[from + a - 1]
        BY <3>1, <1>1, SubSeqProperties DEF n
      <4>. QED
        BY <4>1, <3>1
    <3>4. Ending(p, l)[j] = Plain(w[j])
      BY <2>3
    <3>5. Plain(w[j]).ch = w[j]
      BY DEF Plain
    <3>. QED
      BY <3>1, <3>2, <3>3, <3>4, <3>5, <1>3
  <2>. QED
    BY <2>2, <2>4 DEF Range, w
<1>5. \A k \in DOMAIN CorrectionPairs :
        ~ LET l == Len(CorrectionPairs[k][1])
          IN l <= n /\ Ending(p, l) = [j \in 1 .. l |-> Plain(CorrectionPairs[k][1][j])]
  <2>1. \A k \in DOMAIN CorrectionPairs : ~(Range(CorrectionPairs[k][1]) \subseteq T)
    BY DEF NeverCorrected, T
  <2>. QED
    BY <1>4, <2>1
<1>6. Mistyped(p) = {}
  BY <1>5 DEF Mistyped
<1>. QED
  BY <1>6 DEF p

\* What the segmentor says is left alone.
LEMMA ToldKept ==
  ASSUME NEW s, NEW q, IsSegmentor(s), IsSegmentor(q), ~q.stuck, Told(scheme, s, q), scheme # "shuangpin"
  PROVE  LET Kept(segs) == {seg \in Range(segs) : seg.start < rebuildFrom(q) - 1} IN Kept(s.segs) = Kept(q.segs)
<1> DEFINE u == rebuildFrom(q) - 1
<1>1. s.segs \in Seq(Segs) /\ q.segs \in Seq(Segs) /\ q.updatedFrom \in Nat
  BY DEF IsSegmentor
<1>2. CASE q.updatedFrom = UINT_MAX
  <2>1. u < 0
    BY <1>2 DEF rebuildFrom
  <2> HIDE DEF u
  <2>2. ASSUME NEW segs \in Seq(Segs) PROVE {seg \in Range(segs) : seg.start < u} = {}
    <3>1. \A i \in DOMAIN segs : segs[i] \in Segs
      OBVIOUS
    <3>2. ASSUME NEW seg \in Range(segs) PROVE ~(seg.start < u)
      <4>1. seg \in Segs
        BY <3>1 DEF Range
      <4>2. seg.start \in Nat
        BY <4>1, SegFacts
      <4>3. u \in Int
        BY <1>2 DEF u, rebuildFrom
      <4>. QED
        BY <2>1, <4>2, <4>3
    <3>. QED
      BY <3>2
  <2>3. {seg \in Range(s.segs) : seg.start < u} = {seg \in Range(q.segs) : seg.start < u}
    BY <2>2, <1>1
  <2>. QED
    BY <2>3 DEF u
<1>3. CASE q.updatedFrom # UINT_MAX
  <2>1. u = q.updatedFrom
    BY <1>1, <1>3 DEF rebuildFrom
  <2>2. Before(s.segs, q.updatedFrom) = Before(q.segs, q.updatedFrom)
    BY <1>3 DEF Told
  <2> HIDE DEF u
  <2>3. {seg \in Range(s.segs) : seg.start < u} = {seg \in Range(q.segs) : seg.start < u}
    BY <2>1, <2>2 DEF Before
  <2>. QED
    BY <2>3 DEF u
<1>. QED
  BY <1>2, <1>3

\* What the segmentor says an edit left alone it did leave alone: the segments
\* up to updatedFrom, which are not forwarded again, are those there were.  (Of
\* quanpin when no mistyped syllable is put right.)
THEOREM ChangesAreReported == Spec /\ [](scheme = "quanpin" => NeverCorrected) => ChangeReported
<1>1. Init => PinyinInv
  BY PinyinInit
<1>2. PinyinInv /\ [Next]_vars => PinyinInv'
  BY PinyinStep
<1>3. ASSUME PinyinInv, [Next]_vars, scheme = "quanpin" => NeverCorrected,
             sg' # sg, sg'.buf # << >>, scheme # "shuangpin"
      PROVE  LET Kept(segs) == {seg \in Range(segs) : seg.start < rebuildFrom(sg') - 1}
             IN Kept(sg.segs) = Kept(sg'.segs)
  <2>1. IsSegmentor(sg) /\ IsSegmentor(sg') /\ ~sg'.stuck
    <3>1. PinyinInv'
      BY <1>3, PinyinStep
    <3>. QED
      BY <3>1, <1>3 DEF PinyinInv, Held, Good
  <2>2. \/ EditOf(scheme, sg, sg')
        \/ scheme \in Classes /\ \E ch \in setup.typed : sg' = push(scheme, sg, ch)
    BY <1>3, PinyinStep
  <2>3. Told(scheme, sg, sg')
    <3>1. CASE EditOf(scheme, sg, sg')
      BY <3>1 DEF EditOf
    <3>2. ASSUME scheme \in Classes, NEW ch \in setup.typed, sg' = push(scheme, sg, ch)
          PROVE  Told(scheme, sg, sg')
      <4>1. scheme # "quanpin" \/ Mistyped(Append(sg.pystr, Plain(ch))) = {}
        BY <1>3, NotMistyped
      <4>2. Held(scheme, sg) /\ ~sg.stuck /\ setup \in Setups
        BY <1>3 DEF PinyinInv
      <4>3. ch \in Key
        BY <4>2 DEF Key
      <4> DEFINE q == push(scheme, sg, ch)
      <4>4. Told(scheme, sg, q)
        BY <3>2, <4>1, <4>2, <4>3, PushHeld
      <4> HIDE DEF q
      <4>. QED
        BY <3>2, <4>4 DEF q
    <3>. QED
      BY <2>2, <3>1, <3>2
  <2>. QED
    BY <2>1, <2>3, <1>3, ToldKept
<1>4. PinyinInv /\ [Next]_vars /\ (scheme = "quanpin" => NeverCorrected)
      => [sg' # sg /\ sg'.buf # << >> /\ scheme # "shuangpin" =>
            LET Kept(segs) == {seg \in Range(segs) : seg.start < rebuildFrom(sg') - 1}
            IN Kept(sg.segs) = Kept(sg'.segs)]_vars
  BY <1>3
<1>. QED
  BY <1>1, <1>2, <1>4, PTL DEF Spec, ChangeReported
=============================================================================
