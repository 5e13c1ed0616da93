------------------------- MODULE ClassicViewProofs -------------------------
(***************************************************************************)
(* Proofs about the input session, for a lattice of any length, words and  *)
(* syllables of any length, and inputs whose segments fit the bit field    *)
(* that holds their length.                                                *)
(***************************************************************************)
EXTENDS ClassicView, FiniteSetTheorems, SequenceTheorems, WellFoundedInduction, TLAPS

-----------------------------------------------------------------------------
(* The segmentor.                                                          *)

SegTypes == {"syllable", "sep", "string"}
Segment == [start : Nat, len : Nat, type : SegTypes]
Segmentor == [buf : Seq(Keys), str : Seq(Keys), segs : Seq(Segment), updatedFrom : Nat]

\* segs cut str: they follow each other from its first key to its last, and none
\* opens at a stroke but the first.
Cuts(segs, str) ==
  /\ segs = << >> <=> str = << >>
  /\ segs # << >> => End(segs[Len(segs)]) = Len(str)
  /\ \A k \in DOMAIN segs :
       /\ segs[k].len > 0
       /\ segs[k].start = IF k = 1 THEN 0 ELSE End(segs[k - 1])
       /\ End(segs[k]) <= Len(str)
       /\ segs[k].type = SegmentType(str[segs[k].start + 1])
       /\ k # 1 => str[segs[k].start + 1] # "stroke"
       /\ \A i \in segs[k].start + 2 .. End(segs[k]) : str[i] = "stroke"
  /\ \A j, k \in DOMAIN segs : j < k => End(segs[j]) <= segs[k].start

\* u lies within no segment.
Between(segs, u) == \A k \in DOMAIN segs : End(segs[k]) <= u \/ u <= segs[k].start

SegmentorInv ==
  /\ sg \in Segmentor
  /\ sg.str = sg.buf
  /\ Cuts(sg.segs, sg.str)
  /\ sg.updatedFrom <= Len(sg.str)
  /\ Between(sg.segs, sg.updatedFrom)
  /\ Len(sg.buf) + 1 < MaxLattice

-----------------------------------------------------------------------------
(* The lattice.                                                            *)

FrameTypes == {"unused", "tail", "syllable", "sep", "string"}
BwTypes == {"USER_SELECTED", "BESTWORD", "IGNORED"}
Lex == [start : Frames, syls : Nat]
Frame == [type : FrameTypes, bw : SUBSET BwTypes, sel : Frames, lex : SUBSET Lex, home : Frames]
Context == [fr : [Frames -> Frame], tail : Nat, path : SUBSET (Nat \ {0}), starts : Nat, ends : Nat]

\* The frames of a lattice that is built in one go.
Whole(segs) == BuildLexiconStates(EmptyContext, segs, 1).fr

\* Up to frame m each frame has its own pointers.
OwnUpTo(fr, whole, m) == \A f \in 0 .. m : fr[f].home = whole[f].home
AgreeAt(fr, whole, f) == fr[f].type = whole[f].type /\ fr[f].lex = whole[f].lex

\* Nothing lies in the frames behind u.
Blank(fr, f) == fr[f].type = "unused" /\ fr[f].bw = {} /\ fr[f].lex = {} /\ fr[f].home = f
BlankAbove(fr, u) == \A f \in Frames : f > u => Blank(fr, f)
ClearBehind(c) == /\ BlankAbove(c.fr, c.tail)
                  /\ \A f \in Frames : f >= c.tail => c.fr[f].bw \subseteq {"BESTWORD"}

\* What is marked in a frame: a word that ends there, or that it is skipped.
MarksFit(c) ==
  \A f \in Frames :
    /\ isSyllableFrame(c.fr[f]) /\ c.fr[f].bw # {} => c.fr[f].sel \in Starts(c.fr[f])
    /\ "IGNORED" \in c.fr[f].bw => ~isSyllableFrame(c.fr[f])

FirstFrame(c) ==
  /\ c.fr[0].type = "unused" /\ c.fr[0].lex = {} /\ c.fr[0].home = 0
  /\ "IGNORED" \notin c.fr[0].bw

\* A frame that was overwritten has pointers of a frame before it; that of a
\* separator never is.
Pointers(c, segs) ==
  /\ \A f \in Frames : c.fr[f].home <= f
  /\ \A f \in Frames : Whole(segs)[f].type = "sep" => c.fr[f].type = "sep"

\* As far as all pointers are a frame's own, the lattice is that of its input.
Kept(c, segs) ==
  segs # << >> => \A f \in Frames : OwnUpTo(c.fr, Whole(segs), f) => AgreeAt(c.fr, Whole(segs), f)

LatticeInv(c, segs, str) ==
  /\ c \in Context
  /\ c.tail = Len(str) + 1
  /\ ClearBehind(c)
  /\ MarksFit(c)
  /\ FirstFrame(c)
  /\ Pointers(c, segs)
  /\ Kept(c, segs)

\* The candidates are words of the lattice, within what was listed last.
Choosable(c, w) ==
  /\ w[2] \in 1 .. LastFr(c)
  /\ w[2] <= c.ends
  /\ isSyllableFrame(c.fr[w[2]])
  /\ w[1] \in Starts(c.fr[w[2]])

ViewInv ==
  /\ SegmentorInv
  /\ Running =>
       /\ LatticeInv(ic, sg.segs, sg.str)
       /\ cursor \in 0 .. LastFr(ic)
       /\ candiFr \in Frames
       /\ \A w \in candis : Choosable(ic, w)

-----------------------------------------------------------------------------
(* Numbers.                                                                *)

\* A set of numbers has a least one.
LEMMA LeastNumber ==
  ASSUME NEW S \in SUBSET Nat, S # {}
  PROVE  \E x \in S : \A y \in S : x <= y
<1>1. PICK x \in S : \A y \in S : ~ (<<y, x>> \in OpToRel(<, Nat))
  BY NatLessThanWellFounded, WFMin
<1>2. \A y \in S : ~ (y < x)
  BY <1>1 DEF OpToRel
<1>. QED
  BY <1>2

\* A bounded one has a greatest.
LEMMA GreatestNumber ==
  ASSUME NEW S \in SUBSET Nat, S # {}, NEW n \in Nat, \A s \in S : s <= n
  PROVE  Max(S) \in S /\ \A s \in S : s <= Max(S)
<1> DEFINE T == {n - s : s \in S}
<1>1. T \in SUBSET Nat
  <2>1. ASSUME NEW s \in S
        PROVE  n - s \in Nat
    <3>1. s \in Nat /\ s <= n
      OBVIOUS
    <3>. QED
      BY <3>1
  <2>. QED
    BY <2>1
<1>a. T # {}
  OBVIOUS
<1> HIDE DEF T
<1>2. PICK t \in T : \A y \in T : t <= y
  BY <1>1, <1>a, LeastNumber
<1>3. PICK x \in S : t = n - x
  BY DEF T
<1>4. \A s \in S : n - s \in T
  BY DEF T
<1>5. \A s \in S : x >= s
  BY <1>2, <1>3, <1>4
<1>. QED
  BY <1>5 DEF Max

\* A number below the modulus is its own remainder.
LEMMA BelowModulus ==
  ASSUME NEW a \in Nat, NEW b \in Nat, a < b
  PROVE  a % b = a
OBVIOUS

\* Induction, for a set of numbers.
LEMMA NumbersFromZero ==
  ASSUME NEW S \in SUBSET Nat, 0 \in S, \A n \in S : n + 1 \in S
  PROVE  Nat \subseteq S
<1> SUFFICES ASSUME Nat \ S # {} PROVE FALSE
  OBVIOUS
<1>1. PICK x \in Nat \ S : \A y \in Nat \ S : x <= y
  BY LeastNumber, Nat \ S \in SUBSET Nat
<1>2. x - 1 \in Nat /\ (x - 1) + 1 = x
  OBVIOUS
<1>3. x - 1 \notin S
  BY <1>2
<1>. QED
  BY <1>1, <1>2, <1>3

\* n turns from x on, the k-th of them F[k].
IsCourse(f, x, F, n) == f[0] = x /\ \A k \in 1 .. n : f[k] = F[k][f[k - 1]]

\* Some function is the course of n turns.
LEMMA Course ==
  ASSUME NEW P, NEW x \in P, NEW n \in Nat, NEW F \in [1 .. n -> [P -> P]]
  PROVE  \E f \in [0 .. n -> P] : IsCourse(f, x, F, n)
<1> USE DEF IsCourse
<1> DEFINE S == {m \in Nat : m <= n => \E f \in [0 .. m -> P] : IsCourse(f, x, F, m)}
<1>1. 0 \in S
  <2>1. [k \in 0 .. 0 |-> x] \in [0 .. 0 -> P] /\ IsCourse([k \in 0 .. 0 |-> x], x, F, 0)
    OBVIOUS
  <2>. QED
    BY <2>1
<1>2. ASSUME NEW m \in S
      PROVE  m + 1 \in S
  <2>1. SUFFICES ASSUME m + 1 <= n
                 PROVE  \E f \in [0 .. m + 1 -> P] : IsCourse(f, x, F, m + 1)
    OBVIOUS
  <2>2. PICK f \in [0 .. m -> P] : IsCourse(f, x, F, m)
    BY <2>1
  <2> DEFINE g == [k \in 0 .. m + 1 |-> IF k = m + 1 THEN F[m + 1][f[m]] ELSE f[k]]
  <2>3. m \in Nat /\ f[m] \in P /\ m + 1 \in 1 .. n
    BY <2>1
  <2>4. F[m + 1][f[m]] \in P
    BY <2>3
  <2>5. g \in [0 .. m + 1 -> P]
    BY <2>3, <2>4
  <2>6. g[0] = x
    BY <2>2, <2>3
  <2>7. ASSUME NEW k \in 1 .. m + 1
        PROVE  g[k] = F[k][g[k - 1]]
    <3>1. CASE k = m + 1
      BY <3>1, <2>3
    <3>2. CASE k \in 1 .. m
      <4>1. g[k] = f[k] /\ g[k - 1] = f[k - 1]
        BY <3>2, <2>3
      <4>. QED
        BY <4>1, <3>2, <2>2
    <3>. QED
      BY <3>1, <3>2, <2>3
  <2> HIDE DEF g
  <2>. QED
    BY <2>3, <2>5, <2>6, <2>7
<1>3. S \in SUBSET Nat
  OBVIOUS
<1> HIDE DEF S
<1>4. n \in S
  BY <1>1, <1>2, <1>3, NumbersFromZero
<1>. QED
  BY <1>4 DEF S

\* What holds at first and is passed on from each turn to the next always holds.
LEMMA Stays ==
  ASSUME NEW n \in Nat, NEW P, 0 \in P, \A k \in 1 .. n : k - 1 \in P => k \in P
  PROVE  0 .. n \subseteq P
<1> DEFINE S == {m \in Nat : m <= n => m \in P}
<1>1. 0 \in S
  OBVIOUS
<1>2. ASSUME NEW m \in S
      PROVE  m + 1 \in S
  <2>1. CASE m + 1 <= n
    <3>1. m + 1 \in 1 .. n /\ (m + 1) - 1 = m /\ m \in P
      BY <2>1
    <3>. QED
      BY <3>1
  <2>. QED
    BY <2>1
<1>3. S \in SUBSET Nat
  OBVIOUS
<1> HIDE DEF S
<1>4. Nat \subseteq S
  BY <1>1, <1>2, <1>3, NumbersFromZero
<1>. QED
  BY <1>4 DEF S

-----------------------------------------------------------------------------
(* The segmentor: pushing keys.                                            *)

\* Up to u, the segments of a and of b are the same.
SameUpTo(a, b, u) ==
  /\ \A k \in DOMAIN a : End(a[k]) <= u => k \in DOMAIN b /\ b[k] = a[k]
  /\ \A k \in DOMAIN b : End(b[k]) <= u => k \in DOMAIN a /\ a[k] = b[k]

\* What _push makes of the segmentor s.
IsPushed(s, ch, q) ==
  /\ q \in Segmentor /\ Cuts(q.segs, q.str)
  /\ q.buf = s.buf /\ q.str = Append(s.str, ch)
  /\ q.updatedFrom <= Len(s.str)
  /\ Between(q.segs, q.updatedFrom)
  /\ SameUpTo(q.segs, s.segs, q.updatedFrom)

\* What is known of a segment.
LEMMA SegmentFacts ==
  ASSUME NEW seg \in Segment
  PROVE  /\ seg.start \in Nat /\ seg.len \in Nat /\ seg.type \in SegTypes
         /\ End(seg) \in Nat /\ End(seg) = seg.start + seg.len
BY DEF Segment, End

\* _push keeps the input cut, as long as it is shorter than the field that holds lengths counts.
LEMMA PushKeepsCuts ==
  ASSUME NEW s \in Segmentor, NEW ch \in Keys, Cuts(s.segs, s.str), Len(s.str) + 1 < LenModulus
  PROVE  IsPushed(s, ch, _push(s, ch))
<1> DEFINE n == Len(s.str)
           m == Len(s.segs)
           q == _push(s, ch)
<1>1. /\ s.buf \in Seq(Keys) /\ s.str \in Seq(Keys) /\ s.segs \in Seq(Segment)
      /\ n \in Nat /\ m \in Nat /\ DOMAIN s.segs = 1 .. m /\ DOMAIN s.str = 1 .. n
  BY DEF Segmentor
<1>2. \A k \in 1 .. m : /\ s.segs[k] \in Segment /\ s.segs[k].start \in Nat
                        /\ s.segs[k].len \in Nat /\ End(s.segs[k]) \in Nat
                        /\ End(s.segs[k]) = s.segs[k].start + s.segs[k].len
  BY <1>1, SegmentFacts
<1>3. LenModulus \in Nat /\ n + 1 < LenModulus
  BY SegmentorAssumption
<1>4. CASE s.segs # << >> /\ ch = "stroke"
  <2> DEFINE last == s.segs[m]
             new == [start |-> last.start, len |-> (last.len + 1), type |-> last.type]
  <2>1. m \in 1 .. m /\ last \in Segment
    BY <1>1, <1>2, <1>4
  <2>2. PICK a \in Nat, b \in Nat \ {0} : a = last.start /\ b = last.len /\ a + b = n
    <3>1. last.len > 0 /\ End(last) = n
      BY <1>4, <2>1, <1>1 DEF Cuts
    <3>. QED
      BY <3>1, <2>1, <1>2
  <2>3. (last.len + 1) % LenModulus = last.len + 1
    <3>1. b + 1 \in Nat /\ b + 1 < LenModulus
      <4>1. n \in Nat /\ n + 1 < LenModulus /\ LenModulus \in Nat
        BY <1>1, <1>3
      <4> HIDE DEF n, m, last
      <4>. QED
        BY <4>1, <2>2
    <3>2. (b + 1) % LenModulus = b + 1
      BY <3>1, <1>3, BelowModulus
    <3>. QED
      BY <3>2, <2>2
  <2>4. q = [buf |-> s.buf, str |-> Append(s.str, ch),
             segs |-> [s.segs EXCEPT ![m] = new], updatedFrom |-> last.start]
    <3>1. [last EXCEPT !.len = (@ + 1) % LenModulus] = new
      BY <2>1, <2>3 DEF Segment
    <3>2. s = [buf |-> s.buf, str |-> s.str, segs |-> s.segs, updatedFrom |-> s.updatedFrom]
      BY DEF Segmentor
    <3>3. [s.segs EXCEPT ![m].len = (@ + 1) % LenModulus] = [s.segs EXCEPT ![m] = new]
      BY <3>1
    <3>. QED
      BY <1>4, <3>2, <3>3 DEF _push, Last
  <2> DEFINE segs == [s.segs EXCEPT ![m] = new]
             str == Append(s.str, ch)
  <2>5. /\ new \in Segment /\ segs \in Seq(Segment) /\ Len(segs) = m /\ DOMAIN segs = 1 .. m
        /\ segs[m] = new /\ \A k \in 1 .. m - 1 : segs[k] = s.segs[k]
    <3>1. last.start \in Nat /\ last.len + 1 \in Nat /\ last.type \in SegTypes
      BY <2>1, SegmentFacts
    <3>2. new \in Segment
      BY <3>1 DEF Segment
    <3> HIDE DEF new, last
    <3>3. s.segs \in Seq(Segment) /\ m \in 1 .. m /\ m \in Nat /\ DOMAIN s.segs = 1 .. m
      BY <1>1, <2>1
    <3>4. segs \in Seq(Segment) /\ Len(segs) = m /\ DOMAIN segs = 1 .. m
      BY <3>2, <3>3
    <3>5. segs[m] = new /\ \A k \in 1 .. m - 1 : segs[k] = s.segs[k]
      BY <3>3
    <3>. QED
      BY <3>2, <3>4, <3>5
  <2>6. /\ str \in Seq(Keys) /\ Len(str) = n + 1 /\ str[n + 1] = "stroke"
        /\ \A i \in 1 .. n : str[i] = s.str[i]
    BY <1>1, <1>4
  <2>7. new.start = last.start /\ End(new) = n + 1 /\ new.type = last.type /\ new.len > 0
    <3>1. new.start = a /\ new.len = b + 1 /\ new.type = last.type
      BY <2>2
    <3> HIDE DEF n, m, new
    <3>2. a + (b + 1) = n + 1 /\ b + 1 > 0
      <4>1. a + b = n /\ b \in Nat /\ n \in Nat
        BY <2>2, <1>1
      <4>. QED
        BY <4>1
    <3>3. End(new) = a + (b + 1)
      BY <3>1 DEF End
    <3>. QED
      BY <3>1, <3>2, <3>3, <2>2
  <2> HIDE DEF segs, str, new, q
  <2>8. \A k \in 1 .. m - 1 : End(s.segs[k]) <= last.start
    <3>1. \A k \in 1 .. m - 1 : k \in DOMAIN s.segs /\ m \in DOMAIN s.segs /\ k < m
      BY <1>1, <2>1
    <3>2. \A j, k \in DOMAIN s.segs : j < k => End(s.segs[j]) <= s.segs[k].start
      BY DEF Cuts
    <3>. QED
      BY <3>1, <3>2
  <2>9. Cuts(segs, str)
    <3>1. segs # << >> /\ str # << >> /\ End(segs[m]) = n + 1
      BY <2>5, <2>6, <2>7, <2>1
    <3>2. ASSUME NEW k \in 1 .. m
          PROVE  /\ segs[k].len > 0
                 /\ segs[k].start = IF k = 1 THEN 0 ELSE End(segs[k - 1])
                 /\ End(segs[k]) <= Len(str)
                 /\ segs[k].type = SegmentType(str[segs[k].start + 1])
                 /\ k # 1 => str[segs[k].start + 1] # "stroke"
                 /\ \A i \in segs[k].start + 2 .. End(segs[k]) : str[i] = "stroke"
      <4>1. segs[k].start = s.segs[k].start /\ s.segs[k].start \in Nat
        <5>1. CASE k = m
          BY <5>1, <2>5, <2>7, <1>2
        <5>2. CASE k # m
          <6>1. k \in 1 .. m - 1
            BY <5>2, <1>1
          <6>. QED
            BY <6>1, <2>5, <1>2
        <5>. QED
          BY <5>1, <5>2
      <4>2. /\ s.segs[k].len > 0
            /\ s.segs[k].start = IF k = 1 THEN 0 ELSE End(s.segs[k - 1])
            /\ End(s.segs[k]) <= n
            /\ s.segs[k].type = SegmentType(s.str[s.segs[k].start + 1])
            /\ k # 1 => s.str[s.segs[k].start + 1] # "stroke"
            /\ \A i \in s.segs[k].start + 2 .. End(s.segs[k]) : s.str[i] = "stroke"
        BY <1>1 DEF Cuts
      <4>3. s.segs[k].start + 1 \in 1 .. n /\ End(s.segs[k]) \in Nat
        <5>1. s.segs[k].len \in Nat /\ End(s.segs[k]) = s.segs[k].start + s.segs[k].len
          BY <1>2
        <5> HIDE DEF n, m
        <5>. QED
          BY <5>1, <4>1, <4>2, <1>1
      <4>4. str[segs[k].start + 1] = s.str[s.segs[k].start + 1]
        BY <4>1, <4>3, <2>6
      <4>5. k # 1 => End(segs[k - 1]) = End(s.segs[k - 1])
        BY <2>5, <1>1
      <4>6. segs[k].type = s.segs[k].type /\ segs[k].len > 0
        BY <2>5, <2>7, <4>2
      <4>7. End(segs[k]) <= n + 1
        <5>1. CASE k = m
          BY <5>1, <2>5, <2>7, <1>1
        <5>2. CASE k # m
          <6>1. k \in 1 .. m - 1
            BY <5>2, <1>1
          <6>2. segs[k] = s.segs[k]
            BY <6>1, <2>5
          <6>. QED
            BY <6>2, <4>2, <4>3, <1>1
        <5>. QED
          BY <5>1, <5>2
      <4>8. ASSUME NEW i \in segs[k].start + 2 .. End(segs[k])
            PROVE  str[i] = "stroke"
        <5>1. CASE i = n + 1
          BY <5>1, <2>6
        <5>2. CASE i # n + 1
          <6>1. i \in 1 .. n /\ i \in s.segs[k].start + 2 .. End(s.segs[k])
            <7>1. CASE k = m
              BY <7>1, <5>2, <4>1, <2>5, <2>7, <2>2, <1>1 DEF End
            <7>2. CASE k # m
              <8>1. segs[k] = s.segs[k]
                BY <7>2, <2>5, <1>1
              <8>. QED
                BY <8>1, <4>1, <4>2, <4>3, <1>1
            <7>. QED
              BY <7>1, <7>2
          <6>. QED
            BY <6>1, <4>2, <2>6
        <5>. QED
          BY <5>1, <5>2
      <4>. QED
        BY <4>1, <4>2, <4>4, <4>5, <4>6, <4>7, <4>8, <2>6
    <3>3. \A j, k \in 1 .. m : j < k => End(segs[j]) <= segs[k].start
      <4> SUFFICES ASSUME NEW j \in 1 .. m, NEW k \in 1 .. m, j < k
                   PROVE  End(segs[j]) <= segs[k].start
        OBVIOUS
      <4>1. j \in 1 .. m - 1 /\ (k = m \/ k \in 1 .. m - 1)
        BY <1>1
      <4>2. segs[j] = s.segs[j] /\ segs[k].start = s.segs[k].start
        BY <4>1, <2>5, <2>7
      <4>. QED
        BY <4>2, <1>1 DEF Cuts
    <3>. QED
      BY <3>1, <3>2, <3>3, <2>5, <2>6 DEF Cuts
  <2>10. Between(segs, last.start)
    <3>1. ASSUME NEW k \in 1 .. m
          PROVE  End(segs[k]) <= last.start \/ last.start <= segs[k].start
      <4>1. CASE k = m
        BY <4>1, <2>5, <2>7, <2>2
      <4>2. CASE k # m
        BY <4>2, <2>5, <2>8, <1>1
      <4>. QED
        BY <4>1, <4>2
    <3>. QED
      BY <3>1, <2>5 DEF Between
  <2>11. SameUpTo(segs, s.segs, last.start)
    <3>1. ~ (End(segs[m]) <= last.start) /\ ~ (End(s.segs[m]) <= last.start)
      <4> HIDE DEF last, n, m
      <4>1. last.start + last.len = n /\ last.len > 0 /\ End(s.segs[m]) = n
        BY <2>2, <2>1, <1>2 DEF last
      <4>2. n + 1 > last.start /\ n > last.start
        BY <4>1, <2>2, <1>1
      <4>3. End(segs[m]) = n + 1
        BY <2>5, <2>7
      <4>. QED
        BY <4>1, <4>2, <4>3, <2>2, <1>1
    <3>2. \A k \in 1 .. m : k # m => k \in 1 .. m - 1
      BY <1>1
    <3>. QED
      BY <3>1, <3>2, <2>5, <1>1 DEF SameUpTo
  <2>12. q \in Segmentor
    BY <2>4, <2>5, <2>6, <2>2, <1>1 DEF Segmentor, segs, str
  <2>13. last.start <= n
    BY <2>2, <1>1
  <2>14. q = _push(s, ch)
    BY DEF q
  <2>15. /\ q.segs = segs /\ q.str = str /\ q.buf = s.buf /\ q.updatedFrom = last.start
    BY <2>4 DEF segs, str
  <2> HIDE DEF last
  <2>. QED
    BY <2>14, <2>15, <2>9, <2>10, <2>11, <2>12, <2>13 DEF IsPushed, str
<1>5. CASE ~ (s.segs # << >> /\ ch = "stroke")
  <2> DEFINE new == [start |-> n, len |-> 1, type |-> SegmentType(ch)]
             segs == Append(s.segs, new)
             str == Append(s.str, ch)
  <2>1. q = [buf |-> s.buf, str |-> str, segs |-> segs, updatedFrom |-> n]
    BY <1>5 DEF _push, Segmentor
  <2>2. new \in Segment
    BY <1>1 DEF Segment, SegmentType, SegTypes, Keys
  <2>3. /\ segs \in Seq(Segment) /\ Len(segs) = m + 1 /\ DOMAIN segs = 1 .. m + 1
        /\ segs[m + 1] = new /\ \A k \in 1 .. m : segs[k] = s.segs[k]
    BY <1>1, <2>2
  <2>4. /\ str \in Seq(Keys) /\ Len(str) = n + 1 /\ str[n + 1] = ch
        /\ \A i \in 1 .. n : str[i] = s.str[i]
    BY <1>1
  <2>5. new.start = n /\ End(new) = n + 1 /\ new.type = SegmentType(ch) /\ new.len > 0
    BY <1>1 DEF End
  <2> HIDE DEF segs, str, new, q
  <2>6. \A k \in 1 .. m : End(s.segs[k]) <= n
    BY <1>1 DEF Cuts
  <2>7. m # 0 => End(s.segs[m]) = n
    BY <1>1 DEF Cuts
  <2>8. Cuts(segs, str)
    <3>1. segs # << >> /\ str # << >> /\ End(segs[m + 1]) = n + 1
      BY <2>3, <2>4, <2>5, <1>1
    <3>2. ASSUME NEW k \in 1 .. m + 1
          PROVE  /\ segs[k].len > 0
                 /\ segs[k].start = IF k = 1 THEN 0 ELSE End(segs[k - 1])
                 /\ End(segs[k]) <= Len(str)
                 /\ segs[k].type = SegmentType(str[segs[k].start + 1])
                 /\ k # 1 => str[segs[k].start + 1] # "stroke"
                 /\ \A i \in segs[k].start + 2 .. End(segs[k]) : str[i] = "stroke"
      <4>1. CASE k = m + 1
        <5>1. segs[k].start = n /\ End(segs[k]) = n + 1 /\ segs[k].len > 0
              /\ segs[k].type = SegmentType(ch)
          BY <4>1, <2>3, <2>5
        <5>2. n = IF k = 1 THEN 0 ELSE End(segs[k - 1])
          <6>1. CASE k = 1
            BY <6>1, <4>1, <1>1 DEF Cuts
          <6>2. CASE k # 1
            BY <6>2, <4>1, <2>3, <2>7, <1>1
          <6>. QED
            BY <6>1, <6>2
        <5>3. k # 1 => ch # "stroke"
          BY <4>1, <1>1, <1>5
        <5>. QED
          BY <5>1, <5>2, <5>3, <2>4, <1>1
      <4>2. CASE k \in 1 .. m
        <5>1. /\ s.segs[k].len > 0
              /\ s.segs[k].start = IF k = 1 THEN 0 ELSE End(s.segs[k - 1])
              /\ End(s.segs[k]) <= n
              /\ s.segs[k].type = SegmentType(s.str[s.segs[k].start + 1])
              /\ k # 1 => s.str[s.segs[k].start + 1] # "stroke"
              /\ \A i \in s.segs[k].start + 2 .. End(s.segs[k]) : s.str[i] = "stroke"
          BY <1>1, <4>2 DEF Cuts
        <5>2. s.segs[k].start \in Nat /\ s.segs[k].start + 1 \in 1 .. n /\ End(s.segs[k]) \in Nat
          <6>1. s.segs[k].start \in Nat /\ s.segs[k].len \in Nat /\ End(s.segs[k]) = s.segs[k].start + s.segs[k].len
            BY <4>2, <1>2
          <6>2. s.segs[k].len > 0 /\ End(s.segs[k]) <= n
            BY <5>1
          <6>3. n \in Nat
            BY <1>1
          <6> DEFINE from == s.segs[k].start
                     long == s.segs[k].len
                     to   == End(s.segs[k])
          <6>4. from \in Nat /\ long \in Nat /\ to = from + long /\ long > 0 /\ to <= n
            BY <6>1, <6>2
          <6> HIDE DEF n, m, from, long, to
          <6>5. from + 1 >= 1 /\ from + 1 <= n /\ from + 1 \in Nat /\ to \in Nat
            BY <6>3, <6>4
          <6>6. from \in Nat /\ from + 1 \in 1 .. n /\ to \in Nat
            BY <6>3, <6>4, <6>5
          <6>. QED
            BY <6>6 DEF from, to
        <5>3. segs[k] = s.segs[k] /\ (k # 1 => segs[k - 1] = s.segs[k - 1])
          BY <4>2, <2>3, <1>1
        <5>4. str[s.segs[k].start + 1] = s.str[s.segs[k].start + 1]
          BY <5>2, <2>4
        <5>5. \A i \in s.segs[k].start + 2 .. End(s.segs[k]) : i \in 1 .. n
          BY <5>1, <5>2, <1>1
        <5>6. \A i \in s.segs[k].start + 2 .. End(s.segs[k]) : str[i] = "stroke"
          BY <5>1, <5>5, <2>4
        <5>7. End(s.segs[k]) <= n + 1
          BY <5>1, <5>2, <1>1
        <5>. QED
          BY <5>1, <5>3, <5>4, <5>6, <5>7, <2>4
      <4>. QED
        BY <4>1, <4>2, <1>1
    <3>3. \A j, k \in 1 .. m + 1 : j < k => End(segs[j]) <= segs[k].start
      <4> SUFFICES ASSUME NEW j \in 1 .. m + 1, NEW k \in 1 .. m + 1, j < k
                   PROVE  End(segs[j]) <= segs[k].start
        OBVIOUS
      <4>1. j \in 1 .. m /\ segs[j] = s.segs[j]
        BY <2>3, <1>1
      <4>2. CASE k = m + 1
        BY <4>1, <4>2, <2>3, <2>5, <2>6
      <4>3. CASE k \in 1 .. m
        BY <4>1, <4>3, <2>3, <1>1 DEF Cuts
      <4>4. k = m + 1 \/ k \in 1 .. m
        BY <1>1
      <4>. QED
        BY <4>2, <4>3, <4>4
    <3>. QED
      BY <3>1, <3>2, <3>3, <2>3, <2>4 DEF Cuts
  <2>9. Between(segs, n)
    <3>1. ASSUME NEW k \in 1 .. m + 1
          PROVE  End(segs[k]) <= n \/ n <= segs[k].start
      <4>1. CASE k = m + 1
        BY <4>1, <2>3, <2>5, <1>1
      <4>2. CASE k \in 1 .. m
        BY <4>2, <2>3, <2>6
      <4>. QED
        BY <4>1, <4>2, <1>1
    <3>. QED
      BY <3>1, <2>3 DEF Between
  <2>10. SameUpTo(segs, s.segs, n)
    <3>1. ~ (End(segs[m + 1]) <= n)
      BY <2>3, <2>5, <1>1
    <3>2. \A k \in 1 .. m + 1 : k = m + 1 \/ k \in 1 .. m
      BY <1>1
    <3>3. \A k \in 1 .. m : k \in 1 .. m + 1
      BY <1>1
    <3>. QED
      BY <3>1, <3>2, <3>3, <2>3, <1>1 DEF SameUpTo
  <2>11. q \in Segmentor
    BY <2>1, <2>3, <2>4, <1>1 DEF Segmentor, segs, str
  <2>12. q = _push(s, ch)
    BY DEF q
  <2>13. q.segs = segs /\ q.str = str /\ q.buf = s.buf /\ q.updatedFrom = n /\ n <= n
    BY <2>1, <1>1
  <2>. QED
    BY <2>12, <2>13, <2>8, <2>9, <2>10, <2>11 DEF IsPushed, str
<1>. QED
  BY <1>4, <1>5

\* A turn of _updateWith leaves a segmentor.
LEMMA PushTyped ==
  ASSUME NEW s \in Segmentor, NEW ch \in Keys
  PROVE  _push(s, ch) \in Segmentor /\ PushedOn(s, ch) \in Segmentor
<1> DEFINE m == Len(s.segs)
           last == s.segs[m]
           more == [last EXCEPT !.len = (@ + 1) % LenModulus]
           new == [start |-> Len(s.str), len |-> 1, type |-> SegmentType(ch)]
           q == _push(s, ch)
<1>1. /\ s.buf \in Seq(Keys) /\ s.str \in Seq(Keys) /\ s.segs \in Seq(Segment)
      /\ s.updatedFrom \in Nat
      /\ Append(s.str, ch) \in Seq(Keys) /\ Len(s.str) \in Nat /\ m \in Nat
      /\ s = [buf |-> s.buf, str |-> s.str, segs |-> s.segs, updatedFrom |-> s.updatedFrom]
  BY DEF Segmentor
<1>2. CASE s.segs # << >> /\ ch = "stroke"
  <2>1. m \in 1 .. m /\ last \in Segment
    BY <1>1, <1>2
  <2>2. last.len \in Nat /\ last.start \in Nat
    BY <2>1, SegmentFacts
  <2>3. (last.len + 1) % LenModulus \in Nat
    BY <2>2, SegmentorAssumption
  <2>4. more \in Segment
    BY <2>1, <2>3 DEF Segment
  <2>5. [s.segs EXCEPT ![m] = more] \in Seq(Segment)
    BY <2>1, <2>4, <1>1
  <2>6. q = [buf |-> s.buf, str |-> Append(s.str, ch),
             segs |-> [s.segs EXCEPT ![m] = more], updatedFrom |-> last.start]
    BY <1>1, <1>2 DEF _push, Last
  <2> HIDE DEF q, more
  <2>7. q \in Segmentor
    BY <2>2, <2>5, <2>6, <1>1 DEF Segmentor
  <2>. QED
    BY <2>7, <1>1 DEF PushedOn, Segmentor, q
<1>3. CASE ~ (s.segs # << >> /\ ch = "stroke")
  <2>1. new \in Segment
    BY <1>1 DEF Segment, SegmentType, SegTypes, Keys
  <2>2. Append(s.segs, new) \in Seq(Segment)
    BY <2>1, <1>1
  <2>3. q = [buf |-> s.buf, str |-> Append(s.str, ch),
             segs |-> Append(s.segs, new), updatedFrom |-> Len(s.str)]
    BY <1>1, <1>3 DEF _push
  <2> HIDE DEF q, new
  <2>4. q \in Segmentor
    BY <2>2, <2>3, <1>1 DEF Segmentor
  <2>. QED
    BY <2>4, <1>1 DEF PushedOn, Segmentor, q
<1>. QED
  BY <1>2, <1>3

\* What the segmentor is that has been given the keys of suffix behind those of s.
IsRecut(s, suffix, q) ==
  /\ q \in Segmentor /\ Cuts(q.segs, q.str)
  /\ q.buf = s.buf /\ q.str = s.str \o suffix
  /\ q.updatedFrom <= Len(s.str)
  /\ Between(q.segs, q.updatedFrom)
  /\ SameUpTo(q.segs, s.segs, q.updatedFrom)

\* The loop of _updateWith, as a function.
LEMMA UpdatedWithCourse ==
  ASSUME NEW s \in Segmentor, NEW suffix \in Seq(Keys), NEW from \in Nat
  PROVE  \E p \in [0 .. Len(suffix) -> Segmentor] :
           /\ p[0] = [s EXCEPT !.updatedFrom = from]
           /\ \A k \in 1 .. Len(suffix) : p[k] = PushedOn(p[k - 1], suffix[k])
           /\ UpdatedWith(s, suffix, from) = p[Len(suffix)]
<1> DEFINE n == Len(suffix)
           x == [s EXCEPT !.updatedFrom = from]
           IsAfter(f) == f = [k \in 0 .. n |-> IF k = 0 THEN x ELSE PushedOn(f[k - 1], suffix[k])]
<1>1. n \in Nat /\ x \in Segmentor
  <2>1. x = [buf |-> s.buf, str |-> s.str, segs |-> s.segs, updatedFrom |-> from]
    BY DEF Segmentor
  <2> HIDE DEF x
  <2>2. x \in Segmentor
    BY <2>1 DEF Segmentor
  <2>. QED
    BY <2>2
<1>2. \E f : IsAfter(f)
  <2> HIDE DEF x, n
  <2> DEFINE F == [k \in 1 .. n |-> [p \in Segmentor |-> PushedOn(p, suffix[k])]]
  <2>1. F \in [1 .. n -> [Segmentor -> Segmentor]]
    <3>1. \A k \in 1 .. n : suffix[k] \in Keys
      BY DEF n
    <3>. QED
      BY <3>1, PushTyped
  <2> HIDE DEF F
  <2>2. PICK f \in [0 .. n -> Segmentor] : IsCourse(f, x, F, n)
    BY <1>1, <2>1, Course
  <2>3. ASSUME NEW k \in 1 .. n
        PROVE  f[k] = PushedOn(f[k - 1], suffix[k])
    <3>1. k - 1 \in 0 .. n
      BY <1>1
    <3>2. f[k - 1] \in Segmentor /\ f[k] = F[k][f[k - 1]]
      BY <2>2, <3>1 DEF IsCourse
    <3>. QED
      BY <3>2 DEF F
  <2>4. f[0] = x
    BY <2>2 DEF IsCourse
  <2>5. IsAfter(f)
    BY <2>3, <2>4, <1>1
  <2>. QED
    BY <2>5
<1> DEFINE after == CHOOSE f : IsAfter(f)
<1>3. IsAfter(after)
  BY <1>2
<1>4. UpdatedWith(s, suffix, from) = after[n]
  BY DEF UpdatedWith
<1> HIDE DEF after, x, n
<1>5. after[0] = x /\ \A k \in 1 .. n : after[k] = PushedOn(after[k - 1], suffix[k])
  BY <1>1, <1>3
<1> DEFINE P == {k \in 0 .. n : after[k] \in Segmentor}
<1>6. 0 \in P
  BY <1>1, <1>5
<1>7. ASSUME NEW k \in 1 .. n, k - 1 \in P
      PROVE  k \in P
  <2>1. suffix[k] \in Keys
    BY DEF n
  <2>2. PushedOn(after[k - 1], suffix[k]) \in Segmentor
    BY <2>1, <1>7, PushTyped
  <2>. QED
    BY <2>2, <1>5, <1>1
<1> HIDE DEF P
<1>8. 0 .. n \subseteq P
  BY <1>1, <1>6, <1>7, Stays
<1>9. \A k \in 0 .. n : after[k] \in Segmentor
  BY <1>8 DEF P
<1>10. after \in [0 .. n -> Segmentor]
  BY <1>3, <1>9
<1>. QED
  BY <1>4, <1>5, <1>10 DEF x, n

\* s on its way to be given the keys of t: updatedFrom tells when none has been given yet.
OnTheWay(s, t, p) ==
  IF t = << >>
  THEN p \in Segmentor /\ p.buf = s.buf /\ p.str = s.str /\ p.segs = s.segs /\ p.updatedFrom = UINT_MAX
  ELSE IsRecut(s, t, p)

\* Up to a place before u the segments that are the same up to u are the same; so are
\* those of a third that are.
LEMMA SameChain ==
  ASSUME NEW a \in Seq(Segment), NEW b \in Seq(Segment), NEW c \in Seq(Segment),
         NEW u \in Nat, NEW v \in Nat, NEW w \in Nat, w <= u, w <= v,
         SameUpTo(a, b, u), SameUpTo(b, c, v)
  PROVE  SameUpTo(a, c, w)
<1>1. ASSUME NEW k \in DOMAIN a, End(a[k]) <= w
      PROVE  k \in DOMAIN c /\ c[k] = a[k]
  <2>1. End(a[k]) \in Nat
    BY SegmentFacts
  <2>2. End(a[k]) <= u
    BY <1>1, <2>1
  <2>3. k \in DOMAIN b /\ b[k] = a[k]
    BY <2>2 DEF SameUpTo
  <2>4. End(b[k]) <= v
    BY <1>1, <2>1, <2>3
  <2>. QED
    BY <2>3, <2>4 DEF SameUpTo
<1>2. ASSUME NEW k \in DOMAIN c, End(c[k]) <= w
      PROVE  k \in DOMAIN a /\ a[k] = c[k]
  <2>1. End(c[k]) \in Nat
    BY SegmentFacts
  <2>2. End(c[k]) <= v
    BY <1>2, <2>1
  <2>3. k \in DOMAIN b /\ b[k] = c[k]
    BY <2>2 DEF SameUpTo
  <2>4. End(b[k]) <= u
    BY <1>2, <2>1, <2>3
  <2>. QED
    BY <2>3, <2>4 DEF SameUpTo
<1>. QED
  BY <1>1, <1>2 DEF SameUpTo

\* A key appended to keys that stand behind others.
LEMMA AppendedBehind ==
  \A a, b \in Seq(Keys) : \A e \in Keys : Append(a \o b, e) = a \o Append(b, e)
<1> DEFINE S == Keys
<1> HIDE DEF S
<1> SUFFICES ASSUME NEW a \in Seq(S), NEW b \in Seq(S), NEW e \in S
             PROVE  Append(a \o b, e) = a \o Append(b, e)
  BY DEF S
<1>1. <<e>> \in Seq(S) /\ a \o b \in Seq(S)
  OBVIOUS
<1>2. Append(a \o b, e) = (a \o b) \o <<e>> /\ Append(b, e) = b \o <<e>>
  BY <1>1, AppendIsConcat
<1>3. (a \o b) \o <<e>> = a \o (b \o <<e>>)
  BY <1>1, ConcatAssociative
<1>. QED
  BY <1>2, <1>3

\* A key more: the segments before what the push changed stay as they were.
LEMMA OneMoreKey ==
  ASSUME NEW s \in Segmentor, NEW t \in Seq(Keys), NEW p, NEW ch \in Keys,
         Cuts(s.segs, s.str), OnTheWay(s, t, p),
         Len(s.str) + Len(t) + 1 < LenModulus, Len(s.str) + Len(t) + 1 < UINT_MAX
  PROVE  OnTheWay(s, Append(t, ch), PushedOn(p, ch))
<1> DEFINE q == _push(p, ch)
           r == PushedOn(p, ch)
           u == IF q.updatedFrom < p.updatedFrom THEN q.updatedFrom ELSE p.updatedFrom
<1>1. /\ p \in Segmentor /\ Cuts(p.segs, p.str) /\ p.buf = s.buf /\ p.str = s.str \o t
  BY DEF OnTheWay, IsRecut, Segmentor
<1>2. /\ s.str \in Seq(Keys) /\ s.segs \in Seq(Segment) /\ p.segs \in Seq(Segment)
      /\ p.str \in Seq(Keys) /\ p.updatedFrom \in Nat
  BY <1>1 DEF Segmentor
<1>3. Len(p.str) = Len(s.str) + Len(t) /\ Len(s.str) \in Nat /\ Len(t) \in Nat
  BY <1>1, <1>2
<1>4. IsPushed(p, ch, q)
  BY <1>1, <1>3, PushKeepsCuts
<1> HIDE DEF q
<1>5. q \in Segmentor /\ Cuts(q.segs, q.str) /\ q.buf = s.buf /\ q.str = Append(p.str, ch)
  BY <1>1, <1>4 DEF IsPushed
<1>6. q.updatedFrom \in Nat /\ q.segs \in Seq(Segment)
  BY <1>5 DEF Segmentor
<1>7. /\ q.updatedFrom <= Len(p.str) /\ Between(q.segs, q.updatedFrom)
      /\ SameUpTo(q.segs, p.segs, q.updatedFrom)
  BY <1>4 DEF IsPushed
<1>8. Append(t, ch) # << >> /\ q.str = s.str \o Append(t, ch)
  <2>1. Append(s.str \o t, ch) = s.str \o Append(t, ch)
    <3>1. s.str \in Seq(Keys) /\ t \in Seq(Keys) /\ ch \in Keys
      BY <1>2
    <3>. QED
      BY <3>1, AppendedBehind, Zenon
  <2>2. Append(t, ch) # << >>
    BY AppendProperties
  <2>. QED
    BY <2>1, <2>2, <1>1, <1>5
<1>9. u \in Nat /\ u <= q.updatedFrom /\ u <= p.updatedFrom
  BY <1>2, <1>6
<1>10. r = [buf |-> q.buf, str |-> q.str, segs |-> q.segs, updatedFrom |-> u]
  <2>1. r = [q EXCEPT !.updatedFrom = u]
    BY DEF PushedOn, q
  <2>2. q = [buf |-> q.buf, str |-> q.str, segs |-> q.segs, updatedFrom |-> q.updatedFrom]
    BY <1>5 DEF Segmentor
  <2> HIDE DEF u, r
  <2>. QED
    BY <2>1, <2>2
<1>11. r \in Segmentor
  <2> HIDE DEF u, r
  <2>. QED
    BY <1>5, <1>9, <1>10 DEF Segmentor
<1>12. r.updatedFrom = u /\ r.segs = q.segs /\ r.str = q.str /\ r.buf = q.buf
  BY <1>10
<1>13. u <= Len(s.str) /\ SameUpTo(q.segs, s.segs, u) /\ Between(q.segs, u)
  <2>1. CASE t = << >>
    <3>1. p.segs = s.segs /\ p.updatedFrom = UINT_MAX /\ Len(p.str) = Len(s.str)
      BY <1>3, <2>1 DEF OnTheWay
    <3>2. q.updatedFrom < UINT_MAX
      BY <3>1, <1>3, <1>6, <1>7 DEF UINT_MAX
    <3>3. u = q.updatedFrom
      BY <3>1, <3>2
    <3>. QED
      BY <3>1, <3>3, <1>7
  <2>2. CASE t # << >>
    <3>1. /\ p.updatedFrom <= Len(s.str) /\ Between(p.segs, p.updatedFrom)
          /\ SameUpTo(p.segs, s.segs, p.updatedFrom)
      BY <2>2 DEF OnTheWay, IsRecut
    <3>2. u <= Len(s.str)
      BY <3>1, <1>3, <1>9, <1>2
    <3>3. SameUpTo(q.segs, s.segs, u)
      BY <3>1, <1>2, <1>6, <1>7, <1>9, SameChain
    <3>4. Between(q.segs, u)
      <4>1. CASE u = q.updatedFrom
        BY <4>1, <1>7
      <4>2. CASE u # q.updatedFrom
        <5>1. u = p.updatedFrom /\ u <= q.updatedFrom
          BY <4>2, <1>9
        <5>2. ASSUME NEW k \in DOMAIN q.segs
              PROVE  End(q.segs[k]) <= u \/ u <= q.segs[k].start
          <6>1. q.segs[k].start \in Nat /\ End(q.segs[k]) \in Nat
            BY <1>6, SegmentFacts
          <6>2. CASE q.updatedFrom <= q.segs[k].start
            BY <6>1, <6>2, <5>1, <1>6, <1>9
          <6>3. CASE ~ (q.updatedFrom <= q.segs[k].start)
            <7>1. End(q.segs[k]) <= q.updatedFrom
              BY <6>3, <1>7 DEF Between
            <7>2. k \in DOMAIN p.segs /\ p.segs[k] = q.segs[k]
              BY <7>1, <1>7 DEF SameUpTo
            <7>. QED
              BY <7>2, <5>1, <3>1 DEF Between
          <6>. QED
            BY <6>2, <6>3
        <5>. QED
          BY <5>2 DEF Between
      <4>. QED
        BY <4>1, <4>2
    <3>. QED
      BY <3>2, <3>3, <3>4
  <2>. QED
    BY <2>1, <2>2
<1> HIDE DEF r, u
<1>14. IsRecut(s, Append(t, ch), r)
  BY <1>5, <1>8, <1>11, <1>12, <1>13 DEF IsRecut
<1>. QED
  BY <1>8, <1>14 DEF OnTheWay, r

\* _updateWith keeps the input cut, and the segments before updatedFrom.
LEMMA UpdatedWithCuts ==
  ASSUME NEW s \in Segmentor, NEW suffix \in Seq(Keys), suffix # << >>, Cuts(s.segs, s.str),
         Len(s.str) + Len(suffix) < LenModulus, Len(s.str) + Len(suffix) < UINT_MAX
  PROVE  IsRecut(s, suffix, UpdatedWith(s, suffix, UINT_MAX))
<1> DEFINE n == Len(suffix)
<1>1. n \in Nat /\ UINT_MAX \in Nat /\ Len(s.str) \in Nat /\ s.str \in Seq(Keys)
  BY DEF UINT_MAX, Segmentor
<1>2. PICK p \in [0 .. n -> Segmentor] :
        /\ p[0] = [s EXCEPT !.updatedFrom = UINT_MAX]
        /\ \A k \in 1 .. n : p[k] = PushedOn(p[k - 1], suffix[k])
        /\ UpdatedWith(s, suffix, UINT_MAX) = p[n]
  BY <1>1, UpdatedWithCourse
<1> DEFINE P == {k \in 0 .. n : OnTheWay(s, SubSeq(suffix, 1, k), p[k])}
<1>3. 0 \in P
  <2>1. SubSeq(suffix, 1, 0) = << >> /\ 0 \in 0 .. n
    BY <1>1
  <2>2. p[0] \in Segmentor
    BY <2>1
  <2>3. /\ p[0].buf = s.buf /\ p[0].str = s.str /\ p[0].segs = s.segs
        /\ p[0].updatedFrom = UINT_MAX
    BY <1>2 DEF Segmentor
  <2>. QED
    BY <2>1, <2>2, <2>3 DEF OnTheWay
<1>4. ASSUME NEW k \in 1 .. n, k - 1 \in P
      PROVE  k \in P
  <2> DEFINE t == SubSeq(suffix, 1, k - 1)
  <2>1. t \in Seq(Keys) /\ Len(t) = k - 1 /\ suffix[k] \in Keys
    BY <1>1
  <2>2. SubSeq(suffix, 1, k) = Append(t, suffix[k])
    BY <1>1
  <2>3. OnTheWay(s, t, p[k - 1])
    BY <1>4
  <2> HIDE DEF t
  <2>4. Len(s.str) + Len(t) + 1 <= Len(s.str) + n
    BY <2>1, <1>1
  <2>5. LenModulus \in Nat
    BY SegmentorAssumption
  <2>6. Len(s.str) + Len(t) + 1 < LenModulus /\ Len(s.str) + Len(t) + 1 < UINT_MAX
    BY <2>1, <2>4, <2>5, <1>1
  <2>7. OnTheWay(s, Append(t, suffix[k]), PushedOn(p[k - 1], suffix[k]))
    BY <2>1, <2>3, <2>6, OneMoreKey
  <2>8. k \in 0 .. n
    BY <1>1
  <2>. QED
    BY <2>2, <2>7, <2>8, <1>2
<1> HIDE DEF P
<1>5. 0 .. n \subseteq P
  BY <1>1, <1>3, <1>4, Stays
<1>6. n \in P
  BY <1>1, <1>5
<1>7. SubSeq(suffix, 1, n) = suffix
  BY <1>1
<1>. QED
  BY <1>2, <1>6, <1>7 DEF P, OnTheWay

-----------------------------------------------------------------------------
(* The segmentor: its edits.                                               *)

\* The end of the first j segments.
EndOf(segs, j) == IF j = 0 THEN 0 ELSE End(segs[j])

\* The first segments of a cut input cut what they stand for.
LEMMA CutPrefix ==
  ASSUME NEW segs \in Seq(Segment), NEW old \in Seq(Keys), Cuts(segs, old),
         NEW j \in 0 .. Len(segs), NEW str \in Seq(Keys), EndOf(segs, j) <= Len(str),
         \A i \in 1 .. EndOf(segs, j) : str[i] = old[i]
  PROVE  /\ EndOf(segs, j) \in Nat /\ EndOf(segs, j) <= Len(old)
         /\ Cuts(SubSeq(segs, 1, j), SubSeq(str, 1, EndOf(segs, j)))
         /\ SameUpTo(SubSeq(segs, 1, j), segs, EndOf(segs, j))
<1> DEFINE m == Len(segs)
           at == EndOf(segs, j)
           a == SubSeq(segs, 1, j)
           b == SubSeq(str, 1, at)
<1>1. m \in Nat /\ Len(old) \in Nat /\ Len(str) \in Nat /\ DOMAIN segs = 1 .. m
  OBVIOUS
<1>2. \A k \in 1 .. m : /\ segs[k].start \in Nat /\ segs[k].len \in Nat /\ End(segs[k]) \in Nat
                        /\ End(segs[k]) = segs[k].start + segs[k].len
  BY <1>1, SegmentFacts
<1>3. at \in Nat /\ at <= Len(old) /\ at <= Len(str)
  <2>1. CASE j = 0
    BY <2>1, <1>1 DEF EndOf
  <2>2. CASE j # 0
    <3>1. j \in 1 .. m
      BY <2>2, <1>1
    <3>2. End(segs[j]) <= Len(old)
      BY <3>1, <1>1 DEF Cuts
    <3>. QED
      BY <3>1, <3>2, <2>2, <1>2 DEF EndOf
  <2>. QED
    BY <2>1, <2>2
<1>4. \A i \in 1 .. at : str[i] = old[i]
  OBVIOUS
<1>5. /\ a \in Seq(Segment) /\ Len(a) = j /\ DOMAIN a = 1 .. j
      /\ \A k \in 1 .. j : k \in 1 .. m /\ a[k] = segs[k]
  BY <1>1
<1>6. j # 0 => j \in 1 .. m /\ at = End(segs[j])
  BY <1>1 DEF EndOf
<1>7. j = 0 => at = 0
  BY DEF EndOf
<1> HIDE DEF at
<1>8. b \in Seq(Keys) /\ Len(b) = at /\ \A i \in 1 .. at : b[i] = old[i]
  <2>1. \A i \in 1 .. at : i \in 1 .. Len(str)
    BY <1>1, <1>3
  <2>2. \A i \in 1 .. at : str[i] \in Keys
    BY <2>1
  <2>. QED
    BY <2>2, <1>3, <1>4, SubSeqProperties
<1> HIDE DEF a, b, m
<1>9. \A k \in 1 .. m :
        /\ segs[k].len > 0
        /\ segs[k].start = IF k = 1 THEN 0 ELSE End(segs[k - 1])
        /\ segs[k].type = SegmentType(old[segs[k].start + 1])
        /\ k # 1 => old[segs[k].start + 1] # "stroke"
        /\ \A i \in segs[k].start + 2 .. End(segs[k]) : old[i] = "stroke"
  BY <1>1 DEF Cuts
<1>10. \A i, k \in 1 .. m : i < k => End(segs[i]) <= segs[k].start
  BY <1>1 DEF Cuts
<1>11. \A k \in 1 .. j : End(segs[k]) <= at
  <2> SUFFICES ASSUME NEW k \in 1 .. j PROVE End(segs[k]) <= at
    OBVIOUS
  <2>1. j # 0 /\ k \in 1 .. m /\ j \in 1 .. m
    BY <1>5, <1>6, <1>1
  <2>2. CASE k = j
    BY <2>1, <2>2, <1>6, <1>2
  <2>3. CASE k # j
    <3>1. k < j
      BY <2>3, <2>1, <1>1
    <3>2. End(segs[k]) <= segs[j].start
      BY <3>1, <2>1, <1>10
    <3>3. segs[j].start <= End(segs[j]) /\ End(segs[k]) \in Nat /\ segs[j].start \in Nat
      BY <2>1, <1>2
    <3>. QED
      BY <3>2, <3>3, <2>1, <1>6, <1>3
  <2>. QED
    BY <2>2, <2>3
<1>12. Cuts(a, b)
  <2>1. a = << >> <=> b = << >>
    <3>1. j = 0 <=> at = 0
      <4>1. ASSUME j # 0 PROVE at # 0
        <5>1. segs[j].len > 0 /\ at = segs[j].start + segs[j].len
          BY <4>1, <1>6, <1>2, <1>9
        <5>2. segs[j].start \in Nat /\ segs[j].len \in Nat
          BY <4>1, <1>6, <1>2
        <5>. QED
          BY <5>1, <5>2
      <4>. QED
        BY <4>1, <1>7
    <3>2. a = << >> <=> j = 0
      BY <1>5
    <3>3. b = << >> <=> at = 0
      BY <1>8
    <3>. QED
      BY <3>1, <3>2, <3>3
  <2>2. a # << >> => End(a[Len(a)]) = Len(b)
    <3> SUFFICES ASSUME a # << >> PROVE End(a[Len(a)]) = Len(b)
      OBVIOUS
    <3>1. j # 0
      BY <1>5
    <3>2. j \in 1 .. j
      BY <3>1, <1>1
    <3>. QED
      BY <3>1, <3>2, <1>5, <1>6, <1>8
  <2>3. ASSUME NEW k \in 1 .. j
        PROVE  /\ a[k].len > 0
               /\ a[k].start = IF k = 1 THEN 0 ELSE End(a[k - 1])
               /\ End(a[k]) <= Len(b)
               /\ a[k].type = SegmentType(b[a[k].start + 1])
               /\ k # 1 => b[a[k].start + 1] # "stroke"
               /\ \A i \in a[k].start + 2 .. End(a[k]) : b[i] = "stroke"
    <3>1. k \in 1 .. m /\ a[k] = segs[k]
      BY <1>5
    <3>2. k # 1 => k - 1 \in 1 .. j /\ a[k - 1] = segs[k - 1]
      BY <1>5, <1>1
    <3>3. End(segs[k]) <= at /\ segs[k].len > 0
      BY <3>1, <1>9, <1>11
    <3>4. segs[k].start \in Nat /\ segs[k].len \in Nat /\ End(segs[k]) = segs[k].start + segs[k].len
      BY <3>1, <1>2
    <3>5. segs[k].start + 1 \in 1 .. at
      BY <3>3, <3>4, <1>3
    <3>6. b[segs[k].start + 1] = old[segs[k].start + 1]
      BY <3>5, <1>8
    <3>7. ASSUME NEW i \in segs[k].start + 2 .. End(segs[k])
          PROVE  b[i] = "stroke"
      <4>1. i \in 1 .. at
        BY <3>3, <3>4, <1>3
      <4>2. b[i] = old[i]
        BY <4>1, <1>8
      <4>. QED
        BY <4>2, <3>1, <1>9
    <3>. QED
      BY <3>1, <3>2, <3>3, <3>6, <3>7, <1>8, <1>9
  <2>4. \A i, k \in 1 .. j : i < k => End(a[i]) <= a[k].start
    BY <1>5, <1>10
  <2>. QED
    BY <2>1, <2>2, <2>3, <2>4, <1>5 DEF Cuts
<1>13. SameUpTo(a, segs, at)
  <2>1. ASSUME NEW k \in 1 .. m, End(segs[k]) <= at
        PROVE  k \in 1 .. j
    <3>1. segs[k].start \in Nat /\ segs[k].len \in Nat /\ segs[k].len > 0
          /\ End(segs[k]) = segs[k].start + segs[k].len
      BY <1>2, <1>9
    <3>2. CASE j = 0
      BY <3>1, <3>2, <2>1, <1>7
    <3>3. CASE j # 0
      <4>1. ASSUME j < k PROVE FALSE
        <5>1. at <= segs[k].start
          BY <3>3, <4>1, <1>6, <1>10
        <5>. QED
          BY <5>1, <3>1, <2>1, <1>3
      <4>. QED
        BY <4>1, <1>1
    <3>. QED
      BY <3>2, <3>3
  <2>. QED
    BY <2>1, <1>1, <1>5 DEF SameUpTo
<1>. QED
  BY <1>3, <1>12, <1>13 DEF at, a, b

\* What an edit makes of the segmentor s: str is cut, and up to updatedFrom as it was.
IsEdited(s, str, q) ==
  /\ q \in Segmentor /\ Cuts(q.segs, q.str) /\ q.str = str
  /\ q.updatedFrom <= Len(s.str) /\ q.updatedFrom <= Len(str)
  /\ Between(q.segs, q.updatedFrom)
  /\ SameUpTo(q.segs, s.segs, q.updatedFrom)

\* A segmentor with another shown input, or cut otherwise.
LEMMA WithBuf ==
  \A s \in Segmentor : \A b \in Seq(Keys) :
    /\ [s EXCEPT !.buf = b] \in Segmentor /\ [s EXCEPT !.buf = b].buf = b
    /\ [s EXCEPT !.buf = b].str = s.str /\ [s EXCEPT !.buf = b].segs = s.segs
<1> SUFFICES ASSUME NEW s \in Segmentor, NEW b \in Seq(Keys)
             PROVE  /\ [s EXCEPT !.buf = b] \in Segmentor /\ [s EXCEPT !.buf = b].buf = b
                    /\ [s EXCEPT !.buf = b].str = s.str /\ [s EXCEPT !.buf = b].segs = s.segs
  OBVIOUS
<1>. QED
  BY DEF Segmentor

\* See WithBuf.
HasSegs(s, a, b, t) ==
  t \in Segmentor /\ t.segs = a /\ t.str = b /\ t.buf = s.buf
LEMMA WithSegs ==
  ASSUME NEW s \in Segmentor, NEW a \in Seq(Segment), NEW b \in Seq(Keys)
  PROVE  HasSegs(s, a, b, [s EXCEPT !.segs = a, !.str = b])
BY DEF Segmentor, HasSegs

\* Cut again behind its first j segments, an input is cut.
LEMMA CutAgainCuts ==
  ASSUME NEW s \in Segmentor, Cuts(s.segs, s.str), NEW str \in Seq(Keys),
         NEW j \in 0 .. Len(s.segs), EndOf(s.segs, j) < Len(str),
         \A i \in 1 .. EndOf(s.segs, j) : str[i] = s.str[i],
         Len(str) < LenModulus, Len(str) < UINT_MAX
  PROVE  IsEdited(s, str, CutAgain(s, j, str)) /\ CutAgain(s, j, str).buf = s.buf
<1> DEFINE at == EndOf(s.segs, j)
           a == SubSeq(s.segs, 1, j)
           b == SubSeq(str, 1, at)
           suffix == SubSeq(str, at + 1, Len(str))
           kept == [s EXCEPT !.segs = a, !.str = b]
           q == CutAgain(s, j, str)
<1>1. /\ s.segs \in Seq(Segment) /\ s.str \in Seq(Keys) /\ s.buf \in Seq(Keys)
      /\ s.updatedFrom \in Nat /\ Len(str) \in Nat /\ Len(s.str) \in Nat
      /\ s = [buf |-> s.buf, str |-> s.str, segs |-> s.segs, updatedFrom |-> s.updatedFrom]
  BY DEF Segmentor
<1>2. EndOf(s.segs, j) <= Len(str)
  <2>1. EndOf(s.segs, j) \in Nat
    <3>1. CASE j = 0
      BY <3>1 DEF EndOf
    <3>2. CASE j # 0
      <4>1. s.segs[j] \in Segment
        BY <3>2, <1>1
      <4>. QED
        BY <3>2, <4>1, SegmentFacts DEF EndOf
    <3>. QED
      BY <3>1, <3>2
  <2>. QED
    BY <2>1, <1>1
<1>3. /\ at \in Nat /\ at <= Len(s.str) /\ Cuts(a, b) /\ SameUpTo(a, s.segs, at)
  BY <1>1, <1>2, CutPrefix
<1>4. at < Len(str)
  OBVIOUS
<1>5. q = UpdatedWith(kept, suffix, UINT_MAX)
  BY DEF CutAgain, EndOf
<1> HIDE DEF at, q
<1>6. a \in Seq(Segment)
  BY <1>1
<1>7. b \in Seq(Keys) /\ Len(b) = at
  BY <1>1, <1>3, <1>4
<1>8. suffix \in Seq(Keys) /\ Len(suffix) = Len(str) - at /\ suffix # << >>
  BY <1>1, <1>3, <1>4
<1>9. b \o suffix = str
  <2>1. 1 \in 1 .. Len(str) + 1 /\ at \in 1 - 1 .. Len(str) /\ Len(str) \in at .. Len(str)
    BY <1>1, <1>3, <1>4
  <2>2. b \o suffix = SubSeq(str, 1, Len(str))
    BY <2>1, ConcatAdjacentSubSeq
  <2>. QED
    BY <2>2, SubSeqFull
<1> HIDE DEF a, b, suffix
<1>10. kept \in Segmentor /\ kept.segs = a /\ kept.str = b /\ kept.buf = s.buf
  <2>1. HasSegs(s, a, b, kept)
    BY <1>6, <1>7, WithSegs
  <2> HIDE DEF kept
  <2>. QED
    BY <2>1 DEF HasSegs
<1> HIDE DEF kept
<1>11. Len(kept.str) + Len(suffix) = Len(str)
  BY <1>1, <1>3, <1>7, <1>8, <1>10
<1>12. IsRecut(kept, suffix, q)
  BY <1>3, <1>5, <1>8, <1>10, <1>11, UpdatedWithCuts
<1>13. /\ q \in Segmentor /\ Cuts(q.segs, q.str) /\ q.buf = s.buf /\ q.str = str
       /\ q.updatedFrom <= at /\ Between(q.segs, q.updatedFrom)
       /\ SameUpTo(q.segs, a, q.updatedFrom)
  BY <1>7, <1>9, <1>10, <1>12 DEF IsRecut
<1>14. q.updatedFrom \in Nat /\ q.segs \in Seq(Segment)
  BY <1>13 DEF Segmentor
<1>15. SameUpTo(q.segs, s.segs, q.updatedFrom)
  <2>1. q.updatedFrom <= q.updatedFrom
    BY <1>14
  <2>. QED
    BY <2>1, <1>1, <1>3, <1>6, <1>13, <1>14, SameChain
<1>16. q.updatedFrom <= Len(s.str) /\ q.updatedFrom <= Len(str)
  BY <1>1, <1>3, <1>4, <1>13, <1>14
<1>. QED
  BY <1>13, <1>15, <1>16 DEF IsEdited, q

\* Pushing a key at the end.
LEMMA PushedCuts ==
  ASSUME NEW s \in Segmentor, Cuts(s.segs, s.str), s.str = s.buf, NEW ch \in Keys,
         Len(Pushed(s, ch).buf) < LenModulus
  PROVE  IsEdited(s, Pushed(s, ch).buf, Pushed(s, ch)) /\ Len(Pushed(s, ch).buf) = Len(s.buf) + 1
<1> DEFINE t == [s EXCEPT !.buf = Append(@, ch)]
           q == Pushed(s, ch)
<1>1. /\ s.segs \in Seq(Segment) /\ s.str \in Seq(Keys) /\ s.buf \in Seq(Keys)
      /\ s.updatedFrom \in Nat /\ Len(s.str) \in Nat
      /\ s = [buf |-> s.buf, str |-> s.str, segs |-> s.segs, updatedFrom |-> s.updatedFrom]
  BY DEF Segmentor
<1>2. Append(s.buf, ch) \in Seq(Keys) /\ Len(Append(s.buf, ch)) = Len(s.str) + 1
  BY <1>1
<1>3. q = _push(t, ch)
  BY DEF Pushed
<1>4. t \in Segmentor /\ t.buf = Append(s.buf, ch) /\ t.str = s.str /\ t.segs = s.segs
  BY <1>2, WithBuf, Zenon
<1> HIDE DEF t, q
<1>5. q.buf = Append(s.buf, ch)
  <2>1. t = [buf |-> t.buf, str |-> t.str, segs |-> t.segs, updatedFrom |-> t.updatedFrom]
    BY <1>4 DEF Segmentor
  <2>. QED
    BY <1>3, <1>4, <2>1 DEF _push
<1>6. Len(t.str) + 1 < LenModulus
  BY <1>2, <1>4, <1>5 DEF q
<1>7. IsPushed(t, ch, q)
  BY <1>3, <1>4, <1>6, PushKeepsCuts
<1>8. /\ q \in Segmentor /\ Cuts(q.segs, q.str) /\ q.str = Append(s.buf, ch)
      /\ q.updatedFrom <= Len(s.str) /\ Between(q.segs, q.updatedFrom)
      /\ SameUpTo(q.segs, s.segs, q.updatedFrom)
  BY <1>4, <1>7 DEF IsPushed
<1>9. q.updatedFrom \in Nat
  BY <1>8 DEF Segmentor
<1>10. q.updatedFrom <= Len(Append(s.buf, ch))
  BY <1>1, <1>2, <1>8, <1>9
<1>. QED
  BY <1>2, <1>5, <1>8, <1>10 DEF IsEdited, q

\* Of the numbers from 1 on, as many as a set has that holds with each all before it.
LEMMA InitialNumbers ==
  ASSUME NEW n \in Nat, NEW S \in SUBSET (1 .. n), \A k \in S : \A i \in 1 .. k : i \in S
  PROVE  Cardinality(S) \in 0 .. n /\ S = 1 .. Cardinality(S)
<1>1. CASE S = {}
  BY <1>1, FS_EmptySet
<1>2. CASE S # {}
  <2>1. S \in SUBSET Nat /\ \A s \in S : s <= n
    OBVIOUS
  <2> DEFINE m == Max(S)
  <2>2. m \in S /\ \A s \in S : s <= m
    BY <1>2, <2>1, GreatestNumber
  <2> HIDE DEF m
  <2>3. S = 1 .. m /\ m \in 1 .. n
    <3>1. m \in 1 .. n
      BY <2>2
    <3>2. \A i \in 1 .. m : i \in S
      BY <2>2
    <3>3. \A s \in S : s \in 1 .. m
      BY <2>2, <3>1
    <3>. QED
      BY <3>1, <3>2, <3>3
  <2>4. Cardinality(1 .. m) = m
    BY <2>3, FS_Interval
  <2>. QED
    BY <2>3, <2>4
<1>. QED
  BY <1>1, <1>2

\* _locateSegment finds a segment that ends at or before idx.
LEMMA LocatedBefore ==
  ASSUME NEW s \in Segmentor, Cuts(s.segs, s.str), NEW idx \in Nat
  PROVE  /\ Located(s, idx) \in 0 .. Len(s.segs)
         /\ EndOf(s.segs, Located(s, idx)) \in Nat
         /\ EndOf(s.segs, Located(s, idx)) <= idx
<1> DEFINE n == Len(s.segs)
           S == {k \in DOMAIN s.segs : End(s.segs[k]) <= idx}
           j == Cardinality(S)
<1>1. s.segs \in Seq(Segment) /\ n \in Nat /\ DOMAIN s.segs = 1 .. n
  BY DEF Segmentor
<1>2. \A k \in 1 .. n : /\ s.segs[k].start \in Nat /\ End(s.segs[k]) \in Nat
                        /\ s.segs[k].start <= End(s.segs[k])
  <2> SUFFICES ASSUME NEW k \in 1 .. n
               PROVE  /\ s.segs[k].start \in Nat /\ End(s.segs[k]) \in Nat
                      /\ s.segs[k].start <= End(s.segs[k])
    OBVIOUS
  <2>1. s.segs[k] \in Segment
    BY <1>1
  <2>. QED
    BY <2>1, SegmentFacts
<1>3. ASSUME NEW k \in S, NEW i \in 1 .. k
      PROVE  i \in S
  <2>1. k \in 1 .. n /\ End(s.segs[k]) <= idx /\ i \in 1 .. n
    BY <1>1
  <2>2. CASE i = k
    BY <2>2
  <2>3. CASE i # k
    <3>1. i < k
      BY <2>3, <2>1, <1>1
    <3>2. End(s.segs[i]) <= s.segs[k].start
      BY <3>1, <2>1, <1>1 DEF Cuts
    <3>3. End(s.segs[i]) <= idx
      BY <3>2, <2>1, <1>2
    <3>. QED
      BY <3>3, <2>1, <1>1
  <2>. QED
    BY <2>2, <2>3
<1>4. S \in SUBSET (1 .. n) /\ Located(s, idx) = j
  BY <1>1 DEF Located
<1>5. \A k \in S : \A i \in 1 .. k : i \in S
  BY <1>3
<1>6. \A k \in S : k \in 1 .. n /\ End(s.segs[k]) <= idx
  BY <1>1
<1> HIDE DEF S, n, j
<1>7. j \in 0 .. n /\ S = 1 .. j
  BY <1>1, <1>4, <1>5, InitialNumbers DEF j
<1>8. EndOf(s.segs, j) \in Nat /\ EndOf(s.segs, j) <= idx
  <2>1. CASE j = 0
    BY <2>1 DEF EndOf
  <2>2. CASE j # 0
    <3>1. j \in S
      BY <2>2, <1>7, <1>1
    <3>. QED
      BY <3>1, <2>2, <1>2, <1>6 DEF EndOf
  <2>. QED
    BY <2>1, <2>2
<1>. QED
  BY <1>4, <1>7, <1>8 DEF n

\* _updateWith does not change what is shown.
LEMMA UpdatedWithKeepsBuf ==
  ASSUME NEW s \in Segmentor, NEW suffix \in Seq(Keys)
  PROVE  UpdatedWith(s, suffix, UINT_MAX).buf = s.buf
<1> DEFINE n == Len(suffix)
<1>1. n \in Nat /\ UINT_MAX \in Nat
  BY DEF UINT_MAX
<1>2. PICK p \in [0 .. n -> Segmentor] :
        /\ p[0] = [s EXCEPT !.updatedFrom = UINT_MAX]
        /\ \A k \in 1 .. n : p[k] = PushedOn(p[k - 1], suffix[k])
        /\ UpdatedWith(s, suffix, UINT_MAX) = p[n]
  BY <1>1, UpdatedWithCourse
<1> DEFINE P == {k \in 0 .. n : p[k].buf = s.buf}
<1>3. 0 \in P
  BY <1>1, <1>2 DEF Segmentor
<1>4. ASSUME NEW k \in 1 .. n, k - 1 \in P
      PROVE  k \in P
  <2>1. k - 1 \in 0 .. n /\ k \in 0 .. n
    BY <1>1
  <2> DEFINE x == p[k - 1]
             ch == suffix[k]
  <2>2. x \in Segmentor /\ x.buf = s.buf /\ p[k] = PushedOn(x, ch)
    BY <2>1, <1>2, <1>4
  <2> HIDE DEF x, ch
  <2>3. PushedOn(x, ch).buf = x.buf
    BY <2>2 DEF PushedOn, _push, Segmentor
  <2>. QED
    BY <2>1, <2>2, <2>3
<1> HIDE DEF P
<1>5. 0 .. n \subseteq P
  BY <1>1, <1>3, <1>4, Stays
<1>6. n \in P
  BY <1>1, <1>5
<1>. QED
  BY <1>2, <1>6 DEF P

\* Nor does cutting again.
LEMMA CutAgainKeepsBuf ==
  ASSUME NEW s \in Segmentor, NEW str \in Seq(Keys), NEW j \in 0 .. Len(s.segs),
         EndOf(s.segs, j) \in Nat, EndOf(s.segs, j) < Len(str)
  PROVE  CutAgain(s, j, str).buf = s.buf
<1> DEFINE at == EndOf(s.segs, j)
           a == SubSeq(s.segs, 1, j)
           b == SubSeq(str, 1, at)
           suffix == SubSeq(str, at + 1, Len(str))
           kept == [s EXCEPT !.segs = a, !.str = b]
<1>1. CutAgain(s, j, str) = UpdatedWith(kept, suffix, UINT_MAX)
  BY DEF CutAgain, EndOf
<1>2. at \in Nat /\ at < Len(str) /\ Len(str) \in Nat
  OBVIOUS
<1> HIDE DEF at
<1>3. a \in Seq(Segment)
  BY DEF Segmentor
<1>4. b \in Seq(Keys) /\ suffix \in Seq(Keys)
  BY <1>2
<1> HIDE DEF a, b, suffix
<1>5. HasSegs(s, a, b, kept)
  BY <1>3, <1>4, WithSegs
<1> HIDE DEF kept
<1>6. kept \in Segmentor /\ kept.buf = s.buf
  BY <1>5 DEF HasSegs
<1>. QED
  BY <1>1, <1>4, <1>6, UpdatedWithKeepsBuf

\* Cutting again what another shown input goes with.
LEMMA EditedFromBuf ==
  ASSUME NEW s \in Segmentor, NEW b \in Seq(Keys), NEW str, NEW q,
         IsEdited([s EXCEPT !.buf = b], str, q)
  PROVE  IsEdited(s, str, q)
<1> DEFINE t == [s EXCEPT !.buf = b]
<1>1. t.str = s.str /\ t.segs = s.segs
  BY WithBuf
<1>2. IsEdited(t, str, q)
  OBVIOUS
<1> HIDE DEF t
<1>. QED
  BY <1>1, <1>2 DEF IsEdited

\* pop.
LEMMA PoppedCuts ==
  ASSUME NEW s \in Segmentor, Cuts(s.segs, s.str), s.str = s.buf, s.str # << >>,
         Len(s.str) < LenModulus, Len(s.str) < UINT_MAX
  PROVE  IsEdited(s, Popped(s).buf, Popped(s)) /\ Len(Popped(s).buf) = Len(s.buf) - 1
<1> DEFINE m == Len(s.segs)
           n == Len(s.str)
           last == s.segs[m]
           a == SubSeq(s.segs, 1, m - 1)
           b == SubSeq(s.str, 1, n - 1)
           q == Popped(s)
<1>1. /\ s.segs \in Seq(Segment) /\ s.str \in Seq(Keys) /\ m \in Nat /\ n \in Nat \ {0}
      /\ s.segs # << >> /\ DOMAIN s.segs = 1 .. m /\ s.buf = s.str
  BY DEF Segmentor, Cuts
<1>2. m \in 1 .. m /\ m - 1 \in 0 .. m
  BY <1>1
<1>3. /\ last.start \in Nat /\ last.len \in Nat \ {0} /\ End(last) = n
      /\ last.start + last.len = n /\ last.start = EndOf(s.segs, m - 1)
  <2>1. last \in Segment
    BY <1>1, <1>2
  <2>2. last.start \in Nat /\ last.len \in Nat /\ End(last) = last.start + last.len
    BY <2>1, SegmentFacts
  <2>3. End(last) = n /\ last.len > 0 /\ last.start = IF m = 1 THEN 0 ELSE End(s.segs[m - 1])
    BY <1>1, <1>2 DEF Cuts
  <2>4. last.start = EndOf(s.segs, m - 1)
    BY <2>3, <1>2 DEF EndOf
  <2>. QED
    BY <2>2, <2>3, <2>4
<1>4. b \in Seq(Keys) /\ Len(b) = n - 1 /\ \A i \in 1 .. n - 1 : b[i] = s.str[i]
  BY <1>1
<1>5. Last(s.segs) = last /\ Front(s.str) = b /\ Front(s.segs) = a /\ Front(s.buf) = b
  BY <1>1 DEF Last, Front
<1>6. CASE last.len = 1
  <2>1. q = [buf |-> b, str |-> b, segs |-> a, updatedFrom |-> n - 1]
    BY <1>1, <1>5, <1>6 DEF Popped
  <2>2. last.start = n - 1
    BY <1>1, <1>3, <1>6
  <2>3. a \in Seq(Segment)
    BY <1>1
  <2>4. /\ SubSeq(s.str, 1, EndOf(s.segs, m - 1)) = b
        /\ EndOf(s.segs, m - 1) <= Len(s.str)
        /\ \A i \in 1 .. EndOf(s.segs, m - 1) : s.str[i] = s.str[i]
    BY <1>1, <1>3, <2>2
  <2>5. Cuts(a, b) /\ SameUpTo(a, s.segs, n - 1)
    BY <1>1, <1>2, <1>3, <2>2, <2>4, CutPrefix
  <2>6. n - 1 \in Nat /\ n - 1 <= n - 1 /\ n - 1 <= n
    BY <1>1
  <2> HIDE DEF q, a, b, n
  <2>7. Between(a, n - 1)
    BY <2>5, <1>4 DEF Cuts, Between
  <2>8. q.buf = b /\ q.str = b /\ q.segs = a /\ q.updatedFrom = n - 1
    BY <2>1
  <2>9. q \in Segmentor
    BY <2>1, <2>3, <2>6, <1>4 DEF Segmentor
  <2>10. q.updatedFrom <= Len(s.str) /\ q.updatedFrom <= Len(b)
    BY <2>6, <2>8, <1>4 DEF n
  <2>11. IsEdited(s, q.buf, q)
    BY <2>5, <2>7, <2>8, <2>9, <2>10 DEF IsEdited
  <2>. QED
    BY <2>8, <2>11, <1>1, <1>4 DEF q, n
<1>7. CASE last.len # 1
  <2> DEFINE t == [s EXCEPT !.buf = b]
  <2>1. q = CutAgain(t, m - 1, b)
    BY <1>1, <1>5, <1>7 DEF Popped
  <2>2. t \in Segmentor /\ t.buf = b /\ t.str = s.str /\ t.segs = s.segs
    BY <1>4, WithBuf
  <2>3. last.start < n - 1
    BY <1>1, <1>3, <1>7
  <2>4. Len(b) < LenModulus /\ Len(b) < UINT_MAX
    BY <1>1, <1>4, SegmentorAssumption DEF UINT_MAX
  <2>5. \A i \in 1 .. EndOf(s.segs, m - 1) : b[i] = s.str[i]
    BY <2>3, <1>1, <1>3, <1>4
  <2>6. EndOf(s.segs, m - 1) < Len(b)
    BY <2>3, <1>3, <1>4
  <2> DEFINE j == m - 1
  <2> HIDE DEF t, q, b, m, j
  <2>7. IsEdited(t, b, q) /\ q.buf = t.buf
    <3>1. /\ j \in 0 .. Len(t.segs) /\ EndOf(t.segs, j) < Len(b) /\ Cuts(t.segs, t.str)
          /\ \A i \in 1 .. EndOf(t.segs, j) : b[i] = t.str[i]
      BY <2>2, <2>5, <2>6, <1>2 DEF m, j
    <3>2. q = CutAgain(t, j, b)
      BY <2>1 DEF j
    <3>. QED
      BY <3>1, <3>2, <2>2, <2>4, <1>4, CutAgainCuts
  <2>8. IsEdited(s, b, q)
    BY <2>7, <1>4, EditedFromBuf DEF t
  <2>. QED
    BY <2>2, <2>7, <2>8, <1>1, <1>4 DEF q
<1>. QED
  BY <1>6, <1>7

\* Keys behind others.
AreBehind(x, y, b) ==
  /\ b \in Seq(Keys) /\ Len(b) = Len(x) + Len(y)
  /\ \A i \in 1 .. Len(x) : b[i] = x[i]
LEMMA KeysBehind ==
  ASSUME NEW x \in Seq(Keys), NEW y \in Seq(Keys)
  PROVE  AreBehind(x, y, x \o y)
BY DEF AreBehind

\* The keys with one more behind the first idx, and with one less.
LEMMA KeyInserted ==
  ASSUME NEW str \in Seq(Keys), NEW ch \in Keys, NEW idx \in 0 .. Len(str)
  PROVE  /\ InsertAt(str, idx + 1, ch) \in Seq(Keys)
         /\ Len(InsertAt(str, idx + 1, ch)) = Len(str) + 1
         /\ \A i \in 1 .. idx : InsertAt(str, idx + 1, ch)[i] = str[i]
<1> DEFINE n == Len(str)
           x == SubSeq(str, 1, idx)
           y == SubSeq(str, idx + 1, n)
           z == x \o <<ch>>
           b == InsertAt(str, idx + 1, ch)
<1>1. n \in Nat /\ idx \in Nat /\ idx <= n
  OBVIOUS
<1>2. x \in Seq(Keys) /\ Len(x) = idx /\ \A i \in 1 .. idx : x[i] = str[i]
  BY <1>1
<1>3. y \in Seq(Keys) /\ Len(y) = n - idx
  BY <1>1
<1>4. b = z \o y
  <2>1. (idx + 1) - 1 = idx
    BY <1>1
  <2>. QED
    BY <2>1 DEF InsertAt
<1> HIDE DEF x, y, b, n
<1>5. z \in Seq(Keys) /\ Len(z) = idx + 1 /\ \A i \in 1 .. idx : z[i] = x[i]
  BY <1>1, <1>2
<1> HIDE DEF z
<1>6. b \in Seq(Keys) /\ Len(b) = Len(z) + Len(y) /\ \A i \in 1 .. Len(z) : b[i] = z[i]
  <2>1. z \in Seq(Keys) /\ y \in Seq(Keys)
    BY <1>3, <1>5
  <2>2. AreBehind(z, y, b)
    BY <2>1, <1>4, KeysBehind
  <2>. QED
    BY <2>2 DEF AreBehind
<1>7. Len(b) = n + 1
  BY <1>1, <1>3, <1>5, <1>6
<1>8. ASSUME NEW i \in 1 .. idx PROVE b[i] = str[i]
  <2>1. i \in 1 .. Len(z)
    BY <1>1, <1>5
  <2>. QED
    BY <2>1, <1>2, <1>5, <1>6
<1>. QED
  BY <1>6, <1>7, <1>8 DEF b, n

\* See KeyInserted.
LEMMA KeyRemoved ==
  ASSUME NEW str \in Seq(Keys), NEW idx \in Nat, idx < Len(str) - 1
  PROVE  /\ RemoveAt(str, idx + 1) \in Seq(Keys)
         /\ Len(RemoveAt(str, idx + 1)) = Len(str) - 1
         /\ \A i \in 1 .. idx : RemoveAt(str, idx + 1)[i] = str[i]
<1> DEFINE n == Len(str)
           x == SubSeq(str, 1, idx)
           y == SubSeq(str, idx + 2, n)
           b == RemoveAt(str, idx + 1)
<1>1. n \in Nat /\ idx \in Nat /\ idx + 2 <= n
  OBVIOUS
<1>2. x \in Seq(Keys) /\ Len(x) = idx /\ \A i \in 1 .. idx : x[i] = str[i]
  BY <1>1
<1>3. y \in Seq(Keys) /\ Len(y) = n - idx - 1
  BY <1>1
<1>4. b = x \o y
  <2>1. (idx + 1) - 1 = idx /\ (idx + 1) + 1 = idx + 2
    BY <1>1
  <2>. QED
    BY <2>1 DEF RemoveAt
<1> HIDE DEF x, y, b, n
<1>5. b \in Seq(Keys) /\ Len(b) = Len(x) + Len(y) /\ \A i \in 1 .. Len(x) : b[i] = x[i]
  <2>1. x \in Seq(Keys) /\ y \in Seq(Keys)
    BY <1>2, <1>3
  <2>2. AreBehind(x, y, b)
    BY <2>1, <1>4, KeysBehind
  <2>. QED
    BY <2>2 DEF AreBehind
<1>6. Len(b) = n - 1
  BY <1>1, <1>2, <1>3, <1>5
<1>. QED
  BY <1>2, <1>5, <1>6 DEF b, n

\* insertAt.
LEMMA InsertedCuts ==
  ASSUME NEW s \in Segmentor, Cuts(s.segs, s.str), s.str = s.buf, NEW ch \in Keys,
         NEW idx \in 0 .. Len(s.str),
         Len(InsertedAt(s, idx, ch).buf) < LenModulus, Len(s.str) + 1 < UINT_MAX
  PROVE  IsEdited(s, InsertedAt(s, idx, ch).buf, InsertedAt(s, idx, ch))
         /\ Len(InsertedAt(s, idx, ch).buf) = Len(s.buf) + 1
<1> DEFINE n == Len(s.str)
           b == InsertAt(s.str, idx + 1, ch)
           t == [s EXCEPT !.buf = b]
           j == Located(s, idx)
           q == InsertedAt(s, idx, ch)
<1>1. s.str \in Seq(Keys) /\ n \in Nat /\ idx \in Nat /\ idx <= n
  BY DEF Segmentor
<1>2. b \in Seq(Keys) /\ Len(b) = n + 1 /\ \A i \in 1 .. idx : b[i] = s.str[i]
  BY <1>1, KeyInserted
<1>3. q = CutAgain(t, j, b)
  BY DEF InsertedAt
<1>4. t \in Segmentor /\ t.buf = b /\ t.str = s.str /\ t.segs = s.segs
  BY <1>2, WithBuf
<1>5. j \in 0 .. Len(s.segs) /\ EndOf(s.segs, j) \in Nat /\ EndOf(s.segs, j) <= idx
  BY <1>1, LocatedBefore
<1> HIDE DEF t, q, b, j
<1>6. EndOf(s.segs, j) < Len(b) /\ \A i \in 1 .. EndOf(s.segs, j) : b[i] = s.str[i]
  BY <1>1, <1>2, <1>5
<1>7. Len(b) < LenModulus /\ Len(b) < UINT_MAX
  <2>1. q.buf = b
    BY <1>2, <1>3, <1>4, <1>5, CutAgainKeepsBuf
  <2>. QED
    BY <2>1, <1>2 DEF q
<1>8. IsEdited(t, b, q) /\ q.buf = b
  BY <1>2, <1>3, <1>4, <1>5, <1>6, <1>7, CutAgainCuts
<1>9. IsEdited(s, b, q)
  BY <1>2, <1>8, EditedFromBuf DEF t
<1>. QED
  BY <1>1, <1>2, <1>8, <1>9 DEF q

\* deleteAt.
LEMMA DeletedCuts ==
  ASSUME NEW s \in Segmentor, Cuts(s.segs, s.str), s.str = s.buf,
         NEW idx \in Nat, idx < Len(s.str) - 1,
         Len(s.str) < LenModulus, Len(s.str) < UINT_MAX
  PROVE  IsEdited(s, DeletedAt(s, idx).buf, DeletedAt(s, idx))
         /\ Len(DeletedAt(s, idx).buf) = Len(s.buf) - 1
<1> DEFINE n == Len(s.str)
           b == RemoveAt(s.str, idx + 1)
           t == [s EXCEPT !.buf = b]
           j == Located(s, idx)
           q == DeletedAt(s, idx)
<1>1. s.str \in Seq(Keys) /\ n \in Nat /\ idx < n - 1 /\ idx + 2 <= n
  BY DEF Segmentor
<1>2. b \in Seq(Keys) /\ Len(b) = n - 1 /\ \A i \in 1 .. idx : b[i] = s.str[i]
  BY <1>1, KeyRemoved
<1>3. q = CutAgain(t, j, b)
  BY DEF DeletedAt
<1>4. t \in Segmentor /\ t.buf = b /\ t.str = s.str /\ t.segs = s.segs
  BY <1>2, WithBuf
<1>5. j \in 0 .. Len(s.segs) /\ EndOf(s.segs, j) \in Nat /\ EndOf(s.segs, j) <= idx
  BY LocatedBefore
<1> HIDE DEF t, q, b, j
<1>6. EndOf(s.segs, j) < Len(b) /\ \A i \in 1 .. EndOf(s.segs, j) : b[i] = s.str[i]
  BY <1>1, <1>2, <1>5
<1>7. Len(b) < LenModulus /\ Len(b) < UINT_MAX
  BY <1>1, <1>2, SegmentorAssumption DEF UINT_MAX
<1>a. /\ Cuts(t.segs, t.str) /\ j \in 0 .. Len(t.segs) /\ EndOf(t.segs, j) < Len(b)
      /\ \A i \in 1 .. EndOf(t.segs, j) : b[i] = t.str[i]
  BY <1>4, <1>5, <1>6
<1>8. IsEdited(t, b, q) /\ q.buf = b
  <2>1. IsEdited(t, b, CutAgain(t, j, b)) /\ CutAgain(t, j, b).buf = t.buf
    BY <1>2, <1>4, <1>7, <1>a, CutAgainCuts
  <2>. QED
    BY <2>1, <1>3, <1>4
<1>9. IsEdited(s, b, q)
  BY <1>2, <1>8, EditedFromBuf DEF t
<1>. QED
  BY <1>1, <1>2, <1>8, <1>9 DEF q

\* Every key is in a segment.
LEMMA InSomeSegment ==
  ASSUME NEW segs \in Seq(Segment), NEW str \in Seq(Keys), Cuts(segs, str), NEW p \in 1 .. Len(str)
  PROVE  \E k \in DOMAIN segs : segs[k].start < p /\ p <= End(segs[k])
<1> DEFINE m == Len(segs)
           S == {k \in 1 .. m : p <= End(segs[k])}
<1>1. m \in Nat /\ DOMAIN segs = 1 .. m /\ segs # << >> /\ p \in Nat \ {0}
  BY DEF Cuts
<1>2. m \in S
  <2>1. m \in 1 .. m
    BY <1>1
  <2>2. End(segs[m]) = Len(str)
    BY <1>1 DEF Cuts
  <2>. QED
    BY <2>1, <2>2
<1>3. S \in SUBSET Nat
  BY <1>1
<1> HIDE DEF m
<1>4. PICK k \in S : \A i \in S : k <= i
  BY <1>2, <1>3, LeastNumber
<1>5. k \in 1 .. m /\ p <= End(segs[k])
  OBVIOUS
<1>6. segs[k].start < p
  <2>1. segs[k].start = IF k = 1 THEN 0 ELSE End(segs[k - 1])
    BY <1>1, <1>5 DEF Cuts
  <2>2. CASE k = 1
    BY <2>1, <2>2, <1>1
  <2>3. CASE k # 1
    <3>1. k - 1 \in 1 .. m /\ ~ (k <= k - 1)
      BY <2>3, <1>1, <1>5
    <3>2. k - 1 \notin S
      BY <3>1, <1>4
    <3>3. ~ (p <= End(segs[k - 1]))
      BY <3>1, <3>2
    <3>4. End(segs[k - 1]) \in Nat
      <4>1. segs[k - 1] \in Segment
        BY <3>1, <1>1
      <4>. QED
        BY <4>1, SegmentFacts
    <3>. QED
      BY <2>1, <2>3, <3>3, <3>4, <1>1
  <2>. QED
    BY <2>2, <2>3
<1>. QED
  BY <1>1, <1>5, <1>6

\* Segments that cut an input open where the input opens segments.
LEMMA CutsOpen ==
  ASSUME NEW segs \in Seq(Segment), NEW str \in Seq(Keys), Cuts(segs, str)
  PROVE  /\ Opens(str) = {segs[k].start + 1 : k \in 1 .. Len(segs)}
         /\ \A i, k \in 1 .. Len(segs) : i < k => segs[i].start < segs[k].start
<1> DEFINE m == Len(segs)
<1>1. m \in Nat /\ DOMAIN segs = 1 .. m /\ DOMAIN str = 1 .. Len(str) /\ Len(str) \in Nat
  OBVIOUS
<1>2. \A k \in 1 .. m : /\ segs[k].start \in Nat /\ segs[k].len \in Nat /\ End(segs[k]) \in Nat
                        /\ End(segs[k]) = segs[k].start + segs[k].len
  BY <1>1, SegmentFacts
<1>3. \A k \in 1 .. m :
        /\ segs[k].len > 0 /\ End(segs[k]) <= Len(str)
        /\ segs[k].start = IF k = 1 THEN 0 ELSE End(segs[k - 1])
        /\ k # 1 => str[segs[k].start + 1] # "stroke"
        /\ \A i \in segs[k].start + 2 .. End(segs[k]) : str[i] = "stroke"
  BY <1>1 DEF Cuts
<1>4. \A i, k \in 1 .. m : i < k => End(segs[i]) <= segs[k].start
  BY <1>1 DEF Cuts
<1> HIDE DEF m
<1>5. ASSUME NEW p \in Opens(str)
      PROVE  \E k \in 1 .. m : p = segs[k].start + 1
  <2>1. p \in 1 .. Len(str) /\ (p = 1 \/ str[p] # "stroke")
    BY <1>1 DEF Opens
  <2>2. PICK k \in 1 .. m : segs[k].start < p /\ p <= End(segs[k])
    BY <2>1, <1>1, InSomeSegment DEF m
  <2>3. segs[k].start \in Nat /\ End(segs[k]) \in Nat
    BY <1>2
  <2>4. CASE p = segs[k].start + 1
    BY <2>4
  <2>5. CASE p # segs[k].start + 1
    <3>1. p \in segs[k].start + 2 .. End(segs[k]) /\ p # 1
      BY <2>1, <2>2, <2>3, <2>5
    <3>. QED
      BY <3>1, <2>1, <1>3
  <2>. QED
    BY <2>4, <2>5
<1>6. ASSUME NEW k \in 1 .. m
      PROVE  segs[k].start + 1 \in Opens(str)
  <2>1. segs[k].start + 1 \in 1 .. Len(str)
    <3>1. /\ segs[k].start \in Nat /\ segs[k].len \in Nat /\ segs[k].len > 0
          /\ segs[k].start + segs[k].len <= Len(str)
      BY <1>2, <1>3
    <3>. QED
      BY <3>1, <1>1
  <2>2. CASE k = 1
    <3>1. segs[k].start + 1 = 1
      BY <2>2, <1>3
    <3>. QED
      BY <3>1, <2>1, <1>1 DEF Opens
  <2>3. CASE k # 1
    BY <2>1, <2>3, <1>1, <1>3 DEF Opens
  <2>. QED
    BY <2>2, <2>3
<1>7. ASSUME NEW i \in 1 .. m, NEW k \in 1 .. m, i < k
      PROVE  segs[i].start < segs[k].start
  <2>1. End(segs[i]) <= segs[k].start
    BY <1>4, <1>7
  <2>2. /\ segs[i].start \in Nat /\ segs[i].len \in Nat /\ segs[k].start \in Nat
        /\ End(segs[i]) = segs[i].start + segs[i].len /\ segs[i].len > 0
    BY <1>2, <1>3
  <2>. QED
    BY <2>1, <2>2
<1>8. Opens(str) = {segs[k].start + 1 : k \in 1 .. m}
  <2>1. \A p \in {segs[k].start + 1 : k \in 1 .. m} : p \in Opens(str)
    BY <1>6
  <2>2. \A p \in Opens(str) : p \in {segs[k].start + 1 : k \in 1 .. m}
    BY <1>5
  <2>. QED
    BY <2>1, <2>2
<1>. QED
  BY <1>7, <1>8 DEF m

\* There is one way to cut an input.
LEMMA CutsAreReference ==
  ASSUME NEW segs \in Seq(Segment), NEW str \in Seq(Keys), Cuts(segs, str)
  PROVE  segs = Reference(str)
<1> DEFINE m == Len(segs)
           at == [k \in 1 .. m |-> segs[k].start + 1]
           upTo(p) == {q \in Opens(str) : q <= p}
<1>1. m \in Nat /\ DOMAIN segs = 1 .. m /\ Len(str) \in Nat
  OBVIOUS
<1>2. \A k \in 1 .. m : /\ segs[k] \in Segment /\ segs[k].start \in Nat /\ segs[k].len \in Nat
                        /\ End(segs[k]) \in Nat /\ End(segs[k]) = segs[k].start + segs[k].len
  BY <1>1, SegmentFacts
<1>3. Opens(str) = {segs[k].start + 1 : k \in 1 .. m}
  BY CutsOpen
<1>4. \A i, k \in 1 .. m : i < k => segs[i].start < segs[k].start
  BY CutsOpen
<1> HIDE DEF m
<1>5. \A k \in 1 .. m : at[k] = segs[k].start + 1 /\ at[k] \in Nat
  BY <1>2
<1>6. \A i, k \in 1 .. m : at[i] <= at[k] <=> i <= k
  <2> SUFFICES ASSUME NEW i \in 1 .. m, NEW k \in 1 .. m
               PROVE  at[i] <= at[k] <=> i <= k
    OBVIOUS
  <2>1. i < k => segs[i].start < segs[k].start
    BY <1>4
  <2>2. k < i => segs[k].start < segs[i].start
    BY <1>4
  <2>3. segs[i].start \in Nat /\ segs[k].start \in Nat /\ i \in Nat /\ k \in Nat
    BY <1>1, <1>2
  <2>4. at[i] = segs[i].start + 1 /\ at[k] = segs[k].start + 1
    BY <1>5
  <2>5. CASE i = k
    BY <2>5, <2>3, <2>4
  <2>6. CASE i < k
    BY <2>1, <2>3, <2>4, <2>6
  <2>7. CASE k < i
    BY <2>2, <2>3, <2>4, <2>7
  <2>. QED
    BY <2>3, <2>5, <2>6, <2>7
<1>7. Opens(str) = {at[k] : k \in 1 .. m}
  BY <1>3, <1>5
<1> HIDE DEF at
<1>8. ASSUME NEW k \in 1 .. m
      PROVE  Cardinality(upTo(at[k])) = k
  <2>1. k \in Nat /\ \A i \in 1 .. k : i \in 1 .. m
    BY <1>1
  <2>2. upTo(at[k]) = {at[i] : i \in 1 .. k}
    <3>1. ASSUME NEW q \in upTo(at[k])
          PROVE  q \in {at[i] : i \in 1 .. k}
      <4>1. PICK i \in 1 .. m : q = at[i] /\ at[i] <= at[k]
        BY <1>7
      <4>2. i \in 1 .. k
        BY <4>1, <1>6, <2>1
      <4>. QED
        BY <4>1, <4>2
    <3>2. ASSUME NEW i \in 1 .. k
          PROVE  at[i] \in upTo(at[k])
      <4>1. i \in 1 .. m /\ i <= k
        BY <2>1
      <4>. QED
        BY <4>1, <1>6, <1>7
    <3>. QED
      BY <3>1, <3>2
  <2> DEFINE T == {at[i] : i \in 1 .. k}
             f == [i \in 1 .. k |-> at[i]]
  <2>3. f \in Bijection(1 .. k, T)
    <3>1. \A i, j \in 1 .. k : f[i] = f[j] => i = j
      <4> SUFFICES ASSUME NEW i \in 1 .. k, NEW j \in 1 .. k, at[i] = at[j]
                   PROVE  i = j
        OBVIOUS
      <4>1. i \in 1 .. m /\ j \in 1 .. m /\ at[i] \in Nat /\ at[j] \in Nat
        BY <2>1, <1>5
      <4>2. i <= j /\ j <= i
        BY <4>1, <1>6
      <4>. QED
        BY <4>1, <4>2, <1>1
    <3>2. f \in [1 .. k -> T] /\ \A t \in T : \E i \in 1 .. k : f[i] = t
      OBVIOUS
    <3>. QED
      BY <3>1, <3>2 DEF Bijection, Injection, Surjection, IsInjective
  <2> HIDE DEF f, T
  <2>4. ExistsBijection(1 .. k, T)
    BY <2>3 DEF ExistsBijection
  <2>5. IsFiniteSet(1 .. k) /\ Cardinality(1 .. k) = k
    <3>1. k >= 1
      BY <1>1
    <3>. QED
      BY <3>1, <2>1, FS_Interval
  <2>6. Cardinality(T) = k
    BY <2>4, <2>5, FS_Bijection
  <2>. QED
    BY <2>2, <2>6 DEF T
<1>9. ASSUME NEW k \in 1 .. m
      PROVE  Opening(str, k) = at[k]
  <2>1. at[k] \in Opens(str) /\ Cardinality(upTo(at[k])) = k
    BY <1>7, <1>8
  <2>2. ASSUME NEW p \in Opens(str), Cardinality(upTo(p)) = k
        PROVE  p = at[k]
    <3>1. PICK i \in 1 .. m : p = at[i]
      BY <1>7
    <3>2. i = k
      BY <3>1, <2>2, <1>8
    <3>. QED
      BY <3>1, <3>2
  <2>. QED
    BY <2>1, <2>2 DEF Opening
<1>10. Cardinality(Opens(str)) = m
  <2>1. CASE m = 0
    <3>1. Opens(str) = {}
      BY <2>1, <1>7
    <3>. QED
      BY <3>1, <2>1, FS_EmptySet
  <2>2. CASE m # 0
    <3>1. m \in 1 .. m
      BY <2>2, <1>1
    <3>2. upTo(at[m]) = Opens(str)
      <4>1. \A k \in 1 .. m : at[k] <= at[m]
        BY <3>1, <1>1, <1>6
      <4>. QED
        BY <4>1, <1>7
    <3>. QED
      BY <3>1, <3>2, <1>8
  <2>. QED
    BY <2>1, <2>2
<1> DEFINE next(k) == IF k < m THEN Opening(str, k + 1) ELSE Len(str) + 1
           ref(k) == [start |-> Opening(str, k) - 1, len |-> next(k) - Opening(str, k),
                      type |-> SegmentType(str[Opening(str, k)])]
<1>11. Reference(str) = [k \in 1 .. m |-> ref(k)]
  BY <1>10 DEF Reference
<1>12. ASSUME NEW k \in 1 .. m
       PROVE  segs[k] = ref(k)
  <2>1. Opening(str, k) = segs[k].start + 1 /\ segs[k].start \in Nat /\ segs[k].len \in Nat
    BY <1>2, <1>5, <1>9
  <2>2. next(k) = End(segs[k]) + 1
    <3>1. CASE k < m
      <4>1. k + 1 \in 1 .. m /\ k + 1 # 1 /\ (k + 1) - 1 = k
        BY <3>1, <1>1
      <4>2. segs[k + 1].start = End(segs[k])
        BY <4>1, <1>1 DEF Cuts
      <4>3. Opening(str, k + 1) = segs[k + 1].start + 1
        BY <4>1, <1>5, <1>9
      <4>. QED
        BY <3>1, <4>2, <4>3
    <3>2. CASE ~ (k < m)
      <4>1. k = m /\ segs # << >>
        BY <3>2, <1>1
      <4>2. End(segs[m]) = Len(str)
        BY <4>1 DEF Cuts, m
      <4>. QED
        BY <3>2, <4>1, <4>2
    <3>. QED
      BY <3>1, <3>2
  <2>3. segs[k].type = SegmentType(str[segs[k].start + 1])
    BY <1>1 DEF Cuts
  <2>4. segs[k] = [start |-> segs[k].start, len |-> segs[k].len, type |-> segs[k].type]
    BY <1>2 DEF Segment
  <2>5. next(k) - Opening(str, k) = segs[k].len /\ Opening(str, k) - 1 = segs[k].start
    <3>1. PICK a \in Nat, b \in Nat : a = segs[k].start /\ b = segs[k].len
      BY <2>1
    <3> HIDE DEF next
    <3>2. next(k) = a + b + 1 /\ Opening(str, k) = a + 1
      BY <3>1, <2>1, <2>2, <1>2
    <3>3. (a + b + 1) - (a + 1) = b /\ (a + 1) - 1 = a
      OBVIOUS
    <3>. QED
      BY <3>1, <3>2, <3>3
  <2>. QED
    BY <2>1, <2>3, <2>4, <2>5
<1> HIDE DEF ref
<1>13. segs = [k \in 1 .. m |-> segs[k]]
  BY <1>1
<1>. QED
  BY <1>11, <1>12, <1>13

-----------------------------------------------------------------------------
(* Building the lattice.                                                   *)

\* The number of frames.
LEMMA LatticeSize ==
  /\ MaxLattice \in Nat /\ MaxLattice >= 3 /\ MaxLattice <= UINT_MAX
  /\ Frames = 0 .. MaxLattice - 1 /\ Frames \subseteq Nat /\ 0 \in Frames
<1>a. MaxLattice \in 3 .. UINT_MAX
  BY Zenon, ViewAssumption
<1>b. UINT_MAX \in Nat
  BY DEF UINT_MAX
<1>1. MaxLattice \in 3 .. UINT_MAX /\ UINT_MAX \in Nat
  BY <1>a, <1>b
<1>2. MaxLattice \in Nat /\ MaxLattice >= 3 /\ MaxLattice <= UINT_MAX
  BY <1>1
<1>. QED
  BY <1>2 DEF Frames

\* What a segment lays in a frame.
IsLaidIn(at, from, seg, fr) ==
  /\ fr \in Frame
  /\ fr.type = seg.type /\ fr.bw = at.bw /\ fr.sel = at.sel
  /\ seg.type = "sep" => fr.lex = from.lex /\ fr.home = from.home
  /\ seg.type # "sep" => fr.home = at.home

\* See IsLaidIn.
LEMMA LaidFrame ==
  ASSUME NEW at \in Frame, NEW from \in Frame, NEW seg \in Segment, seg.start \in Frames
  PROVE  IsLaidIn(at, from, seg, Laid(at, from, seg))
<1> DEFINE fr == Laid(at, from, seg)
<1>1. /\ at.type \in FrameTypes /\ at.bw \in SUBSET BwTypes /\ at.sel \in Frames
      /\ at.lex \in SUBSET Lex /\ at.home \in Frames
      /\ from.lex \in SUBSET Lex /\ from.home \in Frames
      /\ at = [type |-> at.type, bw |-> at.bw, sel |-> at.sel, lex |-> at.lex, home |-> at.home]
  BY DEF Frame
<1>2. seg.type \in SegTypes
  BY DEF Segment
<1>3. CASE seg.type = "syllable"
  <2> DEFINE lex == at.lex \cup SyllableLex(from, seg)
  <2>1. SyllableLex(from, seg) \in SUBSET Lex
    <3>1. [start |-> seg.start, syls |-> 1] \in Lex
      BY DEF Lex
    <3>2. \A l \in from.lex : [l EXCEPT !.syls = @ + 1] \in Lex
      BY <1>1 DEF Lex
    <3>. QED
      BY <3>1, <3>2 DEF SyllableLex
  <2>2. fr = [type |-> "syllable", bw |-> at.bw, sel |-> at.sel, lex |-> lex, home |-> at.home]
    BY <1>1, <1>3 DEF Laid
  <2>3. lex \in SUBSET Lex
    BY <1>1, <2>1
  <2> HIDE DEF fr, lex
  <2>4. fr \in Frame
    BY <1>1, <2>2, <2>3 DEF Frame, FrameTypes
  <2>. QED
    BY <1>3, <2>2, <2>4 DEF IsLaidIn, fr
<1>4. CASE seg.type = "sep"
  <2>1. fr = [type |-> "sep", bw |-> at.bw, sel |-> at.sel, lex |-> from.lex, home |-> from.home]
    BY <1>1, <1>4 DEF Laid
  <2> HIDE DEF fr
  <2>2. fr \in Frame
    BY <1>1, <2>1 DEF Frame, FrameTypes
  <2>. QED
    BY <1>4, <2>1, <2>2 DEF IsLaidIn, fr
<1>5. CASE seg.type = "string"
  <2> DEFINE lex == at.lex \cup {[start |-> seg.start, syls |-> 0]}
  <2>1. lex \in SUBSET Lex
    BY <1>1 DEF Lex
  <2>2. fr = [type |-> "string", bw |-> at.bw, sel |-> at.sel, lex |-> lex, home |-> at.home]
    BY <1>1, <1>5 DEF Laid
  <2> HIDE DEF fr, lex
  <2>3. fr \in Frame
    BY <1>1, <2>1, <2>2 DEF Frame, FrameTypes
  <2>. QED
    BY <1>5, <2>2, <2>3 DEF IsLaidIn, fr
<1>. QED
  BY <1>2, <1>3, <1>4, <1>5 DEF SegTypes

\* The words a segment lays depend on the words it continues only.
LEMMA LaidLex ==
  ASSUME NEW at \in Frame, NEW from \in Frame, NEW at2 \in Frame, NEW from2 \in Frame,
         NEW seg \in Segment, at.lex = at2.lex, from.lex = from2.lex
  PROVE  Laid(at, from, seg).lex = Laid(at2, from2, seg).lex
<1>1. seg.type \in SegTypes
  BY DEF Segment
<1>2. SyllableLex(from, seg) = SyllableLex(from2, seg)
  <2> DEFINE L(lex) ==
        LET most == IF lex = {} THEN 0 ELSE Max({l.syls : l \in lex})
            continued == {[l EXCEPT !.syls = @ + 1] :
                           l \in {l \in lex : l.syls = most /\ 0 < most /\ most < MaxSyls}}
        IN IF seg.len > MaxKeys THEN {}
           ELSE continued \cup {[start |-> seg.start, syls |-> 1]}
  <2>1. SyllableLex(from, seg) = L(from.lex) /\ SyllableLex(from2, seg) = L(from2.lex)
    BY Zenon DEF SyllableLex
  <2> HIDE DEF L
  <2>. QED
    BY <2>1
<1>3. CASE seg.type = "syllable"
  <2> DEFINE w == SyllableLex(from, seg)
             w2 == SyllableLex(from2, seg)
  <2>1. w = w2
    BY <1>2
  <2>2. /\ Laid(at, from, seg) = [at EXCEPT !.type = "syllable", !.lex = @ \cup w]
        /\ Laid(at2, from2, seg) = [at2 EXCEPT !.type = "syllable", !.lex = @ \cup w2]
    BY <1>3 DEF Laid
  <2> HIDE DEF w, w2
  <2>. QED
    BY <2>1, <2>2 DEF Frame
<1>4. CASE seg.type = "sep"
  BY <1>4 DEF Laid, Frame
<1>5. CASE seg.type = "string"
  BY <1>5 DEF Laid, Frame
<1>. QED
  BY <1>1, <1>3, <1>4, <1>5 DEF SegTypes

\* Does segs, from u on, put a segment's end at frame f?
EndsAt(segs, u, k, f) == \E i \in 1 .. k : segs[i].start >= u /\ End(segs[i]) = f

\* The first k segments, those from u on, are laid over base.
LaidUpTo(fr, base, segs, u, k) ==
  /\ fr \in [Frames -> Frame]
  /\ \A f \in Frames : ~ EndsAt(segs, u, k, f) => fr[f] = base[f]
  /\ \A i \in 1 .. k : segs[i].start >= u =>
       fr[End(segs[i])] = Laid(base[End(segs[i])], fr[segs[i].start], segs[i])

\* What is known of the segments of an input that fits the lattice.
FitSegments(segs, n) ==
  /\ segs \in Seq(Segment) /\ n \in Nat /\ n + 1 < MaxLattice
  /\ \A k \in 1 .. Len(segs) :
       /\ segs[k].start \in Nat /\ End(segs[k]) \in Nat
       /\ segs[k].start < End(segs[k]) /\ End(segs[k]) <= n
       /\ segs[k].start \in Frames /\ End(segs[k]) \in Frames
  /\ \A j, k \in 1 .. Len(segs) : j < k => End(segs[j]) <= segs[k].start

\* See FitSegments.
LEMMA CutsFit ==
  ASSUME NEW segs \in Seq(Segment), NEW str \in Seq(Keys), Cuts(segs, str), Len(str) + 1 < MaxLattice
  PROVE  FitSegments(segs, Len(str))
<1> DEFINE n == Len(str)
           m == Len(segs)
<1>a. MaxLattice \in Nat
  BY LatticeSize
<1>b. n \in Nat /\ m \in Nat /\ DOMAIN segs = 1 .. m
  OBVIOUS
<1>1. n \in Nat /\ m \in Nat /\ DOMAIN segs = 1 .. m /\ MaxLattice \in Nat
  BY <1>a, <1>b
<1>2. ASSUME NEW k \in 1 .. m
      PROVE  /\ segs[k].start \in Nat /\ End(segs[k]) \in Nat
             /\ segs[k].start < End(segs[k]) /\ End(segs[k]) <= n
             /\ segs[k].start \in Frames /\ End(segs[k]) \in Frames
  <2>1. segs[k] \in Segment
    BY <1>1
  <2>2. PICK a \in Nat, b \in Nat : a = segs[k].start /\ b = segs[k].len /\ End(segs[k]) = a + b
    BY <2>1, SegmentFacts
  <2>3. segs[k].len > 0 /\ End(segs[k]) <= n
    BY <1>1 DEF Cuts
  <2> HIDE DEF n, m
  <2>4. b > 0 /\ a + b <= n /\ n + 1 < MaxLattice
    BY <2>2, <2>3 DEF n
  <2>5. a < a + b /\ a \in 0 .. MaxLattice - 1 /\ a + b \in 0 .. MaxLattice - 1
    BY <2>4, <1>1
  <2>. QED
    BY <2>2, <2>3, <2>5 DEF Frames
<1>3. \A j, k \in 1 .. m : j < k => End(segs[j]) <= segs[k].start
  BY <1>1 DEF Cuts
<1>. QED
  BY <1>1, <1>2, <1>3 DEF FitSegments

\* Forwarding a segment lays it.
LEMMA ForwardedOnce ==
  ASSUME NEW segs, NEW n, FitSegments(segs, n), NEW base \in [Frames -> Frame], NEW u \in Nat,
         NEW k \in 1 .. Len(segs), NEW fr, LaidUpTo(fr, base, segs, u, k - 1)
  PROVE  LaidUpTo(IF IsRebuilt(segs[k], u + 1) THEN Forwarded(fr, segs[k]) ELSE fr, base, segs, u, k)
<1> DEFINE s == segs[k].start
           e == End(segs[k])
           new == Laid(fr[e], fr[s], segs[k])
<1>1. /\ k \in Nat /\ k - 1 \in Nat /\ Len(segs) \in Nat /\ \A i \in 1 .. k - 1 : i \in 1 .. Len(segs) /\ i < k
      /\ \A i \in 1 .. k : i = k \/ i \in 1 .. k - 1
      /\ \A i \in 1 .. k - 1 : i \in 1 .. k
  BY DEF FitSegments
<1>2. /\ s \in Nat /\ e \in Nat /\ s < e /\ s \in Frames /\ e \in Frames /\ segs[k] \in Segment
  BY DEF FitSegments
<1>3. \A i \in 1 .. k - 1 : /\ segs[i].start \in Nat /\ End(segs[i]) \in Nat
                            /\ segs[i].start < End(segs[i]) /\ End(segs[i]) <= s
                            /\ segs[i].start \in Frames /\ End(segs[i]) \in Frames
  BY <1>1 DEF FitSegments
<1>4. fr \in [Frames -> Frame]
  BY DEF LaidUpTo
<1>5. IsRebuilt(segs[k], u + 1) <=> s >= u
  BY <1>2 DEF IsRebuilt
<1>6. CASE ~ (s >= u)
  <2>1. \A f : EndsAt(segs, u, k, f) <=> EndsAt(segs, u, k - 1, f)
    BY <1>1, <1>6 DEF EndsAt
  <2>. QED
    BY <2>1, <1>1, <1>5, <1>6 DEF LaidUpTo
<1>7. CASE s >= u
  <2> DEFINE fr2 == [fr EXCEPT ![e] = new]
  <2>1. Forwarded(fr, segs[k]) = fr2
    BY DEF Forwarded
  <2>2. new \in Frame
    BY <1>2, <1>4, LaidFrame DEF IsLaidIn
  <2>3. fr2 \in [Frames -> Frame] /\ fr2[e] = new /\ \A f \in Frames : f # e => fr2[f] = fr[f]
    BY <2>2, <1>2, <1>4
  <2>4. ~ EndsAt(segs, u, k - 1, e)
    <3>1. \A i \in 1 .. k - 1 : End(segs[i]) # e
      BY <1>2, <1>3
    <3>. QED
      BY <3>1 DEF EndsAt
  <2>5. fr[e] = base[e]
    BY <2>4, <1>2 DEF LaidUpTo
  <2>6. fr2[s] = fr[s]
    BY <2>3, <1>2
  <2> HIDE DEF fr2
  <2>7. ASSUME NEW f \in Frames, ~ EndsAt(segs, u, k, f)
        PROVE  fr2[f] = base[f]
    <3>1. f # e
      BY <2>7, <1>1, <1>7 DEF EndsAt
    <3>2. ~ EndsAt(segs, u, k - 1, f)
      BY <2>7, <1>1 DEF EndsAt
    <3>. QED
      BY <3>1, <3>2, <2>3 DEF LaidUpTo
  <2>8. ASSUME NEW i \in 1 .. k, segs[i].start >= u
        PROVE  fr2[End(segs[i])] = Laid(base[End(segs[i])], fr2[segs[i].start], segs[i])
    <3>1. CASE i = k
      BY <3>1, <2>3, <2>5, <2>6
    <3>2. CASE i # k
      <4>1. i \in 1 .. k - 1
        BY <3>2, <1>1
      <4>2. segs[i].start # e /\ End(segs[i]) # e /\ segs[i].start \in Frames /\ End(segs[i]) \in Frames
        BY <4>1, <1>2, <1>3
      <4>3. fr2[segs[i].start] = fr[segs[i].start] /\ fr2[End(segs[i])] = fr[End(segs[i])]
        BY <4>2, <2>3
      <4>4. fr[End(segs[i])] = Laid(base[End(segs[i])], fr[segs[i].start], segs[i])
        BY <4>1, <2>8 DEF LaidUpTo
      <4>. QED
        BY <4>3, <4>4
    <3>. QED
      BY <3>1, <3>2
  <2>9. LaidUpTo(fr2, base, segs, u, k)
    BY <2>3, <2>7, <2>8 DEF LaidUpTo
  <2>. QED
    BY <2>1, <2>9, <1>5, <1>7
<1>. QED
  BY <1>6, <1>7

\* Every frame from the segment ends of segs on is laid over base, and the tail behind the last.
IsLaid(fr, base, segs, u, n) ==
  /\ fr \in [Frames -> Frame]
  /\ \A f \in Frames : f # n + 1 /\ ~ EndsAt(segs, u, Len(segs), f) => fr[f] = base[f]
  /\ \A i \in 1 .. Len(segs) : segs[i].start >= u =>
       fr[End(segs[i])] = Laid(base[End(segs[i])], fr[segs[i].start], segs[i])
  /\ fr[n + 1] = Ended(base[n + 1], n)

\* The loop of buildLexiconStates, as a function.
LEMMA BuiltCourse ==
  ASSUME NEW segs, NEW n, FitSegments(segs, n), NEW c, NEW u \in Nat, c.fr \in [Frames -> Frame]
  PROVE  \E b : /\ LaidUpTo(b, c.fr, segs, u, Len(segs))
                /\ LET j == IF segs = << >> THEN 0 ELSE End(Last(segs))
                   IN BuildLexiconStates(c, segs, u + 1) = [c EXCEPT !.fr = WithTail(b, j), !.tail = j + 1]
<1> DEFINE m == Len(segs)
           base == c.fr
           Turn(fr, k) == IF IsRebuilt(segs[k], u + 1) THEN Forwarded(fr, segs[k]) ELSE fr
           IsAfter(f) == f = [k \in 0 .. m |->
             IF k = 0 THEN c.fr
             ELSE IF IsRebuilt(segs[k], u + 1) THEN Forwarded(f[k - 1], segs[k])
             ELSE f[k - 1]]
<1>1. m \in Nat /\ \A k \in 1 .. m : segs[k] \in Segment /\ segs[k].start \in Frames /\ End(segs[k]) \in Frames
  BY DEF FitSegments
<1>2. \E f : IsAfter(f)
  <2> DEFINE P == [Frames -> Frame]
             F == [k \in 1 .. m |-> [fr \in P |-> Turn(fr, k)]]
  <2>1. F \in [1 .. m -> [P -> P]]
    <3>1. ASSUME NEW k \in 1 .. m, NEW fr \in P
          PROVE  Turn(fr, k) \in P
      <4>1. Laid(fr[End(segs[k])], fr[segs[k].start], segs[k]) \in Frame
        BY <1>1, LaidFrame DEF IsLaidIn
      <4>2. Forwarded(fr, segs[k]) \in P
        BY <4>1, <1>1 DEF Forwarded
      <4>. QED
        BY <4>2
    <3> HIDE DEF Turn, P
    <3>. QED
      BY <3>1
  <2> HIDE DEF F
  <2>2. PICK f \in [0 .. m -> P] : IsCourse(f, base, F, m)
    BY <1>1, <2>1, Course
  <2>3. ASSUME NEW k \in 1 .. m
        PROVE  f[k] = Turn(f[k - 1], k)
    <3>1. k - 1 \in 0 .. m
      BY <1>1
    <3>2. f[k - 1] \in P /\ f[k] = F[k][f[k - 1]]
      BY <2>2, <3>1 DEF IsCourse
    <3> HIDE DEF Turn, P
    <3>. QED
      BY <3>2 DEF F
  <2>4. f[0] = c.fr
    BY <2>2 DEF IsCourse
  <2>5. IsAfter(f)
    BY <2>3, <2>4, <1>1
  <2>. QED
    BY <2>5
<1> DEFINE after == CHOOSE f : IsAfter(f)
           j == IF segs = << >> THEN 0 ELSE End(Last(segs))
<1>3. IsAfter(after)
  BY <1>2
<1>4. BuildLexiconStates(c, segs, u + 1) = [c EXCEPT !.fr = WithTail(after[m], j), !.tail = j + 1]
  BY DEF BuildLexiconStates
<1> HIDE DEF after, m
<1>5. after[0] = base /\ \A k \in 1 .. m : after[k] = Turn(after[k - 1], k)
  BY <1>1, <1>3
<1> DEFINE Q == {k \in 0 .. m : LaidUpTo(after[k], base, segs, u, k)}
<1>6. 0 \in Q
  <2>1. LaidUpTo(base, base, segs, u, 0)
    BY DEF LaidUpTo
  <2>. QED
    BY <2>1, <1>1, <1>5
<1>7. ASSUME NEW k \in 1 .. m, k - 1 \in Q
      PROVE  k \in Q
  <2>1. LaidUpTo(after[k - 1], base, segs, u, k - 1) /\ k \in 1 .. Len(segs) /\ k \in 0 .. m
    BY <1>7, <1>1 DEF m
  <2>2. LaidUpTo(Turn(after[k - 1], k), base, segs, u, k)
    BY <2>1, ForwardedOnce
  <2>. QED
    BY <2>1, <2>2, <1>5
<1> HIDE DEF Q
<1>8. m \in Q
  BY <1>1, <1>6, <1>7, Stays
<1>9. LaidUpTo(after[m], c.fr, segs, u, Len(segs))
  BY <1>8 DEF Q, m
<1>. QED
  BY <1>4, <1>9

\* What Ended leaves of a frame.
LEMMA EndedFrame ==
  ASSUME NEW at \in Frame, NEW n \in Nat, n \in Frames
  PROVE  /\ Ended(at, n) \in Frame
         /\ Ended(at, n).type = "tail" /\ Ended(at, n).bw = at.bw /\ Ended(at, n).sel = at.sel
         /\ Ended(at, n).lex = at.lex \cup {[start |-> n, syls |-> 0]} /\ Ended(at, n).home = at.home
<1> DEFINE fr == Ended(at, n)
           lex == at.lex \cup {[start |-> n, syls |-> 0]}
<1>1. /\ at.bw \in SUBSET BwTypes /\ at.sel \in Frames /\ at.lex \in SUBSET Lex /\ at.home \in Frames
      /\ at = [type |-> at.type, bw |-> at.bw, sel |-> at.sel, lex |-> at.lex, home |-> at.home]
  BY DEF Frame
<1>a. fr = [at EXCEPT !.type = "tail", !.lex = lex]
  BY DEF Ended
<1>2. fr = [type |-> "tail", bw |-> at.bw, sel |-> at.sel, lex |-> lex, home |-> at.home]
  <2> HIDE DEF fr, lex
  <2>. QED
    BY <1>1, <1>a
<1>3. lex \in SUBSET Lex
  BY <1>1 DEF Lex
<1> HIDE DEF fr, lex
<1>4. fr \in Frame
  BY <1>1, <1>2, <1>3 DEF Frame, FrameTypes
<1>. QED
  BY <1>2, <1>4 DEF fr, lex

\* The fields of a context.
LEMMA ContextFields ==
  ASSUME NEW c \in Context
  PROVE  /\ c.fr \in [Frames -> Frame] /\ c.tail \in Nat /\ c.path \in SUBSET (Nat \ {0})
         /\ c.starts \in Nat /\ c.ends \in Nat
         /\ c = [fr |-> c.fr, tail |-> c.tail, path |-> c.path, starts |-> c.starts, ends |-> c.ends]
BY DEF Context

\* c with other frames and another tail.
IsContextWith(d, c, n) ==
  d \in Context /\ d.tail = n /\ d.path = c.path /\ d.starts = c.starts /\ d.ends = c.ends

\* The segments that fit the lattice end where the input does.
EndsWith(segs, n) == IF segs = << >> THEN n = 0 ELSE End(segs[Len(segs)]) = n

\* See CutsFit.
LEMMA CutsEnd ==
  ASSUME NEW segs \in Seq(Segment), NEW str \in Seq(Keys), Cuts(segs, str)
  PROVE  EndsWith(segs, Len(str))
BY DEF Cuts, EndsWith

\* What buildLexiconStates makes of the lattice.
LEMMA BuiltLaid ==
  ASSUME NEW segs, NEW n, FitSegments(segs, n), EndsWith(segs, n),
         NEW c \in Context, NEW u \in Nat
  PROVE  /\ IsContextWith(BuildLexiconStates(c, segs, u + 1), c, n + 1)
         /\ IsLaid(BuildLexiconStates(c, segs, u + 1).fr, c.fr, segs, u, n)
<1> DEFINE j == IF segs = << >> THEN 0 ELSE End(Last(segs))
           m == Len(segs)
           d == BuildLexiconStates(c, segs, u + 1)
<1>1. c.fr \in [Frames -> Frame]
  BY ContextFields
<1>2. PICK b : /\ LaidUpTo(b, c.fr, segs, u, Len(segs))
               /\ d = [c EXCEPT !.fr = WithTail(b, j), !.tail = j + 1]
  BY <1>1, BuiltCourse
<1>3. j = n
  BY DEF EndsWith, Last
<1>4. n \in Nat /\ n + 1 \in Frames /\ n \in Frames /\ n + 1 \in Nat
  <2>1. n \in Nat /\ n + 1 < MaxLattice
    BY DEF FitSegments
  <2>. QED
    BY <2>1, LatticeSize
<1> HIDE DEF j
<1> DEFINE fr == [b EXCEPT ![n + 1] = Ended(b[n + 1], n)]
<1>5. WithTail(b, n) = fr
  BY <1>4 DEF WithTail
<1>6. b \in [Frames -> Frame]
  BY <1>2 DEF LaidUpTo
<1>7. Ended(b[n + 1], n) \in Frame
  BY <1>4, <1>6, EndedFrame
<1>8. fr \in [Frames -> Frame] /\ fr[n + 1] = Ended(b[n + 1], n) /\ \A f \in Frames : f # n + 1 => fr[f] = b[f]
  BY <1>4, <1>6, <1>7
<1> HIDE DEF fr
<1>9. d = [fr |-> fr, tail |-> n + 1, path |-> c.path, starts |-> c.starts, ends |-> c.ends]
  BY <1>2, <1>3, <1>5, ContextFields
<1>10. IsContextWith(d, c, n + 1) /\ d.fr = fr
  <2> HIDE DEF d
  <2>1. d \in Context
    BY <1>4, <1>8, <1>9, ContextFields DEF Context
  <2>. QED
    BY <2>1, <1>9 DEF IsContextWith
<1>11. \A i \in 1 .. m : /\ segs[i].start \in Frames /\ segs[i].start # n + 1
                         /\ End(segs[i]) \in Frames /\ End(segs[i]) # n + 1
  BY DEF FitSegments
<1>12. b[n + 1] = c.fr[n + 1]
  <2>1. ~ EndsAt(segs, u, m, n + 1)
    BY <1>11 DEF EndsAt
  <2>. QED
    BY <2>1, <1>2, <1>4 DEF LaidUpTo
<1>13. IsLaid(fr, c.fr, segs, u, n)
  <2>1. \A f \in Frames : f # n + 1 /\ ~ EndsAt(segs, u, m, f) => fr[f] = c.fr[f]
    BY <1>2, <1>8 DEF LaidUpTo
  <2>2. ASSUME NEW i \in 1 .. m, segs[i].start >= u
        PROVE  fr[End(segs[i])] = Laid(c.fr[End(segs[i])], fr[segs[i].start], segs[i])
    <3>1. b[End(segs[i])] = Laid(c.fr[End(segs[i])], b[segs[i].start], segs[i])
      BY <1>2, <2>2 DEF LaidUpTo
    <3>2. fr[End(segs[i])] = b[End(segs[i])] /\ fr[segs[i].start] = b[segs[i].start]
      BY <1>8, <1>11
    <3>. QED
      BY <3>1, <3>2
  <2>. QED
    BY <2>1, <2>2, <1>8, <1>12 DEF IsLaid
<1>. QED
  BY <1>10, <1>13

\* The empty context.
LEMMA EmptyIsContext ==
  /\ EmptyContext \in Context
  /\ \A f \in Frames : Blank(EmptyContext.fr, f)
  /\ EmptyContext.tail = 1 /\ EmptyContext.path = {} /\ EmptyContext.ends = 0
<1>1. \A f \in Frames : ClearFrame(f, 0) \in Frame
  BY LatticeSize DEF ClearFrame, Frame, FrameTypes
<1>2. [f \in Frames |-> ClearFrame(f, 0)] \in [Frames -> Frame]
  BY <1>1
<1>3. EmptyContext \in Context
  BY <1>2 DEF EmptyContext, Context
<1>. QED
  BY <1>3 DEF EmptyContext, ClearFrame, Blank

\* What holds of a frame if it holds of it whenever it holds of all frames before, holds of all.
LEMMA FrameInduction ==
  ASSUME NEW P, \A f \in Frames : (\A g \in Frames : g < f => g \in P) => f \in P
  PROVE  Frames \subseteq P
<1> SUFFICES ASSUME Frames \ P # {} PROVE FALSE
  OBVIOUS
<1>1. Frames \ P \in SUBSET Nat
  BY LatticeSize
<1>2. PICK f \in Frames \ P : \A g \in Frames \ P : f <= g
  BY <1>1, LeastNumber
<1>3. \A g \in Frames : g < f => g \in P
  <2>1. Frames \subseteq Nat
    BY LatticeSize
  <2>. QED
    BY <1>2, <2>1
<1>. QED
  BY <1>2, <1>3

\* The frames of a lattice built in one go are those IsLaid tells of.
LEMMA WholeLaid ==
  ASSUME NEW segs, NEW n, FitSegments(segs, n), EndsWith(segs, n)
  PROVE  IsLaid(Whole(segs), EmptyContext.fr, segs, 0, n)
<1>1. IsLaid(BuildLexiconStates(EmptyContext, segs, 0 + 1).fr, EmptyContext.fr, segs, 0, n)
  BY EmptyIsContext, BuiltLaid
<1>2. 0 + 1 = 1
  OBVIOUS
<1>. QED
  BY <1>1, <1>2 DEF Whole

\* Segment i, from u on, has laid frame f.
LaidBy(fr, base, segs, u, n, f, i) ==
  /\ segs[i].start >= u /\ f = End(segs[i]) /\ segs[i] \in Segment
  /\ segs[i].start \in Frames /\ segs[i].start < f /\ f <= n
  /\ fr[f] = Laid(base[f], fr[segs[i].start], segs[i])

\* A frame is left blank, laid by a segment that ends there, or the tail.
LEMMA ThreeKindsOfFrame ==
  ASSUME NEW segs, NEW n, FitSegments(segs, n), NEW u \in Nat, NEW base, NEW fr,
         IsLaid(fr, base, segs, u, n), NEW f \in Frames
  PROVE  \/ f # n + 1 /\ ~ EndsAt(segs, u, Len(segs), f) /\ fr[f] = base[f]
         \/ f = n + 1 /\ fr[f] = Ended(base[f], n)
         \/ \E i \in 1 .. Len(segs) : LaidBy(fr, base, segs, u, n, f, i)
<1>1. CASE f = n + 1
  BY <1>1 DEF IsLaid
<1>2. CASE f # n + 1 /\ ~ EndsAt(segs, u, Len(segs), f)
  BY <1>2 DEF IsLaid
<1>3. CASE EndsAt(segs, u, Len(segs), f)
  <2>1. PICK i \in 1 .. Len(segs) : segs[i].start >= u /\ f = End(segs[i])
    BY <1>3 DEF EndsAt
  <2>2. segs[i] \in Segment /\ segs[i].start \in Frames /\ segs[i].start < f /\ f <= n
    BY <2>1 DEF FitSegments
  <2>3. fr[f] = Laid(base[f], fr[segs[i].start], segs[i])
    BY <2>1 DEF IsLaid
  <2>. QED
    BY <2>1, <2>2, <2>3 DEF LaidBy
<1>. QED
  BY <1>1, <1>2, <1>3

\* In a lattice built in one go, only the frame of a separator has pointers of another,
\* and only where a separator ends is there one.
LEMMA WholeFrames ==
  ASSUME NEW segs, NEW n, FitSegments(segs, n), EndsWith(segs, n), NEW f \in Frames
  PROVE  /\ Whole(segs)[f] \in Frame
         /\ Whole(segs)[f].type # "sep" => Whole(segs)[f].home = f
         /\ Whole(segs)[f].type = "sep" =>
              \E i \in 1 .. Len(segs) : End(segs[i]) = f /\ segs[i].type = "sep"
         /\ f > n + 1 => Blank(Whole(segs), f)
         /\ f = 0 => Blank(Whole(segs), f)
<1> DEFINE W == Whole(segs)
           E == EmptyContext.fr
<1>1. IsLaid(W, E, segs, 0, n) /\ 0 \in Nat
  BY WholeLaid
<1>2. /\ W \in [Frames -> Frame] /\ E[f] \in Frame /\ n \in Nat /\ n \in Frames
      /\ Blank(E, f) /\ f \in Nat
  <2>1. n \in Nat /\ n + 1 < MaxLattice
    BY DEF FitSegments
  <2>2. n \in Frames /\ f \in Nat
    BY <2>1, LatticeSize
  <2>. QED
    BY <1>1, <2>1, <2>2, EmptyIsContext, ContextFields DEF IsLaid
<1> HIDE DEF W, E
<1>3. CASE f # n + 1 /\ ~ EndsAt(segs, 0, Len(segs), f) /\ W[f] = E[f]
  BY <1>2, <1>3 DEF Blank, W
<1>4. CASE f = n + 1 /\ W[f] = Ended(E[f], n)
  <2>1. W[f].type = "tail" /\ W[f].home = f
    BY <1>2, <1>4, EndedFrame DEF Blank
  <2>. QED
    BY <2>1, <1>2, <1>4 DEF W
<1>5. CASE \E i \in 1 .. Len(segs) : LaidBy(W, E, segs, 0, n, f, i)
  <2>1. PICK i \in 1 .. Len(segs) :
              /\ segs[i].start >= 0 /\ f = End(segs[i]) /\ segs[i] \in Segment
              /\ segs[i].start \in Frames /\ segs[i].start < f /\ f <= n
              /\ W[f] = Laid(E[f], W[segs[i].start], segs[i])
    BY <1>5 DEF LaidBy
  <2>2. W[segs[i].start] \in Frame
    BY <1>2, <2>1
  <2>a. IsLaidIn(E[f], W[segs[i].start], segs[i], Laid(E[f], W[segs[i].start], segs[i]))
    BY <2>1, <2>2, <1>2, LaidFrame
  <2>3. W[f].type = segs[i].type /\ (segs[i].type # "sep" => W[f].home = E[f].home)
    BY <2>1, <2>a DEF IsLaidIn
  <2>4. ~ (f > n + 1) /\ f # 0
    <3>1. segs[i].start \in Nat
      BY <2>1, LatticeSize
    <3>. QED
      BY <3>1, <2>1, <1>2
  <2>. QED
    BY <2>1, <2>3, <2>4, <1>2 DEF Blank, W
<1>6. \/ f # n + 1 /\ ~ EndsAt(segs, 0, Len(segs), f) /\ W[f] = E[f]
      \/ f = n + 1 /\ W[f] = Ended(E[f], n)
      \/ \E i \in 1 .. Len(segs) : LaidBy(W, E, segs, 0, n, f, i)
  BY <1>1, ThreeKindsOfFrame
<1>. QED
  BY <1>3, <1>4, <1>5, <1>6

\* Segments that are the same up to u give the same frames up to u.
LEMMA SamePrefix ==
  ASSUME NEW a, NEW m, FitSegments(a, m), EndsWith(a, m), NEW b, NEW n, FitSegments(b, n), EndsWith(b, n),
         NEW u \in Nat, u <= m, u <= n, SameUpTo(a, b, u), NEW f \in Frames, f <= u
  PROVE  Whole(a)[f] = Whole(b)[f]
<1> DEFINE V == Whole(a)
           W == Whole(b)
           E == EmptyContext.fr
           P == {g \in Frames : g <= u => V[g] = W[g]}
<1>1. IsLaid(V, E, a, 0, m) /\ IsLaid(W, E, b, 0, n) /\ 0 \in Nat /\ m \in Nat /\ n \in Nat
  BY WholeLaid DEF FitSegments
<1>a. DOMAIN a = 1 .. Len(a) /\ DOMAIN b = 1 .. Len(b)
  BY DEF FitSegments
<1> HIDE DEF V, W, E
<1>2. ASSUME NEW g \in Frames, \A h \in Frames : h < g => h \in P
      PROVE  g \in P
  <2>1. SUFFICES ASSUME g <= u PROVE V[g] = W[g]
    OBVIOUS
  <2>2. g # m + 1 /\ g # n + 1 /\ g \in Nat
    BY <2>1, <1>1, LatticeSize
  <2>3. CASE \E i \in 1 .. Len(a) : LaidBy(V, E, a, 0, m, g, i)
    <3>1. PICK i \in 1 .. Len(a) :
              /\ a[i].start >= 0 /\ g = End(a[i]) /\ a[i] \in Segment
              /\ a[i].start \in Frames /\ a[i].start < g /\ g <= m
              /\ V[g] = Laid(E[g], V[a[i].start], a[i])
      BY <2>3 DEF LaidBy
    <3>2. i \in 1 .. Len(b) /\ b[i] = a[i]
      BY <3>1, <2>1, <1>a DEF SameUpTo
    <3>3. W[g] = Laid(E[g], W[a[i].start], a[i])
      BY <3>1, <3>2, <1>1 DEF IsLaid
    <3>4. a[i].start <= u
      <4>1. a[i].start \in Nat
        BY <3>1, LatticeSize
      <4>. QED
        BY <4>1, <3>1, <2>1, <2>2
    <3>5. V[a[i].start] = W[a[i].start]
      BY <3>1, <3>4, <1>2
    <3>. QED
      BY <3>1, <3>3, <3>5
  <2>4. CASE g # m + 1 /\ ~ EndsAt(a, 0, Len(a), g) /\ V[g] = E[g]
    <3>1. ~ EndsAt(b, 0, Len(b), g)
      <4>1. SUFFICES ASSUME NEW i \in 1 .. Len(b), End(b[i]) = g, b[i].start >= 0 PROVE FALSE
        BY DEF EndsAt
      <4>2. i \in 1 .. Len(a) /\ a[i] = b[i]
        BY <4>1, <2>1, <1>a DEF SameUpTo
      <4>. QED
        BY <4>1, <4>2, <2>4 DEF EndsAt
    <3>2. W[g] = E[g]
      BY <3>1, <2>2, <1>1 DEF IsLaid
    <3>. QED
      BY <3>2, <2>4
  <2>5. \/ g # m + 1 /\ ~ EndsAt(a, 0, Len(a), g) /\ V[g] = E[g]
        \/ g = m + 1 /\ V[g] = Ended(E[g], m)
        \/ \E i \in 1 .. Len(a) : LaidBy(V, E, a, 0, m, g, i)
    BY <1>1, ThreeKindsOfFrame
  <2>. QED
    BY <2>2, <2>3, <2>4, <2>5
<1> HIDE DEF P
<1>3. Frames \subseteq P
  BY <1>2, FrameInduction
<1>. QED
  BY <1>3 DEF P, V, W

\* c with the frames from m on cleared.
LEMMA ClearedLaid ==
  ASSUME NEW c \in Context, ClearBehind(c), NEW u \in Nat
  PROVE  /\ IsContextWith(ClearedFrom(c, u + 1), c, c.tail)
         /\ \A f \in Frames : f <= u => ClearedFrom(c, u + 1).fr[f] = c.fr[f]
         /\ BlankAbove(ClearedFrom(c, u + 1).fr, u)
<1> DEFINE d == ClearedFrom(c, u + 1)
           fr == [f \in Frames |-> IF f \in u + 1 .. c.tail THEN ClearFrame(f, c.fr[f].sel) ELSE c.fr[f]]
<1>1. c.fr \in [Frames -> Frame] /\ c.tail \in Nat
  BY ContextFields
<1>2. ASSUME NEW f \in Frames
      PROVE  /\ fr[f] \in Frame
             /\ f <= u => fr[f] = c.fr[f]
             /\ f > u => Blank(fr, f)
  <2>1. c.fr[f] \in Frame /\ f \in Nat
    BY <1>1, LatticeSize
  <2>2. ClearFrame(f, c.fr[f].sel) \in Frame
    BY <2>1 DEF ClearFrame, Frame, FrameTypes
  <2>3. CASE f \in u + 1 .. c.tail
    <3>1. fr[f] = ClearFrame(f, c.fr[f].sel) /\ ~ (f <= u)
      BY <2>1, <2>3
    <3> HIDE DEF fr
    <3>. QED
      BY <3>1, <2>2 DEF Blank, ClearFrame
  <2>4. CASE f \notin u + 1 .. c.tail
    <3>1. fr[f] = c.fr[f] /\ (f > u => f > c.tail)
      BY <2>1, <2>4, <1>1
    <3> HIDE DEF fr
    <3>2. f > u => Blank(c.fr, f)
      BY <3>1 DEF ClearBehind, BlankAbove
    <3>. QED
      BY <3>1, <3>2, <2>1 DEF Blank
  <2>. QED
    BY <2>3, <2>4
<1>3. d = [c EXCEPT !.fr = fr]
  BY DEF ClearedFrom
<1>4. fr \in [Frames -> Frame]
  BY <1>2
<1> HIDE DEF fr
<1>5. d = [fr |-> fr, tail |-> c.tail, path |-> c.path, starts |-> c.starts, ends |-> c.ends]
  BY <1>3, ContextFields
<1>6. IsContextWith(d, c, c.tail) /\ d.fr = fr
  <2> HIDE DEF d
  <2>1. d \in Context
    BY <1>4, <1>5, ContextFields DEF Context
  <2>. QED
    BY <2>1, <1>5 DEF IsContextWith
<1>. QED
  BY <1>2, <1>6 DEF BlankAbove

\* What is known of the frames of a lattice that was built again behind u.
IsRelaid(d, c, u, n) ==
  /\ IsContextWith(d, c, n + 1)
  /\ \A f \in Frames : f <= u => d.fr[f] = c.fr[f]
  /\ \A f \in Frames : f > u => d.fr[f].bw = {}

\* Laying segments over frames that are blank behind u: what becomes of a frame behind u.
LEMMA RelaidFrame ==
  ASSUME NEW segs, NEW n, FitSegments(segs, n), NEW u \in Nat, u <= n,
         NEW base, NEW fr, base \in [Frames -> Frame],
         IsLaid(fr, base, segs, u, n), BlankAbove(base, u), NEW f \in Frames, f > u
  PROVE  /\ fr[f] \in Frame /\ fr[f].bw = {}
         /\ f > n + 1 => Blank(fr, f)
         /\ (\E i \in 1 .. Len(segs) : /\ segs[i].start >= u /\ segs[i].start \in Frames /\ f = End(segs[i])
                                       /\ segs[i].start < f /\ segs[i].type = "sep"
                                       /\ fr[f].home = fr[segs[i].start].home)
            \/ fr[f].home = f
<1>1. /\ fr \in [Frames -> Frame] /\ base[f] \in Frame /\ Blank(base, f) /\ n \in Nat /\ n \in Frames
      /\ f \in Nat
  <2>1. n \in Nat /\ n + 1 < MaxLattice
    BY DEF FitSegments
  <2>2. n \in Frames /\ f \in Nat
    BY <2>1, LatticeSize
  <2>. QED
    BY <2>1, <2>2 DEF IsLaid, BlankAbove
<1>2. CASE f # n + 1 /\ ~ EndsAt(segs, u, Len(segs), f) /\ fr[f] = base[f]
  BY <1>1, <1>2 DEF Blank
<1>3. CASE f = n + 1 /\ fr[f] = Ended(base[f], n)
  <2>1. fr[f].bw = base[f].bw /\ fr[f].home = base[f].home
    BY <1>1, <1>3, EndedFrame
  <2>. QED
    BY <2>1, <1>1, <1>3 DEF Blank
<1>4. CASE \E i \in 1 .. Len(segs) : LaidBy(fr, base, segs, u, n, f, i)
  <2>1. PICK i \in 1 .. Len(segs) :
              /\ segs[i].start >= u /\ f = End(segs[i]) /\ segs[i] \in Segment
              /\ segs[i].start \in Frames /\ segs[i].start < f /\ f <= n
              /\ fr[f] = Laid(base[f], fr[segs[i].start], segs[i])
    BY <1>4 DEF LaidBy
  <2>2. fr[segs[i].start] \in Frame
    BY <1>1, <2>1
  <2>3. IsLaidIn(base[f], fr[segs[i].start], segs[i], fr[f])
    BY <2>1, <2>2, <1>1, LaidFrame
  <2>4. fr[f].bw = {} /\ (segs[i].type = "sep" => fr[f].home = fr[segs[i].start].home)
        /\ (segs[i].type # "sep" => fr[f].home = f)
    BY <2>3, <1>1 DEF IsLaidIn, Blank
  <2>5. ~ (f > n + 1)
    BY <2>1, <1>1
  <2>. QED
    BY <2>1, <2>4, <2>5, <1>1
<1>5. \/ f # n + 1 /\ ~ EndsAt(segs, u, Len(segs), f) /\ fr[f] = base[f]
      \/ f = n + 1 /\ fr[f] = Ended(base[f], n)
      \/ \E i \in 1 .. Len(segs) : LaidBy(fr, base, segs, u, n, f, i)
  BY ThreeKindsOfFrame
<1>. QED
  BY <1>2, <1>3, <1>4, <1>5

\* When the lattice of the segments a, of an input of length m, may be built again behind u
\* for the segments b, of an input of length n.
IsChanged(a, m, b, n, u) ==
  /\ FitSegments(a, m) /\ EndsWith(a, m)
  /\ FitSegments(b, n) /\ EndsWith(b, n)
  /\ u \in Nat /\ u <= m /\ u <= n
  /\ Between(b, u)
  /\ SameUpTo(b, a, u)

\* What a frame behind u holds is that of the lattice built in one go if it is so before it.
LEMMA RelaidAgrees ==
  ASSUME NEW b, NEW n, FitSegments(b, n), EndsWith(b, n), NEW u \in Nat, Between(b, u),
         NEW base, NEW fr, base \in [Frames -> Frame],
         IsLaid(fr, base, b, u, n), BlankAbove(base, u), NEW f \in Frames, f > u,
         \A g \in Frames : g < f => AgreeAt(fr, Whole(b), g)
  PROVE  AgreeAt(fr, Whole(b), f)
<1> DEFINE W == Whole(b)
           E == EmptyContext.fr
<1>1. IsLaid(W, E, b, 0, n) /\ 0 \in Nat
  BY WholeLaid
<1>2. /\ W \in [Frames -> Frame] /\ fr \in [Frames -> Frame] /\ E[f] \in Frame /\ base[f] \in Frame
      /\ n \in Nat /\ n \in Frames /\ f \in Nat
      /\ Blank(E, f) /\ Blank(base, f)
      /\ DOMAIN b = 1 .. Len(b)
  <2>1. n \in Nat /\ n + 1 < MaxLattice /\ DOMAIN b = 1 .. Len(b)
    BY DEF FitSegments
  <2>2. n \in Frames /\ f \in Nat
    BY <2>1, LatticeSize
  <2>. QED
    BY <1>1, <2>1, <2>2, EmptyIsContext, ContextFields DEF IsLaid, BlankAbove
<1> HIDE DEF W, E
<1>3. CASE f # n + 1 /\ ~ EndsAt(b, u, Len(b), f) /\ fr[f] = base[f]
  <2>1. ~ EndsAt(b, 0, Len(b), f)
    <3>1. SUFFICES ASSUME NEW i \in 1 .. Len(b), b[i].start >= 0, End(b[i]) = f PROVE FALSE
      BY DEF EndsAt
    <3>2. ~ (b[i].start >= u)
      BY <3>1, <1>3 DEF EndsAt
    <3>3. f <= u \/ u <= b[i].start
      BY <3>1, <1>2 DEF Between
    <3>4. b[i].start \in Nat
      BY DEF FitSegments
    <3>. QED
      BY <3>2, <3>3, <3>4, <1>2
  <2>2. W[f] = E[f]
    BY <2>1, <1>1, <1>3 DEF IsLaid
  <2>. QED
    BY <2>2, <1>2, <1>3 DEF Blank, AgreeAt, W
<1>4. CASE f = n + 1 /\ fr[f] = Ended(base[f], n)
  <2>1. W[f] = Ended(E[f], n)
    BY <1>1, <1>4 DEF IsLaid
  <2>2. /\ fr[f].type = "tail" /\ W[f].type = "tail"
        /\ fr[f].lex = base[f].lex \cup {[start |-> n, syls |-> 0]}
        /\ W[f].lex = E[f].lex \cup {[start |-> n, syls |-> 0]}
    BY <2>1, <1>2, <1>4, EndedFrame
  <2>. QED
    BY <2>2, <1>2 DEF Blank, AgreeAt, W
<1>5. CASE \E i \in 1 .. Len(b) : LaidBy(fr, base, b, u, n, f, i)
  <2>1. PICK i \in 1 .. Len(b) :
              /\ b[i].start >= u /\ f = End(b[i]) /\ b[i] \in Segment
              /\ b[i].start \in Frames /\ b[i].start < f /\ f <= n
              /\ fr[f] = Laid(base[f], fr[b[i].start], b[i])
    BY <1>5 DEF LaidBy
  <2>2. fr[b[i].start] \in Frame /\ W[b[i].start] \in Frame /\ b[i].start >= 0
    BY <1>2, <2>1, LatticeSize
  <2>3. W[f] = Laid(E[f], W[b[i].start], b[i])
    BY <2>1, <2>2, <1>1 DEF IsLaid
  <2>4. IsLaidIn(base[f], fr[b[i].start], b[i], fr[f]) /\ IsLaidIn(E[f], W[b[i].start], b[i], W[f])
    BY <2>1, <2>2, <2>3, <1>2, LaidFrame
  <2>5. fr[f].type = W[f].type
    BY <2>4 DEF IsLaidIn
  <2>6. fr[b[i].start].lex = W[b[i].start].lex
    BY <2>1 DEF AgreeAt, W
  <2>7. base[f].lex = E[f].lex
    BY <1>2 DEF Blank
  <2>8. Laid(base[f], fr[b[i].start], b[i]).lex = Laid(E[f], W[b[i].start], b[i]).lex
    <3>1. base[f] \in Frame /\ E[f] \in Frame /\ b[i] \in Segment
          /\ fr[b[i].start] \in Frame /\ W[b[i].start] \in Frame
      BY <2>1, <2>2, <1>2
    <3>. QED
      BY <3>1, <2>6, <2>7, LaidLex
  <2>. QED
    BY <2>1, <2>3, <2>5, <2>8 DEF AgreeAt, W
<1>6. \/ f # n + 1 /\ ~ EndsAt(b, u, Len(b), f) /\ fr[f] = base[f]
      \/ f = n + 1 /\ fr[f] = Ended(base[f], n)
      \/ \E i \in 1 .. Len(b) : LaidBy(fr, base, b, u, n, f, i)
  BY ThreeKindsOfFrame
<1>. QED
  BY <1>3, <1>4, <1>5, <1>6

\* The lattice that is kept up to u and built again behind it is that of the new input.
LEMMA RelaidKept ==
  ASSUME NEW a, NEW m, NEW b, NEW n, NEW u, IsChanged(a, m, b, n, u),
         NEW c \in Context, FirstFrame(c), Kept(c, a), NEW d \in Context,
         NEW base \in [Frames -> Frame], IsLaid(d.fr, base, b, u, n), BlankAbove(base, u),
         \A f \in Frames : f <= u => d.fr[f] = c.fr[f]
  PROVE  Kept(d, b)
<1> DEFINE W == Whole(b)
           P == {f \in Frames : OwnUpTo(d.fr, W, f) => AgreeAt(d.fr, W, f)}
<1>1. FitSegments(a, m) /\ EndsWith(a, m) /\ FitSegments(b, n) /\ EndsWith(b, n)
      /\ u \in Nat /\ u <= m /\ u <= n /\ Between(b, u) /\ SameUpTo(b, a, u) /\ m \in Nat /\ n \in Nat
  BY DEF IsChanged, FitSegments
<1>2. ASSUME NEW f \in Frames, \A g \in Frames : g < f => g \in P
      PROVE  f \in P
  <2>1. SUFFICES ASSUME OwnUpTo(d.fr, W, f) PROVE AgreeAt(d.fr, W, f)
    OBVIOUS
  <2>2. f \in Nat
    BY LatticeSize
  <2>3. ASSUME NEW g \in Frames, g < f
        PROVE  AgreeAt(d.fr, W, g)
    <3>1. g \in Nat /\ \A h \in 0 .. g : h \in 0 .. f
      BY <2>2, <2>3, LatticeSize
    <3>2. OwnUpTo(d.fr, W, g)
      BY <2>1, <3>1 DEF OwnUpTo
    <3>. QED
      BY <3>2, <2>3, <1>2
  <2>4. CASE f > u
    BY <2>3, <2>4, <1>1, RelaidAgrees
  <2>5. CASE f <= u /\ a # << >>
    <3>1. \A h \in 0 .. f : h \in Frames /\ h <= u /\ d.fr[h] = c.fr[h] /\ W[h] = Whole(a)[h]
      <4>1. ASSUME NEW h \in 0 .. f
            PROVE  h \in Frames /\ h <= u
        BY <2>2, <2>5, <1>1, LatticeSize
      <4>2. \A h \in 0 .. f : W[h] = Whole(a)[h]
        BY <4>1, <1>1, SamePrefix
      <4>. QED
        BY <4>1, <4>2
    <3> HIDE DEF W
    <3>2. f \in 0 .. f
      BY <2>2
    <3>3. OwnUpTo(c.fr, Whole(a), f)
      BY <2>1, <3>1 DEF OwnUpTo
    <3>4. AgreeAt(c.fr, Whole(a), f)
      BY <3>3, <2>5 DEF Kept
    <3>. QED
      BY <3>1, <3>2, <3>4 DEF AgreeAt
  <2>6. CASE f <= u /\ a = << >>
    <3>1. f = 0
      BY <2>2, <2>6, <1>1 DEF EndsWith
    <3>2. Blank(W, f)
      BY <3>1, <1>1, WholeFrames
    <3> HIDE DEF W
    <3>3. d.fr[f] = c.fr[f]
      BY <2>6
    <3>. QED
      BY <3>1, <3>2, <3>3 DEF FirstFrame, Blank, AgreeAt
  <2>. QED
    BY <2>2, <2>4, <2>5, <2>6, <1>1
<1> HIDE DEF P
<1>3. Frames \subseteq P
  BY <1>2, FrameInduction
<1>. QED
  BY <1>3 DEF Kept, P

\* See Pointers.
LEMMA RelaidPointers ==
  ASSUME NEW a, NEW m, NEW b, NEW n, NEW u, IsChanged(a, m, b, n, u),
         NEW c \in Context, Pointers(c, a), NEW d \in Context,
         NEW base \in [Frames -> Frame], IsLaid(d.fr, base, b, u, n), BlankAbove(base, u),
         \A f \in Frames : f <= u => d.fr[f] = c.fr[f]
  PROVE  Pointers(d, b)
<1> DEFINE P == {f \in Frames : d.fr[f].home <= f}
<1>1. /\ FitSegments(a, m) /\ EndsWith(a, m) /\ FitSegments(b, n) /\ EndsWith(b, n)
      /\ u \in Nat /\ u <= m /\ u <= n /\ Between(b, u) /\ SameUpTo(b, a, u) /\ m \in Nat /\ n \in Nat
      /\ DOMAIN b = 1 .. Len(b)
  BY DEF IsChanged, FitSegments
<1>2. ASSUME NEW f \in Frames, \A g \in Frames : g < f => g \in P
      PROVE  f \in P
  <2>1. f \in Nat
    BY LatticeSize
  <2>2. CASE f <= u
    BY <2>2 DEF Pointers
  <2>3. CASE f > u
    <3>1. CASE d.fr[f].home = f
      BY <3>1, <2>1
    <3>2. CASE \E i \in 1 .. Len(b) : /\ b[i].start >= u /\ b[i].start \in Frames /\ f = End(b[i])
                                      /\ b[i].start < f /\ b[i].type = "sep"
                                      /\ d.fr[f].home = d.fr[b[i].start].home
      <4>1. PICK i \in 1 .. Len(b) : /\ b[i].start \in Frames /\ b[i].start < f
                                     /\ d.fr[f].home = d.fr[b[i].start].home
        BY <3>2
      <4>2. d.fr[b[i].start].home <= b[i].start
        BY <4>1, <1>2
      <4>3. d.fr[b[i].start].home \in Nat /\ b[i].start \in Nat
        BY <4>1, ContextFields, LatticeSize DEF Frame
      <4>. QED
        BY <4>1, <4>2, <4>3, <2>1
    <3>. QED
      BY <3>1, <3>2, <2>3, <1>1, RelaidFrame
  <2>. QED
    BY <2>1, <2>2, <2>3, <1>1
<1>3. Frames \subseteq P
  <2> HIDE DEF P
  <2>. QED
    BY <1>2, FrameInduction
<1>4. ASSUME NEW f \in Frames, Whole(b)[f].type = "sep"
      PROVE  d.fr[f].type = "sep"
  <2>1. f \in Nat
    BY LatticeSize
  <2>2. CASE f <= u
    <3>1. Whole(b)[f] = Whole(a)[f]
      BY <2>2, <1>1, SamePrefix
    <3>. QED
      BY <3>1, <1>4, <2>2 DEF Pointers
  <2>3. CASE f > u
    <3>1. PICK i \in 1 .. Len(b) : End(b[i]) = f /\ b[i].type = "sep"
      BY <1>1, <1>4, WholeFrames
    <3>2. b[i].start >= u /\ b[i] \in Segment /\ b[i].start \in Frames /\ b[i].start \in Nat
      <4>1. b[i].start \in Nat /\ b[i] \in Segment /\ b[i].start \in Frames
        BY <1>1 DEF FitSegments
      <4>2. f <= u \/ u <= b[i].start
        BY <3>1, <1>1 DEF Between
      <4>. QED
        BY <4>1, <4>2, <2>1, <2>3, <1>1
    <3>3. d.fr[f] = Laid(base[f], d.fr[b[i].start], b[i])
      BY <3>1, <3>2 DEF IsLaid
    <3>4. IsLaidIn(base[f], d.fr[b[i].start], b[i], d.fr[f])
      BY <3>2, <3>3, ContextFields, LaidFrame
    <3>. QED
      BY <3>1, <3>4 DEF IsLaidIn
  <2>. QED
    BY <2>1, <2>2, <2>3, <1>1
<1>. QED
  BY <1>3, <1>4 DEF Pointers

\* Building the lattice again behind u, for the changed input, keeps the invariant.
LEMMA RelaidInv ==
  ASSUME NEW a, NEW s, NEW b, NEW t, NEW u, IsChanged(a, Len(s), b, Len(t), u),
         NEW c, LatticeInv(c, a, s)
  PROVE  /\ LatticeInv(Relaid(c, b, u + 1), b, t)
         /\ IsRelaid(Relaid(c, b, u + 1), c, u, Len(t))
<1> DEFINE n == Len(t)
           e == ClearedFrom(c, u + 1)
           d == Relaid(c, b, u + 1)
           base == e.fr
<1>1. /\ FitSegments(b, n) /\ EndsWith(b, n) /\ u \in Nat /\ u <= n /\ Between(b, u) /\ n \in Nat
      /\ DOMAIN b = 1 .. Len(b)
  BY DEF IsChanged, FitSegments
<1>2. /\ c \in Context /\ ClearBehind(c) /\ MarksFit(c) /\ FirstFrame(c) /\ Pointers(c, a) /\ Kept(c, a)
  BY DEF LatticeInv
<1>3. /\ IsContextWith(e, c, c.tail) /\ BlankAbove(base, u)
      /\ \A f \in Frames : f <= u => base[f] = c.fr[f]
  BY <1>1, <1>2, ClearedLaid
<1>4. e \in Context /\ base \in [Frames -> Frame]
  BY <1>3, ContextFields DEF IsContextWith
<1> HIDE DEF e
<1>5. d = BuildLexiconStates(e, b, u + 1)
  BY DEF Relaid, e
<1>a. IsChanged(a, Len(s), b, n, u)
  OBVIOUS
<1> HIDE DEF n
<1>6. IsContextWith(d, e, n + 1) /\ IsLaid(d.fr, base, b, u, n)
  BY <1>1, <1>4, <1>5, BuiltLaid
<1>7. IsContextWith(d, c, n + 1) /\ d \in Context
  BY <1>3, <1>6 DEF IsContextWith
<1> HIDE DEF d, base
<1>8. ASSUME NEW f \in Frames, f <= u
      PROVE  d.fr[f] = c.fr[f]
  <2>1. f # n + 1
    BY <1>1, <1>8, LatticeSize
  <2>2. ~ EndsAt(b, u, Len(b), f)
    <3>1. SUFFICES ASSUME NEW i \in 1 .. Len(b), b[i].start >= u, End(b[i]) = f PROVE FALSE
      BY DEF EndsAt
    <3>2. b[i].start \in Nat /\ b[i].start < f /\ f \in Nat
      BY <3>1, <1>1 DEF FitSegments
    <3>. QED
      BY <3>1, <3>2, <1>1, <1>8
  <2>. QED
    BY <2>1, <2>2, <1>3, <1>6, <1>8 DEF IsLaid, base
<1>9. ASSUME NEW f \in Frames, f > u
      PROVE  d.fr[f].bw = {} /\ (f > n + 1 => Blank(d.fr, f))
  BY <1>1, <1>3, <1>4, <1>6, <1>9, RelaidFrame
<1>10. IsRelaid(d, c, u, n)
  BY <1>7, <1>8, <1>9 DEF IsRelaid
<1>11. ClearBehind(d)
  <2>1. d.tail = n + 1
    BY <1>7 DEF IsContextWith
  <2>2. \A f \in Frames : f \in Nat /\ (f > n + 1 => f > u) /\ (f >= n + 1 => f > u)
    BY <1>1, LatticeSize
  <2>. QED
    BY <2>1, <2>2, <1>9 DEF ClearBehind, BlankAbove
<1>12. MarksFit(d)
  <2>1. ASSUME NEW f \in Frames
        PROVE  /\ isSyllableFrame(d.fr[f]) /\ d.fr[f].bw # {} => d.fr[f].sel \in Starts(d.fr[f])
               /\ "IGNORED" \in d.fr[f].bw => ~isSyllableFrame(d.fr[f])
    <3>1. f <= u \/ f > u
      BY <1>1, LatticeSize
    <3>2. CASE f <= u
      BY <3>2, <1>8, <1>2 DEF MarksFit
    <3>3. CASE f > u
      BY <3>3, <1>9
    <3>. QED
      BY <3>1, <3>2, <3>3
  <2>. QED
    BY <2>1 DEF MarksFit
<1>13. FirstFrame(d)
  <2>1. 0 \in Frames /\ 0 <= u
    BY <1>1, LatticeSize
  <2>. QED
    BY <2>1, <1>2, <1>8 DEF FirstFrame
<1>14. Pointers(d, b)
  BY <1>a, <1>2, <1>3, <1>4, <1>6, <1>7, <1>8, RelaidPointers
<1>15. Kept(d, b)
  BY <1>a, <1>2, <1>3, <1>4, <1>6, <1>7, <1>8, RelaidKept
<1>16. LatticeInv(d, b, t)
  BY <1>7, <1>11, <1>12, <1>13, <1>14, <1>15 DEF LatticeInv, IsContextWith, n
<1>. QED
  BY <1>10, <1>16 DEF d, n

-----------------------------------------------------------------------------
(* Marking words in the lattice.                                           *)

\* d has the frames of c, marked otherwise.
IsMarkedAnew(d, c) ==
  /\ d \in Context /\ d.tail = c.tail
  /\ \A f \in Frames : d.fr[f].type = c.fr[f].type /\ d.fr[f].lex = c.fr[f].lex
                       /\ d.fr[f].home = c.fr[f].home

\* Frames marked anew keep the invariant if the marks fit and lie before the tail.
LEMMA MarkedInv ==
  ASSUME NEW c, NEW segs, NEW str, LatticeInv(c, segs, str), NEW d, IsMarkedAnew(d, c), MarksFit(d),
         \A f \in Frames : f > c.tail => d.fr[f].bw = {},
         "IGNORED" \notin d.fr[0].bw,
         \A f \in Frames : f >= c.tail => d.fr[f].bw \subseteq {"BESTWORD"}
  PROVE  LatticeInv(d, segs, str)
<1>1. /\ c.tail = Len(str) + 1 /\ ClearBehind(c) /\ FirstFrame(c) /\ Pointers(c, segs) /\ Kept(c, segs)
  BY DEF LatticeInv
<1>2. /\ d \in Context /\ d.tail = c.tail
      /\ \A f \in Frames : d.fr[f].type = c.fr[f].type /\ d.fr[f].lex = c.fr[f].lex
                           /\ d.fr[f].home = c.fr[f].home
  BY DEF IsMarkedAnew
<1>3. ClearBehind(d)
  BY <1>1, <1>2 DEF ClearBehind, BlankAbove, Blank
<1>4. FirstFrame(d)
  BY <1>1, <1>2, LatticeSize DEF FirstFrame
<1>5. Pointers(d, segs)
  BY <1>1, <1>2 DEF Pointers
<1>6. Kept(d, segs)
  <2>1. ASSUME NEW f \in Frames, OwnUpTo(d.fr, Whole(segs), f)
        PROVE  OwnUpTo(c.fr, Whole(segs), f)
    <3>1. \A h \in 0 .. f : h \in Frames
      BY LatticeSize
    <3>. QED
      BY <3>1, <2>1, <1>2 DEF OwnUpTo
  <2>. QED
    BY <2>1, <1>1, <1>2 DEF Kept, AgreeAt
<1>. QED
  BY <1>1, <1>2, <1>3, <1>4, <1>5, <1>6 DEF LatticeInv

\* The fields of a frame that is marked.
LEMMA MarkedFrame ==
  ASSUME NEW fr \in Frame, NEW mark \in BwTypes, NEW start \in Frames
  PROVE  /\ Marked(fr, mark, start) \in Frame
         /\ Marked(fr, mark, start).type = fr.type /\ Marked(fr, mark, start).lex = fr.lex
         /\ Marked(fr, mark, start).home = fr.home /\ Marked(fr, mark, start).sel = start
         /\ Marked(fr, mark, start).bw = fr.bw \cup {mark}
<1> DEFINE bw == fr.bw \cup {mark}
           new == Marked(fr, mark, start)
<1>1. /\ fr.type \in FrameTypes /\ fr.bw \in SUBSET BwTypes /\ fr.lex \in SUBSET Lex /\ fr.home \in Frames
      /\ fr = [type |-> fr.type, bw |-> fr.bw, sel |-> fr.sel, lex |-> fr.lex, home |-> fr.home]
  BY DEF Frame
<1>2. bw \in SUBSET BwTypes
  BY <1>1
<1>3. new = [fr EXCEPT !.bw = bw, !.sel = start]
  BY DEF Marked
<1> HIDE DEF new, bw
<1>4. new = [type |-> fr.type, bw |-> bw, sel |-> start, lex |-> fr.lex, home |-> fr.home]
  BY <1>1, <1>3
<1>5. new \in Frame
  BY <1>1, <1>2, <1>4 DEF Frame
<1>. QED
  BY <1>4, <1>5 DEF new, bw

\* The frame the path comes from.
LEMMA BeforeIsFrame ==
  ASSUME NEW P \in SUBSET Nat, NEW f \in Frames
  PROVE  Before(P, f) \in Frames
<1> DEFINE S == {0} \cup {g \in P : g < f}
<1>a. f \in Nat
  BY LatticeSize
<1>b. S \in SUBSET Nat
  <2>1. \A g \in S : g \in Nat
    OBVIOUS
  <2> HIDE DEF S
  <2>. QED
    BY <2>1
<1>1. S \in SUBSET Nat /\ S # {} /\ f \in Nat /\ \A s \in S : s <= f
  BY <1>a, <1>b
<1> HIDE DEF S
<1>2. Max(S) \in S /\ Max(S) <= f /\ Max(S) \in Nat
  BY <1>1, GreatestNumber
<1>3. Max(S) \in Frames
  <2>1. MaxLattice \in Nat /\ f <= MaxLattice - 1 /\ Frames = 0 .. MaxLattice - 1
    BY LatticeSize
  <2>. QED
    BY <2>1, <1>1, <1>2
<1>. QED
  BY <1>3 DEF Before, S

\* d is c but for its frames, which are fr, and its path, which is P.
HasParts(d, c, fr, P) ==
  d \in Context /\ d.tail = c.tail /\ d.fr = fr /\ d.path = P /\ d.starts = c.starts /\ d.ends = c.ends

\* A context with another path, with other frames, with both.
LEMMA OtherPath ==
  ASSUME NEW c \in Context, NEW P, P \subseteq Nat \ {0}
  PROVE  HasParts([c EXCEPT !.path = P], c, c.fr, P)
<1> DEFINE d == [c EXCEPT !.path = P]
<1>1. d = [fr |-> c.fr, tail |-> c.tail, path |-> P, starts |-> c.starts, ends |-> c.ends]
  BY ContextFields
<1> HIDE DEF d
<1>2. d \in Context
  BY <1>1, ContextFields DEF Context
<1>3. HasParts(d, c, c.fr, P)
  BY <1>1, <1>2 DEF HasParts
<1>. QED
  BY <1>3 DEF d

\* See OtherPath.
LEMMA OtherFrames ==
  ASSUME NEW c \in Context, NEW fr \in [Frames -> Frame]
  PROVE  HasParts([c EXCEPT !.fr = fr], c, fr, c.path)
<1> DEFINE d == [c EXCEPT !.fr = fr]
<1>1. d = [fr |-> fr, tail |-> c.tail, path |-> c.path, starts |-> c.starts, ends |-> c.ends]
  BY ContextFields
<1> HIDE DEF d
<1>2. d \in Context
  BY <1>1, ContextFields DEF Context
<1>3. HasParts(d, c, fr, c.path)
  BY <1>1, <1>2 DEF HasParts
<1>. QED
  BY <1>3 DEF d

\* See OtherPath.
LEMMA OtherFramesAndPath ==
  ASSUME NEW c \in Context, NEW P, P \subseteq Nat \ {0}, NEW fr \in [Frames -> Frame]
  PROVE  HasParts([c EXCEPT !.path = P, !.fr = fr], c, fr, P)
<1> DEFINE e == [c EXCEPT !.path = P]
<1>1. HasParts(e, c, c.fr, P)
  BY OtherPath
<1> HIDE DEF e
<1>2. e \in Context
  BY <1>1 DEF HasParts
<1>3. HasParts([e EXCEPT !.fr = fr], e, fr, e.path)
  BY <1>2, OtherFrames
<1> DEFINE d == [e EXCEPT !.fr = fr]
<1> HIDE DEF d
<1>4. HasParts(d, c, fr, P)
  BY <1>1, <1>3 DEF HasParts, d
<1>. QED
  BY <1>4 DEF d, e

\* d is c but for the marks and the path.
IsSearched(d, c) == IsMarkedAnew(d, c) /\ d.starts = c.starts /\ d.ends = c.ends

\* Marking the best path keeps the invariant.
LEMMA WithPathInv ==
  ASSUME NEW c, NEW segs, NEW str, LatticeInv(c, segs, str), NEW P \in Paths(c)
  PROVE  LatticeInv(WithPath(c, P), segs, str) /\ IsSearched(WithPath(c, P), c)
<1> DEFINE fr == [f \in Frames |->
                   IF f \in P /\ "USER_SELECTED" \notin c.fr[f].bw
                   THEN Marked(c.fr[f], "BESTWORD", Before(P, f)) ELSE c.fr[f]]
           d == WithPath(c, P)
<1>1. c \in Context /\ c.fr \in [Frames -> Frame] /\ c.tail \in Nat /\ c.tail > 0
      /\ ClearBehind(c) /\ MarksFit(c) /\ FirstFrame(c)
  <2>1. c \in Context /\ c.tail = Len(str) + 1
    BY DEF LatticeInv
  <2>. QED
    BY <2>1, ContextFields DEF LatticeInv
<1>2. PICK Q \in SUBSET (1 .. LastFr(c)) : P = Q \cup {c.tail} /\ IsPath(c, P)
  BY DEF Paths
<1>3. P \in SUBSET (Nat \ {0}) /\ \A f \in P : f <= c.tail
  <2>1. \A f \in 1 .. LastFr(c) : f \in Nat \ {0} /\ f <= c.tail
    BY <1>1 DEF LastFr
  <2>2. c.tail \in Nat \ {0} /\ c.tail <= c.tail
    BY <1>1
  <2>. QED
    BY <2>1, <2>2, <1>2
<1>4. ASSUME NEW f \in Frames
      PROVE  /\ fr[f] \in Frame
             /\ fr[f].type = c.fr[f].type /\ fr[f].lex = c.fr[f].lex /\ fr[f].home = c.fr[f].home
             /\ fr[f].bw \subseteq c.fr[f].bw \cup {"BESTWORD"}
             /\ fr[f].bw = c.fr[f].bw \/ f \in P
             /\ isSyllableFrame(c.fr[f]) /\ fr[f].bw # {} => fr[f].sel \in Starts(c.fr[f])
  <2>1. c.fr[f] \in Frame /\ Before(P, f) \in Frames /\ "BESTWORD" \in BwTypes
    BY <1>1, <1>3, BeforeIsFrame DEF BwTypes
  <2>2. CASE f \in P /\ "USER_SELECTED" \notin c.fr[f].bw
    <3>1. fr[f] = Marked(c.fr[f], "BESTWORD", Before(P, f))
      BY <2>2
    <3> HIDE DEF fr
    <3>2. /\ fr[f] \in Frame
          /\ fr[f].type = c.fr[f].type /\ fr[f].lex = c.fr[f].lex /\ fr[f].home = c.fr[f].home
          /\ fr[f].sel = Before(P, f) /\ fr[f].bw = c.fr[f].bw \cup {"BESTWORD"}
      BY <2>1, <3>1, MarkedFrame
    <3>3. Before(P, f) \in Starts(c.fr[f])
      BY <1>2, <2>2 DEF IsPath, ComesFrom
    <3>. QED
      BY <2>2, <3>2, <3>3
  <2>3. CASE ~ (f \in P /\ "USER_SELECTED" \notin c.fr[f].bw)
    <3>1. fr[f] = c.fr[f]
      BY <2>3
    <3> HIDE DEF fr
    <3>. QED
      BY <3>1, <2>1, <1>1 DEF MarksFit
  <2>. QED
    BY <2>2, <2>3
<1>5. d = [c EXCEPT !.path = P, !.fr = fr]
  BY DEF WithPath
<1>6. fr \in [Frames -> Frame]
  BY <1>4
<1> HIDE DEF fr
<1>7. d \in Context /\ d.tail = c.tail /\ d.fr = fr /\ d.starts = c.starts /\ d.ends = c.ends
  <2>1. P \subseteq Nat \ {0}
    BY <1>3
  <2>2. HasParts([c EXCEPT !.path = P, !.fr = fr], c, fr, P)
    BY <2>1, <1>1, <1>6, OtherFramesAndPath
  <2>3. HasParts(d, c, fr, P)
    BY <2>2, <1>5
  <2> HIDE DEF d
  <2>. QED
    BY <2>3 DEF HasParts
<1> HIDE DEF d
<1>8. IsMarkedAnew(d, c)
  BY <1>4, <1>7 DEF IsMarkedAnew
<1>9. MarksFit(d)
  BY <1>1, <1>4, <1>7 DEF MarksFit, isSyllableFrame, Starts
<1>10. \A f \in Frames : f > c.tail => d.fr[f].bw = {}
  <2>1. \A f \in Frames : f > c.tail => f \notin P
    BY <1>1, <1>3, LatticeSize
  <2>. QED
    BY <2>1, <1>1, <1>4, <1>7 DEF ClearBehind, BlankAbove, Blank
<1>11. /\ "IGNORED" \notin d.fr[0].bw
       /\ \A f \in Frames : f >= c.tail => d.fr[f].bw \subseteq {"BESTWORD"}
  <2>1. \A f \in Frames : d.fr[f].bw \subseteq c.fr[f].bw \cup {"BESTWORD"}
    BY <1>4, <1>7
  <2>2. 0 \in Frames
    BY LatticeSize
  <2>. QED
    BY <2>1, <2>2, <1>1 DEF ClearBehind, FirstFrame
<1>12. LatticeInv(d, segs, str)
  BY <1>8, <1>9, <1>10, <1>11, MarkedInv
<1>. QED
  BY <1>7, <1>8, <1>12 DEF IsSearched, d

\* Searching keeps the invariant.
LEMMA SearchedInv ==
  ASSUME NEW c, NEW segs, NEW str, LatticeInv(c, segs, str), NEW d \in Searched(c)
  PROVE  LatticeInv(d, segs, str) /\ IsSearched(d, c)
<1>1. CASE d = [c EXCEPT !.path = {}]
  <2>1. c \in Context
    BY DEF LatticeInv
  <2>2. d \in Context /\ d.tail = c.tail /\ d.fr = c.fr /\ d.starts = c.starts /\ d.ends = c.ends
    <3>1. HasParts([c EXCEPT !.path = {}], c, c.fr, {})
      BY <2>1, {} \subseteq Nat \ {0}, OtherPath
    <3>2. HasParts(d, c, c.fr, {})
      BY <3>1, <1>1
    <3>. QED
      BY <3>2 DEF HasParts
  <2>. QED
    BY <2>1, <2>2 DEF LatticeInv, IsSearched, IsMarkedAnew, ClearBehind, MarksFit, FirstFrame, Pointers, Kept
<1>2. CASE \E P \in BestPaths(c) : d = WithPath(c, P)
  <2>1. PICK P \in BestPaths(c) : d = WithPath(c, P)
    BY <1>2
  <2>2. P \in Paths(c)
    BY DEF BestPaths
  <2>. QED
    BY <2>1, <2>2, WithPathInv
<1>. QED
  BY <1>1, <1>2 DEF Searched

\* What can be chosen is not changed by marks.
LEMMA MarkedChoosable ==
  ASSUME NEW c, NEW d, IsSearched(d, c), NEW w, Choosable(c, w), w[2] \in Frames
  PROVE  Choosable(d, w)
BY DEF IsSearched, IsMarkedAnew, Choosable, LastFr, isSyllableFrame, Starts

\* The frames before the tail are frames of the lattice.
LEMMA BeforeTail ==
  ASSUME NEW c, NEW segs, NEW str, LatticeInv(c, segs, str), Len(str) \in Nat, Len(str) + 1 < MaxLattice
  PROVE  /\ c \in Context /\ c.fr \in [Frames -> Frame] /\ c.tail \in Nat
         /\ LastFr(c) = Len(str) /\ 0 .. LastFr(c) \subseteq Frames /\ c.tail \in Frames
<1>1. c \in Context /\ c.tail = Len(str) + 1
  BY DEF LatticeInv
<1>2. LastFr(c) = Len(str) /\ 0 .. LastFr(c) \subseteq Frames /\ c.tail \in Frames
  BY <1>1, LatticeSize DEF LastFr
<1>. QED
  BY <1>1, <1>2, ContextFields

\* c with one frame replaced.
LEMMA OneFrame ==
  ASSUME NEW c \in Context, NEW f \in Frames, NEW new \in Frame
  PROVE  /\ [c EXCEPT !.fr[f] = new].fr \in [Frames -> Frame]
         /\ HasParts([c EXCEPT !.fr[f] = new], c, [c EXCEPT !.fr[f] = new].fr, c.path)
         /\ [c EXCEPT !.fr[f] = new].fr[f] = new
         /\ \A g \in Frames : g # f => [c EXCEPT !.fr[f] = new].fr[g] = c.fr[g]
<1> DEFINE fr == [c.fr EXCEPT ![f] = new]
           d == [c EXCEPT !.fr[f] = new]
<1>1. fr \in [Frames -> Frame] /\ fr[f] = new /\ \A g \in Frames : g # f => fr[g] = c.fr[g]
  BY ContextFields
<1>2. d = [c EXCEPT !.fr = fr]
  OBVIOUS
<1> HIDE DEF fr
<1>3. HasParts(d, c, fr, c.path)
  BY <1>1, <1>2, OtherFrames
<1> HIDE DEF d
<1>4. d.fr = fr
  BY <1>3 DEF HasParts
<1>5. d.fr \in [Frames -> Frame] /\ HasParts(d, c, d.fr, c.path) /\ d.fr[f] = new
      /\ \A g \in Frames : g # f => d.fr[g] = c.fr[g]
  BY <1>1, <1>3, <1>4
<1>. QED
  BY <1>5 DEF d

\* e is c with word w marked as chosen.
IsChosenIn(e, c, w) ==
  /\ IsSearched(e, c)
  /\ e.fr[w[2]].bw = c.fr[w[2]].bw \cup {"USER_SELECTED"} /\ e.fr[w[2]].sel = w[1]
  /\ \A g \in Frames : g # w[2] => e.fr[g] = c.fr[g]

\* Marking a word as chosen keeps the invariant.
LEMMA ChosenMarked ==
  ASSUME NEW c, NEW segs, NEW str, LatticeInv(c, segs, str), Len(str) \in Nat, Len(str) + 1 < MaxLattice,
         NEW w, Choosable(c, w)
  PROVE  LET e == [c EXCEPT !.fr[w[2]] = Marked(@, "USER_SELECTED", w[1])]
         IN LatticeInv(e, segs, str) /\ IsChosenIn(e, c, w)
<1> DEFINE f == w[2]
           new == Marked(c.fr[f], "USER_SELECTED", w[1])
           e == [c EXCEPT !.fr[f] = new]
<1>1. /\ c \in Context /\ c.fr \in [Frames -> Frame] /\ c.tail \in Nat
      /\ f \in Frames /\ f # 0 /\ f < c.tail
      /\ isSyllableFrame(c.fr[f]) /\ w[1] \in Starts(c.fr[f])
      /\ ClearBehind(c) /\ MarksFit(c) /\ FirstFrame(c)
  <2>1. f \in 1 .. LastFr(c) /\ c.tail \in Nat /\ 0 .. LastFr(c) \subseteq Frames
    BY BeforeTail DEF Choosable
  <2>2. f \in Frames /\ f # 0 /\ f < c.tail
    BY <2>1 DEF LastFr
  <2>. QED
    BY <2>1, <2>2, BeforeTail DEF Choosable, LatticeInv
<1>2. c.fr[f] \in Frame /\ w[1] \in Frames /\ "USER_SELECTED" \in BwTypes
  BY <1>1 DEF Starts, Frame, Lex, BwTypes
<1>3. /\ new \in Frame /\ new.type = c.fr[f].type /\ new.lex = c.fr[f].lex /\ new.home = c.fr[f].home
      /\ new.sel = w[1] /\ new.bw = c.fr[f].bw \cup {"USER_SELECTED"}
  BY <1>2, MarkedFrame
<1> HIDE DEF new, f
<1>4. /\ HasParts(e, c, e.fr, c.path) /\ e.fr[f] = new
      /\ \A g \in Frames : g # f => e.fr[g] = c.fr[g]
  BY <1>1, <1>3, OneFrame
<1>5. e = [c EXCEPT !.fr[w[2]] = Marked(@, "USER_SELECTED", w[1])]
  BY DEF e, new, f
<1> HIDE DEF e
<1>6. e \in Context /\ e.tail = c.tail /\ e.starts = c.starts /\ e.ends = c.ends
  BY <1>4 DEF HasParts
<1>7. IsMarkedAnew(e, c)
  BY <1>3, <1>4, <1>6 DEF IsMarkedAnew
<1>8. "IGNORED" \notin c.fr[f].bw
  BY <1>1 DEF MarksFit
<1>9. MarksFit(e)
  <2>1. ASSUME NEW g \in Frames
        PROVE  /\ isSyllableFrame(e.fr[g]) /\ e.fr[g].bw # {} => e.fr[g].sel \in Starts(e.fr[g])
               /\ "IGNORED" \in e.fr[g].bw => ~isSyllableFrame(e.fr[g])
    <3>1. CASE g = f
      BY <3>1, <1>1, <1>3, <1>4, <1>8 DEF Starts
    <3>2. CASE g # f
      BY <3>2, <1>1, <1>4 DEF MarksFit
    <3>. QED
      BY <3>1, <3>2
  <2>. QED
    BY <2>1 DEF MarksFit
<1>10. \A g \in Frames : g > c.tail => e.fr[g].bw = {}
  <2>1. \A g \in Frames : g > c.tail => g # f
    BY <1>1, LatticeSize
  <2>. QED
    BY <2>1, <1>1, <1>4 DEF ClearBehind, BlankAbove, Blank
<1>11. /\ "IGNORED" \notin e.fr[0].bw
       /\ \A g \in Frames : g >= c.tail => e.fr[g].bw \subseteq {"BESTWORD"}
  <2>1. \A g \in Frames : g = 0 \/ g >= c.tail => g # f
    BY <1>1, LatticeSize
  <2>. QED
    BY <2>1, <1>1, <1>4, LatticeSize DEF ClearBehind, FirstFrame
<1>12. LatticeInv(e, segs, str)
  BY <1>7, <1>9, <1>10, <1>11, MarkedInv
<1>13. IsChosenIn(e, c, w)
  BY <1>3, <1>4, <1>6, <1>7 DEF IsChosenIn, IsSearched, f
<1>. QED
  BY <1>5, <1>12, <1>13

\* Choosing a word keeps the invariant.
LEMMA SelectedInv ==
  ASSUME NEW c, NEW segs, NEW str, LatticeInv(c, segs, str), Len(str) \in Nat, Len(str) + 1 < MaxLattice,
         NEW w, Choosable(c, w), NEW d \in Selected(c, w)
  PROVE  LatticeInv(d, segs, str) /\ IsSearched(d, c)
<1> DEFINE e == [c EXCEPT !.fr[w[2]] = Marked(@, "USER_SELECTED", w[1])]
<1>1. d \in Searched(e)
  BY DEF Selected
<1>2. LatticeInv(e, segs, str) /\ IsSearched(e, c)
  BY ChosenMarked DEF IsChosenIn
<1> HIDE DEF e
<1>3. LatticeInv(d, segs, str) /\ IsSearched(d, e)
  BY <1>1, <1>2, SearchedInv
<1>. QED
  BY <1>2, <1>3 DEF IsSearched, IsMarkedAnew

\* How far the choice moves on over strings.
LEMMA SkipStringsBounds ==
  ASSUME NEW c, c.tail \in Nat, NEW e \in Nat, e <= LastFr(c)
  PROVE  /\ SkipStrings(c, e) \in e .. LastFr(c)
         /\ \A f \in e + 1 .. SkipStrings(c, e) : c.fr[f].type \in {"string", "tail"}
<1> DEFINE S == {g \in e .. LastFr(c) : \A f \in e + 1 .. g : c.fr[f].type \in {"string", "tail"}}
<1>1. LastFr(c) \in Int
  BY DEF LastFr
<1>2. LastFr(c) \in Nat
  BY <1>1
<1>3. e \in S /\ S \in SUBSET Nat /\ \A s \in S : s <= LastFr(c)
  BY <1>2
<1> HIDE DEF S
<1>4. Max(S) \in S
  BY <1>2, <1>3, GreatestNumber
<1>5. SkipStrings(c, e) = Max(S)
  BY DEF SkipStrings, S
<1>. QED
  BY <1>4, <1>5 DEF S

\* Marking the strings behind a chosen word keeps the invariant.
LEMMA IgnoredInv ==
  ASSUME NEW c, NEW segs, NEW str, LatticeInv(c, segs, str), Len(str) \in Nat, Len(str) + 1 < MaxLattice,
         NEW e \in Nat, e <= LastFr(c), NEW at, at = SkipStrings(c, e), NEW d,
         d = [c EXCEPT !.fr = [f \in Frames |->
                IF f \in e + 1 .. at THEN Marked(@[f], "IGNORED", @[f].sel) ELSE @[f]]]
  PROVE  LatticeInv(d, segs, str) /\ IsSearched(d, c)
<1> DEFINE fr == [f \in Frames |->
                   IF f \in e + 1 .. at THEN Marked(c.fr[f], "IGNORED", c.fr[f].sel) ELSE c.fr[f]]
<1>1. /\ c \in Context /\ c.fr \in [Frames -> Frame] /\ c.tail \in Nat
      /\ ClearBehind(c) /\ MarksFit(c) /\ FirstFrame(c)
  BY BeforeTail DEF LatticeInv
<1>2. at \in e .. LastFr(c) /\ \A f \in e + 1 .. at : c.fr[f].type \in {"string", "tail"}
  BY <1>1, SkipStringsBounds
<1>3. \A f \in e + 1 .. at : f \in Nat /\ f # 0 /\ f < c.tail
  BY <1>1, <1>2 DEF LastFr
<1>4. ASSUME NEW f \in Frames
      PROVE  /\ fr[f] \in Frame
             /\ fr[f].type = c.fr[f].type /\ fr[f].lex = c.fr[f].lex /\ fr[f].home = c.fr[f].home
             /\ fr[f] = c.fr[f] \/ (f \in e + 1 .. at /\ ~ isSyllableFrame(fr[f]))
  <2>1. c.fr[f] \in Frame /\ c.fr[f].sel \in Frames /\ "IGNORED" \in BwTypes
    BY <1>1 DEF BwTypes, Frame
  <2>2. CASE f \in e + 1 .. at
    <3>1. fr[f] = Marked(c.fr[f], "IGNORED", c.fr[f].sel)
      BY <2>2
    <3> HIDE DEF fr
    <3>. QED
      BY <3>1, <2>1, <2>2, <1>2, MarkedFrame DEF isSyllableFrame
  <2>3. CASE f \notin e + 1 .. at
    BY <2>1, <2>3
  <2>. QED
    BY <2>2, <2>3
<1>5. fr \in [Frames -> Frame]
  BY <1>4
<1>a. d = [c EXCEPT !.fr = fr]
  OBVIOUS
<1> HIDE DEF fr
<1>6. HasParts([c EXCEPT !.fr = fr], c, fr, c.path)
  BY <1>1, <1>5, OtherFrames
<1>b. HasParts(d, c, fr, c.path)
  BY <1>a, <1>6
<1>7. d \in Context /\ d.tail = c.tail /\ d.fr = fr /\ d.starts = c.starts /\ d.ends = c.ends
  BY <1>b DEF HasParts
<1>8. IsMarkedAnew(d, c)
  BY <1>4, <1>7 DEF IsMarkedAnew
<1>9. MarksFit(d)
  BY <1>1, <1>4, <1>7 DEF MarksFit
<1>10. \A f \in Frames : f > c.tail => d.fr[f].bw = {}
  <2>1. \A f \in Frames : f > c.tail => f \notin e + 1 .. at
    BY <1>1, <1>3
  <2>. QED
    BY <2>1, <1>1, <1>4, <1>7 DEF ClearBehind, BlankAbove, Blank
<1>11. /\ "IGNORED" \notin d.fr[0].bw
       /\ \A f \in Frames : f >= c.tail => d.fr[f].bw \subseteq {"BESTWORD"}
  <2>1. \A f \in Frames : f = 0 \/ f >= c.tail => f \notin e + 1 .. at
    BY <1>1, <1>3
  <2>. QED
    BY <2>1, <1>1, <1>4, <1>7, LatticeSize DEF ClearBehind, FirstFrame
<1>12. LatticeInv(d, segs, str)
  BY <1>8, <1>9, <1>10, <1>11, MarkedInv
<1>. QED
  BY <1>7, <1>8, <1>12 DEF IsSearched

\* Listing the candidates keeps the invariant, and what is listed can be chosen.
LEMMA ListedInv ==
  ASSUME NEW c, NEW segs, NEW str, LatticeInv(c, segs, str), Len(str) \in Nat, Len(str) + 1 < MaxLattice,
         NEW frIdx \in Nat
  PROVE  /\ LatticeInv(WithCandidates(c, frIdx), segs, str)
         /\ WithCandidates(c, frIdx).tail = c.tail /\ WithCandidates(c, frIdx).path = c.path
         /\ WithCandidates(c, frIdx).fr = c.fr
         /\ \A w \in Candidates(c, frIdx) : Choosable(WithCandidates(c, frIdx), w)
<1> DEFINE found == {e \in CandidateEnds(c, frIdx) : frIdx \in Starts(c.fr[e])}
           ends == IF found = {} THEN c.ends ELSE Max(found)
           d == WithCandidates(c, frIdx)
           n == Len(str)
<1>1. /\ c \in Context /\ c.fr \in [Frames -> Frame] /\ c.tail \in Nat /\ n \in Nat
      /\ LastFr(c) = n /\ 0 .. LastFr(c) \subseteq Frames /\ MarksFit(c)
  BY BeforeTail DEF LatticeInv
<1> HIDE DEF n
<1>2. ASSUME NEW e \in CandidateEnds(c, frIdx)
      PROVE  /\ e \in Nat /\ e <= n /\ e \in 1 .. LastFr(c) /\ e \in Frames
             /\ isSyllableFrame(c.fr[e]) /\ e \in found
  <2>1. e \in frIdx + 1 .. n /\ isSyllableFrame(c.fr[e])
    BY <1>1 DEF CandidateEnds
  <2>2. e \in Nat /\ e <= n /\ e \in 1 .. n
    BY <2>1, <1>1
  <2>3. e \in Frames
    BY <2>2, <1>1
  <2>4. frIdx \in Starts(c.fr[e])
    <3>1. frIdx \in Starts(c.fr[e]) \/ (~isNotBestWord(c.fr[e]) /\ c.fr[e].sel = frIdx)
      BY DEF CandidateEnds
    <3>. QED
      BY <3>1, <2>1, <2>3, <1>1 DEF MarksFit, isNotBestWord
  <2>. QED
    BY <2>1, <2>2, <2>3, <2>4, <1>1
<1>3. found \in SUBSET Nat /\ \A e \in found : e <= n
  BY <1>2
<1> HIDE DEF found
<1>4. ends \in Nat /\ \A e \in found : e <= ends
  <2>1. CASE found = {}
    BY <2>1, <1>1, ContextFields
  <2>2. CASE found # {}
    <3>1. Max(found) \in found /\ \A e \in found : e <= Max(found)
      BY <2>2, <1>1, <1>3, GreatestNumber
    <3>. QED
      BY <3>1, <2>2, <1>3
  <2>. QED
    BY <2>1, <2>2
<1>5. d = [c EXCEPT !.starts = frIdx, !.ends = ends]
  BY DEF WithCandidates, found
<1> HIDE DEF d, ends
<1>6. d = [fr |-> c.fr, tail |-> c.tail, path |-> c.path, starts |-> frIdx, ends |-> ends]
  <2> DEFINE e == [c EXCEPT !.starts = frIdx]
  <2>1. e = [fr |-> c.fr, tail |-> c.tail, path |-> c.path, starts |-> frIdx, ends |-> c.ends]
    BY <1>1, ContextFields
  <2>2. d = [e EXCEPT !.ends = ends]
    BY <1>5
  <2> HIDE DEF e
  <2>. QED
    BY <2>1, <2>2
<1>7. d \in Context
  BY <1>1, <1>4, <1>6, ContextFields DEF Context
<1>8. LatticeInv(d, segs, str)
  BY <1>6, <1>7 DEF LatticeInv, ClearBehind, MarksFit, FirstFrame, Pointers, Kept
<1>9. ASSUME NEW w \in Candidates(c, frIdx)
      PROVE  Choosable(d, w)
  <2>1. PICK e \in CandidateEnds(c, frIdx) : w = <<frIdx, e>>
    BY DEF Candidates
  <2>2. w[1] = frIdx /\ w[2] = e /\ e \in found
    BY <2>1, <1>2
  <2>3. frIdx \in Starts(c.fr[e])
    BY <2>2 DEF found
  <2>4. d.fr = c.fr /\ LastFr(d) = LastFr(c) /\ d.ends = ends
    BY <1>6 DEF LastFr
  <2>. QED
    BY <2>2, <2>3, <2>4, <1>2, <1>4 DEF Choosable
<1>. QED
  BY <1>6, <1>8, <1>9 DEF d

\* The frame cancelSelection walks back to.
LEMMA SkippedFrame ==
  ASSUME NEW c, "IGNORED" \notin c.fr[0].bw, NEW f \in Frames
  PROVE  /\ Skipped(c, f) \in 0 .. f /\ Skipped(c, f) \in Frames
         /\ Skipped(c, f) = f \/ "IGNORED" \in c.fr[f].bw
<1> DEFINE S == {g \in 0 .. f : "IGNORED" \notin c.fr[g].bw}
<1>1. f \in Nat /\ 0 .. f \subseteq Frames
  BY LatticeSize
<1>2. 0 \in S /\ S \in SUBSET Nat /\ \A s \in S : s <= f
  BY <1>1
<1> HIDE DEF S
<1>3. Max(S) \in S /\ \A s \in S : s <= Max(S)
  BY <1>1, <1>2, GreatestNumber
<1>4. Skipped(c, f) = Max(S)
  BY DEF Skipped, S
<1>5. Max(S) \in 0 .. f
  BY <1>3 DEF S
<1>6. Max(S) = f \/ "IGNORED" \in c.fr[f].bw
  <2>1. CASE "IGNORED" \notin c.fr[f].bw
    <3>1. f \in S
      BY <2>1, <1>1 DEF S
    <3>. QED
      BY <3>1, <1>1, <1>3, <1>5
  <2>. QED
    BY <2>1
<1>. QED
  BY <1>1, <1>4, <1>5, <1>6

\* What taking back a choice leaves: the tail, the candidates, the words of syllables.
IsCancelled(d, c) ==
  /\ d \in Context /\ d.tail = c.tail /\ d.path = c.path /\ d.ends = c.ends
  /\ \A f \in Frames : isSyllableFrame(c.fr[f]) => d.fr[f].type = c.fr[f].type /\ d.fr[f].lex = c.fr[f].lex

\* A frame without its marks.
LEMMA CleanFrame ==
  ASSUME NEW fr \in Frame
  PROVE  /\ [fr EXCEPT !.bw = {}] \in Frame
         /\ [fr EXCEPT !.bw = {}] = [type |-> fr.type, bw |-> {}, sel |-> fr.sel, lex |-> fr.lex, home |-> fr.home]
<1> DEFINE clean == [fr EXCEPT !.bw = {}]
<1>1. /\ fr = [type |-> fr.type, bw |-> fr.bw, sel |-> fr.sel, lex |-> fr.lex, home |-> fr.home]
      /\ fr.type \in FrameTypes /\ fr.sel \in Frames /\ fr.lex \in SUBSET Lex /\ fr.home \in Frames
  BY DEF Frame
<1>2. clean = [type |-> fr.type, bw |-> {}, sel |-> fr.sel, lex |-> fr.lex, home |-> fr.home]
  BY <1>1
<1> HIDE DEF clean
<1>3. clean \in Frame
  BY <1>1, <1>2 DEF Frame
<1>. QED
  BY <1>2, <1>3 DEF clean

\* Taking back a choice keeps the invariant: the frame cancelSelection overwrites held no word,
\* and has pointers of another frame from then on.
LEMMA CancelledInv ==
  ASSUME NEW c, NEW segs, NEW str, LatticeInv(c, segs, str), FitSegments(segs, Len(str)),
         EndsWith(segs, Len(str)), NEW f \in Frames
  PROVE  /\ LatticeInv(Cancelled(c, f).ic, segs, str)
         /\ IsCancelled(Cancelled(c, f).ic, c)
         /\ Cancelled(c, f).at \in Frames
<1> DEFINE g == Skipped(c, f)
           was == c.fr[g]
           new == IF was.bw \cap {"USER_SELECTED", "BESTWORD"} # {} THEN [was EXCEPT !.bw = {}] ELSE was
           d == [c EXCEPT !.fr[f] = new]
<1>1. /\ c \in Context /\ c.fr \in [Frames -> Frame] /\ c.tail \in Nat
      /\ ClearBehind(c) /\ MarksFit(c) /\ FirstFrame(c) /\ Pointers(c, segs) /\ Kept(c, segs)
      /\ c.tail = Len(str) + 1
  BY ContextFields DEF LatticeInv
<1>2. /\ g \in 0 .. f /\ g \in Frames /\ (g = f \/ "IGNORED" \in c.fr[f].bw) /\ f \in Nat /\ g \in Nat /\ g <= f
  <2>1. "IGNORED" \notin c.fr[0].bw /\ f \in Nat
    BY <1>1, LatticeSize DEF FirstFrame
  <2>. QED
    BY <2>1, SkippedFrame
<1> HIDE DEF g
<1>3. Cancelled(c, f).ic = d /\ Cancelled(c, f).at \in {was.sel, f}
  <2>1. CASE was.bw \cap {"USER_SELECTED", "BESTWORD"} # {}
    BY <2>1 DEF Cancelled, g
  <2>2. CASE ~ (was.bw \cap {"USER_SELECTED", "BESTWORD"} # {})
    BY <2>2 DEF Cancelled, g
  <2>. QED
    BY <2>1, <2>2
<1>4. was \in Frame /\ was.sel \in Frames
  BY <1>1, <1>2 DEF Frame
<1>5. /\ new \in Frame /\ new.type = was.type /\ new.sel = was.sel /\ new.lex = was.lex
      /\ new.home = was.home /\ (new.bw = {} \/ new.bw = was.bw)
  <2> DEFINE clean == [was EXCEPT !.bw = {}]
  <2> HIDE DEF was
  <2>2. clean = [type |-> was.type, bw |-> {}, sel |-> was.sel, lex |-> was.lex, home |-> was.home]
    BY <1>4, CleanFrame
  <2>3. clean \in Frame
    BY <1>4, CleanFrame
  <2>4. new = clean \/ new = was
    OBVIOUS
  <2> HIDE DEF clean, new
  <2>5. CASE new = clean
    BY <2>2, <2>3, <2>5
  <2>6. CASE new = was
    BY <2>6, <1>4
  <2>. QED
    BY <2>4, <2>5, <2>6
<1> HIDE DEF new, was
<1>6. /\ HasParts(d, c, d.fr, c.path) /\ d.fr[f] = new
      /\ \A h \in Frames : h # f => d.fr[h] = c.fr[h]
  BY <1>1, <1>5, OneFrame
<1> HIDE DEF d
<1>7. d \in Context /\ d.tail = c.tail /\ d.path = c.path /\ d.ends = c.ends
  BY <1>6 DEF HasParts
<1>8. CASE g = f
  <2>1. /\ d.fr[f].type = c.fr[f].type /\ d.fr[f].lex = c.fr[f].lex /\ d.fr[f].home = c.fr[f].home
        /\ d.fr[f].sel = c.fr[f].sel /\ (d.fr[f].bw = {} \/ d.fr[f].bw = c.fr[f].bw)
    BY <1>5, <1>6, <1>8 DEF was
  <2>2. IsMarkedAnew(d, c)
    BY <2>1, <1>6, <1>7 DEF IsMarkedAnew
  <2>3. MarksFit(d)
    <3>1. ASSUME NEW h \in Frames
          PROVE  /\ isSyllableFrame(d.fr[h]) /\ d.fr[h].bw # {} => d.fr[h].sel \in Starts(d.fr[h])
                 /\ "IGNORED" \in d.fr[h].bw => ~isSyllableFrame(d.fr[h])
      <4>1. CASE h = f
        BY <4>1, <2>1, <1>1 DEF MarksFit, isSyllableFrame, Starts
      <4>2. CASE h # f
        BY <4>2, <1>1, <1>6 DEF MarksFit
      <4>. QED
        BY <4>1, <4>2
    <3>. QED
      BY <3>1 DEF MarksFit
  <2>4. \A h \in Frames : h > c.tail => d.fr[h].bw = {}
    BY <2>1, <1>1, <1>6 DEF ClearBehind, BlankAbove, Blank
  <2>5. /\ "IGNORED" \notin d.fr[0].bw
        /\ \A h \in Frames : h >= c.tail => d.fr[h].bw \subseteq {"BESTWORD"}
    <3>1. \A h \in Frames : d.fr[h].bw = {} \/ d.fr[h].bw = c.fr[h].bw
      BY <2>1, <1>6
    <3>. QED
      BY <3>1, <1>1, LatticeSize DEF ClearBehind, FirstFrame
  <2>6. LatticeInv(d, segs, str)
    BY <2>2, <2>3, <2>4, <2>5, MarkedInv
  <2>7. IsCancelled(d, c)
    BY <2>2, <1>7 DEF IsCancelled, IsMarkedAnew
  <2>. QED
    BY <2>6, <2>7, <1>3, <1>4
<1>9. CASE g # f
  <2>1. "IGNORED" \in c.fr[f].bw /\ g < f
    BY <1>2, <1>9
  <2>2. f < c.tail /\ f # 0 /\ ~ isSyllableFrame(c.fr[f])
    <3>1. ~ (f >= c.tail) /\ f # 0
      BY <2>1, <1>1 DEF ClearBehind, FirstFrame
    <3>. QED
      BY <3>1, <2>1, <1>1, <1>2 DEF MarksFit
  <2>3. ClearBehind(d)
    <3>1. \A h \in Frames : h >= c.tail => h # f
      BY <2>2, <1>1, <1>2
    <3>2. \A h \in Frames : h > c.tail => h >= c.tail
      BY <1>1, LatticeSize
    <3>. QED
      BY <3>1, <3>2, <1>1, <1>6, <1>7 DEF ClearBehind, BlankAbove, Blank
  <2>4. MarksFit(d)
    <3>1. ASSUME NEW h \in Frames
          PROVE  /\ isSyllableFrame(d.fr[h]) /\ d.fr[h].bw # {} => d.fr[h].sel \in Starts(d.fr[h])
                 /\ "IGNORED" \in d.fr[h].bw => ~isSyllableFrame(d.fr[h])
      <4>1. CASE h = f
        BY <4>1, <1>1, <1>2, <1>5, <1>6 DEF MarksFit, isSyllableFrame, Starts, was
      <4>2. CASE h # f
        BY <4>2, <1>1, <1>6 DEF MarksFit
      <4>. QED
        BY <4>1, <4>2
    <3>. QED
      BY <3>1 DEF MarksFit
  <2>5. FirstFrame(d)
    BY <2>2, <1>1, <1>6, LatticeSize DEF FirstFrame
  <2>6. d.fr[f].home < f
    <3>1. c.fr[g].home <= g /\ c.fr[g].home \in Nat
      BY <1>1, <1>2, LatticeSize DEF Pointers, Frame
    <3>. QED
      BY <3>1, <2>1, <1>2, <1>5, <1>6 DEF was
  <2>7. Whole(segs)[f].type # "sep" /\ Whole(segs)[f].home = f
    <3>1. Whole(segs)[f].type # "sep"
      BY <2>2, <1>1 DEF Pointers, isSyllableFrame
    <3>. QED
      BY <3>1, WholeFrames
  <2>8. Pointers(d, segs)
    <3>1. ASSUME NEW h \in Frames
          PROVE  d.fr[h].home <= h /\ (Whole(segs)[h].type = "sep" => d.fr[h].type = "sep")
      <4>1. CASE h = f
        <5>1. d.fr[f].home \in Nat
          BY <1>7, ContextFields, LatticeSize DEF Frame
        <5>. QED
          BY <4>1, <5>1, <2>6, <2>7, <1>2
      <4>2. CASE h # f
        BY <4>2, <1>1, <1>6 DEF Pointers
      <4>. QED
        BY <4>1, <4>2
    <3>. QED
      BY <3>1 DEF Pointers
  <2>9. Kept(d, segs)
    <3>1. SUFFICES ASSUME segs # << >>, NEW h \in Frames, OwnUpTo(d.fr, Whole(segs), h)
                   PROVE  AgreeAt(d.fr, Whole(segs), h)
      BY DEF Kept
    <3>2. h \in Nat /\ \A i \in 0 .. h : i \in Frames
      BY LatticeSize
    <3>3. h < f
      <4>1. SUFFICES ASSUME f <= h PROVE FALSE
        BY <3>2, <1>2
      <4>2. f \in 0 .. h
        BY <4>1, <3>2, <1>2
      <4>3. d.fr[f].home = f
        BY <4>2, <3>1, <2>7 DEF OwnUpTo
      <4>. QED
        BY <4>3, <2>6, <1>2
    <3>4. \A i \in 0 .. h : d.fr[i] = c.fr[i]
      <4>1. \A i \in 0 .. h : i # f
        BY <3>2, <3>3, <1>2
      <4>. QED
        BY <4>1, <3>2, <1>6
    <3>5. OwnUpTo(c.fr, Whole(segs), h) /\ d.fr[h] = c.fr[h]
      <4>1. h \in 0 .. h
        BY <3>2
      <4>. QED
        BY <4>1, <3>1, <3>4 DEF OwnUpTo
    <3>. QED
      BY <3>1, <3>5, <1>1 DEF Kept, AgreeAt
  <2>10. LatticeInv(d, segs, str)
    BY <2>3, <2>4, <2>5, <2>8, <2>9, <1>1, <1>7 DEF LatticeInv
  <2>11. IsCancelled(d, c)
    <3>1. ASSUME NEW h \in Frames, isSyllableFrame(c.fr[h])
          PROVE  d.fr[h] = c.fr[h]
      BY <3>1, <2>2, <1>6
    <3>. QED
      BY <3>1, <1>7 DEF IsCancelled
  <2>. QED
    BY <2>10, <2>11, <1>3, <1>4
<1>. QED
  BY <1>8, <1>9

\* The frame a word that can be chosen ends at.
LEMMA ChoosableEnd ==
  ASSUME NEW c, NEW segs, NEW str, LatticeInv(c, segs, str), Len(str) \in Nat, Len(str) + 1 < MaxLattice,
         NEW w, Choosable(c, w)
  PROVE  w[2] \in Frames /\ w[2] \in Nat /\ w[2] <= LastFr(c) /\ w[2] # 0
<1>1. w[2] \in 1 .. LastFr(c) /\ 0 .. LastFr(c) \subseteq Frames /\ LastFr(c) \in Nat
  BY BeforeTail DEF Choosable
<1>. QED
  BY <1>1

\* cancelSelection, with or without a search.
LEMMA CancelledSearchInv ==
  ASSUME NEW c, NEW segs, NEW str, LatticeInv(c, segs, str), FitSegments(segs, Len(str)),
         EndsWith(segs, Len(str)), NEW f \in Frames, NEW r \in CancelledSearch(c, f)
  PROVE  /\ LatticeInv(r.ic, segs, str) /\ r.at \in Frames
         /\ \A w : Choosable(c, w) => Choosable(r.ic, w)
<1> DEFINE q == Cancelled(c, f)
<1>1. LatticeInv(q.ic, segs, str) /\ IsCancelled(q.ic, c) /\ q.at \in Frames
  BY CancelledInv
<1>2. \E x, y, z : q = [ic |-> x, at |-> y, found |-> z]
  BY DEF Cancelled
<1>3. Len(str) \in Nat /\ Len(str) + 1 < MaxLattice
  BY DEF FitSegments
<1>4. r = q \/ \E d \in Searched(q.ic) : r = [q EXCEPT !.ic = d]
  BY DEF CancelledSearch
<1> HIDE DEF q
<1>5. ASSUME NEW w, Choosable(c, w)
      PROVE  Choosable(q.ic, w)
  <2>1. w[2] \in Frames
    BY <1>3, <1>5, ChoosableEnd
  <2>. QED
    BY <2>1, <1>1, <1>5 DEF IsCancelled, Choosable, LastFr, isSyllableFrame, Starts
<1>6. CASE r = q
  BY <1>1, <1>5, <1>6
<1>7. CASE \E d \in Searched(q.ic) : r = [q EXCEPT !.ic = d]
  <2>1. PICK d \in Searched(q.ic) : r = [q EXCEPT !.ic = d]
    BY <1>7
  <2>2. r.ic = d /\ r.at = q.at
    BY <2>1, <1>2
  <2>3. LatticeInv(d, segs, str) /\ IsSearched(d, q.ic)
    BY <1>1, SearchedInv
  <2>4. ASSUME NEW w, Choosable(c, w)
        PROVE  Choosable(d, w)
    <3>1. Choosable(q.ic, w) /\ w[2] \in Frames
      BY <1>3, <1>5, <2>4, ChoosableEnd
    <3>. QED
      BY <2>3, <3>1, MarkedChoosable
  <2>. QED
    BY <2>2, <2>3, <2>4, <1>1
<1>. QED
  BY <1>4, <1>6, <1>7

\* One turn of the walk along path, at frame f.
CancelTurn(path, d, f) ==
  IF f \in path /\ "USER_SELECTED" \in d.fr[f].bw THEN Cancelled(d, f).ic ELSE d

\* Taking back every choice along the path, turn by turn.
LEMMA AllCancelledCourse ==
  ASSUME NEW c, NEW segs, NEW str, LatticeInv(c, segs, str), FitSegments(segs, Len(str)),
         EndsWith(segs, Len(str))
  PROVE  \E after :
           /\ after[0] = c
           /\ \A k \in 1 .. MaxLattice - 1 : after[k] = CancelTurn(c.path, after[k - 1], k)
           /\ AllCancelled(c) = after[MaxLattice - 1]
<1> DEFINE P == {d \in Context : LatticeInv(d, segs, str)}
           n == MaxLattice - 1
           Turn(d, f) == IF f \in c.path /\ "USER_SELECTED" \in d.fr[f].bw THEN Cancelled(d, f).ic ELSE d
           IsAfter(g) == g = [f \in Frames |->
             IF f = 0 THEN c
             ELSE LET d == g[f - 1]
                  IN IF f \in c.path /\ "USER_SELECTED" \in d.fr[f].bw THEN Cancelled(d, f).ic ELSE d]
<1>1. n \in Nat /\ Frames = 0 .. n /\ c \in P
  BY LatticeSize DEF LatticeInv
<1>2. ASSUME NEW f \in Frames, NEW d \in P
      PROVE  Turn(d, f) \in P
  <2>1. LatticeInv(Cancelled(d, f).ic, segs, str)
    BY CancelledInv
  <2>2. Cancelled(d, f).ic \in Context
    BY <2>1 DEF LatticeInv
  <2>. QED
    BY <2>1, <2>2
<1> HIDE DEF n, P
<1>3. \E g : IsAfter(g)
  <2> DEFINE F == [k \in 1 .. n |-> [d \in P |-> Turn(d, k)]]
  <2>1. F \in [1 .. n -> [P -> P]]
    <3>1. \A k \in 1 .. n : k \in Frames
      BY <1>1
    <3> HIDE DEF Turn
    <3>. QED
      BY <3>1, <1>2
  <2> HIDE DEF F
  <2>2. PICK g \in [0 .. n -> P] : IsCourse(g, c, F, n)
    BY <1>1, <2>1, Course
  <2>3. ASSUME NEW k \in 1 .. n
        PROVE  g[k] = Turn(g[k - 1], k)
    <3>1. k - 1 \in 0 .. n
      BY <1>1
    <3>2. g[k - 1] \in P /\ g[k] = F[k][g[k - 1]]
      BY <2>2, <3>1 DEF IsCourse
    <3> HIDE DEF Turn
    <3>. QED
      BY <3>2 DEF F
  <2>4. g[0] = c
    BY <2>2 DEF IsCourse
  <2>5. \A k \in 0 .. n : k = 0 \/ k \in 1 .. n
    BY <1>1
  <2>6. \A k \in 0 .. n : g[k] = IF k = 0 THEN c ELSE Turn(g[k - 1], k)
    BY <2>3, <2>4, <2>5
  <2>7. g = [k \in 0 .. n |-> IF k = 0 THEN c ELSE Turn(g[k - 1], k)]
    <3> HIDE DEF Turn
    <3>. QED
      BY <2>6
  <2>8. IsAfter(g)
    BY <2>7, <1>1
  <2>. QED
    BY <2>8
<1> DEFINE after == CHOOSE g : IsAfter(g)
<1>4. IsAfter(after)
  BY <1>3
<1>5. AllCancelled(c) = after[n]
  BY DEF AllCancelled, n
<1> HIDE DEF after
<1>6. after[0] = c /\ \A k \in 1 .. n : after[k] = CancelTurn(c.path, after[k - 1], k)
  <2>1. 0 \in Frames /\ \A k \in 1 .. n : k \in Frames /\ k # 0
    BY <1>1
  <2>. QED
    BY <2>1, <1>4 DEF CancelTurn
<1>. QED
  BY <1>5, <1>6 DEF n

\* Taking back every choice along the path keeps the invariant.
LEMMA AllCancelledInv ==
  ASSUME NEW c, NEW segs, NEW str, LatticeInv(c, segs, str), FitSegments(segs, Len(str)),
         EndsWith(segs, Len(str))
  PROVE  LatticeInv(AllCancelled(c), segs, str)
<1> DEFINE n == MaxLattice - 1
<1>1. n \in Nat /\ Frames = 0 .. n
  BY LatticeSize
<1>2. PICK after : /\ after[0] = c
                   /\ \A k \in 1 .. n : after[k] = CancelTurn(c.path, after[k - 1], k)
                   /\ AllCancelled(c) = after[n]
  BY AllCancelledCourse
<1> DEFINE Q == {k \in 0 .. n : LatticeInv(after[k], segs, str)}
<1>3. 0 \in Q
  BY <1>1, <1>2
<1>4. ASSUME NEW k \in 1 .. n, k - 1 \in Q
      PROVE  k \in Q
  <2>1. LatticeInv(after[k - 1], segs, str) /\ k \in Frames /\ k \in 0 .. n
    BY <1>1, <1>4
  <2>2. LatticeInv(Cancelled(after[k - 1], k).ic, segs, str)
    BY <2>1, CancelledInv
  <2>3. LatticeInv(CancelTurn(c.path, after[k - 1], k), segs, str)
    BY <2>1, <2>2 DEF CancelTurn
  <2>. QED
    BY <2>1, <2>3, <1>2
<1> HIDE DEF Q
<1>5. n \in Q
  <2>1. 0 .. n \subseteq Q
    BY <1>1, <1>3, <1>4, Stays
  <2>. QED
    BY <2>1, <1>1
<1>. QED
  BY <1>2, <1>5 DEF Q

-----------------------------------------------------------------------------
(* The calls a handler is made of.                                         *)

\* The words of C can be chosen in the lattice of c.
AllChoosable(c, C) == \A w \in C : Choosable(c, w)

\* What the invariant of the segmentor says of the segments and the lattice.
LEMMA SegmentsFit ==
  ASSUME NEW s \in Segmentor, Cuts(s.segs, s.str), Len(s.str) + 1 < MaxLattice
  PROVE  /\ FitSegments(s.segs, Len(s.str)) /\ EndsWith(s.segs, Len(s.str))
         /\ Len(s.str) \in Nat /\ s.updatedFrom \in Nat /\ s.segs \in Seq(Segment) /\ s.str \in Seq(Keys)
<1>1. s.segs \in Seq(Segment) /\ s.str \in Seq(Keys) /\ s.updatedFrom \in Nat
  BY DEF Segmentor
<1>2. Len(s.str) \in Nat
  BY <1>1
<1>. QED
  BY <1>1, <1>2, CutsFit, CutsEnd

\* rebuildFrom is one more than updatedFrom.
LEMMA RebuildFromOf ==
  ASSUME NEW s \in Segmentor, s.updatedFrom <= Len(s.str), Len(s.str) \in Nat, Len(s.str) + 1 < MaxLattice
  PROVE  RebuildFrom(s) = s.updatedFrom + 1
<1>1. s.updatedFrom \in Nat /\ MaxLattice \in Nat /\ MaxLattice <= UINT_MAX /\ UINT_MAX \in Nat
  BY LatticeSize DEF Segmentor, UINT_MAX
<1>2. s.updatedFrom # UINT_MAX
  BY <1>1
<1>. QED
  BY <1>2 DEF RebuildFrom

\* buildLattice keeps the invariant, and what may be chosen, listed again or not.
LEMMA BuiltInv ==
  ASSUME NEW a, NEW str, NEW c, LatticeInv(c, a, str), AllChoosable(c, candis),
         NEW s \in Segmentor, Cuts(s.segs, s.str), Len(s.str) + 1 < MaxLattice, s.updatedFrom <= Len(s.str),
         IsChanged(a, Len(str), s.segs, Len(s.str), s.updatedFrom),
         candiFr' \in Frames, NEW r \in Built(c, s)
  PROVE  LatticeInv(r.ic, s.segs, s.str) /\ AllChoosable(r.ic, r.candis)
<1> DEFINE u == s.updatedFrom
           n == Len(s.str)
           from == RebuildFrom(s)
           built == Relaid(c, s.segs, from)
<1>1. n \in Nat /\ u \in Nat /\ u <= n /\ from = u + 1 /\ n + 1 < MaxLattice
  BY SegmentsFit, RebuildFromOf
<1>2. LatticeInv(built, s.segs, s.str) /\ IsRelaid(built, c, u, n)
  BY <1>1, RelaidInv
<1>3. PICK d \in Searched(built), affects \in Affects(built, from) :
         r = IF affects THEN Listed(d) ELSE [ic |-> d, candis |-> candis]
  BY DEF Built
<1> HIDE DEF built
<1>4. LatticeInv(d, s.segs, s.str) /\ IsSearched(d, built)
  BY <1>2, SearchedInv
<1>5. CASE affects
  <2>1. candiFr' \in Nat
    BY LatticeSize
  <2>2. r.ic = WithCandidates(d, candiFr') /\ r.candis = Candidates(d, candiFr')
    BY <1>3, <1>5 DEF Listed
  <2>3. /\ LatticeInv(WithCandidates(d, candiFr'), s.segs, s.str)
        /\ \A w \in Candidates(d, candiFr') : Choosable(WithCandidates(d, candiFr'), w)
    BY <2>1, <1>1, <1>4, ListedInv
  <2>. QED
    BY <2>2, <2>3 DEF AllChoosable
<1>6. CASE ~ affects
  <2>1. ~ (from <= built.ends)
    BY <1>3, <1>6 DEF Affects
  <2>2. r.ic = d /\ r.candis = candis
    BY <1>3, <1>6
  <2>3. /\ built.ends = c.ends /\ c.ends \in Nat /\ c.ends <= u /\ built.tail = n + 1
    <3>1. built.ends = c.ends /\ built.tail = n + 1 /\ c.ends \in Nat
      BY <1>2, ContextFields DEF IsRelaid, IsContextWith, LatticeInv
    <3> HIDE DEF n, u, from
    <3>. QED
      BY <3>1, <2>1, <1>1
  <2>4. ASSUME NEW w \in candis
        PROVE  Choosable(d, w)
    <3>1. /\ w[2] \in 1 .. LastFr(c) /\ w[2] <= c.ends /\ isSyllableFrame(c.fr[w[2]])
          /\ w[1] \in Starts(c.fr[w[2]])
      BY DEF AllChoosable, Choosable
    <3>2. w[2] \in Nat /\ w[2] # 0
      <4>1. c.tail \in Nat
        BY ContextFields DEF LatticeInv
      <4>. QED
        BY <3>1, <4>1 DEF LastFr
    <3>3. w[2] <= u /\ w[2] \in Frames /\ w[2] \in 1 .. n
      <4> HIDE DEF u, n
      <4>. QED
        BY <3>1, <3>2, <2>3, <1>1, LatticeSize
    <3>4. built.fr[w[2]] = c.fr[w[2]]
      BY <3>3, <1>2 DEF IsRelaid
    <3>5. LastFr(built) = n
      BY <2>3, <1>1 DEF LastFr
    <3>6. Choosable(built, w)
      BY <3>1, <3>3, <3>4, <3>5, <2>3 DEF Choosable
    <3>. QED
      BY <3>3, <3>6, <1>4, MarkedChoosable
  <2>. QED
    BY <2>2, <2>4, <1>4 DEF AllChoosable
<1>. QED
  BY <1>5, <1>6

\* The segmentor s is what an edit makes of the one there is.
IsNext(s) == s \in Segmentor /\ s.str = s.buf /\ IsEdited(sg, s.str, s)

\* What it changes in the segments, where the lattice can be built.
LEMMA NextChanged ==
  ASSUME SegmentorInv, NEW c, NEW s, IsNext(s), BuildFault(c, s.str, RebuildFrom(s)) = "none"
  PROVE  /\ Cuts(s.segs, s.str) /\ s.updatedFrom <= Len(s.str)
         /\ Between(s.segs, s.updatedFrom)
         /\ Len(s.str) \in Nat /\ Len(s.str) + 1 < MaxLattice
         /\ IsChanged(sg.segs, Len(sg.str), s.segs, Len(s.str), s.updatedFrom)
         /\ RebuildFrom(s) = s.updatedFrom + 1 /\ ~ DeletesShared(c, s.updatedFrom + 1)
<1>1. /\ Cuts(s.segs, s.str) /\ s.updatedFrom <= Len(sg.str) /\ s.updatedFrom <= Len(s.str)
      /\ Between(s.segs, s.updatedFrom) /\ SameUpTo(s.segs, sg.segs, s.updatedFrom)
      /\ s \in Segmentor
  BY DEF IsNext, IsEdited
<1>2. Len(s.str) \in Nat /\ Len(s.str) + 1 < MaxLattice
  <2>1. Len(s.str) \in Nat
    BY <1>1 DEF Segmentor
  <2>2. ~ (Len(s.str) + 1 >= MaxLattice)
    BY DEF BuildFault
  <2>. QED
    BY <2>1, <2>2, LatticeSize
<1>3. IsChanged(sg.segs, Len(sg.str), s.segs, Len(s.str), s.updatedFrom)
  <2>1. /\ sg \in Segmentor /\ Cuts(sg.segs, sg.str) /\ Len(sg.str) + 1 < MaxLattice
    BY DEF SegmentorInv
  <2>2. FitSegments(sg.segs, Len(sg.str)) /\ EndsWith(sg.segs, Len(sg.str))
    BY <2>1, SegmentsFit
  <2>3. FitSegments(s.segs, Len(s.str)) /\ EndsWith(s.segs, Len(s.str)) /\ s.updatedFrom \in Nat
    BY <1>1, <1>2, SegmentsFit
  <2>. QED
    BY <2>2, <2>3, <1>1 DEF IsChanged
<1>4. RebuildFrom(s) = s.updatedFrom + 1
  BY <1>1, <1>2, RebuildFromOf
<1>5. ~ DeletesShared(c, s.updatedFrom + 1)
  BY <1>4 DEF BuildFault
<1>. QED
  BY <1>1, <1>2, <1>3, <1>4, <1>5

\* See Rebuild: it goes wrong and leaves the input, or keeps the invariant.
LEMMA RebuildInv ==
  ASSUME SegmentorInv, NEW c, LatticeInv(c, sg.segs, sg.str), AllChoosable(c, candis),
         candiFr' \in Frames, NEW s, Rebuild(c, s), sg' = s => IsNext(s)
  PROVE  \/ sg' = sg /\ fault' # "none"
         \/ /\ sg' = s /\ SegmentorInv' /\ IsNext(s)
            /\ LatticeInv(ic', sg'.segs, sg'.str) /\ AllChoosable(ic', candis')
<1> DEFINE broken == BuildFault(c, s.str, RebuildFrom(s))
<1>1. CASE broken # "none"
  BY <1>1 DEF Rebuild
<1>2. CASE broken = "none"
  <2>1. sg' = s /\ \E r \in Built(c, s) : ic' = r.ic /\ candis' = r.candis
    BY <1>2 DEF Rebuild
  <2>2. PICK r \in Built(c, s) : ic' = r.ic /\ candis' = r.candis
    BY <2>1
  <2>3. IsNext(s) /\ s \in Segmentor /\ s.str = s.buf
    BY <2>1 DEF IsNext
  <2>4. /\ Cuts(s.segs, s.str) /\ s.updatedFrom <= Len(s.str) /\ Between(s.segs, s.updatedFrom)
        /\ Len(s.str) \in Nat /\ Len(s.str) + 1 < MaxLattice
        /\ IsChanged(sg.segs, Len(sg.str), s.segs, Len(s.str), s.updatedFrom)
    BY <2>3, <1>2, NextChanged
  <2>5. LatticeInv(r.ic, s.segs, s.str) /\ AllChoosable(r.ic, r.candis)
    BY <2>3, <2>4, BuiltInv
  <2>6. SegmentorInv'
    BY <2>1, <2>3, <2>4 DEF SegmentorInv
  <2>. QED
    BY <2>1, <2>2, <2>3, <2>5, <2>6
<1>. QED
  BY <1>1, <1>2

\* The segments that are there cut the input as they did, from wherever it may be built again.
LEMMA Unchanged ==
  ASSUME SegmentorInv
  PROVE  /\ IsChanged(sg.segs, Len(sg.str), sg.segs, Len(sg.str), sg.updatedFrom)
         /\ IsChanged(sg.segs, Len(sg.str), sg.segs, Len(sg.str), 0)
         /\ IsNext(sg)
         /\ RebuildFrom(sg) = sg.updatedFrom + 1
         /\ FitSegments(sg.segs, Len(sg.str)) /\ EndsWith(sg.segs, Len(sg.str))
         /\ Len(sg.str) \in Nat /\ Len(sg.str) + 1 < MaxLattice /\ Len(sg.buf) = Len(sg.str)
<1>1. /\ sg \in Segmentor /\ sg.str = sg.buf /\ Cuts(sg.segs, sg.str) /\ sg.updatedFrom <= Len(sg.str)
      /\ Between(sg.segs, sg.updatedFrom) /\ Len(sg.str) + 1 < MaxLattice
  BY DEF SegmentorInv
<1>2. /\ FitSegments(sg.segs, Len(sg.str)) /\ EndsWith(sg.segs, Len(sg.str))
      /\ Len(sg.str) \in Nat /\ sg.updatedFrom \in Nat /\ DOMAIN sg.segs = 1 .. Len(sg.segs)
  BY <1>1, SegmentsFit
<1>3. SameUpTo(sg.segs, sg.segs, sg.updatedFrom) /\ SameUpTo(sg.segs, sg.segs, 0)
  BY DEF SameUpTo
<1>4. Between(sg.segs, 0)
  <2>1. \A k \in DOMAIN sg.segs : 0 <= sg.segs[k].start
    BY <1>2 DEF FitSegments
  <2>. QED
    BY <2>1 DEF Between
<1>5. IsEdited(sg, sg.str, sg)
  BY <1>1, <1>3 DEF IsEdited
<1>6. RebuildFrom(sg) = sg.updatedFrom + 1
  BY <1>1, <1>2, RebuildFromOf
<1>7. 0 \in Nat /\ 0 <= Len(sg.str)
  BY <1>2
<1>. QED
  BY <1>1, <1>2, <1>3, <1>4, <1>5, <1>6, <1>7 DEF IsChanged, IsNext

\* See RelaidAndListed.
LEMMA RelaidAndListedInv ==
  ASSUME SegmentorInv, NEW C, \A c \in C : LatticeInv(c, sg.segs, sg.str),
         NEW u, IsChanged(sg.segs, Len(sg.str), sg.segs, Len(sg.str), u),
         candiFr' \in Frames, RelaidAndListed(C, u + 1)
  PROVE  \/ fault' # "none"
         \/ LatticeInv(ic', sg.segs, sg.str) /\ AllChoosable(ic', candis')
<1>1. PICK c \in C :
    IF DeletesShared(c, u + 1) THEN fault' = "double delete" /\ UNCHANGED <<ic, candis>>
    ELSE /\ \E d \in Searched(Relaid(c, sg.segs, u + 1)) :
              ic' = Listed(d).ic /\ candis' = Listed(d).candis
         /\ UNCHANGED fault
  BY DEF RelaidAndListed
<1>2. CASE DeletesShared(c, u + 1)
  BY <1>1, <1>2
<1>3. CASE ~ DeletesShared(c, u + 1)
  <2>1. PICK d \in Searched(Relaid(c, sg.segs, u + 1)) :
              ic' = Listed(d).ic /\ candis' = Listed(d).candis
    BY <1>1, <1>3
  <2>2. LatticeInv(Relaid(c, sg.segs, u + 1), sg.segs, sg.str)
    BY RelaidInv
  <2>3. LatticeInv(d, sg.segs, sg.str)
    BY <2>2, SearchedInv
  <2>4. Len(sg.str) \in Nat /\ Len(sg.str) + 1 < MaxLattice /\ candiFr' \in Nat
    BY Unchanged, LatticeSize
  <2>5. /\ LatticeInv(WithCandidates(d, candiFr'), sg.segs, sg.str)
        /\ \A w \in Candidates(d, candiFr') : Choosable(WithCandidates(d, candiFr'), w)
    BY <2>3, <2>4, ListedInv
  <2>. QED
    BY <2>1, <2>5 DEF Listed, AllChoosable
<1>. QED
  BY <1>2, <1>3

-----------------------------------------------------------------------------
(* The keys.                                                               *)

\* What the invariant says while the program runs.
LEMMA ViewFacts ==
  ASSUME ViewInv, Running
  PROVE  /\ SegmentorInv /\ LatticeInv(ic, sg.segs, sg.str) /\ AllChoosable(ic, candis)
         /\ cursor \in 0 .. LastFr(ic) /\ candiFr \in Frames
         /\ sg \in Segmentor /\ Cuts(sg.segs, sg.str) /\ sg.str = sg.buf
         /\ LastFr(ic) = Len(sg.str) /\ ic.tail = Len(sg.str) + 1
         /\ Len(sg.str) \in Nat /\ Len(sg.str) + 1 < MaxLattice /\ Len(sg.str) + 1 < UINT_MAX
         /\ cursor \in Nat /\ cursor <= Len(sg.str)
         /\ (~ isEmpty => Len(sg.str) > 0 /\ sg.str # << >>)
<1>1. /\ SegmentorInv /\ LatticeInv(ic, sg.segs, sg.str) /\ AllChoosable(ic, candis)
      /\ cursor \in 0 .. LastFr(ic) /\ candiFr \in Frames
      /\ sg \in Segmentor /\ Cuts(sg.segs, sg.str) /\ sg.str = sg.buf
      /\ Len(sg.str) + 1 < MaxLattice /\ ic.tail = Len(sg.str) + 1
  BY DEF ViewInv, AllChoosable, SegmentorInv, LatticeInv
<1>2. Len(sg.str) \in Nat
  BY <1>1, Unchanged
<1>3. LastFr(ic) = Len(sg.str) /\ cursor \in Nat /\ cursor <= Len(sg.str)
  BY <1>1, <1>2 DEF LastFr
<1>4. Len(sg.str) + 1 < UINT_MAX
  BY <1>1, <1>2, LatticeSize DEF UINT_MAX
<1>5. ~ isEmpty => Len(sg.str) > 0
  BY <1>1, <1>2 DEF isEmpty
<1>6. sg.str = << >> => Len(sg.str) = 0
  OBVIOUS
<1>. QED
  BY <1>1, <1>2, <1>3, <1>4, <1>5, <1>6

\* When the invariant holds after a step.
LEMMA ViewAfter ==
  ASSUME SegmentorInv',
         \/ fault' # "none"
         \/ /\ LatticeInv(ic', sg'.segs, sg'.str) /\ AllChoosable(ic', candis')
            /\ cursor' \in 0 .. LastFr(ic') /\ candiFr' \in Frames
  PROVE  ViewInv'
BY DEF ViewInv, AllChoosable, Running

\* When it holds after a step that leaves the input.
LEMMA ViewSameInput ==
  ASSUME ViewInv, Running, sg' = sg,
         \/ fault' # "none"
         \/ /\ LatticeInv(ic', sg.segs, sg.str) /\ AllChoosable(ic', candis')
            /\ cursor' \in 0 .. LastFr(ic) /\ candiFr' \in Frames
  PROVE  ViewInv'
<1>1. SegmentorInv /\ LastFr(ic) = Len(sg.str) /\ Len(sg.str) \in Nat
  BY ViewFacts
<1>2. SegmentorInv'
  BY <1>1 DEF SegmentorInv
<1>3. LatticeInv(ic', sg.segs, sg.str) => LastFr(ic') = LastFr(ic)
  BY <1>1 DEF LatticeInv, LastFr
<1>. QED
  BY <1>2, <1>3, ViewAfter

\* What clearing the input leaves of the lattice.
LEMMA ClearedContext ==
  ASSUME NEW c \in Context, ClearBehind(c), FirstFrame(c), NEW d,
         d = [ClearedFrom(c, 1) EXCEPT !.tail = 1, !.path = {}, !.starts = 0, !.ends = 0]
  PROVE  /\ d \in Context /\ d.tail = 1 /\ d.path = {} /\ FirstFrame(d) /\ d.fr[0] = c.fr[0]
         /\ \A f \in Frames : f # 0 => Blank(d.fr, f)
<1> DEFINE e == ClearedFrom(c, 1)
<1>1. /\ IsContextWith(e, c, c.tail) /\ BlankAbove(e.fr, 0)
      /\ \A f \in Frames : f <= 0 => e.fr[f] = c.fr[f]
  <2>1. 0 + 1 = 1 /\ 0 \in Nat
    OBVIOUS
  <2>. QED
    BY <2>1, ClearedLaid
<1> HIDE DEF e
<1>2. e \in Context
  BY <1>1 DEF IsContextWith
<1>3. d = [fr |-> e.fr, tail |-> 1, path |-> {}, starts |-> 0, ends |-> 0]
  <2>1. e = [fr |-> e.fr, tail |-> e.tail, path |-> e.path, starts |-> e.starts, ends |-> e.ends]
    BY <1>2, ContextFields
  <2> DEFINE e1 == [e EXCEPT !.tail = 1]
             e2 == [e1 EXCEPT !.path = {}]
             e3 == [e2 EXCEPT !.starts = 0]
  <2>2. e1 = [fr |-> e.fr, tail |-> 1, path |-> e.path, starts |-> e.starts, ends |-> e.ends]
    BY <2>1
  <2>3. d = [e3 EXCEPT !.ends = 0]
    BY DEF e
  <2> HIDE DEF e1
  <2>4. e2 = [fr |-> e.fr, tail |-> 1, path |-> {}, starts |-> e.starts, ends |-> e.ends]
    BY <2>2
  <2> HIDE DEF e2
  <2>5. e3 = [fr |-> e.fr, tail |-> 1, path |-> {}, starts |-> 0, ends |-> e.ends]
    BY <2>4
  <2> HIDE DEF e3
  <2>. QED
    BY <2>3, <2>5
<1>4. d \in Context /\ d.tail = 1 /\ d.path = {} /\ d.fr = e.fr
  <2>1. e.fr \in [Frames -> Frame] /\ {} \in SUBSET (Nat \ {0})
    BY <1>2, ContextFields
  <2> DEFINE g == [fr |-> e.fr, tail |-> 1, path |-> {}, starts |-> 0, ends |-> 0]
  <2>2. g \in Context /\ g.tail = 1 /\ g.path = {} /\ g.fr = e.fr
    BY <2>1 DEF Context
  <2>3. d = g
    BY <1>3
  <2> HIDE DEF g
  <2>. QED
    BY <2>2, <2>3, Zenon
<1>5. \A f \in Frames : f # 0 => Blank(d.fr, f)
  BY <1>1, <1>4, LatticeSize DEF BlankAbove
<1>6. FirstFrame(d) /\ d.fr[0] = c.fr[0]
  BY <1>1, <1>4, LatticeSize DEF FirstFrame
<1>. QED
  BY <1>4, <1>5, <1>6

\* Clearing the input leaves an empty lattice.
LEMMA ClearICView ==
  ASSUME ViewInv, Running, ClearIC
  PROVE  ViewInv'
<1>1. CASE DeletesShared(ic, 1)
  <2>1. sg' = sg /\ fault' # "none"
    BY <1>1 DEF ClearIC
  <2>. QED
    BY <2>1, ViewSameInput
<1>2. CASE ~ DeletesShared(ic, 1)
  <2> DEFINE d == [ClearedFrom(ic, 1) EXCEPT !.tail = 1, !.path = {}, !.starts = 0, !.ends = 0]
  <2>1. sg' = Cleared /\ ic' = d /\ cursor' = 0 /\ candiFr' = 0 /\ candis' = {}
    BY <1>2 DEF ClearIC
  <2>2. ic \in Context /\ ClearBehind(ic) /\ FirstFrame(ic)
    BY ViewFacts DEF LatticeInv
  <2>6. d \in Context /\ d.tail = 1 /\ FirstFrame(d) /\ \A f \in Frames : f # 0 => Blank(d.fr, f)
    BY <2>2, ClearedContext
  <2> HIDE DEF d
  <2>9. ClearBehind(d)
    <3>1. \A f \in Frames : (f > 1 => f # 0) /\ (f >= 1 => f # 0)
      BY LatticeSize
    <3>. QED
      BY <3>1, <2>6 DEF ClearBehind, BlankAbove, Blank
  <2>10. MarksFit(d)
    <3>1. ASSUME NEW f \in Frames
          PROVE  ~ isSyllableFrame(d.fr[f])
      <4>1. d.fr[f].type = "unused"
        BY <2>6 DEF Blank, FirstFrame
      <4>. QED
        BY <4>1 DEF isSyllableFrame
    <3>. QED
      BY <3>1 DEF MarksFit
  <2>11. Pointers(d, << >>)
    <3>1. FitSegments(<< >>, 0) /\ EndsWith(<< >>, 0)
      <4>1. << >> \in Seq(Segment) /\ Len(<< >>) = 0 /\ 0 + 1 < MaxLattice
        BY LatticeSize
      <4>. QED
        BY <4>1 DEF FitSegments, EndsWith
    <3>2. ASSUME NEW f \in Frames
          PROVE  d.fr[f].home <= f /\ Whole(<< >>)[f].type # "sep"
      <4>1. d.fr[f].home = f
        BY <2>6 DEF Blank, FirstFrame
      <4>2. f \in Nat
        BY LatticeSize
      <4>3. Whole(<< >>)[f].type # "sep"
        <5>1. ~ \E i \in 1 .. Len(<< >>) : End(<< >>[i]) = f /\ << >>[i].type = "sep"
          OBVIOUS
        <5>. QED
          BY <5>1, <3>1, WholeFrames
      <4>. QED
        BY <4>1, <4>2, <4>3
    <3>. QED
      BY <3>2 DEF Pointers
  <2>12. LatticeInv(d, << >>, << >>)
    <3>1. Kept(d, << >>)
      BY DEF Kept
    <3>2. d.tail = Len(<< >>) + 1
      BY <2>6
    <3>. QED
      BY <3>1, <3>2, <2>6, <2>9, <2>10, <2>11 DEF LatticeInv
  <2>13. sg'.segs = << >> /\ sg'.str = << >> /\ sg'.buf = << >> /\ sg'.updatedFrom = 0
    BY <2>1 DEF Cleared
  <2>14. SegmentorInv'
    <3>1. sg' \in Segmentor
      BY <2>1 DEF Cleared, Segmentor
    <3>2. Cuts(<< >>, << >>) /\ Between(<< >>, 0)
      BY DEF Cuts, Between
    <3>3. Len(<< >>) = 0 /\ 0 + 1 < MaxLattice /\ 0 <= 0
      BY LatticeSize
    <3>. QED
      BY <3>1, <3>2, <3>3, <2>13 DEF SegmentorInv
  <2>15. AllChoosable(ic', candis')
    BY <2>1 DEF AllChoosable
  <2>16. cursor' \in 0 .. LastFr(ic') /\ candiFr' \in Frames
    BY <2>1, <2>6, LatticeSize DEF LastFr
  <2>. QED
    BY <2>1, <2>12, <2>13, <2>14, <2>15, <2>16, ViewAfter
<1>. QED
  BY <1>1, <1>2

\* What a key that is typed makes of the segmentor.
LEMMA InsertNext ==
  ASSUME ViewInv, Running, NEW ch \in Keys, Len(sg'.buf) < LenModulus,
         NEW s, s = IF cursor = LastFr(ic) THEN Pushed(sg, ch) ELSE InsertedAt(sg, cursor, ch), sg' = s
  PROVE  IsNext(s) /\ Len(s.str) = Len(sg.str) + 1
<1>1. CASE cursor = LastFr(ic)
  <2>1. s = Pushed(sg, ch)
    BY <1>1
  <2>2. Len(Pushed(sg, ch).buf) < LenModulus
    BY <2>1
  <2>3. IsEdited(sg, s.buf, s) /\ Len(s.buf) = Len(sg.buf) + 1
    BY <2>1, <2>2, ViewFacts, PushedCuts
  <2>. QED
    BY <2>3, ViewFacts DEF IsEdited, IsNext
<1>2. CASE cursor # LastFr(ic)
  <2>1. s = InsertedAt(sg, cursor, ch)
    BY <1>2
  <2>2. Len(InsertedAt(sg, cursor, ch).buf) < LenModulus
    BY <2>1
  <2>3. cursor \in 0 .. Len(sg.str)
    BY ViewFacts
  <2>4. IsEdited(sg, s.buf, s) /\ Len(s.buf) = Len(sg.buf) + 1
    BY <2>1, <2>2, <2>3, ViewFacts, InsertedCuts
  <2>. QED
    BY <2>4, ViewFacts DEF IsEdited, IsNext
<1>. QED
  BY <1>1, <1>2

\* A key is typed.
LEMMA InsertView ==
  ASSUME ViewInv, NEW ch \in Keys, Len(sg'.buf) < LenModulus, Insert(ch)
  PROVE  ViewInv'
<1> DEFINE s == IF cursor = LastFr(ic) THEN Pushed(sg, ch) ELSE InsertedAt(sg, cursor, ch)
<1>1. Running /\ cursor' = cursor + 1 /\ candiFr' = candiFr /\ Rebuild(ic, s)
  BY DEF Insert
<1>2. sg' = s => IsNext(s) /\ Len(s.str) = Len(sg.str) + 1
  BY <1>1, InsertNext
<1> HIDE DEF s
<1>3. \/ sg' = sg /\ fault' # "none"
      \/ /\ sg' = s /\ SegmentorInv' /\ LatticeInv(ic', sg'.segs, sg'.str) /\ AllChoosable(ic', candis')
  BY <1>1, <1>2, ViewFacts, RebuildInv
<1>4. CASE sg' = sg /\ fault' # "none"
  BY <1>1, <1>4, ViewSameInput
<1>5. CASE /\ sg' = s /\ SegmentorInv' /\ LatticeInv(ic', sg'.segs, sg'.str) /\ AllChoosable(ic', candis')
  <2>1. ic'.tail = Len(sg.str) + 2
    <3>1. ic'.tail = Len(s.str) + 1 /\ Len(s.str) = Len(sg.str) + 1 /\ Len(sg.str) \in Nat
      BY <1>1, <1>2, <1>5, ViewFacts DEF LatticeInv
    <3>. QED
      BY <3>1
  <2>2. cursor' \in 0 .. LastFr(ic')
    <3>1. cursor \in Nat /\ cursor <= Len(sg.str) /\ Len(sg.str) \in Nat
      BY <1>1, ViewFacts
    <3>. QED
      BY <2>1, <3>1, <1>1 DEF LastFr
  <2>. QED
    BY <2>2, <1>1, <1>5, ViewFacts, ViewAfter
<1>. QED
  BY <1>3, <1>4, <1>5

\* What both keys that delete make of the segmentor.
LEMMA ShortenedNext ==
  ASSUME ViewInv, Running, ~ isEmpty, NEW s,
         s = Popped(sg) \/ \E idx \in Nat : idx < Len(sg.str) - 1 /\ s = DeletedAt(sg, idx),
         Len(sg.buf) < LenModulus
  PROVE  IsNext(s) /\ Len(s.str) = Len(sg.str) - 1
<1>1. Len(sg.str) < LenModulus /\ Len(sg.str) < UINT_MAX /\ sg.str # << >>
  <2>1. Len(sg.str) \in Nat /\ Len(sg.str) + 1 < UINT_MAX /\ UINT_MAX \in Nat
    BY ViewFacts DEF UINT_MAX
  <2>2. Len(sg.str) < UINT_MAX
    BY <2>1
  <2>. QED
    BY <2>2, ViewFacts
<1>2. CASE s = Popped(sg)
  <2>1. IsEdited(sg, s.buf, s) /\ Len(s.buf) = Len(sg.buf) - 1
    BY <1>1, <1>2, ViewFacts, PoppedCuts
  <2>. QED
    BY <2>1, ViewFacts DEF IsEdited, IsNext
<1>3. CASE \E idx \in Nat : idx < Len(sg.str) - 1 /\ s = DeletedAt(sg, idx)
  <2>1. PICK idx \in Nat : idx < Len(sg.str) - 1 /\ s = DeletedAt(sg, idx)
    BY <1>3
  <2>2. IsEdited(sg, s.buf, s) /\ Len(s.buf) = Len(sg.buf) - 1
    BY <1>1, <2>1, ViewFacts, DeletedCuts
  <2>. QED
    BY <2>2, ViewFacts DEF IsEdited, IsNext
<1>. QED
  BY <1>2, <1>3

\* What both keys that delete do to the input.
LEMMA ShortenedView ==
  ASSUME ViewInv, Running, ~ isEmpty, NEW s,
         s = Popped(sg) \/ \E idx \in Nat : idx < Len(sg.str) - 1 /\ s = DeletedAt(sg, idx),
         Len(sg.buf) < LenModulus, Rebuild(ic, s), candiFr' = candiFr,
         cursor' \in Nat, cursor' <= Len(sg.str) - 1
  PROVE  ViewInv'
<1>1. IsNext(s) /\ Len(s.str) = Len(sg.str) - 1
  BY ShortenedNext
<1>2. \/ sg' = sg /\ fault' # "none"
      \/ /\ sg' = s /\ SegmentorInv' /\ LatticeInv(ic', sg'.segs, sg'.str) /\ AllChoosable(ic', candis')
  BY <1>1, ViewFacts, RebuildInv
<1>3. CASE sg' = sg /\ fault' # "none"
  BY <1>3, ViewSameInput
<1>4. CASE /\ sg' = s /\ SegmentorInv' /\ LatticeInv(ic', sg'.segs, sg'.str) /\ AllChoosable(ic', candis')
  <2>1. ic'.tail = (Len(sg.str) - 1) + 1
    BY <1>1, <1>4 DEF LatticeInv
  <2>2. cursor' \in 0 .. LastFr(ic')
    <3>1. Len(sg.str) \in Nat
      BY ViewFacts
    <3>. QED
      BY <2>1, <3>1 DEF LastFr
  <2>. QED
    BY <2>2, <1>4, ViewFacts, ViewAfter
<1>. QED
  BY <1>2, <1>3, <1>4

\* The key before the caret is deleted, or the last choice taken back.
LEMMA BackspaceView ==
  ASSUME ViewInv, Len(sg.buf) < LenModulus, Backspace
  PROVE  ViewInv'
<1>1. Running /\ ~ isEmpty
  BY DEF Backspace
<1>2. CASE candiFr > 0
  <2>1. PICK r \in CancelledSearch(ic, candiFr) :
            /\ candiFr' = r.at
            /\ Rebuild(r.ic, sg)
            /\ cursor' = cursor
    BY <1>2 DEF Backspace
  <2>2. /\ LatticeInv(r.ic, sg.segs, sg.str) /\ r.at \in Frames
        /\ \A w : Choosable(ic, w) => Choosable(r.ic, w)
    BY <1>1, ViewFacts, Unchanged, CancelledSearchInv
  <2>3. AllChoosable(r.ic, candis)
    BY <2>2, <1>1, ViewFacts DEF AllChoosable
  <2>4. \/ sg' = sg /\ fault' # "none"
        \/ sg' = sg /\ LatticeInv(ic', sg'.segs, sg'.str) /\ AllChoosable(ic', candis')
    BY <2>1, <2>2, <2>3, <1>1, ViewFacts, Unchanged, RebuildInv
  <2>. QED
    BY <2>1, <2>2, <2>4, <1>1, ViewFacts, ViewSameInput
<1>3. CASE ~ (candiFr > 0)
  <2> DEFINE s == IF cursor = LastFr(ic) THEN Popped(sg) ELSE DeletedAt(sg, cursor - 1)
  <2>1. cursor > 0 /\ cursor' = cursor - 1 /\ candiFr' = candiFr /\ Rebuild(ic, s)
    BY <1>3 DEF Backspace
  <2>2. /\ cursor \in Nat /\ cursor <= Len(sg.str) /\ Len(sg.str) \in Nat /\ LastFr(ic) = Len(sg.str)
    BY <1>1, ViewFacts
  <2>3. cursor' \in Nat /\ cursor' <= Len(sg.str) - 1
    BY <2>1, <2>2
  <2>4. s = Popped(sg) \/ \E idx \in Nat : idx < Len(sg.str) - 1 /\ s = DeletedAt(sg, idx)
    <3>1. cursor # LastFr(ic) => cursor - 1 \in Nat /\ cursor - 1 < Len(sg.str) - 1
      BY <2>1, <2>2
    <3>. QED
      BY <3>1
  <2> HIDE DEF s
  <2>. QED
    BY <2>1, <2>3, <2>4, <1>1, ShortenedView
<1>. QED
  BY <1>2, <1>3

\* The key after the caret is deleted.
LEMMA DeleteView ==
  ASSUME ViewInv, Len(sg.buf) < LenModulus, Delete
  PROVE  ViewInv'
<1> DEFINE s == IF cursor = LastFr(ic) - 1 THEN Popped(sg) ELSE DeletedAt(sg, cursor)
<1>1. /\ Running /\ ~ isEmpty /\ cursor < LastFr(ic)
      /\ cursor' = cursor /\ candiFr' = candiFr /\ Rebuild(ic, s)
  BY DEF Delete
<1>2. /\ cursor \in Nat /\ cursor <= Len(sg.str) /\ Len(sg.str) \in Nat /\ LastFr(ic) = Len(sg.str)
  BY <1>1, ViewFacts
<1>3. cursor' \in Nat /\ cursor' <= Len(sg.str) - 1
  BY <1>1, <1>2
<1>4. s = Popped(sg) \/ \E idx \in Nat : idx < Len(sg.str) - 1 /\ s = DeletedAt(sg, idx)
  <2>1. cursor # LastFr(ic) - 1 => cursor < Len(sg.str) - 1
    BY <1>1, <1>2
  <2>. QED
    BY <2>1, <1>2
<1> HIDE DEF s
<1>. QED
  BY <1>1, <1>3, <1>4, ShortenedView

\* Listing the candidates of a lattice that satisfies the invariant.
LEMMA ListView ==
  ASSUME ViewInv, Running, NEW c, LatticeInv(c, sg.segs, sg.str), candiFr' \in Frames, List(c)
  PROVE  LatticeInv(ic', sg.segs, sg.str) /\ AllChoosable(ic', candis')
<1>1. Len(sg.str) \in Nat /\ Len(sg.str) + 1 < MaxLattice /\ candiFr' \in Nat
  BY ViewFacts, LatticeSize
<1>2. /\ LatticeInv(WithCandidates(c, candiFr'), sg.segs, sg.str)
      /\ \A w \in Candidates(c, candiFr') : Choosable(WithCandidates(c, candiFr'), w)
  BY <1>1, ListedInv
<1>. QED
  BY <1>2 DEF List, Listed, AllChoosable

\* See StepBack.
LEMMA StepBackView ==
  ASSUME ViewInv, Running, StepBack
  PROVE  LatticeInv(ic', sg.segs, sg.str) /\ AllChoosable(ic', candis') /\ candiFr' \in Frames
<1>1. CASE cursor = candiFr
  <2>1. PICK r \in CancelledSearch(ic, candiFr) : candiFr' = r.at /\ List(r.ic)
    BY <1>1 DEF StepBack
  <2>2. LatticeInv(r.ic, sg.segs, sg.str) /\ r.at \in Frames
    BY ViewFacts, Unchanged, CancelledSearchInv
  <2>. QED
    BY <2>1, <2>2, ListView
<1>2. CASE cursor # candiFr
  <2>1. candiFr' = candiFr /\ ic' = ic /\ candis' = candis
    BY <1>2 DEF StepBack
  <2>. QED
    BY <2>1, ViewFacts
<1>. QED
  BY <1>1, <1>2

\* The caret moves to the left.
LEMMA MoveLeftView ==
  ASSUME ViewInv, MoveLeft
  PROVE  ViewInv'
<1>1. Running /\ ~ isEmpty /\ sg' = sg
  BY DEF MoveLeft
<1>2. cursor \in Nat /\ cursor <= Len(sg.str) /\ Len(sg.str) \in Nat /\ LastFr(ic) = Len(sg.str)
  BY <1>1, ViewFacts
<1>3. CASE cursor = 0
  <2>1. cursor' = LastFr(ic) /\ candiFr' = candiFr /\ ic' = ic /\ candis' = candis
    BY <1>3 DEF MoveLeft
  <2>2. cursor' \in 0 .. LastFr(ic)
    BY <2>1, <1>2
  <2>. QED
    BY <2>1, <2>2, <1>1, ViewFacts, ViewSameInput
<1>4. CASE cursor # 0
  <2>1. cursor' = cursor - 1 /\ StepBack
    BY <1>4 DEF MoveLeft
  <2>2. cursor' \in 0 .. LastFr(ic)
    BY <2>1, <1>2, <1>4
  <2>. QED
    BY <2>1, <2>2, <1>1, StepBackView, ViewSameInput
<1>. QED
  BY <1>3, <1>4

\* Where segments begin and end.
SegEnds(segs) ==
  {segs[k].start : k \in DOMAIN segs} \cup {End(segs[k]) : k \in DOMAIN segs}
    \cup {segs[k].start + 1 : k \in DOMAIN segs}

\* See SegEnds.
LEMMA SegEndsBounds ==
  ASSUME NEW segs, NEW n, FitSegments(segs, n)
  PROVE  SegEnds(segs) \in SUBSET Nat /\ \A p \in SegEnds(segs) : p <= n
<1>1. ASSUME NEW k \in DOMAIN segs
      PROVE  /\ segs[k].start \in Nat /\ End(segs[k]) \in Nat /\ segs[k].start + 1 \in Nat
             /\ segs[k].start <= n /\ End(segs[k]) <= n /\ segs[k].start + 1 <= n
  <2>1. /\ segs[k].start \in Nat /\ End(segs[k]) \in Nat /\ n \in Nat
        /\ segs[k].start < End(segs[k]) /\ End(segs[k]) <= n
    <3>1. k \in 1 .. Len(segs)
      BY DEF FitSegments
    <3>. QED
      BY <3>1 DEF FitSegments
  <2>. QED
    BY <2>1
<1>. QED
  BY <1>1 DEF SegEnds

\* The segment path is made of them.
LEMMA SegPathEnds ==
  ASSUME ViewInv, Running, sg' = sg
  PROVE  /\ SegPath \in SUBSET Nat /\ \A p \in SegPath : p <= LastFr(ic)
         /\ SegPath' \in SUBSET Nat /\ \A p \in SegPath' : p <= LastFr(ic)
<1>1. SegEnds(sg.segs) \in SUBSET Nat /\ \A p \in SegEnds(sg.segs) : p <= Len(sg.str)
  BY ViewFacts, Unchanged, SegEndsBounds
<1>2. LastFr(ic) = Len(sg.str)
  BY ViewFacts
<1>3. SegPath \subseteq SegEnds(sg.segs)
  BY DEF SegPath, SegEnds
<1>4. SegPath' \subseteq SegEnds(sg.segs)
  BY DEF SegPath, SegEnds
<1>. QED
  BY <1>1, <1>2, <1>3, <1>4

\* The caret moves to the left by a syllable.
LEMMA MoveLeftSyllableView ==
  ASSUME ViewInv, MoveLeftSyllable
  PROVE  ViewInv'
<1>1. Running /\ ~ isEmpty /\ sg' = sg
  BY DEF MoveLeftSyllable
<1>2. cursor \in Nat /\ cursor <= Len(sg.str) /\ Len(sg.str) \in Nat /\ LastFr(ic) = Len(sg.str)
  BY <1>1, ViewFacts
<1>3. CASE cursor = 0
  <2>1. cursor' = LastFr(ic) /\ candiFr' = candiFr /\ ic' = ic /\ candis' = candis
    BY <1>3 DEF MoveLeftSyllable
  <2>2. cursor' \in 0 .. LastFr(ic)
    BY <2>1, <1>2
  <2>. QED
    BY <2>1, <2>2, <1>1, ViewFacts, ViewSameInput
<1>4. CASE cursor # 0
  <2> DEFINE upTo == {p \in SegPath' : p < cursor}
  <2>1. StepBack /\ IF upTo = {} THEN fault' = "past the end" /\ UNCHANGED cursor
                    ELSE cursor' = Max(upTo) /\ UNCHANGED fault
    BY <1>4 DEF MoveLeftSyllable
  <2>2. upTo \in SUBSET Nat /\ \A p \in upTo : p <= cursor
    <3>1. \A p \in SegPath' : p \in Nat
      BY <1>1, SegPathEnds
    <3>2. \A p \in upTo : p \in Nat /\ p < cursor
      BY <3>1
    <3> HIDE DEF upTo
    <3>. QED
      BY <3>2, <1>2
  <2> HIDE DEF upTo
  <2>3. CASE upTo = {}
    <3>1. fault' # "none"
      BY <2>1, <2>3
    <3>. QED
      BY <3>1, <1>1, ViewSameInput
  <2>4. CASE upTo # {}
    <3>1. cursor' = Max(upTo)
      BY <2>1, <2>4
    <3>2. Max(upTo) \in upTo
      BY <2>2, <2>4, <1>2, GreatestNumber
    <3>3. cursor' \in Nat /\ cursor' <= cursor
      BY <3>1, <3>2, <2>2
    <3>4. cursor' \in 0 .. LastFr(ic)
      BY <3>3, <1>2
    <3>. QED
      BY <3>4, <2>1, <1>1, StepBackView, ViewSameInput
  <2>. QED
    BY <2>3, <2>4
<1>. QED
  BY <1>3, <1>4

\* See ToHome.
LEMMA ToHomeView ==
  ASSUME ViewInv, Running, sg' = sg, ToHome
  PROVE  ViewInv'
<1>1. Len(sg.str) \in Nat /\ Len(sg.str) + 1 < MaxLattice /\ LastFr(ic) = Len(sg.str) /\ 0 \in Frames
      /\ LatticeInv(ic, sg.segs, sg.str) /\ AllChoosable(ic, candis) /\ candiFr \in Frames
  BY ViewFacts, LatticeSize
<1>2. CASE candiFr = 0
  <2>1. cursor' = 0 /\ candiFr' = candiFr /\ ic' = ic /\ candis' = candis
    BY <1>2 DEF ToHome
  <2>2. cursor' \in 0 .. LastFr(ic)
    BY <2>1, <1>1
  <2>. QED
    BY <2>1, <2>2, <1>1, ViewSameInput
<1>3. CASE candiFr # 0 /\ ic.path = {}
  <2>1. fault' # "none"
    BY <1>3 DEF ToHome
  <2>. QED
    BY <2>1, ViewSameInput
<1>4. CASE candiFr # 0 /\ ic.path # {}
  <2> DEFINE c == AllCancelled(ic)
             e == WithCandidates(c, 0)
  <2>1. /\ cursor' = 0 /\ candiFr' = 0 /\ candis' = Candidates(c, 0)
        /\ \E d \in Searched(e) : ic' = d
    BY <1>4 DEF ToHome
  <2>2. LatticeInv(c, sg.segs, sg.str)
    BY <1>1, ViewFacts, Unchanged, AllCancelledInv
  <2> HIDE DEF c
  <2>3. /\ LatticeInv(e, sg.segs, sg.str)
        /\ \A w \in Candidates(c, 0) : Choosable(e, w)
    BY <2>2, <1>1, ListedInv
  <2> HIDE DEF e
  <2>4. ic' \in Searched(e)
    BY <2>1
  <2>5. LatticeInv(ic', sg.segs, sg.str) /\ IsSearched(ic', e)
    BY <2>3, <2>4, SearchedInv
  <2>6. ASSUME NEW w \in candis'
        PROVE  Choosable(ic', w)
    <3>1. Choosable(e, w)
      BY <2>1, <2>3
    <3>2. w[2] \in Frames
      BY <3>1, <2>3, <1>1, ChoosableEnd
    <3>. QED
      BY <3>1, <3>2, <2>5, MarkedChoosable
  <2>7. cursor' \in 0 .. LastFr(ic)
    BY <2>1, <1>1
  <2>8. AllChoosable(ic', candis')
    BY <2>6 DEF AllChoosable
  <2>. QED
    BY <2>1, <2>5, <2>7, <2>8, <1>1, ViewSameInput
<1>. QED
  BY <1>2, <1>3, <1>4

\* The caret moves to the start, to the right, to the end.
LEMMA MoveRightView ==
  ASSUME ViewInv, MoveHome \/ MoveRight \/ MoveRightSyllable \/ MoveEnd
  PROVE  ViewInv'
<1>1. Running /\ ~ isEmpty /\ sg' = sg
  BY DEF MoveHome, MoveRight, MoveRightSyllable, MoveEnd
<1>2. cursor \in Nat /\ cursor <= Len(sg.str) /\ Len(sg.str) \in Nat /\ LastFr(ic) = Len(sg.str)
  BY <1>1, ViewFacts
<1>a. ASSUME cursor' \in 0 .. LastFr(ic), candiFr' = candiFr, ic' = ic, candis' = candis
      PROVE  ViewInv'
  BY <1>a, <1>1, ViewFacts, ViewSameInput
<1>3. CASE ToHome
  BY <1>1, <1>3, ToHomeView
<1>4. CASE MoveEnd
  <2>1. cursor' = LastFr(ic) /\ candiFr' = candiFr /\ ic' = ic /\ candis' = candis
    BY <1>4 DEF MoveEnd
  <2>2. cursor' \in 0 .. LastFr(ic)
    BY <2>1, <1>2
  <2>. QED
    BY <2>1, <2>2, <1>a
<1>5. CASE MoveRight /\ ~ ToHome
  <2>1. cursor < LastFr(ic) /\ cursor' = cursor + 1 /\ candiFr' = candiFr /\ ic' = ic /\ candis' = candis
    BY <1>5 DEF MoveRight
  <2>2. cursor' \in 0 .. LastFr(ic)
    BY <2>1, <1>2
  <2>. QED
    BY <2>1, <2>2, <1>a
<1>6. CASE MoveRightSyllable /\ ~ ToHome
  <2> DEFINE after == {p \in SegPath : p > cursor}
  <2>1. IF after = {} THEN fault' = "past the end"
        ELSE cursor' = Min(after) /\ UNCHANGED <<candiFr, chosen, ic, candis, fault>>
    BY <1>6 DEF MoveRightSyllable
  <2>2. after \in SUBSET Nat /\ \A p \in after : p <= LastFr(ic)
    <3>1. \A p \in SegPath : p \in Nat /\ p <= LastFr(ic)
      BY <1>1, SegPathEnds
    <3>2. \A p \in after : p \in Nat /\ p <= LastFr(ic)
      BY <3>1
    <3> HIDE DEF after
    <3>. QED
      BY <3>2
  <2> HIDE DEF after
  <2>3. CASE after = {}
    <3>1. fault' # "none"
      BY <2>1, <2>3
    <3>. QED
      BY <3>1, <1>1, ViewSameInput
  <2>4. CASE after # {}
    <3>1. \E x \in after : \A y \in after : x <= y
      BY <2>2, <2>4, LeastNumber
    <3>2. Min(after) \in after
      BY <3>1 DEF Min
    <3>3. cursor' \in Nat /\ cursor' <= LastFr(ic)
      BY <3>2, <2>1, <2>2, <2>4
    <3>4. cursor' \in 0 .. LastFr(ic)
      BY <3>3, <1>2
    <3>. QED
      BY <3>4, <2>1, <2>4, <1>a
  <2>. QED
    BY <2>3, <2>4
<1>. QED
  BY <1>3, <1>4, <1>5, <1>6 DEF MoveHome

\* A word is chosen.
LEMMA SelectWordView ==
  ASSUME ViewInv, NEW w, SelectWord(w)
  PROVE  ViewInv'
<1>1. Running /\ ~ isEmpty /\ w \in candis
  BY DEF SelectWord
<1>2. /\ Len(sg.str) \in Nat /\ Len(sg.str) + 1 < MaxLattice /\ LastFr(ic) = Len(sg.str)
      /\ LatticeInv(ic, sg.segs, sg.str) /\ Choosable(ic, w) /\ 0 .. LastFr(ic) \subseteq Frames
      /\ cursor \in Nat /\ cursor <= LastFr(ic)
  BY <1>1, ViewFacts, BeforeTail DEF AllChoosable
<1>3. w[2] \in Nat /\ w[2] <= LastFr(ic)
  BY <1>2, ChoosableEnd
<1> DEFINE Strings(c) == [c EXCEPT !.fr = [f \in Frames |->
                  IF f \in w[2] + 1 .. SkipStrings(c, w[2]) THEN Marked(@[f], "IGNORED", @[f].sel) ELSE @[f]]]
<1>4. PICK c \in Selected(ic, w) :
         IF SkipStrings(c, w[2]) = LastFr(ic) THEN ClearIC
         ELSE /\ candiFr' = SkipStrings(c, w[2])
              /\ cursor' = IF cursor < w[2] THEN w[2] ELSE cursor
              /\ List(Strings(c))
              /\ sg' = sg
  BY DEF SelectWord
<1> DEFINE at == SkipStrings(c, w[2])
           d == Strings(c)
<1>5. LatticeInv(c, sg.segs, sg.str) /\ IsSearched(c, ic)
  BY <1>2, SelectedInv
<1>6. c.tail = ic.tail /\ c.tail \in Nat /\ LastFr(c) = LastFr(ic)
  BY <1>5, ContextFields DEF IsSearched, IsMarkedAnew, LastFr
<1>7. at \in w[2] .. LastFr(c)
  BY <1>3, <1>6, SkipStringsBounds
<1>8. CASE at = LastFr(ic)
  BY <1>1, <1>4, <1>8, ClearICView
<1>9. CASE at # LastFr(ic)
  <2>1. /\ candiFr' = at /\ cursor' = (IF cursor < w[2] THEN w[2] ELSE cursor)
        /\ List(d) /\ sg' = sg
    BY <1>4, <1>9
  <2>2. LatticeInv(d, sg.segs, sg.str)
    <3>1. d = [c EXCEPT !.fr = [f \in Frames |->
                IF f \in w[2] + 1 .. at THEN Marked(@[f], "IGNORED", @[f].sel) ELSE @[f]]]
      OBVIOUS
    <3> HIDE DEF d, at
    <3>2. at = SkipStrings(c, w[2])
      BY DEF at
    <3>. QED
      BY <3>1, <3>2, <1>2, <1>3, <1>5, <1>6, IgnoredInv
  <2> HIDE DEF d, at
  <2>3. at \in Frames
    <3>1. at \in 0 .. LastFr(ic)
      BY <1>2, <1>3, <1>6, <1>7
    <3>. QED
      BY <3>1, <1>2
  <2>4. LatticeInv(ic', sg.segs, sg.str) /\ AllChoosable(ic', candis')
    BY <2>1, <2>2, <2>3, <1>1, ListView
  <2>5. cursor' \in 0 .. LastFr(ic)
    BY <2>1, <1>2, <1>3
  <2>. QED
    BY <2>1, <2>3, <2>4, <2>5, <1>1, ViewSameInput
<1>. QED
  BY <1>8, <1>9

\* A candidate is deleted.
LEMMA DeleteCandidateView ==
  ASSUME ViewInv, DeleteCandidate
  PROVE  ViewInv'
<1> DEFINE last == RebuildFrom(sg)
           again == Searched(Relaid(ic, sg.segs, last))
           u == sg.updatedFrom
<1>1. Running /\ ~ isEmpty /\ sg' = sg /\ cursor' = cursor /\ candiFr' = candiFr
  BY DEF DeleteCandidate
<1>2. /\ SegmentorInv /\ LatticeInv(ic, sg.segs, sg.str) /\ candiFr' \in Frames /\ cursor' \in 0 .. LastFr(ic)
      /\ last = u + 1 /\ 0 + 1 = 1
      /\ IsChanged(sg.segs, Len(sg.str), sg.segs, Len(sg.str), u)
      /\ IsChanged(sg.segs, Len(sg.str), sg.segs, Len(sg.str), 0)
  BY <1>1, ViewFacts, Unchanged
<1>3. List(ic) \/ RelaidAndListed({ic}, 1) \/ RelaidAndListed({ic}, last) \/ RelaidAndListed(again, 1)
  BY DEF DeleteCandidate
<1>4. \A c \in again : LatticeInv(c, sg.segs, sg.str)
  <2>1. LatticeInv(Relaid(ic, sg.segs, last), sg.segs, sg.str)
    BY <1>2, RelaidInv
  <2>. QED
    BY <2>1, SearchedInv
<1>5. \A c \in {ic} : LatticeInv(c, sg.segs, sg.str)
  BY <1>2
<1> HIDE DEF last, again, u
<1>6. CASE List(ic)
  BY <1>1, <1>2, <1>6, ListView, ViewSameInput
<1>7. ASSUME NEW C, NEW v, \A c \in C : LatticeInv(c, sg.segs, sg.str), RelaidAndListed(C, v + 1),
             IsChanged(sg.segs, Len(sg.str), sg.segs, Len(sg.str), v)
      PROVE  ViewInv'
  <2>1. \/ fault' # "none"
        \/ LatticeInv(ic', sg.segs, sg.str) /\ AllChoosable(ic', candis')
    BY <1>2, <1>7, RelaidAndListedInv
  <2>. QED
    BY <2>1, <1>1, <1>2, ViewSameInput
<1>8. CASE RelaidAndListed({ic}, 1)
  <2> DEFINE C == {ic}
  <2>1. RelaidAndListed(C, 0 + 1) /\ \A c \in C : LatticeInv(c, sg.segs, sg.str)
    BY <1>2, <1>5, <1>8
  <2>2. IsChanged(sg.segs, Len(sg.str), sg.segs, Len(sg.str), 0)
    BY <1>2
  <2> HIDE DEF C
  <2>3. \/ fault' # "none"
        \/ LatticeInv(ic', sg.segs, sg.str) /\ AllChoosable(ic', candis')
    BY <1>2, <2>1, <2>2, RelaidAndListedInv
  <2>. QED
    BY <2>3, <1>1, <1>2, ViewSameInput
<1>9. CASE RelaidAndListed({ic}, last)
  <2>1. RelaidAndListed({ic}, u + 1)
    BY <1>2, <1>9
  <2>. QED
    BY <2>1, <1>2, <1>5, <1>7
<1>10. CASE RelaidAndListed(again, 1)
  <2>1. RelaidAndListed(again, 0 + 1)
    BY <1>2, <1>10
  <2>. QED
    BY <2>1, <1>2, <1>4, <1>7
<1>. QED
  BY <1>3, <1>6, <1>8, <1>9, <1>10

-----------------------------------------------------------------------------
(* The session.                                                            *)

\* The length of the input fits the field that holds the length of a segment.
FitsField == Len(sg.buf) < LenModulus

\* The invariant holds at first.
LEMMA InitView == Init => ViewInv
<1> SUFFICES ASSUME Init PROVE ViewInv
  OBVIOUS
<1>1. /\ sg = Cleared /\ ic = EmptyContext /\ cursor = 0 /\ candiFr = 0 /\ candis = {}
  BY DEF Init
<1>2. SegmentorInv
  <2>1. sg.segs = << >> /\ sg.str = << >> /\ sg.buf = << >> /\ sg.updatedFrom = 0
    BY <1>1 DEF Cleared
  <2>2. sg \in Segmentor
    BY <1>1 DEF Cleared, Segmentor
  <2>3. Cuts(<< >>, << >>) /\ Between(<< >>, 0)
    BY DEF Cuts, Between
  <2>4. Len(<< >>) = 0 /\ 0 + 1 < MaxLattice /\ 0 <= 0
    BY LatticeSize
  <2>. QED
    BY <2>1, <2>2, <2>3, <2>4 DEF SegmentorInv
<1>3. LatticeInv(ic, << >>, << >>)
  <2>1. /\ ic \in Context /\ ic.tail = 1 /\ \A f \in Frames : Blank(ic.fr, f)
    BY <1>1, EmptyIsContext
  <2>2. FitSegments(<< >>, 0) /\ EndsWith(<< >>, 0)
    <3>1. << >> \in Seq(Segment) /\ Len(<< >>) = 0 /\ 0 + 1 < MaxLattice
      BY LatticeSize
    <3>. QED
      BY <3>1 DEF FitSegments, EndsWith
  <2>3. ASSUME NEW f \in Frames
        PROVE  ic.fr[f].home <= f /\ Whole(<< >>)[f].type # "sep"
    <3>1. ic.fr[f].home = f /\ f \in Nat
      BY <2>1, LatticeSize DEF Blank
    <3>2. Whole(<< >>)[f].type # "sep"
      <4>1. ~ \E i \in 1 .. Len(<< >>) : End(<< >>[i]) = f /\ << >>[i].type = "sep"
        OBVIOUS
      <4>. QED
        BY <4>1, <2>2, WholeFrames
    <3>. QED
      BY <3>1, <3>2
  <2>4. Pointers(ic, << >>)
    BY <2>3 DEF Pointers
  <2>5. ClearBehind(ic) /\ MarksFit(ic)
    BY <2>1 DEF ClearBehind, BlankAbove, MarksFit, Blank
  <2>6. FirstFrame(ic)
    BY <2>1, LatticeSize DEF FirstFrame, Blank
  <2>7. Kept(ic, << >>) /\ ic.tail = Len(<< >>) + 1
    BY <2>1 DEF Kept
  <2>. QED
    BY <2>1, <2>4, <2>5, <2>6, <2>7 DEF LatticeInv
<1>4. LatticeInv(ic, sg.segs, sg.str)
  BY <1>1, <1>3 DEF Cleared
<1>5. cursor \in 0 .. LastFr(ic) /\ candiFr \in Frames
  BY <1>1, EmptyIsContext, LatticeSize DEF LastFr
<1>. QED
  BY <1>1, <1>2, <1>4, <1>5 DEF ViewInv

\* Every key keeps it.
LEMMA NextView ==
  ASSUME ViewInv, [Next]_vars, FitsField, FitsField'
  PROVE  ViewInv'
<1>1. CASE UNCHANGED vars
  BY <1>1 DEF vars, ViewInv, SegmentorInv, Running
<1>2. ASSUME NEW ch \in Typed, Insert(ch)
      PROVE  ViewInv'
  <2>1. ch \in Keys
    BY Zenon, ViewAssumption
  <2>. QED
    BY <2>1, <1>2, InsertView DEF FitsField
<1>3. CASE (\E ch \in Typed : InsertAlone(ch)) \/ SelectSentence \/ Escape
  BY <1>3, ClearICView DEF InsertAlone, SelectSentence, Escape
<1>4. CASE Backspace
  BY <1>4, BackspaceView DEF FitsField
<1>5. CASE Delete
  BY <1>5, DeleteView DEF FitsField
<1>6. CASE MoveLeft
  BY <1>6, MoveLeftView
<1>7. CASE MoveLeftSyllable
  BY <1>7, MoveLeftSyllableView
<1>8. CASE MoveHome \/ MoveRight \/ MoveRightSyllable \/ MoveEnd
  BY <1>8, MoveRightView
<1>9. CASE \E w \in candis : SelectWord(w)
  BY <1>9, SelectWordView
<1>10. CASE DeleteCandidate
  BY <1>10, DeleteCandidateView
<1>. QED
  BY <1>1, <1>2, <1>3, <1>4, <1>5, <1>6, <1>7, <1>8, <1>9, <1>10 DEF Next

\* The inductive invariant of the input session.
THEOREM ViewInvariant == Spec /\ []FitsField => []ViewInv
<1>1. Init => ViewInv
  BY InitView
<1>2. ViewInv /\ [Next]_vars /\ FitsField /\ FitsField' => ViewInv'
  BY NextView
<1>. QED
  BY <1>1, <1>2, PTL DEF Spec

\* Whatever edits led to it, the input is cut into the segments it would be cut into if it were
\* typed in one go (CXhSegmentor: insertAt, deleteAt and pop cut again from the edited segment).
THEOREM SegmentsStayCanonical == Spec /\ []FitsField => []SegmentsCanonical
<1>1. ViewInv => SegmentsCanonical
  <2> SUFFICES ASSUME ViewInv PROVE SegmentsCanonical
    OBVIOUS
  <2>1. sg \in Segmentor /\ sg.str = sg.buf /\ Cuts(sg.segs, sg.str)
    BY DEF ViewInv, SegmentorInv
  <2>2. sg.segs \in Seq(Segment) /\ sg.str \in Seq(Keys)
    BY <2>1 DEF Segmentor
  <2>3. sg.segs = Reference(sg.str)
    BY <2>1, <2>2, CutsAreReference
  <2>. QED
    BY <2>1, <2>3 DEF SegmentsCanonical
<1>. QED
  BY <1>1, ViewInvariant, PTL

\* The lattice that was built again from the edited segment on is that of the whole input, as long
\* as no frame has been overwritten (buildLexiconStates from rebuildFrom - 1 on).
THEOREM LatticeStaysFresh == Spec /\ []FitsField => []LatticeFresh
<1>1. ViewInv => LatticeFresh
  <2> SUFFICES ASSUME ViewInv, Running, ~ isEmpty,
                      \A f \in Frames : ic.fr[f].home = WholeLattice[f].home
               PROVE  \A f \in Frames : ic.fr[f].type = WholeLattice[f].type /\ ic.fr[f].lex = WholeLattice[f].lex
    BY DEF LatticeFresh, OwnPointers
  <2>1. Kept(ic, sg.segs) /\ sg.segs # << >>
    BY ViewFacts DEF LatticeInv, Cuts
  <2>2. WholeLattice = Whole(sg.segs)
    BY DEF WholeLattice, Whole
  <2> HIDE DEF WholeLattice
  <2>3. ASSUME NEW f \in Frames
        PROVE  AgreeAt(ic.fr, Whole(sg.segs), f)
    <3>1. \A g \in 0 .. f : g \in Frames
      BY LatticeSize
    <3>2. OwnUpTo(ic.fr, Whole(sg.segs), f)
      BY <3>1, <2>2 DEF OwnUpTo
    <3>. QED
      BY <3>2, <2>1 DEF Kept
  <2>. QED
    BY <2>2, <2>3 DEF AgreeAt
<1>. QED
  BY <1>1, ViewInvariant, PTL

\* The lattice ends where the input does and the caret stays within it (the handlers index the
\* lattice with m_cursorFrIdx and decrement it, unsigned).
THEOREM CaretStaysInside == Spec /\ []FitsField => []CaretInside
<1>1. ViewInv => CaretInside
  <2> SUFFICES ASSUME ViewInv, Running PROVE ic.tail = Len(sg.buf) + 1 /\ cursor <= LastFr(ic)
    BY DEF CaretInside
  <2>. QED
    BY ViewFacts
<1>. QED
  BY <1>1, ViewInvariant, PTL

-----------------------------------------------------------------------------
(* Chosen words.                                                           *)

\* The words chosen lie before the choice that is next, and end before every candidate.
ChosenInv ==
  Running => \A w \in chosen : /\ w[2] \in Frames /\ w[2] <= candiFr
                               /\ \A v \in candis : w[2] < v[2]

\* d has the choices c has.
KeepsChoices(d, c) ==
  \A f \in Frames : "USER_SELECTED" \in c.fr[f].bw =>
    "USER_SELECTED" \in d.fr[f].bw /\ d.fr[f].sel = c.fr[f].sel

\* What every step leaves listed, and every step but a choice leaves chosen.
Relists == fault' # "none" \/ candis' = candis \/ \A v \in candis' : v[2] > candiFr'
Narrows ==
  /\ Relists
  /\ chosen' \subseteq chosen
  /\ fault' # "none" \/ \A w \in chosen' : w[2] <= candiFr'

\* A step that narrows keeps the order of the words chosen.
LEMMA NarrowsInv ==
  ASSUME ViewInv, ViewInv', Running, ChosenInv, Narrows
  PROVE  ChosenInv'
<1> SUFFICES ASSUME fault' = "none", NEW w \in chosen'
             PROVE  w[2] \in Frames /\ w[2] <= candiFr' /\ \A v \in candis' : w[2] < v[2]
  BY DEF ChosenInv, Running
<1>1. w \in chosen /\ w[2] <= candiFr'
  BY DEF Narrows
<1>2. w[2] \in Frames /\ w[2] \in Nat /\ \A v \in candis : w[2] < v[2]
  BY <1>1, LatticeSize DEF ChosenInv
<1>3. /\ candiFr' \in Nat
      /\ \A v \in candis' : v[2] \in Nat
  <2>1. LatticeInv(ic', sg'.segs, sg'.str) /\ candiFr' \in Frames /\ \A v \in candis' : Choosable(ic', v)
    BY DEF ViewInv, Running
  <2>2. ic'.tail \in Nat
    BY <2>1, ContextFields DEF LatticeInv
  <2>3. \A v \in candis' : v[2] \in 1 .. ic'.tail - 1
    BY <2>1 DEF Choosable, LastFr
  <2>. QED
    BY <2>1, <2>2, <2>3, LatticeSize
<1>4. CASE candis' = candis
  BY <1>1, <1>2, <1>4
<1>5. CASE \A v \in candis' : v[2] > candiFr'
  BY <1>1, <1>2, <1>3, <1>5
<1>. QED
  BY <1>4, <1>5 DEF Narrows, Relists

\* What is listed ends behind the frame it is listed at.
LEMMA ListedBehind ==
  ASSUME NEW c, NEW frIdx \in Nat
  PROVE  \A v \in Candidates(c, frIdx) : v[2] > frIdx
<1>1. ASSUME NEW e \in CandidateEnds(c, frIdx)
      PROVE  e > frIdx
  BY DEF CandidateEnds
<1>. QED
  BY <1>1 DEF Candidates

\* See Relists.
LEMMA ListedRelists ==
  ASSUME ViewInv', NEW c, candis' = Candidates(c, candiFr')
  PROVE  Relists
<1>1. CASE fault' = "none"
  <2>1. candiFr' \in Nat
    BY <1>1, LatticeSize DEF ViewInv, Running
  <2>. QED
    BY <2>1, ListedBehind DEF Relists
<1>. QED
  BY <1>1 DEF Relists

\* See Relists.
LEMMA RebuildRelists ==
  ASSUME ViewInv', NEW c, NEW s, Rebuild(c, s)
  PROVE  Relists
<1>1. CASE BuildFault(c, s.str, RebuildFrom(s)) # "none"
  BY <1>1 DEF Rebuild, Relists
<1>2. CASE BuildFault(c, s.str, RebuildFrom(s)) = "none"
  <2>1. PICK r \in Built(c, s) : ic' = r.ic /\ candis' = r.candis
    BY <1>2 DEF Rebuild
  <2>2. r.candis = candis \/ \E d : r.candis = Candidates(d, candiFr')
    BY DEF Built, Listed
  <2>. QED
    BY <2>1, <2>2, ListedRelists DEF Relists
<1>. QED
  BY <1>1, <1>2

\* See Relists.
LEMMA RelaidRelists ==
  ASSUME ViewInv', NEW C, NEW from, RelaidAndListed(C, from)
  PROVE  Relists
<1>1. \/ fault' # "none"
      \/ \E d : candis' = Candidates(d, candiFr')
  BY DEF RelaidAndListed, Listed
<1>. QED
  BY <1>1, ListedRelists DEF Relists

\* A step that leaves the choice where it is narrows.
LEMMA SameChoiceNarrows ==
  ASSUME ChosenInv, Running, chosen' = chosen, candiFr' = candiFr, Relists
  PROVE  Narrows
BY DEF Narrows, ChosenInv

\* So does one that takes words back.
LEMMA TakenBackNarrows ==
  ASSUME chosen' = ChosenBefore(candiFr'), Relists
  PROVE  Narrows
BY DEF Narrows, ChosenBefore

\* See ClearIC.
LEMMA ClearICNarrows ==
  ASSUME ClearIC
  PROVE  Narrows
<1>1. CASE DeletesShared(ic, 1)
  <2>1. fault' # "none" /\ chosen' = chosen
    BY <1>1 DEF ClearIC
  <2>. QED
    BY <2>1 DEF Narrows, Relists
<1>2. CASE ~ DeletesShared(ic, 1)
  <2>1. chosen' = {} /\ candis' = {}
    BY <1>2 DEF ClearIC
  <2>. QED
    BY <2>1 DEF Narrows, Relists
<1>. QED
  BY <1>1, <1>2

\* See ToHome.
LEMMA ToHomeNarrows ==
  ASSUME ViewInv', ChosenInv, Running, ToHome
  PROVE  Narrows
<1>1. CASE candiFr = 0 \/ ic.path = {}
  <2>1. chosen' = chosen /\ candiFr' = candiFr /\ candis' = candis
    BY <1>1 DEF ToHome
  <2>. QED
    BY <2>1, SameChoiceNarrows DEF Relists
<1>2. CASE candiFr # 0 /\ ic.path # {}
  <2>1. candiFr' = 0 /\ chosen' = {} /\ \E c : candis' = Candidates(c, 0)
    BY <1>2 DEF ToHome
  <2>2. Relists
    BY <2>1, ListedRelists
  <2>. QED
    BY <2>1, <2>2 DEF Narrows
<1>. QED
  BY <1>1, <1>2

\* See StepBack.
LEMMA StepBackNarrows ==
  ASSUME ViewInv', ChosenInv, Running, StepBack
  PROVE  Narrows
<1>1. CASE cursor = candiFr
  <2>1. PICK r \in CancelledSearch(ic, candiFr) :
              candiFr' = r.at /\ chosen' = ChosenBefore(r.at) /\ List(r.ic)
    BY <1>1 DEF StepBack
  <2>2. Relists
    BY <2>1, ListedRelists DEF List, Listed
  <2>. QED
    BY <2>1, <2>2, TakenBackNarrows
<1>2. CASE cursor # candiFr
  <2>1. chosen' = chosen /\ candiFr' = candiFr /\ candis' = candis
    BY <1>2 DEF StepBack
  <2>. QED
    BY <2>1, SameChoiceNarrows DEF Relists
<1>. QED
  BY <1>1, <1>2

\* Every step but a choice narrows.
LEMMA NextNarrows ==
  ASSUME ViewInv', ChosenInv, Next, ~ \E w \in candis : SelectWord(w)
  PROVE  Running /\ Narrows
<1>1. CASE \E ch \in Typed : Insert(ch)
  <2>1. PICK ch \in Typed : Insert(ch)
    BY <1>1
  <2>2. Running /\ chosen' = chosen /\ candiFr' = candiFr /\ \E s : Rebuild(ic, s)
    BY <2>1 DEF Insert
  <2>. QED
    BY <2>2, RebuildRelists, SameChoiceNarrows
<1>2. CASE (\E ch \in Typed : InsertAlone(ch)) \/ SelectSentence \/ Escape
  BY <1>2, ClearICNarrows DEF InsertAlone, SelectSentence, Escape
<1>3. CASE Backspace
  <2>1. CASE candiFr > 0
    <3>1. PICK r \in CancelledSearch(ic, candiFr) :
                candiFr' = r.at /\ chosen' = ChosenBefore(r.at) /\ Rebuild(r.ic, sg)
      BY <1>3, <2>1 DEF Backspace
    <3>2. Running
      BY <1>3 DEF Backspace
    <3>. QED
      BY <3>1, <3>2, RebuildRelists, TakenBackNarrows
  <2>2. CASE ~ (candiFr > 0)
    <3>1. Running /\ chosen' = chosen /\ candiFr' = candiFr /\ \E s : Rebuild(ic, s)
      BY <1>3, <2>2 DEF Backspace
    <3>. QED
      BY <3>1, RebuildRelists, SameChoiceNarrows
  <2>. QED
    BY <2>1, <2>2
<1>4. CASE Delete
  <2>1. Running /\ chosen' = chosen /\ candiFr' = candiFr /\ \E s : Rebuild(ic, s)
    BY <1>4 DEF Delete
  <2>. QED
    BY <2>1, RebuildRelists, SameChoiceNarrows
<1>5. ASSUME Running, chosen' = chosen, candiFr' = candiFr, candis' = candis
      PROVE  Running /\ Narrows
  BY <1>5, SameChoiceNarrows DEF Relists
<1>6. CASE MoveLeft \/ MoveLeftSyllable
  <2>1. /\ Running
        /\ \/ StepBack
           \/ chosen' = chosen /\ candiFr' = candiFr /\ candis' = candis
    BY <1>6 DEF MoveLeft, MoveLeftSyllable
  <2>. QED
    BY <2>1, <1>5, StepBackNarrows
<1>7. CASE MoveHome \/ MoveRight \/ MoveRightSyllable \/ MoveEnd
  <2>1. /\ Running
        /\ \/ ToHome
           \/ chosen' = chosen /\ candiFr' = candiFr /\ candis' = candis
    BY <1>7 DEF MoveHome, MoveRight, MoveRightSyllable, MoveEnd
  <2>. QED
    BY <2>1, <1>5, ToHomeNarrows
<1>8. CASE DeleteCandidate
  <2>1. Running /\ chosen' = chosen /\ candiFr' = candiFr
    BY <1>8 DEF DeleteCandidate
  <2>2. (\E c : List(c)) \/ \E C, from : RelaidAndListed(C, from)
    BY <1>8 DEF DeleteCandidate
  <2>3. Relists
    BY <2>2, ListedRelists, RelaidRelists DEF List, Listed
  <2>. QED
    BY <2>1, <2>3, SameChoiceNarrows
<1>. QED
  BY <1>1, <1>2, <1>3, <1>4, <1>6, <1>7, <1>8 DEF Next

\* A choice keeps the order of the words chosen.
LEMMA SelectWordInv ==
  ASSUME ViewInv, ViewInv', ChosenInv, NEW w \in candis, SelectWord(w)
  PROVE  ChosenInv'
<1>1. Running /\ ~ isEmpty
  BY DEF SelectWord
<1>2. w[2] \in Nat /\ w[2] \in Frames /\ w[2] <= LastFr(ic) /\ ic.tail \in Nat
      /\ LatticeInv(ic, sg.segs, sg.str) /\ Choosable(ic, w)
      /\ Len(sg.str) \in Nat /\ Len(sg.str) + 1 < MaxLattice
  <2>1. /\ LatticeInv(ic, sg.segs, sg.str) /\ Choosable(ic, w)
        /\ Len(sg.str) \in Nat /\ Len(sg.str) + 1 < MaxLattice
    BY <1>1, ViewFacts DEF AllChoosable
  <2>. QED
    BY <2>1, ChoosableEnd, ContextFields DEF LatticeInv
<1>3. PICK c \in Selected(ic, w) :
         IF SkipStrings(c, w[2]) = LastFr(ic) THEN ClearIC
         ELSE /\ candiFr' = SkipStrings(c, w[2])
              /\ chosen' = chosen \cup {w}
              /\ \E d : List(d)
  BY DEF SelectWord
<1>4. CASE ClearIC
  BY <1>1, <1>4, ClearICNarrows, NarrowsInv
<1>5. CASE ~ ClearIC
  <2>1. /\ candiFr' = SkipStrings(c, w[2]) /\ chosen' = chosen \cup {w}
        /\ \E d : candis' = Candidates(d, candiFr')
    BY <1>3, <1>5 DEF List, Listed
  <2>2. LastFr(c) = LastFr(ic) /\ c.tail \in Nat
    BY <1>2, SelectedInv DEF IsSearched, IsMarkedAnew, LastFr
  <2>3. candiFr' \in Nat /\ w[2] <= candiFr'
    <3>1. SkipStrings(c, w[2]) \in w[2] .. LastFr(c)
      BY <1>2, <2>2, SkipStringsBounds
    <3>. QED
      BY <3>1, <2>1, <1>2
  <2>4. \A v \in candis' : v[2] > candiFr' /\ v[2] \in Int
    <3>1. ASSUME NEW d, NEW v \in Candidates(d, candiFr')
          PROVE  v[2] > candiFr' /\ v[2] \in Int
      BY <3>1, <2>3 DEF Candidates, CandidateEnds
    <3>. QED
      BY <2>1, <3>1
  <2>5. \A x \in chosen' : x[2] \in Frames /\ x[2] \in Nat /\ x[2] <= w[2]
    BY <1>1, <1>2, <2>1, LatticeSize DEF ChosenInv
  <2>6. ASSUME NEW x \in chosen'
        PROVE  x[2] \in Frames /\ x[2] <= candiFr' /\ \A v \in candis' : x[2] < v[2]
    BY <1>2, <2>3, <2>4, <2>5
  <2>. QED
    BY <2>6 DEF ChosenInv
<1>. QED
  BY <1>4, <1>5

\* Every step keeps the order of the words chosen.
LEMMA NextChosen ==
  ASSUME ViewInv, ViewInv', ChosenInv, [Next]_vars
  PROVE  ChosenInv'
<1>1. CASE UNCHANGED vars
  BY <1>1 DEF vars, ChosenInv, Running
<1>2. CASE \E w \in candis : SelectWord(w)
  BY <1>2, SelectWordInv
<1>3. CASE Next /\ ~ \E w \in candis : SelectWord(w)
  BY <1>3, NextNarrows, NarrowsInv
<1>. QED
  BY <1>1, <1>2, <1>3

-----------------------------------------------------------------------------
(* Choices that stand.                                                     *)

\* A search keeps the choices.
LEMMA SearchedKeeps ==
  ASSUME NEW c \in Context, NEW d \in Searched(c)
  PROVE  KeepsChoices(d, c)
<1>0. c = [fr |-> c.fr, tail |-> c.tail, path |-> c.path, starts |-> c.starts, ends |-> c.ends]
  BY ContextFields
<1>1. CASE d = [c EXCEPT !.path = {}]
  <2>1. d.fr = c.fr
    BY <1>0, <1>1
  <2>. QED
    BY <2>1 DEF KeepsChoices
<1>2. CASE \E P : d = WithPath(c, P)
  <2>1. PICK P : d = WithPath(c, P)
    BY <1>2
  <2> DEFINE fr == [f \in Frames |->
                     IF f \in P /\ "USER_SELECTED" \notin c.fr[f].bw
                     THEN Marked(c.fr[f], "BESTWORD", Before(P, f)) ELSE c.fr[f]]
  <2>2. d = [c EXCEPT !.path = P, !.fr = fr]
    BY <2>1 DEF WithPath
  <2>3. \A f \in Frames : "USER_SELECTED" \in c.fr[f].bw => fr[f] = c.fr[f]
    OBVIOUS
  <2> HIDE DEF fr
  <2>4. d.fr = fr
    BY <1>0, <2>2
  <2>. QED
    BY <2>3, <2>4 DEF KeepsChoices
<1>. QED
  BY <1>1, <1>2 DEF Searched

\* Choosing a word keeps the choices of other frames.
LEMMA SelectedKeeps ==
  ASSUME NEW c, NEW segs, NEW str, LatticeInv(c, segs, str), Len(str) \in Nat, Len(str) + 1 < MaxLattice,
         NEW w, Choosable(c, w), NEW d \in Selected(c, w),
         NEW f \in Frames, f # w[2], "USER_SELECTED" \in c.fr[f].bw
  PROVE  "USER_SELECTED" \in d.fr[f].bw /\ d.fr[f].sel = c.fr[f].sel
<1> DEFINE e == [c EXCEPT !.fr[w[2]] = Marked(@, "USER_SELECTED", w[1])]
<1>1. LatticeInv(e, segs, str) /\ IsChosenIn(e, c, w)
  BY ChosenMarked
<1>2. d \in Searched(e)
  BY DEF Selected
<1> HIDE DEF e
<1>3. e \in Context /\ e.fr[f] = c.fr[f]
  BY <1>1 DEF LatticeInv, IsChosenIn
<1>4. KeepsChoices(d, e)
  BY <1>2, <1>3, SearchedKeeps
<1>. QED
  BY <1>3, <1>4 DEF KeepsChoices

\* d is c with the frames of S marked as skipped.
SkippedOver(d, c, S) ==
  /\ d.path = c.path
  /\ \A f \in Frames : /\ d.fr[f].sel = c.fr[f].sel
                       /\ f \in S => d.fr[f].bw = c.fr[f].bw \cup {"IGNORED"}
                       /\ f \notin S => d.fr[f].bw = c.fr[f].bw

\* Which marks the strings behind a chosen word get.
LEMMA IgnoredFrames ==
  ASSUME NEW c \in Context, NEW e, NEW at, NEW d,
         d = [c EXCEPT !.fr = [f \in Frames |->
                IF f \in e + 1 .. at THEN Marked(@[f], "IGNORED", @[f].sel) ELSE @[f]]]
  PROVE  SkippedOver(d, c, e + 1 .. at)
<1> DEFINE fr == [f \in Frames |->
                   IF f \in e + 1 .. at THEN Marked(c.fr[f], "IGNORED", c.fr[f].sel) ELSE c.fr[f]]
<1>1. c = [fr |-> c.fr, tail |-> c.tail, path |-> c.path, starts |-> c.starts, ends |-> c.ends]
      /\ c.fr \in [Frames -> Frame]
  BY ContextFields
<1>2. d = [c EXCEPT !.fr = fr]
  OBVIOUS
<1>3. ASSUME NEW f \in Frames
      PROVE  /\ fr[f].sel = c.fr[f].sel
             /\ f \in e + 1 .. at => fr[f].bw = c.fr[f].bw \cup {"IGNORED"}
             /\ f \notin e + 1 .. at => fr[f].bw = c.fr[f].bw
  <2>1. c.fr[f] \in Frame /\ c.fr[f].sel \in Frames /\ "IGNORED" \in BwTypes
    BY <1>1 DEF BwTypes, Frame
  <2>2. CASE f \in e + 1 .. at
    <3>1. fr[f] = Marked(c.fr[f], "IGNORED", c.fr[f].sel)
      BY <2>2
    <3> HIDE DEF fr
    <3>. QED
      BY <3>1, <2>1, <2>2, MarkedFrame
  <2>3. CASE f \notin e + 1 .. at
    BY <2>3
  <2>. QED
    BY <2>2, <2>3
<1> HIDE DEF fr
<1>4. d.fr = fr /\ d.path = c.path
  BY <1>1, <1>2
<1>. QED
  BY <1>3, <1>4 DEF SkippedOver

\* Marking the strings behind it keeps them.
LEMMA IgnoredKeeps ==
  ASSUME NEW c \in Context, NEW e, NEW at, NEW d,
         d = [c EXCEPT !.fr = [f \in Frames |->
                IF f \in e + 1 .. at THEN Marked(@[f], "IGNORED", @[f].sel) ELSE @[f]]]
  PROVE  KeepsChoices(d, c)
<1>1. SkippedOver(d, c, e + 1 .. at)
  BY IgnoredFrames, Zenon
<1> DEFINE S == e + 1 .. at
<1>2. SkippedOver(d, c, S) => KeepsChoices(d, c)
  <2> HIDE DEF S
  <2>. QED
    BY DEF SkippedOver, KeepsChoices
<1>. QED
  BY <1>1, <1>2, Zenon

\* See ChoicesStand: further words are chosen.
LEMMA SelectWordStands ==
  ASSUME ViewInv, ChosenInv, NEW w \in candis, SelectWord(w), ChoosesMore,
         NEW x \in chosen, Stands(x)
  PROVE  Stands(x)'
<1>1. Running /\ ~ isEmpty
  BY DEF SelectWord
<1>2. w[2] \in Nat /\ w[2] <= LastFr(ic) /\ ic.tail \in Nat
      /\ LatticeInv(ic, sg.segs, sg.str) /\ Choosable(ic, w)
      /\ Len(sg.str) \in Nat /\ Len(sg.str) + 1 < MaxLattice
  <2>1. /\ LatticeInv(ic, sg.segs, sg.str) /\ Choosable(ic, w)
        /\ Len(sg.str) \in Nat /\ Len(sg.str) + 1 < MaxLattice
    BY <1>1, ViewFacts DEF AllChoosable
  <2>. QED
    BY <2>1, ChoosableEnd, ContextFields DEF LatticeInv
<1>3. x[2] \in Frames /\ x[2] # w[2] /\ "USER_SELECTED" \in ic.fr[x[2]].bw /\ ic.fr[x[2]].sel = x[1]
  <2>1. x[2] \in Frames /\ x[2] < w[2]
    BY <1>1 DEF ChosenInv
  <2>2. x[2] \in Nat
    BY <2>1, LatticeSize
  <2>. QED
    BY <2>1, <2>2, <1>2 DEF Stands
<1> DEFINE Strings(c) == [c EXCEPT !.fr = [f \in Frames |->
                  IF f \in w[2] + 1 .. SkipStrings(c, w[2]) THEN Marked(@[f], "IGNORED", @[f].sel) ELSE @[f]]]
<1>4. PICK c \in Selected(ic, w) :
         IF SkipStrings(c, w[2]) = LastFr(ic) THEN ClearIC
         ELSE candiFr' = SkipStrings(c, w[2]) /\ List(Strings(c))
  BY DEF SelectWord
<1> DEFINE at == SkipStrings(c, w[2])
           d == Strings(c)
<1>5. ~ ClearIC
  BY ClearICNarrows DEF Narrows, ChoosesMore
<1>6. candiFr' = at /\ List(d)
  BY <1>4, <1>5
<1>7. LatticeInv(c, sg.segs, sg.str) /\ IsSearched(c, ic)
  BY <1>2, SelectedInv
<1>8. c \in Context /\ c.tail \in Nat /\ LastFr(c) = LastFr(ic)
  BY <1>7, ContextFields DEF IsSearched, IsMarkedAnew, LastFr
<1>9. "USER_SELECTED" \in c.fr[x[2]].bw /\ c.fr[x[2]].sel = x[1]
  BY <1>2, <1>3, SelectedKeeps
<1>10. LatticeInv(d, sg.segs, sg.str) /\ KeepsChoices(d, c)
  <2>1. d = [c EXCEPT !.fr = [f \in Frames |->
                IF f \in w[2] + 1 .. at THEN Marked(@[f], "IGNORED", @[f].sel) ELSE @[f]]]
    OBVIOUS
  <2> HIDE DEF d, at
  <2>2. at = SkipStrings(c, w[2])
    BY DEF at
  <2>. QED
    BY <2>1, <2>2, <1>2, <1>7, <1>8, IgnoredInv, IgnoredKeeps
<1>11. candiFr' \in Nat
  <2>1. at \in w[2] .. LastFr(c)
    BY <1>2, <1>8, SkipStringsBounds
  <2>. QED
    BY <2>1, <1>2, <1>6
<1> HIDE DEF d, at
<1>12. ic'.fr = d.fr
  BY <1>2, <1>6, <1>10, <1>11, ListedInv DEF List, Listed
<1>. QED
  BY <1>3, <1>9, <1>10, <1>12 DEF KeepsChoices, Stands

\* A key that opens a segment changes nothing before it.
LEMMA OpensSegment ==
  ASSUME NEW s \in Segmentor, NEW ch \in Keys, IsStrictPrefix(s.segs, Pushed(s, ch).segs)
  PROVE  Pushed(s, ch).updatedFrom = Len(s.str)
<1> DEFINE t == [s EXCEPT !.buf = Append(@, ch)]
           q == Pushed(s, ch)
<1>1. s.buf \in Seq(Keys) /\ s.segs \in Seq(Segment)
      /\ s = [buf |-> s.buf, str |-> s.str, segs |-> s.segs, updatedFrom |-> s.updatedFrom]
  BY DEF Segmentor
<1>2. Append(s.buf, ch) \in Seq(Keys)
  BY <1>1
<1>3. q = _push(t, ch)
  BY DEF Pushed
<1>4. t \in Segmentor /\ t.str = s.str /\ t.segs = s.segs
  BY <1>2, WithBuf, Zenon
<1> HIDE DEF t
<1>5. t = [buf |-> t.buf, str |-> t.str, segs |-> t.segs, updatedFrom |-> t.updatedFrom]
  BY <1>4 DEF Segmentor
<1>6. CASE ~ (t.segs # << >> /\ ch = "stroke")
  BY <1>3, <1>4, <1>5, <1>6 DEF _push
<1>7. CASE t.segs # << >> /\ ch = "stroke"
  <2> DEFINE k == Len(t.segs)
             last == [t.segs[k] EXCEPT !.len = (@ + 1) % LenModulus]
             b == [t.segs EXCEPT ![k] = last]
  <2>1. q.segs = b
    BY <1>3, <1>5, <1>7 DEF _push
  <2> HIDE DEF q, last
  <2>2. DOMAIN b = 1 .. Len(s.segs) /\ Len(s.segs) \in Nat /\ Len(b) = Len(s.segs)
    BY <1>1, <1>4
  <2> HIDE DEF b
  <2>3. SubSeq(s.segs, 1, Len(s.segs)) = SubSeq(b, 1, Len(s.segs)) /\ s.segs # b
    BY <2>1 DEF IsStrictPrefix, IsPrefix, q
  <2>4. SubSeq(s.segs, 1, Len(s.segs)) = s.segs
    BY <1>1
  <2>5. SubSeq(b, 1, Len(s.segs)) = b
    <3>1. b = [i \in 1 .. Len(s.segs) |-> b[i]]
      BY <2>2 DEF b
    <3>2. SubSeq(b, 1, Len(s.segs)) = [i \in 1 .. Len(s.segs) |-> b[i]]
      BY <2>2, SubSeqProperties
    <3>. QED
      BY <3>1, <3>2
  <2>. QED
    BY <2>3, <2>4, <2>5
<1>. QED
  BY <1>6, <1>7

\* See ChoicesStand: keys that open new segments are typed.
LEMMA InsertStands ==
  ASSUME ViewInv, ChosenInv, NEW ch \in Keys, Insert(ch), Len(sg'.buf) < LenModulus, TypesOn,
         NEW x \in chosen, Stands(x)
  PROVE  Stands(x)'
<1> DEFINE s == Pushed(sg, ch)
           u == s.updatedFrom
           n == Len(s.str)
           built == Relaid(ic, s.segs, RebuildFrom(s))
<1>1. Running /\ candiFr' = candiFr /\ Rebuild(ic, s)
  BY DEF Insert, TypesOn
<1>2. /\ sg \in Segmentor /\ Cuts(sg.segs, sg.str) /\ sg.str = sg.buf /\ Len(sg.str) \in Nat
      /\ LatticeInv(ic, sg.segs, sg.str) /\ candiFr \in Frames /\ ic.tail = Len(sg.str) + 1
      /\ FitSegments(sg.segs, Len(sg.str)) /\ EndsWith(sg.segs, Len(sg.str))
  BY <1>1, ViewFacts, Unchanged
<1>3. BuildFault(ic, s.str, RebuildFrom(s)) = "none"
  <2>1. sg' # sg
    BY DEF TypesOn, IsStrictPrefix
  <2>. QED
    BY <2>1, <1>1 DEF Rebuild
<1>4. sg' = s /\ \E r \in Built(ic, s) : ic' = r.ic
  BY <1>1, <1>3 DEF Rebuild
<1>5. u = Len(sg.str)
  <2>1. IsStrictPrefix(sg.segs, s.segs)
    BY <1>4 DEF TypesOn
  <2>. QED
    BY <2>1, <1>2, OpensSegment
<1>6. IsEdited(sg, s.buf, s) /\ Len(s.buf) = Len(sg.buf) + 1
  <2>1. Len(Pushed(sg, ch).buf) < LenModulus
    BY <1>4
  <2>. QED
    BY <2>1, <1>2, PushedCuts
<1> HIDE DEF s
<1>7. /\ s \in Segmentor /\ Cuts(s.segs, s.str) /\ u <= n /\ Between(s.segs, u) /\ SameUpTo(s.segs, sg.segs, u)
      /\ n = Len(sg.str) + 1
  BY <1>2, <1>6 DEF IsEdited
<1>8. n + 1 < MaxLattice
  <2>1. ~ (Len(s.str) + 1 >= MaxLattice)
    BY <1>3 DEF BuildFault
  <2>. QED
    BY <2>1, <1>2, <1>7, LatticeSize
<1>9. /\ FitSegments(s.segs, n) /\ EndsWith(s.segs, n) /\ u \in Nat /\ u <= Len(sg.str) /\ RebuildFrom(s) = u + 1
  BY <1>2, <1>5, <1>7, <1>8, SegmentsFit, RebuildFromOf
<1>10. IsChanged(sg.segs, Len(sg.str), s.segs, n, u)
  BY <1>2, <1>7, <1>9 DEF IsChanged
<1>11. LatticeInv(built, s.segs, s.str) /\ IsRelaid(built, ic, u, n)
  BY <1>2, <1>9, <1>10, RelaidInv
<1>12. PICK d \in Searched(built) : ic' = d \/ ic' = WithCandidates(d, candiFr')
  BY <1>4 DEF Built, Listed
<1> HIDE DEF built, u, n
<1>13. LatticeInv(d, s.segs, s.str) /\ KeepsChoices(d, built)
  BY <1>11, <1>12, SearchedInv, SearchedKeeps DEF LatticeInv
<1>14. ic'.fr = d.fr
  <2>1. Len(s.str) \in Nat /\ Len(s.str) + 1 < MaxLattice /\ candiFr' \in Nat
    BY <1>1, <1>2, <1>7, <1>8, LatticeSize DEF n
  <2>. QED
    BY <2>1, <1>12, <1>13, ListedInv
<1>15. x[2] \in Frames /\ "USER_SELECTED" \in ic.fr[x[2]].bw /\ ic.fr[x[2]].sel = x[1]
  BY <1>1 DEF ChosenInv, Stands
<1>16. x[2] <= u
  <2>1. ~ (x[2] >= ic.tail)
    BY <1>2, <1>15 DEF LatticeInv, ClearBehind
  <2>. QED
    BY <2>1, <1>2, <1>5, <1>15, LatticeSize
<1>17. built.fr[x[2]] = ic.fr[x[2]]
  BY <1>11, <1>15, <1>16 DEF IsRelaid
<1>. QED
  BY <1>13, <1>14, <1>15, <1>17 DEF KeepsChoices, Stands

\* More segments cut a longer input.
LEMMA LongerInput ==
  ASSUME NEW a, NEW m, FitSegments(a, m), EndsWith(a, m),
         NEW b, NEW n, FitSegments(b, n), EndsWith(b, n), IsStrictPrefix(a, b)
  PROVE  m < n
<1> DEFINE k == Len(a)
<1>1. /\ a \in Seq(Segment) /\ b \in Seq(Segment) /\ k \in Nat /\ Len(b) \in Nat /\ m \in Nat /\ n \in Nat
      /\ k <= Len(b) /\ SubSeq(a, 1, k) = SubSeq(b, 1, k) /\ a # b
  BY DEF FitSegments, IsStrictPrefix, IsPrefix
<1>2. SubSeq(a, 1, k) = a /\ SubSeq(b, 1, Len(b)) = b
  BY <1>1
<1>3. k < Len(b)
  BY <1>1, <1>2
<1>4. k + 1 \in 1 .. Len(b)
  BY <1>1, <1>3
<1>5. /\ b[k + 1].start \in Nat /\ End(b[k + 1]) \in Nat
      /\ b[k + 1].start < End(b[k + 1]) /\ End(b[k + 1]) <= n
  BY <1>4 DEF FitSegments
<1>6. CASE a = << >>
  BY <1>1, <1>5, <1>6 DEF EndsWith
<1>7. CASE a # << >>
  <2>1. k \in 1 .. k /\ k \in 1 .. Len(b) /\ k < k + 1
    BY <1>1, <1>3, <1>7
  <2>2. a[k] = b[k]
    <3>1. \A i \in 1 .. k : SubSeq(a, 1, k)[i] = a[i] /\ SubSeq(b, 1, k)[i] = b[i]
      BY <1>1, <1>3
    <3>. QED
      BY <3>1, <2>1, <1>1
  <2>3. End(b[k]) <= b[k + 1].start
    BY <2>1, <1>4 DEF FitSegments
  <2>4. End(a[k]) = m
    BY <1>7 DEF EndsWith
  <2>. QED
    BY <2>2, <2>3, <2>4, <1>1, <1>5
<1>. QED
  BY <1>6, <1>7

\* Only typing at the end makes the segments more.
LEMMA TypesOnInserts ==
  ASSUME ViewInv, ViewInv', FitsField, Next, TypesOn
  PROVE  \E ch \in Typed : Insert(ch)
<1>0. IsStrictPrefix(sg.segs, sg'.segs) /\ cursor = LastFr(ic)
  BY DEF TypesOn
<1>1. sg' # sg
  BY <1>0 DEF IsStrictPrefix
<1>2. sg \in Segmentor /\ Len(sg.segs) \in Nat
  BY DEF ViewInv, SegmentorInv, Segmentor
<1>3. sg' # Cleared
  <2>1. SUFFICES ASSUME sg' = Cleared PROVE FALSE
    OBVIOUS
  <2>2. sg'.segs = << >>
    BY <2>1 DEF Cleared
  <2>3. Len(sg.segs) <= 0 /\ sg.segs # << >>
    BY <2>2, <1>0 DEF IsStrictPrefix, IsPrefix
  <2>. QED
    BY <2>3, <1>2 DEF Segmentor
<1>4. ~ ClearIC
  BY <1>1, <1>3 DEF ClearIC
<1>5. ~ Backspace
  <2>1. SUFFICES ASSUME Backspace PROVE FALSE
    OBVIOUS
  <2>2. Running /\ ~ isEmpty
    BY <2>1 DEF Backspace
  <2>3. Rebuild(ic, Popped(sg))
    <3>1. candiFr > 0 => \E c : Rebuild(c, sg)
      BY <2>1 DEF Backspace
    <3>2. ~ (candiFr > 0)
      BY <3>1, <1>1 DEF Rebuild
    <3>. QED
      BY <3>2, <2>1, <1>0 DEF Backspace
  <2>4. sg' = Popped(sg)
    BY <2>3, <1>1 DEF Rebuild
  <2>5. /\ Cuts(sg.segs, sg.str) /\ sg.str = sg.buf /\ sg.str # << >> /\ Len(sg.str) \in Nat
        /\ Len(sg.str) < LenModulus /\ Len(sg.str) + 1 < UINT_MAX
        /\ FitSegments(sg.segs, Len(sg.str)) /\ EndsWith(sg.segs, Len(sg.str))
    BY <2>2, ViewFacts, Unchanged DEF FitsField
  <2>6. Len(sg.str) < UINT_MAX
    BY <2>5 DEF UINT_MAX
  <2>7. Len(sg'.buf) = Len(sg.buf) - 1
    BY <2>4, <2>5, <2>6, <1>2, PoppedCuts
  <2>8. /\ sg' \in Segmentor /\ Cuts(sg'.segs, sg'.str) /\ Len(sg'.str) + 1 < MaxLattice
        /\ sg'.str = sg'.buf
    BY DEF ViewInv, SegmentorInv
  <2>9. FitSegments(sg'.segs, Len(sg'.str)) /\ EndsWith(sg'.segs, Len(sg'.str))
    BY <2>8, SegmentsFit
  <2>10. Len(sg.str) < Len(sg'.str)
    BY <2>5, <2>9, <1>0, LongerInput
  <2>. QED
    BY <2>5, <2>7, <2>8, <2>10
<1>6. ~ Delete
  <2>1. SUFFICES ASSUME Delete PROVE FALSE
    OBVIOUS
  <2>2. Running /\ cursor < LastFr(ic)
    BY <2>1 DEF Delete
  <2>. QED
    BY <2>2, <1>0, ViewFacts
<1>7. ~ (MoveLeft \/ MoveLeftSyllable \/ MoveHome \/ MoveRight \/ MoveRightSyllable \/ MoveEnd \/ DeleteCandidate)
  BY <1>1 DEF MoveLeft, MoveLeftSyllable, MoveHome, MoveRight, MoveRightSyllable, MoveEnd, DeleteCandidate
<1>8. ~ (SelectSentence \/ Escape \/ \E ch \in Typed : InsertAlone(ch))
  BY <1>4 DEF SelectSentence, Escape, InsertAlone
<1>9. ~ \E w \in candis : SelectWord(w)
  BY <1>1, <1>4 DEF SelectWord
<1>. QED
  BY <1>5, <1>6, <1>7, <1>8, <1>9 DEF Next

\* The words chosen before the choice that is next, in order, each before every candidate.
LEMMA ChosenInvariant == Spec /\ []FitsField => [](ViewInv /\ ChosenInv)
<1>1. Init => ViewInv /\ ChosenInv
  <2>1. Init => ChosenInv
    BY DEF Init, ChosenInv
  <2>. QED
    BY <2>1, InitView
<1>2. ViewInv /\ ChosenInv /\ [Next]_vars /\ FitsField /\ FitsField' => (ViewInv /\ ChosenInv)'
  BY NextView, NextChosen
<1>. QED
  BY <1>1, <1>2, PTL DEF Spec

\* Typing on at the end of the input and choosing further words leave the words chosen before
\* chosen, though both build and search the lattice again (buildLattice from updatedFrom + 1 on,
\* makeSelection).
THEOREM ChoicesKeepStanding == Spec /\ []FitsField => ChoicesStand
<1>1. ASSUME ViewInv, ViewInv', ChosenInv, FitsField, FitsField', [Next]_vars
      PROVE  [TypesOn \/ ChoosesMore => \A w \in chosen : Stands(w) => Stands(w)']_vars
  <2>1. SUFFICES ASSUME Next, TypesOn \/ ChoosesMore, NEW x \in chosen, Stands(x)
                 PROVE  Stands(x)'
    BY <1>1
  <2>2. CASE TypesOn
    <3>1. PICK ch \in Typed : Insert(ch)
      BY <2>1, <2>2, <1>1, TypesOnInserts
    <3>2. ch \in Keys
      BY Zenon, ViewAssumption
    <3>. QED
      BY <3>1, <3>2, <2>1, <2>2, <1>1, InsertStands DEF FitsField
  <2>3. CASE ChoosesMore
    <3>1. \E w \in candis : SelectWord(w)
      BY <2>1, <2>3, <1>1, NextNarrows DEF Narrows, ChoosesMore
    <3>. QED
      BY <3>1, <2>1, <2>3, <1>1, SelectWordStands
  <2>. QED
    BY <2>1, <2>2, <2>3
<1>2. (ViewInv /\ ChosenInv) /\ (ViewInv /\ ChosenInv)' /\ FitsField /\ FitsField' /\ [Next]_vars
        => [TypesOn \/ ChoosesMore => \A w \in chosen : Stands(w) => Stands(w)']_vars
  BY <1>1
<1>. QED
  BY <1>2, ChosenInvariant, PTL DEF Spec, ChoicesStand

-----------------------------------------------------------------------------
(***************************************************************************)
(* The sentence an input session converts to is the best path: what the    *)
(* lattice offers wherever a path may pass (the ladder), that the best     *)
(* path therefore takes every word the user has chosen, and that the marks *)
(* the handlers leave in the frames stay such that it can.                 *)
(***************************************************************************)

-----------------------------------------------------------------------------
(* The frame before.                                                       *)

\* What Before is.
LEMMA BeforeFacts ==
  ASSUME NEW P \in SUBSET Nat, NEW f \in Nat
  PROVE  /\ Before(P, f) \in Nat /\ Before(P, f) <= f
         /\ f > 0 => Before(P, f) < f
         /\ Before(P, f) = 0 \/ (Before(P, f) \in P /\ Before(P, f) < f)
         /\ \A g \in P : g < f => g <= Before(P, f)
<1> DEFINE S == {0} \cup {g \in P : g < f}
<1>1. S \in SUBSET Nat
  <2>1. \A g \in S : g \in Nat
    OBVIOUS
  <2> HIDE DEF S
  <2>. QED
    BY <2>1
<1>2. S # {} /\ \A s \in S : s <= f
  OBVIOUS
<1>3. \A s \in S : s = 0 \/ (s \in P /\ s < f)
  OBVIOUS
<1>4. \A g \in P : g < f => g \in S
  OBVIOUS
<1> HIDE DEF S
<1>5. Max(S) \in S /\ \A s \in S : s <= Max(S)
  BY <1>1, <1>2, GreatestNumber
<1>6. Before(P, f) = Max(S)
  BY DEF Before, S
<1>7. Max(S) \in Nat /\ Max(S) <= f
  BY <1>1, <1>2, <1>5
<1>8. Max(S) = 0 \/ (Max(S) \in P /\ Max(S) < f)
  BY <1>3, <1>5
<1>9. \A g \in P : g < f => g <= Max(S)
  BY <1>4, <1>5
<1> HIDE DEF Before
<1>. QED
  BY <1>6, <1>7, <1>8, <1>9

\* How to tell that it is x.
LEMMA BeforeIs ==
  ASSUME NEW P \in SUBSET Nat, NEW f \in Nat, NEW x \in Nat, x = 0 \/ x \in P, x < f,
         \A g \in P : g < f => g <= x
  PROVE  Before(P, f) = x
<1>1. /\ Before(P, f) \in Nat /\ Before(P, f) < f
      /\ Before(P, f) = 0 \/ Before(P, f) \in P
      /\ \A g \in P : g < f => g <= Before(P, f)
  <2>1. f > 0
    OBVIOUS
  <2>. QED
    BY <2>1, BeforeFacts
<1>2. x <= Before(P, f)
  BY <1>1
<1>3. Before(P, f) <= x
  BY <1>1
<1>. QED
  BY <1>1, <1>2, <1>3

\* The next frame of a path.
LEMMA NextOnPath ==
  ASSUME NEW P \in SUBSET Nat, NEW f \in Nat, f = 0 \/ f \in P, NEW t \in P, f < t
  PROVE  \E g \in P : f < g /\ g <= t /\ Before(P, g) = f /\ \A h \in P : f < h => g <= h
<1> DEFINE S == {g \in P : f < g}
<1>1. S \in SUBSET Nat /\ S # {} /\ t \in S
  OBVIOUS
<1>2. PICK g \in S : \A h \in S : g <= h
  BY <1>1, LeastNumber
<1>3. g \in P /\ f < g /\ g \in Nat /\ g <= t /\ \A h \in P : f < h => g <= h
  BY <1>1, <1>2
<1>4. \A h \in P : h < g => h <= f
  BY <1>3
<1>5. Before(P, g) = f
  BY <1>3, <1>4, BeforeIs
<1>. QED
  BY <1>3, <1>5

-----------------------------------------------------------------------------
(* The ladder.                                                             *)

\* Where a path may pass: the start, and the ends of the segments no separator follows.
Live(segs) ==
  {0} \cup {End(segs[k]) : k \in {k \in 1 .. Len(segs) : k = Len(segs) \/ segs[k + 1].type # "sep"}}

\* The segments fill the input of length n.
Fill(segs, n) ==
  /\ FitSegments(segs, n) /\ EndsWith(segs, n)
  /\ \A k \in 1 .. Len(segs) : segs[k].start = EndOf(segs, k - 1)

\* See Fill.
LEMMA CutsFill ==
  ASSUME NEW segs \in Seq(Segment), NEW str \in Seq(Keys), Cuts(segs, str), Len(str) + 1 < MaxLattice
  PROVE  Fill(segs, Len(str))
<1>1. FitSegments(segs, Len(str)) /\ EndsWith(segs, Len(str))
  BY CutsFit, CutsEnd
<1>2. \A k \in 1 .. Len(segs) : segs[k].start = EndOf(segs, k - 1)
  <2>1. DOMAIN segs = 1 .. Len(segs) /\ Len(segs) \in Nat
    OBVIOUS
  <2>2. \A k \in 1 .. Len(segs) : segs[k].start = IF k = 1 THEN 0 ELSE End(segs[k - 1])
    BY <2>1 DEF Cuts
  <2>3. \A k \in 1 .. Len(segs) : k - 1 = 0 <=> k = 1
    BY <2>1
  <2>. QED
    BY <2>2, <2>3 DEF EndOf
<1>. QED
  BY <1>1, <1>2 DEF Fill

\* The ends of the segments, in order.
LEMMA EndsInOrder ==
  ASSUME NEW segs, NEW n, Fill(segs, n)
  PROVE  /\ Len(segs) \in Nat /\ n \in Nat /\ n + 1 < MaxLattice
         /\ \A k \in 0 .. Len(segs) : EndOf(segs, k) \in Nat /\ EndOf(segs, k) <= n /\ EndOf(segs, k) \in Frames
         /\ \A k \in 1 .. Len(segs) : segs[k] \in Segment /\ EndOf(segs, k - 1) < EndOf(segs, k)
         /\ \A j, k \in 0 .. Len(segs) : j < k => EndOf(segs, j) < EndOf(segs, k)
         /\ EndOf(segs, 0) = 0 /\ EndOf(segs, Len(segs)) = n
<1> DEFINE m == Len(segs)
<1>1. m \in Nat /\ n \in Nat /\ n + 1 < MaxLattice /\ 0 \in Frames /\ \A k \in 1 .. m : segs[k] \in Segment
  BY LatticeSize DEF Fill, FitSegments
<1>2. EndOf(segs, 0) = 0 /\ EndOf(segs, m) = n
  <2>1. segs = << >> <=> m = 0
    BY DEF Fill, FitSegments
  <2>. QED
    BY <2>1 DEF Fill, EndsWith, EndOf
<1>3. \A k \in 1 .. m : /\ segs[k].start \in Nat /\ End(segs[k]) \in Nat
                        /\ segs[k].start < End(segs[k]) /\ End(segs[k]) <= n
                        /\ End(segs[k]) \in Frames
  BY DEF Fill, FitSegments
<1>4. \A j, k \in 1 .. m : j < k => End(segs[j]) <= segs[k].start
  BY DEF Fill, FitSegments
<1>5. \A k \in 1 .. m : EndOf(segs, k) = End(segs[k]) /\ segs[k].start = EndOf(segs, k - 1)
  BY <1>1 DEF Fill, EndOf
<1> HIDE DEF m
<1>6. \A k \in 0 .. m : EndOf(segs, k) \in Nat /\ EndOf(segs, k) <= n /\ EndOf(segs, k) \in Frames
  <2>1. \A k \in 0 .. m : k = 0 \/ k \in 1 .. m
    BY <1>1
  <2>. QED
    BY <2>1, <1>1, <1>2, <1>3, <1>5
<1>7. \A k \in 1 .. m : EndOf(segs, k - 1) < EndOf(segs, k)
  BY <1>3, <1>5
<1>8. ASSUME NEW j \in 0 .. m, NEW k \in 0 .. m, j < k
      PROVE  EndOf(segs, j) < EndOf(segs, k)
  <2>1. k \in 1 .. m
    BY <1>1, <1>8
  <2>2. CASE j = 0
    <3>1. 0 <= segs[k].start /\ segs[k].start < End(segs[k]) /\ segs[k].start \in Nat /\ End(segs[k]) \in Nat
      BY <2>1, <1>3
    <3>. QED
      BY <3>1, <2>1, <2>2, <1>2, <1>5
  <2>3. CASE j \in 1 .. m
    <3>1. /\ End(segs[j]) <= segs[k].start /\ segs[k].start < End(segs[k])
          /\ End(segs[j]) \in Nat /\ segs[k].start \in Nat /\ End(segs[k]) \in Nat
      BY <2>1, <2>3, <1>3, <1>4, <1>8
    <3>2. End(segs[j]) < End(segs[k])
      BY <3>1
    <3>. QED
      BY <3>2, <2>1, <2>3, <1>5
  <2>. QED
    BY <2>2, <2>3, <1>1
<1>. QED
  BY <1>1, <1>2, <1>6, <1>7, <1>8 DEF m

\* Where a path may pass is the start or the end of a segment, and a segment that is no separator
\* begins there.
LEMMA LiveEnds ==
  ASSUME NEW segs, NEW n, Fill(segs, n)
  PROVE  /\ Live(segs) \in SUBSET Nat /\ 0 \in Live(segs) /\ n \in Live(segs)
         /\ \A x \in Live(segs) : x <= n /\ x \in Frames
         /\ \A x \in Live(segs) : \E k \in 0 .. Len(segs) : x = EndOf(segs, k)
         /\ \A k \in 1 .. Len(segs) : segs[k].type # "sep" => EndOf(segs, k - 1) \in Live(segs)
         /\ \A k \in 2 .. Len(segs) : segs[k].type = "sep" => EndOf(segs, k - 1) \notin Live(segs)
         /\ \A k \in 1 .. Len(segs) : \A x \in Live(segs) : x < EndOf(segs, k) => x <= EndOf(segs, k - 1)
<1> DEFINE m == Len(segs)
           e(k) == EndOf(segs, k)
<1>1. m \in Nat /\ n \in Nat
  BY EndsInOrder
<1>2. \A k \in 0 .. m : e(k) \in Nat /\ e(k) <= n /\ e(k) \in Frames
  BY EndsInOrder
<1>3. \A j, k \in 0 .. m : j < k => e(j) < e(k)
  BY EndsInOrder
<1>4. e(0) = 0 /\ e(m) = n
  BY EndsInOrder
<1>5. \A x : x \in Live(segs) <=> x = 0 \/ \E k \in 1 .. m : x = e(k) /\ (k = m \/ segs[k + 1].type # "sep")
  <2>1. \A k \in 1 .. m : e(k) = End(segs[k])
    BY <1>1 DEF EndOf
  <2> HIDE DEF e
  <2>. QED
    BY <2>1 DEF Live
<1> HIDE DEF e, m
<1>6. \A x \in Live(segs) : \E k \in 0 .. m : x = e(k)
  <2>1. 0 \in 0 .. m /\ \A k \in 1 .. m : k \in 0 .. m
    BY <1>1
  <2>. QED
    BY <2>1, <1>4, <1>5
<1>7. Live(segs) \in SUBSET Nat /\ \A x \in Live(segs) : x <= n /\ x \in Frames
  BY <1>2, <1>6
<1>8. 0 \in Live(segs) /\ n \in Live(segs)
  <2>1. m = 0 \/ m \in 1 .. m
    BY <1>1
  <2>. QED
    BY <2>1, <1>4, <1>5
<1>9. ASSUME NEW k \in 1 .. m, segs[k].type # "sep"
      PROVE  e(k - 1) \in Live(segs)
  <2>1. CASE k = 1
    <3>1. k - 1 = 0
      BY <2>1
    <3>. QED
      BY <3>1, <1>4, <1>8
  <2>2. CASE k # 1
    <3>1. k - 1 \in 1 .. m /\ (k - 1) + 1 = k
      BY <1>1, <2>2
    <3>. QED
      BY <3>1, <1>5, <1>9
  <2>. QED
    BY <2>1, <2>2
<1>10. ASSUME NEW k \in 2 .. m, segs[k].type = "sep", e(k - 1) \in Live(segs)
       PROVE  FALSE
  <2>1. k - 1 \in 1 .. m /\ (k - 1) + 1 = k /\ k - 1 # m /\ k - 1 > 0 /\ k - 1 \in 0 .. m /\ 0 \in 0 .. m
    BY <1>1
  <2>2. e(k - 1) # 0
    <3>1. e(0) < e(k - 1)
      BY <2>1, <1>3
    <3>. QED
      BY <3>1, <1>4
  <2>3. PICK j \in 1 .. m : e(k - 1) = e(j) /\ (j = m \/ segs[j + 1].type # "sep")
    BY <2>2, <1>5, <1>10
  <2>4. j = k - 1
    <3>1. j \in 0 .. m /\ ~ (j < k - 1) /\ ~ (k - 1 < j)
      BY <2>1, <2>3, <1>1, <1>2, <1>3
    <3>. QED
      BY <3>1, <2>1
  <2>. QED
    BY <2>1, <2>3, <2>4, <1>10
<1>11. ASSUME NEW k \in 1 .. m, NEW x \in Live(segs), x < e(k)
       PROVE  x <= e(k - 1)
  <2>1. PICK j \in 0 .. m : x = e(j)
    BY <1>6
  <2>2. j < k
    <3>1. k \in 0 .. m /\ (j < k \/ j = k \/ k < j)
      BY <1>1
    <3>2. CASE k < j
      <4>1. e(k) < e(j) /\ e(k) \in Nat /\ e(j) \in Nat
        BY <3>1, <3>2, <1>2, <1>3
      <4>. QED
        BY <4>1, <2>1, <1>11
    <3>3. CASE j = k
      <4>1. e(k) \in Nat
        BY <3>1, <1>2
      <4>. QED
        BY <4>1, <3>3, <2>1, <1>11
    <3>. QED
      BY <3>1, <3>2, <3>3
  <2>3. k - 1 \in 0 .. m /\ (j = k - 1 \/ j < k - 1)
    BY <2>2, <1>1
  <2>4. e(j) = e(k - 1) \/ e(j) < e(k - 1)
    BY <2>3, <1>3
  <2>5. e(k - 1) \in Nat /\ e(j) \in Nat
    BY <2>3, <1>2
  <2>. QED
    BY <2>1, <2>4, <2>5
<1>. QED
  BY <1>6, <1>7, <1>8, <1>9, <1>10, <1>11 DEF e, m

\* Where the words a segment lays in a blank frame start.
LEMMA LaidWords ==
  ASSUME NEW at \in Frame, NEW from \in Frame, NEW seg \in Segment, seg.start \in Frames, at.lex = {}
  PROVE  /\ seg.type = "sep" => Laid(at, from, seg).lex = from.lex
         /\ seg.type # "sep" => Starts(Laid(at, from, seg)) \subseteq Starts(from) \cup {seg.start}
         /\ seg.type # "sep" /\ Laid(at, from, seg).lex # {} => seg.start \in Starts(Laid(at, from, seg))
<1> DEFINE fr == Laid(at, from, seg)
<1>1. /\ at = [type |-> at.type, bw |-> at.bw, sel |-> at.sel, lex |-> at.lex, home |-> at.home]
      /\ from.lex \in SUBSET Lex /\ seg.type \in SegTypes
  BY DEF Frame, Segment
<1>2. CASE seg.type = "syllable"
  <2> DEFINE lex == SyllableLex(from, seg)
  <2>1. fr.lex = lex
    <3> DEFINE all == at.lex \cup lex
    <3>1. all = lex
      OBVIOUS
    <3>2. fr = [at EXCEPT !.type = "syllable", !.lex = all]
      BY <1>2 DEF Laid
    <3> HIDE DEF all, fr, lex
    <3>. QED
      BY <1>1, <3>1, <3>2
  <2>2. \A l \in lex : l.start \in Starts(from) \cup {seg.start}
    <3>1. \A l \in from.lex : [l EXCEPT !.syls = @ + 1].start = l.start
      BY <1>1 DEF Lex
    <3>2. [start |-> seg.start, syls |-> 1].start = seg.start
      OBVIOUS
    <3>3. \A l \in lex : \/ l = [start |-> seg.start, syls |-> 1]
                         \/ \E x \in from.lex : l = [x EXCEPT !.syls = @ + 1]
      BY Zenon DEF SyllableLex
    <3> HIDE DEF lex
    <3>4. ASSUME NEW l \in lex
          PROVE  l.start = seg.start \/ \E x \in from.lex : l.start = x.start
      <4>1. CASE l = [start |-> seg.start, syls |-> 1]
        BY <4>1, <3>2
      <4>2. ASSUME NEW x \in from.lex, l = [x EXCEPT !.syls = @ + 1]
            PROVE  l.start = x.start
        BY <4>2, <3>1, Zenon
      <4>. QED
        BY <4>1, <4>2, <3>3
    <3>. QED
      BY <3>4 DEF Starts
  <2>3. lex # {} => [start |-> seg.start, syls |-> 1] \in lex
    BY DEF SyllableLex
  <2> HIDE DEF lex, fr
  <2>4. Starts(fr) \subseteq Starts(from) \cup {seg.start}
    BY <2>1, <2>2 DEF Starts
  <2>5. fr.lex # {} => seg.start \in Starts(fr)
    <3>1. [start |-> seg.start, syls |-> 1].start = seg.start
      OBVIOUS
    <3>. QED
      BY <3>1, <2>1, <2>3 DEF Starts
  <2>. QED
    BY <2>4, <2>5, <1>2 DEF fr
<1>3. CASE seg.type = "sep"
  <2>1. fr = [at EXCEPT !.type = "sep", !.lex = from.lex, !.home = from.home]
    BY <1>3 DEF Laid
  <2> HIDE DEF fr
  <2>2. fr.lex = from.lex
    BY <2>1, <1>1
  <2>. QED
    BY <2>2, <1>3 DEF fr
<1>4. CASE seg.type = "string"
  <2> DEFINE all == at.lex \cup {[start |-> seg.start, syls |-> 0]}
  <2>1. all = {[start |-> seg.start, syls |-> 0]}
    OBVIOUS
  <2>2. fr = [at EXCEPT !.type = "string", !.lex = all]
    BY <1>4 DEF Laid
  <2> HIDE DEF fr, all
  <2>3. fr.lex = {[start |-> seg.start, syls |-> 0]}
    BY <1>1, <2>1, <2>2
  <2>4. Starts(fr) = {seg.start}
    <3>1. [start |-> seg.start, syls |-> 0].start = seg.start
      OBVIOUS
    <3>. QED
      BY <3>1, <2>3 DEF Starts
  <2>. QED
    BY <2>4, <1>4 DEF fr
<1>. QED
  BY <1>1, <1>2, <1>3, <1>4 DEF SegTypes

\* What the frames of a lattice offer to a path: words start where a path may pass; where one may
\* pass and words end, one of them is as short as can be; and where a word crosses, words end too.
IsRung(fr, live, f) ==
  /\ \A s \in Starts(fr[f]) : s \in live /\ s < f
  /\ fr[f].lex # {} => Before(live, f) \in Starts(fr[f])
  /\ \A s \in Starts(fr[f]) : \A g \in live : s < g /\ g < f => fr[g].lex # {}

\* Each segment lays a rung.
LEMMA SegmentRung ==
  ASSUME NEW segs, NEW n, Fill(segs, n), NEW k \in 1 .. Len(segs),
         IsRung(Whole(segs), Live(segs), EndOf(segs, k - 1))
  PROVE  IsRung(Whole(segs), Live(segs), EndOf(segs, k))
<1> DEFINE W == Whole(segs)
           L == Live(segs)
           d == EndOf(segs, k - 1)
           e == EndOf(segs, k)
<1>1. /\ Len(segs) \in Nat /\ d \in Nat /\ e \in Nat /\ d < e /\ d \in Frames /\ e \in Frames
      /\ segs[k] \in Segment /\ segs[k].start = d /\ End(segs[k]) = e
  <2>1. k - 1 \in 0 .. Len(segs) /\ k \in 0 .. Len(segs) /\ k # 0
    BY EndsInOrder
  <2>2. segs[k].start = d /\ End(segs[k]) = e
    BY <2>1 DEF Fill, EndOf
  <2>. QED
    BY <2>1, <2>2, EndsInOrder
<1>2. /\ L \in SUBSET Nat /\ 0 \in L
      /\ segs[k].type # "sep" => d \in L
      /\ k # 1 /\ segs[k].type = "sep" => d \notin L
      /\ \A x \in L : x < e => x <= d
  <2>1. k = 1 \/ k \in 2 .. Len(segs)
    BY <1>1
  <2>. QED
    BY <2>1, LiveEnds
<1>3. /\ W[e] = Laid(EmptyContext.fr[e], W[d], segs[k])
      /\ W[d] \in Frame /\ W[e] \in Frame /\ EmptyContext.fr[e] \in Frame /\ EmptyContext.fr[e].lex = {}
      /\ d = 0 => W[d].lex = {}
  <2>1. FitSegments(segs, n) /\ EndsWith(segs, n)
    BY DEF Fill
  <2>2. IsLaid(W, EmptyContext.fr, segs, 0, n)
    BY <2>1, WholeLaid
  <2>3. segs[k].start >= 0
    BY <1>1
  <2>4. W[e] = Laid(EmptyContext.fr[e], W[d], segs[k])
    BY <2>2, <2>3, <1>1 DEF IsLaid
  <2>5. EmptyContext.fr[e] \in Frame /\ EmptyContext.fr[e].lex = {}
    BY <1>1, EmptyIsContext, ContextFields DEF Blank
  <2>6. W[d] \in Frame /\ W[e] \in Frame /\ (d = 0 => Blank(W, d))
    BY <2>1, <1>1, WholeFrames
  <2>. QED
    BY <2>4, <2>5, <2>6 DEF Blank
<1>a. IsRung(W, L, d)
  OBVIOUS
<1> HIDE DEF W, L, d, e
<1>4. ASSUME segs[k].type = "sep"
      PROVE  IsRung(W, L, e)
  <2>1. W[e].lex = W[d].lex /\ Starts(W[e]) = Starts(W[d])
    <3>1. W[e].lex = W[d].lex
      BY <1>1, <1>3, <1>4, LaidWords
    <3>. QED
      BY <3>1 DEF Starts
  <2>2. CASE W[d].lex = {}
    BY <2>1, <2>2 DEF IsRung, Starts
  <2>3. CASE W[d].lex # {}
    <3>a. \A s \in Starts(W[d]) : s \in L /\ s < d
      BY <1>a, Zenon DEF IsRung
    <3>1. d > 0 /\ d \notin L
      <4>1. d # 0
        BY <2>3, <1>3
      <4>2. k # 1
        BY <4>1, EndsInOrder DEF d
      <4>. QED
        BY <4>1, <4>2, <1>1, <1>2, <1>4
    <3>2. Before(L, e) = Before(L, d)
      <4>1. /\ Before(L, d) \in Nat /\ Before(L, d) < d
            /\ Before(L, d) = 0 \/ Before(L, d) \in L
            /\ \A g \in L : g < d => g <= Before(L, d)
        BY <3>1, <1>1, <1>2, BeforeFacts
      <4>2. \A g \in L : g < e => g <= Before(L, d)
        <5>1. \A g \in L : g < e => g < d
          BY <3>1, <1>1, <1>2
        <5>. QED
          BY <5>1, <4>1
      <4>3. Before(L, d) < e
        BY <4>1, <1>1
      <4>. QED
        BY <4>1, <4>2, <4>3, <1>1, <1>2, BeforeIs
    <3>3. \A s \in Starts(W[e]) : s \in L /\ s < e
      <4>1. \A s \in L : s < d => s < e
        BY <1>1, <1>2
      <4>. QED
        BY <4>1, <3>a, <2>1
    <3>4. Before(L, e) \in Starts(W[e])
      BY <3>2, <2>1, <2>3, <1>a DEF IsRung
    <3>5. ASSUME NEW s \in Starts(W[e]), NEW g \in L, s < g, g < e
          PROVE  W[g].lex # {}
      <4>1. g < d
        BY <3>1, <3>5, <1>1, <1>2
      <4>. QED
        BY <4>1, <3>5, <2>1, <1>a DEF IsRung
    <3>. QED
      BY <3>3, <3>4, <3>5 DEF IsRung
  <2>. QED
    BY <2>2, <2>3
<1>5. ASSUME segs[k].type # "sep"
      PROVE  IsRung(W, L, e)
  <2>1. d \in L
    BY <1>2, <1>5
  <2>2. /\ Starts(W[e]) \subseteq Starts(W[d]) \cup {d}
        /\ W[e].lex # {} => d \in Starts(W[e])
    BY <1>1, <1>3, <1>5, LaidWords
  <2>3. \A s \in Starts(W[e]) : s \in L /\ s < e
    <3>1. \A s \in Starts(W[d]) : s \in L /\ s < d
      BY <1>a DEF IsRung
    <3>2. \A s \in L : s < d => s < e
      BY <1>1, <1>2
    <3>. QED
      BY <3>1, <3>2, <2>1, <2>2, <1>1
  <2>4. Before(L, e) = d
    BY <2>1, <1>1, <1>2, BeforeIs
  <2>5. ASSUME NEW s \in Starts(W[e]), NEW g \in L, s < g, g < e
        PROVE  W[g].lex # {}
    <3>1. s \in Starts(W[d])
      <4>1. s # d
        BY <2>5, <1>1, <1>2
      <4>. QED
        BY <4>1, <2>2
    <3>2. g = d \/ g < d
      BY <2>5, <1>1, <1>2
    <3>3. CASE g = d
      BY <3>1, <3>3 DEF Starts
    <3>4. CASE g < d
      BY <3>1, <3>4, <2>5, <1>a DEF IsRung
    <3>. QED
      BY <3>2, <3>3, <3>4
  <2>. QED
    BY <2>2, <2>3, <2>4, <2>5 DEF IsRung
<1>. QED
  BY <1>4, <1>5 DEF W, L, e

\* A frame where no word ends is a rung.
LEMMA EmptyRung ==
  ASSUME NEW fr, NEW live, NEW f, fr[f].lex = {}
  PROVE  IsRung(fr, live, f)
BY DEF IsRung, Starts

\* The frames of a lattice built in one go are rungs; from the tail, a path comes to the last key.
LEMMA WholeRungs ==
  ASSUME NEW segs, NEW n, Fill(segs, n)
  PROVE  /\ \A f \in Frames : IsRung(Whole(segs), Live(segs), f)
         /\ Starts(Whole(segs)[n + 1]) = {n}
<1> DEFINE W == Whole(segs)
           L == Live(segs)
           m == Len(segs)
           P == {k \in 0 .. m : IsRung(W, L, EndOf(segs, k))}
<1>1. /\ FitSegments(segs, n) /\ EndsWith(segs, n) /\ m \in Nat /\ n \in Nat /\ n + 1 < MaxLattice
      /\ IsLaid(W, EmptyContext.fr, segs, 0, n) /\ EndOf(segs, 0) = 0
  BY WholeLaid, EndsInOrder DEF Fill
<1>2. n \in Frames /\ n + 1 \in Frames
  BY <1>1, LatticeSize
<1>3. \A f \in Frames : EmptyContext.fr[f] \in Frame /\ EmptyContext.fr[f].lex = {}
  BY EmptyIsContext, ContextFields DEF Blank
<1>4. 0 .. m \subseteq P
  <2>1. 0 \in P
    <3>1. W[0].lex = {}
      BY <1>1, LatticeSize, WholeFrames DEF Blank
    <3>. QED
      BY <3>1, <1>1, EmptyRung
  <2>2. ASSUME NEW k \in 1 .. m, k - 1 \in P
        PROVE  k \in P
    BY <2>2, <1>1, SegmentRung
  <2> HIDE DEF P
  <2>. QED
    BY <2>1, <2>2, <1>1, Stays
<1>5. Starts(W[n + 1]) = {n} /\ W[n + 1].lex # {}
  <2>1. W[n + 1] = Ended(EmptyContext.fr[n + 1], n)
    BY <1>1 DEF IsLaid
  <2>2. W[n + 1].lex = {} \cup {[start |-> n, syls |-> 0]}
    BY <2>1, <1>1, <1>2, <1>3, EndedFrame
  <2>3. [start |-> n, syls |-> 0].start = n
    OBVIOUS
  <2> HIDE DEF W
  <2>. QED
    BY <2>2, <2>3 DEF Starts
<1>6. IsRung(W, L, n + 1)
  <2>1. L \in SUBSET Nat /\ n \in L /\ \A x \in L : x <= n
    BY LiveEnds
  <2>2. Before(L, n + 1) = n
    BY <2>1, <1>1, BeforeIs
  <2>3. \A g \in L : ~ (n < g)
    BY <2>1, <1>1
  <2> HIDE DEF W, L
  <2>. QED
    BY <2>1, <2>2, <2>3, <1>1, <1>5 DEF IsRung
<1>7. ASSUME NEW f \in Frames
      PROVE  IsRung(W, L, f)
  <2>1. CASE f # n + 1 /\ ~ EndsAt(segs, 0, m, f) /\ W[f] = EmptyContext.fr[f]
    BY <2>1, <1>3, EmptyRung
  <2>2. CASE f = n + 1
    BY <2>2, <1>6
  <2>3. CASE \E i \in 1 .. m : LaidBy(W, EmptyContext.fr, segs, 0, n, f, i)
    <3>1. PICK i \in 1 .. m : f = End(segs[i])
      BY <2>3 DEF LaidBy
    <3>2. f = EndOf(segs, i) /\ i \in 0 .. m
      BY <3>1 DEF EndOf
    <3>3. i \in P
      BY <3>2, <1>4
    <3>. QED
      BY <3>2, <3>3
  <2>. QED
    <3>1. 0 \in Nat
      OBVIOUS
    <3>2. \/ f # n + 1 /\ ~ EndsAt(segs, 0, m, f) /\ W[f] = EmptyContext.fr[f]
          \/ f = n + 1 /\ W[f] = Ended(EmptyContext.fr[f], n)
          \/ \E i \in 1 .. m : LaidBy(W, EmptyContext.fr, segs, 0, n, f, i)
      BY <3>1, <1>1, ThreeKindsOfFrame
    <3> HIDE DEF W, L, m
    <3>. QED
      BY <3>2, <2>1, <2>2, <2>3
<1>. QED
  BY <1>5, <1>7

\* Words end only in frames that are used.
LEMMA WholeUsed ==
  ASSUME NEW segs, NEW n, Fill(segs, n), NEW f \in Frames, Whole(segs)[f].lex # {}
  PROVE  Whole(segs)[f].type # "unused"
<1> DEFINE W == Whole(segs)
           E == EmptyContext.fr
<1>1. FitSegments(segs, n) /\ EndsWith(segs, n) /\ IsLaid(W, E, segs, 0, n) /\ 0 \in Nat
      /\ n \in Nat /\ n \in Frames
  BY WholeLaid, EndsInOrder, LatticeSize DEF Fill
<1>2. E[f] \in Frame /\ E[f].lex = {}
  BY EmptyIsContext, ContextFields DEF Blank
<1>a. W[f].lex # {}
  OBVIOUS
<1>3. W \in [Frames -> Frame]
  BY <1>1 DEF IsLaid
<1> HIDE DEF W, E
<1>4. \/ f # n + 1 /\ ~ EndsAt(segs, 0, Len(segs), f) /\ W[f] = E[f]
      \/ f = n + 1 /\ W[f] = Ended(E[f], n)
      \/ \E i \in 1 .. Len(segs) : LaidBy(W, E, segs, 0, n, f, i)
  BY <1>1, ThreeKindsOfFrame
<1>5. ASSUME f = n + 1, W[f] = Ended(E[f], n)
      PROVE  W[f].type = "tail"
  BY <1>1, <1>2, <1>5, EndedFrame
<1>6. ASSUME NEW i \in 1 .. Len(segs), LaidBy(W, E, segs, 0, n, f, i)
      PROVE  W[f].type \in SegTypes
  <2>1. /\ segs[i] \in Segment /\ segs[i].start \in Frames
        /\ W[f] = Laid(E[f], W[segs[i].start], segs[i])
    BY <1>6 DEF LaidBy
  <2>2. IsLaidIn(E[f], W[segs[i].start], segs[i], W[f])
    BY <2>1, <1>2, <1>3, LaidFrame
  <2>. QED
    BY <2>1, <2>2 DEF IsLaidIn, Segment
<1>7. "unused" \notin SegTypes
  BY DEF SegTypes
<1>8. W[f].type # "unused"
  BY <1>2, <1>4, <1>5, <1>6, <1>7, <1>a
<1>. QED
  BY <1>8 DEF W

-----------------------------------------------------------------------------
(* The best path.                                                          *)

\* Every frame has the pointers it was given when it was laid.
Own(c, segs) == \A f \in Frames : c.fr[f].home = Whole(segs)[f].home

\* Words are chosen that end with a syllable.
ChoicesFit(c) == \A f \in Frames : "USER_SELECTED" \in c.fr[f].bw => isSyllableFrame(c.fr[f])

\* Where the words end that the user has chosen and a path may take, and that they do not overlap.
ChosenEnds(c, live) == {f \in live \ {0} : "USER_SELECTED" \in c.fr[f].bw}
Apart(c, live) == \A u, v \in ChosenEnds(c, live) : u < v => u <= c.fr[v].sel

\* A path along the words of the lattice.
WordPath(c, P) ==
  /\ P \in SUBSET (1 .. c.tail) /\ c.tail \in P
  /\ \A f \in P : c.fr[f].type # "unused" /\ Before(P, f) \in Starts(c.fr[f])

\* What a lattice offers a path that may pass at the frames of live.
IsLadder(c, live) ==
  /\ c.fr \in [Frames -> Frame] /\ c.tail \in Frames /\ c.tail \in Nat /\ c.tail > 0
  /\ live \in SUBSET Nat /\ 0 \in live /\ \A x \in live : x < c.tail /\ x \in Frames
  /\ \A f \in Frames : IsRung(c.fr, live, f)
  /\ \A f \in Frames : c.fr[f].lex # {} => c.fr[f].type # "unused"

\* Frames with their own pointers are those of the lattice built in one go, but for the marks.
LEMMA OwnAgrees ==
  ASSUME NEW c, NEW segs, NEW str, LatticeInv(c, segs, str), Own(c, segs), segs # << >>
  PROVE  \A f \in Frames : c.fr[f].type = Whole(segs)[f].type /\ c.fr[f].lex = Whole(segs)[f].lex
<1> DEFINE W == Whole(segs)
<1>1. ASSUME NEW f \in Frames
      PROVE  AgreeAt(c.fr, W, f)
  <2>1. \A g \in 0 .. f : g \in Frames
    BY LatticeSize
  <2>2. OwnUpTo(c.fr, W, f)
    BY <2>1 DEF OwnUpTo, Own
  <2>. QED
    BY <2>2 DEF LatticeInv, Kept
<1>. QED
  BY <1>1 DEF AgreeAt

\* The lattice offers a path what the one built in one go does.
LEMMA OwnRungs ==
  ASSUME NEW c, NEW segs, NEW str, LatticeInv(c, segs, str), Fill(segs, Len(str)), Own(c, segs),
         segs # << >>
  PROVE  /\ \A f \in Frames : IsRung(c.fr, Live(segs), f)
         /\ \A f \in Frames : c.fr[f].lex # {} => c.fr[f].type # "unused"
         /\ Starts(c.fr[c.tail]) = {LastFr(c)}
<1> DEFINE W == Whole(segs)
           L == Live(segs)
           n == Len(str)
<1>1. c.tail = n + 1
  BY DEF LatticeInv
<1>2. n \in Nat /\ n + 1 \in Frames /\ LastFr(c) = n
  <2>1. n \in Nat /\ n + 1 < MaxLattice
    BY EndsInOrder
  <2>. QED
    BY <2>1, <1>1, LatticeSize DEF LastFr
<1>3. \A f \in Frames : c.fr[f].type = W[f].type /\ c.fr[f].lex = W[f].lex
  BY OwnAgrees
<1>4. (\A f \in Frames : IsRung(W, L, f)) /\ Starts(W[n + 1]) = {n}
  BY WholeRungs
<1>5. \A f \in Frames : W[f].lex # {} => W[f].type # "unused"
  BY WholeUsed
<1>6. \A f \in L : f \in Frames
  BY LiveEnds
<1> HIDE DEF W, L, n
<1>7. \A f \in Frames : Starts(c.fr[f]) = Starts(W[f])
  BY <1>3 DEF Starts
<1>8. \A f \in Frames : IsRung(c.fr, L, f)
  BY <1>3, <1>4, <1>6, <1>7 DEF IsRung
<1>. QED
  BY <1>1, <1>2, <1>3, <1>4, <1>5, <1>7, <1>8 DEF L, n

\* The paths of the search are the paths along words.
LEMMA PathsAreWordPaths ==
  ASSUME NEW c, NEW segs, NEW str, LatticeInv(c, segs, str), Len(str) \in Nat, Len(str) + 1 < MaxLattice,
         ChoicesFit(c)
  PROVE  \A P : P \in Paths(c) <=> WordPath(c, P)
<1>1. c.tail \in Nat /\ c.tail \in Frames /\ c.tail >= 1 /\ LastFr(c) = c.tail - 1
  <2>1. c.tail = Len(str) + 1
    BY DEF LatticeInv
  <2>. QED
    BY <2>1, LatticeSize DEF LastFr
<1>2. 1 .. c.tail \subseteq Frames
  BY <1>1, LatticeSize
<1>3. \A f \in Frames : ComesFrom(c.fr[f]) = Starts(c.fr[f])
  <2>1. \A f \in Frames : "USER_SELECTED" \in c.fr[f].bw => c.fr[f].sel \in Starts(c.fr[f])
    BY DEF LatticeInv, MarksFit, ChoicesFit
  <2>. QED
    BY <2>1 DEF ComesFrom
<1>4. ASSUME NEW P
      PROVE  (\E Q \in SUBSET (1 .. LastFr(c)) : P = Q \cup {c.tail}) <=>
             (P \in SUBSET (1 .. c.tail) /\ c.tail \in P)
  <2>1. 1 .. c.tail = (1 .. LastFr(c)) \cup {c.tail} /\ c.tail \notin 1 .. LastFr(c)
    BY <1>1
  <2>2. ASSUME P \in SUBSET (1 .. c.tail), c.tail \in P
        PROVE  P \ {c.tail} \in SUBSET (1 .. LastFr(c)) /\ P = (P \ {c.tail}) \cup {c.tail}
    BY <2>1, <2>2
  <2>. QED
    BY <2>1, <2>2
<1>5. ASSUME NEW P \in SUBSET (1 .. c.tail)
      PROVE  IsPath(c, P) <=> \A f \in P : c.fr[f].type # "unused" /\ Before(P, f) \in Starts(c.fr[f])
  BY <1>2, <1>3 DEF IsPath
<1>6. \A P : P \in Paths(c) <=> (\E Q \in SUBSET (1 .. LastFr(c)) : P = Q \cup {c.tail}) /\ IsPath(c, P)
  BY DEF Paths
<1>. QED
  BY <1>4, <1>5, <1>6 DEF WordPath

\* See IsLadder.
LEMMA OwnLadder ==
  ASSUME NEW c, NEW segs, NEW str, LatticeInv(c, segs, str), Fill(segs, Len(str)), Own(c, segs),
         segs # << >>
  PROVE  IsLadder(c, Live(segs))
<1>1. c \in Context /\ c.tail = Len(str) + 1 /\ Len(str) \in Nat /\ Len(str) + 1 < MaxLattice
  BY EndsInOrder DEF LatticeInv
<1>2. c.fr \in [Frames -> Frame] /\ c.tail \in Frames /\ c.tail \in Nat /\ c.tail > 0
  BY <1>1, ContextFields, LatticeSize
<1>3. /\ Live(segs) \in SUBSET Nat /\ 0 \in Live(segs)
      /\ \A x \in Live(segs) : x <= Len(str) /\ x \in Frames
  BY LiveEnds
<1>4. \A x \in Live(segs) : x < c.tail
  BY <1>1, <1>3
<1>. QED
  BY <1>2, <1>3, <1>4, OwnRungs DEF IsLadder

\* A path passes where it may.
LEMMA PathStaysLive ==
  ASSUME NEW c, NEW live, IsLadder(c, live), NEW P, WordPath(c, P)
  PROVE  /\ P \in SUBSET Nat /\ \A f \in P : f \in Frames /\ f > 0 /\ f <= c.tail
         /\ P \ {c.tail} \subseteq live
<1>1. P \in SUBSET (1 .. c.tail) /\ c.tail \in Nat /\ c.tail \in Frames /\ c.tail \in P
  BY DEF IsLadder, WordPath
<1>2. P \in SUBSET Nat /\ \A f \in P : f \in Frames /\ f > 0 /\ f <= c.tail
  BY <1>1, LatticeSize
<1>3. ASSUME NEW f \in P, f # c.tail
      PROVE  f \in live
  <2>1. f \in Nat /\ f < c.tail
    BY <1>1, <1>2, <1>3
  <2>2. PICK g \in P : Before(P, g) = f
    BY <2>1, <1>1, <1>2, NextOnPath
  <2>3. f \in Starts(c.fr[g]) /\ IsRung(c.fr, live, g)
    BY <2>2, <1>2 DEF WordPath, IsLadder
  <2>. QED
    BY <2>3 DEF IsRung
<1>. QED
  BY <1>2, <1>3

\* If there is a path at all, words end wherever one may pass.
LEMMA PathFillsLadder ==
  ASSUME NEW c, NEW live, IsLadder(c, live), NEW P, WordPath(c, P), NEW g \in live, g # 0
  PROVE  c.fr[g].lex # {}
<1>1. /\ P \in SUBSET Nat /\ g \in Nat /\ g < c.tail /\ g > 0 /\ c.tail \in P /\ c.tail \in Nat
      /\ \A f \in P : f \in Frames /\ Before(P, f) \in Starts(c.fr[f])
  <2>1. P \in SUBSET Nat /\ \A f \in P : f \in Frames
    BY PathStaysLive
  <2>2. g \in Nat /\ g < c.tail /\ g > 0 /\ c.tail \in Nat
    BY DEF IsLadder
  <2>3. c.tail \in P /\ \A f \in P : Before(P, f) \in Starts(c.fr[f])
    BY DEF WordPath
  <2>. QED
    BY <2>1, <2>2, <2>3
<1>2. CASE g \in P
  BY <1>1, <1>2 DEF Starts
<1>3. CASE g \notin P
  <2>1. /\ Before(P, g) \in Nat /\ Before(P, g) < g
        /\ Before(P, g) = 0 \/ Before(P, g) \in P
        /\ \A h \in P : h < g => h <= Before(P, g)
    BY <1>1, BeforeFacts
  <2>2. PICK h \in P : Before(P, g) < h /\ Before(P, h) = Before(P, g)
    <3>1. Before(P, g) < c.tail
      BY <2>1, <1>1
    <3>. QED
      BY <3>1, <2>1, <1>1, NextOnPath
  <2>3. g < h
    <3>1. h \in Nat /\ h # g /\ ~ (h < g)
      BY <2>1, <2>2, <1>1, <1>3
    <3>. QED
      BY <3>1, <1>1
  <2>4. Before(P, g) \in Starts(c.fr[h]) /\ IsRung(c.fr, live, h)
    BY <2>2, <1>1 DEF IsLadder
  <2>. QED
    BY <2>1, <2>3, <2>4 DEF IsRung
<1>. QED
  BY <1>2, <1>3

\* The path that takes the chosen words, and elsewhere steps as short as can be.
ChosenPath(c, live) ==
  {g \in (live \ {0}) \cup {c.tail} : \A u \in ChosenEnds(c, live) : ~ (c.fr[u].sel < g /\ g < u)}

\* What is known of a chosen word.
ChosenWord(c, live, u) ==
  /\ u \in live /\ u \in Nat /\ u > 0 /\ u \in Frames /\ u < c.tail
  /\ c.fr[u].sel \in Starts(c.fr[u]) /\ c.fr[u].sel \in live /\ c.fr[u].sel \in Nat /\ c.fr[u].sel < u

\* See ChosenWord.
LEMMA ChosenWords ==
  ASSUME NEW c, NEW live, IsLadder(c, live), ChoicesFit(c), MarksFit(c), NEW u \in ChosenEnds(c, live)
  PROVE  ChosenWord(c, live, u)
<1>1. /\ u \in live /\ u \in Nat /\ u > 0 /\ u \in Frames /\ u < c.tail /\ "USER_SELECTED" \in c.fr[u].bw
      /\ live \in SUBSET Nat /\ IsRung(c.fr, live, u)
  BY DEF ChosenEnds, IsLadder
<1>2. c.fr[u].sel \in Starts(c.fr[u])
  BY <1>1 DEF ChoicesFit, MarksFit
<1>3. c.fr[u].sel \in live /\ c.fr[u].sel < u
  BY <1>1, <1>2 DEF IsRung
<1>. QED
  BY <1>1, <1>2, <1>3 DEF ChosenWord

\* It is a path, and takes them.
LEMMA ChosenPathTakes ==
  ASSUME NEW c, NEW live, IsLadder(c, live), ChoicesFit(c), MarksFit(c), Apart(c, live),
         \A g \in live : g # 0 => c.fr[g].lex # {},
         c.fr[c.tail].lex # {}
  PROVE  /\ WordPath(c, ChosenPath(c, live))
         /\ \A u \in ChosenEnds(c, live) :
              u \in ChosenPath(c, live) /\ Before(ChosenPath(c, live), u) = c.fr[u].sel
<1> DEFINE U == ChosenEnds(c, live)
           R == ChosenPath(c, live)
<1>1. /\ c.tail \in Nat /\ c.tail > 0 /\ c.tail \in Frames /\ live \in SUBSET Nat /\ 0 \in live
      /\ \A x \in live : x < c.tail /\ x \in Frames
      /\ \A f \in Frames : IsRung(c.fr, live, f)
      /\ \A f \in Frames : c.fr[f].lex # {} => c.fr[f].type # "unused"
  BY DEF IsLadder
<1>2. \A u \in U : ChosenWord(c, live, u)
  BY ChosenWords
<1>3. \A u, v \in U : u < v => u <= c.fr[v].sel
  BY DEF Apart
<1>4. \A g : g \in R <=> /\ (g \in live /\ g # 0) \/ g = c.tail
                         /\ \A u \in U : ~ (c.fr[u].sel < g /\ g < u)
  BY DEF ChosenPath
<1>5. R \in SUBSET Nat /\ \A g \in R : g \in Nat /\ g > 0 /\ g <= c.tail /\ g \in Frames /\ c.fr[g].lex # {}
  <2>1. \A g \in R : (g \in live /\ g # 0) \/ g = c.tail
    BY <1>4
  <2>2. \A g \in live : g # 0 => g \in Nat /\ g > 0 /\ g <= c.tail /\ g \in Frames /\ c.fr[g].lex # {}
    BY <1>1
  <2>3. c.tail <= c.tail /\ c.fr[c.tail].lex # {}
    BY <1>1
  <2> HIDE DEF R, U
  <2>4. \A g \in R : g \in Nat /\ g > 0 /\ g <= c.tail /\ g \in Frames /\ c.fr[g].lex # {}
    BY <2>1, <2>2, <2>3, <1>1
  <2>. QED
    BY <2>4
<1>6. c.tail \in R
  <2>1. \A u \in U : u < c.tail /\ u \in Nat
    BY <1>2 DEF ChosenWord
  <2>. QED
    BY <2>1, <1>1, <1>4
<1> HIDE DEF U, R
<1>7. ASSUME NEW u \in U
      PROVE  u \in R /\ Before(R, u) = c.fr[u].sel
  <2> DEFINE s == c.fr[u].sel
  <2>1. u \in live /\ u \in Nat /\ u > 0 /\ s \in live /\ s \in Nat /\ s < u
    BY <1>2 DEF ChosenWord
  <2> HIDE DEF s
  <2>2. ASSUME NEW v \in U, c.fr[v].sel < u, u < v
        PROVE  FALSE
    <3>1. u <= c.fr[v].sel /\ c.fr[v].sel \in Nat
      BY <2>2, <1>2, <1>3 DEF ChosenWord
    <3>. QED
      BY <3>1, <2>1, <2>2
  <2>3. u \in R
    BY <2>1, <2>2, <1>4
  <2>4. s = 0 \/ s \in R
    <3>1. ASSUME NEW v \in U, c.fr[v].sel < s, s < v
          PROVE  FALSE
      <4>1. v \in Nat /\ c.fr[v].sel \in Nat
        BY <1>2 DEF ChosenWord
      <4>2. CASE v < u
        <5>1. v <= s
          BY <4>2, <1>3 DEF s
        <5>. QED
          BY <5>1, <4>1, <3>1, <2>1
      <4>3. CASE v = u
        BY <4>3, <3>1, <2>1 DEF s
      <4>4. CASE u < v
        <5>1. u <= c.fr[v].sel
          BY <4>4, <1>3
        <5>. QED
          BY <5>1, <4>1, <3>1, <2>1
      <4>. QED
        BY <4>1, <4>2, <4>3, <4>4, <2>1
    <3>. QED
      BY <3>1, <2>1, <1>4
  <2>5. \A g \in R : g < u => g <= s
    <3>1. \A g \in R : ~ (s < g /\ g < u)
      BY <1>4 DEF s
    <3>. QED
      BY <3>1, <2>1, <1>5
  <2>6. Before(R, u) = s
    BY <2>1, <2>4, <2>5, <1>5, BeforeIs
  <2>. QED
    BY <2>3, <2>6 DEF s
<1>8. ASSUME NEW g \in R, g \notin U
      PROVE  Before(R, g) \in Starts(c.fr[g])
  <2> DEFINE b == Before(live, g)
  <2>1. g \in Nat /\ g > 0 /\ g <= c.tail /\ g \in Frames /\ c.fr[g].lex # {}
    BY <1>5
  <2>2. b \in Nat /\ b < g /\ (b = 0 \/ b \in live) /\ \A h \in live : h < g => h <= b
    BY <2>1, <1>1, BeforeFacts
  <2>3. b \in Starts(c.fr[g])
    BY <2>1, <1>1 DEF IsRung
  <2> HIDE DEF b
  <2>4. b = 0 \/ b \in R
    <3>1. ASSUME NEW v \in U, c.fr[v].sel < b, b < v
          PROVE  FALSE
      <4>1. v \in Nat /\ c.fr[v].sel \in Nat /\ v \in live
        BY <1>2 DEF ChosenWord
      <4>2. ~ (v < g)
        BY <4>1, <3>1, <2>2
      <4>3. g < v
        BY <4>1, <4>2, <2>1, <1>8
      <4>4. c.fr[v].sel < g
        BY <4>1, <3>1, <2>1, <2>2
      <4>. QED
        BY <4>3, <4>4, <1>4
    <3>. QED
      BY <3>1, <2>2, <1>4
  <2>5. \A h \in R : h < g => h <= b
    <3>1. \A h \in R : h < g => h \in live
      BY <2>1, <1>1, <1>4
    <3>. QED
      BY <3>1, <2>2
  <2>6. Before(R, g) = b
    BY <2>1, <2>2, <2>4, <2>5, <1>5, BeforeIs
  <2>. QED
    BY <2>3, <2>6
<1>9. \A g \in R : Before(R, g) \in Starts(c.fr[g])
  <2>1. \A u \in U : c.fr[u].sel \in Starts(c.fr[u])
    BY <1>2 DEF ChosenWord
  <2>. QED
    BY <2>1, <1>7, <1>8
<1>10. WordPath(c, R)
  <2>1. R \in SUBSET (1 .. c.tail)
    BY <1>1, <1>5
  <2>. QED
    BY <2>1, <1>1, <1>5, <1>6, <1>9 DEF WordPath
<1>. QED
  BY <1>7, <1>10 DEF U, R

\* The frames of a path where it takes the chosen word.
Taken(c, P) == {f \in P : "USER_SELECTED" \in c.fr[f].bw /\ c.fr[f].sel = Before(P, f)}

\* Their number is the bonus of the path.
LEMMA BonusOfPath ==
  ASSUME NEW c, c.tail \in Nat, NEW P \in SUBSET (1 .. c.tail)
  PROVE  /\ IsFiniteSet(Taken(c, P)) /\ Bonus(c, P) = Cardinality(Taken(c, P))
         /\ Bonus(c, P) \in Nat /\ Bonus(c, P) <= c.tail
<1>1. IsFiniteSet(1 .. c.tail) /\ Cardinality(1 .. c.tail) <= c.tail
  <2>1. 1 \in Int /\ c.tail \in Int
    OBVIOUS
  <2>2. IsFiniteSet(1 .. c.tail) /\ Cardinality(1 .. c.tail) = IF 1 > c.tail THEN 0 ELSE c.tail - 1 + 1
    BY <2>1, FS_Interval
  <2>. QED
    BY <2>2
<1>2. Taken(c, P) \in SUBSET (1 .. c.tail)
  BY DEF Taken
<1>3. IsFiniteSet(Taken(c, P)) /\ Cardinality(Taken(c, P)) <= Cardinality(1 .. c.tail)
  BY <1>1, <1>2, FS_Subset
<1>4. Cardinality(Taken(c, P)) \in Nat /\ Cardinality(1 .. c.tail) \in Nat
  BY <1>1, <1>3, FS_CardinalityType
<1>5. Bonus(c, P) = Cardinality(Taken(c, P))
  BY DEF Bonus, Taken
<1>. QED
  BY <1>1, <1>3, <1>4, <1>5

\* A best path is a path, and none has a higher bonus.
LEMMA BestPathIsBest ==
  ASSUME NEW c, c.tail \in Nat, NEW P \in BestPaths(c), \A Q \in Paths(c) : Q \in SUBSET (1 .. c.tail)
  PROVE  P \in Paths(c) /\ \A Q \in Paths(c) : Bonus(c, Q) <= Bonus(c, P)
<1> DEFINE B == {Bonus(c, Q) : Q \in Paths(c)}
<1>1. /\ P \in Paths(c)
      /\ Paths(c) # {} => Bonus(c, P) = Max(B)
  BY DEF BestPaths
<1>2. \A Q \in Paths(c) : Bonus(c, Q) \in Nat /\ Bonus(c, Q) <= c.tail
  BY BonusOfPath
<1>3. \A b \in B : b \in Nat /\ b <= c.tail
  BY <1>2
<1>4. \A Q \in Paths(c) : Bonus(c, Q) \in B
  OBVIOUS
<1> HIDE DEF B
<1>5. B \in SUBSET Nat /\ B # {}
  BY <1>1, <1>3, <1>4
<1>6. \A b \in B : b <= Max(B)
  BY <1>3, <1>5, GreatestNumber
<1>. QED
  BY <1>1, <1>4, <1>6

\* A best path takes every chosen word, for one path does and no other has so high a bonus.
LEMMA BestPathTakesChosen ==
  ASSUME NEW c, NEW live, IsLadder(c, live), ChoicesFit(c), MarksFit(c), Apart(c, live),
         "USER_SELECTED" \notin c.fr[c.tail].bw, c.fr[c.tail].lex # {},
         \A Q : Q \in Paths(c) <=> WordPath(c, Q),
         NEW P \in BestPaths(c)
  PROVE  \A u \in ChosenEnds(c, live) : u \in P /\ c.fr[u].sel = Before(P, u)
<1> DEFINE R == ChosenPath(c, live)
           U == ChosenEnds(c, live)
<1>1. c.tail \in Nat
  BY DEF IsLadder
<1>2. \A Q \in Paths(c) : Q \in SUBSET (1 .. c.tail)
  BY DEF WordPath
<1>3. P \in Paths(c) /\ \A Q \in Paths(c) : Bonus(c, Q) <= Bonus(c, P)
  BY <1>1, <1>2, BestPathIsBest
<1>4. WordPath(c, P) /\ P \in SUBSET (1 .. c.tail)
  BY <1>2, <1>3
<1>5. \A g \in live : g # 0 => c.fr[g].lex # {}
  BY <1>4, PathFillsLadder
<1>6. WordPath(c, R) /\ \A u \in U : u \in R /\ Before(R, u) = c.fr[u].sel
  BY <1>5, ChosenPathTakes
<1>7. R \in Paths(c) /\ R \in SUBSET (1 .. c.tail)
  BY <1>2, <1>6
<1>8. Bonus(c, R) <= Bonus(c, P)
  BY <1>3, <1>7
<1>9. U \subseteq Taken(c, R)
  BY <1>6 DEF ChosenEnds, Taken
<1>10. Taken(c, P) \subseteq U
  <2>1. P \ {c.tail} \subseteq live /\ \A f \in P : f # 0
    BY <1>4, PathStaysLive
  <2>. QED
    BY <2>1 DEF ChosenEnds, Taken
<1> HIDE DEF R, U
<1>11. /\ IsFiniteSet(Taken(c, R)) /\ Bonus(c, R) = Cardinality(Taken(c, R))
       /\ IsFiniteSet(Taken(c, P)) /\ Bonus(c, P) = Cardinality(Taken(c, P))
  BY <1>1, <1>4, <1>7, BonusOfPath
<1>12. Taken(c, P) = Taken(c, R)
  <2>1. Taken(c, P) \in SUBSET Taken(c, R)
    BY <1>9, <1>10
  <2>2. Cardinality(Taken(c, P)) <= Cardinality(Taken(c, R)) /\
        (Cardinality(Taken(c, R)) = Cardinality(Taken(c, P)) => Taken(c, R) = Taken(c, P))
    BY <2>1, <1>11, FS_Subset
  <2>3. Cardinality(Taken(c, P)) \in Nat /\ Cardinality(Taken(c, R)) \in Nat
    BY <1>11, FS_CardinalityType
  <2>4. Cardinality(Taken(c, R)) <= Cardinality(Taken(c, P))
    BY <1>8, <1>11
  <2>. QED
    BY <2>2, <2>3, <2>4
<1>. QED
  BY <1>9, <1>12 DEF Taken, U

-----------------------------------------------------------------------------
(* The marks.  As long as no frame is overlaid with one before it, the     *)
(* chosen words lie apart, because each choice begins at or behind the     *)
(* last one and taking one back leads to the one before: the frames the    *)
(* choice may be led back to are a trail.                                  *)

\* A string is marked as skipped together with what stands before it, from a syllable on.
StringsSkipped(c) ==
  \A f \in Frames : "IGNORED" \in c.fr[f].bw =>
    /\ f > 0
    /\ "IGNORED" \in c.fr[f - 1].bw \/ (isSyllableFrame(c.fr[f - 1]) /\ c.fr[f - 1].lex # {})
Sound(c) == ChoicesFit(c) /\ StringsSkipped(c)

\* cancelSelection has put the contents of a frame in one that is no separator behind it.
Overlaid(c, segs) ==
  \E g, f \in Frames : /\ g < f /\ c.fr[g].home = c.fr[f].home
                       /\ isSyllableFrame(c.fr[g]) /\ isSyllableFrame(c.fr[f])
                       /\ c.fr[g].lex # {} /\ c.fr[f].lex # {}
                       /\ Whole(segs)[f].type # "sep"

\* From frame at, where the next choice begins, the words are offered as C.  A marked frame of the
\* trail leads back along its word, over no chosen word.
LeadsBack(c, live, A, f) ==
  /\ c.fr[f].sel \in A /\ c.fr[f].sel < f
  /\ \A v \in ChosenEnds(c, live) : v < f => v <= c.fr[f].sel
Trail(c, live, at, C, A) ==
  /\ A \subseteq Frames /\ at \in A
  /\ \A w \in C : w[1] \in A /\ at <= w[1]
  /\ \A v \in ChosenEnds(c, live) : v \in A /\ v <= at
  /\ \A f \in A : f # 0 /\ c.fr[f].bw # {} /\ "IGNORED" \notin c.fr[f].bw => LeadsBack(c, live, A, f)

Traced(c, segs, at, C) ==
  /\ Sound(c)
  /\ Overlaid(c, segs) \/ (Own(c, segs) /\ \E A : Trail(c, Live(segs), at, C, A))

\* The path the search found goes along words, takes the chosen ones and has left its marks.
OnPath(c, segs) ==
  Own(c, segs) /\ c.path # {} =>
    /\ WordPath(c, c.path)
    /\ ChosenEnds(c, Live(segs)) \subseteq c.path
    /\ \A f \in c.path : c.fr[f].bw # {} /\ c.fr[f].sel = Before(c.path, f)

\* The frames after a search that found P.
LEMMA WithPathFrames ==
  ASSUME NEW c, NEW segs, NEW str, LatticeInv(c, segs, str), NEW P \in Paths(c)
  PROVE  /\ WithPath(c, P).path = P /\ WithPath(c, P).tail = c.tail
         /\ \A f \in Frames :
              IF f \in P /\ "USER_SELECTED" \notin c.fr[f].bw
              THEN /\ WithPath(c, P).fr[f].bw = c.fr[f].bw \cup {"BESTWORD"}
                   /\ WithPath(c, P).fr[f].sel = Before(P, f)
              ELSE WithPath(c, P).fr[f] = c.fr[f]
<1> DEFINE fr == [f \in Frames |->
                   IF f \in P /\ "USER_SELECTED" \notin c.fr[f].bw
                   THEN Marked(c.fr[f], "BESTWORD", Before(P, f)) ELSE c.fr[f]]
           d == WithPath(c, P)
<1>1. c \in Context /\ c.fr \in [Frames -> Frame] /\ c.tail \in Nat /\ c.tail > 0
  <2>1. c \in Context /\ c.tail = Len(str) + 1
    BY DEF LatticeInv
  <2>. QED
    BY <2>1, ContextFields DEF LatticeInv, ClearBehind
<1>2. P \in SUBSET (Nat \ {0})
  <2>1. PICK Q \in SUBSET (1 .. LastFr(c)) : P = Q \cup {c.tail}
    BY DEF Paths
  <2>2. \A f \in 1 .. LastFr(c) : f \in Nat \ {0}
    BY <1>1 DEF LastFr
  <2>3. \A f \in P : f \in Nat \ {0}
    BY <2>1, <2>2, <1>1
  <2>. QED
    BY <2>3
<1>3. ASSUME NEW f \in Frames
      PROVE  /\ fr[f] \in Frame
             /\ IF f \in P /\ "USER_SELECTED" \notin c.fr[f].bw
                THEN fr[f].bw = c.fr[f].bw \cup {"BESTWORD"} /\ fr[f].sel = Before(P, f)
                ELSE fr[f] = c.fr[f]
  <2>1. c.fr[f] \in Frame /\ Before(P, f) \in Frames /\ "BESTWORD" \in BwTypes
    BY <1>1, <1>2, BeforeIsFrame DEF BwTypes
  <2>2. CASE f \in P /\ "USER_SELECTED" \notin c.fr[f].bw
    <3>1. fr[f] = Marked(c.fr[f], "BESTWORD", Before(P, f))
      BY <2>2
    <3> HIDE DEF fr
    <3>2. fr[f] \in Frame /\ fr[f].sel = Before(P, f) /\ fr[f].bw = c.fr[f].bw \cup {"BESTWORD"}
      BY <2>1, <3>1, MarkedFrame
    <3>. QED
      BY <2>2, <3>2
  <2>3. CASE ~ (f \in P /\ "USER_SELECTED" \notin c.fr[f].bw)
    <3>1. fr[f] = c.fr[f]
      BY <2>3
    <3> HIDE DEF fr
    <3>. QED
      BY <3>1, <2>1, <2>3
  <2>. QED
    BY <2>2, <2>3
<1>4. d = [c EXCEPT !.path = P, !.fr = fr]
  BY DEF WithPath
<1>5. fr \in [Frames -> Frame]
  BY <1>3
<1> HIDE DEF fr
<1>6. d.fr = fr /\ d.path = P /\ d.tail = c.tail
  <2>1. P \subseteq Nat \ {0}
    BY <1>2
  <2>2. HasParts([c EXCEPT !.path = P, !.fr = fr], c, fr, P)
    BY <2>1, <1>1, <1>5, OtherFramesAndPath
  <2>3. HasParts(d, c, fr, P)
    BY <2>2, <1>4
  <2> HIDE DEF d
  <2>. QED
    BY <2>3 DEF HasParts
<1> HIDE DEF d
<1>. QED
  BY <1>3, <1>6 DEF d

\* The chosen words of a trail lie apart.
LEMMA TrailApart ==
  ASSUME NEW c, NEW live, NEW at, NEW C, NEW A, Trail(c, live, at, C, A), ChoicesFit(c), MarksFit(c),
         live \subseteq Frames
  PROVE  Apart(c, live)
<1>1. \A v \in ChosenEnds(c, live) : /\ v \in A /\ v # 0 /\ v \in Frames
                                     /\ c.fr[v].bw # {} /\ "IGNORED" \notin c.fr[v].bw
  BY DEF Trail, ChosenEnds, ChoicesFit, MarksFit
<1>2. \A v \in ChosenEnds(c, live) : LeadsBack(c, live, A, v)
  BY <1>1 DEF Trail
<1>. QED
  BY <1>2 DEF Apart, LeadsBack

\* A frame with its own pointers shares them with no frame before it, unless it is a separator.
LEMMA OwnNotOverlaid ==
  ASSUME NEW c, NEW segs, NEW str, LatticeInv(c, segs, str), Fill(segs, Len(str)), Own(c, segs)
  PROVE  ~ Overlaid(c, segs)
<1>1. FitSegments(segs, Len(str)) /\ EndsWith(segs, Len(str))
  BY DEF Fill
<1>2. \A f \in Frames : Whole(segs)[f].type # "sep" => c.fr[f].home = f
  BY <1>1, WholeFrames DEF Own
<1>3. \A g \in Frames : c.fr[g].home <= g /\ g \in Nat
  BY LatticeSize DEF LatticeInv, Pointers
<1>4. SUFFICES ASSUME NEW g \in Frames, NEW f \in Frames, g < f, c.fr[g].home = c.fr[f].home,
                      Whole(segs)[f].type # "sep"
               PROVE  FALSE
  BY DEF Overlaid
<1>5. c.fr[g].home = f
  BY <1>2, <1>4
<1>. QED
  BY <1>3, <1>4, <1>5

\* A search that finds a path finds one that takes the chosen words, and no other word as chosen.
LEMMA FoundPath ==
  ASSUME NEW c, NEW segs, NEW str, LatticeInv(c, segs, str), Fill(segs, Len(str)), Own(c, segs),
         ChoicesFit(c), Apart(c, Live(segs)), NEW P \in BestPaths(c)
  PROVE  /\ WordPath(c, P) /\ P \in SUBSET Nat /\ \A f \in P : f \in Frames /\ f > 0
         /\ \A u \in ChosenEnds(c, Live(segs)) : u \in P /\ c.fr[u].sel = Before(P, u)
         /\ \A f \in P : "USER_SELECTED" \in c.fr[f].bw => f \in ChosenEnds(c, Live(segs))
<1> DEFINE L == Live(segs)
<1>1. Len(str) \in Nat /\ Len(str) + 1 < MaxLattice /\ (segs = << >> => Len(str) = 0)
  BY EndsInOrder DEF Fill, EndsWith
<1>2. /\ c.tail = Len(str) + 1 /\ c.tail \in Nat /\ c.tail \in Frames /\ MarksFit(c)
      /\ "USER_SELECTED" \notin c.fr[c.tail].bw
  <2>1. c.tail = Len(str) + 1 /\ ClearBehind(c) /\ MarksFit(c)
    BY DEF LatticeInv
  <2>2. c.tail \in Nat /\ c.tail \in Frames /\ c.tail >= c.tail
    BY <2>1, <1>1, LatticeSize
  <2>3. c.fr[c.tail].bw \subseteq {"BESTWORD"}
    BY <2>1, <2>2 DEF ClearBehind
  <2>. QED
    BY <2>1, <2>2, <2>3
<1>3. \A Q : Q \in Paths(c) <=> WordPath(c, Q)
  BY <1>1, PathsAreWordPaths
<1>4. WordPath(c, P)
  BY <1>3 DEF BestPaths
<1>5. P \in SUBSET Nat /\ \A f \in P : f \in Frames /\ f > 0
  <2>1. P \in SUBSET (1 .. c.tail)
    BY <1>4 DEF WordPath
  <2>2. \A f \in P : f \in Nat /\ f \in Frames /\ f > 0
    BY <2>1, <1>2, LatticeSize
  <2>. QED
    BY <2>2
<1>6. CASE segs = << >>
  <2>1. ChosenEnds(c, L) = {}
    <3>1. L = {0}
      <4>1. 1 .. Len(segs) = {}
        BY <1>6
      <4>. QED
        BY <4>1 DEF Live
    <3>. QED
      BY <3>1 DEF ChosenEnds
  <2>2. \A f \in P : f = c.tail
    <3>1. P \in SUBSET (1 .. 1) /\ c.tail = 1
      BY <1>1, <1>2, <1>4, <1>6 DEF WordPath
    <3>. QED
      BY <3>1
  <2> HIDE DEF L
  <2>. QED
    BY <2>1, <2>2, <1>2, <1>4, <1>5 DEF L
<1>7. CASE segs # << >>
  <2>1. IsLadder(c, L) /\ Starts(c.fr[c.tail]) = {LastFr(c)}
    BY <1>7, OwnLadder, OwnRungs
  <2>2. c.fr[c.tail].lex # {}
    BY <2>1 DEF Starts
  <2>3. \A u \in ChosenEnds(c, L) : u \in P /\ c.fr[u].sel = Before(P, u)
    BY <2>1, <2>2, <1>2, <1>3, BestPathTakesChosen
  <2>4. P \ {c.tail} \subseteq L
    BY <2>1, <1>4, PathStaysLive
  <2>5. \A f \in P : "USER_SELECTED" \in c.fr[f].bw => f \in ChosenEnds(c, L)
    BY <2>4, <1>2, <1>5 DEF ChosenEnds
  <2>. QED
    BY <2>3, <2>5, <1>4, <1>5
<1>. QED
  BY <1>6, <1>7

\* What the marks do not tell stays the same when they change.
LEMMA AnewSame ==
  ASSUME NEW c, NEW d, IsMarkedAnew(d, c), NEW segs
  PROVE  /\ Overlaid(c, segs) => Overlaid(d, segs)
         /\ Own(d, segs) <=> Own(c, segs)
BY DEF IsMarkedAnew, Overlaid, Own, isSyllableFrame

\* What is said of the marks is said of the frames only.
LEMMA TracedSame ==
  ASSUME NEW c, NEW d, d.fr = c.fr, NEW segs, NEW at, NEW C, Traced(c, segs, at, C)
  PROVE  Traced(d, segs, at, C)
BY DEF Traced, Sound, ChoicesFit, StringsSkipped, Overlaid, Own, Trail, LeadsBack, ChosenEnds

\* Which marks a search leaves: none but BESTWORD is new.
LEMMA WithPathSound ==
  ASSUME NEW c, NEW segs, NEW str, LatticeInv(c, segs, str), Fill(segs, Len(str)),
         NEW P \in Paths(c), Sound(c)
  PROVE  Sound(WithPath(c, P)) /\ ChosenEnds(WithPath(c, P), Live(segs)) = ChosenEnds(c, Live(segs))
<1> DEFINE d == WithPath(c, P)
<1>1. IsMarkedAnew(d, c)
  BY WithPathInv DEF IsSearched
<1>2. \A f \in Frames : /\ "USER_SELECTED" \in d.fr[f].bw <=> "USER_SELECTED" \in c.fr[f].bw
                        /\ "IGNORED" \in d.fr[f].bw <=> "IGNORED" \in c.fr[f].bw
  BY WithPathFrames
<1>3. \A f \in Frames : f > 0 => f - 1 \in Frames
  BY LatticeSize
<1> HIDE DEF d
<1>4. ChoicesFit(d)
  BY <1>1, <1>2 DEF IsMarkedAnew, Sound, ChoicesFit, isSyllableFrame
<1>5. StringsSkipped(d)
  BY <1>1, <1>2, <1>3 DEF IsMarkedAnew, Sound, StringsSkipped, isSyllableFrame
<1>6. ChosenEnds(d, Live(segs)) = ChosenEnds(c, Live(segs))
  <2>1. \A x \in Live(segs) : x \in Frames
    BY LiveEnds
  <2>. QED
    BY <2>1, <1>2 DEF ChosenEnds
<1>. QED
  BY <1>4, <1>5, <1>6 DEF d, Sound

\* What a search that found P leaves of the trail, and on the path.
LEMMA FoundTrail ==
  ASSUME NEW c, NEW segs, NEW str, LatticeInv(c, segs, str), Fill(segs, Len(str)), Own(c, segs), Sound(c),
         NEW at, NEW C, NEW A, Trail(c, Live(segs), at, C, A), NEW P \in BestPaths(c)
  PROVE  /\ Trail(WithPath(c, P), Live(segs), at, C, A \cup P \cup {0})
         /\ OnPath(WithPath(c, P), segs)
<1> DEFINE L == Live(segs)
           d == WithPath(c, P)
           U == ChosenEnds(c, L)
           B == A \cup P \cup {0}
<1>1. P \in Paths(c)
  BY DEF BestPaths
<1>2. L \subseteq Frames /\ MarksFit(c) /\ ChoicesFit(c) /\ c.tail \in Nat
  <2>1. c \in Context
    BY DEF LatticeInv
  <2>. QED
    BY <2>1, LiveEnds, ContextFields DEF LatticeInv, Sound
<1>3. Apart(c, L)
  BY <1>2, TrailApart
<1>4. /\ WordPath(c, P) /\ P \in SUBSET Nat /\ \A f \in P : f \in Frames /\ f > 0
      /\ \A u \in U : u \in P /\ c.fr[u].sel = Before(P, u)
      /\ \A f \in P : "USER_SELECTED" \in c.fr[f].bw => f \in U
  BY <1>2, <1>3, FoundPath
<1>5. IsMarkedAnew(d, c) /\ ChosenEnds(d, L) = U
  BY <1>1, WithPathInv, WithPathSound DEF IsSearched
<1>6. /\ d.path = P /\ d.tail = c.tail
      /\ \A f \in Frames : IF f \in P /\ "USER_SELECTED" \notin c.fr[f].bw
                           THEN d.fr[f].bw = c.fr[f].bw \cup {"BESTWORD"} /\ d.fr[f].sel = Before(P, f)
                           ELSE d.fr[f] = c.fr[f]
  BY <1>1, WithPathFrames
<1>a. Trail(c, L, at, C, A)
  OBVIOUS
<1> HIDE DEF d, U, L
<1>7. \A f \in P : d.fr[f].bw # {} /\ d.fr[f].sel = Before(P, f)
  <2>1. ASSUME NEW f \in P, "USER_SELECTED" \in c.fr[f].bw
        PROVE  d.fr[f].bw # {} /\ d.fr[f].sel = Before(P, f)
    <3>1. d.fr[f] = c.fr[f] /\ c.fr[f].sel = Before(P, f)
      BY <2>1, <1>4, <1>6
    <3>. QED
      BY <3>1, <2>1
  <2>2. ASSUME NEW f \in P, "USER_SELECTED" \notin c.fr[f].bw
        PROVE  d.fr[f].bw # {} /\ d.fr[f].sel = Before(P, f)
    BY <2>2, <1>4, <1>6
  <2>. QED
    BY <2>1, <2>2
<1>8. OnPath(d, segs)
  <2>1. \A f \in P : c.fr[f].type = d.fr[f].type /\ Starts(c.fr[f]) = Starts(d.fr[f])
    BY <1>4, <1>5 DEF IsMarkedAnew, Starts
  <2>2. WordPath(d, P)
    BY <2>1, <1>4, <1>6 DEF WordPath
  <2>. QED
    BY <2>2, <1>4, <1>5, <1>6, <1>7 DEF OnPath, L
<1>9. ASSUME NEW f \in P
      PROVE  LeadsBack(d, L, B, f)
  <2>1. /\ Before(P, f) = 0 \/ Before(P, f) \in P
        /\ Before(P, f) < f /\ \A v \in P : v < f => v <= Before(P, f)
    BY <1>4, BeforeFacts
  <2>. QED
    BY <2>1, <1>4, <1>5, <1>7 DEF LeadsBack
<1>10. ASSUME NEW f \in B, f # 0, f \notin P, d.fr[f].bw # {}, "IGNORED" \notin d.fr[f].bw
       PROVE  LeadsBack(d, L, B, f)
  <2>1. f \in A /\ d.fr[f] = c.fr[f]
    BY <1>10, <1>6, <1>a DEF Trail
  <2>2. LeadsBack(c, L, A, f)
    BY <2>1, <1>10, <1>a DEF Trail
  <2>. QED
    BY <2>1, <2>2, <1>5 DEF LeadsBack, U
<1>11. Trail(d, L, at, C, B)
  <2>1. /\ A \subseteq Frames /\ at \in A /\ \A w \in C : w[1] \in A /\ at <= w[1]
        /\ \A v \in U : v \in A /\ v <= at
    BY <1>a DEF Trail, U
  <2>2. B \subseteq Frames /\ A \subseteq B
    BY <2>1, <1>4, LatticeSize
  <2>3. \A f \in B : f # 0 /\ d.fr[f].bw # {} /\ "IGNORED" \notin d.fr[f].bw => LeadsBack(d, L, B, f)
    BY <1>9, <1>10
  <2> HIDE DEF B
  <2>. QED
    BY <2>1, <2>2, <2>3, <1>5 DEF Trail
<1>. QED
  BY <1>8, <1>11 DEF L, d

\* A search keeps the marks such that words are chosen apart, and leaves those of its path.
LEMMA SearchedTraced ==
  ASSUME NEW c, NEW segs, NEW str, LatticeInv(c, segs, str), Fill(segs, Len(str)),
         NEW at, NEW C, Traced(c, segs, at, C), NEW d \in Searched(c)
  PROVE  Traced(d, segs, at, C) /\ OnPath(d, segs)
<1>1. CASE d = [c EXCEPT !.path = {}]
  <2>1. c \in Context
    BY DEF LatticeInv
  <2>2. HasParts([c EXCEPT !.path = {}], c, c.fr, {})
    BY <2>1, {} \subseteq Nat \ {0}, OtherPath
  <2>3. d.fr = c.fr /\ d.path = {}
    BY <2>2, <1>1 DEF HasParts
  <2>. QED
    BY <2>3, TracedSame DEF OnPath
<1>2. CASE \E P \in BestPaths(c) : d = WithPath(c, P)
  <2>1. PICK P \in BestPaths(c) : d = WithPath(c, P)
    BY <1>2
  <2>2. P \in Paths(c)
    BY DEF BestPaths
  <2>3. LatticeInv(d, segs, str) /\ IsMarkedAnew(d, c)
    BY <2>1, <2>2, WithPathInv DEF IsSearched
  <2>4. Sound(c) /\ (Overlaid(c, segs) \/ (Own(c, segs) /\ \E A : Trail(c, Live(segs), at, C, A)))
    BY DEF Traced
  <2>5. Sound(d)
    BY <2>1, <2>2, <2>4, WithPathSound
  <2>6. ASSUME Overlaid(c, segs)
        PROVE  Overlaid(d, segs) /\ OnPath(d, segs)
    <3>1. Overlaid(d, segs)
      BY <2>3, <2>6, AnewSame
    <3>2. ~ Own(d, segs)
      BY <3>1, <2>3, OwnNotOverlaid
    <3>. QED
      BY <3>1, <3>2 DEF OnPath
  <2>7. ASSUME Own(c, segs), NEW A, Trail(c, Live(segs), at, C, A)
        PROVE  /\ Own(d, segs) /\ Trail(d, Live(segs), at, C, A \cup P \cup {0})
               /\ OnPath(d, segs)
    BY <2>1, <2>3, <2>4, <2>7, AnewSame, FoundTrail
  <2>. QED
    BY <2>4, <2>5, <2>6, <2>7 DEF Traced
<1>. QED
  BY <1>1, <1>2 DEF Searched

-----------------------------------------------------------------------------
(* Building the lattice again.                                             *)

\* What the part of the lattice behind u is laid on.
LEMMA RelaidOn ==
  ASSUME NEW a, NEW s, NEW b, NEW t, NEW u, IsChanged(a, Len(s), b, Len(t), u),
         NEW c, LatticeInv(c, a, s)
  PROVE  \E base \in [Frames -> Frame] :
           IsLaid(Relaid(c, b, u + 1).fr, base, b, u, Len(t)) /\ BlankAbove(base, u)
<1> DEFINE e == ClearedFrom(c, u + 1)
           d == Relaid(c, b, u + 1)
<1>1. FitSegments(b, Len(t)) /\ EndsWith(b, Len(t)) /\ u \in Nat
  BY DEF IsChanged
<1>2. c \in Context /\ ClearBehind(c)
  BY DEF LatticeInv
<1>3. IsContextWith(e, c, c.tail) /\ BlankAbove(e.fr, u)
  BY <1>1, <1>2, ClearedLaid
<1>4. e \in Context /\ e.fr \in [Frames -> Frame]
  BY <1>3, ContextFields DEF IsContextWith
<1> HIDE DEF e
<1>5. d = BuildLexiconStates(e, b, u + 1)
  BY DEF Relaid, e
<1>6. IsLaid(d.fr, e.fr, b, u, Len(t))
  BY <1>1, <1>4, <1>5, BuiltLaid
<1>. QED
  BY <1>3, <1>4, <1>6

\* The pointers are given again as they would be if the lattice were built in one go.
LEMMA RelaidOwn ==
  ASSUME NEW a, NEW s, NEW b, NEW t, NEW u, IsChanged(a, Len(s), b, Len(t), u),
         NEW c, LatticeInv(c, a, s), Own(c, a)
  PROVE  Own(Relaid(c, b, u + 1), b)
<1> DEFINE n == Len(t)
           W == Whole(b)
           d == Relaid(c, b, u + 1)
           P == {f \in Frames : d.fr[f].home = W[f].home}
<1>1. /\ FitSegments(a, Len(s)) /\ EndsWith(a, Len(s)) /\ FitSegments(b, n) /\ EndsWith(b, n)
      /\ u \in Nat /\ u <= Len(s) /\ u <= n /\ Between(b, u) /\ SameUpTo(b, a, u) /\ n \in Nat
      /\ DOMAIN b = 1 .. Len(b)
  BY DEF IsChanged, FitSegments
<1>2. PICK base \in [Frames -> Frame] : IsLaid(d.fr, base, b, u, n) /\ BlankAbove(base, u)
  BY RelaidOn
<1>3. /\ LatticeInv(d, b, t) /\ d.fr \in [Frames -> Frame]
      /\ \A f \in Frames : f <= u => d.fr[f] = c.fr[f]
  <2>1. LatticeInv(d, b, t) /\ IsRelaid(d, c, u, n)
    BY RelaidInv
  <2>. QED
    BY <2>1, <1>2 DEF IsRelaid, IsLaid
<1>4. /\ IsLaid(W, EmptyContext.fr, b, 0, n) /\ EmptyContext.fr \in [Frames -> Frame]
      /\ W \in [Frames -> Frame]
  <2>1. IsLaid(W, EmptyContext.fr, b, 0, n)
    BY <1>1, WholeLaid
  <2>. QED
    BY <2>1, EmptyIsContext, ContextFields DEF IsLaid
<1>5. \A f \in Frames : f <= u => W[f] = Whole(a)[f]
  BY <1>1, SamePrefix DEF IsChanged
<1> HIDE DEF d, W, n
<1>6. ASSUME NEW f \in Frames, \A g \in Frames : g < f => g \in P
      PROVE  f \in P
  <2>1. f \in Nat
    BY LatticeSize
  <2>2. CASE f <= u
    BY <2>2, <1>3, <1>5 DEF Own
  <2>3. CASE f > u
    <3>1. ASSUME NEW i \in 1 .. Len(b), End(b[i]) = f, b[i].type = "sep"
          PROVE  W[f].type = "sep" /\ f \in P
      <4>1. b[i].start \in Nat /\ b[i] \in Segment /\ b[i].start \in Frames /\ b[i].start < f
        BY <1>1, <3>1 DEF FitSegments
      <4>2. b[i].start >= u /\ b[i].start >= 0
        <5>1. f <= u \/ u <= b[i].start
          BY <3>1, <1>1 DEF Between
        <5>. QED
          BY <5>1, <4>1, <2>1, <2>3, <1>1
      <4>3. /\ d.fr[f] = Laid(base[f], d.fr[b[i].start], b[i])
            /\ W[f] = Laid(EmptyContext.fr[f], W[b[i].start], b[i])
        BY <3>1, <4>2, <1>2, <1>4 DEF IsLaid
      <4>4. IsLaidIn(base[f], d.fr[b[i].start], b[i], d.fr[f])
        BY <4>1, <4>3, <1>2, <1>3, LaidFrame
      <4>5. IsLaidIn(EmptyContext.fr[f], W[b[i].start], b[i], W[f])
        BY <4>1, <4>3, <1>4, LaidFrame
      <4>6. W[f].type = "sep" /\ W[f].home = W[b[i].start].home /\ d.fr[f].home = d.fr[b[i].start].home
        BY <4>4, <4>5, <3>1 DEF IsLaidIn
      <4>. QED
        BY <4>1, <4>6, <1>6
    <3>2. CASE W[f].type = "sep"
      <4>1. \E i \in 1 .. Len(b) : End(b[i]) = f /\ b[i].type = "sep"
        BY <3>2, <1>1, WholeFrames DEF W
      <4>. QED
        BY <4>1, <3>1
    <3>3. CASE W[f].type # "sep"
      <4>1. W[f].home = f
        BY <3>3, <1>1, WholeFrames DEF W
      <4>2. d.fr[f].home = f
        <5>1. \/ \E i \in 1 .. Len(b) : f = End(b[i]) /\ b[i].type = "sep"
              \/ d.fr[f].home = f
          BY <2>3, <1>1, <1>2, RelaidFrame
        <5>. QED
          BY <5>1, <3>1, <3>3
      <4>. QED
        BY <4>1, <4>2
    <3>. QED
      BY <3>2, <3>3
  <2>. QED
    BY <2>1, <2>2, <2>3, <1>1
<1>7. Frames \subseteq P
  <2> HIDE DEF P
  <2>. QED
    BY <1>6, FrameInduction
<1>. QED
  BY <1>7 DEF Own, d, W

\* A separator has the words and the pointers of the frame before it.
LEMMA SeparatorShares ==
  ASSUME NEW segs, NEW n, Fill(segs, n), NEW k \in 1 .. Len(segs), segs[k].type = "sep"
  PROVE  /\ Whole(segs)[EndOf(segs, k)].lex = Whole(segs)[EndOf(segs, k - 1)].lex
         /\ Whole(segs)[EndOf(segs, k)].home = Whole(segs)[EndOf(segs, k - 1)].home
<1> DEFINE W == Whole(segs)
           E == EmptyContext.fr
           x == EndOf(segs, k - 1)
           y == EndOf(segs, k)
<1>1. /\ Len(segs) \in Nat /\ k # 0
      /\ segs[k] \in Segment /\ segs[k].start = x /\ End(segs[k]) = y /\ x \in Frames /\ y \in Frames
      /\ x >= 0
  <2>1. k - 1 \in 0 .. Len(segs) /\ k \in 0 .. Len(segs) /\ k # 0 /\ Len(segs) \in Nat
    BY EndsInOrder
  <2>2. segs[k].start = x /\ End(segs[k]) = y
    BY <2>1 DEF Fill, EndOf
  <2>. QED
    BY <2>1, <2>2, EndsInOrder
<1>2. IsLaid(W, E, segs, 0, n) /\ W \in [Frames -> Frame] /\ E \in [Frames -> Frame]
  <2>1. IsLaid(W, E, segs, 0, n)
    BY WholeLaid DEF Fill
  <2>. QED
    BY <2>1, EmptyIsContext, ContextFields DEF IsLaid
<1> HIDE DEF W, E, x, y
<1>3. W[y] = Laid(E[y], W[x], segs[k])
  BY <1>1, <1>2 DEF IsLaid
<1>4. IsLaidIn(E[y], W[x], segs[k], W[y])
  BY <1>1, <1>2, <1>3, LaidFrame
<1>. QED
  BY <1>4 DEF IsLaidIn, W, x, y

\* When the lattice can be built again behind u, no chosen word that a separator has cut off comes
\* back: the separator would have to go, and its pointers are those of the frame before it.
LEMMA RelaidChosen ==
  ASSUME NEW a, NEW s, NEW b, NEW t, NEW u, IsChanged(a, Len(s), b, Len(t), u),
         Fill(a, Len(s)), Fill(b, Len(t)),
         NEW c, LatticeInv(c, a, s), Own(c, a), ChoicesFit(c), ~ DeletesShared(c, u + 1)
  PROVE  ChosenEnds(Relaid(c, b, u + 1), Live(b)) \subseteq ChosenEnds(c, Live(a))
<1> DEFINE d == Relaid(c, b, u + 1)
           m == Len(s)
<1>1. /\ u \in Nat /\ u <= m /\ SameUpTo(b, a, u) /\ m \in Nat
      /\ a \in Seq(Segment) /\ b \in Seq(Segment)
  BY DEF IsChanged, FitSegments
<1>2. /\ \A f \in Frames : f <= u => d.fr[f] = c.fr[f]
      /\ \A f \in Frames : f > u => d.fr[f].bw = {}
      /\ c.tail = m + 1 /\ MarksFit(c)
  BY RelaidInv DEF IsRelaid, LatticeInv
<1> HIDE DEF d, m
<1>3. SUFFICES ASSUME NEW x \in Live(b), x # 0, "USER_SELECTED" \in d.fr[x].bw, x \notin Live(a)
               PROVE  FALSE
  <2>1. ASSUME NEW x \in Live(b), x # 0, "USER_SELECTED" \in d.fr[x].bw, x \in Live(a)
        PROVE  x \in ChosenEnds(c, Live(a))
    <3>1. x \in Frames /\ x <= u
      <4>1. x \in Frames
        BY LiveEnds
      <4>. QED
        BY <4>1, <2>1, <1>1, <1>2, LatticeSize
    <3>. QED
      BY <2>1, <3>1, <1>2 DEF ChosenEnds
  <2>. QED
    BY <2>1 DEF ChosenEnds, d
<1>4. /\ x \in Frames /\ x \in Nat /\ x <= u /\ c.fr[x].lex # {}
  <2>1. x \in Frames
    BY <1>3, LiveEnds
  <2>2. x \in Nat /\ x <= u
    BY <2>1, <1>1, <1>2, <1>3, LatticeSize
  <2>3. "USER_SELECTED" \in c.fr[x].bw
    BY <2>1, <2>2, <1>2, <1>3
  <2>4. c.fr[x].sel \in Starts(c.fr[x])
    BY <2>1, <2>3, <1>2 DEF ChoicesFit, MarksFit
  <2>. QED
    BY <2>1, <2>2, <2>4 DEF Starts
<1>5. PICK k \in 1 .. Len(b) : x = End(b[k])
  <2>1. PICK k \in 0 .. Len(b) : x = EndOf(b, k)
    BY LiveEnds
  <2>2. k # 0
    BY <2>1, <1>3, EndsInOrder
  <2>. QED
    BY <2>1, <2>2 DEF EndOf
<1>6. /\ k \in 1 .. Len(a) /\ x = End(a[k]) /\ DOMAIN a = 1 .. Len(a) /\ Len(a) \in Nat
      /\ DOMAIN b = 1 .. Len(b) /\ Len(b) \in Nat
  <2>1. DOMAIN a = 1 .. Len(a) /\ Len(a) \in Nat /\ DOMAIN b = 1 .. Len(b) /\ Len(b) \in Nat
    BY <1>1
  <2>2. k \in DOMAIN a /\ b[k] = a[k]
    BY <2>1, <1>1, <1>4, <1>5 DEF SameUpTo
  <2>. QED
    BY <2>1, <2>2, <1>5
<1>7. k # Len(a) /\ a[k + 1].type = "sep"
  BY <1>3, <1>6 DEF Live
<1>8. k + 1 \in 1 .. Len(a) /\ (k + 1) - 1 = k /\ k \in 0 .. Len(a) /\ k + 1 \in 0 .. Len(a) /\ k < k + 1
      /\ k # 0 /\ k + 1 # 0
  <2>1. \A p \in Nat : \A i \in 1 .. p :
          i # p => /\ i + 1 \in 1 .. p /\ (i + 1) - 1 = i /\ i \in 0 .. p /\ i + 1 \in 0 .. p /\ i < i + 1
                   /\ i # 0 /\ i + 1 # 0
    OBVIOUS
  <2>. QED
    BY <2>1, <1>6, <1>7
<1>9. PICK y : y = EndOf(a, k + 1)
  OBVIOUS
<1>10. /\ x = EndOf(a, k) /\ y = End(a[k + 1]) /\ y \in Nat /\ y \in Frames /\ x < y /\ y <= m
  <2>1. x = EndOf(a, k) /\ y = End(a[k + 1])
    BY <1>6, <1>8, <1>9 DEF EndOf
  <2>. QED
    BY <2>1, <1>8, <1>9, EndsInOrder DEF m
<1>11. CASE y <= u
  <2>1. k + 1 \in DOMAIN b /\ b[k + 1] = a[k + 1]
    BY <1>1, <1>6, <1>8, <1>10, <1>11 DEF SameUpTo
  <2>2. k + 1 \in 2 .. Len(b) /\ b[k + 1].type = "sep"
    <3>1. \A p, q \in Nat : \A i \in 1 .. p : i + 1 \in 1 .. q => i + 1 \in 2 .. q
      OBVIOUS
    <3>2. k + 1 \in 1 .. Len(b)
      BY <2>1, <1>6
    <3>. QED
      BY <3>1, <3>2, <2>1, <1>6, <1>7
  <2>3. EndOf(b, (k + 1) - 1) \notin Live(b)
    BY <2>2, LiveEnds
  <2>4. EndOf(b, (k + 1) - 1) = x
    BY <1>5, <1>8 DEF EndOf
  <2>. QED
    BY <2>3, <2>4, <1>3
<1>12. CASE y > u
  <2>1. y \in u + 1 .. c.tail /\ y # x
    BY <1>1, <1>2, <1>4, <1>10, <1>12
  <2>2. a # << >>
    BY <1>6
  <2>3. Whole(a)[y].lex = Whole(a)[x].lex /\ Whole(a)[y].home = Whole(a)[x].home
    BY <1>7, <1>8, <1>9, <1>10, SeparatorShares
  <2>4. c.fr[y].lex = c.fr[x].lex /\ c.fr[y].home = c.fr[x].home
    <3>1. \A f \in Frames : c.fr[f].lex = Whole(a)[f].lex /\ c.fr[f].home = Whole(a)[f].home
      BY <2>2, OwnAgrees DEF Own
    <3>. QED
      BY <3>1, <2>3, <1>4, <1>10
  <2>. QED
    BY <2>1, <2>4, <1>4, <1>10 DEF DeletesShared
<1>. QED
  BY <1>1, <1>10, <1>11, <1>12

\* Building the lattice again behind u keeps what is said of the marks.
LEMMA RelaidTraced ==
  ASSUME NEW a, NEW s, NEW b, NEW t, NEW u, IsChanged(a, Len(s), b, Len(t), u),
         Fill(a, Len(s)), Fill(b, Len(t)),
         NEW c, LatticeInv(c, a, s), ~ DeletesShared(c, u + 1), NEW at, NEW C, Traced(c, a, at, C)
  PROVE  Traced(Relaid(c, b, u + 1), b, at, C)
<1> DEFINE d == Relaid(c, b, u + 1)
           m == Len(s)
<1>1. /\ u \in Nat /\ u <= m /\ u <= Len(t) /\ SameUpTo(b, a, u) /\ m \in Nat
      /\ FitSegments(a, m) /\ EndsWith(a, m) /\ FitSegments(b, Len(t)) /\ EndsWith(b, Len(t))
  BY DEF IsChanged, FitSegments
<1>2. /\ \A f \in Frames : f <= u => d.fr[f] = c.fr[f]
      /\ \A f \in Frames : f > u => d.fr[f].bw = {}
      /\ c.tail = m + 1 /\ ClearBehind(c)
  BY RelaidInv DEF IsRelaid, LatticeInv
<1>3. \A f \in Frames : f \in Nat /\ (f <= u \/ f > u) /\ (f > 0 => f - 1 \in Frames /\ (f <= u => f - 1 <= u))
  BY <1>1, LatticeSize
<1>4. Sound(c) /\ (Overlaid(c, a) \/ (Own(c, a) /\ \E A : Trail(c, Live(a), at, C, A)))
  BY DEF Traced
<1>5. Sound(c) => Sound(d)
  <2> HIDE DEF d
  <2>1. ASSUME ChoicesFit(c)
        PROVE  ChoicesFit(d)
    BY <2>1, <1>2, <1>3 DEF ChoicesFit
  <2>2. ASSUME StringsSkipped(c), NEW f \in Frames, "IGNORED" \in d.fr[f].bw
        PROVE  /\ f > 0
               /\ "IGNORED" \in d.fr[f - 1].bw \/ (isSyllableFrame(d.fr[f - 1]) /\ d.fr[f - 1].lex # {})
    <3>1. f <= u
      BY <2>2, <1>2, <1>3
    <3>2. "IGNORED" \in c.fr[f].bw
      BY <3>1, <2>2, <1>2
    <3>3. /\ f > 0
          /\ "IGNORED" \in c.fr[f - 1].bw \/ (isSyllableFrame(c.fr[f - 1]) /\ c.fr[f - 1].lex # {})
      BY <3>2, <2>2 DEF StringsSkipped
    <3>4. d.fr[f - 1] = c.fr[f - 1]
      BY <3>1, <3>3, <1>2, <1>3
    <3>. QED
      BY <3>3, <3>4
  <2>. QED
    BY <2>1, <2>2 DEF Sound, StringsSkipped
<1>6. ASSUME Overlaid(c, a)
      PROVE  Overlaid(d, b)
  <2> HIDE DEF d
  <2>1. PICK g \in Frames, f \in Frames :
               /\ g < f /\ c.fr[g].home = c.fr[f].home
               /\ isSyllableFrame(c.fr[g]) /\ isSyllableFrame(c.fr[f])
               /\ c.fr[g].lex # {} /\ c.fr[f].lex # {}
               /\ Whole(a)[f].type # "sep"
    BY <1>6 DEF Overlaid
  <2>2. f <= c.tail
    BY <2>1, <1>1, <1>2, <1>3 DEF ClearBehind, BlankAbove, Blank
  <2>3. f <= u
    <3>1. SUFFICES ASSUME f > u
                   PROVE  FALSE
      BY <1>3
    <3>2. f \in u + 1 .. c.tail /\ f # g
      BY <3>1, <2>1, <2>2, <1>1, <1>2, <1>3
    <3>. QED
      BY <3>2, <2>1 DEF DeletesShared
  <2>4. g <= u
    <3>1. g \in Nat /\ f \in Nat /\ u \in Nat /\ g < f
      BY <2>1, <1>1, <1>3
    <3>. QED
      BY <3>1, <2>3
  <2>5. Whole(b)[f] = Whole(a)[f]
    BY <2>3, <1>1, SamePrefix
  <2>6. d.fr[g] = c.fr[g] /\ d.fr[f] = c.fr[f]
    BY <2>3, <2>4, <1>2
  <2>. QED
    BY <2>1, <2>5, <2>6 DEF Overlaid
<1>7. ASSUME Own(c, a), NEW A, Trail(c, Live(a), at, C, A)
      PROVE  Own(d, b) /\ Trail(d, Live(b), at, C, A)
  <2>1. Own(d, b)
    BY <1>7, RelaidOwn
  <2>2. ChosenEnds(d, Live(b)) \subseteq ChosenEnds(c, Live(a))
    BY <1>4, <1>7, RelaidChosen DEF Sound
  <2> HIDE DEF d
  <2>3. ASSUME NEW f \in A, f # 0, d.fr[f].bw # {}, "IGNORED" \notin d.fr[f].bw
        PROVE  LeadsBack(d, Live(b), A, f)
    <3>1. f \in Frames
      BY <1>7 DEF Trail
    <3>2. d.fr[f] = c.fr[f]
      BY <3>1, <2>3, <1>2, <1>3
    <3>3. LeadsBack(c, Live(a), A, f)
      BY <3>2, <2>3, <1>7 DEF Trail
    <3>. QED
      BY <3>2, <3>3, <2>2 DEF LeadsBack
  <2>4. Trail(d, Live(b), at, C, A)
    BY <2>2, <2>3, <1>7 DEF Trail
  <2>. QED
    BY <2>1, <2>4
<1> HIDE DEF d
<1>8. Traced(d, b, at, C)
  BY <1>4, <1>5, <1>6, <1>7 DEF Traced
<1>. QED
  BY <1>8 DEF d

-----------------------------------------------------------------------------
(* Taking a choice back.                                                   *)

\* Frame f is cleared of its marks: its own contents if it was not skipped, else those of the frame
\* the strings were skipped from.
InPlace(d, c, f) ==
  /\ d.fr[f].type = c.fr[f].type /\ d.fr[f].lex = c.fr[f].lex
  /\ d.fr[f].home = c.fr[f].home /\ d.fr[f].sel = c.fr[f].sel
  /\ "IGNORED" \notin c.fr[f].bw
FromBefore(d, c, f) ==
  \E g \in Frames :
    /\ g < f /\ g + 1 \in Frames /\ "IGNORED" \notin c.fr[g].bw /\ "IGNORED" \in c.fr[g + 1].bw
    /\ "IGNORED" \in c.fr[f].bw
    /\ d.fr[f].type = c.fr[g].type /\ d.fr[f].lex = c.fr[g].lex /\ d.fr[f].home = c.fr[g].home

\* The frames after cancelSelection(f, false).
LEMMA CancelledFrames ==
  ASSUME NEW c, NEW segs, NEW str, LatticeInv(c, segs, str), NEW f \in Frames
  PROVE  LET d == Cancelled(c, f).ic
         IN /\ d \in Context /\ d.tail = c.tail /\ d.path = c.path
            /\ \A h \in Frames : h # f => d.fr[h] = c.fr[h]
            /\ d.fr[f].bw = {}
            /\ \/ /\ InPlace(d, c, f)
                  /\ Cancelled(c, f).at = IF c.fr[f].bw # {} THEN c.fr[f].sel ELSE f
                  /\ Cancelled(c, f).found <=> c.fr[f].bw # {}
               \/ FromBefore(d, c, f)
<1> DEFINE g == Skipped(c, f)
           was == c.fr[g]
           best == was.bw \cap {"USER_SELECTED", "BESTWORD"} # {}
           clean == [was EXCEPT !.bw = {}]
           new == IF best THEN clean ELSE was
           d == [c EXCEPT !.fr[f] = new]
<1>1. c \in Context /\ c.fr \in [Frames -> Frame] /\ "IGNORED" \notin c.fr[0].bw
  BY ContextFields DEF LatticeInv, FirstFrame
<1>2. /\ g \in Frames /\ f \in Nat /\ g \in Nat /\ g <= f /\ "IGNORED" \notin c.fr[g].bw
      /\ g # f => g < f /\ g + 1 \in Frames /\ "IGNORED" \in c.fr[g + 1].bw /\ "IGNORED" \in c.fr[f].bw
  <2> DEFINE S == {h \in 0 .. f : "IGNORED" \notin c.fr[h].bw}
  <2>1. f \in Nat /\ \A h \in 0 .. f : h \in Nat /\ h \in Frames /\ h <= f
    BY LatticeSize
  <2>2. \A h \in S : h \in Nat /\ h <= f /\ h \in 0 .. f /\ "IGNORED" \notin c.fr[h].bw
    BY <2>1
  <2>3. 0 \in S /\ \A h \in 0 .. f : "IGNORED" \notin c.fr[h].bw => h \in S
    BY <2>1, <1>1
  <2>4. g = Max(S)
    BY DEF Skipped
  <2> HIDE DEF S, g
  <2>5. S \in SUBSET Nat /\ S # {}
    BY <2>2, <2>3
  <2>6. g \in S /\ \A h \in S : h <= g
    BY <2>1, <2>2, <2>4, <2>5, GreatestNumber
  <2>7. g \in Nat /\ g <= f /\ g \in Frames /\ "IGNORED" \notin c.fr[g].bw
    BY <2>1, <2>2, <2>6
  <2>8. ASSUME g # f
        PROVE  g < f /\ g + 1 \in Frames /\ "IGNORED" \in c.fr[g + 1].bw /\ "IGNORED" \in c.fr[f].bw
    <3>1. g < f /\ g + 1 \in 0 .. f /\ f \in 0 .. f /\ ~ (g + 1 <= g) /\ ~ (f <= g)
      BY <2>1, <2>7, <2>8
    <3>. QED
      BY <3>1, <2>1, <2>3, <2>6
  <2>. QED
    BY <2>1, <2>7, <2>8
<1> HIDE DEF g
<1>3. Cancelled(c, f) = IF best THEN [ic |-> d, at |-> was.sel, found |-> TRUE]
                                ELSE [ic |-> d, at |-> f, found |-> FALSE]
  BY DEF Cancelled, g
<1>4. was \in Frame /\ was.bw \subseteq {"USER_SELECTED", "BESTWORD"}
  BY <1>1, <1>2 DEF Frame, BwTypes
<1>5. /\ new \in Frame /\ new.type = was.type /\ new.sel = was.sel /\ new.lex = was.lex
      /\ new.home = was.home /\ new.bw = {}
      /\ best <=> was.bw # {}
  <2> HIDE DEF was
  <2>1. best <=> was.bw # {}
    BY <1>4
  <2>2. clean = [type |-> was.type, bw |-> {}, sel |-> was.sel, lex |-> was.lex, home |-> was.home]
    BY <1>4, CleanFrame
  <2>3. clean \in Frame
    BY <1>4, CleanFrame
  <2> HIDE DEF clean, best
  <2>4. CASE best
    <3>1. new = clean
      BY <2>4
    <3> HIDE DEF new
    <3>. QED
      BY <2>1, <2>2, <2>3, <3>1
  <2>5. CASE ~ best
    <3>1. new = was
      BY <2>5
    <3> HIDE DEF new
    <3>. QED
      BY <2>1, <2>5, <3>1, <1>4
  <2>. QED
    BY <2>4, <2>5
<1> HIDE DEF new, was, best
<1>6. /\ HasParts(d, c, d.fr, c.path) /\ d.fr[f] = new
      /\ \A h \in Frames : h # f => d.fr[h] = c.fr[h]
  BY <1>1, <1>5, OneFrame
<1> HIDE DEF d
<1>7. /\ Cancelled(c, f).ic = d /\ (Cancelled(c, f).found <=> best)
      /\ Cancelled(c, f).at = IF best THEN was.sel ELSE f
  BY <1>3
<1>8. d \in Context /\ d.tail = c.tail /\ d.path = c.path
  BY <1>6 DEF HasParts
<1>9. CASE g = f
  <2>1. InPlace(d, c, f)
    BY <1>2, <1>5, <1>6, <1>9 DEF InPlace, was
  <2>. QED
    BY <2>1, <1>5, <1>6, <1>7, <1>8, <1>9 DEF was
<1>10. CASE g # f
  <2>1. FromBefore(d, c, f)
    BY <1>2, <1>5, <1>6, <1>10 DEF FromBefore, was
  <2>. QED
    BY <2>1, <1>5, <1>6, <1>7, <1>8
<1>. QED
  BY <1>9, <1>10

\* Clearing a frame keeps the marks sound; overlaying it with one before it breaks the pointers.
LEMMA CancelledKeeps ==
  ASSUME NEW c, NEW segs, NEW str, LatticeInv(c, segs, str), NEW f \in Frames, Sound(c)
  PROVE  LET d == Cancelled(c, f).ic
         IN /\ Sound(d)
            /\ InPlace(d, c, f) => IsMarkedAnew(d, c)
            /\ FromBefore(d, c, f) => Overlaid(d, segs)
            /\ Overlaid(c, segs) => Overlaid(d, segs)
<1> DEFINE d == Cancelled(c, f).ic
<1>1. /\ d \in Context /\ d.tail = c.tail /\ d.path = c.path
      /\ \A h \in Frames : h # f => d.fr[h] = c.fr[h]
      /\ d.fr[f].bw = {}
      /\ InPlace(d, c, f) \/ FromBefore(d, c, f)
  BY CancelledFrames
<1>2. MarksFit(c) /\ Pointers(c, segs) /\ ChoicesFit(c) /\ StringsSkipped(c)
  BY DEF LatticeInv, Sound
<1>3. \A h \in Frames : h \in Nat /\ (h > 0 => h - 1 \in Frames)
  BY LatticeSize
<1> HIDE DEF d
<1>4. ASSUME NEW g \in Frames, g + 1 \in Frames, "IGNORED" \notin c.fr[g].bw, "IGNORED" \in c.fr[g + 1].bw
      PROVE  isSyllableFrame(c.fr[g]) /\ c.fr[g].lex # {}
  <2>1. (g + 1) - 1 = g
    BY <1>3
  <2>. QED
    BY <2>1, <1>2, <1>4 DEF StringsSkipped
<1>5. InPlace(d, c, f) => IsMarkedAnew(d, c)
  BY <1>1 DEF InPlace, IsMarkedAnew
<1>6. ASSUME FromBefore(d, c, f)
      PROVE  /\ Overlaid(d, segs)
             /\ isSyllableFrame(d.fr[f]) /\ d.fr[f].lex # {} /\ ~ isSyllableFrame(c.fr[f])
  <2>1. PICK g \in Frames :
               /\ g < f /\ g + 1 \in Frames /\ "IGNORED" \notin c.fr[g].bw /\ "IGNORED" \in c.fr[g + 1].bw
               /\ "IGNORED" \in c.fr[f].bw
               /\ d.fr[f].type = c.fr[g].type /\ d.fr[f].lex = c.fr[g].lex /\ d.fr[f].home = c.fr[g].home
    BY <1>6 DEF FromBefore
  <2>2. isSyllableFrame(c.fr[g]) /\ c.fr[g].lex # {}
    BY <2>1, <1>4
  <2>3. d.fr[g] = c.fr[g]
    BY <2>1, <1>1, <1>3
  <2>4. isSyllableFrame(d.fr[f]) /\ d.fr[f].lex # {}
    BY <2>1, <2>2 DEF isSyllableFrame
  <2>5. ~ isSyllableFrame(c.fr[f])
    BY <2>1, <1>2 DEF MarksFit
  <2>6. Whole(segs)[f].type # "sep"
    BY <2>5, <1>2 DEF Pointers, isSyllableFrame
  <2>. QED
    BY <2>1, <2>2, <2>3, <2>4, <2>5, <2>6 DEF Overlaid
<1>7. Overlaid(c, segs) => Overlaid(d, segs)
  <2>1. ASSUME InPlace(d, c, f), Overlaid(c, segs)
        PROVE  Overlaid(d, segs)
    BY <2>1, <1>5, AnewSame
  <2>. QED
    BY <2>1, <1>1, <1>6
<1>8. ChoicesFit(d)
  <2>1. ASSUME NEW h \in Frames, "USER_SELECTED" \in d.fr[h].bw
        PROVE  isSyllableFrame(d.fr[h])
    <3>1. d.fr[h] = c.fr[h]
      BY <2>1, <1>1
    <3>. QED
      BY <3>1, <2>1, <1>2 DEF ChoicesFit
  <2>. QED
    BY <2>1 DEF ChoicesFit
<1>9. StringsSkipped(d)
  <2>1. ASSUME NEW h \in Frames, "IGNORED" \in d.fr[h].bw
        PROVE  /\ h > 0
               /\ "IGNORED" \in d.fr[h - 1].bw \/ (isSyllableFrame(d.fr[h - 1]) /\ d.fr[h - 1].lex # {})
    <3>1. d.fr[h] = c.fr[h]
      BY <2>1, <1>1
    <3>2. /\ h > 0
          /\ "IGNORED" \in c.fr[h - 1].bw \/ (isSyllableFrame(c.fr[h - 1]) /\ c.fr[h - 1].lex # {})
      BY <3>1, <2>1, <1>2 DEF StringsSkipped
    <3>3. h - 1 \in Frames
      BY <3>2, <1>3
    <3>4. CASE h - 1 # f
      BY <3>2, <3>3, <3>4, <1>1
    <3>5. CASE h - 1 = f
      <4>1. CASE InPlace(d, c, f)
        BY <4>1, <3>2, <3>5 DEF InPlace, isSyllableFrame
      <4>2. CASE FromBefore(d, c, f)
        BY <4>2, <3>2, <3>5, <1>6
      <4>. QED
        BY <4>1, <4>2, <1>1
    <3>. QED
      BY <3>4, <3>5
  <2>. QED
    BY <2>1 DEF StringsSkipped
<1>. QED
  BY <1>5, <1>6, <1>7, <1>8, <1>9 DEF d, Sound

\* Taking the last choice back leads to the one before.
LEMMA CancelledTraced ==
  ASSUME NEW c, NEW segs, NEW str, LatticeInv(c, segs, str), Fill(segs, Len(str)),
         NEW f \in Frames, f # 0, NEW C, Traced(c, segs, f, C)
  PROVE  Traced(Cancelled(c, f).ic, segs, Cancelled(c, f).at, C)
<1> DEFINE d == Cancelled(c, f).ic
           to == Cancelled(c, f).at
           L == Live(segs)
<1>1. Sound(c) /\ (Overlaid(c, segs) \/ (Own(c, segs) /\ \E A : Trail(c, L, f, C, A)))
  BY DEF Traced
<1>2. /\ Sound(d) /\ (InPlace(d, c, f) => IsMarkedAnew(d, c))
      /\ FromBefore(d, c, f) => Overlaid(d, segs)
      /\ Overlaid(c, segs) => Overlaid(d, segs)
  BY <1>1, CancelledKeeps
<1>3. /\ \A h \in Frames : h # f => d.fr[h] = c.fr[h]
      /\ d.fr[f].bw = {}
      /\ \/ InPlace(d, c, f) /\ to = IF c.fr[f].bw # {} THEN c.fr[f].sel ELSE f
         \/ FromBefore(d, c, f)
  BY CancelledFrames
<1>4. L \subseteq Frames
  BY LiveEnds
<1> HIDE DEF d, to, L
<1>5. ASSUME InPlace(d, c, f), to = IF c.fr[f].bw # {} THEN c.fr[f].sel ELSE f,
             Own(c, segs), NEW A, Trail(c, L, f, C, A)
      PROVE  Own(d, segs) /\ Trail(d, L, to, C, A)
  <2>1. Own(d, segs)
    BY <1>2, <1>5, AnewSame
  <2>2. /\ A \subseteq Frames /\ f \in A /\ f \in Nat
        /\ \A w \in C : w[1] \in A /\ f <= w[1] /\ w[1] \in Nat
        /\ \A v \in ChosenEnds(c, L) : v \in A /\ v <= f /\ v \in Nat
        /\ c.fr[f].bw # {} => LeadsBack(c, L, A, f)
    BY <1>5, <1>4, LatticeSize DEF Trail, InPlace, ChosenEnds
  <2>3. \A v \in ChosenEnds(d, L) : v \in ChosenEnds(c, L) /\ v # f
    BY <1>3, <1>4 DEF ChosenEnds
  <2>4. to \in A /\ to <= f /\ to \in Nat /\ \A v \in ChosenEnds(d, L) : v <= to
    <3>1. CASE c.fr[f].bw # {}
      <4>1. c.fr[f].sel \in A /\ c.fr[f].sel < f /\ \A v \in ChosenEnds(c, L) : v < f => v <= c.fr[f].sel
        BY <3>1, <2>2 DEF LeadsBack
      <4>2. to = c.fr[f].sel /\ to \in Nat
        BY <3>1, <4>1, <1>5, <2>2, LatticeSize
      <4>3. \A v \in ChosenEnds(d, L) : v < f
        BY <2>2, <2>3
      <4>. QED
        BY <4>1, <4>2, <4>3, <2>2, <2>3
    <3>2. CASE c.fr[f].bw = {}
      BY <3>2, <1>5, <2>2, <2>3
    <3>. QED
      BY <3>1, <3>2
  <2>5. \A w \in C : w[1] \in A /\ to <= w[1]
    BY <2>2, <2>4
  <2>6. ASSUME NEW h \in A, h # 0, d.fr[h].bw # {}, "IGNORED" \notin d.fr[h].bw
        PROVE  LeadsBack(d, L, A, h)
    <3>1. h # f /\ d.fr[h] = c.fr[h]
      BY <2>6, <2>2, <1>3
    <3>2. LeadsBack(c, L, A, h)
      BY <3>1, <2>6, <1>5 DEF Trail
    <3>. QED
      BY <3>1, <3>2, <2>3 DEF LeadsBack
  <2>. QED
    BY <2>1, <2>2, <2>3, <2>4, <2>5, <2>6 DEF Trail
<1>6. Traced(d, segs, to, C)
  BY <1>1, <1>2, <1>3, <1>5 DEF Traced, L
<1>. QED
  BY <1>6 DEF d, to

\* What is said of the path does not change with marks that are neither choices nor best words.
LEMMA OnPathSame ==
  ASSUME NEW c, NEW segs, NEW str, LatticeInv(c, segs, str), Fill(segs, Len(str)), OnPath(c, segs),
         NEW d, IsMarkedAnew(d, c), d.path = c.path,
         \A f \in Frames : /\ "USER_SELECTED" \in d.fr[f].bw <=> "USER_SELECTED" \in c.fr[f].bw
                           /\ c.fr[f].bw # {} => d.fr[f].bw # {}
                           /\ d.fr[f].sel = c.fr[f].sel
  PROVE  OnPath(d, segs)
<1>1. SUFFICES ASSUME Own(d, segs), c.path # {}
               PROVE  /\ WordPath(d, c.path)
                      /\ ChosenEnds(d, Live(segs)) \subseteq c.path
                      /\ \A f \in c.path : d.fr[f].bw # {} /\ d.fr[f].sel = Before(c.path, f)
  BY DEF OnPath
<1>2. /\ WordPath(c, c.path)
      /\ ChosenEnds(c, Live(segs)) \subseteq c.path
      /\ \A f \in c.path : c.fr[f].bw # {} /\ c.fr[f].sel = Before(c.path, f)
  BY <1>1, AnewSame DEF OnPath
<1>3. \A f \in c.path : f \in Frames
  <2>1. c.path \in SUBSET (1 .. c.tail) /\ c.tail = Len(str) + 1
    BY <1>2 DEF WordPath, LatticeInv
  <2>2. Len(str) \in Nat /\ Len(str) + 1 < MaxLattice
    BY EndsInOrder
  <2>3. \A f \in 1 .. c.tail : f \in Frames
    BY <2>1, <2>2, LatticeSize
  <2>. QED
    BY <2>1, <2>3
<1>4. d.tail = c.tail /\ \A f \in Frames : d.fr[f].type = c.fr[f].type /\ Starts(d.fr[f]) = Starts(c.fr[f])
  BY DEF IsMarkedAnew, Starts
<1>5. WordPath(d, c.path)
  BY <1>2, <1>3, <1>4 DEF WordPath
<1>6. ChosenEnds(d, Live(segs)) \subseteq ChosenEnds(c, Live(segs))
  <2>1. \A x \in Live(segs) : x \in Frames
    BY LiveEnds
  <2>. QED
    BY <2>1 DEF ChosenEnds
<1>. QED
  BY <1>2, <1>3, <1>5, <1>6

\* cancelSelection where the next choice begins, with or without a search.
LEMMA CancelledSearchTraced ==
  ASSUME NEW c, NEW segs, NEW str, LatticeInv(c, segs, str), Fill(segs, Len(str)),
         NEW f \in Frames, f # 0, NEW C, Traced(c, segs, f, C), OnPath(c, segs),
         NEW r \in CancelledSearch(c, f)
  PROVE  Traced(r.ic, segs, r.at, C) /\ OnPath(r.ic, segs)
<1> DEFINE q == Cancelled(c, f)
<1>1. LatticeInv(q.ic, segs, str)
  BY CancelledInv DEF Fill
<1>2. Traced(q.ic, segs, q.at, C)
  BY CancelledTraced
<1>3. /\ q.ic.path = c.path
      /\ \A h \in Frames : h # f => q.ic.fr[h] = c.fr[h]
      /\ q.ic.fr[f].bw = {}
      /\ \/ InPlace(q.ic, c, f) /\ (q.found <=> c.fr[f].bw # {})
         \/ FromBefore(q.ic, c, f)
  BY CancelledFrames
<1>4. /\ InPlace(q.ic, c, f) => IsMarkedAnew(q.ic, c)
      /\ FromBefore(q.ic, c, f) => Overlaid(q.ic, segs)
  BY CancelledKeeps DEF Traced
<1>5. \E x, y, z : q = [ic |-> x, at |-> y, found |-> z]
  BY DEF Cancelled
<1>6. \/ ~ q.found /\ r = q
      \/ \E d \in Searched(q.ic) : r = [q EXCEPT !.ic = d]
  BY DEF CancelledSearch
<1> HIDE DEF q
<1>7. ASSUME ~ q.found, r = q
      PROVE  OnPath(q.ic, segs)
  <2>1. ASSUME FromBefore(q.ic, c, f)
        PROVE  OnPath(q.ic, segs)
    <3>1. ~ Own(q.ic, segs)
      BY <2>1, <1>1, <1>4, OwnNotOverlaid
    <3>. QED
      BY <3>1 DEF OnPath
  <2>2. ASSUME InPlace(q.ic, c, f), c.fr[f].bw = {}
        PROVE  OnPath(q.ic, segs)
    <3>1. \A h \in Frames : q.ic.fr[h].bw = c.fr[h].bw /\ q.ic.fr[h].sel = c.fr[h].sel
      BY <2>2, <1>3 DEF InPlace
    <3>. QED
      BY <3>1, <2>2, <1>3, <1>4, OnPathSame
  <2>. QED
    BY <2>1, <2>2, <1>3, <1>7
<1>8. ASSUME NEW d \in Searched(q.ic), r = [q EXCEPT !.ic = d]
      PROVE  Traced(r.ic, segs, r.at, C) /\ OnPath(r.ic, segs)
  <2>1. r.ic = d /\ r.at = q.at
    BY <1>5, <1>8
  <2>2. Traced(d, segs, q.at, C) /\ OnPath(d, segs)
    BY <1>1, <1>2, <1>8, SearchedTraced
  <2>. QED
    BY <2>1, <2>2
<1>. QED
  BY <1>2, <1>6, <1>7, <1>8 DEF q

\* Taking back every choice along the path leaves no chosen word a path may take.
LEMMA AllCancelledTraced ==
  ASSUME NEW c, NEW segs, NEW str, LatticeInv(c, segs, str), Fill(segs, Len(str)),
         NEW at, NEW C, Traced(c, segs, at, C), OnPath(c, segs), c.path # {},
         NEW D, \A w \in D : w[1] = 0
  PROVE  Traced(AllCancelled(c), segs, 0, D)
<1> DEFINE n == MaxLattice - 1
           Left(d, k) == \A h \in Frames : "USER_SELECTED" \in d.fr[h].bw =>
                           "USER_SELECTED" \in c.fr[h].bw /\ (h \in c.path => h > k)
           J(d, k) == /\ LatticeInv(d, segs, str) /\ Sound(d)
                      /\ Overlaid(c, segs) => Overlaid(d, segs)
                      /\ Overlaid(d, segs) \/ (Own(d, segs) /\ Left(d, k))
<1>1. n \in Nat /\ Frames = 0 .. n
  BY LatticeSize
<1>2. PICK after : /\ after[0] = c
                   /\ \A k \in 1 .. n : after[k] = CancelTurn(c.path, after[k - 1], k)
                   /\ AllCancelled(c) = after[n]
  BY AllCancelledCourse DEF Fill
<1>3. Sound(c) /\ (Overlaid(c, segs) \/ Own(c, segs))
  BY DEF Traced
<1>4. c.path \subseteq Nat \ {0}
  BY ContextFields DEF LatticeInv
<1>5. J(c, 0)
  BY <1>3, <1>4
<1>6. ASSUME NEW d, NEW k \in 1 .. n, J(d, k - 1)
      PROVE  J(CancelTurn(c.path, d, k), k)
  <2>1. k \in Frames /\ k \in Nat
    BY <1>1
  <2>2. CASE k \in c.path /\ "USER_SELECTED" \in d.fr[k].bw
    <3> DEFINE e == Cancelled(d, k).ic
    <3>1. CancelTurn(c.path, d, k) = e
      BY <2>2 DEF CancelTurn
    <3>2. LatticeInv(e, segs, str)
      BY <2>1, <1>6, CancelledInv DEF Fill
    <3>3. /\ Sound(e) /\ (InPlace(e, d, k) => IsMarkedAnew(e, d))
          /\ FromBefore(e, d, k) => Overlaid(e, segs)
          /\ Overlaid(d, segs) => Overlaid(e, segs)
      BY <2>1, <1>6, CancelledKeeps
    <3>4. /\ \A h \in Frames : h # k => e.fr[h] = d.fr[h]
          /\ e.fr[k].bw = {} /\ (InPlace(e, d, k) \/ FromBefore(e, d, k))
      BY <2>1, <1>6, CancelledFrames
    <3> HIDE DEF e
    <3>5. ASSUME InPlace(e, d, k), Own(d, segs), Left(d, k - 1)
          PROVE  Own(e, segs) /\ Left(e, k)
      <4>1. Own(e, segs)
        BY <3>3, <3>5, AnewSame
      <4>2. ASSUME NEW h \in Frames, "USER_SELECTED" \in e.fr[h].bw
            PROVE  "USER_SELECTED" \in c.fr[h].bw /\ (h \in c.path => h > k)
        <5>1. h # k /\ e.fr[h] = d.fr[h]
          BY <4>2, <3>4
        <5>2. "USER_SELECTED" \in c.fr[h].bw /\ (h \in c.path => h > k - 1)
          BY <5>1, <4>2, <3>5
        <5>3. h \in Nat
          BY LatticeSize
        <5>. QED
          BY <5>1, <5>2, <5>3, <2>1
      <4>. QED
        BY <4>1, <4>2
    <3>6. J(e, k)
      BY <3>2, <3>3, <3>4, <3>5, <1>6
    <3>. QED
      BY <3>1, <3>6
  <2>3. CASE ~ (k \in c.path /\ "USER_SELECTED" \in d.fr[k].bw)
    <3>1. CancelTurn(c.path, d, k) = d
      BY <2>3 DEF CancelTurn
    <3>2. ASSUME Left(d, k - 1)
          PROVE  Left(d, k)
      <4>1. ASSUME NEW h \in Frames, "USER_SELECTED" \in d.fr[h].bw
            PROVE  "USER_SELECTED" \in c.fr[h].bw /\ (h \in c.path => h > k)
        <5>1. "USER_SELECTED" \in c.fr[h].bw /\ (h \in c.path => h > k - 1)
          BY <3>2, <4>1
        <5>2. h \in Nat /\ (h \in c.path => h # k)
          BY <2>3, <4>1, LatticeSize
        <5>. QED
          BY <5>1, <5>2, <2>1
      <4>. QED
        BY <4>1
    <3> HIDE DEF Left
    <3>. QED
      BY <3>1, <3>2, <1>6
  <2>. QED
    BY <2>2, <2>3
<1> DEFINE Q == {k \in 0 .. n : J(after[k], k)}
           e == after[n]
<1> HIDE DEF J
<1>7. 0 \in Q
  BY <1>1, <1>2, <1>5
<1>8. ASSUME NEW k \in 1 .. n, k - 1 \in Q
      PROVE  k \in Q
  BY <1>1, <1>2, <1>6, <1>8
<1> HIDE DEF Q
<1>9. J(e, n)
  <2>1. 0 .. n \subseteq Q
    BY <1>1, <1>7, <1>8, Stays
  <2>. QED
    BY <2>1, <1>1 DEF Q
<1> HIDE DEF e
<1> USE DEF J
<1>10. ASSUME ~ Overlaid(e, segs)
       PROVE  Own(e, segs) /\ Trail(e, Live(segs), 0, D, {0})
  <2>1. Own(e, segs) /\ Left(e, n) /\ Own(c, segs)
    BY <1>3, <1>9, <1>10
  <2>2. ChosenEnds(c, Live(segs)) \subseteq c.path /\ \A x \in Live(segs) : x \in Frames
    BY <2>1, LiveEnds DEF OnPath
  <2>3. ChosenEnds(e, Live(segs)) = {}
    <3>1. ASSUME NEW x \in Live(segs), x # 0, "USER_SELECTED" \in e.fr[x].bw
          PROVE  FALSE
      <4>1. x \in Frames /\ x \in Nat /\ x <= n
        BY <2>2, <1>1
      <4>2. "USER_SELECTED" \in c.fr[x].bw /\ (x \in c.path => x > n)
        BY <2>1, <3>1, <4>1
      <4>3. x \in c.path
        BY <2>2, <3>1, <4>2 DEF ChosenEnds
      <4>. QED
        BY <4>1, <4>2, <4>3, <1>1
    <3>. QED
      BY <3>1 DEF ChosenEnds
  <2>4. 0 \in Frames /\ \A w \in D : w[1] \in {0} /\ 0 <= w[1]
    BY LatticeSize
  <2>. QED
    BY <2>1, <2>3, <2>4 DEF Trail
<1>11. Traced(e, segs, 0, D)
  <2>1. Sound(e)
    BY <1>9
  <2>. QED
    BY <2>1, <1>10 DEF Traced
<1>. QED
  BY <1>2, <1>11 DEF e

-----------------------------------------------------------------------------
(* Choosing a word.                                                        *)

\* A word that begins where the next choice does, or behind, lies apart from those chosen before.
LEMMA ChosenTraced ==
  ASSUME NEW c, NEW segs, NEW str, LatticeInv(c, segs, str), Fill(segs, Len(str)),
         NEW at, NEW C, Traced(c, segs, at, C), NEW w \in C, Choosable(c, w),
         NEW e, LatticeInv(e, segs, str), IsChosenIn(e, c, w)
  PROVE  Traced(e, segs, w[2], {})
<1> DEFINE L == Live(segs)
           z == w[2]
<1>1. Sound(c) /\ (Overlaid(c, segs) \/ (Own(c, segs) /\ \E A : Trail(c, L, at, C, A)))
  BY DEF Traced
<1>2. Len(str) \in Nat /\ Len(str) + 1 < MaxLattice /\ (segs = << >> => Len(str) = 0)
  BY EndsInOrder DEF Fill, EndsWith
<1>3. /\ z \in Frames /\ z \in Nat /\ z # 0 /\ segs # << >>
      /\ isSyllableFrame(c.fr[z]) /\ w[1] \in Starts(c.fr[z])
  <2>1. z \in Frames /\ z \in Nat /\ z # 0 /\ z <= LastFr(c) /\ LastFr(c) = Len(str)
    BY <1>2, ChoosableEnd, BeforeTail
  <2>. QED
    BY <2>1, <1>2 DEF Choosable
<1>4. /\ IsMarkedAnew(e, c)
      /\ e.fr[z].bw = c.fr[z].bw \cup {"USER_SELECTED"} /\ e.fr[z].sel = w[1]
      /\ \A g \in Frames : g # z => e.fr[g] = c.fr[g]
  BY DEF IsChosenIn, IsSearched
<1>5. L \subseteq Frames
  BY LiveEnds
<1> HIDE DEF z, L
<1>6. Sound(e)
  <2>1. \A f \in Frames : /\ "IGNORED" \in e.fr[f].bw <=> "IGNORED" \in c.fr[f].bw
                          /\ "USER_SELECTED" \in e.fr[f].bw => f = z \/ "USER_SELECTED" \in c.fr[f].bw
    BY <1>4
  <2>2. \A f \in Frames : f > 0 => f - 1 \in Frames
    BY LatticeSize
  <2>3. ChoicesFit(e)
    BY <2>1, <1>1, <1>3, <1>4 DEF Sound, ChoicesFit, IsMarkedAnew, isSyllableFrame
  <2>4. StringsSkipped(e)
    BY <2>1, <2>2, <1>1, <1>4 DEF Sound, StringsSkipped, IsMarkedAnew, isSyllableFrame
  <2>. QED
    BY <2>3, <2>4 DEF Sound
<1>7. ASSUME Own(c, segs), NEW A, Trail(c, L, at, C, A)
      PROVE  Own(e, segs) /\ Trail(e, L, z, {}, {x \in A : x < z} \cup {z})
  <2> DEFINE B == {x \in A : x < z} \cup {z}
  <2>1. Own(e, segs)
    BY <1>4, <1>7, AnewSame
  <2>2. /\ A \subseteq Frames /\ w[1] \in A /\ at <= w[1] /\ at \in A
        /\ \A v \in ChosenEnds(c, L) : v \in A /\ v <= at
    BY <1>7 DEF Trail
  <2>3. w[1] < z /\ w[1] \in Nat /\ at \in Nat
    <3>1. IsRung(c.fr, L, z)
      BY <1>3, <1>7, OwnRungs DEF L
    <3>. QED
      BY <3>1, <2>2, <1>3, LatticeSize DEF IsRung
  <2>4. \A v \in ChosenEnds(c, L) : v \in Nat /\ v <= w[1] /\ v < z
    <3>1. \A v \in ChosenEnds(c, L) : v \in Nat /\ v <= at
      BY <2>2, LatticeSize
    <3>. QED
      BY <3>1, <2>2, <2>3, <1>3
  <2>5. \A v \in ChosenEnds(e, L) : v = z \/ v \in ChosenEnds(c, L)
    BY <1>4, <1>5 DEF ChosenEnds
  <2>6. \A v \in ChosenEnds(e, L) : v \in B /\ v <= z
    BY <2>2, <2>4, <2>5, <1>3
  <2>7. ASSUME NEW f \in B, f # 0, e.fr[f].bw # {}, "IGNORED" \notin e.fr[f].bw
        PROVE  LeadsBack(e, L, B, f)
    <3>1. CASE f = z
      <4>1. w[1] \in B
        BY <2>2, <2>3
      <4>2. \A v \in ChosenEnds(e, L) : v < f => v <= w[1]
        BY <3>1, <2>4, <2>5, <1>3
      <4>. QED
        BY <3>1, <4>1, <4>2, <2>3, <1>4 DEF LeadsBack
    <3>2. CASE f # z
      <4>1. f \in A /\ f < z /\ f \in Frames /\ f \in Nat
        BY <3>2, <2>2, LatticeSize
      <4>2. e.fr[f] = c.fr[f]
        BY <3>2, <4>1, <1>4
      <4>3. LeadsBack(c, L, A, f)
        BY <4>1, <4>2, <2>7, <1>7 DEF Trail
      <4>4. c.fr[f].sel \in A /\ c.fr[f].sel < f /\ c.fr[f].sel \in Nat
        BY <4>3, <2>2, LatticeSize DEF LeadsBack
      <4>5. c.fr[f].sel \in B
        <5>1. c.fr[f].sel < z
          BY <4>1, <4>4, <1>3
        <5>. QED
          BY <5>1, <4>4
      <4>6. \A v \in ChosenEnds(e, L) : v < f => v \in ChosenEnds(c, L)
        BY <2>5, <4>1, <1>3
      <4>. QED
        BY <4>2, <4>3, <4>4, <4>5, <4>6 DEF LeadsBack
    <3>. QED
      BY <3>1, <3>2
  <2>8. B \subseteq Frames /\ z \in B
    BY <2>2, <1>3
  <2>. QED
    BY <2>1, <2>6, <2>7, <2>8 DEF Trail
<1>8. Traced(e, segs, z, {})
  BY <1>1, <1>4, <1>6, <1>7, AnewSame DEF Traced, L
<1>. QED
  BY <1>8 DEF z

\* makeSelection of the context.
LEMMA SelectedTraced ==
  ASSUME NEW c, NEW segs, NEW str, LatticeInv(c, segs, str), Fill(segs, Len(str)),
         NEW at, NEW C, Traced(c, segs, at, C), NEW w \in C, Choosable(c, w), NEW d \in Selected(c, w)
  PROVE  Traced(d, segs, w[2], {}) /\ OnPath(d, segs)
<1> DEFINE e == [c EXCEPT !.fr[w[2]] = Marked(@, "USER_SELECTED", w[1])]
<1>1. d \in Searched(e)
  BY DEF Selected
<1>2. LatticeInv(e, segs, str) /\ IsChosenIn(e, c, w)
  BY EndsInOrder, ChosenMarked
<1> HIDE DEF e
<1>3. Traced(e, segs, w[2], {})
  BY <1>2, ChosenTraced
<1>. QED
  BY <1>1, <1>2, <1>3, SearchedTraced

\* The choice moves on over strings.
LEMMA IgnoredTraced ==
  ASSUME NEW c, NEW segs, NEW str, LatticeInv(c, segs, str), Fill(segs, Len(str)),
         NEW e \in Frames, e <= LastFr(c), isSyllableFrame(c.fr[e]), c.fr[e].lex # {},
         Traced(c, segs, e, {}), OnPath(c, segs),
         NEW at, at = SkipStrings(c, e), NEW d, IsMarkedAnew(d, c), SkippedOver(d, c, e + 1 .. at),
         NEW D, \A w \in D : w[1] = at
  PROVE  Traced(d, segs, at, D) /\ OnPath(d, segs)
<1> DEFINE L == Live(segs)
           S == e + 1 .. at
<1>1. Sound(c) /\ (Overlaid(c, segs) \/ (Own(c, segs) /\ \E A : Trail(c, L, e, {}, A)))
  BY DEF Traced
<1>2. Len(str) \in Nat /\ Len(str) + 1 < MaxLattice /\ e \in Nat /\ c \in Context /\ c.tail \in Nat
      /\ LastFr(c) = Len(str) /\ L \subseteq Frames
  <2>1. Len(str) \in Nat /\ Len(str) + 1 < MaxLattice
    BY EndsInOrder
  <2>. QED
    BY <2>1, BeforeTail, LatticeSize, LiveEnds
<1>3. IsMarkedAnew(d, c)
  OBVIOUS
<1>4. SkippedOver(d, c, S)
  OBVIOUS
<1>5. at \in Nat /\ e <= at /\ at \in Frames
  <2>1. at \in e .. LastFr(c)
    BY <1>2, SkipStringsBounds
  <2>. QED
    BY <2>1, <1>2, LatticeSize
<1>s. \A f : f \in S <=> f \in e + 1 .. at
  OBVIOUS
<1> HIDE DEF S
<1>p. d.path = c.path
  BY <1>4 DEF SkippedOver
<1>6. \A f \in Frames : /\ "USER_SELECTED" \in d.fr[f].bw <=> "USER_SELECTED" \in c.fr[f].bw
                        /\ c.fr[f].bw # {} => d.fr[f].bw # {}
                        /\ d.fr[f].sel = c.fr[f].sel
                        /\ f \in S => "IGNORED" \in d.fr[f].bw
                        /\ f \notin S => d.fr[f].bw = c.fr[f].bw
  BY <1>4 DEF SkippedOver
<1>7. OnPath(d, segs)
  BY <1>3, <1>p, <1>6, OnPathSame
<1> HIDE DEF L
<1>8. Sound(d)
  <2>1. ChoicesFit(d)
    BY <1>1, <1>3, <1>6 DEF Sound, ChoicesFit, IsMarkedAnew, isSyllableFrame
  <2>2. ASSUME NEW f \in Frames, "IGNORED" \in d.fr[f].bw
        PROVE  /\ f > 0
               /\ "IGNORED" \in d.fr[f - 1].bw \/ (isSyllableFrame(d.fr[f - 1]) /\ d.fr[f - 1].lex # {})
    <3>1. \A x \in Frames : /\ isSyllableFrame(d.fr[x]) <=> isSyllableFrame(c.fr[x])
                            /\ d.fr[x].lex = c.fr[x].lex
                            /\ "IGNORED" \in c.fr[x].bw => "IGNORED" \in d.fr[x].bw
                            /\ x \in S => "IGNORED" \in d.fr[x].bw
      BY <1>3, <1>6 DEF IsMarkedAnew, isSyllableFrame
    <3>2. f \in Nat /\ (f > 0 => f - 1 \in Frames)
      BY LatticeSize
    <3>3. CASE f \in S
      <4>1. f > 0 /\ (f - 1 = e \/ f - 1 \in S)
        BY <3>2, <3>3, <1>2, <1>5, <1>s
      <4>. QED
        BY <4>1, <3>1, <3>2
    <3>4. CASE f \notin S
      <4>1. "IGNORED" \in c.fr[f].bw
        BY <3>4, <2>2, <1>6
      <4>2. /\ f > 0
            /\ "IGNORED" \in c.fr[f - 1].bw \/ (isSyllableFrame(c.fr[f - 1]) /\ c.fr[f - 1].lex # {})
        BY <4>1, <1>1 DEF Sound, StringsSkipped
      <4>. QED
        BY <4>2, <3>1, <3>2
    <3>. QED
      BY <3>3, <3>4
  <2>. QED
    BY <2>1, <2>2 DEF Sound, StringsSkipped
<1>9. ASSUME Own(c, segs), NEW A, Trail(c, L, e, {}, A)
      PROVE  Own(d, segs) /\ Trail(d, L, at, D, A \cup {at})
  <2> DEFINE B == A \cup {at}
  <2>1. Own(d, segs)
    BY <1>3, <1>9, AnewSame
  <2>2. ChosenEnds(d, L) = ChosenEnds(c, L)
    BY <1>2, <1>6 DEF ChosenEnds
  <2>3. A \subseteq Frames /\ e \in A /\ \A v \in ChosenEnds(c, L) : v \in A /\ v <= e
    BY <1>9 DEF Trail
  <2>4. \A v \in ChosenEnds(d, L) : v \in B /\ v <= at
    <3>1. \A v \in ChosenEnds(c, L) : v \in Nat
      BY <2>3, LatticeSize
    <3>. QED
      BY <3>1, <2>2, <2>3, <1>2, <1>5
  <2>5. ASSUME NEW f \in B, f # 0, d.fr[f].bw # {}, "IGNORED" \notin d.fr[f].bw
        PROVE  LeadsBack(d, L, B, f)
    <3>1. f \in Frames /\ f \notin S
      BY <2>3, <2>5, <1>6, <1>5
    <3>2. f \in A
      <4>1. CASE f = at
        <5>1. f = e
          BY <4>1, <3>1, <1>2, <1>5, <1>s
        <5>. QED
          BY <5>1, <2>3
      <4>2. CASE f # at
        BY <4>2
      <4>. QED
        BY <4>1, <4>2
    <3>3. c.fr[f].bw = d.fr[f].bw /\ c.fr[f].sel = d.fr[f].sel
      BY <3>1, <1>6
    <3>4. LeadsBack(c, L, A, f)
      BY <3>2, <3>3, <2>5, <1>9 DEF Trail
    <3>. QED
      BY <3>3, <3>4, <2>2 DEF LeadsBack
  <2>6. B \subseteq Frames /\ at \in B /\ \A w \in D : w[1] \in B /\ at <= w[1]
    BY <2>3, <1>5
  <2> HIDE DEF B
  <2>7. Trail(d, L, at, D, B)
    BY <2>4, <2>5, <2>6 DEF Trail
  <2>. QED
    BY <2>1, <2>7 DEF B
<1>10. Traced(d, segs, at, D)
  BY <1>1, <1>3, <1>8, <1>9, AnewSame DEF Traced, L
<1>. QED
  BY <1>7, <1>10

-----------------------------------------------------------------------------
(* The calls a handler is made of keep it.                                 *)

\* The segments of the segmentor fill the input.
LEMMA SegsFill ==
  ASSUME SegmentorInv
  PROVE  Fill(sg.segs, Len(sg.str))
<1>1. sg.segs \in Seq(Segment) /\ sg.str \in Seq(Keys) /\ Cuts(sg.segs, sg.str) /\ Len(sg.str) + 1 < MaxLattice
  BY DEF SegmentorInv, Segmentor
<1>. QED
  BY <1>1, CutsFill

\* Listing the words at the frame the choice has come to.
LEMMA ListedTraced ==
  ASSUME NEW c, NEW segs, NEW at, NEW C, Traced(c, segs, at, C), OnPath(c, segs),
         NEW D, \A w \in D : w[1] = at,
         NEW d, d.fr = c.fr, d.tail = c.tail, d.path = c.path
  PROVE  Traced(d, segs, at, D) /\ OnPath(d, segs)
<1>1. Traced(d, segs, at, D)
  <2>1. ASSUME NEW A, Trail(c, Live(segs), at, C, A)
        PROVE  Trail(d, Live(segs), at, D, A)
    <3>1. at \in A /\ at \in Nat
      BY <2>1, LatticeSize DEF Trail
    <3>2. \A w \in D : w[1] \in A /\ at <= w[1]
      BY <3>1
    <3>3. ChosenEnds(d, Live(segs)) = ChosenEnds(c, Live(segs))
      BY DEF ChosenEnds
    <3>4. \A f : LeadsBack(c, Live(segs), A, f) => LeadsBack(d, Live(segs), A, f)
      BY <3>3 DEF LeadsBack
    <3>. QED
      BY <2>1, <3>2, <3>3, <3>4 DEF Trail
  <2>2. Sound(d)
    BY DEF Traced, Sound, ChoicesFit, StringsSkipped
  <2>3. /\ Own(c, segs) => Own(d, segs)
        /\ Overlaid(c, segs) => Overlaid(d, segs)
    BY DEF Own, Overlaid
  <2>. QED
    BY <2>1, <2>2, <2>3 DEF Traced
<1>2. OnPath(d, segs)
  BY DEF OnPath, Own, WordPath, ChosenEnds, Starts
<1>. QED
  BY <1>1, <1>2

\* WithCandidates leaves the frames and the path, and lists words that start there.
LEMMA WithCandidatesSame ==
  ASSUME NEW c \in Context, NEW at
  PROVE  /\ WithCandidates(c, at).fr = c.fr /\ WithCandidates(c, at).tail = c.tail
         /\ WithCandidates(c, at).path = c.path
         /\ \A w \in Candidates(c, at) : w[1] = at
<1>1. c = [fr |-> c.fr, tail |-> c.tail, path |-> c.path, starts |-> c.starts, ends |-> c.ends]
  BY ContextFields
<1>2. PICK x : WithCandidates(c, at) = [c EXCEPT !.starts = at, !.ends = x]
  BY DEF WithCandidates
<1>3. \A w \in Candidates(c, at) : w[1] = at
  BY DEF Candidates
<1>. QED
  BY <1>1, <1>2, <1>3

\* buildLattice, listing the words again or not.
LEMMA BuiltTraced ==
  ASSUME NEW a, NEW str, NEW c, LatticeInv(c, a, str), Fill(a, Len(str)),
         NEW s \in Segmentor, Cuts(s.segs, s.str), Len(s.str) + 1 < MaxLattice,
         IsChanged(a, Len(str), s.segs, Len(s.str), s.updatedFrom),
         RebuildFrom(s) = s.updatedFrom + 1, ~ DeletesShared(c, s.updatedFrom + 1),
         Traced(c, a, candiFr', candis), NEW r \in Built(c, s)
  PROVE  Traced(r.ic, s.segs, candiFr', r.candis) /\ OnPath(r.ic, s.segs)
<1> DEFINE u == s.updatedFrom
           built == Relaid(c, s.segs, u + 1)
<1>1. Fill(s.segs, Len(s.str))
  <2>1. s.segs \in Seq(Segment) /\ s.str \in Seq(Keys)
    BY DEF Segmentor
  <2>. QED
    BY <2>1, CutsFill
<1>2. Traced(built, s.segs, candiFr', candis)
  BY <1>1, RelaidTraced
<1>3. LatticeInv(built, s.segs, s.str)
  BY RelaidInv
<1>4. PICK d \in Searched(built), affects \in Affects(built, u + 1) :
         r = IF affects THEN Listed(d) ELSE [ic |-> d, candis |-> candis]
  BY DEF Built
<1> HIDE DEF built
<1>5. Traced(d, s.segs, candiFr', candis) /\ OnPath(d, s.segs)
  BY <1>1, <1>2, <1>3, <1>4, SearchedTraced
<1>6. CASE affects
  <2>1. r.ic = WithCandidates(d, candiFr') /\ r.candis = Candidates(d, candiFr')
    BY <1>4, <1>6 DEF Listed
  <2>2. d \in Context
    <3>1. LatticeInv(d, s.segs, s.str)
      BY <1>3, <1>4, SearchedInv
    <3>. QED
      BY <3>1 DEF LatticeInv
  <2>. QED
    BY <2>1, <2>2, <1>5, WithCandidatesSame, ListedTraced
<1>7. CASE ~ affects
  BY <1>4, <1>5, <1>7
<1>. QED
  BY <1>6, <1>7

\* See Rebuild.
LEMMA RebuildTraced ==
  ASSUME SegmentorInv, NEW c, LatticeInv(c, sg.segs, sg.str), NEW s, Rebuild(c, s), sg' = s => IsNext(s),
         Traced(c, sg.segs, candiFr', candis), fault' = "none"
  PROVE  Traced(ic', sg'.segs, candiFr', candis') /\ OnPath(ic', sg'.segs)
<1>1. BuildFault(c, s.str, RebuildFrom(s)) = "none"
  BY DEF Rebuild
<1>2. sg' = s /\ \E r \in Built(c, s) : ic' = r.ic /\ candis' = r.candis
  BY <1>1 DEF Rebuild
<1>3. PICK r \in Built(c, s) : ic' = r.ic /\ candis' = r.candis
  BY <1>2
<1>4. IsNext(s) /\ s \in Segmentor
  BY <1>2 DEF IsNext
<1>5. /\ Cuts(s.segs, s.str) /\ Len(s.str) + 1 < MaxLattice
      /\ IsChanged(sg.segs, Len(sg.str), s.segs, Len(s.str), s.updatedFrom)
      /\ RebuildFrom(s) = s.updatedFrom + 1 /\ ~ DeletesShared(c, s.updatedFrom + 1)
  BY <1>1, <1>4, NextChanged
<1>6. Traced(r.ic, s.segs, candiFr', r.candis) /\ OnPath(r.ic, s.segs)
  BY <1>4, <1>5, SegsFill, BuiltTraced
<1>. QED
  BY <1>2, <1>3, <1>6

\* See RelaidAndListed.
LEMMA RelaidAndListedTraced ==
  ASSUME SegmentorInv, NEW C, \A c \in C : LatticeInv(c, sg.segs, sg.str),
         NEW u, IsChanged(sg.segs, Len(sg.str), sg.segs, Len(sg.str), u),
         RelaidAndListed(C, u + 1),
         NEW W, \A c \in C : Traced(c, sg.segs, candiFr', W), fault' = "none"
  PROVE  Traced(ic', sg.segs, candiFr', candis') /\ OnPath(ic', sg.segs)
<1>1. PICK c \in C :
    IF DeletesShared(c, u + 1) THEN fault' = "double delete" /\ UNCHANGED <<ic, candis>>
    ELSE /\ \E d \in Searched(Relaid(c, sg.segs, u + 1)) :
              ic' = Listed(d).ic /\ candis' = Listed(d).candis
         /\ UNCHANGED fault
  BY DEF RelaidAndListed
<1>2. ~ DeletesShared(c, u + 1)
  BY <1>1
<1>3. PICK d \in Searched(Relaid(c, sg.segs, u + 1)) :
              ic' = Listed(d).ic /\ candis' = Listed(d).candis
  BY <1>1, <1>2
<1>4. LatticeInv(Relaid(c, sg.segs, u + 1), sg.segs, sg.str)
  BY RelaidInv
<1>5. Traced(Relaid(c, sg.segs, u + 1), sg.segs, candiFr', W)
  BY <1>2, SegsFill, RelaidTraced
<1>6. Traced(d, sg.segs, candiFr', W) /\ OnPath(d, sg.segs)
  BY <1>3, <1>4, <1>5, SegsFill, SearchedTraced
<1>7. d \in Context
  <2>1. LatticeInv(d, sg.segs, sg.str)
    BY <1>3, <1>4, SearchedInv
  <2>. QED
    BY <2>1 DEF LatticeInv
<1>8. ic' = WithCandidates(d, candiFr') /\ candis' = Candidates(d, candiFr')
  BY <1>3 DEF Listed
<1>. QED
  BY <1>6, <1>7, <1>8, WithCandidatesSame, ListedTraced

\* See List.
LEMMA ListTraced ==
  ASSUME NEW c, LatticeInv(c, sg.segs, sg.str), List(c), sg' = sg,
         NEW W, Traced(c, sg.segs, candiFr', W), OnPath(c, sg.segs)
  PROVE  Traced(ic', sg.segs, candiFr', candis') /\ OnPath(ic', sg.segs)
<1>1. ic' = WithCandidates(c, candiFr') /\ candis' = Candidates(c, candiFr')
  BY DEF List, Listed
<1>2. c \in Context
  BY DEF LatticeInv
<1>. QED
  BY <1>1, <1>2, WithCandidatesSame, ListedTraced

-----------------------------------------------------------------------------
(* The keys.                                                               *)

(* While the program runs, the choices, the frame the choice has come to   *)
(* and the words listed there fit together, and the path the last search   *)
(* found leads over every choice.                                          *)
SentenceInv == Running => Traced(ic, sg.segs, candiFr, candis) /\ OnPath(ic, sg.segs)

\* A lattice without input.
LEMMA BlankTraced ==
  ASSUME NEW d, d.path = {}, FirstFrame(d), "USER_SELECTED" \notin d.fr[0].bw,
         \A f \in Frames : f # 0 => Blank(d.fr, f)
  PROVE  Traced(d, << >>, 0, {}) /\ OnPath(d, << >>)
<1>1. Own(d, << >>)
  <2>1. FitSegments(<< >>, 0) /\ EndsWith(<< >>, 0)
    <3>1. << >> \in Seq(Segment) /\ Len(<< >>) = 0 /\ 0 + 1 < MaxLattice
      BY LatticeSize
    <3>. QED
      BY <3>1 DEF FitSegments, EndsWith
  <2>2. ASSUME NEW f \in Frames
        PROVE  d.fr[f].home = Whole(<< >>)[f].home
    <3>1. ~ \E i \in 1 .. Len(<< >>) : End(<< >>[i]) = f /\ << >>[i].type = "sep"
      OBVIOUS
    <3>2. Whole(<< >>)[f].home = f
      BY <2>1, <3>1, WholeFrames
    <3>3. d.fr[f].home = f
      BY DEF Blank, FirstFrame
    <3>. QED
      BY <3>2, <3>3
  <2>. QED
    BY <2>2 DEF Own
<1>2. \A f \in Frames : "USER_SELECTED" \notin d.fr[f].bw /\ "IGNORED" \notin d.fr[f].bw
  BY DEF Blank, FirstFrame
<1>3. Sound(d)
  BY <1>2 DEF Sound, ChoicesFit, StringsSkipped
<1>4. Trail(d, Live(<< >>), 0, {}, {0})
  <2>1. ChosenEnds(d, Live(<< >>)) = {}
    BY DEF ChosenEnds, Live
  <2>. QED
    BY <2>1, LatticeSize DEF Trail
<1>5. Traced(d, << >>, 0, {})
  BY <1>1, <1>3, <1>4 DEF Traced
<1>. QED
  BY <1>5 DEF OnPath

\* What the invariant says while the program runs.
LEMMA SentenceFacts ==
  ASSUME ViewInv, SentenceInv, Running
  PROVE  /\ SegmentorInv /\ LatticeInv(ic, sg.segs, sg.str) /\ Fill(sg.segs, Len(sg.str))
         /\ Traced(ic, sg.segs, candiFr, candis) /\ OnPath(ic, sg.segs)
         /\ candiFr \in Frames /\ cursor \in Nat
BY ViewFacts, SegsFill DEF SentenceInv

\* The input is cleared.
LEMMA ClearICSentence ==
  ASSUME ViewInv, SentenceInv, Running, ClearIC
  PROVE  SentenceInv'
<1>1. CASE DeletesShared(ic, 1)
  <2>1. fault' # "none"
    BY <1>1 DEF ClearIC
  <2>. QED
    BY <2>1 DEF SentenceInv, Running
<1>2. CASE ~ DeletesShared(ic, 1)
  <2>1. /\ ic' = [ClearedFrom(ic, 1) EXCEPT !.tail = 1, !.path = {}, !.starts = 0, !.ends = 0]
        /\ sg'.segs = << >> /\ candiFr' = 0 /\ candis' = {}
    BY <1>2 DEF ClearIC, Cleared
  <2>2. ic \in Context /\ ClearBehind(ic) /\ FirstFrame(ic)
    BY ViewFacts DEF LatticeInv
  <2>3. "USER_SELECTED" \notin ic.fr[0].bw
    <3>1. ic.fr[0].type = "unused"
      BY <2>2 DEF FirstFrame
    <3>. QED
      BY <3>1, LatticeSize, SentenceFacts DEF Traced, Sound, ChoicesFit, isSyllableFrame
  <2>4. /\ ic'.path = {} /\ FirstFrame(ic') /\ ic'.fr[0] = ic.fr[0]
        /\ \A f \in Frames : f # 0 => Blank(ic'.fr, f)
    BY <2>1, <2>2, ClearedContext
  <2>5. Traced(ic', << >>, 0, {}) /\ OnPath(ic', << >>)
    BY <2>3, <2>4, BlankTraced
  <2>. QED
    BY <2>1, <2>5 DEF SentenceInv
<1>. QED
  BY <1>1, <1>2

\* A key that leaves the choices and builds the lattice again, or not.
LEMMA EditSentence ==
  ASSUME ViewInv, SentenceInv, Running, candiFr' = candiFr, NEW s, Rebuild(ic, s), sg' = s => IsNext(s)
  PROVE  SentenceInv'
<1>1. fault' = "none" => Traced(ic', sg'.segs, candiFr', candis') /\ OnPath(ic', sg'.segs)
  BY SentenceFacts, RebuildTraced
<1>. QED
  BY <1>1 DEF SentenceInv, Running

\* A key is typed.
LEMMA InsertSentence ==
  ASSUME ViewInv, SentenceInv, NEW ch \in Keys, Len(sg'.buf) < LenModulus, Insert(ch)
  PROVE  SentenceInv'
<1> DEFINE s == IF cursor = LastFr(ic) THEN Pushed(sg, ch) ELSE InsertedAt(sg, cursor, ch)
<1>1. Running /\ candiFr' = candiFr /\ Rebuild(ic, s)
  BY DEF Insert
<1>2. sg' = s => IsNext(s)
  BY <1>1, InsertNext
<1> HIDE DEF s
<1>. QED
  BY <1>1, <1>2, EditSentence

\* The key before the caret is deleted, or the last choice taken back.
LEMMA BackspaceSentence ==
  ASSUME ViewInv, SentenceInv, Len(sg.buf) < LenModulus, Backspace
  PROVE  SentenceInv'
<1>1. Running /\ ~ isEmpty
  BY DEF Backspace
<1>2. CASE candiFr > 0
  <2>1. PICK r \in CancelledSearch(ic, candiFr) : candiFr' = r.at /\ Rebuild(r.ic, sg)
    BY <1>2 DEF Backspace
  <2>2. LatticeInv(r.ic, sg.segs, sg.str)
    BY <1>1, ViewFacts, Unchanged, CancelledSearchInv
  <2>3. candiFr \in Frames /\ candiFr # 0
    BY <1>1, <1>2, ViewFacts
  <2>4. Traced(r.ic, sg.segs, candiFr', candis)
    BY <2>1, <2>3, <1>1, SentenceFacts, CancelledSearchTraced
  <2>5. SegmentorInv /\ IsNext(sg)
    BY <1>1, ViewFacts, Unchanged
  <2>6. fault' = "none" => Traced(ic', sg'.segs, candiFr', candis') /\ OnPath(ic', sg'.segs)
    BY <2>1, <2>2, <2>4, <2>5, RebuildTraced
  <2>. QED
    BY <2>6 DEF SentenceInv, Running
<1>3. CASE ~ (candiFr > 0)
  <2> DEFINE s == IF cursor = LastFr(ic) THEN Popped(sg) ELSE DeletedAt(sg, cursor - 1)
  <2>1. cursor > 0 /\ candiFr' = candiFr /\ Rebuild(ic, s)
    BY <1>3 DEF Backspace
  <2>2. cursor # LastFr(ic) => cursor - 1 \in Nat /\ cursor - 1 < Len(sg.str) - 1
    <3>1. cursor \in Nat /\ cursor <= Len(sg.str) /\ Len(sg.str) \in Nat /\ LastFr(ic) = Len(sg.str)
      BY <1>1, ViewFacts
    <3>. QED
      BY <3>1, <2>1
  <2>3. s = Popped(sg) \/ \E idx \in Nat : idx < Len(sg.str) - 1 /\ s = DeletedAt(sg, idx)
    BY <2>2
  <2> HIDE DEF s
  <2>4. IsNext(s)
    BY <2>3, <1>1, ShortenedNext
  <2>. QED
    BY <2>1, <2>4, <1>1, EditSentence
<1>. QED
  BY <1>2, <1>3

\* The key after the caret is deleted.
LEMMA DeleteSentence ==
  ASSUME ViewInv, SentenceInv, Len(sg.buf) < LenModulus, Delete
  PROVE  SentenceInv'
<1> DEFINE s == IF cursor = LastFr(ic) - 1 THEN Popped(sg) ELSE DeletedAt(sg, cursor)
<1>1. /\ Running /\ ~ isEmpty /\ cursor < LastFr(ic)
      /\ candiFr' = candiFr /\ Rebuild(ic, s)
  BY DEF Delete
<1>2. cursor # LastFr(ic) - 1 => cursor \in Nat /\ cursor < Len(sg.str) - 1
  <2>1. /\ cursor \in Nat /\ cursor <= Len(sg.str) /\ Len(sg.str) \in Nat /\ LastFr(ic) = Len(sg.str)
    BY <1>1, ViewFacts
  <2>. QED
    BY <2>1, <1>1
<1>3. s = Popped(sg) \/ \E idx \in Nat : idx < Len(sg.str) - 1 /\ s = DeletedAt(sg, idx)
  BY <1>2
<1> HIDE DEF s
<1>4. IsNext(s)
  BY <1>1, <1>3, ShortenedNext
<1>. QED
  BY <1>1, <1>4, EditSentence

\* A key that leaves the input, the choices, and the words listed.
LEMMA StandStill ==
  ASSUME SentenceInv, Running, sg' = sg, ic' = ic, candiFr' = candiFr, candis' = candis
  PROVE  SentenceInv'
BY DEF SentenceInv, Running

\* See StepBack: it is only taken with the caret behind the start.
LEMMA StepBackSentence ==
  ASSUME ViewInv, SentenceInv, Running, sg' = sg, cursor # 0, StepBack
  PROVE  SentenceInv'
<1>1. CASE cursor = candiFr
  <2>1. PICK r \in CancelledSearch(ic, candiFr) : candiFr' = r.at /\ List(r.ic)
    BY <1>1 DEF StepBack
  <2>2. LatticeInv(r.ic, sg.segs, sg.str)
    BY ViewFacts, Unchanged, CancelledSearchInv
  <2>3. Traced(r.ic, sg.segs, candiFr', candis) /\ OnPath(r.ic, sg.segs)
    BY <2>1, <1>1, SentenceFacts, CancelledSearchTraced
  <2>4. Traced(ic', sg.segs, candiFr', candis') /\ OnPath(ic', sg.segs)
    BY <2>1, <2>2, <2>3, ListTraced
  <2>. QED
    BY <2>4 DEF SentenceInv
<1>2. CASE cursor # candiFr
  <2>1. candiFr' = candiFr /\ ic' = ic /\ candis' = candis
    BY <1>2 DEF StepBack
  <2>. QED
    BY <2>1, StandStill
<1>. QED
  BY <1>1, <1>2

\* The caret moves to the left.
LEMMA MoveLeftSentence ==
  ASSUME ViewInv, SentenceInv, MoveLeft \/ MoveLeftSyllable
  PROVE  SentenceInv'
<1>1. Running /\ sg' = sg
  BY DEF MoveLeft, MoveLeftSyllable
<1>2. CASE cursor = 0
  <2>1. candiFr' = candiFr /\ ic' = ic /\ candis' = candis
    BY <1>2 DEF MoveLeft, MoveLeftSyllable
  <2>. QED
    BY <2>1, <1>1, StandStill
<1>3. CASE cursor # 0
  <2>1. StepBack
    BY <1>3 DEF MoveLeft, MoveLeftSyllable
  <2>. QED
    BY <2>1, <1>1, <1>3, StepBackSentence
<1>. QED
  BY <1>2, <1>3

\* See ToHome.
LEMMA ToHomeSentence ==
  ASSUME ViewInv, SentenceInv, Running, sg' = sg, ToHome
  PROVE  SentenceInv'
<1>1. CASE candiFr = 0
  <2>1. candiFr' = candiFr /\ ic' = ic /\ candis' = candis
    BY <1>1 DEF ToHome
  <2>. QED
    BY <2>1, StandStill
<1>2. CASE candiFr # 0 /\ ic.path = {}
  <2>1. fault' # "none"
    BY <1>2 DEF ToHome
  <2>. QED
    BY <2>1 DEF SentenceInv, Running
<1>3. CASE candiFr # 0 /\ ic.path # {}
  <2> DEFINE c == AllCancelled(ic)
             e == WithCandidates(c, 0)
             D == Candidates(c, 0)
  <2>1. candiFr' = 0 /\ candis' = D /\ \E d \in Searched(e) : ic' = d
    BY <1>3 DEF ToHome
  <2>2. LatticeInv(c, sg.segs, sg.str)
    BY ViewFacts, Unchanged, AllCancelledInv
  <2>3. \A w \in D : w[1] = 0
    BY DEF Candidates
  <2> HIDE DEF D
  <2>4. Traced(c, sg.segs, 0, D)
    BY <2>3, <1>3, SentenceFacts, AllCancelledTraced
  <2> HIDE DEF c
  <2>5. e.fr = c.fr
    <3>1. c \in Context
      BY <2>2 DEF LatticeInv
    <3>. QED
      BY <3>1, WithCandidatesSame
  <2>6. LatticeInv(e, sg.segs, sg.str)
    BY <2>2, ViewFacts, LatticeSize, ListedInv
  <2> HIDE DEF e
  <2>7. Traced(e, sg.segs, 0, D)
    BY <2>4, <2>5, TracedSame
  <2>8. Traced(ic', sg.segs, 0, D) /\ OnPath(ic', sg.segs)
    BY <2>1, <2>6, <2>7, SentenceFacts, SearchedTraced
  <2>. QED
    BY <2>1, <2>8 DEF SentenceInv
<1>. QED
  BY <1>1, <1>2, <1>3

\* The caret moves to the start, to the right, to the end.
LEMMA MoveRightSentence ==
  ASSUME ViewInv, SentenceInv, MoveHome \/ MoveRight \/ MoveRightSyllable \/ MoveEnd
  PROVE  SentenceInv'
<1>1. Running /\ sg' = sg
  BY DEF MoveHome, MoveRight, MoveRightSyllable, MoveEnd
<1>2. ToHome \/ (candiFr' = candiFr /\ ic' = ic /\ candis' = candis)
  BY DEF MoveHome, MoveRight, MoveRightSyllable, MoveEnd
<1>. QED
  BY <1>1, <1>2, ToHomeSentence, StandStill

\* A word is chosen.
LEMMA SelectWordSentence ==
  ASSUME ViewInv, SentenceInv, NEW w, SelectWord(w)
  PROVE  SentenceInv'
<1>1. Running /\ w \in candis
  BY DEF SelectWord
<1>2. /\ Len(sg.str) \in Nat /\ Len(sg.str) + 1 < MaxLattice
      /\ LatticeInv(ic, sg.segs, sg.str) /\ Choosable(ic, w) /\ 0 .. LastFr(ic) \subseteq Frames
  BY <1>1, ViewFacts, BeforeTail DEF AllChoosable
<1>3. w[2] \in Nat /\ w[2] <= LastFr(ic) /\ w[2] \in Frames
  BY <1>2, ChoosableEnd
<1> DEFINE Strings(c) == [c EXCEPT !.fr = [f \in Frames |->
                  IF f \in w[2] + 1 .. SkipStrings(c, w[2]) THEN Marked(@[f], "IGNORED", @[f].sel) ELSE @[f]]]
<1>4. PICK c \in Selected(ic, w) :
         IF SkipStrings(c, w[2]) = LastFr(ic) THEN ClearIC
         ELSE candiFr' = SkipStrings(c, w[2]) /\ List(Strings(c)) /\ sg' = sg
  BY DEF SelectWord
<1> DEFINE at == SkipStrings(c, w[2])
           d == Strings(c)
<1>5. LatticeInv(c, sg.segs, sg.str) /\ IsSearched(c, ic) /\ LastFr(c) = LastFr(ic)
  <2>1. LatticeInv(c, sg.segs, sg.str) /\ IsSearched(c, ic)
    BY <1>2, SelectedInv
  <2>. QED
    BY <2>1 DEF IsSearched, IsMarkedAnew, LastFr
<1>6. CASE at = LastFr(ic)
  BY <1>1, <1>4, <1>6, ClearICSentence
<1>7. CASE at # LastFr(ic)
  <2>1. candiFr' = at /\ List(d) /\ sg' = sg
    BY <1>4, <1>7
  <2>2. d = [c EXCEPT !.fr = [f \in Frames |->
                IF f \in w[2] + 1 .. at THEN Marked(@[f], "IGNORED", @[f].sel) ELSE @[f]]]
    OBVIOUS
  <2> HIDE DEF d, at
  <2>3. at = SkipStrings(c, w[2])
    BY DEF at
  <2>4. LatticeInv(d, sg.segs, sg.str) /\ IsMarkedAnew(d, c)
    BY <2>2, <2>3, <1>2, <1>3, <1>5, IgnoredInv DEF IsSearched
  <2>a. SkippedOver(d, c, w[2] + 1 .. at)
    <3>1. c \in Context
      BY <1>5 DEF LatticeInv
    <3>. QED
      BY <2>2, <3>1, IgnoredFrames
  <2>5. Traced(c, sg.segs, w[2], {}) /\ OnPath(c, sg.segs)
    BY <1>1, <1>2, <1>4, SentenceFacts, SelectedTraced
  <2>6. isSyllableFrame(c.fr[w[2]]) /\ c.fr[w[2]].lex # {} /\ w[2] <= LastFr(c)
    <3>1. Choosable(c, w)
      BY <1>2, <1>3, <1>5, MarkedChoosable
    <3>. QED
      BY <3>1, <1>3, <1>5 DEF Choosable, Starts
  <2>7. Fill(sg.segs, Len(sg.str))
    BY <1>1, SentenceFacts
  <2> DEFINE D == Candidates(d, at)
  <2>8. \A v \in D : v[1] = at
    BY DEF Candidates
  <2> HIDE DEF D
  <2>9. Traced(d, sg.segs, at, D) /\ OnPath(d, sg.segs)
    <3>1. LatticeInv(c, sg.segs, sg.str) /\ w[2] \in Frames
      BY <1>3, <1>5
    <3> HIDE <1>4
    <3>. QED
      BY <2>a, <2>3, <2>4, <2>5, <2>6, <2>7, <2>8, <3>1, IgnoredTraced
  <2>10. Traced(ic', sg.segs, candiFr', candis') /\ OnPath(ic', sg.segs)
    BY <2>1, <2>4, <2>9, ListTraced
  <2>. QED
    BY <2>1, <2>10 DEF SentenceInv
<1>. QED
  BY <1>6, <1>7

\* A candidate is deleted.
LEMMA DeleteCandidateSentence ==
  ASSUME ViewInv, SentenceInv, DeleteCandidate
  PROVE  SentenceInv'
<1> DEFINE last == RebuildFrom(sg)
           again == Searched(Relaid(ic, sg.segs, last))
           u == sg.updatedFrom
<1>1. Running /\ sg' = sg /\ candiFr' = candiFr
  BY DEF DeleteCandidate
<1>2. /\ SegmentorInv /\ LatticeInv(ic, sg.segs, sg.str) /\ Fill(sg.segs, Len(sg.str))
      /\ Traced(ic, sg.segs, candiFr', candis) /\ OnPath(ic, sg.segs)
  BY <1>1, SentenceFacts
<1>3. /\ last = u + 1 /\ 0 + 1 = 1
      /\ IsChanged(sg.segs, Len(sg.str), sg.segs, Len(sg.str), u)
      /\ IsChanged(sg.segs, Len(sg.str), sg.segs, Len(sg.str), 0)
  BY <1>2, Unchanged
<1>4. \/ List(ic) \/ RelaidAndListed({ic}, 1) \/ RelaidAndListed({ic}, last)
      \/ ~ DeletesShared(ic, last) /\ RelaidAndListed(again, 1)
  BY DEF DeleteCandidate
<1>5. ~ DeletesShared(ic, last) =>
        \A c \in again : LatticeInv(c, sg.segs, sg.str) /\ Traced(c, sg.segs, candiFr', candis)
  <2>1. LatticeInv(Relaid(ic, sg.segs, u + 1), sg.segs, sg.str)
    BY <1>2, <1>3, RelaidInv
  <2>2. ~ DeletesShared(ic, u + 1) => Traced(Relaid(ic, sg.segs, u + 1), sg.segs, candiFr', candis)
    BY <1>2, <1>3, RelaidTraced
  <2>. QED
    BY <2>1, <2>2, <1>2, <1>3, SearchedInv, SearchedTraced
<1> HIDE DEF last, again, u
<1>6. ASSUME NEW C, NEW v, RelaidAndListed(C, v + 1),
             \A c \in C : LatticeInv(c, sg.segs, sg.str) /\ Traced(c, sg.segs, candiFr', candis),
             IsChanged(sg.segs, Len(sg.str), sg.segs, Len(sg.str), v)
      PROVE  SentenceInv'
  <2>1. fault' = "none" => Traced(ic', sg.segs, candiFr', candis') /\ OnPath(ic', sg.segs)
    BY <1>2, <1>6, RelaidAndListedTraced
  <2>. QED
    BY <2>1, <1>1 DEF SentenceInv, Running
<1> DEFINE C == {ic}
<1>7. \A c \in C : LatticeInv(c, sg.segs, sg.str) /\ Traced(c, sg.segs, candiFr', candis)
  BY <1>2
<1>8. CASE List(ic)
  <2>1. Traced(ic', sg.segs, candiFr', candis') /\ OnPath(ic', sg.segs)
    BY <1>1, <1>2, <1>8, ListTraced
  <2>. QED
    BY <2>1, <1>1 DEF SentenceInv
<1>9. RelaidAndListed(C, 1) => SentenceInv'
  <2> HIDE DEF C
  <2>. QED
    BY <1>3, <1>6, <1>7
<1>10. RelaidAndListed(C, last) => SentenceInv'
  <2> HIDE DEF C
  <2>. QED
    BY <1>3, <1>6, <1>7
<1>11. ~ DeletesShared(ic, last) /\ RelaidAndListed(again, 1) => SentenceInv'
  BY <1>3, <1>5, <1>6
<1>. QED
  BY <1>4, <1>8, <1>9, <1>10, <1>11

\* It holds at first.
LEMMA InitSentence == Init => SentenceInv
<1> SUFFICES ASSUME Init PROVE SentenceInv
  OBVIOUS
<1>1. /\ ic.path = {} /\ \A f \in Frames : Blank(ic.fr, f)
      /\ sg.segs = << >> /\ candiFr = 0 /\ candis = {}
  BY EmptyIsContext DEF Init, Cleared
<1>2. FirstFrame(ic) /\ "USER_SELECTED" \notin ic.fr[0].bw
  BY <1>1, LatticeSize DEF FirstFrame, Blank
<1>3. Traced(ic, << >>, 0, {}) /\ OnPath(ic, << >>)
  BY <1>1, <1>2, BlankTraced
<1>. QED
  BY <1>1, <1>3 DEF SentenceInv

\* Every key keeps it.
LEMMA NextSentence ==
  ASSUME ViewInv, SentenceInv, FitsField, FitsField', [Next]_vars
  PROVE  SentenceInv'
<1>1. CASE UNCHANGED vars
  BY <1>1 DEF SentenceInv, Running, vars
<1>2. CASE Next
  <2>1. ASSUME NEW ch \in Typed, Insert(ch)
        PROVE  SentenceInv'
    <3>1. ch \in Keys
      BY <2>1, ViewAssumption
    <3>. QED
      BY <3>1, <2>1, InsertSentence DEF FitsField
  <2>2. CASE ClearIC /\ Running
    BY <2>2, ClearICSentence
  <2>3. CASE Backspace \/ Delete
    BY <2>3, BackspaceSentence, DeleteSentence DEF FitsField
  <2>4. CASE MoveLeft \/ MoveLeftSyllable
    BY <2>4, MoveLeftSentence
  <2>5. CASE MoveHome \/ MoveRight \/ MoveRightSyllable \/ MoveEnd
    BY <2>5, MoveRightSentence
  <2>6. ASSUME NEW w, SelectWord(w)
        PROVE  SentenceInv'
    BY <2>6, SelectWordSentence
  <2>7. CASE DeleteCandidate
    BY <2>7, DeleteCandidateSentence
  <2>. QED
    BY <1>2, <2>1, <2>2, <2>3, <2>4, <2>5, <2>6, <2>7 DEF Next, InsertAlone, SelectSentence, Escape
<1>. QED
  BY <1>1, <1>2

-----------------------------------------------------------------------------
(* The sentence.                                                           *)

\* Where getBestSentence goes on from frame x.
WordStart(c, x) == IF x <= 0 THEN x ELSE c.fr[x].sel

\* The frames it may begin at: those with a best word.
WordEnds(c, end) == {0} \cup {f \in 0 .. end : ~ isNotBestWord(c.fr[f])}

\* at is where its loop stands, turn by turn.
IsSentence(at, c, end) ==
  /\ at[0] = Max(WordEnds(c, end))
  /\ \A k \in 1 .. MaxLattice : at[k] = WordStart(c, at[k - 1])
  /\ Sentence(c, 0, end) = {at[k] : k \in 0 .. MaxLattice} \ (0 .. 0)

\* The turns of the loop of getBestSentence, one by one.
LEMMA SentenceCourse ==
  ASSUME NEW c \in Context, NEW end, Max(WordEnds(c, end)) \in Frames
  PROVE  \E at : IsSentence(at, c, end)
<1> DEFINE N == MaxLattice
           last == Max({0} \cup {f \in 0 .. end : ~ isNotBestWord(c.fr[f])})
           IsAt(g) == g = [n \in 0 .. MaxLattice |->
             IF n = 0 THEN last
             ELSE IF g[n - 1] <= 0 THEN g[n - 1] ELSE c.fr[g[n - 1]].sel]
<1>1. N \in Nat /\ N = MaxLattice
  BY LatticeSize
<1>2. \A x \in Frames : WordStart(c, x) \in Frames
  BY ContextFields DEF WordStart, Frame
<1>a. last \in Frames /\ last = Max(WordEnds(c, end))
  BY DEF WordEnds
<1> HIDE DEF N, last
<1>3. \E g : IsAt(g)
  <2> DEFINE F == [k \in 1 .. N |-> [x \in Frames |-> WordStart(c, x)]]
  <2>1. F \in [1 .. N -> [Frames -> Frames]]
    BY <1>2
  <2> HIDE DEF F
  <2>2. PICK g \in [0 .. N -> Frames] : IsCourse(g, last, F, N)
    BY <1>1, <1>a, <2>1, Course
  <2>3. ASSUME NEW k \in 1 .. N
        PROVE  g[k] = WordStart(c, g[k - 1])
    <3>1. k - 1 \in 0 .. N
      BY <1>1
    <3>2. g[k - 1] \in Frames /\ g[k] = F[k][g[k - 1]]
      BY <2>2, <3>1 DEF IsCourse
    <3>. QED
      BY <3>2 DEF F
  <2>4. g[0] = last
    BY <2>2 DEF IsCourse
  <2>5. \A k \in 0 .. N : k = 0 \/ k \in 1 .. N
    BY <1>1
  <2>6. \A k \in 0 .. N : g[k] = IF k = 0 THEN last ELSE WordStart(c, g[k - 1])
    BY <2>3, <2>4, <2>5
  <2>7. g = [k \in 0 .. N |-> IF k = 0 THEN last ELSE WordStart(c, g[k - 1])]
    BY <2>6
  <2>8. IsAt(g)
    BY <2>7, <1>1 DEF WordStart
  <2>. QED
    BY <2>8
<1> DEFINE at == CHOOSE g : IsAt(g)
<1>4. IsAt(at)
  BY <1>3
<1>5. Sentence(c, 0, end) = {at[k] : k \in 0 .. MaxLattice} \ (0 .. 0)
  BY DEF Sentence, last
<1> HIDE DEF at
<1>6. at[0] = last /\ \A k \in 1 .. MaxLattice : at[k] = WordStart(c, at[k - 1])
  <2>1. 0 \in 0 .. MaxLattice /\ \A k \in 1 .. MaxLattice : k \in 0 .. MaxLattice /\ k # 0
    BY LatticeSize
  <2>. QED
    BY <2>1, <1>4 DEF WordStart
<1>. QED
  BY <1>a, <1>5, <1>6 DEF IsSentence

\* The last frame is a word's end on a path over words, or there is no input.
LEMMA PathReachesEnd ==
  ASSUME NEW c, NEW segs, NEW str, LatticeInv(c, segs, str), Fill(segs, Len(str)), Own(c, segs),
         NEW P, WordPath(c, P)
  PROVE  LastFr(c) = 0 \/ LastFr(c) \in P
<1>1. /\ Len(str) \in Nat /\ LastFr(c) = Len(str) /\ c.tail = Len(str) + 1 /\ P \in SUBSET Nat
      /\ c.tail \in P /\ Before(P, c.tail) \in Starts(c.fr[c.tail])
  <2>1. Len(str) \in Nat /\ Len(str) + 1 < MaxLattice
    BY EndsInOrder
  <2>2. LastFr(c) = Len(str) /\ c.tail = Len(str) + 1
    BY <2>1, BeforeTail DEF LatticeInv
  <2>. QED
    BY <2>1, <2>2 DEF WordPath
<1>2. CASE segs = << >>
  <2>1. Len(str) = 0
    BY <1>2, EndsInOrder DEF EndOf
  <2>. QED
    BY <1>1, <2>1
<1>3. CASE segs # << >>
  <2>1. Starts(c.fr[c.tail]) = {LastFr(c)}
    BY <1>3, OwnRungs
  <2>2. Before(P, c.tail) = 0 \/ Before(P, c.tail) \in P
    BY <1>1, BeforeFacts
  <2>. QED
    BY <2>1, <2>2, <1>1
<1>. QED
  BY <1>2, <1>3

\* The words of the sentence are those of the path.
LEMMA SentenceOfPath ==
  ASSUME NEW c, NEW segs, NEW str, LatticeInv(c, segs, str), Fill(segs, Len(str)), Own(c, segs),
         OnPath(c, segs), c.path # {}
  PROVE  Sentence(c, 0, LastFr(c)) = c.path \ {c.tail}
<1> DEFINE P == c.path
           n == LastFr(c)
           ends == WordEnds(c, n)
<1>1. /\ WordPath(c, P) /\ \A f \in P : c.fr[f].bw # {} /\ c.fr[f].sel = Before(P, f)
  BY DEF OnPath
<1>2. /\ n \in Nat /\ n < MaxLattice /\ c.tail = n + 1 /\ c \in Context /\ n \in Frames
      /\ P \in SUBSET Nat /\ \A f \in P : f > 0 /\ f <= c.tail
  <2>1. Len(str) \in Nat /\ Len(str) + 1 < MaxLattice
    BY EndsInOrder
  <2>2. LastFr(c) = Len(str) /\ c.tail = Len(str) + 1 /\ c \in Context
    BY <2>1, BeforeTail DEF LatticeInv
  <2>. QED
    BY <2>1, <2>2, <1>1, LatticeSize DEF WordPath
<1>3. n = 0 \/ n \in P
  BY <1>1, PathReachesEnd
<1> HIDE DEF P, n
<1>4. Max(ends) = n
  <2>1. ends \in SUBSET Nat /\ ends # {} /\ \A x \in ends : x <= n
    BY <1>2 DEF WordEnds
  <2>2. n \in ends
    BY <1>1, <1>2, <1>3 DEF WordEnds, isNotBestWord
  <2> HIDE DEF ends
  <2>3. Max(ends) \in ends /\ \A x \in ends : x <= Max(ends)
    BY <2>1, <1>2, GreatestNumber
  <2>4. Max(ends) \in Nat /\ Max(ends) <= n /\ n <= Max(ends)
    BY <2>1, <2>2, <2>3
  <2>. QED
    BY <2>4, <1>2
<1>5. PICK at : IsSentence(at, c, n)
  BY <1>2, <1>4, SentenceCourse
<1>a. /\ at[0] = n
      /\ \A k \in 1 .. MaxLattice : at[k] = WordStart(c, at[k - 1])
      /\ Sentence(c, 0, n) = {at[k] : k \in 0 .. MaxLattice} \ (0 .. 0)
  BY <1>4, <1>5 DEF IsSentence
<1> HIDE DEF ends
<1> DEFINE Behind(k) == /\ at[k] = 0 \/ (at[k] \in P /\ at[k] + k <= n)
                        /\ \A g \in P : g <= n => g <= at[k] \/ \E m \in 0 .. MaxLattice : at[m] = g
           B == {k \in 0 .. MaxLattice : Behind(k)}
<1>6. 0 .. MaxLattice \subseteq B
  <2>1. 0 \in B
    <3>1. at[0] = 0 \/ (at[0] \in P /\ at[0] + 0 <= n)
      BY <1>2, <1>3, <1>a
    <3>2. \A g \in P : g <= n => g <= at[0]
      BY <1>a
    <3>. QED
      BY <3>1, <3>2, LatticeSize
  <2>2. ASSUME NEW k \in 1 .. MaxLattice, k - 1 \in B
        PROVE  k \in B
    <3>1. Behind(k - 1) /\ k - 1 \in 0 .. MaxLattice /\ k \in 0 .. MaxLattice /\ k \in Nat
      BY <2>2, LatticeSize
    <3>2. at[k] = WordStart(c, at[k - 1])
      BY <1>a
    <3>3. CASE at[k - 1] = 0
      <4>1. at[k] = 0
        BY <3>2, <3>3 DEF WordStart
      <4>2. Behind(k)
        BY <3>1, <3>3, <4>1
      <4>. QED
        BY <4>2, <3>1
    <3>4. CASE at[k - 1] # 0
      <4> DEFINE x == at[k - 1]
                 y == at[k]
      <4>1. x \in P /\ x + (k - 1) <= n /\ x \in Nat /\ x > 0
        BY <3>1, <3>4, <1>2
      <4>2. y = Before(P, x)
        BY <3>2, <4>1, <1>1 DEF WordStart
      <4> HIDE DEF y
      <4>3. y \in Nat /\ y < x /\ (y = 0 \/ y \in P) /\ \A g \in P : g < x => g <= y
        BY <4>1, <4>2, <1>2, BeforeFacts
      <4>4. y + k <= n
        <5> HIDE DEF x
        <5>. QED
          BY <4>1, <4>3, <3>1, <1>2
      <4>5. ASSUME NEW g \in P, g <= n
            PROVE  g <= y \/ \E m \in 0 .. MaxLattice : at[m] = g
        <5>1. CASE g = x
          BY <5>1, <3>1
        <5>2. CASE g < x
          BY <5>2, <4>3
        <5>3. CASE g > x
          <6>1. ~ (g <= x)
            BY <5>3, <4>1, <1>2
          <6>. QED
            BY <6>1, <4>5, <3>1
        <5>4. g \in Nat
          BY <1>2
        <5>. QED
          BY <5>1, <5>2, <5>3, <5>4, <4>1
      <4>6. Behind(k)
        BY <4>3, <4>4, <4>5 DEF y
      <4>. QED
        BY <4>6, <3>1
    <3>. QED
      BY <3>3, <3>4
  <2> HIDE DEF B
  <2>. QED
    BY <2>1, <2>2, LatticeSize, Stays
<1>7. \A k \in 0 .. MaxLattice : at[k] = 0 \/ (at[k] \in P /\ at[k] # c.tail)
  <2>1. ASSUME NEW k \in 0 .. MaxLattice, at[k] # 0
        PROVE  at[k] \in P /\ at[k] # c.tail
    <3>1. at[k] \in P /\ at[k] + k <= n
      BY <2>1, <1>6
    <3>2. at[k] \in Nat
      BY <3>1, <1>2
    <3>3. k \in Nat
      BY LatticeSize
    <3>4. \A x, y, m \in Nat : x + y <= m => x < m + 1
      OBVIOUS
    <3>5. at[k] < n + 1 /\ n + 1 = c.tail
      BY <3>1, <3>2, <3>3, <3>4, <1>2
    <3>. QED
      BY <3>1, <3>2, <3>5, <1>2
  <2>. QED
    BY <2>1
<1>8. \A g \in P \ {c.tail} : \E m \in 0 .. MaxLattice : at[m] = g
  <2>1. Behind(MaxLattice)
    BY <1>6, LatticeSize
  <2>2. at[MaxLattice] = 0
    <3>1. CASE at[MaxLattice] \in P /\ at[MaxLattice] + MaxLattice <= n
      <4>1. at[MaxLattice] \in Nat /\ MaxLattice \in Nat
        BY <3>1, <1>2, LatticeSize
      <4>. QED
        BY <4>1, <3>1, <1>2
    <3>. QED
      BY <3>1, <2>1
  <2>3. ASSUME NEW g \in P \ {c.tail}
        PROVE  g <= n /\ ~ (g <= 0)
    BY <1>2
  <2>. QED
    BY <2>1, <2>2, <2>3
<1>9. \A g \in P : g \notin 0 .. 0
  BY <1>2
<1>10. \A x : x \in 0 .. 0 <=> x = 0
  OBVIOUS
<1>11. Sentence(c, 0, n) = P \ {c.tail}
  <2> HIDE DEF B
  <2>. QED
    BY <1>a, <1>7, <1>8, <1>9, <1>10
<1>. QED
  BY <1>11 DEF P, n

(* When the pointers of every frame are its own and the search found a     *)
(* path, the words a conversion sends are the words of that path: the      *)
(* input is covered once, from its first key to its last (getBestSentence  *)
(* follows m_selWord over words the user chose and words left from earlier *)
(* searches; cancelSelection and the searches must keep them in line).     *)
THEOREM SentenceStaysTiled == Spec /\ []FitsField => []SentenceTiles
<1>1. Init => SentenceInv
  BY InitSentence
<1>2. ViewInv /\ SentenceInv /\ FitsField /\ FitsField' /\ [Next]_vars => SentenceInv'
  BY NextSentence
<1>3. Spec /\ []FitsField => []ViewInv
  BY ViewInvariant
<1>4. Spec /\ []FitsField => []CaretInside
  BY CaretStaysInside
<1>5. ASSUME ViewInv, SentenceInv, Running, OwnPointers, ic.path # {}
      PROVE  Sentence(ic, 0, LastFr(ic)) = ic.path \ {ic.tail}
  <2>1. Own(ic, sg.segs)
    BY <1>5 DEF OwnPointers, Own, Whole, WholeLattice
  <2>. QED
    BY <2>1, <1>5, SentenceFacts, SentenceOfPath
<1>6. ViewInv /\ SentenceInv /\ CaretInside => SentenceTiles
  BY <1>5 DEF SentenceTiles
<1>. QED
  BY <1>1, <1>2, <1>3, <1>4, <1>6, PTL DEF Spec
=============================================================================
