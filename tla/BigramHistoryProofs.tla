------------------------ MODULE BigramHistoryProofs ------------------------
(* Theorems about BigramHistory, for every set of words, every queue size  *)
(* and every short-term interval.                                          *)
EXTENDS BigramHistory, FiniteSetTheorems, SequenceTheorems, TLAPS

(* Occ counts: the positions of a word in a sequence are finitely many.    *)
LEMMA OccType ==
  ASSUME NEW S, NEW s \in Seq(S), NEW w
  PROVE  /\ IsFiniteSet({i \in DOMAIN s : s[i] = w})
         /\ Occ(s, w) \in Nat
<1>1. IsFiniteSet(DOMAIN s)
  BY FS_Interval
<1>2. IsFiniteSet({i \in DOMAIN s : s[i] = w})
  BY <1>1, FS_Subset
<1>. QED
  BY <1>2, FS_CardinalityType DEF Occ

(* Shifting a finite set of positions does not change how many they are.   *)
LEMMA Shift ==
  ASSUME NEW A \in SUBSET Nat, IsFiniteSet(A), NEW k \in Nat
  PROVE  /\ IsFiniteSet({i + k : i \in A})
         /\ Cardinality({i + k : i \in A}) = Cardinality(A)
<1> DEFINE B == {i + k : i \in A}
           f == [i \in A |-> i + k]
<1>1. f \in Bijection(A, B)
  <2>1. f \in [A -> B]
    OBVIOUS
  <2>2. \A i, j \in A : f[i] = f[j] => i = j
    OBVIOUS
  <2>3. \A b \in B : \E i \in A : f[i] = b
    OBVIOUS
  <2>. QED
    BY <2>1, <2>2, <2>3 DEF Bijection, Injection, Surjection, IsInjective
<1>. QED
  BY <1>1, FS_Bijection DEF ExistsBijection

(* Two finite sets without a common element.                               *)
LEMMA DisjointUnion ==
  ASSUME NEW A, NEW B, IsFiniteSet(A), IsFiniteSet(B), A \cap B = {}
  PROVE  Cardinality(A \cup B) = Cardinality(A) + Cardinality(B)
<1>1. Cardinality(A \cup B) = Cardinality(A) + Cardinality(B) - Cardinality(A \cap B)
  BY FS_Union
<1>2. Cardinality(A) \in Nat /\ Cardinality(B) \in Nat /\ Cardinality(A \cap B) = 0
  BY FS_CardinalityType, FS_EmptySet
<1>. QED
  BY <1>1, <1>2

(* The occurrences in a concatenation are those in its two parts.          *)
LEMMA OccConcat ==
  ASSUME NEW S, NEW s \in Seq(S), NEW t \in Seq(S), NEW w
  PROVE  Occ(s \o t, w) = Occ(s, w) + Occ(t, w)
<1> DEFINE A == {i \in DOMAIN s : s[i] = w}
           B == {i \in DOMAIN t : t[i] = w}
           C == {i + Len(s) : i \in B}
<1>1. {i \in DOMAIN (s \o t) : (s \o t)[i] = w} = A \cup C
  <2>1. ASSUME NEW i \in DOMAIN (s \o t), (s \o t)[i] = w
        PROVE  i \in A \cup C
    <3>1. CASE i \in 1 .. Len(s)
      BY <2>1, <3>1
    <3>2. CASE i \notin 1 .. Len(s)
      <4>1. i - Len(s) \in B
        BY <2>1, <3>2
      <4>. QED
        BY <2>1, <4>1
    <3>. QED
      BY <3>1, <3>2
  <2>2. ASSUME NEW i \in A \cup C
        PROVE  i \in DOMAIN (s \o t) /\ (s \o t)[i] = w
    OBVIOUS
  <2>. QED
    BY <2>1, <2>2
<1>2. IsFiniteSet(A) /\ IsFiniteSet(B)
  BY OccType
<1>3. IsFiniteSet(C) /\ Cardinality(C) = Cardinality(B)
  <2>1. B \in SUBSET Nat /\ Len(s) \in Nat
    OBVIOUS
  <2>. HIDE DEF B
  <2>. QED
    BY <1>2, <2>1, Shift
<1>4. A \cap C = {}
  OBVIOUS
<1>. HIDE DEF A, C
<1>5. Cardinality(A \cup C) = Cardinality(A) + Cardinality(C)
  BY <1>2, <1>3, <1>4, DisjointUnion
<1>. USE DEF A, C
<1>. QED
  BY <1>1, <1>3, <1>5 DEF Occ

(* PairOcc counts, like Occ.                                               *)
LEMMA PairOccType ==
  ASSUME NEW S, NEW s \in Seq(S), NEW p
  PROVE  /\ IsFiniteSet({i \in 1 .. Len(s) - 1 : <<s[i], s[i + 1]>> = p})
         /\ PairOcc(s, p) \in Nat
<1>1. IsFiniteSet(1 .. Len(s) - 1)
  BY FS_Interval
<1>2. IsFiniteSet({i \in 1 .. Len(s) - 1 : <<s[i], s[i + 1]>> = p})
  BY <1>1, FS_Subset
<1>. QED
  BY <1>2, FS_CardinalityType DEF PairOcc

(* Cutting a sequence so that both parts share the element at the cut      *)
(* neither loses nor invents a pair.                                       *)
LEMMA PairOccSplit ==
  ASSUME NEW S, NEW s \in Seq(S), NEW p, NEW k \in 1 .. Len(s)
  PROVE  PairOcc(s, p) = PairOcc(SubSeq(s, 1, k), p) + PairOcc(SubSeq(s, k, Len(s)), p)
<1> DEFINE a == SubSeq(s, 1, k)
           b == SubSeq(s, k, Len(s))
           A == {i \in 1 .. Len(a) - 1 : <<a[i], a[i + 1]>> = p}
           B == {i \in 1 .. Len(b) - 1 : <<b[i], b[i + 1]>> = p}
           C == {i + (k - 1) : i \in B}
<1>1. /\ a \in Seq(S) /\ Len(a) = k
      /\ \A i \in 1 .. k : a[i] = s[i]
      /\ b \in Seq(S) /\ Len(b) = Len(s) - k + 1
      /\ \A i \in 1 .. Len(s) - k + 1 : b[i] = s[k + i - 1]
  BY SubSeqProperties
<1>2. {i \in 1 .. Len(s) - 1 : <<s[i], s[i + 1]>> = p} = A \cup C
  <2>1. ASSUME NEW i \in 1 .. Len(s) - 1, <<s[i], s[i + 1]>> = p
        PROVE  i \in A \cup C
    <3>1. CASE i < k
      BY <1>1, <2>1, <3>1
    <3>2. CASE i >= k
      <4>1. i - (k - 1) \in B
        BY <1>1, <2>1, <3>2
      <4>. QED
        BY <2>1, <4>1
    <3>. QED
      BY <3>1, <3>2
  <2>2. ASSUME NEW i \in A \cup C
        PROVE  i \in 1 .. Len(s) - 1 /\ <<s[i], s[i + 1]>> = p
    BY <1>1
  <2>. QED
    BY <2>1, <2>2
<1>3. IsFiniteSet(A) /\ IsFiniteSet(B)
  BY <1>1, PairOccType
<1>4. IsFiniteSet(C) /\ Cardinality(C) = Cardinality(B)
  <2>1. B \in SUBSET Nat /\ k - 1 \in Nat
    OBVIOUS
  <2>. HIDE DEF B
  <2>. QED
    BY <1>3, <2>1, Shift
<1>5. A \cap C = {}
  BY <1>1
<1>. HIDE DEF A, C
<1>6. Cardinality(A \cup C) = Cardinality(A) + Cardinality(C)
  BY <1>3, <1>4, <1>5, DisjointUnion
<1>. USE DEF A, C
<1>. QED
  BY <1>2, <1>4, <1>6 DEF PairOcc

(* What the pool helpers do to the count of a key over both pools.         *)
LEMMA FreqTotals ==
  ASSUME NEW f \in Freq, NEW n \in Nat, NEW t \in 0 .. ShortTerm
  PROVE  /\ Absent \in Freq /\ Total(Absent) = 0
         /\ Touched(f, n) \in Freq /\ Total(Touched(f, n)) = Total(f) + n
         /\ Dropped(f, n) \in Freq /\ Total(Dropped(f, n)) >= Total(f) - n
         /\ Aged(f, t) \in Freq /\ Total(Aged(f, t)) = Total(f)
         /\ Older(f) \in Freq /\ Total(Older(f)) = Total(f)
         /\ Total(f) \in Nat
<1> USE HistoryAssumption DEF Freq, Absent, Total
<1>1. Absent \in Freq /\ Total(Absent) = 0 /\ Total(f) \in Nat
  OBVIOUS
<1>2. Touched(f, n) \in Freq /\ Total(Touched(f, n)) = Total(f) + n
  BY DEF Touched
<1>3. Dropped(f, n) \in Freq /\ Total(Dropped(f, n)) >= Total(f) - n
  BY DEF Dropped
<1>4. Aged(f, t) \in Freq /\ Total(Aged(f, t)) = Total(f)
  BY DEF Aged
<1>5. Older(f) \in Freq /\ Total(Older(f)) = Total(f)
  BY DEF Older
<1>. QED
  BY <1>1, <1>2, <1>3, <1>4, <1>5

(* The stream memorize() pushes behind the memory, and how it is cut.      *)
LEMMA StreamFacts ==
  ASSUME memory \in Seq(Ids), Len(memory) <= Cap, NEW ws \in Streams,
         NEW stream, stream = memory \o <<DCWID>> \o ws
  PROVE  /\ ws \in Seq(Words) /\ ws \in Seq(Ids) /\ <<DCWID>> \in Seq(Ids)
         /\ stream \in Seq(Ids)
         /\ Len(stream) = Len(memory) + 1 + Len(ws)
         /\ Evicted(stream) \in 0 .. Len(stream) - 1
         /\ Len(stream) - Evicted(stream) <= Cap
<1>1. ws \in Seq(Words) /\ ws \in Seq(Ids) /\ <<DCWID>> \in Seq(Ids)
  BY HistoryAssumption, SeqMonotonic DEF Ids
<1>2. stream \in Seq(Ids) /\ Len(stream) = Len(memory) + 1 + Len(ws)
  BY <1>1
<1>. QED
  BY <1>1, <1>2, HistoryAssumption DEF Evicted

(* Nothing but a Memorize of a queue that is not over-full pushes, and it  *)
(* pops first.                                                             *)
THEOREM MemoryIsBounded == Spec => [](TypeOK /\ MemoryBound)
<1> USE HistoryAssumption DEF TypeOK, MemoryBound
<1>1. Init => TypeOK /\ MemoryBound
  <2> SUFFICES ASSUME Init PROVE TypeOK /\ MemoryBound
    OBVIOUS
  <2>1. Absent \in Freq /\ << >> \in Seq(Ids) /\ Len(<< >>) = 0
    BY EmptySeq DEF Absent, Freq
  <2>2. AllAbsent(Ids) \in [Ids -> Freq] /\ AllAbsent(Pairs) \in [Pairs -> Freq]
    BY <2>1 DEF AllAbsent
  <2>3. memory \in Seq(Ids) /\ file \in Seq(Ids) /\ Len(memory) <= Cap /\ Len(file) <= Cap
    BY <2>1 DEF Init
  <2>4. /\ up \in BOOLEAN /\ uni \in [Ids -> Freq] /\ bi \in [Pairs -> Freq]
        /\ forgotten \subseteq Words /\ forgottenBi \subseteq Pairs /\ deleted \subseteq Words
    BY <2>2, Zenon DEF Init
  <2>. QED
    BY <2>3, <2>4
<1>2. TypeOK /\ MemoryBound /\ [Next]_vars => TypeOK' /\ MemoryBound'
  <2> SUFFICES ASSUME TypeOK, MemoryBound, [Next]_vars
               PROVE  TypeOK' /\ MemoryBound'
    OBVIOUS
  <2>1. ASSUME NEW ws \in Streams, Memorize(ws)
        PROVE  TypeOK' /\ MemoryBound'
    <3> DEFINE stream == memory \o <<DCWID>> \o ws
               out == Evicted(stream)
               gone == SubSeq(stream, 1, out)
               goneBi == SubSeq(stream, 1, out + 1)
    <3>1. /\ ws \in Seq(Ids) /\ <<DCWID>> \o ws \in Seq(Ids)
          /\ stream \in Seq(Ids)
          /\ out \in 0 .. Len(stream) - 1
          /\ Len(stream) - out <= Cap
      <4>1. stream = memory \o <<DCWID>> \o ws /\ out = Evicted(stream)
        OBVIOUS
      <4>. HIDE DEF stream, out
      <4>2. ws \in Seq(Ids) /\ <<DCWID>> \in Seq(Ids)
        BY <4>1, StreamFacts
      <4>. QED
        BY <4>1, <4>2, StreamFacts, ConcatProperties
    <3>2. /\ gone \in Seq(Ids) /\ goneBi \in Seq(Ids)
          /\ SubSeq(stream, out + 1, Len(stream)) \in Seq(Ids)
          /\ Len(SubSeq(stream, out + 1, Len(stream))) = Len(stream) - out
      <4>. HIDE DEF stream, out
      <4>. QED
        BY <3>1, SubSeqProperties
    <3>. HIDE DEF stream, out, gone, goneBi
    <3>3. /\ memory' = SubSeq(stream, out + 1, Len(stream))
          /\ uni' = [w \in Ids |->
                Aged(Touched(Dropped(uni[w], Occ(gone, w)), Occ(ws, w)), ShortTerm)]
          /\ bi' = [p \in Pairs |->
                Aged(Touched(Dropped(bi[p], PairOcc(goneBi, p)),
                             PairOcc(<<DCWID>> \o ws, p)), ShortTerm)]
          /\ deleted' \subseteq deleted
          /\ UNCHANGED <<up, file, forgotten, forgottenBi>>
      BY <2>1 DEF Memorize, stream, out, gone, goneBi
    <3>4. ShortTerm \in 0 .. ShortTerm
      OBVIOUS
    <3>5. uni' \in [Ids -> Freq]
      <4>1. ASSUME NEW w \in Ids
            PROVE  Aged(Touched(Dropped(uni[w], Occ(gone, w)), Occ(ws, w)), ShortTerm) \in Freq
        BY <3>1, <3>2, <3>4, OccType, FreqTotals
      <4>. QED
        BY <3>3, <4>1
    <3>6. bi' \in [Pairs -> Freq]
      <4>1. ASSUME NEW p \in Pairs
            PROVE  Aged(Touched(Dropped(bi[p], PairOcc(goneBi, p)),
                                PairOcc(<<DCWID>> \o ws, p)), ShortTerm) \in Freq
        BY <3>1, <3>2, <3>4, PairOccType, FreqTotals
      <4>. QED
        BY <3>3, <4>1
    <3>. QED
      BY <3>1, <3>2, <3>3, <3>5, <3>6
  <2>2. ASSUME NEW wid \in UserWords, Forget(wid)
        PROVE  TypeOK' /\ MemoryBound'
    <3>1. Absent \in Freq /\ PairsWith(wid) \subseteq Pairs /\ wid \in Words
      BY DEF Absent, Freq, PairsWith
    <3>. QED
      BY <2>2, <3>1 DEF Forget, Erased
  <2>3. ASSUME NEW ws \in Streams, ForgetStream(ws)
        PROVE  TypeOK' /\ MemoryBound'
    <3> DEFINE s == Append(ws, DCWID)
               pairs == {<<s[i], s[i + 1]>> : i \in 1 .. Len(ws)}
    <3>1. Absent \in Freq
      BY DEF Absent, Freq
    <3>2. pairs \subseteq Pairs
      <4>1. s \in Seq(Ids) /\ Len(s) = Len(ws) + 1
        BY SeqMonotonic, AppendProperties DEF Ids
      <4>. QED
        BY <4>1, ElementOfSeq DEF Pairs
    <3>. HIDE DEF s
    <3>3. /\ bi' = [p \in Pairs |-> IF p \in pairs THEN Absent ELSE bi[p]]
          /\ forgottenBi' = forgottenBi \cup pairs
          /\ UNCHANGED <<up, memory, uni, file, forgotten, deleted>>
      BY <2>3 DEF ForgetStream, s
    <3>. HIDE DEF pairs
    <3>. QED
      BY <3>1, <3>2, <3>3
  <2>4. ASSUME NEW n \in 0 .. Cap, SaveToFile(n)
        PROVE  TypeOK' /\ MemoryBound'
    <3>1. SubSeq(memory, 1, n) \in Seq(Ids) /\ Len(SubSeq(memory, 1, n)) <= Cap
      BY <2>4, SubSeqProperties DEF SaveToFile
    <3>. QED
      BY <2>4, <3>1 DEF SaveToFile
  <2>5. ASSUME Crash
        PROVE  TypeOK' /\ MemoryBound'
    <3>1. file' \in Seq(Ids) /\ Len(file') <= Cap
      <4>1. ASSUME NEW n \in 0 .. Len(memory)
            PROVE  SubSeq(memory, 1, n) \in Seq(Ids) /\ Len(SubSeq(memory, 1, n)) <= Cap
        BY SubSeqProperties
      <4>. QED
        BY <2>5, <4>1 DEF Crash
    <3>2. Absent \in Freq /\ << >> \in Seq(Ids) /\ Len(<< >>) = 0
      BY EmptySeq DEF Absent, Freq
    <3>3. AllAbsent(Ids) \in [Ids -> Freq] /\ AllAbsent(Pairs) \in [Pairs -> Freq]
      BY <3>2 DEF AllAbsent
    <3>4. memory' \in Seq(Ids) /\ Len(memory') <= Cap
      BY <2>5, <3>2 DEF Crash
    <3>5. /\ up' \in BOOLEAN /\ uni' \in [Ids -> Freq] /\ bi' \in [Pairs -> Freq]
          /\ forgotten' \subseteq Words /\ forgottenBi' \subseteq Pairs /\ deleted' \subseteq Words
      BY <2>5, <3>3, Zenon DEF Crash
    <3>. QED
      BY <3>1, <3>4, <3>5
  <2>6. ASSUME LoadFromFile
        PROVE  TypeOK' /\ MemoryBound'
    <3>0. memory' \in Seq(Ids) /\ Len(memory') <= Cap /\ file' = file
      <4>1. memory' \in {file, << >>} /\ file' = file
        BY <2>6, Zenon DEF LoadFromFile
      <4>2. << >> \in Seq(Ids) /\ Len(<< >>) = 0 /\ Cap \in Nat
        BY EmptySeq, HistoryAssumption
      <4>3. file \in Seq(Ids) /\ Len(file) <= Cap
        OBVIOUS
      <4>4. Len(<< >>) <= Cap
        <5>1. 0 <= Cap
          BY HistoryAssumption
        <5>. QED
          BY <5>1, <4>2, Zenon
      <4>5. CASE memory' = file
        BY <4>1, <4>3, <4>5, Zenon
      <4>6. CASE memory' = << >>
        BY <4>1, <4>2, <4>4, <4>6, Zenon
      <4>. QED
        BY <4>1, <4>5, <4>6, Zenon
    <3>1. 0 \in 0 .. ShortTerm /\ <<DCWID>> \o memory' \in Seq(Ids) /\ Absent \in Freq
      BY <3>0 DEF Ids, Absent, Freq
    <3>2. ASSUME NEW w \in Ids
          PROVE  Aged(Touched(Absent, Occ(memory', w)), 0) \in Freq
      BY <3>0, <3>1, OccType, FreqTotals
    <3>3. ASSUME NEW p \in Pairs
          PROVE  Aged(Touched(Absent, PairOcc(<<DCWID>> \o memory', p)), 0) \in Freq
      BY <3>1, PairOccType, FreqTotals
    <3>. QED
      BY <2>6, <3>0, <3>2, <3>3 DEF LoadFromFile
  <2>7. ASSUME Tick
        PROVE  TypeOK' /\ MemoryBound'
    <3>1. \A f \in Freq : Older(f) \in Freq
      BY FreqTotals
    <3>. QED
      BY <2>7, <3>1 DEF Tick
  <2>8. CASE UNCHANGED vars
    BY <2>8 DEF vars
  <2>. QED
    BY <2>1, <2>2, <2>3, <2>4, <2>5, <2>6, <2>7, <2>8 DEF Next
<1>. QED
  BY <1>1, <1>2, PTL DEF Spec

-----------------------------------------------------------------------------
(* A word of the lexicon is never the separator.                           *)
LEMMA NoSeparator ==
  ASSUME NEW w \in Words
  PROVE  Occ(<<DCWID>>, w) = 0 /\ Occ(<< >>, w) = 0
<1>1. {i \in DOMAIN <<DCWID>> : <<DCWID>>[i] = w} = {}
  BY HistoryAssumption
<1>2. {i \in DOMAIN << >> : << >>[i] = w} = {}
  OBVIOUS
<1>. QED
  BY <1>1, <1>2, FS_EmptySet DEF Occ

(* What memorize() leaves of a word: everything that was there and came    *)
(* in, less what was popped.                                               *)
LEMMA MemorizeOcc ==
  ASSUME TypeOK, MemoryBound, NEW ws \in Streams, NEW w \in Words,
         NEW stream, stream = memory \o <<DCWID>> \o ws,
         NEW out, out = Evicted(stream)
  PROVE  Occ(SubSeq(stream, out + 1, Len(stream)), w)
           = (Occ(memory, w) + Occ(ws, w)) - Occ(SubSeq(stream, 1, out), w)
<1>1. /\ memory \in Seq(Ids) /\ ws \in Seq(Ids) /\ <<DCWID>> \in Seq(Ids)
      /\ stream \in Seq(Ids)
      /\ out \in 0 .. Len(stream) - 1
  BY StreamFacts DEF TypeOK, MemoryBound
<1>2. Occ(stream, w) = Occ(memory, w) + Occ(ws, w)
  <2>1. memory \o <<DCWID>> \in Seq(Ids)
    BY <1>1, ConcatProperties
  <2>2. Occ(stream, w) = Occ(memory \o <<DCWID>>, w) + Occ(ws, w)
    BY <1>1, <2>1, OccConcat
  <2>3. Occ(memory \o <<DCWID>>, w) = Occ(memory, w) + Occ(<<DCWID>>, w)
    BY <1>1, OccConcat
  <2>4. Occ(<<DCWID>>, w) = 0
    BY NoSeparator
  <2>5. Occ(memory, w) \in Nat
    BY <1>1, OccType
  <2>. QED
    BY <2>2, <2>3, <2>4, <2>5
<1>3. /\ SubSeq(stream, 1, out) \in Seq(Ids)
      /\ SubSeq(stream, out + 1, Len(stream)) \in Seq(Ids)
      /\ SubSeq(stream, 1, out) \o SubSeq(stream, out + 1, Len(stream)) = stream
  <2>1. SubSeq(stream, 1, out) \in Seq(Ids)
    BY <1>1, SubSeqProperties
  <2>2. SubSeq(stream, out + 1, Len(stream)) \in Seq(Ids)
    BY <1>1, SubSeqProperties
  <2>3. /\ 1 \in 1 .. Len(stream) + 1 /\ out \in 1 - 1 .. Len(stream)
        /\ Len(stream) \in out .. Len(stream)
    BY <1>1
  <2>4. SubSeq(stream, 1, out) \o SubSeq(stream, out + 1, Len(stream))
          = SubSeq(stream, 1, Len(stream))
    BY <1>1, <2>3, ConcatAdjacentSubSeq
  <2>5. SubSeq(stream, 1, Len(stream)) = stream
    BY <1>1, SubSeqFull
  <2>. QED
    BY <2>1, <2>2, <2>4, <2>5
<1> DEFINE a == SubSeq(stream, 1, out)
           b == SubSeq(stream, out + 1, Len(stream))
<1>4. a \in Seq(Ids) /\ b \in Seq(Ids) /\ stream = a \o b
  BY <1>3
<1> HIDE DEF a, b
<1>5. Occ(stream, w) = Occ(a, w) + Occ(b, w)
  <2>1. Occ(a \o b, w) = Occ(a, w) + Occ(b, w)
    BY <1>4, OccConcat
  <2>2. Occ(stream, w) = Occ(a \o b, w)
    BY <1>4
  <2>. QED
    BY <2>1, <2>2
<1>6. /\ Occ(a, w) \in Nat /\ Occ(b, w) \in Nat
      /\ Occ(memory, w) \in Nat /\ Occ(ws, w) \in Nat
  BY <1>1, <1>4, OccType
<1>7. Occ(b, w) = (Occ(memory, w) + Occ(ws, w)) - Occ(a, w)
  <2>1. Occ(a, w) + Occ(b, w) = Occ(memory, w) + Occ(ws, w)
    BY <1>2, <1>5, Zenon
  <2>. QED
    BY <1>6, <2>1
<1>. QED
  BY <1>7 DEF a, b

(* A word that was not forgotten counts for at least its occurrences in    *)
(* the queue: evictions never take a count a remembered use still needs.   *)
THEOREM CountsCover == Spec => []CountsCoverMemory
<1>1. Init => CountsCoverMemory
  <2> SUFFICES ASSUME Init, NEW w \in Words PROVE Occ(memory, w) <= Total(uni[w])
    BY DEF CountsCoverMemory
  <2>1. w \in Ids
    BY DEF Ids
  <2>. QED
    BY <2>1, NoSeparator DEF Init, AllAbsent, Total, Absent
<1>2. TypeOK /\ MemoryBound /\ CountsCoverMemory /\ [Next]_vars => CountsCoverMemory'
  <2> SUFFICES ASSUME TypeOK, MemoryBound, CountsCoverMemory, [Next]_vars,
                      NEW w \in Words, w \notin forgotten'
               PROVE  Occ(memory', w) <= Total(uni'[w])
    BY DEF CountsCoverMemory
  <2>1. w \in Ids /\ uni[w] \in Freq /\ memory \in Seq(Ids) /\ file \in Seq(Ids)
    BY DEF Ids, TypeOK
  <2>2. w \notin forgotten => Occ(memory, w) <= Total(uni[w])
    BY DEF CountsCoverMemory
  <2>3. /\ Occ(memory, w) \in Nat /\ Occ(file, w) \in Nat /\ Total(uni[w]) \in Nat
        /\ 0 \in 0 .. ShortTerm /\ ShortTerm \in 0 .. ShortTerm /\ 0 \in Nat
    <3>1. 0 \in 0 .. ShortTerm /\ ShortTerm \in 0 .. ShortTerm /\ 0 \in Nat
      BY HistoryAssumption
    <3>2. Occ(memory, w) \in Nat /\ Occ(file, w) \in Nat
      BY <2>1, OccType
    <3>3. Total(uni[w]) \in Nat
      BY <2>1, <3>1, FreqTotals
    <3>. QED
      BY <3>1, <3>2, <3>3
  <2>4. ASSUME NEW ws \in Streams, Memorize(ws)
        PROVE  Occ(memory', w) <= Total(uni'[w])
    <3> DEFINE stream == memory \o <<DCWID>> \o ws
               out == Evicted(stream)
               gone == SubSeq(stream, 1, out)
               dropped == Dropped(uni[w], Occ(gone, w))
               touched == Touched(dropped, Occ(ws, w))
    <3>1. /\ memory' = SubSeq(stream, out + 1, Len(stream))
          /\ uni'[w] = Aged(touched, ShortTerm)
          /\ forgotten' = forgotten
      BY <2>1, <2>4 DEF Memorize
    <3>2. ws \in Seq(Ids) /\ stream \in Seq(Ids) /\ out \in 0 .. Len(stream) - 1
      <4>1. stream = memory \o <<DCWID>> \o ws /\ out = Evicted(stream)
        OBVIOUS
      <4>. HIDE DEF stream, out
      <4>. QED
        BY <2>1, <4>1, StreamFacts DEF MemoryBound
    <3>3. Occ(memory', w) = (Occ(memory, w) + Occ(ws, w)) - Occ(gone, w)
      BY <3>1, MemorizeOcc
    <3>4. Occ(gone, w) \in Nat /\ Occ(ws, w) \in Nat
      <4>. HIDE DEF stream, out
      <4>1. gone \in Seq(Ids)
        BY <3>2, SubSeqProperties
      <4>. QED
        BY <3>2, <4>1, OccType
    <3>5. dropped \in Freq /\ Total(dropped) >= Total(uni[w]) - Occ(gone, w)
      <4>. HIDE DEF gone
      <4>. QED
        BY <2>1, <2>3, <3>4, FreqTotals
    <3>. HIDE DEF dropped, gone, stream, out
    <3>6. touched \in Freq /\ Total(touched) = Total(dropped) + Occ(ws, w)
      BY <2>3, <3>4, <3>5, FreqTotals
    <3>. HIDE DEF touched
    <3>7. Total(uni'[w]) = Total(touched) /\ Total(dropped) \in Nat
      BY <2>3, <3>1, <3>5, <3>6, FreqTotals
    <3>. QED
      BY <2>2, <2>3, <3>1, <3>3, <3>4, <3>5, <3>6, <3>7
  <2>5. ASSUME NEW wid \in UserWords, Forget(wid)
        PROVE  Occ(memory', w) <= Total(uni'[w])
    BY <2>1, <2>2, <2>5 DEF Forget
  <2>6. ASSUME NEW ws \in Streams, ForgetStream(ws)
        PROVE  Occ(memory', w) <= Total(uni'[w])
    BY <2>2, <2>6 DEF ForgetStream
  <2>7. ASSUME NEW n \in 0 .. Cap, SaveToFile(n)
        PROVE  Occ(memory', w) <= Total(uni'[w])
    BY <2>2, <2>7 DEF SaveToFile
  <2>8. ASSUME Crash
        PROVE  Occ(memory', w) <= Total(uni'[w])
    BY <2>1, <2>8, NoSeparator DEF Crash, AllAbsent, Total, Absent
  <2>9. ASSUME LoadFromFile
        PROVE  Occ(memory', w) <= Total(uni'[w])
    <3>1. uni'[w] = Aged(Touched(Absent, Occ(memory', w)), 0) /\ memory' \in Seq(Ids)
      BY <2>1, <2>9, EmptySeq DEF LoadFromFile
    <3>2. Absent \in Freq /\ Total(Absent) = 0 /\ Occ(memory', w) \in Nat
      BY <2>1, <2>3, <3>1, OccType, FreqTotals
    <3>3. /\ Touched(Absent, Occ(memory', w)) \in Freq
          /\ Total(Touched(Absent, Occ(memory', w))) = Occ(memory', w)
      BY <2>3, <3>2, FreqTotals
    <3>. QED
      BY <2>3, <3>1, <3>3, FreqTotals
  <2>10. ASSUME Tick
         PROVE  Occ(memory', w) <= Total(uni'[w])
    BY <2>1, <2>2, <2>3, <2>10, FreqTotals DEF Tick
  <2>11. CASE UNCHANGED vars
    BY <2>2, <2>11 DEF vars
  <2>. QED
    BY <2>4, <2>5, <2>6, <2>7, <2>8, <2>9, <2>10, <2>11 DEF Next
<1>. QED
  BY <1>1, <1>2, MemoryIsBounded, PTL DEF Spec

-----------------------------------------------------------------------------
(* The same bookkeeping for a pair that does not end in a separator.       *)
LEMMA MemorizePairOcc ==
  ASSUME TypeOK, MemoryBound, NEW ws \in Streams, NEW p \in Ids \X Words,
         NEW stream, stream = memory \o <<DCWID>> \o ws,
         NEW out, out = Evicted(stream)
  PROVE  PairOcc(SubSeq(stream, out + 1, Len(stream)), p)
           = (PairOcc(memory, p) + PairOcc(<<DCWID>> \o ws, p))
               - PairOcc(SubSeq(stream, 1, out + 1), p)
<1> DEFINE k == Len(memory) + 1
           x == SubSeq(stream, 1, k)
           y == SubSeq(stream, k, Len(stream))
           fresh == <<DCWID>> \o ws
           a == SubSeq(stream, 1, out + 1)
           b == SubSeq(stream, out + 1, Len(stream))
<1>1. /\ memory \in Seq(Ids) /\ ws \in Seq(Ids) /\ <<DCWID>> \in Seq(Ids)
      /\ stream \in Seq(Ids)
      /\ Len(stream) = Len(memory) + 1 + Len(ws)
      /\ out \in 0 .. Len(stream) - 1
  BY StreamFacts DEF TypeOK, MemoryBound
<1>2. /\ \A i \in 1 .. Len(memory) : stream[i] = memory[i]
      /\ stream[Len(memory) + 1] = DCWID
      /\ \A i \in 1 .. Len(ws) : stream[Len(memory) + 1 + i] = ws[i]
  BY <1>1
<1>3. /\ k \in 1 .. Len(stream) /\ out + 1 \in 1 .. Len(stream)
      /\ fresh \in Seq(Ids)
      /\ x \in Seq(Ids) /\ y \in Seq(Ids) /\ a \in Seq(Ids) /\ b \in Seq(Ids)
  <2>1. k \in 1 .. Len(stream) /\ out + 1 \in 1 .. Len(stream)
    BY <1>1
  <2>2. fresh \in Seq(Ids)
    BY <1>1, ConcatProperties
  <2>. HIDE DEF k
  <2>3. x \in Seq(Ids)
    BY <1>1, <2>1, SubSeqProperties
  <2>5. y \in Seq(Ids)
    BY <1>1, <2>1, SubSeqProperties
  <2>4. a \in Seq(Ids)
    <3>1. \A i \in 1 .. out + 1 : stream[i] \in Ids
      BY <1>1, <2>1
    <3>. QED
      BY <1>1, <2>1, <3>1
  <2>6. b \in Seq(Ids)
    <3>1. \A i \in out + 1 .. Len(stream) : stream[i] \in Ids
      BY <1>1, <2>1
    <3>2. out + 1 \in Nat /\ Len(stream) \in Nat
      BY <1>1
    <3>. QED
      BY <1>1, <2>1, <3>1, <3>2, SubSeqProperties
  <2>. QED
    BY <2>1, <2>2, <2>3, <2>4, <2>5, <2>6
<1>4. y = fresh
  <2>1. /\ Len(y) = Len(ws) + 1
        /\ \A i \in 1 .. Len(ws) + 1 : y[i] = stream[k + i - 1]
    BY <1>1, <1>3, SubSeqProperties
  <2>2. /\ Len(fresh) = Len(ws) + 1
        /\ fresh[1] = DCWID
        /\ \A i \in 1 .. Len(ws) : fresh[i + 1] = ws[i]
    BY <1>1
  <2>3. \A i \in 1 .. Len(y) : y[i] = fresh[i]
    BY <1>1, <1>2, <2>1, <2>2
  <2>. HIDE DEF y, fresh
  <2>. QED
    BY <1>3, <2>1, <2>2, <2>3, SeqEqual
<1>5. PairOcc(x, p) = PairOcc(memory, p)
  <2>1. /\ Len(x) = Len(memory) + 1
        /\ \A i \in 1 .. Len(memory) : x[i] = memory[i]
        /\ x[Len(memory) + 1] = DCWID
    BY <1>1, <1>2, <1>3, SubSeqProperties
  <2>2. p[2] # DCWID
    BY HistoryAssumption
  <2>. HIDE DEF x
  <2>3. {i \in 1 .. Len(x) - 1 : <<x[i], x[i + 1]>> = p}
          = {i \in 1 .. Len(memory) - 1 : <<memory[i], memory[i + 1]>> = p}
    <3>1. Len(x) - 1 = Len(memory) /\ Len(memory) \in Nat
      BY <1>1, <2>1
    <3>2. \A i \in 1 .. Len(memory) - 1 : x[i] = memory[i] /\ x[i + 1] = memory[i + 1]
      BY <2>1, <3>1
    <3>3. ASSUME NEW i \in 1 .. Len(memory), <<x[i], x[i + 1]>> = p
          PROVE  i # Len(memory)
      BY <2>1, <2>2, <3>3
    <3>4. \A i \in 1 .. Len(memory) : i # Len(memory) => i \in 1 .. Len(memory) - 1
      BY <3>1
    <3>5. 1 .. Len(memory) - 1 \subseteq 1 .. Len(memory)
      BY <3>1
    <3>. QED
      BY <3>1, <3>2, <3>3, <3>4, <3>5
  <2>. QED
    BY <2>3 DEF PairOcc
<1>6. PairOcc(stream, p) = PairOcc(x, p) + PairOcc(y, p)
  BY <1>1, <1>3, PairOccSplit
<1>7. PairOcc(stream, p) = PairOcc(a, p) + PairOcc(b, p)
  BY <1>1, <1>3, PairOccSplit
<1>8. /\ PairOcc(memory, p) \in Nat /\ PairOcc(fresh, p) \in Nat
      /\ PairOcc(a, p) \in Nat /\ PairOcc(b, p) \in Nat
  BY <1>1, <1>3, PairOccType
<1>. HIDE DEF x, y, a, b, fresh
<1>9. PairOcc(a, p) + PairOcc(b, p) = PairOcc(memory, p) + PairOcc(fresh, p)
  <2>1. PairOcc(y, p) = PairOcc(fresh, p)
    BY <1>4
  <2>. QED
    BY <1>5, <1>6, <1>7, <2>1
<1>10. PairOcc(b, p) = (PairOcc(memory, p) + PairOcc(fresh, p)) - PairOcc(a, p)
  BY <1>8, <1>9
<1>. QED
  BY <1>10 DEF a, b, fresh

(* An empty queue has no pairs.                                           *)
LEMMA NoPairs == \A p : PairOcc(<< >>, p) = 0
<1>1. \A p : {i \in 1 .. Len(<< >>) - 1 : <<<< >>[i], << >>[i + 1]>> = p} = {}
  OBVIOUS
<1>. QED
  BY <1>1, FS_EmptySet DEF PairOcc

(* A sequence has no more pairs than it has with a separator in front.     *)
LEMMA PairOccBehindSeparator ==
  ASSUME NEW s \in Seq(Ids), NEW p
  PROVE  PairOcc(s, p) <= PairOcc(<<DCWID>> \o s, p)
<1> DEFINE fresh == <<DCWID>> \o s
           A == {i \in 1 .. Len(s) - 1 : <<s[i], s[i + 1]>> = p}
           F == {i \in 1 .. Len(fresh) - 1 : <<fresh[i], fresh[i + 1]>> = p}
           C == {i + 1 : i \in A}
<1>1. fresh \in Seq(Ids)
  BY ConcatProperties DEF Ids
<1>2. C \in SUBSET F
  OBVIOUS
<1>3. IsFiniteSet(F) /\ IsFiniteSet(A)
  <2>. HIDE DEF fresh
  <2>. QED
    BY <1>1, PairOccType
<1>4. Cardinality(C) = Cardinality(A)
  <2>1. A \in SUBSET Nat /\ 1 \in Nat
    OBVIOUS
  <2>. HIDE DEF A
  <2>. QED
    BY <1>3, <2>1, Shift
<1>5. Cardinality(C) <= Cardinality(F)
  <2>. HIDE DEF C, F
  <2>. QED
    BY <1>2, <1>3, FS_Subset
<1>. QED
  BY <1>4, <1>5 DEF PairOcc

(* The pair counts that pr() divides cover the queue as the word counts do. *)
THEOREM PairsCover == Spec => []PairsCoverMemory
<1>1. Init => PairsCoverMemory
  <2> SUFFICES ASSUME Init, NEW p \in Ids \X Words PROVE PairOcc(memory, p) <= Total(bi[p])
    BY DEF PairsCoverMemory
  <2>1. p \in Pairs
    BY DEF Ids, Pairs
  <2>2. PairOcc(<< >>, p) = 0
    BY NoPairs
  <2>. QED
    BY <2>1, <2>2 DEF Init, AllAbsent, Total, Absent
<1>2. TypeOK /\ MemoryBound /\ PairsCoverMemory /\ [Next]_vars => PairsCoverMemory'
  <2> SUFFICES ASSUME TypeOK, MemoryBound, PairsCoverMemory, [Next]_vars,
                      NEW p \in Ids \X Words, p \notin forgottenBi'
               PROVE  PairOcc(memory', p) <= Total(bi'[p])
    BY DEF PairsCoverMemory
  <2>1. p \in Pairs /\ bi[p] \in Freq /\ memory \in Seq(Ids) /\ file \in Seq(Ids)
    BY DEF Ids, Pairs, TypeOK
  <2>2. p \notin forgottenBi => PairOcc(memory, p) <= Total(bi[p])
    BY DEF PairsCoverMemory
  <2>3. /\ PairOcc(memory, p) \in Nat /\ PairOcc(file, p) \in Nat /\ Total(bi[p]) \in Nat
        /\ 0 \in 0 .. ShortTerm /\ ShortTerm \in 0 .. ShortTerm /\ 0 \in Nat
    <3>1. 0 \in 0 .. ShortTerm /\ ShortTerm \in 0 .. ShortTerm /\ 0 \in Nat
      BY HistoryAssumption
    <3>2. PairOcc(memory, p) \in Nat /\ PairOcc(file, p) \in Nat
      BY <2>1, PairOccType
    <3>3. Total(bi[p]) \in Nat
      BY <2>1, <3>1, FreqTotals
    <3>. QED
      BY <3>1, <3>2, <3>3
  <2>4. ASSUME NEW ws \in Streams, Memorize(ws)
        PROVE  PairOcc(memory', p) <= Total(bi'[p])
    <3> DEFINE stream == memory \o <<DCWID>> \o ws
               fresh == <<DCWID>> \o ws
               out == Evicted(stream)
               gone == SubSeq(stream, 1, out + 1)
               dropped == Dropped(bi[p], PairOcc(gone, p))
               touched == Touched(dropped, PairOcc(fresh, p))
    <3>1. /\ memory' = SubSeq(stream, out + 1, Len(stream))
          /\ bi'[p] = Aged(touched, ShortTerm)
          /\ forgottenBi' = forgottenBi
      BY <2>1, <2>4 DEF Memorize
    <3>2. fresh \in Seq(Ids) /\ stream \in Seq(Ids) /\ out \in 0 .. Len(stream) - 1
      <4>1. stream = memory \o <<DCWID>> \o ws /\ out = Evicted(stream)
        OBVIOUS
      <4>2. fresh = <<DCWID>> \o ws
        OBVIOUS
      <4>. HIDE DEF stream, out, fresh
      <4>3. ws \in Seq(Ids) /\ <<DCWID>> \in Seq(Ids)
        BY <2>1, <4>1, StreamFacts DEF MemoryBound
      <4>4. fresh \in Seq(Ids)
        BY <4>2, <4>3, ConcatProperties
      <4>. QED
        BY <2>1, <4>1, <4>4, StreamFacts DEF MemoryBound
    <3>3. PairOcc(memory', p) = (PairOcc(memory, p) + PairOcc(fresh, p)) - PairOcc(gone, p)
      BY <3>1, MemorizePairOcc
    <3>4. PairOcc(gone, p) \in Nat /\ PairOcc(fresh, p) \in Nat
      <4>. HIDE DEF stream, out, fresh
      <4>1. gone \in Seq(Ids)
        BY <3>2, SubSeqProperties
      <4>. QED
        BY <3>2, <4>1, PairOccType
    <3>5. dropped \in Freq /\ Total(dropped) >= Total(bi[p]) - PairOcc(gone, p)
      <4>. HIDE DEF gone
      <4>. QED
        BY <2>1, <2>3, <3>4, FreqTotals
    <3>. HIDE DEF dropped, gone, stream, out, fresh
    <3>6. touched \in Freq /\ Total(touched) = Total(dropped) + PairOcc(fresh, p)
      BY <2>3, <3>4, <3>5, FreqTotals
    <3>. HIDE DEF touched
    <3>7. Total(bi'[p]) = Total(touched) /\ Total(dropped) \in Nat
      BY <2>3, <3>1, <3>5, <3>6, FreqTotals
    <3>. QED
      BY <2>2, <2>3, <3>1, <3>3, <3>4, <3>5, <3>6, <3>7
  <2>5. ASSUME NEW wid \in UserWords, Forget(wid)
        PROVE  PairOcc(memory', p) <= Total(bi'[p])
    BY <2>1, <2>2, <2>5 DEF Forget
  <2>6. ASSUME NEW ws \in Streams, ForgetStream(ws)
        PROVE  PairOcc(memory', p) <= Total(bi'[p])
    <3> DEFINE pairs == {<<Append(ws, DCWID)[i], Append(ws, DCWID)[i + 1]>> : i \in 1 .. Len(ws)}
    <3>1. /\ bi' = [q \in Pairs |-> IF q \in pairs THEN Absent ELSE bi[q]]
          /\ forgottenBi' = forgottenBi \cup pairs
          /\ memory' = memory
      BY <2>6 DEF ForgetStream
    <3>. HIDE DEF pairs
    <3>. QED
      BY <2>1, <2>2, <3>1
  <2>7. ASSUME NEW n \in 0 .. Cap, SaveToFile(n)
        PROVE  PairOcc(memory', p) <= Total(bi'[p])
    BY <2>2, <2>7 DEF SaveToFile
  <2>8. ASSUME Crash
        PROVE  PairOcc(memory', p) <= Total(bi'[p])
    BY <2>1, <2>8, NoPairs DEF Crash, AllAbsent, Total, Absent
  <2>9. ASSUME LoadFromFile
        PROVE  PairOcc(memory', p) <= Total(bi'[p])
    <3> DEFINE fresh == <<DCWID>> \o memory'
    <3>1. bi'[p] = Aged(Touched(Absent, PairOcc(fresh, p)), 0) /\ memory' \in Seq(Ids)
      BY <2>1, <2>9, EmptySeq DEF LoadFromFile
    <3>2. Absent \in Freq /\ Total(Absent) = 0
      BY <2>1, <2>3, FreqTotals
    <3>3. PairOcc(fresh, p) \in Nat /\ PairOcc(memory', p) <= PairOcc(fresh, p)
      <4>1. fresh \in Seq(Ids)
        BY <3>1, ConcatProperties DEF Ids
      <4>2. PairOcc(memory', p) <= PairOcc(fresh, p)
        BY <3>1, PairOccBehindSeparator
      <4>. QED
        BY <4>1, <4>2, PairOccType
    <3>. HIDE DEF fresh
    <3>4. /\ Touched(Absent, PairOcc(fresh, p)) \in Freq
          /\ Total(Touched(Absent, PairOcc(fresh, p))) = PairOcc(fresh, p)
      BY <2>3, <3>2, <3>3, FreqTotals
    <3>. QED
      BY <2>3, <3>1, <3>3, <3>4, FreqTotals
  <2>10. ASSUME Tick
         PROVE  PairOcc(memory', p) <= Total(bi'[p])
    BY <2>1, <2>2, <2>3, <2>10, FreqTotals DEF Tick
  <2>11. CASE UNCHANGED vars
    BY <2>2, <2>11 DEF vars
  <2>. QED
    BY <2>4, <2>5, <2>6, <2>7, <2>8, <2>9, <2>10, <2>11 DEF Next
<1>. QED
  BY <1>1, <1>2, MemoryIsBounded, PTL DEF Spec

(* Until the process restarts, a word the user deleted stays out of both   *)
(* pools: no eviction or aging can bring a count back.                     *)
THEOREM ForgottenStaysOut == Spec => []ForgottenWithinRun
<1> DEFINE Inv == \A w \in deleted \cap forgotten : uni[w] = Absent
<1>1. Init => Inv
  BY DEF Init
<1>2. TypeOK /\ MemoryBound /\ Inv /\ [Next]_vars => Inv'
  <2> SUFFICES ASSUME TypeOK, MemoryBound, Inv, [Next]_vars,
                      NEW w \in deleted', w \in forgotten'
               PROVE  uni'[w] = Absent
    OBVIOUS
  <2>1. ASSUME NEW ws \in Streams, Memorize(ws)
        PROVE  uni'[w] = Absent
    <3> DEFINE stream == memory \o <<DCWID>> \o ws
               gone == SubSeq(stream, 1, Evicted(stream))
    <3>1. /\ w \in Words /\ w \in Ids /\ uni[w] = Absent
          /\ w \notin {ws[i] : i \in DOMAIN ws}
      BY <2>1 DEF Memorize, TypeOK, Ids
    <3>2. Occ(ws, w) = 0
      <4>1. {i \in DOMAIN ws : ws[i] = w} = {}
        BY <3>1
      <4>. QED
        BY <4>1, FS_EmptySet DEF Occ
    <3>3. Occ(gone, w) \in Nat
      <4>1. stream = memory \o <<DCWID>> \o ws
        OBVIOUS
      <4>. HIDE DEF stream
      <4>2. stream \in Seq(Ids) /\ Evicted(stream) \in 0 .. Len(stream) - 1
        BY <4>1, StreamFacts DEF TypeOK, MemoryBound
      <4>3. gone \in Seq(Ids)
        BY <4>2, SubSeqProperties
      <4>. QED
        BY <4>3, OccType
    <3>4. uni'[w] = Aged(Touched(Dropped(Absent, Occ(gone, w)), Occ(ws, w)), ShortTerm)
      BY <2>1, <3>1 DEF Memorize
    <3>. HIDE DEF gone
    <3>5. Dropped(Absent, Occ(gone, w)) = Absent
      BY <3>3 DEF Dropped, Absent
    <3>. QED
      BY <3>2, <3>4, <3>5 DEF Touched, Aged, Absent
  <2>2. ASSUME NEW wid \in UserWords, Forget(wid)
        PROVE  uni'[w] = Absent
    <3>1. w \in Ids
      BY <2>2, HistoryAssumption DEF Forget, TypeOK, Ids
    <3>. QED
      BY <2>2, <3>1 DEF Forget, Erased
  <2>3. ASSUME NEW ws \in Streams, ForgetStream(ws)
        PROVE  uni'[w] = Absent
    BY <2>3 DEF ForgetStream
  <2>4. ASSUME NEW n \in 0 .. Cap, SaveToFile(n)
        PROVE  uni'[w] = Absent
    BY <2>4 DEF SaveToFile
  <2>5. CASE Crash
    BY <2>5 DEF Crash
  <2>6. CASE LoadFromFile
    BY <2>6 DEF LoadFromFile
  <2>7. CASE Tick
    <3>1. w \in Ids /\ uni[w] = Absent
      BY <2>7 DEF Tick, TypeOK, Ids
    <3>. QED
      BY <2>7, <3>1 DEF Tick, Older, Absent
  <2>8. CASE UNCHANGED vars
    BY <2>8 DEF vars
  <2>. QED
    BY <2>1, <2>2, <2>3, <2>4, <2>5, <2>6, <2>7, <2>8 DEF Next
<1>3. Inv => ForgottenWithinRun
  BY DEF ForgottenWithinRun, SeenBefore, Total, Absent
<1>. QED
  BY <1>1, <1>2, <1>3, MemoryIsBounded, PTL DEF Spec
=============================================================================
