------------------------------- MODULE SlmSeg -------------------------------
(***************************************************************************)
(* Text into words: mmseg takes the longest word there is, and leaves what *)
(* can be cut in more than one way in one piece; slmseg looks there for    *)
(* the words the language model finds most likely.  A sentence is a        *)
(* sequence of characters, a place in it counts from zero.                 *)
(***************************************************************************)
EXTENDS ThreadSlm

CONSTANTS
    RealWordStart,      \* smaller ids are no words of the text
    Stok,               \* the id between sentences
    Ambi                \* the id of what mmseg leaves uncut

NotWord == 0

ASSUME SegAssumption == {Stok, Ambi} \subseteq 1 .. RealWordStart - 1

---------------------------------------------------------------------------
(* CSIMDict: the words of the lexicon, without the special ones.           *)

Dict == {i \in DOMAIN Lexicon: Lexicon[i].id >= RealWordStart}
InDict(text) == \E i \in Dict: Lexicon[i].text = text
WordId(text) == IF InDict(text) THEN GetWid(text) ELSE NotWord

Piece(sntnc, left, right) == SubSeq(sntnc, left + 1, right)

\* matchLongest: the length of the longest word, 0 for none.
MatchLongest(sntnc, at) ==
    Max({0} \cup {len \in 1 .. Len(sntnc) - at: InDict(Piece(sntnc, at, at + len))})

\* getAmbiLen: what words overlap with a word, words overlap with, and so on.
RECURSIVE AmbiLenFrom(_, _, _, _)
AmbiLenFrom(sntnc, at, i, len) ==
    IF i >= len \/ at + i >= Len(sntnc) THEN len
    ELSE AmbiLenFrom(sntnc, at, i + 1, Max({len, i + MatchLongest(sntnc, at + i)}))
GetAmbiLen(sntnc, at, len) == AmbiLenFrom(sntnc, at, 1, len)

\* output: an unknown character goes with the unknown ones before it.
RealGap(prev, cur) == cur # NotWord \/ prev # NotWord
Output(ids) ==
    LET shown == {i \in DOMAIN ids: RealGap(IF i = 1 THEN Stok ELSE ids[i - 1], ids[i])}
    IN  <<Stok>> \o [k \in 1 .. Cardinality(shown) |-> ids[SetToSortSeq(shown, <)[k]]] \o <<Stok>>

---------------------------------------------------------------------------
(* mmseg.                                                                  *)

\* The pieces of a sentence: their places and ids.
RECURSIVE MmsegFrom(_, _)
MmsegFrom(sntnc, at) ==
    LET matched == MatchLongest(sntnc, at)
        len == Max({matched, 1})
        ambiLen == GetAmbiLen(sntnc, at, len)
        right == at + ambiLen
    IN  IF at >= Len(sntnc) THEN <<>>
        ELSE <<[left |-> at, right |-> right,
                id |-> IF ambiLen > len THEN Ambi
                       ELSE IF matched = 0 THEN NotWord ELSE WordId(Piece(sntnc, at, right))]>>
             \o MmsegFrom(sntnc, right)
Mmseg(sntnc) == MmsegFrom(sntnc, 0)

---------------------------------------------------------------------------
(* slmseg.                                                                 *)

\* fullSegBuildLattice: all words inside a piece, the shorter first; where
\* none begins, the character by itself.
FullSegBuildLattice(sntnc, left, right) ==
    FlattenSeq([k \in 1 .. right - left |->
        LET l == left + k - 1
            found == {r \in l + 1 .. right: InDict(Piece(sntnc, l, r))}
            ends == SetToSortSeq(found, <)
        IN  IF found = {} THEN <<[left |-> l, right |-> l + 1, id |-> NotWord]>>
            ELSE [i \in DOMAIN ends |->
                     [left |-> l, right |-> ends[i], id |-> WordId(Piece(sntnc, l, ends[i]))]]])

\* buildLattice: what mmseg cuts stays, what it does not is gone through.
BuildLattice(sntnc) ==
    FlattenSeq([i \in DOMAIN Mmseg(sntnc) |->
        LET piece == Mmseg(sntnc)[i]
        IN  IF piece.id = Ambi THEN FullSegBuildLattice(sntnc, piece.left, piece.right)
            ELSE <<piece>>])
    \o <<[left |-> Len(sntnc), right |-> Len(sntnc) + 1, id |-> Stok]>>

\* Of the ways to a state the last one found stays.
ReachedLast(thr, states, from, his, word) ==
    LET step == RawTransfer(thr, his, word.id)
        way == [pr |-> Append(from.pr, step.cost), word |-> word, state |-> his]
    IN  [states EXCEPT ![word.right] = (Historify(thr, step.state) :> way) @@ @]

\* A way costs what its words cost, which is the less the likelier they are.
\* searchBest, one word after one state of a column: the state it leads to
\* keeps the better way there.
Reached(thr, states, from, his, word) ==
    LET step == RawTransfer(thr, his, word.id)
        pr == Append(from.pr, step.cost)
        next == Historify(thr, step.state)
        way == [pr |-> pr, word |-> word, state |-> his]
    IN  [states EXCEPT ![word.right] =
            IF next \in DOMAIN @ /\ ~ProductLess(@[next].pr, pr) THEN @ ELSE (next :> way) @@ @]

\* The states of a column, by level and index.
StateLess(a, b) == a.lvl < b.lvl \/ (a.lvl = b.lvl /\ a.idx < b.idx)
InOrder(column) == SetToSortSeq(DOMAIN column, StateLess)

SearchBest(thr, lattice, size) ==
    LET head == [pr |-> <<>>, word |-> <<>>, state |-> Root]
        start == [i \in 0 .. size |-> IF i = 0 THEN Root :> head ELSE <<>>]
        column(states, i) ==
            LET words == SelectSeq(lattice, LAMBDA w: w.left = i)
            IN  FoldLeft(LAMBDA acc, his:
                             FoldLeft(LAMBDA s, w: Reached(thr, s, s[i][his], his, w), acc, words),
                         states, InOrder(states[i]))
    IN  FoldLeft(column, start, [k \in 1 .. size |-> k - 1])

\* getBestPath: back from the first state of the last column, of which the
\* last word is no part.
RECURSIVE WayTo(_, _, _)
WayTo(states, at, state) ==
    LET way == states[at][state]
    IN  IF way.word = <<>> THEN <<>> ELSE Append(WayTo(states, way.word.left, way.state), way.word)

GetBestPath(states, size) == Front(WayTo(states, size, InOrder(states[size])[1]))

Slmseg(thr, sntnc) ==
    LET size == Len(sntnc) + 1
    IN  GetBestPath(SearchBest(thr, BuildLattice(sntnc), size), size)
=============================================================================
