------------------------------- MODULE SimSlm -------------------------------
(***************************************************************************)
(* The back-off language model as a tree in arrays (sim_slm.h), how        *)
(* slmbuild makes it of sorted n-grams and how slmprune makes it smaller.  *)
(* level[0] is the root, level[k] has the last words of the k-grams, next  *)
(* to those of the same history; "child" is where the children of an item  *)
(* begin, and they end where those of the next item begin, for which every *)
(* level is closed by a tail.  Arrays count from one, "child" from zero.   *)
(***************************************************************************)
EXTENDS Fractions, FiniteSetsExt, SequencesExt

CONSTANTS
    N,              \* the order of the model
    WordCount,      \* the words of the lexicon are 1 .. WordCount
    Breakers,       \* words after which a sentence is over
    Excluded,       \* words that stand for none
    CutOff          \* by level: what occurs no more often is dropped

ASSUME SlmAssumption ==
    /\ N \in Nat \ {0}
    /\ WordCount \in Nat \ {0}
    /\ Breakers \subseteq 1 .. WordCount
    /\ Excluded \subseteq 1 .. WordCount
    /\ CutOff \in [1 .. N -> Nat]

TAIL == 0
Node(id, child, freq) == [id |-> id, child |-> child, freq |-> freq, pr |-> Zero, bow |-> One]
Leaf(id, freq) == Node(id, 0, freq)

\* CSlmBuilder::Create.
Create == [lvl \in 0 .. N |-> IF lvl = 0 THEN <<Node(0, 0, 0)>> ELSE <<>>]

---------------------------------------------------------------------------
(* CSlmBuilder::AddNGram: the n-grams come sorted, so that only the last   *)
(* item of a level can have to grow.                                       *)

\* Mutant: a history that has no child yet is taken to go on with the last
\* word of the level.
DescendById(t, i, ngram, fr) ==
    LET v == t.level[i]
        branch == t.branch \/ v = <<>> \/ Last(v).id # ngram[i]
    IN  IF t.brk THEN t
        ELSE [level  |-> [t.level EXCEPT ![i] =
                             IF branch THEN Append(v, Node(ngram[i], Len(t.level[i + 1]), fr))
                             ELSE [v EXCEPT ![Len(v)].freq = @ + fr]],
              branch |-> branch,
              brk    |-> (i > 1 /\ ngram[i] \in Breakers) \/ ngram[i + 1] \in Excluded]

Descend(t, i, ngram, fr) ==
    LET v == t.level[i]
        branch == t.branch \/ Last(t.level[i - 1]).child >= Len(v) \/ Last(v).id # ngram[i]
    IN  IF t.brk THEN t
        ELSE [level  |-> [t.level EXCEPT ![i] =
                             IF branch THEN Append(v, Node(ngram[i], Len(t.level[i + 1]), fr))
                             ELSE [v EXCEPT ![Len(v)].freq = @ + fr]],
              branch |-> branch,
              brk    |-> (i > 1 /\ ngram[i] \in Breakers) \/ ngram[i + 1] \in Excluded]

AddNGram(level, ngram, fr) ==
    LET brk == ngram[1] \in Excluded
        rooted == IF brk THEN level ELSE [level EXCEPT ![0][1].freq = @ + fr]
        t == FoldLeft(LAMBDA acc, i: Descend(acc, i, ngram, fr),
                      [level |-> rooted, branch |-> FALSE, brk |-> brk], [i \in 1 .. N - 1 |-> i])
    IN  IF t.brk \/ fr <= CutOff[N] THEN t.level
        ELSE [t.level EXCEPT ![N] = Append(@, Leaf(ngram[N], fr))]

AppendTails(level) ==
    [lvl \in 0 .. N |-> IF lvl = N THEN Append(level[N], Leaf(TAIL, 1))
                        ELSE Append(level[lvl], Node(TAIL, Len(level[lvl + 1]), 1))]

---------------------------------------------------------------------------
(* Cutting: what is kept moves up, and the parents follow.                 *)

CutLevel(level, lvl, kept) ==
    [level EXCEPT ![lvl] = [i \in 1 .. Cardinality(kept) |-> @[SetToSortSeq(kept, <)[i]]],
                  ![lvl - 1] = [i \in DOMAIN @ |->
                      [@[i] EXCEPT !.child = Cardinality({k \in kept: k <= @})]]]

IsTail(level, lvl, i) == i = Len(level[lvl])
HasChild(level, lvl, i) ==
    lvl < N /\ ~IsTail(level, lvl, i) /\ level[lvl][i + 1].child # level[lvl][i].child

\* CutNodeLevel, CutLeafLevel: what is rare, has no children and is no tail.
Kept(level, lvl) ==
    {i \in DOMAIN level[lvl]: \/ level[lvl][i].freq > CutOff[lvl]
                              \/ IsTail(level, lvl, i)
                              \/ HasChild(level, lvl, i)}

Cut(level) ==
    FoldLeft(LAMBDA l, lvl: IF CutOff[lvl] > 0 THEN CutLevel(l, lvl, Kept(l, lvl)) ELSE l,
             level, [i \in 1 .. N |-> N + 1 - i])

---------------------------------------------------------------------------
(* Probabilities.                                                          *)

Children(level, lvl, i) == level[lvl][i].child + 1 .. level[lvl][i + 1].child

\* binary_find_id, among the items h + 1 .. t: 0 when there is none.
RECURSIVE BinaryFind(_, _, _, _)
BinaryFind(v, h, t, id) ==
    LET m == (h + t) \div 2
    IN  IF h >= t THEN 0
        ELSE IF v[m + 1].id = id THEN m + 1
        ELSE IF v[m + 1].id < id THEN BinaryFind(v, m + 1, t, id)
        ELSE BinaryFind(v, h, m, id)
FindChild(level, lvl, i, id) ==
    BinaryFind(level[lvl + 1], level[lvl][i].child, level[lvl][i + 1].child, id)

\* The items a sequence of words leads to from the root, 0 from where it
\* leaves the tree on.
Reach(level, ws) ==
    LET reach[k \in 0 .. Len(ws)] ==
            IF k = 0 THEN 1 ELSE IF reach[k - 1] = 0 THEN 0
            ELSE FindChild(level, k - 1, reach[k - 1], ws[k])
    IN  reach

\* CSIMSlm::getPrDirect: without the n-gram, the shorter one, weighted if the
\* history is known.
RECURSIVE GetPr(_, _)
GetPr(level, ws) ==
    LET n == Len(ws)
        reach == Reach(level, ws)
        bow == IF reach[n - 1] = 0 THEN One ELSE level[n - 1][reach[n - 1]].bow
    IN  IF reach[n] # 0 THEN level[n][reach[n]].pr
        ELSE Times(bow, GetPr(level, Tail(ws)))

\* CSlmBuilder::getPr: the level is counted on after a word was not found, so
\* that the test for the history is one off.
RECURSIVE BuilderGetPr(_, _)
BuilderGetPr(level, ws) ==
    LET n == Len(ws)
        reach == Reach(level, ws)
        lost == CHOOSE k \in 1 .. n: reach[k] = 0 /\ reach[k - 1] # 0
    IN  IF reach[n] # 0 THEN level[n][reach[n]].pr
        ELSE IF lost = n - 1
        THEN Times(level[lost - 1][reach[lost - 1]].bow, BuilderGetPr(level, Tail(ws)))
        ELSE BuilderGetPr(level, Tail(ws))

\* Discount, by an absolute half; words nobody has seen are all alike.
Half == <<1, 2>>
Discount(level) ==
    LET parent(lvl, i) == CHOOSE p \in DOMAIN level[lvl - 1]:
                              ~IsTail(level, lvl - 1, p) /\ i \in Children(level, lvl - 1, p)
        pr(lvl, i) == Over(Minus(<<level[lvl][i].freq, 1>>, Half),
                           <<level[lvl - 1][parent(lvl, i)].freq, 1>>)
    IN  [lvl \in 0 .. N |->
            [i \in DOMAIN level[lvl] |->
                IF IsTail(level, lvl, i) THEN level[lvl][i]
                ELSE IF lvl = 0 THEN [level[0][i] EXCEPT !.pr = Frac(1, WordCount)]
                ELSE [level[lvl][i] EXCEPT !.pr = pr(lvl, i)]]]

\* The words on the way from the root to an item.
RECURSIVE Words(_, _, _)
Words(level, lvl, i) ==
    LET p == CHOOSE p \in DOMAIN level[lvl - 1]:
                 ~IsTail(level, lvl - 1, p) /\ i \in Children(level, lvl - 1, p)
    IN  IF lvl = 0 THEN <<>> ELSE Append(Words(level, lvl - 1, p), level[lvl][i].id)

\* What the children of an item have, and what they would have without it.
SumNext(level, lvl, i) == SumOver(LAMBDA c: level[lvl + 1][c].pr, Children(level, lvl, i))
ToolGetPr(tool, level, ws) == IF tool = "slmbuild" THEN BuilderGetPr(level, ws) ELSE GetPr(level, ws)
SumShorter(tool, level, lvl, i) ==
    SumOver(LAMBDA c: ToolGetPr(tool, level, Tail(Append(Words(level, lvl, i), level[lvl + 1][c].id))),
            Children(level, lvl, i))

\* CalcNodeBow of slmbuild, which helps itself when a sum reaches one.
BuilderBow(level, lvl, i) ==
    LET sumnext == SumNext(level, lvl, i)
        sum == SumShorter("slmbuild", level, lvl, i)
        one == IF Less(sumnext, One) /\ Less(sum, One) THEN One
               ELSE Plus(IF Less(sum, sumnext) THEN sumnext ELSE sum, <<1, 10000>>)
    IN  IF Children(level, lvl, i) = {} THEN One ELSE Over(Minus(one, sumnext), Minus(one, sum))

\* What CalcNodeBow of slmbuild asserts: the sum is below 1.05.
BuilderSane(level, lvl, i) == Less(SumShorter("slmbuild", level, lvl, i), <<21, 20>>)

\* Mutant: bows stay as they were before pruning.
PrunerBowStale(level, lvl, i) == level[lvl][i].bow

\* CalcNodeBow of slmprune.
PrunerBow(level, lvl, i) ==
    IF Children(level, lvl, i) = {} THEN One
    ELSE Over(Minus(One, SumNext(level, lvl, i)), Minus(One, SumShorter("slmprune", level, lvl, i)))

\* CalcBOW, from the root on: each of slmbuild and slmprune with its own bow.
CalcNodeBow(tool, level, lvl, i) ==
    IF tool = "slmbuild" THEN BuilderBow(level, lvl, i) ELSE PrunerBow(level, lvl, i)

UpdateLevel(tool, level, lvl) ==
    [level EXCEPT ![lvl] = [i \in DOMAIN @ |->
        IF IsTail(level, lvl, i) THEN @[i] ELSE [@[i] EXCEPT !.bow = CalcNodeBow(tool, level, lvl, i)]]]

CalcBOW(tool, level) ==
    FoldLeft(LAMBDA l, lvl: UpdateLevel(tool, l, lvl), level, [k \in 1 .. N |-> k - 1])

---------------------------------------------------------------------------
(* slmprune.                                                               *)

\* PruneLevel: of the items without children, those that change the model
\* least; which those are is left open.
Prunable(level, lvl) ==
    {i \in DOMAIN level[lvl]: ~IsTail(level, lvl, i) /\ ~HasChild(level, lvl, i)}
PruneCount(level, lvl, wanted) ==
    Min({wanted, Max({Len(level[lvl]) - 2, 0}), Cardinality(Prunable(level, lvl))})
=============================================================================
