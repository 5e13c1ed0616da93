------------------------------ MODULE SlmTools ------------------------------
(***************************************************************************)
(* From word streams to the model the input method loads: ids2ngram,       *)
(* slmbuild, slmprune and slmthread, one after the other; then tslminfo    *)
(* and tslmpack, through which the model is handed out, or slmseg, which   *)
(* cuts text with it.                                                      *)
(***************************************************************************)
EXTENDS IdNgrams, SlmSeg

Compressor == INSTANCE ValueCompress

CONSTANTS
    Corpora,        \* the word streams there may be: sequences of files
    ParaMax,        \* n-grams that are counted in memory
    MaxCut,         \* what slmprune is asked to cut of a level, at most
    Milestones,     \* bows that are not grouped
    BowLimit,       \* size of the table of bows
    Sentences       \* what slmseg is asked to cut

VARIABLES
    stage,      \* the tool that works, or what it is at
    files,      \* the word streams
    file, at,   \* where ids2ngram reads
    map,        \* what it has counted since it last wrote out
    swap,       \* the paragraphs it has written, then what is left of them
    prev,       \* the n-gram the merge is at
    out,        \* the n-grams, sorted and counted
    added,      \* how many of them slmbuild has read
    level,      \* the model
    lvl,        \* the level slmprune is at
    table,      \* the groups of bows
    thr,        \* the threaded model
    arpa,       \* the model as text
    sntnc, segs \* a sentence and the words slmseg has cut it into

vars == <<stage, files, file, at, map, swap, prev, out, added, level, lvl, table, thr, arpa, sntnc, segs>>
reading == <<file, at, map>>
merging == <<swap, prev>>
used == <<arpa, sntnc, segs>>
modelled == <<added, level, lvl, table, thr, used>>

None == [ids |-> [i \in 1 .. N |-> 0], freq |-> 0]

Init ==
    /\ stage = "count"
    /\ files \in Corpora
    /\ file = 1 /\ at = 1
    /\ map = <<>> /\ swap = <<>>
    /\ prev = None
    /\ out = <<>>
    /\ added = 0 /\ level = Create /\ lvl = N
    /\ table = <<>> /\ thr = <<>> /\ arpa = <<>>
    /\ sntnc = <<>> /\ segs = <<>>

---------------------------------------------------------------------------
(* ids2ngram.                                                              *)

\* ProcessingRead: one more n-gram of the file.
ProcessingRead ==
    /\ stage = "count"
    /\ file <= Len(files) /\ at + N - 1 <= Len(files[file])
    /\ LET counted == Counted(map, SubSeq(files[file], at, at + N - 1))
           full == Cardinality(DOMAIN counted) >= ParaMax
       IN  /\ map' = IF full THEN <<>> ELSE counted
           /\ swap' = IF full THEN Append(swap, WriteOut(counted)) ELSE swap
    /\ at' = at + 1
    /\ UNCHANGED <<stage, files, file, prev, out, modelled>>

\* The file is at its end: what is left is written out.
EndOfFile ==
    /\ stage = "count"
    /\ file <= Len(files) /\ at + N - 1 > Len(files[file])
    /\ swap' = IF map = <<>> THEN swap ELSE Append(swap, WriteOut(map))
    /\ map' = <<>>
    /\ file' = file + 1 /\ at' = 1
    /\ UNCHANGED <<stage, files, prev, out, modelled>>

Merging ==
    /\ stage = "count" /\ file > Len(files)
    /\ stage' = "merge"
    /\ UNCHANGED <<files, reading, merging, out, modelled>>

\* DoIdngramMerge: the next item of one of the paragraphs.
MergeNext ==
    /\ stage = "merge"
    /\ \E p \in Best(swap):
        LET item == swap[p][1]
            same == prev.ids = item.ids
        IN  /\ prev' = IF same THEN Joined(prev, item) ELSE item
            /\ out' = IF same THEN out ELSE Flushed(out, prev)
            /\ swap' = [swap EXCEPT ![p] = Tail(@)]
    /\ UNCHANGED <<stage, files, reading, modelled>>

\* All of them have run out.
MergeEnd ==
    /\ stage = "merge" /\ Best(swap) = {}
    /\ out' = Flushed(out, prev)
    /\ stage' = "add"
    /\ prev' = None
    /\ UNCHANGED <<files, reading, swap, modelled>>

---------------------------------------------------------------------------
(* slmbuild.                                                               *)

Add ==
    /\ stage = "add" /\ added < Len(out)
    /\ added' = added + 1
    /\ level' = AddNGram(level, out[added'].ids, out[added'].freq)
    /\ UNCHANGED <<stage, files, reading, merging, out, lvl, table, thr, used>>

\* Build, up to the probabilities.
Shape ==
    /\ stage = "add" /\ added = Len(out)
    /\ level' = Cut(AppendTails(level))
    /\ stage' = "shaped"
    /\ UNCHANGED <<files, reading, merging, out, added, lvl, table, thr, used>>

\* The rest of Build; it aborts where a sum of probabilities is out of range.
Weigh ==
    /\ stage = "shaped"
    /\ level' = CalcBOW("slmbuild", Discount(level))
    /\ stage' = IF \A l \in 0 .. N - 1: \A i \in 1 .. Len(level'[l]) - 1:
                      BuilderSane(level', l, i)
                THEN "prune" ELSE "aborted"
    /\ UNCHANGED <<files, reading, merging, out, added, lvl, table, thr, used>>

---------------------------------------------------------------------------
(* slmprune and slmthread.                                                 *)

\* PruneLevel, from the highest level to the lowest.
PruneLevel ==
    /\ stage = "prune" /\ lvl > 0
    /\ \E wanted \in 0 .. MaxCut:
        \E gone \in kSubset(PruneCount(level, lvl, wanted), Prunable(level, lvl)):
            level' = CutLevel(level, lvl, DOMAIN level[lvl] \ gone)
    /\ lvl' = lvl - 1
    /\ UNCHANGED <<stage, files, reading, merging, out, added, table, thr, used>>

\* CSlmPruner::CalcBOW, and the model is written.
Pruned ==
    /\ stage = "prune" /\ lvl = 0
    /\ level' = CalcBOW("slmprune", level)
    /\ stage' = "pruned"
    /\ UNCHANGED <<files, reading, merging, out, added, lvl, table, thr, used>>

\* How often each bow occurs, the milestones among them; a level may end with
\* tails, which have none.
BowNodes(slm, tails) == UNION {{<<l, i>>: i \in 1 .. Len(slm[l]) - tails}: l \in 0 .. N - 1}
BowValues(slm, nodes) ==
    LET bow(n) == slm[n[1]][n[2]].bow
        sorted == SetToSortSeq({bow(n): n \in nodes} \cup Milestones, Compressor!Before)
    IN  [i \in DOMAIN sorted |->
            [val |-> sorted[i],
             count |-> IF sorted[i] \in Milestones THEN 0
                       ELSE Cardinality({n \in nodes: bow(n) = sorted[i]})]]
BowIndex(values, bow) == CHOOSE i \in DOMAIN values: values[i].val = bow

\* slmthread: CValueCompressor::operator() first puts the bows on its heap, ...
Compressing ==
    /\ stage = "pruned"
    /\ LET values == BowValues(level, BowNodes(level, 1))
       IN  table' = [values |-> values, groups |-> Compressor!Heaped(values)]
    /\ stage' = "compress"
    /\ UNCHANGED <<files, reading, merging, out, added, level, lvl, thr, used>>

\* ... then joins groups until the table has room for them.
Join ==
    /\ stage = "compress" /\ Len(table.groups) > BowLimit
    /\ table' = [table EXCEPT !.groups = Compressor!JoinTop(@)]
    /\ UNCHANGED <<stage, files, reading, merging, out, added, level, lvl, thr, used>>

\* The value that stands for a bow in the table.
TableValue(tab, bow) ==
    tab.groups[Compressor!GroupOf(tab.groups, BowIndex(tab.values, bow))].val
TableValues(tab) == [bow \in {v.val: v \in ToSet(tab.values)} |-> TableValue(tab, bow)]

Thread ==
    /\ stage = "compress" /\ Len(table.groups) <= BowLimit
    /\ table' = [table EXCEPT !.groups = Compressor!ByValue(@)]
    /\ thr' = Threaded(level, TableValues(table'))
    /\ stage' = "done"
    /\ UNCHANGED <<files, reading, merging, out, added, level, lvl, used>>

---------------------------------------------------------------------------
(* tslminfo and tslmpack; slmseg.                                          *)

PrintText ==
    /\ stage = "done"
    /\ arpa' = PrintARPA(thr)
    /\ stage' = "printed"
    /\ UNCHANGED <<files, reading, merging, out, added, level, lvl, table, thr, sntnc, segs>>

\* Until the table has room for the groups.
RECURSIVE Squeezed(_)
Squeezed(groups) == IF Len(groups) > BowLimit THEN Squeezed(Compressor!JoinTop(groups)) ELSE groups

\* build_map, group_values: the bows of the text get a table of their own.
BuildMap(slm) == BowValues(slm, BowNodes(slm, 0))
GroupValues(values) == [values |-> values, groups |-> Squeezed(Compressor!Heaped(values))]

Pack ==
    /\ stage = "printed"
    /\ LET slm == Threading(Load(arpa))
           tab == GroupValues(BuildMap(slm))
       IN  thr' = Compress(slm, TableValues(tab))
    /\ stage' = "packed"
    /\ UNCHANGED <<files, reading, merging, out, added, level, lvl, table, used>>

\* slmseg: processSingleFile, one sentence of it.
Segment ==
    /\ stage = "done"
    /\ sntnc' \in Sentences
    /\ segs' = Slmseg(thr, sntnc')
    /\ stage' = "segmented"
    /\ UNCHANGED <<files, reading, merging, out, added, level, lvl, table, thr, arpa>>

Next ==
    \/ ProcessingRead \/ EndOfFile \/ Merging \/ MergeNext \/ MergeEnd
    \/ Add \/ Shape \/ Weigh
    \/ PruneLevel \/ Pruned \/ Compressing \/ Join \/ Thread
    \/ PrintText \/ Pack \/ Segment

Spec == Init /\ [][Next]_vars

---------------------------------------------------------------------------
(* What the tools must get right.                                          *)

\* The n-grams come out once each, in order, with how often they occur, however
\* they were spread over paragraphs and files.
Grams == UNION {{SubSeq(files[f], i, i + N - 1): i \in 1 .. Len(files[f]) - N + 1}:
                f \in DOMAIN files}
CountsOccurrences ==
    stage = "add" =>
        out = [i \in 1 .. Cardinality(Grams) |->
                  LET g == SetToSortSeq(Grams, Precedes)[i]
                  IN  [ids |-> g, freq |-> Occurrences(files, g)]]

\* The tree of slmbuild holds the beginnings of n-grams that no excluded word
\* and no end of a sentence breaks, each where its history is, in order, as
\* often as it occurs; after cutting, those that occur often enough and those
\* something longer needs.
Unbroken(g, k) == /\ \A i \in 1 .. k: g[i] \notin Excluded
                  /\ \A i \in 2 .. k - 1: g[i] \notin Breakers
Freq(p) ==
    LET k == Len(p)
        begun == {g \in Grams: SubSeq(g, 1, k) = p /\ Unbroken(g, k)}
    IN  SumSet({0}) + MapThenSumSet(LAMBDA g: Occurrences(files, g), begun)
RECURSIVE HeldAt(_)
HeldAt(k) ==
    LET begun == {SubSeq(g, 1, k): g \in {h \in Grams: Unbroken(h, k)}}
    IN  {p \in begun: \/ Freq(p) > CutOff[k]
                      \/ k < N /\ \E q \in HeldAt(k + 1): SubSeq(q, 1, k) = p}
TreeHoldsNgrams ==
    stage = "shaped" =>
        \A k \in 1 .. N:
            [i \in 1 .. Len(level[k]) - 1 |-> <<Words(level, k, i), level[k][i].freq>>]
            = LET held == SetToSortSeq(HeldAt(k), Precedes)
              IN  [i \in DOMAIN held |-> <<held[i], Freq(held[i])>>]

\* A pruned model is a distribution: after any history, the probabilities of
\* all words add up to one.
Histories == UNION {[1 .. k -> 1 .. WordCount]: k \in 0 .. N - 1}
Normalised ==
    stage = "pruned" =>
        \A h \in Histories: SumOver(LAMBDA w: GetPr(level, Append(h, w)), 1 .. WordCount) = One

\* Walking the threaded model from state to state gives a word the probability
\* the model has for it after the words before, all of them, with the bows of
\* the table; and so does walking the model that was printed and packed again.
Quantised ==
    [l \in 0 .. N |-> [i \in DOMAIN level[l] |->
        IF l = N \/ IsTail(level, l, i) THEN level[l][i]
        ELSE [level[l][i] EXCEPT !.bow = TableValue(table, @)]]]
RECURSIVE StateAfter(_)
StateAfter(ws) == IF ws = <<>> THEN Root
                  ELSE Historify(thr, RawTransfer(thr, StateAfter(Front(ws)), Last(ws)).state)
ThreadedAgrees ==
    stage \in {"done", "packed"} =>
        LET quantised == Quantised
        IN  \A h \in UNION {[1 .. k -> 1 .. WordCount]: k \in 0 .. N}: \A w \in 1 .. WordCount:
                RawTransfer(thr, StateAfter(h), w).cost
                = GetPr(quantised, Append(SubSeq(h, Max({1, Len(h) - N + 2}), Len(h)), w))

\* slmseg cuts where mmseg does, and besides only where mmseg leaves a piece in
\* one; of all the ways to cut those pieces into words it finds one that no
\* other beats, and what it writes is, but for them, what mmseg writes.
RECURSIVE WaysFrom(_)
WaysFrom(from) ==
    IF from = Len(sntnc) THEN {<<>>}
    ELSE UNION {{<<w>> \o way: way \in WaysFrom(w.right)}:
                w \in {w \in ToSet(BuildLattice(sntnc)): w.left = from}}
Ids(way) == [i \in DOMAIN way |-> way[i].id]
Likelihood(way) ==
    FoldLeft(LAMBDA s, wid: LET step == RawTransfer(thr, s.state, wid)
                            IN  [pr |-> Append(s.pr, step.cost), state |-> Historify(thr, step.state)],
             [pr |-> <<>>, state |-> Root], Append(Ids(way), Stok)).pr
Inside(way, piece) == SelectSeq(way, LAMBDA w: piece.left <= w.left /\ w.right <= piece.right)
BestSegmentation ==
    stage = "segmented" =>
        /\ segs \in WaysFrom(0)
        /\ \A way \in WaysFrom(0): ~ProductLess(Likelihood(segs), Likelihood(way))
        /\ LET uncut(piece) == IF piece.id = Ambi THEN Ids(Inside(segs, piece))
                               ELSE <<piece.id>>
               pieces == Mmseg(sntnc)
           IN  Output(Ids(segs)) = Output(FlattenSeq([i \in DOMAIN pieces |-> uncut(pieces[i])]))

\* The table has no more entries than asked for, in order; every value has one,
\* made of values next to each other; milestones are exact.
TableFaithful ==
    stage = "done" =>
        LET groups == table.groups
            values == table.values
        IN  /\ Len(groups) <= Max({BowLimit, 1})
            /\ \A v \in DOMAIN values:
                Cardinality({g \in DOMAIN groups: v \in groups[g].first .. groups[g].last}) = 1
            /\ \A g \in 1 .. Len(groups) - 1: Compressor!Before(groups[g].val, groups[g + 1].val)
            /\ \A v \in DOMAIN values: values[v].count = 0 =>
                groups[Compressor!GroupOf(groups, v)].val = values[v].val
=============================================================================
