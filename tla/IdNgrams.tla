------------------------------ MODULE IdNgrams ------------------------------
(***************************************************************************)
(* What ids2ngram and idngram_merge do with n-grams and how often each of  *)
(* them occurs: counted in memory, written out in sorted paragraphs when   *)
(* there are too many, and the paragraphs merged into one sorted file.     *)
(***************************************************************************)
EXTENDS Integers, Sequences, SequencesExt, FiniteSetsExt, Functions

\* CSIM_Idngram::operator <.
Precedes(a, b) ==
    \E i \in DOMAIN a: a[i] < b[i] /\ \A j \in 1 .. i - 1: a[j] = b[j]

\* ++map[ngram].
Counted(map, ngram) ==
    [g \in DOMAIN map \cup {ngram} |->
        (IF g \in DOMAIN map THEN map[g] ELSE 0) + (IF g = ngram THEN 1 ELSE 0)]

\* WriteOut: the map in the order of its keys.
WriteOut(map) ==
    LET keys == SetToSortSeq(DOMAIN map, Precedes)
    IN  [i \in DOMAIN keys |-> [ids |-> keys[i], freq |-> map[keys[i]]]]

\* Mutant: n-grams that begin alike are taken in any order.
BestBegun(paras) ==
    {p \in DOMAIN paras:
        /\ paras[p] # <<>>
        /\ \A q \in DOMAIN paras: paras[q] # <<>> => ~(paras[q][1].ids[1] < paras[p][1].ids[1])}

\* CMultiWayFileMerger::getBest: the paragraphs that may come up, one of those
\* that go on with the least n-gram; among equals the addresses of the buffers
\* decide.
Best(paras) ==
    {p \in DOMAIN paras:
        /\ paras[p] # <<>>
        /\ \A q \in DOMAIN paras: paras[q] # <<>> => ~Precedes(paras[q][1].ids, paras[p][1].ids)}

\* DoIdngramMerge, for one item.  prev.freq = 0 while there is none.
Flushed(out, prev) == IF prev.freq = 0 THEN out ELSE Append(out, prev)

Joined(prev, item) == [prev EXCEPT !.freq = @ + item.freq]

\* The reference: how often an n-gram occurs in the files.
Occurrences(files, ngram) ==
    Cardinality({<<f, i>> \in UNION {{f} \X DOMAIN files[f]: f \in DOMAIN files}:
        /\ i + Len(ngram) - 1 <= Len(files[f])
        /\ SubSeq(files[f], i, i + Len(ngram) - 1) = ngram})
=============================================================================
