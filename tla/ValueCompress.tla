--------------------------- MODULE ValueCompress ---------------------------
(***************************************************************************)
(* CValueCompressor: fewer values for a table of a given size.  The values *)
(* are grouped with those next to them, the closest first, out of a heap;  *)
(* a milestone, which counts for none, stays as it is.  A group covers the *)
(* values first .. last and knows how far it is to the next one.           *)
(***************************************************************************)
EXTENDS Fractions, SequencesExt, FiniteSetsExt

Far == <<1, 0>>     \* DBL_MAX: farther than any distance, with any added

Before(a, b) == a[1] * b[2] < b[1] * a[2]

Swapped(heap, i, j) == [heap EXCEPT ![i] = heap[j], ![j] = heap[i]]

\* By distance: the nearest on top.
RECURSIVE BubbleUp(_, _)
BubbleUp(heap, i) ==
    IF i = 1 \/ ~Before(heap[i].dist, heap[i \div 2].dist) THEN heap
    ELSE BubbleUp(Swapped(heap, i, i \div 2), i \div 2)

RECURSIVE IronDown(_, _)
IronDown(heap, i) ==
    LET below == {j \in {2 * i, 2 * i + 1}: j <= Len(heap) /\ Before(heap[j].dist, heap[i].dist)}
        best == CHOOSE j \in below: \A k \in below:
                    k # j => IF k < j THEN Before(heap[j].dist, heap[k].dist)
                             ELSE ~Before(heap[k].dist, heap[j].dist)
    IN  IF below = {} THEN heap ELSE IronDown(Swapped(heap, i, best), best)

\* By value: the greatest on top.
RECURSIVE BubbleUpVal(_, _)
BubbleUpVal(heap, i) ==
    IF i = 1 \/ Before(heap[i].val, heap[i \div 2].val) THEN heap
    ELSE BubbleUpVal(Swapped(heap, i, i \div 2), i \div 2)

RECURSIVE IronDownVal(_, _, _)
IronDownVal(heap, i, bottom) ==
    LET above == {j \in {2 * i, 2 * i + 1}: j <= bottom /\ Before(heap[i].val, heap[j].val)}
        best == CHOOSE j \in above: \A k \in above: ~Before(heap[j].val, heap[k].val)
    IN  IF above = {} THEN heap ELSE IronDownVal(Swapped(heap, i, best), best, bottom)

---------------------------------------------------------------------------
\* Values come in order, with how often each occurs; a milestone occurs 0 times.

\* Mutant: a value is not kept off the milestone after it.
DistanceToMilestone(values, i) ==
    IF i = Len(values) \/ values[i].count = 0 THEN Far
    ELSE Minus(values[i + 1].val, values[i].val)

Distance(values, i) ==
    IF i = Len(values) \/ values[i].count = 0 \/ values[i + 1].count = 0 THEN Far
    ELSE Minus(values[i + 1].val, values[i].val)

Group(values, i) ==
    [first |-> i, last |-> i, count |-> values[i].count, val |-> values[i].val,
     sum |-> IF values[i].count > 0 THEN Times(values[i].val, <<values[i].count, 1>>)
             ELSE values[i].val,
     dist |-> Distance(values, i)]

Heaped(values) ==
    FoldLeft(LAMBDA heap, i: BubbleUp(Append(heap, Group(values, i)), i),
             <<>>, [i \in DOMAIN values |-> i])

\* arr[h].m_heapIdx: the group a value is in, 0 when there is no such value.
GroupOf(heap, h) ==
    IF \E g \in DOMAIN heap: h \in heap[g].first .. heap[g].last
    THEN CHOOSE g \in DOMAIN heap: h \in heap[g].first .. heap[g].last ELSE 0

\* One turn of the loop: the group on top joins the one after it.
JoinTop(heap) ==
    LET top == heap[1]
        prev == GroupOf(heap, top.first - 1)
        next == GroupOf(heap, top.last + 1)
        newval == Over(Plus(top.sum, heap[next].sum), <<top.count + heap[next].count, 1>>)
        joined == [first |-> top.first, last |-> heap[next].last,
                   count |-> top.count + heap[next].count, val |-> newval,
                   sum |-> Plus(top.sum, heap[next].sum),
                   dist |-> Plus(heap[next].dist, Minus(heap[next].val, newval))]
        moved == [i \in DOMAIN heap |->
                     IF i = next THEN joined
                     ELSE IF i = prev
                     THEN [heap[i] EXCEPT !.dist = Plus(@, Minus(newval, top.val))]
                     ELSE heap[i]]
        ironed == IronDown(moved, Max({prev, next}))
        settled == IF prev = 0 THEN ironed
                   ELSE IronDown(ironed, Min({prev, next}))
        rest == SubSeq([settled EXCEPT ![1] = Last(settled)], 1, Len(heap) - 1)
    IN  IronDown(rest, 1)

\* The groups by value: a heap of the greatest, taken apart from its end.
ByValue(heap) ==
    LET up == FoldLeft(LAMBDA h, i: BubbleUpVal(h, i), heap, [i \in DOMAIN heap |-> i])
    IN  FoldLeft(LAMBDA h, i: IronDownVal(Swapped(h, 1, i), 1, i - 1), up,
                 [k \in 1 .. Len(heap) - 1 |-> Len(heap) + 1 - k])
=============================================================================
