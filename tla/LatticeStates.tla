--------------------------- MODULE LatticeStates ---------------------------
(***************************************************************************)
(* CLatticeStates (src/src/ime-core/lattice/lattice_states.{h,cpp}): the   *)
(* search states of one lattice frame, grouped by language model state     *)
(* and pruned to a beam.                                                   *)
(*                                                                         *)
(* For each language model state the best m_maxBest search states are      *)
(* kept (CTopLatticeStates).  m_scoreHeap, a binary heap with the worst    *)
(* score on top, says which language model state loses a search state when *)
(* the beam is full; m_heapIdx says where each one stands in that heap.    *)
(*                                                                         *)
(* A search state is known by its score, a number the greater the worse:   *)
(* TLongExpFloat holds negated probabilities, so operator< means "better". *)
(***************************************************************************)
EXTENDS Integers, Sequences, FiniteSets, SequencesExt, FiniteSetsExt

CONSTANTS
  SlmStates,  \* the language model states words may lead to
  Scores,     \* the scores of search states
  BeamWidth,  \* beam_width
  MaxBests    \* the values setMaxBest is given

ASSUME LatticeStatesAssumption ==
  /\ Scores \subseteq Nat \ {0}
  /\ BeamWidth \in Nat \ {0}
  /\ MaxBests \subseteq Nat \ {0} /\ MaxBests # {}

VARIABLES
  stateMap,   \* m_stateMap: the scores kept for each state, worst first; << >> for no entry
  threshold,  \* m_threshold of each entry of stateMap, 0 for no entry
  size,       \* m_size
  maxBest,    \* m_maxBest
  heap,       \* m_scoreHeap and m_heapIdx
  best        \* history variable: the best score each entry of stateMap was given

vars == <<stateMap, threshold, size, maxBest, heap, best>>

\* A node of heap.nodes is [score, slm]; positions count from 1, heap.idx is 0
\* for a state m_heapIdx has no entry for.
Entries == {s \in SlmStates : stateMap[s] # << >>}

-----------------------------------------------------------------------------
(* CTopLatticeStates                                                       *)

\* The scores with one more, behind those that are no better.
Ranked(tops, score) ==
  [i \in 1 .. Len(tops) + 1 |->
     IF i <= Len(tops) /\ tops[i] >= score THEN tops[i]
     ELSE IF i = 1 \/ tops[i - 1] >= score THEN score
     ELSE tops[i - 1]]

\* Mutation of Pushed: the test against the worst state is the wrong way round.
PushedWrongWay(tops, score, limit) ==
  IF Len(tops) < limit THEN Ranked(tops, score)
  ELSE IF tops[1] > score THEN tops
  ELSE Ranked(Tail(tops), score)
(* push: when full, a state worse than the worst is dropped, another one   *)
(* takes the worst's place.                                                *)
Pushed(tops, score, limit) ==
  IF Len(tops) < limit THEN Ranked(tops, score)
  ELSE IF tops[1] < score THEN tops
  ELSE Ranked(Tail(tops), score)

-----------------------------------------------------------------------------
(* The heap.  Only the node that moves has its index refreshed, never the  *)
(* one it changes places with.                                             *)

Refreshed(h, i) == [h EXCEPT !.idx[h.nodes[i].slm] = i]
Swapped(h, i, j) ==
  [h EXCEPT !.nodes = [@ EXCEPT ![i] = h.nodes[j], ![j] = h.nodes[i]]]

\* One turn of the loop of _adjustUp, or its end: p is the heap and the node.
SiftedUp(p) ==
  LET h      == p.heap
      parent == p.node \div 2
  IN IF parent >= 1 /\ h.nodes[parent].score < h.nodes[p.node].score
     THEN [heap |-> Refreshed(Swapped(h, parent, p.node), parent), node |-> parent]
     ELSE [p EXCEPT !.heap = Refreshed(h, p.node)]

AdjustedUp(h, node) ==
  LET after[k \in 0 .. Len(h.nodes)] ==
        IF k = 0 THEN [heap |-> h, node |-> node] ELSE SiftedUp(after[k - 1])
  IN after[Len(h.nodes)].heap

\* _adjustDown goes to the left child if that is worse, whatever the right one is.
SiftedDown(p) ==
  LET h     == p.heap
      n     == Len(h.nodes)
      worse == {c \in {2 * p.node, 2 * p.node + 1} :
                  c <= n /\ h.nodes[p.node].score < h.nodes[c].score}
      child == Min(worse)
  IN IF 2 * p.node > n THEN p
     ELSE IF worse = {} THEN [p EXCEPT !.heap = Refreshed(h, p.node)]
     ELSE [heap |-> Refreshed(Swapped(h, p.node, child), child), node |-> child]

AdjustedDown(h, node) ==
  LET after[k \in 0 .. Len(h.nodes)] ==
        IF k = 0 THEN [heap |-> h, node |-> node] ELSE SiftedDown(after[k - 1])
  IN after[Len(h.nodes)].heap

PushScoreHeap(h, score, slm) ==
  AdjustedUp([h EXCEPT !.nodes = Append(@, [score |-> score, slm |-> slm])], Len(h.nodes) + 1)

\* Mutation of PopScoreHeap: the last node goes instead of the first.
PopScoreHeapLast(h) ==
  [nodes |-> Front(h.nodes), idx |-> [h.idx EXCEPT ![h.nodes[1].slm] = 0]]
PopScoreHeap(h) ==
  LET last   == Last(h.nodes)
      popped == [nodes |-> [Front(h.nodes) EXCEPT ![1] = last],
                 idx   |-> [h.idx EXCEPT ![h.nodes[1].slm] = 0]]
  IN IF Len(h.nodes) = 1 THEN [popped EXCEPT !.nodes = << >>]
     ELSE AdjustedDown(Refreshed(popped, 1), 1)

-----------------------------------------------------------------------------
\* What push returns: whether there is one state more.
Inserted(s, score) == s \notin Entries \/ Len(stateMap[s]) < threshold[s]

(* The first half of add: the state goes to the entry of its language      *)
(* model state, which is made if there is none.  An existing entry's node  *)
(* keeps its score and is only sifted down from where m_heapIdx says.      *)
Grown(s, score) ==
  LET limit == IF s \in Entries THEN threshold[s] ELSE maxBest
  IN [map  |-> [stateMap EXCEPT ![s] = Pushed(@, score, limit)],
      heap |-> IF s \in Entries THEN AdjustedDown(heap, heap.idx[s])
               ELSE PushScoreHeap(heap, score, s),
      best |-> [best EXCEPT ![s] = IF s \in Entries THEN Min({@, score}) ELSE score],
      size |-> IF Inserted(s, score) THEN size + 1 ELSE size]

(* The second half, when the beam is too wide: the entry of the top node   *)
(* loses its worst state, and goes if that was its last.                   *)
Pruned(g) ==
  LET slm  == g.heap.nodes[1].slm
      left == Tail(g.map[slm])
  IN [g EXCEPT !.map[slm] = left, !.size = @ - 1,
               !.heap = IF left = << >> THEN PopScoreHeap(@)
                        ELSE AdjustedDown([@ EXCEPT !.nodes[1].score = left[1]], 1)]

add(s, score) ==
  LET grown == Grown(s, score)
      after == IF grown.size > BeamWidth THEN Pruned(grown) ELSE grown
  IN /\ stateMap' = after.map
     /\ heap' = after.heap
     /\ size' = after.size
     /\ best' = [t \in SlmStates |-> IF after.map[t] = << >> THEN 0 ELSE after.best[t]]
     /\ threshold' = [t \in SlmStates |-> IF after.map[t] = << >> THEN 0
                                          ELSE IF t \in Entries THEN threshold[t] ELSE maxBest]
     /\ UNCHANGED maxBest

clear ==
  /\ stateMap' = [s \in SlmStates |-> << >>]
  /\ heap' = [nodes |-> << >>, idx |-> [s \in SlmStates |-> 0]]
  /\ size' = 0
  /\ threshold' = [s \in SlmStates |-> 0]
  /\ best' = [s \in SlmStates |-> 0]
  /\ UNCHANGED maxBest

setMaxBest(n) ==
  /\ maxBest' = n
  /\ UNCHANGED <<stateMap, threshold, size, heap, best>>

Init ==
  /\ stateMap = [s \in SlmStates |-> << >>]
  /\ heap = [nodes |-> << >>, idx |-> [s \in SlmStates |-> 0]]
  /\ size = 0
  /\ maxBest \in MaxBests
  /\ threshold = [s \in SlmStates |-> 0]
  /\ best = [s \in SlmStates |-> 0]

Next ==
  \/ \E s \in SlmStates, score \in Scores : add(s, score)
  \/ clear
  \/ \E n \in MaxBests : setMaxBest(n)

Spec == Init /\ [][Next]_vars

-----------------------------------------------------------------------------
(* m_scoreHeap has one node for each entry of m_stateMap, and m_heapIdx an *)
(* index for it, though nodes change places without their indices: the     *)
(* entry of the top node, which add() looks up and uses unchecked, exists. *)
(* And m_size, kept by hand over pushes that replace, drop or add a state  *)
(* and over pruning, is the number of states, never beyond the beam.       *)
Kept == UNION {{s} \X DOMAIN stateMap[s] : s \in SlmStates}
HeapCoversMap ==
  /\ size = Cardinality(Kept)
  /\ size <= BeamWidth
  /\ Len(heap.nodes) = Cardinality(Entries)
  /\ {heap.nodes[i].slm : i \in DOMAIN heap.nodes} = Entries
  /\ \A s \in SlmStates : s \in Entries <=> heap.idx[s] # 0

(* As long as a language model state has an entry, the best search state   *)
(* it was given is in it: the best path over words that lead to that state *)
(* is only ever lost with the whole entry.                                 *)
BestOfEachKept == \A s \in Entries : Last(stateMap[s]) = best[s]

\* Language model states are alike.
Symmetry == Permutations(SlmStates)
=============================================================================
