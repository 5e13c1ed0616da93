------------------------ MODULE LatticeStatesProofs ------------------------
(***************************************************************************)
(* Proofs about LatticeStates: map, heap and size of a lattice frame agree *)
(* and the best of each language model state is kept, for any number of    *)
(* states, any beam and any limits.                                        *)
(*                                                                         *)
(* Nothing is said of the order in the heap: nodes keep old scores and the *)
(* sifting looks at one child only, and the invariant does not need more.  *)
(***************************************************************************)
EXTENDS LatticeStates, FunctionTheorems, FiniteSetTheorems, WellFoundedInduction, TLAPS

-----------------------------------------------------------------------------
(* The heap.                                                               *)

Node == [score : Nat, slm : SlmStates]
Heap == [nodes : Seq(Node), idx : [SlmStates -> Nat]]

Distinct(h) == \A i, j \in DOMAIN h.nodes : h.nodes[i].slm = h.nodes[j].slm => i = j
Slms(h) == {h.nodes[i].slm : i \in DOMAIN h.nodes}
Known(h) == {s \in SlmStates : h.idx[s] # 0}

\* Each language model state has one node at most.
HeapOK(h) == h \in Heap /\ Distinct(h)

\* The heap has the nodes of another one, in some order.
SameNodes(h, g) == HeapOK(g) /\ Len(g.nodes) = Len(h.nodes) /\ Slms(g) = Slms(h)

\* What _refreshHeapIdx does.
LEMMA RefreshedHeap ==
  ASSUME NEW h, HeapOK(h), NEW i \in DOMAIN h.nodes
  PROVE  /\ SameNodes(h, Refreshed(h, i))
         /\ Refreshed(h, i).nodes = h.nodes
         /\ Known(Refreshed(h, i)) = Known(h) \cup {h.nodes[i].slm}
<1> DEFINE g == Refreshed(h, i)
<1>1. h.nodes \in Seq(Node) /\ h.idx \in [SlmStates -> Nat] /\ i \in Nat \ {0}
  BY DEF HeapOK, Heap
<1>2. h.nodes[i] \in Node /\ h.nodes[i].slm \in SlmStates
  <2>1. h.nodes[i] \in Node
    BY <1>1
  <2>. QED
    BY <2>1 DEF Node
<1>3. /\ g \in Heap /\ g.nodes = h.nodes
      /\ g.idx = [h.idx EXCEPT ![h.nodes[i].slm] = i]
  BY <1>1, <1>2 DEF HeapOK, Heap, Refreshed
<1>4. Known(g) = Known(h) \cup {h.nodes[i].slm}
  BY <1>1, <1>2, <1>3 DEF Known
<1>5. SameNodes(h, g)
  BY <1>3 DEF SameNodes, HeapOK, Distinct, Slms
<1>. QED
  BY <1>3, <1>4, <1>5

\* Two nodes change places, their indices stay.
LEMMA SwappedHeap ==
  ASSUME NEW h, HeapOK(h), NEW i \in DOMAIN h.nodes, NEW j \in DOMAIN h.nodes
  PROVE  /\ SameNodes(h, Swapped(h, i, j))
         /\ Swapped(h, i, j).nodes[i] = h.nodes[j]
         /\ Known(Swapped(h, i, j)) = Known(h)
<1> DEFINE g == Swapped(h, i, j)
           at(k) == IF k = i THEN j ELSE IF k = j THEN i ELSE k
<1>1. /\ h.nodes \in Seq(Node) /\ h.idx \in [SlmStates -> Nat]
      /\ DOMAIN h.nodes = 1 .. Len(h.nodes)
  BY DEF HeapOK, Heap
<1>2. g = [h EXCEPT !.nodes = [h.nodes EXCEPT ![i] = h.nodes[j], ![j] = h.nodes[i]]]
  BY DEF Swapped
<1>3. /\ g.idx = h.idx /\ g.nodes = [h.nodes EXCEPT ![i] = h.nodes[j], ![j] = h.nodes[i]]
      /\ h \in [nodes : Seq(Node), idx : [SlmStates -> Nat]]
  BY <1>2 DEF HeapOK, Heap
<1>4. \A k \in DOMAIN h.nodes : h.nodes[k] \in Node
  BY <1>1
<1>5. /\ g.nodes \in Seq(Node) /\ Len(g.nodes) = Len(h.nodes)
      /\ DOMAIN g.nodes = DOMAIN h.nodes
  BY <1>1, <1>3, <1>4
<1>6. \A k \in DOMAIN h.nodes : g.nodes[k] = h.nodes[at(k)] /\ at(k) \in DOMAIN h.nodes
  BY <1>1, <1>3
<1>7. g \in Heap
  BY <1>2, <1>3, <1>5 DEF Heap
<1>8. \A k \in DOMAIN h.nodes : at(at(k)) = k
  OBVIOUS
<1> HIDE DEF g, at
<1>9. Distinct(g)
  BY <1>5, <1>6, <1>8 DEF Distinct, HeapOK
<1>10. Slms(g) = Slms(h)
  BY <1>5, <1>6, <1>8 DEF Slms
<1>11. Known(g) = Known(h)
  BY <1>3 DEF Known
<1>12. g.nodes[i] = h.nodes[j]
  BY <1>6 DEF at
<1>. QED
  BY <1>5, <1>7, <1>9, <1>10, <1>11, <1>12 DEF SameNodes, HeapOK, g

\* What a turn of a sifting loop makes of heap and node.
Sifted(p, q) ==
  /\ q \in [heap : Heap, node : Nat \ {0}]
  /\ SameNodes(p.heap, q.heap)
  /\ Known(q.heap) = Slms(p.heap)

\* A node that moves leaves every node known, if it was the only one that was not.
LEMMA MovedNode ==
  ASSUME NEW h, HeapOK(h), NEW i \in DOMAIN h.nodes, NEW j \in DOMAIN h.nodes,
         Known(h) \cup {h.nodes[j].slm} = Slms(h)
  PROVE  LET g == Refreshed(Swapped(h, i, j), i)
         IN SameNodes(h, g) /\ Known(g) = Slms(h)
<1> DEFINE m == Swapped(h, i, j)
<1>1. SameNodes(h, m) /\ m.nodes[i] = h.nodes[j] /\ Known(m) = Known(h)
  BY SwappedHeap
<1>2. HeapOK(m) /\ i \in DOMAIN m.nodes
  BY <1>1 DEF SameNodes, HeapOK, Heap
<1> HIDE DEF m
<1>3. SameNodes(m, Refreshed(m, i)) /\ Known(Refreshed(m, i)) = Known(m) \cup {m.nodes[i].slm}
  BY <1>2, RefreshedHeap
<1>. QED
  BY <1>1, <1>3 DEF SameNodes, m

\* A turn of _adjustUp, whose node may not have an index yet.
LEMMA SiftedUpOnce ==
  ASSUME NEW p \in [heap : Heap, node : Nat \ {0}], HeapOK(p.heap),
         p.node \in DOMAIN p.heap.nodes,
         Known(p.heap) \cup {p.heap.nodes[p.node].slm} = Slms(p.heap)
  PROVE  Sifted(p, SiftedUp(p)) /\ SiftedUp(p).node \in DOMAIN p.heap.nodes
<1> DEFINE h == p.heap
           node == p.node
           parent == p.node \div 2
<1>1. h \in Heap /\ HeapOK(h) /\ node \in DOMAIN h.nodes /\ DOMAIN h.nodes = 1 .. Len(h.nodes)
  BY DEF Heap
<1>2. parent \in Nat /\ parent <= node
  OBVIOUS
<1>3. CASE parent >= 1 /\ h.nodes[parent].score < h.nodes[node].score
  <2> DEFINE g == Refreshed(Swapped(h, parent, node), parent)
  <2>1. SiftedUp(p) = [heap |-> g, node |-> parent]
    BY <1>3 DEF SiftedUp
  <2>2. parent \in DOMAIN h.nodes
    BY <1>1, <1>2, <1>3
  <2>3. SameNodes(h, g) /\ Known(g) = Slms(h)
    BY <1>1, <2>2, MovedNode
  <2> HIDE DEF g, h, parent
  <2>4. g \in Heap /\ parent \in Nat \ {0}
    BY <1>2, <1>3, <2>3 DEF SameNodes, HeapOK
  <2>. QED
    BY <2>1, <2>2, <2>3, <2>4 DEF Sifted, h
<1>4. CASE ~(parent >= 1 /\ h.nodes[parent].score < h.nodes[node].score)
  <2> DEFINE g == Refreshed(h, node)
  <2>1. SiftedUp(p) = [p EXCEPT !.heap = g]
    BY <1>4 DEF SiftedUp
  <2>2. SameNodes(h, g) /\ Known(g) = Slms(h)
    BY <1>1, RefreshedHeap
  <2> HIDE DEF g
  <2>3. g \in Heap
    BY <2>2 DEF SameNodes, HeapOK
  <2>4. SiftedUp(p) \in [heap : Heap, node : Nat \ {0}] /\ SiftedUp(p).heap = g /\ SiftedUp(p).node = node
    BY <2>1, <2>3
  <2>. QED
    BY <2>2, <2>4 DEF Sifted
<1>. QED
  BY <1>3, <1>4

-----------------------------------------------------------------------------
(* Loops: the recursive functions that stand for them.                     *)

\* Induction, for a set of numbers.
LEMMA NumbersFromZero ==
  ASSUME NEW S \in SUBSET Nat, 0 \in S, \A n \in S : n + 1 \in S
  PROVE  Nat \subseteq S
<1> SUFFICES ASSUME Nat \ S # {} PROVE FALSE
  OBVIOUS
<1>1. Nat \ S \subseteq Nat
  OBVIOUS
<1>2. PICK x \in Nat \ S : \A y \in Nat \ S : ~ (<<y, x>> \in OpToRel(<, Nat))
  BY <1>1, NatLessThanWellFounded, WFMin
<1>3. x - 1 \in Nat
  OBVIOUS
<1>4. x - 1 \notin S
  BY (x - 1) + 1 = x
<1>5. ~ (<<x - 1, x>> \in OpToRel(<, Nat))
  BY <1>2, <1>3, <1>4
<1>. QED
  BY <1>3, <1>5 DEF OpToRel

\* n turns of F, from x on.
IsCourse(f, x, F, n) == f[0] = x /\ \A k \in 1 .. n : f[k] = F[f[k - 1]]

\* Some function is the course of n turns.
LEMMA Course ==
  ASSUME NEW P, NEW x \in P, NEW F \in [P -> P], NEW n \in Nat
  PROVE  \E f \in [0 .. n -> P] : IsCourse(f, x, F, n)
<1> USE DEF IsCourse
<1> DEFINE S == {m \in Nat : \E f \in [0 .. m -> P] : IsCourse(f, x, F, m)}
<1>1. 0 \in S
  <2>1. [k \in 0 .. 0 |-> x] \in [0 .. 0 -> P] /\ IsCourse([k \in 0 .. 0 |-> x], x, F, 0)
    OBVIOUS
  <2>. QED
    BY <2>1
<1>2. ASSUME NEW m \in S
      PROVE  m + 1 \in S
  <2>1. PICK f \in [0 .. m -> P] : IsCourse(f, x, F, m)
    OBVIOUS
  <2> DEFINE g == [k \in 0 .. m + 1 |-> IF k = m + 1 THEN F[f[m]] ELSE f[k]]
  <2>2. m \in Nat /\ f[m] \in P
    OBVIOUS
  <2>3. g \in [0 .. m + 1 -> P]
    BY <2>2
  <2>4. g[0] = x
    BY <2>1, <2>2
  <2>5. ASSUME NEW k \in 1 .. m + 1
        PROVE  g[k] = F[g[k - 1]]
    <3>1. CASE k = m + 1
      BY <3>1, <2>2
    <3>2. CASE k \in 1 .. m
      <4>1. g[k] = f[k] /\ g[k - 1] = f[k - 1]
        BY <3>2, <2>2
      <4>. QED
        BY <4>1, <3>2, <2>1
    <3>. QED
      BY <3>1, <3>2, <2>2
  <2> HIDE DEF g
  <2>. QED
    BY <2>2, <2>3, <2>4, <2>5
<1>3. S \in SUBSET Nat
  OBVIOUS
<1> HIDE DEF S
<1>4. n \in S
  BY <1>1, <1>2, <1>3, NumbersFromZero
<1>. QED
  BY <1>4 DEF S

\* What every turn keeps holds after n of them.
LEMMA Stays ==
  ASSUME NEW P, NEW f, f[0] \in P, NEW n \in Nat,
         \A k \in 1 .. n : f[k - 1] \in P => f[k] \in P
  PROVE  \A k \in 0 .. n : f[k] \in P
<1> DEFINE S == {m \in Nat : m <= n => f[m] \in P}
<1>1. 0 \in S
  OBVIOUS
<1>2. ASSUME NEW m \in S
      PROVE  m + 1 \in S
  <2>1. CASE m + 1 <= n
    <3>1. m + 1 \in 1 .. n /\ (m + 1) - 1 = m /\ f[m] \in P
      BY <2>1
    <3>. QED
      BY <3>1
  <2>. QED
    BY <2>1
<1>3. S \in SUBSET Nat
  OBVIOUS
<1> HIDE DEF S
<1>4. Nat \subseteq S
  BY <1>1, <1>2, <1>3, NumbersFromZero
<1>. QED
  BY <1>4 DEF S

-----------------------------------------------------------------------------
(* _adjustUp and _adjustDown: the same nodes, all known.                   *)

\* Where a loop that sifts a node up may be.
Rising(h) == {p \in [heap : Heap, node : Nat \ {0}] :
                /\ SameNodes(h, p.heap)
                /\ p.node \in DOMAIN p.heap.nodes
                /\ Known(p.heap) \cup {p.heap.nodes[p.node].slm} = Slms(h)}

\* A turn of the loop of _adjustUp keeps what its loop needs, and leaves every node known.
LEMMA RisesOnce ==
  ASSUME NEW h, NEW p \in Rising(h)
  PROVE  SiftedUp(p) \in Rising(h) /\ Known(SiftedUp(p).heap) = Slms(h)
<1>1. /\ p \in [heap : Heap, node : Nat \ {0}] /\ HeapOK(p.heap) /\ SameNodes(h, p.heap)
      /\ p.node \in DOMAIN p.heap.nodes
      /\ Known(p.heap) \cup {p.heap.nodes[p.node].slm} = Slms(p.heap)
      /\ Slms(p.heap) = Slms(h) /\ Len(p.heap.nodes) = Len(h.nodes)
  BY DEF Rising, SameNodes
<1> DEFINE q == SiftedUp(p)
<1>2. Sifted(p, q) /\ q.node \in DOMAIN p.heap.nodes
  BY <1>1, SiftedUpOnce
<1> HIDE DEF q
<1>3. /\ q \in [heap : Heap, node : Nat \ {0}] /\ SameNodes(p.heap, q.heap)
      /\ Known(q.heap) = Slms(h)
  BY <1>1, <1>2 DEF Sifted
<1>4. SameNodes(h, q.heap)
  BY <1>1, <1>3 DEF SameNodes
<1>5. DOMAIN q.heap.nodes = DOMAIN p.heap.nodes
  BY <1>1, <1>3 DEF SameNodes, HeapOK, Heap
<1>6. q.heap.nodes[q.node].slm \in Slms(h)
  BY <1>2, <1>4, <1>5 DEF SameNodes, Slms
<1>. QED
  BY <1>2, <1>3, <1>4, <1>5, <1>6 DEF Rising, q

\* What a new node needs is that it becomes known.
LEMMA AdjustedUpHeap ==
  ASSUME NEW h, HeapOK(h), NEW node \in DOMAIN h.nodes,
         Known(h) \cup {h.nodes[node].slm} = Slms(h)
  PROVE  SameNodes(h, AdjustedUp(h, node)) /\ Known(AdjustedUp(h, node)) = Slms(h)
<1> DEFINE n == Len(h.nodes)
           x == [heap |-> h, node |-> node]
           IsAfter(f) == f = [k \in 0 .. n |-> IF k = 0 THEN x ELSE SiftedUp(f[k - 1])]
<1>1. n \in Nat \ {0} /\ node \in Nat \ {0} /\ x \in Rising(h)
  BY DEF HeapOK, Heap, Rising, SameNodes
<1>2. \E f : IsAfter(f)
  <2> HIDE DEF x, n
  <2> DEFINE F == [p \in Rising(h) |-> SiftedUp(p)]
  <2>1. F \in [Rising(h) -> Rising(h)]
    BY RisesOnce
  <2> HIDE DEF F
  <2>2. PICK f \in [0 .. n -> Rising(h)] : IsCourse(f, x, F, n)
    BY <1>1, <2>1, Course
  <2>3. ASSUME NEW k \in 1 .. n
        PROVE  f[k] = SiftedUp(f[k - 1])
    <3>1. k - 1 \in 0 .. n
      BY <1>1
    <3>2. f[k - 1] \in Rising(h) /\ f[k] = F[f[k - 1]]
      BY <2>2, <3>1 DEF IsCourse
    <3>. QED
      BY <3>2 DEF F
  <2>4. f[0] = x
    BY <2>2 DEF IsCourse
  <2>5. IsAfter(f)
    BY <2>3, <2>4, <1>1
  <2>. QED
    BY <2>5
<1> DEFINE after == CHOOSE f : IsAfter(f)
<1>3. IsAfter(after)
  BY <1>2
<1>4. AdjustedUp(h, node) = after[n].heap
  BY DEF AdjustedUp
<1> HIDE DEF after, x, n
<1>5. after[0] = x /\ \A k \in 1 .. n : after[k] = SiftedUp(after[k - 1])
  BY <1>1, <1>3
<1>6. \A k \in 1 .. n : after[k - 1] \in Rising(h) => after[k] \in Rising(h)
  BY <1>5, RisesOnce
<1>7. \A k \in 0 .. n : after[k] \in Rising(h)
  BY <1>1, <1>5, <1>6, Stays
<1>8. after[n] \in Rising(h) /\ after[n - 1] \in Rising(h) /\ after[n] = SiftedUp(after[n - 1])
  BY <1>1, <1>5, <1>7
<1>9. Known(after[n].heap) = Slms(h)
  BY <1>8, RisesOnce
<1>. QED
  BY <1>4, <1>8, <1>9 DEF Rising

\* The lesser of the children that are worse is one of them.
LEMMA MinOfTwo ==
  ASSUME NEW a \in Nat, NEW b \in Nat, NEW S, S \subseteq {a, b}, S # {}
  PROVE  Min(S) \in S
<1>1. \E x \in S : \A y \in S : x <= y
  <2>1. CASE a \in S /\ (b \in S => a <= b)
    BY <2>1
  <2>2. CASE b \in S /\ (a \in S => b <= a)
    BY <2>2
  <2>3. a \in S \/ b \in S
    OBVIOUS
  <2>4. a <= b \/ b <= a
    OBVIOUS
  <2>. QED
    BY <2>1, <2>2, <2>3, <2>4, Zenon
<1>. QED
  BY <1>1 DEF Min

\* Once all nodes are known they stay so.
LEMMA RefreshedKnown ==
  ASSUME NEW h, HeapOK(h), Known(h) = Slms(h), NEW i \in DOMAIN h.nodes
  PROVE  SameNodes(h, Refreshed(h, i)) /\ Known(Refreshed(h, i)) = Slms(h)
<1>1. h.nodes[i].slm \in Slms(h)
  BY DEF Slms
<1>. QED
  BY <1>1, RefreshedHeap

\* A turn of _adjustDown.
LEMMA SiftedDownOnce ==
  ASSUME NEW p \in [heap : Heap, node : Nat \ {0}], HeapOK(p.heap),
         Known(p.heap) = Slms(p.heap)
  PROVE  Sifted(p, SiftedDown(p))
<1> DEFINE h == p.heap
           node == p.node
           n == Len(h.nodes)
           worse == {c \in {2 * node, 2 * node + 1} : c <= n /\ h.nodes[node].score < h.nodes[c].score}
<1>1. /\ h \in Heap /\ HeapOK(h) /\ DOMAIN h.nodes = 1 .. n /\ n \in Nat /\ node \in Nat \ {0}
      /\ Known(h) = Slms(h)
  BY DEF Heap
<1>2. CASE 2 * node > n
  <2>1. SiftedDown(p) = p
    BY <1>2 DEF SiftedDown
  <2>2. SameNodes(h, h)
    BY <1>1 DEF SameNodes
  <2>. QED
    BY <1>1, <2>1, <2>2 DEF Sifted
<1>3. CASE ~(2 * node > n) /\ worse = {}
  <2> DEFINE g == Refreshed(h, node)
  <2>1. SiftedDown(p) = [p EXCEPT !.heap = g]
    BY <1>3 DEF SiftedDown
  <2>2. node \in DOMAIN h.nodes
    BY <1>1, <1>3
  <2>3. SameNodes(h, g) /\ Known(g) = Slms(h)
    BY <1>1, <2>2, RefreshedKnown
  <2> HIDE DEF g
  <2>4. g \in Heap
    BY <2>3 DEF SameNodes, HeapOK
  <2>5. SiftedDown(p) \in [heap : Heap, node : Nat \ {0}] /\ SiftedDown(p).heap = g
    BY <2>1, <2>4
  <2>. QED
    BY <2>3, <2>5 DEF Sifted
<1>4. CASE ~(2 * node > n) /\ worse # {}
  <2> DEFINE child == Min(worse)
             g == Refreshed(Swapped(h, node, child), child)
             m == Swapped(h, node, child)
  <2>1. SiftedDown(p) = [heap |-> g, node |-> child]
    BY <1>4 DEF SiftedDown
  <2>2. child \in worse
    <3>1. worse \subseteq {2 * node, 2 * node + 1} /\ 2 * node \in Nat /\ 2 * node + 1 \in Nat
      BY <1>1
    <3> HIDE DEF worse
    <3>. QED
      BY <3>1, <1>4, MinOfTwo
  <2>3. child \in {2 * node, 2 * node + 1} /\ child <= n
    BY <2>2
  <2> HIDE DEF child
  <2>4. node \in DOMAIN h.nodes /\ child \in DOMAIN h.nodes /\ child \in Nat \ {0}
    BY <1>1, <1>4, <2>3
  <2>5. SameNodes(h, m) /\ Known(m) = Known(h)
    BY <1>1, <2>4, SwappedHeap
  <2> HIDE DEF m, h
  <2>6. HeapOK(m) /\ child \in DOMAIN m.nodes /\ Known(m) = Slms(m)
    BY <1>1, <2>4, <2>5 DEF SameNodes, HeapOK, Heap
  <2>7. SameNodes(m, Refreshed(m, child)) /\ Known(Refreshed(m, child)) = Slms(m)
    BY <2>6, RefreshedKnown
  <2>8. SameNodes(h, g) /\ Known(g) = Slms(h)
    BY <2>5, <2>7 DEF SameNodes, m
  <2>9. g \in Heap
    BY <2>8 DEF SameNodes, HeapOK
  <2> HIDE DEF g
  <2>. QED
    BY <2>1, <2>4, <2>8, <2>9 DEF Sifted, h
<1>. QED
  BY <1>2, <1>3, <1>4

\* Where a loop that sifts a node down may be.
Sinking(h) == {p \in [heap : Heap, node : Nat \ {0}] :
                 SameNodes(h, p.heap) /\ Known(p.heap) = Slms(h)}

\* A turn of the loop of _adjustDown keeps what its loop needs.
LEMMA SinksOnce ==
  ASSUME NEW h, NEW p \in Sinking(h)
  PROVE  SiftedDown(p) \in Sinking(h)
<1>1. /\ p \in [heap : Heap, node : Nat \ {0}] /\ HeapOK(p.heap) /\ SameNodes(h, p.heap)
      /\ Known(p.heap) = Slms(p.heap) /\ Slms(p.heap) = Slms(h)
  BY DEF Sinking, SameNodes
<1>2. Sifted(p, SiftedDown(p))
  BY <1>1, SiftedDownOnce
<1>. QED
  BY <1>1, <1>2 DEF Sifted, Sinking, SameNodes

\* The index of the node may be an old one: beyond the heap nothing happens.
LEMMA AdjustedDownHeap ==
  ASSUME NEW h, HeapOK(h), NEW node \in Nat \ {0}, Known(h) = Slms(h)
  PROVE  SameNodes(h, AdjustedDown(h, node)) /\ Known(AdjustedDown(h, node)) = Slms(h)
<1> DEFINE n == Len(h.nodes)
           x == [heap |-> h, node |-> node]
           IsAfter(f) == f = [k \in 0 .. n |-> IF k = 0 THEN x ELSE SiftedDown(f[k - 1])]
<1>1. n \in Nat /\ x \in Sinking(h)
  BY DEF HeapOK, Heap, Sinking, SameNodes
<1>2. \E f : IsAfter(f)
  <2> HIDE DEF x, n
  <2> DEFINE F == [p \in Sinking(h) |-> SiftedDown(p)]
  <2>1. F \in [Sinking(h) -> Sinking(h)]
    BY SinksOnce
  <2> HIDE DEF F
  <2>2. PICK f \in [0 .. n -> Sinking(h)] : IsCourse(f, x, F, n)
    BY <1>1, <2>1, Course
  <2>3. ASSUME NEW k \in 1 .. n
        PROVE  f[k] = SiftedDown(f[k - 1])
    <3>1. k - 1 \in 0 .. n
      BY <1>1
    <3>2. f[k - 1] \in Sinking(h) /\ f[k] = F[f[k - 1]]
      BY <2>2, <3>1 DEF IsCourse
    <3>. QED
      BY <3>2 DEF F
  <2>4. f[0] = x
    BY <2>2 DEF IsCourse
  <2>5. IsAfter(f)
    BY <2>3, <2>4, <1>1
  <2>. QED
    BY <2>5
<1> DEFINE after == CHOOSE f : IsAfter(f)
<1>3. IsAfter(after)
  BY <1>2
<1>4. AdjustedDown(h, node) = after[n].heap
  BY DEF AdjustedDown
<1> HIDE DEF after, x, n
<1>5. after[0] = x /\ \A k \in 1 .. n : after[k] = SiftedDown(after[k - 1])
  BY <1>1, <1>3
<1>6. \A k \in 1 .. n : after[k - 1] \in Sinking(h) => after[k] \in Sinking(h)
  BY <1>5, SinksOnce
<1>7. \A k \in 0 .. n : after[k] \in Sinking(h)
  BY <1>1, <1>5, <1>6, Stays
<1>8. after[n] \in Sinking(h)
  BY <1>1, <1>7
<1>. QED
  BY <1>4, <1>8 DEF Sinking

-----------------------------------------------------------------------------
(* The states kept for one language model state.                           *)

\* Worst first.
Falling(tops) == \A i, j \in DOMAIN tops : i <= j => tops[j] <= tops[i]

\* A list that has taken a score.
Took(tops, score, d) ==
  /\ d \in Seq(Nat) /\ d # << >>
  /\ Falling(d)
  /\ Last(d) = IF tops # << >> /\ Last(tops) <= score THEN Last(tops) ELSE score

\* Insertion behind those that are no better.
LEMMA RankedList ==
  ASSUME NEW tops \in Seq(Nat), Falling(tops), NEW score \in Nat
  PROVE  Took(tops, score, Ranked(tops, score)) /\ Len(Ranked(tops, score)) = Len(tops) + 1
<1> DEFINE n == Len(tops)
           d == Ranked(tops, score)
<1>1. n \in Nat /\ DOMAIN tops = 1 .. n
  OBVIOUS
<1>2. \A i \in 1 .. n : tops[i] \in Nat
  BY <1>1
<1>3. d = [i \in 1 .. n + 1 |->
             IF i <= n /\ tops[i] >= score THEN tops[i]
             ELSE IF i = 1 \/ tops[i - 1] >= score THEN score
             ELSE tops[i - 1]]
  BY DEF Ranked
<1> HIDE DEF n, d
<1>4. \A i \in 1 .. n + 1 : d[i] \in Nat
  <2> SUFFICES ASSUME NEW i \in 1 .. n + 1
               PROVE  d[i] \in Nat
    OBVIOUS
  <2>1. i <= n => tops[i] \in Nat
    BY <1>1, <1>2
  <2>2. i # 1 => tops[i - 1] \in Nat
    BY <1>1, <1>2
  <2>. QED
    BY <1>3, <2>1, <2>2
<1>5. d \in Seq(Nat) /\ Len(d) = n + 1 /\ DOMAIN d = 1 .. n + 1
  BY <1>1, <1>3, <1>4
<1>6. \A i, j \in 1 .. n : i <= j => tops[j] <= tops[i]
  BY <1>1 DEF Falling
<1>7. ASSUME NEW i \in 1 .. n + 1, NEW j \in 1 .. n + 1, i <= j
      PROVE  d[j] <= d[i]
  <2>1. /\ i <= n => i \in 1 .. n /\ tops[i] \in Nat
        /\ i # 1 => i - 1 \in 1 .. n /\ tops[i - 1] \in Nat
        /\ j <= n => j \in 1 .. n /\ tops[j] \in Nat
        /\ j # 1 => j - 1 \in 1 .. n /\ tops[j - 1] \in Nat
    BY <1>1, <1>2
  <2>2. i < j => i \in 1 .. n /\ j - 1 \in 1 .. n /\ i <= j - 1
    BY <1>1
  <2>3. CASE i = j
    BY <1>4, <2>3
  <2>4. CASE i < j
    <3>1. i \in 1 .. n /\ j - 1 \in 1 .. n /\ i <= j - 1 /\ tops[j - 1] <= tops[i]
      BY <2>2, <2>4, <1>6
    <3>2. d[j] = score \/ d[j] = tops[j - 1] \/ (j <= n /\ d[j] = tops[j])
      BY <1>3
    <3>3. j <= n => tops[j] <= tops[i]
      BY <2>1, <3>1, <1>6, <1>7
    <3>4. CASE tops[i] >= score
      <4>1. d[i] = tops[i]
        BY <1>3, <3>1, <3>4, <1>1
      <4>. QED
        BY <3>1, <3>2, <3>3, <3>4, <4>1, <2>1
    <3>5. CASE ~(tops[i] >= score)
      <4>1. d[i] = IF i = 1 \/ tops[i - 1] >= score THEN score ELSE tops[i - 1]
        BY <1>3, <3>5
      <4>2. i # 1 => tops[i] <= tops[i - 1]
        BY <2>1, <3>1, <1>6, <1>1
      <4>3. ~(tops[j - 1] >= score) /\ (j <= n => ~(tops[j] >= score))
        BY <3>1, <3>3, <3>5, <2>1, <1>2
      <4>4. j # 1 /\ d[j] = tops[j - 1]
        BY <1>3, <2>4, <4>3, <1>1
      <4>5. CASE i = 1 \/ tops[i - 1] >= score
        BY <4>1, <4>4, <4>5, <4>3, <2>1, <3>1
      <4>6. CASE ~(i = 1 \/ tops[i - 1] >= score)
        BY <4>1, <4>2, <4>4, <4>6, <2>1, <3>1
      <4>. QED
        BY <4>5, <4>6
    <3>. QED
      BY <3>4, <3>5
  <2>. QED
    BY <2>3, <2>4, <1>7, <1>1
<1>8. Falling(d)
  BY <1>5, <1>7 DEF Falling
<1>9. Last(d) = d[n + 1] /\ d[n + 1] = IF n = 0 \/ tops[n] >= score THEN score ELSE tops[n]
  BY <1>1, <1>3, <1>5 DEF Last
<1>10. (n = 0 <=> tops = << >>) /\ Last(tops) = tops[n] /\ (n # 0 => tops[n] \in Nat)
  BY <1>1, <1>2 DEF Last, n
<1>11. Last(d) = IF tops # << >> /\ Last(tops) <= score THEN Last(tops) ELSE score
  BY <1>9, <1>10
<1>12. d # << >>
  BY <1>1, <1>5
<1>. QED
  BY <1>5, <1>8, <1>11, <1>12 DEF Took, d, n

\* CTopLatticeStates::pop takes the worst.
LEMMA TailList ==
  ASSUME NEW tops \in Seq(Nat), tops # << >>, Falling(tops)
  PROVE  /\ Tail(tops) \in Seq(Nat) /\ Len(Tail(tops)) = Len(tops) - 1
         /\ Falling(Tail(tops))
         /\ Tail(tops) # << >> => Last(Tail(tops)) = Last(tops)
         /\ Last(tops) \in Nat /\ Last(tops) <= tops[1] /\ tops[1] \in Nat
         /\ Tail(tops) = << >> => Last(tops) = tops[1]
<1> DEFINE n == Len(tops)
           d == Tail(tops)
<1>1. n \in Nat \ {0} /\ DOMAIN tops = 1 .. n
  OBVIOUS
<1>2. \A i \in 1 .. n : tops[i] \in Nat
  BY <1>1
<1>3. /\ d \in Seq(Nat) /\ Len(d) = n - 1 /\ DOMAIN d = 1 .. n - 1
      /\ \A i \in 1 .. n - 1 : d[i] = tops[i + 1]
  BY <1>1
<1>4. \A i, j \in 1 .. n : i <= j => tops[j] <= tops[i]
  BY <1>1 DEF Falling
<1>5. d = << >> => n = 1
  <2> HIDE DEF n, d
  <2>1. d = << >> => Len(d) = 0
    OBVIOUS
  <2>. QED
    BY <1>1, <1>3, <2>1
<1>6. d # << >> => n > 1
  BY <1>1, <1>3
<1>7. Last(tops) = tops[n] /\ Last(d) = d[n - 1]
  BY <1>3 DEF Last, n
<1> HIDE DEF n, d
<1>8. Falling(d)
  <2> SUFFICES ASSUME NEW i \in 1 .. n - 1, NEW j \in 1 .. n - 1, i <= j
               PROVE  d[j] <= d[i]
    BY <1>3 DEF Falling
  <2>1. i + 1 \in 1 .. n /\ j + 1 \in 1 .. n /\ i + 1 <= j + 1
    BY <1>1
  <2>2. tops[j + 1] <= tops[i + 1]
    BY <2>1, <1>4
  <2>. QED
    BY <2>2, <1>3
<1>9. d # << >> => Last(d) = Last(tops)
  BY <1>1, <1>3, <1>6, <1>7
<1>10. tops[n] \in Nat /\ tops[1] \in Nat /\ tops[n] <= tops[1]
  BY <1>1, <1>2, <1>4
<1>. QED
  BY <1>3, <1>5, <1>7, <1>8, <1>9, <1>10 DEF n, d

\* CTopLatticeStates::push.
LEMMA PushedList ==
  ASSUME NEW tops \in Seq(Nat), Falling(tops), NEW score \in Nat,
         NEW limit \in Nat \ {0}, Len(tops) <= limit
  PROVE  /\ Took(tops, score, Pushed(tops, score, limit))
         /\ Len(Pushed(tops, score, limit)) = IF Len(tops) < limit THEN Len(tops) + 1 ELSE Len(tops)
<1>1. CASE Len(tops) < limit
  <2>1. Pushed(tops, score, limit) = Ranked(tops, score)
    BY <1>1 DEF Pushed
  <2>. QED
    BY <1>1, <2>1, RankedList
<1>2. CASE ~(Len(tops) < limit) /\ tops[1] < score
  <2>1. tops # << >>
    BY <1>2
  <2>2. Pushed(tops, score, limit) = tops
    BY <1>2 DEF Pushed
  <2>3. Last(tops) <= score
    BY <1>2, <2>1, TailList
  <2>. QED
    BY <1>2, <2>1, <2>2, <2>3 DEF Took
<1>3. CASE ~(Len(tops) < limit) /\ ~(tops[1] < score)
  <2> DEFINE rest == Tail(tops)
             d == Ranked(rest, score)
  <2>1. tops # << >>
    BY <1>3
  <2>2. Pushed(tops, score, limit) = d
    BY <1>3 DEF Pushed
  <2>3. /\ rest \in Seq(Nat) /\ Len(rest) = Len(tops) - 1 /\ Falling(rest)
        /\ rest # << >> => Last(rest) = Last(tops)
        /\ Last(tops) \in Nat /\ tops[1] \in Nat
        /\ rest = << >> => Last(tops) = tops[1]
    BY <2>1, TailList
  <2> HIDE DEF rest
  <2>4. Took(rest, score, d) /\ Len(d) = Len(rest) + 1
    BY <2>3, RankedList
  <2> HIDE DEF d
  <2>5. Last(d) = IF Last(tops) <= score THEN Last(tops) ELSE score
    BY <1>3, <2>3, <2>4 DEF Took
  <2>6. Took(tops, score, d)
    BY <2>1, <2>4, <2>5 DEF Took
  <2>7. Len(tops) \in Nat /\ Len(d) = Len(tops)
    BY <2>3, <2>4
  <2>. QED
    BY <1>3, <2>2, <2>6, <2>7
<1>. QED
  BY <1>1, <1>2, <1>3

-----------------------------------------------------------------------------
(* _pushScoreHeap and _popScoreHeap.                                       *)

\* What becomes of a heap whose nodes are replaced.
LEMMA OtherNodes ==
  ASSUME NEW h \in Heap, NEW q \in Seq(Node)
  PROVE  LET g == [h EXCEPT !.nodes = q]
         IN g \in Heap /\ g.nodes = q /\ g.idx = h.idx
BY DEF Heap

\* One node replaced.
LEMMA OtherNode ==
  ASSUME NEW q \in Seq(Node), NEW i \in DOMAIN q, NEW v \in Node
  PROVE  LET r == [q EXCEPT ![i] = v]
         IN /\ r \in Seq(Node) /\ Len(r) = Len(q) /\ DOMAIN r = DOMAIN q
            /\ \A k \in DOMAIN q : r[k] = IF k = i THEN v ELSE q[k]
OBVIOUS

\* Every node is known, and nothing else.
Sound(h) == HeapOK(h) /\ Known(h) = Slms(h)

\* A node for a language model state that had none.
LEMMA PushedHeap ==
  ASSUME NEW h, Sound(h), NEW score \in Nat, NEW slm \in SlmStates \ Slms(h)
  PROVE  /\ Sound(PushScoreHeap(h, score, slm))
         /\ Slms(PushScoreHeap(h, score, slm)) = Slms(h) \cup {slm}
<1> DEFINE node == [score |-> score, slm |-> slm]
           n == Len(h.nodes)
           g == [h EXCEPT !.nodes = Append(h.nodes, node)]
<1>1. /\ h.nodes \in Seq(Node) /\ n \in Nat /\ DOMAIN h.nodes = 1 .. n
      /\ h \in Heap /\ node \in Node /\ Append(h.nodes, node) \in Seq(Node)
  BY DEF Sound, HeapOK, Heap, Node
<1>2. /\ g.nodes = Append(h.nodes, node) /\ g.idx = h.idx /\ g \in Heap
  BY <1>1, OtherNodes
<1>3. /\ DOMAIN g.nodes = 1 .. n + 1 /\ Len(g.nodes) = n + 1
      /\ \A i \in 1 .. n : g.nodes[i] = h.nodes[i]
      /\ g.nodes[n + 1] = node
  BY <1>1, <1>2
<1> HIDE DEF g, n, node
<1>4. \A i \in DOMAIN g.nodes : i \in 1 .. n \/ i = n + 1
  BY <1>1, <1>3
<1>5. node.slm = slm
  BY DEF node
<1>6. \A i \in 1 .. n : g.nodes[i].slm # slm
  BY <1>1, <1>3 DEF Slms
<1>7. Distinct(g)
  BY <1>1, <1>3, <1>4, <1>5, <1>6 DEF Distinct, Sound, HeapOK
<1>8. Slms(g) = Slms(h) \cup {slm}
  BY <1>1, <1>3, <1>4, <1>5 DEF Slms
<1>9. Known(g) = Slms(h)
  BY <1>2 DEF Known, Sound
<1>10. HeapOK(g) /\ n + 1 \in DOMAIN g.nodes /\ Known(g) \cup {g.nodes[n + 1].slm} = Slms(g)
  BY <1>1, <1>2, <1>3, <1>5, <1>7, <1>8, <1>9 DEF HeapOK
<1>11. PushScoreHeap(h, score, slm) = AdjustedUp(g, n + 1)
  BY DEF PushScoreHeap, g, n, node
<1>12. SameNodes(g, AdjustedUp(g, n + 1)) /\ Known(AdjustedUp(g, n + 1)) = Slms(g)
  BY <1>10, AdjustedUpHeap
<1>. QED
  BY <1>8, <1>11, <1>12 DEF SameNodes, Sound

\* The top node is the only one of its language model state, so nothing is
\* left of it when the last node takes its place.
LEMMA PoppedHeap ==
  ASSUME NEW h, Sound(h), h.nodes # << >>
  PROVE  /\ Sound(PopScoreHeap(h))
         /\ Slms(PopScoreHeap(h)) = Slms(h) \ {h.nodes[1].slm}
<1> DEFINE n == Len(h.nodes)
           top == h.nodes[1].slm
           idx == [h.idx EXCEPT ![top] = 0]
           left == [Front(h.nodes) EXCEPT ![1] = Last(h.nodes)]
           popped == [nodes |-> left, idx |-> idx]
<1>1. /\ h.nodes \in Seq(Node) /\ n \in Nat \ {0} /\ DOMAIN h.nodes = 1 .. n
      /\ h.idx \in [SlmStates -> Nat]
  BY DEF Sound, HeapOK, Heap
<1>2. top \in SlmStates
  <2>1. h.nodes[1] \in Node
    BY <1>1
  <2>. QED
    BY <2>1 DEF Node
<1>3. idx \in [SlmStates -> Nat] /\ {s \in SlmStates : idx[s] # 0} = Known(h) \ {top}
  BY <1>1, <1>2 DEF Known
<1>4. \A i, j \in 1 .. n : h.nodes[i].slm = h.nodes[j].slm => i = j
  BY <1>1 DEF Sound, HeapOK, Distinct
<1> HIDE DEF idx
<1>5. CASE n = 1
  <2> DEFINE g == [popped EXCEPT !.nodes = << >>]
  <2>1. PopScoreHeap(h) = g
    BY <1>5 DEF PopScoreHeap, idx
  <2>2. g.nodes = << >> /\ g.idx = idx /\ g = [nodes |-> << >>, idx |-> idx]
    OBVIOUS
  <2> HIDE DEF g
  <2>3. Slms(h) = {top}
    BY <1>1, <1>5 DEF Slms
  <2>4. Slms(g) = {} /\ Distinct(g) /\ g \in Heap
    BY <1>3, <2>2 DEF Slms, Distinct, Heap
  <2>5. Known(g) = {}
    BY <1>3, <2>2, <2>3 DEF Known, Sound
  <2>. QED
    BY <2>1, <2>3, <2>4, <2>5 DEF Sound, HeapOK
<1>6. CASE n # 1
  <2> DEFINE from(i) == IF i = 1 THEN n ELSE i
  <2>1. PopScoreHeap(h) = AdjustedDown(Refreshed(popped, 1), 1)
    BY <1>6 DEF PopScoreHeap, idx
  <2>2. /\ Front(h.nodes) \in Seq(Node) /\ Len(Front(h.nodes)) = n - 1 /\ Last(h.nodes) = h.nodes[n]
        /\ \A i \in 1 .. n - 1 : Front(h.nodes)[i] = h.nodes[i]
        /\ h.nodes[n] \in Node /\ DOMAIN Front(h.nodes) = 1 .. n - 1
    BY <1>1 DEF Front, Last
  <2> HIDE DEF n
  <2>3. 1 \in 1 .. n - 1
    BY <1>1, <1>6
  <2>4. /\ left \in Seq(Node) /\ Len(left) = n - 1 /\ DOMAIN left = 1 .. n - 1
        /\ \A i \in 1 .. n - 1 : left[i] = h.nodes[from(i)]
    BY <2>3, <2>2, OtherNode
  <2>5. popped \in Heap /\ popped.nodes = left /\ popped.idx = idx
    BY <2>4, <1>3 DEF Heap
  <2> HIDE DEF left
  <2>6. \A i \in 1 .. n - 1 : from(i) \in 2 .. n
    BY <1>1, <1>6
  <2>7. \A i, j \in 1 .. n - 1 : from(i) = from(j) => i = j
    BY <1>1, <1>6
  <2>8. \A k \in 2 .. n : \E i \in 1 .. n - 1 : k = from(i)
    <3> SUFFICES ASSUME NEW k \in 2 .. n
                 PROVE  \E i \in 1 .. n - 1 : k = from(i)
      OBVIOUS
    <3>1. CASE k = n
      <4>1. 1 \in 1 .. n - 1 /\ from(1) = n
        BY <1>1, <1>6
      <4>. QED
        BY <4>1, <3>1
    <3>2. CASE k # n
      <4>1. k \in 1 .. n - 1 /\ from(k) = k
        BY <3>2, <1>1
      <4>. QED
        BY <4>1
    <3>. QED
      BY <3>1, <3>2
  <2> HIDE DEF popped, from
  <2>9. \A i \in DOMAIN popped.nodes : popped.nodes[i].slm = h.nodes[from(i)].slm /\ from(i) \in 2 .. n
    BY <2>4, <2>5, <2>6
  <2>10. \A k \in 2 .. n : k \in 1 .. n /\ k # 1 /\ 1 \in 1 .. n
    BY <1>1
  <2>11. Distinct(popped)
    BY <2>4, <2>5, <2>7, <2>9, <2>10, <1>4 DEF Distinct
  <2>12. Slms(popped) = {h.nodes[k].slm : k \in 2 .. n}
    <3>1. ASSUME NEW i \in DOMAIN popped.nodes
          PROVE  popped.nodes[i].slm \in {h.nodes[k].slm : k \in 2 .. n}
      BY <2>9
    <3>2. ASSUME NEW k \in 2 .. n
          PROVE  h.nodes[k].slm \in Slms(popped)
      <4>1. PICK i \in 1 .. n - 1 : k = from(i)
        BY <2>8
      <4>2. i \in DOMAIN popped.nodes /\ popped.nodes[i].slm = h.nodes[k].slm
        BY <4>1, <2>4, <2>5, <2>9
      <4>. QED
        BY <4>2 DEF Slms
    <3>. QED
      BY <3>1, <3>2 DEF Slms
  <2>13. Slms(h) = {h.nodes[k].slm : k \in 2 .. n} \cup {top}
    <3>1. \A k \in 1 .. n : k = 1 \/ k \in 2 .. n
      OBVIOUS
    <3>. QED
      BY <3>1, <2>10, <1>1 DEF Slms
  <2>14. top \notin {h.nodes[k].slm : k \in 2 .. n}
    BY <2>10, <1>4
  <2>15. Slms(popped) = Slms(h) \ {top} /\ Known(popped) = Slms(popped)
    BY <2>5, <2>12, <2>13, <2>14, <1>3 DEF Known, Sound
  <2>16. 1 \in DOMAIN popped.nodes /\ HeapOK(popped)
    BY <2>4, <2>5, <2>11, <1>1, <1>6 DEF HeapOK
  <2> DEFINE g == Refreshed(popped, 1)
  <2>17. HeapOK(g) /\ Slms(g) = Slms(popped) /\ Known(g) = Slms(g)
    BY <2>15, <2>16, RefreshedKnown DEF SameNodes
  <2> HIDE DEF g
  <2>18. SameNodes(g, AdjustedDown(g, 1)) /\ Known(AdjustedDown(g, 1)) = Slms(g)
    BY <2>17, AdjustedDownHeap
  <2>. QED
    BY <2>1, <2>15, <2>17, <2>18 DEF g, SameNodes, Sound
<1>. QED
  BY <1>5, <1>6

\* A new score for the top node, which is sifted down.
LEMMA RescoredHeap ==
  ASSUME NEW h, Sound(h), h.nodes # << >>, NEW score \in Nat
  PROVE  LET g == AdjustedDown([h EXCEPT !.nodes[1].score = score], 1)
         IN Sound(g) /\ Slms(g) = Slms(h)
<1> DEFINE node == [h.nodes[1] EXCEPT !.score = score]
           r == [h EXCEPT !.nodes[1].score = score]
<1>1. /\ h.nodes \in Seq(Node) /\ DOMAIN h.nodes = 1 .. Len(h.nodes) /\ Len(h.nodes) \in Nat \ {0}
      /\ h \in Heap
  BY DEF Sound, HeapOK, Heap
<1>2. h.nodes[1] \in Node
  BY <1>1
<1>3. node \in Node /\ node.slm = h.nodes[1].slm
  BY <1>2 DEF Node
<1> HIDE DEF node
<1>4. r = [h EXCEPT !.nodes = [h.nodes EXCEPT ![1] = node]]
  BY DEF node
<1> DEFINE q == [h.nodes EXCEPT ![1] = node]
<1> HIDE DEF r
<1>5. 1 \in DOMAIN h.nodes
  BY <1>1
<1>6. q \in Seq(Node) /\ DOMAIN q = DOMAIN h.nodes
  BY <1>1, <1>3, <1>5, OtherNode
<1>7. r = [h EXCEPT !.nodes = q]
  BY <1>4
<1> HIDE DEF q
<1>8. r \in Heap /\ r.idx = h.idx /\ r.nodes = q
  BY <1>1, <1>6, <1>7, OtherNodes
<1>9. /\ r \in Heap /\ r.idx = h.idx /\ DOMAIN r.nodes = DOMAIN h.nodes
      /\ r.nodes = [h.nodes EXCEPT ![1] = node]
  BY <1>6, <1>8 DEF q
<1>10. \A i \in DOMAIN h.nodes : r.nodes[i].slm = h.nodes[i].slm
  BY <1>1, <1>3, <1>9
<1>11. Distinct(r) /\ Slms(r) = Slms(h) /\ Known(r) = Known(h)
  BY <1>9, <1>10 DEF Sound, HeapOK, Distinct, Slms, Known
<1>12. HeapOK(r) /\ Known(r) = Slms(r)
  BY <1>9, <1>11 DEF HeapOK, Sound
<1>13. SameNodes(r, AdjustedDown(r, 1)) /\ Known(AdjustedDown(r, 1)) = Slms(r)
  BY <1>12, AdjustedDownHeap
<1>. QED
  BY <1>11, <1>13 DEF r, SameNodes, Sound

-----------------------------------------------------------------------------
(* The frame.                                                              *)

EntriesOf(m) == {s \in SlmStates : m[s] # << >>}
PlacesOf(m) == UNION {{s} \X DOMAIN m[s] : s \in SlmStates}

Map == [SlmStates -> Seq(Nat)]

\* g is m with the list d for s.
WithList(m, s, d, g) ==
  /\ g \in Map
  /\ g[s] = d /\ \A t \in SlmStates : t # s => g[t] = m[t]
  /\ EntriesOf(g) = IF d = << >> THEN EntriesOf(m) \ {s} ELSE EntriesOf(m) \cup {s}

\* One list replaced.
LEMMA OtherList ==
  ASSUME NEW m \in Map, NEW s \in SlmStates, NEW d \in Seq(Nat)
  PROVE  WithList(m, s, d, [m EXCEPT ![s] = d])
BY DEF Map, EntriesOf, WithList

\* A place is a state and a position in its list.
LEMMA Place ==
  ASSUME NEW m \in Map, NEW x
  PROVE  x \in PlacesOf(m) <=> \E s \in SlmStates : \E i \in 1 .. Len(m[s]) : x = <<s, i>>
<1>1. \A s \in SlmStates : DOMAIN m[s] = 1 .. Len(m[s])
  BY DEF Map
<1>2. ASSUME x \in PlacesOf(m)
      PROVE  \E s \in SlmStates : \E i \in 1 .. Len(m[s]) : x = <<s, i>>
  <2>1. PICK s \in SlmStates : x \in {s} \X DOMAIN m[s]
    BY <1>2 DEF PlacesOf
  <2>. QED
    BY <2>1, <1>1
<1>3. ASSUME NEW s \in SlmStates, NEW i \in 1 .. Len(m[s]), x = <<s, i>>
      PROVE  x \in PlacesOf(m)
  <2>1. x \in {s} \X DOMAIN m[s]
    BY <1>1, <1>3
  <2>. QED
    BY <2>1 DEF PlacesOf
<1>. QED
  BY <1>2, <1>3

\* One state more, at the end of a list.
LEMMA PlaceMore ==
  ASSUME NEW m \in Map, NEW s \in SlmStates, NEW d \in Seq(Nat), Len(d) = Len(m[s]) + 1
  PROVE  /\ PlacesOf([m EXCEPT ![s] = d]) = PlacesOf(m) \cup {<<s, Len(d)>>}
         /\ <<s, Len(d)>> \notin PlacesOf(m)
<1> DEFINE g == [m EXCEPT ![s] = d]
           n == Len(m[s])
<1>1. WithList(m, s, d, g)
  BY OtherList
<1>2. g \in Map /\ g[s] = d /\ \A t \in SlmStates : t # s => g[t] = m[t]
  BY <1>1 DEF WithList
<1>3. n \in Nat /\ Len(d) = n + 1
  BY DEF Map
<1> HIDE DEF g
<1>4. ASSUME NEW x
      PROVE  x \in PlacesOf(g) <=> x \in PlacesOf(m) \/ x = <<s, n + 1>>
  <2>1. ASSUME NEW t \in SlmStates, NEW i \in 1 .. Len(g[t]), x = <<t, i>>
        PROVE  x \in PlacesOf(m) \/ x = <<s, n + 1>>
    <3>1. CASE t # s
      <4>1. i \in 1 .. Len(m[t])
        BY <1>2, <3>1
      <4>. QED
        BY <4>1, <2>1, Place
    <3>2. CASE t = s /\ i = n + 1
      BY <3>2, <2>1
    <3>3. CASE t = s /\ i # n + 1
      <4>1. i \in 1 .. Len(m[t])
        BY <1>2, <1>3, <3>3
      <4>. QED
        BY <4>1, <2>1, Place
    <3>. QED
      BY <3>1, <3>2, <3>3
  <2>2. ASSUME NEW t \in SlmStates, NEW i \in 1 .. Len(m[t]), x = <<t, i>>
        PROVE  x \in PlacesOf(g)
    <3>1. i \in 1 .. Len(g[t])
      BY <1>2, <1>3
    <3>. QED
      BY <3>1, <2>2, <1>2, Place
  <2>3. ASSUME x = <<s, n + 1>>
        PROVE  x \in PlacesOf(g)
    <3>1. n + 1 \in 1 .. Len(g[s])
      BY <1>2, <1>3
    <3>. QED
      BY <3>1, <2>3, <1>2, Place
  <2>4. x \in PlacesOf(g) => \E t \in SlmStates : \E i \in 1 .. Len(g[t]) : x = <<t, i>>
    BY <1>2, Place
  <2>5. x \in PlacesOf(m) => \E t \in SlmStates : \E i \in 1 .. Len(m[t]) : x = <<t, i>>
    BY Place
  <2>. QED
    BY <2>1, <2>2, <2>3, <2>4, <2>5
<1>5. <<s, n + 1>> \notin PlacesOf(m)
  <2> SUFFICES ASSUME <<s, n + 1>> \in PlacesOf(m)
               PROVE  FALSE
    OBVIOUS
  <2>1. PICK t \in SlmStates : \E i \in 1 .. Len(m[t]) : <<s, n + 1>> = <<t, i>>
    BY Place
  <2>2. n + 1 \in 1 .. n
    BY <2>1
  <2>. QED
    BY <2>2, <1>3
<1>. QED
  BY <1>3, <1>4, <1>5 DEF g

\* As many as before.
LEMMA PlacesSame ==
  ASSUME NEW m \in Map, NEW s \in SlmStates, NEW d \in Seq(Nat), Len(d) = Len(m[s])
  PROVE  PlacesOf([m EXCEPT ![s] = d]) = PlacesOf(m)
<1> DEFINE g == [m EXCEPT ![s] = d]
<1>1. WithList(m, s, d, g)
  BY OtherList
<1>2. g \in Map /\ \A t \in SlmStates : Len(g[t]) = Len(m[t])
  BY <1>1 DEF WithList
<1> HIDE DEF g
<1>3. ASSUME NEW x
      PROVE  x \in PlacesOf(g) <=> x \in PlacesOf(m)
  <2>1. x \in PlacesOf(g) <=> \E t \in SlmStates : \E i \in 1 .. Len(g[t]) : x = <<t, i>>
    BY <1>2, Place
  <2>2. x \in PlacesOf(m) <=> \E t \in SlmStates : \E i \in 1 .. Len(m[t]) : x = <<t, i>>
    BY Place
  <2>. QED
    BY <2>1, <2>2, <1>2
<1>. QED
  BY <1>3 DEF g

\* Map, heap, size and best scores of a frame agree.
Agree(m, h, n, b) ==
  /\ m \in Map
  /\ \A s \in SlmStates : Falling(m[s])
  /\ Sound(h) /\ Slms(h) = EntriesOf(m)
  /\ IsFiniteSet(PlacesOf(m)) /\ n = Cardinality(PlacesOf(m))
  /\ b \in [SlmStates -> Nat]
  /\ \A s \in EntriesOf(m) : Last(m[s]) = b[s]

LatticeInv ==
  /\ Agree(stateMap, heap, size, best)
  /\ size <= BeamWidth
  /\ maxBest \in MaxBests
  /\ threshold \in [SlmStates -> Nat]
  /\ \A s \in SlmStates : Len(stateMap[s]) <= threshold[s]

\* An empty frame.
LEMMA EmptyFrame ==
  Agree([s \in SlmStates |-> << >>], [nodes |-> << >>, idx |-> [s \in SlmStates |-> 0]],
        0, [s \in SlmStates |-> 0])
<1> DEFINE m == [s \in SlmStates |-> << >>]
           h == [nodes |-> << >>, idx |-> [s \in SlmStates |-> 0]]
           b == [s \in SlmStates |-> 0]
<1>1. m \in Map /\ \A s \in SlmStates : m[s] = << >>
  BY DEF Map
<1>2. \A s \in SlmStates : Falling(m[s])
  BY DEF Falling
<1>3. EntriesOf(m) = {}
  BY DEF EntriesOf
<1>4. PlacesOf(m) = {}
  BY DEF PlacesOf
<1>5. h \in Heap /\ Distinct(h) /\ Slms(h) = {} /\ Known(h) = {}
  BY DEF Heap, Distinct, Slms, Known
<1>6. b \in [SlmStates -> Nat]
  OBVIOUS
<1> HIDE DEF m, h, b
<1>7. Agree(m, h, 0, b)
  BY <1>1, <1>2, <1>3, <1>4, <1>5, <1>6, FS_EmptySet DEF Agree, Sound, HeapOK
<1>. QED
  BY <1>7 DEF m, h, b

\* The lesser of two numbers.
LEMMA MinOfPair ==
  ASSUME NEW a \in Nat, NEW b \in Nat
  PROVE  Min({a, b}) = IF a <= b THEN a ELSE b
<1>1. Min({a, b}) \in {a, b} /\ Min({a, b}) <= a /\ Min({a, b}) <= b
  <2>1. \E x \in {a, b} : \A y \in {a, b} : x <= y
    <3>1. CASE a <= b
      BY <3>1
    <3>2. CASE b <= a
      BY <3>2
    <3>. QED
      BY <3>1, <3>2
  <2>. QED
    BY <2>1 DEF Min
<1>. QED
  BY <1>1

\* What the first half of add leaves.
LEMMA GrownAgrees ==
  ASSUME LatticeInv, NEW s \in SlmStates, NEW score \in Scores
  PROVE  LET g == Grown(s, score)
         IN /\ Agree(g.map, g.heap, g.size, g.best)
            /\ g.size <= BeamWidth + 1
            /\ g.map[s] # << >>
            /\ Len(g.map[s]) <= IF s \in Entries THEN threshold[s] ELSE maxBest
            /\ \A t \in SlmStates : t # s => g.map[t] = stateMap[t]
<1> DEFINE tops == stateMap[s]
           limit == IF s \in Entries THEN threshold[s] ELSE maxBest
           d == Pushed(tops, score, limit)
           g == Grown(s, score)
<1>1. /\ stateMap \in Map /\ \A t \in SlmStates : Falling(stateMap[t])
      /\ Sound(heap) /\ Slms(heap) = Entries
      /\ IsFiniteSet(PlacesOf(stateMap)) /\ size = Cardinality(PlacesOf(stateMap))
      /\ best \in [SlmStates -> Nat] /\ \A t \in Entries : Last(stateMap[t]) = best[t]
  BY DEF LatticeInv, Agree, Entries, EntriesOf
<1>2. size \in Nat /\ BeamWidth \in Nat /\ size <= BeamWidth
  BY <1>1, FS_CardinalityType, LatticeStatesAssumption DEF LatticeInv
<1>3. score \in Nat /\ maxBest \in Nat \ {0} /\ tops \in Seq(Nat) /\ Falling(tops)
  BY <1>1, LatticeStatesAssumption DEF LatticeInv, Map
<1>4. (s \in Entries <=> tops # << >>) /\ (tops = << >> => Len(tops) = 0) /\ (tops # << >> => Len(tops) >= 1)
  BY <1>3 DEF Entries
<1>5. limit \in Nat \ {0} /\ Len(tops) <= limit
  <2>1. Len(tops) \in Nat /\ threshold[s] \in Nat /\ Len(tops) <= threshold[s]
    BY <1>3 DEF LatticeInv
  <2> HIDE DEF tops
  <2>. QED
    BY <1>3, <1>4, <2>1
<1>6. Took(tops, score, d) /\ Len(d) = IF Len(tops) < limit THEN Len(tops) + 1 ELSE Len(tops)
  <2> HIDE DEF tops, limit
  <2>. QED
    BY <1>3, <1>5, PushedList
<1>7. d \in Seq(Nat) /\ d # << >> /\ Falling(d)
  BY <1>6 DEF Took
<1>8. /\ g.map = [stateMap EXCEPT ![s] = d]
      /\ g.heap = IF s \in Entries THEN AdjustedDown(heap, heap.idx[s]) ELSE PushScoreHeap(heap, score, s)
      /\ g.best = [best EXCEPT ![s] = IF s \in Entries THEN Min({best[s], score}) ELSE score]
      /\ g.size = IF Inserted(s, score) THEN size + 1 ELSE size
  BY DEF Grown
<1> HIDE DEF g, d, tops
<1>9. WithList(stateMap, s, d, g.map)
  BY <1>1, <1>7, <1>8, OtherList
<1>10. /\ g.map \in Map /\ g.map[s] = d /\ \A t \in SlmStates : t # s => g.map[t] = stateMap[t]
       /\ EntriesOf(g.map) = Entries \cup {s}
  BY <1>7, <1>9 DEF WithList, EntriesOf, Entries
<1>11. \A t \in SlmStates : Falling(g.map[t])
  BY <1>1, <1>7, <1>10
<1>12. Sound(g.heap) /\ Slms(g.heap) = Entries \cup {s}
  <2>1. CASE s \in Entries
    <3>1. heap.idx[s] \in Nat \ {0}
      BY <1>1, <2>1 DEF Sound, HeapOK, Heap, Known
    <3>2. SameNodes(heap, AdjustedDown(heap, heap.idx[s])) /\ Known(AdjustedDown(heap, heap.idx[s])) = Slms(heap)
      BY <1>1, <3>1, AdjustedDownHeap DEF Sound
    <3>. QED
      BY <1>1, <1>8, <2>1, <3>2 DEF Sound, SameNodes
  <2>2. CASE s \notin Entries
    BY <1>1, <1>3, <1>8, <2>2, PushedHeap
  <2>. QED
    BY <2>1, <2>2
<1>13. Inserted(s, score) <=> Len(d) = Len(tops) + 1
  <2>1. Inserted(s, score) <=> s \notin Entries \/ Len(tops) < threshold[s]
    BY DEF Inserted, tops
  <2>2. Inserted(s, score) <=> Len(tops) < limit
    BY <1>3, <1>4, <2>1
  <2>3. Len(tops) \in Nat
    BY <1>3
  <2> HIDE DEF limit
  <2>. QED
    BY <1>6, <2>2, <2>3
<1>14. /\ IsFiniteSet(PlacesOf(g.map)) /\ g.size = Cardinality(PlacesOf(g.map))
       /\ g.size <= BeamWidth + 1
  <2>1. CASE Inserted(s, score)
    <3>1. /\ PlacesOf(g.map) = PlacesOf(stateMap) \cup {<<s, Len(d)>>}
          /\ <<s, Len(d)>> \notin PlacesOf(stateMap)
      BY <1>1, <1>7, <1>8, <1>13, <2>1, PlaceMore DEF tops
    <3>2. /\ IsFiniteSet(PlacesOf(g.map))
          /\ Cardinality(PlacesOf(g.map)) = Cardinality(PlacesOf(stateMap)) + 1
      BY <1>1, <3>1, FS_AddElement
    <3>3. g.size = size + 1
      BY <1>8, <2>1
    <3>. QED
      BY <1>1, <1>2, <3>2, <3>3
  <2>2. CASE ~Inserted(s, score)
    <3>1. Len(d) = Len(tops)
      BY <1>6, <1>13, <2>2
    <3>2. PlacesOf(g.map) = PlacesOf(stateMap)
      BY <1>1, <1>7, <1>8, <3>1, PlacesSame DEF tops
    <3>. QED
      BY <1>1, <1>2, <1>8, <2>2, <3>2
  <2>. QED
    BY <2>1, <2>2
<1>15. g.best \in [SlmStates -> Nat] /\ \A t \in EntriesOf(g.map) : Last(g.map[t]) = g.best[t]
  <2> DEFINE new == IF s \in Entries THEN Min({best[s], score}) ELSE score
  <2>1. s \in Entries => Last(tops) = best[s] /\ best[s] \in Nat
    BY <1>1 DEF tops
  <2>2. Last(d) = IF tops # << >> /\ Last(tops) <= score THEN Last(tops) ELSE score
    BY <1>6 DEF Took
  <2>3. new \in Nat /\ Last(d) = new
    BY <1>3, <1>4, <2>1, <2>2, MinOfPair
  <2>4. g.best = [best EXCEPT ![s] = new]
    BY <1>8
  <2> HIDE DEF new
  <2>5. /\ g.best \in [SlmStates -> Nat] /\ g.best[s] = new
        /\ \A t \in SlmStates : t # s => g.best[t] = best[t]
    BY <1>1, <2>3, <2>4
  <2>6. ASSUME NEW t \in EntriesOf(g.map)
        PROVE  Last(g.map[t]) = g.best[t]
    <3>1. CASE t = s
      BY <1>10, <2>3, <2>5, <3>1
    <3>2. CASE t # s
      BY <1>1, <1>10, <2>5, <3>2 DEF EntriesOf
    <3>. QED
      BY <3>1, <3>2
  <2>. QED
    BY <2>5, <2>6
<1>16. Len(d) <= limit
  <2>1. Len(tops) \in Nat
    BY <1>3
  <2> HIDE DEF limit
  <2>. QED
    BY <1>5, <1>6, <2>1
<1>17. Agree(g.map, g.heap, g.size, g.best)
  BY <1>10, <1>11, <1>12, <1>14, <1>15 DEF Agree
<1>. QED
  BY <1>7, <1>10, <1>14, <1>16, <1>17 DEF g

\* What the second half of add leaves: the top node is that of an entry, and
\* that entry has a state to lose.
LEMMA PrunedAgrees ==
  ASSUME NEW m, NEW h, NEW n, NEW b, Agree(m, h, n, b), n > BeamWidth,
         NEW g, g = [map |-> m, heap |-> h, best |-> b, size |-> n]
  PROVE  LET p == Pruned(g)
         IN /\ Agree(p.map, p.heap, p.size, p.best)
            /\ p.size = n - 1
            /\ \A t \in SlmStates : Len(p.map[t]) <= Len(m[t])
<1> DEFINE s == h.nodes[1].slm
           left == Tail(m[s])
           p == Pruned(g)
<1>1. /\ m \in Map /\ \A t \in SlmStates : Falling(m[t])
      /\ Sound(h) /\ Slms(h) = EntriesOf(m)
      /\ IsFiniteSet(PlacesOf(m)) /\ n = Cardinality(PlacesOf(m))
      /\ b \in [SlmStates -> Nat] /\ \A t \in EntriesOf(m) : Last(m[t]) = b[t]
  BY DEF Agree
<1>2. n \in Nat /\ n # 0 /\ PlacesOf(m) # {}
  BY <1>1, FS_CardinalityType, FS_EmptySet, LatticeStatesAssumption
<1>3. h.nodes # << >>
  <2>1. PICK x \in PlacesOf(m) : TRUE
    BY <1>2
  <2>2. PICK t \in SlmStates : \E i \in 1 .. Len(m[t]) : x = <<t, i>>
    BY <1>1, Place
  <2>3. m[t] # << >>
    BY <2>2
  <2>4. t \in Slms(h)
    BY <1>1, <2>3 DEF EntriesOf
  <2>. QED
    BY <2>4 DEF Slms
<1>4. s \in EntriesOf(m)
  <2>1. h.nodes \in Seq(Node)
    BY <1>1 DEF Sound, HeapOK, Heap
  <2>2. 1 \in DOMAIN h.nodes
    BY <1>3, <2>1
  <2>. QED
    BY <1>1, <2>2 DEF Slms
<1>5. s \in SlmStates /\ m[s] # << >> /\ m[s] \in Seq(Nat) /\ Falling(m[s]) /\ Last(m[s]) = b[s]
  BY <1>1, <1>4 DEF EntriesOf, Map
<1> HIDE DEF s
<1>6. /\ left \in Seq(Nat) /\ Len(left) = Len(m[s]) - 1 /\ Falling(left)
      /\ left # << >> => Last(left) = Last(m[s])
  BY <1>5, TailList
<1>7. /\ p.map = [m EXCEPT ![s] = left] /\ p.size = n - 1 /\ p.best = b
      /\ p.heap = IF left = << >> THEN PopScoreHeap(h)
                  ELSE AdjustedDown([h EXCEPT !.nodes[1].score = left[1]], 1)
  BY DEF Pruned, s
<1> HIDE DEF p, left
<1>8. WithList(m, s, left, p.map)
  BY <1>1, <1>5, <1>6, <1>7, OtherList
<1>9. /\ p.map \in Map /\ p.map[s] = left /\ \A t \in SlmStates : t # s => p.map[t] = m[t]
      /\ EntriesOf(p.map) = IF left = << >> THEN EntriesOf(m) \ {s} ELSE EntriesOf(m)
  BY <1>4, <1>8 DEF WithList
<1>10. \A t \in SlmStates : Falling(p.map[t])
  BY <1>1, <1>6, <1>9
<1>11. Sound(p.heap) /\ Slms(p.heap) = EntriesOf(p.map)
  <2>1. CASE left = << >>
    <3>1. Sound(PopScoreHeap(h)) /\ Slms(PopScoreHeap(h)) = Slms(h) \ {s}
      BY <1>1, <1>3, PoppedHeap DEF s
    <3>. QED
      BY <1>1, <1>7, <1>9, <2>1, <3>1
  <2>2. CASE left # << >>
    <3> DEFINE top == left[1]
    <3>1. top \in Nat
      BY <1>6, <2>2
    <3>2. p.heap = AdjustedDown([h EXCEPT !.nodes[1].score = top], 1)
      BY <1>7, <2>2
    <3> HIDE DEF top
    <3>3. Sound(p.heap) /\ Slms(p.heap) = Slms(h)
      BY <1>1, <1>3, <3>1, <3>2, RescoredHeap
    <3>. QED
      BY <1>1, <1>9, <2>2, <3>3
  <2>. QED
    BY <2>1, <2>2
<1>12. /\ PlacesOf(m) = PlacesOf(p.map) \cup {<<s, Len(m[s])>>}
       /\ <<s, Len(m[s])>> \notin PlacesOf(p.map)
  <2>1. m = [p.map EXCEPT ![s] = m[s]]
    BY <1>1, <1>5, <1>7 DEF Map
  <2>2. Len(m[s]) \in Nat /\ Len(m[s]) = Len(p.map[s]) + 1
    BY <1>5, <1>6, <1>9
  <2> DEFINE d == m[s]
             q == p.map
  <2>3. q \in Map /\ d \in Seq(Nat) /\ Len(d) = Len(q[s]) + 1 /\ m = [q EXCEPT ![s] = d]
    BY <1>5, <1>9, <2>1, <2>2
  <2> HIDE DEF d, q
  <2>4. /\ PlacesOf([q EXCEPT ![s] = d]) = PlacesOf(q) \cup {<<s, Len(d)>>}
        /\ <<s, Len(d)>> \notin PlacesOf(q)
    BY <1>5, <2>3, PlaceMore
  <2>. QED
    BY <2>3, <2>4 DEF d, q
<1>13. IsFiniteSet(PlacesOf(p.map)) /\ p.size = Cardinality(PlacesOf(p.map))
  <2>1. PlacesOf(p.map) = PlacesOf(m) \ {<<s, Len(m[s])>>} /\ <<s, Len(m[s])>> \in PlacesOf(m)
    BY <1>12
  <2>2. /\ IsFiniteSet(PlacesOf(p.map))
        /\ Cardinality(PlacesOf(p.map)) = Cardinality(PlacesOf(m)) - 1
    BY <1>1, <2>1, FS_RemoveElement
  <2>. QED
    BY <1>1, <1>7, <2>2
<1>14. \A t \in EntriesOf(p.map) : Last(p.map[t]) = b[t]
  <2> SUFFICES ASSUME NEW t \in EntriesOf(p.map)
               PROVE  Last(p.map[t]) = b[t]
    OBVIOUS
  <2>1. t \in SlmStates /\ p.map[t] # << >> /\ t \in EntriesOf(m)
    BY <1>9 DEF EntriesOf
  <2>2. CASE t = s
    BY <1>5, <1>6, <1>9, <2>1, <2>2
  <2>3. CASE t # s
    BY <1>1, <1>9, <2>1, <2>3
  <2>. QED
    BY <2>2, <2>3
<1>15. \A t \in SlmStates : Len(p.map[t]) <= Len(m[t])
  <2>1. \A t \in SlmStates : Len(m[t]) \in Nat
    BY <1>1 DEF Map
  <2>. QED
    BY <1>5, <1>6, <1>9, <2>1
<1>16. Agree(p.map, p.heap, p.size, p.best)
  BY <1>1, <1>7, <1>9, <1>10, <1>11, <1>13, <1>14 DEF Agree
<1>. QED
  BY <1>7, <1>15, <1>16 DEF p

-----------------------------------------------------------------------------
\* The empty frame, and any limit.
LEMMA InitialFrame == Init => LatticeInv
<1> SUFFICES ASSUME Init
             PROVE  LatticeInv
  OBVIOUS
<1>1. Agree(stateMap, heap, size, best)
  BY EmptyFrame DEF Init
<1>2. size <= BeamWidth /\ maxBest \in MaxBests /\ threshold \in [SlmStates -> Nat]
  BY LatticeStatesAssumption DEF Init
<1>3. \A s \in SlmStates : Len(stateMap[s]) <= threshold[s]
  BY DEF Init
<1>. QED
  BY <1>1, <1>2, <1>3 DEF LatticeInv

\* add, with both halves.
LEMMA AddKeeps ==
  ASSUME LatticeInv, NEW s \in SlmStates, NEW score \in Scores, add(s, score)
  PROVE  LatticeInv'
<1> DEFINE grown == Grown(s, score)
           after == IF grown.size > BeamWidth THEN Pruned(grown) ELSE grown
           limit(t) == IF t \in Entries THEN threshold[t] ELSE maxBest
<1>1. /\ Agree(grown.map, grown.heap, grown.size, grown.best)
      /\ grown.size <= BeamWidth + 1
      /\ grown.map[s] # << >>
      /\ Len(grown.map[s]) <= limit(s)
      /\ \A t \in SlmStates : t # s => grown.map[t] = stateMap[t]
  BY GrownAgrees
<1>2. grown = [map |-> grown.map, heap |-> grown.heap, best |-> grown.best, size |-> grown.size]
  BY DEF Grown
<1>3. /\ stateMap' = after.map /\ heap' = after.heap /\ size' = after.size
      /\ best' = [t \in SlmStates |-> IF after.map[t] = << >> THEN 0 ELSE after.best[t]]
      /\ threshold' = [t \in SlmStates |-> IF after.map[t] = << >> THEN 0 ELSE limit(t)]
      /\ maxBest' = maxBest
  BY Zenon DEF add
<1>4. /\ BeamWidth \in Nat /\ grown.size \in Nat /\ maxBest \in MaxBests /\ maxBest \in Nat
      /\ threshold \in [SlmStates -> Nat]
      /\ \A t \in SlmStates : Len(stateMap[t]) <= threshold[t]
      /\ grown.map \in Map
  BY <1>1, FS_CardinalityType, LatticeStatesAssumption DEF LatticeInv, Agree
<1>5. \A t \in SlmStates : limit(t) \in Nat
  BY <1>4
<1> HIDE DEF grown
<1>6. /\ Agree(after.map, after.heap, after.size, after.best)
      /\ after.size <= BeamWidth
      /\ \A t \in SlmStates : Len(after.map[t]) <= Len(grown.map[t])
  <2>1. CASE grown.size > BeamWidth
    <3>1. after = Pruned(grown)
      BY <2>1
    <3> HIDE DEF after
    <3>2. /\ Agree(after.map, after.heap, after.size, after.best)
          /\ after.size = grown.size - 1
          /\ \A t \in SlmStates : Len(after.map[t]) <= Len(grown.map[t])
      BY <1>1, <1>2, <2>1, <3>1, PrunedAgrees
    <3>. QED
      BY <1>1, <1>4, <3>2
  <2>2. CASE ~(grown.size > BeamWidth)
    <3>1. after = grown
      BY <2>2
    <3> HIDE DEF after
    <3>2. \A t \in SlmStates : Len(grown.map[t]) \in Nat
      BY <1>4 DEF Map
    <3>. QED
      BY <1>1, <1>4, <2>2, <3>1, <3>2
  <2>. QED
    BY <2>1, <2>2
<1> HIDE DEF after, limit
<1>7. Agree(after.map, after.heap, after.size, best')
  <2>1. after.best \in [SlmStates -> Nat] /\ after.map \in Map
    BY <1>6 DEF Agree
  <2>2. best' \in [SlmStates -> Nat] /\ \A t \in EntriesOf(after.map) : best'[t] = after.best[t]
    BY <1>3, <2>1 DEF EntriesOf
  <2>. QED
    BY <1>6, <2>2 DEF Agree
<1>8. Agree(stateMap, heap, size, best)' /\ size' <= BeamWidth
  BY <1>3, <1>6, <1>7
<1>9. threshold' \in [SlmStates -> Nat]
  BY <1>3, <1>5
<1>10. ASSUME NEW t \in SlmStates
       PROVE  Len(after.map[t]) <= threshold'[t]
  <2>1. CASE after.map[t] = << >>
    BY <1>3, <2>1
  <2>2. CASE after.map[t] # << >> /\ t = s
    <3>1. threshold'[t] = limit(s)
      BY <1>3, <2>2
    <3>2. Len(after.map[s]) <= Len(grown.map[s]) /\ Len(grown.map[s]) <= limit(s)
      BY <1>1, <1>6
    <3>3. Len(after.map[s]) \in Nat /\ Len(grown.map[s]) \in Nat /\ limit(s) \in Nat
      BY <1>4, <1>5, <1>6 DEF Map, Agree
    <3>. QED
      BY <2>2, <3>1, <3>2, <3>3
  <2>3. CASE after.map[t] # << >> /\ t # s
    <3>1. threshold'[t] = limit(t) /\ grown.map[t] = stateMap[t]
      BY <1>1, <1>3, <2>3
    <3>2. /\ Len(after.map[t]) \in Nat /\ Len(grown.map[t]) \in Nat /\ after.map[t] \in Seq(Nat)
          /\ grown.map[t] \in Seq(Nat) /\ threshold[t] \in Nat
      BY <1>4, <1>6 DEF Map, Agree
    <3>3. Len(after.map[t]) <= Len(grown.map[t]) /\ Len(grown.map[t]) <= threshold[t]
      BY <1>4, <1>6, <3>1
    <3>4. stateMap[t] # << >>
      <4>1. Len(after.map[t]) # 0
        BY <2>3, <3>2
      <4>. QED
        BY <3>1, <3>2, <3>3, <4>1
    <3>5. limit(t) = threshold[t]
      BY <3>4 DEF limit, Entries
    <3>. QED
      BY <3>1, <3>2, <3>3, <3>5
  <2>. QED
    BY <2>1, <2>2, <2>3
<1>. QED
  BY <1>3, <1>4, <1>8, <1>9, <1>10 DEF LatticeInv

\* add is the only step that takes any doing.
LEMMA StepKeeps == LatticeInv /\ [Next]_vars => LatticeInv'
<1> SUFFICES ASSUME LatticeInv, [Next]_vars
             PROVE  LatticeInv'
  OBVIOUS
<1>1. ASSUME NEW s \in SlmStates, NEW score \in Scores, add(s, score)
      PROVE  LatticeInv'
  BY <1>1, AddKeeps
<1>2. CASE clear
  <2>1. Agree(stateMap, heap, size, best)'
    BY <1>2, EmptyFrame DEF clear
  <2>2. (size <= BeamWidth)' /\ (maxBest \in MaxBests)' /\ (threshold \in [SlmStates -> Nat])'
    BY <1>2, LatticeStatesAssumption DEF clear, LatticeInv
  <2>3. \A s \in SlmStates : Len(stateMap'[s]) <= threshold'[s]
    BY <1>2 DEF clear
  <2>. QED
    BY <2>1, <2>2, <2>3 DEF LatticeInv
<1>3. ASSUME NEW n \in MaxBests, setMaxBest(n)
      PROVE  LatticeInv'
  BY <1>3 DEF setMaxBest, LatticeInv, Agree
<1>4. CASE UNCHANGED vars
  BY <1>4 DEF vars, LatticeInv, Agree
<1>. QED
  BY <1>1, <1>2, <1>3, <1>4 DEF Next

\* The inductive invariant of a frame.
THEOREM FrameInvariant == Spec => []LatticeInv
BY InitialFrame, StepKeeps, PTL DEF Spec

\* For any number of language model states, any beam and any limits, the heap
\* has one node for each entry of the map and the size is that of the map.
THEOREM HeapAlwaysCoversMap == Spec => []HeapCoversMap
<1>1. LatticeInv => HeapCoversMap
  <2> SUFFICES ASSUME LatticeInv
               PROVE  HeapCoversMap
    OBVIOUS
  <2>1. /\ Sound(heap) /\ Slms(heap) = Entries /\ size = Cardinality(Kept) /\ size <= BeamWidth
    BY DEF LatticeInv, Agree, Entries, EntriesOf, Kept, PlacesOf
  <2>2. \A s \in SlmStates : s \in Entries <=> heap.idx[s] # 0
    BY <2>1 DEF Sound, Known
  <2> DEFINE n == Len(heap.nodes)
             f == [i \in 1 .. n |-> heap.nodes[i].slm]
  <2>3. n \in Nat /\ DOMAIN heap.nodes = 1 .. n
    BY <2>1 DEF Sound, HeapOK, Heap
  <2>4. \A i, j \in 1 .. n : f[i] = f[j] => i = j
    BY <2>1, <2>3 DEF Sound, HeapOK, Distinct
  <2>5. \A s \in Entries : \E i \in 1 .. n : f[i] = s
    BY <2>1, <2>3 DEF Slms
  <2>6. \A i \in 1 .. n : f[i] \in Entries
    BY <2>1, <2>3 DEF Slms
  <2>7. f \in Bijection(1 .. n, Entries)
    BY <2>4, <2>5, <2>6, Fun_IsBij
  <2> HIDE DEF f, n
  <2>8. ExistsBijection(1 .. n, Entries)
    BY <2>7 DEF ExistsBijection
  <2>9. n = Cardinality(Entries)
    BY <2>3, <2>8, FS_Bijection, FS_Interval
  <2>. QED
    BY <2>1, <2>2, <2>9 DEF HeapCoversMap, Slms, n
<1>. QED
  BY <1>1, FrameInvariant, PTL

\* As long as a language model state has an entry the best it was given is in
\* it, whatever is pruned and however often the limits change.
THEOREM BestIsKept == Spec => []BestOfEachKept
<1>1. LatticeInv => BestOfEachKept
  BY DEF LatticeInv, Agree, BestOfEachKept, Entries, EntriesOf
<1>. QED
  BY <1>1, FrameInvariant, PTL
=============================================================================
