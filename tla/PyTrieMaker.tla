---------------------------- MODULE PyTrieMaker -----------------------------
(***************************************************************************)
(* CPyTrieMaker (src/src/pinyin/lexicon/pytrie_maker.cpp, over             *)
(* src/src/common/lexicon/trie_maker.cpp) turns the dictionary into the    *)
(* trie that CTrie (trie.h) walks while the user types.                    *)
(*                                                                         *)
(* The words are put into a tree by their syllables.  Then every node of   *)
(* the tree gets, for each initial, a transition to all the children that  *)
(* begin with it: to the child itself when there is one, else to a node    *)
(* that stands for the set of them.  Such a node is given the transitions  *)
(* of its members when its turn comes; a set that has a node already       *)
(* shares it.  Nodes made on the way go to the end of the same list.       *)
(*                                                                         *)
(* A node is known by its place in m_AllNodes.  The file is abstracted: a  *)
(* node's offset is its place, and the counts of words and of transitions  *)
(* fit the 12 and 13 bits they have there.                                 *)
(***************************************************************************)
EXTENDS PinyinData

\* CPyTreeNode: the transitions by syllable, the words, each its id and its
\* cost, and for a node that stands for a set of nodes that set.
NewNode == [trans |-> << >>, words |-> {}, cmb |-> {}, expanded |-> TRUE]

(* m_AllNodes, the root first; m_StateMap, from sets of nodes; where the   *)
(* loop of threadNonCompletePinyin stands.                                 *)
EmptyTrie == [nodes |-> <<NewNode>>, map |-> << >>, at |-> 1]

\* f with x mapped to y.
With(f, x, y) == [z \in DOMAIN f \cup {x} |-> IF z = x THEN y ELSE f[z]]

(* insertWordId: of a word that is there already the cheaper one stays.    *)
WithWord(words, w) ==
  LET same == {v \in words : v.id = w.id}
  IN IF \E v \in same : v.cost <= w.cost THEN words ELSE (words \ same) \cup {w}

(* insertTransfer: the child of pnode for s, made if it is not there.      *)
Transferred(c, s) ==
  LET n == Len(c.nodes) + 1
  IN IF s \in DOMAIN c.nodes[c.at].trans
     THEN [c EXCEPT !.at = c.nodes[c.at].trans[s]]
     ELSE [nodes |-> Append([c.nodes EXCEPT ![c.at].trans = With(@, s, n)], NewNode), at |-> n]

(* insertPair                                                              *)
WithPair(t, reading, id) ==
  LET c == FoldLeft(Transferred, [nodes |-> t.nodes, at |-> 1], reading.syls)
  IN [t EXCEPT !.nodes =
       [c.nodes EXCEPT ![c.at].words = WithWord(@, [id |-> id, cost |-> reading.cost])]]

(* constructFromLexicon: one turn of its loop, a line of the dictionary,   *)
(* [id, readings]; a reading is [syls, cost].                              *)
WithLine(t, line) == FoldLeft(LAMBDA u, r : WithPair(u, r, line.id), t, line.readings)

-----------------------------------------------------------------------------
(* addCombinedTransfers                                                    *)
Combined(t, k, s, members) ==
  LET n     == Len(t.nodes) + 1
      words == FoldSet(LAMBDA w, acc : WithWord(acc, w), {},
                       UNION {t.nodes[m].words : m \in members})
      node  == [NewNode EXCEPT !.words = words, !.cmb = members, !.expanded = FALSE]
  IN IF Cardinality(members) = 1
     THEN [t EXCEPT !.nodes[k].trans = With(@, s, CHOOSE m \in members : TRUE)]
     ELSE [t EXCEPT !.nodes = Append([@ EXCEPT ![k].trans = With(@, s, n)], node),
                    !.map = With(@, members, n)]

(* combineInitialTrans                                                     *)
InitialsCombined(t, k) ==
  LET trans == t.nodes[k].trans
      comb  == {Initial(s) : s \in {s \in DOMAIN trans : s.ini # << >>}}
  IN FoldSet(LAMBDA i, u : Combined(u, k, i, {trans[s] : s \in {s \in DOMAIN trans : s.ini = i.ini}}),
             t, comb)

\* Mutation of Expanded: only the members' transitions by full syllables.
ExpandedFull(t, k) ==
  LET members == t.nodes[k].cmb
      comb == {s \in UNION {DOMAIN t.nodes[m].trans : m \in members} : isFullSyllable(s)}
      Over(s) == {t.nodes[m].trans[s] : m \in {m \in members : s \in DOMAIN t.nodes[m].trans}}
  IN FoldSet(LAMBDA s, u :
               IF Over(s) \in DOMAIN u.map
               THEN [u EXCEPT !.nodes[k].trans = With(@, s, u.map[Over(s)])]
               ELSE Combined(u, k, s, Over(s)),
             t, comb)
(* expandCombinedNode                                                      *)
Expanded(t, k) ==
  LET members == t.nodes[k].cmb
      comb == UNION {DOMAIN t.nodes[m].trans : m \in members}
      Over(s) == {t.nodes[m].trans[s] : m \in {m \in members : s \in DOMAIN t.nodes[m].trans}}
  IN FoldSet(LAMBDA s, u :
               IF Over(s) \in DOMAIN u.map
               THEN [u EXCEPT !.nodes[k].trans = With(@, s, u.map[Over(s)])]
               ELSE Combined(u, k, s, Over(s)),
             t, comb)

(* threadNonCompletePinyin: one turn of its loop over m_AllNodes.          *)
Threaded(t) == t.at > Len(t.nodes)
Thread(t) ==
  LET u == IF t.nodes[t.at].expanded THEN InitialsCombined(t, t.at)
           ELSE [Expanded(t, t.at) EXCEPT !.nodes[t.at].expanded = TRUE]
  IN [u EXCEPT !.at = @ + 1]

-----------------------------------------------------------------------------
(* CTrie: the trie as it is loaded.  0 is no node.                         *)

transfer(t, node, s) ==
  IF node # 0 /\ s \in DOMAIN t.nodes[node].trans THEN t.nodes[node].trans[s] ELSE 0
Reached(t, units) == FoldLeft(LAMBDA n, s : transfer(t, n, s), 1, units)
WordsAt(t, node) == IF node = 0 THEN {} ELSE t.nodes[node].words
=============================================================================
