----------------------------- MODULE XhTrieMaker ----------------------------
(***************************************************************************)
(* How the dictionary of Xinghua becomes a trie: DictConv                  *)
(* (src/src/xh/lexicon/DictConv.cpp) writes the words in the codes of      *)
(* their characters, and CXhTrieMaker (src/src/xh/lexicon/xh/) puts them   *)
(* into a tree, unit by unit.  Then every node is told how often a stroke  *)
(* repeats at most in its component, is given the words below it in the    *)
(* same character, and loses them again where they are too many; and from  *)
(* inside a character transitions are laid to the patterns that may follow *)
(* its end.                                                                *)
(*                                                                         *)
(* A node is known by its way from the root.  Where a pattern leads to     *)
(* several nodes the code makes a pseudo node over them; it is known by    *)
(* the set of them.  The words of a node are kept as a set: what orders    *)
(* them by their cost is CUnigramSorter's.                                 *)
(***************************************************************************)
EXTENDS Integers, Sequences, FiniteSets, SequencesExt

(***************************************************************************)
(* The code of Xinghua (src/src/xh/input/xh_data.{h,cpp}).  A character is *)
(* written as its pattern and then its components, each opened by a        *)
(* boundary and spelled by its strokes.  xhDataMaps names patterns,        *)
(* strokes and boundaries and gives each a key; several share one.         *)
(***************************************************************************)
CONSTANT xhDataMaps   \* the table: [key, kind, name, first]; kind is the
                      \* first letter of the name: P, S or B

ASSUME DataAssumption ==
  \A k \in DOMAIN xhDataMaps : /\ xhDataMaps[k].kind \in {"P", "S", "B"}
                               /\ xhDataMaps[k].first \in BOOLEAN

Digits == {"0", "1", "2", "3", "4", "5", "6", "7", "8", "9"}
DigitValue(ch) == CHOOSE n \in 0 .. 9 : ToString(n) = ch

(* findPair by key: the first of the entries that have it.                 *)
XhKeys == {xhDataMaps[k].key : k \in DOMAIN xhDataMaps}
pairs ==
  [ch \in XhKeys |-> xhDataMaps[Min({k \in DOMAIN xhDataMaps : xhDataMaps[k].key = ch})]]

isPattern(ch) == ch \in XhKeys /\ pairs[ch].kind = "P"
isStroke(ch) == ch \in XhKeys /\ pairs[ch].kind = "S"
isFirstStroke(ch) == ch \in XhKeys /\ pairs[ch].first
isBoundary(ch) == ch \in {"B", "L"}
isLastBoundary(ch) == ch = "L"
isSplitter(ch) == isBoundary(ch) \/ isPattern(ch)
isCharComp(ch) == isBoundary(ch) \/ isStroke(ch)

\* findPair by name, and encode of the names of a code: what the table does
\* not name is left out (CTrieMaker::parseUnit).
Named(name) == {k \in DOMAIN xhDataMaps : xhDataMaps[k].name = name}
Encoded(names) ==
  LET known == SelectSeq(names, LAMBDA name : Named(name) # {})
  IN [k \in DOMAIN known |-> xhDataMaps[Min(Named(known[k]))].key]
-----------------------------------------------------------------------------
CONSTANTS MaxStrokeModulus,  \* TThreadNode::m_nMaxStroke is a bit field of 3 bits: 8
          WordIdModulus      \* TThreadNode::m_nWordId is one of 12 bits: 4096

ASSUME MakerAssumption == MaxStrokeModulus \in Nat \ {0} /\ WordIdModulus \in Nat \ {0}

-----------------------------------------------------------------------------
(* DictConv                                                                *)

NoCode == <<"XXX">>

(* convertDictUsingLexicon: every word is written with the next number,    *)
(* also one with a character that the lexicon does not have, of which no   *)
(* code can be read; but then the number is given out again.               *)
Converted(lexicon, words) ==
  LET Known(w) == Range(w) \subseteq DOMAIN lexicon
      Code(w) == IF Known(w) THEN FoldLeft(LAMBDA c, ch : c \o lexicon[ch], << >>, w) ELSE NoCode
      Id(k) == 100 + Cardinality({i \in 1 .. k - 1 : Known(words[i])})
  IN [k \in DOMAIN words |-> [word |-> words[k], id |-> Id(k), code |-> Code(words[k])]]

-----------------------------------------------------------------------------
(* The tree.  trans: the children of a node; words: each with its number,  *)
(* the length of its code and whether it came from further down; names is  *)
(* m_Lexicon.                                                              *)
EmptyTrie ==
  [nodes |-> {<< >>}, trans |-> [n \in {<< >>} |-> {}], words |-> [n \in {<< >>} |-> {}],
   names |-> << >>, own |-> {}, most |-> << >>, link |-> << >>]

\* f with x mapped to y.
With(f, x, y) == [z \in DOMAIN f \cup {x} |-> IF z = x THEN y ELSE f[z]]

Children(t, n) == t.trans[n]

(* constructFromLexicon: one turn of its loop; insertPair, insertTransfer. *)
WithLine(t, line) ==
  LET named == [t EXCEPT !.names = With(@, line.id, line.word)]
      code  == Encoded(line.code)
      way   == {SubSeq(code, 1, k) : k \in 0 .. Len(code)}
      nodes == t.nodes \cup way
      word  == [id |-> line.id, stk |-> Len(code), foreign |-> FALSE]
  IN IF line.code = NoCode \/ code = << >> THEN named
     ELSE [named EXCEPT !.nodes = nodes,
                        !.trans = [n \in nodes |-> {m \in nodes : m # << >> /\ Front(m) = n}],
                        !.words = [n \in nodes |-> (IF n \in t.nodes THEN @[n] ELSE {})
                                                   \cup (IF n = code THEN {word} ELSE {})]]

-----------------------------------------------------------------------------
(* Path, of lexicon/xh/path.cpp                                            *)

\* The strokes behind the last pattern or boundary on the way to n: trans.
Partial(n) ==
  LET cut == {k \in DOMAIN n : isSplitter(n[k])}
  IN SubSeq(n, (IF cut = {} THEN 0 ELSE Max(cut)) + 1, Len(n))

(* getMostPopularPartialNum                                                *)
MostPopular(strokes) ==
  Max({0} \cup {Cardinality({k \in DOMAIN strokes : strokes[k] = s}) : s \in Range(strokes)})

(* buildTrieInfo: m_nMaxStroke, before it is written.                      *)
Most(t) ==
  LET most[n \in t.nodes] ==
        LET subs == Children(t, n)
        IN IF subs = {} THEN MostPopular(Partial(n))
           ELSE Max({IF isSplitter(Last(m)) THEN MostPopular(Partial(n)) ELSE most[m] : m \in subs})
  IN most

(* buildTrieInfo: a node gets the words below it that no pattern cuts off; *)
(* the root gets none.                                                     *)
Gathered(t) ==
  LET Foreign(words) == {[w EXCEPT !.foreign = TRUE] : w \in words}
      all[n \in t.nodes] ==
        IF n = << >> THEN t.words[n]
        ELSE t.words[n] \cup UNION {Foreign(all[m]) : m \in {m \in Children(t, n) : ~isPattern(Last(m))}}
  IN all

buildTrieInfo(t) ==
  [t EXCEPT !.own = {n \in t.nodes : t.words[n] # {}}, !.most = Most(t), !.words = Gathered(t)]

-----------------------------------------------------------------------------
(* CXhTrieMaker                                                            *)

Patterns(n) == {k \in DOMAIN n : isPattern(n[k])}
Boundaries(n) == {k \in DOMAIN n : isBoundary(n[k])}

(* clearUpWordIds: the boundaries of the first character have no words.    *)
BoundaryOfFirst(n) == n # << >> /\ isBoundary(Last(n)) /\ Patterns(n) \subseteq {1}

(* clearUpSinglePartialWordIds: the first two strokes of the first         *)
(* component offer their own words only, if they have any.                 *)
FirstStrokes(n) ==
  /\ n # << >> /\ isStroke(Last(n))
  /\ Cardinality(Patterns(n)) <= 1 /\ Cardinality(Boundaries(n)) <= 1
  /\ Len(n) - Cardinality(Patterns(n)) - Cardinality(Boundaries(n)) <= 2

clearUp(t) ==
  [t EXCEPT !.words = [n \in t.nodes |->
     CASE BoundaryOfFirst(n)                 -> {}
       [] FirstStrokes(n) /\ n \in t.own     -> {w \in @[n] : ~w.foreign}
       [] OTHER                              -> @[n]]]

\* Mutation of linkWordsTogether: only what follows the node's own children.
linkNearest(t) ==
  [t EXCEPT !.link = [n \in t.nodes |->
     [p \in {Last(m) : m \in {m \in Children(t, n) : isPattern(Last(m))}} |-> {Append(n, p)}]]]
(* linkWordsTogether: the patterns that may follow a node, its own and     *)
(* those its children below pass up, each with the nodes it leads to.      *)
linkWordsTogether(t) ==
  LET next[n \in t.nodes] ==
        LET subs == Children(t, n)
            up   == {m \in subs : isCharComp(Last(m))}
            own  == {m \in subs : isPattern(Last(m))}
        IN [p \in UNION {DOMAIN next[m] : m \in up} \cup {Last(m) : m \in own} |->
              UNION {next[m][p] : m \in {m \in up : p \in DOMAIN next[m]}}
              \cup {m \in own : Last(m) = p}]
  IN [t EXCEPT !.link = next]

\* Of the words of a node those that are read again: as many as the bits of
\* m_nWordId say, of words sorted by a cost that is left open here.
Counted(words) ==
  LET n == Cardinality(words) % WordIdModulus
  IN IF n = Cardinality(words) THEN words ELSE CHOOSE kept \in kSubset(n, words) : TRUE

\* As it is written and loaded (write).
Written(t) == [t EXCEPT !.most = [n \in DOMAIN @ |-> @[n] % MaxStrokeModulus],
                        !.words = [n \in DOMAIN @ |-> Counted(@[n])]]

threadNonCompletedXh(t) == Written(linkWordsTogether(clearUp(buildTrieInfo(t))))
=============================================================================
