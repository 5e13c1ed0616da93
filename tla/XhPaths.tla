------------------------------- MODULE XhPaths ------------------------------
(***************************************************************************)
(* How a key moves on in the trie: PathNode, Path and TrieBranch           *)
(* (src/src/xh/input/segment/pathnode.{h,cpp}, path.{h,cpp}).              *)
(*                                                                         *)
(* A branch is a way through the trie, and the place on it the keys have   *)
(* reached is the node now.  A stroke need not be the next one.  In the    *)
(* last component it must; elsewhere it is looked for in the component     *)
(* that follows, as one key is enough for a component; and behind a number *)
(* it is looked for that many times in the rest of this one.  Each way to  *)
(* find it makes a branch.  Which object a branch reuses, and the order of *)
(* branches, are left out.                                                 *)
(***************************************************************************)
EXTENDS XhTrieMaker

\* PathNode: the node of the trie, the unit that led to it, m_Level and the
\* two flags of its component.
PathNode(at, unit, level) ==
  [at |-> at, unit |-> unit, flag |-> "FUTURE", level |-> level, first |-> FALSE, last |-> FALSE]

(* getChildren, getChildrenFromPesudoTNode: by a pattern the nodes it      *)
(* leads to, by anything else all that goes on within the character.       *)
getChildren(t, pn, s) ==
  IF isPattern(s)
  THEN {PathNode(m, s, pn.level + 1) : m \in IF s \in DOMAIN t.link[pn.at] THEN t.link[pn.at][s] ELSE {}}
  ELSE {PathNode(m, Last(m), pn.level + 1) : m \in {m \in Children(t, pn.at) : isCharComp(Last(m))}}

-----------------------------------------------------------------------------
(* Path: the nodes, and which of them is now; 0 is the pseudo head.        *)

EmptyPath == [nodes |-> << >>, now |-> 0]

Added(p, node) ==
  IF p.nodes = << >> THEN [nodes |-> <<node>>, now |-> 1]
  ELSE IF node.flag = "JUSTNOW"
  THEN [nodes |-> Append([p.nodes EXCEPT ![p.now].flag = "HISTORY"], node), now |-> Len(p.nodes) + 1]
  ELSE [p EXCEPT !.nodes = Append(@, node)]

\* push_front; the node pushed is never now.
PushedFront(p, node) == [nodes |-> <<node>> \o p.nodes, now |-> p.now + 1]

\* operator=: the nodes are added one by one.
Copied(p) == FoldLeft(Added, EmptyPath, p.nodes)
addPathInfo(branch, p) == FoldLeft(Added, branch, p.nodes)
Now(p) == p.nodes[p.now]

JustNow(node) == Added(EmptyPath, [node EXCEPT !.flag = "JUSTNOW"])

(* next(s), behind the pseudo head: now moves on up to the node before the *)
(* first one that s leads to.                                              *)
WithPseudoHead(p) == [p EXCEPT !.now = 0]
MovedTo(p, k) ==
  [nodes |-> [i \in DOMAIN p.nodes |->
                [p.nodes[i] EXCEPT !.flag = IF i < k THEN "HISTORY" ELSE IF i = k THEN "JUSTNOW" ELSE @]],
   now |-> k]
CheckPoints(p, s) == {k \in DOMAIN p.nodes : p.nodes[k].unit = s}
(* checkNumInPath: s is found often enough, and now is its last place.     *)
checkNumInPath(p, s, num) ==
  LET cps   == CheckPoints(p, s)
      moved == MovedTo(p, Min(cps) - 1)
  IN IF Cardinality(cps) < num THEN {}
     ELSE {[moved EXCEPT !.nodes[Max(cps)].flag = "JUSTNOW", !.now = Max(cps)]}

-----------------------------------------------------------------------------
RECURSIVE findFirstSubNodeInPartial(_, _, _), tryNextPartial(_, _, _), findAllSubNode(_, _, _, _, _)

(* The first place of the stroke in a component; some strokes only count   *)
(* as the very first.                                                      *)
findFirstSubNodeInPartial(t, pn, s) ==
  UNION {LET node == [c EXCEPT !.last = pn.last]
         IN IF c.unit = s THEN {JustNow(node)}
            ELSE IF isFirstStroke(s) /\ pn.first THEN {}
            ELSE {PushedFront(p, node) : p \in findFirstSubNodeInPartial(t, node, s)} :
         c \in {c \in getChildren(t, pn, s) : ~isBoundary(c.unit)}}

Opened(c) == [c EXCEPT !.first = TRUE, !.last = isLastBoundary(c.unit)]

\* Of what is skipped up to the boundary the path keeps nothing.
tryNextPartial(t, pn, s) ==
  UNION {IF isBoundary(c.unit) THEN findFirstSubNodeInPartial(t, Opened(c), s)
         ELSE tryNextPartial(t, c, s) : c \in getChildren(t, pn, s)}

\* Mutation of findNextSubNode: the last component is as the others.
findNextAnywhere(t, pn, s) ==
  LET Behind(c) == IF isBoundary(c.unit)
                   THEN {PushedFront(p, Opened(c)) : p \in findFirstSubNodeInPartial(t, Opened(c), s)}
                   ELSE {PushedFront(p, c) : p \in tryNextPartial(t, c, s)}
  IN UNION {IF c.unit = s /\ isPattern(s) THEN {JustNow(c)} ELSE Behind(c) :
            c \in getChildren(t, pn, s)}
findNextSubNode(t, pn, s) ==
  LET Behind(c) == IF isBoundary(c.unit)
                   THEN {PushedFront(p, Opened(c)) : p \in findFirstSubNodeInPartial(t, Opened(c), s)}
                   ELSE {PushedFront(p, c) : p \in tryNextPartial(t, c, s)}
  IN UNION {IF c.unit = s /\ isPattern(s) THEN {JustNow(c)}
            ELSE IF ~pn.last THEN Behind(c)
            ELSE IF c.unit = s THEN {JustNow([c EXCEPT !.last = TRUE])} ELSE {} :
            c \in getChildren(t, pn, s)}

findAllSubNode(t, pn, s, num, path) ==
  UNION {LET further == Added(Copied(path), c)
         IN {Copied(p) : p \in checkNumInPath(WithPseudoHead(further), s, num)}
            \cup findAllSubNode(t, c, s, num, further) :
         c \in {c \in getChildren(t, pn, s) : t.most[c.at] >= num /\ ~isBoundary(c.unit)}}

(* Path::forward, TrieBranch                                               *)
forward(t, branch, s, num) ==
  {addPathInfo(branch, p) : p \in IF num > 1 THEN findAllSubNode(t, Now(branch), s, num, EmptyPath)
                                  ELSE findNextSubNode(t, Now(branch), s)}
=============================================================================
