------------------------------- MODULE XhInput ------------------------------
(***************************************************************************)
(* Xinghua from the dictionary to the words on offer.  The trie is made    *)
(* (XhTrieMaker) and loaded; CXhSegmentor (XhSegmentor) cuts what is       *)
(* typed; after every edit the frames from updatedFrom on are cleared and  *)
(* CXhLatticeManager forwards the segments there again                     *)
(* (TXhSyllableSegment, over XhPaths).                                     *)
(*                                                                         *)
(* Frame f stands after the f-th key and holds the lexicon states of the   *)
(* segments that end there.  The keys are patterns, strokes and the        *)
(* numbers 1 to 5, which are all that the view leaves to the input; a      *)
(* separator does here what it does in PinyinInput.                        *)
(***************************************************************************)
EXTENDS XhPaths

CONSTANTS
  Setups,      \* what to look at: [typed, keys, edits], the keys that are
               \* typed, how many at most, and whether also inside the input
  Lexicon,     \* the codes of the characters
  Words,       \* the dictionary: sequences of characters
  MaxKeys,     \* bound: the keys of any input
  LenModulus   \* of XhSegmentor

ASSUME InputAssumption ==
  /\ MaxKeys \in Nat
  /\ \A s \in Setups : s.keys \in 0 .. MaxKeys /\ s.edits \in BOOLEAN
  /\ \A s \in Setups, ch \in UNION {x.typed : x \in Setups} :
       isPattern(ch) \/ isStroke(ch) \/ ch \in {"1", "2", "3", "4", "5"}

Seg == INSTANCE XhSegmentor

VARIABLES
  setup,   \* of Setups
  line,    \* how many lines of the converted dictionary were read
  trie,    \* the trie being made, then loaded
  keys,    \* m_inputBuf
  sg,      \* the segmentor, which sees classes of keys
  frames,  \* CLatticeManager::m_lattice
  tail     \* m_tailIdx

vars == <<setup, line, trie, keys, sg, frames, tail>>
making == <<setup, line, trie>>
typing == <<keys, sg, frames, tail>>

lines == Converted(Lexicon, Words)
Class(ch) == IF isPattern(ch) THEN "pattern" ELSE "stroke"
Frames == 0 .. MaxKeys + 1

\* TXhLexiconState: where it starts, its node (<< >> for none), how many
\* segments it has, and getClass.
LexState(start, node, syls, class) == [start |-> start, node |-> node, syls |-> syls, class |-> class]
ClearFrames == [f \in Frames |-> {}]

-----------------------------------------------------------------------------
(* TXhSyllableSegment.  cur: m_TrieBranches and m_FwdStrokeNum.            *)

\* prepare; JUSTNOW is taken for the flag of the first in its component.
Prepared(node) ==
  [branches |-> {Added(EmptyPath, [PathNode(node, "", 0) EXCEPT !.first = TRUE])}, num |-> 1]

(* _forwardNumber, _forwardStroke                                          *)
forwardSingleSyllable(cur, ch) ==
  IF ch \in Digits
  THEN [branches |-> {b \in cur.branches : trie.most[Now(b).at] >= DigitValue(ch)},
        num      |-> DigitValue(ch)]
  ELSE [branches |-> UNION {forward(trie, b, ch, cur.num) : b \in cur.branches}, num |-> 1]

\* _forwardFromTNode: the places that the keys lead to.
forwardFromTNode(node, ks) ==
  {Now(b) : b \in FoldLeft(forwardSingleSyllable, Prepared(node), ks).branches}

(* forward: only the longest words so far go on; and from the root.        *)
forwardSyllable(lex, i, ks) ==
  UNION {{LexState(x.start, pn.at, x.syls + 1, pn.level) : pn \in forwardFromTNode(x.node, ks)} :
           x \in {x \in lex : x.node # << >> /\ \A y \in lex : y.syls <= x.syls}}
  \cup {LexState(i, pn.at, 1, pn.level) : pn \in forwardFromTNode(<< >>, ks)}

\* TSegment::forward; a string takes part as one word of its own.
Forwarded(ks, frs, seg) ==
  LET i == seg.start
      j == Seg!End(seg)
  IN [frs EXCEPT ![j] = @ \cup IF seg.type = "syllable"
                               THEN forwardSyllable(frs[i], i, SubSeq(ks, i + 1, j))
                               ELSE {LexState(i, << >>, 0, 0)}]

(* CXhLatticeManager::buildLexiconStates, over cleared frames.             *)
Built(frs, segs, ks, from) ==
  LET again == SelectSeq(segs, LAMBDA seg : from > 0 /\ seg.start >= from - 1)
      end   == IF segs = << >> THEN 0 ELSE Seg!End(Last(segs))
  IN [FoldLeft(LAMBDA f, seg : Forwarded(ks, f, seg), frs, again) EXCEPT
        ![end + 1] = @ \cup {LexState(end, << >>, 0, 0)}]

Edited(s, ks) ==
  LET from == Seg!RebuildFrom(s)
      kept == [f \in Frames |-> IF f \in from .. tail THEN {} ELSE frames[f]]
  IN /\ sg' = s /\ keys' = ks
     /\ frames' = Built(kept, s.segs, ks, from)
     /\ tail' = (IF s.segs = << >> THEN 0 ELSE Seg!End(Last(s.segs))) + 1
     /\ UNCHANGED making

-----------------------------------------------------------------------------
Init ==
  /\ setup \in Setups /\ line = 0 /\ trie = EmptyTrie
  /\ keys = << >> /\ sg = Seg!Cleared /\ frames = ClearFrames /\ tail = 1

(* constructFromLexicon                                                    *)
ReadLine ==
  /\ line < Len(lines)
  /\ line' = line + 1
  /\ trie' = IF line + 1 = Len(lines) THEN threadNonCompletedXh(WithLine(trie, lines[line + 1]))
             ELSE WithLine(trie, lines[line + 1])
  /\ UNCHANGED <<setup, typing>>

Loaded == line = Len(lines)

Push(ch) ==
  /\ Loaded /\ Len(keys) < setup.keys
  /\ Edited(Seg!Pushed(sg, Class(ch)), Append(keys, ch))

Pop ==
  /\ Loaded /\ setup.edits /\ keys # << >>
  /\ Edited(Seg!Popped(sg), Front(keys))

InsertAtCaret(idx, ch) ==
  /\ Loaded /\ setup.edits /\ Len(keys) < setup.keys /\ idx < Len(keys)
  /\ Edited(Seg!InsertedAt(sg, idx, Class(ch)), InsertAt(keys, idx + 1, ch))

DeleteAtCaret(idx) ==
  /\ Loaded /\ setup.edits /\ idx < Len(keys) - 1
  /\ Edited(Seg!DeletedAt(sg, idx), RemoveAt(keys, idx + 1))

Next ==
  \/ ReadLine
  \/ \E ch \in setup.typed : Push(ch) \/ \E idx \in 0 .. MaxKeys : InsertAtCaret(idx, ch)
  \/ Pop \/ \E idx \in 0 .. MaxKeys : DeleteAtCaret(idx)

Spec == Init /\ [][Next]_vars

-----------------------------------------------------------------------------
(* Properties.  What the keys of a segment may mean is told from the codes *)
(* of the words alone, one at a time, without trie, paths or branches.     *)

Known == {k \in DOMAIN lines : lines[k].code # NoCode}
Code == [k \in Known |-> Encoded(lines[k].code)]
Codes == Range(Code)

\* Where the characters of a word begin in its code, and their units.
Starts == [k \in Known |-> SetToSortSeq(Patterns(Code[k]), <)]
Chars ==
  [k \in Known |-> [n \in DOMAIN Starts[k] |->
     SubSeq(Code[k], Starts[k][n],
            IF n < Len(Starts[k]) THEN Starts[k][n + 1] - 1 ELSE Len(Code[k]))]]

\* The component of c behind its k-th unit, and the place its last stroke has.
Ends(c, k) == Min({j \in DOMAIN c : j > k /\ isBoundary(c[j])} \cup {Len(c) + 1}) - 1

\* Where a stroke finds itself in a character, from a place in it.  A place
\* is known to be in the last component unless a number led there.
Next1(c, pos, s) ==
  LET b == Ends(c, pos.at) + 1
      hits == {j \in b + 1 .. Ends(c, b) : c[j] = s}
  IN IF pos.last THEN {[at |-> j, last |-> TRUE] : j \in {pos.at + 1} \cap {j \in DOMAIN c : c[j] = s}}
     ELSE IF b > Len(c) \/ hits = {} \/ (isFirstStroke(s) /\ Min(hits) # b + 1) THEN {}
     ELSE {[at |-> Min(hits), last |-> isLastBoundary(c[b])]}
NextN(c, pos, s, n) ==
  {[at |-> j, last |-> FALSE] :
     j \in {j \in pos.at + 1 .. Ends(c, pos.at) :
              c[j] = s /\ Cardinality({i \in pos.at + 1 .. j : c[i] = s}) >= n}}

\* A stroke comes n times in this component of a character that begins as c
\* does up to the place.
Repeats(before, c, at, n) ==
  \E u \in Codes :
    /\ IsPrefix(before \o SubSeq(c, 1, at), u)
    /\ LET k    == Len(before) + at
           from == Max({j \in 1 .. k : isSplitter(u[j])}) + 1
           to   == Min({j \in k + 1 .. Len(u) : isSplitter(u[j])} \cup {Len(u) + 1}) - 1
       IN n = 0 \/ MostPopular(SubSeq(u, from, to)) >= n

KeysOf(seg) == SubSeq(keys, seg.start + 1, Seg!End(seg))

\* The places of the n-th character of word k that the keys lead to.
Places(k, n, ks) ==
  LET c == Chars[k][n]
      before == SubSeq(Code[k], 1, Starts[k][n] - 1)
      Step(cur, ch) ==
        IF ch \in Digits
        THEN [at |-> {p \in cur.at : Repeats(before, c, p.at, DigitValue(ch))}, num |-> DigitValue(ch)]
        ELSE [at |-> UNION {IF cur.num > 1 THEN NextN(c, p, ch, cur.num) ELSE Next1(c, p, ch) : p \in cur.at},
              num |-> 1]
  IN IF c[1] # Head(ks) THEN {}
     ELSE FoldLeft(Step, [at |-> {[at |-> 1, last |-> FALSE]}, num |-> 1], Tail(ks)).at

\* The ways to take the segments: from one to another they spell the begin
\* of word k and stand at these places of its character.  A way goes on only
\* where no longer one ends.
Ways ==
  LET Longest(acc, j) == LET from == {w.from : w \in {w \in acc : w.to = j}}
                         IN IF from = {} THEN {} ELSE {Min(from)}
      Begun(acc, i, j) == IF i = j THEN Known ELSE {w.k : w \in {w \in acc : w.from = i /\ w.to = j - 1}}
      Step(acc, j) ==
        acc \cup UNION {{w \in {[from |-> i, to |-> j, k |-> k,
                                   at |-> Places(k, j - i + 1, KeysOf(sg.segs[j]))] :
                                  k \in {k \in Begun(acc, i, j) : Len(Chars[k]) > j - i}} :
                         w.at # {}} : i \in {j} \cup Longest(acc, j - 1)}
  IN FoldLeft(LAMBDA acc, j : IF sg.segs[j].type = "syllable" THEN Step(acc, j) ELSE acc,
              {}, [j \in DOMAIN sg.segs |-> j])

\* At one of the first two strokes of a first component a word that ends
\* there hides those that go on.
Hidden(k, at) ==
  /\ Len(Chars[k]) = 1 /\ at \in 3 .. 4
  /\ Cardinality(Boundaries(SubSeq(Code[k], 1, at))) = 1
  /\ at < Len(Code[k]) /\ SubSeq(Code[k], 1, at) \in Codes

\* What is offered where f keys were typed: a word, where it starts, and how
\* far into its last character the keys have come.
Offered(f) ==
  UNION {{<<x.start, trie.names[w.id], x.class>> : w \in trie.words[x.node]} : x \in frames[f]}

\* Each frame offers the words whose codes the keys before it fit, and no
\* other: the branches through the shared, linked and thinned out trie find
\* what a search through all the codes finds (TXhSyllableSegment::forward,
\* CXhTrieMaker::threadNonCompletedXh), whatever the edits were.
XhWordsFound ==
  Loaded =>
    LET ways == {w \in Ways : Len(Chars[w.k]) = w.to - w.from + 1}
    IN \A f \in 1 .. Len(keys) :
         Offered(f) =
           UNION {{<<sg.segs[w.from].start, lines[w.k].word, p.at>> : p \in {p \in w.at : ~Hidden(w.k, p.at)}} :
                    w \in {w \in ways : Seg!End(sg.segs[w.to]) = f}}

\* The full spelling of a character: its pattern, a stroke for each of its
\* components, and all the strokes of the last.
FullKeys(c) ==
  LET last == Max(Boundaries(c))
      At(k) == \/ k = 1 \/ k > last \/ (k > 2 /\ isBoundary(c[k - 1]))
  IN SelectSeq([k \in DOMAIN c |-> IF At(k) THEN c[k] ELSE "none"], LAMBDA ch : ch # "none")

\* Every word of the dictionary whose characters have codes can be typed:
\* its full spelling offers it.
FullSpellingFinds ==
  Loaded /\ keys = << >> =>
    \A k \in Known :
      LET ks   == FoldLeft(LAMBDA acc, c : acc \o FullKeys(c), << >>, Chars[k])
          segs == Seg!Reference([n \in DOMAIN ks |-> Class(ks[n])])
          frs  == Built([f \in 0 .. Len(ks) + 1 |-> {}], segs, ks, 1)
      IN \E x \in frs[Len(ks)] : x.start = 0 /\ \E w \in trie.words[x.node] : trie.names[w.id] = lines[k].word
=============================================================================
