----------------------------- MODULE PinyinInput ----------------------------
(***************************************************************************)
(* From the dictionary to the words on offer: the trie is made and loaded  *)
(* (PyTrieMaker), a segmentor cuts what is typed, and after every edit     *)
(* CIMIContext::buildLattice clears the frames of the lattice from         *)
(* updatedFrom on and forwards the segments there again                    *)
(* (src/src/pinyin/lattice/, src/src/common/input/segment/).               *)
(*                                                                         *)
(* Frame f stands after the f-th key and holds the lexicon states of the   *)
(* syllables that end there: where they start, the node they lead to in    *)
(* the trie (0 when they lead nowhere), and the user's own words that they *)
(* spell.  What scores and chooses among them is in LatticeStates and      *)
(* ClassicView.  The edits are those the view makes: nothing but a letter  *)
(* opens an input, the last key goes by pop, the others by deleteAt.       *)
(***************************************************************************)
EXTENDS PyTrieMaker, PinyinEdits

CONSTANTS
  Setups,           \* what to look at: [scheme, lines, typed, keys], the
                    \* segmentor, or none, the lines of the dictionary, the
                    \* keys that are typed, and how many of them at most
  UserWords,        \* what the user dictionary holds, [id, syls]
  MaxUsrdefLen      \* MAX_USRDEF_WORD_LEN

ASSUME InputAssumption ==
  /\ \A s \in Setups : /\ s.scheme \in {"none", "quanpin", "hunpin", "shuangpin"}
                        /\ s.keys \in 0 .. MaxKeys
  /\ MaxUsrdefLen \in Nat \ {0} /\ MaxKeys \in Nat /\ Semicolon \in BOOLEAN

VARIABLES
  setup,    \* of Setups
  line,     \* how many lines of the dictionary were read
  trie,     \* the trie being made, then loaded
  sg,       \* m_pSegmentor
  frames,   \* CLatticeManager::m_lattice
  tail,     \* m_tailIdx
  fault     \* "none", or the undefined behaviour the program has run into

vars == <<setup, line, trie, sg, frames, tail, fault>>
making == <<setup, line, trie>>
typing == <<sg, frames, tail, fault>>

scheme == setup.scheme
lines == setup.lines
Frames == 0 .. MaxKeys + 1
LexState(start, node, syls, usr) == [start |-> start, node |-> node, syls |-> syls, usr |-> usr]
\* home is the frame whose objects the pointers of lex refer to.
ClearFrame(f) == [type |-> "unused", lex |-> {}, home |-> f]

-----------------------------------------------------------------------------
(* TSegment::forward                                                       *)

Matches(typed, s) == typed = s \/ (~isFullSyllable(typed) /\ typed.ini = s.ini)

(* CUserDict::getWords                                                     *)
getWords(syls) ==
  {w.id : w \in {w \in UserWords :
                   Len(w.syls) = Len(syls) /\ \A k \in DOMAIN syls : Matches(syls[k], w.syls[k])}}

(* _forwardSingleSyllable, for one state of the frame the segment starts   *)
(* at: what it becomes by the trie, and by the user dictionary.            *)
ByTrie(x, s) ==
  LET node == transfer(trie, x.node, s)
  IN IF node = 0 THEN {} ELSE {LexState(x.start, node, Append(x.syls, s), {})}
ByUserDict(x, s) ==
  LET syls  == Append(x.syls, s)
      words == getWords(syls)
  IN IF Len(x.syls) < MaxUsrdefLen /\ (words # {} \/ ByTrie(x, s) = {})
     THEN {LexState(x.start, 0, syls, words)} ELSE {}

\* Mutation of forwardSyllable: only the states of a trie node go on.
forwardNodes(lex, at, s) ==
  LET node == transfer(trie, 1, s)
  IN UNION {ByTrie(x, s) : x \in lex}
     \cup (IF node = 0 THEN {} ELSE {LexState(at, node, <<s>>, {})})
forwardSyllable(lex, at, s) ==
  LET node == transfer(trie, 1, s)
  IN UNION {ByTrie(x, s) \cup ByUserDict(x, s) : x \in lex}
     \cup (IF node = 0 THEN {} ELSE {LexState(at, node, <<s>>, {})})

(* forward, by the class of the segment: a TSyllableSegment does nothing,  *)
(* a separator shares the states of the frame before it.                   *)
Forwarded(frs, seg) ==
  LET i == seg.start
      j == End(seg)
  IN CASE seg.class = "py" ->
            [frs EXCEPT ![j] = [@ EXCEPT !.type = "syllable",
                                         !.lex = @ \cup UNION {forwardSyllable(frs[i].lex, i, s) : s \in seg.syls}]]
       [] seg.class = "sep" ->
            [frs EXCEPT ![j] = [type |-> "sep", lex |-> frs[i].lex, home |-> frs[i].home]]
       [] seg.class = "string" ->
            [frs EXCEPT ![j] = [@ EXCEPT !.type = "string", !.lex = @ \cup {LexState(i, 0, << >>, {})}]]
       [] seg.class = "syllable" -> frs

-----------------------------------------------------------------------------
(* buildLattice                                                            *)

rebuildFrom(s) == IF s.updatedFrom = UINT_MAX THEN 0 ELSE s.updatedFrom + 1

(* clearFrom.  A state that two frames point to is deleted twice.          *)
ClearedFrames(from) ==
  [f \in Frames |-> IF f \in from .. tail THEN ClearFrame(f) ELSE frames[f]]
DeletesShared(from) ==
  \E f, g \in Frames : /\ f # g /\ f \in from .. tail
                       /\ frames[f].lex # {} /\ frames[g].lex # {}
                       /\ frames[f].home = frames[g].home

(* buildLexiconStates, and the state of the tail.  (from - 1 is unsigned.) *)
Built(frs, segs, from) ==
  LET again == SelectSeq(segs, LAMBDA seg : from > 0 /\ seg.start >= from - 1)
      end   == IF segs = << >> THEN 0 ELSE End(Last(segs))
  IN [FoldLeft(Forwarded, frs, again) EXCEPT
        ![end + 1] = [@ EXCEPT !.type = "tail", !.lex = @ \cup {LexState(end, 0, << >>, {})}]]

Edited(s) ==
  IF s.stuck \/ DeletesShared(rebuildFrom(s))
  THEN /\ fault' = IF s.stuck THEN "segmentor" ELSE "double delete"
       /\ UNCHANGED <<sg, frames, tail>>
  ELSE /\ sg' = s
       /\ frames' = Built(ClearedFrames(rebuildFrom(s)), s.segs, rebuildFrom(s))
       /\ tail' = (IF s.segs = << >> THEN 0 ELSE End(Last(s.segs))) + 1
       /\ UNCHANGED fault

-----------------------------------------------------------------------------
Init ==
  /\ setup \in Setups
  /\ line = 0 /\ trie = EmptyTrie
  /\ sg = IF setup.scheme = "shuangpin" THEN EmptyShuangpin ELSE Empty
  /\ frames = [f \in Frames |-> ClearFrame(f)] /\ tail = 1
  /\ fault = "none"

(* constructFromLexicon                                                    *)
ReadLine ==
  /\ line < Len(lines)
  /\ line' = line + 1
  /\ trie' = WithLine(trie, lines[line + 1])
  /\ UNCHANGED <<setup, typing>>

ThreadNode ==
  /\ line = Len(lines) /\ ~Threaded(trie)
  /\ trie' = Thread(trie)
  /\ UNCHANGED <<setup, line, typing>>

Loaded == line = Len(lines) /\ Threaded(trie)
Ready == Loaded /\ scheme # "none" /\ fault = "none"

(* push and insertAt                                                       *)
Push(ch) ==
  /\ Ready /\ Len(sg.buf) < setup.keys
  /\ sg.buf = << >> => ch \in Letters
  /\ Edited(push(scheme, sg, ch))
  /\ UNCHANGED making

InsertAtCaret(idx, ch) ==
  /\ Ready /\ Len(sg.buf) < setup.keys
  /\ idx < Len(sg.buf)
  /\ Edited(insertAt(scheme, sg, idx, ch))
  /\ UNCHANGED making

(* pop and deleteAt                                                        *)
Pop ==
  /\ Ready /\ sg.buf # << >>
  /\ Edited(pop(scheme, sg))
  /\ UNCHANGED making

DeleteAtCaret(idx) ==
  /\ Ready /\ idx < Len(sg.buf) - 1
  /\ Edited(deleteAt(scheme, sg, idx))
  /\ UNCHANGED making

(* The input is sent or given up: clear of the context and of the          *)
(* segmentor.                                                              *)
ClearInput ==
  /\ Ready /\ sg.buf # << >>
  /\ IF DeletesShared(1) THEN fault' = "double delete" /\ UNCHANGED <<sg, frames, tail>>
     ELSE /\ sg' = clear(scheme, sg)
          /\ frames' = ClearedFrames(1) /\ tail' = 1
          /\ UNCHANGED fault
  /\ UNCHANGED making

Next ==
  \/ ReadLine \/ ThreadNode
  \/ \E ch \in setup.typed : Push(ch) \/ \E idx \in 0 .. MaxKeys : InsertAtCaret(idx, ch)
  \/ Pop \/ \E idx \in 0 .. MaxKeys : DeleteAtCaret(idx)
  \/ ClearInput

Spec == Init /\ [][Next]_vars

-----------------------------------------------------------------------------
(* Properties.                                                             *)

\* The words of the dictionary that these syllables may be meant for, each
\* with its least cost.
Meant(units) ==
  LET hits == UNION {{[id |-> lines[d].id, cost |-> r.cost] :
                        r \in {r \in Range(lines[d].readings) :
                                 /\ Len(r.syls) = Len(units)
                                 /\ \A k \in DOMAIN units : Matches(units[k], r.syls[k])}} :
                     d \in DOMAIN lines}
  IN {w \in hits : \A v \in hits : v.id = w.id => w.cost <= v.cost}

Units == Syllables \cup {Initial(s) : s \in {s \in Syllables : s.ini # << >>}}
UnitsUpTo(n) == UNION {[1 .. k -> Units] : k \in 1 .. n}

\* Walking the finished trie by any syllables, whole or shortened to their
\* initials, leads to exactly the words of the dictionary these may be meant
\* for (CPyTrieMaker::threadNonCompletePinyin).
TrieHoldsWords ==
  Loaded /\ sg.buf = << >> =>
    \A units \in UnitsUpTo(2) : WordsAt(trie, Reached(trie, units)) = Meant(units)

\* The segments lie one behind the other over all the keys, and the keys
\* are those that were typed, whatever was inserted, deleted or put right.
\* (Of shuangpin only the keys: see the README.)
SegmentsTile ==
  /\ Keys(sg.pystr) = sg.buf
  /\ scheme # "shuangpin" =>
       /\ KeysOf(sg.segs, Len(sg.segs)) = Len(sg.buf)
       /\ \A j \in DOMAIN sg.segs : sg.segs[j].start = KeysOf(sg.segs, j - 1)

\* The keys that are typed never make a mistyped syllable.
NeverCorrected == \A k \in DOMAIN CorrectionPairs : ~(Range(CorrectionPairs[k][1]) \subseteq setup.typed)

\* The segmentor after the keys were typed in one go.
Typed(keys) ==
  LET after[k \in 0 .. Len(keys)] == IF k = 0 THEN Empty ELSE push(scheme, after[k - 1], keys[k])
  IN after[Len(keys)]

\* Every edit comes to an end: a key that makes no syllable stops the search
\* for syllables before it, and _push marks the last letter of a syllable it
\* made of several segments so that it is not cut in two where no syllable
\* remains.  (pop of the shuangpin segmentor may not.)  And wherever the keys
\* were put in or taken out, they are cut as if they had been typed one after
\* the other.
EditsAsTyped ==
  /\ scheme # "shuangpin" => fault # "segmentor"
  /\ /\ fault = "none" /\ setup.typed \subseteq Letters
     /\ scheme = "hunpin" \/ (scheme = "quanpin" /\ NeverCorrected)
     => sg.segs = Typed(sg.buf).segs

\* The segment is forwarded as a syllable, or may stand between two.
Spells(seg) == seg.class \in {"py", "sep"}

\* The sequences of syllables that the segments i to j may stand for.
Spelled(segs, i, j) ==
  FoldLeft(LAMBDA acc, seg : IF seg.class = "sep" THEN acc
                             ELSE {Append(units, s) : units \in acc, s \in seg.syls},
           {<< >>}, SubSeq(segs, i, j))

\* The runs of segments that may spell a word.
Runs(segs) ==
  {r \in {<<i, j>> : i, j \in DOMAIN segs} :
     /\ r[1] <= r[2] /\ segs[r[1]].class = "py"
     /\ \A k \in r[1] .. r[2] : Spells(segs[k])}

\* What a frame offers, with where it starts.
SystemWords(f) == UNION {{<<x.start, w>> : w \in WordsAt(trie, x.node)} : x \in frames[f].lex}
OwnWords(f) == UNION {{<<x.start, w>> : w \in x.usr} : x \in frames[f].lex}

\* Whatever the edits were, the frame a run of segments ends at offers the
\* words of the dictionary the run spells, and no other; and those of the
\* user's own words that are not too long.
WordsFound ==
  scheme # "none" /\ Ready =>
    \A f \in 1 .. Len(sg.buf) :
      LET runs == {r \in Runs(sg.segs) : End(sg.segs[r[2]]) = f}
          Meanings(Of(_)) == UNION {UNION {{<<sg.segs[r[1]].start, w>> : w \in Of(units)} :
                                              units \in Spelled(sg.segs, r[1], r[2])} : r \in runs}
          Own(units) == IF Len(units) \in 2 .. MaxUsrdefLen THEN getWords(units) ELSE {}
      IN /\ SystemWords(f) = Meanings(Meant)
         /\ Meanings(Own) \subseteq OwnWords(f)

\* What the segmentor says an edit left alone it did leave alone: up to
\* updatedFrom the segments are the same.
ChangeReported ==
  [][ sg' # sg /\ sg'.buf # << >> /\ scheme # "shuangpin" =>
        LET Kept(segs) == {seg \in Range(segs) : seg.start < rebuildFrom(sg') - 1}
        IN Kept(sg.segs) = Kept(sg'.segs) ]_vars
=============================================================================
