---------------------------- MODULE ClassicView ----------------------------
(***************************************************************************)
(* One input session: CIMIClassicView (src/src/ime-core/view/              *)
(* imi_view_classic.cpp) turning keys into edits of the input, CIMIContext *)
(* (imi_context.cpp) and CLatticeManager (lattice/) keeping the word       *)
(* lattice over it, and CXhSegmentor below them.                           *)
(*                                                                         *)
(* Frame f of the lattice stands after the f-th key.  A frame where a      *)
(* segment ends holds the lexicon states of the words that end there; the  *)
(* best path is searched over them, and the user fixes words of it from    *)
(* the left: candiFr is where the next choice starts, cursor the caret.    *)
(*                                                                         *)
(* A word is known by the frames it spans.  Which words the lexicon has is *)
(* abstracted to two lengths, MaxSyls and MaxKeys; which path scores best, *)
(* among those with as many chosen words as possible (a chosen word gets a *)
(* bonus of 2^30000), is left open.  m_maxBest is 1, its default.          *)
(***************************************************************************)
EXTENDS XhSegmentor, FiniteSetsExt

CONSTANTS
  Typed,       \* the classes of keys that are typed
  MaxLattice,  \* MAX_LATTICE_LENGTH, the number of frames
  MaxMixed,    \* bound: the length of an input with separators and strokes
  MaxSyls,     \* a word of the lexicon has at most so many syllables
  MaxKeys      \* a syllable typed with more keys matches no word

ASSUME ViewAssumption ==
  /\ Typed \subseteq Keys
  /\ MaxLattice \in 3 .. UINT_MAX
  /\ MaxMixed \in Nat
  /\ MaxSyls \in Nat \ {0}
  /\ MaxKeys \in Nat \ {0}

VARIABLES
  sg,       \* m_pSegmentor
  ic,       \* m_pIC and its lattice manager
  cursor,   \* m_cursorFrIdx
  candiFr,  \* m_candiFrIdx
  candis,   \* m_candiList, as the <<start, end>> of its words
  chosen,   \* history variable: the words the user has chosen and not taken back
  fault     \* "none", or the undefined behaviour the program has run into

vars == <<sg, ic, cursor, candiFr, candis, chosen, fault>>

Frames == 0 .. MaxLattice - 1

(* CLatticeFrame.  type is "unused", "tail", "syllable", "sep" or          *)
(* "string"; bw holds the bits of m_bwType other than NO_BESTWORD, which   *)
(* is always set; sel is the start of m_selWord, 0 at first; lex the       *)
(* starts and syllable counts of m_lexiconStates; home the frame whose     *)
(* heap objects the pointers in m_lexiconStates refer to.                  *)
\* CLatticeFrame::clear leaves m_selWord alone.
ClearFrame(f, sel) ==
  [type |-> "unused", bw |-> {}, sel |-> sel, lex |-> {}, home |-> f]

isNotBestWord(fr) == fr.bw = {}
isSyllableFrame(fr) == fr.type \in {"syllable", "sep"}

(* CIMIContext: the frames, m_tailIdx, m_path[0] as the set of its frames  *)
(* ({} when the search found none), m_candiStarts and m_candiEnds.         *)
EmptyContext == [fr |-> [f \in Frames |-> ClearFrame(f, 0)], tail |-> 1,
                 path |-> {}, starts |-> 0, ends |-> 0]

isEmpty == ic.tail <= 1
LastFr(c) == c.tail - 1
Starts(fr) == {l.start : l \in fr.lex}

-----------------------------------------------------------------------------
(* Building the lattice                                                    *)

\* The pointers of frames m .. tail are deleted: the states they point to must
\* not be pointed to twice, nor by a frame that stays.
DeletesShared(c, m) ==
  \E f, g \in Frames : /\ f # g
                       /\ f \in m .. c.tail
                       /\ c.fr[f].lex # {} /\ c.fr[g].lex # {}
                       /\ c.fr[f].home = c.fr[g].home

ClearedFrom(c, m) ==
  [c EXCEPT !.fr = [f \in Frames |-> IF f \in m .. c.tail THEN ClearFrame(f, @[f].sel) ELSE @[f]]]

(* TXhSyllableSegment::forward: only the states with the most syllables    *)
(* are continued; one state starts a word at this segment.                 *)
SyllableLex(from, seg) ==
  LET most == IF from.lex = {} THEN 0 ELSE Max({l.syls : l \in from.lex})
      continued == {[l EXCEPT !.syls = @ + 1] :
                     l \in {l \in from.lex : l.syls = most /\ 0 < most /\ most < MaxSyls}}
  IN IF seg.len > MaxKeys THEN {}
     ELSE continued \cup {[start |-> seg.start, syls |-> 1]}

(* TSegment::forward: what each type of segment puts in the frame at its   *)
(* end.  A separator copies the pointers of the frame before it.           *)
Laid(at, from, seg) ==
  CASE seg.type = "syllable" ->
         [at EXCEPT !.type = "syllable", !.lex = @ \cup SyllableLex(from, seg)]
    [] seg.type = "sep" ->
         [at EXCEPT !.type = "sep", !.lex = from.lex, !.home = from.home]
    [] seg.type = "string" ->
         [at EXCEPT !.type = "string", !.lex = @ \cup {[start |-> seg.start, syls |-> 0]}]
Forwarded(fr, seg) == [fr EXCEPT ![End(seg)] = Laid(@, fr[seg.start], seg)]

\* The lexicon state of the tail, whose frame index getLatticeFrame clamps.
Ended(at, j) == [at EXCEPT !.type = "tail", !.lex = @ \cup {[start |-> j, syls |-> 0]}]
WithTail(fr, j) ==
  LET t == IF j + 1 \in Frames THEN j + 1 ELSE MaxLattice - 1
  IN [fr EXCEPT ![t] = Ended(@, j)]

(* buildLexiconStates: the segments from rebuildFrom - 1, unsigned, on are *)
(* forwarded.                                                              *)
IsRebuilt(seg, rebuildFrom) == rebuildFrom > 0 /\ seg.start >= rebuildFrom - 1
BuildLexiconStates(c, segs, rebuildFrom) ==
  LET built[k \in 0 .. Len(segs)] ==
        IF k = 0 THEN c.fr
        ELSE IF IsRebuilt(segs[k], rebuildFrom) THEN Forwarded(built[k - 1], segs[k])
        ELSE built[k - 1]
      j == IF segs = << >> THEN 0 ELSE End(Last(segs))
  IN [c EXCEPT !.fr = WithTail(built[Len(segs)], j), !.tail = j + 1]

-----------------------------------------------------------------------------
(* Searching it                                                            *)

\* buildLatticeStates: a state comes to frame f from the start of a lexicon
\* state, or of the word the user selected there.
ComesFrom(fr) ==
  Starts(fr) \cup (IF "USER_SELECTED" \in fr.bw THEN {fr.sel} ELSE {})

Before(P, f) == Max({0} \cup {g \in P : g < f})
IsPath(c, P) == \A f \in P : c.fr[f].type # "unused" /\ Before(P, f) \in ComesFrom(c.fr[f])
Bonus(c, P) == Cardinality({f \in P : "USER_SELECTED" \in c.fr[f].bw /\ c.fr[f].sel = Before(P, f)})

Paths(c) ==
  {P \in {Q \cup {c.tail} : Q \in SUBSET (1 .. LastFr(c))} : IsPath(c, P)}
\* Mutation of BestPaths: a chosen word gets no bonus.
BestPathsUnforced(c) == Paths(c)
BestPaths(c) ==
  LET paths == Paths(c)
      most  == IF paths = {} THEN 0 ELSE Max({Bonus(c, P) : P \in paths})
  IN {P \in paths : Bonus(c, P) = most}

(* backTracePaths: the frames of the path get their best word, but for     *)
(* those whose word the user selected.                                     *)
Marked(fr, mark, start) == [fr EXCEPT !.bw = @ \cup {mark}, !.sel = start]
WithPath(c, P) ==
  [c EXCEPT !.path = P,
            !.fr = [f \in Frames |->
                      IF f \in P /\ "USER_SELECTED" \notin @[f].bw
                      THEN Marked(@[f], "BESTWORD", Before(P, f)) ELSE @[f]]]

(* searchFrom, from a frame at or before the first that changed: the       *)
(* frames before it keep the lattice states they have.                     *)
Searched(c) ==
  LET best == BestPaths(c)
  IN IF best = {} THEN {[c EXCEPT !.path = {}]} ELSE {WithPath(c, P) : P \in best}

(* What searchFrom(idx) returns: must the candidates be listed again?  The *)
(* static GlobalLatticeInfo holds the zeros of the first search ever;      *)
(* affectCandidates of buildLatticeStates is never set to false.           *)
Affects(c, idx) ==
  IF idx <= c.ends \/ \E f \in idx .. c.tail : f \in Frames /\ 0 \in Starts(c.fr[f])
  THEN {TRUE} ELSE BOOLEAN

(* getCandidates(frIdx): the words that start at frIdx.  A word before a   *)
(* separator is listed with it.  m_candiEnds only ever moves when a word   *)
(* is found.                                                               *)
CandidateEnds(c, frIdx) ==
  {e \in frIdx + 1 .. LastFr(c) :
     /\ isSyllableFrame(c.fr[e])
     /\ e + 1 \in Frames => c.fr[e + 1].type # "sep"
     /\ \/ frIdx \in Starts(c.fr[e])
        \/ ~isNotBestWord(c.fr[e]) /\ c.fr[e].sel = frIdx}
Candidates(c, frIdx) == {<<frIdx, e>> : e \in CandidateEnds(c, frIdx)}
WithCandidates(c, frIdx) ==
  LET found == {e \in CandidateEnds(c, frIdx) : frIdx \in Starts(c.fr[e])}
  IN [c EXCEPT !.starts = frIdx, !.ends = IF found = {} THEN @ ELSE Max(found)]

(* getBestSentence: back from the last frame with a best word, word by     *)
(* word, down to start; the frames the words end at.  at[n] is where the   *)
(* loop stands after n words.                                              *)
Sentence(c, start, end) ==
  LET last == Max({start} \cup {f \in start .. end : ~isNotBestWord(c.fr[f])})
      at[n \in 0 .. MaxLattice] ==
        IF n = 0 THEN last
        ELSE IF at[n - 1] <= start THEN at[n - 1]
        ELSE c.fr[at[n - 1]].sel
  IN {at[n] : n \in 0 .. MaxLattice} \ (0 .. start)

(* updateWindows, which ends every handler: m_sentences holds the best     *)
(* sentence from candiFr on, if it has a word.                             *)
HasSentence == ic.path # {} /\ Sentence(ic, candiFr, LastFr(ic)) # {}

(* getBestSegPath: where the segments along the best path begin and end.   *)
(* A string of several keys counts as one key; what precedes a separator   *)
(* ends with it.  Nothing when the search found no path.                   *)
SegPath ==
  LET segs == sg.segs
      ends == {IF segs[k].type = "string" THEN segs[k].start + 1 ELSE End(segs[k]) :
                 k \in {k \in DOMAIN segs : k = Len(segs) \/ segs[k + 1].type # "sep"}}
      starts == {segs[k].start : k \in {k \in DOMAIN segs : segs[k].type # "sep"}}
  IN IF ic.path = {} THEN {} ELSE starts \cup ends

-----------------------------------------------------------------------------
(* The calls a handler is made of.  A call that searches has one result    *)
(* for every best path.                                                    *)

\* cancelSelection walks back over the frames it skips, by assigning each frame
\* to the reference fr, that is over the contents of frame f.
Skipped(c, f) == Max({g \in 0 .. f : "IGNORED" \notin c.fr[g].bw})

(* cancelSelection(f, false): the context, and the frame the choice goes   *)
(* back to.                                                                *)
Cancelled(c, f) ==
  LET g   == Skipped(c, f)
      was == c.fr[g]
  IN IF was.bw \cap {"USER_SELECTED", "BESTWORD"} # {}
     THEN [ic |-> [c EXCEPT !.fr[f] = [was EXCEPT !.bw = {}]], at |-> was.sel, found |-> TRUE]
     ELSE [ic |-> [c EXCEPT !.fr[f] = was], at |-> f, found |-> FALSE]

\* cancelSelection(f, true)
CancelledSearch(c, f) ==
  LET r == Cancelled(c, f)
  IN IF r.found THEN {[r EXCEPT !.ic = d] : d \in Searched(r.ic)} ELSE {r}

(* _buildLattice of segs, from frame from on.                              *)
Relaid(c, segs, from) == BuildLexiconStates(ClearedFrom(c, from), segs, from)

(* buildLattice and, where it says so, _getCandidates.                     *)
Listed(c) == [ic |-> WithCandidates(c, candiFr'), candis |-> Candidates(c, candiFr')]
Built(c, s) ==
  LET from  == RebuildFrom(s)
      built == Relaid(c, s.segs, from)
  IN UNION {{IF affects THEN Listed(d) ELSE [ic |-> d, candis |-> candis] :
               affects \in Affects(built, from)} : d \in Searched(built)}

\* What _buildLattice does to the heap and to m_lattice when it cannot go well.
BuildFault(c, str, from) ==
  IF DeletesShared(c, from) THEN "double delete"
  ELSE IF Len(str) + 1 >= MaxLattice THEN "past the lattice"
  ELSE "none"

Rebuild(c, s) ==
  LET broken == BuildFault(c, s.str, RebuildFrom(s))
  IN IF broken # "none" THEN fault' = broken /\ UNCHANGED <<sg, ic, candis>>
     ELSE /\ sg' = s
          /\ \E r \in Built(c, s) : ic' = r.ic /\ candis' = r.candis
          /\ UNCHANGED fault

\* _buildLattice and then _getCandidates, whatever it says.
RelaidAndListed(C, from) ==
  \E c \in C :
    IF DeletesShared(c, from) THEN fault' = "double delete" /\ UNCHANGED <<ic, candis>>
    ELSE /\ \E d \in Searched(Relaid(c, sg.segs, from)) :
              ic' = Listed(d).ic /\ candis' = Listed(d).candis
         /\ UNCHANGED fault

List(c) == ic' = Listed(c).ic /\ candis' = Listed(c).candis

(* clearIC, and CIMIContext::clear.                                        *)
ClearIC ==
  IF DeletesShared(ic, 1)
  THEN fault' = "double delete" /\ UNCHANGED <<sg, ic, cursor, candiFr, candis, chosen>>
  ELSE /\ sg' = Cleared
       /\ ic' = [ClearedFrom(ic, 1) EXCEPT !.tail = 1, !.path = {}, !.starts = 0, !.ends = 0]
       /\ cursor' = 0 /\ candiFr' = 0 /\ candis' = {}
       /\ chosen' = {}
       /\ UNCHANGED fault

\* The words chosen before frame at; the others are taken back.
ChosenBefore(at) == {w \in chosen : w[2] <= at}

-----------------------------------------------------------------------------
(* The keys: onKeyEvent, one action for each case                          *)

Running == fault = "none"
RoomLeft == Len(sg.buf) < MaxLattice - 1

\* An input with both separators and strokes, which only make the segments
\* longer, is kept short.
KeptShort == {"sep", "stroke"} \subseteq Range(sg.buf) => Len(sg.buf) <= MaxMixed

(* _insert.  A key that is no letter is converted at once when it comes    *)
(* first (InsertAlone).                                                    *)
Insert(ch) ==
  /\ Running /\ RoomLeft
  /\ isEmpty => ch \in {"pattern", "stroke"}
  /\ cursor' = cursor + 1
  /\ UNCHANGED <<candiFr, chosen>>
  /\ Rebuild(ic, IF cursor = LastFr(ic) THEN Pushed(sg, ch) ELSE InsertedAt(sg, cursor, ch))
  /\ KeptShort'

(* Its lattice is built, sent and cleared in one go.                       *)
InsertAlone(ch) ==
  /\ Running /\ isEmpty
  /\ ch \in {"sep", "punct"}
  /\ ClearIC

(* _erase(true): takes back the last choice if there is one, else deletes  *)
(* the key before the caret.                                               *)
Backspace ==
  /\ Running /\ ~isEmpty
  /\ IF candiFr > 0
     THEN \E r \in CancelledSearch(ic, candiFr) :
            /\ candiFr' = r.at
            /\ chosen' = ChosenBefore(r.at)
            /\ Rebuild(r.ic, sg)
            /\ UNCHANGED cursor
     ELSE /\ cursor > 0
          /\ cursor' = cursor - 1
          /\ UNCHANGED <<candiFr, chosen>>
          /\ Rebuild(ic, IF cursor = LastFr(ic) THEN Popped(sg) ELSE DeletedAt(sg, cursor - 1))

(* _erase(false): deletes the key after the caret.                         *)
Delete ==
  /\ Running /\ ~isEmpty
  /\ cursor < LastFr(ic)
  /\ UNCHANGED <<cursor, candiFr, chosen>>
  /\ Rebuild(ic, IF cursor = LastFr(ic) - 1 THEN Popped(sg) ELSE DeletedAt(sg, cursor))

\* The part _moveLeft and _moveLeftSyllable share: at candiFr, the last choice
\* is taken back first.
StepBack ==
  IF cursor = candiFr
  THEN \E r \in CancelledSearch(ic, candiFr) :
         candiFr' = r.at /\ chosen' = ChosenBefore(r.at) /\ List(r.ic)
  ELSE UNCHANGED <<candiFr, chosen, ic, candis>>

MoveLeft ==
  /\ Running /\ ~isEmpty
  /\ UNCHANGED <<sg, fault>>
  /\ IF cursor = 0 THEN cursor' = LastFr(ic) /\ UNCHANGED <<candiFr, chosen, ic, candis>>
     ELSE cursor' = cursor - 1 /\ StepBack

(* _moveLeftSyllable: decrements an iterator into the segment path, which  *)
(* may be empty.                                                           *)
MoveLeftSyllable ==
  /\ Running /\ ~isEmpty
  /\ UNCHANGED sg
  /\ IF cursor = 0
     THEN cursor' = LastFr(ic) /\ UNCHANGED <<candiFr, chosen, ic, candis, fault>>
     ELSE /\ StepBack
          /\ LET upTo == {p \in SegPath' : p < cursor}
             IN IF upTo = {} THEN fault' = "past the end" /\ UNCHANGED cursor
                ELSE cursor' = Max(upTo) /\ UNCHANGED fault

\* Every selected frame along the best path is cancelled, in order.
AllCancelled(c) ==
  LET cancelled[f \in Frames] ==
        IF f = 0 THEN c
        ELSE LET d == cancelled[f - 1]
             IN IF f \in c.path /\ "USER_SELECTED" \in d.fr[f].bw THEN Cancelled(d, f).ic ELSE d
  IN cancelled[MaxLattice - 1]

(* _moveHome: the candidates are listed before the search runs again; the  *)
(* best path is read even when there is none.                              *)
ToHome ==
  IF candiFr = 0 THEN cursor' = 0 /\ UNCHANGED <<candiFr, chosen, ic, candis, fault>>
  ELSE IF ic.path = {}
  THEN fault' = "past the end" /\ UNCHANGED <<cursor, candiFr, chosen, ic, candis>>
  ELSE LET c == AllCancelled(ic)
       IN /\ cursor' = 0 /\ candiFr' = 0 /\ chosen' = {}
          /\ candis' = Candidates(c, 0)
          /\ \E d \in Searched(WithCandidates(c, 0)) : ic' = d
          /\ UNCHANGED fault

MoveHome ==
  /\ Running /\ ~isEmpty /\ cursor > 0
  /\ UNCHANGED sg
  /\ ToHome

MoveRight ==
  /\ Running /\ ~isEmpty
  /\ UNCHANGED sg
  /\ IF cursor < LastFr(ic)
     THEN cursor' = cursor + 1 /\ UNCHANGED <<candiFr, chosen, ic, candis, fault>>
     ELSE ToHome

(* _moveRightSyllable: dereferences upper_bound, even at the end.          *)
MoveRightSyllable ==
  /\ Running /\ ~isEmpty
  /\ UNCHANGED sg
  /\ LET after == {p \in SegPath : p > cursor}
     IN IF cursor = LastFr(ic) THEN ToHome
        ELSE IF after = {}
        THEN fault' = "past the end" /\ UNCHANGED <<cursor, candiFr, chosen, ic, candis>>
        ELSE cursor' = Min(after) /\ UNCHANGED <<candiFr, chosen, ic, candis, fault>>

MoveEnd ==
  /\ Running /\ ~isEmpty /\ cursor < LastFr(ic)
  /\ cursor' = LastFr(ic)
  /\ UNCHANGED <<sg, ic, candiFr, candis, chosen, fault>>

(* makeSelection, of the whole sentence, or when there is no sentence or   *)
(* no word to choose: what is selected is sent, the input starts afresh.   *)
SelectSentence ==
  /\ Running /\ ~isEmpty
  /\ ClearIC

\* makeSelection of CIMIContext.
Selected(c, w) ==
  Searched([c EXCEPT !.fr[w[2]] = Marked(@, "USER_SELECTED", w[1])])

\* Over the frames that are neither unused nor of a syllable: where the strings
\* that follow frame e end.
SkipStrings(c, e) ==
  Max({g \in e .. LastFr(c) : \A f \in e + 1 .. g : c.fr[f].type \in {"string", "tail"}})

(* makeSelection of a word: the choice moves on to its end, the caret with *)
(* it, and then over the strings that follow, without the caret; at the    *)
(* end of the input everything is sent.                                    *)
SelectWord(w) ==
  /\ Running /\ ~isEmpty
  /\ HasSentence
  /\ w \in candis
  /\ \E c \in Selected(ic, w) :
       LET at == SkipStrings(c, w[2])
           d  == [c EXCEPT !.fr = [f \in Frames |->
                    IF f \in w[2] + 1 .. at THEN Marked(@[f], "IGNORED", @[f].sel) ELSE @[f]]]
       IN IF at = LastFr(ic) THEN ClearIC
          ELSE /\ candiFr' = at
               /\ cursor' = IF cursor < w[2] THEN w[2] ELSE cursor
               /\ chosen' = chosen \cup {w}
               /\ List(d)
               /\ UNCHANGED <<sg, fault>>

(* deleteCandidate.  Deleting a user word builds the lattice again from    *)
(* frame 1 (deleteCandidateByWID), a sentence from the last edit on        *)
(* (removeFromHistoryCache) and, if it is one user word, from 1 again.     *)
DeleteCandidate ==
  /\ Running /\ ~isEmpty
  /\ UNCHANGED <<sg, cursor, candiFr, chosen>>
  /\ LET last  == RebuildFrom(sg)
         again == Searched(Relaid(ic, sg.segs, last))
     IN \/ /\ candis # {}
           /\ \/ List(ic) /\ UNCHANGED fault
              \/ RelaidAndListed({ic}, 1)
        \/ /\ HasSentence
           /\ RelaidAndListed({ic}, last)
        \/ /\ HasSentence
           /\ Cardinality(Sentence(ic, candiFr, LastFr(ic))) = 1
           /\ ~DeletesShared(ic, last)
           /\ RelaidAndListed(again, 1)

(* ENTER sends the input as typed, ESC and the mode switch drop it.        *)
Escape == Running /\ ~isEmpty /\ ClearIC

Init ==
  /\ sg = Cleared
  /\ ic = EmptyContext
  /\ cursor = 0 /\ candiFr = 0
  /\ candis = {}
  /\ chosen = {}
  /\ fault = "none"

Next ==
  \/ \E ch \in Typed : Insert(ch) \/ InsertAlone(ch)
  \/ Backspace \/ Delete
  \/ MoveLeft \/ MoveLeftSyllable \/ MoveHome
  \/ MoveRight \/ MoveRightSyllable \/ MoveEnd
  \/ SelectSentence \/ \E w \in candis : SelectWord(w)
  \/ DeleteCandidate
  \/ Escape

Spec == Init /\ [][Next]_vars

-----------------------------------------------------------------------------
(* Whatever edits led to it, the segmentor's copy of the input is the      *)
(* input, and it is cut into the segments it would be cut into if it were  *)
(* typed in one go: a part that is not cut again needed no change.         *)
SegmentsCanonical == sg.str = sg.buf /\ sg.segs = Reference(sg.buf)

\* The lattice buildLexiconStates would build for the whole input on a fresh one.
WholeLattice == BuildLexiconStates(EmptyContext, sg.segs, 1).fr

\* No frame has been overwritten by cancelSelection with a frame before it: each
\* has the pointers it was given when it was laid.
OwnPointers ==
  LET whole == WholeLattice IN \A f \in Frames : ic.fr[f].home = whole[f].home

(* The part of the lattice that is kept when an edit is made is the part   *)
(* the edit does not change: the lattice that updatedFrom has rebuilt from *)
(* some frame on has the frames and words of one built from scratch (but   *)
(* for the frame that cancelSelection overwrites with the frame before it, *)
(* whose pointers are not its own).                                        *)
LatticeFresh ==
  Running /\ ~isEmpty /\ OwnPointers =>
    LET whole == WholeLattice
    IN \A f \in Frames : ic.fr[f].type = whole[f].type /\ ic.fr[f].lex = whole[f].lex

(* The lattice ends where the input does and the caret never leaves it,    *)
(* whichever mixture of edits, moves, choices and cancellations came       *)
(* before: the handlers index the lattice with the caret and decrement it, *)
(* unsigned, on that understanding.  (candiFr has no such bound: a stroke  *)
(* inserted right behind a choice joins the chosen segment, after which    *)
(* the caret may pass to the left of candiFr and the input shrink past     *)
(* it.)                                                                    *)
CaretInside == Running => ic.tail = Len(sg.buf) + 1 /\ cursor <= LastFr(ic)

(* Moreover, when the search found a path, the words a conversion sends    *)
(* (following m_selWord back from the end, over words the user chose and   *)
(* words left from earlier searches) are the words of that path: the input *)
(* is covered once, from its first key to its last.  It is so until        *)
(* cancelSelection overwrites a frame: the choice it meant to take back    *)
(* may then stay, the user choose another word over it, and the path keep  *)
(* one of the two while the sentence follows the other.                    *)
SentenceTiles ==
  /\ CaretInside
  /\ Running /\ OwnPointers /\ ic.path # {} =>
       Sentence(ic, 0, LastFr(ic)) = ic.path \ {ic.tail}

\* The lattice still has word w as the user's choice.
Stands(w) == "USER_SELECTED" \in ic.fr[w[2]].bw /\ ic.fr[w[2]].sel = w[1]

(* Typing on at the end of the input, as long as it opens new segments,    *)
(* and choosing further words leave the words chosen before chosen, though *)
(* both build and search the lattice again from some frame on.             *)
TypesOn == cursor = LastFr(ic) /\ IsStrictPrefix(sg.segs, sg'.segs)
ChoosesMore == chosen \subseteq chosen' /\ chosen # chosen'
ChoicesStand ==
  [][TypesOn \/ ChoosesMore => \A w \in chosen : Stands(w) => Stands(w)']_vars
=============================================================================
