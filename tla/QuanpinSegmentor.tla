-------------------------- MODULE QuanpinSegmentor --------------------------
(***************************************************************************)
(* CQuanpinSegmentor (src/src/pinyin/input/pinyin_seg.cpp): cuts letters   *)
(* into syllables as they are typed, preferring the longest syllable the   *)
(* input ends with, and may put a commonly mistyped syllable right.        *)
(*                                                                         *)
(* Fuzzy syllables are left out: they are computed (_addFuzzySyllables),   *)
(* but nothing reads them, see TPySyllableSegment::forward.  Fuzzy         *)
(* segments (CGetFuzzySegmentsOp) are off, as they are by default.         *)
(***************************************************************************)
EXTENDS PinyinData

CONSTANT CorrectionPairs   \* of CGetCorrectionPairOp, <<mistyped, meant>> in order; << >> when off

\* Like those of the front ends (ign, ing; uen, un; ...).
ASSUME CorrectionAssumption ==
  /\ CorrectionPairs \in Seq(Seq(Letters) \X Seq(Letters))
  /\ \A k \in DOMAIN CorrectionPairs : Len(CorrectionPairs[k][2]) \in 1 .. Len(CorrectionPairs[k][1])

\* A segment is added behind the others.
Added(sg, p, seg) ==
  [sg EXCEPT !.pystr = p, !.segs = Append(@, seg), !.updatedFrom = Len(p) - 1]

Longer(seg, syls) == [seg EXCEPT !.len = @ + 1, !.syls = syls]

\* Mutation of Extended: only the key is said to have changed.
ExtendedKey(sg, p, l) ==
  [sg EXCEPT !.pystr = p, !.segs[Len(sg.segs)] = Longer(@, Encoded(Keys(Ending(p, l)))),
             !.updatedFrom = Len(p) - 1]
\* The last segment takes in the key, which makes it l long.
Extended(sg, p, l) ==
  [sg EXCEPT !.pystr = p, !.segs[Len(sg.segs)] = Longer(@, Encoded(Keys(Ending(p, l)))),
             !.updatedFrom = Len(p) - l]

(* One turn of the loop of _push that makes room for a syllable at the    *)
(* end: isum keys of the last gone segments are given up, lsum of them are *)
(* in new segments.  A rest that ends with no syllable would be tried for  *)
(* ever.                                                                   *)
MoreRoom(sg, p, c) ==
  LET left == Len(p) - c.lsum
      m    == match_longest(SubSeq(p, 1, left))
  IN IF c.isum = c.lsum \/ c.stuck THEN c
     ELSE IF c.isum < c.lsum
     THEN [c EXCEPT !.gone = @ + 1, !.isum = @ + sg.segs[Len(sg.segs) - c.gone].len]
     ELSE IF m = 0 THEN [c EXCEPT !.stuck = TRUE]
     ELSE [c EXCEPT !.lsum = @ + m,
                    !.segs = <<PySegment(left - m, m, Encoded(Keys(SubSeq(p, left - m + 1, left))))>> \o @]

\* The whole loop, for a syllable of l keys: each turn has one key more in isum or lsum.
MakeRoom(sg, p, l) ==
  LET start == [gone |-> 1, isum |-> Last(sg.segs).len + 1, lsum |-> l, stuck |-> FALSE,
                segs |-> <<PySegment(Len(p) - l, l, Encoded(Keys(Ending(p, l))))>>]
      after[k \in 0 .. 2 * Len(p)] == IF k = 0 THEN start ELSE MoreRoom(sg, p, after[k - 1])
  IN after[2 * Len(p)]

\* A syllable of several segments is marked, so that it is not cut again.
Split(sg, p, l) ==
  LET marked == IF Last(sg.segs).len + 1 < l THEN [p EXCEPT ![Len(p)].hi = TRUE] ELSE p
      Filled(room) ==
        IF room.stuck THEN [sg EXCEPT !.stuck = TRUE]
        ELSE [sg EXCEPT !.pystr = marked,
                        !.segs = SubSeq(@, 1, Len(@) - room.gone) \o room.segs,
                        !.updatedFrom = Len(p) - room.lsum]
  IN Filled(MakeRoom(sg, marked, l))

(* _push.  A key that would open a segment is first tried behind a marked  *)
(* syllable.                                                               *)
QuanpinPush(sg, ch) ==
  LET p == Append(sg.pystr, Plain(ch))
      n == Len(p)
      l == match_longest(p)
      unmarked == [p EXCEPT ![n - 1].hi = FALSE]
      reopens  == n > 1 /\ p[n - 1].hi /\ match_longest(unmarked) = Last(sg.segs).len + 1
  IN IF sg.stuck THEN sg
     ELSE IF l = 0 THEN Added(sg, p, OddSegment(sg, n - 1, ch))
     ELSE IF l = 1
     THEN IF reopens THEN Extended(sg, unmarked, Last(sg.segs).len + 1)
          ELSE Added(sg, p, PySegment(n - 1, 1, Encoded(<<ch>>)))
     ELSE IF l = Last(sg.segs).len + 1 THEN Extended(sg, p, l)
     ELSE Split(sg, p, l)

-----------------------------------------------------------------------------
(* CGetCorrectionPairOp: the first pair whose mistyped letters p ends      *)
(* with, as a set of at most one.                                          *)
Mistyped(p) ==
  LET hits == {k \in DOMAIN CorrectionPairs :
                 LET l == Len(CorrectionPairs[k][1])
                 IN l <= Len(p) /\ Ending(p, l) = [j \in 1 .. l |-> Plain(CorrectionPairs[k][1][j])]}
  IN IF hits = {} THEN {} ELSE {CorrectionPairs[Min(hits)]}
=============================================================================
