--------------------------- MODULE HunpinSegmentor --------------------------
(***************************************************************************)
(* CHunpinSegmentor (src/src/pinyin/input/hunpin_seg.cpp): quanpin and     *)
(* shuangpin mixed.  After each key the last segments, the longest run of  *)
(* them first, are tried as one syllable: as a pair of keys of the plan,   *)
(* then as letters.                                                        *)
(***************************************************************************)
EXTENDS PinyinData

CONSTANT MaxStringCount   \* maxStringCount, the keys of the segments that are tried again: 6

\* How many of the last segments have at most MaxStringCount keys.
SyllableCount(segs) ==
  Max({0} \cup {k \in DOMAIN segs : End(Last(segs)) - segs[Len(segs) - k + 1].start <= MaxStringCount})

\* Mutation of Merged: the merged segments stay before the new one.
MergedBehind(sg, p, index) ==
  LET n    == Len(p)
      from == sg.segs[Len(sg.segs) - index + 1].start
      pair == IF n - from = 2 THEN MappedSyllables(p[n - 1].ch, p[n].ch) ELSE {}
  IN IF pair # {}
     THEN {[sg.segs EXCEPT ![Len(sg.segs)] = AsPair(@, n - 2, pair)]}
     ELSE IF match_longest(SubSeq(p, from + 1, n)) = n - from
     THEN {Append(sg.segs, PySegment(from, n - from, Encoded(Keys(Ending(p, n - from)))))}
     ELSE {}
(* The segments when the last index of them and the key are one syllable,  *)
(* as a set of at most one.  A pair is written over the last segment.      *)
Merged(sg, p, index) ==
  LET n    == Len(p)
      from == sg.segs[Len(sg.segs) - index + 1].start
      pair == IF n - from = 2 THEN MappedSyllables(p[n - 1].ch, p[n].ch) ELSE {}
  IN IF pair # {}
     THEN {[sg.segs EXCEPT ![Len(sg.segs)] = AsPair(@, n - 2, pair)]}
     ELSE IF match_longest(SubSeq(p, from + 1, n)) = n - from
     THEN {SubSeq(sg.segs, 1, Len(sg.segs) - index)
           \o <<PySegment(from, n - from, Encoded(Keys(Ending(p, n - from))))>>}
     ELSE {}

(* _push                                                                   *)
HunpinPush(sg, ch) ==
  LET p      == Append(sg.pystr, Plain(ch))
      n      == Len(p)
      merges == {k \in 1 .. SyllableCount(sg.segs) : Merged(sg, p, k) # {}}
      single == IF match_longest(<<Plain(ch)>>) = 0 THEN OddSegment(sg, n - 1, ch)
                ELSE PySegment(n - 1, 1, Encoded(<<ch>>))
      Cut(segs) == [sg EXCEPT !.pystr = p, !.segs = segs, !.updatedFrom = Last(segs).start]
  IN Cut(IF merges = {} THEN Append(sg.segs, single)
         ELSE CHOOSE s \in Merged(sg, p, Max(merges)) : TRUE)
=============================================================================
