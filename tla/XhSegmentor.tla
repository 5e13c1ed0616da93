---------------------------- MODULE XhSegmentor ----------------------------
(***************************************************************************)
(* CXhSegmentor (src/src/xh/input/xh_seg.{h,cpp}): cuts what the user      *)
(* typed into segments, incrementally.                                     *)
(*                                                                         *)
(* Every edit reports updatedFrom, the position from which the segments    *)
(* may have changed; the lattice is rebuilt from there only.  A key is     *)
(* known by its class.  The input is held twice: m_inputBuf, which the     *)
(* edits change and which is shown and sent, and m_inputstr, which is cut  *)
(* back and pushed again along with the segments.                          *)
(***************************************************************************)
EXTENDS Integers, Sequences, FiniteSets, SequencesExt

CONSTANT LenModulus   \* TSegment::m_len is a bit field of 8 bits: 256

ASSUME SegmentorAssumption == LenModulus \in Nat \ {0, 1}

(* What CXhData tells of a key: isPattern, isStroke (or a digit, which     *)
(* repeats a stroke), the separator ', anything else.                      *)
Keys == {"pattern", "stroke", "sep", "punct"}
SegmentType(ch) == CASE ch = "pattern" -> "syllable"
                     [] ch = "sep"     -> "sep"
                     [] OTHER          -> "string"

\* UINT_MAX, the updatedFrom of _updateWith when nothing is left to push.
UINT_MAX == 1000000
\* Mutation of RebuildFrom: every edit builds the lattice from its first frame.
RebuildAll(sg) == 1
\* updatedFrom() + 1, which wraps.
RebuildFrom(sg) == IF sg.updatedFrom = UINT_MAX THEN 0 ELSE sg.updatedFrom + 1

\* clear: m_inputBuf, m_inputstr and the segments are emptied.
Cleared == [buf |-> << >>, str |-> << >>, segs |-> << >>, updatedFrom |-> 0]

End(seg) == seg.start + seg.len

-----------------------------------------------------------------------------
\* Mutation of _push: the line "//ret = m_inputstr.size() - 1" that the code disables.
PushFromHere(sg, ch) ==
  LET n == Len(sg.str)
  IN IF sg.segs # << >> /\ ch = "stroke"
     THEN [sg EXCEPT !.str = Append(@, ch),
                     !.segs[Len(sg.segs)].len = (@ + 1) % LenModulus,
                     !.updatedFrom = n]
     ELSE [sg EXCEPT !.str = Append(@, ch),
                     !.segs = Append(@, [start |-> n, len |-> 1, type |-> SegmentType(ch)]),
                     !.updatedFrom = n]

(* _push: a stroke lengthens the last segment, whatever its type; any      *)
(* other key opens a segment of its own.                                   *)
_push(sg, ch) ==
  LET n == Len(sg.str)
  IN IF sg.segs # << >> /\ ch = "stroke"
     THEN [sg EXCEPT !.str = Append(@, ch),
                     !.segs[Len(sg.segs)].len = (@ + 1) % LenModulus,
                     !.updatedFrom = Last(sg.segs).start]
     ELSE [sg EXCEPT !.str = Append(@, ch),
                     !.segs = Append(@, [start |-> n, len |-> 1, type |-> SegmentType(ch)]),
                     !.updatedFrom = n]

Pushed(sg, ch) == _push([sg EXCEPT !.buf = Append(@, ch)], ch)

(* _updateWith: pushes the keys of suffix one by one; updatedFrom is the   *)
(* least any of the pushes returned.                                       *)
PushedOn(sg, ch) ==
  [_push(sg, ch) EXCEPT !.updatedFrom = IF @ < sg.updatedFrom THEN @ ELSE sg.updatedFrom]
UpdatedWith(sg, suffix, from) ==
  LET pushed[k \in 0 .. Len(suffix)] ==
        IF k = 0 THEN [sg EXCEPT !.updatedFrom = from] ELSE PushedOn(pushed[k - 1], suffix[k])
  IN pushed[Len(suffix)]

(* _locateSegment: the number of segments that end at or before idx.       *)
Located(sg, idx) == Cardinality({k \in DOMAIN sg.segs : End(sg.segs[k]) <= idx})

(* What pop, insertAt and deleteAt end with: str, from the end of the      *)
(* first j segments on, is cut again behind them.                          *)
CutAgain(sg, j, str) ==
  LET at   == IF j = 0 THEN 0 ELSE End(sg.segs[j])
      kept == [sg EXCEPT !.segs = SubSeq(@, 1, j), !.str = SubSeq(str, 1, at)]
  IN UpdatedWith(kept, SubSeq(str, at + 1, Len(str)), UINT_MAX)

(* pop: the last key goes.  A segment of one key goes with it; a longer    *)
(* one is cut again from its remaining keys.                               *)
Popped(sg) ==
  IF sg.str = << >> THEN [sg EXCEPT !.updatedFrom = 0]
  ELSE IF Last(sg.segs).len = 1
  THEN [buf |-> Front(sg.buf), str |-> Front(sg.str), segs |-> Front(sg.segs),
        updatedFrom |-> Len(sg.str) - 1]
  ELSE CutAgain([sg EXCEPT !.buf = Front(@)], Len(sg.segs) - 1, Front(sg.str))

(* insertAt, deleteAt: everything from the segment of the edit on is cut   *)
(* again.  idx is the place of the deleted key, whichever way it goes.     *)
InsertedAt(sg, idx, ch) ==
  CutAgain([sg EXCEPT !.buf = InsertAt(@, idx + 1, ch)],
           Located(sg, idx), InsertAt(sg.str, idx + 1, ch))

\* Mutation of DeletedAt: the segment is looked for behind the deleted key.
DeletedAtNext(sg, idx) ==
  CutAgain([sg EXCEPT !.buf = RemoveAt(@, idx + 1)],
           Located(sg, idx + 1), RemoveAt(sg.str, idx + 1))
DeletedAt(sg, idx) ==
  CutAgain([sg EXCEPT !.buf = RemoveAt(@, idx + 1)],
           Located(sg, idx), RemoveAt(sg.str, idx + 1))

-----------------------------------------------------------------------------
(* What the segmentation of a whole input should be, without any history   *)
(* of edits: a segment opens at every key that is not a stroke, and at the *)
(* first key; it runs up to the next one.                                  *)
Opens(str) == {p \in DOMAIN str : p = 1 \/ str[p] # "stroke"}
Opening(str, k) == CHOOSE p \in Opens(str) : Cardinality({q \in Opens(str) : q <= p}) = k
Reference(str) ==
  LET n == Cardinality(Opens(str))
      next(k) == IF k < n THEN Opening(str, k + 1) ELSE Len(str) + 1
  IN [k \in 1 .. n |-> [start |-> Opening(str, k) - 1,
                        len   |-> next(k) - Opening(str, k),
                        type  |-> SegmentType(str[Opening(str, k)])]]
=============================================================================
