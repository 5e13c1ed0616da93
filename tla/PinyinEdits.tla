----------------------------- MODULE PinyinEdits ----------------------------
(***************************************************************************)
(* The edits of the Pinyin segmentors.  class names the segmentor's class. *)
(* The input is held as it was typed (m_inputBuf) and as it is cut         *)
(* (m_pystr); an edit cuts again, key by key, from its segment on.  The    *)
(* edits of the quanpin and hunpin segmentors are the same code over a     *)
(* _push of their own.                                                     *)
(***************************************************************************)
EXTENDS QuanpinSegmentor, HunpinSegmentor, ShuangpinSegmentor

\* The segmentor after a key that is in its m_inputBuf.
_push(class, sg, ch) ==
  CASE class = "quanpin"   -> QuanpinPush(sg, ch)
    [] class = "hunpin"    -> HunpinPush(sg, ch)
    [] class = "shuangpin" -> ShuangpinPush(sg, ch)

(* _updateWith: pushes the keys of suffix one by one; updatedFrom is the   *)
(* least any of the pushes returned.                                       *)
UpdatedBy(class, sg, ch) ==
  LET next == _push(class, sg, ch)
  IN [next EXCEPT !.updatedFrom = IF @ < sg.updatedFrom THEN @ ELSE sg.updatedFrom]
UpdatedWith(class, sg, suffix, from) ==
  LET after[k \in 0 .. Len(suffix)] ==
        IF k = 0 THEN [sg EXCEPT !.updatedFrom = from] ELSE UpdatedBy(class, after[k - 1], suffix[k])
  IN after[Len(suffix)]

\* str, from the end of the first j segments on, is cut again behind them.
CutAgain(class, sg, j, str, from) ==
  LET at   == KeysOf(sg.segs, j)
      kept == [sg EXCEPT !.segs = SubSeq(@, 1, j), !.pystr = SubSeq(str, 1, at)]
  IN UpdatedWith(class, kept, Keys(SubSeq(str, at + 1, Len(str))), from)

Pushed(class, sg, ch) == _push(class, [sg EXCEPT !.buf = Append(@, ch)], ch)

\* Mutation of Popped: the last segment is shortened, not cut again.
PoppedShort(class, sg) ==
  LET last == Last(sg.segs)
      kept == IF last.len = 1 THEN << >>
              ELSE <<[last EXCEPT !.len = @ - 1,
                                  !.syls = Encoded(Keys(SubSeq(sg.pystr, last.start + 1, Len(sg.pystr) - 1)))]>>
  IN IF sg.pystr = << >> THEN [sg EXCEPT !.updatedFrom = 0]
     ELSE [sg EXCEPT !.buf = Front(@), !.pystr = Front(@), !.segs = Front(@) \o kept,
                     !.updatedFrom = last.start]
Popped(class, sg) ==
  LET n == Len(sg.buf)
  IN IF sg.pystr = << >> THEN [sg EXCEPT !.updatedFrom = 0]
     ELSE IF Last(sg.segs).len = 1
     THEN [sg EXCEPT !.buf = Front(@), !.pystr = Front(@), !.segs = Front(@), !.updatedFrom = n - 1]
     ELSE CutAgain(class, [sg EXCEPT !.buf = Front(@)], Len(sg.segs) - 1, Front(sg.pystr), UINT_MAX)

InsertedAt(class, sg, idx, ch) ==
  CutAgain(class, [sg EXCEPT !.buf = InsertAt(@, idx + 1, ch)], Located(sg, idx),
           InsertAt(sg.pystr, idx + 1, Plain(ch)), UINT_MAX)

\* idx is the place of the deleted key, whichever way it goes.
DeletedAt(class, sg, idx) ==
  CutAgain(class, [sg EXCEPT !.buf = RemoveAt(@, idx + 1)], Located(sg, idx),
           RemoveAt(sg.pystr, idx + 1), UINT_MAX)

(* _clear: what comes after from goes.                                     *)
ClearedFrom(class, sg, from) ==
  CutAgain(class, sg, Located(sg, from), SubSeq(sg.pystr, 1, from), from)

-----------------------------------------------------------------------------
\* The keys of new are pushed in the place of the last n letters.
Again(sg, n, new) ==
  UpdatedWith("quanpin", ClearedFrom("quanpin", sg, Len(sg.pystr) - n), new, UINT_MAX)

(* CQuanpinSegmentor::push, when p, the input with the key, ends with the  *)
(* mistyped letters of pair: the last keys are pushed again as they are    *)
(* meant, and if that does not save a segment, as they were typed.  The    *)
(* last segment keeps the keys as they were typed, however many.           *)
Corrected(sg, p, pair) ==
  LET l    == Len(pair[1])
      keys == Ending(sg.buf, l)
      Settled(meant) ==
        IF meant.stuck THEN meant
        ELSE IF Len(meant.segs) >= Len(sg.segs) THEN Again(meant, Len(pair[2]), keys)
        ELSE [meant EXCEPT !.segs[Len(meant.segs)].len = @ + l - Len(pair[2]),
                           !.pystr = SubSeq(@, 1, Len(sg.buf) - l) \o [k \in 1 .. l |-> Plain(keys[k])]]
  IN Settled(Again([sg EXCEPT !.pystr = p], l, pair[2]))

-----------------------------------------------------------------------------
(* The edits of CShuangpinSegmentor.                                       *)

(* pop looks at the last segment that is left even when none is, the two   *)
(* keys having been a pair; what it reads there only matters after an      *)
(* invalid key.                                                            *)
ShuangpinPopped(sg) ==
  LET n     == Len(sg.buf)
      l     == Last(sg.segs).len
      alpha == IF isInputPy(Last(sg.pystr).ch) THEN sg.nAlpha ELSE 1 - sg.nAlpha
      left  == [sg EXCEPT !.buf = Front(@), !.nAlpha = alpha, !.segs = Front(@),
                          !.pystr = SubSeq(@, 1, n - l)]
      freed == [left EXCEPT !.hasInvalid = @ /\ left.segs # << >> /\ Last(left.segs).type = "invalid"]
  IN IF sg.pystr = << >> THEN [sg EXCEPT !.updatedFrom = 0]
     ELSE IF sg.segs = << >> \/ l > n \/ (n > 1 /\ left.segs = << >> /\ sg.hasInvalid) THEN Stuck(sg)
     ELSE IF l = 1 THEN [freed EXCEPT !.updatedFrom = n - 1]
     ELSE UpdatedWith("shuangpin", freed, Keys(SubSeq(sg.pystr, n - l + 1, n - 1)), UINT_MAX)

\* The segmentor cut back to its first j segments, which have at keys.
CutBack(sg, j, at) == [sg EXCEPT !.segs = SubSeq(@, 1, j), !.pystr = SubSeq(@, 1, at)]

(* insertAt: behind the last valid key, the key before it is cut again     *)
(* too, and its segment goes.                                              *)
ShuangpinInsertedAt(sg, idx, ch) ==
  LET j    == Located(sg, idx)
      at   == KeysOf(sg.segs, j)
      str  == InsertAt(sg.pystr, idx + 1, Plain(ch))
      rest == Keys(SubSeq(str, at + 1, Len(str)))
      cut  == CutBack([sg EXCEPT !.buf = InsertAt(@, idx + 1, ch), !.pystr = str], j, at)
      last == sg.nLastValidPos
      counted(s) == [s EXCEPT !.nAlpha = NumberOfNonAlpha(s.pystr)]
  IN IF last + 1 = idx /\ at = 0 THEN Stuck(cut)
     ELSE IF last + 1 = idx /\ Last(cut.pystr).ch \in Letters
     THEN UpdatedWith("shuangpin",
                      counted([CutBack(cut, j - 1, at - 1) EXCEPT
                                 !.hasInvalid = FALSE, !.nLastValidPos = idx - 1]),
                      <<Last(cut.pystr).ch>> \o rest, UINT_MAX)
     ELSE UpdatedWith("shuangpin",
                      counted([cut EXCEPT !.hasInvalid = @ /\ last + 1 < idx,
                                          !.nLastValidPos = IF idx < last THEN idx ELSE @]),
                      rest, UINT_MAX)

(* deleteAt: behind the last valid key only the segment of the key goes;   *)
(* the segments after it, and updatedFrom, stay as they were.              *)
ShuangpinDeletedAt(sg, idx) ==
  LET j    == Located(sg, idx)
      at   == KeysOf(sg.segs, j)
      str  == RemoveAt(sg.pystr, idx + 1)
      rest == SubSeq(str, at + 1, Len(str))
      cut  == CutBack([sg EXCEPT !.buf = RemoveAt(@, idx + 1), !.pystr = str], j, at)
  IN IF sg.nLastValidPos + 1 >= idx
     THEN UpdatedWith("shuangpin",
                      [cut EXCEPT !.hasInvalid = FALSE, !.nAlpha = NumberOfNonAlpha(cut.pystr)],
                      Keys(rest), UINT_MAX)
     ELSE IF idx > at THEN Stuck(cut)
     ELSE [cut EXCEPT !.pystr = str, !.segs = @ \o SubSeq(sg.segs, j + 2, Len(sg.segs))]

-----------------------------------------------------------------------------
(* The virtual functions of the segmentors.                                *)

push(class, sg, ch) ==
  LET p == Append(sg.pystr, Plain(ch))
  IN IF class = "quanpin" /\ Mistyped(p) # {}
     THEN Corrected([sg EXCEPT !.buf = Append(@, ch)], p, CHOOSE pair \in Mistyped(p) : TRUE)
     ELSE Pushed(class, sg, ch)
pop(class, sg) == IF class = "shuangpin" THEN ShuangpinPopped(sg) ELSE Popped(class, sg)
insertAt(class, sg, idx, ch) ==
  IF class = "shuangpin" THEN ShuangpinInsertedAt(sg, idx, ch) ELSE InsertedAt(class, sg, idx, ch)
deleteAt(class, sg, idx) ==
  IF class = "shuangpin" THEN ShuangpinDeletedAt(sg, idx) ELSE DeletedAt(class, sg, idx)

\* clear(0)
clear(class, sg) ==
  IF class = "shuangpin" THEN [EmptyShuangpin EXCEPT !.nLastValidPos = sg.nLastValidPos] ELSE Empty
=============================================================================
