-------------------------- MODULE ShuangpinSegmentor ------------------------
(***************************************************************************)
(* CShuangpinSegmentor (src/src/pinyin/input/shuangpin_seg.cpp): two keys  *)
(* make a syllable, by the plan.  After a key that cannot go on, every key *)
(* is invalid (m_hasInvalid).  Which key is the second of a pair follows   *)
(* from the number of keys and m_nAlpha, how many of them are no pinyin,   *)
(* of which only the parity is kept here, as only that is used.            *)
(* m_nLastValidPos counts the keys ever accepted: no pop takes one back.   *)
(***************************************************************************)
EXTENDS PinyinData

CONSTANTS
  Semicolon,   \* is ';' a key of the plan, as in MS2003 and ZIGUANG?
  MaxKeys      \* bound: m_nLastValidPos is not told apart beyond it, no place is

EmptyShuangpin ==
  [buf |-> << >>, pystr |-> << >>, segs |-> << >>, updatedFrom |-> 0, stuck |-> FALSE,
   nAlpha |-> 0, hasInvalid |-> FALSE, nLastValidPos |-> 0]

isInputPy(ch) == ch \in Letters \/ (ch = ";" /\ Semicolon)
NumberOfNonAlpha(pystr) == Cardinality({k \in DOMAIN pystr : pystr[k].ch \notin Letters}) % 2

Accepted(sg) == [sg EXCEPT !.nLastValidPos = Min({@ + 1, MaxKeys + 1})]
Stuck(sg) == [sg EXCEPT !.stuck = TRUE]
\* A segment of one key is added.
Adds(sg, seg) == [sg EXCEPT !.segs = Append(@, seg), !.updatedFrom = seg.start]
Invalid(sg, n, ch) == Adds([sg EXCEPT !.hasInvalid = TRUE], Segment(n - 1, 1, "invalid", "string", {}))

(* _encode of the first key of a pair: the initial it stands for.          *)
FirstKey(sg, n, ch) ==
  LET initials == MappedInitials(ch)
      initial  == CHOOSE i \in initials : TRUE
  IN IF initials = {} THEN Invalid(sg, n, ch)
     ELSE IF Encoded(initial) = {} THEN Adds(Accepted(sg), Segment(n - 1, 1, "string", "string", {}))
     ELSE Adds(Accepted(sg), Segment(n - 1, 1, "syllable", "syllable", Encoded(initial)))

(* _encode of the second: the last segment, whatever it is, becomes the    *)
(* pair.                                                                   *)
SecondKey(sg, n, ch) ==
  IF n < 2 \/ sg.segs = << >> THEN Stuck(sg)
  ELSE LET syls == MappedSyllables(sg.pystr[n - 1].ch, ch)
       IN IF syls = {} THEN Invalid(sg, n, ch)
          ELSE [Accepted(sg) EXCEPT
                  !.updatedFrom = n - 2, !.segs[Len(sg.segs)] = AsPair(@, n - 2, syls)]

(* _push                                                                   *)
ShuangpinPush(sg, ch) ==
  LET typed == [sg EXCEPT !.pystr = Append(@, Plain(ch))]
      n     == Len(typed.pystr)
  IN IF sg.stuck THEN sg
     ELSE IF sg.hasInvalid THEN Invalid(typed, n, ch)
     ELSE IF ~isInputPy(ch)
     THEN Adds([Accepted(typed) EXCEPT !.nAlpha = 1 - @], OddSegment(sg, n - 1, ch))
     ELSE IF (n - sg.nAlpha) % 2 = 0 THEN SecondKey(typed, n, ch)
     ELSE FirstKey(typed, n, ch)
=============================================================================
