----------------------------- MODULE PinyinData -----------------------------
(***************************************************************************)
(* The syllables of Mandarin as pinyin_info.h and quanpin_trie.h list them *)
(* (generated from python/pinyin_data.py), and the tables of a shuangpin   *)
(* plan (src/src/pinyin/input/shuangpin_data.cpp), both cut down to what   *)
(* the letters of an instance can spell.                                   *)
(*                                                                         *)
(* A syllable is its initial and its final, each the sequence of its       *)
(* letters; a syllable without a final stands for all that begin with its  *)
(* initial.  Tones are not typed.                                          *)
(***************************************************************************)
EXTENDS Integers, Sequences, FiniteSets, SequencesExt, FiniteSetsExt

CONSTANTS
  Letters,       \* the lower-case letters that are typed
  Syllables,     \* valid_syllables, [ini, fin]
  MapInitials,   \* the plan: <<key, initial>>, of mapinitials
  MapFinals,     \* <<key, final>>, of mapfinals
  ZeroInitials   \* <<two keys, syllable without initial>>, of zeroinitals

Spelling(s) == s.ini \o s.fin
Spellings == {Spelling(s) : s \in Syllables}

ASSUME SyllablesAssumption ==
  /\ "'" \notin Letters
  /\ << >> \notin Spellings
  /\ \A s, t \in Syllables : Spelling(s) = Spelling(t) => s = t

isFullSyllable(s) == s.fin # << >>
Initial(s) == [s EXCEPT !.fin = << >>]

(* CPinyinData::encode, CShuangpinData::encode: the syllable a spelling    *)
(* has, as a set of at most one.                                           *)
Encoded(spelling) == {s \in Syllables : Spelling(s) = spelling}

-----------------------------------------------------------------------------
(* A letter of m_pystr: one whose highest bit is set matches nothing.      *)

Plain(ch) == [ch |-> ch, hi |-> FALSE]
Keys(pystr) == [k \in DOMAIN pystr |-> pystr[k].ch]
IsSyllable(p) == Keys(p) \in Spellings /\ \A k \in DOMAIN p : ~p[k].hi
Ending(p, l) == SubSeq(p, Len(p) - l + 1, Len(p))

(* CDATrie::match_longest over the letters from the last one back: the     *)
(* length of the longest syllable p ends with, 0 when there is none.       *)
match_longest(p) == Max({0} \cup {l \in 1 .. Len(p) : IsSyllable(Ending(p, l))})

-----------------------------------------------------------------------------
(* getMapString, of one key: the initials it stands for, as syllables; the *)
(* empty one, which is no syllable, is << >>.                              *)
MappedInitials(key) == {m[2] : m \in {m \in MapInitials : m[1] = key}}

(* getMapString, of two keys: the syllables they stand for.                *)
MappedSyllables(k1, k2) ==
  LET zero == {z \in ZeroInitials : z[1] = <<k1, k2>>}
      spelled == {i \o f : i \in MappedInitials(k1),
                           f \in {m[2] : m \in {m \in MapFinals : m[1] = k2}}}
  IN IF zero # {} THEN UNION {Encoded(z[2]) : z \in zero}
     ELSE UNION {Encoded(sp) : sp \in spelled}

-----------------------------------------------------------------------------
(***************************************************************************)
(* The segments the segmentors of pinyin cut the input into (TSegment and  *)
(* its kinds, src/src/common/input/segment/), and the segmentor before the *)
(* first key.                                                              *)
(***************************************************************************)
\* UINT_MAX, of _updateWith when nothing is pushed.
UINT_MAX == 1000000

(* TSegment.  class is that of the object, which decides what forward      *)
(* does: "py" TPySyllableSegment, "syllable" TSyllableSegment; type is     *)
(* m_type, syls the syllables it may stand for.                            *)
Segment(start, len, type, class, syls) ==
  [start |-> start, len |-> len, type |-> type, class |-> class, syls |-> syls]
PySegment(start, len, syls) == Segment(start, len, "syllable", "py", syls)
End(seg) == seg.start + seg.len

(* _encode of the shuangpin and hunpin segmentors: a segment, whatever it  *)
(* is, becomes a pair of keys of the plan; it stays the object it was.     *)
AsPair(seg, start, syls) ==
  [seg EXCEPT !.start = start, !.len = 2, !.type = "syllable", !.syls = syls]

\* The keys of the first j segments.
KeysOf(segs, j) ==
  LET upTo[i \in 0 .. j] == IF i = 0 THEN 0 ELSE upTo[i - 1] + segs[i].len
  IN upTo[j]

(* m_inputBuf, m_pystr, m_segs and m_updatedFrom; stuck when a call never  *)
(* returns or reads what is not there.                                     *)
Empty == [buf |-> << >>, pystr |-> << >>, segs |-> << >>, updatedFrom |-> 0, stuck |-> FALSE]

(* The segment of a key that no syllable has.  A separator is one only     *)
(* when there is other input.                                              *)
OddSegment(sg, at, ch) ==
  LET type == CASE ch = "'" /\ Len(sg.buf) > 1 -> "sep"
                [] ch \in Letters              -> "invalid"
                [] OTHER                       -> "string"
  IN Segment(at, 1, type, IF type = "sep" THEN "sep" ELSE "string", {})

(* _locateSegment: the number of segments before the one that holds idx.   *)
Located(sg, idx) == Max({j \in 0 .. Len(sg.segs) : KeysOf(sg.segs, j) <= idx})
=============================================================================
