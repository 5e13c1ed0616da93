---------------------------- MODULE MCPinyinInput ---------------------------
(***************************************************************************)
(* PinyinInput over four letters: the syllables of quanpin_trie.h they     *)
(* spell, those the MS2003 plan has for two of them, and a dictionary of a *)
(* few words that share syllables and initials.                            *)
(***************************************************************************)
EXTENDS PinyinInput

Plain4 == {"n", "a", "i", "g"}
Plain5 == {"f", "i", "a", "o", "u"}
MCLetters == Plain4 \cup Plain5

Syl(ini, fins) == {[ini |-> ini, fin |-> f] : f \in fins}
MCSyllables ==
  Syl(<< >>, {<<"a">>, <<"a", "i">>, <<"a", "n">>, <<"a", "n", "g">>, <<"a", "o">>,
                <<"n", "g">>, <<"o">>, <<"o", "u">>})
  \cup Syl(<<"f">>, {<< >>, <<"a">>, <<"i", "a", "o">>, <<"o">>, <<"o", "u">>, <<"u">>})
  \cup Syl(<<"n">>, {<< >>, <<"a">>, <<"a", "i">>, <<"a", "n">>, <<"a", "n", "g">>,
                     <<"i">>, <<"i", "a", "n">>, <<"i", "a", "n", "g">>, <<"i", "n">>,
                     <<"i", "n", "g">>, <<"e", "n", "g">>})
  \cup Syl(<<"g">>, {<< >>, <<"a">>, <<"a", "i">>, <<"a", "n">>, <<"a", "n", "g">>, <<"e", "n", "g">>})
  \cup Syl(<<"c", "h">>, {<< >>, <<"a">>, <<"i">>, <<"i", "n">>, <<"e", "n", "g">>})

\* The MS2003 plan.
MCMapInitials == {<<"n", <<"n">>>>, <<"g", <<"g">>>>, <<"i", <<"c", "h">>>>}
MCMapFinals == {<<"a", <<"a">>>>, <<"i", <<"i">>>>, <<"n", <<"i", "n">>>>,
                <<"g", <<"e", "n", "g">>>>, <<";", <<"i", "n", "g">>>>}
MCZeroInitials == {}

\* auto_correction_pairs
MCCorrectionPairs == <<<<<<"i", "g", "n">>, <<"i", "n", "g">>>>>>

ni == [ini |-> <<"n">>, fin |-> <<"i">>]
na == [ini |-> <<"n">>, fin |-> <<"a">>]
nan == [ini |-> <<"n">>, fin |-> <<"a", "n">>]
ning == [ini |-> <<"n">>, fin |-> <<"i", "n", "g">>]
ga == [ini |-> <<"g">>, fin |-> <<"a">>]
an == [ini |-> << >>, fin |-> <<"a", "n">>]

Line(id, syls, cost) == [id |-> id, readings |-> <<[syls |-> syls, cost |-> cost]>>]
Words == <<Line(1, <<ni>>, 0), Line(2, <<na>>, 1), Line(3, <<ni, ga>>, 0), Line(4, <<nan, ga>>, 0),
           [id |-> 5, readings |-> <<[syls |-> <<an>>, cost |-> 2], [syls |-> <<na>>, cost |-> 0]>>],
           Line(5, <<na>>, 3), Line(6, <<ning, ni, ga>>, 0), Line(7, <<ga, an>>, 1)>>

Setup(kind, ls, typed, keys) == [scheme |-> kind, lines |-> ls, typed |-> typed, keys |-> keys]
MCSetups ==
  {Setup("none", SubSeq(Words, i, j), {}, 0) : i, j \in DOMAIN Words}
  \cup {Setup("quanpin", Words, Plain5, 5), Setup("quanpin", Words, {"n", "a", "g"}, 5),
          Setup("hunpin", Words, Plain4, 4)}
  \cup {Setup(s, Words, Plain4 \cup {"'", ";"}, 4) : s \in {"quanpin", "hunpin"}}
  \cup {Setup("shuangpin", Words, Plain4 \cup {"'", ";"}, 3)}

MCUserWords == {[id |-> 101, syls |-> <<ni, na>>], [id |-> 102, syls |-> <<nan, ni>>]}
=============================================================================
