---------------------------- MODULE MCSlmTools ----------------------------
EXTENDS SlmTools

CONSTANTS Words3,       \* words that occur
          MaxWords      \* words in all files

MCCorpora ==
    {c \in UNION {{<<a, b>>: a \in BoundedSeq(Words3, MaxWords), b \in BoundedSeq(Words3, 3)}}:
        /\ Len(c[1]) + Len(c[2]) <= MaxWords
        /\ Len(c[1]) >= N}
\* Bigrams seen once are dropped unless a trigram needs them.
MCCutOff == [k \in 1 .. N |-> IF k = 2 THEN 1 ELSE 0]
MCMilestones == {<<1, 1>>}
\* Words that overlap, two texts for each id; "x" is unknown.
MCLexicon == <<[text |-> <<"<ambi>">>, id |-> 1], [text |-> <<"<stok>">>, id |-> 2],
               [text |-> <<"c">>, id |-> 3], [text |-> <<"a", "b">>, id |-> 3],
               [text |-> <<"a">>, id |-> 4], [text |-> <<"b", "c">>, id |-> 4]>>
MCSentences == {<<"a", "b", "c">>, <<"x", "x", "a">>, <<"c", "a", "b">>}
=============================================================================
