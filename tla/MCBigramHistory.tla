-------------------------- MODULE MCBigramHistory --------------------------
(* A small instance of BigramHistory for TLC.                              *)
EXTENDS BigramHistory

CONSTANTS w0, w1, MaxFreq   \* two word ids; bound: the count of one key

\* Words on their own and in a sentence, so that pairs form and streams differ in length.
MCStreams == {<<w0>>, <<w1>>, <<w1, w0>>}

\* Counts would grow without end: a key that is never evicted is counted again and again.
Bounded ==
  /\ \A w \in Words : Total(uni[w]) <= MaxFreq
  /\ \A p \in Ids \X Words : Total(bi[p]) <= MaxFreq

MCNext == Next /\ Bounded'
MCSpec == Init /\ [][MCNext]_vars
=============================================================================
