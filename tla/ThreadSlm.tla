----------------------------- MODULE ThreadSlm -----------------------------
(***************************************************************************)
(* The model in the form the input method uses it: slmthread leaves in     *)
(* every item the state to go on from when a word does not follow it, and  *)
(* CThreadSlm walks from state to state.  A state is a level and an index  *)
(* in it, the root is <<0, 0>>.                                            *)
(***************************************************************************)
EXTENDS SimSlm

CONSTANT Lexicon        \* the lines of the dictionary: a text and its id

ASSUME LexiconAssumption ==
    /\ \A i \in DOMAIN Lexicon: Lexicon[i].text \in Seq(STRING) \ {<<>>}
    /\ \A i, j \in DOMAIN Lexicon: Lexicon[i].text = Lexicon[j].text => i = j
    /\ \A wid \in 1 .. WordCount: \E i \in DOMAIN Lexicon: Lexicon[i].id = wid

Root == [lvl |-> 0, idx |-> 0]

\* findState: the item of a sequence of words, -1 when there is none.
FindState(level, ws) == Reach(level, ws)[Len(ws)] - 1

Expandable(level, lvl, i) == lvl < N /\ Children(level, lvl, i) # {}

\* The longest end of the words that has children, of those of some lengths.
LongestExpandable(level, ws, lengths) ==
    LET end(n) == SubSeq(ws, Len(ws) + 1 - n, Len(ws))
        found == {k \in lengths:
                    LET idx == FindState(level, end(k))
                    IN  idx >= 0 /\ Expandable(level, k, idx + 1)}
        n == Max(found)
    IN  IF found = {} THEN Root ELSE [lvl |-> n, idx |-> FindState(level, end(n))]

\* Mutant: the search stops a word too early.
FindBackOffStateShort(level, ws) == LongestExpandable(level, ws, 2 .. Len(ws) - 1)

\* findBackOffState.
FindBackOffState(level, ws) == LongestExpandable(level, ws, 1 .. Len(ws) - 1)

\* main: every item but the tails gets its back-off state, and instead of its
\* bow the one bowOf has for it.
Threaded(level, bowOf) ==
    [lvl \in 0 .. N |->
        [i \in DOMAIN level[lvl] |->
            LET item == level[lvl][i]
            IN  [wid |-> item.id, ch |-> item.child, pr |-> item.pr,
                 bow |-> IF lvl = N \/ IsTail(level, lvl, i) THEN One ELSE bowOf[item.bow],
                 bo |-> IF IsTail(level, lvl, i) THEN Root
                        ELSE FindBackOffState(level, Words(level, lvl, i))]]]

---------------------------------------------------------------------------
(* CThreadSlm.                                                             *)

\* find_id: the item among h .. t - 1, t when there is none.
RECURSIVE FindId(_, _, _, _)
FindId(items, h, t, id) ==
    LET m == h + (t - h) \div 2
    IN  IF h >= t THEN t
        ELSE IF items[m + 1].wid < id THEN FindId(items, m + 1, t, id)
        ELSE IF items[m + 1].wid > id THEN
             LET found == FindId(items, h, m, id) IN IF found = m THEN t ELSE found
        ELSE m

\* rawTransfer: what the word costs, and the state it leads to.  Of a state of
\* level 0 that is not the root, only the level counts.
RECURSIVE Transfer(_, _, _, _)
Transfer(thr, st, wid, cost) ==
    LET item == thr[st.lvl][IF st.lvl = 0 THEN 1 ELSE st.idx + 1]
        t == thr[st.lvl][IF st.lvl = 0 THEN 2 ELSE st.idx + 2].ch
        idx == FindId(thr[st.lvl + 1], item.ch, t, wid)
    IN  IF idx # t
        THEN [cost |-> Times(cost, thr[st.lvl + 1][idx + 1].pr),
              state |-> [lvl |-> st.lvl + 1, idx |-> idx]]
        ELSE IF st.lvl = 0
        THEN [cost |-> Times(Times(cost, item.bow), item.pr), state |-> Root]
        ELSE Transfer(thr, item.bo, wid, Times(cost, item.bow))

ID_NOT_WORD == 69   \* CThreadSlm's: it leads to the root at no cost

RawTransfer(thr, history, wid) ==
    IF wid = ID_NOT_WORD THEN [cost |-> One, state |-> Root] ELSE Transfer(thr, history, wid, One)

\* historify: a state nothing follows gives way to its back-off state.
Historify(thr, st) ==
    LET item == thr[st.lvl][st.idx + 1]
    IN  IF st.lvl >= N \/ item.ch = thr[st.lvl][st.idx + 2].ch THEN item.bo ELSE st

---------------------------------------------------------------------------
(* The model as text, which is how it is handed out: tslminfo prints it    *)
(* level by level with the words of every n-gram spelled out, tslmpack     *)
(* reads it, finds the children again and packs it.  Numbers keep their    *)
(* value in the text.                                                      *)

\* PrintARPA and read_lexicon: of the lines for one id, or one text, the last
\* counts.
LineOf(lines) == Lexicon[Max(lines)]
TextOf(wid) == LineOf({i \in DOMAIN Lexicon: Lexicon[i].id = wid}).text
GetWid(text) == LET lines == {i \in DOMAIN Lexicon: Lexicon[i].text = text}
                IN  IF lines = {} THEN 0 ELSE LineOf(lines).id

---------------------------------------------------------------------------
(* tslminfo.  An iterator has an index in each level down to its own.      *)

\* adjustIterator: from the level above up, each index goes on to the item
\* whose children include the one below.
Holder(thr, l, idx, child) ==
    Min({j \in idx .. Len(thr[l]) - 1: j = Len(thr[l]) - 1 \/ thr[l][j + 2].ch > child})
AdjustIterator(thr, it, lvl) ==
    FoldLeft(LAMBDA at, l: [at EXCEPT ![l] = Holder(thr, l, @, at[l + 1])],
             it, [k \in 1 .. lvl |-> lvl - k])

Line(thr, it, lvl) ==
    LET item == thr[lvl][it[lvl] + 1]
    IN  [words |-> [l \in 1 .. lvl |-> TextOf(thr[l][it[l] + 1].wid)],
         pr |-> item.pr, bow |-> item.bow, bo |-> item.bo]

PrintLevel(thr, lvl) ==
    LET begin == AdjustIterator(thr, [l \in 0 .. lvl |-> 0], lvl)
        print(s, i) == [lines |-> Append(s.lines, Line(thr, s.it, lvl)),
                        it    |-> AdjustIterator(thr, [s.it EXCEPT ![lvl] = @ + 1], lvl)]
    IN  FoldLeft(print, [lines |-> <<>>, it |-> begin],
                 [i \in 1 .. Len(thr[lvl]) - 1 |-> i]).lines

PrintARPA(thr) == [lvl \in 0 .. N |-> PrintLevel(thr, lvl)]

---------------------------------------------------------------------------
(* tslmpack.                                                               *)

\* CArpaSlm::load: every item keeps the ids of all its words.
Load(arpa) ==
    [lvl \in 0 .. N |->
        [i \in DOMAIN arpa[lvl] |->
            [hw |-> [k \in 1 .. lvl |-> GetWid(arpa[lvl][i].words[k])], ch |-> 0,
             pr |-> arpa[lvl][i].pr, bow |-> arpa[lvl][i].bow, bo |-> arpa[lvl][i].bo]]]

\* CompareNode: by the first words.
ComesBefore(hw, other, n) ==
    \E i \in 1 .. n: hw[i] < other[i] /\ \A k \in 1 .. i - 1: hw[k] = other[k]

\* find_1st_child: lower_bound in the next level.
Find1stChild(slm, lvl, hw) ==
    Min({i \in 0 .. Len(slm[lvl + 1]): i = Len(slm[lvl + 1])
                                       \/ ~ComesBefore(slm[lvl + 1][i + 1].hw, hw, lvl)})

Threading(slm) ==
    [lvl \in 0 .. N |->
        IF lvl \in {0, N} THEN slm[lvl]
        ELSE [i \in DOMAIN slm[lvl] |->
                 [slm[lvl][i] EXCEPT !.ch = Find1stChild(slm, lvl, slm[lvl][i].hw)]]]

\* compress: items with the values of the tables, and a tail for every level.
Compress(slm, bowOf) ==
    [lvl \in 0 .. N |->
        LET packed(item) ==
                [wid |-> IF lvl = 0 THEN 0 ELSE item.hw[lvl], ch |-> item.ch, pr |-> item.pr,
                 bow |-> IF lvl = N THEN item.bow ELSE bowOf[item.bow], bo |-> item.bo]
            tail == [wid |-> 0, ch |-> IF lvl = N THEN 0 ELSE Len(slm[lvl + 1]),
                     pr |-> Zero, bow |-> Zero, bo |-> Root]
        IN  Append([i \in DOMAIN slm[lvl] |-> packed(slm[lvl][i])], tail)]
=============================================================================
