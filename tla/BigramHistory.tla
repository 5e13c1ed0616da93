--------------------------- MODULE BigramHistory ---------------------------
(***************************************************************************)
(* CBigramHistory (src/src/ime-core/ic_history.{h,cpp}): the input         *)
(* method's memory of what the user committed.                             *)
(*                                                                         *)
(* A bounded queue of word ids (m_memory) holds the most recent committed  *)
(* streams, each preceded by the separator id DCWID.  Four pools count     *)
(* words and adjacent pairs: a short-term pool, whose entries carry the    *)
(* time they were last touched, and a long-term pool, into which           *)
(* short-term entries are aged.  Only the queue is saved; the pools are    *)
(* rebuilt from it when the history file is loaded.                        *)
(*                                                                         *)
(* time(NULL) appears in the code only as the age of a short-term entry,   *)
(* compared with short_term_time, so a clock value is represented by the   *)
(* age it gives, saturated at ShortTerm; Tick lets time pass.              *)
(***************************************************************************)
EXTENDS Integers, Sequences, FiniteSets

CONSTANTS
  Words,      \* word ids the lexicon or the user dictionary gives out, with 0
  Unknown,    \* word id 0, what a frame without a lexicon word is memorized as
  UserWords,  \* the ids above INI_USRDEF_WID, the only ones a caller forgets
  DCWID,      \* (uint32_t)-1, the "don't care" id that separates two streams
  Streams,    \* the streams of word ids a caller commits or forgets
  Cap,        \* contxt_memory_size
  ShortTerm   \* short_term_time, in clock ticks

ASSUME HistoryAssumption ==
  /\ DCWID \notin Words
  /\ Unknown \in Words
  /\ UserWords \subseteq Words \ {Unknown}
  /\ Streams \subseteq Seq(Words) \ {<< >>}
  /\ Cap \in Nat /\ Cap >= 2
  /\ ShortTerm \in Nat \ {0}

Ids == Words \cup {DCWID}
Pairs == Ids \X Ids

VARIABLES
  up,         \* the process runs and has loaded its history
  memory,     \* m_memory, oldest first
  uni,        \* m_unifreq_st and m_unifreq_lt: what they hold for each id
  bi,         \* m_bifreq_st and m_bifreq_lt: what they hold for each pair
  file,       \* the history file, as the ids it decodes to
  forgotten,  \* history variable: words forgotten since the load, which m_memory may still hold
  forgottenBi,\* history variable: the same for pairs
  deleted     \* history variable: words forgotten for good, not committed again since

vars == <<up, memory, uni, bi, file, forgotten, forgottenBi, deleted>>

-----------------------------------------------------------------------------
(* What the two pools hold for one key.  No entry is kept with a count of  *)
(* zero, so zero stands for "not in this pool".                            *)

Freq == [st : Nat, age : 0 .. ShortTerm, lt : Nat]
Absent == [st |-> 0, age |-> 0, lt |-> 0]
Total(f) == f.st + f.lt

\* incUniFreq, incBiFreq: only the short-term pool counts up, and is touched.
Touched(f, n) == IF n = 0 THEN f ELSE [st |-> f.st + n, age |-> 0, lt |-> f.lt]

\* Mutation of Dropped: the entry goes whatever it still counts.
DroppedWhole(f, n) == IF n = 0 THEN f ELSE [f EXCEPT !.lt = 0]
\* decUniFreq, decBiFreq: only the long-term pool counts down; its entry goes at one.
Dropped(f, n) == [f EXCEPT !.lt = IF @ > n THEN @ - n ELSE 0]

\* Mutation of Aged: one use moves instead of all (incFreq for addFreq).
AgedByOne(f, interval) ==
  IF f.st > 0 /\ f.age >= interval THEN [st |-> 0, age |-> 0, lt |-> f.lt + 1] ELSE f
\* ageFreqs: an entry not touched for interval moves to the long-term pool.
Aged(f, interval) ==
  IF f.st > 0 /\ f.age >= interval
  THEN [st |-> 0, age |-> 0, lt |-> f.lt + f.st]
  ELSE f

Occ(s, w) == Cardinality({i \in DOMAIN s : s[i] = w})
PairOcc(s, p) == Cardinality({i \in 1 .. Len(s) - 1 : <<s[i], s[i + 1]>> = p})

StopWord(w) == w \in {Unknown, DCWID}
SeenBefore(w) == ~StopWord(w) /\ Total(uni[w]) > 0

-----------------------------------------------------------------------------
\* How many ids leave the front while stream is pushed behind the memory.  The
\* code tests size() == Cap before each push: a longer queue would never shrink.
Evicted(stream) ==
  IF Len(memory) <= Cap /\ Len(stream) > Cap THEN Len(stream) - Cap ELSE 0

(* memorize: separator first, then the words, each making room for itself. *)
(* A pop takes one from the long-term count of the id popped and of the    *)
(* pair it formed with the new front; a push adds one to the short-term    *)
(* counts.  The separator is pushed without being counted.                 *)
Memorize(ws) ==
  LET stream == memory \o <<DCWID>> \o ws
      out    == Evicted(stream)
      gone   == SubSeq(stream, 1, out)
      goneBi == SubSeq(stream, 1, out + 1)
  IN /\ up
     /\ memory' = SubSeq(stream, out + 1, Len(stream))
     /\ uni' = [w \in Ids |->
                 Aged(Touched(Dropped(uni[w], Occ(gone, w)), Occ(ws, w)), ShortTerm)]
     /\ bi' = [p \in Pairs |->
                Aged(Touched(Dropped(bi[p], PairOcc(goneBi, p)),
                             PairOcc(<<DCWID>> \o ws, p)), ShortTerm)]
     /\ deleted' = deleted \ {ws[i] : i \in DOMAIN ws}
     /\ UNCHANGED <<up, file, forgotten, forgottenBi>>

\* Mutation of Erased: the short-term entry stays.
ErasedLongTerm(f) == [f EXCEPT !.lt = 0]
\* forgetUgInUgPool, forgetUgInBiPool: the entry leaves both pools.
Erased(f) == Absent

PairsWith(wid) == {p \in Pairs : wid \in {p[1], p[2]}}

(* forget(wid): the word leaves the pools; m_memory keeps it.              *)
Forget(wid) ==
  /\ up
  /\ uni' = [w \in Ids |-> IF w = wid THEN Erased(uni[w]) ELSE uni[w]]
  /\ bi' = [p \in Pairs |-> IF p \in PairsWith(wid) THEN Erased(bi[p]) ELSE bi[p]]
  /\ forgotten' = forgotten \cup {wid}
  /\ forgottenBi' = forgottenBi \cup PairsWith(wid)
  /\ deleted' = deleted \cup {wid}
  /\ UNCHANGED <<up, memory, file>>

(* forget(its_wid, ite_wid): the pairs of a sentence leave the pools, the  *)
(* last word's pair being the one with the separator.                      *)
ForgetStream(ws) ==
  LET s == Append(ws, DCWID)
      pairs == {<<s[i], s[i + 1]>> : i \in 1 .. Len(ws)}
  IN /\ up
     /\ bi' = [p \in Pairs |-> IF p \in pairs THEN Absent ELSE bi[p]]
     /\ forgottenBi' = forgottenBi \cup pairs
     /\ UNCHANGED <<up, memory, uni, file, forgotten, deleted>>

-----------------------------------------------------------------------------
(* saveToFile: fopen(..., "wb") empties the file, then the queue is        *)
(* written; n < Len(memory) is a write cut short (a full disk).  An empty  *)
(* queue gives no buffer and leaves the file alone.                        *)
SaveToFile(n) ==
  /\ up
  /\ memory # << >>
  /\ n \in 0 .. Len(memory)
  /\ file' = SubSeq(memory, 1, n)
  /\ UNCHANGED <<up, memory, uni, bi, forgotten, forgottenBi, deleted>>

AllAbsent(keys) == [k \in keys |-> Absent]

(* The process dies, possibly inside a save after n ids were written.      *)
Crash ==
  /\ up
  /\ up' = FALSE
  /\ \/ file' = file
     \/ memory # << >> /\ \E n \in 0 .. Len(memory) : file' = SubSeq(memory, 1, n)
  /\ memory' = << >>
  /\ uni' = AllAbsent(Ids)
  /\ bi' = AllAbsent(Pairs)
  /\ forgotten' = {}
  /\ forgottenBi' = {}
  /\ UNCHANGED deleted

(* loadFromFile at start-up: every id that is read, separators included,   *)
(* is pushed and counted, and everything is aged at once.  Nothing is read *)
(* of a file that does not open, which a save may replace all the same.    *)
LoadFromFile ==
  /\ ~up
  /\ up' = TRUE
  /\ memory' \in {file, << >>}
  /\ uni' = [w \in Ids |-> Aged(Touched(Absent, Occ(memory', w)), 0)]
  /\ bi' = [p \in Pairs |-> Aged(Touched(Absent, PairOcc(<<DCWID>> \o memory', p)), 0)]
  /\ forgotten' = {}
  /\ forgottenBi' = {}
  /\ UNCHANGED <<file, deleted>>

Older(f) == IF f.st > 0 /\ f.age < ShortTerm THEN [f EXCEPT !.age = @ + 1] ELSE f

(* The wall clock advances by one tick.                                    *)
Tick ==
  /\ up
  /\ uni' = [w \in Ids |-> Older(uni[w])]
  /\ bi' = [p \in Pairs |-> Older(bi[p])]
  /\ UNCHANGED <<up, memory, file, forgotten, forgottenBi, deleted>>

Init ==
  /\ up = FALSE
  /\ memory = << >>
  /\ uni = AllAbsent(Ids)
  /\ bi = AllAbsent(Pairs)
  /\ file = << >>
  /\ forgotten = {}
  /\ forgottenBi = {}
  /\ deleted = {}

Next ==
  \/ \E ws \in Streams : Memorize(ws)
  \/ \E wid \in UserWords : Forget(wid)
  \/ \E ws \in Streams : ForgetStream(ws)
  \/ \E n \in 0 .. Cap : SaveToFile(n)
  \/ Crash
  \/ LoadFromFile
  \/ Tick

Spec == Init /\ [][Next]_vars

-----------------------------------------------------------------------------
(* The state of CBigramHistory has the shape its declarations give it.     *)
TypeOK ==
  /\ up \in BOOLEAN
  /\ memory \in Seq(Ids)
  /\ uni \in [Ids -> Freq]
  /\ bi \in [Pairs -> Freq]
  /\ file \in Seq(Ids)
  /\ forgotten \subseteq Words
  /\ forgottenBi \subseteq Pairs
  /\ deleted \subseteq Words

(* The queue never outgrows contxt_memory_size.  The code only tests for   *)
(* equality before a push and not at all when loading, so this rests on    *)
(* the file never holding more than a full queue either.                   *)
MemoryBound == Len(memory) <= Cap /\ Len(file) <= Cap

(* A word that was not forgotten counts, over both pools, at least as      *)
(* often as the queue still holds it, whatever was evicted, aged, saved,   *)
(* cut short or reloaded in between: eviction (which only debits the       *)
(* long-term pool) never takes a count that a remembered use still needs.  *)
CountsCoverMemory ==
  \A w \in Words \ forgotten : Occ(memory, w) <= Total(uni[w])

(* The same for pairs of neighbouring words, which the conditional         *)
(* probability pr() is computed from.  Pairs that end in a separator are   *)
(* counted on a load only.                                                 *)
PairsCoverMemory ==
  \A p \in (Ids \X Words) \ forgottenBi : PairOcc(memory, p) <= Total(bi[p])

(* Within one run of the process a word the user deleted stays out of both *)
(* pools until it is committed again: no aging, eviction or save brings    *)
(* its counts back.                                                        *)
ForgottenWithinRun == \A w \in deleted \cap forgotten : ~SeenBefore(w)
=============================================================================
