--------------------------- MODULE UserDictProofs ---------------------------
(***************************************************************************)
(* Proofs about the user dictionary, for any sessions, words and number of *)
(* rows.  The inductive invariant adds to what is claimed that no two rows *)
(* have the same initials and text, so that a deletion takes one word      *)
(* away, and that what is kept is in memory while the process runs, unless *)
(* the file could not be read, so that the next save does not take it away.*)
(***************************************************************************)
EXTENDS UserDict, TLAPS

Unique(db) == \A r, q \in Used(db): Key(db[r]) = Key(db[q]) => r = q

Holds(db, K) == \A k \in K: \E r \in Used(db): Key(db[r]) = k

IInv ==
    /\ TypeOK
    /\ CacheAgrees
    /\ ~running => cache = Uncached
    /\ Unique(rows) /\ Unique(disk)
    /\ running /\ ~unread => Holds(rows, kept)
    /\ ~running => ~unread
    /\ Holds(disk, kept)

---------------------------------------------------------------------------
\* Words are no substitutes: a row that holds a word is in use.
LEMMA UsedIsWord ==
    ASSUME NEW db \in [Id -> Word \cup {NoWord}]
    PROVE  \A r \in Id: r \in Used(db) <=> db[r] \in Word
  BY UserDictAssumption DEF Used, Word

\* The texts a lookup adds to the cache are those of the rows, and no text
\* is taken out.
LEMMA FilledAgrees ==
    ASSUME NEW db \in [Id -> Word \cup {NoWord}], NEW old \in [Id -> Text \cup {NoText}],
           \A r \in Id: old[r] # NoText => db[r] # NoWord /\ db[r].text = old[r],
           NEW R \in SUBSET Used(db)
    PROVE  LET new == CacheFilled(old, db, R) IN
           /\ new \in [Id -> Text \cup {NoText}]
           /\ \A r \in Id: new[r] # NoText => db[r] # NoWord /\ db[r].text = new[r]
           /\ \A r \in R: new[r] \in Text
  <1>1. \A r \in R: r \in Id /\ db[r] \in Word /\ db[r] # NoWord
    BY UsedIsWord DEF Used
  <1>2. \A r \in R: db[r].text \in Text
    BY <1>1 DEF Word
  <1> QED BY <1>1, <1>2, UserDictAssumption DEF CacheFilled

\* A context that builds its lattice leaves the cache agreeing.
LEMMA BuiltAgrees ==
    ASSUME NEW s \in Session, NEW q \in Query \cup {NoQuery},
           NEW db \in [Id -> Word \cup {NoWord}], NEW old \in [Id -> Text \cup {NoText}],
           \A r \in Id: old[r] # NoText => db[r] # NoWord /\ db[r].text = old[r],
           typed \in [Session -> Query \cup {NoQuery}],
           shown \in [Session -> SUBSET [id: Id, text: Text]],
           Built(s, q, db, old)
    PROVE  /\ cache' \in [Id -> Text \cup {NoText}]
           /\ typed' \in [Session -> Query \cup {NoQuery}]
           /\ shown' \in [Session -> SUBSET [id: Id, text: Text]]
           /\ \A r \in Id: cache'[r] # NoText => db[r] # NoWord /\ db[r].text = cache'[r]
  <1> DEFINE R == Matching(db, q)
             new == CacheFilled(old, db, R)
             list == {[id |-> r, text |-> new[r]]: r \in R}
  <1>1. R \in SUBSET Used(db) /\ R \subseteq Id
    BY DEF Matching, Used
  <1>2. /\ new \in [Id -> Text \cup {NoText}]
        /\ \A r \in Id: new[r] # NoText => db[r] # NoWord /\ db[r].text = new[r]
        /\ \A r \in R: new[r] \in Text
    BY <1>1, FilledAgrees
  <1>3. list \in SUBSET [id: Id, text: Text]
    <2> HIDE DEF R, new
    <2> QED BY <1>1, <1>2
  <1>4. /\ cache' = new
        /\ typed' = [typed EXCEPT ![s] = q]
        /\ shown' = [shown EXCEPT ![s] = list]
    BY DEF Built
  <1> HIDE DEF R, new, list
  <1> QED BY <1>2, <1>3, <1>4

\* A new word keeps the rows unique, and loses none.
LEMMA AddedRow ==
    ASSUME NEW db \in [Id -> Word \cup {NoWord}], Unique(db), NEW K, Holds(db, K),
           NEW w \in Word, \A q \in Used(db): Key(db[q]) # Key(w),
           NEW r \in Id, r \notin Used(db)
    PROVE  LET new == [db EXCEPT ![r] = w] IN
           /\ new \in [Id -> Word \cup {NoWord}]
           /\ Unique(new)
           /\ Holds(new, K \cup {Key(w)})
  <1> DEFINE new == [db EXCEPT ![r] = w]
  <1>1. new \in [Id -> Word \cup {NoWord}]
    OBVIOUS
  <1>2. w # NoWord
    BY UserDictAssumption DEF Word
  <1>3. Used(new) = Used(db) \cup {r} /\ new[r] = w /\ \A q \in Used(db): new[q] = db[q]
    BY <1>2 DEF Used
  <1> HIDE DEF new
  <1>4. Unique(new)
    BY <1>3 DEF Unique
  <1>5. Holds(new, K \cup {Key(w)})
    BY <1>3 DEF Holds
  <1> QED BY <1>1, <1>4, <1>5 DEF new

\* Where rows are unique, a deletion takes away one word.
LEMMA DeletedRow ==
    ASSUME NEW db \in [Id -> Word \cup {NoWord}], Unique(db), NEW K, Holds(db, K),
           NEW r \in Id
    PROVE  LET new == [db EXCEPT ![r] = NoWord] IN
           /\ new \in [Id -> Word \cup {NoWord}]
           /\ Unique(new)
           /\ Holds(new, IF db[r] = NoWord THEN K ELSE K \ {Key(db[r])})
  <1> DEFINE new == [db EXCEPT ![r] = NoWord]
  <1>1. new \in [Id -> Word \cup {NoWord}]
    OBVIOUS
  <1>2. Used(new) = Used(db) \ {r} /\ \A q \in Used(new): new[q] = db[q]
    BY DEF Used
  <1>3. db[r] = NoWord => r \notin Used(db)
    BY DEF Used
  <1> HIDE DEF new
  <1>4. Unique(new)
    BY <1>2 DEF Unique
  <1>5. Holds(new, IF db[r] = NoWord THEN K ELSE K \ {Key(db[r])})
    BY <1>2, <1>3 DEF Holds
  <1> QED BY <1>1, <1>4, <1>5 DEF new

---------------------------------------------------------------------------
\* An empty dictionary and no session: the invariant holds at first.
LEMMA InitOK == Init => IInv
  <1> SUFFICES ASSUME Init PROVE IInv
    OBVIOUS
  <1>1. TypeOK
    BY DEF Init, TypeOK, Empty, Uncached
  <1>2. Used(Empty) = {}
    BY DEF Used, Empty
  <1>3. CacheAgrees
    BY DEF Init, CacheAgrees, Uncached
  <1> QED BY <1>1, <1>2, <1>3 DEF Init, IInv, Unique, Holds

\* Halting leaves nothing in memory.
LEMMA HaltedOK ==
    ASSUME IInv, Halted, running,
           Save(rows, kept) \/ (disk' = disk /\ kept' = kept)
    PROVE  IInv'
  <1>0. disk' \in {rows, disk} /\ kept' \subseteq kept
    BY DEF Save
  <1>1. TypeOK'
    BY <1>0 DEF IInv, TypeOK, Halted, Empty, Uncached
  <1>2. Used(Empty) = {}
    BY DEF Used, Empty
  <1>3. CacheAgrees'
    BY DEF Halted, CacheAgrees, Uncached
  <1>4. Unique(rows') /\ Unique(disk')
    BY <1>0, <1>2 DEF IInv, Halted, Unique
  <1>5. Holds(disk', kept')
    <2>1. CASE disk' = disk
      BY <1>0, <2>1 DEF IInv, Holds
    <2>2. CASE disk' # disk
      <3>1. disk' = rows /\ (unread => kept' = kept \cap Keys(rows))
        BY <2>2 DEF Save
      <3>2. CASE unread
        BY <3>1, <3>2 DEF Holds, Keys
      <3>3. CASE ~unread
        BY <1>0, <3>1, <3>3 DEF IInv, Holds
      <3> QED BY <3>2, <3>3
    <2> QED BY <2>1, <2>2
  <1> QED BY <1>1, <1>3, <1>4, <1>5 DEF IInv, Halted, Unique, Holds, Used

\* Each operation on the dictionary, and a crash, keeps the invariant.
LEMMA NextOK == IInv /\ [Next]_vars => IInv'
  <1> SUFFICES ASSUME IInv, [Next]_vars PROVE IInv'
    OBVIOUS
  <1> USE DEF IInv
  <1>1. ASSUME NEW s \in Session, Type(s) PROVE IInv'
    <2>1. PICK q \in Query: Built(s, q, rows, cache)
      BY <1>1 DEF Type
    <2>2. /\ cache' \in [Id -> Text \cup {NoText}]
          /\ typed' \in [Session -> Query \cup {NoQuery}]
          /\ shown' \in [Session -> SUBSET [id: Id, text: Text]]
          /\ \A r \in Id: cache'[r] # NoText => rows[r] # NoWord /\ rows[r].text = cache'[r]
      BY <2>1, BuiltAgrees DEF TypeOK, CacheAgrees
    <2> QED BY <1>1, <2>2 DEF Type, TypeOK, CacheAgrees, Unique, Holds, Used
  <1>2. ASSUME NEW s \in Session, LookUp(s) PROVE IInv'
    <2>1. PICK c \in shown[s]: cache' = CacheFilled(cache, rows, {c.id} \cap Used(rows))
      BY <1>2 DEF LookUp
    <2>2. /\ cache' \in [Id -> Text \cup {NoText}]
          /\ \A r \in Id: cache'[r] # NoText => rows[r] # NoWord /\ rows[r].text = cache'[r]
      BY <2>1, FilledAgrees DEF TypeOK, CacheAgrees
    <2> QED BY <1>2, <2>2 DEF LookUp, TypeOK, CacheAgrees, Unique, Holds, Used
  <1>3. ASSUME NEW s \in Session, NEW w \in Word, Commit(s, w) PROVE IInv'
    <2> DEFINE all == kept \cup {Key(w)}
    <2>1. /\ rows' \in [Id -> Word \cup {NoWord}]
          /\ Unique(rows')
          /\ ~unread => Holds(rows', all)
          /\ \A r \in Used(rows): rows'[r] = rows[r]
      <3>1. CASE Taken(w)
        BY <1>3, <3>1 DEF Commit, AddWord, Taken, Holds, TypeOK
      <3>2. CASE ~Taken(w)
        <4>1. PICK r \in Id: IsNext(r) /\ rows' = [rows EXCEPT ![r] = w]
          BY <1>3, <3>2 DEF Commit, AddWord
        <4>2. r \notin Used(rows)
          BY <4>1 DEF IsNext, Id
        <4>3. \A q \in Used(rows): Key(rows[q]) # Key(w)
          BY <3>2 DEF Taken
        <4>4. running
          BY <1>3 DEF Commit
        <4>5. Unique(rows) /\ rows \in [Id -> Word \cup {NoWord}] /\ Holds(rows, {})
          BY <4>4 DEF TypeOK, Holds
        <4>6. ~unread => Holds(rows, kept)
          BY <4>4
        <4>7. \A q \in Used(rows): rows'[q] = rows[q]
          BY <4>1, <4>2, <4>5 DEF Used
        <4> QED BY <4>1, <4>2, <4>3, <4>5, <4>6, <4>7, AddedRow
      <3> QED BY <3>1, <3>2
    <2>2. disk' = rows' \/ disk' = disk
      BY <1>3 DEF Commit, AddWord, Save
    <2>2a. kept' = IF disk' # rows' THEN kept
                   ELSE IF unread THEN all \cap Keys(rows') ELSE all
      BY <1>3 DEF Commit, AddWord, Save
    <2>3. Key(w) \in [i: Initials, text: Text]
      BY DEF Key, Word
    <2>4. TypeOK'
      BY <1>3, <2>1, <2>2, <2>2a, <2>3 DEF TypeOK, Commit, Cleared
    <2>5. CacheAgrees'
      BY <1>3, <2>1 DEF CacheAgrees, Commit, Used
    <2>6. Unique(disk')
      BY <2>1, <2>2
    <2>7. running' /\ unread' = (unread /\ disk' # rows')
      BY <1>3 DEF Commit
    <2>8. ~unread' => Holds(rows', kept')
      <3>1. CASE unread
        BY <2>2a, <2>7, <3>1 DEF Holds, Keys
      <3>2. CASE ~unread
        BY <2>1, <2>2a, <3>2 DEF Holds
      <3> QED BY <3>1, <3>2
    <2>9. Holds(disk', kept')
      BY <2>2, <2>2a, <2>7, <2>8
    <2> QED BY <2>1, <2>4, <2>5, <2>6, <2>7, <2>8, <2>9 DEF Unique, Holds, Used
  <1>4. ASSUME NEW s \in Session, NEW c \in shown[s], DeleteCandidate(s, c) PROVE IInv'
    <2>1. CASE cache[c.id] = NoText
      BY <1>4, <2>1, HaltedOK DEF DeleteCandidate
    <2>2. CASE cache[c.id] # NoText
      <3> DEFINE K == IF rows[c.id] = NoWord THEN kept ELSE kept \ {Key(rows[c.id])}
                 old == [cache EXCEPT ![c.id] = NoText]
                 new == [rows EXCEPT ![c.id] = NoWord]
      <3>1. /\ running /\ running' /\ disk' = disk /\ rows' = new /\ kept' = K
            /\ Built(s, typed[s], new, old)
        BY <1>4, <2>2 DEF DeleteCandidate, Erased
      <3>1a. unread' = unread
        BY <1>4, <2>2 DEF DeleteCandidate
      <3>2. c.id \in Id
        BY DEF TypeOK
      <3>3. /\ new \in [Id -> Word \cup {NoWord}]
            /\ Unique(new)
            /\ ~unread => Holds(new, K)
        <4>1. Unique(rows) /\ rows \in [Id -> Word \cup {NoWord}] /\ Holds(rows, {})
          BY DEF TypeOK, Holds
        <4>2. ~unread => Holds(rows, kept)
          BY <3>1
        <4> QED BY <3>2, <4>1, <4>2, DeletedRow
      <3>4. /\ old \in [Id -> Text \cup {NoText}]
            /\ \A r \in Id: old[r] # NoText => new[r] # NoWord /\ new[r].text = old[r]
        BY <3>2 DEF TypeOK, CacheAgrees
      <3> HIDE DEF new, old, K
      <3>5. /\ cache' \in [Id -> Text \cup {NoText}]
            /\ typed' \in [Session -> Query \cup {NoQuery}]
            /\ shown' \in [Session -> SUBSET [id: Id, text: Text]]
            /\ \A r \in Id: cache'[r] # NoText => new[r] # NoWord /\ new[r].text = cache'[r]
        BY <3>1, <3>3, <3>4, BuiltAgrees DEF TypeOK
      <3>6. K \subseteq kept
        BY DEF K
      <3>7. Holds(disk, K)
        BY <3>6 DEF Holds
      <3>8. TypeOK'
        BY <3>1, <3>1a, <3>3, <3>5, <3>6 DEF TypeOK
      <3> QED BY <3>1, <3>1a, <3>3, <3>5, <3>7, <3>8 DEF CacheAgrees, Unique, Holds, Used
    <2> QED BY <2>1, <2>2
  <1>5. CASE Quit
    BY <1>5, HaltedOK DEF Quit
  <1>6. CASE Crash
    BY <1>6, HaltedOK DEF Crash
  <1>7. CASE Load
    <2>1. TypeOK'
      BY <1>7 DEF Load, TypeOK, Empty
    <2>2. CacheAgrees'
      BY <1>7 DEF Load, CacheAgrees, Uncached
    <2>3. Used(Empty) = {}
      BY DEF Used, Empty
    <2>4. Unique(rows')
      BY <1>7, <2>3 DEF Load, Unique
    <2>5. ~unread' => Holds(rows', kept')
      BY <1>7 DEF Load, Holds
    <2> QED BY <1>7, <2>1, <2>2, <2>4, <2>5 DEF Load, Unique, Holds, Used
  <1>8. CASE UNCHANGED vars
    BY <1>8 DEF vars, TypeOK, CacheAgrees, Unique, Holds, Used
  <1> QED BY <1>1, <1>2, <1>3, <1>4, <1>5, <1>6, <1>7, <1>8 DEF Next

\* The user dictionary keeps the inductive invariant.
THEOREM Invariance == Spec => []IInv
  BY InitOK, NextOK, PTL DEF Spec

\* Type correctness of rows, cache, file and candidates (userdict.cpp).
THEOREM TypeCorrect == Spec => []TypeOK
  <1>1. IInv => TypeOK
    BY DEF IInv
  <1> QED BY <1>1, Invariance, PTL

\* A cached text is the text of its row, for any number of sessions and
\* rows (userdict.cpp, removeWord and operator []).
THEOREM CacheIsCurrent == Spec => []CacheAgrees
  <1>1. IInv => CacheAgrees
    BY DEF IInv
  <1> QED BY <1>1, Invariance, PTL

\* What was added and saved is in the file until its row is deleted, through
\* any crashes and failed saves, unless a process whose load failed saves
\* its own database over the file (userdict.cpp, addWord and _copyDb).
THEOREM SavedWordsStay == Spec => []WordsKept
  <1>1. IInv => WordsKept
    BY DEF IInv, WordsKept, Holds, Keys
  <1> QED BY <1>1, Invariance, PTL
=============================================================================
