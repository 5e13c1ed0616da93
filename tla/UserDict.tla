------------------------------ MODULE UserDict ------------------------------
(***************************************************************************)
(* The user dictionary (ime-core/userdict.cpp) and the contexts that use   *)
(* it: a database in memory, which is copied to a file as a whole, and a   *)
(* cache of the texts looked up.  The sessions of a process share it.  A   *)
(* word is its initials i, its finals f and its text; 0 stands for finals  *)
(* not typed.  Only what a rejected or an added word does to the           *)
(* dictionary is kept of the sentence that is committed.                   *)
(***************************************************************************)
EXTENDS Integers, FiniteSets, TLC

CONSTANTS
    Session,        \* the contexts of the process
    Initials, Finals, Text,
    NoWord, NoText,
    MaxId,          \* bound: the largest row
    FoundIds        \* rows from here on are not offered (MAX_USRDEF_WID)

ASSUME UserDictAssumption ==
    /\ MaxId \in Nat
    /\ NoText \notin Text
    /\ 0 \notin Finals
    /\ NoWord \notin [i: Initials, f: Finals, text: Text]

VARIABLES
    running,        \* the process
    rows,           \* m_db, by row
    cache,          \* m_dict
    disk,           \* the file
    typed,          \* what each session has typed, as far as it matters here
    shown,          \* the user's words among its candidates
    unread,         \* history variable: m_db could not be read from the file,
                    \* which it has not replaced yet
    kept            \* history variable: initials and text of the words added,
                    \* saved, and neither deleted nor replaced by such an m_db

vars == <<running, rows, cache, disk, typed, shown, unread, kept>>

Id == 1 .. MaxId
Word == [i: Initials, f: Finals, text: Text]
Query == [i: Initials, f: Finals \cup {0}]
NoQuery == [i |-> NoWord, f |-> 0]

Empty == [r \in Id |-> NoWord]
Uncached == [r \in Id |-> NoText]
Used(db) == {r \in Id: db[r] # NoWord}
Key(w) == [i |-> w.i, text |-> w.text]
Keys(db) == {Key(db[r]): r \in Used(db)}

Init ==
    /\ running = TRUE
    /\ rows = Empty
    /\ cache = Uncached
    /\ disk = Empty
    /\ typed = [s \in Session |-> NoQuery]
    /\ shown = [s \in Session |-> {}]
    /\ unread = FALSE
    /\ kept = {}

---------------------------------------------------------------------------
(* The dictionary. *)

\* The table's UNIQUE: initials and text, whatever the finals.
Taken(w) == \E r \in Used(rows): Key(rows[r]) = Key(w)

\* SQLite's next row is one past the largest, so the last is used again.
IsNext(r) == Used(rows) \subseteq 1 .. r - 1 /\ (r = 1 \/ r - 1 \in Used(rows))

\* _copyDb, which may fail unnoticed: the file is replaced as a whole, or
\* stays.  K are the words promised to be in it once it is replaced.
Save(db, K) ==
    /\ disk' \in {db, disk}
    /\ kept' = IF disk' # db THEN kept
               ELSE IF unread THEN K \cap Keys(db) ELSE K

\* getWords: the rows that match, each of which is cached if it is not yet.
Matching(db, q) ==
    {r \in Used(db): r < FoundIds /\ db[r].i = q.i /\ q.f \in {0, db[r].f}}

CacheFilled(old, db, R) ==
    [r \in Id |-> IF r \in R /\ old[r] = NoText THEN db[r].text ELSE old[r]]

\* A context builds its lattice: its candidates are shown with the texts
\* the dictionary has for them.
Built(s, q, db, old) ==
    LET R == Matching(db, q)
        new == CacheFilled(old, db, R)
    IN  /\ cache' = new
        /\ typed' = [typed EXCEPT ![s] = q]
        /\ shown' = [shown EXCEPT ![s] = {[id |-> r, text |-> new[r]]: r \in R}]

Cleared(s) ==
    /\ typed' = [typed EXCEPT ![s] = NoQuery]
    /\ shown' = [shown EXCEPT ![s] = {}]

---------------------------------------------------------------------------
(* What a session does. *)

Type(s) ==
    /\ running
    /\ \E q \in Query: Built(s, q, rows, cache)
    /\ UNCHANGED <<running, rows, disk, unread, kept>>

\* operator []: the text of a candidate, perhaps one that is gone.
LookUp(s) ==
    /\ running
    /\ \E c \in shown[s]:
           cache' = CacheFilled(cache, rows, {c.id} \cap Used(rows))
    /\ UNCHANGED <<running, rows, disk, typed, shown, unread, kept>>

\* addWord: the whole database is saved, also after a rejected word.
AddWord(w) ==
    /\ IF Taken(w) THEN rows' = rows
       ELSE \E r \in Id: IsNext(r) /\ rows' = [rows EXCEPT ![r] = w]
    /\ Save(rows', kept \cup {Key(w)})

\* memorize and _saveUserDict, for a sentence the user has put together.
Commit(s, w) ==
    /\ running
    /\ AddWord(w)
    /\ unread' = (unread /\ disk' # rows')
    /\ Cleared(s)
    /\ UNCHANGED <<running, cache>>

\* Mutant: the text of the row stays in the cache.
ErasedNot(r) == cache

Erased(r) == [cache EXCEPT ![r] = NoText]

Halted ==
    /\ running' = FALSE
    /\ rows' = Empty
    /\ cache' = Uncached
    /\ typed' = [s \in Session |-> NoQuery]
    /\ shown' = [s \in Session |-> {}]
    /\ unread' = FALSE

\* deleteCandidateByWID and removeWord: nothing is saved.  To erase what is
\* not in the cache is undefined: the process goes down.
DeleteCandidate(s, c) ==
    /\ running
    /\ c \in shown[s]
    /\ IF cache[c.id] = NoText
       THEN Halted /\ UNCHANGED kept
       ELSE /\ rows' = [rows EXCEPT ![c.id] = NoWord]
            /\ kept' = IF rows[c.id] = NoWord THEN kept ELSE kept \ {Key(rows[c.id])}
            /\ Built(s, typed[s], rows', Erased(c.id))
            /\ UNCHANGED <<running, unread>>
    /\ UNCHANGED disk

---------------------------------------------------------------------------
(* The process. *)

\* ~CUserDict, free.
Quit ==
    /\ running
    /\ Save(rows, kept)
    /\ Halted

Crash ==
    /\ running
    /\ Halted
    /\ UNCHANGED <<disk, kept>>

\* Mutant: the table is created, the file not read, and nobody told.
LoadEmpty ==
    /\ ~running
    /\ running' = TRUE
    /\ UNCHANGED <<rows, cache, disk, typed, shown, unread, kept>>

\* load: the file is taken over as a whole.  If that fails, which is
\* ignored, the tables are created in an empty database.
Load ==
    /\ ~running
    /\ running' = TRUE
    /\ \/ rows' = disk /\ unread' = FALSE
       \/ rows' = Empty /\ unread' = TRUE
    /\ UNCHANGED <<cache, disk, typed, shown, kept>>

Next ==
    \/ \E s \in Session:
          \/ Type(s)
          \/ LookUp(s)
          \/ \E w \in Word: Commit(s, w)
          \/ \E c \in shown[s]: DeleteCandidate(s, c)
    \/ Quit \/ Crash \/ Load

Spec == Init /\ [][Next]_vars

---------------------------------------------------------------------------
TypeOK ==
    /\ running \in BOOLEAN
    /\ rows \in [Id -> Word \cup {NoWord}]
    /\ disk \in [Id -> Word \cup {NoWord}]
    /\ cache \in [Id -> Text \cup {NoText}]
    /\ typed \in [Session -> Query \cup {NoQuery}]
    /\ shown \in [Session -> SUBSET [id: Id, text: Text]]
    /\ unread \in BOOLEAN
    /\ kept \subseteq [i: Initials, text: Text]

(***************************************************************************)
(* A text in the cache is the text of its row, although rows are deleted   *)
(* and their numbers given to other words, and although another session    *)
(* may look up a number it has kept (removeWord, operator []).             *)
(***************************************************************************)
CacheAgrees == \A r \in Id: cache[r] # NoText => rows[r] # NoWord /\ rows[r].text = cache[r]

(***************************************************************************)
(* A word that was added and reached the file is there, under its          *)
(* initials, until its row is deleted or a process that could not read the *)
(* file saves a database without it: no crash, failed save or rejected     *)
(* duplicate takes it away, nor a failed load alone (addWord, _copyDb).    *)
(***************************************************************************)
WordsKept == kept \subseteq Keys(disk)

\* Sessions are alike, and so are texts.
Symmetry == Permutations(Session) \cup Permutations(Text)
=============================================================================
