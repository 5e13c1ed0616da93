----------------------------- MODULE IcManager -----------------------------
(***************************************************************************)
(* The pool of input contexts of the XIM server (wrapper/xim/ic.c): a      *)
(* fixed array, the map of the contexts in use, the stack of the free      *)
(* ones, the count that starts a garbage collection, and the one current   *)
(* context all clients share.  The state is one record, so that the        *)
(* handlers of the server, which call several of these functions in a row, *)
(* can be written as compositions.                                         *)
(***************************************************************************)
EXTENDS Integers, Sequences, FiniteSets, SequencesExt, FiniteSetsExt

CONSTANTS
    MaxIc,          \* MAX_IC_NUM
    GcThreshold,    \* GC_THRESHOLD
    Client,         \* the processes that own the client windows
    Wide,           \* those of them whose pid has more than 16 bits
    NoIc,           \* current_ic == NULL
    NoClient        \* a zeroed client_window

ASSUME IcAssumption ==
    /\ MaxIc \in Nat \ {0}
    /\ GcThreshold \in Nat \ {0}
    /\ NoIc \notin 0 .. MaxIc - 1
    /\ NoClient \notin Client
    /\ IsFiniteSet(Client)
    /\ Wide \subseteq Client

IcId == 0 .. MaxIc - 1

\* __reset_ic: everything but the identity is zeroed.
ResetIc == [conn |-> 0, win |-> NoClient, enabled |-> FALSE, english |-> FALSE]

\* icmgr_init: every context is pushed on the free stack, none is mapped.
IcmgrInit ==
    [map  |-> [i \in IcId |-> FALSE],
     ic   |-> [i \in IcId |-> ResetIc],
     free |-> [k \in 1 .. MaxIc |-> k - 1],
     cnt  |-> 0,
     cur  |-> NoIc]

\* Mutant: whoever is current stays current.
DestroyKeepsFocus(m, i) ==
    IF ~m.map[i] THEN m
    ELSE [m EXCEPT !.map[i] = FALSE, !.ic[i] = ResetIc, !.free = Append(@, i)]

\* icmgr_destroy_ic: an unmapped identity is ignored; a mapped one goes
\* back on the stack, and no context is current afterwards, whichever was.
DestroyIc(m, i) ==
    IF ~m.map[i] THEN m
    ELSE [m EXCEPT !.map[i] = FALSE, !.ic[i] = ResetIc,
                   !.free = Append(@, i), !.cur = NoIc]

\* Mutant: whether the process is there is not asked.
ScannedBlindly(m, i, found) == IF m.map[i] THEN DestroyIc(m, i) ELSE m

\* __scan_all_ic: the mapped contexts for whose window __ic_available finds
\* no process are destroyed, in the order of their identities.  found are
\* the windows for which it finds one, rightly or not.
ScannedIc(m, i, found) ==
    IF m.map[i] /\ m.ic[i].win \notin found THEN DestroyIc(m, i) ELSE m

ScanAllIc(m, found) ==
    LET scanned[k \in 0 .. MaxIc] ==
            IF k = 0 THEN m ELSE ScannedIc(scanned[k - 1], k - 1, found)
    IN  scanned[MaxIc]

\* The collection icmgr_create_ic makes before it looks for a free context.
CollectIfDue(m, found) ==
    LET counted == [m EXCEPT !.cnt = @ + 1]
    IN  IF counted.cnt = GcThreshold \/ Len(m.free) < MaxIc \div 3
        THEN [ScanAllIc(counted, found) EXCEPT !.cnt = 0]
        ELSE counted

\* __ic_available, of all windows at once: which are found to belong to a
\* running process.  Sure are only those of a running process of 16 bits:
\* __find_application_pid keeps the low half of a pid, and what it makes of
\* a window that is gone, or of none, depends on the status Xlib reports
\* (BadRequest counts as alive, any other failure as gone), unless the X
\* error ends the program.
Lookups(running) ==
    {found \in SUBSET (Client \cup {NoClient}): running \ Wide \subseteq found}

\* icmgr_create_ic on a non-empty stack: the top is taken, mapped, reset.
TakeFree(m, conn, win) ==
    LET i == Last(m.free)
    IN  [m EXCEPT !.map[i] = TRUE, !.free = Front(@),
                  !.ic[i] = [ResetIc EXCEPT !.conn = conn, !.win = win]]

\* icmgr_set_current: it fails, and changes nothing, on an unmapped identity.
SetCurrent(m, i) == IF m.map[i] THEN [m EXCEPT !.cur = i] ELSE m

\* icmgr_clear_current.
ClearCurrent(m) == [m EXCEPT !.cur = NoIc]

\* icmgr_toggle_english, and the same toggle by key.
ToggleEnglish(m) ==
    IF m.cur = NoIc THEN m ELSE [m EXCEPT !.ic[m.cur].english = ~@]

\* The stack and the map split the array: a context is free once or mapped.
PoolSplit(m) ==
    /\ IsInjective(m.free)
    /\ Range(m.free) = {i \in IcId: ~m.map[i]}
=============================================================================
