------------------------------- MODULE IcPool -------------------------------
(***************************************************************************)
(* What the pool of input contexts promises its users, without free stack, *)
(* counters or messages: an identity that is handed out is not in use, a   *)
(* context is never taken back unasked while the process of the window it  *)
(* was created with runs and its pid has 16 bits, and the focus is a       *)
(* context in use or none at all, and none after anything was taken back.  *)
(* Nothing is promised a process whose pid is larger, nor one that names   *)
(* no window when it creates a context: the window recorded is then that   *)
(* of the last request of anybody, or none, and the context may be taken   *)
(* back while it is used.  Nor is anything promised to be taken back.      *)
(***************************************************************************)
EXTENDS Integers, FiniteSets

CONSTANTS IcId, Client, Wide, NoIc, NoClient

VARIABLES
    window,     \* the owner of the window recorded for each context
    inUse,      \* the contexts handed out
    focus,      \* the one the keys go to
    running     \* the processes that are still there

vars == <<window, inUse, focus, running>>

Init ==
    /\ window = [i \in IcId |-> NoClient]
    /\ inUse = {}
    /\ focus = NoIc
    /\ running = Client

\* The contexts of no window, or of a process that is gone or may seem so.
Unsure == {i \in inUse: window[i] \notin running \ Wide}

\* Before a context is handed out, some of these may be taken back.
Reclaimed(R) == focus' = IF R = {} THEN focus ELSE NoIc

Create ==
    \E R \in SUBSET Unsure, w \in Client \cup {NoClient}, i \in IcId:
        /\ Reclaimed(R)
        /\ i \notin inUse \ R
        /\ inUse' = (inUse \ R) \cup {i}
        /\ window' = [j \in IcId |-> IF j = i THEN w
                                     ELSE IF j \in R THEN NoClient ELSE window[j]]
        /\ UNCHANGED running

Destroy ==
    \E i \in inUse:
        /\ inUse' = inUse \ {i}
        /\ window' = [window EXCEPT ![i] = NoClient]
        /\ focus' = NoIc
        /\ UNCHANGED running

Focus ==
    /\ \E i \in inUse \cup {NoIc}: focus' = i
    /\ UNCHANGED <<window, inUse, running>>

Leave ==
    \E c \in running:
        /\ running' = running \ {c}
        /\ UNCHANGED <<window, inUse, focus>>

Next == Create \/ Destroy \/ Focus \/ Leave

Spec == Init /\ [][Next]_vars
=============================================================================
