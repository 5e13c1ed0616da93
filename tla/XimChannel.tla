----------------------------- MODULE XimChannel -----------------------------
(***************************************************************************)
(* What the transport promises a client and its server: while they are     *)
(* connected, each way carries the messages whole, once and in the order   *)
(* they were sent, and all of them arrive.                                 *)
(***************************************************************************)
EXTENDS Sequences, Naturals

CONSTANTS Client, Message

VARIABLES
    open,       \* the clients that are connected
    sent,       \* what was sent each way since
    got         \* what was received

vars == <<open, sent, got>>

Way == {"up", "down"}

Silence == [w \in Way |-> <<>>]

Init ==
    /\ open = {}
    /\ sent = [c \in Client |-> Silence]
    /\ got = [c \in Client |-> Silence]

Forgotten(C) ==
    /\ sent' = [c \in Client |-> IF c \in C THEN Silence ELSE sent[c]]
    /\ got' = [c \in Client |-> IF c \in C THEN Silence ELSE got[c]]

Open(c) ==
    /\ c \notin open
    /\ open' = open \cup {c}
    /\ UNCHANGED <<sent, got>>

Send(c, w) ==
    /\ c \in open
    /\ \E m \in Message: sent' = [sent EXCEPT ![c][w] = Append(@, m)]
    /\ UNCHANGED <<open, got>>

Deliver(c, w) ==
    /\ Len(got[c][w]) < Len(sent[c][w])
    /\ got' = [got EXCEPT ![c][w] = Append(@, sent[c][w][Len(@) + 1])]
    /\ UNCHANGED <<open, sent>>

\* One client takes leave, or all that are connected to one server.
Close == \E C \in SUBSET open: open' = open \ C /\ Forgotten(C)

Next ==
    \/ \E c \in Client: Open(c) \/ \E w \in Way: Send(c, w) \/ Deliver(c, w)
    \/ Close

Spec == Init /\ [][Next]_vars

FairSpec ==
    /\ Spec
    /\ \A c \in Client, w \in Way: WF_vars(Deliver(c, w))
=============================================================================
