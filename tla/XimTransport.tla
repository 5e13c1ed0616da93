---------------------------- MODULE XimTransport ----------------------------
(***************************************************************************)
(* The X transport of the XIM protocol (IMdkit's i18nX.c) between the      *)
(* clients and the processes that serve them.  A message of up to Limit    *)
(* units of four bytes travels in a ClientMessage of format 8, a longer    *)
(* one is appended to a property of the receiver's window, and the         *)
(* ClientMessage of format 32 tells its length and the property.  A unit   *)
(* is a message and a place in it.  The client's side is Xlib.             *)
(***************************************************************************)
EXTENDS XimServers

CONSTANTS
    Client,
    Limit,          \* XCM_DATA_LIMIT, in units
    MaxSequence,    \* the largest number in the name of a property (20)
    Size,           \* sizes of messages
    MaxMessages     \* bound: messages per connection and way, in all plans

ASSUME TransportAssumption ==
    /\ Server \cap Client = {}
    /\ Limit \in Nat
    /\ MaxSequence \in Nat
    /\ Size \subseteq Nat \ {0}
    /\ MaxMessages \in Nat
    /\ \A p \in Plan: p.up \in 0 .. MaxMessages /\ p.down \in 0 .. MaxMessages

VARIABLES
    link,           \* how far each client has come
    peer,           \* the process it found
    conn,           \* the Xi18nClient of each client, [order, offset]
    queue,          \* the events on their way to each window
    prop,           \* the properties of the windows of each connection
    sequence,       \* MakeNewAtom's counter in each process
    sent, got,      \* the messages of the connection, for the properties
    overrun         \* the clients that were too far ahead of the server

linkVars == <<link, peer, conn, queue, prop, sequence, sent, got, overrun>>
vars == <<startVars, linkVars>>

Way == {"up", "down"}
Name == 0 .. MaxSequence
Op == {"CONNECT", "DISCONNECT", "OTHER"}
Message == [op: Op, n: 1 .. MaxMessages, size: Size]
Packet(m) == [j \in 1 .. m.size |-> <<m, j>>]
NoConn == [order |-> "none", offset |-> 0]
NewXClient == [order |-> "?", offset |-> 0]
Silence == [w \in Way |-> <<>>]
Clean == [w \in Way |-> [a \in Name |-> <<>>]]
Zero == <<>>

Init ==
    /\ StartInit
    /\ link = [c \in Client |-> "none"]
    /\ peer = [c \in Client |-> NoServer]
    /\ conn = [c \in Client |-> NoConn]
    /\ queue = [c \in Client |-> Silence]
    /\ prop = [c \in Client |-> Clean]
    /\ sequence = [p \in Server \cup Client |-> 0]
    /\ sent = [c \in Client |-> Silence]
    /\ got = [c \in Client |-> Silence]
    /\ overrun = {}

---------------------------------------------------------------------------
(* Meeting. *)

\* Xlib reads the list and asks the owner of the selection for its locales
\* and its transport.
Convert(c) ==
    /\ link[c] = "none"
    /\ c \in plan.client
    /\ Contains(listed, Ours)
    /\ owner # NoServer
    /\ link' = [link EXCEPT ![c] = "asking"]
    /\ peer' = [peer EXCEPT ![c] = owner]
    /\ UNCHANGED <<startVars, conn, queue, prop, sequence, sent, got, overrun>>

\* WaitXSelectionRequest: also when another process has the selection now.
ReturnSelectionNotify(c) ==
    /\ link[c] = "asking"
    /\ pc[peer[c]] = "open"
    /\ link' = [link EXCEPT ![c] = "dialling"]
    /\ UNCHANGED <<startVars, peer, conn, queue, prop, sequence, sent, got, overrun>>

\* WaitXConnectMessage: a window and a connection for the new client.
ReadXConnectMessage(c) ==
    /\ link[c] = "dialling"
    /\ link' = [link EXCEPT ![c] = "linked"]
    /\ conn' = [conn EXCEPT ![c] = NewXClient]
    /\ UNCHANGED <<startVars, peer, queue, prop, sequence, sent, got, overrun>>

---------------------------------------------------------------------------
(* Sending. *)

\* MakeNewAtom: after the last number comes 0, and then 0 once more.
NewName(p) == IF sequence[p] > MaxSequence THEN 0 ELSE sequence[p]
NextSequence(p) ==
    [sequence EXCEPT ![p] = IF @ > MaxSequence THEN 0 ELSE @ + 1]

\* XChangeProperty with PropModeAppend.
Property(content, m) == content \o Packet(m)

\* Xi18nXSend, and _XimXWrite of Xlib: process p sends m to the window at
\* the end of way w.
Xi18nXSend(p, c, w, m) ==
    /\ sent' = [sent EXCEPT ![c][w] = Append(@, Packet(m))]
    /\ IF m.size > Limit
       THEN /\ prop' = [prop EXCEPT ![c][w][NewName(p)] = Property(@, m)]
            /\ queue' = [queue EXCEPT ![c][w] =
                   Append(@, [format |-> 32, length |-> m.size, atom |-> NewName(p)])]
            /\ sequence' = NextSequence(p)
       ELSE /\ queue' = [queue EXCEPT ![c][w] =
                   Append(@, [format |-> 8,
                              data |-> Packet(m) \o [j \in 1 .. Limit - m.size |-> Zero]])]
            /\ UNCHANGED <<prop, sequence>>

ServerSends(c) ==
    /\ conn[c] # NoConn
    /\ Len(sent[c].down) < plan.down
    /\ \E z \in Size:
           Xi18nXSend(peer[c], c, "down",
                      [op |-> "OTHER", n |-> Len(sent[c].down) + 1, size |-> z])
    /\ UNCHANGED <<startVars, link, peer, conn, got, overrun>>

Outstanding(c) == {i \in DOMAIN queue[c].up: queue[c].up[i].format = 32}

\* Keys are forwarded without waiting for an answer.  A client that sends one
\* more long message while as many as there are names await the server may
\* use a name again that the server has yet to read from.
Overruns(c, z) == z > Limit /\ Cardinality(Outstanding(c)) > MaxSequence

\* The first message of a client is XIM_CONNECT, the last XIM_DISCONNECT:
\* both are short.
ClientSends(c) ==
    /\ link[c] = "linked"
    /\ \E op \in Op, z \in Size:
           LET n == Len(sent[c].up) + 1 IN
           /\ n <= plan.up
           /\ (n = 1) = (op = "CONNECT")
           /\ op # "OTHER" => z <= Limit
           /\ Xi18nXSend(c, c, "up", [op |-> op, n |-> n, size |-> z])
           /\ overrun' = IF Overruns(c, z) THEN overrun \cup {c} ELSE overrun
           /\ link' = [link EXCEPT ![c] = IF op = "DISCONNECT" THEN "leaving" ELSE @]
    /\ UNCHANGED <<startVars, peer, conn, got>>

---------------------------------------------------------------------------
(* Receiving. *)

\* The bytes of a message, as its header counts them.
ByHeader(data) == SubSeq(data, 1, data[1][1].size)

\* What a client that has overrun the names receives, a part of a message or
\* one of its others, is not written down.
Received(c, w, data) ==
    got' = IF c \in overrun THEN got ELSE [got EXCEPT ![c][w] = Append(@, data)]

\* Format 32: the units from the offset on, as far as there are any, and what
\* they leave.
Content(c, w, ev) == prop[c][w][ev.atom]
Remains(content, offset, length) == Len(content) > offset + length
Read(content, offset, length) ==
    SubSeq(content, offset + 1,
           IF Remains(content, offset, length) THEN offset + length ELSE Len(content))

\* Xi18nXDisconnect: the window, its properties and its events have gone.
Xi18nXDisconnect(c) ==
    /\ conn' = [conn EXCEPT ![c] = NoConn]
    /\ queue' = [queue EXCEPT ![c].up = <<>>]
    /\ prop' = [prop EXCEPT ![c].up = Clean.up]

\* Mutant: the rest is read from the start again.
NewOffsetForgotten(content, offset, length) == 0

NewOffset(content, offset, length) ==
    IF Remains(content, offset, length) THEN offset + length ELSE 0

\* ReadXIMMessage, format 8: an unknown byte order is known after XIM_CONNECT.
ReadShort(c, ev) ==
    LET m == ByHeader(ev.data)[1][1] IN
    IF conn[c].order = "?" /\ m.op # "CONNECT"
    THEN /\ queue' = [queue EXCEPT ![c].up = Tail(@)]
         /\ UNCHANGED <<conn, prop, got>>
    ELSE /\ Received(c, "up", ByHeader(ev.data))
         /\ IF m.op = "DISCONNECT"
            THEN Xi18nXDisconnect(c)
            ELSE /\ conn' = [conn EXCEPT ![c].order = "l"]
                 /\ queue' = [queue EXCEPT ![c].up = Tail(@)]
                 /\ UNCHANGED prop

\* ReadXIMMessage, format 32: XGetWindowProperty deletes a property that is
\* read to its end.  With nothing at the offset the message is dropped.
ReadLong(c, ev) ==
    LET content == Content(c, "up", ev)
        offset == conn[c].offset
        data == Read(content, offset, ev.length)
    IN
    /\ queue' = [queue EXCEPT ![c].up = Tail(@)]
    /\ conn' = [conn EXCEPT ![c].offset = NewOffset(content, offset, ev.length)]
    /\ prop' = IF Remains(content, offset, ev.length) THEN prop
               ELSE [prop EXCEPT ![c].up[ev.atom] = <<>>]
    /\ IF data = <<>> THEN got' = got ELSE Received(c, "up", data)

\* BadValue: the offset lies behind the end of a property that exists.
OutOfProperty(c, ev) ==
    /\ ev.format = 32
    /\ Content(c, "up", ev) # <<>>
    /\ conn[c].offset > Len(Content(c, "up", ev))

\* Xlib takes the message off the property and leaves the rest.
ClientReads(c) ==
    /\ queue[c].down # <<>>
    /\ LET ev == Head(queue[c].down) IN
       IF ev.format = 8
       THEN /\ Received(c, "down", ByHeader(ev.data))
            /\ UNCHANGED prop
       ELSE LET content == Content(c, "down", ev) IN
            /\ Received(c, "down", Read(content, 0, ev.length))
            /\ prop' = [prop EXCEPT ![c].down[ev.atom] =
                            SubSeq(content, ev.length + 1, Len(content))]
    /\ queue' = [queue EXCEPT ![c].down = Tail(@)]
    /\ UNCHANGED <<startVars, link, peer, conn, sequence, sent, overrun>>

---------------------------------------------------------------------------
(* Parting. *)

Parted(C) ==
    LET Reset(f, v) == [c \in Client |-> IF c \in C THEN v ELSE f[c]] IN
    /\ link' = Reset(link, "none")
    /\ peer' = Reset(peer, NoServer)
    /\ conn' = Reset(conn, NoConn)
    /\ queue' = Reset(queue, Silence)
    /\ prop' = Reset(prop, Clean)
    /\ sent' = Reset(sent, Silence)
    /\ got' = Reset(got, Silence)
    /\ overrun' = overrun \ C

\* The client has read the last reply, and closes its window.
Leave(c) ==
    /\ link[c] = "leaving"
    /\ conn[c] = NoConn
    /\ queue[c].down = <<>>
    /\ Parted({c})
    /\ UNCHANGED <<startVars, sequence>>

\* A process of the server ends, and with it its windows; its clients see it.
ServerEnds(s) ==
    /\ End(s)
    /\ Parted({c \in Client: peer[c] = s})
    /\ sequence' = [sequence EXCEPT ![s] = 0]
    /\ UNCHANGED plan

\* WaitXIMProtocol.  GDK's handler for X errors ends the program.
ServerReads(c) ==
    /\ conn[c] # NoConn
    /\ queue[c].up # <<>>
    /\ LET ev == Head(queue[c].up) IN
       IF OutOfProperty(c, ev) THEN ServerEnds(peer[c])
       ELSE /\ IF ev.format = 8 THEN ReadShort(c, ev) ELSE ReadLong(c, ev)
            /\ UNCHANGED <<startVars, link, peer, sequence, sent, overrun>>

Starts ==
    /\ \/ \E s \in Server: StartStep(s)
       \/ \E o \in Other: OtherRegisters(o)
    /\ UNCHANGED <<linkVars, plan>>

Next ==
    \/ Starts
    \/ \E s \in Server: ServerEnds(s)
    \/ \E c \in Client:
          \/ Convert(c) \/ ReturnSelectionNotify(c) \/ ReadXConnectMessage(c)
          \/ ServerSends(c) \/ ClientSends(c)
          \/ ServerReads(c) \/ ClientReads(c)
          \/ Leave(c)

Spec == Init /\ [][Next]_vars

\* Both ends read from event loops.
FairSpec ==
    /\ Spec
    /\ \A c \in Client: WF_vars(ServerReads(c)) /\ WF_vars(ClientReads(c))

---------------------------------------------------------------------------
\* The channel of a client lasts until it parts from its server, or overruns
\* the names: what arrives from then on may be wrong, and nothing is promised.
Until(C, f) == [c \in Client |-> IF c \in C THEN Silence ELSE f[c]]

Channel == INSTANCE XimChannel WITH
    open <- {c \in Client: link[c] \in {"linked", "leaving"} /\ c \notin overrun},
    sent <- Until(overrun, sent),
    got <- Until(overrun, got),
    Message <- {Packet(m): m \in Message}

(***************************************************************************)
(* Whatever their sizes, and although names of properties come round again *)
(* and one offset serves all properties of a client, the messages arrive   *)
(* whole, once, in order and all of them (Xi18nXSend, ReadXIMMessage), as  *)
(* long as a client has no more long ones under way than there are names.  *)
(***************************************************************************)
ImplementsChannel == Channel!FairSpec
=============================================================================
