------------------------- MODULE XimTransportProofs -------------------------
(***************************************************************************)
(* Proofs about XimTransport: a server that owns the selection can be      *)
(* found, and the transport carries what XimChannel promises, for any      *)
(* number of processes, clients and messages, any sizes and any number of  *)
(* property names.                                                         *)
(*                                                                         *)
(* What has to be shown of a connection is where its bytes are.  The       *)
(* messages under way are those sent and not yet received; the events in   *)
(* the queue announce them one by one (Carried); the long ones lie in the  *)
(* properties, one behind the other in the order they were sent, nothing   *)
(* between them, behind what was read already (Laid); and of those that    *)
(* await the server only two in a row can have the same name (Named).      *)
(* All that ends for a client that overruns the names: of it only the      *)
(* types are kept, and that it has a server (Standing).                    *)
(***************************************************************************)
EXTENDS XimTransport, FiniteSetTheorems, SequenceTheorems, TLAPS

---------------------------------------------------------------------------
(* The servers of the display.                                             *)

PcValues == {"down", "ask", "claim", "list", "verify", "open", "refused"}
Atom == Other \cup {Ours}

StartType ==
    /\ pc \in [Server -> PcValues]
    /\ seen \in [Server -> Seq(Atom)]
    /\ listed \in Seq(Atom)
    /\ owner \in Server \cup {NoServer}
    /\ registered \subseteq Other
    /\ plan \in Plan

\* Nothing that was listed is ever taken off: what a process has read of the
\* list still holds when it acts on it.
StillListed ==
    /\ \A s \in Server: Contains(seen[s], Ours) => Contains(listed, Ours)
    /\ \A s \in Server: pc[s] \in {"verify", "open"} => Contains(listed, Ours)
    /\ \A o \in registered: Contains(listed, o)

OwnerServes == owner # NoServer => pc[owner] \in {"list", "verify", "open"}

StartInv == StartType /\ StillListed /\ OwnerServes

---------------------------------------------------------------------------
(* One way of a connection: s was sent, g received, q are the events on    *)
(* their way, p the properties, o how much of one of them was read.        *)

Data == {Packet(m): m \in Message}
Unit == Message \X Nat
Event ==
    [format: {8}, data: Seq(Unit \cup {Zero})]
        \cup [format: {32}, length: Nat, atom: Name]

IsLong(d) == Len(d) > Limit
OpOf(d) == d[1][1].op

UnderWay(s, g) == Len(g) + 1 .. Len(s)
LongOnes(s, g) == {n \in UnderWay(s, g): IsLong(s[n])}
AtomOf(g, q, n) == q[n - Len(g)].atom

Announces(ev, d) ==
    IF IsLong(d) THEN ev.format = 32 /\ ev.length = Len(d)
    ELSE ev.format = 8 /\ ByHeader(ev.data) = d

Carried(s, g, q) ==
    /\ Len(g) <= Len(s)
    /\ Len(q) = Len(s) - Len(g)
    /\ \A n \in UnderWay(s, g): Announces(q[n - Len(g)], s[n])

\* start says where in its property each long message begins.
Placed(s, g, q, p, start) ==
    /\ \A n \in LongOnes(s, g):
           LET content == p[AtomOf(g, q, n)] IN
           /\ start[n] + Len(s[n]) <= Len(content)
           /\ \A j \in 1 .. Len(s[n]): content[start[n] + j] = s[n][j]
    /\ \A n, k \in LongOnes(s, g):
           n < k /\ AtomOf(g, q, n) = AtomOf(g, q, k) => start[n] + Len(s[n]) <= start[k]

IsFirst(s, g, n) == n \in LongOnes(s, g) /\ \A k \in LongOnes(s, g): n <= k

\* Every byte of a property is a byte of a message, or was read already:
\* then the next long message is what is left of that property.
Tiled(s, g, q, p, o, start) ==
    /\ \A a \in Name: \A i \in 1 .. Len(p[a]):
           \/ \E n \in LongOnes(s, g): AtomOf(g, q, n) = a /\ i \in start[n] + 1 .. start[n] + Len(s[n])
           \/ i <= o /\ \E n \in LongOnes(s, g): IsFirst(s, g, n) /\ AtomOf(g, q, n) = a
    /\ o # 0 => \E n \in LongOnes(s, g):
           /\ IsFirst(s, g, n)
           /\ start[n] = o
           /\ Len(p[AtomOf(g, q, n)]) = o + Len(s[n])

Laid(s, g, q, p, o) ==
    \E start \in [LongOnes(s, g) -> Nat]:
        Placed(s, g, q, p, start) /\ Tiled(s, g, q, p, o, start)

\* The numbers of the last long messages, counted back from the counter x,
\* which goes from 0 to MaxSequence + 1; that last number has the name 0 too.
Behind(s, n) == {k \in n .. Len(s): IsLong(s[k])}
Number(x, b) == IF x >= b THEN x - b ELSE x - b + MaxSequence + 2
NameOf(i) == IF i > MaxSequence THEN 0 ELSE i

NumberOf(s, x, n) == Number(x, Cardinality(Behind(s, n)))

Named(s, g, q, x, o) ==
    /\ Cardinality(LongOnes(s, g)) <= MaxSequence + 1
    /\ \A n \in LongOnes(s, g):
           /\ AtomOf(g, q, n) = NameOf(NumberOf(s, x, n))
           /\ o # 0 /\ IsFirst(s, g, n) => NumberOf(s, x, n) = 0

---------------------------------------------------------------------------
(* The connections.                                                        *)

LinkType ==
    /\ link \in [Client -> {"none", "asking", "dialling", "linked", "leaving"}]
    /\ peer \in [Client -> Server \cup {NoServer}]
    /\ conn \in [Client -> [order: {"none", "?", "l"}, offset: Nat]]
    /\ queue \in [Client -> [Way -> Seq(Event)]]
    /\ prop \in [Client -> [Way -> [Name -> Seq(Unit)]]]
    /\ sequence \in [Server \cup Client -> 0 .. MaxSequence + 1]
    /\ sent \in [Client -> [Way -> Seq(Data)]]
    /\ got \in [Client -> [Way -> Seq(Data)]]
    /\ overrun \subseteq Client

IsOpen(c) == link[c] \in {"linked", "leaving"}

Quiet(c) ==
    /\ sent[c] = Silence
    /\ got[c] = Silence
    /\ queue[c] = Silence
    /\ prop[c] = Clean

\* What holds of every client: it has found a server, and before it is linked
\* to it nothing has passed.
Standing(c) ==
    /\ link[c] # "none" => peer[c] \in Server
    /\ ~IsOpen(c) => conn[c] = NoConn /\ Quiet(c) /\ c \notin overrun

\* Where client and server are in their conversation.
Met(c) ==
    /\ conn[c].order = "none" => conn[c] = NoConn
    /\ link[c] = "linked" => conn[c] # NoConn

\* XIM_CONNECT comes first and XIM_DISCONNECT last; both are short.
Framed(c) ==
    \A n \in DOMAIN sent[c]["up"]: LET d == sent[c]["up"][n] IN
        /\ n = 1 => OpOf(d) = "CONNECT"
        /\ OpOf(d) # "OTHER" => ~IsLong(d)
        /\ OpOf(d) = "DISCONNECT" => n = Len(sent[c]["up"]) /\ link[c] = "leaving"

KnowsOrder(c) == conn[c] # NoConn => (conn[c].order = "?" <=> got[c]["up"] = <<>>)

UpInv(c) ==
    /\ Carried(sent[c]["up"], got[c]["up"], queue[c]["up"])
    /\ Laid(sent[c]["up"], got[c]["up"], queue[c]["up"], prop[c]["up"], conn[c].offset)
    /\ Named(sent[c]["up"], got[c]["up"], queue[c]["up"], sequence[c], conn[c].offset)

DownInv(c) ==
    /\ Carried(sent[c]["down"], got[c]["down"], queue[c]["down"])
    /\ Laid(sent[c]["down"], got[c]["down"], queue[c]["down"], prop[c]["down"], 0)

Intact(c) == Met(c) /\ Framed(c) /\ KnowsOrder(c) /\ UpInv(c) /\ DownInv(c)

ClientInv(c) == Standing(c) /\ (c \notin overrun => Intact(c))

TransportInv == StartInv /\ LinkType /\ \A c \in Client: ClientInv(c)

---------------------------------------------------------------------------
(* The servers of the display: proofs.                                     *)

\* Whatever is put in front of the list, the list still holds what it held.
LEMMA InFront ==
    ASSUME NEW S, NEW list \in Seq(S), NEW a \in S, NEW b
    PROVE  Contains(<<a>> \o list, b) <=> (b = a \/ Contains(list, b))
<1>1. /\ <<a>> \o list \in Seq(S)
      /\ DOMAIN (<<a>> \o list) = 1 .. Len(list) + 1
      /\ (<<a>> \o list)[1] = a
      /\ \A i \in 1 .. Len(list): (<<a>> \o list)[i + 1] = list[i]
      /\ DOMAIN list = 1 .. Len(list)
      /\ Len(list) \in Nat
    OBVIOUS
<1> DEFINE both == <<a>> \o list
<1>2. \A i \in DOMAIN both: i = 1 \/ (i - 1 \in DOMAIN list /\ both[i] = list[i - 1])
    <2>1. TAKE i \in DOMAIN both
    <2>2. CASE i = 1
        BY <2>2
    <2>3. CASE i # 1
        <3>1. i - 1 \in 1 .. Len(list) /\ (i - 1) + 1 = i
            BY <1>1, <2>3, <2>1
        <3>2. QED
            BY <1>1, <3>1
    <2>4. QED
        BY <2>2, <2>3
<1>3. ASSUME Contains(both, b)
      PROVE  b = a \/ Contains(list, b)
    BY <1>1, <1>2, <1>3 DEF Contains
<1>4. ASSUME b = a
      PROVE  Contains(both, b)
    BY <1>1, <1>4 DEF Contains
<1>5. ASSUME Contains(list, b)
      PROVE  Contains(both, b)
    <2>1. PICK i \in DOMAIN list: list[i] = b
        BY <1>5 DEF Contains
    <2>2. i + 1 \in DOMAIN both /\ both[i + 1] = b
        BY <1>1, <2>1
    <2>3. QED
        BY <2>2 DEF Contains
<1>6. QED
    BY <1>3, <1>4, <1>5

\* A start of a process, the end of one and a registration keep what the
\* starts rely on.
LEMMA StartKeeps ==
    ASSUME StartInv, plan' = plan,
           \/ \E s \in Server: StartStep(s) \/ End(s)
           \/ \E o \in Other: OtherRegisters(o)
    PROVE  StartInv'
<1> USE ServerAssumption
<1>1. ASSUME NEW s \in Server, Begin(s)
      PROVE  StartInv'
    <2>1. pc'[s] \in {"ask", "claim"} /\ pc' = [pc EXCEPT ![s] = pc'[s]]
        BY <1>1 DEF Begin, Goes, StartInv, StartType
    <2>2. StartType'
        BY <1>1, <2>1 DEF Begin, ReadServers, StartInv, StartType, PcValues
    <2>3. QED
        BY <1>1, <2>1, <2>2 DEF Begin, ReadServers, StartInv, StartType, StillListed, OwnerServes
<1>2. ASSUME NEW s \in Server, Ask(s)
      PROVE  StartInv'
    <2>1. pc'[s] \in {"list", "claim", "refused"} /\ pc' = [pc EXCEPT ![s] = pc'[s]]
        BY <1>2 DEF Ask, Goes, StartInv, StartType
    <2>2. owner = s => pc'[s] = "list"
        BY <1>2 DEF Ask, Goes, StartInv, StartType
    <2>3. StartType'
        BY <1>2, <2>1 DEF Ask, StartInv, StartType, PcValues
    <2>4. QED
        BY <1>2, <2>1, <2>2, <2>3 DEF Ask, StartInv, StartType, StillListed, OwnerServes
<1>3. ASSUME NEW s \in Server, Claim(s)
      PROVE  StartInv'
    BY <1>3 DEF Claim, Goes, StartInv, StartType, PcValues, StillListed, OwnerServes
<1>4. ASSUME NEW s \in Server, List(s)
      PROVE  StartInv'
    <2>1. /\ listed' \in Seq(Atom)
          /\ \A b: Contains(listed, b) => Contains(listed', b)
          /\ Contains(listed', Ours)
        <3>1. CASE Contains(seen[s], Ours)
            BY <1>4, <3>1 DEF List, StartInv, StartType, StillListed
        <3>2. CASE ~Contains(seen[s], Ours)
            <4>1. listed' = <<Ours>> \o listed
                BY <1>4, <3>2 DEF List
            <4>2. listed \in Seq(Atom) /\ Ours \in Atom
                BY DEF StartInv, StartType, Atom
            <4>3. \A b: Contains(listed', b) <=> (b = Ours \/ Contains(listed, b))
                BY <4>1, <4>2, InFront
            <4>4. QED
                BY <4>1, <4>2, <4>3
        <3>3. QED
            BY <3>1, <3>2
    <2>2. /\ pc' = [pc EXCEPT ![s] = "verify"]
          /\ seen' = [seen EXCEPT ![s] = <<>>]
          /\ UNCHANGED <<owner, registered>>
          /\ pc[s] = "list"
        BY <1>4 DEF List, Goes
    <2>3. StartType'
        BY <2>1, <2>2 DEF StartInv, StartType, PcValues
    <2>4. StillListed'
        BY <2>1, <2>2, <2>3 DEF StartInv, StartType, StillListed, Contains
    <2>5. OwnerServes'
        BY <2>2 DEF StartInv, StartType, OwnerServes
    <2>6. QED
        BY <2>3, <2>4, <2>5 DEF StartInv
<1>5. ASSUME NEW s \in Server, Verify(s)
      PROVE  StartInv'
    BY <1>5 DEF Verify, Goes, StartInv, StartType, PcValues, StillListed, OwnerServes
<1>6. ASSUME NEW s \in Server, End(s)
      PROVE  StartInv'
    <2>1. StartType'
        BY <1>6 DEF End, Goes, StartInv, StartType, PcValues
    <2>2. StillListed'
        BY <1>6 DEF End, Goes, StartInv, StartType, StillListed, Contains
    <2>3. OwnerServes'
        BY <1>6 DEF End, Goes, StartInv, StartType, OwnerServes
    <2>4. QED
        BY <2>1, <2>2, <2>3 DEF StartInv
<1>7. ASSUME NEW o \in Other, OtherRegisters(o)
      PROVE  StartInv'
    <2>1. listed' = <<o>> \o listed /\ listed \in Seq(Atom) /\ o \in Atom
        BY <1>7 DEF OtherRegisters, StartInv, StartType, Atom
    <2>2. \A b: Contains(listed', b) <=> (b = o \/ Contains(listed, b))
        BY <2>1, InFront
    <2>3. StartType'
        BY <1>7, <2>1 DEF OtherRegisters, StartInv, StartType
    <2>4. QED
        BY <1>7, <2>2, <2>3 DEF OtherRegisters, StartInv, StillListed, OwnerServes
<1>8. QED
    BY <1>1, <1>2, <1>3, <1>4, <1>5, <1>6, <1>7 DEF StartStep

\* What a process of the program or of another input method does is a step of
\* a start or the end of a process, or leaves their state alone.
LEMMA StartSteps ==
    ASSUME StartInv, \A c \in Client: Standing(c), [Next]_vars
    PROVE  StartInv'
<1>1. CASE UNCHANGED startVars
    BY <1>1 DEF startVars, StartInv, StartType, StillListed, OwnerServes
<1>2. CASE Starts
    BY <1>2, StartKeeps DEF Starts
<1>3. CASE \E s \in Server: ServerEnds(s)
    BY <1>3, StartKeeps DEF ServerEnds
<1>4. ASSUME NEW c \in Client,
             \/ Convert(c) \/ ReturnSelectionNotify(c) \/ ReadXConnectMessage(c)
             \/ ServerSends(c) \/ ClientSends(c) \/ ClientReads(c)
             \/ Leave(c)
      PROVE  UNCHANGED startVars
    BY <1>4 DEF Convert, ReturnSelectionNotify, ReadXConnectMessage, ServerSends,
        ClientSends, ClientReads, Leave
<1>5. ASSUME NEW c \in Client, ServerReads(c)
      PROVE  UNCHANGED startVars \/ \E s \in Server: ServerEnds(s)
    <2>1. peer[c] \in Server
        BY <1>5 DEF ServerReads, Standing, IsOpen
    <2>2. QED
        BY <1>5, <2>1 DEF ServerReads
<1>6. QED
    BY <1>1, <1>2, <1>3, <1>4, <1>5 DEF Next, vars

\* At first no process of the server has begun, and nobody owns anything.
LEMMA StartBegins ==
    ASSUME Init
    PROVE  StartInv
BY ServerAssumption DEF Init, StartInit, StartInv, StartType, PcValues, StillListed,
    OwnerServes, Contains

---------------------------------------------------------------------------
(* Messages and the events that announce them.                             *)

\* A message has at least one unit, and the first one tells its size.
LEMMA Packets ==
    ASSUME NEW m \in Message
    PROVE  /\ Packet(m) \in Seq(Unit)
           /\ Packet(m) \in Data
           /\ Len(Packet(m)) = m.size
           /\ m.size \in Nat \ {0}
           /\ \A j \in 1 .. m.size: Packet(m)[j] = <<m, j>>
           /\ Packet(m)[1][1] = m
<1>1. m.size \in Nat \ {0}
    BY TransportAssumption DEF Message
<1>2. \A j \in 1 .. m.size: <<m, j>> \in Unit
    BY <1>1 DEF Unit
<1>3. QED
    BY <1>1, <1>2 DEF Packet, Data

\* A message on the wire is its packet: as long as its size, and its first unit names it.
LEMMA DataFacts ==
    ASSUME NEW d \in Data
    PROVE  /\ d \in Seq(Unit)
           /\ Len(d) \in Nat \ {0}
           /\ DOMAIN d = 1 .. Len(d)
           /\ d[1][1] \in Message
           /\ d = Packet(d[1][1])
<1>1. PICK m \in Message: d = Packet(m)
    BY DEF Data
<1>2. QED
    BY <1>1, Packets

\* A ClientMessage of format 8 is filled up behind the message, which is cut
\* out again by the size in its header.
LEMMA Padded ==
    ASSUME NEW m \in Message, ~(m.size > Limit)
    PROVE  LET ev == [format |-> 8,
                      data |-> Packet(m) \o [j \in 1 .. Limit - m.size |-> Zero]]
           IN  ev \in Event /\ Announces(ev, Packet(m))
<1> DEFINE pad == [j \in 1 .. Limit - m.size |-> Zero]
           all == Packet(m) \o pad
           ev == [format |-> 8, data |-> all]
<1>1. /\ m.size \in Nat \ {0}
      /\ Limit \in Nat
      /\ Len(Packet(m)) = m.size
      /\ Packet(m) \in Seq(Unit)
      /\ DOMAIN Packet(m) = 1 .. m.size
      /\ Packet(m)[1][1] = m
    BY Packets, TransportAssumption DEF Packet
<1>2. /\ pad \in Seq({Zero})
      /\ Len(pad) = Limit - m.size
    BY <1>1
<1> HIDE DEF pad
<1>3. /\ pad \in Seq(Unit \cup {Zero})
      /\ Packet(m) \in Seq(Unit \cup {Zero})
    <2>1. \A i \in 1 .. Len(pad): pad[i] \in Unit \cup {Zero}
        BY <1>2
    <2>2. \A i \in 1 .. Len(Packet(m)): Packet(m)[i] \in Unit \cup {Zero}
        BY <1>1
    <2>3. QED
        BY <1>1, <1>2, <2>1, <2>2
<1>4. /\ all \in Seq(Unit \cup {Zero})
      /\ Len(all) = Limit
      /\ \A i \in 1 .. m.size: all[i] = Packet(m)[i]
    BY <1>1, <1>2, <1>3
<1>5. all[1][1].size = m.size
    BY <1>1, <1>4
<1> HIDE DEF all
<1>6. SubSeq(all, 1, m.size) = Packet(m)
    <2>1. /\ SubSeq(all, 1, m.size) \in Seq(Unit \cup {Zero})
          /\ Len(SubSeq(all, 1, m.size)) = m.size
          /\ \A i \in 1 .. m.size: SubSeq(all, 1, m.size)[i] = all[i]
        BY <1>1, <1>4
    <2>2. QED
        BY <1>1, <1>3, <1>4, <2>1, SeqEqual
<1>7. ev \in Event
    BY <1>4 DEF Event
<1>8. Announces(ev, Packet(m))
    BY <1>1, <1>5, <1>6 DEF Announces, ByHeader, IsLong
<1>9. QED
    BY <1>7, <1>8 DEF all, pad

\* The event for a long message announces it, by its length and the name of its property.
LEMMA Told ==
    ASSUME NEW m \in Message, m.size > Limit, NEW a \in Name
    PROVE  LET ev == [format |-> 32, length |-> m.size, atom |-> a]
           IN  ev \in Event /\ Announces(ev, Packet(m)) /\ ev.atom = a
BY Packets DEF Event, Announces, IsLong

\* What the formats of an event say of it.
LEMMA Formats ==
    ASSUME NEW ev \in Event, NEW d \in Data, Announces(ev, d)
    PROVE  /\ ev.format = 8 <=> ~IsLong(d)
           /\ ~IsLong(d) => ByHeader(ev.data) = d
           /\ IsLong(d) => ev.length = Len(d) /\ ev.atom \in Name
BY DEF Event, Announces

---------------------------------------------------------------------------
(* What an event more or less does to what is under way.                   *)

\* The state of a way after its next event was read, and after one more was
\* sent.
OneRead(s, g, q) ==
    LET k == Len(g) + 1
        h == Append(g, s[k])
        r == Tail(q)
    IN  /\ k \in UnderWay(s, g)
        /\ k \in 1 .. Len(s)
        /\ s[k] \in Data
        /\ Head(q) \in Event
        /\ Announces(Head(q), s[k])
        /\ h \in Seq(Data)
        /\ Len(h) = k
        /\ r \in Seq(Event)
        /\ Carried(s, h, r)
        /\ LongOnes(s, h) = LongOnes(s, g) \ {k}
        /\ \A n \in LongOnes(s, h): AtomOf(h, r, n) = AtomOf(g, q, n)
        /\ IsLong(s[k]) => IsFirst(s, g, k) /\ AtomOf(g, q, k) = Head(q).atom

OneSent(s, g, q, d, ev) ==
    LET k == Len(s) + 1
        t == Append(s, d)
        r == Append(q, ev)
    IN  /\ t \in Seq(Data)
        /\ Len(t) = k
        /\ t[k] = d
        /\ \A n \in 1 .. Len(s): t[n] = s[n]
        /\ r \in Seq(Event)
        /\ Carried(t, g, r)
        /\ LongOnes(t, g) = LongOnes(s, g) \cup (IF IsLong(d) THEN {k} ELSE {})
        /\ \A n \in LongOnes(s, g):
               n < k /\ t[n] = s[n] /\ AtomOf(g, r, n) = AtomOf(g, q, n)
        /\ AtomOf(g, r, k) = ev.atom

\* The next event to be read announces the next message to be received; when
\* both have gone, nothing changes for the others.
LEMMA NextRead ==
    ASSUME NEW s \in Seq(Data), NEW g \in Seq(Data), NEW q \in Seq(Event),
           Carried(s, g, q), q # <<>>
    PROVE  OneRead(s, g, q)
<1> DEFINE k == Len(g) + 1
           h == Append(g, s[k])
           r == Tail(q)
<1>1. /\ Len(s) \in Nat /\ Len(g) \in Nat /\ Len(q) \in Nat
      /\ Len(q) > 0
      /\ Len(g) < Len(s)
      /\ k \in 1 .. Len(s)
      /\ s[k] \in Data
      /\ Head(q) = q[1]
      /\ q[1] \in Event
    BY DEF Carried
<1>2. k \in UnderWay(s, g)
    BY <1>1 DEF UnderWay
<1>3. Announces(Head(q), s[k])
    <2>1. Announces(q[k - Len(g)], s[k])
        BY <1>2 DEF Carried
    <2>2. k - Len(g) = 1
        BY <1>1
    <2>3. QED
        BY <1>1, <2>1, <2>2
<1>4. /\ h \in Seq(Data)
      /\ Len(h) = Len(g) + 1
      /\ r \in Seq(Event)
      /\ Len(r) = Len(q) - 1
      /\ \A i \in 1 .. Len(r): r[i] = q[i + 1]
    BY <1>1
<1> HIDE DEF h, r
<1>5. UnderWay(s, h) = UnderWay(s, g) \ {k}
    BY <1>1, <1>4 DEF UnderWay
<1>6. \A n \in UnderWay(s, h): r[n - Len(h)] = q[n - Len(g)]
    <2>1. TAKE n \in UnderWay(s, h)
    <2>2. n - Len(h) \in 1 .. Len(r) /\ (n - Len(h)) + 1 = n - Len(g)
        BY <1>1, <1>4 DEF UnderWay, Carried
    <2>3. QED
        BY <1>4, <2>2
<1>7. Carried(s, h, r)
    BY <1>1, <1>4, <1>5, <1>6 DEF Carried
<1>8. LongOnes(s, h) = LongOnes(s, g) \ {k}
    BY <1>5 DEF LongOnes
<1>9. \A n \in LongOnes(s, h): AtomOf(h, r, n) = AtomOf(g, q, n)
    BY <1>6 DEF LongOnes, AtomOf
<1>10. IsLong(s[k]) => IsFirst(s, g, k) /\ AtomOf(g, q, k) = Head(q).atom
    <2>1. k - Len(g) = 1
        BY <1>1
    <2>2. \A n \in LongOnes(s, g): k <= n
        BY <1>1 DEF LongOnes, UnderWay
    <2>3. QED
        BY <1>1, <1>2, <2>1, <2>2 DEF IsFirst, LongOnes, AtomOf
<1>11. QED
    BY <1>1, <1>2, <1>3, <1>4, <1>7, <1>8, <1>9, <1>10 DEF h, r, OneRead

\* One message is sent and its event put behind the others.
LEMMA NextSent ==
    ASSUME NEW s \in Seq(Data), NEW g \in Seq(Data), NEW q \in Seq(Event),
           Carried(s, g, q),
           NEW d \in Data, NEW ev \in Event, Announces(ev, d)
    PROVE  OneSent(s, g, q, d, ev)
<1> DEFINE k == Len(s) + 1
           t == Append(s, d)
           r == Append(q, ev)
<1>1. /\ Len(s) \in Nat /\ Len(g) \in Nat /\ Len(q) \in Nat
      /\ Len(q) = Len(s) - Len(g)
      /\ Len(g) <= Len(s)
    BY DEF Carried
<1>2. /\ t \in Seq(Data)
      /\ Len(t) = k
      /\ t[k] = d
      /\ \A n \in 1 .. Len(s): t[n] = s[n]
      /\ r \in Seq(Event)
      /\ Len(r) = Len(q) + 1
      /\ r[Len(q) + 1] = ev
      /\ \A i \in 1 .. Len(q): r[i] = q[i]
    OBVIOUS
<1> HIDE DEF t, r
<1>3. UnderWay(t, g) = UnderWay(s, g) \cup {k}
    BY <1>1, <1>2 DEF UnderWay
<1>4. \A n \in UnderWay(s, g):
          n \in 1 .. Len(s) /\ n - Len(g) \in 1 .. Len(q)
    BY <1>1 DEF UnderWay
<1>5. \A n \in UnderWay(s, g): t[n] = s[n] /\ r[n - Len(g)] = q[n - Len(g)]
    BY <1>2, <1>4
<1>6. k - Len(g) = Len(q) + 1
    BY <1>1
<1>7. r[k - Len(g)] = ev
    BY <1>2, <1>6
<1>8. Carried(t, g, r)
    BY <1>1, <1>2, <1>3, <1>5, <1>7 DEF Carried
<1>9. LongOnes(t, g) = LongOnes(s, g) \cup (IF IsLong(d) THEN {k} ELSE {})
    BY <1>2, <1>3, <1>5 DEF LongOnes
<1>10. \A n \in LongOnes(s, g):
          n < k /\ t[n] = s[n] /\ AtomOf(g, r, n) = AtomOf(g, q, n)
    BY <1>1, <1>4, <1>5 DEF LongOnes, AtomOf
<1>11. AtomOf(g, r, k) = ev.atom
    BY <1>7 DEF AtomOf
<1>12. QED
    BY <1>2, <1>8, <1>9, <1>10, <1>11 DEF t, r, OneSent

\* Where the long messages lie does not depend on the short ones.
LEMMA SameLaid ==
    ASSUME NEW s, NEW g, NEW q, NEW p, NEW o, NEW t, NEW h, NEW r,
           LongOnes(t, h) = LongOnes(s, g),
           \A n \in LongOnes(s, g): t[n] = s[n] /\ AtomOf(h, r, n) = AtomOf(g, q, n),
           Laid(s, g, q, p, o)
    PROVE  Laid(t, h, r, p, o)
<1>1. PICK start \in [LongOnes(s, g) -> Nat]: Placed(s, g, q, p, start) /\ Tiled(s, g, q, p, o, start)
    BY DEF Laid
<1>2. Placed(t, h, r, p, start)
    BY <1>1 DEF Placed
<1>3. Tiled(t, h, r, p, o, start)
    BY <1>1 DEF Tiled, IsFirst
<1>4. QED
    BY <1>1, <1>2, <1>3 DEF Laid

---------------------------------------------------------------------------
(* Where the long messages lie.                                            *)

\* Of two lemmas below: u is what the properties become, and the name of a
\* new message is not that of a property that was read in part.
Appends(p, u, a, d) == u = [p EXCEPT ![a] = @ \o d]

Avoids(s, g, q, o, a) ==
    o # 0 => \A n \in LongOnes(s, g): IsFirst(s, g, n) => AtomOf(g, q, n) # a

\* Places shifted within a range stay in it.
LEMMA Within ==
    ASSUME NEW x \in Nat, NEW y \in Nat, NEW z \in Nat, x + y <= z
    PROVE  \A j \in 1 .. y: x + j \in 1 .. z
OBVIOUS

\* What is left of an inequality without a term on both sides.
LEMMA Cancelled ==
    ASSUME NEW x \in Nat, NEW y \in Nat, NEW z \in Nat, NEW w \in Nat, x + w + y <= z + w
    PROVE  x + y <= z
OBVIOUS

\* A sequence something was appended to is not empty.
LEMMA NotEmpty ==
    ASSUME NEW S, NEW v \in Seq(S), NEW x
    PROVE  Append(v, x) # <<>>
<1>1. Len(Append(v, x)) = Len(v) + 1 /\ Len(v) \in Nat
    OBVIOUS
<1>2. QED
    BY <1>1

\* What the concatenation of two sequences holds.
LEMMA Appended ==
    ASSUME NEW S, NEW v \in Seq(S), NEW w \in Seq(S)
    PROVE  /\ v \o w \in Seq(S)
           /\ Len(v \o w) = Len(v) + Len(w)
           /\ \A i \in 1 .. Len(v): (v \o w)[i] = v[i]
           /\ \A j \in 1 .. Len(w): (v \o w)[Len(v) + j] = w[j]
OBVIOUS

\* What the rest of a sequence holds.
LEMMA RestOf ==
    ASSUME NEW S, NEW v \in Seq(S), NEW n \in Nat, n <= Len(v)
    PROVE  /\ SubSeq(v, n + 1, Len(v)) \in Seq(S)
           /\ Len(SubSeq(v, n + 1, Len(v))) = Len(v) - n
           /\ \A i \in 1 .. Len(v) - n: SubSeq(v, n + 1, Len(v))[i] = v[i + n]
<1>1. \A i \in n + 1 .. Len(v): v[i] \in S
    OBVIOUS
<1>2. n + 1 \in Int /\ Len(v) \in Int
    OBVIOUS
<1>3. /\ SubSeq(v, n + 1, Len(v)) \in Seq(S)
      /\ Len(SubSeq(v, n + 1, Len(v))) = IF n + 1 <= Len(v) THEN Len(v) - (n + 1) + 1 ELSE 0
      /\ \A i \in 1 .. Len(v) - (n + 1) + 1: SubSeq(v, n + 1, Len(v))[i] = v[(n + 1) + i - 1]
    BY <1>1, <1>2, SubSeqProperties
<1>4. QED
    BY <1>2, <1>3

\* What is left of a property is still one.
LEMMA SuffixType ==
    ASSUME NEW S, NEW v \in Seq(S), NEW n \in Nat
    PROVE  SubSeq(v, n + 1, Len(v)) \in Seq(S)
<1>1. \A i \in n + 1 .. Len(v): v[i] \in S
    OBVIOUS
<1>2. n + 1 \in Int /\ Len(v) \in Int
    OBVIOUS
<1>3. QED
    BY <1>1, <1>2, SubSeqProperties

\* The events of long messages carry names of properties.
LEMMA LongAtoms ==
    ASSUME NEW s \in Seq(Data), NEW g \in Seq(Data), NEW q \in Seq(Event), Carried(s, g, q)
    PROVE  \A n \in LongOnes(s, g): AtomOf(g, q, n) \in Name
<1>1. TAKE n \in LongOnes(s, g)
<1>2. n \in 1 .. Len(s) /\ n - Len(g) \in 1 .. Len(q)
      /\ Announces(q[n - Len(g)], s[n]) /\ IsLong(s[n])
    BY DEF LongOnes, UnderWay, Carried
<1>3. q[n - Len(g)] \in Event /\ s[n] \in Data
    BY <1>2
<1>4. QED
    BY <1>2, <1>3, Formats DEF AtomOf

\* One more long message lies behind all others of its name.
LEMMA LaidBehind ==
    ASSUME NEW s \in Seq(Data), NEW g \in Seq(Data), NEW q \in Seq(Event),
           NEW p \in [Name -> Seq(Unit)], NEW o \in Nat,
           Carried(s, g, q), Laid(s, g, q, p, o),
           NEW d \in Data, NEW ev \in Event, Announces(ev, d), IsLong(d), ev.atom \in Name,
           Avoids(s, g, q, o, ev.atom),
           NEW u, Appends(p, u, ev.atom, d)
    PROVE  Laid(Append(s, d), g, Append(q, ev), u, o)
<1> DEFINE k == Len(s) + 1
           t == Append(s, d)
           r == Append(q, ev)
           a == ev.atom
<1>1. /\ t[k] = d
      /\ LongOnes(t, g) = LongOnes(s, g) \cup {k}
      /\ \A n \in LongOnes(s, g):
             n < k /\ t[n] = s[n] /\ AtomOf(g, r, n) = AtomOf(g, q, n)
      /\ AtomOf(g, r, k) = a
    <2>1. OneSent(s, g, q, d, ev)
        BY NextSent
    <2>2. QED
        BY <2>1 DEF OneSent
<1>2. k \in Nat
    OBVIOUS
<1>3. \A n \in LongOnes(s, g): n \in Nat /\ s[n] \in Data /\ Len(s[n]) \in Nat \ {0}
    BY DataFacts DEF LongOnes, UnderWay
<1>4. d \in Seq(Unit) /\ Len(d) \in Nat \ {0}
    BY DataFacts
<1>5. \A n \in LongOnes(s, g): AtomOf(g, q, n) \in Name
    BY LongAtoms
<1> HIDE DEF t, r, k, a
<1>6. /\ \A b \in Name: /\ p[b] \in Seq(Unit) /\ Len(p[b]) \in Nat
                        /\ u[b] \in Seq(Unit) /\ Len(u[b]) \in Nat
                        /\ Len(p[b]) <= Len(u[b])
                        /\ \A i \in 1 .. Len(p[b]): u[b][i] = p[b][i]
                        /\ b # a => u[b] = p[b]
      /\ Len(u[a]) = Len(p[a]) + Len(d)
      /\ \A j \in 1 .. Len(d): u[a][Len(p[a]) + j] = d[j]
    <2>1. /\ p[a] \in Seq(Unit)
          /\ u[a] = p[a] \o d
          /\ \A b \in Name: b # a => u[b] = p[b]
        BY DEF a, Appends
    <2>2. /\ u[a] \in Seq(Unit)
          /\ Len(u[a]) = Len(p[a]) + Len(d)
          /\ \A i \in 1 .. Len(p[a]): u[a][i] = p[a][i]
          /\ \A j \in 1 .. Len(d): u[a][Len(p[a]) + j] = d[j]
        BY <1>4, <2>1, Appended
    <2>3. \A b \in Name: p[b] \in Seq(Unit) /\ Len(p[b]) \in Nat
        OBVIOUS
    <2>4. ASSUME NEW b \in Name
          PROVE  /\ p[b] \in Seq(Unit) /\ Len(p[b]) \in Nat
                 /\ u[b] \in Seq(Unit) /\ Len(u[b]) \in Nat
                 /\ Len(p[b]) <= Len(u[b])
                 /\ \A i \in 1 .. Len(p[b]): u[b][i] = p[b][i]
                 /\ b # a => u[b] = p[b]
        <3>1. CASE b = a
            <4>1. p[b] \in Seq(Unit) /\ Len(p[b]) \in Nat
                BY <2>3
            <4>2. Len(u[b]) = Len(p[b]) + Len(d) /\ u[b] \in Seq(Unit)
                BY <2>2, <3>1
            <4>3. QED
                BY <1>4, <2>2, <3>1, <4>1, <4>2
        <3>2. CASE b # a
            BY <2>1, <2>3, <3>2
        <3>3. QED
            BY <3>1, <3>2
    <2>5. QED
        BY <2>2, <2>4
<1>7. PICK start \in [LongOnes(s, g) -> Nat]: Placed(s, g, q, p, start) /\ Tiled(s, g, q, p, o, start)
    BY DEF Laid
<1> DEFINE next == [n \in LongOnes(t, g) |-> IF n = k THEN Len(p[a]) ELSE start[n]]
<1>8. a \in Name
    BY DEF a
<1>9. /\ next \in [LongOnes(t, g) -> Nat]
      /\ \A n \in LongOnes(s, g): next[n] = start[n] /\ start[n] \in Nat
      /\ next[k] = Len(p[a])
    BY <1>1, <1>2, <1>3, <1>6, <1>8
<1> HIDE DEF next
<1>10. Placed(t, g, r, u, next)
    <2>1. ASSUME NEW n \in LongOnes(s, g)
          PROVE  LET content == u[AtomOf(g, q, n)] IN
                 /\ start[n] + Len(s[n]) <= Len(p[AtomOf(g, q, n)])
                 /\ start[n] + Len(s[n]) <= Len(content)
                 /\ \A j \in 1 .. Len(s[n]): content[start[n] + j] = s[n][j]
        <3>1. start[n] + Len(s[n]) <= Len(p[AtomOf(g, q, n)])
            BY <1>7 DEF Placed
        <3> DEFINE b == AtomOf(g, q, n)
        <3>2. /\ start[n] \in Nat
              /\ Len(s[n]) \in Nat
              /\ b \in Name
              /\ Len(p[b]) \in Nat
              /\ Len(u[b]) \in Nat
              /\ Len(p[b]) <= Len(u[b])
            BY <1>3, <1>5, <1>6, <1>9
        <3>3. \A j \in 1 .. Len(s[n]): p[b][start[n] + j] = s[n][j]
            BY <1>7 DEF Placed
        <3>4. \A i \in 1 .. Len(p[b]): u[b][i] = p[b][i]
            BY <1>6, <3>2
        <3> HIDE DEF b
        <3>5. start[n] + Len(s[n]) <= Len(p[b])
            BY <3>1 DEF b
        <3>6. \A j \in 1 .. Len(s[n]): start[n] + j \in 1 .. Len(p[b])
            BY <3>2, <3>5, Within
        <3>7. \A j \in 1 .. Len(s[n]): u[b][start[n] + j] = s[n][j]
            BY <3>3, <3>4, <3>6
        <3>8. start[n] + Len(s[n]) <= Len(u[b])
            BY <3>2, <3>5
        <3>9. QED
            BY <3>5, <3>7, <3>8 DEF b
    <2>2. \A n \in LongOnes(t, g):
              LET content == u[AtomOf(g, r, n)] IN
              /\ next[n] + Len(t[n]) <= Len(content)
              /\ \A j \in 1 .. Len(t[n]): content[next[n] + j] = t[n][j]
        <3>1. TAKE n \in LongOnes(t, g)
        <3>2. CASE n = k
            <4>1. /\ AtomOf(g, r, n) = a
                  /\ next[n] = Len(p[a])
                  /\ t[n] = d
                BY <1>1, <1>9, <3>2
            <4>2. next[n] + Len(d) <= Len(u[a])
                BY <1>4, <1>6, <1>8, <4>1
            <4>3. QED
                BY <1>6, <4>1, <4>2
        <3>3. CASE n \in LongOnes(s, g)
            <4>1. /\ AtomOf(g, r, n) = AtomOf(g, q, n)
                  /\ next[n] = start[n]
                  /\ t[n] = s[n]
                BY <1>1, <1>9, <3>3
            <4>2. QED
                BY <2>1, <3>3, <4>1
        <3>4. QED
            BY <1>1, <3>1, <3>2, <3>3
    <2>3. ASSUME NEW n \in LongOnes(t, g), NEW l \in LongOnes(t, g),
                 n < l, AtomOf(g, r, n) = AtomOf(g, r, l)
          PROVE  next[n] + Len(t[n]) <= next[l]
        <3>1. n # k
            BY <1>1, <1>2, <1>3, <2>3
        <3>2. CASE l = k
            BY <1>1, <1>9, <2>1, <2>3, <3>1, <3>2
        <3>3. CASE l # k
            BY <1>1, <1>7, <1>9, <2>3, <3>1, <3>3 DEF Placed
        <3>4. QED
            BY <3>2, <3>3
    <2>4. QED
        BY <2>2, <2>3 DEF Placed
<1>11. \A n \in LongOnes(s, g): IsFirst(s, g, n) => IsFirst(t, g, n)
    BY <1>1, <1>2, <1>3 DEF IsFirst
<1>12. Tiled(t, g, r, u, o, next)
    <2>1. ASSUME NEW b \in Name, NEW i \in 1 .. Len(u[b])
          PROVE  \/ \E n \in LongOnes(t, g): AtomOf(g, r, n) = b /\ i \in next[n] + 1 .. next[n] + Len(t[n])
                 \/ i <= o /\ \E n \in LongOnes(t, g): IsFirst(t, g, n) /\ AtomOf(g, r, n) = b
        <3>1. CASE i \in 1 .. Len(p[b])
            <4>1. CASE \E n \in LongOnes(s, g): AtomOf(g, q, n) = b /\ i \in start[n] + 1 .. start[n] + Len(s[n])
                BY <1>1, <1>9, <4>1
            <4>2. CASE i <= o /\ \E n \in LongOnes(s, g): IsFirst(s, g, n) /\ AtomOf(g, q, n) = b
                BY <1>1, <1>11, <4>2
            <4>3. QED
                BY <1>7, <3>1, <4>1, <4>2 DEF Tiled
        <3>2. CASE i \notin 1 .. Len(p[b])
            <4>1. b = a
                BY <1>6, <2>1, <3>2
            <4>2. i \in Len(p[a]) + 1 .. Len(p[a]) + Len(d)
                BY <1>4, <1>6, <1>8, <2>1, <3>2, <4>1
            <4>3. QED
                BY <1>1, <1>9, <4>1, <4>2
        <3>3. QED
            BY <3>1, <3>2
    <2>2. ASSUME o # 0
          PROVE  \E n \in LongOnes(t, g):
                     /\ IsFirst(t, g, n)
                     /\ next[n] = o
                     /\ Len(u[AtomOf(g, r, n)]) = o + Len(t[n])
        <3>1. PICK n \in LongOnes(s, g): /\ IsFirst(s, g, n)
                                         /\ start[n] = o
                                         /\ Len(p[AtomOf(g, q, n)]) = o + Len(s[n])
            BY <1>7, <2>2 DEF Tiled
        <3>2. AtomOf(g, q, n) # a
            BY <2>2, <3>1 DEF a, Avoids
        <3>3. /\ n \in LongOnes(t, g)
              /\ IsFirst(t, g, n)
              /\ next[n] = o
              /\ AtomOf(g, r, n) = AtomOf(g, q, n)
              /\ t[n] = s[n]
            BY <1>1, <1>9, <1>11, <3>1
        <3>4. u[AtomOf(g, q, n)] = p[AtomOf(g, q, n)]
            BY <1>5, <1>6, <3>2
        <3>5. QED
            BY <3>1, <3>3, <3>4
    <2>3. QED
        BY <2>1, <2>2 DEF Tiled
<1>13. Laid(t, g, r, u, o)
    BY <1>9, <1>10, <1>12 DEF Laid
<1>14. QED
    BY <1>13 DEF t, r

\* The first long message begins where the reader of its property has come to.
LEMMA FirstStart ==
    ASSUME NEW s \in Seq(Data), NEW g \in Seq(Data), NEW q, NEW o \in Nat,
           NEW p \in [Name -> Seq(Unit)],
           NEW start \in [LongOnes(s, g) -> Nat],
           Placed(s, g, q, p, start), Tiled(s, g, q, p, o, start),
           NEW k, IsFirst(s, g, k), AtomOf(g, q, k) \in Name
    PROVE  start[k] = o
<1>1. /\ k \in LongOnes(s, g)
      /\ \A n \in LongOnes(s, g): k <= n /\ n \in Nat /\ Len(s[n]) \in Nat \ {0}
    BY DataFacts DEF IsFirst, LongOnes, UnderWay
<1>2. CASE o # 0
    <2>1. PICK n \in LongOnes(s, g): IsFirst(s, g, n) /\ start[n] = o
        BY <1>2 DEF Tiled
    <2>2. n = k
        BY <1>1, <2>1 DEF IsFirst
    <2>3. QED
        BY <2>1, <2>2
<1>3. CASE o = 0
    <2>1. SUFFICES ASSUME start[k] # 0
                   PROVE  FALSE
        BY <1>3
    <2> DEFINE a == AtomOf(g, q, k)
    <2>2. /\ start[k] \in Nat
          /\ start[k] + Len(s[k]) <= Len(p[a])
          /\ Len(p[a]) \in Nat
        BY <1>1 DEF Placed
    <2>3. start[k] \in 1 .. Len(p[a])
        BY <1>1, <2>1, <2>2
    <2>4. PICK n \in LongOnes(s, g):
              AtomOf(g, q, n) = a /\ start[k] \in start[n] + 1 .. start[n] + Len(s[n])
        BY <1>3, <2>2, <2>3 DEF Tiled
    <2>5. n # k
        BY <1>1, <2>2, <2>4
    <2>6. start[k] + Len(s[k]) <= start[n]
        BY <1>1, <2>4, <2>5 DEF Placed
    <2>7. start[n] \in Nat /\ Len(s[k]) \in Nat \ {0}
        BY <1>1
    <2>8. start[n] < start[k]
        BY <2>2, <2>4, <2>7
    <2>9. QED
        BY <2>2, <2>6, <2>7, <2>8
<1>4. QED
    BY <1>2, <1>3

\* The first long message is read whole, and is the last of its name when its
\* property was read in part before.
LEMMA FirstRead ==
    ASSUME NEW s \in Seq(Data), NEW g \in Seq(Data), NEW q, NEW o \in Nat,
           NEW p \in [Name -> Seq(Unit)], Laid(s, g, q, p, o),
           NEW k, IsFirst(s, g, k), NEW a \in Name, a = AtomOf(g, q, k)
    PROVE  /\ o + Len(s[k]) <= Len(p[a])
           /\ o # 0 => Len(p[a]) = o + Len(s[k])
           /\ Read(p[a], o, Len(s[k])) = s[k]
<1>1. PICK start \in [LongOnes(s, g) -> Nat]: Placed(s, g, q, p, start) /\ Tiled(s, g, q, p, o, start)
    BY DEF Laid
<1>2. k \in LongOnes(s, g) /\ k \in 1 .. Len(s)
    BY DEF IsFirst, LongOnes, UnderWay
<1>3. s[k] \in Seq(Unit) /\ Len(s[k]) \in Nat \ {0} /\ s[k] \in Data
    BY <1>2, DataFacts
<1>4. start[k] = o
    BY <1>1, FirstStart
<1>5. o + Len(s[k]) <= Len(p[a])
    BY <1>1, <1>2, <1>4 DEF Placed
<1>6. \A j \in 1 .. Len(s[k]): p[a][o + j] = s[k][j]
    BY <1>1, <1>2, <1>4 DEF Placed
<1>7. ASSUME o # 0
      PROVE  Len(p[a]) = o + Len(s[k])
    <2>1. PICK n \in LongOnes(s, g): IsFirst(s, g, n) /\ Len(p[AtomOf(g, q, n)]) = o + Len(s[n])
        BY <1>1, <1>7 DEF Tiled
    <2>2. n \in Int /\ k \in Int /\ n <= k /\ k <= n
        BY <1>2, <2>1 DEF IsFirst, LongOnes, UnderWay
    <2>3. n = k
        BY <2>2
    <2>4. QED
        BY <2>1, <2>3
<1>8. Read(p[a], o, Len(s[k])) = s[k]
    <2> DEFINE v == p[a]
               b == Len(s[k])
               w == s[k]
    <2>1. v \in Seq(Unit) /\ Len(v) \in Nat /\ b \in Nat /\ o + b <= Len(v)
          /\ w \in Seq(Unit) /\ Len(w) = b
        BY <1>3, <1>5
    <2>2. \A j \in 1 .. b: v[o + j] = w[j]
        BY <1>6
    <2> HIDE DEF v, b, w
    <2>3. \A i \in o + 1 .. o + b: v[i] \in Unit
        BY <2>1
    <2>4. /\ SubSeq(v, o + 1, o + b) \in Seq(Unit)
          /\ Len(SubSeq(v, o + 1, o + b)) = b
          /\ \A i \in 1 .. b: SubSeq(v, o + 1, o + b)[i] = v[o + i]
        BY <2>1, <2>3
    <2>5. SubSeq(v, o + 1, o + b) = w
        BY <2>1, <2>2, <2>4, SeqEqual
    <2>6. (IF Len(v) > o + b THEN o + b ELSE Len(v)) = o + b
        <3>1. o + b \in Nat
            BY <2>1
        <3>2. Len(v) > o + b \/ Len(v) = o + b
            BY <2>1, <3>1
        <3>3. QED
            BY <3>2
    <2>7. Read(v, o, b) = w
        BY <2>5, <2>6 DEF Read, Remains
    <2>8. QED
        BY <2>7 DEF v, b, w
<1>9. QED
    BY <1>5, <1>7, <1>8

\* The first long message has been read, and its event has gone.
FirstGone(s, g, q, h, r, k) ==
    /\ IsFirst(s, g, k)
    /\ LongOnes(s, h) = LongOnes(s, g) \ {k}
    /\ \A n \in LongOnes(s, h): AtomOf(h, r, n) = AtomOf(g, q, n)

TakenOff(p, u, a, len) == u = [p EXCEPT ![a] = SubSeq(@, len + 1, Len(@))]

\* Xlib takes the first message off its property: the others move up.
LEMMA LaidUp ==
    ASSUME NEW s \in Seq(Data), NEW g \in Seq(Data), NEW q \in Seq(Event),
           NEW p \in [Name -> Seq(Unit)], Carried(s, g, q), Laid(s, g, q, p, 0),
           NEW k, NEW h, NEW r, FirstGone(s, g, q, h, r, k),
           NEW u, TakenOff(p, u, AtomOf(g, q, k), Len(s[k]))
    PROVE  Laid(s, h, r, u, 0)
<1> DEFINE a == AtomOf(g, q, k)
           len == Len(s[k])
<1>1. PICK start \in [LongOnes(s, g) -> Nat]: Placed(s, g, q, p, start) /\ Tiled(s, g, q, p, 0, start)
    BY DEF Laid
<1>2. \A n \in LongOnes(s, g):
          /\ n \in Nat
          /\ Len(s[n]) \in Nat \ {0}
          /\ AtomOf(g, q, n) \in Name
          /\ start[n] \in Nat
    BY DataFacts, LongAtoms DEF LongOnes, UnderWay
<1>3. k \in LongOnes(s, g) /\ \A n \in LongOnes(s, g): k <= n
    BY DEF FirstGone, IsFirst
<1>4. a \in Name /\ len \in Nat \ {0} /\ k \in Nat
    BY <1>2, <1>3
<1>5. start[k] = 0 /\ len <= Len(p[a])
    <2>1. start[k] = 0
        BY <1>1, <1>4, FirstStart DEF FirstGone
    <2>2. start[k] + len <= Len(p[a])
        BY <1>1, <1>3 DEF Placed
    <2>3. QED
        BY <1>4, <2>1, <2>2
<1>6. /\ \A b \in Name: /\ p[b] \in Seq(Unit) /\ Len(p[b]) \in Nat
                        /\ b # a => u[b] = p[b]
      /\ Len(u[a]) = Len(p[a]) - len
      /\ \A i \in 1 .. Len(p[a]) - len: u[a][i] = p[a][i + len]
    <2>1. /\ p[a] \in Seq(Unit)
          /\ u[a] = SubSeq(p[a], len + 1, Len(p[a]))
          /\ \A b \in Name: b # a => u[b] = p[b]
        BY <1>4 DEF TakenOff
    <2> HIDE DEF a, len
    <2>2. /\ Len(u[a]) = Len(p[a]) - len
          /\ \A i \in 1 .. Len(p[a]) - len: u[a][i] = p[a][i + len]
        BY <1>4, <1>5, <2>1, RestOf
    <2>3. \A b \in Name: p[b] \in Seq(Unit) /\ Len(p[b]) \in Nat
        OBVIOUS
    <2>4. QED
        BY <2>1, <2>2, <2>3, Zenon
<1> HIDE DEF len
<1>7. \A n \in LongOnes(s, h):
          /\ n \in LongOnes(s, g)
          /\ n # k
          /\ AtomOf(h, r, n) = AtomOf(g, q, n)
          /\ AtomOf(g, q, n) = a => len <= start[n]
    <2>1. TAKE n \in LongOnes(s, h)
    <2>2. n \in LongOnes(s, g) /\ n # k /\ AtomOf(h, r, n) = AtomOf(g, q, n)
        BY DEF FirstGone
    <2>3. k < n
        BY <1>2, <1>3, <2>2
    <2>4. AtomOf(g, q, n) = a => start[k] + len <= start[n]
        BY <1>1, <1>3, <2>2, <2>3 DEF Placed, len
    <2>5. QED
        BY <1>4, <1>5, <2>2, <2>4
<1> HIDE DEF a
<1> DEFINE next == [n \in LongOnes(s, h) |->
                        IF AtomOf(g, q, n) = a THEN start[n] - len ELSE start[n]]
<1>8. \A n \in LongOnes(s, h):
          /\ next[n] \in Nat
          /\ AtomOf(g, q, n) = a => start[n] = next[n] + len
          /\ AtomOf(g, q, n) # a => start[n] = next[n]
    <2>1. TAKE n \in LongOnes(s, h)
    <2>2. start[n] \in Nat /\ len \in Nat /\ (AtomOf(g, q, n) = a => len <= start[n])
        BY <1>2, <1>4, <1>7
    <2>3. next[n] = IF AtomOf(g, q, n) = a THEN start[n] - len ELSE start[n]
        OBVIOUS
    <2> HIDE DEF next
    <2>4. QED
        BY <2>2, <2>3
<1>9. next \in [LongOnes(s, h) -> Nat]
    BY <1>8
<1> HIDE DEF next
<1>10. Placed(s, h, r, u, next)
    <2>1. ASSUME NEW n \in LongOnes(s, h)
          PROVE  LET content == u[AtomOf(h, r, n)] IN
                 /\ next[n] + Len(s[n]) <= Len(content)
                 /\ \A j \in 1 .. Len(s[n]): content[next[n] + j] = s[n][j]
        <3> DEFINE b == AtomOf(g, q, n)
        <3>1. /\ start[n] + Len(s[n]) <= Len(p[b])
              /\ \A j \in 1 .. Len(s[n]): p[b][start[n] + j] = s[n][j]
            BY <1>1, <1>7 DEF Placed
        <3>2. AtomOf(h, r, n) = b /\ Len(s[n]) \in Nat /\ b \in Name /\ Len(p[b]) \in Nat
            BY <1>2, <1>6, <1>7
        <3>3. next[n] \in Nat /\ (b = a => start[n] = next[n] + len) /\ (b # a => start[n] = next[n])
            BY <1>8
        <3> HIDE DEF b
        <3>4. CASE b = a
            <4>1. next[n] + Len(s[n]) <= Len(p[a]) - len
                BY <1>4, <3>1, <3>2, <3>3, <3>4
            <4>2. \A j \in 1 .. Len(s[n]): next[n] + j \in 1 .. Len(p[a]) - len
                <5>1. next[n] \in Nat /\ Len(s[n]) \in Nat
                    BY <3>2, <3>3
                <5>2. Len(p[a]) - len \in Nat
                    BY <1>4, <1>5, <3>2, <3>4
                <5>3. QED
                    BY <4>1, <5>1, <5>2, Within
            <4>3. \A j \in 1 .. Len(s[n]): (next[n] + j) + len = start[n] + j
                BY <1>4, <3>2, <3>3, <3>4
            <4>4. \A j \in 1 .. Len(s[n]): u[a][next[n] + j] = s[n][j]
                BY <1>6, <3>1, <3>4, <4>2, <4>3
            <4>5. QED
                BY <1>6, <3>2, <3>4, <4>1, <4>4
        <3>5. CASE b # a
            BY <1>6, <3>1, <3>2, <3>3, <3>5
        <3>6. QED
            BY <3>4, <3>5
    <2>2. ASSUME NEW n \in LongOnes(s, h), NEW l \in LongOnes(s, h),
                 n < l, AtomOf(h, r, n) = AtomOf(h, r, l)
          PROVE  next[n] + Len(s[n]) <= next[l]
        <3>1. start[n] + Len(s[n]) <= start[l]
            BY <1>1, <1>7, <2>2 DEF Placed
        <3>2. AtomOf(g, q, n) = AtomOf(g, q, l) /\ Len(s[n]) \in Nat
            BY <1>2, <1>7, <2>2
        <3>3. CASE AtomOf(g, q, n) = a
            <4>1. /\ start[n] = next[n] + len /\ start[l] = next[l] + len
                  /\ next[n] \in Nat /\ next[l] \in Nat
                BY <1>8, <3>2, <3>3
            <4>2. /\ len \in Nat
                  /\ next[n] + len + Len(s[n]) <= next[l] + len
                BY <1>4, <3>1, <4>1
            <4>3. next[n] + Len(s[n]) <= next[l]
                BY <3>2, <4>1, <4>2, Cancelled
            <4>4. QED
                BY <4>3
        <3>4. CASE AtomOf(g, q, n) # a
            BY <1>8, <3>1, <3>2, <3>4
        <3>5. QED
            BY <3>3, <3>4
    <2>3. QED
        BY <2>1, <2>2 DEF Placed
<1>11. Tiled(s, h, r, u, 0, next)
    <2>1. ASSUME NEW b \in Name, NEW i \in 1 .. Len(u[b])
          PROVE  \E n \in LongOnes(s, h): AtomOf(h, r, n) = b /\ i \in next[n] + 1 .. next[n] + Len(s[n])
        <3>1. CASE b = a
            <4>1. i \in Nat /\ i >= 1 /\ i + len \in 1 .. Len(p[a])
                BY <1>4, <1>5, <1>6, <2>1, <3>1
            <4>2. PICK n \in LongOnes(s, g):
                      AtomOf(g, q, n) = a /\ i + len \in start[n] + 1 .. start[n] + Len(s[n])
                BY <1>1, <1>4, <4>1 DEF Tiled
            <4>3. n # k
                BY <1>4, <1>5, <4>1, <4>2 DEF len
            <4>4. n \in LongOnes(s, h)
                BY <4>3 DEF FirstGone
            <4>5. start[n] = next[n] + len /\ next[n] \in Nat /\ Len(s[n]) \in Nat
                BY <1>2, <1>8, <4>2, <4>4
            <4>6. i \in next[n] + 1 .. next[n] + Len(s[n])
                <5> DEFINE x == next[n]
                           y == Len(s[n])
                <5>1. i + len \in x + len + 1 .. x + len + y
                    BY <4>2, <4>5
                <5>2. x \in Nat /\ y \in Nat /\ i \in Nat /\ len \in Nat
                    BY <1>4, <4>1, <4>5
                <5> HIDE DEF x, y
                <5>3. i \in x + 1 .. x + y
                    BY <5>1, <5>2
                <5>4. QED
                    BY <5>3 DEF x, y
            <4>7. QED
                BY <1>7, <3>1, <4>2, <4>4, <4>6
        <3>2. CASE b # a
            <4>1. i \in 1 .. Len(p[b])
                BY <1>6, <3>2
            <4>2. PICK n \in LongOnes(s, g):
                      AtomOf(g, q, n) = b /\ i \in start[n] + 1 .. start[n] + Len(s[n])
                BY <1>1, <4>1 DEF Tiled
            <4>3. n \in LongOnes(s, h)
                BY <3>2, <4>2 DEF FirstGone, a
            <4>4. QED
                BY <1>7, <1>8, <3>2, <4>2, <4>3
        <3>3. QED
            BY <3>1, <3>2
    <2>2. QED
        BY <2>1 DEF Tiled
<1>12. QED
    BY <1>9, <1>10, <1>11 DEF Laid

Emptied(p, u, a) == u = [p EXCEPT ![a] = <<>>]

\* The server reads a property to its end: no other message lies there.
LEMMA LaidWhole ==
    ASSUME NEW s \in Seq(Data), NEW g \in Seq(Data), NEW q \in Seq(Event),
           NEW p \in [Name -> Seq(Unit)], NEW o \in Nat,
           Carried(s, g, q), Laid(s, g, q, p, o),
           NEW k, NEW h, NEW r, FirstGone(s, g, q, h, r, k),
           Len(p[AtomOf(g, q, k)]) <= o + Len(s[k]),
           NEW u, Emptied(p, u, AtomOf(g, q, k))
    PROVE  Laid(s, h, r, u, 0)
<1> DEFINE a == AtomOf(g, q, k)
<1>1. PICK start \in [LongOnes(s, g) -> Nat]: Placed(s, g, q, p, start) /\ Tiled(s, g, q, p, o, start)
    BY DEF Laid
<1>2. \A n \in LongOnes(s, g):
          /\ n \in Nat
          /\ Len(s[n]) \in Nat \ {0}
          /\ AtomOf(g, q, n) \in Name
          /\ start[n] \in Nat
    BY DataFacts, LongAtoms DEF LongOnes, UnderWay
<1>3. k \in LongOnes(s, g) /\ \A n \in LongOnes(s, g): k <= n
    BY DEF FirstGone, IsFirst
<1>4. a \in Name /\ Len(s[k]) \in Nat \ {0} /\ k \in Nat /\ Len(p[a]) \in Nat
    BY <1>2, <1>3
<1>5. start[k] = o
    BY <1>1, <1>4, FirstStart DEF FirstGone
<1>6. \A n \in LongOnes(s, h):
          /\ n \in LongOnes(s, g)
          /\ AtomOf(h, r, n) = AtomOf(g, q, n)
          /\ AtomOf(g, q, n) # a
    <2>1. TAKE n \in LongOnes(s, h)
    <2>2. n \in LongOnes(s, g) /\ n # k /\ AtomOf(h, r, n) = AtomOf(g, q, n)
        BY DEF FirstGone
    <2>3. k < n
        BY <1>2, <1>3, <2>2
    <2>4. ASSUME AtomOf(g, q, n) = a
          PROVE  FALSE
        <3>1. o + Len(s[k]) <= start[n]
            BY <1>1, <1>3, <1>5, <2>2, <2>3, <2>4 DEF Placed
        <3>2. start[n] + Len(s[n]) <= Len(p[a])
            BY <1>1, <2>2, <2>4 DEF Placed
        <3>3. start[n] \in Nat /\ Len(s[n]) \in Nat \ {0}
            BY <1>2, <2>2
        <3>4. QED
            BY <1>4, <3>1, <3>2, <3>3
    <2>5. QED
        BY <2>2, <2>4
<1>7. /\ u[a] = <<>>
      /\ \A b \in Name: b # a => u[b] = p[b]
    BY <1>4 DEF Emptied
<1> HIDE DEF a
<1> DEFINE next == [n \in LongOnes(s, h) |-> start[n]]
<1>8. next \in [LongOnes(s, h) -> Nat] /\ \A n \in LongOnes(s, h): next[n] = start[n]
    BY <1>2, <1>6
<1> HIDE DEF next
<1>9. Placed(s, h, r, u, next)
    <2>1. \A n \in LongOnes(s, h): u[AtomOf(h, r, n)] = p[AtomOf(g, q, n)]
        BY <1>2, <1>6, <1>7
    <2>2. QED
        BY <1>1, <1>6, <1>8, <2>1 DEF Placed
<1>10. Tiled(s, h, r, u, 0, next)
    <2>1. ASSUME NEW b \in Name, NEW i \in 1 .. Len(u[b])
          PROVE  \E n \in LongOnes(s, h): AtomOf(h, r, n) = b /\ i \in next[n] + 1 .. next[n] + Len(s[n])
        <3>1. b # a
            BY <1>7, <2>1
        <3>2. i \in 1 .. Len(p[b])
            BY <1>7, <2>1, <3>1
        <3>3. ASSUME NEW n \in LongOnes(s, g), IsFirst(s, g, n)
              PROVE  AtomOf(g, q, n) = a
            <4>1. n <= k /\ k <= n
                BY <1>3, <3>3 DEF IsFirst
            <4>2. n = k
                BY <1>2, <1>4, <4>1
            <4>3. QED
                BY <4>2 DEF a
        <3>4. PICK n \in LongOnes(s, g):
                  AtomOf(g, q, n) = b /\ i \in start[n] + 1 .. start[n] + Len(s[n])
            BY <1>1, <3>1, <3>2, <3>3 DEF Tiled
        <3>5. n \in LongOnes(s, h)
            BY <3>1, <3>4 DEF FirstGone, a
        <3>6. QED
            BY <1>6, <1>8, <3>4, <3>5
    <2>2. QED
        BY <2>1 DEF Tiled
<1>11. QED
    BY <1>8, <1>9, <1>10 DEF Laid

\* Long messages of one name follow each other directly.
Adjacent(s, g, q) ==
    \A n, k \in LongOnes(s, g):
        n < k /\ AtomOf(g, q, n) = AtomOf(g, q, k) =>
            \A z \in LongOnes(s, g): ~(n < z /\ z < k)

\* The server reads a part: what is left is the next long message.
PartLaid(s, g, q, p, h, r, k) ==
    /\ Laid(s, h, r, p, Len(s[k]))
    /\ \E n \in LongOnes(s, h): IsFirst(s, h, n) /\ k < n /\ AtomOf(g, q, n) = AtomOf(g, q, k)

\* When a message is read and its property keeps more, the messages left are laid
\* out behind it, from the end of the one read.
LEMMA LaidPart ==
    ASSUME NEW s \in Seq(Data), NEW g \in Seq(Data), NEW q \in Seq(Event),
           NEW p \in [Name -> Seq(Unit)],
           Carried(s, g, q), Laid(s, g, q, p, 0), Adjacent(s, g, q),
           NEW k, NEW h, NEW r, FirstGone(s, g, q, h, r, k),
           Remains(p[AtomOf(g, q, k)], 0, Len(s[k]))
    PROVE  PartLaid(s, g, q, p, h, r, k)
<1> DEFINE a == AtomOf(g, q, k)
           len == Len(s[k])
<1>1. PICK start \in [LongOnes(s, g) -> Nat]: Placed(s, g, q, p, start) /\ Tiled(s, g, q, p, 0, start)
    BY DEF Laid
<1>2. \A n \in LongOnes(s, g):
          /\ n \in Nat
          /\ Len(s[n]) \in Nat \ {0}
          /\ AtomOf(g, q, n) \in Name
          /\ start[n] \in Nat
    BY DataFacts, LongAtoms DEF LongOnes, UnderWay
<1>3. k \in LongOnes(s, g) /\ \A n \in LongOnes(s, g): k <= n
    BY DEF FirstGone, IsFirst
<1>4. a \in Name /\ len \in Nat \ {0} /\ k \in Nat /\ Len(p[a]) \in Nat /\ len < Len(p[a])
    BY <1>2, <1>3 DEF Remains
<1>5. start[k] = 0
    BY <1>1, <1>4, FirstStart DEF FirstGone
<1>6. \A n \in LongOnes(s, h):
          n \in LongOnes(s, g) /\ k < n /\ AtomOf(h, r, n) = AtomOf(g, q, n)
    <2>1. TAKE n \in LongOnes(s, h)
    <2>2. n \in LongOnes(s, g) /\ n # k /\ AtomOf(h, r, n) = AtomOf(g, q, n)
        BY DEF FirstGone
    <2>3. QED
        BY <1>2, <1>3, <2>2
<1>7. \A n \in LongOnes(s, g): n # k => n \in LongOnes(s, h)
    BY DEF FirstGone
\* The message that owns the place behind the first one.
<1>8. PICK f \in LongOnes(s, h): AtomOf(g, q, f) = a /\ len + 1 \in start[f] + 1 .. start[f] + Len(s[f])
    <2>1. len + 1 \in 1 .. Len(p[a])
        BY <1>4
    <2>2. PICK n \in LongOnes(s, g): AtomOf(g, q, n) = a /\ len + 1 \in start[n] + 1 .. start[n] + Len(s[n])
        <3>1. \A b \in Name: \A i \in 1 .. Len(p[b]):
                  \/ \E n \in LongOnes(s, g): AtomOf(g, q, n) = b /\ i \in start[n] + 1 .. start[n] + Len(s[n])
                  \/ i <= 0
            BY <1>1 DEF Tiled
        <3>2. a \in Name /\ len + 1 \in 1 .. Len(p[a]) /\ ~(len + 1 <= 0)
            BY <1>4, <2>1
        <3> HIDE DEF a, len
        <3>3. QED
            BY <3>1, <3>2
    <2>3. n # k
        BY <1>4, <1>5, <2>2
    <2>4. QED
        BY <1>7, <2>2, <2>3
<1>9. start[f] = len
    <2>1. start[k] + len <= start[f]
        BY <1>1, <1>3, <1>6, <1>8 DEF Placed
    <2>2. start[f] \in Nat /\ Len(s[f]) \in Nat
        BY <1>2, <1>6
    <2>3. QED
        BY <1>4, <1>5, <1>8, <2>1, <2>2
<1>10. IsFirst(s, h, f)
    <2>1. ASSUME NEW z \in LongOnes(s, h), ~(f <= z)
          PROVE  FALSE
        <3>1. k < z /\ z < f /\ z \in LongOnes(s, g)
            BY <1>2, <1>6, <2>1
        <3>2. QED
            BY <1>3, <1>6, <1>8, <3>1 DEF Adjacent
    <2>2. QED
        BY <2>1 DEF IsFirst
<1>11. ASSUME NEW n \in LongOnes(s, h), AtomOf(g, q, n) = a
       PROVE  n = f
    <2>1. n \in Nat /\ f \in Nat /\ f <= n
        BY <1>2, <1>6, <1>10 DEF IsFirst
    <2>2. ~(f < n)
        BY <1>3, <1>6, <1>8, <1>11 DEF Adjacent
    <2>3. QED
        BY <2>1, <2>2
<1> HIDE DEF a, len
<1>12. Len(p[a]) = len + Len(s[f])
    <2> DEFINE all == Len(p[a])
               end == len + Len(s[f])
    <2>1. end <= all /\ end \in Nat /\ all \in Nat /\ end >= len
        <3>1. start[f] + Len(s[f]) <= Len(p[a])
            BY <1>1, <1>6, <1>8 DEF Placed
        <3>2. Len(s[f]) \in Nat
            BY <1>2, <1>6
        <3>3. QED
            BY <1>4, <1>9, <3>1, <3>2
    <2> HIDE DEF all, end
    <2>2. SUFFICES ASSUME end # all
                   PROVE  FALSE
        BY DEF all, end
    <2>3. end + 1 \in 1 .. all
        BY <2>1, <2>2
    <2>4. PICK n \in LongOnes(s, g):
              AtomOf(g, q, n) = a /\ end + 1 \in start[n] + 1 .. start[n] + Len(s[n])
        BY <1>1, <1>4, <2>3 DEF Tiled, all
    <2>5. n # k
        <3>1. SUFFICES ASSUME n = k PROVE FALSE
            OBVIOUS
        <3>2. end + 1 \in 1 .. 0 + len
            BY <1>5, <2>4, <3>1 DEF len
        <3>3. QED
            BY <1>4, <2>1, <3>2
    <2>6. n = f
        BY <1>7, <1>11, <2>4, <2>5
    <2>7. end + 1 \in len + 1 .. end
        BY <1>9, <2>4, <2>6 DEF end
    <2>8. QED
        BY <1>4, <2>1, <2>7
<1> DEFINE next == [n \in LongOnes(s, h) |-> start[n]]
<1>13. next \in [LongOnes(s, h) -> Nat] /\ \A n \in LongOnes(s, h): next[n] = start[n]
    BY <1>2, <1>6
<1> HIDE DEF next
<1>14. Placed(s, h, r, p, next)
    BY <1>1, <1>6, <1>13 DEF Placed
<1>15. Tiled(s, h, r, p, len, next)
    <2>1. ASSUME NEW b \in Name, NEW i \in 1 .. Len(p[b])
          PROVE  \/ \E n \in LongOnes(s, h): AtomOf(h, r, n) = b /\ i \in next[n] + 1 .. next[n] + Len(s[n])
                 \/ i <= len /\ \E n \in LongOnes(s, h): IsFirst(s, h, n) /\ AtomOf(h, r, n) = b
        <3>1. PICK n \in LongOnes(s, g):
                  AtomOf(g, q, n) = b /\ i \in start[n] + 1 .. start[n] + Len(s[n])
            BY <1>1 DEF Tiled
        <3>2. CASE n = k
            <4>1. b = a /\ i \in 1 .. 0 + len
                BY <1>5, <3>1, <3>2 DEF a, len
            <4>2. i <= len
                BY <1>4, <2>1, <4>1
            <4>3. QED
                BY <1>6, <1>8, <1>10, <4>1, <4>2
        <3>3. CASE n # k
            BY <1>6, <1>7, <1>13, <3>1, <3>3
        <3>4. QED
            BY <3>2, <3>3
    <2>2. \E n \in LongOnes(s, h):
              IsFirst(s, h, n) /\ next[n] = len /\ Len(p[AtomOf(h, r, n)]) = len + Len(s[n])
        BY <1>6, <1>8, <1>9, <1>10, <1>12, <1>13
    <2>3. QED
        BY <2>1, <2>2 DEF Tiled
<1>16. Laid(s, h, r, p, len)
    BY <1>13, <1>14, <1>15 DEF Laid
<1>17. QED
    BY <1>6, <1>8, <1>10, <1>16 DEF PartLaid, a, len

---------------------------------------------------------------------------
(* The names of the properties.                                            *)

\* The numbers go round in MaxSequence + 2 steps: among MaxSequence + 1 in a
\* row only the last and the next first one have the same name.
LEMMA Numbers ==
    ASSUME NEW x \in 0 .. MaxSequence + 1, NEW b \in Nat, NEW e \in Nat,
           1 <= e, e < b, b <= MaxSequence + 1,
           NameOf(Number(x, b)) = NameOf(Number(x, e))
    PROVE  /\ Number(x, b) = MaxSequence + 1
           /\ Number(x, e) = 0
           /\ b = e + 1
BY TransportAssumption DEF NameOf, Number

\* The counter steps on, and all messages are one further behind.
LEMMA NextNumber ==
    ASSUME NEW x \in 0 .. MaxSequence + 1, NEW b \in Nat, b <= MaxSequence + 1,
           NEW y, y = IF x > MaxSequence THEN 0 ELSE x + 1
    PROVE  /\ y \in 0 .. MaxSequence + 1
           /\ Number(y, 1) = x
           /\ b >= 1 => Number(y, b + 1) = Number(x, b)
BY TransportAssumption DEF Number

\* A long message under way is one of those from it on, which are under way
\* too; those behind a later one are fewer.
LEMMA BehindFacts ==
    ASSUME NEW s \in Seq(Data), NEW g \in Seq(Data), NEW n \in LongOnes(s, g)
    PROVE  /\ IsFiniteSet(Behind(s, n))
           /\ Cardinality(Behind(s, n)) \in Nat
           /\ Cardinality(Behind(s, n)) >= 1
           /\ n \in Behind(s, n)
           /\ Behind(s, n) \subseteq LongOnes(s, g)
           /\ IsFiniteSet(LongOnes(s, g))
           /\ Cardinality(LongOnes(s, g)) \in Nat
           /\ Cardinality(Behind(s, n)) <= Cardinality(LongOnes(s, g))
<1>1. Len(s) \in Nat /\ Len(g) \in Nat /\ n \in Len(g) + 1 .. Len(s) /\ IsLong(s[n])
    BY DEF LongOnes, UnderWay
<1>2. n \in Behind(s, n) /\ Behind(s, n) \subseteq LongOnes(s, g)
    BY <1>1 DEF Behind, LongOnes, UnderWay
<1>3. IsFiniteSet(UnderWay(s, g))
    BY <1>1, FS_Interval DEF UnderWay
<1>4. LongOnes(s, g) \subseteq UnderWay(s, g)
    BY DEF LongOnes
<1>5. IsFiniteSet(LongOnes(s, g))
    BY <1>3, <1>4, FS_Subset
<1>6. /\ IsFiniteSet(Behind(s, n))
      /\ Cardinality(Behind(s, n)) <= Cardinality(LongOnes(s, g))
    BY <1>2, <1>5, FS_Subset
<1>7. Cardinality(Behind(s, n)) \in Nat /\ Cardinality(LongOnes(s, g)) \in Nat
    BY <1>5, <1>6, FS_CardinalityType
<1>8. Cardinality(Behind(s, n)) # 0
    BY <1>2, <1>6, FS_EmptySet
<1>9. QED
    BY <1>2, <1>5, <1>6, <1>7, <1>8

\* The later of two long messages under way has fewer behind it.
LEMMA BehindFewer ==
    ASSUME NEW s \in Seq(Data), NEW g \in Seq(Data),
           NEW n \in LongOnes(s, g), NEW k \in LongOnes(s, g), n < k
    PROVE  Cardinality(Behind(s, k)) < Cardinality(Behind(s, n))
<1>1. n \in Nat /\ k \in Nat
    BY DEF LongOnes, UnderWay
<1>2. Behind(s, k) \subseteq Behind(s, n) /\ n \notin Behind(s, k)
    BY <1>1 DEF Behind
<1>3. IsFiniteSet(Behind(s, n)) /\ n \in Behind(s, n)
    BY BehindFacts
<1>4. /\ Cardinality(Behind(s, k)) <= Cardinality(Behind(s, n))
      /\ Cardinality(Behind(s, k)) # Cardinality(Behind(s, n))
    BY <1>2, <1>3, FS_Subset
<1>5. QED
    BY <1>4, BehindFacts

\* Two long messages that await the server have the same name only when they
\* follow each other, and then at the turn of the numbers.
LEMMA NamesApart ==
    ASSUME NEW s \in Seq(Data), NEW g \in Seq(Data), NEW q, NEW o,
           NEW x \in 0 .. MaxSequence + 1, Named(s, g, q, x, o),
           NEW n \in LongOnes(s, g), NEW k \in LongOnes(s, g), n < k,
           AtomOf(g, q, n) = AtomOf(g, q, k)
    PROVE  /\ NumberOf(s, x, n) = MaxSequence + 1
           /\ NumberOf(s, x, k) = 0
           /\ \A z \in LongOnes(s, g): ~(n < z /\ z < k)
<1> DEFINE b == Cardinality(Behind(s, n))
           e == Cardinality(Behind(s, k))
<1>1. /\ b \in Nat /\ e \in Nat /\ 1 <= e
      /\ e < b
      /\ b <= MaxSequence + 1
    <2>1. b \in Nat /\ e \in Nat /\ 1 <= e /\ b <= Cardinality(LongOnes(s, g))
          /\ Cardinality(LongOnes(s, g)) \in Nat
        BY BehindFacts
    <2>2. e < b
        BY BehindFewer
    <2>3. Cardinality(LongOnes(s, g)) <= MaxSequence + 1
        BY DEF Named
    <2>4. QED
        BY <2>1, <2>2, <2>3, TransportAssumption
<1>2. NameOf(Number(x, b)) = NameOf(Number(x, e))
    BY DEF Named, NumberOf
<1>3. Number(x, b) = MaxSequence + 1 /\ Number(x, e) = 0 /\ b = e + 1
    BY <1>1, <1>2, Numbers
<1>4. \A z \in LongOnes(s, g): ~(n < z /\ z < k)
    <2>1. SUFFICES ASSUME NEW z \in LongOnes(s, g), n < z, z < k
                   PROVE  FALSE
        OBVIOUS
    <2>2. e < Cardinality(Behind(s, z)) /\ Cardinality(Behind(s, z)) < b
        BY <2>1, BehindFewer
    <2>3. Cardinality(Behind(s, z)) \in Nat
        BY BehindFacts
    <2>4. QED
        BY <1>1, <1>3, <2>2, <2>3
<1>5. QED
    BY <1>3, <1>4 DEF NumberOf

\* Those that were read take nothing from the others' numbers.
LEMMA NamedRead ==
    ASSUME NEW s \in Seq(Data), NEW g \in Seq(Data), NEW q, NEW x, NEW o, Named(s, g, q, x, o),
           NEW h, NEW r, NEW o2,
           LongOnes(s, h) \subseteq LongOnes(s, g),
           \A n \in LongOnes(s, h): AtomOf(h, r, n) = AtomOf(g, q, n),
           o2 # 0 => \A n \in LongOnes(s, h): IsFirst(s, h, n) => NumberOf(s, x, n) = 0
    PROVE  Named(s, h, r, x, o2)
<1>1. IsFiniteSet(LongOnes(s, g))
    <2>1. IsFiniteSet(UnderWay(s, g)) /\ LongOnes(s, g) \subseteq UnderWay(s, g)
        BY FS_Interval DEF UnderWay, LongOnes
    <2>2. QED
        BY <2>1, FS_Subset
<1>2. /\ Cardinality(LongOnes(s, h)) <= Cardinality(LongOnes(s, g))
      /\ Cardinality(LongOnes(s, h)) \in Nat
      /\ Cardinality(LongOnes(s, g)) \in Nat
    BY <1>1, FS_Subset, FS_CardinalityType
<1>3. Cardinality(LongOnes(s, g)) <= MaxSequence + 1
    BY DEF Named
<1>4. Cardinality(LongOnes(s, h)) <= MaxSequence + 1
    BY <1>2, <1>3, TransportAssumption
<1>5. \A n \in LongOnes(s, h): AtomOf(h, r, n) = NameOf(NumberOf(s, x, n))
    BY DEF Named
<1>6. QED
    BY <1>4, <1>5 DEF Named

\* A short message has no number.
LEMMA NamedShort ==
    ASSUME NEW s \in Seq(Data), NEW g \in Seq(Data), NEW q \in Seq(Event), NEW x, NEW o,
           Named(s, g, q, x, o), NEW d \in Data, ~IsLong(d), NEW ev,
           OneSent(s, g, q, d, ev)
    PROVE  Named(Append(s, d), g, Append(q, ev), x, o)
<1> DEFINE t == Append(s, d)
           r == Append(q, ev)
<1>1. /\ Len(t) = Len(s) + 1
      /\ t[Len(s) + 1] = d
      /\ \A n \in 1 .. Len(s): t[n] = s[n]
      /\ LongOnes(t, g) = LongOnes(s, g)
      /\ \A n \in LongOnes(s, g): AtomOf(g, r, n) = AtomOf(g, q, n)
    BY DEF OneSent
<1> HIDE DEF t, r
<1>2. \A n \in LongOnes(s, g): Behind(t, n) = Behind(s, n)
    <2>1. TAKE n \in LongOnes(s, g)
    <2>2. n \in 1 .. Len(s) /\ Len(s) \in Nat
        BY DEF LongOnes, UnderWay
    <2>3. n .. Len(t) = (n .. Len(s)) \cup {Len(s) + 1}
        <3>1. Len(t) = Len(s) + 1
            BY <1>1
        <3>2. QED
            BY <2>2, <3>1
    <2>4. \A k \in n .. Len(s): t[k] = s[k]
        <3>1. \A k \in n .. Len(s): k \in 1 .. Len(s)
            BY <2>2
        <3>2. QED
            BY <1>1, <3>1
    <2>5. QED
        BY <1>1, <2>3, <2>4 DEF Behind
<1>3. \A n \in LongOnes(s, g): IsFirst(t, g, n) <=> IsFirst(s, g, n)
    BY <1>1 DEF IsFirst
<1>4. Named(t, g, r, x, o)
    BY <1>1, <1>2, <1>3 DEF Named, NumberOf
<1>5. QED
    BY <1>4 DEF t, r

NextCount(x) == IF x > MaxSequence THEN 0 ELSE x + 1

\* A long message gets the next number, and its name is not that of the
\* property that was read in part: that one's number is 0.
LEMMA NamedLong ==
    ASSUME NEW s \in Seq(Data), NEW g \in Seq(Data), NEW q \in Seq(Event),
           NEW x \in 0 .. MaxSequence + 1, NEW o,
           Named(s, g, q, x, o), Cardinality(LongOnes(s, g)) <= MaxSequence,
           o # 0 => LongOnes(s, g) # {},
           NEW d \in Data, IsLong(d), NEW ev, ev.atom = NameOf(x),
           OneSent(s, g, q, d, ev)
    PROVE  /\ Named(Append(s, d), g, Append(q, ev), NextCount(x), o)
           /\ Avoids(s, g, q, o, ev.atom)
<1> DEFINE k == Len(s) + 1
           t == Append(s, d)
           r == Append(q, ev)
           y == NextCount(x)
<1>1. /\ t \in Seq(Data)
      /\ Len(t) = k
      /\ t[k] = d
      /\ \A n \in 1 .. Len(s): t[n] = s[n]
      /\ LongOnes(t, g) = LongOnes(s, g) \cup {k}
      /\ \A n \in LongOnes(s, g): n < k /\ AtomOf(g, r, n) = AtomOf(g, q, n)
      /\ AtomOf(g, r, k) = ev.atom
    BY DEF OneSent
<1>2. k \in Nat /\ k = Len(s) + 1 /\ Len(s) \in Nat
    OBVIOUS
<1> HIDE DEF t, r, k
<1>3. y \in 0 .. MaxSequence + 1
    BY NextNumber DEF NextCount
<1>4. k \notin LongOnes(s, g)
    BY <1>1, <1>2
<1>5. /\ IsFiniteSet(LongOnes(s, g))
      /\ Cardinality(LongOnes(s, g)) \in Nat
    <2>1. IsFiniteSet(UnderWay(s, g)) /\ LongOnes(s, g) \subseteq UnderWay(s, g)
        BY FS_Interval DEF UnderWay, LongOnes
    <2>2. QED
        BY <2>1, FS_Subset, FS_CardinalityType
<1>6. Cardinality(LongOnes(t, g)) <= MaxSequence + 1
    <2>1. Cardinality(LongOnes(t, g)) = Cardinality(LongOnes(s, g)) + 1
        BY <1>1, <1>4, <1>5, FS_AddElement
    <2>2. QED
        BY <1>5, <2>1, TransportAssumption
<1>7. Behind(t, k) = {k}
    <2>1. k .. Len(t) = {k}
        BY <1>1, <1>2
    <2>2. QED
        BY <1>1, <2>1 DEF Behind
<1>8. NumberOf(t, y, k) = x
    <2>1. Cardinality({k}) = 1
        BY FS_Singleton
    <2>2. Number(y, 1) = x
        <3>1. 1 <= MaxSequence + 1 /\ 1 \in Nat
            BY TransportAssumption
        <3>2. QED
            BY <3>1, NextNumber DEF NextCount
    <2>3. QED
        BY <1>7, <2>1, <2>2 DEF NumberOf
<1>9. ASSUME NEW n \in LongOnes(s, g)
      PROVE  NumberOf(t, y, n) = NumberOf(s, x, n)
    <2> DEFINE b == Cardinality(Behind(s, n))
    <2>1. n \in 1 .. Len(s)
        BY DEF LongOnes, UnderWay
    <2>2. n .. Len(t) = (n .. Len(s)) \cup {k}
        BY <1>1, <1>2, <2>1
    <2>3. \A i \in n .. Len(s): t[i] = s[i]
        BY <1>1, <2>1
    <2>4. Behind(t, n) = Behind(s, n) \cup {k}
        BY <1>1, <2>2, <2>3 DEF Behind
    <2>5. k \notin Behind(s, n)
        BY <1>2 DEF Behind
    <2>6. /\ IsFiniteSet(Behind(s, n)) /\ b \in Nat /\ b >= 1
          /\ b <= Cardinality(LongOnes(s, g))
        BY BehindFacts
    <2>7. Cardinality(Behind(t, n)) = b + 1
        BY <2>4, <2>5, <2>6, FS_AddElement
    <2>8. b <= MaxSequence + 1
        BY <1>5, <2>6, TransportAssumption
    <2>9. Number(y, b + 1) = Number(x, b)
        BY <2>6, <2>8, NextNumber DEF NextCount
    <2>10. QED
        BY <2>7, <2>9 DEF NumberOf
<1>10. \A n \in LongOnes(t, g): AtomOf(g, r, n) = NameOf(NumberOf(t, y, n))
    BY <1>1, <1>8, <1>9 DEF Named
\* The new message is not the first while a property was read in part.
<1>11. Named(t, g, r, y, 0)
    BY <1>6, <1>10 DEF Named
<1>12. Avoids(s, g, q, o, ev.atom)
    <2>1. SUFFICES ASSUME o # 0, NEW n \in LongOnes(s, g), IsFirst(s, g, n),
                          AtomOf(g, q, n) = ev.atom
                   PROVE  FALSE
        BY DEF Avoids
    <2>2. NumberOf(s, x, n) = 0
        BY <2>1 DEF Named
    <2>3. n < k /\ AtomOf(g, r, n) = AtomOf(g, r, k)
        BY <1>1, <2>1
    <2>4. NumberOf(t, y, n) = MaxSequence + 1
        BY <1>1, <1>3, <1>11, <2>3, NamesApart
    <2>5. QED
        BY <1>9, <2>2, <2>4, TransportAssumption
<1>13. ASSUME o # 0
       PROVE  \A n \in LongOnes(t, g): IsFirst(t, g, n) => NumberOf(t, y, n) = 0
    <2>1. TAKE n \in LongOnes(t, g)
    <2>2. HAVE IsFirst(t, g, n)
    <2>3. PICK z \in LongOnes(s, g): TRUE
        BY <1>13
    <2>4. n <= z /\ z < k /\ z \in Nat
        BY <1>1, <2>2, <2>3 DEF IsFirst, LongOnes, UnderWay
    <2>5. n # k
        BY <1>2, <2>4
    <2>6. n \in LongOnes(s, g) /\ IsFirst(s, g, n)
        BY <1>1, <2>2, <2>5 DEF IsFirst
    <2>7. QED
        BY <1>9, <1>13, <2>6 DEF Named
<1>14. QED
    BY <1>6, <1>10, <1>12, <1>13 DEF Named, t, r

---------------------------------------------------------------------------
(* One way of one connection among all the others.                         *)

LEMMA OneWay ==
    ASSUME NEW S, NEW f \in [Client -> [Way -> S]], NEW c \in Client, NEW w \in Way,
           NEW v \in S, NEW h, h = [f EXCEPT ![c][w] = v]
    PROVE  /\ h \in [Client -> [Way -> S]]
           /\ h[c][w] = v
           /\ \A w2 \in Way: w2 # w => h[c][w2] = f[c][w2]
           /\ \A c2 \in Client: c2 # c => h[c2] = f[c2]
<1>1. f[c] \in [Way -> S]
    OBVIOUS
<1> DEFINE k == [f[c] EXCEPT ![w] = v]
<1>2. k \in [Way -> S] /\ k[w] = v /\ \A w2 \in Way: w2 # w => k[w2] = f[c][w2]
    BY <1>1
<1>3. h = [f EXCEPT ![c] = k]
    OBVIOUS
<1> HIDE DEF k
<1>4. h[c] = k
    BY <1>3
<1>5. QED
    BY <1>2, <1>3, <1>4

\* What holds of a client holds as long as nothing of it changes.
LEMMA ClientSame ==
    ASSUME NEW c \in Client, ClientInv(c),
           link'[c] = link[c], peer'[c] = peer[c], conn'[c] = conn[c], queue'[c] = queue[c],
           prop'[c] = prop[c], sequence'[c] = sequence[c], sent'[c] = sent[c], got'[c] = got[c],
           (c \in overrun') <=> (c \in overrun)
    PROVE  ClientInv(c)'
<1>1. Standing(c)'
    BY DEF ClientInv, Standing, Quiet, IsOpen
<1>2. ASSUME Intact(c)
      PROVE  Intact(c)'
    <2>1. Met(c)'
        BY <1>2 DEF Intact, Met
    <2>2. Framed(c)'
        BY <1>2 DEF Intact, Framed
    <2>3. KnowsOrder(c)'
        BY <1>2 DEF Intact, KnowsOrder
    <2>4. UpInv(c)'
        BY <1>2 DEF Intact, UpInv
    <2>5. DownInv(c)'
        BY <1>2 DEF Intact, DownInv
    <2>6. QED
        BY <2>1, <2>2, <2>3, <2>4, <2>5 DEF Intact
<1>3. QED
    BY <1>1, <1>2 DEF ClientInv

\* The long messages on their way are no more than the events that say so.
LEMMA Awaited ==
    ASSUME NEW s \in Seq(Data), NEW g \in Seq(Data), NEW q \in Seq(Event), Carried(s, g, q)
    PROVE  Cardinality(LongOnes(s, g)) <= Cardinality({i \in DOMAIN q: q[i].format = 32})
<1> DEFINE O == {i \in DOMAIN q: q[i].format = 32}
           L == LongOnes(s, g)
           f == [n \in L |-> n - Len(g)]
<1>1. \A n \in L: n \in Nat /\ n - Len(g) \in DOMAIN q /\ q[n - Len(g)].format = 32
    BY DEF LongOnes, UnderWay, Carried, Announces
<1>2. f \in [L -> O]
    BY <1>1
<1>3. \A n, k \in DOMAIN f: f[n] = f[k] => n = k
    BY <1>1
<1>4. f \in Injection(L, O)
    BY <1>2, <1>3 DEF Injection, IsInjective
<1>5. IsFiniteSet(O)
    <2>1. DOMAIN q = 1 .. Len(q) /\ Len(q) \in Nat
        OBVIOUS
    <2>2. IsFiniteSet(1 .. Len(q))
        BY <2>1, FS_Interval
    <2>3. QED
        BY <2>1, <2>2, FS_Subset
<1> HIDE DEF f, O, L
<1>6. QED
    BY <1>4, <1>5, FS_Injection DEF O, L

---------------------------------------------------------------------------
(* Sending.                                                                *)

\* What Xi18nXSend and _XimXWrite do to the state.
SendsOne(p, c, w, d, ev) ==
    /\ sent' = [sent EXCEPT ![c][w] = Append(sent[c][w], d)]
    /\ queue' = [queue EXCEPT ![c][w] = Append(queue[c][w], ev)]
    /\ IF IsLong(d)
       THEN /\ ev.atom = NameOf(sequence[p])
            /\ sequence' = [sequence EXCEPT ![p] = NextCount(sequence[p])]
            /\ \E u \in [Name -> Seq(Unit)]:
                   Appends(prop[c][w], u, ev.atom, d) /\ prop' = [prop EXCEPT ![c][w] = u]
       ELSE UNCHANGED <<prop, sequence>>

\* What the types say of one way of one connection.
LEMMA LinkFacts ==
    ASSUME LinkType, NEW c \in Client, NEW w \in Way
    PROVE  /\ sent[c][w] \in Seq(Data) /\ got[c][w] \in Seq(Data)
           /\ queue[c][w] \in Seq(Event)
           /\ prop[c][w] \in [Name -> Seq(Unit)]
           /\ conn[c] \in [order: {"none", "?", "l"}, offset: Nat]
           /\ conn[c].offset \in Nat
           /\ sequence[c] \in 0 .. MaxSequence + 1
<1>1. sent[c][w] \in Seq(Data) /\ got[c][w] \in Seq(Data)
    BY DEF LinkType
<1>2. queue[c][w] \in Seq(Event) /\ prop[c][w] \in [Name -> Seq(Unit)]
    BY DEF LinkType
<1>3. conn[c] \in [order: {"none", "?", "l"}, offset: Nat]
    BY DEF LinkType
<1>4. conn[c].offset \in Nat
    BY <1>3
<1>5. sequence[c] \in 0 .. MaxSequence + 1
    BY DEF LinkType
<1>6. QED
    BY <1>1, <1>2, <1>3, <1>4, <1>5

\* What Xi18nXSend does to a link: one event that announces the packet, and its
\* units appended to the property of that name when it is long.
LEMMA Sending ==
    ASSUME LinkType, NEW c \in Client, NEW w \in Way, NEW p \in Server \cup Client,
           NEW m \in Message, Xi18nXSend(p, c, w, m)
    PROVE  \E ev \in Event: Announces(ev, Packet(m)) /\ SendsOne(p, c, w, Packet(m), ev)
<1> DEFINE d == Packet(m)
           a == NewName(p)
<1>1. /\ d \in Seq(Unit) /\ Len(d) = m.size
      /\ sequence[p] \in 0 .. MaxSequence + 1
      /\ prop[c][w] \in [Name -> Seq(Unit)]
    BY Packets DEF LinkType
<1>2. a = NameOf(sequence[p]) /\ a \in Name
    BY <1>1, TransportAssumption DEF NewName, NameOf, Name
<1>3. sent' = [sent EXCEPT ![c][w] = Append(sent[c][w], d)]
    BY DEF Xi18nXSend
<1>4. CASE m.size > Limit
    <2> DEFINE ev == [format |-> 32, length |-> m.size, atom |-> a]
               old == prop[c][w]
               u == [old EXCEPT ![a] = @ \o d]
    <2>1. ev \in Event /\ Announces(ev, d) /\ ev.atom = a
        BY <1>2, <1>4, Told
    <2>2. queue' = [queue EXCEPT ![c][w] = Append(queue[c][w], ev)]
        BY <1>4 DEF Xi18nXSend
    <2>3. sequence' = [sequence EXCEPT ![p] = NextCount(sequence[p])]
        BY <1>4 DEF Xi18nXSend, NextSequence, NextCount
    <2>4. u \in [Name -> Seq(Unit)]
        <3>1. old[a] \o d \in Seq(Unit)
            BY <1>1, <1>2
        <3>2. QED
            BY <1>1, <3>1
    <2>5. Appends(old, u, a, d)
        BY DEF Appends
    <2>6. prop' = [prop EXCEPT ![c][w] = u]
        BY <1>4 DEF Xi18nXSend, Property
    <2>7. IsLong(d)
        BY <1>1, <1>4 DEF IsLong
    <2> HIDE DEF u, ev
    <2>8. SendsOne(p, c, w, d, ev)
        BY <1>2, <1>3, <2>1, <2>2, <2>3, <2>4, <2>5, <2>6, <2>7 DEF SendsOne
    <2>9. QED
        BY <2>1, <2>8
<1>5. CASE ~(m.size > Limit)
    <2> DEFINE ev == [format |-> 8, data |-> d \o [j \in 1 .. Limit - m.size |-> Zero]]
    <2>1. ev \in Event /\ Announces(ev, d)
        BY <1>5, Padded
    <2>2. /\ queue' = [queue EXCEPT ![c][w] = Append(queue[c][w], ev)]
          /\ UNCHANGED <<prop, sequence>>
        BY <1>5 DEF Xi18nXSend
    <2>3. ~IsLong(d)
        BY <1>1, <1>5 DEF IsLong
    <2> HIDE DEF ev, d
    <2>4. SendsOne(p, c, w, d, ev)
        BY <1>3, <2>2, <2>3 DEF SendsOne
    <2>5. QED
        BY <2>1, <2>4 DEF d
<1>6. QED
    BY <1>4, <1>5

\* Of a function of clients and ways only one value changes.
OnlyAt(f, h, c, w) ==
    /\ \A w2 \in Way: w2 # w => h[c][w2] = f[c][w2]
    /\ \A c2 \in Client: c2 # c => h[c2] = f[c2]

\* One packet more is under way.
Posted(p, c, w, d, ev) ==
    /\ sent' \in [Client -> [Way -> Seq(Data)]]
    /\ queue' \in [Client -> [Way -> Seq(Event)]]
    /\ prop' \in [Client -> [Way -> [Name -> Seq(Unit)]]]
    /\ sequence' \in [Server \cup Client -> 0 .. MaxSequence + 1]
    /\ sent'[c][w] = Append(sent[c][w], d)
    /\ queue'[c][w] = Append(queue[c][w], ev)
    /\ OnlyAt(sent, sent', c, w)
    /\ OnlyAt(queue, queue', c, w)
    /\ OnlyAt(prop, prop', c, w)
    /\ sequence'[p] = IF IsLong(d) THEN NextCount(sequence[p]) ELSE sequence[p]
    /\ \A p2 \in Server \cup Client: p2 # p => sequence'[p2] = sequence[p2]

\* What was sent on one way is announced, and lies where it should.
OneMore(p, c, w, d, ev, o) ==
    /\ Posted(p, c, w, d, ev)
    /\ OneSent(sent[c][w], got[c][w], queue[c][w], d, ev)
    /\ Laid(sent'[c][w], got[c][w], queue'[c][w], prop'[c][w], o)

\* Sending changes one way of one connection, and the counter of the sender.
LEMMA Posting ==
    ASSUME LinkType, NEW c \in Client, NEW w \in Way, NEW p \in Server \cup Client,
           NEW d \in Data, NEW ev \in Event, Announces(ev, d), SendsOne(p, c, w, d, ev)
    PROVE  Posted(p, c, w, d, ev)
<1> DEFINE s == sent[c][w]
           q == queue[c][w]
<1>1. /\ s \in Seq(Data) /\ q \in Seq(Event)
      /\ prop[c][w] \in [Name -> Seq(Unit)]
      /\ sequence[p] \in 0 .. MaxSequence + 1
    BY DEF LinkType
<1>2. Append(s, d) \in Seq(Data) /\ Append(q, ev) \in Seq(Event)
    BY <1>1
<1>3. /\ sent' \in [Client -> [Way -> Seq(Data)]]
      /\ sent'[c][w] = Append(s, d)
      /\ OnlyAt(sent, sent', c, w)
    <2>1. /\ sent \in [Client -> [Way -> Seq(Data)]]
          /\ sent' = [sent EXCEPT ![c][w] = Append(s, d)]
        BY DEF LinkType, SendsOne
    <2>2. QED
        BY <1>2, <2>1, OneWay DEF OnlyAt
<1>4. /\ queue' \in [Client -> [Way -> Seq(Event)]]
      /\ queue'[c][w] = Append(q, ev)
      /\ OnlyAt(queue, queue', c, w)
    <2>1. /\ queue \in [Client -> [Way -> Seq(Event)]]
          /\ queue' = [queue EXCEPT ![c][w] = Append(q, ev)]
        BY DEF LinkType, SendsOne
    <2>2. QED
        BY <1>2, <2>1, OneWay DEF OnlyAt
<1>5. prop' \in [Client -> [Way -> [Name -> Seq(Unit)]]] /\ OnlyAt(prop, prop', c, w)
    <2>1. prop \in [Client -> [Way -> [Name -> Seq(Unit)]]]
        BY DEF LinkType
    <2>2. CASE IsLong(d)
        <3>1. PICK u \in [Name -> Seq(Unit)]: prop' = [prop EXCEPT ![c][w] = u]
            BY <2>2 DEF SendsOne
        <3>2. QED
            BY <2>1, <3>1, OneWay DEF OnlyAt
    <2>3. CASE ~IsLong(d)
        BY <2>1, <2>3 DEF SendsOne, OnlyAt
    <2>4. QED
        BY <2>2, <2>3
<1>6. /\ sequence' \in [Server \cup Client -> 0 .. MaxSequence + 1]
      /\ sequence'[p] = IF IsLong(d) THEN NextCount(sequence[p]) ELSE sequence[p]
      /\ \A p2 \in Server \cup Client: p2 # p => sequence'[p2] = sequence[p2]
    <2>1. NextCount(sequence[p]) \in 0 .. MaxSequence + 1
        BY <1>1, TransportAssumption DEF NextCount
    <2>2. QED
        BY <1>1, <2>1 DEF LinkType, SendsOne
<1>7. QED
    BY <1>3, <1>4, <1>5, <1>6 DEF Posted

\* Sending keeps the messages laid out where a reader will look for them.
LEMMA SentTo ==
    ASSUME LinkType, NEW c \in Client, NEW w \in Way, NEW p \in Server \cup Client,
           NEW d \in Data, NEW ev \in Event, Announces(ev, d), SendsOne(p, c, w, d, ev),
           NEW o \in Nat,
           Carried(sent[c][w], got[c][w], queue[c][w]),
           Laid(sent[c][w], got[c][w], queue[c][w], prop[c][w], o),
           IsLong(d) => Avoids(sent[c][w], got[c][w], queue[c][w], o, ev.atom)
    PROVE  OneMore(p, c, w, d, ev, o)
<1> DEFINE s == sent[c][w]
           g == got[c][w]
           q == queue[c][w]
<1>1. /\ s \in Seq(Data) /\ g \in Seq(Data) /\ q \in Seq(Event)
      /\ prop[c][w] \in [Name -> Seq(Unit)]
      /\ sequence[p] \in 0 .. MaxSequence + 1
    BY DEF LinkType
<1>2. OneSent(s, g, q, d, ev)
    BY <1>1, NextSent
<1>3. Posted(p, c, w, d, ev)
    BY Posting
<1>4. Laid(Append(s, d), g, Append(q, ev), prop'[c][w], o)
    <2>1. CASE IsLong(d)
        <3>1. PICK u \in [Name -> Seq(Unit)]:
                  Appends(prop[c][w], u, ev.atom, d) /\ prop' = [prop EXCEPT ![c][w] = u]
            BY <2>1 DEF SendsOne
        <3>2. prop \in [Client -> [Way -> [Name -> Seq(Unit)]]]
            BY DEF LinkType
        <3>3. prop'[c][w] = u
            BY <3>1, <3>2, OneWay
        <3>4. ev.atom \in Name
            BY <2>1, Formats
        <3>5. Laid(Append(s, d), g, Append(q, ev), u, o)
            BY <1>1, <2>1, <3>1, <3>4, LaidBehind
        <3>6. QED
            BY <3>3, <3>5
    <2>2. CASE ~IsLong(d)
        <3>1. prop' = prop
            BY <2>2 DEF SendsOne
        <3>2. /\ LongOnes(Append(s, d), g) = LongOnes(s, g)
              /\ \A n \in LongOnes(s, g):
                     Append(s, d)[n] = s[n] /\ AtomOf(g, Append(q, ev), n) = AtomOf(g, q, n)
            BY <1>2, <2>2 DEF OneSent
        <3>3. Laid(Append(s, d), g, Append(q, ev), prop[c][w], o)
            BY <3>2, SameLaid
        <3>4. QED
            BY <3>1, <3>3
    <2>3. QED
        BY <2>1, <2>2
<1>5. QED
    BY <1>2, <1>3, <1>4 DEF OneMore, Posted

---------------------------------------------------------------------------
(* The steps of the clients and the servers.                               *)

\* What each step is shown to do: the invariant holds on, and the channel
\* does one of its steps or none.
Kept ==
    /\ LinkType'
    /\ \A c \in Client: ClientInv(c)'
    /\ [Channel!Next]_Channel!vars

\* The channel sees a message of a client that has not overrun the names, on
\* either way, and nothing else changes for it.
LEMMA Seen ==
    ASSUME NEW C, NEW f \in [Client -> [Way -> Seq(Data)]], NEW c \in Client, c \notin C,
           NEW w \in Way, NEW v \in Seq(Data), NEW g, g = [f EXCEPT ![c][w] = v],
           NEW before, before = [c2 \in Client |-> IF c2 \in C THEN Silence ELSE f[c2]],
           NEW after, after = [c2 \in Client |-> IF c2 \in C THEN Silence ELSE g[c2]]
    PROVE  after = [before EXCEPT ![c][w] = v]
<1> DEFINE h == [f[c] EXCEPT ![w] = v]
<1>1. before[c] = f[c]
    OBVIOUS
<1>2. g = [f EXCEPT ![c] = h]
    OBVIOUS
<1> HIDE DEF h
<1>3. \A c2 \in Client: g[c2] = IF c2 = c THEN h ELSE f[c2]
    BY <1>2
<1>4. after = [before EXCEPT ![c] = h]
    BY <1>3
<1>5. QED
    BY <1>1, <1>4 DEF h

\* A client that is connected and has overrun the names, or does so now: to
\* the channel that is its end, or nothing at all.
LEMMA BeyondKept ==
    ASSUME TransportInv, NEW c \in Client, LinkType', c \in overrun', IsOpen(c), IsOpen(c)',
           peer' = peer,
           \A c2 \in Client: c2 # c =>
               /\ link'[c2] = link[c2] /\ conn'[c2] = conn[c2] /\ queue'[c2] = queue[c2]
               /\ prop'[c2] = prop[c2] /\ sequence'[c2] = sequence[c2]
               /\ sent'[c2] = sent[c2] /\ got'[c2] = got[c2]
               /\ (c2 \in overrun') <=> (c2 \in overrun)
    PROVE  Kept
<1>1. \A c2 \in Client: ClientInv(c2)
    BY DEF TransportInv
<1>2. ASSUME NEW c2 \in Client
      PROVE  ClientInv(c2)'
    <2>1. CASE c2 # c
        BY <1>1, <2>1, ClientSame
    <2>2. CASE c2 = c
        <3>1. link[c] # "none"
            BY DEF IsOpen
        <3>2. Standing(c)'
            BY <1>1, <3>1 DEF ClientInv, Standing
        <3>3. QED
            BY <2>2, <3>2 DEF ClientInv
    <2>3. QED
        BY <2>1, <2>2
<1>3. Channel!Close
    <2> DEFINE open == {c2 \in Client: link[c2] \in {"linked", "leaving"} /\ c2 \notin overrun}
               D == {c} \cap open
    <2>1. D \in SUBSET open
        OBVIOUS
    <2>2. open' = open \ D
        BY DEF IsOpen
    <2>3. Channel!Silence = Silence
        BY DEF Channel!Silence, Channel!Way, Silence, Way
    <2>4. \A c2 \in D: c2 = c
        OBVIOUS
    <2>5. c \notin D => c \in overrun
        BY DEF IsOpen
    <2> HIDE DEF D
    <2>6. ASSUME NEW f, NEW h, \A c2 \in Client: c2 # c => h[c2] = f[c2]
          PROVE  Until(overrun', h) =
                     [c2 \in Client |-> IF c2 \in D THEN Silence ELSE Until(overrun, f)[c2]]
        <3>1. ASSUME NEW c2 \in Client
              PROVE  (IF c2 \in overrun' THEN Silence ELSE h[c2])
                         = IF c2 \in D THEN Silence ELSE Until(overrun, f)[c2]
            <4>1. Until(overrun, f)[c2] = IF c2 \in overrun THEN Silence ELSE f[c2]
                BY DEF Until
            <4>2. CASE c2 = c
                BY <2>5, <4>1, <4>2
            <4>3. CASE c2 # c
                BY <2>4, <2>6, <4>1, <4>3
            <4>4. QED
                BY <4>2, <4>3
        <3>2. QED
            BY <3>1 DEF Until
    <2>7. Channel!Forgotten(D)
        <3>1. /\ Until(overrun', sent') =
                     [c2 \in Client |-> IF c2 \in D THEN Silence ELSE Until(overrun, sent)[c2]]
              /\ Until(overrun', got') =
                     [c2 \in Client |-> IF c2 \in D THEN Silence ELSE Until(overrun, got)[c2]]
            BY <2>6
        <3>2. QED
            BY <2>3, <3>1 DEF Channel!Forgotten, Until
    <2>8. QED
        BY <2>1, <2>2, <2>7 DEF Channel!Close
<1>4. QED
    BY <1>2, <1>3 DEF Kept, Channel!Next

\* A message of the server: the messages and the properties of the client,
\* and its offset, are not touched.
LEMMA ServerSendsKept ==
    ASSUME TransportInv, NEW c \in Client, ServerSends(c)
    PROVE  Kept
<1>1. LinkType /\ ClientInv(c) /\ \A c2 \in Client: ClientInv(c2)
    BY DEF TransportInv
<1>2. conn[c] # NoConn /\ IsOpen(c) /\ peer[c] \in Server
    <2>1. IsOpen(c) => link[c] # "none"
        BY DEF IsOpen
    <2>2. QED
        BY <1>1, <2>1 DEF ServerSends, ClientInv, Standing
<1>3. PICK m \in Message: Xi18nXSend(peer[c], c, "down", m)
    <2> DEFINE n == Len(sent[c]["down"]) + 1
    <2>1. PICK z \in Size: Xi18nXSend(peer[c], c, "down", [op |-> "OTHER", n |-> n, size |-> z])
        BY DEF ServerSends
    <2>2. Len(sent[c]["down"]) < plan.down /\ Len(sent[c]["down"]) \in Nat
        BY <1>1 DEF ServerSends, LinkType, Way
    <2>3. plan.down \in Nat /\ plan.down <= MaxMessages /\ MaxMessages \in Int
        BY TransportAssumption DEF TransportInv, StartInv, StartType
    <2>4. n \in 1 .. MaxMessages
        BY <2>2, <2>3
    <2> HIDE DEF n
    <2>5. [op |-> "OTHER", n |-> n, size |-> z] \in Message
        BY <2>4 DEF Message, Op
    <2>6. QED
        BY <2>1, <2>5
<1> DEFINE d == Packet(m)
<1>4. "down" \in Way /\ peer[c] \in Server \cup Client /\ d \in Data
    BY <1>2, Packets DEF Way
<1>5. PICK ev \in Event: Announces(ev, d) /\ SendsOne(peer[c], c, "down", d, ev)
    BY <1>1, <1>3, <1>4, Sending
<1> HIDE DEF d
<1>6. Posted(peer[c], c, "down", d, ev)
    BY <1>1, <1>4, <1>5, Posting
<1>7. UNCHANGED <<startVars, link, peer, conn, got, overrun>>
    BY DEF ServerSends
<1>8. LinkType'
    BY <1>1, <1>6, <1>7 DEF LinkType, Posted
<1>9. c # peer[c] /\ \A c2 \in Client: c2 # peer[c] /\ sequence'[c2] = sequence[c2]
    BY <1>2, <1>6, TransportAssumption DEF Posted
<1>10. \A c2 \in Client: c2 # c =>
           sent'[c2] = sent[c2] /\ queue'[c2] = queue[c2] /\ prop'[c2] = prop[c2]
    BY <1>6 DEF Posted, OnlyAt
<1>11. CASE c \in overrun
    BY <1>2, <1>7, <1>8, <1>9, <1>10, <1>11, BeyondKept DEF IsOpen
<1>12. CASE c \notin overrun
    <2>1. Intact(c)
        BY <1>1, <1>12 DEF ClientInv
    <2>2. OneMore(peer[c], c, "down", d, ev, 0)
        <3>1. Avoids(sent[c]["down"], got[c]["down"], queue[c]["down"], 0, ev.atom)
            BY DEF Avoids
        <3>2. DownInv(c)
            BY <2>1 DEF Intact
        <3>3. QED
            BY <1>1, <1>4, <1>5, <3>1, <3>2, SentTo DEF DownInv
    <2>3. ASSUME NEW c2 \in Client
          PROVE  ClientInv(c2)'
        <3>1. CASE c2 # c
            BY <1>1, <1>7, <1>9, <1>10, <3>1, ClientSame
        <3>2. CASE c2 = c
            <4>1. /\ sent'[c]["up"] = sent[c]["up"] /\ queue'[c]["up"] = queue[c]["up"]
                  /\ prop'[c]["up"] = prop[c]["up"]
                BY <1>6 DEF Posted, OnlyAt, Way
            <4>2. Met(c)'
                BY <2>1, <1>7 DEF Intact, Met
            <4>3. Framed(c)'
                BY <2>1, <1>7, <4>1 DEF Intact, Framed
            <4>4. KnowsOrder(c)'
                BY <2>1, <1>7 DEF Intact, KnowsOrder
            <4>5. UpInv(c)'
                BY <2>1, <1>7, <1>9, <4>1 DEF Intact, UpInv
            <4>6. DownInv(c)'
                BY <2>2, <1>6, <1>7 DEF OneMore, Posted, OneSent, DownInv
            <4>7. Standing(c)'
                BY <1>1, <1>2, <1>7 DEF ClientInv, Standing, IsOpen
            <4>8. QED
                BY <3>2, <4>2, <4>3, <4>4, <4>5, <4>6, <4>7 DEF ClientInv, Intact
        <3>3. QED
            BY <3>1, <3>2
    <2>4. Channel!Send(c, "down")
        <3>1. sent' = [sent EXCEPT ![c]["down"] = Append(sent[c]["down"], d)]
            BY <1>5 DEF SendsOne
        <3>2. d \in {Packet(m2): m2 \in Message}
            BY <1>4 DEF Data
        <3>3. sent \in [Client -> [Way -> Seq(Data)]]
            BY <1>1 DEF LinkType
        <3>4. /\ Until(overrun, sent') =
                     [Until(overrun, sent) EXCEPT ![c]["down"] = Append(sent[c]["down"], d)]
              /\ Until(overrun, sent)[c] = sent[c]
            <4>1. Until(overrun, sent)[c] = sent[c]
                BY <1>12 DEF Until
            <4> DEFINE v == Append(sent[c]["down"], d)
            <4>2. sent' = [sent EXCEPT ![c]["down"] = v] /\ v \in Seq(Data)
                BY <1>1, <1>2, <1>4, <3>1 DEF LinkType, Way
            <4> HIDE DEF v
            <4> DEFINE before == Until(overrun, sent)
                       after == Until(overrun, sent')
            <4>3. after = [before EXCEPT ![c]["down"] = v]
                <5>1. /\ before = [c2 \in Client |-> IF c2 \in overrun THEN Silence ELSE sent[c2]]
                      /\ after = [c2 \in Client |-> IF c2 \in overrun THEN Silence ELSE sent'[c2]]
                    BY DEF Until
                <5> HIDE DEF before, after
                <5>2. QED
                    BY <1>4, <1>12, <3>3, <4>2, Seen, <5>1
            <4>4. QED
                BY <4>1, <4>3 DEF v
        <3>5. Until(overrun, sent)' = Until(overrun, sent') /\ Until(overrun, got)' = Until(overrun, got)
            BY <1>7 DEF Until
        <3>6. QED
            BY <1>2, <1>7, <1>12, <3>2, <3>4, <3>5 DEF Channel!Send, IsOpen
    <2>5. Channel!Next
        BY <2>4 DEF Channel!Next, Channel!Way
    <2>6. QED
        BY <1>8, <2>3, <2>5 DEF Kept
<1>13. QED
    BY <1>11, <1>12

\* A message of a client, also the last one.
LEMMA ClientSendsKept ==
    ASSUME TransportInv, NEW c \in Client, ClientSends(c)
    PROVE  Kept
<1>1. LinkType /\ ClientInv(c) /\ \A c2 \in Client: ClientInv(c2)
    BY DEF TransportInv
<1> DEFINE s == sent[c]["up"]
           g == got[c]["up"]
           q == queue[c]["up"]
           k == Len(s) + 1
           o == conn[c].offset
<1>2. /\ link[c] = "linked"
      /\ s \in Seq(Data) /\ g \in Seq(Data) /\ q \in Seq(Event)
      /\ sequence[c] \in 0 .. MaxSequence + 1
      /\ o \in Nat
      /\ "up" \in Way
    BY <1>1 DEF ClientSends, LinkType, Way
<1>3. PICK m \in Message:
          /\ Xi18nXSend(c, c, "up", m)
          /\ (k = 1) = (m.op = "CONNECT")
          /\ m.op # "OTHER" => m.size <= Limit
          /\ overrun' = IF Overruns(c, m.size) THEN overrun \cup {c} ELSE overrun
          /\ link' = [link EXCEPT ![c] = IF m.op = "DISCONNECT" THEN "leaving" ELSE @]
    <2> DEFINE msg(op, z) == [op |-> op, n |-> k, size |-> z]
    <2>1. PICK op \in Op, z \in Size:
              /\ k <= plan.up
              /\ (k = 1) = (op = "CONNECT")
              /\ op # "OTHER" => z <= Limit
              /\ overrun' = IF Overruns(c, z) THEN overrun \cup {c} ELSE overrun
              /\ Xi18nXSend(c, c, "up", msg(op, z))
              /\ link' = [link EXCEPT ![c] = IF op = "DISCONNECT" THEN "leaving" ELSE @]
        BY DEF ClientSends
    <2>2. Len(s) \in Nat /\ plan.up \in Nat /\ plan.up <= MaxMessages /\ MaxMessages \in Nat
        BY <1>2, TransportAssumption DEF TransportInv, StartInv, StartType
    <2>3. k \in 1 .. MaxMessages
        BY <2>1, <2>2
    <2> HIDE DEF k
    <2>4. msg(op, z) \in Message /\ msg(op, z).op = op /\ msg(op, z).size = z
        BY <2>3 DEF Message
    <2> HIDE DEF msg
    <2>5. QED
        BY <2>1, <2>4
<1> DEFINE d == Packet(m)
<1>4. /\ d \in Data
      /\ OpOf(d) = m.op
      /\ IsLong(d) <=> m.size > Limit
      /\ m.op # "OTHER" => ~IsLong(d)
    BY <1>3, Packets, TransportAssumption DEF OpOf, IsLong
<1>5. PICK ev \in Event: Announces(ev, d) /\ SendsOne(c, c, "up", d, ev)
    BY <1>1, <1>2, <1>3, <1>4, Sending
<1> HIDE DEF d
<1>6. Posted(c, c, "up", d, ev)
    BY <1>1, <1>2, <1>4, <1>5, Posting
<1>7. UNCHANGED <<startVars, peer, conn, got>>
    BY DEF ClientSends
<1>8. /\ link'[c] \in {"linked", "leaving"}
      /\ link' \in [Client -> {"none", "asking", "dialling", "linked", "leaving"}]
      /\ \A c2 \in Client: c2 # c => link'[c2] = link[c2]
    BY <1>1, <1>2, <1>3 DEF LinkType
<1>9. LinkType'
    BY <1>1, <1>3, <1>6, <1>7, <1>8 DEF LinkType, Posted
<1>10. \A c2 \in Client: c2 # c =>
          /\ sent'[c2] = sent[c2] /\ queue'[c2] = queue[c2] /\ prop'[c2] = prop[c2]
          /\ sequence'[c2] = sequence[c2]
    BY <1>6 DEF Posted, OnlyAt
<1>11. CASE c \in overrun'
    <2>1. IsOpen(c) /\ IsOpen(c)'
        BY <1>2, <1>8 DEF IsOpen
    <2>2. \A c2 \in Client: c2 # c => ((c2 \in overrun') <=> (c2 \in overrun))
        BY <1>3
    <2>3. QED
        BY <1>7, <1>8, <1>9, <1>10, <1>11, <2>1, <2>2, BeyondKept
<1>12. ASSUME c \notin overrun'
       PROVE  c \notin overrun /\ overrun' = overrun /\ ~Overruns(c, m.size)
    BY <1>3, <1>12
<1>13. CASE c \notin overrun'
    <2>1. Intact(c) /\ conn[c] # NoConn
        BY <1>1, <1>2, <1>12, <1>13 DEF ClientInv, Intact, Met
    <2>2. UpInv(c)
        BY <2>1 DEF Intact
    <2>3. ASSUME IsLong(d)
          PROVE  /\ Named(Append(s, d), g, Append(q, ev), NextCount(sequence[c]), o)
                 /\ Avoids(s, g, q, o, ev.atom)
        <3>1. Cardinality(LongOnes(s, g)) <= MaxSequence
            <4>1. Cardinality(LongOnes(s, g)) <= Cardinality(Outstanding(c))
                BY <1>2, <2>2, Awaited DEF UpInv, Outstanding
            <4>2. ~(Cardinality(Outstanding(c)) > MaxSequence)
                BY <1>4, <1>12, <1>13, <2>3 DEF Overruns
            <4>3. Cardinality(LongOnes(s, g)) \in Nat /\ Cardinality(Outstanding(c)) \in Nat
                <5>1. IsFiniteSet(UnderWay(s, g)) /\ LongOnes(s, g) \subseteq UnderWay(s, g)
                    <6>1. Len(g) + 1 \in Int /\ Len(s) \in Int
                        BY <1>2
                    <6>2. IsFiniteSet(Len(g) + 1 .. Len(s))
                        BY <6>1, FS_Interval
                    <6>3. QED
                        BY <6>2 DEF UnderWay, LongOnes
                <5>2. IsFiniteSet(1 .. Len(q)) /\ Outstanding(c) \subseteq 1 .. Len(q)
                    <6>1. Len(q) \in Int /\ DOMAIN q = 1 .. Len(q)
                        BY <1>2
                    <6>2. Outstanding(c) \subseteq 1 .. Len(q)
                        BY <6>1 DEF Outstanding
                    <6>3. IsFiniteSet(1 .. Len(q))
                        BY <6>1, FS_Interval
                    <6>4. QED
                        BY <6>2, <6>3
                <5>3. QED
                    BY <5>1, <5>2, FS_Subset, FS_CardinalityType
            <4>4. QED
                BY <4>1, <4>2, <4>3, TransportAssumption
        <3>2. o # 0 => LongOnes(s, g) # {}
            BY <2>2 DEF UpInv, Laid, Tiled
        <3>3. Named(s, g, q, sequence[c], o)
            BY <2>2 DEF UpInv
        <3>4. ev.atom = NameOf(sequence[c])
            BY <1>5, <2>3 DEF SendsOne
        <3>5. OneSent(s, g, q, d, ev)
            BY <1>2, <1>4, <1>5, <2>2, NextSent DEF UpInv
        <3>6. QED
            BY <1>2, <1>4, <2>3, <3>1, <3>2, <3>3, <3>4, <3>5, NamedLong
    <2>4. OneMore(c, c, "up", d, ev, o)
        BY <1>1, <1>2, <1>4, <1>5, <2>2, <2>3, SentTo DEF UpInv
    <2>5. ASSUME NEW c2 \in Client
          PROVE  ClientInv(c2)'
        <3>1. CASE c2 # c
            BY <1>1, <1>7, <1>8, <1>10, <1>12, <1>13, <3>1, ClientSame
        <3>2. CASE c2 = c
            <4>1. /\ sent'[c]["down"] = sent[c]["down"] /\ queue'[c]["down"] = queue[c]["down"]
                  /\ prop'[c]["down"] = prop[c]["down"]
                BY <1>6 DEF Posted, OnlyAt, Way
            <4>2. Met(c)' /\ Standing(c)'
                BY <1>1, <1>2, <1>7, <1>8, <2>1 DEF Intact, Met, IsOpen, ClientInv, Standing
            <4>3. Framed(c)'
                <5>1. /\ sent'[c]["up"] = Append(s, d)
                      /\ DOMAIN sent'[c]["up"] = 1 .. k
                      /\ sent'[c]["up"][k] = d
                      /\ Len(sent'[c]["up"]) = k
                      /\ \A n \in 1 .. Len(s): sent'[c]["up"][n] = s[n]
                    <6>1. sent'[c]["up"] = Append(s, d)
                        BY <1>6 DEF Posted
                    <6>2. QED
                        BY <1>2, <1>4, <6>1
                <5>2. \A n \in 1 .. k: n = k \/ n \in 1 .. Len(s)
                    BY <1>2
                <5>3. \A n \in 1 .. Len(s): OpOf(s[n]) # "DISCONNECT"
                    BY <1>2, <2>1 DEF Intact, Framed
                <5>4. m.op = "DISCONNECT" => link'[c] = "leaving"
                    BY <1>1, <1>3 DEF LinkType
                <5>5. k = 1 => m.op = "CONNECT"
                    BY <1>3
                <5>6. \A n \in 1 .. Len(s): (n = 1 => OpOf(s[n]) = "CONNECT") /\ (OpOf(s[n]) # "OTHER" => ~IsLong(s[n]))
                    BY <1>2, <2>1 DEF Intact, Framed
                <5> HIDE DEF k, s
                <5>7. QED
                    BY <1>4, <5>1, <5>2, <5>3, <5>4, <5>5, <5>6 DEF Framed
            <4>4. KnowsOrder(c)'
                BY <1>7, <2>1 DEF Intact, KnowsOrder
            <4>5. UpInv(c)'
                <5>1. /\ sent'[c]["up"] = Append(s, d)
                      /\ queue'[c]["up"] = Append(q, ev)
                      /\ got'[c]["up"] = g
                      /\ conn'[c].offset = o
                    BY <1>6, <1>7 DEF Posted
                <5>2. Carried(Append(s, d), g, Append(q, ev))
                    BY <2>4 DEF OneMore, OneSent
                <5>3. Laid(Append(s, d), g, Append(q, ev), prop'[c]["up"], o)
                    BY <2>4, <5>1 DEF OneMore
                <5>4. Named(Append(s, d), g, Append(q, ev), sequence'[c], o)
                    <6>1. CASE IsLong(d)
                        BY <1>6, <2>3, <6>1 DEF Posted
                    <6>2. CASE ~IsLong(d)
                        <7>1. sequence'[c] = sequence[c] /\ OneSent(s, g, q, d, ev)
                            BY <1>6, <2>4, <6>2 DEF OneMore, Posted
                        <7>2. Named(s, g, q, sequence[c], o)
                            BY <2>2 DEF UpInv
                        <7>3. QED
                            BY <1>2, <1>4, <6>2, <7>1, <7>2, NamedShort
                    <6>3. QED
                        BY <6>1, <6>2
                <5> HIDE DEF s, g, q, o
                <5>5. QED
                    BY <5>1, <5>2, <5>3, <5>4 DEF UpInv
            <4>6. DownInv(c)'
                BY <1>7, <2>1, <4>1 DEF Intact, DownInv
            <4>7. QED
                BY <3>2, <4>2, <4>3, <4>4, <4>5, <4>6 DEF ClientInv, Intact
        <3>3. QED
            BY <3>1, <3>2
    <2>6. Channel!Send(c, "up")
        <3> DEFINE open == {c2 \in Client: link[c2] \in {"linked", "leaving"} /\ c2 \notin overrun}
        <3>1. sent' = [sent EXCEPT ![c]["up"] = Append(sent[c]["up"], d)]
            BY <1>5 DEF SendsOne
        <3>2. d \in {Packet(m2): m2 \in Message}
            BY <1>4 DEF Data
        <3>3. open' = open /\ c \in open
            BY <1>2, <1>8, <1>12, <1>13
        <3>4. sent \in [Client -> [Way -> Seq(Data)]]
            BY <1>1 DEF LinkType
        <3>5. /\ Until(overrun, sent') =
                     [Until(overrun, sent) EXCEPT ![c]["up"] = Append(sent[c]["up"], d)]
              /\ Until(overrun, sent)[c] = sent[c]
            <4>1. Until(overrun, sent)[c] = sent[c]
                BY <1>12, <1>13 DEF Until
            <4> DEFINE v == Append(sent[c]["up"], d)
            <4>2. sent' = [sent EXCEPT ![c]["up"] = v] /\ v \in Seq(Data)
                BY <1>1, <1>2, <1>4, <3>1 DEF LinkType, Way
            <4> HIDE DEF v
            <4> DEFINE before == Until(overrun, sent)
                       after == Until(overrun, sent')
            <4>3. after = [before EXCEPT ![c]["up"] = v]
                <5>1. /\ before = [c2 \in Client |-> IF c2 \in overrun THEN Silence ELSE sent[c2]]
                      /\ after = [c2 \in Client |-> IF c2 \in overrun THEN Silence ELSE sent'[c2]]
                    BY DEF Until
                <5> HIDE DEF before, after
                <5>2. QED
                    BY <1>2, <1>12, <1>13, <3>4, <4>2, Seen, <5>1
            <4>4. QED
                BY <4>1, <4>3 DEF v
        <3>6. Until(overrun, sent)' = Until(overrun, sent') /\ Until(overrun, got)' = Until(overrun, got)
            BY <1>7, <1>12, <1>13 DEF Until
        <3>7. QED
            BY <3>2, <3>3, <3>5, <3>6 DEF Channel!Send
    <2>7. Channel!Next
        BY <2>6 DEF Channel!Next, Channel!Way
    <2>8. QED
        BY <1>9, <2>5, <2>7 DEF Kept
<1>14. QED
    BY <1>11, <1>13

---------------------------------------------------------------------------
(* Receiving.                                                              *)

\* A reader takes the next message; u is what it leaves of the properties.
ReadsOne(c, w, u) ==
    /\ got' = [got EXCEPT ![c][w] = Append(got[c][w], sent[c][w][Len(got[c][w]) + 1])]
    /\ queue' = [queue EXCEPT ![c][w] = Tail(queue[c][w])]
    /\ prop' = [prop EXCEPT ![c][w] = u]

OneLess(c, w, u) ==
    /\ got' \in [Client -> [Way -> Seq(Data)]]
    /\ queue' \in [Client -> [Way -> Seq(Event)]]
    /\ prop' \in [Client -> [Way -> [Name -> Seq(Unit)]]]
    /\ got'[c][w] = Append(got[c][w], sent[c][w][Len(got[c][w]) + 1])
    /\ queue'[c][w] = Tail(queue[c][w])
    /\ prop'[c][w] = u
    /\ OnlyAt(got, got', c, w)
    /\ OnlyAt(queue, queue', c, w)
    /\ OnlyAt(prop, prop', c, w)
    /\ Len(got[c][w]) < Len(sent[c][w])

\* Taking the event of the first message delivers it whole and leaves the rest
\* laid out.
LEMMA ReadFrom ==
    ASSUME LinkType, NEW c \in Client, NEW w \in Way,
           OneRead(sent[c][w], got[c][w], queue[c][w]),
           NEW u \in [Name -> Seq(Unit)], ReadsOne(c, w, u)
    PROVE  OneLess(c, w, u)
<1> DEFINE s == sent[c][w]
           g == got[c][w]
           h == Append(g, s[Len(g) + 1])
           r == Tail(queue[c][w])
<1>1. h \in Seq(Data) /\ r \in Seq(Event) /\ Len(g) + 1 \in 1 .. Len(s)
    BY DEF OneRead
<1>2. /\ got \in [Client -> [Way -> Seq(Data)]]
      /\ queue \in [Client -> [Way -> Seq(Event)]]
      /\ prop \in [Client -> [Way -> [Name -> Seq(Unit)]]]
      /\ Len(g) \in Nat /\ Len(s) \in Nat
    BY DEF LinkType
<1>3. /\ got' = [got EXCEPT ![c][w] = h]
      /\ queue' = [queue EXCEPT ![c][w] = r]
      /\ prop' = [prop EXCEPT ![c][w] = u]
    BY DEF ReadsOne
<1> HIDE DEF h, r
<1>4. /\ got' \in [Client -> [Way -> Seq(Data)]]
      /\ got'[c][w] = h
      /\ OnlyAt(got, got', c, w)
    BY <1>1, <1>2, <1>3, OneWay DEF OnlyAt
<1>5. /\ queue' \in [Client -> [Way -> Seq(Event)]]
      /\ queue'[c][w] = r
      /\ OnlyAt(queue, queue', c, w)
    BY <1>1, <1>2, <1>3, OneWay DEF OnlyAt
<1>6. /\ prop' \in [Client -> [Way -> [Name -> Seq(Unit)]]]
      /\ prop'[c][w] = u
      /\ OnlyAt(prop, prop', c, w)
    BY <1>2, <1>3, OneWay DEF OnlyAt
<1>7. Len(g) < Len(s)
    BY <1>1, <1>2
<1>8. QED
    BY <1>4, <1>5, <1>6, <1>7 DEF OneLess, h, r

\* To the channel that is the delivery of the message.
LEMMA Delivered ==
    ASSUME LinkType, NEW c \in Client, NEW w \in Way, NEW u, ReadsOne(c, w, u), OneLess(c, w, u),
           c \notin overrun, UNCHANGED <<link, sent, overrun>>
    PROVE  Channel!Next
<1> DEFINE d == sent[c][w][Len(got[c][w]) + 1]
<1>1. got \in [Client -> [Way -> Seq(Data)]] /\ sent \in [Client -> [Way -> Seq(Data)]]
    BY DEF LinkType
<1>2. got' = [got EXCEPT ![c][w] = Append(got[c][w], d)] /\ Len(got[c][w]) < Len(sent[c][w])
    BY DEF ReadsOne, OneLess
<1> HIDE DEF d
<1>3. /\ Until(overrun, got') = [Until(overrun, got) EXCEPT ![c][w] = Append(got[c][w], d)]
      /\ Until(overrun, got)[c] = got[c]
      /\ Until(overrun, sent)[c] = sent[c]
    <2>1. Until(overrun, got)[c] = got[c] /\ Until(overrun, sent)[c] = sent[c]
        BY DEF Until
    <2> DEFINE v == Append(got[c][w], d)
    <2>2. got' = [got EXCEPT ![c][w] = v] /\ v \in Seq(Data)
        BY <1>1, <1>2 DEF OneLess, d
    <2> HIDE DEF v
    <2> DEFINE before == Until(overrun, got)
               after == Until(overrun, got')
    <2>3. after = [before EXCEPT ![c][w] = v]
        <3>1. /\ before = [c2 \in Client |-> IF c2 \in overrun THEN Silence ELSE got[c2]]
              /\ after = [c2 \in Client |-> IF c2 \in overrun THEN Silence ELSE got'[c2]]
            BY DEF Until
        <3> HIDE DEF before, after
        <3>2. QED
            BY <1>1, <2>2, Seen, <3>1
    <2>4. QED
        BY <2>1, <2>3 DEF v
<1>4. Until(overrun, got)' = Until(overrun, got') /\ Until(overrun, sent)' = Until(overrun, sent)
    BY DEF Until
<1>5. Channel!Deliver(c, w)
    BY <1>2, <1>3, <1>4 DEF Channel!Deliver, d
<1>6. QED
    BY <1>5 DEF Channel!Next, Channel!Way, Way

\* When the next message is short, the properties stay as they are.
LEMMA ShortRead ==
    ASSUME LinkType, NEW c \in Client, NEW w \in Way, NEW o \in Nat,
           OneRead(sent[c][w], got[c][w], queue[c][w]),
           Laid(sent[c][w], got[c][w], queue[c][w], prop[c][w], o),
           ~IsLong(sent[c][w][Len(got[c][w]) + 1])
    PROVE  LET s == sent[c][w]
               g == got[c][w]
               h == Append(g, s[Len(g) + 1])
               r == Tail(queue[c][w])
           IN  /\ LongOnes(s, h) = LongOnes(s, g)
               /\ \A n \in LongOnes(s, h): AtomOf(h, r, n) = AtomOf(g, queue[c][w], n)
               /\ Laid(s, h, r, prop[c][w], o)
<1> DEFINE s == sent[c][w]
           g == got[c][w]
           q == queue[c][w]
           h == Append(g, s[Len(g) + 1])
           r == Tail(queue[c][w])
<1>1. LongOnes(s, h) = LongOnes(s, g)
    BY DEF OneRead, LongOnes
<1>2. \A n \in LongOnes(s, h): AtomOf(h, r, n) = AtomOf(g, q, n)
    BY DEF OneRead
<1> HIDE DEF s, g, q, h, r
<1>3. Laid(s, g, q, prop[c][w], o)
    BY DEF s, g, q
<1>4. Laid(s, h, r, prop[c][w], o)
    BY <1>1, <1>2, <1>3, SameLaid
<1>5. QED
    BY <1>1, <1>2, <1>4 DEF s, g, q, h, r

\* Xlib finds the whole of a long message at the start of its property.
LongNext(s, g, q, p, u) ==
    LET d == s[Len(g) + 1] IN
    IsLong(d) /\ TakenOff(p, u, Head(q).atom, Len(d))

LongRead(s, g, q, p, u) ==
    LET d == s[Len(g) + 1] IN
    /\ Head(q).length = Len(d)
    /\ Read(p[Head(q).atom], 0, Len(d)) = d
    /\ u \in [Name -> Seq(Unit)]
    /\ Laid(s, Append(g, d), Tail(q), u, 0)

\* A client that reads a long message from its property gets the whole message.
LEMMA LongTaken ==
    ASSUME NEW s \in Seq(Data), NEW g \in Seq(Data), NEW q \in Seq(Event),
           NEW p \in [Name -> Seq(Unit)], Carried(s, g, q), Laid(s, g, q, p, 0),
           OneRead(s, g, q), NEW u, LongNext(s, g, q, p, u)
    PROVE  LongRead(s, g, q, p, u)
<1> DEFINE k == Len(g) + 1
           a == Head(q).atom
           d == s[k]
           h == Append(g, d)
           r == Tail(q)
<1>1. /\ Head(q) \in Event /\ d \in Data /\ Announces(Head(q), d)
      /\ IsFirst(s, g, k) /\ a = AtomOf(g, q, k)
      /\ IsLong(d)
    BY DEF OneRead, LongNext
<1>2. Head(q).length = Len(d) /\ a \in Name
    BY <1>1, Formats
<1>3. d \in Seq(Unit) /\ Len(d) \in Nat
    BY <1>1, DataFacts
<1>4. 0 \in Nat
    OBVIOUS
<1>5. 0 + Len(d) <= Len(p[a]) /\ Read(p[a], 0, Len(d)) = d
    BY <1>1, <1>2, <1>4, FirstRead
<1>6. Len(d) <= Len(p[a]) /\ p[a] \in Seq(Unit)
    BY <1>2, <1>3, <1>5
<1>7. u \in [Name -> Seq(Unit)]
    <2>1. SubSeq(p[a], Len(d) + 1, Len(p[a])) \in Seq(Unit)
        BY <1>3, <1>6, RestOf
    <2>2. QED
        BY <1>2, <2>1 DEF TakenOff, LongNext
<1>8. FirstGone(s, g, q, h, r, k)
    BY <1>1 DEF OneRead, FirstGone
<1>9. TakenOff(p, u, AtomOf(g, q, k), Len(s[k]))
    BY <1>1 DEF LongNext
<1> HIDE DEF h, r
<1>10. Laid(s, h, r, u, 0)
    BY <1>8, <1>9, LaidUp
<1>11. QED
    BY <1>2, <1>5, <1>7, <1>10 DEF h, r, LongRead

\* What is read of a client that has overrun the names changes nothing else.
LEMMA BeyondReads ==
    ASSUME TransportInv, NEW c \in Client, c \in overrun, NEW w \in Way, IsOpen(c),
           queue[c][w] # <<>>,
           conn' \in [Client -> [order: {"none", "?", "l"}, offset: Nat]],
           \A c2 \in Client: c2 # c => conn'[c2] = conn[c2],
           queue' = [queue EXCEPT ![c][w] = Tail(queue[c][w])]
               \/ queue' = [queue EXCEPT ![c][w] = <<>>],
           NEW u \in [Name -> Seq(Unit)], prop' = [prop EXCEPT ![c][w] = u],
           UNCHANGED <<link, peer, sequence, sent, got, overrun>>
    PROVE  Kept
<1>1. LinkType
    BY DEF TransportInv
<1>2. Tail(queue[c][w]) \in Seq(Event) /\ <<>> \in Seq(Event)
    BY <1>1, LinkFacts
<1>3. /\ queue \in [Client -> [Way -> Seq(Event)]]
      /\ prop \in [Client -> [Way -> [Name -> Seq(Unit)]]]
    BY <1>1 DEF LinkType
<1>4. queue' \in [Client -> [Way -> Seq(Event)]] /\ \A c2 \in Client: c2 # c => queue'[c2] = queue[c2]
    <2> DEFINE r == Tail(queue[c][w])
    <2>1. CASE queue' = [queue EXCEPT ![c][w] = r]
        <3>1. r \in Seq(Event)
            BY <1>2
        <3> HIDE DEF r
        <3>2. QED
            BY <1>3, <2>1, <3>1, OneWay
    <2>2. CASE queue' = [queue EXCEPT ![c][w] = <<>>]
        <3> DEFINE e == <<>>
        <3>1. e \in Seq(Event) /\ queue' = [queue EXCEPT ![c][w] = e]
            BY <2>2
        <3> HIDE DEF e
        <3>2. QED
            BY <1>3, <3>1, OneWay
    <2>3. QED
        BY <2>1, <2>2
<1>5. /\ prop' \in [Client -> [Way -> [Name -> Seq(Unit)]]]
      /\ \A c2 \in Client: c2 # c => prop'[c2] = prop[c2]
    BY <1>3, OneWay
<1>6. LinkType'
    BY <1>1, <1>4, <1>5 DEF LinkType
<1>7. QED
    BY <1>4, <1>5, <1>6, BeyondKept DEF IsOpen

\* What Xlib reads of a server when the client has overrun the names.
LEMMA ClientReadsBeyond ==
    ASSUME TransportInv, NEW c \in Client, c \in overrun, ClientReads(c)
    PROVE  Kept
<1> DEFINE q == queue[c]["down"]
           p == prop[c]["down"]
           ev == Head(q)
           rest == SubSeq(p[ev.atom], ev.length + 1, Len(p[ev.atom]))
<1>1. LinkType /\ ClientInv(c)
    BY DEF TransportInv
<1>2. /\ q \in Seq(Event) /\ p \in [Name -> Seq(Unit)] /\ "down" \in Way
      /\ prop \in [Client -> [Way -> [Name -> Seq(Unit)]]]
      /\ q # <<>>
    <2>1. "down" \in Way
        BY DEF Way
    <2>2. q # <<>>
        BY DEF ClientReads
    <2>3. prop \in [Client -> [Way -> [Name -> Seq(Unit)]]]
        BY <1>1 DEF LinkType
    <2>4. QED
        BY <1>1, <2>1, <2>2, <2>3, LinkFacts
<1>3. ev \in Event
    BY <1>2
<1>4. IsOpen(c)
    <2>1. Quiet(c) => q = <<>>
        BY <1>2 DEF Quiet, Silence
    <2>2. QED
        BY <1>1, <1>2, <2>1 DEF ClientInv, Standing
<1>5. /\ queue' = [queue EXCEPT ![c]["down"] = Tail(q)]
      /\ UNCHANGED <<link, peer, conn, sequence, sent, overrun>>
      /\ got' = got
    BY DEF ClientReads, Received
<1>6. \E u \in [Name -> Seq(Unit)]: prop' = [prop EXCEPT ![c]["down"] = u]
    <2>1. CASE ev.format = 8
        BY <1>2, <2>1 DEF ClientReads
    <2>2. CASE ev.format # 8
        <3>1. ev.atom \in Name /\ ev.length \in Nat
            BY <1>3, <2>2 DEF Event
        <3>2. p[ev.atom] \in Seq(Unit)
            BY <1>2, <3>1
        <3>3. rest \in Seq(Unit)
            BY <3>1, <3>2, SuffixType
        <3>4. prop' = [prop EXCEPT ![c]["down"][ev.atom] = rest]
            BY <2>2 DEF ClientReads, Content
        <3> DEFINE u == [p EXCEPT ![ev.atom] = rest]
        <3>5. u \in [Name -> Seq(Unit)]
            BY <1>2, <3>1, <3>3
        <3> HIDE DEF rest
        <3>6. prop' = [prop EXCEPT ![c]["down"] = u]
            BY <3>4
        <3>7. QED
            BY <3>5, <3>6
    <2>3. QED
        BY <2>1, <2>2
<1>7. conn' \in [Client -> [order: {"none", "?", "l"}, offset: Nat]]
    BY <1>1, <1>5 DEF LinkType
<1>8. QED
    BY <1>2, <1>4, <1>5, <1>6, <1>7, BeyondReads

\* Xlib reads a message of the server.
LEMMA ClientReadsKept ==
    ASSUME TransportInv, NEW c \in Client, c \notin overrun, ClientReads(c)
    PROVE  Kept
<1> DEFINE s == sent[c]["down"]
           g == got[c]["down"]
           q == queue[c]["down"]
           p == prop[c]["down"]
           k == Len(g) + 1
           d == s[k]
           h == Append(g, d)
           r == Tail(q)
           ev == Head(q)
<1>1. LinkType /\ Intact(c) /\ \A c2 \in Client: ClientInv(c2)
    BY DEF TransportInv, ClientInv
<1>2. /\ s \in Seq(Data) /\ g \in Seq(Data) /\ q \in Seq(Event)
      /\ p \in [Name -> Seq(Unit)]
      /\ prop \in [Client -> [Way -> [Name -> Seq(Unit)]]]
      /\ "down" \in Way
      /\ q # <<>>
    <2>1. "down" \in Way
        BY DEF Way
    <2>2. queue[c]["down"] # <<>>
        BY DEF ClientReads
    <2>3. /\ prop \in [Client -> [Way -> [Name -> Seq(Unit)]]]
        BY <1>1 DEF LinkType
    <2>4. QED
        BY <1>1, <2>1, <2>2, <2>3, LinkFacts
<1>3. Carried(s, g, q) /\ Laid(s, g, q, p, 0)
    BY <1>1 DEF Intact, DownInv
<1>4. OneRead(s, g, q)
    BY <1>2, <1>3, NextRead
<1>5. /\ ev \in Event /\ d \in Data /\ Announces(ev, d)
      /\ Carried(s, h, r)
    BY <1>4 DEF OneRead
<1>6. ev.format = 8 <=> ~IsLong(d)
    BY <1>5, Formats
<1>7. queue' = [queue EXCEPT ![c]["down"] = r]
    BY DEF ClientReads
<1>8. UNCHANGED <<startVars, link, peer, conn, sequence, sent, overrun>>
    BY DEF ClientReads
<1>9. \E u \in [Name -> Seq(Unit)]: ReadsOne(c, "down", u) /\ Laid(s, h, r, u, 0)
    <2>1. CASE ~IsLong(d)
        <3>1. got' = [got EXCEPT ![c]["down"] = h] /\ prop' = prop
            <4>1. ByHeader(ev.data) = d
                BY <1>5, <2>1, Formats
            <4>2. QED
                BY <1>6, <2>1, <4>1 DEF ClientReads, Received
        <3>2. prop' = [prop EXCEPT ![c]["down"] = p]
            BY <1>2, <3>1
        <3>3. Laid(s, h, r, p, 0)
            BY <1>1, <1>2, <1>3, <1>4, <2>1, ShortRead
        <3>4. QED
            BY <1>2, <1>7, <3>1, <3>2, <3>3 DEF ReadsOne
    <2>2. CASE IsLong(d)
        <3> DEFINE a == ev.atom
                   rest == SubSeq(p[a], Len(d) + 1, Len(p[a]))
                   u == [p EXCEPT ![a] = rest]
        <3>1. /\ got' = [got EXCEPT ![c]["down"] = Append(g, Read(p[a], 0, ev.length))]
              /\ prop' = [prop EXCEPT ![c]["down"][a] = SubSeq(p[a], ev.length + 1, Len(p[a]))]
            BY <1>6, <2>2 DEF ClientReads, Content, Received
        <3>2. LongNext(s, g, q, p, u)
            BY <2>2 DEF LongNext, TakenOff
        <3> HIDE DEF u, s, g, q, p
        <3>3. LongRead(s, g, q, p, u)
            BY <1>2, <1>3, <1>4, <3>2, LongTaken
        <3> HIDE DEF rest
        <3>4. got' = [got EXCEPT ![c]["down"] = h]
            BY <3>1, <3>3 DEF LongRead
        <3>5. prop' = [prop EXCEPT ![c]["down"] = u]
            <4>1. prop' = [prop EXCEPT ![c]["down"][a] = rest]
                BY <3>1, <3>3 DEF rest, LongRead
            <4>2. QED
                BY <4>1 DEF p, u
        <3>6. ReadsOne(c, "down", u)
            BY <1>7, <3>4, <3>5 DEF ReadsOne, g, s, q
        <3>7. QED
            BY <3>3, <3>6 DEF LongRead
    <2>3. QED
        BY <2>1, <2>2
<1>10. PICK u \in [Name -> Seq(Unit)]: ReadsOne(c, "down", u) /\ Laid(s, h, r, u, 0)
    BY <1>9
<1>11. OneLess(c, "down", u)
    BY <1>1, <1>2, <1>4, <1>10, ReadFrom
<1>12. LinkType'
    BY <1>1, <1>8, <1>11 DEF LinkType, OneLess
<1>13. ASSUME NEW c2 \in Client
       PROVE  ClientInv(c2)'
    <2>1. CASE c2 # c
        <3>1. got'[c2] = got[c2] /\ queue'[c2] = queue[c2] /\ prop'[c2] = prop[c2]
            BY <1>11, <2>1 DEF OneLess, OnlyAt
        <3>2. QED
            BY <1>1, <1>8, <3>1, ClientSame
    <2>2. CASE c2 = c
        <3>1. /\ got'[c]["up"] = got[c]["up"] /\ queue'[c]["up"] = queue[c]["up"]
              /\ prop'[c]["up"] = prop[c]["up"]
            BY <1>11 DEF OneLess, OnlyAt, Way
        <3>2. IsOpen(c)
            <4>1. Quiet(c) => q = <<>>
                BY <1>2 DEF Quiet, Silence
            <4>2. QED
                BY <1>1, <1>2, <4>1 DEF ClientInv, Standing
        <3>3. Met(c)' /\ Standing(c)'
            BY <1>1, <1>8, <3>2 DEF ClientInv, Standing, Intact, Met, IsOpen
        <3>4. Framed(c)'
            BY <1>1, <1>8 DEF Intact, Framed
        <3>5. KnowsOrder(c)'
            BY <1>1, <1>8, <3>1 DEF Intact, KnowsOrder
        <3>6. UpInv(c)'
            BY <1>1, <1>8, <3>1 DEF Intact, UpInv
        <3>7. DownInv(c)'
            BY <1>5, <1>8, <1>10, <1>11 DEF OneLess, DownInv
        <3>8. QED
            BY <2>2, <3>3, <3>4, <3>5, <3>6, <3>7 DEF ClientInv, Intact
    <2>3. QED
        BY <2>1, <2>2
<1>14. Channel!Next
    BY <1>1, <1>2, <1>8, <1>10, <1>11, Delivered
<1>15. QED
    BY <1>12, <1>13, <1>14 DEF Kept

\* The server finds the whole of a long message where it stopped the last
\* time; what it leaves is the next long message, or nothing.
LongServed(s, g, q, p, o, x) ==
    LET d == s[Len(g) + 1]
        a == Head(q).atom
        h == Append(g, d)
        r == Tail(q)
        u == IF Remains(p[a], o, Len(d)) THEN p ELSE [p EXCEPT ![a] = <<>>]
        o2 == NewOffset(p[a], o, Len(d))
    IN  /\ a \in Name
        /\ Head(q).length = Len(d)
        /\ Read(p[a], o, Len(d)) = d
        /\ d # <<>>
        /\ u \in [Name -> Seq(Unit)]
        /\ o2 \in Nat
        /\ Laid(s, h, r, u, o2)
        /\ Named(s, h, r, x, o2)

\* The server, which reads on from its offset, gets a long message whole, and the
\* offset it leaves is where the next one of that name starts.
LEMMA LongFetched ==
    ASSUME NEW s \in Seq(Data), NEW g \in Seq(Data), NEW q \in Seq(Event),
           NEW p \in [Name -> Seq(Unit)], NEW o \in Nat, NEW x \in 0 .. MaxSequence + 1,
           Carried(s, g, q), Laid(s, g, q, p, o), Named(s, g, q, x, o),
           OneRead(s, g, q), IsLong(s[Len(g) + 1])
    PROVE  LongServed(s, g, q, p, o, x)
<1> DEFINE k == Len(g) + 1
           d == s[k]
           a == Head(q).atom
           h == Append(g, d)
           r == Tail(q)
<1>1. /\ Head(q) \in Event /\ d \in Data /\ Announces(Head(q), d)
      /\ IsFirst(s, g, k) /\ a = AtomOf(g, q, k)
      /\ LongOnes(s, h) = LongOnes(s, g) \ {k}
      /\ \A n \in LongOnes(s, h): AtomOf(h, r, n) = AtomOf(g, q, n)
    BY DEF OneRead
<1>2. Head(q).length = Len(d) /\ a \in Name
    BY <1>1, Formats
<1>3. d \in Seq(Unit) /\ Len(d) \in Nat \ {0} /\ d # <<>>
    BY <1>1, DataFacts
<1>4. /\ o + Len(d) <= Len(p[a])
      /\ o # 0 => Len(p[a]) = o + Len(d)
      /\ Read(p[a], o, Len(d)) = d
    <2>1. IsFirst(s, g, k) /\ a = AtomOf(g, q, k)
        BY <1>1
    <2>2. a \in Name
        BY <1>2
    <2> HIDE DEF k, a
    <2>3. QED
        BY <2>1, <2>2, FirstRead
<1>5. FirstGone(s, g, q, h, r, k)
    BY <1>1 DEF FirstGone
<1>6. LongOnes(s, h) \subseteq LongOnes(s, g)
    BY <1>1
<1> HIDE DEF h, r
<1>7. CASE Remains(p[a], o, Len(d))
    <2>1. /\ o = 0
          /\ NewOffset(p[a], o, Len(d)) = Len(d)
          /\ Len(p[a]) > Len(d)
        <3>1. Len(p[a]) > o + Len(d) /\ Len(p[a]) \in Nat
            BY <1>2, <1>7 DEF Remains
        <3>2. o = 0
            BY <1>3, <1>4, <3>1
        <3>3. QED
            BY <1>3, <1>7, <3>1, <3>2 DEF NewOffset
    <2>2. Adjacent(s, g, q)
        BY NamesApart DEF Adjacent
    <2>3. /\ Laid(s, h, r, p, Len(d))
          /\ \E n \in LongOnes(s, h): IsFirst(s, h, n) /\ k < n /\ AtomOf(g, q, n) = AtomOf(g, q, k)
        <3>1. Laid(s, g, q, p, 0) /\ Remains(p[AtomOf(g, q, k)], 0, Len(s[k]))
            BY <1>1, <1>7, <2>1
        <3> HIDE DEF k
        <3>2. PartLaid(s, g, q, p, h, r, k)
            BY <1>5, <2>2, <3>1, LaidPart
        <3>3. QED
            BY <3>2 DEF PartLaid
    <2>4. \A n \in LongOnes(s, h): IsFirst(s, h, n) => NumberOf(s, x, n) = 0
        <3>1. PICK f \in LongOnes(s, h): IsFirst(s, h, f) /\ k < f /\ AtomOf(g, q, f) = AtomOf(g, q, k)
            BY <2>3
        <3>2. k \in LongOnes(s, g)
            BY <1>1 DEF IsFirst
        <3>3. NumberOf(s, x, f) = 0
            BY <1>6, <3>1, <3>2, NamesApart
        <3>4. \A n \in LongOnes(s, h): n \in Int
            BY DEF LongOnes, UnderWay
        <3>5. \A n \in LongOnes(s, h): IsFirst(s, h, n) => n = f
            BY <3>1, <3>4 DEF IsFirst
        <3>6. QED
            BY <3>3, <3>5
    <2>5. Named(s, h, r, x, Len(d))
        BY <1>1, <1>6, <2>4, NamedRead
    <2>6. QED
        BY <1>2, <1>3, <1>4, <1>7, <2>1, <2>3, <2>5 DEF LongServed, h, r
<1>8. CASE ~Remains(p[a], o, Len(d))
    <2> DEFINE u == [p EXCEPT ![a] = <<>>]
    <2>1. NewOffset(p[a], o, Len(d)) = 0
        BY <1>8 DEF NewOffset
    <2>2. Len(p[AtomOf(g, q, k)]) <= o + Len(s[k])
        <3>1. Len(p[a]) \in Nat
            BY <1>2
        <3>2. QED
            BY <1>1, <1>3, <1>8, <3>1 DEF Remains
    <2>3. Emptied(p, u, AtomOf(g, q, k))
        BY <1>1 DEF Emptied
    <2>4. u \in [Name -> Seq(Unit)]
        BY <1>2
    <2> HIDE DEF u
    <2>5. Laid(s, h, r, u, 0)
        <3> HIDE DEF k
        <3>1. QED
            BY <1>5, <2>2, <2>3, LaidWhole
    <2>6. Named(s, h, r, x, 0)
        BY <1>1, <1>6, NamedRead
    <2>7. QED
        BY <1>2, <1>3, <1>4, <1>8, <2>1, <2>4, <2>5, <2>6 DEF LongServed, h, r, u
<1>9. QED
    BY <1>7, <1>8

\* With nothing long under way, properties without a byte are as they should be.
LEMMA NothingLaid ==
    ASSUME NEW s, NEW g, NEW q, NEW w \in Way, LongOnes(s, g) = {}
    PROVE  Laid(s, g, q, Clean[w], 0)
<1>1. Clean[w] = [a \in Name |-> <<>>]
    BY DEF Clean
<1> DEFINE start == [n \in {} |-> 0]
<1>2. start \in [LongOnes(s, g) -> Nat]
    OBVIOUS
<1>3. Placed(s, g, q, Clean[w], start)
    BY DEF Placed
<1>4. Tiled(s, g, q, Clean[w], 0, start)
    BY <1>1 DEF Tiled
<1>5. QED
    BY <1>2, <1>3, <1>4 DEF Laid

\* What a server leaves when it has read: e is what it keeps of the client.
Served(c, u, e) ==
    /\ ReadsOne(c, "up", u)
    /\ conn' = [conn EXCEPT ![c] = e]
    /\ e.order # "?"
    /\ e.order = "none" => e = NoConn
    /\ link[c] = "linked" => e.order # "none"
    /\ LET s == sent[c]["up"]
           h == Append(got[c]["up"], s[Len(got[c]["up"]) + 1])
           r == Tail(queue[c]["up"])
       IN  /\ Laid(s, h, r, u, e.offset)
           /\ Named(s, h, r, sequence[c], e.offset)

\* A short message: in the byte order of the first one, and the last one
\* takes the connection with it.
LEMMA ShortServed ==
    ASSUME TransportInv, NEW c \in Client, c \notin overrun, ServerReads(c),
           ~OutOfProperty(c, Head(queue[c]["up"])),
           ~IsLong(sent[c]["up"][Len(got[c]["up"]) + 1])
    PROVE  \E u \in [Name -> Seq(Unit)], e \in [order: {"none", "?", "l"}, offset: Nat]:
               Served(c, u, e)
<1> DEFINE s == sent[c]["up"]
           g == got[c]["up"]
           q == queue[c]["up"]
           p == prop[c]["up"]
           o == conn[c].offset
           x == sequence[c]
           k == Len(g) + 1
           d == s[k]
           h == Append(g, d)
           r == Tail(q)
           ev == Head(q)
<1>1. LinkType /\ ClientInv(c) /\ Intact(c)
    BY DEF TransportInv, ClientInv
<1>2. /\ s \in Seq(Data) /\ g \in Seq(Data) /\ q \in Seq(Event)
      /\ p \in [Name -> Seq(Unit)]
      /\ prop \in [Client -> [Way -> [Name -> Seq(Unit)]]]
      /\ queue \in [Client -> [Way -> Seq(Event)]]
      /\ conn \in [Client -> [order: {"none", "?", "l"}, offset: Nat]]
      /\ o \in Nat
      /\ "up" \in Way
      /\ q # <<>> /\ conn[c] # NoConn
    <2>1. "up" \in Way
        BY DEF Way
    <2>2. queue[c]["up"] # <<>> /\ conn[c] # NoConn
        BY DEF ServerReads
    <2>3. /\ prop \in [Client -> [Way -> [Name -> Seq(Unit)]]]
          /\ queue \in [Client -> [Way -> Seq(Event)]]
          /\ conn \in [Client -> [order: {"none", "?", "l"}, offset: Nat]]
        BY <1>1 DEF LinkType
    <2>4. QED
        BY <1>1, <2>1, <2>2, <2>3, LinkFacts
<1>3. Carried(s, g, q) /\ Laid(s, g, q, p, o) /\ Named(s, g, q, x, o)
    BY <1>1 DEF Intact, UpInv
<1>4. OneRead(s, g, q)
    BY <1>2, <1>3, NextRead
<1>5. /\ ev \in Event /\ d \in Data /\ Announces(ev, d)
      /\ ev.format = 8 /\ ByHeader(ev.data) = d
      /\ k \in 1 .. Len(s)
    BY <1>4, Formats DEF OneRead
<1>6. ~(conn[c].order = "?" /\ OpOf(d) # "CONNECT")
    <2>1. SUFFICES ASSUME conn[c].order = "?" PROVE OpOf(d) = "CONNECT"
        OBVIOUS
    <2>2. g = <<>>
        BY <1>1, <1>2, <2>1 DEF Intact, KnowsOrder
    <2>3. k = 1
        BY <2>2
    <2>4. QED
        BY <1>1, <1>2, <1>5, <2>3 DEF Intact, Framed
<1>7. ReadShort(c, ev)
    BY <1>5 DEF ServerReads
<1>8. /\ got' = [got EXCEPT ![c]["up"] = h]
      /\ IF OpOf(d) = "DISCONNECT"
         THEN Xi18nXDisconnect(c)
         ELSE /\ conn' = [conn EXCEPT ![c].order = "l"]
              /\ queue' = [queue EXCEPT ![c]["up"] = r]
              /\ prop' = prop
    BY <1>5, <1>6, <1>7 DEF ReadShort, OpOf, Received
<1>9. /\ LongOnes(s, h) = LongOnes(s, g)
      /\ \A n \in LongOnes(s, h): AtomOf(h, r, n) = AtomOf(g, q, n)
      /\ Laid(s, h, r, p, o)
    BY <1>1, <1>2, <1>3, <1>4, ShortRead
<1>10. CASE OpOf(d) = "DISCONNECT"
    <2> DEFINE u == Clean["up"]
    <2>1. k = Len(s) /\ link[c] = "leaving"
        BY <1>1, <1>2, <1>5, <1>10 DEF Intact, Framed
    <2>2. r = <<>>
        <3>1. r \in Seq(Event) /\ Len(r) = 0
            <4>1. r \in Seq(Event) /\ Len(h) = k /\ Carried(s, h, r)
                BY <1>4 DEF OneRead
            <4>2. Len(s) \in Nat
                BY <1>2
            <4> HIDE DEF r, h, k, s
            <4>3. QED
                BY <2>1, <4>1, <4>2 DEF Carried
        <3> HIDE DEF r
        <3>2. QED
            BY <3>1
    <2>3. /\ conn' = [conn EXCEPT ![c] = NoConn]
          /\ queue' = [queue EXCEPT ![c]["up"] = r]
          /\ prop' = [prop EXCEPT ![c]["up"] = u]
        BY <1>8, <1>10, <2>2 DEF Xi18nXDisconnect
    <2>4. u \in [Name -> Seq(Unit)]
        BY <1>2 DEF Clean
    <2>5. LongOnes(s, h) = {}
        <3>1. Len(h) = Len(s)
            BY <1>2, <1>4, <2>1 DEF OneRead
        <3>2. QED
            BY <1>2, <3>1 DEF LongOnes, UnderWay
    <2>6. Laid(s, h, r, u, 0)
        BY <1>2, <2>5, NothingLaid
    <2>7. Named(s, h, r, x, 0)
        BY <1>3, <1>9, NamedRead, <1>2
    <2> HIDE DEF u, h, r
    <2>8. ReadsOne(c, "up", u)
        BY <1>8, <2>3 DEF ReadsOne, h, r
    <2>9. Served(c, u, NoConn)
        BY <2>1, <2>3, <2>6, <2>7, <2>8 DEF Served, NoConn, h, r
    <2>10. NoConn \in [order: {"none", "?", "l"}, offset: Nat]
        BY DEF NoConn
    <2>11. QED
        BY <2>4, <2>9, <2>10
<1>11. CASE OpOf(d) # "DISCONNECT"
    <2> DEFINE e == [order |-> "l", offset |-> o]
    <2>1. e \in [order: {"none", "?", "l"}, offset: Nat]
        BY <1>2
    <2>2. conn' = [conn EXCEPT ![c] = e]
        <3>1. conn[c] \in [order: {"none", "?", "l"}, offset: Nat]
            BY <1>2
        <3>2. [conn[c] EXCEPT !.order = "l"] = e
            BY <3>1
        <3>3. conn' = [conn EXCEPT ![c] = [conn[c] EXCEPT !.order = "l"]]
            BY <1>8, <1>11
        <3>4. QED
            BY <3>2, <3>3
    <2>3. prop' = [prop EXCEPT ![c]["up"] = p]
        BY <1>2, <1>8, <1>11
    <2>4. ReadsOne(c, "up", p)
        BY <1>8, <1>11, <2>3 DEF ReadsOne
    <2>5. Named(s, h, r, x, o)
        <3>1. o # 0 => \A n \in LongOnes(s, h): IsFirst(s, h, n) => NumberOf(s, x, n) = 0
            BY <1>3, <1>9 DEF Named, IsFirst
        <3>2. QED
            BY <1>2, <1>3, <1>9, <3>1, NamedRead
    <2>6. e.order = "l" /\ e.offset = o
        OBVIOUS
    <2> HIDE DEF e, h, r
    <2>7. Served(c, p, e)
        BY <1>9, <2>2, <2>4, <2>5, <2>6 DEF Served, h, r
    <2>8. QED
        BY <1>2, <2>1, <2>7
<1>12. QED
    BY <1>10, <1>11

\* A long message: not the first one of the client, nor the last.
LEMMA LongAnswered ==
    ASSUME TransportInv, NEW c \in Client, c \notin overrun, ServerReads(c),
           ~OutOfProperty(c, Head(queue[c]["up"])),
           IsLong(sent[c]["up"][Len(got[c]["up"]) + 1])
    PROVE  \E u \in [Name -> Seq(Unit)], e \in [order: {"none", "?", "l"}, offset: Nat]:
               Served(c, u, e)
<1> DEFINE s == sent[c]["up"]
           g == got[c]["up"]
           q == queue[c]["up"]
           p == prop[c]["up"]
           o == conn[c].offset
           x == sequence[c]
           k == Len(g) + 1
           d == s[k]
           h == Append(g, d)
           r == Tail(q)
           ev == Head(q)
           a == ev.atom
           rest == Remains(p[a], o, Len(d))
           o2 == NewOffset(p[a], o, Len(d))
           u == IF rest THEN p ELSE [p EXCEPT ![a] = <<>>]
           e == [conn[c] EXCEPT !.offset = o2]
<1>1. LinkType /\ ClientInv(c) /\ Intact(c)
    BY DEF TransportInv, ClientInv
<1>2. /\ s \in Seq(Data) /\ g \in Seq(Data) /\ q \in Seq(Event)
      /\ p \in [Name -> Seq(Unit)]
      /\ prop \in [Client -> [Way -> [Name -> Seq(Unit)]]]
      /\ conn[c] \in [order: {"none", "?", "l"}, offset: Nat]
      /\ o \in Nat
      /\ x \in 0 .. MaxSequence + 1
      /\ "up" \in Way
      /\ q # <<>> /\ conn[c] # NoConn
    <2>1. "up" \in Way
        BY DEF Way
    <2>2. queue[c]["up"] # <<>> /\ conn[c] # NoConn
        BY DEF ServerReads
    <2>3. /\ prop \in [Client -> [Way -> [Name -> Seq(Unit)]]]
        BY <1>1 DEF LinkType
    <2>4. QED
        BY <1>1, <2>1, <2>2, <2>3, LinkFacts
<1>3. Carried(s, g, q) /\ Laid(s, g, q, p, o) /\ Named(s, g, q, x, o)
    BY <1>1 DEF Intact, UpInv
<1>4. OneRead(s, g, q)
    BY <1>2, <1>3, NextRead
<1>5. ev.format # 8 /\ k \in 1 .. Len(s)
    <2>1. ev \in Event /\ d \in Data /\ Announces(ev, d)
        BY <1>4 DEF OneRead
    <2>2. QED
        BY <1>4, <2>1, Formats DEF OneRead
<1>6. g # <<>>
    <2>1. /\ k = 1 => OpOf(d) = "CONNECT"
          /\ OpOf(d) # "OTHER" => ~IsLong(d)
        BY <1>1, <1>2, <1>5 DEF Intact, Framed
    <2>2. k # 1
        BY <2>1
    <2>3. QED
        BY <2>2
<1>7. conn[c].order = "l"
    BY <1>1, <1>2, <1>6 DEF Intact, KnowsOrder, Met
<1>8. ReadLong(c, ev)
    BY <1>5 DEF ServerReads
<1>9. /\ queue' = [queue EXCEPT ![c]["up"] = r]
      /\ conn' = [conn EXCEPT ![c].offset = NewOffset(p[a], o, ev.length)]
      /\ Read(p[a], o, ev.length) # <<>> =>
             got' = [got EXCEPT ![c]["up"] = Append(g, Read(p[a], o, ev.length))]
      /\ Read(p[a], o, ev.length) # <<>> /\ ~Remains(p[a], o, ev.length) =>
             prop' = [prop EXCEPT ![c]["up"][a] = <<>>]
      /\ Remains(p[a], o, ev.length) => prop' = prop
    <2> HIDE DEF ev
    <2>1. queue' = [queue EXCEPT ![c]["up"] = r]
        BY <1>8 DEF ReadLong
    <2>2. conn' = [conn EXCEPT ![c].offset = NewOffset(p[a], o, ev.length)]
        BY <1>8 DEF ReadLong, Content
    <2>3. Read(p[a], o, ev.length) # <<>> =>
             got' = [got EXCEPT ![c]["up"] = Append(g, Read(p[a], o, ev.length))]
        BY <1>8 DEF ReadLong, Content, Received
    <2>4. Read(p[a], o, ev.length) # <<>> /\ ~Remains(p[a], o, ev.length) =>
             prop' = [prop EXCEPT ![c]["up"][a] = <<>>]
        BY <1>8 DEF ReadLong, Content
    <2>5. Remains(p[a], o, ev.length) => prop' = prop
        BY <1>8 DEF ReadLong, Content
    <2>6. QED
        BY <2>1, <2>2, <2>3, <2>4, <2>5
<1>10. IsLong(s[Len(g) + 1])
    OBVIOUS
<1> HIDE DEF s, g, q, p, o, x
<1>11. /\ a \in Name
       /\ ev.length = Len(d)
       /\ Read(p[a], o, Len(d)) = d
       /\ d # <<>>
       /\ u \in [Name -> Seq(Unit)]
       /\ o2 \in Nat
       /\ Laid(s, h, r, u, o2)
       /\ Named(s, h, r, x, o2)
    <2>1. LongServed(s, g, q, p, o, x)
        BY <1>2, <1>3, <1>4, <1>10, LongFetched
    <2>2. QED
        BY <2>1 DEF LongServed
<1> HIDE DEF k, d, h, r, ev, a, rest, o2
<1>12. got' = [got EXCEPT ![c]["up"] = h]
    BY <1>9, <1>11 DEF h
<1>13. conn' = [conn EXCEPT ![c] = e]
    BY <1>9, <1>11 DEF o2
<1>14. prop' = [prop EXCEPT ![c]["up"] = u]
    <2>1. CASE rest
        BY <1>2, <1>9, <1>11, <2>1 DEF rest, p
    <2>2. CASE ~rest
        BY <1>9, <1>11, <2>2 DEF rest, p
    <2>3. QED
        BY <2>1, <2>2
<1> HIDE DEF u
<1>15. ReadsOne(c, "up", u)
    BY <1>9, <1>12, <1>14 DEF ReadsOne, h, r, d, k, s, g, q
<1>16. /\ e \in [order: {"none", "?", "l"}, offset: Nat]
       /\ e.order = "l"
       /\ e.offset = o2
    BY <1>2, <1>7, <1>11
<1> HIDE DEF e
<1>17. Served(c, u, e)
    BY <1>11, <1>13, <1>15, <1>16 DEF Served, h, r, d, k, s, g, q, x
<1>18. QED
    BY <1>11, <1>16, <1>17

\* What the server reads of a client that has overrun the names.
LEMMA ServerReadsBeyond ==
    ASSUME TransportInv, NEW c \in Client, c \in overrun, ServerReads(c),
           ~OutOfProperty(c, Head(queue[c]["up"]))
    PROVE  Kept
<1> DEFINE q == queue[c]["up"]
           p == prop[c]["up"]
           ev == Head(q)
           o == conn[c].offset
           orders == [order: {"none", "?", "l"}, offset: Nat]
<1>1. LinkType /\ ClientInv(c)
    BY DEF TransportInv
<1>2. /\ q \in Seq(Event) /\ p \in [Name -> Seq(Unit)] /\ "up" \in Way
      /\ prop \in [Client -> [Way -> [Name -> Seq(Unit)]]]
      /\ conn \in [Client -> orders] /\ o \in Nat
      /\ q # <<>> /\ conn[c] # NoConn
    <2>1. "up" \in Way
        BY DEF Way
    <2>2. q # <<>> /\ conn[c] # NoConn
        BY DEF ServerReads
    <2>3. prop \in [Client -> [Way -> [Name -> Seq(Unit)]]] /\ conn \in [Client -> orders]
        BY <1>1 DEF LinkType
    <2>4. QED
        BY <1>1, <2>1, <2>2, <2>3, LinkFacts
<1>3. ev \in Event
    BY <1>2
<1>4. IsOpen(c)
    BY <1>1, <1>2 DEF ClientInv, Standing
<1>5. UNCHANGED <<link, peer, sequence, sent, overrun>>
    BY DEF ServerReads
<1>6. prop = [prop EXCEPT ![c]["up"] = p]
    BY <1>2
<1>7. CASE ev.format = 8
    <2>1. ReadShort(c, ev)
        BY <1>7 DEF ServerReads
    <2>2. got' = got
        BY <2>1 DEF ReadShort, Received
    <2>3. CASE Xi18nXDisconnect(c)
        <3>1. Clean["up"] \in [Name -> Seq(Unit)]
            BY <1>2 DEF Clean
        <3>2. NoConn \in orders
            BY DEF NoConn
        <3>3. /\ conn' = [conn EXCEPT ![c] = NoConn]
              /\ queue' = [queue EXCEPT ![c]["up"] = <<>>]
              /\ prop' = [prop EXCEPT ![c]["up"] = Clean["up"]]
            BY <2>3 DEF Xi18nXDisconnect
        <3>4. /\ conn' \in [Client -> orders]
              /\ \A c2 \in Client: c2 # c => conn'[c2] = conn[c2]
            BY <1>2, <3>2, <3>3
        <3>5. QED
            BY <1>2, <1>4, <1>5, <2>2, <3>1, <3>3, <3>4, BeyondReads
    <2>4. CASE ~Xi18nXDisconnect(c)
        <3>1. /\ queue' = [queue EXCEPT ![c]["up"] = Tail(q)]
              /\ prop' = prop
              /\ conn' = conn \/ conn' = [conn EXCEPT ![c].order = "l"]
            BY <2>1, <2>4 DEF ReadShort
        <3>2. /\ conn' \in [Client -> orders]
              /\ \A c2 \in Client: c2 # c => conn'[c2] = conn[c2]
            BY <1>2, <3>1
        <3>3. QED
            BY <1>2, <1>4, <1>5, <1>6, <2>2, <3>1, <3>2, BeyondReads
    <2>5. QED
        BY <2>3, <2>4
<1>8. CASE ev.format # 8
    <2>1. ev.atom \in Name /\ ev.length \in Nat
        BY <1>3, <1>8 DEF Event
    <2> DEFINE a == ev.atom
               o2 == NewOffset(p[a], o, ev.length)
               u == [p EXCEPT ![a] = <<>>]
    <2>2. ReadLong(c, ev)
        BY <1>8 DEF ServerReads
    <2>3. got' = got
        BY <2>2 DEF ReadLong, Received
    <2>4. queue' = [queue EXCEPT ![c]["up"] = Tail(q)]
        BY <2>2 DEF ReadLong
    <2>5. conn' = [conn EXCEPT ![c].offset = o2]
        BY <2>2 DEF ReadLong, Content
    <2>6. o2 \in Nat
        BY <1>2, <2>1 DEF NewOffset
    <2> HIDE DEF o2
    <2>7. /\ conn' \in [Client -> orders]
          /\ \A c2 \in Client: c2 # c => conn'[c2] = conn[c2]
        BY <1>2, <2>5, <2>6
    <2>8. u \in [Name -> Seq(Unit)]
        <3>1. <<>> \in Seq(Unit)
            OBVIOUS
        <3> HIDE DEF p, a
        <3>2. QED
            BY <1>2, <3>1
    <2>9. prop' = prop \/ prop' = [prop EXCEPT ![c]["up"][a] = <<>>]
        BY <2>2 DEF ReadLong
    <2>10. prop' = [prop EXCEPT ![c]["up"] = p] \/ prop' = [prop EXCEPT ![c]["up"] = u]
        BY <1>6, <2>9
    <2> HIDE DEF u
    <2>11. QED
        BY <1>2, <1>4, <1>5, <2>3, <2>4, <2>7, <2>8, <2>10, BeyondReads
<1>9. QED
    BY <1>7, <1>8

\* The server reads a message of a client.
LEMMA ServerReadsKept ==
    ASSUME TransportInv, NEW c \in Client, c \notin overrun, ServerReads(c),
           ~OutOfProperty(c, Head(queue[c]["up"]))
    PROVE  Kept
<1> DEFINE s == sent[c]["up"]
           g == got[c]["up"]
           q == queue[c]["up"]
           h == Append(g, s[Len(g) + 1])
           r == Tail(q)
<1>1. LinkType /\ Intact(c) /\ \A c2 \in Client: ClientInv(c2)
    BY DEF TransportInv, ClientInv
<1>2. PICK u \in [Name -> Seq(Unit)], e \in [order: {"none", "?", "l"}, offset: Nat]:
          Served(c, u, e)
    BY ShortServed, LongAnswered
<1>3. /\ s \in Seq(Data) /\ g \in Seq(Data) /\ q \in Seq(Event)
      /\ "up" \in Way
      /\ conn \in [Client -> [order: {"none", "?", "l"}, offset: Nat]]
      /\ q # <<>> /\ conn[c] # NoConn
    <2>1. "up" \in Way
        BY DEF Way
    <2>2. queue[c]["up"] # <<>> /\ conn[c] # NoConn
        BY DEF ServerReads
    <2>3. /\ conn \in [Client -> [order: {"none", "?", "l"}, offset: Nat]]
        BY <1>1 DEF LinkType
    <2>4. QED
        BY <1>1, <2>1, <2>2, <2>3, LinkFacts
<1>4. OneRead(s, g, q)
    BY <1>1, <1>3, NextRead DEF Intact, UpInv
<1>5. ReadsOne(c, "up", u) /\ conn' = [conn EXCEPT ![c] = e]
    BY <1>2 DEF Served
<1>6. OneLess(c, "up", u)
    BY <1>1, <1>3, <1>4, <1>5, ReadFrom
<1>7. UNCHANGED <<startVars, link, peer, sequence, sent, overrun>>
    BY DEF ServerReads
<1>8. conn' \in [Client -> [order: {"none", "?", "l"}, offset: Nat]]
      /\ conn'[c] = e /\ \A c2 \in Client: c2 # c => conn'[c2] = conn[c2]
    BY <1>3, <1>5
<1>9. LinkType'
    BY <1>1, <1>6, <1>7, <1>8 DEF LinkType, OneLess
<1>10. ASSUME NEW c2 \in Client
       PROVE  ClientInv(c2)'
    <2>1. CASE c2 # c
        <3>1. got'[c2] = got[c2] /\ queue'[c2] = queue[c2] /\ prop'[c2] = prop[c2]
            BY <1>6, <2>1 DEF OneLess, OnlyAt
        <3>2. QED
            BY <1>1, <1>7, <1>8, <2>1, <3>1, ClientSame
    <2>2. CASE c2 = c
        <3>1. /\ got'[c]["down"] = got[c]["down"] /\ queue'[c]["down"] = queue[c]["down"]
              /\ prop'[c]["down"] = prop[c]["down"]
            BY <1>6 DEF OneLess, OnlyAt, Way
        <3>2. IsOpen(c)
            BY <1>1, <1>3 DEF ClientInv, Standing
        <3>3. Met(c)' /\ Standing(c)'
            <4>1. (e.order = "none" => e = NoConn) /\ (link[c] = "linked" => e.order # "none")
                BY <1>2 DEF Served
            <4>2. NoConn.order = "none"
                BY DEF NoConn
            <4>3. QED
                BY <1>1, <1>7, <1>8, <3>2, <4>1, <4>2 DEF ClientInv, Standing, Intact, Met, IsOpen
        <3>4. Framed(c)'
            BY <1>1, <1>7 DEF Intact, Framed
        <3>5. KnowsOrder(c)'
            <4>1. e.order # "?"
                BY <1>2 DEF Served
            <4>2. got'[c]["up"] # <<>>
                <5>1. got'[c]["up"] = h
                    BY <1>6 DEF OneLess
                <5>2. g \in Seq(Data)
                    BY <1>3
                <5>3. h # <<>>
                    BY <5>2, NotEmpty
                <5>4. QED
                    BY <5>1, <5>3
            <4>3. QED
                BY <1>8, <4>1, <4>2 DEF KnowsOrder
        <3>6. UpInv(c)'
            <4>1. Laid(s, h, r, u, e.offset) /\ Named(s, h, r, sequence[c], e.offset)
                BY <1>2 DEF Served
            <4>2. Carried(s, h, r)
                BY <1>4 DEF OneRead
            <4>3. /\ sent'[c]["up"] = s /\ got'[c]["up"] = h /\ queue'[c]["up"] = r
                  /\ prop'[c]["up"] = u /\ conn'[c] = e /\ sequence'[c] = sequence[c]
                BY <1>6, <1>7, <1>8 DEF OneLess
            <4> HIDE DEF s, h, r
            <4>4. QED
                BY <4>1, <4>2, <4>3 DEF UpInv
        <3>7. DownInv(c)'
            BY <1>1, <1>7, <3>1 DEF Intact, DownInv
        <3>8. QED
            BY <2>2, <3>3, <3>4, <3>5, <3>6, <3>7 DEF ClientInv, Intact
    <2>3. QED
        BY <2>1, <2>2
<1>11. Channel!Next
    BY <1>1, <1>3, <1>5, <1>6, <1>7, Delivered
<1>12. QED
    BY <1>9, <1>10, <1>11 DEF Kept

---------------------------------------------------------------------------
(* Meeting and parting.                                                    *)

\* One step towards a connection, while nothing was sent yet.
LEMMA MeetingKept ==
    ASSUME TransportInv, NEW c \in Client,
           Convert(c) \/ ReturnSelectionNotify(c) \/ ReadXConnectMessage(c)
    PROVE  Kept
<1>1. LinkType /\ ClientInv(c) /\ \A c2 \in Client: ClientInv(c2)
    BY DEF TransportInv
<1>2. ~IsOpen(c) /\ link[c] \in {"none", "asking", "dialling"}
    BY DEF IsOpen, Convert, ReturnSelectionNotify, ReadXConnectMessage
<1>3. conn[c] = NoConn /\ Quiet(c) /\ c \notin overrun /\ Intact(c)
    BY <1>1, <1>2 DEF ClientInv, Standing
<1>4. /\ UNCHANGED <<queue, prop, sequence, sent, got, overrun>>
      /\ link' = [link EXCEPT ![c] = link'[c]]
      /\ peer' = [peer EXCEPT ![c] = peer'[c]]
      /\ conn' = [conn EXCEPT ![c] = conn'[c]]
      /\ link'[c] \in {"asking", "dialling", "linked"}
      /\ peer'[c] \in Server
      /\ conn'[c] = IF link'[c] = "linked" THEN NewXClient ELSE NoConn
    <2>1. CASE Convert(c)
        BY <1>1, <1>3, <2>1 DEF Convert, LinkType, TransportInv, StartInv, StartType
    <2>2. CASE ReturnSelectionNotify(c)
        BY <1>1, <1>3, <2>2 DEF ReturnSelectionNotify, LinkType, ClientInv, Standing
    <2>3. CASE ReadXConnectMessage(c)
        BY <1>1, <1>3, <2>3 DEF ReadXConnectMessage, LinkType, ClientInv, Standing
    <2>4. QED
        BY <2>1, <2>2, <2>3
<1>5. /\ NewXClient \in [order: {"none", "?", "l"}, offset: Nat]
      /\ NoConn \in [order: {"none", "?", "l"}, offset: Nat]
      /\ NewXClient # NoConn
      /\ NewXClient.order = "?" /\ NewXClient.offset = 0 /\ NoConn.offset = 0
    BY DEF NewXClient, NoConn
<1>6. /\ link' \in [Client -> {"none", "asking", "dialling", "linked", "leaving"}]
      /\ peer' \in [Client -> Server \cup {NoServer}]
      /\ conn' \in [Client -> [order: {"none", "?", "l"}, offset: Nat]]
      /\ \A c2 \in Client: c2 # c =>
             link'[c2] = link[c2] /\ peer'[c2] = peer[c2] /\ conn'[c2] = conn[c2]
    <2> DEFINE l == link'[c]
               e == conn'[c]
               y == peer'[c]
    <2>1. /\ l \in {"none", "asking", "dialling", "linked", "leaving"}
          /\ e \in [order: {"none", "?", "l"}, offset: Nat]
          /\ y \in Server \cup {NoServer}
        BY <1>4, <1>5
    <2>2. link' = [link EXCEPT ![c] = l] /\ peer' = [peer EXCEPT ![c] = y] /\ conn' = [conn EXCEPT ![c] = e]
        BY <1>4
    <2> HIDE DEF l, e, y
    <2>3. QED
        BY <1>1, <2>1, <2>2 DEF LinkType
<1>7. LinkType'
    BY <1>1, <1>4, <1>6 DEF LinkType
<1>8. ASSUME NEW c2 \in Client
      PROVE  ClientInv(c2)'
    <2>1. CASE c2 # c
        BY <1>1, <1>4, <1>6, <2>1, ClientSame
    <2>2. CASE c2 = c
        <3>1. Met(c)' /\ Standing(c)'
            BY <1>3, <1>4, <1>5 DEF Met, Standing, IsOpen, Quiet, NoConn
        <3>2. Framed(c)'
            BY <1>3, <1>4 DEF Framed, Quiet, Silence, Way
        <3>3. KnowsOrder(c)'
            BY <1>3, <1>4, <1>5 DEF KnowsOrder, Quiet, Silence, Way
        <3>4. UpInv(c)'
            <4>1. conn'[c].offset = conn[c].offset
                BY <1>3, <1>4, <1>5
            <4>2. QED
                BY <1>3, <1>4, <4>1 DEF Intact, UpInv
        <3>5. DownInv(c)'
            BY <1>3, <1>4 DEF Intact, DownInv
        <3>6. QED
            BY <2>2, <3>1, <3>2, <3>3, <3>4, <3>5 DEF ClientInv, Intact
    <2>3. QED
        BY <2>1, <2>2
<1>9. [Channel!Next]_Channel!vars
    <2> DEFINE open == {c2 \in Client: link[c2] \in {"linked", "leaving"} /\ c2 \notin overrun}
    <2>0. Until(overrun, sent)' = Until(overrun, sent) /\ Until(overrun, got)' = Until(overrun, got)
        BY <1>4 DEF Until
    <2>1. CASE link'[c] = "linked"
        <3>1. c \notin open
            BY <1>2
        <3>2. open' = open \cup {c}
            BY <1>3, <1>4, <1>6, <2>1
        <3>3. Channel!Open(c)
            BY <2>0, <3>1, <3>2 DEF Channel!Open
        <3>4. QED
            BY <3>3 DEF Channel!Next
    <2>2. CASE link'[c] # "linked"
        <3>1. open' = open
            BY <1>2, <1>4, <1>6, <2>2
        <3>2. QED
            BY <2>0, <3>1 DEF Channel!vars
    <2>3. QED
        BY <2>1, <2>2
<1>10. QED
    BY <1>7, <1>8, <1>9 DEF Kept

\* A client that is not connected has nothing under way.
LEMMA NothingUnderWay ==
    ASSUME NEW c \in Client,
           link'[c] = "none", conn'[c] = NoConn, sent'[c] = Silence, got'[c] = Silence,
           queue'[c] = Silence, prop'[c] = Clean, c \notin overrun'
    PROVE  ClientInv(c)'
<1>1. Silence["up"] = <<>> /\ Silence["down"] = <<>> /\ NoConn.offset = 0
    BY DEF Silence, Way, NoConn
<1>2. LongOnes(<<>>, <<>>) = {}
    BY DEF LongOnes, UnderWay
<1>3. Carried(<<>>, <<>>, <<>>)
    BY DEF Carried, UnderWay
<1>4. \A w \in Way: Laid(<<>>, <<>>, <<>>, Clean[w], 0)
    BY <1>2, NothingLaid
<1>5. \A x: Named(<<>>, <<>>, <<>>, x, 0)
    <2>1. Cardinality({}) = 0 /\ 0 <= MaxSequence + 1
        BY FS_EmptySet, TransportAssumption
    <2>2. QED
        BY <1>2, <2>1 DEF Named
<1>6. Met(c)' /\ Standing(c)'
    BY DEF Met, Standing, IsOpen, Quiet
<1>7. Framed(c)'
    BY <1>1 DEF Framed
<1>8. KnowsOrder(c)'
    BY DEF KnowsOrder
<1>9. UpInv(c)'
    BY <1>1, <1>3, <1>4, <1>5 DEF UpInv, Way
<1>10. DownInv(c)'
    BY <1>1, <1>3, <1>4 DEF DownInv, Way
<1>11. QED
    BY <1>6, <1>7, <1>8, <1>9, <1>10 DEF ClientInv, Intact

\* Some clients part from their servers, connected or not.
LEMMA PartedKept ==
    ASSUME TransportInv, NEW C \in SUBSET Client, Parted(C),
           sequence' \in [Server \cup Client -> 0 .. MaxSequence + 1],
           \A c \in Client: sequence'[c] = sequence[c]
    PROVE  Kept
<1>1. LinkType /\ \A c \in Client: ClientInv(c)
    BY DEF TransportInv
<1>2. \A c \in C:
          /\ link'[c] = "none" /\ peer'[c] = NoServer /\ conn'[c] = NoConn
          /\ queue'[c] = Silence /\ prop'[c] = Clean
          /\ sent'[c] = Silence /\ got'[c] = Silence /\ c \notin overrun'
    BY DEF Parted
<1>3. \A c \in Client: c \notin C =>
          /\ link'[c] = link[c] /\ peer'[c] = peer[c] /\ conn'[c] = conn[c]
          /\ queue'[c] = queue[c] /\ prop'[c] = prop[c]
          /\ sent'[c] = sent[c] /\ got'[c] = got[c]
          /\ (c \in overrun') <=> (c \in overrun)
    BY DEF Parted
<1>4. LinkType'
    <2>1. /\ NoConn \in [order: {"none", "?", "l"}, offset: Nat]
          /\ Silence \in [Way -> Seq(Event)]
          /\ Silence \in [Way -> Seq(Data)]
          /\ Clean \in [Way -> [Name -> Seq(Unit)]]
        BY DEF NoConn, Silence, Clean
    <2> HIDE DEF NoConn, Silence, Clean
    <2>2. link' \in [Client -> {"none", "asking", "dialling", "linked", "leaving"}]
          /\ peer' \in [Client -> Server \cup {NoServer}]
        BY <1>1 DEF LinkType, Parted
    <2>3. conn' \in [Client -> [order: {"none", "?", "l"}, offset: Nat]]
        BY <1>1, <2>1 DEF LinkType, Parted
    <2>4. queue' \in [Client -> [Way -> Seq(Event)]]
        BY <1>1, <2>1 DEF LinkType, Parted
    <2>5. prop' \in [Client -> [Way -> [Name -> Seq(Unit)]]]
        BY <1>1, <2>1 DEF LinkType, Parted
    <2>6. sent' \in [Client -> [Way -> Seq(Data)]] /\ got' \in [Client -> [Way -> Seq(Data)]]
        BY <1>1, <2>1 DEF LinkType, Parted
    <2>7. overrun' \subseteq Client
        BY <1>1 DEF LinkType, Parted
    <2>8. QED
        BY <2>2, <2>3, <2>4, <2>5, <2>6, <2>7 DEF LinkType
<1>5. ASSUME NEW c \in Client
      PROVE  ClientInv(c)'
    <2>1. CASE c \in C
        BY <1>2, <2>1, NothingUnderWay
    <2>2. CASE c \notin C
        BY <1>1, <1>3, <2>2, ClientSame
    <2>3. QED
        BY <2>1, <2>2
<1>6. Channel!Close
    <2> DEFINE open == {c \in Client: link[c] \in {"linked", "leaving"} /\ c \notin overrun}
               D == C \cap open
    <2>1. D \in SUBSET open
        OBVIOUS
    <2>2. open' = open \ D
        BY <1>2, <1>3
    <2>3. \A c \in C: c \notin open /\ c \notin overrun => sent[c] = Silence /\ got[c] = Silence
        BY <1>1 DEF ClientInv, Standing, IsOpen, Quiet
    <2>4. Channel!Silence = Silence
        BY DEF Channel!Silence, Channel!Way, Silence, Way
    <2>5. ASSUME NEW f, NEW h,
                 \A c \in C: c \notin open /\ c \notin overrun => f[c] = Silence,
                 \A c \in Client: h[c] = IF c \in C THEN Silence ELSE f[c]
          PROVE  Until(overrun', h) =
                     [c \in Client |-> IF c \in D THEN Silence ELSE Until(overrun, f)[c]]
        <3>1. ASSUME NEW c \in Client
              PROVE  (IF c \in overrun' THEN Silence ELSE h[c])
                         = IF c \in D THEN Silence ELSE Until(overrun, f)[c]
            <4>1. Until(overrun, f)[c] = IF c \in overrun THEN Silence ELSE f[c]
                BY DEF Until
            <4>2. CASE c \in C
                BY <1>2, <2>5, <4>1, <4>2
            <4>3. CASE c \notin C
                BY <1>3, <2>5, <4>1, <4>3
            <4>4. QED
                BY <4>2, <4>3
        <3> HIDE DEF D
        <3>2. QED
            BY <3>1 DEF Until
    <2> HIDE DEF D
    <2>6. Channel!Forgotten(D)
        <3>1. /\ \A c \in Client: sent'[c] = IF c \in C THEN Silence ELSE sent[c]
              /\ \A c \in Client: got'[c] = IF c \in C THEN Silence ELSE got[c]
            BY DEF Parted
        <3>2. /\ Until(overrun', sent') =
                     [c \in Client |-> IF c \in D THEN Silence ELSE Until(overrun, sent)[c]]
              /\ Until(overrun', got') =
                     [c \in Client |-> IF c \in D THEN Silence ELSE Until(overrun, got)[c]]
            BY <2>3, <2>5, <3>1
        <3>3. QED
            BY <2>4, <3>2 DEF Channel!Forgotten, Until
    <2>7. QED
        BY <2>1, <2>2, <2>6 DEF Channel!Close
<1>7. QED
    BY <1>4, <1>5, <1>6 DEF Kept, Channel!Next

---------------------------------------------------------------------------
(* The transport carries what the channel promises.                        *)

LEMMA TransportBegins ==
    ASSUME Init
    PROVE  TransportInv /\ Channel!Init
<1>1. StartInv
    BY StartBegins
<1>2. LinkType
    <2>1. /\ NoConn \in [order: {"none", "?", "l"}, offset: Nat]
          /\ Silence \in [Way -> Seq(Event)]
          /\ Silence \in [Way -> Seq(Data)]
          /\ Clean \in [Way -> [Name -> Seq(Unit)]]
          /\ 0 \in 0 .. MaxSequence + 1
        BY TransportAssumption DEF NoConn, Silence, Clean
    <2>2. QED
        BY <2>1 DEF Init, LinkType
<1>3. ASSUME NEW c \in Client
      PROVE  ClientInv(c)
    <2>1. /\ link[c] = "none" /\ conn[c] = NoConn /\ sent[c] = Silence /\ got[c] = Silence
          /\ queue[c] = Silence /\ prop[c] = Clean /\ c \notin overrun
        BY DEF Init
    <2>2. Silence["up"] = <<>> /\ Silence["down"] = <<>> /\ NoConn.offset = 0
        BY DEF Silence, Way, NoConn
    <2>3. LongOnes(<<>>, <<>>) = {}
        BY DEF LongOnes, UnderWay
    <2>4. Carried(<<>>, <<>>, <<>>)
        BY DEF Carried, UnderWay
    <2>5. \A w \in Way: Laid(<<>>, <<>>, <<>>, Clean[w], 0)
        BY <2>3, NothingLaid
    <2>6. \A x: Named(<<>>, <<>>, <<>>, x, 0)
        <3>1. Cardinality({}) = 0 /\ 0 <= MaxSequence + 1
            BY FS_EmptySet, TransportAssumption
        <3>2. QED
            BY <2>3, <3>1 DEF Named
    <2>7. Met(c) /\ Standing(c)
        BY <2>1 DEF Met, Standing, IsOpen, Quiet
    <2>8. Framed(c)
        BY <2>1, <2>2 DEF Framed
    <2>9. KnowsOrder(c)
        BY <2>1 DEF KnowsOrder
    <2>10. UpInv(c)
        BY <2>1, <2>2, <2>4, <2>5, <2>6 DEF UpInv, Way
    <2>11. DownInv(c)
        BY <2>1, <2>2, <2>4, <2>5 DEF DownInv, Way
    <2>12. QED
        BY <2>7, <2>8, <2>9, <2>10, <2>11 DEF ClientInv, Intact
<1>4. Channel!Init
    BY DEF Init, Until, Channel!Init, Channel!Silence, Channel!Way, Silence, Way
<1>5. QED
    BY <1>1, <1>2, <1>3, <1>4 DEF TransportInv

\* Every step of the program and of Xlib is one of the channel, or none.
LEMMA TransportSteps ==
    ASSUME TransportInv, [Next]_vars
    PROVE  TransportInv' /\ [Channel!Next]_Channel!vars
<1>1. StartInv'
    BY StartSteps DEF TransportInv, ClientInv
<1>2. Kept
    <2>1. CASE UNCHANGED linkVars
        <3>1. LinkType'
            BY <2>1 DEF linkVars, TransportInv, LinkType
        <3>2. \A c \in Client: ClientInv(c)'
            BY <2>1, ClientSame DEF linkVars, TransportInv
        <3>3. UNCHANGED Channel!vars
            BY <2>1 DEF linkVars, Channel!vars, Until
        <3>4. QED
            BY <3>1, <3>2, <3>3 DEF Kept
    <2>2. ASSUME NEW s \in Server, ServerEnds(s)
          PROVE  Kept
        <3>1. sequence' \in [Server \cup Client -> 0 .. MaxSequence + 1]
              /\ \A c \in Client: sequence'[c] = sequence[c]
            BY <2>2, TransportAssumption DEF ServerEnds, TransportInv, LinkType
        <3> DEFINE C == {c \in Client: peer[c] = s}
        <3>2. Parted(C) /\ C \in SUBSET Client
            BY <2>2 DEF ServerEnds
        <3> HIDE DEF C
        <3>3. QED
            BY <3>1, <3>2, PartedKept
    <2>3. ASSUME NEW c \in Client, Leave(c)
          PROVE  Kept
        <3>1. Parted({c}) /\ {c} \in SUBSET Client /\ sequence' = sequence
            BY <2>3 DEF Leave
        <3>2. sequence' \in [Server \cup Client -> 0 .. MaxSequence + 1]
            BY <3>1 DEF TransportInv, LinkType
        <3>3. QED
            BY <3>1, <3>2, PartedKept
    <2>4. CASE Starts
        BY <2>1, <2>4 DEF Starts
    <2>5. CASE UNCHANGED vars
        BY <2>1, <2>5 DEF vars
    <2>6. ASSUME NEW c \in Client, ServerReads(c)
          PROVE  Kept
        <3>1. peer[c] \in Server
            BY <2>6 DEF ServerReads, TransportInv, ClientInv, Standing, IsOpen
        <3>2. CASE OutOfProperty(c, Head(queue[c]["up"]))
            BY <2>2, <2>6, <3>1, <3>2 DEF ServerReads
        <3>3. CASE ~OutOfProperty(c, Head(queue[c]["up"]))
            BY <2>6, <3>3, ServerReadsKept, ServerReadsBeyond
        <3>4. QED
            BY <3>2, <3>3
    <2>7. QED
        BY <2>2, <2>3, <2>4, <2>5, <2>6, MeetingKept, ServerSendsKept, ClientSendsKept,
            ClientReadsKept, ClientReadsBeyond DEF Next
<1>3. QED
    BY <1>1, <1>2 DEF TransportInv, Kept

\* Where the bytes of the messages are, in every state (Xi18nXSend and
\* ReadXIMMessage, with MakeNewAtom's names coming round again).
THEOREM BytesInPlace == Spec => []TransportInv
<1>1. Init => TransportInv
    BY TransportBegins
<1>2. TransportInv /\ [Next]_vars => TransportInv'
    BY TransportSteps
<1>3. QED
    BY <1>1, <1>2, PTL DEF Spec

\* Whoever owns the selection of the program is open and in the list of the
\* display, or on its way there, and no input method loses its place in the
\* list, for any number of processes (SetXi18nSelectionOwner).
THEOREM OwnersAreFound == Spec => []ServersCanBeFound
<1>1. TransportInv => ServersCanBeFound
    BY DEF TransportInv, StartInv, StartType, StillListed, OwnerServes, ServersCanBeFound
<1>2. QED
    BY BytesInPlace, <1>1, PTL

\* The transport is a channel: whatever the sizes, the limit and the number
\* of names, and however the processes of the server start and end, each way
\* of a connection carries the messages whole, once and in order, until the
\* client overruns the names or parts from its server.
THEOREM MessagesCarried == Spec => Channel!Spec
<1>1. Init => Channel!Init
    BY TransportBegins
<1>2. TransportInv /\ [Next]_vars => [Channel!Next]_Channel!vars
    BY TransportSteps
<1>3. QED
    BY <1>1, <1>2, BytesInPlace, PTL DEF Spec, Channel!Spec
=============================================================================
