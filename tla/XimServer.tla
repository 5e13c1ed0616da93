----------------------------- MODULE XimServer -----------------------------
(***************************************************************************)
(* The XIM server (wrapper/xim): the protocol library IMdkit with its      *)
(* connections and per-connection key queues, the handlers of xim.c and    *)
(* xim_trigger.c, the pool of input contexts and the one preedit window    *)
(* all contexts share.  srv is the server's memory: a handler is a         *)
(* composition of operators from srv to srv, Serve is one turn of its      *)
(* event loop.  The clients are Xlib, modelled as far as the server relies *)
(* on it: they answer what must be answered, and they may die.             *)
(***************************************************************************)
EXTENDS IcManager

CONSTANTS
    Late,           \* the clients that name their windows late
    MaxUp,          \* bound: messages to and from a client before it asks again
    MaxAsk          \* bound: requests a client makes of its own accord

VARIABLES
    srv,            \* the server
    up,             \* the requests of each client, in the order X keeps
    app,            \* the clients
    running         \* the processes that are still there

vars == <<srv, up, app, running>>

ConnId == 1 .. Cardinality(Client)

Keys == {"trigger", "shiftDown", "shiftUp", "letter", "space", "ctrl"}

Request(t) == [t |-> t, ic |-> NoIc, key |-> "letter", n |-> 0, win |-> NoClient]
About(t, i) == [Request(t) EXCEPT !.ic = i]
Reply(t, i) == [t |-> t, ic |-> i]

---------------------------------------------------------------------------
(* IMdkit: connections. *)

FreeConn == [owner |-> NoClient, sync |-> FALSE, pending |-> <<>>]

\* _Xi18nNewClient: the identity last given back, or a new one.
NewClient(s, c) ==
    LET id == IF s.freeConn = <<>> THEN s.lastConn + 1 ELSE Head(s.freeConn)
    IN  [s EXCEPT !.conn[id] = [FreeConn EXCEPT !.owner = c],
                  !.freeConn = IF @ = <<>> THEN @ ELSE Tail(@),
                  !.lastConn = IF s.freeConn = <<>> THEN id ELSE @]

\* _Xi18nDeleteClient: what is still queued is forgotten.
DeleteClient(s, id) ==
    [s EXCEPT !.conn[id] = FreeConn, !.freeConn = <<id>> \o @]

\* _Xi18nSendMessage: the connection is looked up and used unchecked.  What
\* is sent to the window of a dead process goes nowhere.
Send(s, id, msg) ==
    IF ~s.alive THEN s
    ELSE IF id \notin ConnId \/ s.conn[id].owner = NoClient
    THEN [s EXCEPT !.alive = FALSE]
    ELSE [s EXCEPT !.down[s.conn[id].owner] = Append(@, msg)]

\* xi18n_preeditStart and xi18n_preeditEnd: the event mask of one context.
SetEventMask(s, id, i, on) == Send(s, id, Reply(IF on THEN "MASK_ON" ELSE "MASK_OFF", i))

\* xi18n_forwardEvent: the key goes back, and the connection waits.
BypassKey(s, id, i) ==
    Send([s EXCEPT !.conn[id].sync = TRUE], id, Reply("FORWARD", i))

\* xi18n_commit: the client is to answer, but the connection does not wait.
Commit(s, id, i) == Send(s, id, Reply("COMMIT", i))

---------------------------------------------------------------------------
(* The preedit window and the current context. *)

\* Mutant: it is not noted that the window was hidden.
PauseForGood(s) == IF s.shown THEN [s EXCEPT !.shown = FALSE] ELSE s

Pause(s) == IF s.shown THEN [s EXCEPT !.shown = FALSE, !.paused = TRUE] ELSE s

GoOn(s) ==
    IF ~s.shown /\ s.paused THEN [s EXCEPT !.shown = TRUE, !.paused = FALSE] ELSE s

Current(s) == s.icm.ic[s.icm.cur]

\* icmgr_refresh.
Refresh(s) ==
    IF s.icm.cur = NoIc THEN s
    ELSE IF ~Current(s).enabled \/ Current(s).english THEN Pause(s)
    ELSE GoOn(s)

Focused(s, i) == [s EXCEPT !.icm = SetCurrent(@, i)]

\* xim_start_preedit, xim_cancel_preedit.
TogglePreedit(s) ==
    IF s.icm.cur = NoIc THEN s
    ELSE SetEventMask(s, Current(s).conn, s.icm.cur, Current(s).enabled)

\* The view takes a key: text appears in the window, or is committed to the
\* context that is current now.
Typed(s) == [s EXCEPT !.text = TRUE, !.shown = TRUE]

CommitPreedit(s) == IF s.icm.cur = NoIc THEN s ELSE Commit(s, Current(s).conn, s.icm.cur)

Committed(s) == [CommitPreedit(s) EXCEPT !.text = FALSE, !.shown = FALSE]

OnKey(s, k) ==
    IF k = "letter" THEN Typed(s) ELSE IF s.text THEN Committed(s) ELSE s

---------------------------------------------------------------------------
(* xim_trigger.c: one forwarded key. *)

\* Mutant: the mask is sent before the switch.
TriggerPressedLate(s) ==
    LET told == TogglePreedit(s)
    IN  Refresh([told EXCEPT !.icm.ic[s.icm.cur].enabled = ~@])

TriggerPressed(s) ==
    Refresh(TogglePreedit([s EXCEPT !.icm.ic[s.icm.cur].enabled = ~@]))

ShiftReleased(s) ==
    LET off == [s EXCEPT !.shift = FALSE]
    IN  IF s.shift /\ Current(s).enabled
        THEN Refresh([off EXCEPT !.icm = ToggleEnglish(@)])
        ELSE off

\* __filter_forward_triger_key: the hot keys are used up.
HotKey(s, k) ==
    CASE k = "trigger"   -> TriggerPressed(s)
      [] k = "shiftDown" -> [s EXCEPT !.shift = TRUE]
      [] k = "shiftUp"   -> ShiftReleased(s)

IsHot(k) == k \in {"trigger", "shiftDown", "shiftUp"}

\* What is left after the hot keys: who gets the key, its client or the view.
GoesBack(s, k) ==
    \/ k = "ctrl"
    \/ ~Current(s).enabled
    \/ Current(s).english
    \/ k = "space" /\ ~s.shown

PlainKey(s, id, m) ==
    LET off == [s EXCEPT !.shift = FALSE]
    IN  IF GoesBack(off, m.key) THEN BypassKey(off, id, m.ic) ELSE OnKey(off, m.key)

\* _xim_forward_event: the context of the key becomes current where it can.
\* The focus may still be another context's when its own does not exist.
KeyFocus(s, i) ==
    LET s1 == IF s.icm.cur = NoIc THEN Focused(s, i) ELSE s
    IN  IF s1.icm.cur # NoIc /\ (s1.icm.cur # i \/ ~s1.shown)
        THEN Refresh(Focused(s1, i))
        ELSE s1

KeyInFocus(s, id, m) ==
    IF s.icm.cur = NoIc THEN s
    ELSE IF IsHot(m.key) THEN HotKey(s, m.key)
    ELSE PlainKey(s, id, m)

ForwardEvent(s, id, m) ==
    KeyInFocus(KeyFocus([s EXCEPT !.done[s.conn[id].owner] = m.n], m.ic), id, m)

\* Mutant: the last key to come is the first in the queue.
KeyArrivesInFront(s, id, m) ==
    IF s.conn[id].sync THEN [s EXCEPT !.conn[id].pending = <<m>> \o @]
    ELSE ForwardEvent(s, id, m)

\* XIM_FORWARD_EVENT in _Xi18nMessageHandler: behind an unanswered event
\* the key has to wait.
KeyArrives(s, id, m) ==
    IF s.conn[id].sync THEN [s EXCEPT !.conn[id].pending = Append(@, m)]
    ELSE ForwardEvent(s, id, m)

\* SyncReplyMessageProc and ProcessQueue: waiting keys are handled until
\* one of them is sent back again.
OneQueued(s, id) ==
    [ForwardEvent(s, id, Head(s.conn[id].pending)) EXCEPT !.conn[id].pending = Tail(@)]

\* Mutants: one key only leaves the queue; none does.
SyncReplyOne(s, id) ==
    LET off == [s EXCEPT !.conn[id].sync = FALSE]
    IN  IF s.conn[id].pending = <<>> THEN off ELSE OneQueued(off, id)

SyncReplyAlone(s, id) == [s EXCEPT !.conn[id].sync = FALSE]

\* The one element of a set: TLC computes it once, not at every use.
Value(S) == CHOOSE v \in S: TRUE

NextQueued(s, id) == IF s.alive /\ ~s.conn[id].sync THEN OneQueued(s, id) ELSE s

SyncReply(s, id) ==
    LET replied[k \in 0 .. Len(s.conn[id].pending)] ==
            IF k = 0 THEN [s EXCEPT !.conn[id].sync = FALSE]
            ELSE Value({NextQueued(t, id): t \in {replied[k - 1]}})
    IN  replied[Len(s.conn[id].pending)]

---------------------------------------------------------------------------
(* xim.c: the requests about contexts. *)

\* __xim_ic_events: of the attributes only the window matters here; it is
\* left in a static of all clients.
IcEvents(s, w) == IF w = NoClient THEN s ELSE [s EXCEPT !.win = w]

\* _xim_create_ic: the context gets the window of the request, or the one
\* the last request of whatever client left.  With the pool empty the
\* handler uses the NULL it is given.
NewContext(s, id, w, found) ==
    LET due == CollectIfDue(s.icm, found)
        s1  == IcEvents(s, w)
    IN  IF due.free = <<>> THEN [s EXCEPT !.alive = FALSE]
        ELSE [s1 EXCEPT !.icm = TakeFree(due, id, s1.win)]

\* _Xi18nChangeIC: the same for creating a context and setting its values.
CreateIc(s, id, w, found) ==
    LET i == Last(CollectIfDue(s.icm, found).free)
    IN  Send(NewContext(s, id, w, found), id, Reply("CREATED", i))

SetIcValues(s, id, w) == Send(IcEvents(s, w), id, Reply("VALUES_SET", NoIc))

DestroyContext(s, id, i) ==
    Send(Refresh([s EXCEPT !.icm = DestroyIc(@, i)]), id, Reply("DESTROYED", i))

\* _xim_trigger_notify.
Enabled(s, i) ==
    IF ~s.icm.map[i] THEN s
    ELSE Refresh(TogglePreedit([Focused(s, i) EXCEPT !.icm.ic[i].enabled = TRUE]))

\* TriggerNotifyMessageProc with the on key: the reply and the mask go out
\* before the handler looks whether the context exists.
TriggerNotify(s, id, i) ==
    Enabled(SetEventMask(Send(s, id, Reply("TRIGGERED", i)), id, i, TRUE), i)

\* While text is shown the focus does not move.
SetIcFocus(s, i) == Refresh(IF s.shown THEN s ELSE Focused(s, i))

UnsetIcFocus(s, i) ==
    IF s.icm.cur = i /\ ~s.shown THEN [s EXCEPT !.icm = ClearCurrent(@)] ELSE s

OpenIm(s, id)  == Send(s, id, Reply("OPENED", NoIc))
CloseIm(s, id) == Send(s, id, Reply("CLOSED", NoIc))
Connect(s, id) == Send(s, id, Reply("CONNECTED", NoIc))
Disconnect(s, id) == DeleteClient(Send(s, id, Reply("GOODBYE", NoIc)), id)

Dialled(s, c) ==
    LET s1 == NewClient(s, c)
    IN  [s1 EXCEPT !.down[c] = Append(@, Reply("ACCEPT", NoIc))]

\* _Xi18nMessageHandler: what the server makes of a request, if it finds the
\* processes of the windows in found when it looks for them.
Handled(s, c, id, m, found) ==
    IF m.t = "DIAL" THEN Dialled(s, c) ELSE IF id = 0 THEN s ELSE
    CASE m.t = "CONNECT"    -> Connect(s, id)
      [] m.t = "OPEN"       -> OpenIm(s, id)
      [] m.t = "CREATE"     -> CreateIc(s, id, m.win, found)
      [] m.t = "VALUES"     -> SetIcValues(s, id, m.win)
      [] m.t = "DESTROY"    -> DestroyContext(s, id, m.ic)
      [] m.t = "FOCUS"      -> SetIcFocus(s, m.ic)
      [] m.t = "UNFOCUS"    -> UnsetIcFocus(s, m.ic)
      [] m.t = "TRIGGER"    -> TriggerNotify(s, id, m.ic)
      [] m.t = "KEY"        -> KeyArrives(s, id, m)
      [] m.t = "SYNC_REPLY" -> SyncReply(s, id)
      [] m.t = "CLOSE"      -> CloseIm(s, id)
      [] m.t = "DISCONNECT" -> Disconnect(s, id)

---------------------------------------------------------------------------
(* The clients. *)

ConnOf(c) ==
    LET ids == {id \in ConnId: srv.conn[id].owner = c}
    IN  IF ids = {} THEN 0 ELSE CHOOSE id \in ids: TRUE

ClientInit == [st |-> "idle", has |-> {}, mask |-> {}, n |-> 0]

Init ==
    /\ srv = [icm |-> IcmgrInit, win |-> NoClient,
              text |-> FALSE, shown |-> FALSE, paused |-> FALSE, shift |-> FALSE,
              conn |-> [id \in ConnId |-> FreeConn], freeConn |-> <<>>, lastConn |-> 0,
              down |-> [c \in Client |-> <<>>], done |-> [c \in Client |-> 0],
              alive |-> TRUE]
    /\ up = [c \in Client |-> <<>>]
    /\ app = [c \in Client |-> ClientInit]
    /\ running = Client

\* One turn of the server's event loop: the next request of some client.
Serve(c) ==
    /\ srv.alive
    /\ up[c] # <<>>
    /\ \E found \in Lookups(running):
          srv' = [Handled(srv, c, ConnOf(c), Head(up[c]), found)
                    EXCEPT !.down = [d \in Client |-> IF d \in running THEN @[d] ELSE <<>>]]
    /\ up' = [up EXCEPT ![c] = Tail(@)]
    /\ UNCHANGED <<app, running>>

Says(c, m) == up' = [up EXCEPT ![c] = Append(@, m)]

\* A request the application makes of its own accord.
Asks(c, from, m, client) ==
    /\ srv.alive /\ c \in running
    /\ app[c].st = from
    /\ Len(up[c]) + Len(srv.down[c]) < MaxUp
    /\ app[c].n < MaxAsk[c]
    /\ Says(c, [m EXCEPT !.n = app[c].n + 1])
    /\ app' = [app EXCEPT ![c] = [client EXCEPT !.n = @ + 1]]
    /\ UNCHANGED <<srv, running>>

Waiting(c) == [app[c] EXCEPT !.st = "waiting"]

Dial(c) == Asks(c, "idle", Request("DIAL"), Waiting(c))

\* Some name the window of a context only after they have created it.
AskForIc(c) ==
    LET w == IF c \in Late THEN NoClient ELSE c
    IN  Asks(c, "open", [Request("CREATE") EXCEPT !.win = w], Waiting(c))

SetValues(c) ==
    /\ c \in Late /\ app[c].has # {}
    /\ Asks(c, "open", [Request("VALUES") EXCEPT !.win = c], app[c])

Without(c, i) == [app[c] EXCEPT !.has = @ \ {i}, !.mask = @ \ {i}]

DropIc(c) == \E i \in app[c].has: Asks(c, "open", About("DESTROY", i), Without(c, i))

MoveFocus(c) ==
    \E i \in app[c].has, t \in {"FOCUS", "UNFOCUS"}: Asks(c, "open", About(t, i), app[c])

\* Without the event mask Xlib tells of the trigger key only, and only then
\* does the server hear of it.
PressTrigger(c) ==
    \E i \in app[c].has \ app[c].mask: Asks(c, "open", About("TRIGGER", i), app[c])

PressKey(c) ==
    \E i \in app[c].mask, k \in Keys:
        Asks(c, "open", [About("KEY", i) EXCEPT !.key = k], app[c])

HangUp(c) == Asks(c, "open", Request("CLOSE"), Waiting(c))

Answers(c, m, client) == Says(c, m) /\ app' = [app EXCEPT ![c] = client]
Notes(c, client) == app' = [app EXCEPT ![c] = client] /\ UNCHANGED up

\* What Xlib does with the next message of the server.
Receive(c, a, m) ==
    CASE m.t = "ACCEPT"    -> Answers(c, Request("CONNECT"), a)
      [] m.t = "CONNECTED" -> Answers(c, Request("OPEN"), a)
      [] m.t = "OPENED"    -> Notes(c, [a EXCEPT !.st = "open"])
      [] m.t = "CREATED"   -> Notes(c, [a EXCEPT !.st = "open", !.has = @ \cup {m.ic},
                                                    !.mask = @ \ {m.ic}])
      [] m.t = "MASK_ON"   -> Notes(c, [a EXCEPT !.mask = @ \cup ({m.ic} \cap a.has)])
      [] m.t = "MASK_OFF"  -> Notes(c, [a EXCEPT !.mask = @ \ {m.ic}])
      [] m.t \in {"FORWARD", "COMMIT"} -> Answers(c, Request("SYNC_REPLY"), a)
      [] m.t \in {"VALUES_SET", "DESTROYED", "TRIGGERED"} -> Notes(c, a)
      [] m.t = "CLOSED"    -> Answers(c, Request("DISCONNECT"), a)
      [] m.t = "GOODBYE"   -> Notes(c, [ClientInit EXCEPT !.n = a.n])

Read(c) ==
    /\ srv.alive /\ c \in running
    /\ srv.down[c] # <<>>
    /\ Receive(c, app[c], Head(srv.down[c]))
    /\ srv' = [srv EXCEPT !.down[c] = Tail(@)]
    /\ UNCHANGED running

\* The process of a client ends: the server is not told.
Die(c) ==
    /\ srv.alive /\ c \in running
    /\ running' = running \ {c}
    /\ app' = [app EXCEPT ![c] = ClientInit]
    /\ srv' = [srv EXCEPT !.down[c] = <<>>]
    /\ UNCHANGED up

\* A click on the English button of the icon bar.
ClickEnglish ==
    /\ srv.alive
    /\ srv.icm.cur # NoIc
    /\ srv' = Refresh([srv EXCEPT !.icm = ToggleEnglish(@)])
    /\ UNCHANGED <<up, app, running>>

\* GDK's handler for X errors, the only one there is, ends the program.  So
\* the server may end once there is a window it must not speak to or ask
\* about: that of a client that has died, or none at all.
XError ==
    /\ srv.alive
    /\ running # Client \/ \E i \in IcId: srv.icm.map[i] /\ srv.icm.ic[i].win = NoClient
    /\ srv' = [srv EXCEPT !.alive = FALSE]
    /\ UNCHANGED <<up, app, running>>

Next ==
    \/ ClickEnglish
    \/ XError
    \/ \E c \in Client:
        \/ Serve(c) \/ Read(c) \/ Die(c)
        \/ Dial(c) \/ AskForIc(c) \/ SetValues(c) \/ DropIc(c) \/ MoveFocus(c)
        \/ PressTrigger(c) \/ PressKey(c) \/ HangUp(c)

Spec == Init /\ [][Next]_vars

\* The X server delivers the requests of every client, and Xlib reads what
\* the server sends while its process runs.
FairSpec == Spec /\ \A c \in Client: WF_vars(Serve(c)) /\ WF_vars(Read(c))

---------------------------------------------------------------------------
(* Properties. *)

\* Every context is in the map or on the free stack, once, through every
\* order of creations, destructions and collections (ic.c:174-221), and the
\* current context is one of the map: handlers use it unchecked.
ContextsAccountedFor ==
    /\ PoolSplit(srv.icm)
    /\ srv.icm.cur # NoIc => srv.icm.map[srv.icm.cur]

\* A connection has keys waiting only while a key sent back to its client
\* is unanswered (i18nPtHdr.c:1742): the answer that will start the queue
\* again is on its way, or the client that owes it has gone.
WaitingKeysAreOwed ==
    \A id \in ConnId, c \in running:
        srv.alive /\ srv.conn[id].owner = c =>
            /\ srv.conn[id].pending # <<>> => srv.conn[id].sync
            /\ srv.conn[id].sync =>
                 \/ \E k \in DOMAIN srv.down[c]: srv.down[c][k].t = "FORWARD"
                 \/ \E k \in DOMAIN up[c]: up[c][k].t = "SYNC_REPLY"

\* The typed text is on the screen or will be shown again (pause_): it is
\* never in the view with no way to see it (sunpinyin_preedit.cc:127-177).
TextCanBeSeen == srv.text = (srv.shown \/ srv.paused)

\* A client sees all keys of a context exactly while the context is enabled,
\* once the masks under way have arrived: the mask the server last sent and
\* is_enabled never part (xim.c:186, xim_trigger.c:66).
Told(q, i) == {k \in DOMAIN q: q[k].ic = i /\ q[k].t \in {"CREATED", "MASK_ON", "MASK_OFF"}}

LastMask(c, i) ==
    LET q == srv.down[c]
        told == Told(q, i)
    IN  \/ told = {} /\ i \in app[c].mask
        \/ \E k \in told: q[k].t = "MASK_ON" /\ \A j \in told: j <= k

MaskFollowsEnabled ==
    \A c \in running: srv.alive => \A i \in app[c].has:
        srv.icm.map[i] /\ srv.icm.ic[i].conn = ConnOf(c) =>
            srv.icm.ic[i].enabled = LastMask(c, i)

\* Keys of a client are handled in the order they were pressed, none twice
\* and none overtaken, whichever of them had to wait (i18nPtHdr.c:1600-1658).
KeysInOrder ==
    [][\A c \in Client: srv'.done[c] # srv.done[c] => srv'.done[c] > srv.done[c]]_vars

\* A key that has to wait is handled at last, unless its client closes the
\* connection or dies, or the server dies.
KeysWait(c) == ConnOf(c) # 0 /\ srv.conn[ConnOf(c)].pending # <<>>

QueuedKeysHandled ==
    \A c \in Client: KeysWait(c) ~> ~KeysWait(c) \/ c \notin running \/ ~srv.alive

\* What the pool does is what IcPool promises: no identity is handed out
\* twice, no context recorded for the window of a running process of 16 bits
\* is collected, whoever creates and dies, and the focus is in use.
Pool == INSTANCE IcPool WITH
    window <- [i \in IcId |-> srv.icm.ic[i].win],
    inUse  <- {i \in IcId: srv.icm.map[i]},
    focus  <- srv.icm.cur

ImplementsPool == Pool!Spec
=============================================================================
