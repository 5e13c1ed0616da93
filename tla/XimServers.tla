----------------------------- MODULE XimServers -----------------------------
(***************************************************************************)
(* How a server process of xim becomes the input method of the display     *)
(* (IMdkit's xi18n_openIM and the X server's state it works on).  Each     *)
(* request to the X server is a step of its own: another process of the    *)
(* same program may be starting too, and other input methods register.     *)
(* The program never closes its input method: its processes just end.      *)
(***************************************************************************)
EXTENDS Integers, SequencesExt

CONSTANTS
    Server,         \* processes of this program
    Other,          \* the selections of other input methods
    Ours,           \* the atom @server=xsunpinyin
    NoServer,
    Plan            \* bounds: [server, other, client, up, down]

ASSUME ServerAssumption == NoServer \notin Server /\ Ours \notin Other

VARIABLES
    pc,             \* where each process is
    seen,           \* the XIM_SERVERS it read
    listed,         \* the property XIM_SERVERS of the root window
    owner,          \* the owner of our selection
    registered,     \* the other input methods that run
    plan            \* bound: who takes part, and how many messages there are

startVars == <<pc, seen, listed, owner, registered, plan>>

StartInit ==
    /\ pc = [s \in Server |-> "down"]
    /\ seen = [s \in Server |-> <<>>]
    /\ listed = <<>>
    /\ owner = NoServer
    /\ registered = {}
    /\ plan \in Plan

Goes(s, p) == pc' = [pc EXCEPT ![s] = p]

\* XGetWindowProperty of XIM_SERVERS.
ReadServers(s) == seen' = [seen EXCEPT ![s] = listed]

\* _open_imdkit up to the list of servers; the transport X/ is always there.
Begin(s) ==
    /\ pc[s] = "down"
    /\ s \in plan.server
    /\ ReadServers(s)
    /\ Goes(s, IF Contains(listed, Ours) THEN "ask" ELSE "claim")
    /\ UNCHANGED <<listed, owner, registered>>

Ask(s) ==
    /\ pc[s] = "ask"
    /\ Goes(s, CASE owner = s        -> "list"
                 [] owner = NoServer -> "claim"
                 [] OTHER            -> "refused")
    /\ UNCHANGED <<seen, listed, owner, registered>>

Claim(s) ==
    /\ pc[s] = "claim"
    /\ owner' = s
    /\ Goes(s, "list")
    /\ UNCHANGED <<seen, listed, registered>>

\* Mutant: the list read before is written back.
ListReplaced(s) ==
    /\ pc[s] = "list"
    /\ listed' = IF Contains(seen[s], Ours) THEN seen[s] ELSE <<Ours>> \o seen[s]
    /\ seen' = [seen EXCEPT ![s] = <<>>]
    /\ Goes(s, "verify")
    /\ UNCHANGED <<owner, registered>>

\* PropModePrepend: one atom, or none at all to notify the clients.
List(s) ==
    /\ pc[s] = "list"
    /\ listed' = IF Contains(seen[s], Ours) THEN listed ELSE <<Ours>> \o listed
    /\ seen' = [seen EXCEPT ![s] = <<>>]
    /\ Goes(s, "verify")
    /\ UNCHANGED <<owner, registered>>

\* The selection is asked for once more, then the filters are registered.
\* A process that was refused runs on without a server.
Verify(s) ==
    /\ pc[s] = "verify"
    /\ Goes(s, IF owner = s THEN "open" ELSE "refused")
    /\ UNCHANGED <<seen, listed, owner, registered>>

\* A signal or a crash: the X server frees the selection, not the list.
End(s) ==
    /\ pc[s] # "down"
    /\ Goes(s, "down")
    /\ seen' = [seen EXCEPT ![s] = <<>>]
    /\ owner' = IF owner = s THEN NoServer ELSE owner
    /\ UNCHANGED <<listed, registered>>

OtherRegisters(o) ==
    /\ o \in plan.other \ registered
    /\ registered' = registered \cup {o}
    /\ listed' = <<o>> \o listed
    /\ UNCHANGED <<pc, seen, owner>>

StartStep(s) == Begin(s) \/ Ask(s) \/ Claim(s) \/ List(s) \/ Verify(s)

(***************************************************************************)
(* Whoever owns the selection can be found and will answer: it is open     *)
(* and listed, or about to be, never a process that was refused; and no    *)
(* other input method loses its place in the list, however the starts of   *)
(* several programs interleave (SetXi18nSelectionOwner).                   *)
(***************************************************************************)
ServersCanBeFound ==
    /\ \A o \in registered: Contains(listed, o)
    /\ owner # NoServer =>
           \/ pc[owner] \in {"list", "verify"}
           \/ pc[owner] = "open" /\ Contains(listed, Ours)
=============================================================================
