--------------------------- MODULE MCXimTransport ---------------------------
(* A message of one unit is short; two names make the third long message   *)
(* use the first one again, and the fourth the same name as the third.     *)
EXTENDS XimTransport

CONSTANTS s1, s2, kinput, c1, c2

\* Two processes and another input method start while a client looks for
\* them; one client talks at length and may run ahead of its server; two
\* clients talk to one server.
Plans == {
    [server |-> {s1, s2}, other |-> {kinput}, client |-> {c1}, up |-> 2, down |-> 1],
    [server |-> {s1}, other |-> {}, client |-> {c1}, up |-> 6, down |-> 1],
    [server |-> {s1}, other |-> {}, client |-> {c1, c2}, up |-> 2, down |-> 1]}
=============================================================================
