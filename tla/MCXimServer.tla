---------------------------- MODULE MCXimServer ----------------------------
(* Two client processes and a pool of two contexts, which collects garbage *)
(* on every second creation.  The second client names its windows late.    *)
EXTENDS XimServer

CONSTANTS c1, c2

\* Enough for the first client to open a context, to turn it on and to
\* press a key while another key is unanswered.
Budget == (c1 :> 5) @@ (c2 :> 3)

\* One client, for the liveness property.
LiveBudget == c1 :> 7
=============================================================================
