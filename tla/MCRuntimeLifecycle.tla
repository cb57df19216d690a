------------------------ MODULE MCRuntimeLifecycle ------------------------
(* Two queues and shards.  Two threads call Start and Stop.                *)
EXTENDS RuntimeLifecycle

CONSTANTS c1, c2

TwoCallers == {c1, c2}
=============================================================================
