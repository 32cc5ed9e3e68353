------------------------------ MODULE MCRoute ------------------------------
(* Small instances of Route: an unbounded queue, none, and one for two. *)
EXTENDS Route

QueueSizesDef == {-1, 0, 2}
=============================================================================
