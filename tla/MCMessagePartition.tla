------------------------- MODULE MCMessagePartition -------------------------
(* Small instances of MessagePartition and PartitionLog. *)
EXTENDS PartitionLog

R(start, end, dir, count) == [start |-> start, end |-> end, dir |-> dir, count |-> count]

ForwardRequests == {R(s, 0, 1, 9) : s \in 0 .. 5}
=============================================================================
