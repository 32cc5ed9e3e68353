---------------------------- MODULE MCIndexList ----------------------------
(* Instances of IndexList for TLC. *)
EXTENDS IndexList

CONSTANT IdSet

(* Two entries with the same id differ in their offset. *)
MCEntries == {[id |-> i, offset |-> i] : i \in IdSet} \cup {[id |-> 5, offset |-> 9]}

MCRequests ==
  [start : 0 .. 10, end : {0, 5, 6}, dir : {1, -1}, count : {1, 2, 9}]
=============================================================================
