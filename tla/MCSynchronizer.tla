--------------------------- MODULE MCSynchronizer ---------------------------
(***************************************************************************)
(* Nodes 1 and 2 form a cluster and node 3 joins it; or nodes 1 and 3 meet *)
(* and something goes wrong.                                               *)
(***************************************************************************)
EXTENDS Synchronizer

OwnerDef == (2 :> 2) @@ (4 :> 1) @@ (6 :> 1)

ScenariosDef ==
  {(* Node 2 has missed a message of node 1, which publishes another one. *)
   [nodes |-> {1, 2, 3}, met |-> {1, 2}, new |-> {6}, faults |-> 0,
    held |-> (2 :> {1, 2}) @@ (4 :> {1}) @@ (6 :> {})],
   (* Node 3 has the first message and missed the others while it was away. *)
   [nodes |-> {1, 3}, met |-> {}, new |-> {6}, faults |-> 1,
    held |-> (2 :> {1, 3}) @@ (4 :> {1}) @@ (6 :> {})],
   (* Nodes 1 and 3 have published on their own. *)
   [nodes |-> {1, 3}, met |-> {}, new |-> {6}, faults |-> 1,
    held |-> (2 :> {3}) @@ (4 :> {1}) @@ (6 :> {})]}
=============================================================================
