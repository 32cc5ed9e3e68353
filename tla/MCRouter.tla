------------------------------ MODULE MCRouter ------------------------------
(* Instances of Router for TLC. *)
EXTENDS Router, TLC

CONSTANTS r1, r2, r3, m1, m2, m3

PathA  == <<"a">>
PathAB == <<"a", "b">>
MCPaths == {PathA, PathAB}

(* r1 and r2 share a path; r3 equals r1 and replaces it. *)
EqualPath   == [r \in {r1, r2, r3} |-> PathA]
EqualParams == [r \in {r1, r2, r3} |-> IF r = r2 THEN "p2" ELSE "p1"]

(* Three clients on one path. *)
ThreeParams == [r \in {r1, r2, r3} |->
                  CASE r = r1 -> "p1" [] r = r2 -> "p2" [] r = r3 -> "p3"]

(* Two clients, one of them on a subtopic. *)
PairPath   == [r \in {r1, r2} |-> IF r = r2 THEN PathAB ELSE PathA]
PairParams == [r \in {r1, r2} |-> IF r = r2 THEN "p2" ELSE "p1"]

MsgPathsAB == [m \in {m1, m2} |-> PathAB]
(* Messages of one path are interchangeable. *)
MessageSymmetry == Permutations(Messages)

MsgPaths3  == [m \in {m1, m2, m3} |-> PathA]
=============================================================================
