-------------------------------- MODULE Feed --------------------------------
(***************************************************************************)
(* What a subscription promises its client: the messages of the topic, in  *)
(* the order of their ids, each once, and none left out between two that   *)
(* were sent. It may start anywhere and end anywhere.                      *)
(***************************************************************************)
EXTENDS Integers

CONSTANT Ids

VARIABLES
  log,    \* the set of ids stored
  last    \* the id handed to the client last; 0: none yet

vars == <<log, last>>

Init == log \subseteq Ids /\ last = 0

Publish(id) ==
  /\ log' = log \union {id}
  /\ UNCHANGED last

Deliver(id) ==
  /\ id \in log /\ id > last
  /\ last # 0 => \A k \in log : k <= last \/ id <= k
  /\ last' = id
  /\ UNCHANGED log

Next == \E id \in Ids : Publish(id) \/ Deliver(id)

Spec == Init /\ [][Next]_vars
=============================================================================
