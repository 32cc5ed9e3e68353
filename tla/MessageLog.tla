----------------------------- MODULE MessageLog -----------------------------
(***************************************************************************)
(* What a message partition promises to its callers, without files: an     *)
(* append-only log of message ids, in the order of the ids, out of which   *)
(* no acknowledged message ever disappears.                                *)
(***************************************************************************)
EXTENDS Naturals, Sequences

CONSTANT Ids   \* message ids

VARIABLES
  log,         \* the ids of the persisted messages
  acked        \* the ids whose Store returned without an error

vars == <<log, acked>>

Init == log = <<>> /\ acked = {}

Persist(id) ==
  /\ \A k \in 1 .. Len(log) : log[k] < id
  /\ log' = Append(log, id)
  /\ UNCHANGED acked

Ack(id) ==
  /\ \E k \in 1 .. Len(log) : log[k] = id
  /\ acked' = acked \union {id}
  /\ UNCHANGED log

Next == \E id \in Ids : Persist(id) \/ Ack(id)

Spec == Init /\ [][Next]_vars
=============================================================================
