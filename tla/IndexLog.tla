------------------------------ MODULE IndexLog ------------------------------
(* The ids that index files hold, one file after the other. *)
EXTENDS Integers, Sequences

IdsIn(f) == [k \in 1 .. Len(f) |-> f[k].id]

LogOf(F) ==
  LET upTo[n \in 0 .. Len(F)] == IF n = 0 THEN <<>> ELSE upTo[n - 1] \o IdsIn(F[n])
  IN  upTo[Len(F)]
=============================================================================
