----------------------------- MODULE MCReceiver -----------------------------
(* Small instances of Receiver. *)
EXTENDS Receiver

CONSTANT r

Cmd(fetch, start, count) == [fetch |-> fetch, start |-> start, count |-> count]

(* "+ /a", "+ /a 0", "+ /a -1 1", "+ /a 0 1" *)
UsualCommands == {Cmd(FALSE, 0, -1), Cmd(TRUE, 0, -1), Cmd(TRUE, -1, 1), Cmd(TRUE, 0, 1)}

(* "+ /a 6", an id no message has. *)
FromSix == {Cmd(TRUE, 6, -1)}

One == {<<2>>}
EmptyOrOne == {<<>>, <<2>>}
=============================================================================
