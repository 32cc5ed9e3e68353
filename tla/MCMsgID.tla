------------------------------ MODULE MCMsgID ------------------------------
(* Small instances of MsgID. *)
EXTENDS MsgID, TLC

PublishersAreAlike == Permutations(Publishers)
=============================================================================
