---------------------------- MODULE MCConnector -----------------------------
(* Small instances of Connector for TLC. *)
EXTENDS Connector

CONSTANT w1

MCRoutes == 1 .. MaxRoutes
OneWorker == {w1}
AllPushes == {"network", "error", "sent", "unregistered", "other"}
=============================================================================
