---------------------------- MODULE MCSMSGateway ----------------------------
(* Small instances of SMSGateway. *)
EXTENDS SMSGateway

MCRoutes == 1 .. MaxRuns

Answer(statuses) == [kind |-> "answer", statuses |-> statuses]
Failure(kind) == [kind |-> kind, statuses |-> <<>>]

AllResponses ==
  {Answer(<<"success">>), Answer(<<"success", "failed">>), Answer(<<>>),
   Answer(<<"success", "invalid sender address", "failed">>),
   Failure("body not decodable"), Failure("no connection"),
   Failure("response not decodable")}
=============================================================================
