----------------------------- MODULE SMSGateway -----------------------------
(***************************************************************************)
(* The SMS gateway (server/sms) on its topic: Start, Run with its Provide  *)
(* goroutine and its proxyLoop, retry, Restart, Stop; the last id sent,    *)
(* kept in the key-value store; the Nexmo service, which may fail in every *)
(* way Send tells apart; crashes and restarts of the server.               *)
(*                                                                         *)
(* Route n belongs to the n-th Run. kvstore.Put deletes the row and        *)
(* creates it again in two steps.                                          *)
(*                                                                         *)
(* A definition that stands right before another one, with the same        *)
(* parameters and a name that extends its name, is a mutation: it is used  *)
(* only to show that a property notices the change.                        *)
(***************************************************************************)
EXTENDS Provide

CONSTANTS
  MaxRuns,      \* bound of the model: runs of the gateway
  FirstID,      \* the history of the topic and the last id sent: <<FirstID>>
  Responses,    \* what a call of the Nexmo service may come to
  MaxFailures,  \* bound of the model: failing calls of the service (outside of
                \* retry), the router, the message store and the key-value store
  MaxCrashes    \* bound of the model

ASSUME GatewayAssumption ==
  /\ MaxRuns \in Nat \ {0}
  /\ Routes = 1 .. MaxRuns
  /\ FirstID \in Ids
  /\ MaxFailures \in Nat
  /\ MaxCrashes \in Nat

VARIABLES
  gpc,          \* where Run is
  gen,          \* g.route; 0: none yet
  cur,          \* the message in hand
  tries,        \* i of retry
  LastIDSent,   \* in memory
  kv,           \* in the key-value store; 0: no row
  ctxDone,      \* g.ctx is cancelled
  cancelFunc,   \* g.cancelFunc is not nil
  handled,      \* history: ids sent, or given up after the retries
  missed,       \* history: ids that went past the current route
  blind,        \* history: a run had no position to fetch from, or Stop cut
                \* its fetch short
  failures, crashes

ctxVars == <<ctxDone, cancelFunc>>
history == <<handled, missed, blind>>
bounds == <<failures, crashes>>
runVars == <<gpc, gen, cur, tries, LastIDSent, kv>>
vars == <<topicVars, runVars, ctxVars, provVars, history, bounds>>

RunStates == {"down", "loop", "send", "save", "saved", "retry", "giveup", "restart",
              "ended", "panic"}

TypeOK ==
  /\ TopicTypeOK /\ ProvideTypeOK
  /\ gpc \in RunStates
  /\ gen \in 0 .. MaxRuns
  /\ cur \in Ids \union {0}
  /\ tries \in 0 .. 3
  /\ LastIDSent \in Ids \union {0}
  /\ kv \in Ids \union {0}
  /\ ctxDone \in BOOLEAN /\ cancelFunc \in BOOLEAN
  /\ {handled, missed} \subseteq SUBSET Ids
  /\ blind \in BOOLEAN
  /\ failures \in 0 .. MaxFailures
  /\ crashes \in 0 .. MaxCrashes

Init ==
  /\ TopicInit(<<FirstID>>) /\ ProvideInit
  /\ gpc = "down" /\ gen = 0 /\ cur = 0 /\ tries = 0
  /\ LastIDSent = 0 /\ kv = FirstID
  /\ ctxDone = FALSE /\ cancelFunc = FALSE
  /\ handled = {FirstID} /\ missed = {} /\ blind = FALSE
  /\ failures = 0 /\ crashes = 0
-----------------------------------------------------------------------------
(* The Provide goroutine of each run *)

Fault == failures < MaxFailures /\ failures' = failures + 1

ProvideGoesOn(r) ==
  /\ gpc \notin {"down", "panic"}
  /\ ProvideStep(r, {})
  /\ UNCHANGED <<runVars, ctxVars, history, bounds>>

(* An error ends the run, if its proxyLoop can still be cancelled. *)
ProvideGoesWrong(r) ==
  /\ gpc \notin {"down", "panic"}
  /\ Fault /\ ProvideFault(r)
  /\ ctxDone' = (ctxDone \/ (prov'[r] = "error" /\ cancelFunc))
  /\ blind' = (blind \/ CutShort(r))
  /\ UNCHANGED <<runVars, cancelFunc, handled, missed, crashes>>
-----------------------------------------------------------------------------
(* The Nexmo service *)

(* Check: the first part of the SMS that was not accepted decides. *)
Check(statuses) ==
  LET Bad == {i \in 1 .. Len(statuses) : statuses[i] # "success"}
  IN  IF statuses = <<>> THEN "ErrNoSMSSent"
      ELSE IF Bad = {} \/ statuses[Min(Bad)] = "invalid sender address" THEN "ok"
      ELSE "ErrIncompleteSMSSent"

(* NexmoSender.Send. *)
SendResult(response) ==
  CASE response.kind = "body not decodable" -> "error"
    [] response.kind = "no connection" -> "ErrNoSMSSent"
    [] response.kind = "response not decodable" -> "ErrSMSResponseDecodingFailed"
    [] response.kind = "answer" -> Check(response.statuses)

Results == {SendResult(response) : response \in Responses}

isRestartableErr(err) ==
  err \in {"ErrRouteChannelClosed", "ErrNoSMSSent", "ErrIncompleteSMSSent",
           "ErrSMSResponseDecodingFailed"}
-----------------------------------------------------------------------------
(* Run, proxyLoop and retry *)

TakeMessage ==
  /\ gpc = "loop" /\ routeC[gen] # <<>>
  /\ cur' = Head(routeC[gen])
  /\ routeC' = [routeC EXCEPT ![gen] = Tail(@)]
  /\ gpc' = "send" /\ tries' = 0
  /\ UNCHANGED <<storeVars, locked, handleC, table, closed, subC, unsubC,
                 gen, LastIDSent, kv, ctxVars, provVars, handled, missed, blind,
                 bounds>>

SendOK ==
  /\ gpc \in {"send", "retry"} /\ "ok" \in Results
  /\ handled' = handled \union {cur}
  /\ gpc' = "save"
  /\ UNCHANGED <<topicVars, gen, cur, tries, LastIDSent, kv, ctxVars, provVars,
                 missed, blind, bounds>>

(* proxyLoop returns an error: Run retries, restarts or ends. *)
AfterError(err) ==
  IF prov[gen] = "error" THEN "ended"
  ELSE IF err = "ErrIncompleteSMSSent" THEN "retry"
  ELSE IF isRestartableErr(err) THEN "restart" ELSE "ended"

SendFails ==
  /\ gpc = "send" /\ Fault
  /\ \E result \in Results \ {"ok"} : gpc' = AfterError(result)
  /\ cancelFunc' = FALSE
  /\ tries' = 1
  /\ UNCHANGED <<topicVars, gen, cur, LastIDSent, kv, ctxDone, provVars, history,
                 crashes>>

LoopClosed ==
  /\ gpc = "loop" /\ routeC[gen] = <<>> /\ gen \in closed
  /\ gpc' = AfterError("ErrRouteChannelClosed")
  /\ cancelFunc' = FALSE
  /\ UNCHANGED <<topicVars, gen, cur, tries, LastIDSent, kv, ctxDone, provVars,
                 history, bounds>>

LoopCancelled ==
  /\ gpc = "loop" /\ ctxDone
  /\ gpc' = "ended"
  /\ cancelFunc' = FALSE
  /\ UNCHANGED <<topicVars, gen, cur, tries, LastIDSent, kv, ctxDone, provVars,
                 history, bounds>>

RetryFails ==
  /\ gpc = "retry" /\ Results # {"ok"}
  /\ IF tries < 3 THEN tries' = tries + 1 /\ UNCHANGED gpc
     ELSE gpc' = "giveup" /\ UNCHANGED tries
  /\ UNCHANGED <<topicVars, gen, cur, LastIDSent, kv, ctxVars, provVars, history,
                 bounds>>

(* The message counts as dealt with when all retries have failed. *)
GiveUp ==
  /\ gpc = "giveup"
  /\ handled' = handled \union {cur}
  /\ gpc' = "save"
  /\ UNCHANGED <<topicVars, gen, cur, tries, LastIDSent, kv, ctxVars, provVars,
                 missed, blind, bounds>>

(* SetLastSentID, and back to proxyLoop, or from a retry to Restart. *)
AfterSave == IF tries = 0 THEN "loop" ELSE "restart"

PutDeletes ==
  /\ gpc = "save"
  /\ kv' = 0
  /\ gpc' = "saved"
  /\ UNCHANGED <<topicVars, gen, cur, tries, LastIDSent, ctxVars, provVars,
                 history, bounds>>

PutCreates ==
  /\ gpc = "saved"
  /\ kv' = cur /\ LastIDSent' = cur
  /\ gpc' = AfterSave
  /\ UNCHANGED <<topicVars, gen, cur, tries, ctxVars, provVars, history, bounds>>

(* The error of SetLastSentID is logged, no more. *)
PutFails ==
  /\ gpc = "save" /\ Fault
  /\ gpc' = AfterSave
  /\ UNCHANGED <<topicVars, gen, cur, tries, LastIDSent, kv, ctxVars, provVars,
                 history, crashes>>
-----------------------------------------------------------------------------
(* Start, Restart, Stop, crash *)

FetchFromTooLate(last) == IF last > 0 THEN last + 4 ELSE 0
FetchFrom(last) == IF last > 0 THEN last + 1 ELSE 0

(* initRoute and go Run: a new route, fetching from the position on. *)
NewRun(last) ==
  /\ gen < MaxRuns
  /\ gen' = gen + 1
  /\ ProvideStart(gen + 1, FetchFrom(last))
  /\ blind' = (blind \/ last = 0)
  /\ gpc' = "loop"

Start ==
  /\ gpc = "down"
  /\ LastIDSent' = kv
  /\ ctxDone' = FALSE /\ cancelFunc' = TRUE
  /\ NewRun(kv)
  /\ UNCHANGED <<topicVars, cur, tries, kv, lastID, fetched, given, handled,
                 missed, bounds>>

RestartSameRoute ==
  /\ gpc = "restart"
  /\ LastIDSent' = kv
  /\ gpc' = "loop"
  /\ UNCHANGED <<topicVars, gen, cur, tries, kv, ctxVars, provVars, history, bounds>>

(* Cancel does nothing: proxyLoop has set cancelFunc to nil. The context   *)
(* is not made anew.                                                       *)
Restart ==
  /\ gpc = "restart"
  /\ LastIDSent' = kv
  /\ NewRun(kv)
  /\ UNCHANGED <<topicVars, cur, tries, kv, ctxVars, lastID, fetched, given,
                 handled, missed, bounds>>

(* Stop calls cancelFunc, which is nil in every run but the first. *)
Stop ==
  /\ gpc \notin {"down", "panic"}
  /\ IF cancelFunc THEN ctxDone' = TRUE /\ UNCHANGED gpc
     ELSE gpc' = "panic" /\ UNCHANGED ctxDone
  /\ UNCHANGED <<topicVars, gen, cur, tries, LastIDSent, kv, cancelFunc, provVars,
                 history, bounds>>

Crash ==
  /\ gpc # "down" /\ crashes < MaxCrashes
  /\ crashes' = crashes + 1
  /\ TopicCrash /\ ProvideCrash
  /\ gpc' = "down" /\ cur' = 0 /\ tries' = 0 /\ LastIDSent' = 0
  /\ ctxDone' = FALSE /\ cancelFunc' = FALSE
  /\ UNCHANGED <<gen, kv, history, failures>>

RunStep ==
  \/ TakeMessage \/ SendOK \/ LoopClosed \/ LoopCancelled \/ GiveUp
  \/ PutDeletes \/ PutCreates \/ Restart

Observed(TopicStep) ==
  /\ gpc \notin {"down", "panic"}
  /\ TopicStep
  /\ missed' = missed \union {id \in Ids : gen > 0 /\ GoesPast(gen) /\ id = Head(handleC)}
  /\ UNCHANGED <<runVars, ctxVars, provVars, handled, blind, bounds>>

Environment == Observed(TopicNext({}))

Next ==
  \/ \E r \in Routes : ProvideGoesOn(r) \/ ProvideGoesWrong(r)
  \/ RunStep \/ SendFails \/ RetryFails \/ PutFails
  \/ Start \/ Stop \/ Crash
  \/ Environment

Spec == Init /\ [][Next]_vars

(* Goroutines go on; a failing service is not a failure for ever. *)
FairSpec ==
  /\ Spec
  /\ WF_topicVars(Observed(Loop({}) \/ PublisherGoesOn))
  /\ WF_provVars(gen > 0 /\ ProvideGoesOn(gen))
  /\ WF_vars(RunStep)
-----------------------------------------------------------------------------
(* Properties *)

(* The only messages the position in the store passes over are those that  *)
(* the router served between the last fetch of Provide and the             *)
(* subscription: failing sends, retries, restarts and crashes lead back to *)
(* what was taken and not sent, unless a run had to start without a        *)
(* position.                                                               *)
OnlyHandOverLoses ==
  ~blind => \A k \in 1 .. Len(stored) :
    stored[k] <= kv => stored[k] \in handled \union missed

(* handleFetch ends its refetching, if nothing stops it, when everything   *)
(* stored so far from the start of the request on is in the route.         *)
FetchCaughtUp == [][\A r \in Routes : FetchCaughtUpAt(r)]_vars

(* The newest message, once in the channel of the gateway's route, gets    *)
(* sent or given up, over retries and restarts, and so does everything in  *)
(* front of it, unless the gateway is stopped, ends or crashes, or a fetch *)
(* or a subscription fails.                                                *)
Over == gpc \in {"ended", "down", "panic"} \/ (gpc = "restart" /\ gen = MaxRuns)

TakenIsHandled ==
  gpc = "loop" /\ gen > 0 /\ ~blind /\ Max(Ids) \in ToSet(routeC[gen])
    ~> \/ ToSet(stored) \subseteq handled \union missed
       \/ Over \/ blind \/ \E r \in Routes : prov[r] \in {"hung", "error"}
=============================================================================
