------------------------------ MODULE Provide -------------------------------
(***************************************************************************)
(* Route.Provide (server/router/route.go) step by step: handleFetch, which *)
(* fetches again until the route has everything the store has, and then    *)
(* handleSubscribe. The SMS gateway and the connectors run it in a         *)
(* goroutine of its own for each route they make; it is not stopped when   *)
(* they give the route up, so those of several routes may be under way.    *)
(*                                                                         *)
(* A definition that stands right before another one, with the same        *)
(* parameters and a name that extends its name, is a mutation: it is used  *)
(* only to show that a property notices the change.                        *)
(***************************************************************************)
EXTENDS Topic

VARIABLES
  prov,      \* the Provide goroutine of each route
  startID,   \* FetchRequest.StartID of each route; 0: no request
  lastID,    \* lastID of handleFetch
  fetched,   \* ids its fetch has still to send
  given      \* history: ids handleFetch has delivered to the route

provVars == <<prov, startID, lastID, fetched, given>>

ProvideStates == {"none", "check", "fetch", "deliver", "subscribe", "waiting", "ok",
                  "error", "hung"}

ProvideTypeOK ==
  /\ prov \in [Routes -> ProvideStates]
  /\ startID \in [Routes -> Nat]
  /\ lastID \in [Routes -> Ids \union {0}]
  /\ fetched \in [Routes -> SUBSET Ids]
  /\ given \in [Routes -> SUBSET Ids]

ProvideInit ==
  /\ prov = [r \in Routes |-> "none"]
  /\ startID = [r \in Routes |-> 0]
  /\ lastID = [r \in Routes |-> 0]
  /\ fetched = [r \in Routes |-> {}]
  /\ given = [r \in Routes |-> {}]

(* A new route, with a fetch from start on (0: none), and its goroutine. *)
ProvideStart(r, start) ==
  /\ startID' = [startID EXCEPT ![r] = start]
  /\ prov' = [prov EXCEPT ![r] = "check"]

CaughtUpEarly(r) == lastID[r] > 0
CaughtUp(r) == startID[r] > MaxMessageID \/ lastID[r] >= MaxMessageID

(* handleFetch returns. *)
FetchReturns(r) ==
  /\ lastID' = [lastID EXCEPT ![r] = 0]
  /\ fetched' = [fetched EXCEPT ![r] = {}]
  /\ given' = [given EXCEPT ![r] = {}]

(* REFETCH: the request is used again from its first StartID on. *)
ProvideCheck(r) ==
  /\ prov[r] = "check"
  /\ IF startID[r] = 0 \/ CaughtUp(r)
     THEN prov' = [prov EXCEPT ![r] = "subscribe"] /\ FetchReturns(r)
     ELSE prov' = [prov EXCEPT ![r] = "fetch"] /\ UNCHANGED <<lastID, fetched, given>>
  /\ UNCHANGED <<topicVars, startID>>

ProvideReady(r) ==
  /\ prov[r] = "fetch"
  /\ fetched' = [fetched EXCEPT ![r] =
       FetchList([start |-> startID[r], dir |-> 1, count |-> Cardinality(Ids)])]
  /\ prov' = [prov EXCEPT ![r] = "deliver"]
  /\ UNCHANGED <<topicVars, startID, lastID, given>>

(* A delivery from the store waits for room in the channel. *)
ProvideDeliver(r, waiting) ==
  /\ prov[r] = "deliver" /\ HasRoom(r, waiting)
  /\ \E id \in fetched[r] :
       /\ \A k \in fetched[r] : id <= k
       /\ fetched' = [fetched EXCEPT ![r] = @ \ {id}]
       /\ routeC' = [routeC EXCEPT ![r] = Append(@, id)]
       /\ lastID' = [lastID EXCEPT ![r] = id]
       /\ given' = [given EXCEPT ![r] = @ \union {id}]
  /\ UNCHANGED <<storeVars, locked, handleC, table, closed, subC, unsubC, prov,
                 startID>>

ProvideEnd(r) ==
  /\ prov[r] = "deliver" /\ fetched[r] = {}
  /\ prov' = [prov EXCEPT ![r] = "check"]
  /\ UNCHANGED <<topicVars, startID, lastID, fetched, given>>

(* handleSubscribe *)
ProvideSubscribe(r) ==
  /\ prov[r] = "subscribe"
  /\ subC' = subC \union {r}
  /\ prov' = [prov EXCEPT ![r] = "waiting"]
  /\ UNCHANGED <<storeVars, locked, handleC, routeVars, unsubC, startID, lastID,
                 fetched, given>>

ProvideDone(r) ==
  /\ prov[r] = "waiting" /\ r \notin subC
  /\ prov' = [prov EXCEPT ![r] = "ok"]
  /\ UNCHANGED <<topicVars, startID, lastID, fetched, given>>

ProvideStep(r, waiting) ==
  \/ ProvideCheck(r) \/ ProvideReady(r) \/ ProvideDeliver(r, waiting)
  \/ ProvideEnd(r) \/ ProvideSubscribe(r) \/ ProvideDone(r)
-----------------------------------------------------------------------------
(* What may go wrong *)

(* Fetch and Subscribe are refused by a router that is stopping, and       *)
(* Subscribe without permission; a fetch may fail while it sends.          *)
ProvideFails(r) ==
  /\ \/ prov[r] = "fetch" /\ MayRefuse
     \/ prov[r] = "subscribe" /\ MayRefuse
     \/ prov[r] = "deliver"
  /\ prov' = [prov EXCEPT ![r] = "error"]
  /\ FetchReturns(r)
  /\ UNCHANGED <<topicVars, startID>>

(* An error before the start signal goes to a channel nobody reads yet. *)
ProvideHangs(r) ==
  /\ prov[r] = "fetch"
  /\ prov' = [prov EXCEPT ![r] = "hung"]
  /\ UNCHANGED <<topicVars, startID, lastID, fetched, given>>

(* router.Done(): the fetch takes the value that was to stop the router,   *)
(* and goes on to subscribe.                                               *)
ProvideSeesStop(r) ==
  /\ prov[r] = "deliver" /\ MayRefuse
  /\ prov' = [prov EXCEPT ![r] = "subscribe"]
  /\ FetchReturns(r)
  /\ UNCHANGED <<topicVars, startID>>

ProvideFault(r) == ProvideFails(r) \/ ProvideHangs(r) \/ ProvideSeesStop(r)

CutShort(r) == prov[r] = "deliver" /\ prov'[r] = "subscribe"

(* A message goes past a route that has done its last check and is not in  *)
(* the table yet: the router serves it to nobody, and no fetch will ask    *)
(* for it.                                                                 *)
GoesPast(r) ==
  /\ handleC # <<>> /\ handleC' = Tail(handleC)
  /\ table # r /\ prov[r] \in {"subscribe", "waiting"}

ProvideCrash ==
  /\ prov' = [r \in Routes |-> "none"]
  /\ startID' = [r \in Routes |-> 0]
  /\ lastID' = [r \in Routes |-> 0]
  /\ fetched' = [r \in Routes |-> {}]
  /\ given' = [r \in Routes |-> {}]
-----------------------------------------------------------------------------
(* handleFetch ends its refetching, if nothing stops it, when everything   *)
(* stored so far from the start of the request on is in the route: what    *)
(* was stored while it was fetching included.                              *)
FetchCaughtUpAt(r) ==
  prov[r] = "check" /\ prov'[r] = "subscribe" /\ startID[r] > 0 =>
    \A id \in ToSet(stored) : id >= startID[r] => id \in given[r]
=============================================================================
