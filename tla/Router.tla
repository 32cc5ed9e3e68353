------------------------------- MODULE Router -------------------------------
(***************************************************************************)
(* The router (server/router/router.go): one loop goroutine that owns the  *)
(* routing table and serves handleC, subscribeC, unsubscribeC and stopC;   *)
(* publishers in HandleMessage; owners of routes in Provide, Subscribe and *)
(* Unsubscribe; and the caller of Stop.                                    *)
(*                                                                         *)
(* A route is seen here through its interface only (module Route has its   *)
(* inside): a channel of bounded capacity, and the flag "invalid" set by   *)
(* Close. All routes have queueSize 0, as in production. Of a message only *)
(* the path matters; of a fetch, its end and its select on Done().         *)
(*                                                                         *)
(* removeIfMatching shifts the elements of a slice in place while          *)
(* handleMessage and closeRoutes range over the same backing array: "view" *)
(* is that array as the range sees it, with the length it had at the start.*)
(* A definition that stands right before another one, with the same        *)
(* parameters and a name that extends its name, is a mutation: it is used  *)
(* only to show that a property notices the change.                        *)
(***************************************************************************)
EXTENDS Integers, Sequences, FiniteSets

CONSTANTS
  Routes,      \* route objects
  Paths,       \* topic paths: sequences of segments
  RoutePath,   \* RouteConfig.Path of each route
  Params,      \* RouteConfig.RouteParams of each route
  Messages,    \* messages, each published once
  MsgPath,     \* path of each message
  Denied,      \* routes and messages the access manager refuses
  Fetching,    \* routes with a FetchRequest
  ChannelSize, \* capacity of a route's channel
  HandleCap,   \* handleChannelCapacity
  SubCap       \* subscribeChannelCapacity and unsubscribeChannelCapacity

ASSUME RouterAssumption ==
  /\ RoutePath \in [Routes -> Paths]
  /\ MsgPath \in [Messages -> Paths]
  /\ Fetching \subseteq Routes
  /\ ChannelSize \in Nat \ {0}
  /\ HandleCap \in Nat \ {0}
  /\ SubCap \in Nat \ {0}

VARIABLES
  routes,       \* the routing table: path -> slice of routes (<<>>: no entry)
  handleC,      \* messages waiting for the loop
  subscribeC,   \* routes waiting to be subscribed
  unsubscribeC, \* routes waiting to be unsubscribed
  stopC,        \* stopC holds a value
  stopping,     \* router.stopping
  lpc,          \* the loop: in its select, in handleMessage, in closeRoutes
  cur,          \* the message in handleMessage
  todo,         \* paths the range over the table has not reached
  view,         \* the slice it ranges over, as its backing array is now
  pos,          \* the next index into view
  buffered,     \* number of messages in each route's channel
  invalid,      \* routes that are closed
  opc,          \* owner of each route
  ppc,          \* publisher of each message
  spc,          \* caller of Stop
  mCurrentRoutes, mCurrentSubscriptions,  \* gauges of the router
  delivered,    \* history: messages put in each route's channel, in order
  targets       \* history: open matching routes when handleMessage began

loopVars  == <<lpc, cur, todo, view, pos, targets>>
tableVars == <<routes, mCurrentRoutes, mCurrentSubscriptions>>
routeVars == <<buffered, invalid, delivered>>
chanVars  == <<handleC, subscribeC, unsubscribeC>>
vars == <<loopVars, tableVars, routeVars, chanVars, stopC, stopping, opc, ppc,
          spc>>

OwnerStates ==
  {"fetch", "new", "sending", "waiting", "open", "leaving", "gone", "rejected"}
PublisherStates == {"new", "store", "send", "done", "rejected"}

TypeOK ==
  /\ routes \in [Paths -> Seq(Routes)]
  /\ handleC \in Seq(Messages)
  /\ subscribeC \in Seq(Routes)
  /\ unsubscribeC \in Seq(Routes)
  /\ stopC \in BOOLEAN
  /\ stopping \in BOOLEAN
  /\ lpc \in {"select", "deliver", "close", "stopped"}
  /\ cur \in Messages
  /\ todo \subseteq Paths
  /\ view \in Seq(Routes)
  /\ pos \in Nat \ {0}
  /\ buffered \in [Routes -> 0 .. ChannelSize]
  /\ invalid \subseteq Routes
  /\ opc \in [Routes -> OwnerStates]
  /\ ppc \in [Messages -> PublisherStates]
  /\ spc \in {"idle", "waiting", "returned"}
  /\ mCurrentRoutes \in Int
  /\ mCurrentSubscriptions \in Int
  /\ delivered \in [Routes -> Seq(Messages)]
  /\ targets \subseteq Routes

Init ==
  /\ routes = [p \in Paths |-> <<>>]
  /\ handleC = <<>> /\ subscribeC = <<>> /\ unsubscribeC = <<>>
  /\ stopC = FALSE /\ stopping = FALSE
  /\ lpc = "select" /\ cur \in Messages
  /\ todo = {} /\ view = <<>> /\ pos = 1 /\ targets = {}
  /\ buffered = [r \in Routes |-> 0]
  /\ invalid = {}
  /\ opc = [r \in Routes |-> IF r \in Fetching THEN "fetch" ELSE "new"]
  /\ ppc = [m \in Messages |-> "new"]
  /\ spc = "idle"
  /\ mCurrentRoutes = 0 /\ mCurrentSubscriptions = 0
  /\ delivered = [r \in Routes |-> <<>>]
-----------------------------------------------------------------------------
(* The routing table *)

(* matchesTopic: the route's path is a prefix of the message's, cut at a   *)
(* separator.                                                              *)
MatchesTopic(messagePath, routePath) ==
  /\ Len(routePath) <= Len(messagePath)
  /\ SubSeq(messagePath, 1, Len(routePath)) = routePath

Equal(r, other) == RoutePath[r] = RoutePath[other] /\ Params[r] = Params[other]

(* Positions at which removeIfMatching finds the route: the first match. *)
MatchNone(slice, r) == {}
Match(slice, r) ==
  {i \in 1 .. Len(slice) :
     Equal(slice[i], r) /\ \A j \in 1 .. i - 1 : ~Equal(slice[j], r)}

RemoveAtOffByOne(slice, i) ==
  [j \in 1 .. Len(slice) - 1 |-> IF j <= i THEN slice[j] ELSE slice[j + 1]]

RemoveAt(slice, i) ==
  [j \in 1 .. Len(slice) - 1 |-> IF j < i THEN slice[j] ELSE slice[j + 1]]

(* What a range over the old slice sees after append(slice[:i],            *)
(* slice[i+1:]...): the elements up to the slice's length move left.       *)
ShiftAt(array, i, len) ==
  [j \in 1 .. Len(array) |-> IF i <= j /\ j < len THEN array[j + 1] ELSE array[j]]

(* subscribe: an equal route is replaced, without closing it. *)
DoSubscribe(r) ==
  LET p     == RoutePath[r]
      slice == routes[p]
      found == Match(slice, r)
      kept  == IF found = {} THEN slice
               ELSE RemoveAt(slice, CHOOSE i \in found : TRUE)
  IN  /\ routes' = [routes EXCEPT ![p] = Append(kept, r)]
      /\ mCurrentRoutes' = mCurrentRoutes + (IF slice = <<>> THEN 1 ELSE 0)
      /\ mCurrentSubscriptions' =
           mCurrentSubscriptions + (IF found = {} THEN 1 ELSE 0)

(* unsubscribe: drops the equal route, and the entry when it gets empty. *)
DoUnsubscribeKeepsGauge(r) ==
  LET p     == RoutePath[r]
      slice == routes[p]
      found == Match(slice, r)
  IN  IF found = {}
      THEN UNCHANGED <<tableVars, view>>
      ELSE LET i == CHOOSE k \in found : TRUE IN
           /\ routes' = [routes EXCEPT ![p] = RemoveAt(slice, i)]
           /\ view' = ShiftAt(view, i, Len(slice))
           /\ mCurrentSubscriptions' = mCurrentSubscriptions - 1
           /\ UNCHANGED mCurrentRoutes

DoUnsubscribe(r) ==
  LET p     == RoutePath[r]
      slice == routes[p]
      found == Match(slice, r)
  IN  IF found = {}
      THEN UNCHANGED <<tableVars, view>>
      ELSE LET i == CHOOSE k \in found : TRUE IN
           /\ routes' = [routes EXCEPT ![p] = RemoveAt(slice, i)]
           /\ view' = ShiftAt(view, i, Len(slice))
           /\ mCurrentSubscriptions' = mCurrentSubscriptions - 1
           /\ mCurrentRoutes' = mCurrentRoutes - (IF Len(slice) = 1 THEN 1 ELSE 0)
-----------------------------------------------------------------------------
(* The loop goroutine *)

ChannelsAreEmptyIgnoresHandleC == subscribeC = <<>> /\ unsubscribeC = <<>>
ChannelsAreEmpty == handleC = <<>> /\ subscribeC = <<>> /\ unsubscribeC = <<>>

Present == {p \in Paths : routes[p] # <<>>}

LoopMessage ==
  /\ lpc = "select" /\ handleC # <<>>
  /\ cur' = Head(handleC)
  /\ handleC' = Tail(handleC)
  /\ lpc' = "deliver"
  /\ todo' = {p \in Present : MatchesTopic(MsgPath[cur'], p)}
  /\ targets' = {r \in Routes \ invalid : \E p \in todo' :
                   \E i \in 1 .. Len(routes[p]) : routes[p][i] = r}
  /\ view' = <<>> /\ pos' = 1
  /\ UNCHANGED <<tableVars, routeVars, subscribeC, unsubscribeC, stopC,
                 stopping, opc, ppc, spc>>

(* doneC is unbuffered and the owner waits on it. *)
LoopSubscribe ==
  /\ lpc = "select" /\ subscribeC # <<>>
  /\ LET r == Head(subscribeC) IN
       DoSubscribe(r) /\ opc' = [opc EXCEPT ![r] = "open"]
  /\ subscribeC' = Tail(subscribeC)
  /\ UNCHANGED <<loopVars, routeVars, handleC, unsubscribeC, stopC, stopping,
                 ppc, spc>>

LoopUnsubscribe ==
  /\ lpc = "select" /\ unsubscribeC # <<>>
  /\ LET r == Head(unsubscribeC) IN
       DoUnsubscribe(r) /\ opc' = [opc EXCEPT ![r] = "gone"]
  /\ unsubscribeC' = Tail(unsubscribeC)
  /\ UNCHANGED <<lpc, cur, todo, pos, targets, routeVars, handleC, subscribeC,
                 stopC, stopping, ppc, spc>>

LoopStopIgnored ==
  /\ lpc = "select" /\ stopC
  /\ stopC' = FALSE
  /\ UNCHANGED <<loopVars, tableVars, routeVars, chanVars, stopping, opc, ppc,
                 spc>>

LoopStop ==
  /\ lpc = "select" /\ stopC
  /\ stopC' = FALSE
  /\ stopping' = TRUE
  /\ UNCHANGED <<loopVars, tableVars, routeVars, chanVars, opc, ppc, spc>>

LoopExit ==
  /\ lpc = "select" /\ stopping /\ ChannelsAreEmpty
  /\ lpc' = "close"
  /\ todo' = Present
  /\ view' = <<>> /\ pos' = 1
  /\ UNCHANGED <<cur, targets, tableVars, routeVars, chanVars, stopC, stopping,
                 opc, ppc, spc>>

RangeDone == pos > Len(view)

(* The range over the map takes its entries in any order. *)
NextPath ==
  /\ lpc \in {"deliver", "close"} /\ RangeDone
  /\ \E p \in todo :
       /\ todo' = todo \ {p}
       /\ view' = routes[p]
  /\ pos' = 1
  /\ UNCHANGED <<lpc, cur, targets, tableVars, routeVars, chanVars, stopC,
                 stopping, opc, ppc, spc>>

EndRange ==
  /\ lpc \in {"deliver", "close"} /\ RangeDone /\ todo = {}
  /\ lpc' = IF lpc = "deliver" THEN "select" ELSE "stopped"
  /\ view' = <<>> /\ pos' = 1 /\ targets' = {}
  /\ UNCHANGED <<cur, todo, tableVars, routeVars, chanVars, stopC, stopping,
                 opc, ppc, spc>>

RouteFull(r) == buffered[r] >= ChannelSize

Advance(r) == pos' = pos + 1

(* Deliver on a route with queueSize 0: refused when closed (the loop then *)
(* unsubscribes the route), else sent, else the full route is closed.      *)
DeliverRoute ==
  /\ lpc = "deliver" /\ ~RangeDone
  /\ LET r == view[pos] IN
       \/ /\ r \in invalid
          /\ DoUnsubscribe(r)
          /\ UNCHANGED routeVars
       \/ /\ r \notin invalid /\ ~RouteFull(r)
          /\ buffered' = [buffered EXCEPT ![r] = @ + 1]
          /\ delivered' = [delivered EXCEPT ![r] = Append(@, cur)]
          /\ UNCHANGED <<invalid, tableVars, view>>
       \/ /\ r \notin invalid /\ RouteFull(r)
          /\ invalid' = invalid \cup {r}
          /\ UNCHANGED <<buffered, delivered, tableVars, view>>
  /\ Advance(view[pos])
  /\ UNCHANGED <<lpc, cur, todo, targets, chanVars, stopC, stopping, opc, ppc,
                 spc>>


CloseRoute ==
  /\ lpc = "close" /\ ~RangeDone
  /\ LET r == view[pos] IN
       DoUnsubscribe(r) /\ invalid' = invalid \cup {r}
  /\ pos' = pos + 1
  /\ UNCHANGED <<lpc, cur, todo, targets, buffered, delivered, chanVars, stopC,
                 stopping, opc, ppc, spc>>

Select == LoopMessage \/ LoopSubscribe \/ LoopUnsubscribe \/ LoopStop
Loop == Select \/ LoopExit \/ NextPath \/ EndRange \/ DeliverRoute \/ CloseRoute
-----------------------------------------------------------------------------
(* Owners of routes *)

(* handleFetch ends because the fetch is complete, fails, or sees the      *)
(* router's Done() channel; in the first and last case Provide goes on to  *)
(* subscribe.                                                              *)
FetchEnds(r) ==
  /\ opc[r] = "fetch"
  /\ opc' = [opc EXCEPT ![r] = "new"]
  /\ UNCHANGED <<loopVars, tableVars, routeVars, chanVars, stopC, stopping, ppc,
                 spc>>

FetchFails(r) ==
  /\ opc[r] = "fetch"
  /\ opc' = [opc EXCEPT ![r] = "rejected"]
  /\ UNCHANGED <<loopVars, tableVars, routeVars, chanVars, stopC, stopping, ppc,
                 spc>>

FetchSeesDone(r) ==
  /\ opc[r] = "fetch" /\ stopC
  /\ stopC' = FALSE
  /\ opc' = [opc EXCEPT ![r] = "new"]
  /\ UNCHANGED <<loopVars, tableVars, routeVars, chanVars, stopping, ppc, spc>>

Subscribe(r) ==
  /\ opc[r] = "new"
  /\ opc' = [opc EXCEPT ![r] =
               IF stopping \/ r \in Denied THEN "rejected" ELSE "sending"]
  /\ UNCHANGED <<loopVars, tableVars, routeVars, chanVars, stopC, stopping, ppc,
                 spc>>

SubscribeSend(r) ==
  /\ opc[r] = "sending" /\ Len(subscribeC) < SubCap
  /\ subscribeC' = Append(subscribeC, r)
  /\ opc' = [opc EXCEPT ![r] = "waiting"]
  /\ UNCHANGED <<loopVars, tableVars, routeVars, handleC, unsubscribeC, stopC,
                 stopping, ppc, spc>>

Receive(r) ==
  /\ opc[r] = "open" /\ buffered[r] > 0
  /\ buffered' = [buffered EXCEPT ![r] = @ - 1]
  /\ UNCHANGED <<loopVars, tableVars, invalid, delivered, chanVars, stopC,
                 stopping, opc, ppc, spc>>

Unsubscribe(r) ==
  /\ opc[r] = "open" /\ Len(unsubscribeC) < SubCap
  /\ unsubscribeC' = Append(unsubscribeC, r)
  /\ opc' = [opc EXCEPT ![r] = "leaving"]
  /\ UNCHANGED <<loopVars, tableVars, routeVars, handleC, subscribeC, stopC,
                 stopping, ppc, spc>>

Owner(r) ==
  \/ FetchEnds(r) \/ FetchFails(r) \/ FetchSeesDone(r)
  \/ Subscribe(r) \/ SubscribeSend(r) \/ Receive(r) \/ Unsubscribe(r)
-----------------------------------------------------------------------------
(* Publishers and the caller of Stop *)

HandleMessage(m) ==
  /\ ppc[m] = "new"
  /\ ppc' = [ppc EXCEPT ![m] =
               IF stopping \/ m \in Denied THEN "rejected" ELSE "store"]
  /\ UNCHANGED <<loopVars, tableVars, routeVars, chanVars, stopC, stopping, opc,
                 spc>>

StoreMessage(m) ==
  /\ ppc[m] = "store"
  /\ \E result \in {"send", "rejected"} : ppc' = [ppc EXCEPT ![m] = result]
  /\ UNCHANGED <<loopVars, tableVars, routeVars, chanVars, stopC, stopping, opc,
                 spc>>

EnqueueMessage(m) ==
  /\ ppc[m] = "send" /\ Len(handleC) < HandleCap
  /\ handleC' = Append(handleC, m)
  /\ ppc' = [ppc EXCEPT ![m] = "done"]
  /\ UNCHANGED <<loopVars, tableVars, routeVars, subscribeC, unsubscribeC,
                 stopC, stopping, opc, spc>>

Publisher(m) == HandleMessage(m) \/ StoreMessage(m) \/ EnqueueMessage(m)

Stop ==
  /\ spc = "idle"
  /\ stopC' = TRUE
  /\ spc' = "waiting"
  /\ UNCHANGED <<loopVars, tableVars, routeVars, chanVars, stopping, opc, ppc>>

StopReturns ==
  /\ spc = "waiting" /\ lpc = "stopped"
  /\ spc' = "returned"
  /\ UNCHANGED <<loopVars, tableVars, routeVars, chanVars, stopC, stopping, opc,
                 ppc>>

Next ==
  \/ Loop
  \/ \E r \in Routes : Owner(r)
  \/ \E m \in Messages : Publisher(m)
  \/ Stop
  \/ StopReturns

Spec == Init /\ [][Next]_vars

(* The loop runs whenever it can; select takes a ready case at random, so  *)
(* a case that is ready again and again is taken.                          *)
FairSpec ==
  /\ Spec
  /\ WF_vars(Loop)
  /\ SF_vars(LoopMessage) /\ SF_vars(LoopSubscribe)
  /\ SF_vars(LoopUnsubscribe) /\ SF_vars(LoopStop)
  /\ WF_vars(StopReturns)
-----------------------------------------------------------------------------
(* Properties *)

(* A slice of the table holds routes of its path, and no two equal ones:   *)
(* removeIfMatching keeps double subscriptions out.                        *)
NoDoubleSubscription ==
  \A p \in Paths : \A i, j \in 1 .. Len(routes[p]) :
    /\ RoutePath[routes[p][i]] = p
    /\ Equal(routes[p][i], routes[p][j]) => i = j

(* Once Unsubscribe has returned the route is out of the table, and stays  *)
(* out, although an equal route may have taken its place meanwhile.        *)
UnsubscribedIsOut ==
  \A r \in Routes : opc[r] = "gone" =>
    \A p \in Paths : \A i \in 1 .. Len(routes[p]) : routes[p][i] # r

(* A route nobody has unsubscribed or replaced stays in the table while it *)
(* is open: removing its neighbours never takes it along.                  *)
OpenStaysSubscribed ==
  \A r \in Routes :
    \/ opc[r] # "open" \/ r \in invalid
    \/ \E i \in 1 .. Len(routes[RoutePath[r]]) : routes[RoutePath[r]][i] = r
    \/ \E s \in Routes \ {r} : Equal(r, s) /\ opc[s] \in {"open", "leaving", "gone"}

(* The gauges current_routes and current_subscriptions equal the number of *)
(* entries and of routes of the table, through replacements, closed routes *)
(* dropped by handleMessage, and closeRoutes.                              *)
GaugesMatchTable ==
  /\ mCurrentRoutes = Cardinality(Present)
  /\ mCurrentSubscriptions =
       Cardinality(UNION {{<<p, i>> : i \in 1 .. Len(routes[p])} : p \in Paths})



(* A message in handleC, or an owner waiting for its subscription, is      *)
(* served, also when Stop comes in between, unless it arrived after the    *)
(* loop's last look at the channels.                                       *)
QueuedIsServed ==
  /\ \A m \in Messages :
       (\E i \in 1 .. Len(handleC) : handleC[i] = m) /\ lpc \in {"select", "deliver"}
         ~> lpc = "deliver" /\ cur = m
  /\ \A r \in Routes :
       opc[r] = "waiting" /\ lpc \in {"select", "deliver"} ~> opc[r] # "waiting"

(* A call of Stop returns if its value is in stopC, or with the loop, when *)
(* no route is fetching any more: whatever the loop is doing and however   *)
(* many requests are waiting, it sees the value and comes to its end.      *)
StopTerminates ==
  /\ spc = "waiting" /\ (stopC \/ stopping)
  /\ \A r \in Routes : opc[r] # "fetch"
  ~> spc = "returned"
-----------------------------------------------------------------------------
(* Stronger statements, which the code does not keep *)

(* "... delivered once, even if it is matched by multiple subscription     *)
(* paths" (README.md:436): a client, here the routes with equal params,    *)
(* gets a message through one of its routes only.                          *)
DeliveredOncePerClient ==
  \A r, s \in Routes :
    \A i \in 1 .. Len(delivered[r]), j \in 1 .. Len(delivered[s]) :
      Params[r] = Params[s] /\ delivered[r][i] = delivered[s][j] => r = s

(* "Router should handle the buffered messages also after the closing"     *)
(* (router_test.go:372): a stopped router has left nothing in handleC.     *)
StoppedMeansDrained == lpc = "stopped" => handleC = <<>>

(* "Stop stops the router by closing the stop channel, and waiting on the  *)
(* WaitGroup" (router.go:126): every call of Stop returns. Stop sends one  *)
(* value instead of closing the channel, and a fetch may take it.          *)
StopAlwaysTerminates == spc = "waiting" ~> spc = "returned"
=============================================================================
