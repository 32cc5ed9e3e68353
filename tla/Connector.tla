----------------------------- MODULE Connector ------------------------------
(***************************************************************************)
(* A connector (server/connector, with the response handlers of server/    *)
(* apns and server/fcm) and one subscription of it: Post, Delete, Start,   *)
(* Run, restart and Stop; the manager with its map and its row in the      *)
(* key-value store; the subscriber's Loop; the queue and its workers; the  *)
(* push service; crashes of the server, and a router that stops first.     *)
(*                                                                         *)
(* A subscriber object is made by Post, and by Start from the row. Its     *)
(* routes have no channel buffer: the router closes the route whenever the *)
(* Loop is not waiting for a message.                                      *)
(*                                                                         *)
(* A definition that stands right before another one, with the same        *)
(* parameters and a name that extends its name, is a mutation: it is used  *)
(* only to show that a property notices the change.                        *)
(***************************************************************************)
EXTENDS Provide

CONSTANTS
  MaxObjects,    \* bound of the model: subscriber objects made
  MaxRoutes,     \* bound of the model: routes made
  Workers,       \* workers of the queue
  FirstID,       \* published before the first Post
  Pushes,        \* what one push to the service may come to
  MaxRequests,   \* bound of the model: HTTP requests, and Stop
  MaxFailures,   \* bound of the model: failures of the router, the stores
                 \* and the service, and crashes
  RouterStops    \* the router may stop

ASSUME ConnectorAssumption ==
  /\ {MaxObjects, MaxRoutes} \subseteq Nat
  /\ Routes = 1 .. MaxRoutes
  /\ "http" \notin Workers
  /\ FirstID \in Ids
  /\ {MaxRequests, MaxFailures} \subseteq Nat
  /\ RouterStops \in BOOLEAN

VARIABLES
  mem,        \* manager.subscribers: the object, 0 if there is none
  row,        \* the row in the key-value store: LastID, or NoRow
  objs,       \* objects made so far
  routes,     \* routes made so far
  last,       \* data.LastID of each object
  route,      \* route of each object
  owner,      \* the object that made each route
  cancel,     \* the context of each Loop: "nil", "set" or "done"
  run,        \* where Run of each object is
  hand,       \* the message in Push of each object
  proc,       \* each worker, and the HTTP request: where it is (pc), the
              \* subscriber and the message in its hands (obj, msg), what the
              \* service answered, and what updateStore encoded (data)
  ctxDone,    \* c.ctx is cancelled
  queueOpen,  \* requestsC is not closed
  spc,        \* where Start and Stop are
  routerUp,
  requests, failures,
  pushed,     \* history: ids sent to the service
  missed,     \* history: ids from before the subscription, or that went past
              \* its route
  blind,      \* history: a restart had no position to fetch from, or a fetch
              \* was cut short
  torn,       \* history: the server crashed inside of a Put
  overlap,    \* history: two operations of the manager overlapped, or a new
              \* object was made with Run or Provide of another under way
  confirmed   \* history: the last request, if it has been answered

NoRow == -1
Objects == 1 .. MaxObjects
Procs == Workers \union {"http"}

mgrVars == <<mem, row>>
objVars == <<objs, routes, last, route, owner, cancel>>
runVars == <<run, hand>>
ctlVars == <<ctxDone, queueOpen, spc, routerUp>>
bounds == <<requests, failures>>
history == <<pushed, missed, blind, torn, overlap, confirmed>>
vars == <<topicVars, provVars, mgrVars, objVars, runVars, proc, ctlVars, bounds,
          history>>

RunStates == {"none", "start", "loop", "push", "unsubscribe", "unsubscribing", "restart",
              "ended"}
ProcStates == {"idle", "send", "update", "put", "create", "store", "cancel",
               "exists", "unstore", "delete"}

Idle == [pc |-> "idle", obj |-> 0, msg |-> 0, answer |-> "none", data |-> 0]

TypeOK ==
  /\ TopicTypeOK /\ ProvideTypeOK
  /\ mem \in Objects \union {0}
  /\ row \in Ids \union {0, NoRow}
  /\ objs \in Objects \union {0}
  /\ routes \in Routes \union {0}
  /\ last \in [Objects -> Ids \union {0}]
  /\ route \in [Objects -> Routes \union {0}]
  /\ owner \in [Routes -> Objects \union {0}]
  /\ cancel \in [Objects -> {"nil", "set", "done"}]
  /\ run \in [Objects -> RunStates]
  /\ hand \in [Objects -> Ids \union {0}]
  /\ proc \in [Procs -> [pc : ProcStates, obj : Objects \union {0}, msg : Ids \union {0},
                         answer : {"none", "sent", "unregistered", "other"},
                         data : Ids \union {0}]]
  /\ {ctxDone, queueOpen, routerUp, blind, torn, overlap} \subseteq BOOLEAN
  /\ spc \in {"down", "up", "queue", "wait", "stopped"}
  /\ pushed \subseteq Ids /\ missed \subseteq Ids
  /\ confirmed \in {"none", "posted", "deleted"}

Init ==
  /\ TopicInit(<<FirstID>>) /\ ProvideInit
  /\ mem = 0 /\ row = NoRow
  /\ objs = 0 /\ routes = 0
  /\ last = [o \in Objects |-> 0]
  /\ route = [o \in Objects |-> 0]
  /\ owner = [r \in Routes |-> 0]
  /\ cancel = [o \in Objects |-> "nil"]
  /\ run = [o \in Objects |-> "none"]
  /\ hand = [o \in Objects |-> 0]
  /\ proc = [p \in Procs |-> Idle]
  /\ ctxDone = FALSE /\ queueOpen = FALSE /\ spc = "down" /\ routerUp = TRUE
  /\ requests = 0 /\ failures = 0
  /\ pushed = {} /\ missed = {}
  /\ blind = FALSE /\ torn = FALSE /\ overlap = FALSE /\ confirmed = "none"

Goto(p, label) ==
  proc' = [proc EXCEPT ![p] = IF label = "idle" THEN Idle ELSE [@ EXCEPT !.pc = label]]

(* A process begins an operation of the manager. *)
InManager(p) == proc[p].pc \notin {"idle", "send"}
Enters(p) == overlap' = (overlap \/ \E q \in Procs \ {p} : InManager(q))

Fault == failures < MaxFailures /\ failures' = failures + 1
-----------------------------------------------------------------------------
(* The subscriber: its routes, Run and Loop *)

(* Loop is in its select. *)
Waiting == {route[o] : o \in {k \in Objects : run[k] = "loop"}}

(* newRoute and go Run: the route fetches from the last id on, if there is *)
(* one. The objects and routes of the model are finite.                    *)
GoRun(o, position) ==
  /\ routes + 1 \in Routes
  /\ routes' = routes + 1
  /\ route' = [route EXCEPT ![o] = routes + 1]
  /\ owner' = [owner EXCEPT ![routes + 1] = o]
  /\ ProvideStart(routes + 1, position)
  /\ run' = [run EXCEPT ![o] = "start"]

(* Until here there is no cancel function to call. *)
LoopStart(o) ==
  /\ run[o] = "start"
  /\ run' = [run EXCEPT ![o] = "loop"]
  /\ cancel' = [cancel EXCEPT ![o] = "set"]
  /\ UNCHANGED <<topicVars, provVars, mgrVars, objs, routes, last, route, owner, hand,
                 proc, ctlVars, bounds, history>>

LoopTakes(o) ==
  /\ run[o] = "loop" /\ routeC[route[o]] # <<>>
  /\ hand' = [hand EXCEPT ![o] = Head(routeC[route[o]])]
  /\ routeC' = [routeC EXCEPT ![route[o]] = Tail(@)]
  /\ run' = [run EXCEPT ![o] = "push"]
  /\ UNCHANGED <<storeVars, locked, handleC, table, closed, subC, unsubC, provVars,
                 mgrVars, objVars, proc, ctlVars, bounds, history>>

(* Push hands the request to a worker that is waiting for one. *)
Push(o, w) ==
  /\ run[o] = "push" /\ queueOpen /\ proc[w].pc = "idle"
  /\ proc' = [proc EXCEPT ![w] = [Idle EXCEPT !.pc = "send", !.obj = o, !.msg = hand[o]]]
  /\ run' = [run EXCEPT ![o] = "loop"]
  /\ hand' = [hand EXCEPT ![o] = 0]
  /\ UNCHANGED <<topicVars, provVars, mgrVars, objVars, ctlVars, bounds, history>>

(* It recovers when the queue is closed. *)
PushClosed(o) ==
  /\ run[o] = "push" /\ ~queueOpen
  /\ run' = [run EXCEPT ![o] = "loop"]
  /\ hand' = [hand EXCEPT ![o] = 0]
  /\ UNCHANGED <<topicVars, provVars, mgrVars, objVars, proc, ctlVars,
                 bounds, history>>

LoopEnds(o, next) ==
  /\ run[o] = "loop" /\ routeC[route[o]] = <<>>
  /\ run' = [run EXCEPT ![o] = IF prov[route[o]] = "error" THEN "ended" ELSE next]
  /\ cancel' = [cancel EXCEPT ![o] = "nil"]
  /\ UNCHANGED <<topicVars, provVars, mgrVars, objs, routes, last, route, owner, hand,
                 proc, ctlVars, bounds, history>>

LoopClosed(o) == route[o] \in closed /\ LoopEnds(o, "restart")
LoopStoppedWhenCancelled(o) == ctxDone /\ cancel[o] = "done" /\ LoopEnds(o, "ended")
LoopStopped(o) == ctxDone /\ LoopEnds(o, "ended")
LoopCancelled(o) == ~ctxDone /\ cancel[o] = "done" /\ LoopEnds(o, "unsubscribe")

RunUnsubscribes(o) ==
  /\ run[o] = "unsubscribe"
  /\ unsubC' = unsubC \union {route[o]}
  /\ run' = [run EXCEPT ![o] = "unsubscribing"]
  /\ UNCHANGED <<storeVars, locked, handleC, routeVars, subC, provVars, mgrVars,
                 objVars, hand, proc, ctlVars, bounds, history>>

RunUnsubscribed(o) ==
  /\ run[o] = "unsubscribing" /\ route[o] \notin unsubC
  /\ run' = [run EXCEPT ![o] = "ended"]
  /\ UNCHANGED <<topicVars, provVars, mgrVars, objVars, hand, proc, ctlVars,
                 bounds, history>>


restartWithoutProvide(o) ==
  /\ run[o] = "restart" /\ routes + 1 \in Routes
  /\ routes' = routes + 1
  /\ route' = [route EXCEPT ![o] = routes + 1]
  /\ run' = [run EXCEPT ![o] = "start"]
  /\ UNCHANGED <<topicVars, provVars, mgrVars, objs, last, owner, cancel, hand, proc,
                 ctlVars, bounds, history>>

restart(o) ==
  /\ run[o] = "restart"
  /\ GoRun(o, last[o])
  /\ blind' = (blind \/ last[o] = 0)
  /\ UNCHANGED <<topicVars, lastID, fetched, given, mgrVars, objs, last, cancel,
                 hand, proc, ctlVars, bounds, pushed, missed, torn, overlap, confirmed>>

RunStep(o) ==
  \/ LoopStart(o) \/ LoopTakes(o) \/ PushClosed(o) \/ LoopClosed(o)
  \/ LoopStopped(o) \/ LoopCancelled(o) \/ RunUnsubscribes(o) \/ RunUnsubscribed(o)
  \/ restart(o) \/ \E w \in Workers : Push(o, w)
-----------------------------------------------------------------------------
(* The goroutine in Provide of each route *)

ProvideGoesOn(r) ==
  /\ spc # "down"
  /\ prov[r] \in {"fetch", "subscribe"} => routerUp
  /\ ProvideStep(r, Waiting)
  /\ UNCHANGED <<mgrVars, objVars, runVars, proc, ctlVars, bounds, history>>

(* s.Cancel() *)
Cancel(o) == cancel' = [cancel EXCEPT ![o] = IF @ = "set" THEN "done" ELSE @]

(* An error cancels the Loop the subscriber is in by now. *)
ProvideGoesWrong(r) ==
  /\ spc # "down"
  /\ IF routerUp THEN Fault /\ ProvideFault(r)
     ELSE prov[r] \in {"fetch", "subscribe"} /\ ProvideFails(r) /\ UNCHANGED failures
  /\ IF prov'[r] = "error" THEN Cancel(owner[r]) ELSE UNCHANGED cancel
  /\ blind' = (blind \/ CutShort(r))
  /\ UNCHANGED <<mgrVars, objs, routes, last, route, owner, runVars, proc, ctlVars,
                 requests, pushed, missed, torn, overlap, confirmed>>
-----------------------------------------------------------------------------
(* The queue's workers and the push service *)

(* execute of apns/apns_sender.go: a push is tried three times while the   *)
(* network fails; Send closes the connection then, and tries once more.    *)
Execute(pushes) ==
  LET Done == {i \in 1 .. 3 : pushes[i] # "network"}
  IN  IF Done = {} THEN "ErrRetryFailed" ELSE pushes[Min(Done)]
Send(pushes) ==
  IF Execute(pushes) = "ErrRetryFailed" THEN pushes[4] ELSE Execute(pushes)

Results == {Send(pushes) : pushes \in [1 .. 4 -> Pushes]}
IsAnswer(result) == result \notin {"network", "error"}

SendFails(w) ==
  /\ proc[w].pc = "send" /\ Fault
  /\ \E result \in Results : ~IsAnswer(result)
  /\ pushed' = pushed \union {proc[w].msg}
  /\ Goto(w, "idle")
  /\ UNCHANGED <<topicVars, provVars, mgrVars, objVars, runVars, ctlVars, requests, missed, blind, torn, overlap, confirmed>>

(* HandleResponse: SetLastID, then Update. *)
SendAnswers(w) ==
  /\ proc[w].pc = "send"
  /\ \E result \in Results :
       /\ IsAnswer(result)
       /\ IF result = "sent" THEN UNCHANGED failures ELSE Fault
       /\ proc' = [proc EXCEPT ![w] = [@ EXCEPT !.pc = "update", !.msg = 0, !.answer = result]]
  /\ pushed' = pushed \union {proc[w].msg}
  /\ last' = [last EXCEPT ![proc[w].obj] = proc[w].msg]
  /\ Enters(w)
  /\ UNCHANGED <<topicVars, provVars, mgrVars, objs, routes, route, owner, cancel,
                 runVars, ctlVars, requests, missed, blind,
                 torn, confirmed>>
-----------------------------------------------------------------------------
(* The manager: Add, Update and Remove, step by step *)

MgrRest == <<topicVars, provVars, objVars, runVars, ctlVars>>

UpdateExists(p) ==
  /\ proc[p].pc = "update"
  /\ Goto(p, IF mem = 0 THEN "idle" ELSE "put")
  /\ UNCHANGED <<MgrRest, mgrVars, bounds, history>>

(* updateStore encodes the subscriber; Put deletes the row ... *)
PutDeletes(p) ==
  /\ proc[p].pc = "put"
  /\ proc' = [proc EXCEPT ![p] = [@ EXCEPT !.pc = "create", !.data = last[proc[p].obj]]]
  /\ row' = NoRow
  /\ UNCHANGED <<MgrRest, mem, bounds, history>>

(* ... and creates it, which fails if there is one again. *)
PutCreates(p) ==
  /\ proc[p].pc = "create"
  /\ IF row = NoRow THEN row' = proc[p].data /\ Goto(p, "store")
     ELSE Goto(p, "idle") /\ UNCHANGED row
  /\ UNCHANGED <<MgrRest, mem, bounds, history>>


StoreFails(p) ==
  /\ proc[p].pc \in {"put", "unstore"} /\ Fault
  /\ Goto(p, "idle")
  /\ UNCHANGED <<MgrRest, mgrVars, requests, history>>

(* Update ends. HandleResponse removes a subscriber whose device the       *)
(* service no longer knows.                                                *)
UpdateStores(w) ==
  /\ proc[w].pc = "store" /\ w \in Workers
  /\ mem' = proc[w].obj
  /\ IF proc[w].answer = "unregistered" THEN Goto(w, "cancel") /\ confirmed' = "none"
     ELSE Goto(w, "idle") /\ UNCHANGED confirmed
  /\ UNCHANGED <<MgrRest, row, bounds, pushed, missed, blind, torn, overlap>>

(* Add ends, and Post runs the subscriber. *)
AddStores ==
  /\ proc["http"].pc = "store"
  /\ mem' = proc["http"].obj
  /\ GoRun(proc["http"].obj, 0)
  /\ confirmed' = "posted"
  /\ overlap' = \/ overlap
                 \/ \E o \in Objects : run[o] \notin {"none", "ended"}
                 \/ \E r \in Routes : prov[r] \notin {"none", "ok", "error", "hung"}
  /\ missed' = missed \union ToSet(stored)
  /\ Goto("http", "idle")
  /\ UNCHANGED <<topicVars, lastID, fetched, given, row, objs, last, cancel, hand, ctlVars, bounds, pushed, blind, torn>>

RemoveCancels(p) ==
  /\ proc[p].pc = "cancel"
  /\ Cancel(proc[p].obj)
  /\ Goto(p, "exists")
  /\ UNCHANGED <<topicVars, provVars, mgrVars, objs, routes, last, route, owner, runVars,
                 ctlVars, bounds, history>>

RemoveExists(p) ==
  /\ proc[p].pc = "exists"
  /\ Goto(p, IF mem = 0 THEN "idle" ELSE "unstore")
  /\ UNCHANGED <<MgrRest, mgrVars, bounds, history>>

RemoveUnstores(p) ==
  /\ proc[p].pc = "unstore"
  /\ row' = NoRow
  /\ Goto(p, "delete")
  /\ UNCHANGED <<MgrRest, mem, bounds, history>>

RemoveDeletes(p) ==
  /\ proc[p].pc = "delete"
  /\ mem' = 0
  /\ confirmed' = "deleted"
  /\ Goto(p, "idle")
  /\ UNCHANGED <<MgrRest, row, bounds, pushed, missed, blind, torn, overlap>>

ManagerStep(p) ==
  \/ UpdateExists(p) \/ PutDeletes(p) \/ PutCreates(p) \/ UpdateStores(p)
  \/ RemoveCancels(p) \/ RemoveExists(p) \/ RemoveUnstores(p) \/ RemoveDeletes(p)
-----------------------------------------------------------------------------
(* HTTP requests: one at a time. Those that are refused change nothing. *)

(* Post: Create and Add, when there is no such subscription. *)
Post ==
  /\ spc # "down" /\ requests < MaxRequests /\ proc["http"].pc = "idle"
  /\ mem = 0 /\ objs + 1 \in Objects
  /\ objs' = objs + 1
  /\ proc' = [proc EXCEPT !["http"] = [Idle EXCEPT !.pc = "put", !.obj = objs + 1]]
  /\ requests' = requests + 1 /\ confirmed' = "none"
  /\ Enters("http")
  /\ UNCHANGED <<topicVars, provVars, mgrVars, routes, last, route, owner, cancel,
                 runVars, ctlVars, failures, pushed, missed, blind, torn>>

Delete ==
  /\ spc # "down" /\ requests < MaxRequests /\ proc["http"].pc = "idle"
  /\ mem # 0
  /\ proc' = [proc EXCEPT !["http"] = [Idle EXCEPT !.pc = "cancel", !.obj = mem]]
  /\ requests' = requests + 1 /\ confirmed' = "none"
  /\ Enters("http")
  /\ UNCHANGED <<topicVars, provVars, mgrVars, objVars, runVars,
                 ctlVars, failures, pushed, missed, blind, torn>>
-----------------------------------------------------------------------------
(* Start, Stop, the router and the rest of the server *)

(* Load, and go Run for what it found. *)
Start ==
  /\ spc = "down"
  /\ spc' = "up" /\ queueOpen' = TRUE
  /\ IF row = NoRow
     THEN UNCHANGED <<mem, objVars, run, provVars, blind>>
     ELSE /\ objs + 1 \in Objects
          /\ objs' = objs + 1 /\ mem' = objs + 1
          /\ last' = [last EXCEPT ![objs + 1] = row]
          /\ GoRun(objs + 1, row)
          /\ blind' = (blind \/ row = 0)
          /\ UNCHANGED <<cancel, lastID, fetched, given>>
  /\ UNCHANGED <<topicVars, row, hand, proc, ctxDone, routerUp, bounds, pushed, missed, torn, overlap,
                 confirmed>>

StopCancels ==
  /\ spc = "up" /\ requests < MaxRequests
  /\ requests' = requests + 1
  /\ ctxDone' = TRUE /\ spc' = "queue"
  /\ UNCHANGED <<topicVars, provVars, mgrVars, objVars, runVars, proc, queueOpen,
                 routerUp, failures, history>>

StopQueue ==
  /\ spc = "queue"
  /\ queueOpen' = FALSE /\ spc' = "wait"
  /\ UNCHANGED <<topicVars, provVars, mgrVars, objVars, runVars, proc, ctxDone,
                 routerUp, bounds, history>>

(* Both WaitGroups are down to zero. *)
StopReturns ==
  /\ spc = "wait"
  /\ \A w \in Workers : proc[w].pc = "idle"
  /\ \A o \in Objects : run[o] \in {"none", "ended"}
  /\ spc' = "stopped"
  /\ UNCHANGED <<topicVars, provVars, mgrVars, objVars, runVars, proc, ctxDone,
                 queueOpen, routerUp, bounds, history>>

(* The router stops before the connectors do, and closes its routes. *)
RouterStop ==
  /\ RouterStops /\ routerUp /\ spc # "down" /\ Fault
  /\ routerUp' = FALSE
  /\ closed' = closed \union ({table} \ {NoRoute})
  /\ UNCHANGED <<storeVars, locked, handleC, table, routeC, subC, unsubC, provVars,
                 mgrVars, objVars, runVars, proc, ctxDone, queueOpen, spc, requests,
                 history>>

Crash ==
  /\ spc # "down" /\ Fault
  /\ TopicCrash /\ ProvideCrash
  /\ mem' = 0
  /\ route' = [o \in Objects |-> 0]
  /\ owner' = [r \in Routes |-> 0]
  /\ last' = [o \in Objects |-> 0]
  /\ cancel' = [o \in Objects |-> "nil"]
  /\ run' = [o \in Objects |-> "none"]
  /\ hand' = [o \in Objects |-> 0]
  /\ proc' = [p \in Procs |-> Idle]
  /\ ctxDone' = FALSE /\ queueOpen' = FALSE /\ spc' = "down" /\ routerUp' = TRUE
  /\ torn' = (torn \/ \E p \in Procs : proc[p].pc = "create")
  /\ UNCHANGED <<row, objs, routes, requests, pushed, missed, blind, overlap, confirmed>>

(* A message goes past the subscription's route, which is not in the table *)
(* and will not fetch it.                                                  *)
NotOwed ==
  /\ handleC # <<>> /\ handleC' = Tail(handleC)
  /\ mem # 0
  /\ \/ GoesPast(route[mem])
     \/ startID[route[mem]] = 0 /\ table # route[mem]

Observed(TopicStep) ==
  /\ spc # "down" /\ routerUp
  /\ TopicStep
  /\ missed' = missed \union {id \in Ids : NotOwed /\ id = Head(handleC)}
  /\ UNCHANGED <<provVars, mgrVars, objVars, runVars, proc, ctlVars, bounds, pushed,
                 blind, torn, overlap, confirmed>>

Worker(w) == SendAnswers(w) \/ ManagerStep(w)
Request == ManagerStep("http") \/ AddStores
Stopping == StopQueue \/ StopReturns

Next ==
  \/ \E o \in Objects : RunStep(o)
  \/ \E r \in Routes : ProvideGoesOn(r) \/ ProvideGoesWrong(r)
  \/ \E w \in Workers : Worker(w) \/ SendFails(w)
  \/ \E p \in Procs : StoreFails(p)
  \/ Request \/ Post \/ Delete
  \/ Start \/ StopCancels \/ Stopping \/ RouterStop \/ Crash
  \/ Observed(TopicNext(Waiting))

Spec == Init /\ [][Next]_vars

(* What goroutines do without anything new from outside. At rest nothing   *)
(* of that is left to do: whoever still waits then, waits for ever.        *)
GoesOn ==
  \/ Observed(Loop(Waiting) \/ PublisherGoesOn)
  \/ \E r \in Routes : ProvideGoesOn(r) \/ (~routerUp /\ ProvideGoesWrong(r))
  \/ \E o \in Objects : RunStep(o)
  \/ \E w \in Workers : Worker(w)
  \/ Request \/ Stopping

AtRest == ~ENABLED GoesOn

(* Under fairness of all goroutines together. *)
FairSpec == Spec /\ WF_vars(GoesOn)
-----------------------------------------------------------------------------
(* Properties *)

(* The position in the row never passes over a message that was owed to    *)
(* the subscription and not sent to the service: closed routes, restarts,  *)
(* failing calls and crashes lead back to it, unless a restart had no      *)
(* position yet or a fetch was cut short, or an object of the subscription *)
(* that was deleted still had a goroutine when the next was made.          *)
OnlyHandOverLoses ==
  ~blind /\ ~overlap => \A id \in ToSet(stored) : id <= row => id \in pushed \union missed


(* A subscriber that waits for messages does not wait in vain: its route   *)
(* is open and in the router's table. A route the router closed is drained *)
(* and comes back, unless Provide fails, the router stops, or an object of *)
(* the subscription that was deleted still had a goroutine.                *)
Listening ==
  \A o \in Objects :
    run[o] \in {"start", "loop", "push"} /\ ~overlap /\ AtRest =>
      \/ table = route[o] /\ route[o] \notin closed
      \/ ~routerUp \/ prov[route[o]] \in {"error", "hung"}

OutOfRoutes(o) == run[o] = "restart" /\ routes = MaxRoutes   \* bound of the model

(* Stop does not wait for ever, whatever the loops and the workers were in *)
(* the middle of, unless a removed subscriber is unsubscribing from a      *)
(* router that has stopped before; nor does a Loop that is cancelled go    *)
(* on, even if it is in Push, or its worker is the one that cancels it.    *)
StopAndCancelEnd ==
  AtRest =>
    /\ \A o \in Objects : cancel[o] # "done"
    /\ spc = "wait" =>
         \/ ~routerUp /\ \E o \in Objects : run[o] = "unsubscribing"
         \/ \E o \in Objects : OutOfRoutes(o)

(* Stronger, and not so: a subscriber that is removed is unsubscribed. The *)
(* router may have closed the route, and then Run restarts.                *)
CancelUnsubscribes ==
  \A o \in Objects :
    cancel[o] = "done" ~> run[o] \in {"none", "unsubscribing", "ended"}
=============================================================================
