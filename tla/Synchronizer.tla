---------------------------- MODULE Synchronizer ----------------------------
(***************************************************************************)
(* Replication of one partition in a cluster (server/cluster): every node  *)
(* broadcasts the messages it received from its clients, and a node that   *)
(* meets another one asks it, once, for the messages between its own       *)
(* newest one and the newest one the other announced.                      *)
(*                                                                         *)
(* The network (hashicorp/memberlist over TCP, external) opens a connection *)
(* per message and handles each in a goroutine of its own: messages        *)
(* overtake one another. A store is the sorted index of one file, in which *)
(* an id that is stored twice stands twice. Encoding and decoding keep the *)
(* fields of a message and are left out.                                   *)
(*                                                                         *)
(* A definition that stands right before another one, with the same        *)
(* parameters and a name that extends its name, is a mutation: it is used  *)
(* only to show that a property notices the change.                        *)
(***************************************************************************)
EXTENDS Integers, FiniteSets, FiniteSetsExt, Sequences, SequencesExt

CONSTANTS
  Nodes,         \* the ids of the nodes, not 0
  Ids,           \* message ids
  Owner,         \* the node whose client publishes the message
  Scenarios,     \* what a behaviour starts with, see below
  Buffer         \* syncPartitionsProcessBuffer

(* A scenario: the nodes that take part, those that met before anything    *)
(* was published, the nodes that hold each message at the start, the       *)
(* messages still to be published, and a bound on losses, overtakings,     *)
(* failures, crashes and stops.                                            *)
ASSUME SynchronizerAssumption ==
  /\ Nodes \subseteq Nat \ {0} /\ Ids \subseteq Nat \ {0}
  /\ Owner \in [Ids -> Nodes] /\ Buffer \in Nat \ {0}
  /\ \A s \in Scenarios :
       /\ s.nodes \subseteq Nodes /\ s.met \subseteq s.nodes
       /\ s.held \in [Ids -> SUBSET s.nodes]
       /\ s.new \subseteq {i \in Ids : Owner[i] \in s.nodes /\ s.held[i] = {}}
       /\ s.faults \in Nat

VARIABLES
  ppc,           \* a message: new, stored by its owner, or broadcast
  stored,        \* the ids in the index of the partition, per node
  members,       \* memberlist.Members() without the node itself
  known,         \* the keys of synchronizer.nodes
  created,       \* whether the partition exists on the node
  spNodes,       \* syncPartition.nodes: the announced MaxID per node, 0 if absent
  lastID,        \* syncPartition.lastID
  processC,      \* syncPartition.processC
  running,       \* syncPartition.running
  runs,          \* the goroutine that addNode(m) on n starts
  blocked,       \* handlers of n waiting on processC, with the read lock
  serving,       \* the requestLoops
  net,           \* messages on their way
  stopped,       \* nodes whose cluster module is not running
  faults,        \* the faults that may still happen
  disturbed,     \* history: a fault has happened
  owed,          \* history: what m's answers to n's requests have to contain
  raced          \* history: nodes that had two loops at a time

syncVars == <<known, created, spNodes, lastID, processC, running, runs, blocked>>
ghostVars == <<owed, raced>>
faultVars == <<faults, disturbed>>
vars == <<ppc, stored, members, syncVars, serving, net, stopped, faultVars, ghostVars>>

IdsOf(n) == ToSet(stored[n])
MaxMessageID(n) == IF stored[n] = <<>> THEN 0 ELSE Last(stored[n])

NoRun == [pc |-> "none", max |-> 0]
Runs == [pc : {"none", "check", "set", "start", "loop", "done"}, max : Ids \union {0}]

(* synchronizer.syncPartitions has the partition. *)
Synchronised(n) == \E m \in Nodes : runs[n][m].pc # "none"

Partitions == [type : {"partitions"}, from : Nodes, to : Nodes, max : Ids \union {-1, 0}]
Requests == [type : {"request"}, from : Nodes, to : Nodes, run : Nodes,
             start : Ids \union {0}, end : Ids]
SyncMessages == [type : {"sync"}, from : Nodes, to : Nodes, run : Nodes, id : Ids, left : Nat]
GubleMessages == [type : {"guble"}, from : Nodes, to : Nodes, id : Ids]

TypeOK ==
  /\ ppc \in [Ids -> {"new", "stored", "sent"}]
  /\ \A n \in Nodes :
       /\ \A k \in 1 .. Len(stored[n]) :
            stored[n][k] \in Ids /\ (k > 1 => stored[n][k - 1] <= stored[n][k])
       /\ n \notin members[n] /\ members[n] \subseteq Nodes /\ known[n] \subseteq Nodes
       /\ spNodes[n] \in [Nodes -> Ids \union {0}]
       /\ lastID[n] \in Ids \union {0}
       /\ Len(processC[n]) <= Buffer /\ ToSet(processC[n]) \subseteq Ids
       /\ blocked[n] \subseteq SyncMessages
       /\ running[n] \in BOOLEAN /\ created[n] \in BOOLEAN
       /\ owed[n] \in [Nodes -> SUBSET Ids]
       /\ \A m \in Nodes : runs[n][m] \in Runs /\ (runs[n][m].pc # "none" => m \in known[n])
  /\ net \subseteq Partitions \union Requests \union SyncMessages \union GubleMessages
  /\ stopped \subseteq Nodes /\ raced \subseteq Nodes
  /\ faults \in Nat /\ disturbed \in BOOLEAN
-----------------------------------------------------------------------------
(* New and Cluster.Start on every node; the stores hold what was published *)
(* before. Nodes that met then announced to one another that they have no  *)
(* partition.                                                              *)
Init ==
  /\ \E sc \in Scenarios :
       /\ ppc = [i \in Ids |-> IF i \in sc.new THEN "new" ELSE "sent"]
       /\ stored = [n \in Nodes |-> SetToSortSeq({i \in Ids : n \in sc.held[i]}, <)]
       /\ members = [n \in Nodes |-> IF n \in sc.met THEN sc.met \ {n} ELSE {}]
       /\ stopped = Nodes \ sc.nodes
       /\ faults = sc.faults
  /\ known = members
  /\ created = [n \in Nodes |-> stored[n] # <<>>]
  /\ spNodes = [n \in Nodes |-> [m \in Nodes |-> 0]]
  /\ lastID = [n \in Nodes |-> 0] /\ processC = [n \in Nodes |-> <<>>]
  /\ running = [n \in Nodes |-> FALSE]
  /\ runs = [n \in Nodes |-> [m \in Nodes |-> NoRun]]
  /\ blocked = [n \in Nodes |-> {}]
  /\ serving = {} /\ net = {} /\ disturbed = FALSE
  /\ owed = [n \in Nodes |-> [m \in Nodes |-> {}]] /\ raced = {}
-----------------------------------------------------------------------------
(* Publishing: Router.HandleMessage for a client's message *)

(* store: the index stays sorted, an id that is there already stays too. *)
Insert(n, id) ==
  LET Upto(k) == k <= id
      Above(k) == k > id
  IN  [stored EXCEPT ![n] = SelectSeq(@, Upto) \o <<id>> \o SelectSeq(@, Above)]

(* HandleMessage stores the message under the next id of this node. *)
Publish(id) ==
  LET n == Owner[id] IN
  /\ ppc[id] = "new" /\ n \notin stopped
  /\ \A k \in Ids : k < id /\ Owner[k] = n => ppc[k] # "new"
  /\ ppc' = [ppc EXCEPT ![id] = "stored"]
  /\ stored' = Insert(n, id)
  /\ created' = [created EXCEPT ![n] = TRUE]
  /\ UNCHANGED <<members, known, spNodes, lastID, processC, running, runs, blocked,
                 serving, net, stopped, faultVars, ghostVars>>

(* go BroadcastMessage: to everybody who is a member by now. *)
BroadcastMessageToKnown(id) ==
  LET n == Owner[id] IN
  /\ ppc[id] = "stored"
  /\ ppc' = [ppc EXCEPT ![id] = "sent"]
  /\ net' = net \union {[type |-> "guble", from |-> n, to |-> m, id |-> id] :
                        m \in members[n] \intersect known[n]}
  /\ UNCHANGED <<stored, members, syncVars, serving, stopped, faultVars, ghostVars>>

BroadcastMessage(id) ==
  LET n == Owner[id] IN
  /\ ppc[id] = "stored"
  /\ ppc' = [ppc EXCEPT ![id] = "sent"]
  /\ net' = net \union {[type |-> "guble", from |-> n, to |-> m, id |-> id] :
                        m \in members[n]}
  /\ UNCHANGED <<stored, members, syncVars, serving, stopped, faultVars, ghostVars>>

(* handleGubleMessage: HandleMessage keeps the id another node gave. *)
handleGubleMessage(msg) ==
  LET n == msg.to IN
  /\ msg.type = "guble" /\ n \notin stopped
  /\ net' = net \ {msg}
  /\ stored' = Insert(n, msg.id)
  /\ created' = [created EXCEPT ![n] = TRUE]
  /\ UNCHANGED <<ppc, members, known, spNodes, lastID, processC, running, runs, blocked,
                 serving, stopped, faultVars, ghostVars>>
-----------------------------------------------------------------------------
(* Meeting another node *)

(* memberlist adds m to the members of n and calls NotifyJoin, holding the *)
(* lock that Members() takes; sendPartitions tells m what n has, unless m  *)
(* told it before.                                                         *)
NotifyJoin(n, m) ==
  /\ n # m /\ m \notin members[n] /\ {n, m} \intersect stopped = {}
  /\ members' = [members EXCEPT ![n] = @ \union {m}]
  /\ net' = IF m \in known[n] THEN net
            ELSE net \union {[type |-> "partitions", from |-> n, to |-> m,
                              max |-> IF created[n] THEN MaxMessageID(n) ELSE -1]}
  /\ UNCHANGED <<ppc, stored, syncVars, serving, stopped, faultVars, ghostVars>>

(* handleSyncPartitions and sync: the first announcement of a node is      *)
(* added (addNode, which needs the write lock) and starts a goroutine.     *)
handleSyncPartitions(msg) ==
  LET n == msg.to IN
  /\ msg.type = "partitions" /\ n \notin stopped
  /\ net' = net \ {msg}
  /\ IF msg.from \in known[n] THEN UNCHANGED syncVars
     ELSE /\ blocked[n] = {}
          /\ known' = [known EXCEPT ![n] = @ \union {msg.from}]
          /\ IF msg.max = -1 THEN UNCHANGED <<created, spNodes, lastID, runs>>
             ELSE /\ created' = [created EXCEPT ![n] = TRUE]
                  /\ spNodes' = [spNodes EXCEPT ![n][msg.from] = msg.max]
                  /\ lastID' = IF Synchronised(n) THEN lastID
                             ELSE [lastID EXCEPT ![n] = MaxMessageID(n)]
                  /\ runs' = [runs EXCEPT ![n][msg.from].pc = "check"]
          /\ UNCHANGED <<processC, running, blocked>>
  /\ UNCHANGED <<ppc, stored, members, serving, stopped, faultVars, ghostVars>>
-----------------------------------------------------------------------------
(* The loop of a partition: syncPartition.run *)

(* run returns if another goroutine is running; reading the flag and       *)
(* setting it are two steps.                                               *)
runChecks(n, m) ==
  /\ runs[n][m].pc = "check"
  /\ runs' = [runs EXCEPT ![n][m].pc = IF running[n] THEN "done" ELSE "set"]
  /\ UNCHANGED <<ppc, stored, members, known, created, spNodes, lastID, processC, running,
                 blocked, serving, net, stopped, faultVars, ghostVars>>

(* maxIDNode: a node that announced the highest id; 0 if nobody has one.   *)
maxIDNode(n) ==
  LET max == Max({spNodes[n][m] : m \in Nodes})
  IN  IF max = 0 THEN {0} ELSE {m \in Nodes : spNodes[n][m] = max}

setRunning(n, m) ==
  /\ runs[n][m].pc = "set"
  /\ runs' = [runs EXCEPT ![n][m].pc = "start"]
  /\ running' = [running EXCEPT ![n] = TRUE]
  /\ raced' = IF \E k \in Nodes : runs[n][k].pc \in {"start", "loop"}
              THEN raced \union {n} ELSE raced
  /\ UNCHANGED <<ppc, stored, members, known, created, spNodes, lastID, processC, blocked,
                 serving, net, stopped, faultVars, owed>>

(* The request of loop, for everything from lastID on; loop gives up if    *)
(* that node is no member.                                                 *)
loopRequests(n, m) ==
  /\ runs[n][m].pc = "start"
  /\ \E node \in maxIDNode(n) :
       IF node \in members[n]
       THEN LET max == spNodes[n][node] IN
            /\ runs' = [runs EXCEPT ![n][m] = [pc |-> "loop", max |-> max]]
            /\ net' = net \union {[type |-> "request", from |-> n, to |-> node, run |-> m,
                                   start |-> lastID[n], end |-> max]}
            /\ UNCHANGED running
       ELSE /\ runs' = [runs EXCEPT ![n][m].pc = "done"]
            /\ running' = [running EXCEPT ![n] = FALSE]
            /\ UNCHANGED net
  /\ UNCHANGED <<ppc, stored, members, known, created, spNodes, lastID, processC, blocked,
                 serving, stopped, faultVars, ghostVars>>

(* handleSyncMessageRequest and the fetch of requestLoop: nothing, unless  *)
(* the start is 0 or between the first and the last entry; otherwise from  *)
(* the closest entry to the first one that reaches the end.                *)
Distance(a, b) == IF a > b THEN a - b ELSE b - a
fetchListsToLast(s, start, end) ==
  LET At      == 1 .. Len(s)
      Closest == {k \in At : \A j \in At : Distance(s[k], start) <= Distance(s[j], start)}
  IN  IF s = <<>> \/ (start # 0 /\ (start < s[1] \/ start > Last(s))) THEN {<<>>}
      ELSE {SubSeq(s, k, Len(s)) : k \in Closest}

fetchLists(s, start, end) ==
  LET At       == 1 .. Len(s)
      Closest  == {k \in At : \A j \in At : Distance(s[k], start) <= Distance(s[j], start)}
      LastOf(k) == Min({j \in At : j >= k /\ s[j] >= end} \union {Len(s)})
  IN  IF s = <<>> \/ (start # 0 /\ (start < s[1] \/ start > Last(s))) THEN {<<>>}
      ELSE {SubSeq(s, k, LastOf(k)) : k \in Closest}

(* requestLoop returns when the fetch has no more messages. *)
Nonempty(loops) == {s \in loops : s.rest # <<>>}

handleSyncMessageRequest(msg) ==
  LET n == msg.to IN
  /\ msg.type = "request" /\ n \notin stopped
  /\ net' = net \ {msg}
  /\ \E fetchList \in fetchLists(stored[n], msg.start, msg.end) :
       serving' = Nonempty(serving \union {[node |-> n, to |-> msg.from, run |-> msg.run,
                                            hung |-> FALSE, rest |-> fetchList]})
  /\ created' = [created EXCEPT ![n] = TRUE]
  /\ owed' = IF msg.start \in IdsOf(n) \union {0}
             THEN [owed EXCEPT ![msg.from][n] =
                     @ \union {i \in IdsOf(n) : msg.start <= i /\ i <= msg.end}]
             ELSE owed
  /\ UNCHANGED <<ppc, stored, members, known, spNodes, lastID, processC, running, runs, blocked,
                 stopped, faultVars, raced>>

(* requestLoop sends the fetched messages one by one and ends after the    *)
(* last; one that cannot be sent is skipped. stopC does not end it: the    *)
(* break leaves the select.                                                *)
requestLoop(s) ==
  /\ ~s.hung
  /\ serving' = Nonempty((serving \ {s}) \union {[s EXCEPT !.rest = Tail(@)]})
  /\ net' = IF s.to \in members[s.node]
            THEN net \union {[type |-> "sync", from |-> s.node, to |-> s.to, run |-> s.run,
                              id |-> Head(s.rest), left |-> Len(s.rest)]}
            ELSE net
  /\ UNCHANGED <<ppc, stored, members, syncVars, stopped, faultVars, ghostVars>>

Fault == faults > 0 /\ faults' = faults - 1 /\ disturbed' = TRUE

(* Another answer to the same request was sent before this one. *)
Overtakes(msg) ==
  \E k \in net \union blocked[msg.to] :
    k.type = "sync" /\ k.to = msg.to /\ k.run = msg.run /\ k.left > msg.left

(* handleSyncMessage: a message of an unknown node, or of a partition that *)
(* is not synchronised, is dropped; the handler waits while processC is    *)
(* full and keeps the read lock.                                           *)
handleSyncMessage(msg) ==
  LET n == msg.to IN
  /\ msg.type = "sync" /\ n \notin stopped
  /\ IF Overtakes(msg) THEN Fault ELSE UNCHANGED faultVars
  /\ net' = net \ {msg}
  /\ IF msg.from \notin known[n] \/ ~Synchronised(n)
     THEN UNCHANGED <<processC, blocked>>
     ELSE IF Len(processC[n]) < Buffer
     THEN /\ processC' = [processC EXCEPT ![n] = Append(@, msg.id)]
          /\ UNCHANGED blocked
     ELSE /\ blocked' = [blocked EXCEPT ![n] = @ \union {msg}]
          /\ UNCHANGED processC
  /\ UNCHANGED <<ppc, stored, members, known, created, spNodes, lastID, running, runs, serving,
                 stopped, ghostVars>>

syncMessageGoesOn(n, msg) ==
  /\ Len(processC[n]) < Buffer
  /\ IF Overtakes(msg) THEN Fault ELSE UNCHANGED faultVars
  /\ processC' = [processC EXCEPT ![n] = Append(@, msg.id)]
  /\ blocked' = [blocked EXCEPT ![n] = @ \ {msg}]
  /\ UNCHANGED <<ppc, stored, members, known, created, spNodes, lastID, running, runs, serving,
                 net, stopped, ghostVars>>

(* loop stores what it takes from processC and ends with the message that  *)
(* has the announced id, or a later one.                                   *)
loopTakesEndsEarly(n, m) ==
  /\ runs[n][m].pc = "loop" /\ processC[n] # <<>>
  /\ processC' = [processC EXCEPT ![n] = Tail(@)]
  /\ stored' = Insert(n, Head(processC[n]))
  /\ lastID' = [lastID EXCEPT ![n] = Head(processC[n])]
  /\ IF Head(processC[n]) >= lastID[n]
     THEN /\ runs' = [runs EXCEPT ![n][m].pc = "done"]
          /\ running' = [running EXCEPT ![n] = FALSE]
     ELSE UNCHANGED <<runs, running>>
  /\ UNCHANGED <<ppc, members, known, created, spNodes, blocked, serving, net, stopped, faultVars,
                 ghostVars>>

loopTakes(n, m) ==
  /\ runs[n][m].pc = "loop" /\ processC[n] # <<>>
  /\ processC' = [processC EXCEPT ![n] = Tail(@)]
  /\ stored' = Insert(n, Head(processC[n]))
  /\ lastID' = [lastID EXCEPT ![n] = Head(processC[n])]
  /\ IF Head(processC[n]) >= runs[n][m].max
     THEN /\ runs' = [runs EXCEPT ![n][m].pc = "done"]
          /\ running' = [running EXCEPT ![n] = FALSE]
     ELSE UNCHANGED <<runs, running>>
  /\ UNCHANGED <<ppc, members, known, created, spNodes, blocked, serving, net, stopped, faultVars,
                 ghostVars>>


loopStops(n, m) ==
  /\ n \in stopped /\ runs[n][m].pc = "loop"
  /\ runs' = [runs EXCEPT ![n][m].pc = "done"]
  /\ running' = [running EXCEPT ![n] = FALSE]
  /\ UNCHANGED <<ppc, stored, members, known, created, spNodes, lastID, processC, blocked,
                 serving, net, stopped, faultVars, ghostVars>>
-----------------------------------------------------------------------------
(* What goes wrong, besides messages that overtake one another *)

(* A message is lost: the connection breaks, or cannot be opened. *)
Lose(msg) ==
  /\ Fault
  /\ net' = net \ {msg}
  /\ UNCHANGED <<ppc, stored, members, syncVars, serving, stopped, ghostVars>>

(* Sending the request fails, and loop returns. *)
loopRequestFails(n, m) ==
  /\ Fault
  /\ runs[n][m].pc = "start"
  /\ runs' = [runs EXCEPT ![n][m].pc = "done"]
  /\ running' = [running EXCEPT ![n] = FALSE]
  /\ UNCHANGED <<ppc, stored, members, known, created, spNodes, lastID, processC, blocked,
                 serving, net, stopped, ghostVars>>

(* store.Store fails: the error is logged and lastID moves on all the same. *)
loopStoreFails(n, m) ==
  /\ Fault
  /\ runs[n][m].pc = "loop" /\ processC[n] # <<>>
  /\ processC' = [processC EXCEPT ![n] = Tail(@)]
  /\ lastID' = [lastID EXCEPT ![n] = Head(processC[n])]
  /\ IF Head(processC[n]) >= runs[n][m].max
     THEN /\ runs' = [runs EXCEPT ![n][m].pc = "done"]
          /\ running' = [running EXCEPT ![n] = FALSE]
     ELSE UNCHANGED <<runs, running>>
  /\ UNCHANGED <<ppc, stored, members, known, created, spNodes, blocked, serving, net, stopped,
                 ghostVars>>

(* The fetch fails: nobody receives from ErrorC, and requestLoop waits for *)
(* a message for ever.                                                     *)
requestLoopHangs(s) ==
  /\ Fault
  /\ ~s.hung
  /\ serving' = (serving \ {s}) \union {[s EXCEPT !.hung = TRUE]}
  /\ UNCHANGED <<ppc, stored, members, syncVars, net, stopped, ghostVars>>

(* Cluster.Stop: the other nodes lose the member, what is sent to it is    *)
(* not received any more.                                                  *)
Stop(n) ==
  /\ Fault
  /\ n \notin stopped
  /\ stopped' = stopped \union {n}
  /\ members' = [m \in Nodes |-> members[m] \ {n}]
  /\ net' = {msg \in net : msg.to # n}
  /\ UNCHANGED <<ppc, stored, syncVars, serving, ghostVars>>

(* The process dies (concurrent use of syncPartition.nodes by addNode and  *)
(* maxIDNode is one reason) and starts again with what is in its store.    *)
(* The other nodes notice that it left, and keep their synchronizer.nodes. *)
Crash(n) ==
  /\ Fault
  /\ n \notin stopped
  /\ members' = [m \in Nodes |-> IF m = n THEN {} ELSE members[m] \ {n}]
  /\ net' = {msg \in net : msg.to # n}
  /\ serving' = {s \in serving : s.node # n}
  /\ ppc' = [i \in Ids |-> IF Owner[i] = n /\ ppc[i] = "stored" THEN "sent" ELSE ppc[i]]
  /\ known' = [known EXCEPT ![n] = {}]
  /\ created' = [created EXCEPT ![n] = stored[n] # <<>>]
  /\ spNodes' = [spNodes EXCEPT ![n] = [m \in Nodes |-> 0]]
  /\ lastID' = [lastID EXCEPT ![n] = 0]
  /\ processC' = [processC EXCEPT ![n] = <<>>]
  /\ running' = [running EXCEPT ![n] = FALSE]
  /\ runs' = [runs EXCEPT ![n] = [m \in Nodes |-> NoRun]]
  /\ blocked' = [blocked EXCEPT ![n] = {}]
  /\ UNCHANGED <<stored, stopped, ghostVars>>
-----------------------------------------------------------------------------
Handle(msg) ==
  \/ handleGubleMessage(msg) \/ handleSyncPartitions(msg)
  \/ handleSyncMessageRequest(msg) \/ handleSyncMessage(msg)

Run(n, m) ==
  \/ runChecks(n, m) \/ setRunning(n, m) \/ loopRequests(n, m)
  \/ loopTakes(n, m) \/ loopStops(n, m)

(* What the nodes do by themselves; the clients and the membership change  *)
(* from outside.                                                           *)
GoesOn ==
  \/ \E id \in Ids : BroadcastMessage(id)
  \/ \E msg \in net : Handle(msg)
  \/ \E s \in serving : requestLoop(s)
  \/ \E n \in Nodes : \E msg \in blocked[n] : syncMessageGoesOn(n, msg)
  \/ \E n, m \in Nodes : Run(n, m)

GoesWrong ==
  \/ \E msg \in net : Lose(msg)
  \/ \E n, m \in Nodes : loopRequestFails(n, m) \/ loopStoreFails(n, m)
  \/ \E s \in serving : requestLoopHangs(s)
  \/ \E n \in Nodes : Stop(n) \/ Crash(n)

Next ==
  \/ GoesOn
  \/ \E id \in Ids : Publish(id)
  \/ \E n, m \in Nodes : NotifyJoin(n, m)
  \/ GoesWrong

Spec == Init /\ [][Next]_vars
-----------------------------------------------------------------------------
AtRest == ~ENABLED GoesOn

(* Nothing has gone wrong, and n never had two loops at a time. *)
Undisturbed(n) == ~disturbed /\ n \notin raced

(* A node that asks for the messages from its newest one on gets them all  *)
(* from a node that has that one, and its loop ends: loop does not return  *)
(* before the last one is stored (loop, requestLoop, syncMessage).         *)
CatchUp ==
  AtRest => \A n, m \in Nodes : Undisturbed(n) =>
    /\ owed[n][m] \subseteq IdsOf(n)
    /\ owed[n][m] # {} => ~running[n]

(* Nothing that a node publishes falls between the announcement it sends   *)
(* to a joining node and the broadcasts that node gets from then on: once  *)
(* everything has been handled, whoever caught up with it has all its      *)
(* messages (NotifyJoin, HandleMessage, BroadcastMessage).                 *)
JoinHandOver ==
  AtRest => \A n, m \in Nodes : Undisturbed(n) /\ owed[n][m] # {} =>
    {i \in IdsOf(m) : Owner[i] = m /\ i >= Min(owed[n][m])} \subseteq IdsOf(n)

(* The handlers of memberlist's messages do not pile up behind a full      *)
(* processC, which would keep the lock of the synchronizer (syncMessage).  *)
HandlersReturn ==
  AtRest => \A n \in Nodes : Undisturbed(n) => blocked[n] = {}


(* "Each nodes job is to ask the messages it's missing from own store"     *)
(* (loop): when nothing went wrong, a node that asked another one ends up  *)
(* with all its messages up to the newest one that it announced.           *)
AsksForMissing ==
  AtRest /\ ~disturbed => \A n, m, k \in Nodes :
    runs[n][k].max # 0 /\ runs[n][k].max = spNodes[n][m]
    => {i \in IdsOf(m) : i <= spNodes[n][m]} \subseteq IdsOf(n)
=============================================================================
