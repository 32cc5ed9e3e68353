------------------------------- MODULE Topic --------------------------------
(***************************************************************************)
(* One topic as a subscriber meets it: publishers in Router.HandleMessage, *)
(* the partition that stores their messages, and the router's loop with    *)
(* the one entry of its table that the subscriber's routes share (they all *)
(* have the same path and parameters, so each replaces the one before).    *)
(* Receiver extends this module with a subscriber, Provide with a route's  *)
(* way into the table.                                                     *)
(*                                                                         *)
(* Router, Route and MessagePartition have the inside of what is atomic    *)
(* here: serving one message, and computing the list of a fetch.           *)
(***************************************************************************)
EXTENDS Integers, FiniteSets, FiniteSetsExt, Sequences, SequencesExt

CONSTANTS
  Ids,           \* ids of the messages to be published
  Routes,        \* route objects of the subscriber, all equal
  NoRoute,       \* the table has no entry
  ChannelSize,   \* RouteConfig.ChannelSize
  HandleCap,     \* handleChannelCapacity
  PerFile,       \* messagesPerFile
  Ordered,       \* one publisher at a time
  MayRefuse      \* the router may refuse a request: no permission, or stopping

ASSUME TopicAssumption ==
  /\ Ids \subseteq Nat \ {0}
  /\ NoRoute \notin Routes
  /\ ChannelSize \in Nat
  /\ HandleCap \in Nat
  /\ PerFile \in Nat \ {0}
  /\ Ordered \in BOOLEAN
  /\ MayRefuse \in BOOLEAN

VARIABLES
  ppc,       \* the publisher of each id
  stored,    \* ids in the partition, in the order of their Store
  locked,    \* a subscriber holds the partition's lock, in DoInTx
  handleC,   \* messages waiting for the router's loop
  table,     \* the subscriber's entry of the routing table
  subC,      \* routes in Subscribe, waiting for the loop
  unsubC,    \* routes in Unsubscribe, waiting for the loop
  closed,    \* closed routes
  routeC     \* messages in each route's channel

storeVars == <<ppc, stored>>
routeVars == <<table, closed, routeC>>
topicVars == <<storeVars, locked, handleC, routeVars, subC, unsubC>>

PublisherStates == {"new", "gen", "stored", "queued"}

TopicTypeOK ==
  /\ ppc \in [Ids -> PublisherStates]
  /\ stored \in Seq(Ids)
  /\ locked \in BOOLEAN
  /\ handleC \in Seq(Ids)
  /\ table \in Routes \union {NoRoute}
  /\ subC \subseteq Routes
  /\ unsubC \subseteq Routes
  /\ closed \subseteq Routes
  /\ routeC \in [Routes -> Seq(Ids)]

(* History is what was published before the subscriber came. *)
TopicInit(history) ==
  /\ ppc = [id \in Ids |-> IF id \in ToSet(history) THEN "queued" ELSE "new"]
  /\ stored = history
  /\ locked = FALSE
  /\ handleC = <<>>
  /\ table = NoRoute
  /\ subC = {} /\ unsubC = {} /\ closed = {}
  /\ routeC = [r \in Routes |-> <<>>]
-----------------------------------------------------------------------------
(* The partition *)

MaxMessageID == IF stored = <<>> THEN 0 ELSE Max(ToSet(stored))

(* The ids in file f: a file is full after PerFile messages, and the last  *)
(* one is the list in memory.                                              *)
LastFile == (Len(stored) + PerFile - 1) \div PerFile
File(f) ==
  {stored[k] : k \in PerFile * (f - 1) + 1 .. Min({PerFile * f, Len(stored)})}

(* A request is [start, dir, count]. The range of the file holds the start; *)
(* backward, a full file need only begin before it.                        *)
FileContains(f, req) ==
  \/ req.start = 0
  \/ /\ \E id \in File(f) : id <= req.start
     /\ (f = LastFile \/ req.dir = 1) => \E id \in File(f) : req.start <= id

(* extract: from the entry closest to the start on, count entries. *)
Distance(a, b) == IF a > b THEN a - b ELSE b - a
Closest(ids, start) ==
  CHOOSE id \in ids : \A k \in ids : Distance(id, start) <= Distance(k, start)
Extract(ids, req) ==
  LET Run == IF req.dir = 1 THEN {k \in ids : k >= Closest(ids, req.start)}
             ELSE {k \in ids : k <= Closest(ids, req.start)}
      Before(k) == IF req.dir = 1 THEN {j \in Run : j < k} ELSE {j \in Run : j > k}
  IN  {k \in Run : Cardinality(Before(k)) < req.count}

(* The files calculateFetchList looks into: those that contain the start,  *)
(* and those that follow one of them while entries are missing.            *)
FilesOf(req) ==
  LET Scan[f \in 0 .. LastFile] ==
        IF f = 0 THEN [ids |-> {}, prev |-> FALSE]
        ELSE IF \/ FileContains(f, req)
                \/ Scan[f - 1].prev /\ Cardinality(Scan[f - 1].ids) < req.count
             THEN [ids |-> Scan[f - 1].ids \union Extract(File(f), req), prev |-> TRUE]
             ELSE [ids |-> Scan[f - 1].ids, prev |-> FALSE]
  IN  {f \in 1 .. LastFile : Scan[f].prev}

(* calculateFetchList: out of what these files give, the entries asked     *)
(* for. A request that starts at 0 is turned forward by the first full     *)
(* file. The list is sent in ascending order in either direction.          *)
FetchList(asked) ==
  LET req == IF asked.start = 0 /\ LastFile > 1 THEN [asked EXCEPT !.dir = 1] ELSE asked
  IN  Extract(UNION {Extract(File(f), req) : f \in FilesOf(req)}, req)
-----------------------------------------------------------------------------
(* Publishers: Router.HandleMessage and FileMessageStore.StoreMessage *)

(* generateNextMsgID hands out increasing ids under the partition's lock.  *)
(* The message is stored, and put in handleC, later.                       *)
Generate(id) ==
  /\ ppc[id] = "new" /\ ~locked
  /\ \A k \in Ids : k < id => ppc[k] # "new"
  /\ Ordered => \A k \in Ids : k < id => ppc[k] = "queued"
  /\ ppc' = [ppc EXCEPT ![id] = "gen"]
  /\ UNCHANGED <<stored, locked, handleC, routeVars, subC, unsubC>>

Store(id) ==
  /\ ppc[id] = "gen" /\ ~locked
  /\ stored' = Append(stored, id)
  /\ ppc' = [ppc EXCEPT ![id] = "stored"]
  /\ UNCHANGED <<locked, handleC, routeVars, subC, unsubC>>

Enqueue(id) ==
  /\ ppc[id] = "stored" /\ Len(handleC) < HandleCap
  /\ handleC' = Append(handleC, id)
  /\ ppc' = [ppc EXCEPT ![id] = "queued"]
  /\ UNCHANGED <<stored, locked, routeVars, subC, unsubC>>

Publisher(id) == Generate(id) \/ Store(id) \/ Enqueue(id)
-----------------------------------------------------------------------------
(* The router's loop *)

(* A route has room in its channel, or hands over to a reader that waits   *)
(* in its receive (which takes the message in its next step).              *)
HasRoom(r, waiting) ==
  Len(routeC[r]) < ChannelSize \/ (r \in waiting /\ routeC[r] = <<>>)

(* The route in the table gets the message; it is closed when it has no    *)
(* room, and leaves the table when it was closed before.                   *)
LoopMessage(waiting) ==
  /\ handleC # <<>>
  /\ handleC' = Tail(handleC)
  /\ \/ table = NoRoute /\ UNCHANGED routeVars
     \/ table \in closed /\ table' = NoRoute /\ UNCHANGED <<closed, routeC>>
     \/ /\ table \in Routes \ closed /\ HasRoom(table, waiting)
        /\ routeC' = [routeC EXCEPT ![table] = Append(@, Head(handleC))]
        /\ UNCHANGED <<table, closed>>
     \/ /\ table \in Routes \ closed /\ ~HasRoom(table, waiting)
        /\ closed' = closed \union {table}
        /\ UNCHANGED <<table, routeC>>
  /\ UNCHANGED <<storeVars, locked, subC, unsubC>>

LoopSubscribe ==
  /\ \E r \in subC : table' = r /\ subC' = subC \ {r}
  /\ UNCHANGED <<storeVars, locked, handleC, closed, routeC, unsubC>>

(* Unsubscribe removes the equal route, whichever object it is. *)
LoopUnsubscribe ==
  /\ \E r \in unsubC : unsubC' = unsubC \ {r}
  /\ table' = NoRoute
  /\ UNCHANGED <<storeVars, locked, handleC, closed, routeC, subC>>

Loop(waiting) == LoopMessage(waiting) \/ LoopSubscribe \/ LoopUnsubscribe

TopicNext(waiting) == Loop(waiting) \/ \E id \in Ids : Publisher(id)

(* A crash of the process: the partition is what survives. A publisher     *)
(* that was under way is gone.                                             *)
TopicCrash ==
  /\ ppc' = [id \in Ids |-> IF ppc[id] = "new" THEN "new" ELSE "queued"]
  /\ locked' = FALSE
  /\ handleC' = <<>>
  /\ table' = NoRoute
  /\ subC' = {} /\ unsubC' = {} /\ closed' = {}
  /\ routeC' = [r \in Routes |-> <<>>]
  /\ UNCHANGED stored

(* A message whose HandleMessage has begun goes on; the partition's lock   *)
(* and a place in handleC come to those who wait.                          *)
PublisherGoesOn == \E id \in Ids : Store(id) \/ Enqueue(id)
=============================================================================
