------------------------------ MODULE Receiver ------------------------------
(***************************************************************************)
(* A websocket client and its receiver (server/websocket): the receiver    *)
(* goroutine, which fetches, subscribes under the partition's lock and     *)
(* forwards the messages of its route; the send loop and the receive loop  *)
(* of the connection; the client, who cancels, publishes or goes away.     *)
(*                                                                         *)
(* Every send to sendChannel may block: "pend" is what the receiver is     *)
(* sending, and it takes no step while there is something in it. A         *)
(* receiver has one route at a time; it makes a new one at each subscribe, *)
(* by which time the old one is closed.                                    *)
(*                                                                         *)
(* A definition that stands right before another one, with the same        *)
(* parameters and a name that extends its name, is a mutation: it is used  *)
(* only to show that a property notices the change.                        *)
(***************************************************************************)
EXTENDS Topic

CONSTANTS
  Commands,      \* receive commands: [fetch, start, count]; count -1: none
  Histories,     \* what the topic may hold at first
  OwnIds,        \* messages this client publishes itself
  SendCap,       \* capacity of sendChannel
  FetchErrors,   \* a fetch may fail
  ConnFails      \* the connection may break

ASSUME ReceiverAssumption ==
  /\ Routes # {}
  /\ Commands \subseteq [fetch : BOOLEAN, start : Int, count : Int]
  /\ Histories \subseteq Seq(Ids)
  /\ OwnIds \subseteq Ids
  /\ SendCap \in Nat \ {0}
  /\ {FetchErrors, ConnFails} \subseteq BOOLEAN

VARIABLES
  rpc,          \* where the receiver goroutine is
  cmd,          \* the command it was made from
  doFetch, startID, lastSentID, shouldStop,
  cancelC,      \* cancelC holds a value
  from,         \* FetchRequest.StartID
  listed,       \* the fetch has sent its count to StartC
  fetched,      \* ids the fetch has still to send
  pend,         \* sequence of at most one item, blocked in a send to sendC
  sendC,        \* ws.sendChannel
  sendLoop,     \* the send loop runs
  publishing,   \* the receive loop is in handleSendCmd for it; 0: reading
  conn,         \* the connection is open
  registered    \* the receiver is in ws.receivers

R == CHOOSE r \in Routes : TRUE

fetchVars == <<from, listed, fetched>>
recVars  == <<rpc, cmd, doFetch, startID, lastSentID, shouldStop, fetchVars>>
connVars == <<sendLoop, publishing, conn, registered>>
vars == <<topicVars, recVars, cancelC, pend, sendC, connVars>>

Message(id) == [kind |-> "message", id |-> id]
Note(kind) == [kind |-> kind, id |-> 0]
Notes == {"connected", "fetch-start", "fetch-end", "subscribed-to", "canceled",
          "send", "error"}
Items == {Message(id) : id \in Ids} \union {Note(kind) : kind \in Notes}

ReceiverStates == {"none", "fetch", "fetching", "tx", "subscribe", "subscribing",
                   "confirm", "receive", "unsubscribe", "done"}

TypeOK ==
  /\ TopicTypeOK
  /\ rpc \in ReceiverStates
  /\ doFetch \in BOOLEAN
  /\ startID \in Int
  /\ lastSentID \in Nat
  /\ shouldStop \in BOOLEAN
  /\ cancelC \in BOOLEAN
  /\ from \in Nat
  /\ listed \in BOOLEAN
  /\ fetched \subseteq Ids
  /\ pend \in Seq(Items) /\ Len(pend) <= 1
  /\ sendC \in Seq(Items) /\ Len(sendC) <= SendCap
  /\ sendLoop \in BOOLEAN
  /\ publishing \in OwnIds \union {0}
  /\ conn \in BOOLEAN
  /\ registered \in BOOLEAN

Init ==
  /\ \E history \in Histories : TopicInit(history)
  /\ rpc = "none"
  /\ cmd \in Commands
  /\ doFetch = FALSE /\ startID = 0 /\ lastSentID = 0 /\ shouldStop = FALSE
  /\ cancelC = FALSE
  /\ from = 0 /\ listed = FALSE /\ fetched = {}
  /\ pend = <<>>
  /\ sendC = <<Note("connected")>>
  /\ sendLoop = TRUE /\ publishing = 0 /\ conn = TRUE /\ registered = FALSE
-----------------------------------------------------------------------------
(* The receiver goroutine *)

doSubscription == cmd.count = -1
maxCount == IF doSubscription THEN 0 ELSE cmd.count

Emit(item) == pend' = <<item>>
Ready == pend = <<>>

(* Completes a send to sendChannel. *)
SendToChannel ==
  /\ pend # <<>> /\ Len(sendC) < SendCap
  /\ sendC' = Append(sendC, Head(pend))
  /\ pend' = <<>>
  /\ UNCHANGED <<topicVars, recVars, cancelC, connVars>>

(* The head of subscriptionLoop. *)
LoopTop(stop, fetch) ==
  IF stop THEN "done" ELSE IF fetch THEN "fetch" ELSE "subscribe"

(* fetch: the request. Backward it starts at the highest id. *)
FetchRequest ==
  /\ rpc = "fetch" /\ Ready
  /\ from' = IF startID >= 0 THEN startID ELSE MaxMessageID
  /\ listed' = FALSE /\ fetched' = {}
  /\ rpc' = "fetching"
  /\ UNCHANGED <<topicVars, cmd, doFetch, startID, lastSentID, shouldStop,
                 cancelC, pend, sendC, connVars>>

AllIds == Cardinality(Ids)

(* StartC: the store has computed its list. *)
FetchStart ==
  /\ rpc = "fetching" /\ Ready /\ ~listed
  /\ listed' = TRUE
  /\ fetched' = FetchList(
       [start |-> from, dir |-> IF startID >= 0 THEN 1 ELSE -1,
        count |-> IF maxCount # 0 THEN maxCount
                  ELSE IF startID >= 0 THEN AllIds ELSE -startID])
  /\ Emit(Note("fetch-start"))
  /\ UNCHANGED <<topicVars, rpc, cmd, doFetch, startID, lastSentID, shouldStop,
                 from, cancelC, sendC, connVars>>

FetchMessage ==
  /\ rpc = "fetching" /\ Ready /\ listed
  /\ \E id \in fetched :
       /\ \A k \in fetched : id <= k
       /\ lastSentID' = id
       /\ fetched' = fetched \ {id}
       /\ Emit(Message(id))
  /\ UNCHANGED <<topicVars, rpc, cmd, doFetch, startID, shouldStop, from, listed,
                 cancelC, sendC, connVars>>

AfterFetch == IF doSubscription THEN "tx" ELSE "done"

FetchEnd ==
  /\ rpc = "fetching" /\ Ready /\ listed /\ fetched = {}
  /\ rpc' = AfterFetch
  /\ Emit(Note("fetch-end"))
  /\ UNCHANGED <<topicVars, cmd, doFetch, startID, lastSentID, shouldStop,
                 fetchVars, cancelC, sendC, connVars>>

FetchFails ==
  /\ FetchErrors /\ rpc = "fetching" /\ Ready
  /\ rpc' = "done"
  /\ Emit(Note("error"))
  /\ UNCHANGED <<topicVars, cmd, doFetch, startID, lastSentID, shouldStop,
                 fetchVars, cancelC, sendC, connVars>>

(* A cancel ends the fetch without an error, so subscriptionLoop goes on. *)
FetchCancel ==
  /\ rpc = "fetching" /\ Ready /\ cancelC
  /\ cancelC' = FALSE
  /\ shouldStop' = TRUE
  /\ rpc' = AfterFetch
  /\ Emit(Note("canceled"))
  /\ UNCHANGED <<topicVars, cmd, doFetch, startID, lastSentID, fetchVars, sendC,
                 connVars>>

UnreadSkipped == FALSE
Unread == \E k \in 1 .. Len(stored) : stored[k] > lastSentID

(* DoInTx holds the lock while subscribeIfNoUnreadMessagesAvailable runs. *)
TxUnread ==
  /\ rpc = "tx" /\ Ready /\ ~locked /\ Unread
  /\ startID' = lastSentID + 1
  /\ rpc' = LoopTop(shouldStop, TRUE)
  /\ UNCHANGED <<topicVars, cmd, doFetch, lastSentID, shouldStop, fetchVars,
                 cancelC, pend, sendC, connVars>>


TxLock ==
  /\ rpc = "tx" /\ Ready /\ ~locked /\ ~Unread
  /\ locked' = TRUE
  /\ rpc' = "subscribe"
  /\ UNCHANGED <<storeVars, handleC, routeVars, subC, unsubC, cmd,
                 doFetch, startID, lastSentID, shouldStop, fetchVars, cancelC,
                 pend, sendC, connVars>>

(* subscribe, with a fresh route. The old one, closed, may still be in the *)
(* table, where it does no more than no route would.                       *)
Subscribe ==
  /\ rpc = "subscribe" /\ Ready
  /\ subC' = subC \union {R}
  /\ closed' = closed \ {R}
  /\ routeC' = [routeC EXCEPT ![R] = <<>>]
  /\ table' = IF table = R THEN NoRoute ELSE table
  /\ rpc' = "subscribing"
  /\ UNCHANGED <<storeVars, locked, handleC, unsubC, cmd, doFetch,
                 startID, lastSentID, shouldStop, fetchVars, cancelC, pend, sendC,
                 connVars>>

SubscribeDone ==
  /\ rpc = "subscribing" /\ Ready /\ R \notin subC
  /\ rpc' = "confirm"
  /\ Emit(Note("subscribed-to"))
  /\ UNCHANGED <<topicVars, cmd, doFetch, startID, lastSentID, shouldStop,
                 fetchVars, cancelC, sendC, connVars>>

(* A refused receiver waits on its route all the same. *)
SubscribeRefused ==
  /\ rpc = "subscribe" /\ Ready /\ MayRefuse
  /\ rpc' = "confirm"
  /\ closed' = closed \ {R}
  /\ routeC' = [routeC EXCEPT ![R] = <<>>]
  /\ table' = IF table = R THEN NoRoute ELSE table
  /\ Emit(Note("error"))
  /\ UNCHANGED <<storeVars, locked, handleC, subC, unsubC, cmd, doFetch,
                 startID, lastSentID, shouldStop, fetchVars, cancelC, sendC,
                 connVars>>

(* The transaction ends once the confirmation is in sendChannel. *)
Confirmed ==
  /\ rpc = "confirm" /\ Ready
  /\ locked' = FALSE
  /\ rpc' = "receive"
  /\ UNCHANGED <<storeVars, handleC, routeVars, subC, unsubC, cmd,
                 doFetch, startID, lastSentID, shouldStop, fetchVars, cancelC,
                 pend, sendC, connVars>>

AlreadySent(id) == id <= lastSentID

ReceiveMessage ==
  /\ rpc = "receive" /\ Ready /\ routeC[R] # <<>>
  /\ LET id == Head(routeC[R]) IN
       \/ /\ AlreadySent(id)
          /\ UNCHANGED <<lastSentID, pend>>
       \/ /\ ~AlreadySent(id)
          /\ lastSentID' = id
          /\ Emit(Message(id))
  /\ routeC' = [routeC EXCEPT ![R] = Tail(@)]
  /\ UNCHANGED <<storeVars, locked, handleC, table, closed, subC, unsubC,
                 rpc, cmd, doFetch, startID, shouldStop, fetchVars, cancelC, sendC,
                 connVars>>

ReceiveClosedSubscribes ==
  /\ rpc = "receive" /\ Ready /\ routeC[R] = <<>> /\ R \in closed
  /\ rpc' = LoopTop(shouldStop, FALSE)
  /\ UNCHANGED <<topicVars, cmd, doFetch, startID, lastSentID, shouldStop,
                 fetchVars, cancelC, pend, sendC, connVars>>

(* The router has closed the route: fetch what is missing, subscribe again. *)
ReceiveClosed ==
  /\ rpc = "receive" /\ Ready /\ routeC[R] = <<>> /\ R \in closed
  /\ IF shouldStop THEN UNCHANGED <<startID, doFetch>>
     ELSE startID' = lastSentID + 1 /\ doFetch' = TRUE
  /\ rpc' = LoopTop(shouldStop, TRUE)
  /\ UNCHANGED <<topicVars, cmd, lastSentID, shouldStop, fetchVars, cancelC, pend,
                 sendC, connVars>>

ReceiveCancel ==
  /\ rpc = "receive" /\ Ready /\ cancelC
  /\ cancelC' = FALSE
  /\ shouldStop' = TRUE
  /\ unsubC' = unsubC \union {R}
  /\ rpc' = "unsubscribe"
  /\ UNCHANGED <<storeVars, locked, handleC, routeVars, subC, cmd, doFetch,
                 startID, lastSentID, fetchVars, pend, sendC, connVars>>

UnsubscribeDone ==
  /\ rpc = "unsubscribe" /\ Ready /\ R \notin unsubC
  /\ rpc' = "done"
  /\ Emit(Note("canceled"))
  /\ UNCHANGED <<topicVars, cmd, doFetch, startID, lastSentID, shouldStop,
                 fetchVars, cancelC, sendC, connVars>>

ReceiverStep ==
  \/ SendToChannel
  \/ FetchRequest \/ FetchStart \/ FetchMessage \/ FetchEnd \/ FetchFails \/ FetchCancel
  \/ TxUnread \/ TxLock
  \/ Subscribe \/ SubscribeDone \/ SubscribeRefused \/ Confirmed
  \/ ReceiveMessage \/ ReceiveClosed \/ ReceiveCancel \/ UnsubscribeDone
-----------------------------------------------------------------------------
(* The connection *)

(* handleReceiveCmd and Start. *)
HandleReceiveCmd ==
  /\ rpc = "none" /\ conn /\ publishing = 0
  /\ registered' = TRUE
  /\ doFetch' = cmd.fetch
  /\ startID' = cmd.start
  /\ rpc' = LoopTop(FALSE, cmd.fetch)
  /\ UNCHANGED <<topicVars, cmd, lastSentID, shouldStop, fetchVars, cancelC, pend,
                 sendC, sendLoop, publishing, conn>>

(* Receiver.Stop, and the receiver leaves ws.receivers: it is stopped once. *)
StopReceiver ==
  /\ cancelC' = (cancelC \/ registered)
  /\ registered' = FALSE

HandleCancelCmd ==
  /\ conn /\ publishing = 0 /\ registered
  /\ StopReceiver
  /\ UNCHANGED <<topicVars, recVars, pend, sendC, sendLoop, publishing, conn>>

(* handleSendCmd: HandleMessage, and a confirmation whatever it returned. *)
HandleSendCmd(id) ==
  /\ conn /\ publishing = 0 /\ ppc[id] = "new"
  /\ \A k \in Ids : k < id => ppc[k] # "new"
  /\ publishing' = id
  /\ UNCHANGED <<topicVars, recVars, cancelC, pend, sendC, sendLoop, conn,
                 registered>>

HandleSendDone ==
  /\ publishing # 0
  /\ ppc[publishing] = "queued" \/ (MayRefuse /\ ppc[publishing] = "new")
  /\ Len(sendC) < SendCap
  /\ sendC' = Append(sendC, Note("send"))
  /\ publishing' = 0
  /\ UNCHANGED <<topicVars, recVars, cancelC, pend, sendLoop, conn, registered>>

(* The receive loop reads an error. *)
Disconnect ==
  /\ ConnFails /\ conn /\ publishing = 0
  /\ StopReceiver
  /\ conn' = FALSE
  /\ UNCHANGED <<topicVars, recVars, pend, sendC, sendLoop, publishing>>

SendLoopSendsWhenIdle ==
  /\ sendLoop /\ sendC # <<>> /\ conn /\ publishing = 0
  /\ sendC' = Tail(sendC)
  /\ UNCHANGED <<topicVars, recVars, cancelC, pend, connVars>>

(* The send loop. checkAccess may drop a message. *)
SendLoopSends ==
  /\ sendLoop /\ sendC # <<>> /\ conn
  /\ sendC' = Tail(sendC)
  /\ UNCHANGED <<topicVars, recVars, cancelC, pend, connVars>>

SendLoopDrops ==
  /\ MayRefuse /\ sendLoop /\ sendC # <<>> /\ Head(sendC).kind = "message"
  /\ sendC' = Tail(sendC)
  /\ UNCHANGED <<topicVars, recVars, cancelC, pend, connVars>>

(* A failed send ends the loop: nobody takes from sendChannel any more. *)
SendLoopFails ==
  /\ sendLoop /\ sendC # <<>> /\ (ConnFails \/ ~conn)
  /\ sendC' = Tail(sendC)
  /\ sendLoop' = FALSE
  /\ StopReceiver
  /\ conn' = FALSE
  /\ UNCHANGED <<topicVars, recVars, pend, publishing>>

Connection ==
  \/ HandleReceiveCmd \/ HandleCancelCmd \/ HandleSendDone \/ Disconnect
  \/ \E id \in OwnIds : HandleSendCmd(id)
  \/ SendLoopSends \/ SendLoopDrops \/ SendLoopFails

Environment ==
  /\ \/ Loop({})
     \/ \E id \in Ids : Publisher(id) /\ (id \in OwnIds => publishing = id)
  /\ UNCHANGED <<recVars, cancelC, pend, sendC, connVars>>

Next == ReceiverStep \/ Connection \/ Environment

Spec == Init /\ [][Next]_vars

OwnPublisher == \E id \in OwnIds : publishing = id /\ Generate(id)

(* Goroutines go on when they can; the partition's lock and the room in a  *)
(* channel come to those who wait; the client reads.                       *)
FairSpec ==
  /\ Spec
  /\ WF_topicVars(Loop({}))
  /\ SF_topicVars(PublisherGoesOn \/ OwnPublisher)
  /\ WF_vars(ReceiverStep)
  /\ SF_vars(SendToChannel)
  /\ SF_vars(HandleSendDone)
  /\ WF_vars(SendLoopSends \/ (~conn /\ SendLoopFails))
-----------------------------------------------------------------------------
(* Properties *)

(* The receiver implements the abstract subscription: messages are sent in *)
(* the order of their ids and none is left out between two that are sent,  *)
(* over fetches, the hand-over to the route, kick-outs and refetches. (An  *)
(* id may be sent twice in a row: a refetch starts at the entry closest to *)
(* lastSentID + 1, which is the one sent last.)                            *)
AbstractFeed == INSTANCE Feed WITH log <- ToSet(stored), last <- lastSentID

(* The hand-over under DoInTx: as long as the route of a receiver that has *)
(* fetched is in the table and open, every stored message it has not sent  *)
(* is on its way to it.                                                    *)
HandOver ==
  doFetch /\ table = R /\ R \notin closed =>
    \A k \in 1 .. Len(stored) :
      \/ stored[k] <= lastSentID
      \/ ppc[stored[k]] = "stored"
      \/ \E i \in 1 .. Len(handleC) : handleC[i] = stored[k]
      \/ \E i \in 1 .. Len(routeC[R]) : routeC[R][i] = stored[k]

(* The client is there and has not cancelled, the router accepts its       *)
(* subscription, and no fetch has failed.                                  *)
Healthy ==
  /\ sendLoop /\ conn /\ ~shouldStop /\ ~cancelC /\ rpc # "done"
  /\ rpc = "receive" => table = R

(* A message stored while the client is subscribed reaches it, also if the *)
(* route is closed for being full and the receiver has to fetch again.     *)
Delivered ==
  \A id \in Ids :
    (\E k \in 1 .. Len(stored) : stored[k] = id) /\ rpc = "receive" /\ table = R /\ doFetch
      ~> lastSentID >= id \/ ~Healthy

(* Nobody waits in a circle: the partition's lock is given back, because   *)
(* the loop serves the subscription and the send loop takes the            *)
(* confirmation, although publishers wait for the lock; and the receive    *)
(* loop, one of these publishers, comes back from handleSendCmd.           *)
NoCircularWait ==
  /\ locked ~> ~locked \/ ~sendLoop
  /\ publishing # 0 ~> publishing = 0 \/ ~sendLoop
-----------------------------------------------------------------------------
(* Stronger statements, which the code does not keep *)

(* "The server takes care, that a message only gets delivered once"        *)
(* (README.md:436): a refetch repeats the message sent last.               *)
SentOnce ==
  [][\A id \in Ids : Ready /\ pend' = <<Message(id)>> => id > lastSentID]_vars

(* "+ /foo 42: Receive all message with message ids >= 42" (README.md:327). *)
FromStartOn ==
  cmd.fetch /\ cmd.start > 0 => \A id \in Ids : pend = <<Message(id)>> => id >= cmd.start

(* "An unsubscribe/cancel operation is confirmed" (README.md:409): after a *)
(* cancel the receiver ends. A cancel during a fetch is confirmed, and the *)
(* receiver subscribes all the same; it is no longer in ws.receivers, so   *)
(* nothing can cancel it again.                                            *)
CancelEnds == shouldStop ~> rpc = "done" \/ ~sendLoop

(* The lock comes back even if the connection breaks: with a full          *)
(* sendChannel and no send loop the confirmation blocks in the transaction.*)
LockAlwaysReleased == locked ~> ~locked
=============================================================================
