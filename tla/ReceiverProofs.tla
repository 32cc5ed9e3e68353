--------------------------- MODULE ReceiverProofs ---------------------------
(***************************************************************************)
(* The hand-over from fetch to subscription of a websocket receiver, for   *)
(* any ids, files, channel sizes and commands, and publishers that         *)
(* overlap.                                                                *)
(***************************************************************************)
EXTENDS Receiver, TLAPS

(* What the proof needs to know of the types. *)
ProofTypes ==
  /\ ppc \in [Ids -> PublisherStates]
  /\ stored \in Seq(Ids)
  /\ handleC \in Seq(Ids)
  /\ routeC \in [Routes -> Seq(Ids)]
  /\ table \in {R, NoRoute}
  /\ subC \subseteq {R}
  /\ cmd \in Commands
  /\ doFetch \in BOOLEAN
  /\ lastSentID \in Nat
  /\ fetched \subseteq Ids

(* Only a receiver in Subscribe has a route on its way to the loop. Before *)
(* that, its route in the table, if any, is closed.                        *)
NoOldRoute ==
  /\ R \in subC => rpc = "subscribing"
  /\ rpc \in {"none", "fetch", "fetching", "tx", "subscribe"} /\ table = R => R \in closed

(* A receiver that has fetched subscribes with the lock in its hand, and   *)
(* has sent everything that is stored.                                     *)
CaughtUpInTx ==
  doFetch /\ rpc \in {"subscribe", "subscribing"} =>
    /\ locked
    /\ \A k \in 1 .. Len(stored) : stored[k] <= lastSentID

IInv == ProofTypes /\ NoOldRoute /\ CaughtUpInTx /\ HandOver
-----------------------------------------------------------------------------
(* The receiver's route is a route, and not the mark of an empty entry. *)
LEMMA RIsRoute == R \in Routes /\ R # NoRoute
BY ReceiverAssumption, TopicAssumption DEF ReceiverAssumption, TopicAssumption, R

(* A file holds ids that were stored. *)
LEMMA FileInIds ==
  ASSUME stored \in Seq(Ids), NEW f \in Nat \ {0}
  PROVE  File(f) \subseteq Ids
<1>1. PerFile \in Nat \ {0}
  BY TopicAssumption DEF TopicAssumption
<1>2. PerFile * (f - 1) \in Nat /\ PerFile * f \in Nat
  BY <1>1
<1>3. Len(stored) \in Nat
  OBVIOUS
<1>4. Min({PerFile * f, Len(stored)}) \in Int /\ Min({PerFile * f, Len(stored)}) <= Len(stored)
  <2>1. \A a, b \in Nat : Min({a, b}) \in Int /\ Min({a, b}) <= b
    <3>1. SUFFICES ASSUME NEW a \in Nat, NEW b \in Nat
                   PROVE  Min({a, b}) \in Int /\ Min({a, b}) <= b
      OBVIOUS
    <3>2. \E x \in {a, b} : \A y \in {a, b} : x <= y
      OBVIOUS
    <3>3. Min({a, b}) \in {a, b} /\ \A y \in {a, b} : Min({a, b}) <= y
      BY <3>2 DEF Min
    <3>4. QED
      BY <3>3
  <2>2. QED
    BY <1>2, <1>3, <2>1
<1>5. PerFile * (f - 1) + 1 .. Min({PerFile * f, Len(stored)}) \subseteq 1 .. Len(stored)
  BY <1>2, <1>3, <1>4
<1>6. \A k \in PerFile * (f - 1) + 1 .. Min({PerFile * f, Len(stored)}) : stored[k] \in Ids
  <2>1. \A k \in 1 .. Len(stored) : stored[k] \in Ids
    OBVIOUS
  <2>2. QED
    BY <1>5, <2>1, Zenon
<1>7. QED
  BY <1>6, Zenon DEF File

(* extract takes entries out of the list it is given. *)
LEMMA ExtractInside ==
  ASSUME NEW ids, NEW req
  PROVE  Extract(ids, req) \subseteq ids
BY DEF Extract

(* calculateFetchList finds stored ids only. *)
LEMMA FetchListInIds ==
  ASSUME stored \in Seq(Ids), NEW asked
  PROVE  FetchList(asked) \subseteq Ids
<1>1. LastFile \in Int
  <2>1. PerFile \in Nat \ {0} /\ Len(stored) \in Nat
    BY TopicAssumption DEF TopicAssumption
  <2>2. QED
    BY <2>1 DEF LastFile
<1>2. \A f \in 1 .. LastFile : \A req : Extract(File(f), req) \subseteq Ids
  BY <1>1, FileInIds, ExtractInside
<1>3. \A req : \A taken \in SUBSET (1 .. LastFile) :
        Extract(UNION {Extract(File(f), req) : f \in taken}, req) \subseteq Ids
  <2>1. SUFFICES ASSUME NEW req, NEW taken \in SUBSET (1 .. LastFile)
                 PROVE  Extract(UNION {Extract(File(f), req) : f \in taken}, req) \subseteq Ids
    OBVIOUS
  <2>2. UNION {Extract(File(f), req) : f \in taken} \subseteq Ids
    BY <1>2
  <2>3. QED
    BY <2>2, ExtractInside
<1>4. \A req : FilesOf(req) \in SUBSET (1 .. LastFile)
  BY Zenon DEF FilesOf
<1>5. \A req : Extract(UNION {Extract(File(f), req) : f \in FilesOf(req)}, req) \subseteq Ids
  BY <1>3, <1>4, Zenon
<1>6. QED
  BY <1>5, Zenon DEF FetchList
-----------------------------------------------------------------------------
(* A new receiver has nothing in the table. *)
LEMMA InitIInv == Init => IInv
<1>1. SUFFICES ASSUME Init PROVE IInv
  OBVIOUS
<1>2. PICK history \in Histories : TopicInit(history)
  BY <1>1 DEF Init
<1>3. history \in Seq(Ids)
  BY <1>2, ReceiverAssumption DEF ReceiverAssumption
<1>4. ProofTypes
  <2>1. ppc \in [Ids -> PublisherStates] /\ stored \in Seq(Ids)
    BY <1>2, <1>3 DEF TopicInit, PublisherStates
  <2>2. routeC \in [Routes -> Seq(Ids)]
    <3>1. <<>> \in Seq(Ids)
      OBVIOUS
    <3>2. QED
      BY <1>2, <3>1, Zenon DEF TopicInit
  <2>3. handleC \in Seq(Ids) /\ table \in {R, NoRoute} /\ subC \subseteq {R}
    BY <1>2 DEF TopicInit
  <2>4. cmd \in Commands /\ doFetch \in BOOLEAN /\ lastSentID \in Nat /\ fetched \subseteq Ids
    BY <1>1 DEF Init
  <2>5. QED
    BY <2>1, <2>2, <2>3, <2>4 DEF ProofTypes
<1>5. NoOldRoute /\ CaughtUpInTx /\ HandOver
  BY <1>1, <1>2, RIsRoute DEF Init, TopicInit, NoOldRoute, CaughtUpInTx, HandOver
<1>6. QED
  BY <1>4, <1>5 DEF IInv

(* The connection's own steps, and a send to sendChannel that completes,   *)
(* concern neither the topic nor where the receiver is.                    *)
LEMMA ElsewhereKeepsIInv == IInv /\ UNCHANGED <<topicVars, recVars>> => IInv'
<1>1. SUFFICES ASSUME IInv, UNCHANGED <<topicVars, recVars>> PROVE IInv'
  OBVIOUS
<1> USE <1>1 DEF IInv, topicVars, storeVars, routeVars, recVars, fetchVars
<1>2. ProofTypes'
  BY DEF ProofTypes
<1>3. NoOldRoute'
  BY DEF NoOldRoute
<1>4. CaughtUpInTx'
  BY DEF CaughtUpInTx
<1>5. HandOver'
  BY DEF HandOver
<1>6. QED
  BY <1>2, <1>3, <1>4, <1>5

(* Store waits for the lock, and what it adds is still to be enqueued.     *)
LEMMA PublisherKeepsIInv ==
  ASSUME IInv, NEW id \in Ids, Publisher(id), UNCHANGED recVars
  PROVE  IInv'
<1> USE DEF IInv, storeVars, routeVars, recVars, fetchVars
<1>1. CASE Generate(id)
  <2>1. ProofTypes'
    BY <1>1 DEF Generate, ProofTypes, PublisherStates
  <2>2. NoOldRoute' /\ CaughtUpInTx'
    BY <1>1 DEF Generate, NoOldRoute, CaughtUpInTx
  <2>3. \A j \in Ids : ppc[j] = "stored" => ppc'[j] = "stored"
    BY <1>1 DEF Generate, ProofTypes
  <2>4. \A k \in 1 .. Len(stored) : stored[k] \in Ids
    BY DEF ProofTypes
  <2>5. HandOver'
    BY <1>1, <2>3, <2>4 DEF Generate, HandOver
  <2>6. QED
    BY <2>1, <2>2, <2>5
<1>2. CASE Store(id)
  <2>1. ProofTypes'
    BY <1>2 DEF Store, ProofTypes, PublisherStates
  <2>2. NoOldRoute' /\ CaughtUpInTx'
    BY <1>2 DEF Store, NoOldRoute, CaughtUpInTx
  <2>3. \A j \in Ids : ppc[j] = "stored" \/ j = id => ppc'[j] = "stored"
    BY <1>2 DEF Store, ProofTypes
  <2>4. \A k \in 1 .. Len(stored') :
          stored'[k] \in Ids /\ (stored'[k] = id \/ (k \in 1 .. Len(stored) /\ stored'[k] = stored[k]))
    BY <1>2 DEF Store, ProofTypes
  <2>5. HandOver'
    BY <1>2, <2>3, <2>4 DEF Store, HandOver
  <2>6. QED
    BY <2>1, <2>2, <2>5
<1>3. CASE Enqueue(id)
  <2>1. ProofTypes'
    BY <1>3 DEF Enqueue, ProofTypes, PublisherStates
  <2>2. NoOldRoute' /\ CaughtUpInTx'
    BY <1>3 DEF Enqueue, NoOldRoute, CaughtUpInTx
  <2>3. \A j \in Ids : ppc[j] = "stored" => ppc'[j] = "stored" \/ j = id
    BY <1>3 DEF Enqueue, ProofTypes
  <2>4. /\ \A i \in 1 .. Len(handleC) : i \in 1 .. Len(handleC') /\ handleC'[i] = handleC[i]
        /\ Len(handleC') \in 1 .. Len(handleC') /\ handleC'[Len(handleC')] = id
    BY <1>3 DEF Enqueue, ProofTypes
  <2>5. \A k \in 1 .. Len(stored) : stored[k] \in Ids
    BY DEF ProofTypes
  <2>6. HandOver'
    BY <1>3, <2>3, <2>4, <2>5 DEF Enqueue, HandOver
  <2>7. QED
    BY <2>1, <2>2, <2>6
<1>4. QED
  BY <1>1, <1>2, <1>3 DEF Publisher

(* An element of a sequence is its head or in its tail. *)
LEMMA HeadOrTail ==
  ASSUME NEW S, NEW s \in Seq(S), s # <<>>
  PROVE  /\ Head(s) \in S /\ Tail(s) \in Seq(S)
         /\ \A i \in 1 .. Len(s) :
              s[i] = Head(s) \/ \E j \in 1 .. Len(Tail(s)) : Tail(s)[j] = s[i]
<1>1. Head(s) \in S /\ Tail(s) \in Seq(S)
  OBVIOUS
<1>2. SUFFICES ASSUME NEW i \in 1 .. Len(s), i # 1
               PROVE  \E j \in 1 .. Len(Tail(s)) : Tail(s)[j] = s[i]
  BY <1>1
<1>3. i - 1 \in 1 .. Len(Tail(s)) /\ Tail(s)[i - 1] = s[i]
  BY <1>2
<1>4. QED
  BY <1>3

(* The loop moves a message on to the route in the table, or closes that   *)
(* route; and it puts in a route only while the lock is held.              *)
LEMMA LoopKeepsIInv ==
  ASSUME IInv, Loop({}), UNCHANGED recVars
  PROVE  IInv'
<1> USE DEF IInv, storeVars, routeVars, recVars, fetchVars
<1>1. CASE LoopMessage({})
  <2>1. /\ handleC # <<>> /\ handleC' = Tail(handleC)
        /\ UNCHANGED <<ppc, stored, locked, subC, unsubC>>
    BY <1>1 DEF LoopMessage
  <2>2. /\ \A i \in 1 .. Len(handleC) :
             handleC[i] = Head(handleC) \/ \E j \in 1 .. Len(handleC') : handleC'[j] = handleC[i]
        /\ handleC' \in Seq(Ids) /\ Head(handleC) \in Ids
    <3>1. handleC \in Seq(Ids)
      BY DEF ProofTypes
    <3>2. QED
      BY <2>1, <3>1, HeadOrTail, Zenon
  <2>3. CASE table = NoRoute /\ UNCHANGED routeVars
    BY <2>1, <2>2, <2>3, RIsRoute DEF ProofTypes, NoOldRoute, CaughtUpInTx, HandOver
  <2>4. CASE table \in closed /\ table' = NoRoute /\ UNCHANGED <<closed, routeC>>
    BY <2>1, <2>2, <2>4, RIsRoute DEF ProofTypes, NoOldRoute, CaughtUpInTx, HandOver
  <2>5. CASE /\ table \in Routes \ closed
             /\ routeC' = [routeC EXCEPT ![table] = Append(@, Head(handleC))]
             /\ UNCHANGED <<table, closed>>
    <3>1. table = R
      BY <2>5, TopicAssumption DEF ProofTypes, TopicAssumption
    <3>2. routeC'[R] = Append(routeC[R], Head(handleC)) /\ routeC[R] \in Seq(Ids)
      BY <2>5, <3>1, RIsRoute DEF ProofTypes
    <3>3. /\ \A i \in 1 .. Len(routeC[R]) : i \in 1 .. Len(routeC'[R]) /\ routeC'[R][i] = routeC[R][i]
          /\ Len(routeC'[R]) \in 1 .. Len(routeC'[R])
          /\ routeC'[R][Len(routeC'[R])] = Head(handleC)
      BY <2>2, <3>2
    <3>4. ProofTypes'
      <4>1. Append(routeC[R], Head(handleC)) \in Seq(Ids)
        BY <2>2, <3>2
      <4>2. routeC' \in [Routes -> Seq(Ids)]
        BY <2>5, <3>1, <4>1 DEF ProofTypes
      <4>3. QED
        BY <2>1, <2>2, <2>5, <4>2 DEF ProofTypes
    <3>5. NoOldRoute' /\ CaughtUpInTx'
      BY <2>1, <2>5 DEF NoOldRoute, CaughtUpInTx
    <3>6. HandOver'
      <4>1. SUFFICES ASSUME doFetch, table = R, R \notin closed, NEW k \in 1 .. Len(stored)
                     PROVE  \/ stored[k] <= lastSentID
                            \/ ppc[stored[k]] = "stored"
                            \/ \E i \in 1 .. Len(handleC') : handleC'[i] = stored[k]
                            \/ \E i \in 1 .. Len(routeC'[R]) : routeC'[R][i] = stored[k]
        BY <2>1, <2>5 DEF HandOver
      <4>2. \/ stored[k] <= lastSentID
            \/ ppc[stored[k]] = "stored"
            \/ \E i \in 1 .. Len(handleC) : handleC[i] = stored[k]
            \/ \E i \in 1 .. Len(routeC[R]) : routeC[R][i] = stored[k]
        BY <4>1 DEF HandOver
      <4>3. QED
        BY <2>2, <3>3, <4>2, Zenon
    <3>7. QED
      BY <3>4, <3>5, <3>6
  <2>6. CASE /\ table \in Routes \ closed
             /\ closed' = closed \union {table}
             /\ UNCHANGED <<table, routeC>>
    BY <2>1, <2>2, <2>6 DEF ProofTypes, NoOldRoute, CaughtUpInTx, HandOver
  <2>7. QED
    BY <1>1, <2>3, <2>4, <2>5, <2>6 DEF LoopMessage
<1>2. CASE LoopSubscribe
  <2>1. /\ table' = R /\ R \in subC /\ subC' = subC \ {R}
        /\ UNCHANGED <<ppc, stored, locked, handleC, closed, routeC, unsubC>>
    BY <1>2 DEF LoopSubscribe, ProofTypes
  <2>2. rpc = "subscribing"
    BY <2>1 DEF NoOldRoute
  <2>3. ProofTypes'
    BY <2>1 DEF ProofTypes
  <2>4. NoOldRoute' /\ CaughtUpInTx'
    BY <2>1, <2>2 DEF NoOldRoute, CaughtUpInTx
  <2>5. HandOver'
    BY <2>1, <2>2 DEF CaughtUpInTx, HandOver
  <2>6. QED
    BY <2>3, <2>4, <2>5
<1>3. CASE LoopUnsubscribe
  <2>1. /\ table' = NoRoute
        /\ UNCHANGED <<ppc, stored, locked, handleC, closed, routeC, subC>>
    BY <1>3 DEF LoopUnsubscribe
  <2>2. QED
    BY <2>1, RIsRoute DEF ProofTypes, NoOldRoute, CaughtUpInTx, HandOver
<1>4. QED
  BY <1>1, <1>2, <1>3 DEF Loop

(* While it fetches, the receiver's old route is closed: lastSentID may    *)
(* change in any way.                                                      *)
LEMMA FetchKeepsIInv ==
  ASSUME IInv,
         FetchRequest \/ FetchStart \/ FetchMessage \/ FetchEnd \/ FetchFails \/ FetchCancel
  PROVE  IInv'
<1>1. /\ rpc \in {"fetch", "fetching"} /\ rpc' \in {"fetching", "tx", "done"}
      /\ UNCHANGED <<topicVars, cmd, doFetch>>
  BY DEF FetchRequest, FetchStart, FetchMessage, FetchEnd, FetchFails, FetchCancel, AfterFetch
<1>2. fetched' \subseteq Ids
  BY FetchListInIds DEF FetchRequest, FetchStart, FetchMessage, FetchEnd, FetchFails, FetchCancel,
     fetchVars, IInv, ProofTypes
<1>3. lastSentID' \in Nat
  <2>1. CASE FetchMessage
    <3>1. lastSentID' \in Ids
      BY <2>1 DEF FetchMessage, IInv, ProofTypes
    <3>2. QED
      BY <3>1, TopicAssumption DEF TopicAssumption
  <2>2. CASE FetchRequest \/ FetchStart \/ FetchEnd \/ FetchFails \/ FetchCancel
    BY <2>2 DEF FetchRequest, FetchStart, FetchEnd, FetchFails, FetchCancel, IInv, ProofTypes
  <2>3. QED
    BY <2>1, <2>2
<1>4. table = R => R \in closed
  BY <1>1 DEF IInv, NoOldRoute
<1> USE DEF IInv, topicVars, storeVars, routeVars
<1>5. ProofTypes'
  BY <1>1, <1>2, <1>3 DEF ProofTypes
<1>6. NoOldRoute' /\ CaughtUpInTx' /\ HandOver'
  BY <1>1, <1>4 DEF NoOldRoute, CaughtUpInTx, HandOver
<1>7. QED
  BY <1>5, <1>6

(* A new route has an empty channel. *)
LEMMA FreshChannel ==
  ASSUME routeC \in [Routes -> Seq(Ids)]
  PROVE  [routeC EXCEPT ![R] = <<>>] \in [Routes -> Seq(Ids)]
<1>1. <<>> \in Seq(Ids)
  OBVIOUS
<1>2. \A S : \A e \in S : routeC \in [Routes -> S] => [routeC EXCEPT ![R] = e] \in [Routes -> S]
  OBVIOUS
<1>3. QED
  BY <1>1, <1>2, Zenon

(* DoInTx and subscribe. *)
LEMMA SubscribeKeepsIInv ==
  ASSUME IInv,
         TxUnread \/ TxLock \/ Subscribe \/ SubscribeDone \/ SubscribeRefused \/ Confirmed
  PROVE  IInv'
<1> USE DEF IInv, topicVars, storeVars, routeVars, fetchVars
<1>1. CASE TxUnread
  <2>1. rpc' \in {"done", "fetch"} /\ rpc = "tx"
    BY <1>1 DEF TxUnread, LoopTop
  <2>2. UNCHANGED <<topicVars, cmd, doFetch, lastSentID, fetchVars>>
    BY <1>1 DEF TxUnread
  <2>3. QED
    BY <2>1, <2>2 DEF ProofTypes, NoOldRoute, CaughtUpInTx, HandOver
<1>2. CASE TxLock
  <2>1. \A k \in 1 .. Len(stored) : stored[k] <= lastSentID
    <3>1. \A k \in 1 .. Len(stored) : stored[k] \in Nat
      <4>1. \A k \in 1 .. Len(stored) : stored[k] \in Ids
        BY DEF ProofTypes
      <4>2. QED
        BY <4>1, TopicAssumption DEF TopicAssumption
    <3>2. lastSentID \in Nat
      BY DEF ProofTypes
    <3>3. \A k \in 1 .. Len(stored) : ~(stored[k] > lastSentID)
      BY <1>2 DEF TxLock, Unread
    <3>4. QED
      BY <3>1, <3>2, <3>3
  <2>2. /\ rpc = "tx" /\ rpc' = "subscribe" /\ locked'
        /\ UNCHANGED <<ppc, stored, handleC, routeVars, subC, cmd, doFetch, lastSentID, fetched>>
    BY <1>2 DEF TxLock
  <2>3. QED
    BY <2>1, <2>2 DEF ProofTypes, NoOldRoute, CaughtUpInTx, HandOver
<1>3. CASE Subscribe
  <2>1. /\ rpc = "subscribe" /\ rpc' = "subscribing" /\ subC' = subC \union {R}
        /\ table' = IF table = R THEN NoRoute ELSE table
        /\ routeC' = [routeC EXCEPT ![R] = <<>>]
        /\ UNCHANGED <<ppc, stored, locked, handleC, cmd, doFetch, lastSentID, fetched>>
    BY <1>3 DEF Subscribe
  <2>2. table' = NoRoute
    BY <2>1 DEF ProofTypes
  <2>3. ProofTypes'
    <3>1. routeC' \in [Routes -> Seq(Ids)]
      BY <2>1, FreshChannel, Zenon DEF ProofTypes
    <3>2. QED
      BY <2>1, <2>2, <3>1 DEF ProofTypes
  <2>4. NoOldRoute' /\ HandOver'
    BY <2>1, <2>2, RIsRoute DEF NoOldRoute, HandOver
  <2>5. CaughtUpInTx'
    BY <2>1 DEF CaughtUpInTx
  <2>6. QED
    BY <2>3, <2>4, <2>5
<1>4. CASE SubscribeDone
  <2>1. /\ rpc' = "confirm" /\ R \notin subC
        /\ UNCHANGED <<topicVars, cmd, doFetch, lastSentID, fetchVars>>
    BY <1>4 DEF SubscribeDone
  <2>2. QED
    BY <2>1 DEF ProofTypes, NoOldRoute, CaughtUpInTx, HandOver
<1>5. CASE SubscribeRefused
  <2>1. /\ rpc = "subscribe" /\ rpc' = "confirm"
        /\ table' = IF table = R THEN NoRoute ELSE table
        /\ routeC' = [routeC EXCEPT ![R] = <<>>]
        /\ UNCHANGED <<ppc, stored, locked, handleC, subC, cmd, doFetch, lastSentID, fetched>>
    BY <1>5 DEF SubscribeRefused
  <2>2. table' = NoRoute
    BY <2>1 DEF ProofTypes
  <2>3. ProofTypes'
    <3>1. routeC' \in [Routes -> Seq(Ids)]
      BY <2>1, FreshChannel, Zenon DEF ProofTypes
    <3>2. QED
      BY <2>1, <2>2, <3>1 DEF ProofTypes
  <2>4. NoOldRoute' /\ CaughtUpInTx' /\ HandOver'
    BY <2>1, <2>2, RIsRoute DEF NoOldRoute, CaughtUpInTx, HandOver
  <2>5. QED
    BY <2>3, <2>4
<1>6. CASE Confirmed
  <2>1. /\ rpc = "confirm" /\ rpc' = "receive"
        /\ UNCHANGED <<ppc, stored, handleC, routeVars, subC, cmd, doFetch, lastSentID, fetched>>
    BY <1>6 DEF Confirmed
  <2>2. QED
    BY <2>1 DEF ProofTypes, NoOldRoute, CaughtUpInTx, HandOver
<1>7. QED
  BY <1>1, <1>2, <1>3, <1>4, <1>5, <1>6

(* receiveFromSubscription: what leaves the channel is sent, or was sent.  *)
LEMMA ReceiveKeepsIInv ==
  ASSUME IInv,
         ReceiveMessage \/ ReceiveClosed \/ ReceiveCancel \/ UnsubscribeDone \/ HandleReceiveCmd
  PROVE  IInv'
<1> USE DEF IInv, topicVars, storeVars, routeVars, fetchVars
<1>1. CASE ReceiveMessage
  <2> DEFINE id == Head(routeC[R])
  <2>1. /\ rpc = "receive" /\ routeC[R] # <<>>
        /\ routeC' = [routeC EXCEPT ![R] = Tail(@)]
        /\ (id <= lastSentID /\ lastSentID' = lastSentID) \/ (~(id <= lastSentID) /\ lastSentID' = id)
        /\ UNCHANGED <<ppc, stored, locked, handleC, table, closed, subC, rpc, cmd, doFetch, fetched>>
    BY <1>1 DEF ReceiveMessage, AlreadySent
  <2>2. routeC[R] \in Seq(Ids) /\ routeC'[R] = Tail(routeC[R])
    BY <2>1, RIsRoute DEF ProofTypes
  <2>3. id \in Ids /\ Tail(routeC[R]) \in Seq(Ids)
    BY <2>1, <2>2, HeadOrTail, Zenon
  <2>4. id \in Nat /\ lastSentID \in Nat
    BY <2>3, TopicAssumption DEF TopicAssumption, ProofTypes
  <2>5. lastSentID' \in Nat /\ lastSentID <= lastSentID' /\ id <= lastSentID'
    BY <2>1, <2>4
  <2>6. \A i \in 1 .. Len(routeC[R]) :
          routeC[R][i] = id \/ \E j \in 1 .. Len(routeC'[R]) : routeC'[R][j] = routeC[R][i]
    <3>1. routeC[R] # <<>> /\ routeC[R] \in Seq(Ids)
      BY <2>1, <2>2
    <3>2. \A i \in 1 .. Len(routeC[R]) :
            \/ routeC[R][i] = Head(routeC[R])
            \/ \E j \in 1 .. Len(Tail(routeC[R])) : Tail(routeC[R])[j] = routeC[R][i]
      BY <3>1, HeadOrTail, Zenon
    <3>3. routeC'[R] = Tail(routeC[R])
      BY <2>2
    <3>4. QED
      BY <3>2, <3>3, Zenon
  <2>7. ProofTypes'
    <3>1. routeC' \in [Routes -> Seq(Ids)]
      BY <2>1, <2>3 DEF ProofTypes
    <3>2. QED
      BY <2>1, <2>5, <3>1 DEF ProofTypes
  <2>8. NoOldRoute' /\ CaughtUpInTx'
    BY <2>1 DEF NoOldRoute, CaughtUpInTx
  <2>9. HandOver'
    <3>1. SUFFICES ASSUME doFetch, table = R, R \notin closed, NEW k \in 1 .. Len(stored)
                   PROVE  \/ stored[k] <= lastSentID'
                          \/ ppc[stored[k]] = "stored"
                          \/ \E i \in 1 .. Len(handleC) : handleC[i] = stored[k]
                          \/ \E i \in 1 .. Len(routeC'[R]) : routeC'[R][i] = stored[k]
      <4>1. UNCHANGED <<ppc, stored, handleC, table, closed, doFetch>>
        BY <2>1
      <4>2. QED
        BY <4>1 DEF HandOver
    <3>2. \/ stored[k] <= lastSentID
          \/ ppc[stored[k]] = "stored"
          \/ \E i \in 1 .. Len(handleC) : handleC[i] = stored[k]
          \/ \E i \in 1 .. Len(routeC[R]) : routeC[R][i] = stored[k]
      BY <3>1 DEF HandOver
    <3>3. stored[k] <= lastSentID => stored[k] <= lastSentID'
      <4>1. stored[k] \in Ids
        BY DEF ProofTypes
      <4>2. stored[k] \in Nat
        BY <4>1, TopicAssumption DEF TopicAssumption
      <4>3. QED
        BY <2>4, <2>5, <4>2
    <3>4. (\E i \in 1 .. Len(routeC[R]) : routeC[R][i] = stored[k]) =>
            \/ stored[k] <= lastSentID'
            \/ \E i \in 1 .. Len(routeC'[R]) : routeC'[R][i] = stored[k]
      BY <2>5, <2>6, Zenon
    <3>5. QED
      BY <3>2, <3>3, <3>4, Zenon
  <2>10. QED
    BY <2>7, <2>8, <2>9
<1>2. CASE ReceiveClosed
  <2>1. rpc = "receive" /\ rpc' \in {"done", "fetch"} /\ R \in closed
    BY <1>2 DEF ReceiveClosed, LoopTop
  <2>2. UNCHANGED <<topicVars, cmd, lastSentID, fetchVars>> /\ doFetch' \in BOOLEAN
    BY <1>2 DEF ReceiveClosed, ProofTypes
  <2>3. QED
    BY <2>1, <2>2 DEF ProofTypes, NoOldRoute, CaughtUpInTx, HandOver
<1>3. CASE ReceiveCancel
  <2>1. /\ rpc = "receive" /\ rpc' = "unsubscribe"
        /\ UNCHANGED <<ppc, stored, locked, handleC, routeVars, subC, cmd, doFetch,
                       lastSentID, fetched>>
    BY <1>3 DEF ReceiveCancel
  <2>2. QED
    BY <2>1 DEF ProofTypes, NoOldRoute, CaughtUpInTx, HandOver
<1>4. CASE UnsubscribeDone
  <2>1. /\ rpc = "unsubscribe" /\ rpc' = "done"
        /\ UNCHANGED <<topicVars, cmd, doFetch, lastSentID, fetchVars>>
    BY <1>4 DEF UnsubscribeDone
  <2>2. QED
    BY <2>1 DEF ProofTypes, NoOldRoute, CaughtUpInTx, HandOver
<1>5. CASE HandleReceiveCmd
  <2>1. cmd.fetch \in BOOLEAN
    BY ReceiverAssumption DEF ReceiverAssumption, ProofTypes
  <2>2. /\ rpc = "none" /\ doFetch' = cmd.fetch
        /\ rpc' = IF cmd.fetch THEN "fetch" ELSE "subscribe"
        /\ UNCHANGED <<topicVars, cmd, lastSentID, fetchVars>>
    BY <1>5 DEF HandleReceiveCmd, LoopTop
  <2>3. table = R => R \in closed
    BY <2>2 DEF NoOldRoute
  <2>4. QED
    BY <2>1, <2>2, <2>3 DEF ProofTypes, NoOldRoute, CaughtUpInTx, HandOver
<1>6. QED
  BY <1>1, <1>2, <1>3, <1>4, <1>5

(* Every step of receiver, connection, publishers and loop keeps IInv. *)
LEMMA NextKeepsIInv == IInv /\ [Next]_vars => IInv'
<1>1. SUFFICES ASSUME IInv, [Next]_vars PROVE IInv'
  OBVIOUS
<1>2. CASE SendToChannel
  BY <1>1, <1>2, ElsewhereKeepsIInv DEF SendToChannel
<1>3. CASE FetchRequest \/ FetchStart \/ FetchMessage \/ FetchEnd \/ FetchFails \/ FetchCancel
  BY <1>1, <1>3, FetchKeepsIInv
<1>4. CASE TxUnread \/ TxLock \/ Subscribe \/ SubscribeDone \/ SubscribeRefused \/ Confirmed
  BY <1>1, <1>4, SubscribeKeepsIInv
<1>5. CASE ReceiveMessage \/ ReceiveClosed \/ ReceiveCancel \/ UnsubscribeDone \/ HandleReceiveCmd
  BY <1>1, <1>5, ReceiveKeepsIInv
<1>6. CASE \/ HandleCancelCmd \/ HandleSendDone \/ Disconnect
           \/ \E id \in OwnIds : HandleSendCmd(id)
           \/ SendLoopSends \/ SendLoopDrops \/ SendLoopFails
  <2>1. UNCHANGED <<topicVars, recVars>>
    BY <1>6 DEF HandleCancelCmd, HandleSendDone, Disconnect, HandleSendCmd, SendLoopSends,
       SendLoopDrops, SendLoopFails
  <2>2. QED
    BY <1>1, <2>1, ElsewhereKeepsIInv
<1>7. CASE Environment
  <2>1. UNCHANGED recVars
    BY <1>7 DEF Environment
  <2>2. CASE Loop({})
    BY <1>1, <2>1, <2>2, LoopKeepsIInv
  <2>3. CASE \E id \in Ids : Publisher(id)
    BY <1>1, <2>1, <2>3, PublisherKeepsIInv
  <2>4. QED
    BY <1>7, <2>2, <2>3 DEF Environment
<1>8. CASE UNCHANGED vars
  BY <1>1, <1>8, ElsewhereKeepsIInv DEF vars
<1>9. QED
  BY <1>1, <1>2, <1>3, <1>4, <1>5, <1>6, <1>7, <1>8 DEF Next, ReceiverStep, Connection

(* The hand-over of a receiver from its fetch to its route leaves no gap:  *)
(* DoInTx keeps Store away between the look at maxMessageID and the entry  *)
(* in the routing table, and everything stored later goes through the      *)
(* loop to the open route.                                                 *)
THEOREM HandOverHolds == Spec => []HandOver
<1>1. Init => IInv
  BY InitIInv
<1>2. IInv /\ [Next]_vars => IInv'
  BY NextKeepsIInv
<1>3. IInv => HandOver
  BY DEF IInv
<1>4. QED
  BY <1>1, <1>2, <1>3, PTL DEF Spec
=============================================================================
