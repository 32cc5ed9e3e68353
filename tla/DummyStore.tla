----------------------------- MODULE DummyStore -----------------------------
(***************************************************************************)
(* The message store without messages (server/store/dummystore), which the *)
(* server uses with "ms memory": it counts ids per topic, and a goroutine  *)
(* copies the counters to a key-value store (server/kvstore/memory.go).    *)
(* Publishers are in StoreMessage; the store is started, stopped, and made *)
(* anew on the same key-value store, after a Stop or without one.          *)
(*                                                                         *)
(* A definition that stands right before another one, with the same        *)
(* parameters and a name that extends its name, is a mutation: it is used  *)
(* only to show that a property notices the change.                        *)
(***************************************************************************)
EXTENDS Integers, Sequences, FiniteSets, FiniteSetsExt

CONSTANTS
  Topics,
  NoTopic,
  Publishers,
  MaxMessages,  \* bound of the model: messages published
  MaxStores     \* bound of the model: stores made on the key-value store

ASSUME DummyStoreAssumption ==
  NoTopic \notin Topics /\ MaxMessages \in Nat /\ MaxStores \in Nat \ {0}

Missing == -1   \* no such key

VARIABLES
  topicSequences,  \* the counter of each topic
  kv,              \* the key-value store
  ppc,             \* each publisher: the topic and the id in its hands
  dpc,             \* the store: "new", "started", "stopping", "stopped"
  stopC, stoppedC, \* whether there is a value in the channel
  sync,            \* where startSequenceSync is
  shouldStop,
  lastSyncValues,
  topicsToUpdate,
  latestValue,     \* the topic and the value it is about to put
  stores,
  given,           \* history: the ids handed out, per topic, in order
  overlap,         \* history: topics with two StoreMessages at a time
  unsynced,        \* history: topics whose counter a store did not leave behind
  refused,         \* history: topics of which a message was refused
  late             \* history: topics published to after the last round began

syncVars == <<sync, shouldStop, lastSyncValues, topicsToUpdate, latestValue>>
lifeVars == <<dpc, stopC, stoppedC, stores>>
history == <<given, overlap, unsynced, refused, late>>
vars == <<topicSequences, kv, ppc, lifeVars, syncVars, history>>

Idle == [topic |-> NoTopic, id |-> 0]
Published(t) == Len(given[t])

TypeOK ==
  /\ topicSequences \in [Topics -> Nat \union {Missing}]
  /\ kv \in [Topics -> Nat \union {Missing}]
  /\ \A p \in Publishers : ppc[p] = Idle \/ (ppc[p].topic \in Topics /\ ppc[p].id > 0)
  /\ dpc \in {"new", "started", "stopping", "stopped"}
  /\ {stopC, stoppedC, shouldStop} \subseteq BOOLEAN
  /\ sync \in {"none", "select", "collect", "read", "put", "ended"}
  /\ lastSyncValues \in [Topics -> Nat]
  /\ topicsToUpdate \subseteq Topics
  /\ latestValue = Idle \/ (latestValue.topic \in topicsToUpdate /\ latestValue.id >= 0)
  /\ stores \in 1 .. MaxStores
  /\ \A t \in Topics : given[t] \in Seq(Nat)
  /\ overlap \union unsynced \union refused \union late \subseteq Topics

Init ==
  /\ topicSequences = [t \in Topics |-> Missing] /\ kv = [t \in Topics |-> Missing]
  /\ ppc = [p \in Publishers |-> Idle]
  /\ dpc = "new" /\ stopC = FALSE /\ stoppedC = FALSE /\ stores = 1
  /\ sync = "none" /\ shouldStop = FALSE
  /\ lastSyncValues = [t \in Topics |-> 0]
  /\ topicsToUpdate = {} /\ latestValue = Idle
  /\ given = [t \in Topics |-> <<>>]
  /\ overlap = {} /\ unsynced = {} /\ refused = {} /\ late = {}
-----------------------------------------------------------------------------
(* StoreMessage: two critical sections of topicSequencesLock *)

maxMessageIDInMemory(t) == IF topicSequences[t] # Missing THEN topicSequences[t] ELSE 0

(* The counter comes from the key-value store if it is not in memory yet. *)
maxMessageID(t) ==
  IF topicSequences[t] # Missing THEN topicSequences[t]
  ELSE IF kv[t] # Missing THEN kv[t] ELSE 0

setID(t, id) == topicSequences' = [topicSequences EXCEPT ![t] = id]

(* MaxMessageID and DoInTx keep what they read in memory. *)
MaxMessageID(t) ==
  /\ topicSequences[t] = Missing
  /\ setID(t, maxMessageID(t))
  /\ UNCHANGED <<kv, ppc, lifeVars, syncVars, history>>

(* The goroutine has begun its last round. *)
LastRound == shouldStop /\ sync \notin {"select", "collect"}
Touches(t) == late' = IF LastRound THEN late \union {t} ELSE late

GenerateNextMsgID(p, t) ==
  /\ ppc[p] = Idle /\ MapThenSumSet(Published, Topics) < MaxMessages
  /\ LET next == maxMessageID(t) + 1 IN
       /\ setID(t, next)
       /\ ppc' = [ppc EXCEPT ![p] = [topic |-> t, id |-> next]]
       /\ given' = [given EXCEPT ![t] = Append(@, next)]
  /\ overlap' = IF \E q \in Publishers : ppc[q].topic = t THEN overlap \union {t} ELSE overlap
  /\ Touches(t)
  /\ UNCHANGED <<kv, lifeVars, syncVars, unsynced, refused>>

(* Store refuses an id that is not the next one or an earlier one, and sets *)
(* the counter to it: an earlier id sets it back.                          *)
Store(p) ==
  LET t == ppc[p].topic  id == ppc[p].id IN
  /\ t \in Topics
  /\ IF id > 1 + maxMessageID(t) THEN refused' = refused \union {t} /\ UNCHANGED topicSequences
     ELSE setID(t, id) /\ UNCHANGED refused
  /\ ppc' = [ppc EXCEPT ![p] = Idle]
  /\ Touches(t)
  /\ UNCHANGED <<kv, lifeVars, syncVars, given, overlap, unsynced>>
-----------------------------------------------------------------------------
(* startSequenceSync *)

(* idSyncDuration has passed, or Stop was called. *)
SyncAwakes ==
  /\ sync = "select"
  /\ \/ UNCHANGED <<stopC, shouldStop>>
     \/ stopC /\ stopC' = FALSE /\ shouldStop' = TRUE
  /\ sync' = "collect"
  /\ UNCHANGED <<topicSequences, kv, ppc, dpc, stoppedC, stores, lastSyncValues,
                 topicsToUpdate, latestValue, history>>

SyncCollectsNewOnly ==
  /\ sync = "collect"
  /\ topicsToUpdate' = {t \in Topics : topicSequences[t] # Missing /\ kv[t] = Missing}
  /\ sync' = "read"
  /\ UNCHANGED <<topicSequences, kv, ppc, lifeVars, shouldStop, lastSyncValues, latestValue,
                 history>>

(* Under the lock: the topics whose counter is not the one put last. *)
SyncCollects ==
  /\ sync = "collect"
  /\ topicsToUpdate' = {t \in Topics : topicSequences[t] \notin {Missing, lastSyncValues[t]}}
  /\ sync' = "read"
  /\ UNCHANGED <<topicSequences, kv, ppc, lifeVars, shouldStop, lastSyncValues, latestValue,
                 history>>

(* Under the lock again, for each of them: its counter by now. *)
SyncReads(t) ==
  /\ sync = "read" /\ t \in topicsToUpdate
  /\ latestValue' = [topic |-> t, id |-> topicSequences[t]]
  /\ lastSyncValues' = [lastSyncValues EXCEPT ![t] = topicSequences[t]]
  /\ sync' = "put"
  /\ UNCHANGED <<topicSequences, kv, ppc, lifeVars, shouldStop, topicsToUpdate, history>>

SyncPutsUnlessThere ==
  /\ sync = "put"
  /\ kv' = [kv EXCEPT ![latestValue.topic] = IF @ = Missing THEN latestValue.id ELSE @]
  /\ topicsToUpdate' = topicsToUpdate \ {latestValue.topic}
  /\ latestValue' = Idle
  /\ sync' = "read"
  /\ UNCHANGED <<topicSequences, ppc, lifeVars, shouldStop, lastSyncValues, history>>

SyncPuts ==
  /\ sync = "put"
  /\ kv' = [kv EXCEPT ![latestValue.topic] = latestValue.id]
  /\ topicsToUpdate' = topicsToUpdate \ {latestValue.topic}
  /\ latestValue' = Idle
  /\ sync' = "read"
  /\ UNCHANGED <<topicSequences, ppc, lifeVars, shouldStop, lastSyncValues, history>>

SyncEnds ==
  /\ sync = "read" /\ topicsToUpdate = {}
  /\ sync' = IF shouldStop THEN "ended" ELSE "select"
  /\ stoppedC' = shouldStop
  /\ UNCHANGED <<topicSequences, kv, ppc, dpc, stopC, stores, shouldStop, lastSyncValues,
                 topicsToUpdate, latestValue, history>>

startSequenceSync ==
  SyncAwakes \/ SyncCollects \/ (\E t \in Topics : SyncReads(t)) \/ SyncPuts \/ SyncEnds
-----------------------------------------------------------------------------
(* Start, Stop, New *)

Start ==
  /\ dpc = "new"
  /\ dpc' = "started" /\ sync' = "select"
  /\ UNCHANGED <<topicSequences, kv, ppc, stopC, stoppedC, stores, shouldStop, lastSyncValues,
                 topicsToUpdate, latestValue, history>>

Stop ==
  /\ dpc = "started"
  /\ dpc' = "stopping" /\ stopC' = TRUE
  /\ UNCHANGED <<topicSequences, kv, ppc, stoppedC, stores, syncVars, history>>

StopReturns ==
  /\ dpc = "stopping" /\ stoppedC
  /\ dpc' = "stopped" /\ stoppedC' = FALSE
  /\ UNCHANGED <<topicSequences, kv, ppc, stopC, stores, syncVars, history>>

Behind == {t \in Topics : topicSequences[t] > 0 /\ kv[t] # topicSequences[t]}

(* The store is gone, and New makes another one. *)
New ==
  /\ stores < MaxStores /\ dpc # "new"
  /\ stores' = stores + 1
  /\ unsynced' = unsynced \union Behind
  /\ topicSequences' = [t \in Topics |-> Missing]
  /\ ppc' = [p \in Publishers |-> Idle]
  /\ dpc' = "new" /\ stopC' = FALSE /\ stoppedC' = FALSE
  /\ sync' = "none" /\ shouldStop' = FALSE
  /\ lastSyncValues' = [t \in Topics |-> 0]
  /\ topicsToUpdate' = {} /\ latestValue' = Idle
  /\ late' = {}
  /\ UNCHANGED <<kv, given, overlap, refused>>

Next ==
  \/ \E p \in Publishers : Store(p) \/ \E t \in Topics : GenerateNextMsgID(p, t)
  \/ \E t \in Topics : MaxMessageID(t)
  \/ startSequenceSync
  \/ Start \/ Stop \/ StopReturns \/ New

Spec == Init /\ [][Next]_vars

(* The goroutines go on: the timer fires again and again, and a select     *)
(* that is offered the stop again and again takes it.                      *)
FairSpec ==
  /\ Spec
  /\ WF_vars(startSequenceSync)
  /\ SF_vars(SyncAwakes /\ shouldStop')
  /\ WF_vars(StopReturns)
-----------------------------------------------------------------------------
(* Properties *)

(* "to ensure a monotonic incremented id" (DummyMessageStore): the ids of  *)
(* a topic increase, from one store to the next too, unless two            *)
(* StoreMessages of the topic overlap, one of them setting the counter     *)
(* back, or a store is gone before its counter was copied; and no message  *)
(* is refused but for such an overlap.                                     *)
IdsIncrease ==
  /\ \A t \in Topics \ (overlap \union unsynced) :
       \A i, j \in 1 .. Published(t) : i < j => given[t][i] < given[t][j]
  /\ refused \subseteq overlap

(* Stop leaves the counters in the key-value store, those handed out since *)
(* the last tick included, but for topics published to while it stops.     *)
StopSyncs == dpc = "stopped" => Behind \subseteq late

(* As long as the store runs, the key-value store catches up with every    *)
(* counter, although it is read and put without the lock held in between.  *)
SyncCatchesUp ==
  \A t \in Topics : dpc = "started" /\ t \in Behind ~> t \notin Behind \/ dpc # "started"
=============================================================================
