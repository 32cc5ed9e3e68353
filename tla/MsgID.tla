------------------------------- MODULE MsgID -------------------------------
(***************************************************************************)
(* The ids of messages (generateNextMsgID in                               *)
(* server/store/filestore/message_partition.go, StoreMessage in            *)
(* message_store.go): a timestamp, a node number and a sequence number in  *)
(* one machine word, generated under the partition's lock and stored under *)
(* the same lock taken a second time, so publishers interleave in between. *)
(* Each node of the cluster has its own partition object and its own       *)
(* clock. The widths are constants: in the code SeqBits = 12,              *)
(* NodeBits = 3 (timestampLeftShift - gubleNodeIdShift) and TimeBits = 49. *)
(* A definition that stands right before another one, with the same        *)
(* parameters and a name that extends its name, is a mutation.             *)
(***************************************************************************)
EXTENDS Integers, Sequences, Bitwise

CONSTANTS
  Nodes,            \* node numbers
  Publishers,       \* goroutines in HandleMessage
  SeqBits, NodeBits, TimeBits,
  Epoch,            \* gubleEpoch
  MaxTime,          \* bound of the model: largest reading of a clock
  MaxIssued         \* bound of the model: ids issued per node

VARIABLES
  clock,            \* time.Now() at each node
  setBack,          \* history: nodes whose clock was set back
  sequenceNumber,   \* p.sequenceNumber at each node
  pub,              \* what each publisher does: [pc, node, id]
  issued,           \* history: ids generated at each node, in order
  stored,           \* ids stored at each node, in order
  maxMessageID      \* p.maxMessageID at each node

vars == <<clock, setBack, sequenceNumber, pub, issued, stored, maxMessageID>>

Width == TimeBits + NodeBits + SeqBits
Word == 0 .. 2 ^ Width - 1
Idle == [pc |-> "idle", node |-> 0, id |-> 0]

Init ==
  /\ clock = [n \in Nodes |-> 0]
  /\ setBack = {}
  /\ sequenceNumber = [n \in Nodes |-> 0]
  /\ pub = [p \in Publishers |-> Idle]
  /\ issued = [n \in Nodes |-> <<>>]
  /\ stored = [n \in Nodes |-> <<>>]
  /\ maxMessageID = [n \in Nodes |-> 0]

\* The shifts of the code keep the low Width bits.
ShiftLeft(x, k) == (x * 2 ^ k) % 2 ^ Width

Id(t, n, s) == (ShiftLeft(t - Epoch, NodeBits + SeqBits) | ShiftLeft(n, SeqBits)) | s

NextSequence(s) == s + 1

GenerateNextMsgID(p, n) ==
  /\ pub[p].pc = "idle" /\ Len(issued[n]) < MaxIssued
  /\ clock[n] >= Epoch
  /\ LET id == Id(clock[n], n, sequenceNumber[n])
     IN  /\ pub' = [pub EXCEPT ![p] = [pc |-> "generated", node |-> n, id |-> id]]
         /\ issued' = [issued EXCEPT ![n] = Append(@, id)]
  /\ sequenceNumber' = [sequenceNumber EXCEPT ![n] = NextSequence(@)]
  /\ UNCHANGED <<clock, setBack, stored, maxMessageID>>

-----------------------------------------------------------------------------
(* Stronger statements, which the code does not keep *)

\* "Clock is moving backwards. Rejecting requests": StoreMessage returns the error.
GenerateRejected(p, n) ==
  /\ pub[p].pc = "idle"
  /\ clock[n] < Epoch
  /\ pub' = [pub EXCEPT ![p] = [pc |-> "failed", node |-> n, id |-> 0]]
  /\ UNCHANGED <<clock, setBack, sequenceNumber, issued, stored, maxMessageID>>

MaxAfter(n, id) == IF id > maxMessageID[n] THEN id ELSE maxMessageID[n]

Store(p) ==
  /\ pub[p].pc = "generated"
  /\ LET n == pub[p].node
         id == pub[p].id
     IN  /\ stored' = [stored EXCEPT ![n] = Append(@, id)]
         /\ maxMessageID' = [maxMessageID EXCEPT ![n] = MaxAfter(n, id)]
  /\ pub' = [pub EXCEPT ![p].pc = "stored"]
  /\ UNCHANGED <<clock, setBack, sequenceNumber, issued>>

Return(p) ==
  /\ pub[p].pc \in {"stored", "failed"}
  /\ pub' = [pub EXCEPT ![p] = Idle]
  /\ UNCHANGED <<clock, setBack, sequenceNumber, issued, stored, maxMessageID>>

\* Time passes, and a clock may be set back (once per node: a bound of the model).
Tick(n) ==
  /\ clock[n] < MaxTime
  /\ clock' = [clock EXCEPT ![n] = @ + 1]
  /\ UNCHANGED <<setBack, sequenceNumber, pub, issued, stored, maxMessageID>>

StepBack(n) ==
  /\ clock[n] > Epoch /\ n \notin setBack
  /\ clock' = [clock EXCEPT ![n] = @ - 1]
  /\ setBack' = setBack \union {n}
  /\ UNCHANGED <<sequenceNumber, pub, issued, stored, maxMessageID>>

\* The process of a node ends and starts again: the sequence number starts at 0,
\* maxMessageID is read back from the index files, and time has passed.
Restart(n) ==
  /\ clock[n] < MaxTime
  /\ clock' = [clock EXCEPT ![n] = @ + 1]
  /\ sequenceNumber' = [sequenceNumber EXCEPT ![n] = 0]
  /\ pub' = [p \in Publishers |-> IF pub[p].node = n THEN Idle ELSE pub[p]]
  /\ UNCHANGED <<setBack, issued, stored, maxMessageID>>

Next ==
  \/ \E p \in Publishers :
       \/ \E n \in Nodes : GenerateNextMsgID(p, n) \/ GenerateRejected(p, n)
       \/ Store(p) \/ Return(p)
  \/ \E n \in Nodes : Tick(n) \/ StepBack(n) \/ Restart(n)

Spec == Init /\ [][Next]_vars
-----------------------------------------------------------------------------
(* Properties *)

Increasing(s) == \A k \in 1 .. Len(s) - 1 : s[k] < s[k + 1]

\* Ids are machine words, and every variable has the type the code gives it.
TypeOK ==
  /\ clock \in [Nodes -> 0 .. MaxTime] /\ setBack \subseteq Nodes
  /\ sequenceNumber \in [Nodes -> 0 .. MaxIssued]
  /\ \A p \in Publishers :
       pub[p].pc \in {"idle", "generated", "stored", "failed"} /\ pub[p].id \in Word
  /\ \A n \in Nodes : issued[n] \in Seq(Word) /\ stored[n] \in Seq(Word)
  /\ maxMessageID \in [Nodes -> Word]

\* "a strictly monotonically order" (store.go:32): generateNextMsgID returns growing ids
\* at one node, over restarts of the node, unless the clock of the node was set back.
IdsIncrease == \A n \in Nodes \ setBack : Increasing(issued[n])



\* "Clock is moving backwards. Rejecting requests" (message_partition.go:274): a clock
\* that was set back does not lead to smaller ids.
ClockBackIsRejected == \A n \in Nodes : Increasing(issued[n])

\* "The message id must be equal to MaxMessageId +1" (store.go:9): a partition stores
\* messages in the order of their ids.
StoredInOrder == \A n \in Nodes : Increasing(stored[n])
=============================================================================
