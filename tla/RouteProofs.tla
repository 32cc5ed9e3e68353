---------------------------- MODULE RouteProofs ----------------------------
(***************************************************************************)
(* Proofs about Route, for every set of messages and every queue size,     *)
(* channel size and timeout mode.                                          *)
(***************************************************************************)
EXTENDS Route, SequenceTheorems, TLAPS

(* What the owner can see, followed by something, is what was accepted.    *)
Cut ==
  \E rest \in Seq(Messages) : (received \o messagesC) \o rest = accepted

(* The deliverer only enters the code of the mode the route was built for, *)
(* and a route without queue never has a consumer.                         *)
ModeInv ==
  /\ dpc = "direct" => queueSize = 0
  /\ queueSize = 0 => cpc = "none" /\ queue = <<>> /\ dpc \in {"idle", "direct"}

(* The consumer holds the head of the queue from poll to remove.           *)
HeadInv == cpc \in {"send", "remove"} => queue # <<>>

IInv ==
  /\ TypeOK
  /\ SingleConsumer
  /\ ModeInv
  /\ HeadInv
  /\ NoDirectSendOnClosed
  /\ ~invalid => (received \o messagesC) \o Unsent = accepted
  /\ Cut
-----------------------------------------------------------------------------
(* Appending commutes with concatenation. *)
LEMMA AppendConcat ==
  \A s, t \in Seq(Messages), e \in Messages :
    Append(s \o t, e) = s \o Append(t, e)
<1> TAKE s, t \in Seq(Messages), e \in Messages
<1>1. <<e>> \in Seq(Messages) OBVIOUS
<1>2. Append(s \o t, e) = (s \o t) \o <<e>>
  BY AppendIsConcat, ConcatProperties
<1>3. Append(t, e) = t \o <<e>>
  BY AppendIsConcat
<1> QED BY <1>1, <1>2, <1>3, ConcatAssociative

(* Moving the head of t to the end of s keeps the concatenation. *)
LEMMA MoveHead ==
  ASSUME NEW S, NEW s \in Seq(S), NEW t \in Seq(S), t # <<>>
  PROVE  /\ Append(s, Head(t)) \o Tail(t) = s \o t
         /\ Head(t) \in S /\ Tail(t) \in Seq(S)
<1>1. Head(t) \in S /\ Tail(t) \in Seq(S) /\ Head(t) = t[1] /\ Len(t) \in Nat \ {0}
  BY HeadTailProperties, EmptySeq
<1>2. Append(s, Head(t)) \in Seq(S)
  BY <1>1, AppendProperties
<1> DEFINE l == Append(s, Head(t)) \o Tail(t)
           r == s \o t
<1>3. l \in Seq(S) /\ r \in Seq(S)
  BY <1>1, <1>2, ConcatProperties
<1>4. Len(l) = Len(r)
  BY <1>1, <1>2, ConcatProperties, AppendProperties, HeadTailProperties
<1>5. ASSUME NEW i \in 1 .. Len(l) PROVE l[i] = r[i]
  <2>1. /\ l[i] = IF i <= Len(s) + 1 THEN Append(s, Head(t))[i] ELSE Tail(t)[i - (Len(s) + 1)]
        /\ r[i] = IF i <= Len(s) THEN s[i] ELSE t[i - Len(s)]
    BY <1>1, <1>2, <1>4, ConcatProperties, AppendProperties, HeadTailProperties
  <2>2. CASE i <= Len(s)
    BY <1>1, <2>1, <2>2, AppendProperties
  <2>3. CASE i = Len(s) + 1
    BY <1>1, <2>1, <2>3, AppendProperties
  <2>4. CASE i > Len(s) + 1
    <3>1. Len(l) = Len(s) + Len(t) /\ Len(s) \in Nat
      BY <1>4, ConcatProperties
    <3>2. i - (Len(s) + 1) \in 1 .. Len(Tail(t))
      BY <2>4, <3>1, <1>1, HeadTailProperties
    <3> QED BY <2>1, <2>4, <3>1, <3>2, HeadTailProperties
  <2> QED BY <2>2, <2>3, <2>4
<1>6. l = r BY <1>3, <1>4, <1>5, SeqEqual
<1> QED BY <1>1, <1>6
-----------------------------------------------------------------------------
(* The invariant holds initially. *)
LEMMA InitIInv == Init => IInv
<1> SUFFICES ASSUME Init PROVE IInv
  OBVIOUS
<1>c. queueSize \in Nat \cup {-1} /\ hasTimeout \in BOOLEAN
  BY RouteAssumption, Zenon DEF Init
<1>a. TypeOK
  BY <1>c, EmptySeq, Zenon DEF Init, TypeOK, Results
<1>b. SingleConsumer /\ ModeInv /\ HeadInv /\ NoDirectSendOnClosed
  BY DEF Init, SingleConsumer, ModeInv, HeadInv, NoDirectSendOnClosed
<1>1. TypeOK /\ SingleConsumer /\ ModeInv /\ HeadInv /\ NoDirectSendOnClosed
  BY <1>a, <1>b
<1>2. Unsent = <<>>
  BY DEF Init, Unsent
<1>3. (received \o messagesC) \o <<>> = accepted /\ <<>> \in Seq(Messages)
  BY ConcatEmptySeq, EmptySeq DEF Init
<1> QED BY <1>1, <1>2, <1>3, Zenon DEF IInv, Cut

(* Steps that leave the three histories, the queue and the channel alone   *)
(* and do not move the consumer keep the two facts about the histories.    *)
LEMMA HistoriesUnchanged ==
  ASSUME IInv, UNCHANGED <<received, messagesC, accepted, queue>>,
         Unsent' = Unsent, invalid => invalid'
  PROVE  /\ ~invalid' => ((received \o messagesC) \o Unsent = accepted)'
         /\ Cut'
BY Zenon DEF IInv, Cut

(* Every step of the deliverer preserves the invariant. *)
LEMMA DelivererIInv ==
  ASSUME IInv, UNCHANGED config,
         (\E m \in Messages : Deliver(m)) \/ DeliverSteps \/ Subscribe \/ RouterClose
  PROVE  IInv'
<1>a. /\ TypeOK /\ SingleConsumer /\ ModeInv /\ HeadInv /\ NoDirectSendOnClosed
      /\ Cut
      /\ ~invalid => (received \o messagesC) \o Unsent = accepted
      /\ queueSize' = queueSize /\ hasTimeout' = hasTimeout
  BY DEF IInv, config
<1>b. /\ queue \in Seq(Messages) /\ messagesC \in Seq(Messages)
      /\ accepted \in Seq(Messages) /\ received \in Seq(Messages)
      /\ dmsg \in Messages
  BY <1>a DEF TypeOK
<1>c. Append(queue, dmsg) \in Seq(Messages) /\ Append(queue, dmsg) # <<>>
      /\ Append(messagesC, dmsg) \in Seq(Messages)
      /\ Append(accepted, dmsg) \in Seq(Messages)
  BY <1>b, AppendProperties
<1>d. \A s, t \in Seq(Messages), e \in Messages :
        Append(s \o t, e) = s \o Append(t, e)
  BY AppendConcat, Zenon
<1>1. CASE \E m \in Messages : Deliver(m)
  <2>1. TypeOK' /\ SingleConsumer' /\ ModeInv' /\ HeadInv' /\ NoDirectSendOnClosed'
    BY <1>a, <1>1 DEF Deliver, Return, IsInvalid, DeliverMode, TypeOK, Results,
                SingleConsumer, ModeInv, HeadInv, NoDirectSendOnClosed
  <2>2. Unsent' = Unsent BY <1>a, <1>1 DEF Deliver, Unsent
  <2> QED BY <1>a, <1>1, <2>1, <2>2, HistoriesUnchanged DEF IInv, Deliver
<1>2. CASE SendDirect
  <2>1. TypeOK' /\ SingleConsumer' /\ ModeInv' /\ HeadInv' /\ NoDirectSendOnClosed'
    <3>1. TypeOK'
      <4>1. messagesC' \in Seq(Messages) /\ accepted' \in Seq(Messages)
        BY <1>2, <1>b, <1>c, Zenon DEF SendDirect
      <4> QED BY <1>a, <1>2, <4>1, Zenon DEF SendDirect, Return, Close, TypeOK, Results
    <3>2. SingleConsumer' /\ ModeInv' /\ HeadInv' /\ NoDirectSendOnClosed'
      BY <1>a, <1>2 DEF SendDirect, Return, SingleConsumer, ModeInv, HeadInv,
                  NoDirectSendOnClosed
    <3> QED BY <3>1, <3>2
  <2>2. queueSize = 0 /\ queue = <<>> /\ cpc = "none" /\ ~invalid
    BY <1>a, <1>2 DEF SendDirect, ModeInv, NoDirectSendOnClosed
  <2>3. Unsent = <<>> /\ Unsent' = <<>>
    BY <1>a, <1>2, <2>2 DEF SendDirect, Unsent
  <2>4. CASE UNCHANGED <<messagesC, accepted>>
    BY <1>a, <1>2, <2>1, <2>2, <2>3, <2>4, HistoriesUnchanged DEF IInv, SendDirect
  <2>5. CASE /\ messagesC' = Append(messagesC, dmsg)
             /\ accepted' = Append(accepted, dmsg)
    <3>1. received' = received BY <1>a, <1>2 DEF SendDirect
    <3>2. received \in Seq(Messages) /\ messagesC \in Seq(Messages) /\ dmsg \in Messages
      BY <1>b
    <3>3. received \o messagesC = accepted
      BY <1>a, <2>2, <2>3, <3>2, ConcatEmptySeq, ConcatProperties
    <3>4. (received \o messagesC)' = accepted'
      BY <1>d, <2>5, <3>1, <3>2, <3>3, Zenon
    <3>5. (received \o messagesC)' \in Seq(Messages)
      BY <2>1, ConcatProperties DEF TypeOK
    <3>6. ((received \o messagesC) \o <<>>)' = accepted'
      BY <3>4, <3>5, ConcatEmptySeq
    <3>7. Cut' BY <3>6, EmptySeq, Zenon DEF Cut
    <3> QED BY <2>1, <2>3, <3>6, <3>7 DEF IInv
  <2> QED BY <1>a, <1>2, <2>4, <2>5 DEF SendDirect
<1>3. CASE Enqueue
  <2>1. TypeOK' /\ SingleConsumer' /\ ModeInv' /\ HeadInv' /\ NoDirectSendOnClosed'
    <3>1. TypeOK'
      <4>1. queue' \in Seq(Messages) /\ accepted' \in Seq(Messages)
        BY <1>3, <1>b, <1>c, Zenon DEF Enqueue, Push
      <4> QED BY <1>a, <1>3, <4>1 DEF Enqueue, TypeOK
    <3>2. queue' # <<>> \/ queue' = queue
      BY <1>3, <1>c DEF Enqueue, Push
    <3>3. SingleConsumer' /\ ModeInv' /\ HeadInv' /\ NoDirectSendOnClosed'
      BY <1>a, <1>3, <3>2 DEF Enqueue, SingleConsumer, ModeInv, HeadInv,
                        NoDirectSendOnClosed
    <3> QED BY <3>1, <3>3
  <2>2. CASE UNCHANGED <<queue, accepted>>
    <3>1. Unsent' = Unsent BY <1>a, <1>3, <2>2 DEF Enqueue, Unsent
    <3> QED BY <1>a, <1>3, <2>1, <2>2, <3>1, HistoriesUnchanged DEF IInv, Enqueue
  <2>3. CASE /\ queue' = Append(queue, dmsg)
             /\ accepted' = Append(accepted, dmsg)
    <3> DEFINE seen == received \o messagesC
    <3>1. seen \in Seq(Messages) /\ seen' = seen /\ dmsg \in Messages
          /\ queue \in Seq(Messages)
      BY <1>a, <1>3, ConcatProperties DEF Enqueue, TypeOK
    <3>2. Unsent \in Seq(Messages) /\ Unsent' = Append(Unsent, dmsg)
      <4>1. CASE cpc = "remove"
        <5>1. queue # <<>> /\ cpc' = cpc
          BY <1>a, <1>3, <4>1 DEF Enqueue, HeadInv
        <5>2. Tail(queue) \in Seq(Messages)
              /\ Tail(Append(queue, dmsg)) = Append(Tail(queue), dmsg)
          BY <3>1, <5>1, HeadTailAppend, HeadTailProperties
        <5> QED BY <2>3, <4>1, <5>1, <5>2 DEF Unsent
      <4>2. CASE cpc # "remove"
        BY <4>2, <1>3, <2>3, <3>1 DEF Enqueue, Unsent
      <4> QED BY <4>1, <4>2
    <3>3. invalid' = invalid BY <1>a, <1>3 DEF Enqueue
    <3>4. ~invalid' => (seen \o Unsent = accepted)'
      <4>1. Append(seen \o Unsent, dmsg) = seen \o Append(Unsent, dmsg)
        <5> HIDE DEF seen
        <5> QED BY <1>d, <3>1, <3>2, Zenon
      <4>2. ~invalid => seen \o Unsent = accepted
        BY <1>a
      <4> HIDE DEF seen
      <4> QED BY <2>3, <3>1, <3>2, <3>3, <4>1, <4>2, Zenon
    <3>5. Cut'
      <4>1. PICK rest \in Seq(Messages) : seen \o rest = accepted
        BY <1>a, SMTT(30) DEF Cut
      <4>2. seen' \o Append(rest, dmsg) = accepted'
        <5> HIDE DEF seen
        <5>1. Append(seen \o rest, dmsg) = seen \o Append(rest, dmsg)
          BY <1>d, <3>1, Zenon
        <5> QED BY <2>3, <3>1, <4>1, <5>1
      <4>3. Append(rest, dmsg) \in Seq(Messages)
        BY <3>1, AppendProperties
      <4> QED BY <4>2, <4>3, Zenon DEF Cut
    <3> QED BY <2>1, <3>4, <3>5 DEF IInv
  <2> QED BY <1>a, <1>3, <2>2, <2>3 DEF Enqueue, Push
<1>4. CASE Overflow
  <2>1. TypeOK' /\ SingleConsumer' /\ ModeInv' /\ HeadInv' /\ NoDirectSendOnClosed'
    BY <1>a, <1>4 DEF Overflow, Return, Close, TypeOK, Results, SingleConsumer, ModeInv,
                HeadInv, NoDirectSendOnClosed
  <2>2. Unsent' = Unsent
    BY <1>a, <1>4 DEF Overflow, Unsent, SingleConsumer
  <2> QED BY <1>a, <1>4, <2>1, <2>2, HistoriesUnchanged DEF IInv, Overflow, Close
<1>5. CASE IsConsuming
  <2>1. TypeOK' /\ SingleConsumer' /\ ModeInv' /\ HeadInv' /\ NoDirectSendOnClosed'
    BY <1>a, <1>5 DEF IsConsuming, Return, TypeOK, Results, SingleConsumer, ModeInv,
                HeadInv, NoDirectSendOnClosed
  <2>2. Unsent' = Unsent
    BY <1>a, <1>5 DEF IsConsuming, Unsent, SingleConsumer
  <2> QED BY <1>a, <1>5, <2>1, <2>2, HistoriesUnchanged DEF IInv, IsConsuming
<1>6. CASE StartConsumer
  <2>1. TypeOK' /\ SingleConsumer' /\ ModeInv' /\ HeadInv' /\ NoDirectSendOnClosed'
    BY <1>a, <1>6 DEF StartConsumer, Return, TypeOK, Results, SingleConsumer, ModeInv,
                HeadInv, NoDirectSendOnClosed
  <2>2. Unsent' = Unsent
    BY <1>a, <1>6 DEF StartConsumer, Unsent, SingleConsumer
  <2> QED BY <1>a, <1>6, <2>1, <2>2, HistoriesUnchanged DEF IInv, StartConsumer
<1>7. CASE Subscribe
  <2>1. TypeOK' /\ SingleConsumer' /\ ModeInv' /\ HeadInv' /\ NoDirectSendOnClosed'
    BY <1>a, <1>7 DEF Subscribe, TypeOK, Results, SingleConsumer, ModeInv,
                HeadInv, NoDirectSendOnClosed
  <2>2. Unsent' = Unsent
    BY <1>a, <1>7 DEF Subscribe, Unsent, SingleConsumer
  <2> QED BY <1>a, <1>7, <2>1, <2>2, HistoriesUnchanged DEF IInv, Subscribe
<1>8. CASE RouterClose
  <2>1. TypeOK' /\ SingleConsumer' /\ ModeInv' /\ HeadInv' /\ NoDirectSendOnClosed'
    BY <1>a, <1>8 DEF RouterClose, Close, TypeOK, Results, SingleConsumer, ModeInv,
                HeadInv, NoDirectSendOnClosed
  <2>2. Unsent' = Unsent
    BY <1>a, <1>8 DEF RouterClose, Unsent, SingleConsumer
  <2> QED BY <1>a, <1>8, <2>1, <2>2, HistoriesUnchanged DEF IInv, RouterClose, Close
<1> QED BY <1>a, <1>1, <1>2, <1>3, <1>4, <1>5, <1>6, <1>7, <1>8 DEF DeliverSteps

(* Every step of the consumer goroutine preserves the invariant. *)
LEMMA ConsumerIInv ==
  ASSUME IInv, UNCHANGED config, Consumer \/ ConsumerTimeout
  PROVE  IInv'
<1>a. /\ TypeOK /\ SingleConsumer /\ ModeInv /\ HeadInv /\ NoDirectSendOnClosed
      /\ Cut
      /\ ~invalid => (received \o messagesC) \o Unsent = accepted
      /\ queueSize' = queueSize /\ hasTimeout' = hasTimeout
  BY DEF IInv, config
<1>b. /\ queue \in Seq(Messages) /\ messagesC \in Seq(Messages)
      /\ accepted \in Seq(Messages) /\ received \in Seq(Messages)
  BY <1>a DEF TypeOK
<1>1. CASE ConsumerTop
  <2>1. TypeOK' /\ SingleConsumer' /\ ModeInv' /\ HeadInv' /\ NoDirectSendOnClosed'
    BY <1>a, <1>1 DEF ConsumerTop, IsInvalid, TypeOK, SingleConsumer, ModeInv, HeadInv,
                     NoDirectSendOnClosed
  <2>2. Unsent' = Unsent
    BY <1>a, <1>1 DEF ConsumerTop, Unsent
  <2> QED BY <1>1, <2>1, <2>2, HistoriesUnchanged DEF IInv, ConsumerTop
<1>2. CASE ConsumerPoll
  <2>1. TypeOK' /\ SingleConsumer' /\ ModeInv' /\ HeadInv' /\ NoDirectSendOnClosed'
    BY <1>a, <1>2 DEF ConsumerPoll, TypeOK, SingleConsumer, ModeInv, HeadInv,
                     NoDirectSendOnClosed
  <2>2. Unsent' = Unsent
    BY <1>a, <1>2 DEF ConsumerPoll, Unsent
  <2> QED BY <1>2, <2>1, <2>2, HistoriesUnchanged DEF IInv, ConsumerPoll
<1>3. CASE ConsumerSend
  <2>1. queue # <<>> /\ cpc = "send" /\ queueSize # 0
    BY <1>a, <1>3 DEF ConsumerSend, HeadInv, ModeInv
  <2>2. Head(queue) \in Messages /\ Tail(queue) \in Seq(Messages)
    BY <1>b, <2>1, HeadTailProperties
  <2>3. messagesC' \in Seq(Messages)
    <3>1. Append(messagesC, Head(queue)) \in Seq(Messages)
      BY <1>b, <2>2, AppendProperties
    <3> QED BY <1>b, <1>3, <3>1, Zenon DEF ConsumerSend
  <2>4. TypeOK' /\ SingleConsumer' /\ ModeInv' /\ HeadInv' /\ NoDirectSendOnClosed'
    BY <1>a, <1>3, <2>1, <2>3, Zenon
       DEF ConsumerSend, Close, TypeOK, SingleConsumer, ModeInv, HeadInv,
           NoDirectSendOnClosed
  <2>5. CASE /\ ~invalid /\ UNCHANGED invalid
             /\ messagesC' = Append(messagesC, Head(queue)) /\ cpc' = "remove"
    <3> DEFINE seen == received \o messagesC
    <3>1. seen \in Seq(Messages) /\ seen' = Append(seen, Head(queue))
      BY <1>b, <1>3, <2>2, <2>5, ConcatProperties, AppendConcat, SMTT(30) DEF ConsumerSend
    <3>2. seen \o queue = accepted
      BY <1>a, <2>1, <2>5 DEF Unsent
    <3>3. Append(seen, Head(queue)) \o Tail(queue) = seen \o queue
      <4> HIDE DEF seen
      <4> QED BY <1>b, <2>1, <3>1, MoveHead, SMTT(30)
    <3>4. Unsent' = Tail(queue) /\ accepted' = accepted
      BY <1>3, <2>5 DEF ConsumerSend, Unsent
    <3>5. (seen \o Unsent = accepted)'
      <4> HIDE DEF seen
      <4> QED BY <3>1, <3>2, <3>3, <3>4, Zenon
    <3>6. Cut'
      BY <2>2, <3>4, <3>5, Zenon DEF Cut
    <3> QED BY <2>4, <3>5, <3>6 DEF IInv
  <2>6. CASE invalid' /\ UNCHANGED messagesC
    <3>1. Cut'
      BY <1>a, <1>3, <2>6, SMTT(30) DEF ConsumerSend, Cut
    <3> QED BY <2>4, <2>6, <3>1 DEF IInv
  <2> QED BY <1>3, <2>5, <2>6 DEF ConsumerSend, SendSeesClose, Close
<1>4. CASE ConsumerRemove
  <2>1. queue # <<>> /\ cpc = "remove" /\ queue' = Tail(queue) /\ cpc' = "top"
    BY <1>a, <1>4 DEF ConsumerRemove, HeadInv, RemoveHead
  <2>2. queue' \in Seq(Messages)
    BY <1>b, <2>1, HeadTailProperties
  <2>3. TypeOK' /\ SingleConsumer' /\ ModeInv' /\ HeadInv' /\ NoDirectSendOnClosed'
    BY <1>a, <1>4, <2>1, <2>2
       DEF ConsumerRemove, TypeOK, SingleConsumer, ModeInv, HeadInv,
           NoDirectSendOnClosed
  <2>4. Unsent' = Unsent
    BY <2>1 DEF Unsent
  <2> QED BY <1>a, <1>4, <2>3, <2>4, Zenon DEF IInv, ConsumerRemove, Cut
<1>5. CASE ConsumerExit
  <2>1. TypeOK' /\ SingleConsumer' /\ ModeInv' /\ HeadInv' /\ NoDirectSendOnClosed'
    BY <1>a, <1>5, Zenon DEF ConsumerExit, TypeOK, SingleConsumer, ModeInv, HeadInv,
                     NoDirectSendOnClosed
  <2>2. Unsent' = Unsent
    BY <1>a, <1>5 DEF ConsumerExit, Unsent
  <2> QED BY <1>5, <2>1, <2>2, HistoriesUnchanged DEF IInv, ConsumerExit
<1>6. CASE ConsumerTimeout
  <2>1. TypeOK' /\ SingleConsumer' /\ ModeInv' /\ HeadInv' /\ NoDirectSendOnClosed'
    BY <1>a, <1>6, Zenon DEF ConsumerTimeout, Close, TypeOK, SingleConsumer, ModeInv,
                     HeadInv, NoDirectSendOnClosed
  <2>2. Unsent' = Unsent
    BY <1>6 DEF ConsumerTimeout, Unsent
  <2> QED BY <1>6, <2>1, <2>2, HistoriesUnchanged DEF IInv, ConsumerTimeout, Close
<1> QED BY <1>1, <1>2, <1>3, <1>4, <1>5, <1>6 DEF Consumer

(* Reading a message moves it from the channel to the owner. *)
LEMMA ReceiveIInv ==
  ASSUME IInv, UNCHANGED config, Receive
  PROVE  IInv'
<1>1. /\ messagesC \in Seq(Messages) /\ received \in Seq(Messages)
      /\ messagesC # <<>>
  BY DEF IInv, TypeOK, Receive
<1>2. Head(messagesC) \in Messages /\ Tail(messagesC) \in Seq(Messages)
  BY <1>1, HeadTailProperties
<1>3. Append(received, Head(messagesC)) \in Seq(Messages)
  BY <1>1, <1>2, AppendProperties
<1>4. (received \o messagesC)' = received \o messagesC
  BY <1>1, MoveHead DEF Receive
<1>5. TypeOK' /\ SingleConsumer' /\ ModeInv' /\ HeadInv' /\ NoDirectSendOnClosed'
  BY <1>2, <1>3
     DEF IInv, config, Receive, TypeOK, SingleConsumer, ModeInv, HeadInv,
         NoDirectSendOnClosed
<1>6. Unsent' = Unsent /\ accepted' = accepted /\ invalid' = invalid
  BY DEF Receive, Unsent
<1> QED BY <1>4, <1>5, <1>6, Zenon DEF IInv, Cut

(* IInv is an inductive invariant of a route. *)
LEMMA Inductive == Spec => []IInv
<1>1. Init => IInv
  BY InitIInv
<1>2. IInv /\ [Next]_vars => IInv'
  <2> SUFFICES ASSUME IInv, [Next]_vars PROVE IInv'
    OBVIOUS
  <2>1. CASE Next
    BY <2>1, DelivererIInv, ConsumerIInv, ReceiveIInv DEF Next
  <2>2. CASE UNCHANGED vars
    <3>1. Unsent' = Unsent BY <2>2 DEF vars, routeVars, Unsent
    <3> QED BY <2>2, <3>1, Zenon
            DEF vars, routeVars, config, IInv, TypeOK, SingleConsumer, ModeInv, HeadInv,
                NoDirectSendOnClosed, Cut
  <2> QED BY <2>1, <2>2
<1> QED BY <1>1, <1>2, PTL DEF Spec
-----------------------------------------------------------------------------
(* The variables of a route keep their types. *)
THEOREM TypeCorrect == Spec => []TypeOK
<1>1. IInv => TypeOK BY DEF IInv
<1> QED BY <1>1, Inductive, PTL

(* An open route loses, duplicates and reorders nothing: what the owner    *)
(* read, the channel and the unsent part of the queue make up exactly what *)
(* Deliver accepted, for every queue size, channel size and timeout mode.  *)
THEOREM OpenRouteExact == Spec => []NothingLostWhileOpen
<1>1. IInv => NothingLostWhileOpen
  <2> SUFFICES ASSUME IInv, ~invalid
               PROVE  received \o messagesC \o Unsent = accepted
    BY DEF NothingLostWhileOpen
  <2> QED BY DEF IInv
<1> QED BY <1>1, Inductive, PTL

(* Closing a route at any point only cuts the tail: the owner sees a       *)
(* prefix of what Deliver accepted.                                        *)
THEOREM ClosedRoutePrefix == Spec => []OwnerSeesPrefix
<1>1. IInv => OwnerSeesPrefix
  <2> SUFFICES ASSUME IInv PROVE OwnerSeesPrefix
    OBVIOUS
  <2> DEFINE seen == received \o messagesC
  <2>1. PICK rest \in Seq(Messages) : seen \o rest = accepted
    BY Zenon DEF IInv, Cut
  <2>2. seen \in Seq(Messages)
    BY ConcatProperties DEF IInv, TypeOK
  <2>3. /\ Len(seen \o rest) = Len(seen) + Len(rest)
        /\ \A i \in 1 .. Len(seen) + Len(rest) :
             (seen \o rest)[i] = IF i <= Len(seen) THEN seen[i] ELSE rest[i - Len(seen)]
        /\ Len(seen) \in Nat /\ Len(rest) \in Nat
    <3> HIDE DEF seen
    <3> QED BY <2>2, ConcatProperties, LenProperties
  <2>4. Len(seen) <= Len(accepted) /\ \A i \in 1 .. Len(seen) : seen[i] = accepted[i]
    <3> HIDE DEF seen
    <3> QED BY <2>1, <2>3
  <2> QED BY <2>4 DEF OwnerSeesPrefix
<1> QED BY <1>1, Inductive, PTL

(* There is never a second consumer goroutine, although isConsuming and    *)
(* setConsuming are two critical sections.                                 *)
THEOREM OneConsumer == Spec => []SingleConsumer
<1>1. IInv => SingleConsumer BY DEF IInv
<1> QED BY <1>1, Inductive, PTL

(* sendDirect never runs on a closed channel, so it cannot panic. *)
THEOREM DirectSendSafe == Spec => []NoDirectSendOnClosed
<1>1. IInv => NoDirectSendOnClosed BY DEF IInv
<1> QED BY <1>1, Inductive, PTL
=============================================================================
