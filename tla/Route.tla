------------------------------- MODULE Route -------------------------------
(***************************************************************************)
(* One subscription route (server/router/route.go) with its private queue  *)
(* (server/router/message_queue.go).                                       *)
(*                                                                         *)
(* Three goroutines touch a route:                                         *)
(*   - the deliverer, which calls Deliver: first the goroutine running     *)
(*     Provide/handleFetch (messages from the store), then, once the route *)
(*     is subscribed, the router loop; never both;                         *)
(*   - the consumer goroutine started by consume();                        *)
(*   - the owner, which reads messagesC.                                   *)
(* Production code only builds routes with queueSize 0 (queueSize and      *)
(* timeout are unexported); the queued modes are those of the route tests. *)
(* A step is one access to state another goroutine can see (a critical     *)
(* section of r.mu or of the queue's mutex, or a channel operation).       *)
(* A definition that stands right before another one, with the same        *)
(* parameters and a name that extends its name, is a mutation: it is used  *)
(* only to show that a property notices the change.                        *)
(***************************************************************************)
EXTENDS Integers, Sequences

CONSTANTS
  Messages,     \* messages that may be delivered
  Filtered,     \* those whose filters do not match the route's parameters
  QueueSizes,   \* values of RouteConfig.queueSize: -1 infinite, 0 direct, >0 bounded
  ChannelSize,  \* capacity of messagesC
  Timeouts,     \* values of RouteConfig.timeout # -1
  MaxAccepted   \* bound of the model: number of messages accepted

ASSUME RouteAssumption ==
  /\ Filtered \subseteq Messages
  /\ QueueSizes \subseteq Nat \cup {-1}
  /\ ChannelSize \in Nat \ {0}
  /\ Timeouts \subseteq BOOLEAN
  /\ MaxAccepted \in Nat

VARIABLES
  queueSize,  \* RouteConfig.queueSize
  hasTimeout, \* RouteConfig.timeout # -1
  queue,      \* r.queue: messages waiting for the consumer
  messagesC,  \* contents of the route's channel
  invalid,    \* r.invalid: the route is closed (messagesC and closeC closed)
  consuming,  \* r.consuming
  subscribed, \* the router loop (not handleFetch) is the deliverer
  dpc,        \* where the deliverer is inside Deliver
  dmsg,       \* the message it delivers
  result,     \* what the last call of Deliver returned
  cpc,        \* where the consumer goroutine is; "none": not running
  accepted,   \* history: messages put in the queue or sent directly
  received    \* history: messages the owner has read

config == <<queueSize, hasTimeout>>
routeVars == <<queue, messagesC, invalid, consuming, subscribed, dpc, dmsg, result,
               cpc, accepted, received>>
vars == <<config, routeVars>>

Results == {"nil", "ErrInvalidRoute", "ErrQueueFull", "ErrChannelFull"}

TypeOK ==
  /\ queueSize \in Nat \cup {-1} /\ hasTimeout \in BOOLEAN
  /\ queue \in Seq(Messages)
  /\ messagesC \in Seq(Messages)
  /\ invalid \in BOOLEAN
  /\ consuming \in BOOLEAN
  /\ subscribed \in BOOLEAN
  /\ dpc \in {"idle", "direct", "enqueue", "overflow", "consume", "start"}
  /\ dmsg \in Messages
  /\ result \in Results
  /\ cpc \in {"none", "top", "poll", "send", "remove", "exit"}
  /\ accepted \in Seq(Messages)
  /\ received \in Seq(Messages)

Init ==
  /\ queueSize \in QueueSizes /\ hasTimeout \in Timeouts
  /\ queue = <<>> /\ messagesC = <<>>
  /\ invalid = FALSE /\ consuming = FALSE
  /\ subscribed \in BOOLEAN      \* without a FetchRequest it starts subscribed
  /\ dpc = "idle" /\ dmsg \in Messages /\ result = "nil"
  /\ cpc = "none"
  /\ accepted = <<>> /\ received = <<>>
-----------------------------------------------------------------------------
(* The deliverer. *)

Return(r) == dpc' = "idle" /\ result' = r

(* Close is idempotent: a second call changes nothing. *)
Close == invalid' = TRUE

IsInvalid == invalid

(* The message filter, and how an accepted message is sent. *)
Matches(m) == m \notin Filtered

DeliverMode == IF queueSize = 0 THEN "direct" ELSE "enqueue"

Deliver(m) ==
  /\ dpc = "idle"
  /\ dmsg' = m
  /\ \/ IsInvalid /\ Return("ErrInvalidRoute")
     \/ ~IsInvalid /\ ~Matches(m) /\ Return("nil")
     \/ /\ ~IsInvalid /\ Matches(m)
        /\ Len(accepted) < MaxAccepted
        /\ dpc' = DeliverMode
        /\ UNCHANGED result
  /\ UNCHANGED <<queue, messagesC, invalid, consuming, subscribed, cpc,
                 accepted, received>>

ChannelFull == Len(messagesC) >= ChannelSize

(* A fetched message waits for room; a routed one closes a full route. *)
ClosesWhenFull == subscribed

SendDirect ==
  /\ dpc = "direct"
  /\ \/ /\ ~ChannelFull
        /\ messagesC' = Append(messagesC, dmsg)
        /\ accepted' = Append(accepted, dmsg)
        /\ Return("nil")
        /\ UNCHANGED invalid
     \/ /\ ChannelFull
        /\ ClosesWhenFull
        /\ Close
        /\ Return("ErrChannelFull")
        /\ UNCHANGED <<messagesC, accepted>>
  /\ UNCHANGED <<queue, consuming, subscribed, dmsg, cpc, received>>

(* The queue: push at the end, poll the head, remove the head if any. *)
PushFront(q, m) == <<m>> \o q
Push(q, m) == Append(q, m)

RemoveHeadNever(q) == q
RemoveHead(q) == IF q = <<>> THEN q ELSE Tail(q)

QueueFull == queueSize > 0 /\ Len(queue) >= queueSize

(* The bounded queue: check its size, then push or close the route. From   *)
(* the check to the push the consumer can only make the queue shorter, so  *)
(* these two are one step.                                                 *)
Enqueue ==
  /\ dpc = "enqueue"
  /\ \/ /\ QueueFull
        /\ dpc' = "overflow"
        /\ UNCHANGED <<queue, accepted>>
     \/ /\ ~QueueFull
        /\ queue' = Push(queue, dmsg)
        /\ accepted' = Append(accepted, dmsg)
        /\ dpc' = "consume"
  /\ UNCHANGED <<messagesC, invalid, consuming, subscribed, dmsg, result, cpc,
                 received>>

Overflow ==
  /\ dpc = "overflow"
  /\ Close
  /\ Return("ErrQueueFull")
  /\ UNCHANGED <<queue, messagesC, consuming, subscribed, dmsg, cpc, accepted,
                 received>>

(* consume(): isConsuming() and setConsuming(true) are two critical        *)
(* sections of r.mu.                                                       *)
IsConsuming ==
  /\ dpc = "consume"
  /\ IF consuming THEN Return("nil") ELSE dpc' = "start" /\ UNCHANGED result
  /\ UNCHANGED <<queue, messagesC, invalid, consuming, subscribed, dmsg, cpc,
                 accepted, received>>

StartConsumerUnmarked ==
  /\ dpc = "start"
  /\ cpc' = "top"
  /\ Return("nil")
  /\ UNCHANGED <<queue, messagesC, invalid, consuming, subscribed, dmsg,
                 accepted, received>>

StartConsumer ==
  /\ dpc = "start"
  /\ consuming' = TRUE
  /\ cpc' = "top"
  /\ Return("nil")
  /\ UNCHANGED <<queue, messagesC, invalid, subscribed, dmsg, accepted,
                 received>>

(* handleFetch is done and Subscribe succeeded. *)
Subscribe ==
  /\ dpc = "idle" /\ ~subscribed
  /\ subscribed' = TRUE
  /\ UNCHANGED <<queue, messagesC, invalid, consuming, dpc, dmsg, result, cpc,
                 accepted, received>>

(* closeRoutes, in the router loop, closes a subscribed route. *)
RouterClose ==
  /\ dpc = "idle" /\ subscribed
  /\ Close
  /\ UNCHANGED <<queue, messagesC, consuming, subscribed, dpc, dmsg, result,
                 cpc, accepted, received>>
-----------------------------------------------------------------------------
(* The consumer goroutine of consume(). *)

ConsumerTop ==
  /\ cpc = "top"
  /\ cpc' = IF IsInvalid THEN "exit" ELSE "poll"
  /\ UNCHANGED <<queue, messagesC, invalid, consuming, subscribed, dpc, dmsg,
                 result, accepted, received>>

(* poll leaves the message in the queue until it is sent. *)
ConsumerPoll ==
  /\ cpc = "poll"
  /\ cpc' = IF queue = <<>> THEN "exit" ELSE "send"
  /\ UNCHANGED <<queue, messagesC, invalid, consuming, subscribed, dpc, dmsg,
                 result, accepted, received>>

SendSeesCloseNever == FALSE
SendSeesClose == invalid

(* send(): the polled message is still the head of the queue. Once the     *)
(* channel is closed a send panics; invalidRecover swallows the panic but  *)
(* the value it returns is lost, so send returns nil and the loop goes on  *)
(* to remove. With a timeout the select may see closeC instead and end the *)
(* consumer.                                                               *)
ConsumerSend ==
  /\ cpc = "send"
  /\ \/ /\ ~invalid /\ ~ChannelFull
        /\ messagesC' = Append(messagesC, Head(queue))
        /\ cpc' = "remove"
        /\ UNCHANGED invalid
     \/ /\ SendSeesClose
        /\ cpc' = "remove" \/ (hasTimeout /\ cpc' = "exit")
        /\ UNCHANGED <<messagesC, invalid>>
  /\ UNCHANGED <<queue, consuming, subscribed, dpc, dmsg, result, accepted,
                 received>>

(* The timer of send fires: the route is closed. *)
ConsumerTimeout ==
  /\ cpc = "send" /\ hasTimeout
  /\ Close
  /\ cpc' = "exit"
  /\ UNCHANGED <<queue, messagesC, consuming, subscribed, dpc, dmsg, result,
                 accepted, received>>

ConsumerRemove ==
  /\ cpc = "remove"
  /\ queue' = RemoveHead(queue)
  /\ cpc' = "top"
  /\ UNCHANGED <<messagesC, invalid, consuming, subscribed, dpc, dmsg, result,
                 accepted, received>>

(* The deferred setConsuming(false). *)
ConsumerExit ==
  /\ cpc = "exit"
  /\ consuming' = FALSE
  /\ cpc' = "none"
  /\ UNCHANGED <<queue, messagesC, invalid, subscribed, dpc, dmsg, result,
                 accepted, received>>

Consumer == ConsumerTop \/ ConsumerPoll \/ ConsumerSend \/ ConsumerRemove
              \/ ConsumerExit
-----------------------------------------------------------------------------
(* The owner of the route; what was buffered can be read after a close. *)
Receive ==
  /\ messagesC # <<>>
  /\ received' = Append(received, Head(messagesC))
  /\ messagesC' = Tail(messagesC)
  /\ UNCHANGED <<queue, invalid, consuming, subscribed, dpc, dmsg, result, cpc,
                 accepted>>

DeliverSteps ==
  SendDirect \/ Enqueue \/ Overflow \/ IsConsuming \/ StartConsumer

Next ==
  /\ \/ \E m \in Messages : Deliver(m)
     \/ DeliverSteps
     \/ Subscribe
     \/ RouterClose
     \/ Consumer
     \/ ConsumerTimeout
     \/ Receive
  /\ UNCHANGED config

Spec == Init /\ [][Next]_vars

(* Goroutines that can run do run. Nothing forces the owner to read, a new *)
(* Deliver to be called, the timer to fire or the router to close.         *)
FairSpec == Spec /\ WF_routeVars(DeliverSteps) /\ WF_routeVars(Consumer)
-----------------------------------------------------------------------------
(* Properties *)

(* The part of the queue that has not been sent: after send the message    *)
(* stays at the head until queue.remove.                                   *)
Unsent == IF cpc = "remove" THEN Tail(queue) ELSE queue

(* The poll/send/remove protocol of consume() neither loses, duplicates    *)
(* nor reorders: as long as the route is open, what the owner read, what   *)
(* is in the channel and what waits in the queue is, in this order,        *)
(* exactly what Deliver accepted.                                          *)
NothingLostWhileOpen ==
  ~invalid => received \o messagesC \o Unsent = accepted

(* Closing a route, by a full queue, a full channel, a timeout or the      *)
(* router, can only cut the tail: what the owner gets is always a prefix   *)
(* of what Deliver accepted, in order and without duplicates.              *)
OwnerSeesPrefix ==
  /\ Len(received \o messagesC) <= Len(accepted)
  /\ \A i \in 1 .. Len(received \o messagesC) :
       (received \o messagesC)[i] = accepted[i]

(* isConsuming/setConsuming are not one critical section; with a single    *)
(* deliverer there is still never a second consumer goroutine, and the     *)
(* flag is up exactly while one runs.                                      *)
SingleConsumer ==
  /\ dpc = "start" => cpc = "none"
  /\ consuming <=> cpc # "none"

(* sendDirect has no recover: a send on a closed channel would panic in    *)
(* the caller. The deliverer never reaches the send of a closed route.     *)
NoDirectSendOnClosed == dpc = "direct" => ~invalid

(* Closing the route releases its consumer goroutine, also one blocked in  *)
(* a send on a full channel nobody reads; its timer is not needed for it.  *)
CloseReleasesConsumer == invalid ~> cpc = "none"
-----------------------------------------------------------------------------
(* Stronger statements, which the code does not keep *)

(* "In case they are fetched from the store the route won't close if it's  *)
(* full" (route.go:76): a step of the deliverer that serves a fetch does   *)
(* not close the route. It may close one with a bounded queue.             *)
FetchDoesNotClose == [][~subscribed /\ DeliverSteps => invalid' = invalid]_vars

(* "Stops if there are no items in the queue" (route.go:257): the consumer *)
(* goroutine of an open route is gone, with no Deliver about to start      *)
(* another, only if the queue is empty.                                    *)
ConsumerStopsOnlyWhenEmpty ==
  cpc = "none" /\ dpc = "idle" /\ ~invalid => queue = <<>>
=============================================================================
