-------------------------- MODULE OperationsProofs --------------------------
(***************************************************************************)
(* Proofs about the whole process: what lies in the broker's queues and on *)
(* the wires is well formed, retries are counted, the consumer goroutine   *)
(* and the callers of the admin keep their disciplines, and the handlers   *)
(* keep their invariant in the running service, restarts included.         *)
(***************************************************************************)
EXTENDS Operations, HandlersProofs

(* The messages of the two protocols, with the retry counts they may carry. *)
QueuedMessages == [request : Requests, retry : 0..MaxRetryCount]

DeadLetters ==
    [request : Requests, retry : 0..MaxRetryCount, cause : {"rejected"}] \cup
    [request : Requests, retry : {MaxRetryCount}, cause : {"exhausted"}]

OutcomeMessages ==
    [request : Requests, decision : Decisions, reason : Reasons, life : Nat]

ServicePublications ==
    [route : {"retry"}, message : QueuedMessages, life : Nat] \cup
    [route : {"dead_letter"}, message : DeadLetters, life : Nat] \cup
    [route : {"outcome"}, message : OutcomeMessages, life : Nat]

AdminPublications ==
    [route : {"request"}, message : QueuedMessages, life : Nat]

(* Queues and wires hold messages of their protocol.                        *)
MessagesTyped ==
    /\ DOMAIN inbound \subseteq QueuedMessages
    /\ DOMAIN retryQueue \subseteq QueuedMessages
    /\ DOMAIN dlq \subseteq DeadLetters
    /\ DOMAIN outcomes \subseteq OutcomeMessages
    /\ wire \in Seq(ServicePublications)
    /\ adminWire \in Seq(AdminPublications)
    /\ held \in DeadLetters \cup {NoDelivery}
    /\ life \in Nat

Busy == {"handling", "publishing", "confirming", "forwarding"}

(* The consumer goroutine: it holds a delivery that decodes exactly while   *)
(* it is busy, and a result exactly while that is being published.          *)
ConsumerTyped ==
    /\ pc \in Busy \cup {"idle", "stopped"}
    /\ pc \in Busy => delivery \in QueuedMessages /\ Decodes(delivery.request)
    /\ pc \notin Busy => delivery = NoDelivery
    /\ pc \in {"publishing", "confirming"} => reply.result \in Result
    /\ pc = "stopped" => ctxDone \/ ~consumerOpen
    /\ copies \in 0..2
    /\ copies > 0 <=> pc = "confirming"
    /\ settings \in Modes
    /\ failureMode \in Modes
    /\ ctxDone \in BOOLEAN /\ consumerOpen \in BOOLEAN

CallRecords ==
    [pc : {"new", "locking", "looping", "confirming", "returned"},
     op : {"none", "requeue", "depth"},
     queue : {r.queue : r \in RequeueRequests} \cup {"none"},
     limit : {r.limit : r \in RequeueRequests} \cup {0},
     requeued : Int, depth : Int]

CallsTyped == call \in [Callers -> CallRecords] /\ adminOpen \in BOOLEAN

ConfirmationsTyped == confirmations \in Seq(BOOLEAN)

CountersTyped == counters \in [Decisions \cup {"hits"} -> 0..MaxCount]

(* The inductive invariant of the process, as far as types and the          *)
(* disciplines of its goroutines go.                                        *)
OperationsInv ==
    /\ HandlersInv
    /\ MessagesTyped
    /\ ConsumerTyped
    /\ ConfirmationsTyped
    /\ CallsTyped
    /\ AdminTypeOK
    /\ CountersTyped

-----------------------------------------------------------------------------
(* What adding to and removing from a bag does to its elements.             *)
LEMMA BagElements ==
    ASSUME NEW B, NEW x
    PROVE  \A y : /\ y \in DOMAIN BagAdd(B, x) <=> y \in DOMAIN B \/ y = x
                  /\ y \in DOMAIN BagRemove(B, x) => y \in DOMAIN B
                  /\ y \in DOMAIN B => y \in DOMAIN BagRemove(B, x) \/ y = x
  BY DEF BagAdd, BagRemove, Ext!BagAdd, Ext!BagRemove

(* NoDelivery is none of the messages.                                      *)
LEMMA NoDeliveryIsNoMessage ==
    /\ NoDelivery \notin QueuedMessages
    /\ NoDelivery \notin DeadLetters
  <1>1. \A r \in Requests : r.kind # "none"
    BY HandlersAssumption DEF ReserveRequests, ReleaseRequests
  <1>2. NoDelivery.request.kind = "none"
    BY DEF NoDelivery
  <1>3. \A m \in QueuedMessages \cup DeadLetters : m.request \in Requests
    BY DEF QueuedMessages, DeadLetters
  <1> QED BY <1>1, <1>2, <1>3

(* A delivery that is rejected becomes a dead letter of the protocol.       *)
LEMMA DeadLetterTyped ==
    ASSUME NEW m \in QueuedMessages
    PROVE  DeadLetter(m, "rejected") \in DeadLetters
  BY DEF DeadLetter, DeadLetters, QueuedMessages

(* retryOrDeadLetter never counts beyond the limit: what it publishes is a   *)
(* message with one retry more, or an exhausted dead letter.                *)
LEMMA ForwardedTyped ==
    ASSUME NEW m \in QueuedMessages, life \in Nat
    PROVE  Forwarded(m) \in ServicePublications
  <1>1. CASE m.retry + 1 > MaxRetryCount
    <2>1. m.retry = MaxRetryCount
      BY <1>1, ServiceAssumption DEF QueuedMessages
    <2>2. DeadLetter(m, "exhausted") \in DeadLetters
      BY <2>1 DEF DeadLetter, DeadLetters, QueuedMessages
    <2> QED BY <1>1, <2>2 DEF Forwarded, Publication, ServicePublications
  <1>2. CASE ~(m.retry + 1 > MaxRetryCount)
    <2>1. Message(m.request, m.retry + 1) \in QueuedMessages
      BY <1>2, ServiceAssumption DEF Message, QueuedMessages
    <2> QED BY <1>2, <2>1 DEF Forwarded, Publication, ServicePublications
  <1> QED BY <1>1, <1>2

(* What publishResult publishes is an outcome of the protocol.              *)
LEMMA OutcomeTyped ==
    ASSUME NEW result \in Result, life \in Nat
    PROVE  Publication("outcome", Outcome(result), life) \in ServicePublications
  <1>1. Outcome(result) \in OutcomeMessages
    BY DEF Outcome, OutcomeMessages, Result
  <1> QED BY <1>1 DEF Publication, ServicePublications

(* The ways in which the consumer is done with a delivery.                  *)
Ending == Ack \/ NackReject \/ NackRequeue \/ RetryOrDeadLetter

(* Whichever way it ends, the messages stay well formed ...                 *)
LEMMA EndingMessages ==
    ASSUME MessagesTyped, delivery \in QueuedMessages, Ending
    PROVE  /\ DOMAIN inbound' \subseteq QueuedMessages
           /\ DOMAIN dlq' \subseteq DeadLetters
           /\ wire' \in Seq(ServicePublications)
  <1> USE DEF MessagesTyped
  <1>1. CASE Ack
    BY <1>1 DEF Ack
  <1>2. CASE NackReject
    <2>1. \/ dlq' = BagAdd(dlq, DeadLetter(delivery, "rejected"))
          \/ dlq' = dlq
      BY <1>2 DEF NackReject
    <2>2. DOMAIN dlq' \subseteq DeadLetters
      BY <2>1, BagElements, DeadLetterTyped
    <2> QED BY <1>2, <2>2 DEF NackReject
  <1>3. CASE NackRequeue
    <2>1. inbound' = BagAdd(inbound, delivery) \/ inbound' = inbound
      BY <1>3 DEF NackRequeue
    <2>2. DOMAIN inbound' \subseteq QueuedMessages
      BY <2>1, BagElements
    <2> QED BY <1>3, <2>2 DEF NackRequeue
  <1>4. CASE RetryOrDeadLetter
    <2>1. CASE /\ Publisher!Publish(Forwarded(delivery))
               /\ UNCHANGED <<inbound, dlq>>
      BY <2>1, ForwardedTyped DEF Publisher!Publish
    <2> QED BY <1>3, <1>4, <2>1 DEF RetryOrDeadLetter
  <1> QED BY <1>1, <1>2, <1>3, <1>4 DEF Ending

(* ... and the goroutine is idle, stopped or waits for a forwarded message. *)
LEMMA EndingConsumer ==
    ASSUME ConsumerTyped, pc \in Busy, Ending, UNCHANGED processVars
    PROVE  ConsumerTyped'
  <1>1. CASE NextDelivery
    BY <1>1 DEF NextDelivery, ConsumerTyped, processVars, Busy, Modes
  <1>2. CASE pc' = "forwarding" /\ copies' = 0 /\ UNCHANGED <<delivery, settings>>
    BY <1>2 DEF ConsumerTyped, processVars, Busy
  <1> QED BY <1>1, <1>2 DEF Ending, Ack, NackReject, NackRequeue,
                            RetryOrDeadLetter

-----------------------------------------------------------------------------
(* Every step of the consumer keeps the messages well formed.               *)
LEMMA ConsumerMessages ==
    ASSUME MessagesTyped, ConsumerTyped, Consume, UNCHANGED adminVars
    PROVE  MessagesTyped'
  <1> DEFINE Same == UNCHANGED <<retryQueue, outcomes, life, adminWire, held>>
  <1>1. ASSUME Ending, pc \in Busy, Same
        PROVE  MessagesTyped'
    <2>1. delivery \in QueuedMessages
      BY <1>1 DEF ConsumerTyped
    <2> QED BY <1>1, <2>1, EndingMessages DEF MessagesTyped
  <1>2. UNCHANGED <<adminWire, held>>
    BY DEF adminVars, adminChannelVars
  <1>3. ASSUME pc = "handling", AfterHandler
        PROVE  MessagesTyped'
    <2>1. Same
      BY <1>2, <1>3 DEF AfterHandler, processVars
    <2>2. CASE UNCHANGED <<inbound, dlq, wire>>
      BY <2>1, <2>2 DEF MessagesTyped
    <2> QED BY <1>1, <1>3, <2>1, <2>2 DEF AfterHandler, Ending, Busy
  <1>4. ASSUME NEW m \in DOMAIN inbound, ReceiveInvalid(m)
        PROVE  MessagesTyped'
    <2>1. m \in QueuedMessages
      BY DEF MessagesTyped
    <2> QED BY <1>2, <1>4, <2>1, BagElements, DeadLetterTyped
            DEF ReceiveInvalid, MessagesTyped, channelVars, processVars
  <1>5. ASSUME NEW m \in DOMAIN inbound, Receive(m)
        PROVE  MessagesTyped'
    BY <1>2, <1>5, BagElements
       DEF Receive, MessagesTyped, channelVars, processVars
  <1>6. ASSUME pc \in {"publishing", "confirming"}, Same, UNCHANGED <<inbound, dlq>>,
               Publisher!Publish(Publication("outcome", Outcome(reply.result), life))
        PROVE  MessagesTyped'
    <2>1. Publication("outcome", Outcome(reply.result), life)
             \in ServicePublications
      BY <1>6, OutcomeTyped DEF ConsumerTyped, MessagesTyped
    <2> QED BY <1>6, <2>1 DEF Publisher!Publish, MessagesTyped
  <1>7. CASE PublishResult
    <2>1. Same /\ pc = "publishing"
      BY <1>2, <1>7 DEF PublishResult, processVars
    <2> QED BY <1>1, <1>6, <1>7, <2>1 DEF PublishResult, Ending, Busy
  <1>8. CASE FirstCopyConfirmed
    <2>1. Same /\ pc = "confirming"
      BY <1>2, <1>8 DEF FirstCopyConfirmed, processVars
    <2> QED BY <1>1, <1>6, <1>8, <2>1 DEF FirstCopyConfirmed, Ending, Busy
  <1>9. CASE ResultConfirmed \/ ResultRefused \/ ResultTimesOut
    <2>1. Same /\ pc = "confirming"
      BY <1>2, <1>9 DEF ResultConfirmed, ResultRefused, ResultTimesOut, processVars
    <2> QED BY <1>1, <1>9, <2>1
            DEF ResultConfirmed, ResultRefused, ResultTimesOut, Ending, Busy
  <1>10. CASE ConfirmForward \/ ForwardTimesOut
    <2>1. Same /\ pc = "forwarding"
      BY <1>2, <1>10 DEF ConfirmForward, ForwardTimesOut, processVars
    <2> QED BY <1>1, <1>10, <2>1 DEF ConfirmForward, ForwardTimesOut, Ending, Busy
  <1>11. CASE ConsumeReturns
    BY <1>2, <1>11 DEF ConsumeReturns, MessagesTyped, messagingVars, queueVars,
                       channelVars, processVars
  <1> QED BY <1>3, <1>4, <1>5, <1>7, <1>8, <1>9, <1>10, <1>11
          DEF Consume, Handles, HandleDelivery, HandleReleaseDelivery,
              OtherConsumerSteps

(* What the broker routes ends in the queue of its kind.                    *)
LEMMA RouteMessages ==
    ASSUME MessagesTyped, NEW p \in ServicePublications \cup AdminPublications,
           Route(p)
    PROVE  /\ DOMAIN inbound' \subseteq QueuedMessages
           /\ DOMAIN retryQueue' \subseteq QueuedMessages
           /\ DOMAIN dlq' \subseteq DeadLetters
           /\ DOMAIN outcomes' \subseteq OutcomeMessages
  <1>1. CASE p.route = "request"
    <2>1. p.message \in QueuedMessages
      BY <1>1 DEF ServicePublications, AdminPublications
    <2> QED BY <1>1, <2>1, BagElements DEF Route, MessagesTyped
  <1>2. CASE p.route = "retry"
    <2>1. p.message \in QueuedMessages
      BY <1>2 DEF ServicePublications, AdminPublications
    <2> QED BY <1>2, <2>1, BagElements DEF Route, MessagesTyped
  <1>3. CASE p.route = "dead_letter"
    <2>1. p.message \in DeadLetters
      BY <1>3 DEF ServicePublications, AdminPublications
    <2> QED BY <1>3, <2>1, BagElements DEF Route, MessagesTyped
  <1>4. CASE p.route = "outcome"
    <2>1. p.message \in OutcomeMessages
      BY <1>4 DEF ServicePublications, AdminPublications
    <2> QED BY <1>4, <2>1, BagElements DEF Route, MessagesTyped
  <1> QED BY <1>1, <1>2, <1>3, <1>4 DEF ServicePublications, AdminPublications

(* So do the broker, the environment and the process around the consumer.   *)
LEMMA SurroundingMessages ==
    ASSUME MessagesTyped, ConsumerTyped, UNCHANGED adminVars,
           TakesPublication \/ RequeuesExpired \/ Environment \/ Shutdown
              \/ CloseConsumer
    PROVE  MessagesTyped'
  <1>1. UNCHANGED <<adminWire, held>>
    BY DEF adminVars, adminChannelVars
  <1>2. CASE TakesPublication
    <2>1. wire # <<>> /\ wire' = Tail(wire) /\ life' = life
      BY <1>2 DEF TakesPublication, BrokerOnly, BrokerAccepts, BrokerRefuses,
                  Publisher!Accepts, Publisher!Refuses, processVars
    <2>2. /\ wire' \in Seq(ServicePublications)
          /\ Head(wire) \in ServicePublications
      BY <2>1 DEF MessagesTyped
    <2>3. CASE Route(Head(wire))
      BY <1>1, <2>1, <2>2, <2>3, RouteMessages DEF MessagesTyped
    <2>4. CASE UNCHANGED queueVars
      BY <1>1, <2>1, <2>2, <2>4 DEF MessagesTyped, queueVars
    <2> QED BY <1>2, <2>3, <2>4
            DEF TakesPublication, BrokerOnly, BrokerAccepts, BrokerRefuses
  <1>3. CASE RequeuesExpired
    BY <1>1, <1>3, BagElements
       DEF RequeuesExpired, BrokerOnly, RetryExpires, MessagesTyped, channelVars,
           processVars
  <1>4. CASE ClosesPublisher
    BY <1>1, <1>4 DEF ClosesPublisher, BrokerOnly, PublisherLost,
                      Publisher!Lost, MessagesTyped, queueVars, processVars
  <1>5. ASSUME NEW request \in Requests, Send(request)
        PROVE  MessagesTyped'
    <2>1. Message(request, 0) \in QueuedMessages
      BY ServiceAssumption DEF Message, QueuedMessages
    <2> QED BY <1>1, <1>5, <2>1, BagElements
            DEF Send, MessagesTyped, channelVars, processVars
  <1>6. CASE UNCHANGED <<messagingVars, life>>
    BY <1>1, <1>6 DEF MessagesTyped, messagingVars, queueVars, channelVars
  <1>7. ASSUME NEW s \in SettingsUsed, SetFailureMode(s)
        PROVE  MessagesTyped'
    BY <1>6, <1>7 DEF SetFailureMode
  <1>8. ASSUME NEW t \in SkuText, NEW level \in StockLevels, ChangeStock(t, level)
        PROVE  MessagesTyped'
    BY <1>6, <1>8 DEF ChangeStock, processVars
  <1>9. CASE Shutdown
    BY <1>6, <1>9 DEF Shutdown
  <1>10. CASE ConsumerConnectionEnds
    <2>1. DOMAIN inbound' \subseteq QueuedMessages
      <3>1. \/ inbound' = inbound
            \/ delivery # NoDelivery /\ inbound' = BagAdd(inbound, delivery)
        BY <1>10 DEF ConsumerConnectionEnds, Redelivered
      <3>2. delivery # NoDelivery => delivery \in QueuedMessages
        BY DEF ConsumerTyped
      <3> QED BY <3>1, <3>2, BagElements DEF MessagesTyped
    <2> QED BY <1>1, <1>10, <2>1
            DEF ConsumerConnectionEnds, MessagesTyped, channelVars
  <1> QED BY <1>2, <1>3, <1>4, <1>5, <1>7, <1>8, <1>9, <1>10
          DEF Environment, ConsumerLost, CloseConsumer

(* So does the end of a process and the start of the next.                  *)
LEMMA ProcessEndMessages ==
    ASSUME MessagesTyped, ConsumerTyped, ProcessEnds
    PROVE  MessagesTyped'
  <1>1. StartAgain /\ AdminRestarts
    BY DEF ProcessEnds, Exit, Crash
  <1>2. DOMAIN inbound' \subseteq QueuedMessages
    <2>1. \/ inbound' = inbound
          \/ delivery # NoDelivery /\ inbound' = BagAdd(inbound, delivery)
      BY <1>1 DEF StartAgain, Redelivered
    <2>2. delivery # NoDelivery => delivery \in QueuedMessages
      BY DEF ConsumerTyped
    <2> QED BY <2>1, <2>2, BagElements DEF MessagesTyped
  <1>3. DOMAIN dlq' \subseteq DeadLetters
    <2>1. \/ dlq' = dlq
          \/ held # NoDelivery /\ dlq' = BagAdd(dlq, held)
      BY <1>1 DEF AdminRestarts, Returned
    <2> QED BY <2>1, BagElements DEF MessagesTyped
  <1>4. /\ wire' \in Seq(ServicePublications)
        /\ adminWire' \in Seq(AdminPublications)
    <2>1. /\ wire' = wire \/ wire' = << >>
          /\ adminWire' = adminWire \/ adminWire' = << >>
      BY DEF ProcessEnds, Exit, Crash
    <2>2. /\ wire \in Seq(ServicePublications)
          /\ adminWire \in Seq(AdminPublications)
      BY DEF MessagesTyped
    <2>3. \A S : << >> \in Seq(S)
      OBVIOUS
    <2> QED BY <2>1, <2>2, <2>3
  <1> QED BY <1>1, <1>2, <1>3, <1>4 DEF StartAgain, AdminRestarts, MessagesTyped

(* The admin moves dead letters to the inbound queue with their retry count *)
(* reset, and puts back what it could not move.                             *)
LEMMA AdminMessages ==
    ASSUME MessagesTyped, UNCHANGED beside,
           \/ \E c \in Callers : TakesLock(c) \/ CallSteps(c, life)
           \/ AdminChannelSteps(life)
           \/ AdminEnvironment
    PROVE  MessagesTyped'
  <1>1. UNCHANGED <<wire, life>>
    BY DEF beside, channelVars, processVars
  <1>2. CASE UNCHANGED <<queueVars, held, adminWire>>
    BY <1>1, <1>2 DEF MessagesTyped, queueVars
  <1>3. ASSUME NEW c \in Callers, NEW m \in DOMAIN dlq, RequeueOne(c, m, life)
        PROVE  MessagesTyped'
    <2>1. m \in DeadLetters
      BY DEF MessagesTyped
    <2>2. Publication("request", Message(m.request, 0), life) \in AdminPublications
      BY <2>1, ServiceAssumption
         DEF Publication, Message, AdminPublications, QueuedMessages, DeadLetters,
             MessagesTyped
    <2>3. adminWire' \in Seq(AdminPublications)
      BY <1>3, <2>2 DEF RequeueOne, Admin!Publish, MessagesTyped
    <2> QED BY <1>1, <1>3, <2>1, <2>3, BagElements DEF RequeueOne, MessagesTyped
  <1>4. ASSUME NEW c \in Callers, Requeued(c)
        PROVE  MessagesTyped'
    BY <1>1, <1>4 DEF Requeued, MessagesTyped, queueVars
  <1>5. ASSUME UNCHANGED <<inbound, retryQueue, outcomes>>, dlq' = Returned,
               held' = NoDelivery, adminWire' \in Seq(AdminPublications)
        PROVE  MessagesTyped'
    <2>1. \/ dlq' = dlq
          \/ held # NoDelivery /\ dlq' = BagAdd(dlq, held)
      BY <1>5 DEF Returned
    <2>2. DOMAIN dlq' \subseteq DeadLetters
      BY <2>1, BagElements DEF MessagesTyped
    <2> QED BY <1>1, <1>5, <2>2 DEF MessagesTyped
  <1>6. ASSUME NEW c \in Callers, RequeueFails(c)
        PROVE  MessagesTyped'
    BY <1>5, <1>6 DEF RequeueFails, MessagesTyped
  <1>7. CASE AdminLost
    BY <1>5, <1>7 DEF AdminLost, Admin!Lost
  <1>8. CASE AdminAccepts(life)
    <2>1. adminWire # <<>> /\ adminWire' = Tail(adminWire) /\ held' = held
      BY <1>8 DEF AdminAccepts, Admin!Accepts
    <2>2. /\ Head(adminWire) \in AdminPublications
          /\ adminWire' \in Seq(AdminPublications)
      BY <2>1 DEF MessagesTyped
    <2>3. Route(Head(adminWire))
      BY <1>8 DEF AdminAccepts
    <2> QED BY <1>1, <2>1, <2>2, <2>3, RouteMessages DEF MessagesTyped
  <1>9. CASE AdminRefuses(life)
    <2>1. adminWire' \in Seq(AdminPublications)
      BY <1>9 DEF AdminRefuses, Admin!Refuses, MessagesTyped
    <2> QED BY <1>1, <1>9, <2>1 DEF AdminRefuses, MessagesTyped, queueVars
  <1>10. ASSUME NEW c \in Callers, NEW r \in RequeueRequests,
                StartRequeue(c, r)
         PROVE  MessagesTyped'
    BY <1>2, <1>10 DEF StartRequeue, adminChannelVars
  <1>11. ASSUME NEW c \in Callers,
                Lock(c) \/ DLQDepth(c) \/ RequeueEnds(c) \/ ClientGone(c)
                \/ StartScrape(c)
         PROVE  MessagesTyped'
    BY <1>2, <1>11 DEF Lock, DLQDepth, RequeueEnds, ClientGone, StartScrape,
                       adminChannelVars
  <1> QED BY <1>3, <1>4, <1>6, <1>7, <1>8, <1>9, <1>10, <1>11
          DEF TakesLock, CallSteps, AdminChannelSteps, AdminEnvironment

(* Every step of the process keeps the messages well formed.                *)
LEMMA MessagesStep ==
    ASSUME MessagesTyped, ConsumerTyped, [OperationsNext]_operationsVars
    PROVE  MessagesTyped'
  <1>1. CASE UNCHANGED operationsVars
    BY <1>1 DEF operationsVars, serviceVars, adminVars, adminChannelVars,
                messagingVars, queueVars, channelVars, processVars, MessagesTyped
  <1>2. CASE ServiceSteps /\ UNCHANGED adminVars
    BY <1>2, ConsumerMessages, SurroundingMessages
       DEF ServiceSteps, Consumes, Consume
  <1> QED BY <1>1, <1>2, ProcessEndMessages, AdminMessages
          DEF OperationsNext, AdminSteps, AdminBroker

-----------------------------------------------------------------------------
(* The handlers in the running service: a delivery is handled as a decoded  *)
(* request under a failure mode, everything else is a change of stock, a    *)
(* stutter or a start with empty memory.                                    *)
LEMMA HandlersInProcess ==
    ASSUME ConsumerTyped, [OperationsNext]_operationsVars
    PROVE  /\ [HandlersNext]_handlerVars \/ ProcessEnds
           /\ ProcessEnds => HandlersInit'
           /\ \/ UNCHANGED handlerVars \/ Handles \/ ProcessEnds
              \/ \E t \in SkuText, level \in StockLevels : ChangeStock(t, level)
  <1>1. ASSUME HandleDelivery
        PROVE  HandlersNext
    <2>1. /\ delivery.request \in ReserveRequests
          /\ Decodes(delivery.request)
          /\ settings \in Modes
      BY <1>1 DEF HandleDelivery, ConsumerTyped, Busy, QueuedMessages,
                  ReserveRequests
    <2> QED BY <1>1, <2>1 DEF HandleDelivery, HandlersNext
  <1>2. ASSUME HandleReleaseDelivery
        PROVE  HandlersNext
    <2>1. delivery.request \in ReleaseRequests /\ Decodes(delivery.request)
      BY <1>2 DEF HandleReleaseDelivery, ConsumerTyped, Busy, QueuedMessages,
                  ReleaseRequests
    <2> QED BY <1>2, <2>1 DEF HandleReleaseDelivery, HandlersNext
  <1>3. ASSUME NEW t \in SkuText, NEW level \in StockLevels, ChangeStock(t, level)
        PROVE  HandlersNext
    BY <1>3 DEF ChangeStock, HandlersNext
  <1>4. ASSUME ResultConfirmed \/ OtherConsumerSteps
        PROVE  UNCHANGED handlerVars
    BY <1>4 DEF ResultConfirmed, OtherConsumerSteps, ReceiveInvalid, Receive,
                PublishResult, FirstCopyConfirmed, ResultRefused, ResultTimesOut,
                ConfirmForward, ForwardTimesOut, ConsumeReturns
  <1>5. ASSUME TakesPublication \/ RequeuesExpired \/ Shutdown \/ CloseConsumer
        PROVE  UNCHANGED handlerVars
    BY <1>5 DEF TakesPublication, RequeuesExpired, BrokerOnly, Shutdown,
                CloseConsumer, ConsumerConnectionEnds
  <1>6. ASSUME Environment
        PROVE  \/ UNCHANGED handlerVars
               \/ \E t \in SkuText, level \in StockLevels : ChangeStock(t, level)
    <2>1. ASSUME NEW request \in Requests, Send(request)
          PROVE  UNCHANGED handlerVars
      BY <2>1 DEF Send
    <2>2. ASSUME NEW mode \in SettingsUsed, SetFailureMode(mode)
          PROVE  UNCHANGED handlerVars
      BY <2>2 DEF SetFailureMode
    <2>3. ASSUME ClosesPublisher \/ ConsumerLost
          PROVE  UNCHANGED handlerVars
      BY <2>3 DEF ClosesPublisher, BrokerOnly, ConsumerLost,
                  ConsumerConnectionEnds
    <2> QED BY <1>6, <2>1, <2>2, <2>3 DEF Environment
  <1>7. ASSUME ProcessEnds
        PROVE  HandlersInit'
    <2>1. StartAgain
      BY <1>7 DEF ProcessEnds, Exit, Crash
    <2> QED BY <2>1 DEF StartAgain, HandlersInit, InventoryInit
  <1>8. ASSUME UNCHANGED beside \/ UNCHANGED operationsVars
        PROVE  UNCHANGED handlerVars
    BY <1>8 DEF beside, operationsVars, serviceVars
  <1>9. \/ UNCHANGED handlerVars \/ Handles \/ ProcessEnds
        \/ \E t \in SkuText, level \in StockLevels : ChangeStock(t, level)
    BY <1>4, <1>5, <1>6, <1>8
       DEF OperationsNext, ServiceSteps, Consumes, AdminSteps, AdminBroker
  <1> QED BY <1>1, <1>2, <1>3, <1>7, <1>9 DEF Handles

(* A process that starts again starts with the invariant of the handlers.   *)
LEMMA HandlersInvStart == HandlersInit' => HandlersInv'
  <1>1. HandlersInit => HandlersInv
    BY HandlersInvInit
  <1> QED BY <1>1, PTL

(* The handlers keep their invariant in the running service.                *)
LEMMA HandlersInvInProcess ==
    ASSUME HandlersInv, ConsumerTyped, [OperationsNext]_operationsVars
    PROVE  HandlersInv'
  BY HandlersInProcess, HandlersInvStep, HandlersInvStart

(* Every step of the consumer keeps its discipline.                         *)
LEMMA ConsumerStep ==
    ASSUME HandlersInv, MessagesTyped, ConsumerTyped, Consume
    PROVE  ConsumerTyped'
  <1>1. ASSUME Ending, pc \in Busy, UNCHANGED processVars
        PROVE  ConsumerTyped'
    BY <1>1, EndingConsumer
  <1>2. ASSUME pc = "handling", AfterHandler,
               reply'.error = Nil => reply'.result \in Result
        PROVE  ConsumerTyped'
    <2>1. UNCHANGED processVars
      BY <1>2 DEF AfterHandler
    <2>2. CASE reply'.error = Nil /\ pc' = "publishing" /\
               UNCHANGED <<delivery, settings, copies>>
      BY <1>2, <2>1, <2>2 DEF ConsumerTyped, processVars, Busy
    <2> QED BY <1>1, <1>2, <2>1, <2>2 DEF AfterHandler, Ending, Busy
  <1>3. CASE HandleDelivery
    <2>1. delivery.request \in ReserveRequests
      BY <1>3 DEF HandleDelivery, ConsumerTyped, Busy, QueuedMessages,
                  ReserveRequests
    <2>2. ASSUME HandleReservationRequested(delivery.request, settings),
                 reply'.error = Nil
          PROVE  reply'.result \in Result
      BY <2>1, <2>2, ReservationAnswer DEF AnswersFrom
    <2>3. ASSUME HandleCancelled
          PROVE  reply'.error # Nil
      BY <2>3 DEF HandleCancelled, Err, Nil
    <2> QED BY <1>2, <1>3, <2>2, <2>3 DEF HandleDelivery
  <1>4. CASE HandleReleaseDelivery
    <2>1. delivery.request \in ReleaseRequests
      BY <1>4 DEF HandleReleaseDelivery, ConsumerTyped, Busy, QueuedMessages,
                  ReleaseRequests
    <2>2. ASSUME HandleReservationReleaseRequested(delivery.request),
                 reply'.error = Nil
          PROVE  reply'.result \in Result
      BY <2>1, <2>2, ReleaseAnswer DEF AnswersFrom
    <2>3. ASSUME HandleCancelled
          PROVE  reply'.error # Nil
      BY <2>3 DEF HandleCancelled, Err, Nil
    <2> QED BY <1>2, <1>4, <2>2, <2>3 DEF HandleReleaseDelivery
  <1>5. ASSUME NEW m \in DOMAIN inbound, ReceiveInvalid(m)
        PROVE  ConsumerTyped'
    BY <1>5 DEF ReceiveInvalid, ConsumerTyped, consumerVars, processVars,
                handlerVars
  <1>6. ASSUME NEW m \in DOMAIN inbound, Receive(m)
        PROVE  ConsumerTyped'
    <2>1. m \in QueuedMessages
      BY DEF MessagesTyped
    <2> QED BY <1>6, <2>1 DEF Receive, ConsumerTyped, processVars, Busy
  <1>7. CASE PublishResult
    <2>1. pc = "publishing" /\ UNCHANGED <<reply, processVars>>
      BY <1>7 DEF PublishResult, handlerVars
    <2>2. CASE /\ copies' = CopiesInMode(failureMode) /\ pc' = "confirming"
               /\ UNCHANGED <<delivery, settings>>
      <3>1. copies' \in 1..2
        BY <2>2 DEF CopiesInMode
      <3> QED BY <2>1, <2>2, <3>1 DEF ConsumerTyped, Busy, processVars
    <2> QED BY <1>1, <1>7, <2>1, <2>2 DEF PublishResult, Ending, Busy
  <1>8. CASE FirstCopyConfirmed
    <2>1. pc = "confirming" /\ UNCHANGED <<reply, processVars>>
      BY <1>8 DEF FirstCopyConfirmed, handlerVars
    <2>2. CASE copies' = 1 /\ UNCHANGED <<pc, delivery, settings>>
      BY <2>1, <2>2 DEF ConsumerTyped, Busy, processVars
    <2> QED BY <1>1, <1>8, <2>1, <2>2 DEF FirstCopyConfirmed, Ending, Busy
  <1>9. CASE ResultConfirmed \/ ResultRefused \/ ResultTimesOut
    BY <1>1, <1>9 DEF ResultConfirmed, ResultRefused, ResultTimesOut, Ending, Busy
  <1>10. CASE ConfirmForward \/ ForwardTimesOut
    BY <1>1, <1>10 DEF ConfirmForward, ForwardTimesOut, Ending, Busy
  <1>11. CASE ConsumeReturns
    BY <1>11 DEF ConsumeReturns, ConsumerTyped, processVars, handlerVars, Busy
  <1> QED BY <1>3, <1>4, <1>5, <1>6, <1>7, <1>8, <1>9, <1>10, <1>11
          DEF Consume, Handles, OtherConsumerSteps

(* So does every other step of the process.                                 *)
LEMMA ConsumerTypedStep ==
    ASSUME HandlersInv, MessagesTyped, ConsumerTyped,
           [OperationsNext]_operationsVars
    PROVE  ConsumerTyped'
  <1>1. CASE UNCHANGED <<consumerVars, processVars, reply>>
    BY <1>1 DEF consumerVars, processVars, ConsumerTyped
  <1>2. CASE TakesPublication \/ RequeuesExpired
    BY <1>1, <1>2 DEF TakesPublication, RequeuesExpired, BrokerOnly, handlerVars
  <1>3. CASE Environment
    <2>1. ASSUME NEW request \in Requests, Send(request)
          PROVE  ConsumerTyped'
      BY <1>1, <2>1 DEF Send, handlerVars
    <2>2. ASSUME NEW s \in SettingsUsed, SetFailureMode(s)
          PROVE  ConsumerTyped'
      <3>1. failureMode' \in Modes
        BY <2>2 DEF SetFailureMode, ValidateFailureModeSettings, Modes
      <3> QED BY <2>2, <3>1 DEF SetFailureMode, handlerVars, consumerVars,
                                ConsumerTyped
    <2>3. ASSUME NEW t \in SkuText, NEW level \in StockLevels, ChangeStock(t, level)
          PROVE  ConsumerTyped'
      BY <1>1, <2>3 DEF ChangeStock
    <2>4. CASE ClosesPublisher
      BY <1>1, <2>4 DEF ClosesPublisher, BrokerOnly, handlerVars
    <2>5. CASE ConsumerLost
      BY <2>5 DEF ConsumerLost, ConsumerConnectionEnds, consumerVars, handlerVars,
                  ConsumerTyped
    <2> QED BY <1>3, <2>1, <2>2, <2>3, <2>4, <2>5 DEF Environment
  <1>4. CASE Shutdown
    BY <1>4 DEF Shutdown, consumerVars, handlerVars, ConsumerTyped
  <1>5. CASE CloseConsumer
    BY <1>5 DEF CloseConsumer, ConsumerConnectionEnds, consumerVars, handlerVars,
                ConsumerTyped
  <1>6. CASE ProcessEnds
    <2>1. StartAgain
      BY <1>6 DEF ProcessEnds, Exit, Crash
    <2>2. ctxDone' \in BOOLEAN /\ consumerOpen' \in BOOLEAN
      BY <2>1 DEF StartAgain
    <2>3. /\ pc' = "idle" /\ delivery' = NoDelivery /\ copies' = 0
          /\ settings' \in Modes /\ failureMode' \in Modes
      BY <2>1 DEF StartAgain, Modes
    <2> QED BY <2>2, <2>3 DEF ConsumerTyped, Busy
  <1>7. CASE UNCHANGED beside \/ UNCHANGED operationsVars
    BY <1>1, <1>7 DEF beside, operationsVars, serviceVars, handlerVars
  <1>8. CASE Consumes
    BY <1>8, ConsumerStep DEF Consumes, Consume
  <1> QED BY <1>2, <1>3, <1>4, <1>5, <1>6, <1>7, <1>8
          DEF OperationsNext, ServiceSteps, AdminSteps, AdminBroker

-----------------------------------------------------------------------------
(* The confirmations that wait in the publisher's channel are acks and      *)
(* nacks.                                                                   *)
LEMMA ConfirmationsStep ==
    ASSUME ConfirmationsTyped, [OperationsNext]_operationsVars
    PROVE  ConfirmationsTyped'
  <1>1. ASSUME \/ confirmations' = confirmations
               \/ confirmations # << >> /\ confirmations' = Tail(confirmations)
               \/ \E ack \in BOOLEAN : confirmations' = Append(confirmations, ack)
               \/ confirmations' = << >>
        PROVE  ConfirmationsTyped'
    <2>1. ASSUME NEW S, NEW s \in Seq(S), NEW e \in S
          PROVE  << >> \in Seq(S) /\ Append(s, e) \in Seq(S)
      OBVIOUS
    <2>2. ASSUME NEW S, NEW s \in Seq(S), s # << >>
          PROVE  Tail(s) \in Seq(S)
      BY <2>2
    <2> QED BY <1>1, <2>1, <2>2, Zenon DEF ConfirmationsTyped
  <1>2. CASE Consumes
    <2>1. CASE HandleDelivery \/ HandleReleaseDelivery \/ PublishResult
      BY <1>1, <2>1 DEF HandleDelivery, HandleReleaseDelivery, AfterHandler,
                        PublishResult
    <2>2. CASE \E m \in DOMAIN inbound : ReceiveInvalid(m) \/ Receive(m)
      BY <1>1, <2>2 DEF ReceiveInvalid, Receive, channelVars
    <2>3. CASE ResultConfirmed \/ FirstCopyConfirmed \/ ResultRefused
               \/ ConfirmForward
      BY <1>1, <2>3 DEF ResultConfirmed, FirstCopyConfirmed, ResultRefused,
                        ConfirmForward, Publisher!TakeConfirmation
    <2>4. CASE ResultTimesOut \/ ForwardTimesOut
      BY <1>1, <2>4 DEF ResultTimesOut, ForwardTimesOut, Publisher!GiveUp
    <2>5. CASE ConsumeReturns
      BY <1>1, <2>5 DEF ConsumeReturns, messagingVars, channelVars
    <2> QED BY <1>2, <2>1, <2>2, <2>3, <2>4, <2>5
            DEF Consumes, Handles, OtherConsumerSteps
  <1>3. CASE TakesPublication
    <2>1. \E ack \in BOOLEAN : Publisher!Confirm(Head(wire), life, ack)
      BY <1>3 DEF TakesPublication, BrokerOnly, BrokerAccepts, BrokerRefuses,
                  Publisher!Accepts, Publisher!Refuses
    <2> QED BY <1>1, <2>1 DEF Publisher!Confirm
  <1>4. CASE RequeuesExpired
    BY <1>1, <1>4 DEF RequeuesExpired, BrokerOnly, RetryExpires, channelVars
  <1>5. CASE Environment
    <2>1. CASE ClosesPublisher
      BY <1>1, <2>1 DEF ClosesPublisher, BrokerOnly, PublisherLost,
                        Publisher!Lost
    <2>2. CASE \E request \in Requests : Send(request)
      BY <1>1, <2>2 DEF Send, channelVars
    <2>3. CASE \E s \in SettingsUsed : SetFailureMode(s)
      BY <1>1, <2>3 DEF SetFailureMode, messagingVars, channelVars
    <2>4. CASE \E t \in SkuText, level \in StockLevels : ChangeStock(t, level)
      BY <1>1, <2>4 DEF ChangeStock, messagingVars, channelVars
    <2>5. CASE ConsumerLost
      BY <1>1, <2>5 DEF ConsumerLost, ConsumerConnectionEnds, channelVars
    <2> QED BY <1>5, <2>1, <2>2, <2>3, <2>4, <2>5 DEF Environment
  <1>6. CASE Shutdown \/ CloseConsumer
    BY <1>1, <1>6 DEF Shutdown, CloseConsumer, ConsumerConnectionEnds,
                      messagingVars, channelVars
  <1>7. CASE ProcessEnds
    BY <1>1, <1>7 DEF ProcessEnds, Exit, Crash, StartAgain
  <1>8. CASE UNCHANGED beside \/ UNCHANGED operationsVars
    BY <1>1, <1>8 DEF beside, operationsVars, serviceVars, messagingVars,
                      channelVars
  <1> QED BY <1>2, <1>3, <1>4, <1>5, <1>6, <1>7, <1>8
          DEF OperationsNext, ServiceSteps, AdminSteps, AdminBroker

(* The counters count decisions and hits up to the bound of the model.      *)
LEMMA CountersStep ==
    ASSUME ConsumerTyped, CountersTyped, [OperationsNext]_operationsVars
    PROVE  CountersTyped'
  <1>1. CASE UNCHANGED counters
    BY <1>1 DEF CountersTyped
  <1>2. ASSUME NEW name \in Decisions \cup {"hits"}
        PROVE  Increment(name) \in [Decisions \cup {"hits"} -> 0..MaxCount]
    BY OperationsAssumption DEF Increment, CountersTyped
  <1>3. CASE Handles /\ CountHit
    BY <1>1, <1>2, <1>3 DEF CountHit, CountersTyped
  <1>4. CASE ResultConfirmed /\ CountProcessed
    <2>1. reply.result.decision \in Decisions
      BY <1>4 DEF ResultConfirmed, ConsumerTyped, Result
    <2> QED BY <1>2, <1>4, <2>1 DEF CountProcessed, CountersTyped
  <1>5. CASE ProcessEnds
    BY <1>5, OperationsAssumption DEF ProcessEnds, NoCounts, CountersTyped
  <1> QED BY <1>1, <1>3, <1>4, <1>5
          DEF OperationsNext, ServiceSteps, Consumes, AdminSteps, AdminBroker,
              beside, operationsVars

-----------------------------------------------------------------------------
(* A call moves on to pc p, the others stay where they are.                 *)
MovesTo(c, p) ==
    /\ call' \in [Callers -> CallRecords]
    /\ call'[c].pc = p
    /\ \A d \in Callers \ {c} : call'[d] = call[d]

(* Setting the record of a call, or its pc alone, moves that call.          *)
LEMMA CallMoves ==
    ASSUME CallsTyped, NEW c \in Callers
    PROVE  /\ \A e \in CallRecords :
                 call' = [call EXCEPT ![c] = e] => MovesTo(c, e.pc)
           /\ \A p \in {"locking", "looping", "confirming", "returned"} :
                 Step(c, p) => MovesTo(c, p)
           /\ Return(c) => MovesTo(c, "returned") /\ mutex' = Nobody
  <1>1. ASSUME NEW e \in CallRecords, call' = [call EXCEPT ![c] = e]
        PROVE  MovesTo(c, e.pc)
    BY <1>1 DEF CallsTyped, MovesTo
  <1>2. ASSUME NEW p \in {"locking", "looping", "confirming", "returned"},
               Step(c, p)
        PROVE  MovesTo(c, p)
    <2>1. call[c] \in CallRecords
      BY DEF CallsTyped
    <2>2. /\ [call[c] EXCEPT !.pc = p] \in CallRecords
          /\ [call[c] EXCEPT !.pc = p].pc = p
      BY <2>1 DEF CallRecords
    <2>3. call' = [call EXCEPT ![c] = [call[c] EXCEPT !.pc = p]]
      BY <1>2 DEF Step, CallsTyped
    <2> QED BY <1>1, <2>2, <2>3
  <1>3. ASSUME Return(c)
        PROVE  MovesTo(c, "returned") /\ mutex' = Nobody
    <2>1. HasReturned \in CallRecords /\ HasReturned.pc = "returned"
      BY DEF HasReturned, NotCalled, CallRecords
    <2> QED BY <1>1, <1>3, <2>1 DEF Return
  <1> QED BY <1>1, <1>2, <1>3

(* A caller in the loop holds the mutex, and no other caller is in it.      *)
LEMMA AloneInLoop ==
    ASSUME AdminTypeOK, NEW c \in Callers,
           mutex = c \/ call[c].pc \in {"looping", "confirming"}
    PROVE  /\ mutex = c
           /\ \A d \in Callers \ {c} :
                 call[d].pc \notin {"looping", "confirming"}
  BY DEF AdminTypeOK

(* The steps of a call and of the admin's channel keep the discipline of    *)
(* the mutex and of the dead letter it guards.                              *)
LEMMA AdminStep ==
    ASSUME MessagesTyped, CallsTyped, AdminTypeOK,
           \/ \E c \in Callers : TakesLock(c) \/ CallSteps(c, life)
           \/ AdminChannelSteps(life)
           \/ AdminEnvironment
    PROVE  CallsTyped' /\ AdminTypeOK'
  <1> USE AdminAssumption
  <1>1. ASSUME NEW c \in Callers, call[c].pc \in {"looping", "confirming"},
               Return(c), adminOpen' = adminOpen,
               held' = NoDelivery \/ (held' = held /\ call[c].pc = "looping")
        PROVE  CallsTyped' /\ AdminTypeOK'
    <2>1. /\ mutex = c
          /\ \A d \in Callers \ {c} : call[d].pc \notin {"looping", "confirming"}
      BY <1>1, AloneInLoop
    <2>2. MovesTo(c, "returned") /\ mutex' = Nobody
      BY <1>1, CallMoves
    <2>3. held' = NoDelivery
      BY <1>1, <2>1 DEF AdminTypeOK
    <2> QED BY <1>1, <2>1, <2>2, <2>3 DEF MovesTo, CallsTyped, AdminTypeOK
  <1>2. ASSUME NEW c \in Callers, call[c].pc \in {"new", "locking"},
               NEW p \in {"locking", "returned"}, MovesTo(c, p),
               UNCHANGED <<mutex, held, adminOpen>>
        PROVE  CallsTyped' /\ AdminTypeOK'
    BY <1>2 DEF MovesTo, CallsTyped, AdminTypeOK
  <1>3. ASSUME NEW c \in Callers, NEW r \in RequeueRequests, StartRequeue(c, r)
        PROVE  CallsTyped' /\ AdminTypeOK'
    <2> DEFINE started == [NotCalled EXCEPT !.pc = "locking", !.op = "requeue",
                                            !.queue = r.queue, !.limit = r.limit]
    <2>1. /\ started \in CallRecords /\ started.pc = "locking"
          /\ HasReturned \in CallRecords /\ HasReturned.pc = "returned"
      <3>1. NotCalled \in CallRecords
        BY DEF NotCalled, CallRecords
      <3>2. r.queue \in {q.queue : q \in RequeueRequests} \cup {"none"}
        OBVIOUS
      <3>3. r.limit \in {q.limit : q \in RequeueRequests} \cup {0}
        OBVIOUS
      <3> QED BY <3>1, <3>2, <3>3 DEF HasReturned, CallRecords
    <2>2. \/ call' = [call EXCEPT ![c] = started]
          \/ call' = [call EXCEPT ![c] = HasReturned]
      BY <1>3 DEF StartRequeue
    <2>3. MovesTo(c, "locking") \/ MovesTo(c, "returned")
      BY <2>1, <2>2, CallMoves
    <2> QED BY <1>2, <1>3, <2>3 DEF StartRequeue, adminChannelVars
  <1>4. ASSUME NEW c \in Callers, StartScrape(c)
        PROVE  CallsTyped' /\ AdminTypeOK'
    <2> DEFINE started == [call[c] EXCEPT !.pc = "locking", !.op = "depth"]
    <2>1. call[c] \in CallRecords
      BY DEF CallsTyped
    <2>2. started \in CallRecords /\ started.pc = "locking"
      BY <2>1 DEF CallRecords
    <2>3. call' = [call EXCEPT ![c] = started]
      BY <1>4 DEF StartScrape, CallsTyped
    <2>4. MovesTo(c, "locking")
      BY <2>2, <2>3, CallMoves
    <2> QED BY <1>2, <1>4, <2>4 DEF StartScrape, adminChannelVars
  <1>5. ASSUME NEW c \in Callers, Lock(c)
        PROVE  CallsTyped' /\ AdminTypeOK'
    <2>1. MovesTo(c, "looping")
      BY <1>5, CallMoves DEF Lock
    <2> QED BY <1>5, <2>1 DEF Lock, MovesTo, CallsTyped, AdminTypeOK,
                              adminChannelVars
  <1>6. ASSUME NEW c \in Callers, DLQDepth(c)
        PROVE  CallsTyped' /\ AdminTypeOK'
    <2> DEFINE measured == [HasReturned EXCEPT !.op = "depth", !.depth =
                              DeclaredMessages("reservation_requests") +
                              DeclaredMessages("reservation_release_requests")]
    <2>1. /\ measured \in CallRecords /\ measured.pc = "returned"
          /\ HasReturned \in CallRecords /\ HasReturned.pc = "returned"
      <3>1. HasReturned \in CallRecords /\ HasReturned.pc = "returned"
        BY DEF HasReturned, NotCalled, CallRecords
      <3>2. DeclaredMessages("reservation_requests") +
               DeclaredMessages("reservation_release_requests") \in Int
        BY DEF DeclaredMessages
      <3> QED BY <3>1, <3>2 DEF CallRecords
    <2>2. \/ call' = [call EXCEPT ![c] = measured]
          \/ call' = [call EXCEPT ![c] = HasReturned]
      BY <1>6 DEF DLQDepth
    <2>3. MovesTo(c, "returned")
      BY <2>1, <2>2, CallMoves
    <2> QED BY <1>2, <1>6, <2>3 DEF DLQDepth, adminChannelVars
  <1>7. ASSUME NEW c \in Callers, RequeueEnds(c) \/ ClientGone(c)
        PROVE  CallsTyped' /\ AdminTypeOK'
    BY <1>1, <1>7 DEF RequeueEnds, ClientGone, adminChannelVars
  <1>8. ASSUME NEW c \in Callers, NEW m \in DOMAIN dlq, RequeueOne(c, m, life)
        PROVE  CallsTyped' /\ AdminTypeOK'
    <2>1. MovesTo(c, "confirming")
      BY <1>8, CallMoves DEF RequeueOne
    <2>2. m # NoDelivery
      BY NoDeliveryIsNoMessage DEF MessagesTyped
    <2>3. mutex' = c /\ call[c].pc = "looping" /\ adminOpen /\ adminOpen'
      BY <1>8, AloneInLoop DEF RequeueOne, Admin!Publish
    <2>4. \A d \in Callers \ {c} : call[d].pc \notin {"looping", "confirming"}
      BY <2>3, AloneInLoop
    <2> QED BY <1>8, <2>1, <2>2, <2>3, <2>4
            DEF RequeueOne, MovesTo, CallsTyped, AdminTypeOK
  <1>9. ASSUME NEW c \in Callers, Requeued(c)
        PROVE  CallsTyped' /\ AdminTypeOK'
    <2> DEFINE counted == [call[c] EXCEPT !.pc = "looping",
                                          !.requeued = call[c].requeued + 1]
    <2>1. CASE adminOpen /\ UNCHANGED mutex /\ call' = [call EXCEPT ![c] = counted]
      <3>1. call[c] \in CallRecords
        BY DEF CallsTyped
      <3>2. counted \in CallRecords /\ counted.pc = "looping"
        <4>1. call[c].requeued + 1 \in Int
          BY <3>1 DEF CallRecords
        <4> HIDE DEF CallsTyped
        <4> QED BY <3>1, <4>1 DEF CallRecords
      <3>3. MovesTo(c, "looping")
        BY <2>1, <3>2, CallMoves
      <3>4. \A d \in Callers \ {c} : call[d].pc \notin {"looping", "confirming"}
        BY <1>9, AloneInLoop DEF Requeued
      <3> QED BY <1>9, <2>1, <3>3, <3>4
              DEF Requeued, MovesTo, CallsTyped, AdminTypeOK
    <2>2. CASE Return(c)
      <3>1. /\ call[c].pc \in {"looping", "confirming"}
            /\ held' = NoDelivery /\ adminOpen' = adminOpen
        BY <1>9 DEF Requeued
      <3> QED BY <1>1, <2>2, <3>1
    <2> QED BY <1>9, <2>1, <2>2 DEF Requeued, CallsTyped
  <1>10. ASSUME NEW c \in Callers, RequeueFails(c)
         PROVE  CallsTyped' /\ AdminTypeOK'
    <2>1. /\ call[c].pc \in {"looping", "confirming"} /\ Return(c)
          /\ held' = NoDelivery /\ adminOpen' = adminOpen
      BY <1>10 DEF RequeueFails
    <2> QED BY <1>1, <2>1
  <1>11. CASE AdminLost
    BY <1>11 DEF AdminLost, Admin!Lost, CallsTyped, AdminTypeOK
  <1>12. CASE AdminAccepts(life) \/ AdminRefuses(life)
    <2>1. UNCHANGED <<call, mutex, held, adminOpen>>
      BY <1>12 DEF AdminAccepts, AdminRefuses, Admin!Accepts, Admin!Refuses
    <2> QED BY <2>1 DEF CallsTyped, AdminTypeOK
  <1> QED BY <1>3, <1>4, <1>5, <1>6, <1>7, <1>8, <1>9, <1>10, <1>11, <1>12
          DEF TakesLock, CallSteps, AdminChannelSteps, AdminEnvironment

(* The rest of the process does not touch the admin, until it ends: then    *)
(* the calls fail, the dead letter goes back and the mutex is a new one.    *)
LEMMA AdminTypedStep ==
    ASSUME MessagesTyped, CallsTyped, AdminTypeOK,
           [OperationsNext]_operationsVars
    PROVE  CallsTyped' /\ AdminTypeOK'
  <1>1. CASE UNCHANGED adminVars
    BY <1>1 DEF adminVars, adminChannelVars, CallsTyped, AdminTypeOK
  <1>2. CASE ProcessEnds
    <2>1. AdminRestarts
      BY <1>2 DEF ProcessEnds
    <2>2. HasReturned \in CallRecords /\ HasReturned.pc = "returned"
      BY DEF HasReturned, NotCalled, CallRecords
    <2>3. \A c \in Callers : /\ call'[c] \in CallRecords
                             /\ call'[c].pc \in {"new", "returned"}
      BY <2>1, <2>2 DEF AdminRestarts, CallsTyped
    <2>4. call' \in [Callers -> CallRecords] /\ adminOpen' \in BOOLEAN
      BY <2>1, <2>3 DEF AdminRestarts
    <2>5. mutex' = Nobody /\ held' = NoDelivery
      BY <2>1 DEF AdminRestarts
    <2> QED BY <2>3, <2>4, <2>5, AdminAssumption DEF CallsTyped, AdminTypeOK
  <1> QED BY <1>1, <1>2, AdminStep
          DEF OperationsNext, AdminSteps, AdminBroker, operationsVars

-----------------------------------------------------------------------------
(* The process starts with empty queues and nothing under way.              *)
LEMMA OperationsInvInit ==
    ASSUME OperationsInit
    PROVE  OperationsInv
  <1>1. Init /\ AdminInit /\ counters = NoCounts
    BY DEF OperationsInit
  <1>2. HandlersInv
    BY <1>1, HandlersInvInit DEF Init
  <1>3. MessagesTyped
    <2>1. /\ DOMAIN inbound = {} /\ DOMAIN retryQueue = {}
          /\ DOMAIN dlq = {} /\ DOMAIN outcomes = {}
      BY <1>1 DEF Init, MessagingInit, EmptyBag, SetToBag
    <2>2. /\ wire = << >> /\ adminWire = << >> /\ held = NoDelivery /\ life = 0
      BY <1>1 DEF Init, MessagingInit, Publisher!ChannelInit, AdminInit,
                  Admin!ChannelInit
    <2>3. \A S : << >> \in Seq(S)
      OBVIOUS
    <2> QED BY <2>1, <2>2, <2>3 DEF MessagesTyped
  <1>4. ConsumerTyped
    <2>1. ctxDone \in BOOLEAN /\ consumerOpen \in BOOLEAN
      BY <1>1 DEF Init
    <2>2. /\ pc = "idle" /\ delivery = NoDelivery /\ copies = 0
          /\ settings \in Modes /\ failureMode \in Modes
      BY <1>1 DEF Init, Modes
    <2> QED BY <2>1, <2>2 DEF ConsumerTyped, Busy
  <1>5. ConfirmationsTyped
    BY <1>1 DEF Init, MessagingInit, Publisher!ChannelInit, ConfirmationsTyped
  <1>6. CallsTyped /\ AdminTypeOK
    <2>1. NotCalled \in CallRecords /\ NotCalled.pc = "new"
      BY DEF NotCalled, CallRecords
    <2>2. \A c \in Callers : call[c] = NotCalled
      BY <1>1 DEF AdminInit
    <2>3. call \in [Callers -> CallRecords] /\ adminOpen \in BOOLEAN
      BY <1>1, <2>1 DEF AdminInit, Admin!ChannelInit
    <2>4. mutex = Nobody /\ held = NoDelivery
      BY <1>1 DEF AdminInit
    <2> QED BY <2>1, <2>2, <2>3, <2>4, AdminAssumption
            DEF CallsTyped, AdminTypeOK
  <1>7. CountersTyped
    BY <1>1, OperationsAssumption DEF NoCounts, CountersTyped
  <1> QED BY <1>2, <1>3, <1>4, <1>5, <1>6, <1>7 DEF OperationsInv

(* Every step preserves the invariant.                                      *)
LEMMA OperationsInvStep ==
    ASSUME OperationsInv, [OperationsNext]_operationsVars
    PROVE  OperationsInv'
  BY HandlersInvInProcess, MessagesStep, ConsumerTypedStep, ConfirmationsStep,
     AdminTypedStep, CountersStep DEF OperationsInv

(* The running process, its faults and restarts included, keeps the         *)
(* invariant of the handlers, well-formed messages and the disciplines of   *)
(* the consumer goroutine and of the admin's mutex.                         *)
THEOREM OperationsInductive == OperationsSpec => []OperationsInv
  <1>1. OperationsInit => OperationsInv
    BY OperationsInvInit
  <1>2. OperationsInv /\ [OperationsNext]_operationsVars => OperationsInv'
    BY OperationsInvStep
  <1> QED BY <1>1, <1>2, PTL DEF OperationsSpec

(* Type correctness of the process: a delivery is held exactly while one is *)
(* being handled, copies are owed exactly while an outcome waits for its    *)
(* confirmation, the mutex of the admin belongs to the one caller in the    *)
(* loop, and a dead letter is held only there.                              *)
THEOREM OperationsTypeCorrect == OperationsSpec => []OperationsTypeOK
  <1>1. ASSUME OperationsInv
        PROVE  OperationsTypeOK
    <2>1. (delivery = NoDelivery) <=> (pc \in {"idle", "stopped"})
      BY <1>1, NoDeliveryIsNoMessage DEF OperationsInv, ConsumerTyped, Busy
    <2>2. \A i \in DOMAIN confirmations : confirmations[i] \in BOOLEAN
      BY <1>1 DEF OperationsInv, ConfirmationsTyped
    <2>3. ServiceTypeOK
      BY <1>1, <2>1, <2>2 DEF OperationsInv, HandlersInv, ConsumerTyped, Busy,
                              ServiceTypeOK
    <2> QED BY <1>1, <2>3 DEF OperationsInv, CountersTyped, OperationsTypeOK
  <1>2. OperationsInv => OperationsTypeOK
    BY <1>1
  <1> QED BY <1>2, OperationsInductive, PTL

(* A message is given up as exhausted only after all its retries, and none  *)
(* is retried more often, whatever the admin requeues meanwhile.            *)
THEOREM RetriesAreCountedHolds == OperationsSpec => []RetriesAreCounted
  <1>1. ASSUME OperationsInv
        PROVE  RetriesAreCounted
    <2>1. \A m \in QueuedMessages : m.retry <= MaxRetryCount
      BY ServiceAssumption DEF QueuedMessages
    <2>2. \A m \in DeadLetters : m.cause = "exhausted" => m.retry = MaxRetryCount
      BY DEF DeadLetters
    <2> QED BY <1>1, <2>1, <2>2
            DEF OperationsInv, MessagesTyped, RetriesAreCounted
  <1>2. OperationsInv => RetriesAreCounted
    BY <1>1
  <1> QED BY <1>2, OperationsInductive, PTL

(* The consumer part of OperationsTypeOK: a delivery is held exactly        *)
(* while one is being handled, and copies are owed exactly while an outcome *)
(* is confirmed, with the admin working on the same queues.                 *)
THEOREM ServiceTypeCorrect == OperationsSpec => []ServiceTypeOK
  <1>1. OperationsTypeOK => ServiceTypeOK
    BY DEF OperationsTypeOK
  <1> QED BY <1>1, OperationsTypeCorrect, PTL
=============================================================================
