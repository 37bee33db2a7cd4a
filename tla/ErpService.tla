----------------------------- MODULE ErpService -----------------------------
(***************************************************************************)
(* The running service: the consumer loop of internal/messaging/rabbitmq   *)
(* over the handlers and the publisher, the market that sends requests,    *)
(* the HTTP API that changes stock and failure mode meanwhile, and the     *)
(* process itself, which may be told to stop or may crash and then starts  *)
(* with empty memory.                                                      *)
(*                                                                         *)
(* Consume handles one delivery at a time: pc is the place where that      *)
(* goroutine waits while the others run.                                   *)
(*   idle        in the select of Consume                                  *)
(*   handling    in the handler, the failure mode read, the delay not over *)
(*   publishing  the handler has returned a result                         *)
(*   confirming  waiting for the confirmation of an outcome                *)
(*   forwarding  waiting for the confirmation of a retry or dead letter    *)
(*   stopped     Consume has returned                                      *)
(* run tells the goroutine to stop but does not wait for it: it closes the *)
(* consumer's connection and then the publisher's under its feet.          *)
(***************************************************************************)
EXTENDS Handlers, Messaging

CONSTANTS
    MaxRetryCount,   \* ERP_RABBITMQ_MAX_RETRY_COUNT
    MaxSends,        \* messages the market sends
    MaxModeChanges,  \* POST /debug/failure-mode requests
    MaxStockChanges, \* POST /stock requests
    MaxShutdowns,    \* SIGTERMs and losses of the consumer's connection
    MaxLateDeliveries, \* deliveries picked up although the context is done
    MaxCrashes,      \* crashes of the process
    SettingsUsed     \* failure mode settings that are posted

(* config.Load: the retry count is positive. *)
ASSUME ServiceAssumption == MaxRetryCount \in Nat \ {0}

VARIABLES
    failureMode,   \* FailureModeController.settings
    pc,            \* where the consumer goroutine is
    delivery,      \* the unacknowledged delivery
    settings,      \* the failure mode its handler read
    copies,        \* publications of the outcome still to be confirmed
    ctxDone,       \* the consumer's context is cancelled
    consumerOpen,  \* the consumer's connection is open
    life,          \* how often the process has been started again
    requested,     \* the bag of requests the market has sent
    used           \* how much of each bound has been used

consumerVars == <<pc, delivery, settings, copies>>
processVars == <<failureMode, ctxDone, consumerOpen, life>>
serviceVars == <<handlerVars, messagingVars, consumerVars, processVars,
                 requested, used>>

Outcome(result) ==
    [request |-> result.request, decision |-> result.decision,
     reason |-> result.reason, life |-> life]

Init ==
    /\ HandlersInit
    /\ MessagingInit
    /\ failureMode = "normal"
    /\ pc = "idle"
    /\ delivery = NoDelivery
    /\ settings = "normal"
    /\ copies = 0
    /\ ctxDone = FALSE
    /\ consumerOpen = TRUE
    /\ life = 0
    /\ requested = EmptyBag
    /\ used = [sends |-> 0, modes |-> 0, stock |-> 0, shutdowns |-> 0,
               late |-> 0, crashes |-> 0]

Use(bound) == used' = [used EXCEPT ![bound] = @ + 1]

-----------------------------------------------------------------------------
(* The ways a delivery ends.  Without a connection ack and nack fail, which *)
(* ends Consume; the broker has the delivery back already.  The variant     *)
(* forgets the copies it owed.                                              *)
NextDeliveryOwing ==
    /\ pc' = IF consumerOpen THEN "idle" ELSE "stopped"
    /\ delivery' = NoDelivery
    /\ settings' = "normal"
    /\ UNCHANGED copies

NextDelivery ==
    /\ pc' = IF consumerOpen THEN "idle" ELSE "stopped"
    /\ delivery' = NoDelivery
    /\ settings' = "normal"
    /\ copies' = 0

Ack ==
    /\ NextDelivery
    /\ UNCHANGED <<inbound, dlq, wire>>

(* nack without requeue: the queue's dead-letter exchange takes it. *)
NackReject ==
    /\ NextDelivery
    /\ dlq' = IF consumerOpen THEN BagAdd(dlq, DeadLetter(delivery, "rejected"))
              ELSE dlq
    /\ UNCHANGED <<inbound, wire>>

NackRequeue ==
    /\ NextDelivery
    /\ inbound' = IF consumerOpen THEN BagAdd(inbound, delivery) ELSE inbound
    /\ UNCHANGED <<dlq, wire>>

(* retryOrDeadLetter: which exchange the delivery is forwarded to.          *)
(* The variants compare before they count, one retry too many, or do not    *)
(* count.                                                                   *)
ForwardOneMore(m) ==
    IF m.retry > MaxRetryCount
    THEN Publication("dead_letter", DeadLetter(m, "exhausted"), life)
    ELSE Publication("retry", Message(m.request, m.retry + 1), life)

ForwardUncounted(m) == Publication("retry", m, life)

Forwarded(m) ==
    IF m.retry + 1 > MaxRetryCount
    THEN Publication("dead_letter", DeadLetter(m, "exhausted"), life)
    ELSE Publication("retry", Message(m.request, m.retry + 1), life)

(* retryOrDeadLetter up to the wait for the confirmation. *)
RetryOrDeadLetter ==
    \/ /\ Publisher!Publish(Forwarded(delivery))
       /\ pc' = "forwarding"
       /\ copies' = 0
       /\ UNCHANGED <<inbound, dlq, delivery, settings>>
    \/ ~publisherOpen /\ NackRequeue

IsPermanentHandlerError(error) ==
    error \in {"InvalidArgument", "ReservationAlreadyExists",
               "IdempotencyConflict"}

-----------------------------------------------------------------------------
(* A delivery that does not decode is rejected, any other handed on.        *)
ReceiveInvalid(m) ==
    /\ pc = "idle" /\ consumerOpen
    /\ BagIn(m, inbound)
    /\ ~Decodes(m.request)
    /\ inbound' = BagRemove(inbound, m)
    /\ dlq' = BagAdd(dlq, DeadLetter(m, "rejected"))
    /\ UNCHANGED <<retryQueue, outcomes, channelVars, faults, handlerVars,
                   consumerVars, processVars, requested, used>>

Receive(m) ==
    /\ pc = "idle" /\ consumerOpen
    /\ BagIn(m, inbound)
    /\ Decodes(m.request)
    /\ inbound' = BagRemove(inbound, m)
    /\ delivery' = m
    /\ settings' = failureMode
    /\ pc' = "handling"
    /\ \/ ~ctxDone /\ UNCHANGED used
       \/ ctxDone /\ used.late < MaxLateDeliveries /\ Use("late")
    /\ UNCHANGED <<retryQueue, dlq, outcomes, channelVars, faults, handlerVars,
                   copies, processVars, requested>>

(* What the consumer does with the answer of a handler. *)
AfterHandler ==
    /\ \/ /\ reply'.error = Nil
          /\ pc' = "publishing"
          /\ UNCHANGED <<inbound, dlq, wire, delivery, settings, copies>>
       \/ IsPermanentHandlerError(reply'.error) /\ NackReject
       \/ /\ reply'.error # Nil
          /\ ~IsPermanentHandlerError(reply'.error)
          /\ RetryOrDeadLetter
    /\ UNCHANGED <<retryQueue, outcomes, confirmations, publisherOpen, faults,
                   processVars, requested, used>>

(* Execute and the repository look at the context before they do anything. *)
HandleDelivery ==
    /\ pc = "handling"
    /\ delivery.request.kind = "reserve"
    /\ \/ ~ctxDone /\ HandleReservationRequested(delivery.request, settings)
       \/ ctxDone /\ HandleCancelled
    /\ AfterHandler

HandleReleaseDelivery ==
    /\ pc = "handling"
    /\ delivery.request.kind = "release"
    /\ \/ ~ctxDone /\ HandleReservationReleaseRequested(delivery.request)
       \/ ctxDone /\ HandleCancelled
    /\ AfterHandler

-----------------------------------------------------------------------------
(* FailureSimulationPublisher.publishResult reads the mode again: it may    *)
(* differ from the one the handler saw.                                     *)
CopiesInMode(mode) == IF mode = "duplicate_response" THEN 2 ELSE 1

(* A variant that reports success although nothing was published. *)
PublishResultSilently ==
    /\ pc = "publishing"
    /\ \/ failureMode = "publish_failure" /\ Ack
       \/ /\ failureMode # "publish_failure"
          /\ Publisher!Publish(Publication("outcome", Outcome(reply.result), life))
          /\ copies' = CopiesInMode(failureMode)
          /\ pc' = "confirming"
          /\ UNCHANGED <<inbound, dlq, delivery, settings>>
    /\ UNCHANGED <<retryQueue, outcomes, confirmations, publisherOpen, faults,
                   handlerVars, processVars, requested, used>>

PublishResult ==
    /\ pc = "publishing"
    /\ \/ failureMode = "publish_failure" /\ RetryOrDeadLetter
       \/ /\ failureMode # "publish_failure"
          /\ Publisher!Publish(Publication("outcome", Outcome(reply.result), life))
          /\ copies' = CopiesInMode(failureMode)
          /\ pc' = "confirming"
          /\ UNCHANGED <<inbound, dlq, delivery, settings>>
       \/ /\ failureMode # "publish_failure"
          /\ ~publisherOpen
          /\ RetryOrDeadLetter
    /\ UNCHANGED <<retryQueue, outcomes, confirmations, publisherOpen, faults,
                   handlerVars, processVars, requested, used>>

(* A confirmation: of the last copy, ...  *)
ResultConfirmed ==
    /\ pc = "confirming"
    /\ Publisher!TakeConfirmation(TRUE)
    /\ copies = 1
    /\ Ack
    /\ UNCHANGED <<retryQueue, outcomes, publisherOpen, faults, handlerVars,
                   processVars, requested, used>>

(* ... of the first of two, ... *)
FirstCopyConfirmed ==
    /\ pc = "confirming"
    /\ Publisher!TakeConfirmation(TRUE)
    /\ copies = 2
    /\ \/ /\ Publisher!Publish(
                 Publication("outcome", Outcome(reply.result), life))
          /\ copies' = 1
          /\ UNCHANGED <<inbound, dlq, pc, delivery, settings>>
       \/ ~publisherOpen /\ RetryOrDeadLetter
    /\ UNCHANGED <<retryQueue, outcomes, publisherOpen, faults, handlerVars,
                   processVars, requested, used>>

(* ... or a refusal. *)
ResultRefused ==
    /\ pc = "confirming"
    /\ Publisher!TakeConfirmation(FALSE)
    /\ RetryOrDeadLetter
    /\ UNCHANGED <<retryQueue, outcomes, publisherOpen, faults, handlerVars,
                   processVars, requested, used>>

ResultTimesOut ==
    /\ pc = "confirming"
    /\ Publisher!GiveUp(ctxDone)
    /\ RetryOrDeadLetter
    /\ UNCHANGED <<retryQueue, outcomes, publisherOpen, handlerVars,
                   processVars, requested, used>>

ConfirmForward ==
    /\ pc = "forwarding"
    /\ \/ Publisher!TakeConfirmation(TRUE) /\ Ack
       \/ Publisher!TakeConfirmation(FALSE) /\ NackRequeue
    /\ UNCHANGED <<retryQueue, outcomes, publisherOpen, faults, handlerVars,
                   processVars, requested, used>>

ForwardTimesOut ==
    /\ pc = "forwarding"
    /\ Publisher!GiveUp(ctxDone)
    /\ NackRequeue
    /\ UNCHANGED <<retryQueue, outcomes, publisherOpen, handlerVars,
                   processVars, requested, used>>

(* Nothing is being handled, and the context is done or the deliveries      *)
(* channel closed: Consume returns.                                         *)
ConsumeReturns ==
    /\ pc = "idle"
    /\ ctxDone \/ ~consumerOpen
    /\ pc' = "stopped"
    /\ UNCHANGED <<messagingVars, handlerVars, delivery, settings, copies,
                   processVars, requested, used>>

(* The steps of Consume.  The first two are the ones the metrics tell       *)
(* apart: a handler has returned, an outcome has been published.            *)
Handles == HandleDelivery \/ HandleReleaseDelivery

OtherConsumerSteps ==
    \/ \E m \in DOMAIN inbound : ReceiveInvalid(m) \/ Receive(m)
    \/ PublishResult
    \/ FirstCopyConfirmed
    \/ ResultRefused
    \/ ResultTimesOut
    \/ ConfirmForward
    \/ ForwardTimesOut
    \/ ConsumeReturns

Consume == Handles \/ ResultConfirmed \/ OtherConsumerSteps

-----------------------------------------------------------------------------
(* The market sends a request, perhaps one it has sent before. *)
Send(request) ==
    /\ used.sends < MaxSends
    /\ Use("sends")
    /\ requested' = BagAdd(requested, request)
    /\ inbound' = BagAdd(inbound, Message(request, 0))
    /\ UNCHANGED <<retryQueue, dlq, outcomes, channelVars, faults, handlerVars,
                   consumerVars, processVars>>

ValidateFailureModeSettings(s) ==
    \/ s.mode \in {"normal", "always_reject", "publish_failure",
                   "duplicate_response"}
    \/ s.mode = "random_reject" /\ s.percent \in 1..100
    \/ s.mode = "processing_delay" /\ s.delay > 0

SetFailureMode(s) ==
    /\ used.modes < MaxModeChanges
    /\ Use("modes")
    /\ ValidateFailureModeSettings(s)
    /\ failureMode' = s.mode
    /\ UNCHANGED <<messagingVars, handlerVars, consumerVars, ctxDone,
                   consumerOpen, life, requested>>

ChangeStock(text, level) ==
    /\ used.stock < MaxStockChanges
    /\ Use("stock")
    /\ SetStock(text, level)
    /\ UNCHANGED <<stores, reply, messagingVars, consumerVars, processVars,
                   requested>>

-----------------------------------------------------------------------------
(* run leaves its select: on a signal, or because Consume has returned.     *)
(* It cancels the consumer's context; the loop may still pick up a delivery *)
(* before it notices.                                                       *)
Shutdown ==
    /\ ~ctxDone
    /\ \/ used.shutdowns < MaxShutdowns /\ Use("shutdowns")
       \/ pc = "stopped" /\ UNCHANGED used
    /\ ctxDone' = TRUE
    /\ UNCHANGED <<messagingVars, handlerVars, consumerVars, failureMode,
                   consumerOpen, life, requested>>

(* The inbound queue after the consumer's connection is gone: Consume asked *)
(* for manual acknowledgement, so the broker redelivers.  The variant       *)
(* consumes with automatic acknowledgement.                                 *)
NothingRedelivered == inbound

Redelivered ==
    IF consumerOpen /\ delivery # NoDelivery THEN BagAdd(inbound, delivery)
    ELSE inbound

(* The goroutine may still be handling the delivery the broker takes back.  *)
ConsumerConnectionEnds ==
    /\ consumerOpen
    /\ consumerOpen' = FALSE
    /\ inbound' = Redelivered
    /\ UNCHANGED <<retryQueue, dlq, outcomes, channelVars, faults, handlerVars,
                   consumerVars, failureMode, ctxDone, life, requested>>

CloseConsumer == ctxDone /\ ConsumerConnectionEnds /\ UNCHANGED used

ConsumerLost ==
    /\ used.shutdowns < MaxShutdowns
    /\ Use("shutdowns")
    /\ ConsumerConnectionEnds

(* A new process: empty stores, seeded stock, an unacknowledged delivery    *)
(* back in its queue, new connections without confirmations.                *)
StartAgain ==
    /\ stock' = [s \in DOMAIN Seed |-> [available |-> Seed[s], reserved |-> 0]]
    /\ reservations' = [r \in {} |-> Nil]
    /\ simulationStore' = [k \in {} |-> Nil]
    /\ reservationStore' = [k \in {} |-> Nil]
    /\ releaseStore' = [k \in {} |-> Nil]
    /\ reply' = Err(Nil)
    /\ inbound' = Redelivered
    /\ pc' = "idle"
    /\ delivery' = NoDelivery
    /\ settings' = "normal"
    /\ copies' = 0
    /\ confirmations' = <<>>
    /\ publisherOpen' = TRUE
    /\ failureMode' = "normal"
    /\ ctxDone' = FALSE
    /\ consumerOpen' = TRUE
    /\ life' = life + 1
    /\ UNCHANGED <<retryQueue, outcomes, faults, requested>>

(* run closes the publisher, whose Close needs a reply, and returns,        *)
(* wherever the consumer goroutine is; what the publisher sent before still *)
(* reaches the broker.                                                      *)
Exit ==
    /\ ctxDone
    /\ ~consumerOpen
    /\ Publisher!Responsive
    /\ StartAgain
    /\ UNCHANGED <<wire, used>>

(* A crash loses what the broker has not taken from the wire. *)
Crash ==
    /\ used.crashes < MaxCrashes
    /\ Use("crashes")
    /\ StartAgain
    /\ wire' = <<>>

-----------------------------------------------------------------------------
BrokerOnly(step) ==
    /\ step
    /\ UNCHANGED <<handlerVars, consumerVars, processVars, requested, used>>

TakesPublication == BrokerOnly(BrokerAccepts(life) \/ BrokerRefuses(life))

RequeuesExpired == BrokerOnly(\E m \in DOMAIN retryQueue : RetryExpires(m))

ClosesPublisher == BrokerOnly(PublisherLost)

Environment ==
    \/ ClosesPublisher
    \/ \E request \in Requests : Send(request)
    \/ \E s \in SettingsUsed : SetFailureMode(s)
    \/ \E t \in SkuText, level \in StockLevels : ChangeStock(t, level)
    \/ ConsumerLost

(* What the dead-letter queue holds after a restart is left to Next: there  *)
(* is nobody else who could hold a dead letter unless the admin does.       *)
Restart == Exit \/ Crash

Next ==
    \/ Consume
    \/ TakesPublication
    \/ RequeuesExpired
    \/ Environment
    \/ Shutdown
    \/ CloseConsumer
    \/ Restart /\ UNCHANGED dlq

Spec == Init /\ [][Next]_serviceVars

(* The consumer goroutine runs, the broker takes what it is sent, the TTL   *)
(* of the retry queue expires, and run closes and exits when told to stop.  *)
(* Faults and the environment owe nothing.                                  *)
FairSpec ==
    /\ Spec
    /\ WF_serviceVars(Consume)
    /\ WF_serviceVars(TakesPublication)
    /\ WF_serviceVars(RequeuesExpired)
    /\ WF_serviceVars(pc = "stopped" /\ Shutdown)
    /\ WF_serviceVars(CloseConsumer)
    /\ WF_serviceVars(Exit /\ UNCHANGED dlq)

-----------------------------------------------------------------------------
InTransit == {wire[i].message : i \in DOMAIN wire}

(* Where a request is as long as it is not answered. *)
InSystem(request) ==
    \/ consumerOpen /\ delivery.request = request
    \/ \E m \in DOMAIN inbound \cup DOMAIN retryQueue \cup DOMAIN dlq \cup InTransit :
          m.request = request

Answered(request) == \E o \in DOMAIN outcomes : o.request = request

(* Type correctness of the consumer: a delivery is held exactly while one   *)
(* is being handled, copies are owed exactly while an outcome is confirmed. *)
ServiceTypeOK ==
    /\ HandlersTypeOK
    /\ pc \in {"idle", "handling", "publishing", "confirming", "forwarding",
              "stopped"}
    /\ (delivery = NoDelivery) <=> (pc \in {"idle", "stopped"})
    /\ pc = "stopped" => ctxDone \/ ~consumerOpen
    /\ copies \in 0..2
    /\ (copies > 0) <=> (pc = "confirming")
    /\ settings \in Modes /\ failureMode \in Modes
    /\ \A i \in DOMAIN confirmations : confirmations[i] \in BOOLEAN

(* No request is lost: until its outcome is with the broker, a request is   *)
(* in a queue or being handled, or its outcome, or a copy of it that is to  *)
(* be retried or dead-lettered, is on the wire.                             *)
NoRequestLost ==
    \A request \in DOMAIN requested : InSystem(request) \/ Answered(request)

(* All outcomes published under one idempotency key within one life of the  *)
(* process carry the same decision, however often the request was retried,  *)
(* duplicated or sent again and however stock and failure mode changed.     *)
OutcomesAgree ==
    \A a, b \in DOMAIN outcomes :
        /\ a.life = b.life
        /\ a.request.kind = b.request.kind
        /\ Key(a.request) = Key(b.request)
        => a.decision = b.decision /\ a.reason = b.reason

(* What the market was told is what the inventory holds: a confirmed        *)
(* outcome of this life has its reservation, a released one is released.    *)
OutcomesBacked ==
    \A o \in DOMAIN outcomes :
        LET r == TrimSpace[o.request.id]
        IN  o.life = life =>
              /\ o.decision = "confirmed" =>
                    /\ r \in DOMAIN reservations
                    /\ reservations[r].sku = TrimSpace[o.request.sku]
                    /\ reservations[r].quantity = o.request.quantity
              /\ o.decision = "released" =>
                    /\ r \in DOMAIN reservations
                    /\ reservations[r].status = "released"

(* The market is never promised more than there is: as long as stock is not *)
(* changed over HTTP, the units of the confirmed outcomes of this life      *)
(* whose reservations are not released again fit into the seeded stock.     *)
NeverOversold ==
    \A s \in DOMAIN Seed :
        used.stock = 0 =>
            Cardinality(UNION {
                {TrimSpace[o.request.id]} \X (1..o.request.quantity) :
                o \in {x \in DOMAIN outcomes :
                         /\ x.life = life
                         /\ x.decision = "confirmed"
                         /\ TrimSpace[x.request.sku] = s
                         /\ TrimSpace[x.request.id] \in DOMAIN reservations =>
                            reservations[TrimSpace[x.request.id]].status = "active"}})
            <= Seed[s]

(* A message is given up as exhausted only after all its retries, and no    *)
(* message is ever retried more often.                                      *)
RetriesAreCounted ==
    /\ \A m \in DOMAIN inbound \cup DOMAIN retryQueue :
          m.retry <= MaxRetryCount
    /\ \A m \in DOMAIN dlq :
          m.cause = "exhausted" => m.retry = MaxRetryCount

(* docs/integration-flow.md: after a permanent handler error "the message   *)
(* is discarded after logging", and its state diagram says the same of a    *)
(* message that does not decode (NackDiscard).  Neither is in the DLQ.      *)
RejectedAreDiscarded == \A m \in DOMAIN dlq : m.cause # "rejected"

(* Every request the market sends is eventually answered or lies in the     *)
(* dead-letter queue.                                                       *)
RequestsSettle ==
    \A request \in Requests :
        request \in DOMAIN requested ~>
            \/ Answered(request)
            \/ \E m \in DOMAIN dlq : m.request = request

(* docs/architecture.md: "Shutdown cancels the consumer context, closes     *)
(* AMQP resources, then drains the HTTP server".  A process that was told   *)
(* to stop does stop.                                                       *)
ShutdownCompletes == ctxDone ~> ~ctxDone
=============================================================================
