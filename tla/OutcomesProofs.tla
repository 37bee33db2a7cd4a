--------------------------- MODULE OutcomesProofs ---------------------------
(***************************************************************************)
(* Proofs about what the market is told.  Every outcome of this life of    *)
(* the process, taken by the broker or still on the wire, is recorded in   *)
(* the idempotency store that answered it; stores never revise an entry,   *)
(* and the handlers keep their entries and the inventory consistent.       *)
(***************************************************************************)
EXTENDS OperationsProofs

(* The outcomes the broker has taken or will see on the wire.               *)
PublishedOutcomes ==
    DOMAIN outcomes \cup
    {wire[i].message : i \in {j \in DOMAIN wire : wire[j].route = "outcome"}}

(* An outcome says what store holds under its key, and for its payload.     *)
RecordedIn(store, o) ==
    /\ Key(o.request) \in DOMAIN store
    /\ o.decision = store[Key(o.request)].decision
    /\ o.reason = store[Key(o.request)].reason
    /\ o.request.id = store[Key(o.request)].request.id
    /\ o.request.kind = "reserve" =>
          SameReservationRequest(store[Key(o.request)].request, o.request)

Recorded(o) ==
    /\ o.request.kind = "reserve" => RecordedIn(simulationStore, o)
    /\ o.request.kind # "reserve" => RecordedIn(releaseStore, o)

(* Each store answers with its own decisions, to decoded requests.          *)
EntriesDecided ==
    /\ \A k \in DOMAIN simulationStore :
          simulationStore[k].decision \in {"confirmed", "rejected"}
    /\ \A k \in DOMAIN releaseStore :
          /\ releaseStore[k].decision \in {"released", "release_failed"}
          /\ TrimSpace[releaseStore[k].request.id] \in ReservationIDs

OutcomesRecorded ==
    \A o \in PublishedOutcomes :
        o.life <= life /\ (o.life = life => Recorded(o))

(* OutcomesAgree, of the outcomes on the wire as well.                      *)
PublishedAgree ==
    \A a, b \in PublishedOutcomes :
        /\ a.life = b.life
        /\ a.request.kind = b.request.kind
        /\ Key(a.request) = Key(b.request)
        => a.decision = b.decision /\ a.reason = b.reason

(* The result that is being published answers the delivery and is recorded. *)
ReplyRecorded ==
    pc \in {"publishing", "confirming"} =>
        /\ reply.result.request = delivery.request
        /\ Recorded(reply.result)

OutcomesInv ==
    /\ EntriesDecided
    /\ OutcomesRecorded
    /\ PublishedAgree
    /\ ReplyRecorded

-----------------------------------------------------------------------------
(* A publication that is appended is on the wire behind the others.         *)
LEMMA Appended ==
    ASSUME NEW S, NEW w \in Seq(S), NEW p \in S
    PROVE  {w[i] : i \in DOMAIN w} \cup {p}
              \subseteq {Append(w, p)[i] : i \in DOMAIN Append(w, p)}
  <1>1. \A j \in DOMAIN w : j \in DOMAIN Append(w, p) /\ Append(w, p)[j] = w[j]
    OBVIOUS
  <1>2. Len(w) + 1 \in DOMAIN Append(w, p) /\ Append(w, p)[Len(w) + 1] = p
    OBVIOUS
  <1> QED BY <1>1, <1>2

(* What appending to and taking from a wire does to what is on it.          *)
LEMMA WireElements ==
    ASSUME NEW S, NEW w \in Seq(S), NEW p \in S
    PROVE  /\ \A i \in DOMAIN Append(w, p) :
                 Append(w, p)[i] = p \/ \E j \in DOMAIN w : Append(w, p)[i] = w[j]
           /\ \E i \in DOMAIN Append(w, p) : Append(w, p)[i] = p
           /\ \A j \in DOMAIN w : \E i \in DOMAIN Append(w, p) :
                 Append(w, p)[i] = w[j]
           /\ w # << >> =>
                 /\ \E j \in DOMAIN w : w[j] = Head(w)
                 /\ \A i \in DOMAIN Tail(w) : \E j \in DOMAIN w : Tail(w)[i] = w[j]
                 /\ \A j \in DOMAIN w :
                       w[j] = Head(w) \/ \E i \in DOMAIN Tail(w) : Tail(w)[i] = w[j]
  <1>1. /\ \A i \in DOMAIN Append(w, p) :
              Append(w, p)[i] = p \/ \E j \in DOMAIN w : Append(w, p)[i] = w[j]
        /\ \A j \in DOMAIN w : j \in DOMAIN Append(w, p) /\ Append(w, p)[j] = w[j]
    OBVIOUS
  <1>2. Len(w) + 1 \in DOMAIN Append(w, p) /\ Append(w, p)[Len(w) + 1] = p
    OBVIOUS
  <1>3. ASSUME w # << >>
        PROVE  /\ 1 \in DOMAIN w /\ w[1] = Head(w)
               /\ \A i \in DOMAIN Tail(w) : i + 1 \in DOMAIN w /\ Tail(w)[i] = w[i + 1]
               /\ \A j \in DOMAIN w :
                     j = 1 \/ (j - 1 \in DOMAIN Tail(w) /\ Tail(w)[j - 1] = w[j])
    BY <1>3
  <1> QED BY <1>1, <1>2, <1>3

(* What a step can do to the publisher's wire and the outcome exchange:     *)
(* a publication is appended, an outcome only when it is the result the     *)
(* consumer is publishing; the broker takes the first; the wire is lost.    *)
WireGrows(p) ==
    /\ p \in ServicePublications
    /\ wire' = Append(wire, p)
    /\ outcomes' = outcomes
    /\ p.route = "outcome" =>
          pc \in {"publishing", "confirming"} /\ p.message = Outcome(reply.result)

WireShrinks ==
    /\ wire # << >>
    /\ wire' = Tail(wire)
    /\ \/ outcomes' = outcomes
       \/ /\ Head(wire).route = "outcome"
          /\ outcomes' = BagAdd(outcomes, Head(wire).message)

WireMoves ==
    \/ UNCHANGED <<wire, outcomes>>
    \/ \E p : WireGrows(p)
    \/ WireShrinks
    \/ wire' = << >> /\ outcomes' = outcomes

(* A delivery that ends adds at most a retry or a dead letter to the wire.  *)
LEMMA EndingOnWire ==
    ASSUME OperationsInv, pc \in Busy, Ending, UNCHANGED outcomes
    PROVE  WireMoves
  <1>1. delivery \in QueuedMessages /\ life \in Nat
    BY DEF OperationsInv, ConsumerTyped, MessagesTyped
  <1>2. CASE Publisher!Publish(Forwarded(delivery))
    <2>1. Forwarded(delivery) \in ServicePublications
      BY <1>1, ForwardedTyped
    <2>2. Forwarded(delivery).route # "outcome"
      BY DEF Forwarded, Publication
    <2>3. WireGrows(Forwarded(delivery))
      BY <1>2, <2>1, <2>2 DEF WireGrows, Publisher!Publish
    <2> QED BY <2>3 DEF WireMoves
  <1> QED BY <1>2 DEF Ending, Ack, NackReject, NackRequeue, RetryOrDeadLetter,
                      WireMoves

(* Every step of the process moves publications in one of these ways.       *)
LEMMA StepOnWire ==
    ASSUME OperationsInv, [OperationsNext]_operationsVars
    PROVE  WireMoves
  <1>1. CASE UNCHANGED <<wire, outcomes>>
    BY <1>1 DEF WireMoves
  <1>2. ASSUME pc = "handling", AfterHandler
        PROVE  WireMoves
    BY <1>1, <1>2, EndingOnWire DEF AfterHandler, Ending, Busy
  <1>3. ASSUME pc \in {"publishing", "confirming"}, UNCHANGED outcomes,
               Publisher!Publish(Publication("outcome", Outcome(reply.result), life))
        PROVE  WireMoves
    <2> DEFINE p == Publication("outcome", Outcome(reply.result), life)
    <2>1. reply.result \in Result /\ life \in Nat
      BY <1>3 DEF OperationsInv, ConsumerTyped, MessagesTyped
    <2>2. p \in ServicePublications
      BY <2>1, OutcomeTyped
    <2>3. p.message = Outcome(reply.result)
      BY DEF Publication
    <2>4. WireGrows(p)
      BY <1>3, <2>2, <2>3 DEF WireGrows, Publisher!Publish
    <2> QED BY <2>4 DEF WireMoves
  <1>4. CASE Consumes
    <2>1. CASE Handles
      BY <1>2, <2>1 DEF Handles, HandleDelivery, HandleReleaseDelivery
    <2>2. CASE \E m \in DOMAIN inbound : ReceiveInvalid(m) \/ Receive(m)
      BY <1>1, <2>2 DEF ReceiveInvalid, Receive, channelVars
    <2>3. CASE PublishResult
      BY <1>3, <2>3, EndingOnWire DEF PublishResult, Ending, Busy
    <2>4. CASE FirstCopyConfirmed
      BY <1>3, <2>4, EndingOnWire DEF FirstCopyConfirmed, Ending, Busy
    <2>5. CASE ResultConfirmed \/ ResultRefused \/ ResultTimesOut
      BY <2>5, EndingOnWire DEF ResultConfirmed, ResultRefused, ResultTimesOut,
                                Ending, Busy
    <2>6. CASE ConfirmForward \/ ForwardTimesOut
      BY <2>6, EndingOnWire DEF ConfirmForward, ForwardTimesOut, Ending, Busy
    <2>7. CASE ConsumeReturns
      BY <1>1, <2>7 DEF ConsumeReturns, messagingVars, channelVars, queueVars
    <2> QED BY <1>4, <2>1, <2>2, <2>3, <2>4, <2>5, <2>6, <2>7
            DEF Consumes, OtherConsumerSteps
  <1>5. CASE TakesPublication
    <2>1. wire # << >> /\ wire' = Tail(wire)
      BY <1>5 DEF TakesPublication, BrokerOnly, BrokerAccepts, BrokerRefuses,
                  Publisher!Accepts, Publisher!Refuses
    <2>2. Route(Head(wire)) \/ UNCHANGED queueVars
      BY <1>5 DEF TakesPublication, BrokerOnly, BrokerAccepts, BrokerRefuses
    <2> QED BY <2>1, <2>2 DEF Route, queueVars, WireShrinks, WireMoves
  <1>6. CASE RequeuesExpired
    BY <1>1, <1>6 DEF RequeuesExpired, BrokerOnly, RetryExpires, channelVars
  <1>7. CASE Environment
    <2>1. CASE ClosesPublisher
      BY <2>1 DEF ClosesPublisher, BrokerOnly, PublisherLost, Publisher!Lost,
                  queueVars, WireMoves
    <2>2. CASE \E request \in Requests : Send(request)
      BY <1>1, <2>2 DEF Send, channelVars
    <2>3. CASE \E s \in SettingsUsed : SetFailureMode(s)
      BY <1>1, <2>3 DEF SetFailureMode, messagingVars, channelVars, queueVars
    <2>4. CASE \E t \in SkuText, level \in StockLevels : ChangeStock(t, level)
      BY <1>1, <2>4 DEF ChangeStock, messagingVars, channelVars, queueVars
    <2>5. CASE ConsumerLost
      BY <1>1, <2>5 DEF ConsumerLost, ConsumerConnectionEnds, channelVars
    <2> QED BY <1>7, <2>1, <2>2, <2>3, <2>4, <2>5 DEF Environment
  <1>8. CASE Shutdown \/ CloseConsumer
    BY <1>1, <1>8 DEF Shutdown, CloseConsumer, ConsumerConnectionEnds,
                      messagingVars, channelVars, queueVars
  <1>9. CASE ProcessEnds
    BY <1>9 DEF ProcessEnds, Exit, Crash, StartAgain, WireMoves
  <1>10. CASE UNCHANGED operationsVars
    BY <1>1, <1>10 DEF operationsVars, serviceVars, messagingVars, channelVars,
                       queueVars
  <1>11. ASSUME UNCHANGED beside,
                \/ \E c \in Callers : TakesLock(c) \/ CallSteps(c, life)
                \/ AdminChannelSteps(life)
                \/ AdminEnvironment
         PROVE  WireMoves
    <2>1. wire' = wire
      BY <1>11 DEF beside, channelVars
    <2>2. outcomes' = outcomes
      <3>1. CASE AdminAccepts(life)
        <4>1. Route(Head(adminWire)) /\ adminWire # << >>
          BY <3>1 DEF AdminAccepts, Admin!Accepts
        <4>2. Head(adminWire).route = "request"
          <5>1. adminWire \in Seq(AdminPublications)
            BY DEF OperationsInv, MessagesTyped
          <5>2. Head(adminWire) \in AdminPublications
            BY <4>1, <5>1
          <5> QED BY <5>2 DEF AdminPublications
        <4> QED BY <4>1, <4>2 DEF Route
      <3>2. CASE AdminRefuses(life) \/ AdminLost
        BY <3>2 DEF AdminRefuses, AdminLost, queueVars
      <3>3. ASSUME NEW c \in Callers, TakesLock(c) \/ CallSteps(c, life)
            PROVE  outcomes' = outcomes
        BY <3>3 DEF TakesLock, CallSteps, Lock, DLQDepth, RequeueEnds, RequeueOne,
                    Requeued, RequeueFails, queueVars
      <3>4. ASSUME NEW c \in Callers, StartScrape(c) \/ ClientGone(c)
            PROVE  outcomes' = outcomes
        BY <3>4 DEF StartScrape, ClientGone, queueVars
      <3>5. ASSUME NEW c \in Callers, NEW r \in RequeueRequests, StartRequeue(c, r)
            PROVE  outcomes' = outcomes
        BY <3>5 DEF StartRequeue, queueVars
      <3> QED BY <1>11, <3>1, <3>2, <3>3, <3>4, <3>5
              DEF AdminChannelSteps, AdminEnvironment
    <2> QED BY <1>1, <2>1, <2>2
  <1> QED BY <1>4, <1>5, <1>6, <1>7, <1>8, <1>9, <1>10, <1>11
          DEF OperationsNext, ServiceSteps, AdminSteps, AdminBroker

-----------------------------------------------------------------------------
(* What is published after a step was published before, or is the result    *)
(* the consumer is publishing.                                              *)
LEMMA PublishedStep ==
    ASSUME OperationsInv, [OperationsNext]_operationsVars
    PROVE  \A o \in PublishedOutcomes' :
              \/ o \in PublishedOutcomes
              \/ pc \in {"publishing", "confirming"} /\ o = Outcome(reply.result)
  <1> SUFFICES ASSUME NEW o \in PublishedOutcomes'
               PROVE  \/ o \in PublishedOutcomes
                      \/ pc \in {"publishing", "confirming"}
                         /\ o = Outcome(reply.result)
    OBVIOUS
  <1>1. \/ o \in DOMAIN outcomes'
        \/ \E i \in DOMAIN wire' : wire'[i].route = "outcome" /\ o = wire'[i].message
    BY DEF PublishedOutcomes
  <1>2. \A j \in DOMAIN wire :
           wire[j].route = "outcome" => wire[j].message \in PublishedOutcomes
    BY DEF PublishedOutcomes
  <1>3. \A x \in DOMAIN outcomes : x \in PublishedOutcomes
    BY DEF PublishedOutcomes
  <1>4. wire \in Seq(ServicePublications)
    BY DEF OperationsInv, MessagesTyped
  <1>5. CASE UNCHANGED <<wire, outcomes>>
    BY <1>1, <1>2, <1>3, <1>5
  <1>6. ASSUME NEW p, WireGrows(p)
        PROVE  \/ o \in PublishedOutcomes
               \/ pc \in {"publishing", "confirming"} /\ o = Outcome(reply.result)
    <2>1. \A i \in DOMAIN wire' : wire'[i] = p \/ \E j \in DOMAIN wire : wire'[i] = wire[j]
      BY <1>4, <1>6, WireElements DEF WireGrows
    <2> QED BY <1>1, <1>2, <1>3, <1>6, <2>1 DEF WireGrows
  <1>7. CASE WireShrinks
    <2>1. wire # << >> /\ wire' = Tail(wire)
      BY <1>7 DEF WireShrinks
    <2>2. Head(wire) \in ServicePublications
      BY <1>4, <2>1
    <2>3. /\ \E j \in DOMAIN wire : wire[j] = Head(wire)
          /\ \A i \in DOMAIN wire' : \E j \in DOMAIN wire : wire'[i] = wire[j]
      BY <1>4, <2>1, <2>2, WireElements
    <2>4. o \in DOMAIN outcomes' =>
             \/ o \in DOMAIN outcomes
             \/ Head(wire).route = "outcome" /\ o = Head(wire).message
      BY <1>7, BagElements DEF WireShrinks
    <2> QED BY <1>1, <1>2, <1>3, <2>3, <2>4
  <1>8. CASE wire' = << >> /\ outcomes' = outcomes
    BY <1>1, <1>3, <1>8
  <1> QED BY <1>5, <1>6, <1>7, <1>8, StepOnWire DEF WireMoves

(* A life of the process ends with its memory; within one the stores only   *)
(* grow.                                                                    *)
LEMMA LifeStep ==
    ASSUME OperationsInv, [OperationsNext]_operationsVars
    PROVE  \/ ProcessEnds /\ life' = life + 1
           \/ life' = life /\ [HandlersNext]_handlerVars /\ DecisionsKept
  <1>1. CASE ProcessEnds
    BY <1>1 DEF ProcessEnds, Exit, Crash, StartAgain
  <1>2. CASE ~ProcessEnds
    <2>1. life' = life
      <3>1. CASE Handles \/ ResultConfirmed
        BY <3>1 DEF Handles, HandleDelivery, HandleReleaseDelivery, AfterHandler,
                    ResultConfirmed, processVars
      <3>2. CASE OtherConsumerSteps
        BY <3>2 DEF OtherConsumerSteps, ReceiveInvalid, Receive, PublishResult,
                    FirstCopyConfirmed, ResultRefused, ResultTimesOut,
                    ConfirmForward, ForwardTimesOut, ConsumeReturns, processVars
      <3>3. CASE TakesPublication \/ RequeuesExpired \/ Shutdown \/ CloseConsumer
        BY <3>3 DEF TakesPublication, RequeuesExpired, BrokerOnly, Shutdown,
                    CloseConsumer, ConsumerConnectionEnds, processVars
      <3>4. CASE Environment
        BY <3>4 DEF Environment, ClosesPublisher, BrokerOnly, Send, SetFailureMode,
                    ChangeStock, ConsumerLost, ConsumerConnectionEnds, processVars
      <3>5. CASE UNCHANGED beside \/ UNCHANGED operationsVars
        BY <3>5 DEF beside, operationsVars, serviceVars, processVars
      <3> QED BY <1>2, <3>1, <3>2, <3>3, <3>4, <3>5
              DEF OperationsNext, ServiceSteps, Consumes, AdminSteps, AdminBroker
    <2>2. [HandlersNext]_handlerVars
      BY <1>2, HandlersInProcess DEF OperationsInv
    <2> QED BY <2>1, <2>2, DecisionsStep DEF OperationsInv
  <1> QED BY <1>1, <1>2

-----------------------------------------------------------------------------
(* The handlers put only their own decisions into their stores.             *)
LEMMA EntriesDecidedStep ==
    ASSUME EntriesDecided, Effect
    PROVE  EntriesDecided'
  <1>1. CASE Quiet \/ StockSet
    BY <1>1 DEF Quiet, StockSet, stores, EntriesDecided
  <1>2. ASSUME NEW m \in ReserveRequests,
               Confirms(m) \/ RejectsForShortage(m) \/ RejectsForMode(m)
        PROVE  EntriesDecided'
    <2>1. \E entry : /\ simulationStore' = Put(simulationStore, Key(m), entry)
                     /\ entry.decision \in {"confirmed", "rejected"}
      BY <1>2 DEF Confirms, RejectsForShortage, RejectsForMode, NewResult
    <2>2. releaseStore' = releaseStore
      BY <1>2 DEF Confirms, RejectsForShortage, RejectsForMode
    <2> QED BY <2>1, <2>2 DEF EntriesDecided, Put
  <1>3. ASSUME NEW m \in ReleaseRequests, Decodes(m),
               Releases(m) \/ RefusesRelease(m)
        PROVE  EntriesDecided'
    <2>1. TrimSpace[m.id] \in ReservationIDs
      BY <1>3, DecodedRequest DEF ReleaseRequests
    <2>2. \E entry : /\ releaseStore' = Put(releaseStore, Key(m), entry)
                     /\ entry.decision \in {"released", "release_failed"}
                     /\ entry.request = m
      <3>1. \A d, reason : /\ NewResult(m, d, reason).decision = d
                           /\ NewResult(m, d, reason).request = m
        BY DEF NewResult
      <3>2. CASE Releases(m)
        BY <3>1, <3>2 DEF Releases
      <3>3. CASE RefusesRelease(m)
        BY <3>1, <3>3 DEF RefusesRelease
      <3> QED BY <1>3, <3>2, <3>3
    <2>3. simulationStore' = simulationStore
      BY <1>3 DEF Releases, RefusesRelease
    <2> QED BY <2>1, <2>2, <2>3 DEF EntriesDecided, Put
  <1> QED BY <1>1, <1>2, <1>3 DEF Effect

(* What is recorded stays recorded as long as decisions are kept.           *)
LEMMA RecordedKept ==
    ASSUME DecisionsKept
    PROVE  \A o : Recorded(o) =>
              /\ o.request.kind = "reserve" => RecordedIn(simulationStore', o)
              /\ o.request.kind # "reserve" => RecordedIn(releaseStore', o)
  BY DEF DecisionsKept, Recorded, RecordedIn

(* Two outcomes of one kind and key that are recorded carry one decision.   *)
LEMMA RecordedAgree ==
    \A a, b : /\ Recorded(a) /\ Recorded(b)
              /\ a.request.kind = b.request.kind
              /\ Key(a.request) = Key(b.request)
              => a.decision = b.decision /\ a.reason = b.reason
  BY DEF Recorded, RecordedIn

(* A handler's answer is recorded in its store.                             *)
LEMMA AnswerRecorded ==
    ASSUME OperationsInv, Handles, reply'.error = Nil
    PROVE  /\ reply'.result.request = delivery.request
           /\ Recorded(reply.result)'
  <1>1. \A store, m, result :
           AnswersFrom(store, m, result) =>
              result.request = m /\ RecordedIn(store, result)
    BY DEF AnswersFrom, RecordedIn
  <1>2. ~HandleCancelled
    BY DEF HandleCancelled, Err, Nil
  <1>3. delivery.request \in Requests
    BY DEF Handles, HandleDelivery, HandleReleaseDelivery, OperationsInv,
           ConsumerTyped, Busy, QueuedMessages
  <1>4. CASE HandleDelivery
    <2>1. delivery.request \in ReserveRequests /\ delivery.request.kind = "reserve"
      BY <1>3, <1>4 DEF HandleDelivery, ReserveRequests
    <2>2. HandleReservationRequested(delivery.request, settings)
      BY <1>2, <1>4 DEF HandleDelivery
    <2>3. AnswersFrom(simulationStore', delivery.request, reply'.result)
      BY <2>1, <2>2, ReservationAnswer DEF OperationsInv
    <2> QED BY <1>1, <2>1, <2>3 DEF Recorded
  <1>5. CASE HandleReleaseDelivery
    <2>1. delivery.request \in ReleaseRequests /\ delivery.request.kind # "reserve"
      BY <1>3, <1>5 DEF HandleReleaseDelivery, ReleaseRequests
    <2>2. HandleReservationReleaseRequested(delivery.request)
      BY <1>2, <1>5 DEF HandleReleaseDelivery
    <2>3. AnswersFrom(releaseStore', delivery.request, reply'.result)
      BY <2>1, <2>2, ReleaseAnswer DEF OperationsInv
    <2> QED BY <1>1, <2>1, <2>3 DEF Recorded
  <1> QED BY <1>4, <1>5 DEF Handles

(* A result that is being published was being published before, unless a    *)
(* handler has just returned it.                                            *)
LEMMA ReplyStep ==
    ASSUME OperationsInv, [OperationsNext]_operationsVars,
           pc' \in {"publishing", "confirming"}
    PROVE  \/ Handles /\ reply'.error = Nil /\ delivery' = delivery
           \/ /\ pc \in {"publishing", "confirming"}
              /\ UNCHANGED <<reply, delivery>>
  <1> DEFINE Goal == \/ Handles /\ reply'.error = Nil /\ delivery' = delivery
                     \/ /\ pc \in {"publishing", "confirming"}
                        /\ UNCHANGED <<reply, delivery>>
  <1>1. CASE UNCHANGED <<pc, delivery, reply>>
    BY <1>1
  <1>2. ~NextDelivery
    BY DEF NextDelivery
  <1>3. ~Ending
    BY <1>2 DEF Ending, Ack, NackReject, NackRequeue, RetryOrDeadLetter
  <1>4. CASE Consumes
    <2>1. CASE Handles
      <3>1. AfterHandler
        BY <2>1 DEF Handles, HandleDelivery, HandleReleaseDelivery
      <3> QED BY <1>3, <2>1, <3>1 DEF AfterHandler, Ending
    <2>2. CASE \E m \in DOMAIN inbound : ReceiveInvalid(m) \/ Receive(m)
      BY <1>1, <2>2 DEF ReceiveInvalid, Receive, consumerVars, handlerVars
    <2>3. CASE PublishResult
      BY <1>3, <2>3 DEF PublishResult, Ending, handlerVars
    <2>4. CASE FirstCopyConfirmed
      BY <1>3, <2>4 DEF FirstCopyConfirmed, Ending, handlerVars
    <2>5. CASE \/ ResultConfirmed \/ ResultRefused \/ ResultTimesOut
               \/ ConfirmForward \/ ForwardTimesOut
      BY <1>3, <2>5 DEF ResultConfirmed, ResultRefused, ResultTimesOut,
                        ConfirmForward, ForwardTimesOut, Ending
    <2>6. CASE ConsumeReturns
      BY <2>6 DEF ConsumeReturns
    <2> QED BY <1>4, <2>1, <2>2, <2>3, <2>4, <2>5, <2>6
            DEF Consumes, OtherConsumerSteps
  <1>5. CASE TakesPublication \/ RequeuesExpired \/ Shutdown \/ CloseConsumer
    BY <1>1, <1>5 DEF TakesPublication, RequeuesExpired, BrokerOnly, Shutdown,
                      CloseConsumer, ConsumerConnectionEnds, consumerVars,
                      handlerVars
  <1>6. CASE Environment
    BY <1>1, <1>6 DEF Environment, ClosesPublisher, BrokerOnly, Send,
                      SetFailureMode, ChangeStock, ConsumerLost,
                      ConsumerConnectionEnds, consumerVars, handlerVars
  <1>7. CASE ProcessEnds
    BY <1>7 DEF ProcessEnds, Exit, Crash, StartAgain
  <1>8. CASE UNCHANGED beside \/ UNCHANGED operationsVars
    BY <1>1, <1>8 DEF beside, operationsVars, serviceVars, consumerVars,
                      handlerVars
  <1> QED BY <1>4, <1>5, <1>6, <1>7, <1>8
          DEF OperationsNext, ServiceSteps, AdminSteps, AdminBroker

(* Every step preserves the invariant of the outcomes.                      *)
LEMMA OutcomesInvStep ==
    ASSUME OperationsInv, OutcomesInv, [OperationsNext]_operationsVars
    PROVE  OutcomesInv'
  <1> DEFINE Publishing == pc \in {"publishing", "confirming"}
  <1>1. /\ life \in Nat
        /\ \A o \in PublishedOutcomes : o.life \in Nat
    <2>1. \A j \in DOMAIN wire : wire[j] \in ServicePublications
      BY DEF OperationsInv, MessagesTyped
    <2>2. \A o \in PublishedOutcomes : o \in OutcomeMessages
      BY <2>1 DEF OperationsInv, MessagesTyped, PublishedOutcomes,
                  ServicePublications
    <2> QED BY <2>2 DEF OperationsInv, MessagesTyped, OutcomeMessages
  <1>2. ASSUME NEW o \in PublishedOutcomes'
        PROVE  \/ o \in PublishedOutcomes
               \/ Publishing /\ o = Outcome(reply.result)
    BY <1>2, PublishedStep
  <1>3. Publishing => /\ Recorded(Outcome(reply.result))
                      /\ Outcome(reply.result).life = life
    BY DEF OutcomesInv, ReplyRecorded, Recorded, RecordedIn, Outcome
  <1>4. PublishedAgree'
    <2> SUFFICES ASSUME NEW a \in PublishedOutcomes', NEW b \in PublishedOutcomes',
                        a.life = b.life, a.request.kind = b.request.kind,
                        Key(a.request) = Key(b.request)
                 PROVE  a.decision = b.decision /\ a.reason = b.reason
      BY DEF PublishedAgree
    <2>1. CASE a \in PublishedOutcomes /\ b \in PublishedOutcomes
      BY <2>1 DEF OutcomesInv, PublishedAgree
    <2>2. CASE a.life = life
      <3>1. Recorded(a) /\ Recorded(b)
        BY <1>2, <1>3, <2>2 DEF OutcomesInv, OutcomesRecorded
      <3> QED BY <3>1, RecordedAgree
    <2> QED BY <1>2, <1>3, <2>1, <2>2
  <1>5. CASE ProcessEnds /\ life' = life + 1
    <2>1. HandlersInit' /\ pc' = "idle"
      BY <1>5, HandlersInProcess
         DEF OperationsInv, ProcessEnds, Exit, Crash, StartAgain
    <2>2. EntriesDecided'
      BY <2>1 DEF HandlersInit, EntriesDecided
    <2>3. OutcomesRecorded'
      <3>1. \A o \in PublishedOutcomes' : o.life \in Nat /\ o.life <= life
        BY <1>1, <1>2, <1>3 DEF OutcomesInv, OutcomesRecorded
      <3> QED BY <1>1, <1>5, <3>1 DEF OutcomesRecorded
    <2>4. ReplyRecorded'
      BY <2>1 DEF ReplyRecorded
    <2> QED BY <1>4, <2>2, <2>3, <2>4 DEF OutcomesInv
  <1>6. CASE life' = life /\ [HandlersNext]_handlerVars /\ DecisionsKept
    <2>1. EntriesDecided'
      BY <1>6, StepEffect, EntriesDecidedStep
         DEF OperationsInv, HandlersInv, OutcomesInv
    <2>2. OutcomesRecorded'
      <3>1. ASSUME NEW o \in PublishedOutcomes'
            PROVE  o.life <= life /\ (o.life = life => Recorded(o))
        BY <1>1, <1>2, <1>3, <3>1 DEF OutcomesInv, OutcomesRecorded
      <3> QED BY <1>6, <3>1, RecordedKept DEF OutcomesRecorded, Recorded
    <2>3. ReplyRecorded'
      <3> SUFFICES ASSUME pc' \in {"publishing", "confirming"}
                   PROVE  /\ reply'.result.request = delivery'.request
                          /\ Recorded(reply.result)'
        BY DEF ReplyRecorded
      <3>1. CASE Handles /\ reply'.error = Nil /\ delivery' = delivery
        BY <3>1, AnswerRecorded
      <3>2. CASE Publishing /\ UNCHANGED <<reply, delivery>>
        BY <1>6, <3>2, RecordedKept DEF OutcomesInv, ReplyRecorded, Recorded
      <3> QED BY <3>1, <3>2, ReplyStep
    <2> QED BY <1>4, <2>1, <2>2, <2>3 DEF OutcomesInv
  <1> QED BY <1>5, <1>6, LifeStep

(* Nothing is published at start.                                           *)
LEMMA OutcomesInvInit ==
    ASSUME OperationsInit
    PROVE  OutcomesInv
  <1>1. DOMAIN outcomes = {} /\ wire = << >> /\ pc = "idle" /\ HandlersInit
    BY DEF OperationsInit, Init, MessagingInit, EmptyBag, SetToBag,
           Publisher!ChannelInit
  <1>2. PublishedOutcomes = {}
    BY <1>1 DEF PublishedOutcomes
  <1> QED BY <1>1, <1>2 DEF OutcomesInv, EntriesDecided, OutcomesRecorded,
                            PublishedAgree, ReplyRecorded, HandlersInit

(* Outcomes are recorded throughout, restarts and faults included.          *)
THEOREM OutcomesInductive == OperationsSpec => [](OperationsInv /\ OutcomesInv)
  <1>1. OperationsInit => OutcomesInv
    BY OutcomesInvInit
  <1>2. OperationsInv /\ OutcomesInv /\ [OperationsNext]_operationsVars
           => OutcomesInv'
    BY OutcomesInvStep
  <1> QED BY <1>1, <1>2, OperationsInductive, PTL DEF OperationsSpec

(* All outcomes under one key within one life carry the same decision: they *)
(* are copies of one entry, which nothing revises.                          *)
THEOREM OutcomesAgreeHolds == OperationsSpec => []OutcomesAgree
  <1>1. OutcomesInv => OutcomesAgree
    BY DEF OutcomesInv, PublishedAgree, PublishedOutcomes, OutcomesAgree
  <1> QED BY <1>1, OutcomesInductive, PTL

(* What the invariants say of an outcome of this life.                      *)
LEMMA RecordedIsBacked ==
    ASSUME OperationsInv, OutcomesInv, NEW o \in DOMAIN outcomes, o.life = life
    PROVE  LET r == TrimSpace[o.request.id]
           IN  /\ o.decision = "confirmed" =>
                     /\ r \in DOMAIN reservations
                     /\ reservations[r].sku = TrimSpace[o.request.sku]
                     /\ reservations[r].quantity = o.request.quantity
               /\ o.decision = "released" =>
                     /\ r \in DOMAIN reservations
                     /\ reservations[r].status = "released"
  <1> DEFINE r == TrimSpace[o.request.id]
  <1> DEFINE k == Key(o.request)
  <1>1. Recorded(o)
    BY DEF OutcomesInv, OutcomesRecorded, PublishedOutcomes
  <1>2. ASSUME o.decision = "confirmed"
        PROVE  /\ r \in DOMAIN reservations
               /\ reservations[r].sku = TrimSpace[o.request.sku]
               /\ reservations[r].quantity = o.request.quantity
    <2>1. RecordedIn(simulationStore, o) /\ o.request.kind = "reserve"
      BY <1>1, <1>2 DEF Recorded, RecordedIn, OutcomesInv, EntriesDecided
    <2>2. /\ k \in DOMAIN simulationStore
          /\ simulationStore[k].decision = "confirmed"
          /\ SameReservationRequest(simulationStore[k].request, o.request)
      BY <1>2, <2>1 DEF RecordedIn
    <2> QED BY <2>2 DEF OperationsInv, HandlersInv, ConfirmedIsHeld,
                        SameReservationRequest
  <1>3. ASSUME o.decision = "released"
        PROVE  r \in DOMAIN reservations /\ reservations[r].status = "released"
    <2>1. RecordedIn(releaseStore, o)
      BY <1>1, <1>3 DEF Recorded, RecordedIn, OutcomesInv, EntriesDecided
    <2>2. /\ k \in ReleasedBy(r)
          /\ r \in ReservationIDs
      BY <1>3, <2>1 DEF RecordedIn, ReleasedBy, AnsweredWith, OutcomesInv,
                        EntriesDecided
    <2> QED BY <2>2 DEF OperationsInv, HandlersInv, ReleasedUnderOneKey, IsReleased
  <1> QED BY <1>2, <1>3

(* What the market was told is what the inventory holds.                    *)
THEOREM OutcomesBackedHolds == OperationsSpec => []OutcomesBacked
  <1>1. OperationsInv /\ OutcomesInv => OutcomesBacked
    BY RecordedIsBacked DEF OutcomesBacked
  <1> QED BY <1>1, OutcomesInductive, PTL

-----------------------------------------------------------------------------
(* Within the capacity of the inventory the promises are bounded by stock.  *)
UsedTyped ==
    used \in [sends : Nat, modes : Nat, stock : Nat, shutdowns : Nat,
              late : Nat, crashes : Nat]

(* As long as no stock was set over HTTP, every unit is available or held.  *)
SeedIsConserved ==
    used.stock = 0 =>
        /\ DOMAIN stock = DOMAIN Seed
        /\ \A s \in DOMAIN Seed :
              stock[s].available + stock[s].reserved = Seed[s]

StockInv == CapacityInv /\ UsedTyped /\ SeedIsConserved

(* No step does anything to the bounds of the environment but use them.     *)
LEMMA UsesOfStep ==
    ASSUME [OperationsNext]_operationsVars
    PROVE  \/ UNCHANGED used
           \/ \E b \in {"sends", "modes", "stock", "shutdowns", "late", "crashes"} :
                 Use(b)
  <1>1. CASE Handles \/ ResultConfirmed
    BY <1>1 DEF Handles, HandleDelivery, HandleReleaseDelivery, AfterHandler,
                ResultConfirmed
  <1>2. CASE OtherConsumerSteps
    BY <1>2 DEF OtherConsumerSteps, ReceiveInvalid, Receive, PublishResult,
                FirstCopyConfirmed, ResultRefused, ResultTimesOut,
                ConfirmForward, ForwardTimesOut, ConsumeReturns
  <1>3. CASE TakesPublication \/ RequeuesExpired \/ Shutdown \/ CloseConsumer
    BY <1>3 DEF TakesPublication, RequeuesExpired, BrokerOnly, Shutdown,
                CloseConsumer
  <1>4. CASE Environment
    BY <1>4 DEF Environment, ClosesPublisher, BrokerOnly, Send, SetFailureMode,
                ChangeStock, ConsumerLost
  <1>5. CASE ProcessEnds
    BY <1>5 DEF ProcessEnds, Exit, Crash
  <1>6. CASE UNCHANGED beside \/ UNCHANGED operationsVars
    BY <1>6 DEF beside, operationsVars, serviceVars
  <1> QED BY <1>1, <1>2, <1>3, <1>4, <1>5, <1>6
          DEF OperationsNext, ServiceSteps, Consumes, AdminSteps, AdminBroker

(* They are only counted up, and a change of stock is counted.              *)
LEMMA UsedStep ==
    ASSUME UsedTyped, [OperationsNext]_operationsVars
    PROVE  /\ UsedTyped'
           /\ used'.stock = 0 => used.stock = 0
           /\ \A t \in SkuText, level \in StockLevels :
                 ChangeStock(t, level) => used'.stock # 0
  <1>1. ASSUME NEW b \in {"sends", "modes", "stock", "shutdowns", "late", "crashes"},
               Use(b)
        PROVE  /\ UsedTyped'
               /\ used'.stock = 0 => used.stock = 0
               /\ b = "stock" => used'.stock # 0
    BY <1>1 DEF Use, UsedTyped
  <1>2. \/ UNCHANGED used
        \/ \E b \in {"sends", "modes", "stock", "shutdowns", "late", "crashes"} :
              Use(b)
    BY UsesOfStep
  <1>3. \A t \in SkuText, level \in StockLevels :
           ChangeStock(t, level) => Use("stock")
    BY DEF ChangeStock
  <1>4. CASE UNCHANGED used
    <2>1. ~Use("stock")
      BY <1>4 DEF Use, UsedTyped
    <2> QED BY <1>3, <1>4, <2>1 DEF UsedTyped
  <1> QED BY <1>1, <1>2, <1>3, <1>4

(* A handler call reserves, releases or leaves the inventory alone.         *)
LEMMA HandlesOnInventory ==
    ASSUME OperationsInv, Handles
    PROVE  UNCHANGED inventoryVars \/ (InventoryNext /\ reservations' # reservations)
  <1>1. ASSUME NEW i \in ReservationText, NEW t \in SkuText, NEW q \in Quantities,
               Reserve(i, t, q)
        PROVE  InventoryNext /\ reservations' # reservations
    <2>1. TrimSpace[i] \notin DOMAIN reservations
      BY <1>1 DEF Reserve, ReserveError, Nil
    <2>2. TrimSpace[i] \in DOMAIN reservations'
      BY <1>1 DEF Reserve, Put
    <2> QED BY <1>1, <2>1, <2>2 DEF InventoryNext
  <1>2. ASSUME NEW i \in ReservationText, Release(i)
        PROVE  InventoryNext /\ reservations' # reservations
    <2>1. /\ TrimSpace[i] \in DOMAIN reservations
          /\ reservations[TrimSpace[i]].status = "active"
      BY <1>2 DEF Release, ReleaseError, Nil
    <2>2. reservations[TrimSpace[i]] \in Reservation
      BY <2>1 DEF OperationsInv, HandlersInv, HandlersTypeOK, TypeOK
    <2>3. reservations'[TrimSpace[i]].status = "released"
      BY <1>2, <2>1, <2>2 DEF Release, Reservation
    <2> QED BY <1>2, <2>1, <2>3 DEF InventoryNext
  <1>3. delivery.request \in Requests
    BY DEF Handles, HandleDelivery, HandleReleaseDelivery, OperationsInv,
           ConsumerTyped, Busy, QueuedMessages
  <1>4. CASE HandleDelivery
    <2> DEFINE m == delivery.request
    <2>1. m.id \in ReservationText /\ m.sku \in SkuText /\ m.quantity \in Quantities
      BY <1>3, <1>4, HandlersAssumption DEF HandleDelivery, ReserveRequests
    <2>2. UNCHANGED inventoryVars \/ Reserve(m.id, m.sku, m.quantity)
      BY <1>4 DEF HandleDelivery, HandleReservationRequested, HandleReplayed,
                  HandleRejected, HandleReserved, HandleCancelled
    <2> QED BY <1>1, <2>1, <2>2
  <1>5. CASE HandleReleaseDelivery
    <2>1. delivery.request.id \in ReservationText
      BY <1>3, HandlersAssumption
    <2>2. UNCHANGED inventoryVars \/ Release(delivery.request.id)
      BY <1>5 DEF HandleReleaseDelivery, HandleReservationReleaseRequested,
                  HandleCancelled
    <2> QED BY <1>2, <2>1, <2>2
  <1> QED BY <1>4, <1>5 DEF Handles

(* A process that starts again has its seeded stock.                        *)
LEMMA StockStart == InventoryInit' => CapacityInv'
  <1>1. InventoryInit => CapacityInv
    BY CapacityInit
  <1> QED BY <1>1, PTL

(* Seeded stock is conserved, as nothing is reserved of it.                 *)
LEMMA SeedAtStart ==
    ASSUME InventoryInit
    PROVE  /\ DOMAIN stock = DOMAIN Seed
           /\ \A s \in DOMAIN Seed :
                 stock[s].available + stock[s].reserved = Seed[s]
  <1>1. \A s \in DOMAIN Seed : Seed[s] \in Int
    BY InventoryAssumption
  <1> QED BY <1>1 DEF InventoryInit

(* The same after a restart.                                                *)
LEMMA SeedAfterRestart ==
    InventoryInit' => /\ DOMAIN stock' = DOMAIN Seed
                      /\ \A s \in DOMAIN Seed :
                            stock'[s].available + stock'[s].reserved = Seed[s]
  <1>1. \A s \in DOMAIN Seed : Seed[s] \in Int
    BY InventoryAssumption
  <1> QED BY <1>1 DEF InventoryInit

(* Every step preserves the invariant of the stock.                         *)
LEMMA StockInvStep ==
    ASSUME OperationsInv, StockInv, [OperationsNext]_operationsVars
    PROVE  StockInv'
  <1>1. /\ UsedTyped'
        /\ used'.stock = 0 => used.stock = 0
        /\ \A t \in SkuText, level \in StockLevels :
              ChangeStock(t, level) => used'.stock # 0
    BY UsedStep DEF StockInv
  <1>2. CASE ProcessEnds
    <2>1. InventoryInit'
      BY <1>2, HandlersInProcess DEF OperationsInv, HandlersInit
    <2> QED BY <1>1, <2>1, StockStart, SeedAfterRestart DEF StockInv, SeedIsConserved
  <1>3. CASE ~ProcessEnds
    <2>1. CapacityInv'
      <3>1. [HandlersNext]_handlerVars
        BY <1>3, HandlersInProcess DEF OperationsInv
      <3>2. [InventoryNext]_inventoryVars
        BY <3>1, StepEffect, EffectOnInventory DEF OperationsInv, HandlersInv
      <3> QED BY <3>2, CapacityStep DEF StockInv
    <2>2. SeedIsConserved'
      <3> SUFFICES ASSUME used'.stock = 0
                   PROVE  /\ DOMAIN stock' = DOMAIN Seed
                          /\ \A s \in DOMAIN Seed :
                                stock'[s].available + stock'[s].reserved = Seed[s]
        BY DEF SeedIsConserved
      <3>1. /\ DOMAIN stock = DOMAIN Seed
            /\ \A s \in DOMAIN Seed :
                  stock[s].available + stock[s].reserved = Seed[s]
        BY <1>1 DEF StockInv, SeedIsConserved
      <3>2. UNCHANGED inventoryVars
               \/ (InventoryNext /\ reservations' # reservations)
        BY <1>1, <1>3, HandlersInProcess, HandlesOnInventory
           DEF OperationsInv, handlerVars
      <3>3. CASE UNCHANGED inventoryVars
        BY <3>1, <3>3 DEF inventoryVars
      <3>4. CASE InventoryNext /\ reservations' # reservations
        BY <2>1, <3>1, <3>4, TransferStep DEF StockInv
      <3> QED BY <3>2, <3>3, <3>4
    <2> QED BY <1>1, <2>1, <2>2 DEF StockInv
  <1> QED BY <1>2, <1>3

(* The seed is conserved and the counters of the inventory are exact, for   *)
(* as long as the capacity of the inventory is respected.                   *)
THEOREM StockInductive == OperationsSpec => []StockInv
  <1>1. ASSUME OperationsInit
        PROVE  StockInv
    <2>1. InventoryInit
      BY <1>1 DEF OperationsInit, Init, HandlersInit
    <2>2. UsedTyped
      BY <1>1 DEF OperationsInit, Init, UsedTyped
    <2> QED BY <2>1, <2>2, CapacityInit, SeedAtStart DEF StockInv, SeedIsConserved
  <1>2. OperationsInit => StockInv
    BY <1>1
  <1>3. OperationsInv /\ StockInv /\ [OperationsNext]_operationsVars => StockInv'
    BY StockInvStep
  <1> QED BY <1>2, <1>3, OperationsInductive, PTL DEF OperationsSpec

(* The market is never promised more than there is: the confirmed outcomes  *)
(* of this life are backed by active reservations, whose units the reserved *)
(* counter of their item counts, and available never falls below zero.      *)
THEOREM NeverOversoldHolds == OperationsSpec => []NeverOversold
  <1>1. ASSUME OperationsInv, OutcomesInv, StockInv
        PROVE  NeverOversold
    <2> SUFFICES ASSUME NEW s \in DOMAIN Seed, used.stock = 0
                 PROVE  Cardinality(UNION {
                          {TrimSpace[o.request.id]} \X (1..o.request.quantity) :
                          o \in {x \in DOMAIN outcomes :
                            /\ x.life = life
                            /\ x.decision = "confirmed"
                            /\ TrimSpace[x.request.sku] = s
                            /\ TrimSpace[x.request.id] \in DOMAIN reservations =>
                               reservations[TrimSpace[x.request.id]].status
                                  = "active"}})
                        <= Seed[s]
      BY DEF NeverOversold
    <2> DEFINE Promised ==
          {x \in DOMAIN outcomes :
             /\ x.life = life
             /\ x.decision = "confirmed"
             /\ TrimSpace[x.request.sku] = s
             /\ TrimSpace[x.request.id] \in DOMAIN reservations =>
                reservations[TrimSpace[x.request.id]].status = "active"}
    <2> DEFINE Block(o) == {TrimSpace[o.request.id]} \X (1..o.request.quantity)
    <2>1. ASSUME NEW o \in Promised, NEW u \in Block(o)
          PROVE  u \in Units(s, "active")
      <3> DEFINE r == TrimSpace[o.request.id]
      <3>1. /\ r \in DOMAIN reservations
            /\ reservations[r].sku = s
            /\ reservations[r].quantity = o.request.quantity
            /\ reservations[r].status = "active"
        BY <1>1, RecordedIsBacked
      <3>2. u \in {r} \X (1..reservations[r].quantity)
        BY <2>1, <3>1
      <3> QED BY <3>1, <3>2, UnitsMembership DEF Units
    <2>2. UNION {Block(o) : o \in Promised} \subseteq Units(s, "active")
      BY <2>1
    <2>3. IsFiniteSet(Units(s, "active"))
      BY <1>1, InvFits, UnitsBounded DEF StockInv, Units
    <2>4. /\ Cardinality(UNION {Block(o) : o \in Promised})
                <= Cardinality(Units(s, "active"))
          /\ Cardinality(UNION {Block(o) : o \in Promised}) \in Nat
      BY <2>2, <2>3, FS_Subset, FS_CardinalityType
    <2>5. /\ s \in DOMAIN stock
          /\ stock[s].available + stock[s].reserved = Seed[s]
          /\ stock[s].reserved = Cardinality(Units(s, "active"))
          /\ 0 <= stock[s].available
      BY <1>1 DEF StockInv, SeedIsConserved, CapacityInv, ReservedMatchesActive,
                  AvailableBounded
    <2>6. stock[s].available \in Int /\ stock[s].reserved \in Int
      BY <1>1, <2>5, InventoryAssumption
         DEF StockInv, CapacityInv, TypeOK, StockItem, GoInt, MinInt
    <2>7. Cardinality(UNION {Block(o) : o \in Promised}) <= Seed[s]
      <3> HIDE DEF Promised, Block
      <3> QED BY <2>4, <2>5, <2>6
    <2> QED BY <2>7
  <1>2. OperationsInv /\ OutcomesInv /\ StockInv => NeverOversold
    BY <1>1
  <1> QED BY <1>2, OutcomesInductive, StockInductive, PTL

-----------------------------------------------------------------------------
(* In the running service, with messages retried, duplicated and requeued,  *)
(* stock changed over HTTP meanwhile and the process starting again at any  *)
(* time, the inventory is exact: reserved units are those of the active     *)
(* reservations, nothing is negative, and every active reservation can be   *)
(* released.                                                                *)
THEOREM InventoryExactInProcess ==
    OperationsSpec =>
        [](ReservedMatchesActive /\ StockNonNegative /\ ActiveIsReleasable)
  <1>1. StockInv => ReservedMatchesActive /\ StockNonNegative /\ ActiveIsReleasable
    BY InvNonNegative, InvReleasable DEF StockInv, CapacityInv
  <1> QED BY <1>1, StockInductive, PTL

(* And the stores do there what they are for: however often a delivery      *)
(* comes again, a reservation is confirmed under one key and released under *)
(* one key, and the two stores on the way of a reservation agree.           *)
THEOREM AnsweredOnceInProcess ==
    OperationsSpec =>
        [](StoresAgree /\ ReservationsConfirmedOnce /\ ReleasesAnsweredOnce)
  <1>1. OperationsInv =>
           StoresAgree /\ ReservationsConfirmedOnce /\ ReleasesAnsweredOnce
    BY OnceFromInv DEF OperationsInv, HandlersInv
  <1> QED BY <1>1, OperationsInductive, PTL

(* Only the end of the process forgets: every other step of the service, a  *)
(* step of the consumer, the broker, the admin or the HTTP API, is a step   *)
(* of the inventory on its own and revises no decision.                     *)
THEOREM OnlyRestartsForget ==
    OperationsSpec =>
        [][ \/ ProcessEnds /\ life' = life + 1
            \/ life' = life /\ [InventoryNext]_inventoryVars /\ DecisionsKept
          ]_operationsVars
  <1>1. OperationsInv /\ [OperationsNext]_operationsVars =>
           [ \/ ProcessEnds /\ life' = life + 1
             \/ life' = life /\ [InventoryNext]_inventoryVars /\ DecisionsKept
           ]_operationsVars
    BY LifeStep, StepEffect, EffectOnInventory DEF OperationsInv, HandlersInv
  <1> QED BY <1>1, OperationsInductive, PTL DEF OperationsSpec

(* A handler that was called with a delivery answers it, or fails with an   *)
(* error for which the consumer rejects the delivery; an error for which it *)
(* is retried comes only from a context that is done.  So every retry of a  *)
(* running service is due to a publication that failed.                     *)
THEOREM HandlersRetryOnlyWhenStopping ==
    OperationsSpec =>
        [][ Handles => \/ reply'.error = Nil
                       \/ IsPermanentHandlerError(reply'.error)
                       \/ ctxDone ]_operationsVars
  <1> DEFINE A == \/ reply'.error = Nil
                  \/ IsPermanentHandlerError(reply'.error)
                  \/ ctxDone
  <1>1. ASSUME OperationsInv, StockInv, Handles
        PROVE  A
    <2>1. /\ HandlersInv /\ CapacityInv
          /\ delivery.request \in Requests /\ Decodes(delivery.request)
      BY <1>1 DEF OperationsInv, StockInv, ConsumerTyped, Busy, QueuedMessages,
                  Handles, HandleDelivery, HandleReleaseDelivery
    <2>2. ctxDone
          \/ \/ /\ delivery.request \in ReserveRequests
                /\ HandleReservationRequested(delivery.request, settings)
             \/ /\ delivery.request \in ReleaseRequests
                /\ HandleReservationReleaseRequested(delivery.request)
      BY <1>1, <2>1 DEF Handles, HandleDelivery, HandleReleaseDelivery,
                        ReserveRequests, ReleaseRequests
    <2>3. ctxDone \/ reply'.error \in {Nil, "ReservationAlreadyExists",
                                       "IdempotencyConflict"}
      BY <2>1, <2>2, AnswerErrors
    <2> QED BY <2>3 DEF IsPermanentHandlerError
  <1>2. OperationsInv /\ StockInv /\ [OperationsNext]_operationsVars =>
           [Handles => A]_operationsVars
    BY <1>1
  <1> QED BY <1>2, OperationsInductive, StockInductive, PTL DEF OperationsSpec
=============================================================================
