--------------------------- MODULE DeliveryProofs ---------------------------
(***************************************************************************)
(* Proofs that no request is lost.  That is not so in general: a wait for  *)
(* a confirmation that was given up leaves a confirmation behind for the   *)
(* next wait, which then takes it for its own, and if that publication is  *)
(* refused or lost a delivery is acknowledged of which no copy exists.     *)
(* Each of the two alone is harmless: as long as the broker, the           *)
(* connections and the process drop nothing, and as long as no wait is     *)
(* given up, every request that was sent is answered or still there.       *)
(***************************************************************************)
EXTENDS OutcomesProofs

(* Nothing has been dropped: no publication refused or lost with its        *)
(* connection, no process crashed.                                          *)
NothingDropped ==
    /\ faults.rejects = 0 /\ faults.losses = 0
    /\ adminFaults.rejects = 0 /\ adminFaults.losses = 0
    /\ used.crashes = 0

(* No wait has been given up: no confirmation was late, no client of the    *)
(* admin gone and the consumer never told to stop.                          *)
NoGiveUps ==
    /\ faults.timeouts = 0 /\ adminFaults.timeouts = 0
    /\ used.shutdowns = 0

FaultCounts == [timeouts : Nat, rejects : Nat, losses : Nat]

FaultsTyped == faults \in FaultCounts /\ adminFaults \in FaultCounts /\ UsedTyped

(* A request is in a queue, or its outcome is, ...                          *)
Stored(r) ==
    \E m \in DOMAIN inbound \cup DOMAIN retryQueue \cup DOMAIN dlq \cup
             DOMAIN outcomes : m.request = r

(* ... or a publication carries it there, ...                               *)
OnTheWay(r) == Stored(r) \/ \E m \in InTransit \cup OnAdminWire : m.request = r

(* ... or it is being handled.  The delivery and the dead letter that wait  *)
(* for a confirmation do not count: a publication was made of them.         *)
Safe(r) ==
    \/ OnTheWay(r)
    \/ /\ consumerOpen
       /\ pc \in {"handling", "publishing"}
       /\ delivery.request = r

SafeInv == NothingDropped => \A r \in DOMAIN requested : Safe(r)

(* A channel that carries one publication at a time.  While its publisher   *)
(* waits, the publication is on the wire, or the broker has taken it and    *)
(* its confirmation is the next, or both are lost with the connection.      *)
OneAtMost(s) == s = << >> \/ s = <<Head(s)>>

Awaiting(w, confirmed, open, request) ==
    /\ OneAtMost(w) /\ OneAtMost(confirmed)
    /\ w # << >> =>
          /\ open /\ confirmed = << >>
          /\ Head(w).message.request = request /\ Head(w).life = life

Silent(w, confirmed) == w = << >> /\ confirmed = << >>

Waits == pc \in {"confirming", "forwarding"}
AdminWaits == \E c \in Callers : call[c].pc = "confirming"

Paced ==
    /\ Waits => Awaiting(wire, confirmations, publisherOpen, delivery.request)
    /\ ~Waits => Silent(wire, confirmations)

AdminPaced ==
    /\ AdminWaits => Awaiting(adminWire, adminConfirmations, adminOpen, held.request)
    /\ ~AdminWaits => Silent(adminWire, adminConfirmations)

(* The wait that is next to see the confirmation sees an ack.               *)
Acked(confirmed) == confirmed # << >> /\ Head(confirmed) = TRUE

(* A request is in a queue, or someone has it whose publication has not     *)
(* been acknowledged: publications count only once the broker has them.     *)
Kept(r) ==
    \/ Stored(r)
    \/ /\ delivery # NoDelivery /\ delivery.request = r
       /\ ~Acked(confirmations)
    \/ /\ held # NoDelivery /\ held.request = r
       /\ ~Acked(adminConfirmations)

(* As long as no wait is given up, each confirmation is taken by the wait   *)
(* it is for, so that nothing is acknowledged that was not published.       *)
Running == ~ctxDone /\ consumerOpen

KeptInv ==
    NoGiveUps =>
        /\ Running
        /\ Paced
        /\ AdminPaced
        /\ \A r \in DOMAIN requested : Kept(r)

-----------------------------------------------------------------------------
(* Faults are only counted up.                                              *)
LEMMA FaultCounted ==
    ASSUME NEW f \in FaultCounts, NEW g,
           NEW x \in {"timeouts", "rejects", "losses"},
           g = [f EXCEPT ![x] = @ + 1]
    PROVE  /\ g \in FaultCounts
           /\ g.timeouts = 0 => f.timeouts = 0 /\ x # "timeouts"
           /\ g.rejects = 0 => f.rejects = 0 /\ x # "rejects"
           /\ g.losses = 0 => f.losses = 0 /\ x # "losses"
  BY DEF FaultCounts

(* A fault of the publisher's channel, and one of the admin's.              *)
Fault(x) == faults' = [faults EXCEPT ![x] = @ + 1]
AdminFault(x) == adminFaults' = [adminFaults EXCEPT ![x] = @ + 1]

FaultKinds == {"timeouts", "rejects", "losses"}

(* No step does anything else to the counts.                                *)
LEMMA FaultsOfStep ==
    ASSUME [OperationsNext]_operationsVars
    PROVE  /\ UNCHANGED faults \/ \E x \in FaultKinds : Fault(x)
           /\ UNCHANGED adminFaults \/ \E x \in FaultKinds : AdminFault(x)
  <1> DEFINE F == UNCHANGED faults \/ \E x \in FaultKinds : Fault(x)
  <1> DEFINE A == UNCHANGED adminFaults \/ \E x \in FaultKinds : AdminFault(x)
  <1>1. UNCHANGED adminVars => A
    BY DEF adminVars, adminChannelVars
  <1>2. UNCHANGED beside => F
    BY DEF beside
  <1>3. Consumes => F
    <2>1. CASE Handles \/ ResultConfirmed
      BY <2>1 DEF Handles, HandleDelivery, HandleReleaseDelivery, AfterHandler,
                  ResultConfirmed
    <2>2. CASE OtherConsumerSteps
      BY <2>2 DEF OtherConsumerSteps, ReceiveInvalid, Receive, PublishResult,
                  FirstCopyConfirmed, ResultRefused, ResultTimesOut,
                  ConfirmForward, ForwardTimesOut, ConsumeReturns, messagingVars,
                  Publisher!GiveUp, Fault, FaultKinds
    <2> QED BY <2>1, <2>2 DEF Consumes
  <1>4. TakesPublication \/ RequeuesExpired \/ Shutdown \/ CloseConsumer => F
    BY DEF TakesPublication, RequeuesExpired, BrokerOnly, BrokerAccepts,
           BrokerRefuses, Publisher!Accepts, Publisher!Refuses, RetryExpires,
           Shutdown, CloseConsumer, ConsumerConnectionEnds, messagingVars, Fault,
           FaultKinds
  <1>5. Environment => F
    BY DEF Environment, ClosesPublisher, BrokerOnly, PublisherLost,
           Publisher!Lost, Send, SetFailureMode, ChangeStock, ConsumerLost,
           ConsumerConnectionEnds, messagingVars, Fault, FaultKinds
  <1>6. ProcessEnds => F /\ A
    BY DEF ProcessEnds, Exit, Crash, StartAgain, AdminRestarts
  <1>7. \A c \in Callers : AdminSteps(c) => A
    BY DEF AdminSteps, TakesLock, CallSteps, Lock, DLQDepth, RequeueEnds,
           RequeueOne, Requeued, RequeueFails, Admin!GiveUp, adminChannelVars,
           AdminFault, FaultKinds
  <1>8. AdminBroker => A
    BY DEF AdminBroker, AdminChannelSteps, AdminAccepts, AdminRefuses,
           Admin!Accepts, Admin!Refuses, AdminFault, FaultKinds
  <1>9. AdminEnvironment => A
    BY DEF AdminEnvironment, StartRequeue, StartScrape, ClientGone, AdminLost,
           Admin!Lost, adminChannelVars, AdminFault, FaultKinds
  <1>10. UNCHANGED operationsVars => F /\ A
    BY <1>1 DEF operationsVars, serviceVars, messagingVars
  <1>11. \A c \in Callers : AdminSteps(c) => UNCHANGED beside
    BY DEF AdminSteps
  <1>12. AdminBroker => UNCHANGED beside
    BY DEF AdminBroker
  <1> QED
    <2> HIDE DEF F, A
    <2>1. F /\ A
      BY <1>1, <1>2, <1>3, <1>4, <1>5, <1>6, <1>7, <1>8, <1>9, <1>10, <1>11,
         <1>12 DEF OperationsNext, ServiceSteps
    <2> QED BY <2>1 DEF F, A

(* What has happened once has always happened; each kind of fault leaves    *)
(* its mark.                                                                *)
LEMMA FaultsStep ==
    ASSUME FaultsTyped, [OperationsNext]_operationsVars
    PROVE  /\ FaultsTyped'
           /\ NothingDropped' =>
                 /\ NothingDropped
                 /\ \A x \in {"rejects", "losses"} : ~Fault(x) /\ ~AdminFault(x)
                 /\ ~Use("crashes")
           /\ NoGiveUps' =>
                 /\ NoGiveUps
                 /\ ~Fault("timeouts") /\ ~AdminFault("timeouts")
                 /\ ~Use("shutdowns")
  <1>1. /\ faults' \in FaultCounts
        /\ faults'.timeouts = 0 => faults.timeouts = 0 /\ ~Fault("timeouts")
        /\ faults'.rejects = 0 => faults.rejects = 0 /\ ~Fault("rejects")
        /\ faults'.losses = 0 => faults.losses = 0 /\ ~Fault("losses")
    <2>1. faults \in FaultCounts
      BY DEF FaultsTyped
    <2>2. \A x \in FaultKinds : Fault(x) =>
             /\ faults' \in FaultCounts
             /\ faults'.timeouts = 0 => faults.timeouts = 0 /\ x # "timeouts"
             /\ faults'.rejects = 0 => faults.rejects = 0 /\ x # "rejects"
             /\ faults'.losses = 0 => faults.losses = 0 /\ x # "losses"
      BY <2>1, FaultCounted DEF Fault, FaultKinds
    <2> QED BY <2>1, <2>2, FaultsOfStep DEF FaultKinds
  <1>2. /\ adminFaults' \in FaultCounts
        /\ adminFaults'.timeouts = 0 =>
              adminFaults.timeouts = 0 /\ ~AdminFault("timeouts")
        /\ adminFaults'.rejects = 0 =>
              adminFaults.rejects = 0 /\ ~AdminFault("rejects")
        /\ adminFaults'.losses = 0 =>
              adminFaults.losses = 0 /\ ~AdminFault("losses")
    <2>1. adminFaults \in FaultCounts
      BY DEF FaultsTyped
    <2>2. \A x \in FaultKinds : AdminFault(x) =>
             /\ adminFaults' \in FaultCounts
             /\ adminFaults'.timeouts = 0 =>
                   adminFaults.timeouts = 0 /\ x # "timeouts"
             /\ adminFaults'.rejects = 0 => adminFaults.rejects = 0 /\ x # "rejects"
             /\ adminFaults'.losses = 0 => adminFaults.losses = 0 /\ x # "losses"
      BY <2>1, FaultCounted DEF AdminFault, FaultKinds
    <2> QED BY <2>1, <2>2, FaultsOfStep DEF FaultKinds
  <1>3. /\ UsedTyped'
        /\ used'.crashes = 0 => used.crashes = 0 /\ ~Use("crashes")
        /\ used'.shutdowns = 0 => used.shutdowns = 0 /\ ~Use("shutdowns")
    <2>1. UsedTyped
      BY DEF FaultsTyped
    <2>2. ASSUME NEW b \in {"sends", "modes", "stock", "shutdowns", "late",
                            "crashes"},
                 Use(b)
          PROVE  /\ UsedTyped'
                 /\ used'.crashes = 0 => used.crashes = 0 /\ b # "crashes"
                 /\ used'.shutdowns = 0 => used.shutdowns = 0 /\ b # "shutdowns"
      BY <2>1, <2>2 DEF Use, UsedTyped
    <2> QED BY <2>1, <2>2, UsesOfStep DEF UsedTyped
  <1> QED BY <1>1, <1>2, <1>3 DEF FaultsTyped, NothingDropped, NoGiveUps

-----------------------------------------------------------------------------
(* Nothing leaves a queue or a wire.                                        *)
Growing ==
    /\ DOMAIN inbound \subseteq DOMAIN inbound'
    /\ DOMAIN retryQueue \subseteq DOMAIN retryQueue'
    /\ DOMAIN dlq \subseteq DOMAIN dlq'
    /\ DOMAIN outcomes \subseteq DOMAIN outcomes'
    /\ InTransit \subseteq InTransit'
    /\ OnAdminWire \subseteq OnAdminWire'

(* Then what was on its way still is.                                       *)
LEMMA GrowingKeeps ==
    ASSUME Growing
    PROVE  \A r : OnTheWay(r) => OnTheWay(r)'
  BY DEF Growing, OnTheWay, Stored

(* A publication is on the wire after what was there before.                *)
LEMMA PublishedInTransit ==
    ASSUME MessagesTyped, NEW p \in ServicePublications, Publisher!Publish(p)
    PROVE  InTransit \subseteq InTransit' /\ p.message \in InTransit'
  <1>1. wire \in Seq(ServicePublications) /\ wire' = Append(wire, p)
    BY DEF MessagesTyped, Publisher!Publish
  <1>2. {wire[i] : i \in DOMAIN wire} \cup {p}
           \subseteq {wire'[i] : i \in DOMAIN wire'}
    BY <1>1, Appended
  <1> QED BY <1>2 DEF InTransit

(* The same on the wire of the admin.                                       *)
LEMMA PublishedOnAdminWire ==
    ASSUME MessagesTyped, NEW p \in AdminPublications, Admin!Publish(p)
    PROVE  OnAdminWire \subseteq OnAdminWire' /\ p.message \in OnAdminWire'
  <1>1. adminWire \in Seq(AdminPublications) /\ adminWire' = Append(adminWire, p)
    BY DEF MessagesTyped, Admin!Publish
  <1>2. {adminWire[i] : i \in DOMAIN adminWire} \cup {p}
           \subseteq {adminWire'[i] : i \in DOMAIN adminWire'}
    BY <1>1, Appended
  <1> QED BY <1>2 DEF OnAdminWire

(* What is forwarded is the request of the delivery.                        *)
LEMMA ForwardedRequest ==
    \A m : Forwarded(m).message.request = m.request
  BY DEF Forwarded, Publication, DeadLetter, Message

(* The ways a delivery ends without an acknowledgement.                     *)
HandsBack == NackReject \/ NackRequeue \/ RetryOrDeadLetter

(* However a delivery ends, nothing else is touched; unless it is           *)
(* acknowledged or the broker has it back already, it is on its way again.  *)
LEMMA EndingKeeps ==
    ASSUME OperationsInv, pc \in Busy, Ending,
           UNCHANGED <<retryQueue, outcomes, adminWire>>
    PROVE  /\ Growing
           /\ \A r : /\ consumerOpen /\ delivery.request = r
                    /\ HandsBack
                    => OnTheWay(r)'
  <1>1. delivery \in QueuedMessages /\ MessagesTyped /\ life \in Nat
    BY DEF OperationsInv, ConsumerTyped, MessagesTyped
  <1>2. UNCHANGED wire => InTransit \subseteq InTransit'
    BY DEF InTransit
  <1>3. OnAdminWire \subseteq OnAdminWire'
    BY DEF OnAdminWire
  <1>4. CASE NackReject
    <2>1. /\ DOMAIN dlq \subseteq DOMAIN dlq'
          /\ consumerOpen => DeadLetter(delivery, "rejected") \in DOMAIN dlq'
      BY <1>4, BagElements DEF NackReject
    <2>2. DeadLetter(delivery, "rejected").request = delivery.request
      BY DEF DeadLetter
    <2> QED BY <1>2, <1>3, <1>4, <2>1, <2>2
            DEF NackReject, Growing, OnTheWay, Stored
  <1>5. CASE NackRequeue
    <2>1. /\ DOMAIN inbound \subseteq DOMAIN inbound'
          /\ consumerOpen => delivery \in DOMAIN inbound'
      BY <1>5, BagElements DEF NackRequeue
    <2> QED BY <1>2, <1>3, <1>5, <2>1 DEF NackRequeue, Growing, OnTheWay, Stored
  <1>6. CASE Publisher!Publish(Forwarded(delivery)) /\ UNCHANGED <<inbound, dlq>>
    <2>1. Forwarded(delivery) \in ServicePublications
      BY <1>1, ForwardedTyped
    <2>2. /\ InTransit \subseteq InTransit'
          /\ Forwarded(delivery).message \in InTransit'
      BY <1>1, <1>6, <2>1, PublishedInTransit
    <2> QED BY <1>3, <1>6, <2>2, ForwardedRequest DEF Growing, OnTheWay
  <1>7. CASE HandsBack
    BY <1>4, <1>5, <1>6, <1>7 DEF HandsBack, RetryOrDeadLetter
  <1>8. CASE Ack
    <2>1. Growing
      BY <1>2, <1>3, <1>8 DEF Ack, Growing
    <2> QED BY <1>7, <2>1
  <1> QED BY <1>7, <1>8 DEF Ending, HandsBack

(* An outcome is published: it answers the delivery.                        *)
LEMMA OutcomeKeeps ==
    ASSUME OperationsInv, OutcomesInv, pc \in {"publishing", "confirming"},
           Publisher!Publish(Publication("outcome", Outcome(reply.result), life)),
           UNCHANGED <<inbound, retryQueue, dlq, outcomes, adminWire>>
    PROVE  Growing /\ \A r : delivery.request = r => OnTheWay(r)'
  <1> DEFINE p == Publication("outcome", Outcome(reply.result), life)
  <1>1. p \in ServicePublications /\ MessagesTyped
    BY OutcomeTyped DEF OperationsInv, ConsumerTyped, MessagesTyped
  <1>2. InTransit \subseteq InTransit' /\ p.message \in InTransit'
    BY <1>1, PublishedInTransit
  <1>3. p.message.request = delivery.request
    BY DEF Publication, Outcome, OutcomesInv, ReplyRecorded
  <1> QED BY <1>2, <1>3 DEF Growing, OnTheWay, OnAdminWire

(* A step of the consumer leaves a request safe: what it receives it        *)
(* handles, what it has handled it answers, forwards, rejects or requeues,  *)
(* and it acknowledges only a delivery of which it has made a publication.  *)
LEMMA ConsumerKeepsSafe ==
    ASSUME OperationsInv, OutcomesInv, Consumes, UNCHANGED adminVars,
           NEW r, Safe(r)
    PROVE  Safe(r)'
  <1> DEFINE Handled == /\ consumerOpen
                        /\ pc \in {"handling", "publishing"}
                        /\ delivery.request = r
  <1>1. UNCHANGED adminWire
    BY DEF adminVars, adminChannelVars
  <1>2. OnTheWay(r)' => Safe(r)'
    BY DEF Safe
  <1>3. OnTheWay(r) \/ Handled
    BY DEF Safe
  <1>4. ASSUME HandsBack, pc \in Busy, UNCHANGED <<retryQueue, outcomes>>
        PROVE  Safe(r)'
    BY <1>1, <1>2, <1>3, <1>4, EndingKeeps, GrowingKeeps DEF HandsBack, Ending
  <1>5. ASSUME Ack, pc \in {"confirming", "forwarding"},
               UNCHANGED <<retryQueue, outcomes>>
        PROVE  Safe(r)'
    BY <1>1, <1>2, <1>3, <1>5, EndingKeeps, GrowingKeeps DEF Ending, Busy
  <1>6. ASSUME pc \in {"publishing", "confirming"},
               UNCHANGED <<inbound, retryQueue, dlq, outcomes>>,
               Publisher!Publish(Publication("outcome", Outcome(reply.result), life))
        PROVE  Safe(r)'
    BY <1>1, <1>2, <1>3, <1>6, OutcomeKeeps, GrowingKeeps
  <1>7. ASSUME UNCHANGED <<inbound, retryQueue, dlq, outcomes, wire>>
        PROVE  OnTheWay(r) => OnTheWay(r)'
    BY <1>1, <1>7 DEF OnTheWay, Stored, InTransit, OnAdminWire
  <1>8. ASSUME pc = "handling", AfterHandler
        PROVE  Safe(r)'
    <2>1. UNCHANGED <<retryQueue, outcomes, consumerOpen>>
      BY <1>8 DEF AfterHandler, processVars
    <2>2. CASE /\ pc' = "publishing"
               /\ UNCHANGED <<inbound, dlq, wire, delivery>>
      BY <1>3, <1>7, <2>1, <2>2 DEF Safe
    <2> QED BY <1>4, <1>8, <2>1, <2>2 DEF AfterHandler, HandsBack, Busy
  <1>9. ASSUME NEW m \in DOMAIN inbound, ReceiveInvalid(m)
        PROVE  Safe(r)'
    <2>1. /\ \A x \in DOMAIN inbound : x = m \/ x \in DOMAIN inbound'
          /\ \A x \in DOMAIN dlq : x \in DOMAIN dlq'
          /\ DeadLetter(m, "rejected") \in DOMAIN dlq'
          /\ UNCHANGED <<retryQueue, outcomes, wire>>
      BY <1>9, BagElements DEF ReceiveInvalid, channelVars
    <2>2. DeadLetter(m, "rejected").request = m.request
      BY DEF DeadLetter
    <2>3. OnTheWay(r)
      BY <1>3, <1>9 DEF ReceiveInvalid
    <2>4. OnTheWay(r)'
      BY <1>1, <2>1, <2>2, <2>3 DEF OnTheWay, Stored, InTransit, OnAdminWire
    <2> QED BY <1>2, <2>4
  <1>10. ASSUME NEW m \in DOMAIN inbound, Receive(m)
         PROVE  Safe(r)'
    <2>1. /\ \A x \in DOMAIN inbound : x = m \/ x \in DOMAIN inbound'
          /\ UNCHANGED <<retryQueue, dlq, outcomes, wire>>
          /\ pc' = "handling" /\ delivery' = m /\ consumerOpen'
      BY <1>10, BagElements DEF Receive, channelVars, processVars
    <2>2. OnTheWay(r)
      BY <1>3, <1>10 DEF Receive
    <2>3. OnTheWay(r)' \/ m.request = r
      BY <1>1, <2>1, <2>2 DEF OnTheWay, Stored, InTransit, OnAdminWire
    <2> QED BY <1>2, <2>1, <2>3 DEF Safe
  <1>11. CASE PublishResult
    BY <1>4, <1>6, <1>11 DEF PublishResult, HandsBack, Busy
  <1>12. CASE FirstCopyConfirmed
    BY <1>4, <1>6, <1>12 DEF FirstCopyConfirmed, HandsBack, Busy
  <1>13. CASE ResultConfirmed \/ ResultRefused \/ ResultTimesOut
    BY <1>4, <1>5, <1>13 DEF ResultConfirmed, ResultRefused, ResultTimesOut,
                             HandsBack, Busy
  <1>14. CASE ConfirmForward \/ ForwardTimesOut
    BY <1>4, <1>5, <1>14 DEF ConfirmForward, ForwardTimesOut, HandsBack, Busy
  <1>15. CASE ConsumeReturns
    BY <1>2, <1>3, <1>7, <1>15
       DEF ConsumeReturns, messagingVars, channelVars, queueVars
  <1> QED BY <1>8, <1>9, <1>10, <1>11, <1>12, <1>13, <1>14, <1>15
          DEF Consumes, Handles, HandleDelivery, HandleReleaseDelivery,
              OtherConsumerSteps

(* What the broker takes it puts into a queue.                              *)
LEMMA RouteStores ==
    ASSUME NEW p \in ServicePublications \cup AdminPublications, Route(p)
    PROVE  /\ DOMAIN inbound \subseteq DOMAIN inbound'
           /\ DOMAIN retryQueue \subseteq DOMAIN retryQueue'
           /\ DOMAIN dlq \subseteq DOMAIN dlq'
           /\ DOMAIN outcomes \subseteq DOMAIN outcomes'
           /\ p.message \in DOMAIN inbound' \cup DOMAIN retryQueue' \cup
                            DOMAIN dlq' \cup DOMAIN outcomes'
  <1>1. p.route \in {"request", "retry", "dead_letter", "outcome"}
    BY DEF ServicePublications, AdminPublications
  <1> QED BY <1>1, BagElements DEF Route

(* The messages a channel carries after the broker took its first.          *)
LEMMA TakenFrom ==
    ASSUME NEW S, NEW w \in Seq(S), w # << >>
    PROVE  /\ Head(w) \in S
           /\ \A j \in DOMAIN w :
                 w[j] = Head(w) \/ \E i \in DOMAIN Tail(w) : Tail(w)[i] = w[j]
  <1>1. Head(w) \in S
    OBVIOUS
  <1> QED BY <1>1, WireElements

(* A publication the broker takes and does not refuse is stored.            *)
LEMMA BrokerKeeps ==
    ASSUME OperationsInv, NEW r, OnTheWay(r),
           \/ BrokerAccepts(life) /\ UNCHANGED adminWire
           \/ AdminAccepts(life) /\ UNCHANGED wire
    PROVE  OnTheWay(r)'
  <1>1. wire \in Seq(ServicePublications) /\ adminWire \in Seq(AdminPublications)
    BY DEF OperationsInv, MessagesTyped
  <1>2. CASE BrokerAccepts(life) /\ UNCHANGED adminWire
    <2>1. wire # << >> /\ wire' = Tail(wire) /\ Route(Head(wire))
      BY <1>2 DEF BrokerAccepts, Publisher!Accepts
    <2>2. /\ Head(wire) \in ServicePublications
          /\ \A j \in DOMAIN wire :
                wire[j] = Head(wire) \/ \E i \in DOMAIN wire' : wire'[i] = wire[j]
      BY <1>1, <2>1, TakenFrom
    <2>3. \A m \in InTransit : m = Head(wire).message \/ m \in InTransit'
      BY <2>2 DEF InTransit
    <2>4. OnAdminWire' = OnAdminWire
      BY <1>2 DEF OnAdminWire
    <2> QED BY <2>1, <2>2, <2>3, <2>4, RouteStores DEF OnTheWay, Stored
  <1>3. CASE AdminAccepts(life) /\ UNCHANGED wire
    <2>1. adminWire # << >> /\ adminWire' = Tail(adminWire) /\ Route(Head(adminWire))
      BY <1>3 DEF AdminAccepts, Admin!Accepts
    <2>2. /\ Head(adminWire) \in AdminPublications
          /\ \A j \in DOMAIN adminWire :
                \/ adminWire[j] = Head(adminWire)
                \/ \E i \in DOMAIN adminWire' : adminWire'[i] = adminWire[j]
      BY <1>1, <2>1, TakenFrom
    <2>3. \A m \in OnAdminWire : m = Head(adminWire).message \/ m \in OnAdminWire'
      BY <2>2 DEF OnAdminWire
    <2>4. InTransit' = InTransit
      BY <1>3 DEF InTransit
    <2> QED BY <2>1, <2>2, <2>3, <2>4, RouteStores DEF OnTheWay, Stored
  <1> QED BY <1>2, <1>3

(* The steps around the consumer leave a request safe, too, as long as the  *)
(* broker refuses nothing and no connection is lost with a publication: the *)
(* broker redelivers what a closed consumer has not acknowledged.           *)
LEMMA SurroundingKeepsSafe ==
    ASSUME OperationsInv, UNCHANGED adminVars,
           TakesPublication \/ RequeuesExpired \/ Environment \/ Shutdown
              \/ CloseConsumer,
           ~Fault("rejects"), ~Fault("losses"),
           NEW r, Safe(r)
    PROVE  Safe(r)'
  <1> DEFINE Handled == /\ consumerOpen
                        /\ pc \in {"handling", "publishing"}
                        /\ delivery.request = r
  <1>1. UNCHANGED adminWire
    BY DEF adminVars, adminChannelVars
  <1>2. OnTheWay(r)' => Safe(r)'
    BY DEF Safe
  <1>3. OnTheWay(r) \/ Handled
    BY DEF Safe
  <1>4. ASSUME UNCHANGED <<pc, delivery, consumerOpen>>,
               OnTheWay(r) => OnTheWay(r)'
        PROVE  Safe(r)'
    BY <1>3, <1>4 DEF Safe
  <1>5. CASE TakesPublication
    <2>1. BrokerAccepts(life) /\ UNCHANGED <<pc, delivery, consumerOpen>>
      BY <1>5 DEF TakesPublication, BrokerOnly, BrokerRefuses, Publisher!Refuses,
                  Fault, consumerVars, processVars
    <2> QED BY <1>1, <1>4, <2>1, BrokerKeeps
  <1>6. CASE RequeuesExpired
    <2>1. PICK m \in DOMAIN retryQueue : RetryExpires(m)
      BY <1>6 DEF RequeuesExpired, BrokerOnly
    <2>2. /\ \A x \in DOMAIN retryQueue : x = m \/ x \in DOMAIN retryQueue'
          /\ \A x \in DOMAIN inbound : x \in DOMAIN inbound'
          /\ m \in DOMAIN inbound'
          /\ UNCHANGED <<dlq, outcomes, wire>>
      BY <2>1, BagElements DEF RetryExpires, channelVars
    <2>3. OnTheWay(r) => OnTheWay(r)'
      BY <1>1, <2>2 DEF OnTheWay, Stored, InTransit, OnAdminWire
    <2>4. UNCHANGED <<pc, delivery, consumerOpen>>
      BY <1>6 DEF RequeuesExpired, BrokerOnly, consumerVars, processVars
    <2> QED BY <1>4, <2>3, <2>4
  <1>7. ~ClosesPublisher
    BY DEF ClosesPublisher, BrokerOnly, PublisherLost, Publisher!Lost, Fault
  <1>8. ASSUME NEW request \in Requests, Send(request)
        PROVE  Safe(r)'
    <2>1. /\ \A x \in DOMAIN inbound : x \in DOMAIN inbound'
          /\ UNCHANGED <<retryQueue, dlq, outcomes, wire, pc, delivery, consumerOpen>>
      BY <1>8, BagElements DEF Send, channelVars, consumerVars, processVars
    <2>2. OnTheWay(r) => OnTheWay(r)'
      BY <1>1, <2>1 DEF OnTheWay, Stored, InTransit, OnAdminWire
    <2> QED BY <1>4, <2>1, <2>2
  <1>9. ASSUME UNCHANGED <<messagingVars, consumerVars, consumerOpen>>
        PROVE  Safe(r)'
    <2>1. OnTheWay(r) => OnTheWay(r)'
      BY <1>1, <1>9 DEF OnTheWay, Stored, InTransit, OnAdminWire, messagingVars,
                        queueVars, channelVars
    <2> QED BY <1>4, <1>9, <2>1 DEF consumerVars
  <1>10. ASSUME NEW s \in SettingsUsed, SetFailureMode(s)
         PROVE  Safe(r)'
    BY <1>9, <1>10 DEF SetFailureMode
  <1>11. ASSUME NEW t \in SkuText, NEW level \in StockLevels, ChangeStock(t, level)
         PROVE  Safe(r)'
    BY <1>9, <1>11 DEF ChangeStock, processVars
  <1>12. CASE Shutdown
    BY <1>9, <1>12 DEF Shutdown
  <1>13. CASE ConsumerConnectionEnds
    <2>1. Handled => delivery # NoDelivery
      BY NoDeliveryIsNoMessage DEF OperationsInv, ConsumerTyped, Busy
    <2>2. /\ \A x \in DOMAIN inbound : x \in DOMAIN inbound'
          /\ Handled => delivery \in DOMAIN inbound'
          /\ UNCHANGED <<retryQueue, dlq, outcomes, wire>>
      BY <1>13, <2>1, BagElements DEF ConsumerConnectionEnds, Redelivered, channelVars
    <2>3. OnTheWay(r)'
      BY <1>1, <1>3, <2>2 DEF OnTheWay, Stored, InTransit, OnAdminWire
    <2> QED BY <1>2, <2>3
  <1> QED BY <1>5, <1>6, <1>7, <1>8, <1>10, <1>11, <1>12, <1>13
          DEF Environment, ConsumerLost, CloseConsumer

(* A process that exits leaves its publications on the wire, and the broker *)
(* takes back the delivery and the dead letter.                             *)
LEMMA ExitKeepsSafe ==
    ASSUME OperationsInv, ProcessEnds, ~Use("crashes"), NEW r, Safe(r)
    PROVE  Safe(r)'
  <1>1. Exit /\ UNCHANGED adminWire /\ AdminRestarts
    BY DEF ProcessEnds, Crash
  <1>2. /\ ~consumerOpen
        /\ UNCHANGED <<wire, retryQueue, outcomes>>
        /\ inbound' = Redelivered
        /\ dlq' = Returned
    BY <1>1 DEF Exit, StartAgain, AdminRestarts
  <1>3. OnTheWay(r)
    BY <1>2 DEF Safe
  <1>4. Growing
    BY <1>1, <1>2, BagElements DEF Growing, Redelivered, Returned, InTransit,
                                   OnAdminWire
  <1> QED BY <1>3, <1>4, GrowingKeeps DEF Safe

(* The admin takes a dead letter from its queue only to publish it.         *)
LEMMA AdminKeepsSafe ==
    ASSUME OperationsInv, UNCHANGED beside,
           \/ \E c \in Callers : TakesLock(c) \/ CallSteps(c, life)
           \/ AdminChannelSteps(life)
           \/ AdminEnvironment,
           ~AdminFault("rejects"), ~AdminFault("losses"),
           NEW r, Safe(r)
    PROVE  Safe(r)'
  <1>1. UNCHANGED <<wire, pc, delivery, consumerOpen>>
    BY DEF beside, channelVars, consumerVars, processVars
  <1>2. SUFFICES ASSUME OnTheWay(r)
                 PROVE  OnTheWay(r)'
    BY <1>1 DEF Safe
  <1>3. InTransit' = InTransit
    BY <1>1 DEF InTransit
  <1>4. UNCHANGED queueVars /\ UNCHANGED adminWire => OnTheWay(r)'
    BY <1>2, <1>3 DEF queueVars, OnTheWay, Stored, OnAdminWire
  <1>5. CASE AdminChannelSteps(life)
    <2>1. AdminAccepts(life)
      BY <1>5 DEF AdminChannelSteps, AdminRefuses, Admin!Refuses, AdminFault
    <2> QED BY <1>1, <1>2, <2>1, BrokerKeeps
  <1>6. ~AdminLost
    BY DEF AdminLost, Admin!Lost, AdminFault
  <1>7. ASSUME NEW c \in Callers, NEW m \in DOMAIN dlq, RequeueOne(c, m, life)
        PROVE  OnTheWay(r)'
    <2> DEFINE p == Publication("request", Message(m.request, 0), life)
    <2>1. m.request \in Requests /\ life \in Nat /\ MessagesTyped
      BY DEF OperationsInv, MessagesTyped, DeadLetters
    <2>2. p \in AdminPublications /\ p.message.request = m.request
      BY <2>1, ServiceAssumption DEF Publication, Message, AdminPublications,
                                     QueuedMessages
    <2>3. Admin!Publish(p)
      BY <1>7 DEF RequeueOne
    <2>4. OnAdminWire \subseteq OnAdminWire' /\ p.message \in OnAdminWire'
      BY <2>1, <2>2, <2>3, PublishedOnAdminWire
    <2>5. /\ \A x \in DOMAIN dlq : x = m \/ x \in DOMAIN dlq'
          /\ UNCHANGED <<inbound, retryQueue, outcomes>>
      BY <1>7, BagElements DEF RequeueOne
    <2> HIDE DEF p
    <2> QED BY <1>2, <1>3, <2>2, <2>4, <2>5 DEF OnTheWay, Stored
  <1>8. ASSUME NEW c \in Callers, RequeueFails(c)
        PROVE  OnTheWay(r)'
    <2>1. Growing
      BY <1>3, <1>8, BagElements DEF RequeueFails, Returned, Growing, OnAdminWire
    <2> QED BY <1>2, <2>1, GrowingKeeps
  <1>9. ASSUME NEW c \in Callers,
               TakesLock(c) \/ RequeueEnds(c) \/ Requeued(c) \/ StartScrape(c)
                  \/ ClientGone(c)
        PROVE  OnTheWay(r)'
    BY <1>4, <1>9 DEF TakesLock, Lock, DLQDepth, RequeueEnds, Requeued,
                      StartScrape, ClientGone, adminChannelVars
  <1>10. ASSUME NEW c \in Callers, NEW q \in RequeueRequests, StartRequeue(c, q)
         PROVE  OnTheWay(r)'
    BY <1>4, <1>10 DEF StartRequeue, adminChannelVars
  <1> QED BY <1>5, <1>6, <1>7, <1>8, <1>9, <1>10 DEF CallSteps, AdminEnvironment

(* Only the market requests, ...                                            *)
LEMMA OnlyTheMarketSends ==
    ASSUME [OperationsNext]_operationsVars
    PROVE  \/ UNCHANGED requested
           \/ \E request \in Requests : Send(request) /\ UNCHANGED adminVars
  <1>1. CASE Handles \/ ResultConfirmed
    BY <1>1 DEF Handles, HandleDelivery, HandleReleaseDelivery, AfterHandler,
                ResultConfirmed
  <1>2. CASE OtherConsumerSteps
    BY <1>2 DEF OtherConsumerSteps, ReceiveInvalid, Receive, PublishResult,
                FirstCopyConfirmed, ResultRefused, ResultTimesOut,
                ConfirmForward, ForwardTimesOut, ConsumeReturns
  <1>3. CASE TakesPublication \/ RequeuesExpired \/ Shutdown \/ CloseConsumer
    BY <1>3 DEF TakesPublication, RequeuesExpired, BrokerOnly, Shutdown,
                CloseConsumer, ConsumerConnectionEnds
  <1>4. CASE Environment /\ UNCHANGED adminVars
    BY <1>4 DEF Environment, ClosesPublisher, BrokerOnly, SetFailureMode,
                ChangeStock, ConsumerLost, ConsumerConnectionEnds
  <1>5. CASE ProcessEnds
    BY <1>5 DEF ProcessEnds, Exit, Crash, StartAgain
  <1>6. CASE UNCHANGED beside \/ UNCHANGED operationsVars
    BY <1>6 DEF beside, operationsVars, serviceVars
  <1> QED BY <1>1, <1>2, <1>3, <1>4, <1>5, <1>6
          DEF OperationsNext, ServiceSteps, Consumes, AdminSteps, AdminBroker

(* ... and what it sends is in the inbound queue.                           *)
LEMMA RequestedStep ==
    ASSUME [OperationsNext]_operationsVars, NEW r \in DOMAIN requested'
    PROVE  r \in DOMAIN requested \/ Stored(r)'
  <1>1. ASSUME NEW request \in Requests, Send(request)
        PROVE  r \in DOMAIN requested \/ Stored(r)'
    <2>1. r \in DOMAIN requested \/ r = request
      BY <1>1, BagElements DEF Send
    <2>2. Message(request, 0) \in DOMAIN inbound'
      BY <1>1, BagElements DEF Send
    <2>3. Message(request, 0).request = request
      BY DEF Message
    <2> QED BY <2>1, <2>2, <2>3 DEF Stored
  <1> QED BY <1>1, OnlyTheMarketSends

(* As long as nothing is dropped, every step leaves every request safe.     *)
LEMMA SafeStep ==
    ASSUME OperationsInv, OutcomesInv, FaultsTyped, SafeInv,
           [OperationsNext]_operationsVars
    PROVE  SafeInv'
  <1> SUFFICES ASSUME NothingDropped', NEW r \in DOMAIN requested'
               PROVE  Safe(r)'
    BY DEF SafeInv
  <1>1. /\ NothingDropped /\ ~Use("crashes")
        /\ ~Fault("rejects") /\ ~Fault("losses")
        /\ ~AdminFault("rejects") /\ ~AdminFault("losses")
    BY FaultsStep
  <1>2. CASE Stored(r)'
    BY <1>2 DEF Safe, OnTheWay
  <1>3. CASE r \in DOMAIN requested
    <2>1. Safe(r)
      BY <1>1, <1>3 DEF SafeInv
    <2>2. CASE Consumes /\ UNCHANGED adminVars
      BY <2>1, <2>2, ConsumerKeepsSafe
    <2>3. CASE /\ TakesPublication \/ RequeuesExpired \/ Environment \/ Shutdown
                  \/ CloseConsumer
               /\ UNCHANGED adminVars
      BY <1>1, <2>1, <2>3, SurroundingKeepsSafe
    <2>4. CASE ProcessEnds
      BY <1>1, <2>1, <2>4, ExitKeepsSafe
    <2>5. CASE /\ \/ \E c \in Callers : TakesLock(c) \/ CallSteps(c, life)
                  \/ AdminChannelSteps(life)
                  \/ AdminEnvironment
               /\ UNCHANGED beside
      BY <1>1, <2>1, <2>5, AdminKeepsSafe
    <2>6. CASE UNCHANGED operationsVars
      <3>1. UNCHANGED <<queueVars, wire, adminWire, pc, delivery, consumerOpen>>
        BY <2>6 DEF operationsVars, serviceVars, messagingVars, channelVars,
                    consumerVars, processVars, adminVars, adminChannelVars
      <3> QED BY <2>1, <3>1 DEF queueVars, Safe, OnTheWay, Stored, InTransit,
                                OnAdminWire
    <2> QED BY <2>2, <2>3, <2>4, <2>5, <2>6
            DEF OperationsNext, ServiceSteps, AdminSteps, AdminBroker
  <1> QED BY <1>2, <1>3, RequestedStep

(* Nothing is requested when the process starts, and no fault has happened. *)
LEMMA DeliveryStart ==
    ASSUME OperationsInit
    PROVE  FaultsTyped /\ requested = EmptyBag /\ DOMAIN requested = {}
  <1>1. faults = Publisher!NoFaults /\ adminFaults = Admin!NoFaults
    BY DEF OperationsInit, Init, MessagingInit, Publisher!ChannelInit, AdminInit,
           Admin!ChannelInit
  <1>2. faults \in FaultCounts /\ adminFaults \in FaultCounts
    BY <1>1 DEF FaultCounts, Publisher!NoFaults, Admin!NoFaults
  <1>3. UsedTyped /\ requested = EmptyBag /\ DOMAIN requested = {}
    BY DEF OperationsInit, Init, UsedTyped, EmptyBag, SetToBag
  <1> QED BY <1>2, <1>3 DEF FaultsTyped

(* Requests are safe throughout as long as nothing is dropped.              *)
THEOREM SafeInductive == OperationsSpec => [](FaultsTyped /\ SafeInv)
  <1>1. OperationsInit => FaultsTyped /\ SafeInv
    BY DeliveryStart DEF SafeInv
  <1>2. FaultsTyped /\ [OperationsNext]_operationsVars => FaultsTyped'
    BY FaultsStep
  <1>3. OperationsInv /\ OutcomesInv /\ FaultsTyped /\ SafeInv
           /\ [OperationsNext]_operationsVars => SafeInv'
    BY SafeStep
  <1> QED BY <1>1, <1>2, <1>3, OutcomesInductive, PTL DEF OperationsSpec

-----------------------------------------------------------------------------
(* Sequences of one element.                                                *)
LEMMA Single ==
    ASSUME NEW x
    PROVE  /\ Append(<< >>, x) = <<x>>
           /\ Head(<<x>>) = x /\ Tail(<<x>>) = << >> /\ <<x>> # << >>
  OBVIOUS

(* What is put on an empty channel is alone and first, ...                  *)
LEMMA PutAlone ==
    ASSUME NEW x
    PROVE  LET s == Append(<< >>, x)
           IN  OneAtMost(s) /\ s # << >> /\ Head(s) = x
  BY Single DEF OneAtMost

(* ... and taking it leaves the channel empty.                              *)
LEMMA TakeAlone ==
    ASSUME NEW s, s # << >>, OneAtMost(s)
    PROVE  Tail(s) = << >>
  BY Single DEF OneAtMost

(* A refusal is not an ack.                                                 *)
LEMMA RefusalIsNoAck ==
    ASSUME NEW s, s = Append(<< >>, FALSE)
    PROVE  OneAtMost(s) /\ s # << >> /\ ~Acked(s)
  BY PutAlone, Zenon DEF Acked

(* No confirmation is not one, either.                                      *)
LEMMA NoneIsNoAck == ~Acked(<< >>)
  BY DEF Acked

(* The publisher's channel is clear for the next publication.               *)
Cleared == wire = << >> /\ confirmations' = << >>

(* A publication of the delivery on a clear channel is waited for alone.    *)
LEMMA PublishPaced ==
    ASSUME Cleared, NEW p, Publisher!Publish(p),
           p.message.request = delivery.request, p.life = life,
           pc' \in {"confirming", "forwarding"},
           UNCHANGED <<delivery, publisherOpen, life>>
    PROVE  Paced'
  <1>1. wire' = Append(<< >>, p) /\ publisherOpen /\ confirmations' = << >>
    BY DEF Publisher!Publish, Cleared
  <1>2. OneAtMost(wire') /\ Head(wire') = p
    BY <1>1, PutAlone
  <1>3. Waits'
    BY DEF Waits
  <1> QED BY <1>1, <1>2, <1>3 DEF Paced, Awaiting, OneAtMost

(* Nobody waits on a clear channel on which nothing was put.                *)
LEMMA ClearPaced ==
    ASSUME Cleared, UNCHANGED wire, pc' \notin {"confirming", "forwarding"}
    PROVE  Paced'
  BY DEF Cleared, Paced, Waits, Silent

(* What is stored stays so when nothing leaves a queue.                     *)
LEMMA GrowingStores ==
    ASSUME Growing
    PROVE  \A r : Stored(r) => Stored(r)'
  BY DEF Growing, Stored

(* The end of a delivery on a clear channel: it is handed back, ...         *)
LEMMA HandsBackKept ==
    ASSUME OperationsInv, pc \in Busy, HandsBack, Cleared, consumerOpen,
           UNCHANGED <<retryQueue, outcomes, publisherOpen, consumerOpen, life,
                       adminWire, held, adminConfirmations>>
    PROVE  Paced' /\ \A r : Kept(r) => Kept(r)'
  <1>1. delivery \in QueuedMessages /\ delivery # NoDelivery
    BY NoDeliveryIsNoMessage DEF OperationsInv, ConsumerTyped
  <1>2. Growing
    BY EndingKeeps DEF Ending, HandsBack
  <1>3. \A r : Stored(r) => Stored(r)'
    BY <1>2, GrowingStores
  <1>4. ASSUME \A r : delivery.request = r => Stored(r)'
        PROVE  \A r : Kept(r) => Kept(r)'
    BY <1>3, <1>4 DEF Kept
  <1>5. ASSUME NextDelivery, UNCHANGED wire
        PROVE  Paced'
    BY <1>5, ClearPaced DEF NextDelivery
  <1>6. CASE NackReject
    <2>1. DeadLetter(delivery, "rejected") \in DOMAIN dlq'
      BY <1>6, BagElements DEF NackReject
    <2>2. DeadLetter(delivery, "rejected").request = delivery.request
      BY DEF DeadLetter
    <2>3. \A r : delivery.request = r => Stored(r)'
      BY <2>1, <2>2 DEF Stored
    <2> QED BY <1>4, <1>5, <1>6, <2>3 DEF NackReject
  <1>7. CASE NackRequeue
    <2>1. delivery \in DOMAIN inbound'
      BY <1>7, BagElements DEF NackRequeue
    <2>2. \A r : delivery.request = r => Stored(r)'
      BY <2>1 DEF Stored
    <2> QED BY <1>4, <1>5, <1>7, <2>2 DEF NackRequeue
  <1>8. CASE /\ Publisher!Publish(Forwarded(delivery)) /\ pc' = "forwarding"
             /\ UNCHANGED delivery
    <2>1. Forwarded(delivery).life = life
      BY DEF Forwarded, Publication
    <2>2. Paced'
      BY <1>8, <2>1, ForwardedRequest, PublishPaced
    <2>3. ~Acked(confirmations')
      BY NoneIsNoAck DEF Cleared
    <2> QED BY <1>1, <1>3, <1>8, <2>2, <2>3 DEF Kept
  <1> QED BY <1>6, <1>7, <1>8 DEF HandsBack, RetryOrDeadLetter

(* ... or it is acknowledged, because its publication was.                  *)
LEMMA AckKept ==
    ASSUME OperationsInv, pc \in Busy, Ack, Cleared, Acked(confirmations),
           UNCHANGED <<retryQueue, outcomes, adminWire, held, adminConfirmations>>
    PROVE  Paced' /\ \A r : Kept(r) => Kept(r)'
  <1>1. Paced'
    BY ClearPaced DEF Ack, NextDelivery
  <1>2. \A r : Stored(r) => Stored(r)'
    BY EndingKeeps, GrowingStores DEF Ending
  <1> QED BY <1>1, <1>2 DEF Kept

(* The publication of an outcome on a clear channel.                        *)
LEMMA OutcomeKept ==
    ASSUME OperationsInv, OutcomesInv, pc \in {"publishing", "confirming"}, Cleared,
           Publisher!Publish(Publication("outcome", Outcome(reply.result), life)),
           pc' = "confirming",
           UNCHANGED <<inbound, retryQueue, dlq, outcomes, delivery, publisherOpen,
                       life, adminWire, held, adminConfirmations>>
    PROVE  Paced' /\ \A r : Kept(r) => Kept(r)'
  <1> DEFINE p == Publication("outcome", Outcome(reply.result), life)
  <1>1. p.message.request = delivery.request /\ p.life = life
    BY DEF Publication, Outcome, OutcomesInv, ReplyRecorded
  <1>2. Paced'
    <2> HIDE DEF p
    <2>1. Publisher!Publish(p)
      BY DEF p
    <2> QED BY <1>1, <2>1, PublishPaced
  <1>3. \A r : Stored(r) => Stored(r)'
    BY OutcomeKeeps, GrowingStores
  <1>4. ~Acked(confirmations')
    BY NoneIsNoAck DEF Cleared
  <1> QED BY <1>2, <1>3, <1>4 DEF Kept

(* When a confirmation is taken the channel is clear.                       *)
LEMMA TakeClears ==
    ASSUME Paced, Waits, confirmations # << >>,
           confirmations' = Tail(confirmations)
    PROVE  Cleared
  BY TakeAlone DEF Paced, Awaiting, Cleared

(* So it is when a connection that is lost ends a wait; no other wait ends. *)
LEMMA ClosedClears ==
    ASSUME Paced, Waits, ~ctxDone, Publisher!GiveUp(ctxDone), ~Fault("timeouts")
    PROVE  Cleared
  <1>1. ~publisherOpen /\ confirmations = << >> /\ UNCHANGED confirmations
    BY DEF Publisher!GiveUp, Fault
  <1> QED BY <1>1 DEF Paced, Awaiting, Cleared

(* Every step of the consumer keeps the pace and every request.             *)
LEMMA ConsumerKept ==
    ASSUME OperationsInv, OutcomesInv, Running, Paced, Consumes,
           UNCHANGED adminVars, ~Fault("timeouts")
    PROVE  Running' /\ Paced' /\ \A r : Kept(r) => Kept(r)'
  <1> DEFINE K == Paced' /\ \A r : Kept(r) => Kept(r)'
  <1>1. UNCHANGED <<adminWire, held, adminConfirmations>>
    BY DEF adminVars, adminChannelVars
  <1>2. ~ctxDone /\ consumerOpen
    BY DEF Running
  <1>3. UNCHANGED processVars
    <2>1. CASE Handles \/ ResultConfirmed
      BY <2>1 DEF Handles, HandleDelivery, HandleReleaseDelivery, AfterHandler,
                  ResultConfirmed
    <2>2. CASE OtherConsumerSteps
      BY <2>2 DEF OtherConsumerSteps, ReceiveInvalid, Receive, PublishResult,
                  FirstCopyConfirmed, ResultRefused, ResultTimesOut,
                  ConfirmForward, ForwardTimesOut, ConsumeReturns
    <2> QED BY <2>1, <2>2 DEF Consumes
  <1>4. UNCHANGED <<ctxDone, consumerOpen, life>>
    BY <1>3 DEF processVars
  <1>5. ASSUME pc \in Busy, HandsBack, Cleared,
               UNCHANGED <<retryQueue, outcomes, publisherOpen>>
        PROVE  K
    BY <1>1, <1>2, <1>4, <1>5, HandsBackKept
  <1>6. ASSUME pc \in Busy, Ack, Cleared, Acked(confirmations),
               UNCHANGED <<retryQueue, outcomes>>
        PROVE  K
    BY <1>1, <1>6, AckKept
  <1>7. ASSUME pc \in {"publishing", "confirming"}, Cleared,
               Publisher!Publish(Publication("outcome", Outcome(reply.result), life)),
               pc' = "confirming",
               UNCHANGED <<inbound, retryQueue, dlq, outcomes, delivery,
                           publisherOpen>>
        PROVE  K
    BY <1>1, <1>4, <1>7, OutcomeKept
  <1>8. ASSUME ~Waits, UNCHANGED confirmations
        PROVE  Cleared
    BY <1>8 DEF Paced, Silent, Cleared
  <1>9. ASSUME pc = "handling", AfterHandler
        PROVE  K
    <2>1. UNCHANGED <<retryQueue, outcomes, confirmations, publisherOpen>>
      BY <1>9 DEF AfterHandler
    <2>2. Cleared
      BY <1>8, <1>9, <2>1 DEF Waits
    <2>3. CASE /\ pc' = "publishing"
               /\ UNCHANGED <<inbound, dlq, wire, delivery>>
      <3>1. Paced'
        BY <2>2, <2>3, ClearPaced
      <3> QED BY <1>1, <2>1, <2>3, <3>1 DEF Kept, Stored
    <2> QED BY <1>5, <1>9, <2>1, <2>2, <2>3 DEF AfterHandler, HandsBack, Busy
  <1>10. ASSUME NEW m \in DOMAIN inbound, ReceiveInvalid(m)
         PROVE  K
    <2>1. /\ \A x \in DOMAIN inbound : x = m \/ x \in DOMAIN inbound'
          /\ \A x \in DOMAIN dlq : x \in DOMAIN dlq'
          /\ DeadLetter(m, "rejected") \in DOMAIN dlq'
          /\ UNCHANGED <<retryQueue, outcomes, wire, confirmations, pc, delivery>>
          /\ pc = "idle"
      BY <1>10, BagElements DEF ReceiveInvalid, channelVars, consumerVars
    <2>2. DeadLetter(m, "rejected").request = m.request
      BY DEF DeadLetter
    <2>3. Paced'
      BY <1>8, <2>1, ClearPaced DEF Waits
    <2>4. \A r : Stored(r) => Stored(r)'
      BY <2>1, <2>2 DEF Stored
    <2> QED BY <1>1, <2>1, <2>3, <2>4 DEF Kept
  <1>11. ASSUME NEW m \in DOMAIN inbound, Receive(m)
         PROVE  K
    <2>1. /\ \A x \in DOMAIN inbound : x = m \/ x \in DOMAIN inbound'
          /\ UNCHANGED <<retryQueue, dlq, outcomes, wire, confirmations>>
          /\ pc = "idle" /\ pc' = "handling" /\ delivery' = m
      BY <1>11, BagElements DEF Receive, channelVars
    <2>2. Cleared
      BY <1>8, <2>1 DEF Waits
    <2>3. Paced'
      BY <2>1, <2>2, ClearPaced
    <2>4. delivery = NoDelivery /\ m # NoDelivery
      BY <2>1, NoDeliveryIsNoMessage DEF OperationsInv, ConsumerTyped, Busy,
                                         MessagesTyped
    <2>5. \A r : Stored(r) => Stored(r)' \/ m.request = r
      BY <2>1 DEF Stored
    <2>6. ~Acked(confirmations')
      BY <2>2, NoneIsNoAck DEF Cleared
    <2> QED BY <1>1, <2>1, <2>3, <2>4, <2>5, <2>6 DEF Kept
  <1>12. ASSUME PublishResult
         PROVE  K
    <2>1. Cleared /\ pc = "publishing"
      BY <1>8, <1>12 DEF PublishResult, Waits
    <2> QED BY <1>5, <1>7, <1>12, <2>1 DEF PublishResult, HandsBack, Busy
  <1>13. ASSUME FirstCopyConfirmed
         PROVE  K
    <2>1. Cleared /\ pc = "confirming"
      BY <1>13, TakeClears DEF FirstCopyConfirmed, Publisher!TakeConfirmation, Waits
    <2> QED BY <1>5, <1>7, <1>13, <2>1 DEF FirstCopyConfirmed, HandsBack, Busy
  <1>14. ASSUME ResultConfirmed
         PROVE  K
    <2>1. Cleared /\ pc = "confirming"
      BY <1>14, TakeClears DEF ResultConfirmed, Publisher!TakeConfirmation, Waits
    <2>2. Acked(confirmations)
      BY <1>14, Zenon DEF ResultConfirmed, Publisher!TakeConfirmation, Acked
    <2> QED BY <1>6, <1>14, <2>1, <2>2 DEF ResultConfirmed, Busy
  <1>15. ASSUME ResultRefused
         PROVE  K
    <2>1. Cleared /\ pc = "confirming"
      BY <1>15, TakeClears DEF ResultRefused, Publisher!TakeConfirmation, Waits
    <2> QED BY <1>5, <1>15, <2>1 DEF ResultRefused, HandsBack, Busy
  <1>16. ASSUME ResultTimesOut
         PROVE  K
    <2>1. Cleared /\ pc = "confirming"
      BY <1>2, <1>16, ClosedClears DEF ResultTimesOut, Waits
    <2> QED BY <1>5, <1>16, <2>1 DEF ResultTimesOut, HandsBack, Busy
  <1>17. ASSUME ConfirmForward
         PROVE  K
    <2>1. Cleared /\ pc = "forwarding"
      BY <1>17, TakeClears DEF ConfirmForward, Publisher!TakeConfirmation, Waits
    <2>2. (Acked(confirmations) /\ Ack) \/ NackRequeue
      BY <1>17, Zenon DEF ConfirmForward, Publisher!TakeConfirmation, Acked
    <2>3. UNCHANGED <<retryQueue, outcomes, publisherOpen>>
      BY <1>17 DEF ConfirmForward
    <2> QED BY <1>5, <1>6, <2>1, <2>2, <2>3 DEF HandsBack, Busy
  <1>18. ASSUME ForwardTimesOut
         PROVE  K
    <2>1. Cleared /\ pc = "forwarding"
      BY <1>2, <1>18, ClosedClears DEF ForwardTimesOut, Waits
    <2> QED BY <1>5, <1>18, <2>1 DEF ForwardTimesOut, HandsBack, Busy
  <1>19. ~ConsumeReturns
    BY <1>2 DEF ConsumeReturns
  <1>20. Running'
    BY <1>2, <1>4 DEF Running
  <1> HIDE DEF K
  <1>21. K
    BY <1>9, <1>10, <1>11, <1>12, <1>13, <1>14, <1>15, <1>16, <1>17, <1>18, <1>19
       DEF Consumes, Handles, HandleDelivery, HandleReleaseDelivery,
           OtherConsumerSteps
  <1> QED BY <1>20, <1>21 DEF K

(* The broker takes the one publication on the wire, which the consumer     *)
(* waits for: it stores the request and acknowledges it, or refuses it.     *)
LEMMA TakesPublicationKept ==
    ASSUME OperationsInv, Running, Paced, TakesPublication, UNCHANGED adminVars
    PROVE  Running' /\ Paced' /\ \A r : Kept(r) => Kept(r)'
  <1>1. /\ UNCHANGED <<held, adminConfirmations, pc, delivery, ctxDone,
                       consumerOpen, life>>
        /\ wire # << >>
    BY DEF TakesPublication, BrokerOnly, consumerVars, processVars, adminVars,
           adminChannelVars, BrokerAccepts, BrokerRefuses, Publisher!Accepts,
           Publisher!Refuses
  <1>2. /\ Waits /\ OneAtMost(wire) /\ confirmations = << >>
        /\ Head(wire).message.request = delivery.request
        /\ Head(wire).life = life
    BY <1>1 DEF Paced, Silent, Awaiting
  <1>3. wire' = << >>
    <2>1. wire' = Tail(wire)
      BY DEF TakesPublication, BrokerOnly, BrokerAccepts, BrokerRefuses,
             Publisher!Accepts, Publisher!Refuses
    <2> QED BY <1>1, <1>2, <2>1, TakeAlone
  <1>4. Waits' /\ Running'
    BY <1>1, <1>2 DEF Waits, Running
  <1>5. OneAtMost(confirmations') => Paced'
    BY <1>3, <1>4 DEF Paced, Awaiting, OneAtMost
  <1>6. CASE BrokerAccepts(life)
    <2>1. confirmations' = Append(<< >>, TRUE)
      BY <1>2, <1>6, Zenon DEF BrokerAccepts, Publisher!Accepts, Publisher!Confirm
    <2>2. OneAtMost(confirmations')
      BY <2>1, PutAlone, Zenon
    <2>3. Route(Head(wire)) /\ Head(wire) \in ServicePublications
      BY <1>1, <1>6, TakenFrom DEF BrokerAccepts, OperationsInv, MessagesTyped
    <2>4. \A r : Stored(r) \/ delivery.request = r => Stored(r)'
      BY <1>2, <2>3, RouteStores DEF Stored
    <2> QED BY <1>1, <1>4, <1>5, <2>2, <2>4 DEF Kept
  <1>7. CASE BrokerRefuses(life)
    <2>1. confirmations' = Append(<< >>, FALSE)
      BY <1>2, <1>7, Zenon DEF BrokerRefuses, Publisher!Refuses, Publisher!Confirm
    <2>2. OneAtMost(confirmations') /\ ~Acked(confirmations')
      BY <2>1, RefusalIsNoAck, Zenon
    <2>3. \A r : Stored(r) => Stored(r)'
      BY <1>7 DEF BrokerRefuses, queueVars, Stored
    <2> QED BY <1>1, <1>4, <1>5, <2>2, <2>3 DEF Kept
  <1> QED BY <1>6, <1>7 DEF TakesPublication, BrokerOnly

(* The other steps around the consumer do not disturb its pace.             *)
LEMMA SurroundingKept ==
    ASSUME OperationsInv, Running, Paced, UNCHANGED adminVars,
           RequeuesExpired \/ Environment \/ Shutdown \/ CloseConsumer,
           ~Use("shutdowns")
    PROVE  Running' /\ Paced' /\ \A r : Kept(r) => Kept(r)'
  <1> DEFINE K == Running' /\ Paced' /\ \A r : Kept(r) => Kept(r)'
  <1>1. UNCHANGED <<held, adminConfirmations>>
    BY DEF adminVars, adminChannelVars
  <1>2. ASSUME UNCHANGED <<pc, delivery, wire, confirmations, publisherOpen, life,
                           ctxDone, consumerOpen>>,
               \A r : Stored(r) => Stored(r)'
        PROVE  K
    BY <1>1, <1>2 DEF Running, Paced, Waits, Awaiting, Silent, Kept
  <1>3. ASSUME RequeuesExpired
        PROVE  K
    <2>1. PICK m \in DOMAIN retryQueue : RetryExpires(m)
      BY <1>3 DEF RequeuesExpired, BrokerOnly
    <2>2. /\ \A x \in DOMAIN retryQueue : x = m \/ x \in DOMAIN retryQueue'
          /\ \A x \in DOMAIN inbound : x \in DOMAIN inbound'
          /\ m \in DOMAIN inbound'
          /\ UNCHANGED <<dlq, outcomes, wire, confirmations, publisherOpen>>
      BY <2>1, BagElements DEF RetryExpires, channelVars
    <2>3. \A r : Stored(r) => Stored(r)'
      BY <2>2 DEF Stored
    <2>4. UNCHANGED <<pc, delivery, life, ctxDone, consumerOpen>>
      BY <1>3 DEF RequeuesExpired, BrokerOnly, consumerVars, processVars
    <2> QED BY <1>2, <2>2, <2>3, <2>4
  <1>4. ASSUME ClosesPublisher
        PROVE  K
    <2>1. /\ UNCHANGED <<queueVars, confirmations, pc, delivery, life, ctxDone,
                         consumerOpen>>
          /\ wire' = << >>
      BY <1>4 DEF ClosesPublisher, BrokerOnly, PublisherLost, Publisher!Lost,
                  consumerVars, processVars
    <2>2. Paced'
      BY <2>1 DEF Paced, Waits, Awaiting, Silent, OneAtMost
    <2> QED BY <1>1, <2>1, <2>2 DEF Running, Kept, Stored, queueVars
  <1>5. ASSUME NEW request \in Requests, Send(request)
        PROVE  K
    <2>1. /\ \A x \in DOMAIN inbound : x \in DOMAIN inbound'
          /\ UNCHANGED <<retryQueue, dlq, outcomes, wire, confirmations,
                         publisherOpen, pc, delivery, life, ctxDone, consumerOpen>>
      BY <1>5, BagElements DEF Send, channelVars, consumerVars, processVars
    <2>2. \A r : Stored(r) => Stored(r)'
      BY <2>1 DEF Stored
    <2> QED BY <1>2, <2>1, <2>2
  <1>6. ASSUME UNCHANGED <<messagingVars, consumerVars, ctxDone, consumerOpen, life>>
        PROVE  K
    <2>1. \A r : Stored(r) => Stored(r)'
      BY <1>6 DEF messagingVars, queueVars, Stored
    <2> QED BY <1>2, <1>6, <2>1 DEF messagingVars, channelVars, consumerVars
  <1>7. ASSUME NEW s \in SettingsUsed, SetFailureMode(s)
        PROVE  K
    BY <1>6, <1>7 DEF SetFailureMode
  <1>8. ASSUME NEW t \in SkuText, NEW level \in StockLevels, ChangeStock(t, level)
        PROVE  K
    BY <1>6, <1>8 DEF ChangeStock, processVars
  <1>9. ~ConsumerLost /\ ~CloseConsumer /\ ~Shutdown
    BY DEF ConsumerLost, CloseConsumer, Shutdown, Running, OperationsInv,
           ConsumerTyped
  <1> HIDE DEF K
  <1>10. K
    BY <1>3, <1>4, <1>5, <1>7, <1>8, <1>9 DEF Environment
  <1> QED BY <1>10 DEF K

(* The rest of the process does not disturb the pace of the admin, nor the  *)
(* admin that of the consumer.                                              *)
LEMMA PacesApart ==
    /\ AdminPaced /\ UNCHANGED adminVars /\ UNCHANGED life => AdminPaced'
    /\ Paced /\ Running /\ UNCHANGED beside => Paced' /\ Running'
  <1>1. ASSUME AdminPaced, UNCHANGED adminVars, UNCHANGED life
        PROVE  AdminPaced'
    <2>1. UNCHANGED <<call, held, adminWire, adminConfirmations, adminOpen, life>>
      BY <1>1 DEF adminVars, adminChannelVars
    <2> QED BY <1>1, <2>1 DEF AdminPaced, AdminWaits, Awaiting, Silent
  <1>2. ASSUME Paced, Running, UNCHANGED beside
        PROVE  Paced' /\ Running'
    <2>1. UNCHANGED <<pc, delivery, wire, confirmations, publisherOpen, life,
                      ctxDone, consumerOpen>>
      BY <1>2 DEF beside, channelVars, consumerVars, processVars
    <2> QED BY <1>2, <2>1 DEF Paced, Waits, Awaiting, Silent, Running
  <1> QED BY <1>1, <1>2

(* A crash loses both wires, but the broker has the delivery and the dead   *)
(* letter whose publications it had not acknowledged.                       *)
LEMMA CrashKept ==
    ASSUME OperationsInv, Running, ProcessEnds
    PROVE  Running' /\ Paced' /\ AdminPaced' /\ \A r : Kept(r) => Kept(r)'
  <1>1. StartAgain /\ AdminRestarts /\ wire' = << >> /\ adminWire' = << >>
    BY DEF ProcessEnds, Exit, Crash, Running
  <1>2. /\ pc' = "idle" /\ confirmations' = << >> /\ adminConfirmations' = << >>
        /\ inbound' = Redelivered /\ dlq' = Returned
        /\ UNCHANGED <<retryQueue, outcomes>>
    BY <1>1 DEF StartAgain, AdminRestarts
  <1>3. Running'
    BY <1>1 DEF StartAgain, Running
  <1>4. Paced'
    BY <1>1, <1>2 DEF Paced, Waits, Silent
  <1>5. ~AdminWaits'
    <2>1. HasReturned.pc = "returned"
      BY DEF HasReturned, NotCalled
    <2> QED BY <1>1, <2>1 DEF AdminRestarts, AdminWaits
  <1>6. AdminPaced'
    BY <1>1, <1>2, <1>5 DEF AdminPaced, Silent
  <1>7. /\ \A x \in DOMAIN inbound : x \in DOMAIN inbound'
        /\ delivery # NoDelivery => delivery \in DOMAIN inbound'
        /\ \A x \in DOMAIN dlq : x \in DOMAIN dlq'
        /\ held # NoDelivery => held \in DOMAIN dlq'
    BY <1>2, BagElements DEF Redelivered, Returned, Running
  <1>8. \A r : Kept(r) => Stored(r)'
    BY <1>2, <1>7 DEF Kept, Stored
  <1> QED BY <1>3, <1>4, <1>6, <1>8 DEF Kept

(* A call that is not waiting for a confirmation and does not begin to      *)
(* leaves the admin's pace alone.                                           *)
LEMMA CallsApart ==
    ASSUME OperationsInv, NEW c \in Callers,
           \/ TakesLock(c) \/ RequeueEnds(c) \/ StartScrape(c) \/ ClientGone(c)
           \/ \E q \in RequeueRequests : StartRequeue(c, q)
    PROVE  /\ UNCHANGED <<queueVars, held, adminChannelVars>>
           /\ AdminWaits' <=> AdminWaits
  <1>1. CallsTyped /\ call[c] \in CallRecords
    BY DEF OperationsInv, CallsTyped
  <1>2. /\ UNCHANGED <<queueVars, held, adminChannelVars>>
        /\ call[c].pc # "confirming"
    BY DEF TakesLock, Lock, DLQDepth, RequeueEnds, StartScrape, ClientGone,
           StartRequeue
  <1>3. HasReturned \in CallRecords /\ HasReturned.pc = "returned"
    BY DEF HasReturned, NotCalled, CallRecords
  <1>4. \E e : call' = [call EXCEPT ![c] = e] /\ e.pc # "confirming"
    <2>1. CASE Lock(c)
      <3> DEFINE e == [call[c] EXCEPT !.pc = "looping"]
      <3>1. e.pc # "confirming"
        BY <1>1 DEF CallRecords
      <3>2. call' = [call EXCEPT ![c] = e]
        BY <1>1, <2>1 DEF Lock, Step, CallsTyped
      <3> QED BY <3>1, <3>2
    <2>2. CASE RequeueEnds(c) \/ ClientGone(c)
      BY <1>3, <2>2 DEF RequeueEnds, ClientGone, Return
    <2>3. CASE StartScrape(c)
      <3> DEFINE e == [call[c] EXCEPT !.pc = "locking", !.op = "depth"]
      <3>1. e.pc # "confirming"
        BY <1>1 DEF CallRecords
      <3>2. call' = [call EXCEPT ![c] = e]
        BY <1>1, <2>3 DEF StartScrape, CallsTyped
      <3> QED BY <3>1, <3>2
    <2>4. CASE DLQDepth(c)
      <3> DEFINE e == [HasReturned EXCEPT !.op = "depth", !.depth =
                         DeclaredMessages("reservation_requests") +
                         DeclaredMessages("reservation_release_requests")]
      <3>1. e.pc # "confirming"
        BY <1>3 DEF CallRecords
      <3>2. call' = [call EXCEPT ![c] = e] \/ call' = [call EXCEPT ![c] = HasReturned]
        BY <2>4 DEF DLQDepth
      <3> HIDE DEF e
      <3> QED BY <1>3, <3>1, <3>2
    <2>5. ASSUME NEW q \in RequeueRequests, StartRequeue(c, q)
          PROVE  \E e : call' = [call EXCEPT ![c] = e] /\ e.pc # "confirming"
      <3> DEFINE e == [NotCalled EXCEPT !.pc = "locking", !.op = "requeue",
                                        !.queue = q.queue, !.limit = q.limit]
      <3>1. e.pc # "confirming"
        BY DEF NotCalled
      <3>2. call' = [call EXCEPT ![c] = e] \/ call' = [call EXCEPT ![c] = HasReturned]
        BY <2>5 DEF StartRequeue
      <3> HIDE DEF e
      <3> QED BY <1>3, <3>1, <3>2
    <2> QED BY <2>1, <2>2, <2>3, <2>4, <2>5 DEF TakesLock
  <1>5. \A d \in Callers : /\ d # c => call'[d] = call[d]
                           /\ call'[c].pc # "confirming"
    BY <1>1, <1>4 DEF CallsTyped
  <1> QED BY <1>2, <1>5 DEF AdminWaits

(* Every step of the admin keeps its pace and every request: a dead letter  *)
(* is acknowledged only when the broker has acknowledged its publication.   *)
LEMMA AdminKept ==
    ASSUME OperationsInv, AdminPaced, UNCHANGED beside,
           \/ \E c \in Callers : TakesLock(c) \/ CallSteps(c, life)
           \/ AdminChannelSteps(life)
           \/ AdminEnvironment,
           ~AdminFault("timeouts")
    PROVE  AdminPaced' /\ \A r : Kept(r) => Kept(r)'
  <1> DEFINE K == AdminPaced' /\ \A r : Kept(r) => Kept(r)'
  <1>1. UNCHANGED <<delivery, confirmations, life>>
    BY DEF beside, channelVars, consumerVars, processVars
  <1>2. CallsTyped /\ AdminTypeOK
    BY DEF OperationsInv
  <1>3. ASSUME NEW c \in Callers,
               \/ TakesLock(c) \/ RequeueEnds(c) \/ StartScrape(c) \/ ClientGone(c)
               \/ \E q \in RequeueRequests : StartRequeue(c, q)
        PROVE  K
    <2>1. /\ UNCHANGED <<queueVars, held, adminChannelVars>>
          /\ AdminWaits' <=> AdminWaits
      BY <1>3, CallsApart
    <2>2. UNCHANGED <<held, adminWire, adminConfirmations, adminOpen>>
      BY <2>1 DEF adminChannelVars
    <2>3. AdminPaced'
      BY <1>1, <2>1, <2>2 DEF AdminPaced, Awaiting, Silent
    <2>4. \A r : Stored(r) => Stored(r)'
      BY <2>1 DEF queueVars, Stored
    <2> QED BY <1>1, <2>2, <2>3, <2>4 DEF Kept
  <1>4. ASSUME NEW c \in Callers, NEW m \in DOMAIN dlq, RequeueOne(c, m, life)
        PROVE  K
    <2> DEFINE p == Publication("request", Message(m.request, 0), life)
    <2>1. p.message.request = m.request /\ p.life = life
      BY DEF Publication, Message
    <2>2. /\ call[c].pc = "looping" /\ held' = m
          /\ adminOpen /\ adminWire' = Append(adminWire, p)
          /\ UNCHANGED <<inbound, retryQueue, outcomes, adminConfirmations, adminOpen>>
          /\ Step(c, "confirming")
      BY <1>4 DEF RequeueOne, Admin!Publish
    <2> HIDE DEF p
    <2>3. ~AdminWaits
      BY <1>2, <2>2, AloneInLoop DEF AdminWaits
    <2>4. AdminWaits'
      BY <1>2, <2>2, CallMoves DEF MovesTo, AdminWaits
    <2>5. adminWire' = Append(<< >>, p) /\ adminConfirmations' = << >>
      BY <2>2, <2>3 DEF AdminPaced, Silent
    <2>6. OneAtMost(adminWire') /\ Head(adminWire') = p
      BY <2>5, PutAlone
    <2>7. AdminPaced'
      BY <1>1, <2>1, <2>2, <2>4, <2>5, <2>6 DEF AdminPaced, Awaiting, OneAtMost
    <2>8. held = NoDelivery /\ held' # NoDelivery
      <3>1. held = NoDelivery
        BY <1>2, <2>3 DEF AdminTypeOK, AdminWaits
      <3>2. m # NoDelivery
        BY NoDeliveryIsNoMessage DEF OperationsInv, MessagesTyped
      <3> QED BY <2>2, <3>1, <3>2
    <2>9. \A x \in DOMAIN dlq : x = m \/ x \in DOMAIN dlq'
      BY <1>4, BagElements DEF RequeueOne
    <2>10. \A r : Stored(r) => Stored(r)' \/ held'.request = r
      BY <2>2, <2>9 DEF Stored
    <2>11. ~Acked(adminConfirmations')
      BY <2>5, NoneIsNoAck
    <2> QED BY <1>1, <2>7, <2>8, <2>10, <2>11 DEF Kept
  <1>5. ASSUME NEW c \in Callers, call[c].pc = "confirming",
               adminConfirmations # << >>,
               adminConfirmations' = Tail(adminConfirmations)
        PROVE  adminWire = << >> /\ adminConfirmations' = << >>
    <2>1. AdminWaits
      BY <1>5 DEF AdminWaits
    <2> QED BY <1>5, <2>1, TakeAlone DEF AdminPaced, Awaiting
  <1>6. ASSUME NEW c \in Callers, call[c].pc = "confirming",
               NEW p \in {"looping", "returned"}, MovesTo(c, p),
               adminWire' = << >>, adminConfirmations' = << >>
        PROVE  AdminPaced'
    <2>1. \A d \in Callers \ {c} : call[d].pc \notin {"looping", "confirming"}
      BY <1>2, <1>6, AloneInLoop
    <2>2. ~AdminWaits'
      BY <1>6, <2>1 DEF MovesTo, AdminWaits
    <2> QED BY <1>6, <2>2 DEF AdminPaced, Silent
  <1>7. ASSUME NEW c \in Callers, Requeued(c)
        PROVE  K
    <2>1. /\ call[c].pc = "confirming" /\ held' = NoDelivery
          /\ UNCHANGED <<queueVars, adminWire>>
          /\ adminConfirmations # << >>
          /\ adminConfirmations' = Tail(adminConfirmations)
      BY <1>7 DEF Requeued, Admin!TakeConfirmation
    <2>2. Acked(adminConfirmations)
      BY <1>7, Zenon DEF Requeued, Admin!TakeConfirmation, Acked
    <2>3. MovesTo(c, "looping") \/ MovesTo(c, "returned")
      <3> DEFINE e == [call[c] EXCEPT !.pc = "looping",
                                      !.requeued = call[c].requeued + 1]
      <3>1. call[c] \in CallRecords
        BY <1>2 DEF CallsTyped
      <3>2. e \in CallRecords /\ e.pc = "looping"
        <4>1. call[c].requeued + 1 \in Int
          BY <3>1 DEF CallRecords
        <4> QED BY <3>1, <4>1 DEF CallRecords
      <3>3. call' = [call EXCEPT ![c] = e] \/ Return(c)
        BY <1>2, <1>7 DEF Requeued, CallsTyped
      <3> HIDE DEF e
      <3> QED BY <1>2, <3>2, <3>3, CallMoves
    <2>4. AdminPaced'
      BY <1>5, <1>6, <2>1, <2>3
    <2>5. \A r : Stored(r) => Stored(r)'
      BY <2>1 DEF queueVars, Stored
    <2> QED BY <1>1, <2>2, <2>4, <2>5 DEF Kept
  <1>8. ASSUME NEW c \in Callers, RequeueFails(c)
        PROVE  K
    <2>1. /\ call[c].pc = "confirming" /\ held' = NoDelivery /\ dlq' = Returned
          /\ UNCHANGED <<inbound, retryQueue, outcomes, adminWire>>
          /\ Return(c)
      BY <1>8 DEF RequeueFails
    <2>2. \/ /\ adminConfirmations # << >>
             /\ adminConfirmations' = Tail(adminConfirmations)
          \/ /\ ~adminOpen /\ adminConfirmations = << >>
             /\ UNCHANGED adminConfirmations
      BY <1>8 DEF RequeueFails, Admin!TakeConfirmation, Admin!GiveUp, AdminFault
    <2>3. adminWire = << >> /\ adminConfirmations' = << >>
      <3>1. AdminWaits
        BY <2>1 DEF AdminWaits
      <3> QED BY <1>5, <2>1, <2>2, <3>1 DEF AdminPaced, Awaiting
    <2>4. AdminPaced'
      <3>1. MovesTo(c, "returned")
        BY <1>2, <2>1, CallMoves
      <3> QED BY <1>6, <2>1, <2>3, <3>1
    <2>5. /\ \A x \in DOMAIN dlq : x \in DOMAIN dlq'
          /\ held # NoDelivery => held \in DOMAIN dlq'
      BY <2>1, BagElements DEF Returned
    <2>6. \A r : Stored(r) \/ (held # NoDelivery /\ held.request = r) => Stored(r)'
      BY <2>1, <2>5 DEF Stored
    <2> QED BY <1>1, <2>4, <2>6 DEF Kept
  <1>9. ASSUME AdminLost
        PROVE  K
    <2>1. /\ held' = NoDelivery /\ dlq' = Returned /\ adminWire' = << >>
          /\ UNCHANGED <<inbound, retryQueue, outcomes, call, adminConfirmations>>
      BY <1>9 DEF AdminLost, Admin!Lost
    <2>2. AdminPaced'
      BY <2>1 DEF AdminPaced, AdminWaits, Awaiting, Silent, OneAtMost
    <2>3. /\ \A x \in DOMAIN dlq : x \in DOMAIN dlq'
          /\ held # NoDelivery => held \in DOMAIN dlq'
      BY <2>1, BagElements DEF Returned
    <2>4. \A r : Stored(r) \/ (held # NoDelivery /\ held.request = r) => Stored(r)'
      BY <2>1, <2>3 DEF Stored
    <2> QED BY <1>1, <2>2, <2>4 DEF Kept
  <1>10. ASSUME AdminChannelSteps(life)
         PROVE  K
    <2>1. /\ adminWire # << >> /\ adminWire' = Tail(adminWire)
          /\ UNCHANGED <<call, held, adminOpen>>
      BY <1>10 DEF AdminChannelSteps, AdminAccepts, AdminRefuses, Admin!Accepts,
                   Admin!Refuses
    <2>2. /\ AdminWaits /\ OneAtMost(adminWire) /\ adminConfirmations = << >>
          /\ Head(adminWire).message.request = held.request
          /\ Head(adminWire).life = life
      BY <2>1 DEF AdminPaced, Silent, Awaiting
    <2>3. adminWire' = << >>
      BY <2>1, <2>2, TakeAlone
    <2>4. OneAtMost(adminConfirmations') => AdminPaced'
      BY <2>1, <2>2, <2>3 DEF AdminPaced, AdminWaits, Awaiting, OneAtMost
    <2>5. CASE AdminAccepts(life)
      <3>1. adminConfirmations' = Append(<< >>, TRUE)
        BY <2>2, <2>5, Zenon DEF AdminAccepts, Admin!Accepts, Admin!Confirm
      <3>2. OneAtMost(adminConfirmations')
        BY <3>1, PutAlone, Zenon
      <3>3. Route(Head(adminWire)) /\ Head(adminWire) \in AdminPublications
        BY <2>1, <2>5, TakenFrom DEF AdminAccepts, OperationsInv, MessagesTyped
      <3>4. \A r : Stored(r) \/ held.request = r => Stored(r)'
        BY <2>2, <3>3, RouteStores DEF Stored
      <3> QED BY <1>1, <2>1, <2>4, <3>2, <3>4 DEF Kept
    <2>6. CASE AdminRefuses(life)
      <3>1. adminConfirmations' = Append(<< >>, FALSE)
        BY <2>2, <2>6, Zenon DEF AdminRefuses, Admin!Refuses, Admin!Confirm
      <3>2. OneAtMost(adminConfirmations') /\ ~Acked(adminConfirmations')
        BY <3>1, RefusalIsNoAck, Zenon
      <3>3. \A r : Stored(r) => Stored(r)'
        BY <2>6 DEF AdminRefuses, queueVars, Stored
      <3> QED BY <1>1, <2>1, <2>4, <3>2, <3>3 DEF Kept
    <2> QED BY <1>10, <2>5, <2>6 DEF AdminChannelSteps
  <1> HIDE DEF K
  <1>11. K
    BY <1>3, <1>4, <1>7, <1>8, <1>9, <1>10 DEF CallSteps, AdminEnvironment
  <1> QED BY <1>11 DEF K

-----------------------------------------------------------------------------
(* As long as no wait is given up, every step keeps every request.          *)
LEMMA KeptStep ==
    ASSUME OperationsInv, OutcomesInv, FaultsTyped, KeptInv,
           [OperationsNext]_operationsVars
    PROVE  KeptInv'
  <1> SUFFICES ASSUME NoGiveUps'
               PROVE  /\ Running' /\ Paced' /\ AdminPaced'
                      /\ \A r \in DOMAIN requested' : Kept(r)'
    BY DEF KeptInv
  <1>1. /\ ~Fault("timeouts") /\ ~AdminFault("timeouts") /\ ~Use("shutdowns")
        /\ Running /\ Paced /\ AdminPaced
        /\ \A r \in DOMAIN requested : Kept(r)
    BY FaultsStep DEF KeptInv
  <1>2. SUFFICES /\ Running' /\ Paced' /\ AdminPaced'
                 /\ \A r : Kept(r) => Kept(r)'
    BY <1>1, RequestedStep DEF Kept
  <1>3. CASE ProcessEnds
    BY <1>1, <1>3, CrashKept
  <1>4. CASE ServiceSteps /\ UNCHANGED adminVars /\ ~ProcessEnds
    <2>1. AdminPaced'
      BY <1>1, <1>4, LifeStep, PacesApart
    <2>2. CASE Consumes
      BY <1>1, <1>4, <2>1, <2>2, ConsumerKept
    <2>3. CASE TakesPublication
      BY <1>1, <1>4, <2>1, <2>3, TakesPublicationKept
    <2>4. CASE RequeuesExpired \/ Environment \/ Shutdown \/ CloseConsumer
      BY <1>1, <1>4, <2>1, <2>4, SurroundingKept
    <2> QED BY <1>4, <2>2, <2>3, <2>4 DEF ServiceSteps
  <1>5. CASE /\ \/ \E c \in Callers : TakesLock(c) \/ CallSteps(c, life)
                \/ AdminChannelSteps(life)
                \/ AdminEnvironment
             /\ UNCHANGED beside
    BY <1>1, <1>5, AdminKept, PacesApart
  <1>6. CASE UNCHANGED operationsVars
    <2>1. UNCHANGED <<beside, adminVars, life>>
      BY <1>6 DEF operationsVars, serviceVars, messagingVars, processVars, beside
    <2>2. UNCHANGED <<queueVars, delivery, confirmations, held, adminConfirmations>>
      BY <1>6 DEF operationsVars, serviceVars, messagingVars, channelVars,
                  consumerVars, adminVars, adminChannelVars
    <2>3. \A r : Kept(r) => Kept(r)'
      BY <2>2 DEF queueVars, Kept, Stored
    <2> QED BY <1>1, <2>1, <2>3, PacesApart
  <1> QED BY <1>3, <1>4, <1>5, <1>6 DEF OperationsNext, AdminSteps, AdminBroker

(* Both channels are silent when the process starts.                        *)
LEMMA KeptStart ==
    ASSUME OperationsInit
    PROVE  KeptInv
  <1>1. /\ wire = << >> /\ confirmations = << >>
        /\ adminWire = << >> /\ adminConfirmations = << >>
        /\ pc = "idle" /\ call = [c \in Callers |-> NotCalled]
    BY DEF OperationsInit, Init, MessagingInit, Publisher!ChannelInit, AdminInit,
           Admin!ChannelInit
  <1>2. Running
    BY DEF OperationsInit, Init, Running
  <1>3. ~Waits /\ ~AdminWaits
    BY <1>1 DEF Waits, AdminWaits, NotCalled
  <1> QED BY <1>1, <1>2, <1>3, DeliveryStart DEF KeptInv, Paced, AdminPaced, Silent

(* Requests are kept throughout as long as no wait is given up.             *)
THEOREM KeptInductive == OperationsSpec => []KeptInv
  <1>1. OperationsInit => KeptInv
    BY KeptStart
  <1>2. OperationsInv /\ OutcomesInv /\ FaultsTyped /\ KeptInv
           /\ [OperationsNext]_operationsVars => KeptInv'
    BY KeptStep
  <1> QED BY <1>1, <1>2, OutcomesInductive, SafeInductive, PTL DEF OperationsSpec

(* No request is lost to the consumer or the admin: until it is answered it *)
(* is in a queue, being handled, held as a dead letter or on its way.  This *)
(* holds whatever is late, as long as nothing is dropped, and it holds      *)
(* whatever is dropped, process crashes included, as long as no wait for a  *)
(* confirmation is given up.  What the code does not survive is one after   *)
(* the other: a wait that was given up and a later publication dropped.     *)
THEOREM NothingLostHolds ==
    OperationsSpec => [](NothingDropped \/ NoGiveUps => NothingLost)
  <1>1. SafeInv => (NothingDropped => NothingLost)
    BY DEF SafeInv, Safe, OnTheWay, Stored, NothingLost, InSystem, Answered
  <1>2. KeptInv => (NoGiveUps => NothingLost)
    BY DEF KeptInv, Kept, Stored, Running, NothingLost, InSystem, Answered
  <1> QED BY <1>1, <1>2, SafeInductive, KeptInductive, PTL

(* The admin has no dead letter and nothing on its wire.                    *)
AdminIdle == held = NoDelivery /\ adminWire = << >>

(* Then the service alone accounts for every request that was sent.         *)
THEOREM NoRequestLostHolds ==
    OperationsSpec =>
        []((NothingDropped \/ NoGiveUps) /\ AdminIdle => NoRequestLost)
  <1>1. AdminIdle => OnAdminWire = {}
    BY DEF AdminIdle, OnAdminWire
  <1>2. SafeInv => (NothingDropped /\ AdminIdle => NoRequestLost)
    BY <1>1 DEF SafeInv, Safe, OnTheWay, Stored, NoRequestLost, InSystem, Answered
  <1>3. KeptInv => (NoGiveUps /\ AdminIdle => NoRequestLost)
    BY DEF AdminIdle, KeptInv, Kept, Stored, Running, NoRequestLost, InSystem,
           Answered
  <1> QED BY <1>2, <1>3, SafeInductive, KeptInductive, PTL
=============================================================================
