----------------------------- MODULE Operations -----------------------------
(***************************************************************************)
(* The whole process: the service of ErpService with the dead-letter admin *)
(* and the counters of internal/observability that the consumer            *)
(* increments.  Admin and consumer are goroutines of one process and meet  *)
(* in the broker's queues.                                                 *)
(***************************************************************************)
EXTENDS ErpService, DeadLetterAdmin

CONSTANTS
    MaxCount   \* where the model's counters stop, so that they stay finite

ASSUME OperationsAssumption == MaxCount \in Nat

VARIABLES
    counters   \* Metrics: hits, and processed messages by decision

operationsVars == <<serviceVars, adminVars, counters>>

(* What an admin step leaves alone. *)
beside == <<handlerVars, channelVars, faults, consumerVars, processVars,
            requested, used, counters>>

NoCounts == [name \in Decisions \cup {"hits"} |-> 0]

OperationsInit == Init /\ AdminInit /\ counters = NoCounts

Increment(name) ==
    [counters EXCEPT ![name] = IF @ < MaxCount THEN @ + 1 ELSE @]

(* IncrementIdempotencyHit, as soon as a handler has answered from a store. *)
(* The variant leaves hits uncounted.                                       *)
CountNoHit == UNCHANGED counters

CountHit ==
    counters' = IF reply'.hit THEN Increment("hits") ELSE counters

(* ObserveProcessed and the counter of the decision, once the outcome is    *)
(* confirmed.                                                               *)
CountProcessed == counters' = Increment(reply.result.decision)

-----------------------------------------------------------------------------
Consumes ==
    \/ Handles /\ CountHit
    \/ ResultConfirmed /\ CountProcessed
    \/ OtherConsumerSteps /\ UNCHANGED counters

ServiceSteps ==
    \/ Consumes
    \/ /\ TakesPublication \/ RequeuesExpired \/ Environment \/ Shutdown
          \/ CloseConsumer
       /\ UNCHANGED counters

(* Close of the admin needs a reply, too. *)
ProcessEnds ==
    /\ \/ Exit /\ Admin!Responsive /\ UNCHANGED adminWire
       \/ Crash /\ adminWire' = <<>>
    /\ AdminRestarts
    /\ counters' = NoCounts

AdminSteps(c) == (TakesLock(c) \/ CallSteps(c, life)) /\ UNCHANGED beside

AdminBroker == AdminChannelSteps(life) /\ UNCHANGED beside

OperationsNext ==
    \/ ServiceSteps /\ UNCHANGED adminVars
    \/ ProcessEnds
    \/ \E c \in Callers : AdminSteps(c)
    \/ AdminBroker
    \/ AdminEnvironment /\ UNCHANGED beside

OperationsSpec == OperationsInit /\ [][OperationsNext]_operationsVars

(* What ErpService!FairSpec assumes of the consumer and the broker.         *)
FairService ==
    /\ OperationsSpec
    /\ WF_operationsVars(Consumes /\ UNCHANGED adminVars)
    /\ WF_operationsVars(TakesPublication /\ UNCHANGED <<adminVars, counters>>)
    /\ WF_operationsVars(RequeuesExpired /\ UNCHANGED <<adminVars, counters>>)

(* What is assumed of the admin: the goroutine of a call runs, sync.Mutex   *)
(* starves nobody who waits for it, and the broker takes what the admin     *)
(* sends.                                                                   *)
FairOperations ==
    /\ OperationsSpec
    /\ WF_operationsVars(AdminBroker)
    /\ \A c \in Callers :
          /\ WF_operationsVars(CallSteps(c, life) /\ UNCHANGED beside)
          /\ SF_operationsVars(TakesLock(c) /\ UNCHANGED beside)

-----------------------------------------------------------------------------
OnAdminWire == {adminWire[i].message : i \in DOMAIN adminWire}

(* The messages of a queue one by one, equal ones numbered, and how many    *)
(* there are.                                                               *)
Items(queue) == UNION {{m} \X (1..queue[m]) : m \in DOMAIN queue}
Depth(queue) == Cardinality(Items(queue))

(* Type correctness of the composition. *)
OperationsTypeOK ==
    /\ ServiceTypeOK
    /\ AdminTypeOK
    /\ counters \in [Decisions \cup {"hits"} -> 0..MaxCount]

(* No request is lost to the admin either: until it is answered it is in a  *)
(* queue, being handled, held as a dead letter or on its way.  A message    *)
(* that is rejected is no exception: the documentation calls it discarded   *)
(* (RejectedAreDiscarded), the topology puts it into the DLQ.               *)
NothingLost ==
    \A request \in DOMAIN requested :
        \/ InSystem(request)
        \/ Answered(request)
        \/ held.request = request
        \/ \E m \in OnAdminWire : m.request = request

Undisturbed ==
    /\ faults = Publisher!NoFaults /\ adminFaults = Admin!NoFaults
    /\ used.shutdowns = 0 /\ used.crashes = 0

(* How many messages of a request there are: in a queue, on a wire, in the  *)
(* consumer's hands, and altogether.  A delivery or dead letter that waits  *)
(* for a confirmation is not counted, the publication made of it is.        *)
CopiesQueued(request, queue) ==
    Cardinality({t \in Items(queue) : t[1].request = request})

CopiesSent(request, sent) ==
    Cardinality({i \in DOMAIN sent : sent[i].message.request = request})

CopiesInHand(request) ==
    IF /\ consumerOpen /\ pc \in {"handling", "publishing"}
       /\ delivery.request = request
    THEN 1 ELSE 0

Copies(request) ==
    CopiesQueued(request, inbound) + CopiesQueued(request, retryQueue)
    + CopiesQueued(request, dlq) + CopiesQueued(request, outcomes)
    + CopiesSent(request, wire) + CopiesSent(request, adminWire)
    + CopiesInHand(request)

TimesSent(request) ==
    IF BagIn(request, requested) THEN requested[request] ELSE 0

AnswersOnce == \A s \in SettingsUsed : s.mode # "duplicate_response"

(* Retrying, dead-lettering and requeueing move a message and never copy    *)
(* it: as long as no publication is given up and nothing fails, and unless  *)
(* the failure mode asks for two answers, each message the market has sent  *)
(* is in exactly one place, as a request or as the outcome that answers it. *)
MessagesAreMoved ==
    Undisturbed /\ AnswersOnce =>
        \A request \in Requests :
            Copies(request) = TimesSent(request)

(* What the market was told and what the counters say of it: every decision *)
(* that was counted is with the broker or on its way there, as an outcome   *)
(* that was published after the counters started at 0, ...                  *)
OfThisLife(outcome, d) == outcome.life = life /\ outcome.decision = d

Taken(d) == {t \in Items(outcomes) : OfThisLife(t[1], d)}

Sent(d) ==
    {i \in DOMAIN wire :
       wire[i].route = "outcome" /\ OfThisLife(wire[i].message, d)}

CountedIsPublished ==
    \A d \in Decisions :
        counters[d] <= Cardinality(Taken(d)) + Cardinality(Sent(d))

(* ... and beyond the idempotency hits no more reservations are counted as  *)
(* confirmed or released than the repository holds.                         *)
CountersBacked ==
    counters["confirmed"] + counters["released"] <=
        counters["hits"] + Cardinality(DOMAIN reservations) +
        Cardinality({r \in DOMAIN reservations :
                        reservations[r].status = "released"})

(* The channel of the admin's confirmations has room for one.  As long as   *)
(* at most one requeue was given up, whoever holds the mutex and is about   *)
(* to Get a dead letter is answered: no confirmation blocks the client's    *)
(* reader.                                                                  *)
GetIsAnswered ==
    \A c \in Callers :
        call[c].pc = "looping" /\ adminFaults.timeouts <= 1 => Admin!Responsive

(* A requeue or scrape that was started returns, however the consumer       *)
(* refills the queue meanwhile, unless two confirmations that nobody waits  *)
(* for have come to block the admin's channel.                              *)
CallsReturn ==
    \A c \in Callers :
        call[c].pc = "locking" ~>
            \/ call[c].pc = "returned"
            \/ ~Admin!Responsive

(* docs/integration-flow.md: "DLQ depth is exported".  A scrape that does   *)
(* not fail returns the number of messages in the dead-letter queues.       *)
DepthIsReported ==
    [][\A c \in Callers :
          /\ call[c].op = "depth" /\ call[c].pc = "locking"
          /\ call'[c].op = "depth" /\ call'[c].pc = "returned"
          => call'[c].depth = Depth(dlq)]_operationsVars
=============================================================================
