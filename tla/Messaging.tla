----------------------------- MODULE Messaging -----------------------------
(***************************************************************************)
(* RabbitMQ as the service uses it, and the publisher's channel.           *)
(*                                                                         *)
(* The broker is external.  Its topology is the one Consumer declares: an  *)
(* inbound queue whose dead-letter exchange leads to the DLQ, a retry      *)
(* queue whose TTL leads back to the inbound queue, and an exchange for    *)
(* outcomes.  Queues are bags: redelivery, retry and the two inbound       *)
(* queues leave no order a consumer could rely on.                         *)
(***************************************************************************)
EXTENDS Naturals, Sequences, Bags

CONSTANTS
    MaxTimeouts,   \* bounds on the faults of the publisher's channel
    MaxRejects,
    MaxLosses

VARIABLES
    inbound,         \* the two request queues
    retryQueue,      \* the two retry queues
    dlq,             \* the two dead-letter queues
    outcomes,        \* what the outcome exchange has taken
    wire,            \* the publisher's channel
    confirmations,
    publisherOpen,
    faults

Publisher == INSTANCE ConfirmChannel WITH open <- publisherOpen

(* One more message in a queue, and one less. *)
Ext == INSTANCE BagsExt
BagAdd(queue, m) == Ext!BagAdd(queue, m)
BagRemove(queue, m) == Ext!BagRemove(queue, m)

queueVars == <<inbound, retryQueue, dlq, outcomes>>
channelVars == <<wire, confirmations, publisherOpen>>
messagingVars == <<queueVars, channelVars, faults>>

MessagingInit ==
    /\ inbound = EmptyBag
    /\ retryQueue = EmptyBag
    /\ dlq = EmptyBag
    /\ outcomes = EmptyBag
    /\ Publisher!ChannelInit

-----------------------------------------------------------------------------
(* A request as it lies in a queue, with the retry_count of its header, and *)
(* how it came into the DLQ if it is there.                                 *)
Message(request, retry) == [request |-> request, retry |-> retry]
DeadLetter(m, cause) ==
    [request |-> m.request, retry |-> m.retry, cause |-> cause]

NoDelivery == [request |-> [kind |-> "none"], retry |-> 0]

(* A publication names where exchange and routing key lead it and the       *)
(* process life it is sent in.                                              *)
Publication(route, message, life) ==
    [route |-> route, message |-> message, life |-> life]

Route(publication) ==
    LET m == publication.message
        Added(queue, route) ==
            IF publication.route = route THEN BagAdd(queue, m) ELSE queue
    IN  /\ inbound' = Added(inbound, "request")
        /\ retryQueue' = Added(retryQueue, "retry")
        /\ dlq' = Added(dlq, "dead_letter")
        /\ outcomes' = Added(outcomes, "outcome")

BrokerAccepts(life) == Publisher!Accepts(life) /\ Route(Head(wire))

BrokerRefuses(life) == Publisher!Refuses(life) /\ UNCHANGED queueVars

(* The TTL of a retry queue: back to the inbound queue. *)
RetryExpires(m) ==
    /\ BagIn(m, retryQueue)
    /\ retryQueue' = BagRemove(retryQueue, m)
    /\ inbound' = BagAdd(inbound, m)
    /\ UNCHANGED <<dlq, outcomes, channelVars, faults>>

PublisherLost == Publisher!Lost /\ UNCHANGED queueVars
=============================================================================
