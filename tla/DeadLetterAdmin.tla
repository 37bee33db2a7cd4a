-------------------------- MODULE DeadLetterAdmin --------------------------
(***************************************************************************)
(* Admin of internal/messaging/rabbitmq: HTTP requests that requeue dead   *)
(* letters and metrics scrapes that ask for the depth of the DLQ share one *)
(* AMQP channel under one mutex.  pc of a caller is the place where its    *)
(* goroutine waits.                                                        *)
(*   new         not called yet                                            *)
(*   locking     waiting for the mutex                                     *)
(*   looping     holds it, at the head of the loop                         *)
(*   confirming  holds it and a dead letter, which it has published        *)
(*   returned    the call has returned                                     *)
(***************************************************************************)
EXTENDS Messaging, FiniteSets

CONSTANTS
    Callers,            \* HTTP requests that reach the admin
    RequeueRequests,    \* bodies of POST /debug/dlq/requeue: queue and limit
    MaxRequeueLimit,    \* maxRequeueLimit
    MaxAdminTimeouts,   \* bounds on the faults of the admin's channel; a
                        \* client that goes away ends a wait like a timeout
    MaxAdminRejects,
    MaxAdminLosses,
    Nobody              \* a model value: the mutex is free

ASSUME AdminAssumption == Nobody \notin Callers

VARIABLES
    call,                 \* what each caller asked for and how far it is
    mutex,                \* Admin.mu: the caller that holds it
    held,                 \* the dead letter got and not acknowledged
    adminWire,            \* the admin's channel
    adminConfirmations,
    adminOpen,
    adminFaults

Admin == INSTANCE ConfirmChannel WITH
    wire <- adminWire, confirmations <- adminConfirmations,
    open <- adminOpen, faults <- adminFaults, MaxTimeouts <- MaxAdminTimeouts,
    MaxRejects <- MaxAdminRejects, MaxLosses <- MaxAdminLosses

adminChannelVars == <<adminWire, adminConfirmations, adminOpen, adminFaults>>
adminVars == <<call, mutex, held, adminChannelVars>>

NotCalled == [pc |-> "new", op |-> "none", queue |-> "none", limit |-> 0,
              requeued |-> 0, depth |-> 0]
HasReturned == [NotCalled EXCEPT !.pc = "returned"]

AdminInit ==
    /\ call = [c \in Callers |-> NotCalled]
    /\ mutex = Nobody
    /\ held = NoDelivery
    /\ Admin!ChannelInit

-----------------------------------------------------------------------------
(* deadLetterConfig: which dead letters a queue name stands for. *)
DeadLetterConfig(queue) ==
    CASE queue = "reservation_requests" -> "reserve"
      [] queue = "reservation_release_requests" -> "release"
      [] OTHER -> "unknown"

ValidRequeue(r) ==
    /\ DeadLetterConfig(r.queue) # "unknown"
    /\ r.limit > 0 /\ r.limit <= MaxRequeueLimit

DeadLettersOf(queue) ==
    {m \in DOMAIN dlq : m.request.kind = DeadLetterConfig(queue)}

Step(c, pc) == call' = [call EXCEPT ![c].pc = pc]

(* RequeueDeadLetters unlocks when it returns, with an error or not.  The   *)
(* variant returns without unlocking.                                       *)
ReturnLocked(c) ==
    /\ call' = [call EXCEPT ![c] = HasReturned]
    /\ UNCHANGED mutex

Return(c) ==
    /\ call' = [call EXCEPT ![c] = HasReturned]
    /\ mutex' = Nobody

(* handleRequeueDeadLetters, and RequeueDeadLetters up to the mutex. *)
StartRequeue(c, r) ==
    /\ call[c].pc = "new"
    /\ call' = [call EXCEPT ![c] =
          IF ValidRequeue(r)
          THEN [NotCalled EXCEPT !.pc = "locking", !.op = "requeue",
                                 !.queue = r.queue, !.limit = r.limit]
          ELSE HasReturned]
    /\ UNCHANGED <<queueVars, mutex, held, adminChannelVars>>

(* Collect, which reads the repository and then waits for the mutex. *)
StartScrape(c) ==
    /\ call[c].pc = "new"
    /\ call' = [call EXCEPT ![c].pc = "locking", ![c].op = "depth"]
    /\ UNCHANGED <<queueVars, mutex, held, adminChannelVars>>

(* A variant that does not wait for the mutex. *)
LockAnyway(c) ==
    /\ call[c].pc = "locking" /\ call[c].op = "requeue"
    /\ mutex' = c
    /\ Step(c, "looping")
    /\ UNCHANGED <<queueVars, held, adminChannelVars>>

Lock(c) ==
    /\ call[c].pc = "locking" /\ call[c].op = "requeue"
    /\ mutex = Nobody
    /\ mutex' = c
    /\ Step(c, "looping")
    /\ UNCHANGED <<queueVars, held, adminChannelVars>>

(* QueueDeclare is called with noWait: no reply is awaited and the number   *)
(* of messages it returns is 0.                                             *)
DeclaredMessages(queue) == 0

(* DLQDepth, with its result or with an error when the scrape has taken too *)
(* long or the channel is closed.  Nothing in it waits but the mutex.       *)
DLQDepth(c) ==
    /\ call[c].pc = "locking" /\ call[c].op = "depth"
    /\ mutex = Nobody
    /\ \/ /\ adminOpen
          /\ call' = [call EXCEPT ![c] = [HasReturned EXCEPT
                !.op = "depth",
                !.depth = DeclaredMessages("reservation_requests") +
                          DeclaredMessages("reservation_release_requests")]]
       \/ call' = [call EXCEPT ![c] = HasReturned]
    /\ UNCHANGED <<queueVars, mutex, held, adminChannelVars>>

-----------------------------------------------------------------------------
(* One round of the loop: nothing more to do, ... *)
LimitReached(c) == call[c].requeued >= call[c].limit

RequeueEnds(c) ==
    /\ call[c].pc = "looping"
    /\ \/ LimitReached(c)
       \/ ~adminOpen
       \/ Admin!Responsive /\ DeadLettersOf(call[c].queue) = {}
    /\ Return(c)
    /\ UNCHANGED <<queueVars, held, adminChannelVars>>

(* ... the client has gone away, ... *)
ClientGone(c) ==
    /\ call[c].pc = "looping"
    /\ Return(c)
    /\ UNCHANGED <<queueVars, held, adminChannelVars>>

(* ... or a dead letter is got and published with retry_count 0.  The       *)
(* variant does not wait for the confirmation.                              *)
RequeueOneUnconfirmed(c, m, life) ==
    /\ call[c].pc = "looping"
    /\ ~LimitReached(c)
    /\ Admin!Responsive
    /\ m \in DeadLettersOf(call[c].queue)
    /\ Admin!Publish(Publication("request", Message(m.request, 0), life))
    /\ dlq' = BagRemove(dlq, m)
    /\ call' = [call EXCEPT ![c].requeued = @ + 1]
    /\ UNCHANGED <<inbound, retryQueue, outcomes, held, mutex, adminConfirmations,
                   adminOpen, adminFaults>>

RequeueOne(c, m, life) ==
    /\ call[c].pc = "looping"
    /\ ~LimitReached(c)
    /\ Admin!Responsive
    /\ m \in DeadLettersOf(call[c].queue)
    /\ Admin!Publish(Publication("request", Message(m.request, 0), life))
    /\ dlq' = BagRemove(dlq, m)
    /\ held' = m
    /\ Step(c, "confirming")
    /\ UNCHANGED <<inbound, retryQueue, outcomes, mutex, adminConfirmations,
                   adminOpen, adminFaults>>

(* The DLQ once the held dead letter is back; the variant acknowledges it   *)
(* although it was not requeued.                                            *)
NotReturned == dlq

Returned == IF held = NoDelivery THEN dlq ELSE BagAdd(dlq, held)

(* The publication is confirmed and the dead letter acknowledged; without a *)
(* connection that fails, and the broker has the dead letter back already.  *)
(* The variant leaves it unacknowledged.                                    *)
RequeuedUnacked(c) ==
    /\ call[c].pc = "confirming"
    /\ Admin!TakeConfirmation(TRUE)
    /\ call' = [call EXCEPT ![c].pc = "looping", ![c].requeued = @ + 1]
    /\ dlq' = Returned
    /\ held' = NoDelivery
    /\ UNCHANGED <<inbound, retryQueue, outcomes, mutex, adminWire, adminOpen,
                   adminFaults>>

Requeued(c) ==
    /\ call[c].pc = "confirming"
    /\ Admin!TakeConfirmation(TRUE)
    /\ held' = NoDelivery
    /\ \/ /\ adminOpen
          /\ call' = [call EXCEPT ![c].pc = "looping", ![c].requeued = @ + 1]
          /\ UNCHANGED mutex
       \/ ~adminOpen /\ Return(c)
    /\ UNCHANGED <<queueVars, adminWire, adminOpen, adminFaults>>

(* It is refused or late, the client has gone away or the channel is        *)
(* closed: nack with requeue.                                               *)
RequeueFails(c) ==
    /\ call[c].pc = "confirming"
    /\ \/ Admin!TakeConfirmation(FALSE) /\ UNCHANGED adminFaults
       \/ Admin!GiveUp(FALSE)
    /\ dlq' = Returned
    /\ held' = NoDelivery
    /\ Return(c)
    /\ UNCHANGED <<inbound, retryQueue, outcomes, adminWire, adminOpen>>

-----------------------------------------------------------------------------
AdminAccepts(life) ==
    /\ Admin!Accepts(life)
    /\ Route(Head(adminWire))
    /\ UNCHANGED <<call, mutex, held>>

AdminRefuses(life) ==
    /\ Admin!Refuses(life)
    /\ UNCHANGED <<queueVars, call, mutex, held>>

(* The broker takes back the dead letter that was not acknowledged. *)
AdminLost ==
    /\ Admin!Lost
    /\ dlq' = Returned
    /\ held' = NoDelivery
    /\ UNCHANGED <<inbound, retryQueue, outcomes, call, mutex>>

(* The process ends: calls fail, a new process has a new admin. *)
AdminRestarts ==
    /\ dlq' = Returned
    /\ held' = NoDelivery
    /\ mutex' = Nobody
    /\ call' = [c \in Callers |->
                  IF call[c].pc \in {"new", "returned"} THEN call[c]
                  ELSE HasReturned]
    /\ adminConfirmations' = <<>>
    /\ adminOpen' = TRUE
    /\ UNCHANGED adminFaults

(* What the goroutine of a call does next. *)
CallSteps(c, life) ==
    \/ RequeueEnds(c)
    \/ \E m \in DOMAIN dlq : RequeueOne(c, m, life)
    \/ Requeued(c)
    \/ RequeueFails(c)

TakesLock(c) == Lock(c) \/ DLQDepth(c)

AdminChannelSteps(life) == AdminAccepts(life) \/ AdminRefuses(life)

AdminEnvironment ==
    \/ \E c \in Callers, r \in RequeueRequests : StartRequeue(c, r)
    \/ \E c \in Callers : StartScrape(c) \/ ClientGone(c)
    \/ AdminLost

-----------------------------------------------------------------------------
(* Type correctness and the discipline of the mutex: exactly the caller     *)
(* that holds it is in the loop, and a dead letter is held only by a caller *)
(* that waits for its confirmation, as long as the connection is there.     *)
AdminTypeOK ==
    /\ \A c \in Callers :
          /\ call[c].pc \in {"new", "locking", "looping", "confirming", "returned"}
          /\ (mutex = c) <=> (call[c].pc \in {"looping", "confirming"})
    /\ mutex \in Callers \cup {Nobody}
    /\ (held # NoDelivery) <=>
          /\ adminOpen
          /\ \E c \in Callers : call[c].pc = "confirming"
=============================================================================
