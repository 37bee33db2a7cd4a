-------------------------- MODULE AccountingProofs --------------------------
(***************************************************************************)
(* Proofs that messages are accounted for one by one.  A message that is   *)
(* retried, dead-lettered or requeued is moved: the steps between the      *)
(* publication of the copy and the acknowledgement of the original do not  *)
(* multiply it.  No more confirmations of the admin are unread than waits  *)
(* were given up.  And each decision that was counted has an outcome of    *)
(* its own, published by the same process.                                 *)
(***************************************************************************)
EXTENDS DeliveryProofs

(* While nothing is given up, what is on the wire is what the consumer put  *)
(* there last.                                                              *)
OwnOnWire ==
    wire # << >> =>
        \/ /\ pc = "confirming"
           /\ Head(wire) = Publication("outcome", Outcome(reply.result), life)
        \/ pc = "forwarding" /\ Head(wire) = Forwarded(delivery)

OwnInv == NoGiveUps => OwnOnWire

(* Nothing was refused on this channel.                                     *)
OnlyAcks(confirmed) == confirmed # << >> => Acked(confirmed)

(* Without any fault both connections are there and nothing was refused.    *)
Unfaulted ==
    /\ publisherOpen /\ adminOpen
    /\ OnlyAcks(confirmations) /\ OnlyAcks(adminConfirmations)

(* Unless two answers were asked for, one is published.                     *)
SingleInv == AnswersOnce => failureMode # "duplicate_response" /\ copies <= 1

(* As long as nothing is dropped each message that was sent is somewhere,   *)
(* in one place of its own, and as long as nothing is given up either, in   *)
(* no other.                                                                *)
MovedInv ==
    /\ Undisturbed => Unfaulted
    /\ NothingDropped => \A r \in Requests : TimesSent(r) <= Copies(r)
    /\ Undisturbed /\ AnswersOnce =>
          \A r \in Requests : Copies(r) = TimesSent(r)

(* The decision the consumer waits to count.                                *)
Pending(d) == pc = "confirming" /\ reply.result.decision = d

(* The decision is published, for all the consumer can tell: it is on the   *)
(* wire, or the next confirmation is an ack.                                *)
Backed(d) == Pending(d) /\ (wire # << >> \/ Acked(confirmations))

Published(d) == Cardinality(Taken(d)) + Cardinality(Sent(d))

(* Each count has an outcome of its own, and another one is there for the   *)
(* count to come.                                                           *)
CountedInv ==
    \A d \in Decisions :
        /\ NothingDropped \/ NoGiveUps => counters[d] <= Published(d)
        /\ NothingDropped /\ Pending(d) => counters[d] < Published(d)
        /\ NoGiveUps /\ Backed(d) => counters[d] < Published(d)

(* The queues are bags of finitely many messages.                           *)
IsQueue(queue) ==
    /\ IsFiniteSet(Items(queue))
    /\ \A m \in DOMAIN queue : queue[m] \in Nat \ {0}

QueuesTyped ==
    /\ IsQueue(inbound) /\ IsQueue(retryQueue) /\ IsQueue(dlq) /\ IsQueue(outcomes)
    /\ IsQueue(requested)

-----------------------------------------------------------------------------
(* The items of a queue.                                                    *)
LEMMA ItemsAre ==
    ASSUME NEW queue
    PROVE  \A t : t \in Items(queue) <=>
              \E m \in DOMAIN queue : \E n \in 1..queue[m] : t = <<m, n>>
  BY DEF Items

(* Putting a message into a queue adds one item, ...                        *)
LEMMA ItemAdded ==
    ASSUME NEW queue, IsQueue(queue), NEW x
    PROVE  /\ IsQueue(BagAdd(queue, x))
           /\ \E t : /\ t \notin Items(queue) /\ t[1] = x
                     /\ Items(BagAdd(queue, x)) = Items(queue) \cup {t}
  <1> DEFINE after == BagAdd(queue, x)
  <1> DEFINE n == IF x \in DOMAIN queue THEN queue[x] + 1 ELSE 1
  <1>1. /\ DOMAIN after = DOMAIN queue \cup {x}
        /\ after[x] = n
        /\ \A m \in DOMAIN queue \ {x} : after[m] = queue[m]
    BY DEF BagAdd, Ext!BagAdd
  <1>2. /\ \A m \in DOMAIN queue : queue[m] \in Nat \ {0}
        /\ IsFiniteSet(Items(queue))
    BY DEF IsQueue
  <1>3. n \in Nat \ {0}
    BY <1>2
  <1>4. 1..n = (IF x \in DOMAIN queue THEN 1..queue[x] ELSE {}) \cup {n}
    BY <1>2
  <1>5. x \in DOMAIN queue => n \notin 1..queue[x]
    BY <1>2
  <1> HIDE DEF after, n
  <1>6. Items(after) = Items(queue) \cup {<<x, n>>}
    <2>1. \A t : t \in Items(after) => t \in Items(queue) \/ t = <<x, n>>
      <3> SUFFICES ASSUME NEW m \in DOMAIN after, NEW k \in 1..after[m]
                   PROVE  <<m, k>> \in Items(queue) \/ <<m, k>> = <<x, n>>
        BY ItemsAre
      <3>1. CASE m = x
        BY <1>1, <1>4, <3>1, ItemsAre
      <3>2. CASE m # x
        BY <1>1, <3>2, ItemsAre
      <3> QED BY <3>1, <3>2
    <2>2. \A t : t \in Items(queue) => t \in Items(after)
      <3> SUFFICES ASSUME NEW m \in DOMAIN queue, NEW k \in 1..queue[m]
                   PROVE  <<m, k>> \in Items(after)
        BY ItemsAre
      <3>1. m \in DOMAIN after /\ k \in 1..after[m]
        BY <1>1, <1>4
      <3> QED BY <3>1, ItemsAre
    <2>3. <<x, n>> \in Items(after)
      BY <1>1, <1>4, ItemsAre
    <2> QED BY <2>1, <2>2, <2>3
  <1>7. <<x, n>> \notin Items(queue) /\ <<x, n>>[1] = x
    BY <1>5, ItemsAre
  <1>8. IsQueue(after)
    <2>1. IsFiniteSet(Items(after))
      BY <1>2, <1>6, FS_AddElement
    <2> QED BY <1>1, <1>2, <1>3, <2>1 DEF IsQueue
  <1> QED BY <1>6, <1>7, <1>8 DEF after

(* ... and taking one out removes one.                                      *)
LEMMA ItemRemoved ==
    ASSUME NEW queue, IsQueue(queue), NEW x \in DOMAIN queue
    PROVE  /\ IsQueue(BagRemove(queue, x))
           /\ \E t \in Items(queue) :
                 t[1] = x /\ Items(BagRemove(queue, x)) = Items(queue) \ {t}
  <1> DEFINE after == BagRemove(queue, x)
  <1> DEFINE n == queue[x]
  <1>1. /\ \A m \in DOMAIN queue : queue[m] \in Nat \ {0}
        /\ IsFiniteSet(Items(queue))
    BY DEF IsQueue
  <1>2. /\ \A m : m # x => (m \in DOMAIN after <=> m \in DOMAIN queue)
        /\ \A m \in DOMAIN queue \ {x} : after[m] = queue[m]
        /\ x \in DOMAIN after <=> n # 1
        /\ n # 1 => after[x] = n - 1
    BY DEF BagRemove, Ext!BagRemove
  <1>3. n \in Nat \ {0} /\ n \in 1..n
    BY <1>1
  <1>4. \A k : (x \in DOMAIN after /\ k \in 1..after[x]) <=> (k \in 1..n /\ k # n)
    BY <1>2, <1>3
  <1> HIDE DEF after, n
  <1>5. \A m : m # x =>
           ((m \in DOMAIN after /\ after[m] = queue[m]) <=> m \in DOMAIN queue)
    BY <1>2
  <1>6. Items(after) = Items(queue) \ {<<x, n>>}
    <2>1. \A m, k : <<m, k>> \in Items(after) <=>
                       <<m, k>> \in Items(queue) /\ <<m, k>> # <<x, n>>
      <3> TAKE m, k
      <3>1. /\ <<m, k>> \in Items(after) <=> m \in DOMAIN after /\ k \in 1..after[m]
            /\ <<m, k>> \in Items(queue) <=> m \in DOMAIN queue /\ k \in 1..queue[m]
        BY ItemsAre
      <3>2. CASE m = x
        BY <1>4, <3>1, <3>2 DEF n
      <3>3. CASE m # x
        BY <1>2, <1>5, <3>1, <3>3
      <3> QED BY <3>2, <3>3
    <2>2. \A t : t \in Items(after) \/ t \in Items(queue) => \E m, k : t = <<m, k>>
      BY ItemsAre
    <2> QED BY <2>1, <2>2
  <1>7. <<x, n>> \in Items(queue)
    BY <1>3, ItemsAre DEF n
  <1>8. IsQueue(after)
    <2>1. IsFiniteSet(Items(after))
      <3>1. \A t : IsFiniteSet(Items(queue) \ {t})
        BY <1>1, FS_RemoveElement
      <3> QED BY <1>6, <3>1
    <2>2. x \in DOMAIN after => after[x] \in Nat \ {0}
      BY <1>2, <1>3
    <2>3. \A m \in DOMAIN after : after[m] \in Nat \ {0}
      BY <1>1, <1>2, <2>2
    <2> QED BY <2>1, <2>3 DEF IsQueue
  <1> QED BY <1>6, <1>7, <1>8 DEF after

(* One for a message of the request, none for another.                      *)
Of(r, m) == IF m.request = r THEN 1 ELSE 0

(* So that a queue has one message of its request more or less.             *)
LEMMA QueuedCopies ==
    ASSUME NEW queue, IsQueue(queue), NEW r
    PROVE  /\ CopiesQueued(r, queue) \in Nat
           /\ \A x : CopiesQueued(r, BagAdd(queue, x))
                        = CopiesQueued(r, queue) + Of(r, x)
           /\ \A x \in DOMAIN queue :
                 CopiesQueued(r, BagRemove(queue, x))
                    = CopiesQueued(r, queue) - Of(r, x)
  <1> DEFINE C(q) == {t \in Items(q) : t[1].request = r}
  <1>1. IsFiniteSet(C(queue))
    BY FS_Subset DEF IsQueue
  <1>2. Cardinality(C(queue)) \in Nat
    BY <1>1, FS_CardinalityType
  <1>3. ASSUME NEW x
        PROVE  Cardinality(C(BagAdd(queue, x))) = Cardinality(C(queue)) + Of(r, x)
    <2>1. PICK t : /\ t \notin Items(queue) /\ t[1] = x
                   /\ Items(BagAdd(queue, x)) = Items(queue) \cup {t}
      BY ItemAdded
    <2>2. CASE x.request = r
      <3>1. C(BagAdd(queue, x)) = C(queue) \cup {t} /\ t \notin C(queue)
        BY <2>1, <2>2
      <3> QED BY <1>1, <2>2, <3>1, FS_AddElement DEF Of
    <2>3. CASE x.request # r
      <3>1. C(BagAdd(queue, x)) = C(queue)
        BY <2>1, <2>3
      <3>2. Of(r, x) = 0
        BY <2>3 DEF Of
      <3> HIDE DEF C
      <3> QED BY <1>2, <3>1, <3>2
    <2> QED BY <2>2, <2>3
  <1>4. ASSUME NEW x \in DOMAIN queue
        PROVE  Cardinality(C(BagRemove(queue, x))) = Cardinality(C(queue)) - Of(r, x)
    <2>1. PICK t \in Items(queue) :
             t[1] = x /\ Items(BagRemove(queue, x)) = Items(queue) \ {t}
      BY ItemRemoved
    <2>2. CASE x.request = r
      <3>1. C(BagRemove(queue, x)) = C(queue) \ {t} /\ t \in C(queue)
        BY <2>1, <2>2
      <3> QED BY <1>1, <2>2, <3>1, FS_RemoveElement DEF Of
    <2>3. CASE x.request # r
      <3>1. C(BagRemove(queue, x)) = C(queue)
        BY <2>1, <2>3
      <3>2. Of(r, x) = 0
        BY <2>3 DEF Of
      <3> HIDE DEF C
      <3> QED BY <1>2, <3>1, <3>2
    <2> QED BY <2>2, <2>3
  <1> QED BY <1>2, <1>3, <1>4 DEF CopiesQueued

(* A queue that is empty.                                                   *)
LEMMA EmptyQueue == IsQueue(EmptyBag) /\ \A r : CopiesQueued(r, EmptyBag) = 0
  <1>1. DOMAIN EmptyBag = {}
    BY DEF EmptyBag, SetToBag
  <1>2. Items(EmptyBag) = {}
    BY <1>1 DEF Items
  <1>3. \A r : {t \in Items(EmptyBag) : t[1].request = r} = {}
    BY <1>2
  <1> QED BY <1>1, <1>2, <1>3, FS_EmptySet DEF IsQueue, CopiesQueued

-----------------------------------------------------------------------------
(* Where on a wire the publications of a set are.                           *)
Places(w, P) == {i \in DOMAIN w : w[i] \in P}

(* There are finitely many.                                                 *)
LEMMA PlacesFinite ==
    ASSUME NEW S, NEW w \in Seq(S), NEW P
    PROVE  IsFiniteSet(Places(w, P)) /\ Cardinality(Places(w, P)) \in Nat
  <1>1. Places(w, P) \subseteq 1..Len(w) /\ Len(w) \in Nat
    BY DEF Places
  <1>2. IsFiniteSet(1..Len(w))
    BY <1>1, FS_Interval
  <1>3. IsFiniteSet(Places(w, P))
    BY <1>1, <1>2, FS_Subset
  <1> QED BY <1>3, FS_CardinalityType

(* A publication takes a place of its own at the end, ...                   *)
LEMMA PlacesAppend ==
    ASSUME NEW S, NEW w \in Seq(S), NEW p \in S, NEW P
    PROVE  /\ p \in P => Cardinality(Places(Append(w, p), P))
                            = Cardinality(Places(w, P)) + 1
           /\ p \notin P => Places(Append(w, p), P) = Places(w, P)
  <1> DEFINE n == Len(w) + 1
  <1> DEFINE v == Append(w, p)
  <1>1. /\ DOMAIN v = DOMAIN w \cup {n} /\ n \notin DOMAIN w
        /\ v[n] = p /\ \A i \in DOMAIN w : v[i] = w[i]
    OBVIOUS
  <1> HIDE DEF n, v
  <1>2. p \in P => Places(v, P) = Places(w, P) \cup {n} /\ n \notin Places(w, P)
    BY <1>1 DEF Places
  <1>3. p \notin P => Places(v, P) = Places(w, P)
    BY <1>1 DEF Places
  <1>4. p \in P => Cardinality(Places(v, P)) = Cardinality(Places(w, P)) + 1
    BY <1>2, PlacesFinite, FS_AddElement
  <1> QED BY <1>3, <1>4 DEF v

(* ... and the first leaves its place when the others move up.              *)
LEMMA PlacesTail ==
    ASSUME NEW S, NEW w \in Seq(S), w # << >>, NEW P
    PROVE  /\ Head(w) \in P => Cardinality(Places(Tail(w), P))
                                  = Cardinality(Places(w, P)) - 1
           /\ Head(w) \notin P => Cardinality(Places(Tail(w), P))
                                     = Cardinality(Places(w, P))
  <1> DEFINE A == Places(Tail(w), P)
  <1> DEFINE B == Places(w, P) \ {1}
  <1> DEFINE f == [i \in A |-> i + 1]
  <1>1. /\ Len(w) \in Nat \ {0} /\ DOMAIN w = 1..Len(w)
        /\ DOMAIN Tail(w) = 1..(Len(w) - 1) /\ Tail(w) \in Seq(S)
        /\ \A i \in DOMAIN Tail(w) : Tail(w)[i] = w[i + 1]
        /\ Head(w) = w[1]
    OBVIOUS
  <1>2. \A i : i \in A <=> i \in 1..(Len(w) - 1) /\ w[i + 1] \in P
    BY <1>1 DEF Places
  <1>3. \A i : i \in B <=> i \in 1..Len(w) /\ i # 1 /\ w[i] \in P
    BY <1>1 DEF Places
  <1> HIDE DEF A, B
  <1>4. f \in Bijection(A, B)
    <2>1. \A i \in A : i \in Nat /\ i + 1 \in B
      BY <1>1, <1>2, <1>3
    <2>2. f \in Injection(A, B)
      BY <2>1 DEF Injection, IsInjective
    <2>3. \A j \in B : j - 1 \in A /\ f[j - 1] = j
      BY <1>1, <1>2, <1>3
    <2>4. f \in Surjection(A, B)
      BY <2>1, <2>3 DEF Surjection
    <2> QED BY <2>2, <2>4 DEF Bijection
  <1>5. IsFiniteSet(A)
    BY <1>1, PlacesFinite DEF A
  <1>6. Cardinality(B) = Cardinality(A)
    BY <1>4, <1>5, FS_Bijection DEF ExistsBijection
  <1>7. 1 \in Places(w, P) <=> Head(w) \in P
    BY <1>1 DEF Places
  <1>8. IsFiniteSet(Places(w, P)) /\ Cardinality(Places(w, P)) \in Nat
    BY PlacesFinite
  <1>9. Cardinality(B) = IF 1 \in Places(w, P) THEN Cardinality(Places(w, P)) - 1
                         ELSE Cardinality(Places(w, P))
    BY <1>8, FS_RemoveElement DEF B
  <1> QED BY <1>6, <1>7, <1>9 DEF A

(* So that the wire carries one message of its request more or less.        *)
LEMMA SentCopies ==
    ASSUME NEW S, NEW w \in Seq(S), NEW r
    PROVE  /\ CopiesSent(r, w) \in Nat
           /\ \A p \in S : CopiesSent(r, Append(w, p))
                              = CopiesSent(r, w) + Of(r, p.message)
           /\ w # << >> => CopiesSent(r, Tail(w))
                              = CopiesSent(r, w) - Of(r, Head(w).message)
  <1> DEFINE P == {p \in S : p.message.request = r}
  <1>1. ASSUME NEW v \in Seq(S)
        PROVE  CopiesSent(r, v) = Cardinality(Places(v, P))
    <2>1. \A i \in DOMAIN v : v[i] \in S
      OBVIOUS
    <2>2. {i \in DOMAIN v : v[i].message.request = r} = Places(v, P)
      BY <2>1 DEF Places
    <2> QED BY <2>2 DEF CopiesSent
  <1>2. Cardinality(Places(w, P)) \in Nat
    BY PlacesFinite
  <1>3. ASSUME NEW p \in S
        PROVE  CopiesSent(r, Append(w, p)) = CopiesSent(r, w) + Of(r, p.message)
    <2>1. Append(w, p) \in Seq(S) /\ (p \in P <=> p.message.request = r)
      OBVIOUS
    <2> HIDE DEF P
    <2>2. /\ p \in P => Cardinality(Places(Append(w, p), P))
                           = Cardinality(Places(w, P)) + 1
          /\ p \notin P => Places(Append(w, p), P) = Places(w, P)
      BY PlacesAppend
    <2>3. /\ CopiesSent(r, w) = Cardinality(Places(w, P))
          /\ CopiesSent(r, Append(w, p)) = Cardinality(Places(Append(w, p), P))
      BY <1>1, <2>1
    <2>4. CASE p \in P
      BY <1>2, <2>1, <2>2, <2>3, <2>4 DEF Of
    <2>5. CASE p \notin P
      <3>1. Of(r, p.message) = 0
        BY <2>1, <2>5 DEF Of
      <3> QED BY <1>2, <2>2, <2>3, <2>5, <3>1
    <2> QED BY <2>4, <2>5
  <1>4. ASSUME w # << >>
        PROVE  CopiesSent(r, Tail(w)) = CopiesSent(r, w) - Of(r, Head(w).message)
    <2>1. /\ Tail(w) \in Seq(S) /\ Head(w) \in S
          /\ Head(w) \in P <=> Head(w).message.request = r
      BY <1>4
    <2> HIDE DEF P
    <2>2. /\ Head(w) \in P => Cardinality(Places(Tail(w), P))
                                 = Cardinality(Places(w, P)) - 1
          /\ Head(w) \notin P => Cardinality(Places(Tail(w), P))
                                    = Cardinality(Places(w, P))
      BY <1>4, PlacesTail
    <2>3. /\ CopiesSent(r, w) = Cardinality(Places(w, P))
          /\ CopiesSent(r, Tail(w)) = Cardinality(Places(Tail(w), P))
      BY <1>1, <2>1
    <2>4. CASE Head(w) \in P
      BY <1>2, <2>1, <2>2, <2>3, <2>4 DEF Of
    <2>5. CASE Head(w) \notin P
      <3>1. Of(r, Head(w).message) = 0
        BY <2>1, <2>5 DEF Of
      <3> QED BY <1>2, <2>2, <2>3, <2>5, <3>1
    <2> QED BY <2>4, <2>5
  <1> QED BY <1>1, <1>2, <1>3, <1>4

-----------------------------------------------------------------------------
(* One message at a time enters or leaves a queue.                          *)
Shifted(queue, after) ==
    \/ after = queue
    \/ \E x : after = BagAdd(queue, x)
    \/ \E x \in DOMAIN queue : after = BagRemove(queue, x)

QueuesShift ==
    /\ Shifted(inbound, inbound') /\ Shifted(retryQueue, retryQueue')
    /\ Shifted(dlq, dlq') /\ Shifted(outcomes, outcomes')

(* That is so however a delivery ends.                                      *)
LEMMA EndingShifts ==
    ASSUME Ending, UNCHANGED <<retryQueue, outcomes>>
    PROVE  QueuesShift
  BY DEF Ending, Ack, NackReject, NackRequeue, RetryOrDeadLetter, QueuesShift,
         Shifted

(* What the broker takes it puts into one queue.                            *)
LEMMA RouteShifts ==
    ASSUME NEW p, Route(p)
    PROVE  QueuesShift
  BY DEF Route, QueuesShift, Shifted

(* And it is so of every step.                                              *)
LEMMA StepShifts ==
    ASSUME [OperationsNext]_operationsVars
    PROVE  QueuesShift
  <1>1. ASSUME UNCHANGED queueVars
        PROVE  QueuesShift
    BY <1>1 DEF queueVars, QueuesShift, Shifted
  <1>2. ASSUME Handles
        PROVE  QueuesShift
    <2>1. UNCHANGED <<inbound, dlq, retryQueue, outcomes>>
          \/ (Ending /\ UNCHANGED <<retryQueue, outcomes>>)
      BY <1>2 DEF Handles, HandleDelivery, HandleReleaseDelivery, AfterHandler,
                  Ending
    <2> QED BY <1>1, <2>1, EndingShifts DEF queueVars
  <1>3. ASSUME ResultConfirmed
        PROVE  QueuesShift
    BY <1>3, EndingShifts DEF ResultConfirmed, Ending
  <1>4. ASSUME OtherConsumerSteps
        PROVE  QueuesShift
    <2>1. ASSUME NEW m \in DOMAIN inbound, ReceiveInvalid(m) \/ Receive(m)
          PROVE  QueuesShift
      BY <2>1 DEF ReceiveInvalid, Receive, QueuesShift, Shifted
    <2>2. ASSUME PublishResult \/ FirstCopyConfirmed \/ ResultRefused
                    \/ ResultTimesOut \/ ConfirmForward \/ ForwardTimesOut
          PROVE  QueuesShift
      <3>1. UNCHANGED <<inbound, dlq, retryQueue, outcomes>>
            \/ (Ending /\ UNCHANGED <<retryQueue, outcomes>>)
        BY <2>2 DEF PublishResult, FirstCopyConfirmed, ResultRefused,
                    ResultTimesOut, ConfirmForward, ForwardTimesOut, Ending
      <3> QED BY <1>1, <3>1, EndingShifts DEF queueVars
    <2>3. ASSUME ConsumeReturns
          PROVE  QueuesShift
      BY <1>1, <2>3 DEF ConsumeReturns, messagingVars
    <2> QED BY <1>4, <2>1, <2>2, <2>3 DEF OtherConsumerSteps
  <1>5. ASSUME TakesPublication
        PROVE  QueuesShift
    BY <1>1, <1>5, RouteShifts DEF TakesPublication, BrokerOnly, BrokerAccepts,
                                   BrokerRefuses
  <1>6. ASSUME RequeuesExpired
        PROVE  QueuesShift
    BY <1>6 DEF RequeuesExpired, BrokerOnly, RetryExpires, QueuesShift, Shifted
  <1>7. ASSUME ConsumerConnectionEnds
        PROVE  QueuesShift
    BY <1>7 DEF ConsumerConnectionEnds, Redelivered, QueuesShift, Shifted
  <1>8. ASSUME Environment \/ Shutdown \/ CloseConsumer
        PROVE  QueuesShift
    <2>1. ASSUME NEW request \in Requests, Send(request)
          PROVE  QueuesShift
      BY <2>1 DEF Send, QueuesShift, Shifted
    <2>2. \/ UNCHANGED queueVars \/ ConsumerConnectionEnds
          \/ \E request \in Requests : Send(request)
      BY <1>8 DEF Environment, ClosesPublisher, BrokerOnly, PublisherLost,
                  SetFailureMode, ChangeStock, ConsumerLost, Shutdown,
                  CloseConsumer, messagingVars
    <2> QED BY <1>1, <1>7, <2>1, <2>2
  <1>9. ASSUME ProcessEnds
        PROVE  QueuesShift
    BY <1>9 DEF ProcessEnds, Exit, Crash, StartAgain, AdminRestarts, Redelivered,
                Returned, QueuesShift, Shifted
  <1>10. ASSUME NEW c \in Callers, TakesLock(c) \/ CallSteps(c, life)
         PROVE  QueuesShift
    <2>1. ASSUME NEW m \in DOMAIN dlq, RequeueOne(c, m, life)
          PROVE  QueuesShift
      BY <2>1 DEF RequeueOne, QueuesShift, Shifted
    <2>2. ASSUME RequeueFails(c)
          PROVE  QueuesShift
      BY <2>2 DEF RequeueFails, Returned, QueuesShift, Shifted
    <2>3. ASSUME TakesLock(c) \/ RequeueEnds(c) \/ Requeued(c)
          PROVE  QueuesShift
      BY <1>1, <2>3 DEF TakesLock, Lock, DLQDepth, RequeueEnds, Requeued
    <2> QED BY <1>10, <2>1, <2>2, <2>3 DEF CallSteps
  <1>11. ASSUME AdminChannelSteps(life) \/ AdminEnvironment
         PROVE  QueuesShift
    <2>1. ASSUME AdminLost
          PROVE  QueuesShift
      BY <2>1 DEF AdminLost, Returned, QueuesShift, Shifted
    <2> QED BY <1>1, <1>11, <2>1, RouteShifts
            DEF AdminChannelSteps, AdminAccepts, AdminRefuses, AdminEnvironment,
                StartRequeue, StartScrape, ClientGone
  <1>12. ASSUME UNCHANGED operationsVars
         PROVE  QueuesShift
    BY <1>1, <1>12 DEF operationsVars, serviceVars, messagingVars
  <1> QED BY <1>2, <1>3, <1>4, <1>5, <1>6, <1>8, <1>9, <1>10, <1>11, <1>12
          DEF OperationsNext, ServiceSteps, Consumes, AdminSteps, AdminBroker

(* The queues stay finite.                                                  *)
LEMMA QueuesStep ==
    ASSUME QueuesTyped, [OperationsNext]_operationsVars
    PROVE  QueuesTyped'
  <1>1. \A queue, after : IsQueue(queue) /\ Shifted(queue, after) => IsQueue(after)
    BY ItemAdded, ItemRemoved DEF Shifted
  <1>2. Shifted(requested, requested')
    BY OnlyTheMarketSends DEF Send, Shifted
  <1> QED BY <1>1, <1>2, StepShifts DEF QueuesTyped, QueuesShift

(* They are empty at first.                                                 *)
LEMMA QueuesStart == OperationsInit => QueuesTyped
  BY EmptyQueue DEF OperationsInit, Init, MessagingInit, QueuesTyped

-----------------------------------------------------------------------------
(* The consumer publishes the outcome it has, ...                           *)
PublishesOutcome ==
    /\ Publisher!Publish(Publication("outcome", Outcome(reply.result), life))
    /\ pc \in {"publishing", "confirming"} /\ pc' = "confirming"
    /\ UNCHANGED <<delivery, reply>>

(* ... or forwards its delivery.                                            *)
PublishesForward ==
    /\ Publisher!Publish(Forwarded(delivery))
    /\ pc \in Busy /\ pc' = "forwarding"
    /\ UNCHANGED delivery

(* What a step of the consumer puts on the wire, if it does: an outcome, of *)
(* which it then waits to count the decision, or its delivery.              *)
LEMMA ConsumerOnWire ==
    ASSUME Consumes
    PROVE  /\ UNCHANGED life
           /\ \/ UNCHANGED wire /\ pc' \notin {"confirming", "forwarding"}
              \/ PublishesOutcome
              \/ PublishesForward
  <1> DEFINE W == /\ UNCHANGED life
                  /\ \/ UNCHANGED wire /\ pc' \notin {"confirming", "forwarding"}
                     \/ PublishesOutcome
                     \/ PublishesForward
  <1>1. ASSUME Ack \/ NackReject \/ NackRequeue
        PROVE  UNCHANGED wire /\ pc' \notin {"confirming", "forwarding"}
    BY <1>1 DEF Ack, NackReject, NackRequeue, NextDelivery
  <1>2. ASSUME RetryOrDeadLetter, pc \in Busy
        PROVE  \/ UNCHANGED wire /\ pc' \notin {"confirming", "forwarding"}
               \/ PublishesForward
    BY <1>1, <1>2 DEF RetryOrDeadLetter, PublishesForward
  <1>3. ASSUME Handles
        PROVE  W
    <2>1. AfterHandler /\ pc \in Busy
      BY <1>3 DEF Handles, HandleDelivery, HandleReleaseDelivery, Busy
    <2> QED BY <1>1, <1>2, <2>1 DEF AfterHandler, processVars
  <1>4. ASSUME ResultConfirmed
        PROVE  W
    BY <1>1, <1>4 DEF ResultConfirmed, processVars
  <1>5. ASSUME NEW m \in DOMAIN inbound, ReceiveInvalid(m) \/ Receive(m)
        PROVE  W
    BY <1>5 DEF ReceiveInvalid, Receive, channelVars, consumerVars, processVars
  <1>6. ASSUME PublishResult \/ FirstCopyConfirmed
        PROVE  W
    <2>1. pc \in Busy
      BY <1>6 DEF PublishResult, FirstCopyConfirmed, Busy
    <2> QED BY <1>2, <1>6, <2>1 DEF PublishResult, FirstCopyConfirmed,
                                    PublishesOutcome, handlerVars, processVars
  <1>7. ASSUME ResultRefused \/ ResultTimesOut
        PROVE  W
    <2>1. pc \in Busy
      BY <1>7 DEF ResultRefused, ResultTimesOut, Busy
    <2> QED BY <1>2, <1>7, <2>1 DEF ResultRefused, ResultTimesOut, processVars
  <1>8. ASSUME ConfirmForward \/ ForwardTimesOut
        PROVE  W
    BY <1>1, <1>8 DEF ConfirmForward, ForwardTimesOut, processVars
  <1>9. ASSUME ConsumeReturns
        PROVE  W
    BY <1>9 DEF ConsumeReturns, messagingVars, channelVars, processVars
  <1> HIDE DEF W
  <1>10. W
    BY <1>3, <1>4, <1>5, <1>6, <1>7, <1>8, <1>9 DEF Consumes, OtherConsumerSteps
  <1> QED BY <1>10 DEF W

(* While nothing is given up the consumer only goes on when the broker has  *)
(* taken what it published, or the connection was lost.                     *)
LEMMA ConsumerOnClearWire ==
    ASSUME Running, Paced, Consumes, ~Fault("timeouts")
    PROVE  wire = << >>
  <1>1. ASSUME ~Waits
        PROVE  wire = << >>
    BY <1>1 DEF Paced, Silent
  <1>2. ASSUME Waits
        PROVE  wire = << >>
    <2>1. \/ /\ confirmations # << >>
             /\ confirmations' = Tail(confirmations)
          \/ Publisher!GiveUp(ctxDone)
      BY <1>2 DEF Consumes, Handles, HandleDelivery, HandleReleaseDelivery,
                  ResultConfirmed, OtherConsumerSteps, ReceiveInvalid, Receive,
                  PublishResult, FirstCopyConfirmed, ResultRefused,
                  ResultTimesOut, ConfirmForward, ForwardTimesOut,
                  ConsumeReturns, Publisher!TakeConfirmation, Waits
    <2>2. Cleared
      BY <1>2, <2>1, TakeClears, ClosedClears DEF Running
    <2> QED BY <2>2 DEF Cleared
  <1> QED BY <1>1, <1>2

(* What the steps around the consumer do to its wire.                       *)
LEMMA SurroundingOnWire ==
    ASSUME TakesPublication \/ RequeuesExpired \/ Environment \/ Shutdown
              \/ CloseConsumer
    PROVE  /\ UNCHANGED <<pc, delivery, life, reply>>
           /\ \/ UNCHANGED wire
              \/ TakesPublication /\ wire # << >> /\ wire' = Tail(wire)
              \/ ClosesPublisher /\ wire' = << >>
  <1>1. CASE TakesPublication
    BY <1>1 DEF TakesPublication, BrokerOnly, BrokerAccepts, BrokerRefuses,
                Publisher!Accepts, Publisher!Refuses, consumerVars, processVars,
                handlerVars
  <1>2. CASE RequeuesExpired \/ Shutdown \/ CloseConsumer
    BY <1>2 DEF RequeuesExpired, BrokerOnly, RetryExpires, Shutdown, CloseConsumer,
                ConsumerConnectionEnds, messagingVars, channelVars, consumerVars,
                processVars, handlerVars
  <1>3. CASE Environment
    BY <1>3 DEF Environment, ClosesPublisher, BrokerOnly, PublisherLost,
                Publisher!Lost, Send, SetFailureMode, ChangeStock, ConsumerLost,
                ConsumerConnectionEnds, messagingVars, channelVars, consumerVars,
                processVars, handlerVars
  <1> QED BY <1>1, <1>2, <1>3

(* While nothing is given up, what is on the wire is the consumer's own.    *)
LEMMA OwnStep ==
    ASSUME OperationsInv, FaultsTyped, KeptInv, OwnInv,
           [OperationsNext]_operationsVars
    PROVE  OwnInv'
  <1> SUFFICES ASSUME NoGiveUps'
               PROVE  OwnOnWire'
    BY DEF OwnInv
  <1>1. /\ NoGiveUps /\ ~Fault("timeouts")
        /\ Running /\ Paced /\ OwnOnWire
    BY FaultsStep DEF KeptInv, OwnInv
  <1>2. wire' = << >> => OwnOnWire'
    BY DEF OwnOnWire
  <1>3. UNCHANGED <<wire, pc, reply, life, delivery>> => OwnOnWire'
    BY <1>1 DEF OwnOnWire, Publication, Outcome, Forwarded
  <1>4. CASE Consumes
    <2>1. wire = << >>
      BY <1>1, <1>4, ConsumerOnClearWire
    <2>2. CASE UNCHANGED wire
      BY <1>2, <2>1, <2>2
    <2>3. CASE PublishesOutcome
      <3> DEFINE p == Publication("outcome", Outcome(reply.result), life)
      <3>1. /\ wire' = Append(<< >>, p) /\ pc' = "confirming"
            /\ p' = p
        BY <1>4, <2>1, <2>3, ConsumerOnWire
           DEF PublishesOutcome, Publisher!Publish, Publication, Outcome
      <3> HIDE DEF p
      <3>2. Head(wire') = p
        BY <3>1, PutAlone
      <3> QED BY <3>1, <3>2 DEF OwnOnWire, p
    <2>4. CASE PublishesForward
      <3> DEFINE p == Forwarded(delivery)
      <3>1. /\ wire' = Append(<< >>, p) /\ pc' = "forwarding"
            /\ p' = p
        BY <1>4, <2>1, <2>4, ConsumerOnWire
           DEF PublishesForward, Publisher!Publish, Forwarded, Publication
      <3> HIDE DEF p
      <3>2. Head(wire') = p
        BY <3>1, PutAlone
      <3> QED BY <3>1, <3>2 DEF OwnOnWire, p
    <2> QED BY <1>4, <2>2, <2>3, <2>4, ConsumerOnWire
  <1>5. CASE TakesPublication \/ RequeuesExpired \/ Environment \/ Shutdown
                \/ CloseConsumer
    <2>1. CASE wire # << >> /\ wire' = Tail(wire)
      BY <1>1, <1>2, <2>1, TakeAlone DEF Paced, Awaiting, Silent
    <2> QED BY <1>2, <1>3, <1>5, <2>1, SurroundingOnWire
  <1>6. CASE ProcessEnds
    BY <1>1, <1>2, <1>6 DEF ProcessEnds, Exit, Crash, Running
  <1>7. CASE UNCHANGED beside \/ UNCHANGED operationsVars
    BY <1>3, <1>7 DEF beside, operationsVars, serviceVars, messagingVars,
                      channelVars, consumerVars, processVars, handlerVars
  <1> QED BY <1>4, <1>5, <1>6, <1>7
          DEF OperationsNext, ServiceSteps, AdminSteps, AdminBroker

-----------------------------------------------------------------------------
(* Undisturbed: nothing was dropped and nothing given up.                   *)
LEMMA UndisturbedIs ==
    ASSUME FaultsTyped
    PROVE  Undisturbed <=> NothingDropped /\ NoGiveUps
  <1>1. \A f \in FaultCounts :
           f = [timeouts |-> 0, rejects |-> 0, losses |-> 0] <=>
              f.timeouts = 0 /\ f.rejects = 0 /\ f.losses = 0
    BY DEF FaultCounts
  <1> QED BY <1>1 DEF FaultsTyped, Undisturbed, NothingDropped, NoGiveUps,
                      Publisher!NoFaults, Admin!NoFaults

(* A refusal is never taken when there is none.                             *)
LEMMA NoRefusal ==
    /\ OnlyAcks(confirmations) => ~Publisher!TakeConfirmation(FALSE)
    /\ OnlyAcks(adminConfirmations) => ~Admin!TakeConfirmation(FALSE)
  BY Zenon DEF OnlyAcks, Acked, Publisher!TakeConfirmation, Admin!TakeConfirmation

(* An ack is one.                                                           *)
LEMMA AckIsAck ==
    ASSUME NEW s, s = Append(<< >>, TRUE)
    PROVE  OnlyAcks(s)
  BY PutAlone, Zenon DEF Acked, OnlyAcks

(* No confirmation is no refusal.                                           *)
LEMMA NoneIsOnlyAcks == OnlyAcks(<< >>)
  BY DEF OnlyAcks

(* What the consumer has in hand of a request, and that it is nothing while *)
(* it waits for a delivery or for a confirmation.                           *)
Hand(r, open, at, m) ==
    IF open /\ at \in {"handling", "publishing"} THEN Of(r, m) ELSE 0

(* The copies of a request are added up over the places, ...                *)
LEMMA CopiesAre ==
    ASSUME NEW r
    PROVE  /\ Copies(r) =
                 CopiesQueued(r, inbound) + CopiesQueued(r, retryQueue)
                 + CopiesQueued(r, dlq) + CopiesQueued(r, outcomes)
                 + CopiesSent(r, wire) + CopiesSent(r, adminWire)
                 + Hand(r, consumerOpen, pc, delivery)
           /\ Copies(r)' =
                 CopiesQueued(r, inbound') + CopiesQueued(r, retryQueue')
                 + CopiesQueued(r, dlq') + CopiesQueued(r, outcomes')
                 + CopiesSent(r, wire') + CopiesSent(r, adminWire')
                 + Hand(r, consumerOpen', pc', delivery')
  <1>1. CopiesInHand(r) = Hand(r, consumerOpen, pc, delivery)
    BY DEF CopiesInHand, Hand, Of
  <1>2. CopiesInHand(r)' = Hand(r, consumerOpen', pc', delivery')
    BY DEF CopiesInHand, Hand, Of
  <1> QED BY <1>1, <1>2, Zenon DEF Copies

(* ... each of which has a natural number of them.                          *)
LEMMA CopiesTyped ==
    ASSUME OperationsInv, QueuesTyped, NEW r
    PROVE  /\ CopiesQueued(r, inbound) \in Nat /\ CopiesQueued(r, retryQueue) \in Nat
           /\ CopiesQueued(r, dlq) \in Nat /\ CopiesQueued(r, outcomes) \in Nat
           /\ CopiesSent(r, wire) \in Nat /\ CopiesSent(r, adminWire) \in Nat
           /\ Hand(r, consumerOpen, pc, delivery) \in {0, 1}
           /\ Copies(r) \in Nat
  <1>1. /\ CopiesQueued(r, inbound) \in Nat /\ CopiesQueued(r, retryQueue) \in Nat
        /\ CopiesQueued(r, dlq) \in Nat /\ CopiesQueued(r, outcomes) \in Nat
    BY QueuedCopies DEF QueuesTyped
  <1>2. CopiesSent(r, wire) \in Nat /\ CopiesSent(r, adminWire) \in Nat
    BY SentCopies DEF OperationsInv, MessagesTyped
  <1>3. Hand(r, consumerOpen, pc, delivery) \in {0, 1}
    BY DEF Hand, Of
  <1> QED BY <1>1, <1>2, <1>3, CopiesAre

(* Where nothing changes there are as many as before.                       *)
LEMMA CopiesSame ==
    ASSUME UNCHANGED <<inbound, retryQueue, dlq, outcomes, wire, adminWire,
                       consumerOpen, pc, delivery>>, NEW r
    PROVE  Copies(r)' = Copies(r)
  BY Zenon DEF Copies, CopiesInHand

(* A delivery that is handed back or forwarded is in a queue or on the wire *)
(* instead of in the consumer's hand.  If the consumer had not got it in    *)
(* hand any more, there is now one more.                                    *)
LEMMA HandsBackMoves ==
    ASSUME OperationsInv, QueuesTyped, pc \in Busy, HandsBack,
           UNCHANGED <<retryQueue, outcomes, adminWire, consumerOpen>>, NEW r
    PROVE  /\ Copies(r)' >= Copies(r)
           /\ consumerOpen /\ pc \in {"handling", "publishing"} =>
                 Copies(r)' = Copies(r)
  <1> DEFINE h == Hand(r, consumerOpen, pc, delivery)
  <1> DEFINE g == Hand(r, consumerOpen', pc', delivery')
  <1> DEFINE o == Of(r, delivery)
  <1>1. /\ h \in {0, 1} /\ o \in {0, 1} /\ h <= o
        /\ consumerOpen /\ pc \in {"handling", "publishing"} => h = o
        /\ ~consumerOpen => h = 0
    BY DEF Hand, Of
  <1>2. g = 0
    BY DEF HandsBack, NackReject, NackRequeue, RetryOrDeadLetter, NextDelivery, Hand
  <1> HIDE DEF g, h, o
  <1>3. CASE NackReject /\ consumerOpen
    <2>1. /\ dlq' = BagAdd(dlq, DeadLetter(delivery, "rejected"))
          /\ UNCHANGED <<inbound, wire>>
      BY <1>3 DEF NackReject
    <2>2. Of(r, DeadLetter(delivery, "rejected")) = o
      BY DEF Of, DeadLetter, o
    <2>3. CopiesQueued(r, dlq') = CopiesQueued(r, dlq) + o
      BY <2>1, <2>2, QueuedCopies DEF QueuesTyped
    <2> QED BY <1>1, <1>2, <2>1, <2>3, CopiesAre, CopiesTyped DEF g, h
  <1>4. CASE NackRequeue /\ consumerOpen
    <2>1. inbound' = BagAdd(inbound, delivery) /\ UNCHANGED <<dlq, wire>>
      BY <1>4 DEF NackRequeue
    <2>2. CopiesQueued(r, inbound') = CopiesQueued(r, inbound) + o
      BY <2>1, QueuedCopies DEF QueuesTyped, o
    <2> QED BY <1>1, <1>2, <2>1, <2>2, CopiesAre, CopiesTyped DEF g, h
  <1>5. CASE (NackReject \/ NackRequeue) /\ ~consumerOpen
    <2>1. UNCHANGED <<inbound, dlq, wire>>
      BY <1>5 DEF NackReject, NackRequeue
    <2> QED BY <1>1, <1>2, <1>5, <2>1, CopiesAre, CopiesTyped DEF g, h
  <1>6. CASE Publisher!Publish(Forwarded(delivery)) /\ UNCHANGED <<inbound, dlq>>
    <2>1. Of(r, Forwarded(delivery).message) = o
      BY ForwardedRequest DEF Of, o
    <2>2. Forwarded(delivery) \in ServicePublications
      BY ForwardedTyped DEF OperationsInv, ConsumerTyped, MessagesTyped
    <2>3. /\ wire \in Seq(ServicePublications)
          /\ wire' = Append(wire, Forwarded(delivery))
      BY <1>6 DEF OperationsInv, MessagesTyped, Publisher!Publish
    <2>4. CopiesSent(r, wire') = CopiesSent(r, wire) + o
      BY <2>1, <2>2, <2>3, SentCopies
    <2> QED BY <1>1, <1>2, <1>6, <2>4, CopiesAre, CopiesTyped DEF g, h
  <1> QED BY <1>3, <1>4, <1>5, <1>6 DEF HandsBack, RetryOrDeadLetter

(* An outcome that is published stands for the delivery it answers.         *)
LEMMA OutcomeMoves ==
    ASSUME OperationsInv, OutcomesInv, QueuesTyped, pc \in {"publishing", "confirming"},
           Publisher!Publish(Publication("outcome", Outcome(reply.result), life)),
           pc' = "confirming", UNCHANGED <<inbound, retryQueue, dlq, outcomes>>,
           UNCHANGED <<adminWire, consumerOpen>>, NEW r
    PROVE  /\ Copies(r)' >= Copies(r)
           /\ consumerOpen /\ pc = "publishing" => Copies(r)' = Copies(r)
  <1> DEFINE h == Hand(r, consumerOpen, pc, delivery)
  <1> DEFINE g == Hand(r, consumerOpen', pc', delivery')
  <1> DEFINE o == Of(r, delivery)
  <1> DEFINE p == Publication("outcome", Outcome(reply.result), life)
  <1>1. /\ h \in {0, 1} /\ o \in {0, 1} /\ h <= o
        /\ consumerOpen /\ pc = "publishing" => h = o
    BY DEF Hand, Of
  <1>2. g = 0
    BY DEF Hand
  <1>3. reply.result.request = delivery.request
    BY DEF OutcomesInv, ReplyRecorded
  <1>4. Of(r, p.message) = o
    BY <1>3 DEF Of, Publication, Outcome
  <1>5. p \in ServicePublications
    BY OutcomeTyped DEF OperationsInv, ConsumerTyped, MessagesTyped
  <1>6. wire \in Seq(ServicePublications) /\ wire' = Append(wire, p)
    BY DEF OperationsInv, MessagesTyped, Publisher!Publish
  <1> HIDE DEF g, h, o, p
  <1>7. CopiesSent(r, wire') = CopiesSent(r, wire) + o
    BY <1>4, <1>5, <1>6, SentCopies
  <1> QED BY <1>1, <1>2, <1>7, CopiesAre, CopiesTyped DEF g, h

(* A wait that is over leaves the messages where they are.                  *)
LEMMA AckMoves ==
    ASSUME OperationsInv, pc \in {"confirming", "forwarding"}, Ack,
           UNCHANGED <<retryQueue, outcomes, adminWire, consumerOpen>>, NEW r
    PROVE  Copies(r)' = Copies(r)
  <1>1. /\ UNCHANGED <<inbound, dlq, wire>> /\ pc' \in {"idle", "stopped"}
    BY DEF Ack, NextDelivery
  <1>2. /\ Hand(r, consumerOpen, pc, delivery) = 0
        /\ Hand(r, consumerOpen', pc', delivery') = 0
    BY <1>1 DEF Hand
  <1> QED BY <1>1, <1>2, CopiesAre, Zenon

(* The consumer drops no message.  As long as it waits for each             *)
(* confirmation, is refused none and answers once, it copies none either.   *)
LEMMA ConsumerMoves ==
    ASSUME OperationsInv, OutcomesInv, QueuesTyped, Consumes, UNCHANGED adminVars,
           NEW r
    PROVE  /\ Copies(r)' >= Copies(r)
           /\ /\ Running /\ publisherOpen /\ OnlyAcks(confirmations)
              /\ copies <= 1 /\ ~Fault("timeouts")
              => Copies(r)' = Copies(r)
  <1> DEFINE Steady == /\ Running /\ publisherOpen /\ OnlyAcks(confirmations)
                       /\ copies <= 1 /\ ~Fault("timeouts")
  <1> DEFINE K == /\ Copies(r)' >= Copies(r)
                  /\ Steady => Copies(r)' = Copies(r)
  <1>1. UNCHANGED adminWire
    BY DEF adminVars, adminChannelVars
  <1>2. Copies(r) \in Nat
    BY CopiesTyped
  <1>3. ASSUME Copies(r)' = Copies(r)
        PROVE  K
    BY <1>2, <1>3
  <1>4. Steady => /\ consumerOpen /\ ~Publisher!GiveUp(ctxDone)
                 /\ ~Publisher!TakeConfirmation(FALSE)
    BY NoRefusal DEF Publisher!GiveUp, Fault, Running
  <1> HIDE DEF Steady
  <1>5. ASSUME Handles
        PROVE  K
    <2>1. /\ AfterHandler /\ pc = "handling"
          /\ UNCHANGED <<retryQueue, outcomes, consumerOpen>>
      BY <1>5 DEF Handles, HandleDelivery, HandleReleaseDelivery, AfterHandler,
                  processVars
    <2>2. CASE HandsBack
      BY <1>1, <1>4, <2>1, <2>2, HandsBackMoves DEF Busy
    <2>3. CASE /\ pc' = "publishing" /\ UNCHANGED <<inbound, dlq, wire, delivery>>
      <3>1. Hand(r, consumerOpen', pc', delivery') = Hand(r, consumerOpen, pc, delivery)
        BY <2>1, <2>3 DEF Hand
      <3>2. Copies(r)' = Copies(r)
        BY <1>1, <2>1, <2>3, <3>1, CopiesAre, Zenon
      <3> QED BY <1>3, <3>2
    <2> QED BY <2>1, <2>2, <2>3 DEF AfterHandler, HandsBack
  <1>6. ASSUME ResultConfirmed
        PROVE  K
    BY <1>1, <1>3, <1>6, AckMoves DEF ResultConfirmed, processVars
  <1>7. ASSUME NEW m \in DOMAIN inbound, Receive(m)
        PROVE  K
    <2>1. /\ inbound' = BagRemove(inbound, m) /\ delivery' = m
          /\ pc = "idle" /\ pc' = "handling" /\ consumerOpen
          /\ UNCHANGED <<retryQueue, dlq, outcomes, wire, consumerOpen>>
      BY <1>7 DEF Receive, channelVars, processVars
    <2> DEFINE h == Hand(r, consumerOpen, pc, delivery)
    <2> DEFINE g == Hand(r, consumerOpen', pc', delivery')
    <2>2. h = 0 /\ g = Of(r, m)
      BY <2>1 DEF Hand
    <2> HIDE DEF g, h
    <2>3. CopiesQueued(r, inbound') = CopiesQueued(r, inbound) - Of(r, m)
      BY <2>1, QueuedCopies DEF QueuesTyped
    <2>4. Of(r, m) \in {0, 1}
      BY DEF Of
    <2>5. UNCHANGED <<retryQueue, dlq, outcomes, wire>>
      BY <2>1
    <2>6. Copies(r)' = Copies(r)
      BY <1>1, <2>2, <2>3, <2>4, <2>5, CopiesAre, CopiesTyped DEF g, h
    <2> QED BY <1>3, <2>6
  <1>8. ASSUME NEW m \in DOMAIN inbound, ReceiveInvalid(m)
        PROVE  K
    <2>1. /\ inbound' = BagRemove(inbound, m)
          /\ dlq' = BagAdd(dlq, DeadLetter(m, "rejected"))
          /\ UNCHANGED <<retryQueue, outcomes, wire, consumerOpen, pc, delivery>>
      BY <1>8 DEF ReceiveInvalid, channelVars, consumerVars, processVars
    <2>2. Of(r, DeadLetter(m, "rejected")) = Of(r, m) /\ Of(r, m) \in {0, 1}
      BY DEF Of, DeadLetter
    <2>3. /\ CopiesQueued(r, inbound') = CopiesQueued(r, inbound) - Of(r, m)
          /\ CopiesQueued(r, dlq') = CopiesQueued(r, dlq) + Of(r, m)
      BY <2>1, <2>2, QueuedCopies DEF QueuesTyped
    <2>4. Copies(r)' = Copies(r)
      BY <1>1, <2>1, <2>2, <2>3, CopiesAre, CopiesTyped
    <2> QED BY <1>3, <2>4
  <1>9. ASSUME PublishResult
        PROVE  K
    <2>1. pc = "publishing" /\ UNCHANGED <<retryQueue, outcomes, consumerOpen>>
      BY <1>9 DEF PublishResult, processVars
    <2>2. CASE RetryOrDeadLetter
      BY <1>1, <1>4, <2>1, <2>2, HandsBackMoves DEF Busy, HandsBack
    <2>3. CASE /\ Publisher!Publish(Publication("outcome", Outcome(reply.result), life))
               /\ pc' = "confirming" /\ UNCHANGED <<inbound, dlq>>
      BY <1>1, <1>4, <2>1, <2>3, OutcomeMoves
    <2> QED BY <1>9, <2>2, <2>3 DEF PublishResult
  <1>10. ASSUME FirstCopyConfirmed
         PROVE  K
    <2>1. /\ pc = "confirming" /\ UNCHANGED <<retryQueue, outcomes, consumerOpen>>
          /\ ~Steady
      BY <1>10 DEF FirstCopyConfirmed, processVars, Steady
    <2>2. CASE RetryOrDeadLetter
      BY <1>1, <2>1, <2>2, HandsBackMoves DEF Busy, HandsBack
    <2>3. CASE /\ Publisher!Publish(Publication("outcome", Outcome(reply.result), life))
               /\ UNCHANGED <<inbound, dlq, pc>>
      BY <1>1, <2>1, <2>3, OutcomeMoves
    <2> QED BY <1>10, <2>2, <2>3 DEF FirstCopyConfirmed
  <1>11. ASSUME ResultRefused \/ ResultTimesOut \/ ForwardTimesOut
         PROVE  K
    <2>1. /\ pc \in Busy /\ HandsBack /\ ~Steady
          /\ UNCHANGED <<retryQueue, outcomes, consumerOpen>>
      BY <1>4, <1>11 DEF ResultRefused, ResultTimesOut, ForwardTimesOut, Busy,
                         HandsBack, processVars
    <2> QED BY <1>1, <2>1, HandsBackMoves
  <1>12. ASSUME ConfirmForward
         PROVE  K
    <2>1. pc = "forwarding" /\ UNCHANGED <<retryQueue, outcomes, consumerOpen>>
      BY <1>12 DEF ConfirmForward, processVars
    <2>2. CASE Ack
      BY <1>1, <1>3, <2>1, <2>2, AckMoves
    <2>3. CASE Publisher!TakeConfirmation(FALSE) /\ NackRequeue
      BY <1>1, <1>4, <2>1, <2>3, HandsBackMoves DEF Busy, HandsBack
    <2> QED BY <1>12, <2>2, <2>3 DEF ConfirmForward
  <1>13. ASSUME ConsumeReturns
         PROVE  K
    <2>1. /\ UNCHANGED <<inbound, retryQueue, dlq, outcomes, wire, consumerOpen>>
          /\ pc = "idle" /\ pc' = "stopped"
      BY <1>13 DEF ConsumeReturns, messagingVars, queueVars, channelVars, processVars
    <2>2. /\ Hand(r, consumerOpen, pc, delivery) = 0
          /\ Hand(r, consumerOpen', pc', delivery') = 0
      BY <2>1 DEF Hand
    <2>3. Copies(r)' = Copies(r)
      BY <1>1, <2>1, <2>2, CopiesAre, Zenon
    <2> QED BY <1>3, <2>3
  <1> HIDE DEF K
  <1>14. K
    BY <1>5, <1>6, <1>7, <1>8, <1>9, <1>10, <1>11, <1>12, <1>13
       DEF Consumes, OtherConsumerSteps
  <1> QED BY <1>14 DEF K, Steady

(* What the broker takes from a wire is in one of the queues.               *)
LEMMA RouteMoves ==
    ASSUME QueuesTyped, NEW p \in ServicePublications \cup AdminPublications, Route(p),
           NEW r
    PROVE  CopiesQueued(r, inbound') + CopiesQueued(r, retryQueue')
           + CopiesQueued(r, dlq') + CopiesQueued(r, outcomes')
           = CopiesQueued(r, inbound) + CopiesQueued(r, retryQueue)
             + CopiesQueued(r, dlq) + CopiesQueued(r, outcomes) + Of(r, p.message)
  <1>1. p.route \in {"request", "retry", "dead_letter", "outcome"}
    BY DEF ServicePublications, AdminPublications
  <1>2. /\ CopiesQueued(r, inbound) \in Nat /\ CopiesQueued(r, retryQueue) \in Nat
        /\ CopiesQueued(r, dlq) \in Nat /\ CopiesQueued(r, outcomes) \in Nat
    BY QueuedCopies DEF QueuesTyped
  <1>3. Of(r, p.message) \in {0, 1}
    BY DEF Of
  <1>4. CASE p.route = "request"
    <2>1. /\ inbound' = BagAdd(inbound, p.message)
          /\ UNCHANGED <<retryQueue, dlq, outcomes>>
      BY <1>4 DEF Route
    <2>2. CopiesQueued(r, inbound') = CopiesQueued(r, inbound) + Of(r, p.message)
      BY <2>1, QueuedCopies DEF QueuesTyped
    <2> QED BY <1>2, <1>3, <2>1, <2>2
  <1>5. CASE p.route = "retry"
    <2>1. /\ retryQueue' = BagAdd(retryQueue, p.message)
          /\ UNCHANGED <<inbound, dlq, outcomes>>
      BY <1>5 DEF Route
    <2>2. CopiesQueued(r, retryQueue') = CopiesQueued(r, retryQueue) + Of(r, p.message)
      BY <2>1, QueuedCopies DEF QueuesTyped
    <2> QED BY <1>2, <1>3, <2>1, <2>2
  <1>6. CASE p.route = "dead_letter"
    <2>1. /\ dlq' = BagAdd(dlq, p.message)
          /\ UNCHANGED <<inbound, retryQueue, outcomes>>
      BY <1>6 DEF Route
    <2>2. CopiesQueued(r, dlq') = CopiesQueued(r, dlq) + Of(r, p.message)
      BY <2>1, QueuedCopies DEF QueuesTyped
    <2> QED BY <1>2, <1>3, <2>1, <2>2
  <1>7. CASE p.route = "outcome"
    <2>1. /\ outcomes' = BagAdd(outcomes, p.message)
          /\ UNCHANGED <<inbound, retryQueue, dlq>>
      BY <1>7 DEF Route
    <2>2. CopiesQueued(r, outcomes') = CopiesQueued(r, outcomes) + Of(r, p.message)
      BY <2>1, QueuedCopies DEF QueuesTyped
    <2> QED BY <1>2, <1>3, <2>1, <2>2
  <1> QED BY <1>1, <1>4, <1>5, <1>6, <1>7

(* The broker that takes a publication of the consumer moves it.            *)
LEMMA TakesPublicationMoves ==
    ASSUME OperationsInv, QueuesTyped, TakesPublication, UNCHANGED adminVars,
           ~Fault("rejects"), NEW r
    PROVE  Copies(r)' = Copies(r)
  <1>1. /\ BrokerAccepts(life) /\ UNCHANGED <<pc, delivery, consumerOpen, adminWire>>
    BY DEF TakesPublication, BrokerOnly, BrokerRefuses, Publisher!Refuses, Fault,
           consumerVars, processVars, adminVars, adminChannelVars
  <1>2. wire # << >> /\ wire' = Tail(wire) /\ Route(Head(wire))
    BY <1>1 DEF BrokerAccepts, Publisher!Accepts
  <1>3. wire \in Seq(ServicePublications) /\ Head(wire) \in ServicePublications
    BY <1>2, TakenFrom DEF OperationsInv, MessagesTyped
  <1>4. CopiesSent(r, wire') = CopiesSent(r, wire) - Of(r, Head(wire).message)
    BY <1>2, <1>3, SentCopies
  <1>5. CopiesQueued(r, inbound') + CopiesQueued(r, retryQueue')
        + CopiesQueued(r, dlq') + CopiesQueued(r, outcomes')
        = CopiesQueued(r, inbound) + CopiesQueued(r, retryQueue)
          + CopiesQueued(r, dlq) + CopiesQueued(r, outcomes)
          + Of(r, Head(wire).message)
    BY <1>2, <1>3, RouteMoves
  <1>6. Of(r, Head(wire).message) \in {0, 1}
    BY DEF Of
  <1> QED BY <1>1, <1>4, <1>5, <1>6, CopiesAre, CopiesTyped

(* The market adds a message of its request, ...                            *)
LEMMA SendMoves ==
    ASSUME OperationsInv, QueuesTyped, NEW request, Send(request),
           UNCHANGED adminVars, NEW r
    PROVE  \/ r = request /\ Copies(r)' = Copies(r) + 1
              /\ TimesSent(r)' = TimesSent(r) + 1
           \/ r # request /\ Copies(r)' = Copies(r) /\ TimesSent(r)' = TimesSent(r)
  <1> DEFINE o == Of(r, Message(request, 0))
  <1>1. /\ inbound' = BagAdd(inbound, Message(request, 0))
        /\ UNCHANGED <<retryQueue, dlq, outcomes, wire, adminWire, consumerOpen, pc,
                       delivery>>
    BY DEF Send, channelVars, consumerVars, processVars, adminVars, adminChannelVars
  <1>2. o = IF r = request THEN 1 ELSE 0
    BY DEF Of, Message
  <1> HIDE DEF o
  <1>3. CopiesQueued(r, inbound') = CopiesQueued(r, inbound) + o
    BY <1>1, QueuedCopies DEF QueuesTyped, o
  <1>4. Copies(r)' = Copies(r) + o
    BY <1>1, <1>2, <1>3, CopiesAre, CopiesTyped
  <1>5. /\ requested' = BagAdd(requested, request)
        /\ \A x \in DOMAIN requested : requested[x] \in Nat
    BY DEF Send, QueuesTyped, IsQueue
  <1>6. /\ DOMAIN requested' = DOMAIN requested \cup {request}
        /\ requested'[request] =
              IF request \in DOMAIN requested THEN requested[request] + 1 ELSE 1
        /\ \A x \in DOMAIN requested \ {request} : requested'[x] = requested[x]
    BY <1>5 DEF BagAdd, Ext!BagAdd
  <1>7. CASE r = request
    <2>1. TimesSent(r)' = TimesSent(r) + 1
      BY <1>5, <1>6, <1>7 DEF TimesSent, BagIn, BagToSet
    <2> QED BY <1>2, <1>4, <1>7, <2>1
  <1>8. CASE r # request
    <2>1. TimesSent(r)' = TimesSent(r)
      BY <1>6, <1>8 DEF TimesSent, BagIn, BagToSet
    <2>2. o = 0 /\ Copies(r) \in Nat
      BY <1>2, <1>8, CopiesTyped
    <2> QED BY <1>4, <1>8, <2>1, <2>2
  <1> QED BY <1>7, <1>8

(* ... and nothing else around the consumer does: what waits for its retry  *)
(* is moved, and a delivery the broker takes back is at least in its queue. *)
LEMMA SurroundingMoves ==
    ASSUME OperationsInv, QueuesTyped, UNCHANGED adminVars,
           RequeuesExpired \/ Environment \/ Shutdown \/ CloseConsumer,
           \A request \in Requests : ~Send(request), ~Fault("losses"), NEW r
    PROVE  /\ Copies(r)' >= Copies(r)
           /\ Running /\ ~Use("shutdowns") => Copies(r)' = Copies(r)
  <1>1. UNCHANGED adminWire
    BY DEF adminVars, adminChannelVars
  <1>2. Copies(r) \in Nat
    BY CopiesTyped
  <1>3. CASE RequeuesExpired
    <2>1. PICK m \in DOMAIN retryQueue : RetryExpires(m)
      BY <1>3 DEF RequeuesExpired, BrokerOnly
    <2>2. /\ retryQueue' = BagRemove(retryQueue, m) /\ inbound' = BagAdd(inbound, m)
          /\ UNCHANGED <<dlq, outcomes, wire, consumerOpen, pc, delivery>>
      BY <1>3, <2>1 DEF RequeuesExpired, BrokerOnly, RetryExpires, channelVars,
                        consumerVars, processVars
    <2>3. /\ CopiesQueued(r, retryQueue') = CopiesQueued(r, retryQueue) - Of(r, m)
          /\ CopiesQueued(r, inbound') = CopiesQueued(r, inbound) + Of(r, m)
      BY <2>2, QueuedCopies DEF QueuesTyped
    <2>4. Of(r, m) \in {0, 1}
      BY DEF Of
    <2>5. Copies(r)' = Copies(r)
      BY <1>1, <2>2, <2>3, <2>4, CopiesAre, CopiesTyped
    <2> QED BY <1>2, <2>5
  <1>4. CASE ConsumerConnectionEnds
    <2>1. /\ consumerOpen /\ ~consumerOpen' /\ inbound' = Redelivered
          /\ UNCHANGED <<retryQueue, dlq, outcomes, wire, pc, delivery>>
      BY <1>4 DEF ConsumerConnectionEnds, channelVars, consumerVars
    <2> DEFINE h == Hand(r, consumerOpen, pc, delivery)
    <2> DEFINE g == Hand(r, consumerOpen', pc', delivery')
    <2>2. g = 0
      BY <2>1 DEF Hand
    <2>3. /\ h \in {0, 1}
          /\ delivery = NoDelivery => h = 0
          /\ h <= Of(r, delivery) /\ Of(r, delivery) \in {0, 1}
      BY NoDeliveryIsNoMessage
         DEF Hand, Of, OperationsInv, ConsumerTyped, Busy
    <2> HIDE DEF g, h
    <2>4. CopiesQueued(r, inbound') >= CopiesQueued(r, inbound) + h
      <3>1. CASE delivery = NoDelivery
        <4>1. inbound' = inbound /\ h = 0
          BY <2>1, <2>3, <3>1 DEF Redelivered
        <4> QED BY <4>1, CopiesTyped
      <3>2. CASE delivery # NoDelivery
        <4>1. CopiesQueued(r, inbound') = CopiesQueued(r, inbound) + Of(r, delivery)
          BY <2>1, <3>2, QueuedCopies DEF QueuesTyped, Redelivered
        <4> QED BY <2>3, <4>1, CopiesTyped
      <3> QED BY <3>1, <3>2
    <2>5. CopiesQueued(r, inbound') \in Nat
      <3>1. IsQueue(inbound')
        BY <2>1, ItemAdded DEF Redelivered, QueuesTyped
      <3> QED BY <3>1, QueuedCopies
    <2>6. UNCHANGED <<retryQueue, dlq, outcomes, wire>>
      BY <2>1
    <2>7. Copies(r)' >= Copies(r)
      BY <1>1, <2>2, <2>3, <2>4, <2>5, <2>6, CopiesAre, CopiesTyped DEF g, h
    <2>8. ASSUME ~ConsumerLost, ~CloseConsumer
          PROVE  UNCHANGED consumerOpen
      BY <2>8 DEF Environment, ClosesPublisher, RequeuesExpired, BrokerOnly,
                  SetFailureMode, ChangeStock, Shutdown, processVars
    <2>9. ~(Running /\ ~Use("shutdowns"))
      BY <2>1, <2>8 DEF Running, CloseConsumer, ConsumerLost
    <2> QED BY <2>7, <2>9
  <1>5. CASE ~RequeuesExpired /\ ~ConsumerConnectionEnds
    <2>1. UNCHANGED <<inbound, retryQueue, dlq, outcomes, wire, consumerOpen, pc,
                      delivery>>
      BY <1>5 DEF Environment, ClosesPublisher, BrokerOnly, PublisherLost,
                  Publisher!Lost, Fault, SetFailureMode, ChangeStock, ConsumerLost,
                  Shutdown, CloseConsumer, messagingVars, queueVars, channelVars,
                  consumerVars, processVars
    <2>2. Copies(r)' = Copies(r)
      BY <1>1, <2>1, CopiesSame
    <2> QED BY <1>2, <2>2
  <1> QED BY <1>3, <1>4, <1>5

(* A process that exits leaves the dead letter it held to the broker.       *)
LEMMA ExitMoves ==
    ASSUME OperationsInv, QueuesTyped, ProcessEnds, ~Use("crashes"), NEW r
    PROVE  Copies(r)' >= Copies(r)
  <1>1. /\ ~consumerOpen /\ inbound' = Redelivered /\ dlq' = Returned
        /\ pc' = "idle" /\ UNCHANGED <<retryQueue, outcomes, wire, adminWire>>
    BY DEF ProcessEnds, Exit, Crash, StartAgain, AdminRestarts
  <1> DEFINE h == Hand(r, consumerOpen, pc, delivery)
  <1> DEFINE g == Hand(r, consumerOpen', pc', delivery')
  <1>2. h = 0 /\ g = 0 /\ inbound' = inbound
    BY <1>1 DEF Hand, Redelivered
  <1> HIDE DEF g, h
  <1>3. Of(r, held) \in {0, 1}
    BY DEF Of
  <1>4. /\ CopiesQueued(r, dlq) \in Nat
        /\ CopiesQueued(r, BagAdd(dlq, held)) = CopiesQueued(r, dlq) + Of(r, held)
    BY QueuedCopies DEF QueuesTyped
  <1>5. CopiesQueued(r, dlq') = CopiesQueued(r, dlq) + Of(r, held) \/ dlq' = dlq
    BY <1>1, <1>4 DEF Returned
  <1>6. UNCHANGED <<retryQueue, outcomes, wire, adminWire>>
    BY <1>1
  <1> QED BY <1>2, <1>3, <1>5, <1>6, CopiesAre, CopiesTyped DEF g, h

(* The admin moves a dead letter onto its wire and the broker moves it into *)
(* the inbound queue.  One that was not confirmed goes back to the DLQ.     *)
LEMMA AdminMoves ==
    ASSUME OperationsInv, QueuesTyped, UNCHANGED beside,
           \/ \E c \in Callers : TakesLock(c) \/ CallSteps(c, life)
           \/ AdminChannelSteps(life)
           \/ AdminEnvironment,
           ~AdminFault("rejects"), ~AdminFault("losses"), NEW r
    PROVE  /\ Copies(r)' >= Copies(r)
           /\ /\ adminOpen /\ OnlyAcks(adminConfirmations) /\ ~AdminFault("timeouts")
              => Copies(r)' = Copies(r)
  <1> DEFINE Steady == /\ adminOpen /\ OnlyAcks(adminConfirmations)
                       /\ ~AdminFault("timeouts")
  <1> DEFINE K == /\ Copies(r)' >= Copies(r)
                  /\ Steady => Copies(r)' = Copies(r)
  <1>1. UNCHANGED <<wire, consumerOpen, pc, delivery>>
    BY DEF beside, channelVars, consumerVars, processVars
  <1>2. Copies(r) \in Nat
    BY CopiesTyped
  <1>3. ASSUME Copies(r)' = Copies(r)
        PROVE  K
    BY <1>2, <1>3
  <1>4. Steady => ~Admin!GiveUp(FALSE) /\ ~Admin!TakeConfirmation(FALSE)
    BY NoRefusal DEF Admin!GiveUp, AdminFault
  <1> HIDE DEF Steady
  <1>5. ASSUME UNCHANGED <<queueVars, adminWire>>
        PROVE  K
    <2>1. Copies(r)' = Copies(r)
      BY <1>1, <1>5, CopiesSame DEF queueVars
    <2> QED BY <1>3, <2>1
  <1>6. ASSUME NEW c \in Callers,
               \/ TakesLock(c) \/ RequeueEnds(c) \/ StartScrape(c) \/ ClientGone(c)
               \/ \E q \in RequeueRequests : StartRequeue(c, q)
        PROVE  K
    <2>1. UNCHANGED <<queueVars, adminChannelVars>>
      BY <1>6, CallsApart
    <2> QED BY <1>5, <2>1 DEF adminChannelVars
  <1>7. ASSUME NEW c \in Callers, NEW m \in DOMAIN dlq, RequeueOne(c, m, life)
        PROVE  K
    <2> DEFINE p == Publication("request", Message(m.request, 0), life)
    <2>1. /\ dlq' = BagRemove(dlq, m) /\ adminWire' = Append(adminWire, p)
          /\ UNCHANGED <<inbound, retryQueue, outcomes>>
      BY <1>7 DEF RequeueOne, Admin!Publish
    <2>2. Of(r, p.message) = Of(r, m) /\ Of(r, m) \in {0, 1}
      BY DEF Of, Publication, Message
    <2>3. adminWire \in Seq(AdminPublications) /\ p \in AdminPublications
      <3>1. m \in DeadLetters /\ life \in Nat
        BY DEF OperationsInv, MessagesTyped
      <3>2. m.request \in Requests /\ 0 \in 0..MaxRetryCount
        BY <3>1, ServiceAssumption DEF DeadLetters
      <3> QED BY <3>1, <3>2 DEF OperationsInv, MessagesTyped, AdminPublications,
                                QueuedMessages, Publication, Message
    <2> HIDE DEF p
    <2>4. CopiesQueued(r, dlq') = CopiesQueued(r, dlq) - Of(r, m)
      BY <2>1, QueuedCopies DEF QueuesTyped
    <2>5. CopiesSent(r, adminWire') = CopiesSent(r, adminWire) + Of(r, m)
      BY <2>1, <2>2, <2>3, SentCopies
    <2>6. Copies(r)' = Copies(r)
      BY <1>1, <2>1, <2>2, <2>4, <2>5, CopiesAre, CopiesTyped
    <2> QED BY <1>3, <2>6
  <1>8. ASSUME NEW c \in Callers, Requeued(c)
        PROVE  K
    BY <1>5, <1>8 DEF Requeued
  <1>9. ASSUME NEW c \in Callers, RequeueFails(c)
        PROVE  K
    <2>1. /\ ~Steady /\ dlq' = Returned
          /\ UNCHANGED <<inbound, retryQueue, outcomes, adminWire>>
      BY <1>4, <1>9 DEF RequeueFails
    <2>2. Of(r, held) \in {0, 1}
      BY DEF Of
    <2>3. /\ CopiesQueued(r, dlq) \in Nat
          /\ CopiesQueued(r, BagAdd(dlq, held)) = CopiesQueued(r, dlq) + Of(r, held)
      BY QueuedCopies DEF QueuesTyped
    <2>4. CopiesQueued(r, dlq') = CopiesQueued(r, dlq) + Of(r, held) \/ dlq' = dlq
      BY <2>1, <2>3 DEF Returned
    <2>5. Copies(r)' >= Copies(r)
      BY <1>1, <2>1, <2>2, <2>4, CopiesAre, CopiesTyped
    <2> QED BY <2>1, <2>5
  <1>10. ~AdminLost
    BY DEF AdminLost, Admin!Lost, AdminFault
  <1>11. ASSUME AdminChannelSteps(life)
         PROVE  K
    <2>1. AdminAccepts(life)
      BY <1>11 DEF AdminChannelSteps, AdminRefuses, Admin!Refuses, AdminFault
    <2>2. /\ adminWire # << >> /\ adminWire' = Tail(adminWire)
          /\ Route(Head(adminWire))
      BY <2>1 DEF AdminAccepts, Admin!Accepts
    <2>3. adminWire \in Seq(AdminPublications) /\ Head(adminWire) \in AdminPublications
      BY <2>2, TakenFrom DEF OperationsInv, MessagesTyped
    <2>4. CopiesSent(r, adminWire')
          = CopiesSent(r, adminWire) - Of(r, Head(adminWire).message)
      BY <2>2, <2>3, SentCopies
    <2>5. CopiesQueued(r, inbound') + CopiesQueued(r, retryQueue')
          + CopiesQueued(r, dlq') + CopiesQueued(r, outcomes')
          = CopiesQueued(r, inbound) + CopiesQueued(r, retryQueue)
            + CopiesQueued(r, dlq) + CopiesQueued(r, outcomes)
            + Of(r, Head(adminWire).message)
      BY <2>2, <2>3, RouteMoves
    <2>6. Of(r, Head(adminWire).message) \in {0, 1}
      BY DEF Of
    <2>7. Copies(r)' = Copies(r)
      BY <1>1, <2>4, <2>5, <2>6, CopiesAre, CopiesTyped
    <2> QED BY <1>3, <2>7
  <1> HIDE DEF K
  <1>12. K
    BY <1>6, <1>7, <1>8, <1>9, <1>10, <1>11 DEF CallSteps, AdminEnvironment
  <1> QED BY <1>12 DEF K, Steady

-----------------------------------------------------------------------------
(* One confirmation that is taken leaves none.                              *)
LEMMA TakenLeavesNone ==
    ASSUME NEW s, OneAtMost(s), OnlyAcks(s), NEW t,
           t = s \/ (s # << >> /\ t = Tail(s))
    PROVE  OnlyAcks(t)
  <1>1. CASE t = s
    BY <1>1
  <1>2. CASE s # << >> /\ t = Tail(s)
    <2>1. t = << >>
      BY <1>2, TakeAlone
    <2> QED BY <2>1, NoneIsOnlyAcks
  <1> QED BY <1>1, <1>2

(* The consumer and what is around it leave the publisher unfaulted, ...    *)
LEMMA PublisherUnfaulted ==
    ASSUME Running, Paced, publisherOpen, OnlyAcks(confirmations),
           ServiceSteps, ~Fault("rejects"), ~Fault("losses")
    PROVE  publisherOpen' /\ OnlyAcks(confirmations')
  <1>1. OneAtMost(confirmations)
    BY DEF Paced, Awaiting, Silent, OneAtMost
  <1>2. CASE Consumes
    <2>1. /\ UNCHANGED publisherOpen
          /\ \/ UNCHANGED confirmations
             \/ confirmations # << >> /\ confirmations' = Tail(confirmations)
      <3>1. CASE Handles \/ ResultConfirmed
        BY <3>1 DEF Handles, HandleDelivery, HandleReleaseDelivery, AfterHandler,
                    ResultConfirmed, Publisher!TakeConfirmation
      <3>2. CASE OtherConsumerSteps
        BY <3>2 DEF OtherConsumerSteps, ReceiveInvalid, Receive, PublishResult,
                    FirstCopyConfirmed, ResultRefused, ResultTimesOut,
                    ConfirmForward, ForwardTimesOut, ConsumeReturns, messagingVars,
                    channelVars, Publisher!TakeConfirmation, Publisher!GiveUp
      <3> QED BY <1>2, <3>1, <3>2 DEF Consumes
    <2> QED BY <1>1, <2>1, TakenLeavesNone
  <1>3. CASE TakesPublication
    <2>1. BrokerAccepts(life)
      BY <1>3 DEF TakesPublication, BrokerOnly, BrokerRefuses, Publisher!Refuses, Fault
    <2>2. wire # << >> /\ UNCHANGED publisherOpen
      BY <2>1 DEF BrokerAccepts, Publisher!Accepts
    <2>3. confirmations = << >> /\ Head(wire).life = life
      BY <2>2 DEF Paced, Silent, Awaiting
    <2>4. confirmations' = Append(<< >>, TRUE)
      BY <2>1, <2>3, Zenon DEF BrokerAccepts, Publisher!Accepts, Publisher!Confirm
    <2>5. OnlyAcks(confirmations')
      BY <2>4, AckIsAck, Zenon
    <2> QED BY <2>2, <2>5
  <1>4. CASE RequeuesExpired \/ Environment \/ Shutdown \/ CloseConsumer
    <2>1. ~ClosesPublisher
      BY DEF ClosesPublisher, BrokerOnly, PublisherLost, Publisher!Lost, Fault
    <2>2. UNCHANGED <<publisherOpen, confirmations>>
      BY <1>4, <2>1 DEF RequeuesExpired, BrokerOnly, RetryExpires, Environment, Send,
                        SetFailureMode, ChangeStock, ConsumerLost,
                        ConsumerConnectionEnds, Shutdown, CloseConsumer,
                        messagingVars, channelVars
    <2> QED BY <2>2
  <1> QED BY <1>2, <1>3, <1>4 DEF ServiceSteps

(* ... and the calls of the admin its channel.                              *)
LEMMA AdminUnfaulted ==
    ASSUME OperationsInv, AdminPaced, adminOpen, OnlyAcks(adminConfirmations),
           \/ \E c \in Callers : TakesLock(c) \/ CallSteps(c, life)
           \/ AdminChannelSteps(life)
           \/ AdminEnvironment,
           ~AdminFault("rejects"), ~AdminFault("losses")
    PROVE  adminOpen' /\ OnlyAcks(adminConfirmations')
  <1>1. OneAtMost(adminConfirmations)
    BY DEF AdminPaced, Awaiting, Silent, OneAtMost
  <1>2. ASSUME AdminChannelSteps(life)
        PROVE  adminOpen' /\ OnlyAcks(adminConfirmations')
    <2>1. AdminAccepts(life)
      BY <1>2 DEF AdminChannelSteps, AdminRefuses, Admin!Refuses, AdminFault
    <2>2. adminWire # << >> /\ UNCHANGED adminOpen
      BY <2>1 DEF AdminAccepts, Admin!Accepts
    <2>3. adminConfirmations = << >> /\ Head(adminWire).life = life
      BY <2>2 DEF AdminPaced, Silent, Awaiting
    <2>4. adminConfirmations' = Append(<< >>, TRUE)
      BY <2>1, <2>3, Zenon DEF AdminAccepts, Admin!Accepts, Admin!Confirm
    <2>5. OnlyAcks(adminConfirmations')
      BY <2>4, AckIsAck, Zenon
    <2> QED BY <2>2, <2>5
  <1>3. ASSUME NEW c \in Callers, TakesLock(c) \/ CallSteps(c, life)
        PROVE  /\ UNCHANGED adminOpen
               /\ \/ UNCHANGED adminConfirmations
                  \/ /\ adminConfirmations # << >>
                     /\ adminConfirmations' = Tail(adminConfirmations)
    BY <1>3 DEF TakesLock, Lock, DLQDepth, CallSteps, RequeueEnds, RequeueOne, Requeued,
                RequeueFails, Admin!TakeConfirmation, Admin!GiveUp, adminChannelVars
  <1>4. ASSUME AdminEnvironment
        PROVE  UNCHANGED <<adminOpen, adminConfirmations>>
    BY <1>4 DEF AdminEnvironment, AdminLost, Admin!Lost, AdminFault, StartRequeue,
                StartScrape, ClientGone, adminChannelVars
  <1> QED BY <1>1, <1>2, <1>3, <1>4, TakenLeavesNone

(* Both are unfaulted after any step that is no fault.                      *)
LEMMA UnfaultedStep ==
    ASSUME OperationsInv, FaultsTyped, KeptInv, MovedInv, Undisturbed, NoGiveUps',
           NothingDropped', [OperationsNext]_operationsVars
    PROVE  Unfaulted'
  <1>1. /\ Running /\ Paced /\ AdminPaced
        /\ publisherOpen /\ adminOpen
        /\ OnlyAcks(confirmations) /\ OnlyAcks(adminConfirmations)
    BY UndisturbedIs DEF KeptInv, MovedInv, Unfaulted
  <1>2. /\ ~Fault("rejects") /\ ~Fault("losses") /\ ~Use("crashes")
        /\ ~AdminFault("rejects") /\ ~AdminFault("losses")
    BY FaultsStep
  <1>3. UNCHANGED adminVars => UNCHANGED <<adminOpen, adminConfirmations>>
    BY DEF adminVars, adminChannelVars
  <1>4. UNCHANGED beside => UNCHANGED <<publisherOpen, confirmations>>
    BY DEF beside, channelVars
  <1>5. CASE ServiceSteps /\ UNCHANGED adminVars
    BY <1>1, <1>2, <1>3, <1>5, PublisherUnfaulted DEF Unfaulted
  <1>6. ~ProcessEnds
    BY <1>1, <1>2 DEF ProcessEnds, Exit, Crash, Running
  <1>7. CASE /\ \/ \E c \in Callers : TakesLock(c) \/ CallSteps(c, life)
                \/ AdminChannelSteps(life)
                \/ AdminEnvironment
             /\ UNCHANGED beside
    BY <1>1, <1>2, <1>4, <1>7, AdminUnfaulted DEF Unfaulted
  <1>8. CASE UNCHANGED operationsVars
    BY <1>1, <1>8 DEF operationsVars, serviceVars, messagingVars, channelVars,
                      adminVars, adminChannelVars, Unfaulted
  <1> QED BY <1>5, <1>6, <1>7, <1>8 DEF OperationsNext, AdminSteps, AdminBroker

(* A second copy is owed only in the mode that asks for it.                 *)
LEMMA SingleStep ==
    ASSUME OperationsInv, SingleInv, [OperationsNext]_operationsVars
    PROVE  SingleInv'
  <1> SUFFICES ASSUME AnswersOnce
               PROVE  failureMode' # "duplicate_response" /\ copies' <= 1
    BY DEF SingleInv, AnswersOnce
  <1>1. /\ failureMode # "duplicate_response" /\ copies <= 1
        /\ \A s \in SettingsUsed : s.mode # "duplicate_response"
    BY DEF SingleInv, AnswersOnce
  <1>2. ASSUME UNCHANGED <<failureMode, copies>>
        PROVE  failureMode' # "duplicate_response" /\ copies' <= 1
    BY <1>1, <1>2
  <1>3. CASE Consumes
    <2>1. ASSUME Ending
          PROVE  copies' <= 1
      BY <2>1 DEF Ending, Ack, NackReject, NackRequeue, RetryOrDeadLetter,
                  NextDelivery
    <2>2. UNCHANGED failureMode /\ copies' <= 1
      <3>1. CASE Handles
        BY <1>1, <2>1, <3>1 DEF Handles, HandleDelivery, HandleReleaseDelivery,
                                AfterHandler, Ending, processVars
      <3>2. CASE ResultConfirmed
        BY <2>1, <3>2 DEF ResultConfirmed, Ending, processVars
      <3>3. CASE PublishResult \/ FirstCopyConfirmed
        <4>1. UNCHANGED failureMode
          BY <3>3 DEF PublishResult, FirstCopyConfirmed, processVars
        <4>2. RetryOrDeadLetter \/ copies' = CopiesInMode(failureMode) \/ copies' = 1
          BY <3>3 DEF PublishResult, FirstCopyConfirmed
        <4>3. CopiesInMode(failureMode) = 1
          BY <1>1 DEF CopiesInMode
        <4> QED BY <2>1, <4>1, <4>2, <4>3 DEF Ending
      <3>4. CASE ResultRefused \/ ResultTimesOut \/ ConfirmForward \/ ForwardTimesOut
        BY <2>1, <3>4 DEF ResultRefused, ResultTimesOut, ConfirmForward,
                          ForwardTimesOut, Ending, processVars
      <3>5. CASE \E m \in DOMAIN inbound : ReceiveInvalid(m) \/ Receive(m)
        BY <1>1, <3>5 DEF ReceiveInvalid, Receive, consumerVars, processVars
      <3>6. CASE ConsumeReturns
        BY <1>1, <3>6 DEF ConsumeReturns, processVars
      <3> QED BY <1>3, <3>1, <3>2, <3>3, <3>4, <3>5, <3>6
              DEF Consumes, OtherConsumerSteps
    <2> QED BY <1>1, <2>2
  <1>4. CASE Environment
    BY <1>1, <1>4 DEF Environment, ClosesPublisher, BrokerOnly, Send, SetFailureMode,
                      ChangeStock, ConsumerLost, ConsumerConnectionEnds,
                      consumerVars, processVars
  <1>5. CASE TakesPublication \/ RequeuesExpired \/ Shutdown \/ CloseConsumer
    BY <1>2, <1>5 DEF TakesPublication, RequeuesExpired, BrokerOnly, Shutdown,
                      CloseConsumer, ConsumerConnectionEnds, consumerVars, processVars
  <1>6. CASE ProcessEnds
    BY <1>6 DEF ProcessEnds, Exit, Crash, StartAgain
  <1>7. CASE UNCHANGED beside \/ UNCHANGED operationsVars
    BY <1>2, <1>7 DEF beside, operationsVars, serviceVars, consumerVars, processVars
  <1> QED BY <1>3, <1>4, <1>5, <1>6, <1>7
          DEF OperationsNext, ServiceSteps, AdminSteps, AdminBroker

(* The copies after a step are a natural number as well.                    *)
LEMMA CopiesTypedNext ==
    ASSUME OperationsInv', QueuesTyped', NEW r
    PROVE  Copies(r)' \in Nat
  <1>1. /\ CopiesQueued(r, inbound') \in Nat /\ CopiesQueued(r, retryQueue') \in Nat
        /\ CopiesQueued(r, dlq') \in Nat /\ CopiesQueued(r, outcomes') \in Nat
    BY QueuedCopies DEF QueuesTyped
  <1>2. CopiesSent(r, wire') \in Nat /\ CopiesSent(r, adminWire') \in Nat
    BY SentCopies DEF OperationsInv, MessagesTyped
  <1>3. Hand(r, consumerOpen', pc', delivery') \in {0, 1}
    BY DEF Hand, Of
  <1> QED BY <1>1, <1>2, <1>3, CopiesAre

(* Nobody gives up, is refused or owes a second copy.                       *)
Calm ==
    /\ Running /\ Unfaulted /\ copies <= 1
    /\ ~Fault("timeouts") /\ ~AdminFault("timeouts") /\ ~Use("shutdowns")

(* As long as nothing is dropped, a step either sends a message of the      *)
(* request, or leaves as many as there were, or, unless all is calm, makes *)
(* another copy.                                                            *)
LEMMA StepMoves ==
    ASSUME OperationsInv, OutcomesInv, FaultsTyped, QueuesTyped, NothingDropped',
           [OperationsNext]_operationsVars, NEW r
    PROVE  \/ TimesSent(r)' = TimesSent(r) + 1 /\ Copies(r)' = Copies(r) + 1
           \/ /\ TimesSent(r)' = TimesSent(r) /\ Copies(r)' >= Copies(r)
              /\ Calm => Copies(r)' = Copies(r)
  <1> DEFINE M == /\ Copies(r)' >= Copies(r)
                  /\ Calm => Copies(r)' = Copies(r)
  <1>1. /\ ~Fault("rejects") /\ ~Fault("losses") /\ ~Use("crashes")
        /\ ~AdminFault("rejects") /\ ~AdminFault("losses")
    BY FaultsStep
  <1>2. Copies(r) \in Nat
    BY CopiesTyped
  <1>3. ASSUME NEW request \in Requests, Send(request), UNCHANGED adminVars
        PROVE  \/ TimesSent(r)' = TimesSent(r) + 1 /\ Copies(r)' = Copies(r) + 1
               \/ TimesSent(r)' = TimesSent(r) /\ Copies(r)' = Copies(r)
    BY <1>3, SendMoves
  <1>4. ASSUME Copies(r)' = Copies(r)
        PROVE  M
    BY <1>2, <1>4
  <1>5. ASSUME \A request \in Requests : ~(Send(request) /\ UNCHANGED adminVars)
        PROVE  M /\ TimesSent(r)' = TimesSent(r)
    <2>1. UNCHANGED requested
      BY <1>5, OnlyTheMarketSends
    <2>2. TimesSent(r)' = TimesSent(r)
      BY <2>1 DEF TimesSent
    <2>3. ASSUME Consumes, UNCHANGED adminVars
          PROVE  M
      BY <2>3, ConsumerMoves DEF Calm, Unfaulted
    <2>4. ASSUME TakesPublication, UNCHANGED adminVars
          PROVE  M
      BY <1>1, <1>4, <2>4, TakesPublicationMoves
    <2>5. ASSUME RequeuesExpired \/ Environment \/ Shutdown \/ CloseConsumer,
                 UNCHANGED adminVars
          PROVE  M
      BY <1>1, <1>5, <2>5, SurroundingMoves DEF Calm
    <2>6. ASSUME ProcessEnds
          PROVE  M
      <3>1. ~Calm
        BY <1>1, <2>6 DEF ProcessEnds, Exit, Crash, Calm, Running
      <3> QED BY <1>1, <2>6, <3>1, ExitMoves
    <2>7. ASSUME \/ \E c \in Callers : TakesLock(c) \/ CallSteps(c, life)
                 \/ AdminChannelSteps(life)
                 \/ AdminEnvironment,
                 UNCHANGED beside
          PROVE  M
      BY <1>1, <2>7, AdminMoves DEF Calm, Unfaulted
    <2>8. ASSUME UNCHANGED operationsVars
          PROVE  M
      <3>1. Copies(r)' = Copies(r)
        BY <2>8, CopiesSame DEF operationsVars, serviceVars, messagingVars, queueVars,
                                channelVars, consumerVars, processVars, adminVars,
                                adminChannelVars
      <3> QED BY <1>4, <3>1
    <2> HIDE DEF M
    <2>9. M
      BY <2>3, <2>4, <2>5, <2>6, <2>7, <2>8
         DEF OperationsNext, ServiceSteps, AdminSteps, AdminBroker
    <2> QED BY <2>2, <2>9
  <1> QED BY <1>2, <1>3, <1>5

(* The arithmetic of the copies c of a message that was sent t times, and   *)
(* both after a step.                                                       *)
LEMMA CopiesBalance ==
    ASSUME NEW c \in Nat, NEW k \in Nat, NEW t \in Nat, NEW u \in Nat
    PROVE  /\ u = t + 1 /\ k = c + 1 /\ t <= c => u <= k
           /\ u = t + 1 /\ k = c + 1 /\ c = t => k = u
           /\ u = t /\ k >= c /\ t <= c => u <= k
           /\ u = t /\ k = c /\ c = t => k = u
  OBVIOUS

(* How often a request was sent is a natural number.                        *)
LEMMA TimesTyped ==
    ASSUME NEW r
    PROVE  /\ QueuesTyped => TimesSent(r) \in Nat
           /\ QueuesTyped' => TimesSent(r)' \in Nat
  BY DEF QueuesTyped, IsQueue, TimesSent, BagIn, BagToSet

(* Every step keeps the account.                                            *)
LEMMA MovedStep ==
    ASSUME OperationsInv, OperationsInv', OutcomesInv, FaultsTyped, KeptInv,
           QueuesTyped, SingleInv, MovedInv, [OperationsNext]_operationsVars
    PROVE  MovedInv'
  <1>1. FaultsTyped' /\ QueuesTyped'
    BY FaultsStep, QueuesStep
  <1>2. Undisturbed' => (NothingDropped /\ NoGiveUps)'
    <2>1. \A f \in FaultCounts :
             f = [timeouts |-> 0, rejects |-> 0, losses |-> 0] =>
                f.timeouts = 0 /\ f.rejects = 0 /\ f.losses = 0
      BY DEF FaultCounts
    <2> QED BY <1>1, <2>1 DEF FaultsTyped, Undisturbed, NothingDropped, NoGiveUps,
                              Publisher!NoFaults, Admin!NoFaults
  <1>3. NothingDropped' => NothingDropped
    BY FaultsStep
  <1>4. Undisturbed' =>
           /\ Undisturbed /\ Running /\ Unfaulted
           /\ ~Fault("timeouts") /\ ~AdminFault("timeouts") /\ ~Use("shutdowns")
    BY <1>2, FaultsStep, UndisturbedIs DEF KeptInv, MovedInv
  <1>5. Undisturbed' => Unfaulted'
    BY <1>2, <1>4, UnfaultedStep
  <1>6. ASSUME NEW r \in Requests
        PROVE  /\ Copies(r) \in Nat /\ Copies(r)' \in Nat
               /\ TimesSent(r) \in Nat /\ TimesSent(r)' \in Nat
    BY <1>1, CopiesTyped, CopiesTypedNext, TimesTyped
  <1>7. ASSUME NothingDropped', NEW r \in Requests
        PROVE  TimesSent(r)' <= Copies(r)'
    <2>1. TimesSent(r) <= Copies(r)
      BY <1>3, <1>7 DEF MovedInv
    <2>2. \/ TimesSent(r)' = TimesSent(r) + 1 /\ Copies(r)' = Copies(r) + 1
          \/ TimesSent(r)' = TimesSent(r) /\ Copies(r)' >= Copies(r)
      BY <1>7, StepMoves
    <2> QED BY <1>6, <2>1, <2>2, CopiesBalance
  <1>8. ASSUME Undisturbed', AnswersOnce, NEW r \in Requests
        PROVE  Copies(r)' = TimesSent(r)'
    <2>1. Copies(r) = TimesSent(r)
      BY <1>4, <1>8 DEF MovedInv
    <2>2. Calm /\ NothingDropped'
      BY <1>2, <1>4, <1>8 DEF Calm, SingleInv
    <2>3. \/ TimesSent(r)' = TimesSent(r) + 1 /\ Copies(r)' = Copies(r) + 1
          \/ TimesSent(r)' = TimesSent(r) /\ Copies(r)' = Copies(r)
      BY <2>2, StepMoves
    <2> QED BY <1>6, <2>1, <2>3, CopiesBalance
  <1>9. AnswersOnce' => AnswersOnce
    BY DEF AnswersOnce
  <1> QED BY <1>5, <1>7, <1>8, <1>9 DEF MovedInv

(* There is nothing at first.                                               *)
LEMMA MovedStart ==
    ASSUME OperationsInit
    PROVE  OwnInv /\ SingleInv /\ MovedInv
  <1>1. /\ wire = << >> /\ confirmations = << >> /\ publisherOpen = TRUE
        /\ adminWire = << >> /\ adminConfirmations = << >> /\ adminOpen = TRUE
        /\ pc = "idle" /\ failureMode = "normal" /\ copies = 0
        /\ inbound = EmptyBag /\ retryQueue = EmptyBag /\ dlq = EmptyBag
        /\ outcomes = EmptyBag /\ requested = EmptyBag /\ DOMAIN requested = {}
    BY DeliveryStart DEF OperationsInit, Init, MessagingInit, Publisher!ChannelInit,
                         AdminInit, Admin!ChannelInit
  <1>2. ASSUME NEW r
        PROVE  Copies(r) = 0 /\ TimesSent(r) = 0
    <2>1. /\ CopiesQueued(r, inbound) = 0 /\ CopiesQueued(r, retryQueue) = 0
          /\ CopiesQueued(r, dlq) = 0 /\ CopiesQueued(r, outcomes) = 0
      BY <1>1, EmptyQueue
    <2>2. CopiesSent(r, wire) = 0 /\ CopiesSent(r, adminWire) = 0
      <3>1. {i \in DOMAIN << >> : << >>[i].message.request = r} = {}
        OBVIOUS
      <3> QED BY <1>1, <3>1, FS_EmptySet DEF CopiesSent
    <2>3. Hand(r, consumerOpen, pc, delivery) = 0
      BY <1>1 DEF Hand
    <2>4. Copies(r) = 0
      BY <2>1, <2>2, <2>3, CopiesAre
    <2> QED BY <1>1, <2>4 DEF TimesSent, BagIn, BagToSet
  <1>3. OwnInv /\ SingleInv
    BY <1>1 DEF OwnInv, OwnOnWire, SingleInv
  <1>4. Unfaulted
    BY <1>1, NoneIsOnlyAcks DEF Unfaulted
  <1> QED BY <1>2, <1>3, <1>4 DEF MovedInv

(* In every state, whatever is late, given up or told to stop, each message *)
(* that was sent is somewhere as long as nothing is dropped: there are at   *)
(* least as many messages and outcomes of a request as times it was sent.   *)
(* And there are exactly as many as long as no wait is given up either and  *)
(* two answers are not asked for.                                           *)
THEOREM MovedInductive ==
    OperationsSpec => [](QueuesTyped /\ OwnInv /\ SingleInv /\ MovedInv)
  <1>1. OperationsInit => QueuesTyped /\ OwnInv /\ SingleInv /\ MovedInv
    BY QueuesStart, MovedStart
  <1>2. /\ OperationsInv /\ OperationsInv' /\ OutcomesInv /\ FaultsTyped /\ KeptInv
        /\ QueuesTyped /\ OwnInv /\ SingleInv /\ MovedInv
        /\ [OperationsNext]_operationsVars
        => (QueuesTyped /\ OwnInv /\ SingleInv /\ MovedInv)'
    BY QueuesStep, OwnStep, SingleStep, MovedStep
  <1> QED BY <1>1, <1>2, OutcomesInductive, SafeInductive, KeptInductive, PTL
          DEF OperationsSpec

(* Retrying, dead-lettering and requeueing move a message and neither copy  *)
(* nor lose it: without a fault each message the market has sent is in      *)
(* exactly one place, as a request or as the outcome that answers it,       *)
(* however consumer, admin and broker interleave.                           *)
THEOREM MessagesAreMovedHolds == OperationsSpec => []MessagesAreMoved
  <1>1. MovedInv => MessagesAreMoved
    BY DEF MovedInv, MessagesAreMoved
  <1> QED BY <1>1, MovedInductive, PTL

(* Waits that are given up, shutdowns and second answers only add copies:   *)
(* as long as nothing is dropped, a request that was sent n times is there  *)
(* n times, so that none of several equal messages is lost behind another.  *)
THEOREM NoMessageMissing ==
    OperationsSpec =>
        [](NothingDropped => \A r \in Requests : TimesSent(r) <= Copies(r))
  <1>1. MovedInv => (NothingDropped => \A r \in Requests : TimesSent(r) <= Copies(r))
    BY DEF MovedInv
  <1> QED BY <1>1, MovedInductive, PTL

-----------------------------------------------------------------------------
(* The confirmations that a process has or will have to read from the       *)
(* admin's channel: those that came and those of its publications on the    *)
(* wire.                                                                    *)
OfLife(n) == {p \in AdminPublications : p.life = n}

Unread(w, confirmed, n) == Len(confirmed) + Cardinality(Places(w, OfLife(n)))

(* Nothing on the wire is from a process that is still to come.             *)
FromThePast(w, n) == \A i \in DOMAIN w : w[i].life <= n

(* The admin waits for one confirmation at a time, and what else is unread  *)
(* was given up.                                                            *)
UnreadInv ==
    /\ adminConfirmations \in Seq(BOOLEAN)
    /\ ~adminOpen => adminWire = << >>
    /\ FromThePast(adminWire, life)
    /\ Unread(adminWire, adminConfirmations, life) <= adminFaults.timeouts + 1
    /\ ~AdminWaits =>
          Unread(adminWire, adminConfirmations, life) <= adminFaults.timeouts

(* A publication is one confirmation more to read, the broker that takes it *)
(* turns it into one that came, and reading one leaves one less.            *)
LEMMA UnreadMoves ==
    ASSUME NEW w \in Seq(AdminPublications), NEW confirmed \in Seq(BOOLEAN), NEW n
    PROVE  /\ Unread(w, confirmed, n) \in Nat
           /\ Len(confirmed) <= Unread(w, confirmed, n)
           /\ \A p \in AdminPublications :
                 Unread(Append(w, p), confirmed, n) <= Unread(w, confirmed, n) + 1
           /\ w # << >> /\ Head(w).life = n =>
                 \A c \in Seq(BOOLEAN) : Len(c) = Len(confirmed) + 1 =>
                    Unread(Tail(w), c, n) = Unread(w, confirmed, n)
           /\ w # << >> /\ Head(w).life # n =>
                 Unread(Tail(w), confirmed, n) = Unread(w, confirmed, n)
           /\ confirmed # << >> => Unread(w, Tail(confirmed), n)
                                      = Unread(w, confirmed, n) - 1
           /\ Unread(<< >>, confirmed, n) <= Unread(w, confirmed, n)
           /\ Unread(<< >>, << >>, n) = 0
  <1> DEFINE C(v) == Cardinality(Places(v, OfLife(n)))
  <1>1. C(w) \in Nat
    BY PlacesFinite
  <1>2. \A p \in AdminPublications : C(Append(w, p)) \in {C(w), C(w) + 1}
    BY PlacesAppend
  <1>3. w # << >> => /\ Head(w).life = n => C(Tail(w)) = C(w) - 1
                     /\ Head(w).life # n => C(Tail(w)) = C(w)
    <2>1. w # << >> => Head(w) \in AdminPublications
      OBVIOUS
    <2> QED BY <2>1, PlacesTail DEF OfLife
  <1>4. C(<< >>) = 0
    <2>1. Places(<< >>, OfLife(n)) = {}
      BY DEF Places
    <2> QED BY <2>1, FS_EmptySet
  <1>5. /\ Len(confirmed) \in Nat /\ Len(<< >>) = 0
        /\ confirmed # << >> => Len(Tail(confirmed)) = Len(confirmed) - 1
    OBVIOUS
  <1>6. \A v, c : Unread(v, c, n) = Len(c) + C(v)
    BY DEF Unread
  <1> HIDE DEF C
  <1>7. /\ Unread(w, confirmed, n) \in Nat
        /\ Len(confirmed) <= Unread(w, confirmed, n)
        /\ Unread(<< >>, confirmed, n) <= Unread(w, confirmed, n)
        /\ Unread(<< >>, << >>, n) = 0
    BY <1>1, <1>4, <1>5, <1>6
  <1>8. \A p \in AdminPublications :
           Unread(Append(w, p), confirmed, n) <= Unread(w, confirmed, n) + 1
    <2>1. ASSUME NEW p \in AdminPublications
          PROVE  Unread(Append(w, p), confirmed, n) <= Unread(w, confirmed, n) + 1
      <3>1. /\ Unread(Append(w, p), confirmed, n) = Len(confirmed) + C(Append(w, p))
            /\ Unread(w, confirmed, n) = Len(confirmed) + C(w)
        BY <1>6
      <3>2. C(Append(w, p)) \in {C(w), C(w) + 1}
        BY <1>2
      <3> QED BY <1>1, <1>5, <3>1, <3>2
    <2> QED BY <2>1
  <1>9. ASSUME w # << >>, Head(w).life = n, NEW c \in Seq(BOOLEAN),
               Len(c) = Len(confirmed) + 1
        PROVE  Unread(Tail(w), c, n) = Unread(w, confirmed, n)
    <2>1. /\ Unread(Tail(w), c, n) = Len(c) + C(Tail(w))
          /\ Unread(w, confirmed, n) = Len(confirmed) + C(w)
      BY <1>6
    <2>2. C(Tail(w)) = C(w) - 1
      BY <1>3, <1>9
    <2> QED BY <1>1, <1>5, <1>9, <2>1, <2>2
  <1>10. w # << >> /\ Head(w).life # n =>
            Unread(Tail(w), confirmed, n) = Unread(w, confirmed, n)
    BY <1>1, <1>3, <1>5, <1>6
  <1>11. confirmed # << >> =>
            Unread(w, Tail(confirmed), n) = Unread(w, confirmed, n) - 1
    <2>1. /\ Unread(w, Tail(confirmed), n) = Len(Tail(confirmed)) + C(w)
          /\ Unread(w, confirmed, n) = Len(confirmed) + C(w)
      BY <1>6
    <2> QED BY <1>1, <1>5, <2>1
  <1> QED BY <1>7, <1>8, <1>9, <1>10, <1>11

(* What the broker takes and what a process publishes keeps the wire free   *)
(* of later processes, and to the next process none of it is its own.       *)
LEMMA PastMoves ==
    ASSUME NEW w \in Seq(AdminPublications), NEW n \in Nat, FromThePast(w, n)
    PROVE  /\ \A p \in AdminPublications : p.life = n => FromThePast(Append(w, p), n)
           /\ w # << >> => FromThePast(Tail(w), n)
           /\ FromThePast(w, n + 1) /\ Unread(w, << >>, n + 1) = 0
           /\ FromThePast(<< >>, n) /\ FromThePast(<< >>, n + 1)
  <1>1. \A i \in DOMAIN w : w[i].life \in Nat /\ w[i].life <= n
    <2>1. \A i \in DOMAIN w : w[i] \in AdminPublications
      OBVIOUS
    <2> QED BY <2>1 DEF FromThePast, AdminPublications
  <1>2. ASSUME NEW p \in AdminPublications, p.life = n
        PROVE  FromThePast(Append(w, p), n)
    <2>1. \A i \in DOMAIN Append(w, p) : i \in DOMAIN w \/ Append(w, p)[i] = p
      OBVIOUS
    <2>2. \A i \in DOMAIN w : Append(w, p)[i] = w[i]
      OBVIOUS
    <2> QED BY <1>1, <1>2, <2>1, <2>2 DEF FromThePast
  <1>3. w # << >> => FromThePast(Tail(w), n)
    <2>1. w # << >> => \A i \in DOMAIN Tail(w) :
                          i + 1 \in DOMAIN w /\ Tail(w)[i] = w[i + 1]
      OBVIOUS
    <2> QED BY <1>1, <2>1 DEF FromThePast
  <1>4. FromThePast(w, n + 1)
    BY <1>1 DEF FromThePast
  <1>5. Unread(w, << >>, n + 1) = 0
    <2>1. Places(w, OfLife(n + 1)) = {}
      BY <1>1 DEF Places, OfLife
    <2>2. Len(<< >>) = 0 /\ Cardinality(Places(w, OfLife(n + 1))) = 0
      BY <2>1, FS_EmptySet
    <2> QED BY <2>2 DEF Unread
  <1>6. FromThePast(<< >>, n) /\ FromThePast(<< >>, n + 1)
    BY DEF FromThePast
  <1> QED BY <1>2, <1>3, <1>4, <1>5, <1>6

(* Timeouts of the admin are only counted up.                               *)
LEMMA TimeoutsStep ==
    ASSUME FaultsTyped, [OperationsNext]_operationsVars
    PROVE  /\ adminFaults.timeouts \in Nat /\ adminFaults'.timeouts \in Nat
           /\ adminFaults'.timeouts >= adminFaults.timeouts
           /\ AdminFault("timeouts") =>
                 adminFaults'.timeouts = adminFaults.timeouts + 1
  <1>1. adminFaults \in FaultCounts
    BY DEF FaultsTyped
  <1>2. \A x \in FaultKinds : AdminFault(x) =>
           /\ adminFaults'.timeouts \in Nat
           /\ adminFaults'.timeouts >= adminFaults.timeouts
           /\ x = "timeouts" => adminFaults'.timeouts = adminFaults.timeouts + 1
    BY <1>1 DEF AdminFault, FaultKinds, FaultCounts
  <1>3. adminFaults.timeouts \in Nat
    BY <1>1 DEF FaultCounts
  <1> QED BY <1>2, <1>3, FaultsOfStep DEF FaultKinds

(* Whoever has waited for the confirmation waits no longer, and nobody else *)
(* does.                                                                    *)
LEMMA WaitEnds ==
    ASSUME OperationsInv, NEW c \in Callers, Requeued(c) \/ RequeueFails(c)
    PROVE  ~AdminWaits'
  <1>1. CallsTyped /\ AdminTypeOK /\ call[c].pc = "confirming"
    BY DEF OperationsInv, Requeued, RequeueFails
  <1>2. MovesTo(c, "looping") \/ MovesTo(c, "returned")
    <2> DEFINE e == [call[c] EXCEPT !.pc = "looping",
                                    !.requeued = call[c].requeued + 1]
    <2>1. call[c] \in CallRecords
      BY <1>1 DEF CallsTyped
    <2>2. e \in CallRecords /\ e.pc = "looping"
      <3>1. call[c].requeued + 1 \in Int
        BY <2>1 DEF CallRecords
      <3> QED BY <2>1, <3>1 DEF CallRecords
    <2>3. call' = [call EXCEPT ![c] = e] \/ Return(c)
      BY <1>1 DEF Requeued, RequeueFails, CallsTyped
    <2> HIDE DEF e
    <2> QED BY <1>1, <2>2, <2>3, CallMoves
  <1>3. \A d \in Callers \ {c} : call[d].pc \notin {"looping", "confirming"}
    BY <1>1, AloneInLoop
  <1> QED BY <1>2, <1>3 DEF MovesTo, AdminWaits

(* No step of a call, of the broker or of the admin's connection leaves     *)
(* more unread than was given up and is waited for.                         *)
LEMMA AdminUnread ==
    ASSUME OperationsInv, FaultsTyped, UnreadInv, [OperationsNext]_operationsVars,
           UNCHANGED life,
           \/ \E c \in Callers : TakesLock(c) \/ CallSteps(c, life)
           \/ AdminChannelSteps(life)
           \/ AdminEnvironment
    PROVE  UnreadInv'
  <1> DEFINE u == Unread(adminWire, adminConfirmations, life)
  <1> DEFINE v == Unread(adminWire', adminConfirmations', life)
  <1> DEFINE t == adminFaults.timeouts
  <1> DEFINE s == adminFaults'.timeouts
  <1> DEFINE K == /\ adminConfirmations' \in Seq(BOOLEAN)
                  /\ ~adminOpen' => adminWire' = << >>
                  /\ FromThePast(adminWire', life)
                  /\ v <= s + 1
                  /\ ~AdminWaits' => v <= s
  <1>1. /\ adminWire \in Seq(AdminPublications) /\ life \in Nat
        /\ adminConfirmations \in Seq(BOOLEAN)
        /\ ~adminOpen => adminWire = << >>
        /\ FromThePast(adminWire, life)
    BY DEF OperationsInv, MessagesTyped, UnreadInv
  <1>2. u <= t + 1 /\ (~AdminWaits => u <= t)
    BY DEF UnreadInv
  <1>3. /\ t \in Nat /\ s \in Nat /\ s >= t
        /\ AdminFault("timeouts") => s = t + 1
    BY TimeoutsStep
  <1>4. u \in Nat
    BY <1>1, UnreadMoves
  <1>5. CallsTyped /\ AdminTypeOK
    BY DEF OperationsInv
  <1> HIDE DEF t, s
  <1>6. ASSUME NEW c \in Callers,
               \/ TakesLock(c) \/ RequeueEnds(c) \/ StartScrape(c) \/ ClientGone(c)
               \/ \E q \in RequeueRequests : StartRequeue(c, q)
        PROVE  K
    <2>1. UNCHANGED adminChannelVars /\ (AdminWaits' <=> AdminWaits)
      BY <1>6, CallsApart DEF OperationsInv
    <2>2. UNCHANGED <<adminWire, adminConfirmations, adminOpen>> /\ v = u
      BY <2>1 DEF adminChannelVars
    <2> HIDE DEF u, v
    <2> QED BY <1>1, <1>2, <1>3, <1>4, <2>1, <2>2
  <1>7. ASSUME NEW c \in Callers, NEW m \in DOMAIN dlq, RequeueOne(c, m, life)
        PROVE  K
    <2> DEFINE p == Publication("request", Message(m.request, 0), life)
    <2>1. /\ call[c].pc = "looping" /\ Step(c, "confirming")
          /\ adminOpen /\ adminWire' = Append(adminWire, p)
          /\ UNCHANGED <<adminConfirmations, adminOpen>>
      BY <1>7 DEF RequeueOne, Admin!Publish
    <2>2. ~AdminWaits
      BY <1>5, <2>1, AloneInLoop DEF AdminWaits
    <2>3. AdminWaits'
      BY <1>5, <2>1, CallMoves DEF MovesTo, AdminWaits
    <2>4. p \in AdminPublications /\ p.life = life
      <3>1. m.request \in Requests
        BY DEF OperationsInv, MessagesTyped, DeadLetters
      <3>2. 0 \in 0..MaxRetryCount
        BY ServiceAssumption
      <3> QED BY <1>1, <3>1, <3>2
              DEF Publication, Message, AdminPublications, QueuedMessages
    <2> HIDE DEF p
    <2>5. FromThePast(adminWire', life)
      BY <1>1, <2>1, <2>4, PastMoves
    <2>6. v <= u + 1 /\ v \in Nat
      <3>1. adminWire' \in Seq(AdminPublications)
        BY <1>1, <2>1, <2>4
      <3> QED BY <1>1, <2>1, <2>4, <3>1, UnreadMoves
    <2> HIDE DEF u, v
    <2>7. v <= s + 1
      BY <1>2, <1>3, <1>4, <2>2, <2>6
    <2> QED BY <1>1, <2>1, <2>3, <2>5, <2>7
  <1>8. ASSUME NEW c \in Callers, Requeued(c) \/ RequeueFails(c)
        PROVE  K
    <2>1. UNCHANGED <<adminWire, adminOpen>> /\ ~AdminWaits'
      BY <1>8, WaitEnds DEF Requeued, RequeueFails
    <2>2. \/ /\ adminConfirmations # << >>
             /\ adminConfirmations' = Tail(adminConfirmations)
          \/ /\ ~adminOpen /\ adminConfirmations = << >>
             /\ UNCHANGED adminConfirmations
          \/ AdminFault("timeouts") /\ UNCHANGED adminConfirmations
      BY <1>8 DEF Requeued, RequeueFails, Admin!TakeConfirmation, Admin!GiveUp,
                  AdminFault
    <2>3. adminConfirmations' \in Seq(BOOLEAN)
      BY <1>1, <2>2
    <2>4. CASE /\ adminConfirmations # << >>
               /\ adminConfirmations' = Tail(adminConfirmations)
      <3>1. v = u - 1
        BY <1>1, <2>1, <2>4, UnreadMoves
      <3> HIDE DEF u, v
      <3>2. v <= s /\ v <= s + 1
        BY <1>2, <1>3, <1>4, <3>1
      <3> QED BY <1>1, <2>1, <2>3, <3>2
    <2>5. CASE /\ ~adminOpen /\ adminConfirmations = << >>
               /\ UNCHANGED adminConfirmations
      <3>1. v = 0
        BY <1>1, <2>1, <2>5, UnreadMoves
      <3> HIDE DEF u, v
      <3>2. v <= s /\ v <= s + 1
        BY <1>3, <3>1
      <3> QED BY <1>1, <2>1, <2>3, <3>2
    <2>6. CASE AdminFault("timeouts") /\ UNCHANGED adminConfirmations
      <3>1. v = u
        BY <2>1, <2>6
      <3> HIDE DEF u, v
      <3>2. v <= s /\ v <= s + 1
        BY <1>2, <1>3, <1>4, <2>6, <3>1
      <3> QED BY <1>1, <2>1, <2>3, <3>2
    <2> QED BY <2>2, <2>4, <2>5, <2>6
  <1>9. ASSUME AdminChannelSteps(life)
        PROVE  K
    <2>1. /\ adminWire # << >> /\ adminWire' = Tail(adminWire)
          /\ UNCHANGED <<call, adminOpen>>
      BY <1>9 DEF AdminChannelSteps, AdminAccepts, AdminRefuses, Admin!Accepts,
                  Admin!Refuses
    <2>2. \E ack \in BOOLEAN : Admin!Confirm(Head(adminWire), life, ack)
      BY <1>9, Zenon DEF AdminChannelSteps, AdminAccepts, AdminRefuses,
                         Admin!Accepts, Admin!Refuses
    <2>3. adminConfirmations' \in Seq(BOOLEAN) /\ v = u
      <3>1. CASE Head(adminWire).life = life
        <4>1. PICK ack \in BOOLEAN :
                 adminConfirmations' = Append(adminConfirmations, ack)
          BY <2>2, <3>1, Zenon DEF Admin!Confirm
        <4>2. /\ adminConfirmations' \in Seq(BOOLEAN)
              /\ Len(adminConfirmations') = Len(adminConfirmations) + 1
          BY <1>1, <4>1
        <4> QED BY <1>1, <2>1, <3>1, <4>2, UnreadMoves
      <3>2. CASE Head(adminWire).life # life
        <4>1. UNCHANGED adminConfirmations
          BY <2>2, <3>2, Zenon DEF Admin!Confirm
        <4> QED BY <1>1, <2>1, <3>2, <4>1, UnreadMoves
      <3> QED BY <3>1, <3>2
    <2>4. FromThePast(adminWire', life)
      BY <1>1, <2>1, PastMoves
    <2>5. AdminWaits' <=> AdminWaits
      BY <2>1 DEF AdminWaits
    <2> HIDE DEF u, v
    <2>6. v <= s + 1 /\ (~AdminWaits => v <= s)
      BY <1>2, <1>3, <1>4, <2>3
    <2> QED BY <1>1, <2>1, <2>3, <2>4, <2>5, <2>6
  <1>10. ASSUME AdminLost
         PROVE  K
    <2>1. adminWire' = << >> /\ UNCHANGED <<call, adminConfirmations>>
      BY <1>10 DEF AdminLost, Admin!Lost
    <2>2. v <= u /\ v \in Nat
      <3>1. << >> \in Seq(AdminPublications)
        OBVIOUS
      <3> QED BY <1>1, <2>1, <3>1, UnreadMoves
    <2>3. FromThePast(adminWire', life)
      BY <1>1, <2>1, PastMoves
    <2>4. AdminWaits' <=> AdminWaits
      BY <2>1 DEF AdminWaits
    <2> HIDE DEF u, v
    <2>5. v <= s + 1 /\ (~AdminWaits => v <= s)
      BY <1>2, <1>3, <1>4, <2>2
    <2> QED BY <1>1, <2>1, <2>3, <2>4, <2>5
  <1>11. K
    <2> HIDE DEF K
    <2> QED BY <1>6, <1>7, <1>8, <1>9, <1>10 DEF CallSteps, AdminEnvironment
  <1> QED BY <1>11 DEF UnreadInv, s

(* A process that starts has nothing to read.                               *)
LEMMA RestartUnread ==
    ASSUME OperationsInv, FaultsTyped, UnreadInv, [OperationsNext]_operationsVars,
           ProcessEnds
    PROVE  UnreadInv'
  <1>1. /\ adminConfirmations' = << >> /\ adminOpen' = TRUE
        /\ adminWire' = adminWire \/ adminWire' = << >>
        /\ life' = life + 1
    BY DEF ProcessEnds, AdminRestarts, Exit, Crash, StartAgain
  <1>2. /\ adminWire \in Seq(AdminPublications) /\ life \in Nat
        /\ FromThePast(adminWire, life)
    BY DEF OperationsInv, MessagesTyped, UnreadInv
  <1>3. << >> \in Seq(BOOLEAN) /\ << >> \in Seq(AdminPublications)
    OBVIOUS
  <1>4. FromThePast(adminWire', life')
    BY <1>1, <1>2, PastMoves
  <1>5. Unread(adminWire', adminConfirmations', life') = 0
    BY <1>1, <1>2, <1>3, PastMoves, UnreadMoves
  <1>6. adminFaults'.timeouts \in Nat
    BY TimeoutsStep
  <1> QED BY <1>1, <1>3, <1>4, <1>5, <1>6 DEF UnreadInv

(* No step leaves more unread than was given up and is waited for.          *)
LEMMA UnreadStep ==
    ASSUME OperationsInv, FaultsTyped, UnreadInv, [OperationsNext]_operationsVars
    PROVE  UnreadInv'
  <1>1. CASE ProcessEnds
    BY <1>1, RestartUnread
  <1>2. CASE UNCHANGED <<adminVars, life>>
    BY <1>2 DEF UnreadInv, AdminWaits, adminVars, adminChannelVars
  <1>3. CASE /\ \/ \E c \in Callers : TakesLock(c) \/ CallSteps(c, life)
                \/ AdminChannelSteps(life)
                \/ AdminEnvironment
             /\ UNCHANGED life
    BY <1>3, AdminUnread
  <1>4. ProcessEnds \/ UNCHANGED life
    BY LifeStep
  <1>5. UNCHANGED operationsVars => UNCHANGED adminVars
    BY DEF operationsVars
  <1> QED BY <1>1, <1>2, <1>3, <1>4, <1>5
          DEF OperationsNext, AdminSteps, AdminBroker

(* What is unread of the admin's confirmations is bounded by the waits that *)
(* were given up, plus the one that goes on.                                *)
THEOREM UnreadInductive == OperationsSpec => []UnreadInv
  <1>1. OperationsInit => UnreadInv
    <2> SUFFICES ASSUME OperationsInit
                 PROVE  UnreadInv
      OBVIOUS
    <2>1. /\ adminWire = << >> /\ adminConfirmations = << >> /\ adminOpen = TRUE
          /\ adminFaults.timeouts = 0
      BY DEF OperationsInit, AdminInit, Admin!ChannelInit, Admin!NoFaults
    <2>2. << >> \in Seq(BOOLEAN) /\ << >> \in Seq(AdminPublications)
      OBVIOUS
    <2>3. Unread(adminWire, adminConfirmations, life) = 0
      BY <2>1, <2>2, UnreadMoves
    <2>4. FromThePast(adminWire, life)
      BY <2>1 DEF FromThePast
    <2> QED BY <2>1, <2>2, <2>3, <2>4 DEF UnreadInv
  <1>2. OperationsInv /\ FaultsTyped /\ UnreadInv
           /\ [OperationsNext]_operationsVars => UnreadInv'
    BY UnreadStep
  <1> QED BY <1>1, <1>2, OutcomesInductive, SafeInductive, PTL DEF OperationsSpec

(* As long as at most one requeue was given up, the caller that holds the   *)
(* mutex and is about to Get a dead letter is answered: at most one         *)
(* confirmation is in the channel, which has room for one.  Nobody waits    *)
(* behind the mutex for a caller that the client library has blocked.       *)
THEOREM GetIsAnsweredHolds == OperationsSpec => []GetIsAnswered
  <1>1. OperationsInv /\ FaultsTyped /\ UnreadInv => GetIsAnswered
    <2> SUFFICES ASSUME OperationsInv, FaultsTyped, UnreadInv,
                        NEW c \in Callers, call[c].pc = "looping",
                        adminFaults.timeouts <= 1
                 PROVE  Admin!Responsive
      BY DEF GetIsAnswered
    <2>1. ~AdminWaits
      <3>1. CallsTyped /\ AdminTypeOK
        BY DEF OperationsInv
      <3> QED BY <3>1, AloneInLoop DEF AdminWaits
    <2>2. /\ adminWire \in Seq(AdminPublications)
          /\ adminConfirmations \in Seq(BOOLEAN)
          /\ Unread(adminWire, adminConfirmations, life) <= adminFaults.timeouts
      BY <2>1 DEF OperationsInv, MessagesTyped, UnreadInv
    <2>3. /\ Len(adminConfirmations) <= Unread(adminWire, adminConfirmations, life)
          /\ Unread(adminWire, adminConfirmations, life) \in Nat
          /\ Len(adminConfirmations) \in Nat
      BY <2>2, UnreadMoves
    <2>4. adminFaults.timeouts \in Nat
      BY DEF FaultsTyped, FaultCounts
    <2> QED BY <2>2, <2>3, <2>4 DEF Admin!Responsive
  <1> QED BY <1>1, UnreadInductive, OutcomesInductive, SafeInductive, PTL

-----------------------------------------------------------------------------
(* The publications that are counted, of those the service makes.           *)
Counts(d) ==
    {p \in ServicePublications : p.route = "outcome" /\ OfThisLife(p.message, d)}

(* Sent names their places on the publisher's wire.                         *)
LEMMA SentPlaces ==
    /\ MessagesTyped => \A d : Sent(d) = Places(wire, Counts(d))
    /\ MessagesTyped' => \A d : Sent(d)' = Places(wire', Counts(d)')
  <1>1. ASSUME NEW w \in Seq(ServicePublications), NEW i \in DOMAIN w
        PROVE  w[i] \in ServicePublications
    OBVIOUS
  <1> QED BY <1>1 DEF MessagesTyped, Sent, Places, Counts

(* What is published is finite.                                             *)
LEMMA PublishedTyped ==
    ASSUME OperationsInv, QueuesTyped, NEW d
    PROVE  /\ Cardinality(Taken(d)) \in Nat /\ Cardinality(Sent(d)) \in Nat
           /\ Published(d) \in Nat /\ IsFiniteSet(Taken(d))
  <1>1. IsFiniteSet(Taken(d))
    BY FS_Subset DEF QueuesTyped, IsQueue, Taken
  <1>2. Cardinality(Sent(d)) \in Nat
    BY SentPlaces, PlacesFinite DEF OperationsInv, MessagesTyped
  <1> QED BY <1>1, <1>2, FS_CardinalityType DEF Published

(* Nothing of it changes but with the wire, the outcomes and the life, ...  *)
LEMMA PublishedSame ==
    ASSUME UNCHANGED <<wire, outcomes, life>>, NEW d
    PROVE  Published(d)' = Published(d)
  BY DEF Published, Taken, Sent, OfThisLife, Items

(* What counts does not change within a life.                               *)
LEMMA CountsSame ==
    ASSUME UNCHANGED life, NEW d
    PROVE  Counts(d)' = Counts(d)
  BY DEF Counts, OfThisLife, ServicePublications, OutcomeMessages

(* ... a publication adds one if it is an outcome of this decision, ...     *)
LEMMA PublishedAdded ==
    ASSUME OperationsInv, OperationsInv', QueuesTyped, NEW p \in ServicePublications,
           Publisher!Publish(p), UNCHANGED <<outcomes, life>>, NEW d
    PROVE  /\ p \in Counts(d) => Published(d)' = Published(d) + 1
           /\ p \notin Counts(d) => Published(d)' = Published(d)
  <1>1. wire \in Seq(ServicePublications) /\ wire' = Append(wire, p)
    BY DEF OperationsInv, MessagesTyped, Publisher!Publish
  <1>2. Sent(d) = Places(wire, Counts(d)) /\ Sent(d)' = Places(wire', Counts(d))
    BY SentPlaces, CountsSame DEF OperationsInv
  <1>3. Taken(d)' = Taken(d)
    BY DEF Taken, OfThisLife, Items
  <1>4. Cardinality(Taken(d)) \in Nat /\ Cardinality(Sent(d)) \in Nat
    BY PublishedTyped
  <1>5. /\ p \in Counts(d) => Cardinality(Sent(d)') = Cardinality(Sent(d)) + 1
        /\ p \notin Counts(d) => Sent(d)' = Sent(d)
    BY <1>1, <1>2, PlacesAppend
  <1> QED BY <1>3, <1>4, <1>5 DEF Published

(* ... the broker takes it from the wire to the outcomes, ...               *)
LEMMA PublishedTaken ==
    ASSUME OperationsInv, OperationsInv', QueuesTyped, wire # << >>,
           wire' = Tail(wire), Route(Head(wire)), UNCHANGED life, NEW d
    PROVE  Published(d)' = Published(d)
  <1> DEFINE p == Head(wire)
  <1>1. wire \in Seq(ServicePublications) /\ p \in ServicePublications
    BY TakenFrom DEF OperationsInv, MessagesTyped
  <1>2. Sent(d) = Places(wire, Counts(d)) /\ Sent(d)' = Places(wire', Counts(d))
    BY SentPlaces, CountsSame DEF OperationsInv
  <1>3. /\ Cardinality(Taken(d)) \in Nat /\ Cardinality(Sent(d)) \in Nat
        /\ IsFiniteSet(Taken(d))
    BY PublishedTyped
  <1>4. /\ p \in Counts(d) => Cardinality(Sent(d)') = Cardinality(Sent(d)) - 1
        /\ p \notin Counts(d) => Cardinality(Sent(d)') = Cardinality(Sent(d))
    BY <1>1, <1>2, PlacesTail
  <1>5. CASE p.route = "outcome"
    <2>1. outcomes' = BagAdd(outcomes, p.message)
      BY <1>5 DEF Route
    <2> HIDE DEF p
    <2>2. PICK t : /\ t \notin Items(outcomes) /\ t[1] = p.message
                   /\ Items(outcomes') = Items(outcomes) \cup {t}
      BY <2>1, ItemAdded DEF QueuesTyped
    <2>3. t \notin Taken(d)
      BY <2>2 DEF Taken
    <2>4. p \in Counts(d) <=> OfThisLife(p.message, d)
      BY <1>1, <1>5 DEF Counts
    <2>5. CASE OfThisLife(p.message, d)
      <3>1. Taken(d)' = Taken(d) \cup {t}
        BY <2>2, <2>5 DEF Taken, OfThisLife
      <3>2. Cardinality(Taken(d)') = Cardinality(Taken(d)) + 1
        BY <1>3, <2>3, <3>1, FS_AddElement
      <3>3. Cardinality(Sent(d)') = Cardinality(Sent(d)) - 1
        BY <1>4, <2>4, <2>5
      <3> QED BY <1>3, <3>2, <3>3 DEF Published
    <2>6. CASE ~OfThisLife(p.message, d)
      <3>1. Taken(d)' = Taken(d)
        BY <2>2, <2>6 DEF Taken, OfThisLife
      <3>2. Cardinality(Sent(d)') = Cardinality(Sent(d))
        BY <1>4, <2>4, <2>6
      <3> QED BY <3>1, <3>2 DEF Published
    <2> QED BY <2>5, <2>6
  <1>6. CASE p.route # "outcome"
    <2>1. outcomes' = outcomes /\ p \notin Counts(d)
      BY <1>6 DEF Route, Counts
    <2>2. Taken(d)' = Taken(d)
      BY <2>1 DEF Taken, OfThisLife, Items
    <2> QED BY <1>4, <2>1, <2>2 DEF Published
  <1> QED BY <1>5, <1>6

(* ... and one that is dropped is one less.                                 *)
LEMMA PublishedDropped ==
    ASSUME OperationsInv, OperationsInv', QueuesTyped, wire # << >>,
           wire' = Tail(wire), UNCHANGED <<outcomes, life>>, NEW d
    PROVE  /\ Head(wire) \in Counts(d) => Published(d)' = Published(d) - 1
           /\ Head(wire) \notin Counts(d) => Published(d)' = Published(d)
  <1>1. wire \in Seq(ServicePublications)
    BY DEF OperationsInv, MessagesTyped
  <1>2. Sent(d) = Places(wire, Counts(d)) /\ Sent(d)' = Places(wire', Counts(d))
    BY SentPlaces, CountsSame DEF OperationsInv
  <1>3. Cardinality(Taken(d)) \in Nat /\ Cardinality(Sent(d)) \in Nat
    BY PublishedTyped
  <1>4. /\ Head(wire) \in Counts(d) =>
              Cardinality(Sent(d)') = Cardinality(Sent(d)) - 1
        /\ Head(wire) \notin Counts(d) =>
              Cardinality(Sent(d)') = Cardinality(Sent(d))
    BY <1>1, <1>2, PlacesTail
  <1>5. Taken(d)' = Taken(d)
    BY DEF Taken, OfThisLife, Items
  <1> QED BY <1>3, <1>4, <1>5 DEF Published

-----------------------------------------------------------------------------
(* A step of the consumer publishes an outcome, or counts one for which it  *)
(* has seen an ack, or does neither.                                        *)
LEMMA ConsumerCounts ==
    ASSUME OperationsInv, OperationsInv', QueuesTyped, Consumes,
           NEW d \in Decisions
    PROVE  \/ /\ counters'[d] = counters[d] /\ ~Pending(d)'
              /\ Published(d)' = Published(d)
           \/ /\ counters'[d] = counters[d]
              /\ Published(d)' = Published(d) + 1
           \/ /\ counters'[d] <= counters[d] + 1
              /\ Pending(d) /\ Acked(confirmations) /\ ~Pending(d)'
              /\ Published(d)' = Published(d)
  <1>1. UNCHANGED <<outcomes, life>>
    <2>1. UNCHANGED outcomes
      BY DEF Consumes, Handles, HandleDelivery, HandleReleaseDelivery, AfterHandler,
             ResultConfirmed, OtherConsumerSteps, ReceiveInvalid, Receive,
             PublishResult, FirstCopyConfirmed, ResultRefused, ResultTimesOut,
             ConfirmForward, ForwardTimesOut, ConsumeReturns, messagingVars,
             queueVars
    <2> QED BY <2>1, ConsumerOnWire
  <1>2. CASE ResultConfirmed /\ CountProcessed
    <2>1. /\ UNCHANGED wire /\ pc' # "confirming" /\ pc = "confirming"
          /\ reply.result \in Result
      BY <1>2 DEF ResultConfirmed, Ack, NextDelivery, OperationsInv, ConsumerTyped
    <2>2. Acked(confirmations)
      BY <1>2, Zenon DEF ResultConfirmed, Publisher!TakeConfirmation, Acked
    <2>3. Published(d)' = Published(d) /\ ~Pending(d)'
      BY <1>1, <2>1, PublishedSame DEF Pending
    <2>4. CASE reply.result.decision = d
      <3>1. counters'[d] <= counters[d] + 1
        BY <1>2, <2>4, OperationsAssumption
           DEF CountProcessed, Increment, OperationsInv, CountersTyped
      <3> QED BY <2>1, <2>2, <2>3, <2>4, <3>1 DEF Pending
    <2>5. CASE reply.result.decision # d
      <3>1. counters'[d] = counters[d]
        BY <1>2, <2>5 DEF CountProcessed, Increment, OperationsInv, CountersTyped
      <3> QED BY <2>3, <3>1
    <2> QED BY <2>4, <2>5
  <1>3. ASSUME counters'[d] = counters[d]
        PROVE  \/ /\ counters'[d] = counters[d] /\ ~Pending(d)'
                  /\ Published(d)' = Published(d)
               \/ /\ counters'[d] = counters[d]
                  /\ Published(d)' = Published(d) + 1
    <2>1. CASE UNCHANGED wire /\ pc' \notin {"confirming", "forwarding"}
      <3>1. Published(d)' = Published(d) /\ ~Pending(d)'
        BY <1>1, <2>1, PublishedSame DEF Pending
      <3> QED BY <1>3, <3>1
    <2>2. CASE PublishesOutcome
      <3> DEFINE p == Publication("outcome", Outcome(reply.result), life)
      <3>1. reply.result \in Result /\ life \in Nat
        BY <2>2 DEF PublishesOutcome, OperationsInv, ConsumerTyped, MessagesTyped
      <3>2. p \in ServicePublications
        BY <3>1, OutcomeTyped
      <3>3. p \in Counts(d) <=> reply.result.decision = d
        BY <3>2 DEF Counts, Publication, Outcome, OfThisLife
      <3>4. Publisher!Publish(p) /\ UNCHANGED reply
        BY <2>2 DEF PublishesOutcome
      <3> HIDE DEF p
      <3>5. /\ p \in Counts(d) => Published(d)' = Published(d) + 1
            /\ p \notin Counts(d) => Published(d)' = Published(d)
        BY <1>1, <3>2, <3>4, PublishedAdded
      <3>6. p \notin Counts(d) => ~Pending(d)'
        BY <3>3, <3>4 DEF Pending
      <3> QED BY <1>3, <3>5, <3>6
    <2>3. CASE PublishesForward
      <3> DEFINE p == Forwarded(delivery)
      <3>1. delivery \in QueuedMessages /\ life \in Nat
        BY <2>3 DEF PublishesForward, OperationsInv, ConsumerTyped, MessagesTyped
      <3>2. p \in ServicePublications
        BY <3>1, ForwardedTyped
      <3>3. p \notin Counts(d)
        BY DEF Counts, Forwarded, Publication
      <3>4. Publisher!Publish(p) /\ pc' = "forwarding"
        BY <2>3 DEF PublishesForward
      <3> HIDE DEF p
      <3>5. Published(d)' = Published(d)
        BY <1>1, <3>2, <3>3, <3>4, PublishedAdded
      <3> QED BY <1>3, <3>4, <3>5 DEF Pending
    <2> QED BY <2>1, <2>2, <2>3, ConsumerOnWire
  <1>4. CASE Handles /\ CountHit
    <2>1. counters'[d] = counters[d]
      BY <1>4 DEF CountHit, Increment, OperationsInv, CountersTyped, Decisions
    <2> QED BY <1>3, <2>1
  <1>5. CASE UNCHANGED counters
    BY <1>3, <1>5
  <1> QED BY <1>2, <1>4, <1>5 DEF Consumes

(* A publication is refused, or lost with the connection.                   *)
Dropped ==
    /\ wire # << >> /\ UNCHANGED <<outcomes, life, pc, reply>>
    /\ \/ /\ Fault("rejects") /\ wire' = Tail(wire)
          /\ Publisher!Confirm(Head(wire), life, FALSE)
       \/ /\ Fault("losses") /\ wire' = << >> /\ UNCHANGED confirmations

(* Around the consumer publications are taken or dropped; nothing else      *)
(* concerns what is published.                                              *)
LEMMA SurroundingPublications ==
    ASSUME TakesPublication \/ RequeuesExpired \/ Environment \/ Shutdown
              \/ CloseConsumer
    PROVE  \/ UNCHANGED <<wire, outcomes, life, pc, reply, confirmations>>
           \/ /\ wire # << >> /\ wire' = Tail(wire) /\ Route(Head(wire))
              /\ UNCHANGED <<life, pc, reply>>
           \/ Dropped
  <1>1. CASE TakesPublication
    <2>1. UNCHANGED <<life, pc, reply>>
      BY <1>1, SurroundingOnWire
    <2>2. CASE BrokerAccepts(life)
      BY <2>1, <2>2 DEF BrokerAccepts, Publisher!Accepts
    <2>3. CASE BrokerRefuses(life)
      BY <2>1, <2>3 DEF BrokerRefuses, Publisher!Refuses, queueVars, Dropped, Fault
    <2> QED BY <1>1, <2>2, <2>3 DEF TakesPublication, BrokerOnly
  <1>2. CASE ClosesPublisher
    <2>1. UNCHANGED <<life, pc, reply>>
      BY <1>2, SurroundingOnWire DEF Environment
    <2> QED BY <1>2, <2>1 DEF ClosesPublisher, BrokerOnly, PublisherLost,
                              Publisher!Lost, queueVars, Dropped, Fault
  <1>3. CASE RequeuesExpired \/ Shutdown \/ CloseConsumer
    BY <1>3 DEF RequeuesExpired, BrokerOnly, RetryExpires, Shutdown, CloseConsumer,
                ConsumerConnectionEnds, messagingVars, queueVars, channelVars,
                consumerVars, processVars, handlerVars
  <1>4. CASE Environment /\ ~ClosesPublisher
    BY <1>4 DEF Environment, Send, SetFailureMode, ChangeStock, ConsumerLost,
                ConsumerConnectionEnds, messagingVars, queueVars, channelVars,
                consumerVars, processVars, handlerVars
  <1> QED BY <1>1, <1>2, <1>3, <1>4

(* As long as no wait is given up, what is dropped is what the consumer     *)
(* waits for, and it will not be told that it was published.                *)
LEMMA DroppedIsNotBacked ==
    ASSUME OperationsInv, OperationsInv', QueuesTyped, Paced, OwnOnWire, Dropped,
           NEW d
    PROVE  /\ ~Backed(d)'
           /\ \/ Published(d)' = Published(d)
              \/ Backed(d) /\ Published(d)' = Published(d) - 1
  <1>1. /\ wire # << >> /\ confirmations = << >> /\ OneAtMost(wire)
        /\ Head(wire).life = life
    BY DEF Dropped, Paced, Awaiting, Silent
  <1>2. wire' = << >> /\ wire' = Tail(wire)
    BY <1>1, TakeAlone DEF Dropped
  <1>3. ~Acked(confirmations')
    <2>1. CASE Publisher!Confirm(Head(wire), life, FALSE)
      <3>1. confirmations' = Append(<< >>, FALSE)
        BY <1>1, <2>1, Zenon DEF Publisher!Confirm
      <3> QED BY <3>1, RefusalIsNoAck, Zenon
    <2>2. CASE UNCHANGED confirmations
      BY <1>1, <2>2, NoneIsNoAck
    <2> QED BY <2>1, <2>2 DEF Dropped
  <1>4. ~Backed(d)'
    BY <1>2, <1>3 DEF Backed
  <1>5. Head(wire) \in Counts(d) => Backed(d)
    <2>1. Head(wire) \in Counts(d) =>
             pc = "confirming"
             /\ Head(wire) = Publication("outcome", Outcome(reply.result), life)
      BY <1>1 DEF OwnOnWire, Counts, Forwarded, Publication
    <2>2. Head(wire) \in Counts(d) => Head(wire).message.decision = d
      BY DEF Counts, OfThisLife
    <2> QED BY <1>1, <2>1, <2>2 DEF Backed, Pending, Publication, Outcome
  <1>6. /\ Head(wire) \in Counts(d) => Published(d)' = Published(d) - 1
        /\ Head(wire) \notin Counts(d) => Published(d)' = Published(d)
    BY <1>1, <1>2, PublishedDropped DEF Dropped
  <1> QED BY <1>4, <1>5, <1>6

(* What is published stays finite.                                          *)
LEMMA PublishedTypedNext ==
    ASSUME OperationsInv', QueuesTyped', NEW d
    PROVE  Published(d)' \in Nat
  <1>1. IsFiniteSet(Taken(d)')
    BY FS_Subset DEF QueuesTyped, IsQueue, Taken
  <1>2. Cardinality(Sent(d)') \in Nat
    BY SentPlaces, PlacesFinite DEF OperationsInv, MessagesTyped
  <1> QED BY <1>1, <1>2, FS_CardinalityType DEF Published

(* The arithmetic of one count c and what is published p, and both after a  *)
(* step.                                                                    *)
LEMMA CountBalance ==
    ASSUME NEW c \in Nat, NEW e \in Nat, NEW p \in Nat, NEW q \in Nat
    PROVE  /\ e = c /\ q = p /\ c <= p => e <= q
           /\ e = c /\ q = p /\ c < p => e < q
           /\ e = c /\ q = p + 1 /\ c <= p => e < q /\ e <= q
           /\ e <= c + 1 /\ q = p /\ c < p => e <= q
           /\ e = c /\ q = p - 1 /\ c < p => e <= q
           /\ e = 0 => e <= q
  OBVIOUS

(* No step counts what is not published, as long as nothing is dropped and  *)
(* as long as no wait is given up.                                          *)
LEMMA CountedStep ==
    ASSUME OperationsInv, OperationsInv', FaultsTyped, KeptInv, OwnInv,
           QueuesTyped, CountedInv, [OperationsNext]_operationsVars
    PROVE  CountedInv'
  <1> DEFINE C(d) == /\ (NothingDropped \/ NoGiveUps)' => counters'[d] <= Published(d)'
                     /\ (NothingDropped /\ Pending(d))' => counters'[d] < Published(d)'
                     /\ (NoGiveUps /\ Backed(d))' => counters'[d] < Published(d)'
  <1> SUFFICES ASSUME NEW d \in Decisions
               PROVE  C(d)
    BY DEF CountedInv
  <1>1. /\ NothingDropped' => NothingDropped /\ ~Fault("rejects") /\ ~Fault("losses")
        /\ NoGiveUps' => NoGiveUps /\ Paced /\ OwnOnWire
    BY FaultsStep DEF KeptInv, OwnInv
  <1>2. /\ NothingDropped \/ NoGiveUps => counters[d] <= Published(d)
        /\ NothingDropped /\ Pending(d) => counters[d] < Published(d)
        /\ NoGiveUps /\ Backed(d) => counters[d] < Published(d)
    BY DEF CountedInv
  <1>3. /\ counters[d] \in Nat /\ counters'[d] \in Nat
        /\ Published(d) \in Nat /\ Published(d)' \in Nat
    <2>1. counters[d] \in Nat /\ counters'[d] \in Nat
      BY OperationsAssumption DEF OperationsInv, CountersTyped
    <2> QED BY <2>1, QueuesStep, PublishedTyped, PublishedTypedNext
  <1>4. ASSUME ~Pending(d)', counters'[d] <= Published(d)'
        PROVE  C(d)
    BY <1>4 DEF Backed
  <1>5. ASSUME counters'[d] = counters[d], Published(d)' = Published(d),
               Pending(d)' => Pending(d), Backed(d)' => Backed(d)
        PROVE  C(d)
    BY <1>1, <1>2, <1>3, <1>5, CountBalance
  <1>6. ASSUME UNCHANGED <<counters, wire, outcomes, life, pc, reply, confirmations>>
        PROVE  C(d)
    <2>1. UNCHANGED <<Pending(d), Backed(d)>>
      BY <1>6 DEF Pending, Backed
    <2> QED BY <1>5, <1>6, <2>1, PublishedSame
  <1>7. CASE Consumes
    <2>1. CASE /\ counters'[d] = counters[d] /\ ~Pending(d)'
               /\ Published(d)' = Published(d)
      BY <1>1, <1>2, <1>3, <2>1, CountBalance DEF Backed
    <2>2. CASE /\ counters'[d] = counters[d]
               /\ Published(d)' = Published(d) + 1
      BY <1>1, <1>2, <1>3, <2>2, CountBalance
    <2>3. CASE /\ counters'[d] <= counters[d] + 1
               /\ Pending(d) /\ Acked(confirmations) /\ ~Pending(d)'
               /\ Published(d)' = Published(d)
      <3>1. Backed(d)
        BY <2>3 DEF Backed
      <3>2. (NothingDropped \/ NoGiveUps)' => counters[d] < Published(d)
        BY <1>1, <1>2, <2>3, <3>1
      <3>3. (NothingDropped \/ NoGiveUps)' => counters'[d] <= Published(d)'
        BY <1>3, <2>3, <3>2, CountBalance
      <3> QED BY <2>3, <3>3 DEF Backed
    <2> QED BY <1>7, <2>1, <2>2, <2>3, ConsumerCounts
  <1>8. CASE /\ TakesPublication \/ RequeuesExpired \/ Environment \/ Shutdown
                \/ CloseConsumer
             /\ UNCHANGED counters
    <2>1. CASE UNCHANGED <<wire, outcomes, life, pc, reply, confirmations>>
      BY <1>6, <1>8, <2>1
    <2>2. CASE /\ wire # << >> /\ wire' = Tail(wire) /\ Route(Head(wire))
               /\ UNCHANGED <<life, pc, reply>>
      <3>1. Published(d)' = Published(d)
        BY <2>2, PublishedTaken
      <3>2. (Pending(d)' => Pending(d)) /\ (Backed(d)' => Backed(d))
        BY <2>2 DEF Pending, Backed
      <3> QED BY <1>5, <1>8, <3>1, <3>2
    <2>3. CASE Dropped
      <3>1. ~NothingDropped'
        BY <1>1, <2>3 DEF Dropped
      <3>2. CASE NoGiveUps'
        <4>1. /\ ~Backed(d)'
              /\ \/ Published(d)' = Published(d)
                 \/ Backed(d) /\ Published(d)' = Published(d) - 1
          BY <1>1, <2>3, <3>2, DroppedIsNotBacked
        <4>2. counters'[d] <= Published(d)'
          BY <1>1, <1>2, <1>3, <1>8, <3>2, <4>1, CountBalance
        <4> QED BY <3>1, <4>1, <4>2
      <3> QED BY <3>1, <3>2
    <2> QED BY <1>8, <2>1, <2>2, <2>3, SurroundingPublications
  <1>9. CASE ProcessEnds
    <2>1. counters'[d] = 0 /\ pc' = "idle"
      BY <1>9 DEF ProcessEnds, NoCounts, Exit, Crash, StartAgain
    <2>2. ~Pending(d)'
      BY <2>1 DEF Pending
    <2>3. counters'[d] <= Published(d)'
      BY <1>3, <2>1, CountBalance
    <2> QED BY <1>4, <2>2, <2>3
  <1>10. ASSUME UNCHANGED beside, UNCHANGED outcomes
         PROVE  C(d)
    BY <1>6, <1>10 DEF beside, channelVars, consumerVars, processVars, handlerVars
  <1>11. CASE /\ \/ \E c \in Callers : TakesLock(c) \/ CallSteps(c, life)
                 \/ AdminChannelSteps(life)
                 \/ AdminEnvironment
              /\ UNCHANGED beside
    <2>1. ASSUME AdminAccepts(life)
          PROVE  UNCHANGED outcomes
      <3>1. adminWire # << >> /\ Route(Head(adminWire))
        BY <2>1 DEF AdminAccepts, Admin!Accepts
      <3>2. Head(adminWire) \in AdminPublications
        BY <3>1, TakenFrom DEF OperationsInv, MessagesTyped
      <3> QED BY <3>1, <3>2 DEF AdminPublications, Route
    <2>2. UNCHANGED outcomes
      BY <1>11, <2>1 DEF TakesLock, Lock, DLQDepth, CallSteps, RequeueOne, RequeueEnds,
                  Requeued, RequeueFails, Returned, AdminChannelSteps, AdminRefuses,
                  AdminEnvironment, AdminLost, StartRequeue, StartScrape,
                  ClientGone, queueVars
    <2> QED BY <1>10, <1>11, <2>2
  <1>12. CASE UNCHANGED operationsVars
    BY <1>6, <1>12 DEF operationsVars, serviceVars, messagingVars, queueVars,
                       channelVars, consumerVars, processVars, handlerVars
  <1> QED BY <1>7, <1>8, <1>9, <1>11, <1>12
          DEF OperationsNext, ServiceSteps, AdminSteps, AdminBroker

(* Nothing is counted at first.                                             *)
LEMMA CountedStart ==
    ASSUME OperationsInit, OperationsInv
    PROVE  CountedInv
  <1>1. QueuesTyped /\ pc = "idle" /\ counters = NoCounts
    BY QueuesStart DEF OperationsInit, Init
  <1>2. \A d \in Decisions : counters[d] = 0 /\ Published(d) \in Nat
    BY <1>1, PublishedTyped DEF NoCounts
  <1> QED BY <1>1, <1>2 DEF CountedInv, Pending, Backed

(* What is counted is published, in every state before a publication was    *)
(* dropped or before a wait was given up.                                   *)
THEOREM CountedInductive == OperationsSpec => []CountedInv
  <1>1. OperationsInit /\ OperationsInv => CountedInv
    BY CountedStart
  <1>2. /\ OperationsInv /\ OperationsInv' /\ FaultsTyped /\ KeptInv /\ OwnInv
        /\ QueuesTyped /\ CountedInv /\ [OperationsNext]_operationsVars
        => CountedInv'
    BY CountedStep
  <1> QED BY <1>1, <1>2, OperationsInductive, SafeInductive, KeptInductive,
             MovedInductive, PTL
          DEF OperationsSpec

(* The counters of processed messages count no decision twice and none that *)
(* was not published: each has an outcome of its own that the same process  *)
(* published, with the broker or on its way there.  The two hypotheses      *)
(* exclude what makes the statement false: a wait that is given up leaves a *)
(* confirmation behind, and a later outcome that is refused or lost is then *)
(* counted on its strength.  Either alone does no harm.                     *)
THEOREM CountedIsPublishedHolds ==
    OperationsSpec => [](NothingDropped \/ NoGiveUps => CountedIsPublished)
  <1>1. CountedInv => (NothingDropped \/ NoGiveUps => CountedIsPublished)
    BY DEF CountedInv, CountedIsPublished, Published
  <1> QED BY <1>1, CountedInductive, PTL
=============================================================================
