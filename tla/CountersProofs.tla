--------------------------- MODULE CountersProofs ---------------------------
(***************************************************************************)
(* Proof that the metrics do not overstate: beyond the idempotency hits no *)
(* more decisions are counted as confirmed or released than the repository *)
(* holds reservations that were made or released.  The counters of the     *)
(* model stop at MaxCount; the statement is about those that have not.     *)
(***************************************************************************)
EXTENDS OutcomesProofs

ReleasedOnes ==
    {r \in DOMAIN reservations : reservations[r].status = "released"}

Backing == Cardinality(DOMAIN reservations) + Cardinality(ReleasedOnes)

(* A handler has decided and the decision is not counted yet.               *)
Owed ==
    IF /\ pc \in {"publishing", "confirming"}
       /\ reply.result.decision \in {"confirmed", "released"}
    THEN 1 ELSE 0

(* CountersBacked, the decision that is being published counted already.    *)
(* Between the handler's return and the confirmation the reservation is     *)
(* there and the counter is not, so that the confirmation must find the     *)
(* slack the handler left.                                                  *)
BackedInv ==
    /\ IsFiniteSet(DOMAIN reservations)
    /\ counters["hits"] < MaxCount =>
          counters["confirmed"] + counters["released"] + Owed <=
             counters["hits"] + Backing

-----------------------------------------------------------------------------
(* Reserving adds a reservation and releasing adds a released one.          *)
LEMMA BackingGrows ==
    ASSUME TypeOK, IsFiniteSet(DOMAIN reservations)
    PROVE  /\ Backing \in Nat
           /\ \A i, t, q : Reserve(i, t, q) =>
                 IsFiniteSet(DOMAIN reservations') /\ Backing' = Backing + 1
           /\ \A i : Release(i) =>
                 IsFiniteSet(DOMAIN reservations') /\ Backing' = Backing + 1
  <1>1. IsFiniteSet(ReleasedOnes)
    BY FS_Subset DEF ReleasedOnes
  <1>2. Cardinality(DOMAIN reservations) \in Nat /\ Cardinality(ReleasedOnes) \in Nat
    BY <1>1, FS_CardinalityType
  <1>3. ASSUME NEW i, NEW t, NEW q, Reserve(i, t, q)
        PROVE  IsFiniteSet(DOMAIN reservations') /\ Backing' = Backing + 1
    <2> DEFINE r == TrimSpace[i]
    <2>1. r \notin DOMAIN reservations
      BY <1>3 DEF Reserve, ReserveError, Nil
    <2>2. /\ DOMAIN reservations' = DOMAIN reservations \cup {r}
          /\ reservations'[r].status = "active"
          /\ \A x \in DOMAIN reservations : reservations'[x] = reservations[x]
      BY <1>3, <2>1 DEF Reserve, Put
    <2>3. ReleasedOnes' = ReleasedOnes
      BY <2>2 DEF ReleasedOnes
    <2>4. /\ IsFiniteSet(DOMAIN reservations')
          /\ Cardinality(DOMAIN reservations') = Cardinality(DOMAIN reservations) + 1
      BY <2>1, <2>2, FS_AddElement
    <2> QED BY <1>2, <2>3, <2>4 DEF Backing
  <1>4. ASSUME NEW i, Release(i)
        PROVE  IsFiniteSet(DOMAIN reservations') /\ Backing' = Backing + 1
    <2> DEFINE r == TrimSpace[i]
    <2>1. r \in DOMAIN reservations /\ reservations[r].status = "active"
      BY <1>4 DEF Release, ReleaseError, Nil
    <2>2. reservations[r] \in Reservation
      BY <2>1 DEF TypeOK
    <2>3. /\ DOMAIN reservations' = DOMAIN reservations
          /\ reservations'[r].status = "released"
          /\ \A x \in DOMAIN reservations \ {r} : reservations'[x] = reservations[x]
      BY <1>4, <2>1, <2>2 DEF Release, Reservation
    <2>4. ReleasedOnes' = ReleasedOnes \cup {r} /\ r \notin ReleasedOnes
      BY <2>1, <2>3 DEF ReleasedOnes
    <2>5. Cardinality(ReleasedOnes') = Cardinality(ReleasedOnes) + 1
      BY <1>1, <2>4, FS_AddElement
    <2> QED BY <1>2, <2>3, <2>5 DEF Backing
  <1> QED BY <1>2, <1>3, <1>4 DEF Backing

(* A result that comes from a store is marked as a hit.                     *)
LEMMA ReplayIsHit ==
    ASSUME NEW entry, NEW m, Replayed(entry, m).error = Nil
    PROVE  Replayed(entry, m).hit
  <1>1. \A x, b : Ok(x, b).hit = b
    BY DEF Ok
  <1>2. Replayed(entry, m) = Ok([entry EXCEPT !.request = m], TRUE)
    BY DEF Replayed, Err, Nil
  <1> QED BY <1>1, <1>2, Zenon

(* A handler that answers confirmed or released has found the answer in its *)
(* store, or it has reserved or released just now.                          *)
LEMMA DecidedOrFound ==
    ASSUME OperationsInv, Handles, reply'.error = Nil,
           reply'.result.decision \in {"confirmed", "released"}
    PROVE  \/ reply'.hit /\ UNCHANGED inventoryVars
           \/ \E i, t, q : Reserve(i, t, q)
           \/ \E i : Release(i)
  <1> DEFINE m == delivery.request
  <1>1. ~HandleCancelled
    BY DEF HandleCancelled, Err, Nil
  <1>2. CASE HandleDelivery
    <2>1. HandleReservationRequested(m, settings)
      BY <1>1, <1>2 DEF HandleDelivery
    <2>2. CASE HandleReplayed(m)
      BY <2>2, ReplayIsHit DEF HandleReplayed
    <2>3. CASE HandleRejected(m, settings)
      <3>1. reply'.result.decision = "rejected"
        BY <2>3 DEF HandleRejected, Ok, NewResult
      <3> QED BY <3>1
    <2>4. CASE HandleReserved(m, settings)
      <3>1. /\ reply' = ReserveReply(m)
            /\ ReserveError(m.id, m.sku, m.quantity) = Nil =>
                  Reserve(m.id, m.sku, m.quantity)
        BY <2>4 DEF HandleReserved, ReservationReply, OperationsInv, HandlersInv,
                    StoresAgree
      <3>2. ReserveError(m.id, m.sku, m.quantity) = Nil
        BY <3>1 DEF ReserveReply, Ok, Err, NewResult
      <3> QED BY <3>1, <3>2
    <2> QED BY <2>1, <2>2, <2>3, <2>4 DEF HandleReservationRequested
  <1>3. CASE HandleReleaseDelivery
    <2>1. HandleReservationReleaseRequested(m)
      BY <1>1, <1>3 DEF HandleReleaseDelivery
    <2>2. CASE Key(m) \in DOMAIN releaseStore
      <3>1. /\ reply' = Replayed(releaseStore[Key(m)], m)
            /\ UNCHANGED inventoryVars
        BY <2>1, <2>2 DEF HandleReservationReleaseRequested
      <3> QED BY <3>1, ReplayIsHit
    <2>3. CASE Key(m) \notin DOMAIN releaseStore
      <3>1. /\ reply' = ReleaseReply(m)
            /\ ReleaseError(m.id) = Nil => Release(m.id)
        BY <2>1, <2>3 DEF HandleReservationReleaseRequested
      <3>2. ReleaseError(m.id) = Nil
        BY <3>1 DEF ReleaseReply, Ok, Err, NewResult
      <3> QED BY <3>1, <3>2
    <2> QED BY <2>2, <2>3
  <1> QED BY <1>2, <1>3 DEF Handles

-----------------------------------------------------------------------------
(* Whatever a handler does to the inventory, the backing does not shrink.   *)
LEMMA HandlesKeepBacking ==
    ASSUME OperationsInv, IsFiniteSet(DOMAIN reservations), Handles
    PROVE  IsFiniteSet(DOMAIN reservations') /\ Backing' \in Nat /\ Backing' >= Backing
  <1>1. TypeOK
    BY DEF OperationsInv, HandlersInv, HandlersTypeOK
  <1>2. \/ UNCHANGED inventoryVars
        \/ \E i, t, q : Reserve(i, t, q)
        \/ \E i : Release(i)
    <2>1. ASSUME HandleDelivery
          PROVE  UNCHANGED inventoryVars \/ \E i, t, q : Reserve(i, t, q)
      BY <2>1 DEF HandleDelivery, HandleReservationRequested, HandleReplayed,
                  HandleRejected, HandleReserved, HandleCancelled
    <2>2. ASSUME HandleReleaseDelivery
          PROVE  UNCHANGED inventoryVars \/ \E i : Release(i)
      BY <2>2 DEF HandleReleaseDelivery, HandleReservationReleaseRequested,
                  HandleCancelled
    <2> QED BY <2>1, <2>2 DEF Handles
  <1>3. CASE UNCHANGED inventoryVars
    <2>1. reservations' = reservations /\ Backing' = Backing
      BY <1>3 DEF inventoryVars, Backing, ReleasedOnes
    <2> QED BY <1>1, <2>1, BackingGrows
  <1> QED BY <1>1, <1>2, <1>3, BackingGrows

(* What counting does to the counters that are compared.                    *)
LEMMA Counting ==
    ASSUME CountersTyped, NEW name \in Decisions \cup {"hits"},
           counters' = Increment(name)
    PROVE  /\ \A n \in Decisions \cup {"hits"} :
                 /\ counters[n] \in Nat /\ counters'[n] \in Nat
                 /\ n # name => counters'[n] = counters[n]
           /\ counters[name] <= counters'[name]
           /\ counters'[name] <= counters[name] + 1
           /\ counters'[name] < MaxCount => counters'[name] = counters[name] + 1
  BY OperationsAssumption DEF CountersTyped, Increment

(* A handler's return leaves the slack its decision will need: a new        *)
(* reservation or release in the repository, or a hit.                      *)
LEMMA HandlesBacked ==
    ASSUME OperationsInv, BackedInv, Handles, CountHit,
           [OperationsNext]_operationsVars
    PROVE  BackedInv'
  <1> DEFINE names == Decisions \cup {"hits"}
  <1> DEFINE slack == counters["hits"] + Backing
  <1>1. pc = "handling"
    BY DEF Handles, HandleDelivery, HandleReleaseDelivery
  <1>2. Owed = 0
    BY <1>1 DEF Owed
  <1>3. /\ {"hits", "confirmed", "released"} \subseteq names
        /\ \A n \in names : counters[n] \in 0..MaxCount
        /\ MaxCount \in Nat
    BY OperationsAssumption DEF OperationsInv, CountersTyped, Decisions
  <1>4. /\ IsFiniteSet(DOMAIN reservations') /\ Backing' \in Nat
        /\ Backing' >= Backing
    BY HandlesKeepBacking DEF BackedInv
  <1>5. Backing \in Nat
    BY BackingGrows DEF BackedInv, OperationsInv, HandlersInv, HandlersTypeOK
  <1>6. /\ counters'["hits"] \in Nat /\ counters'["hits"] >= counters["hits"]
        /\ counters'["confirmed"] = counters["confirmed"]
        /\ counters'["released"] = counters["released"]
        /\ reply'.hit /\ counters'["hits"] < MaxCount =>
              counters'["hits"] = counters["hits"] + 1
    <2>1. CASE reply'.hit
      <3>1. counters' = Increment("hits")
        BY <2>1 DEF CountHit
      <3>2. "hits" # "confirmed" /\ "hits" # "released"
        OBVIOUS
      <3> QED BY <1>3, <3>1, <3>2, Counting DEF OperationsInv
    <2>2. CASE ~reply'.hit
      <3>1. counters' = counters
        BY <2>2 DEF CountHit
      <3> QED BY <1>3, <2>2, <3>1
    <2> QED BY <2>1, <2>2
  <1>7. Owed' \in {0, 1}
    BY DEF Owed
  <1>8. CASE Owed' = 0
    BY <1>2, <1>3, <1>4, <1>5, <1>6, <1>8 DEF BackedInv
  <1>9. CASE Owed' = 1
    <2>1. /\ pc' \in {"publishing", "confirming"}
          /\ reply'.result.decision \in {"confirmed", "released"}
      BY <1>9 DEF Owed
    <2>2. reply'.error = Nil
      BY <1>1, <2>1, ReplyStep
    <2>3. reply'.hit \/ Backing' = Backing + 1
      <3>1. TypeOK
        BY DEF OperationsInv, HandlersInv, HandlersTypeOK
      <3> QED BY <2>1, <2>2, <3>1, DecidedOrFound, BackingGrows DEF BackedInv
    <2> QED BY <1>2, <1>3, <1>4, <1>5, <1>6, <1>9, <2>3 DEF BackedInv
  <1> QED BY <1>7, <1>8, <1>9

(* The confirmation of an outcome turns what was owed into a count.         *)
LEMMA ConfirmedBacked ==
    ASSUME OperationsInv, BackedInv, ResultConfirmed, CountProcessed
    PROVE  BackedInv'
  <1> DEFINE d == reply.result.decision
  <1>1. pc = "confirming" /\ pc' \in {"idle", "stopped"}
    BY DEF ResultConfirmed, Ack, NextDelivery
  <1>2. Owed' = 0
    BY <1>1 DEF Owed
  <1>3. d \in Decisions
    BY <1>1 DEF OperationsInv, ConsumerTyped, Result
  <1>4. Owed = IF d \in {"confirmed", "released"} THEN 1 ELSE 0
    BY <1>1 DEF Owed
  <1>5. reservations' = reservations /\ Backing' = Backing
    BY DEF ResultConfirmed, handlerVars, inventoryVars, Backing, ReleasedOnes
  <1>6. Backing \in Nat
    BY BackingGrows DEF BackedInv, OperationsInv, HandlersInv, HandlersTypeOK
  <1>7. /\ \A n \in Decisions \cup {"hits"} :
              /\ counters[n] \in Nat /\ counters'[n] \in Nat
              /\ n # d => counters'[n] = counters[n]
        /\ counters'[d] <= counters[d] + 1
    BY <1>3, Counting DEF CountProcessed, OperationsInv
  <1>8. "hits" # d
    BY <1>3 DEF Decisions
  <1>9. counters'["hits"] = counters["hits"]
    BY <1>7, <1>8
  <1>10. counters'["confirmed"] + counters'["released"] <=
            counters["confirmed"] + counters["released"] + Owed
    BY <1>4, <1>7 DEF Decisions
  <1>11. /\ counters'["confirmed"] \in Nat /\ counters'["released"] \in Nat
         /\ counters["confirmed"] \in Nat /\ counters["released"] \in Nat
         /\ counters["hits"] \in Nat /\ MaxCount \in Nat /\ Owed \in Nat
    BY <1>4, <1>7, OperationsAssumption DEF Decisions
  <1> HIDE DEF d
  <1>12. IsFiniteSet(DOMAIN reservations')
    BY <1>5 DEF BackedInv
  <1>13. ASSUME counters'["hits"] < MaxCount
         PROVE  counters'["confirmed"] + counters'["released"] + Owed' <=
                   counters'["hits"] + Backing'
    <2>1. counters["confirmed"] + counters["released"] + Owed <=
             counters["hits"] + Backing
      BY <1>9, <1>13 DEF BackedInv
    <2> QED BY <1>2, <1>5, <1>6, <1>9, <1>10, <1>11, <2>1
  <1> QED BY <1>12, <1>13 DEF BackedInv

-----------------------------------------------------------------------------
(* Every step keeps the counters backed.                                    *)
LEMMA BackedStep ==
    ASSUME OperationsInv, BackedInv, [OperationsNext]_operationsVars
    PROVE  BackedInv'
  <1>1. CASE ProcessEnds
    <2>1. DOMAIN reservations' = {} /\ counters' = NoCounts /\ pc' = "idle"
      BY <1>1 DEF ProcessEnds, Exit, Crash, StartAgain
    <2>2. Owed' = 0 /\ Backing' = 0 /\ IsFiniteSet(DOMAIN reservations')
      <3>1. ReleasedOnes' = {}
        BY <2>1 DEF ReleasedOnes
      <3> QED BY <2>1, <3>1, FS_EmptySet DEF Owed, Backing
    <2>3. /\ counters'["hits"] = 0
          /\ counters'["confirmed"] = 0 /\ counters'["released"] = 0
      BY <2>1 DEF NoCounts, Decisions
    <2> QED BY <2>2, <2>3 DEF BackedInv
  <1>2. CASE Handles /\ CountHit
    BY <1>2, HandlesBacked
  <1>3. CASE ResultConfirmed /\ CountProcessed
    BY <1>3, ConfirmedBacked
  <1>4. ASSUME UNCHANGED <<counters, reservations>>, pc # "handling" \/ pc' = pc
        PROVE  BackedInv'
    <2>1. Backing' = Backing
      BY <1>4 DEF Backing, ReleasedOnes
    <2>2. Owed' = 0 \/ Owed' = Owed
      <3>1. CASE pc' \in {"publishing", "confirming"}
        <4>1. ~Handles
          BY <1>4, <3>1 DEF Handles, HandleDelivery, HandleReleaseDelivery
        <4>2. pc \in {"publishing", "confirming"} /\ reply' = reply
          BY <3>1, <4>1, ReplyStep
        <4> QED BY <3>1, <4>2 DEF Owed
      <3>2. CASE pc' \notin {"publishing", "confirming"}
        BY <3>2 DEF Owed
      <3> QED BY <3>1, <3>2
    <2>3. Backing \in Nat
      BY BackingGrows DEF BackedInv, OperationsInv, HandlersInv, HandlersTypeOK
    <2>4. /\ counters["hits"] \in Nat /\ counters["confirmed"] \in Nat
          /\ counters["released"] \in Nat
      BY DEF OperationsInv, CountersTyped, Decisions
    <2>5. Owed \in {0, 1}
      BY DEF Owed
    <2> QED BY <1>4, <2>1, <2>2, <2>3, <2>4, <2>5 DEF BackedInv
  <1>5. CASE OtherConsumerSteps /\ UNCHANGED counters
    <2>1. reservations' = reservations
      BY <1>5 DEF OtherConsumerSteps, ReceiveInvalid, Receive, PublishResult,
                  FirstCopyConfirmed, ResultRefused, ResultTimesOut,
                  ConfirmForward, ForwardTimesOut, ConsumeReturns, handlerVars,
                  inventoryVars
    <2>2. pc # "handling"
      BY <1>5 DEF OtherConsumerSteps, ReceiveInvalid, Receive, PublishResult,
                  FirstCopyConfirmed, ResultRefused, ResultTimesOut,
                  ConfirmForward, ForwardTimesOut, ConsumeReturns
    <2> QED BY <1>4, <1>5, <2>1, <2>2
  <1>6. CASE /\ TakesPublication \/ RequeuesExpired \/ Shutdown \/ CloseConsumer
             /\ UNCHANGED counters
    BY <1>4, <1>6 DEF TakesPublication, RequeuesExpired, BrokerOnly, Shutdown,
                      CloseConsumer, ConsumerConnectionEnds, consumerVars,
                      handlerVars, inventoryVars
  <1>7. CASE Environment /\ UNCHANGED counters
    BY <1>4, <1>7 DEF Environment, ClosesPublisher, BrokerOnly, Send,
                      SetFailureMode, ChangeStock, SetStock, ConsumerLost,
                      ConsumerConnectionEnds, consumerVars, handlerVars,
                      inventoryVars
  <1>8. CASE UNCHANGED beside \/ UNCHANGED operationsVars
    BY <1>4, <1>8 DEF beside, operationsVars, serviceVars, consumerVars,
                      handlerVars, inventoryVars
  <1> QED BY <1>1, <1>2, <1>3, <1>5, <1>6, <1>7, <1>8
          DEF OperationsNext, ServiceSteps, Consumes, AdminSteps, AdminBroker

(* The slack is there in every state, across crashes and restarts, which    *)
(* empty repository and counters alike.                                     *)
THEOREM BackedInductive == OperationsSpec => []BackedInv
  <1>1. ASSUME OperationsInit
        PROVE  BackedInv
    <2>1. DOMAIN reservations = {} /\ counters = NoCounts /\ pc = "idle"
      BY <1>1 DEF OperationsInit, Init, HandlersInit, InventoryInit
    <2>2. Owed = 0 /\ Backing = 0 /\ IsFiniteSet(DOMAIN reservations)
      <3>1. ReleasedOnes = {}
        BY <2>1 DEF ReleasedOnes
      <3> QED BY <2>1, <3>1, FS_EmptySet DEF Owed, Backing
    <2>3. /\ counters["hits"] = 0
          /\ counters["confirmed"] = 0 /\ counters["released"] = 0
      BY <2>1 DEF NoCounts, Decisions
    <2> QED BY <2>2, <2>3 DEF BackedInv
  <1>2. OperationsInit => BackedInv
    BY <1>1
  <1>3. OperationsInv /\ BackedInv /\ [OperationsNext]_operationsVars => BackedInv'
    BY BackedStep
  <1> QED BY <1>2, <1>3, OperationsInductive, PTL DEF OperationsSpec

(* The metrics do not overstate: as long as the counter of hits has not     *)
(* stopped at the bound of the model, every reservation or release that was *)
(* counted is in the repository or was an idempotency hit.                  *)
THEOREM CountersBackedHolds ==
    OperationsSpec => [](counters["hits"] < MaxCount => CountersBacked)
  <1>1. ASSUME OperationsInv, BackedInv, counters["hits"] < MaxCount
        PROVE  CountersBacked
    <2>1. Backing \in Nat
      BY <1>1, BackingGrows DEF BackedInv, OperationsInv, HandlersInv,
                                HandlersTypeOK
    <2>2. /\ counters["hits"] \in Nat /\ counters["confirmed"] \in Nat
          /\ counters["released"] \in Nat
      BY <1>1 DEF OperationsInv, CountersTyped, Decisions
    <2>3. Owed \in {0, 1}
      BY DEF Owed
    <2>4. counters["confirmed"] + counters["released"] + Owed <=
             counters["hits"] + Backing
      BY <1>1 DEF BackedInv
    <2>5. counters["confirmed"] + counters["released"] <=
             counters["hits"] + Backing
      BY <2>1, <2>2, <2>3, <2>4
    <2>6. IsFiniteSet(DOMAIN reservations) /\ IsFiniteSet(ReleasedOnes)
      BY <1>1, FS_Subset DEF BackedInv, ReleasedOnes
    <2>7. /\ Cardinality(DOMAIN reservations) \in Nat
          /\ Cardinality(ReleasedOnes) \in Nat
      BY <2>6, FS_CardinalityType
    <2> QED BY <2>2, <2>5, <2>7 DEF CountersBacked, Backing, ReleasedOnes
  <1>2. /\ OperationsInv /\ BackedInv
        => (counters["hits"] < MaxCount => CountersBacked)
    BY <1>1
  <1> QED BY <1>2, OperationsInductive, BackedInductive, PTL
=============================================================================
