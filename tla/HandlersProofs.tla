--------------------------- MODULE HandlersProofs ---------------------------
(***************************************************************************)
(* Proofs about the message handlers, for every set of messages and every  *)
(* order of them.  A handler call is reduced to one of six effects on the  *)
(* inventory and the stores; the invariant is then followed through each.  *)
(***************************************************************************)
EXTENDS Handlers, InventoryProofs

(* What a step can do to the inventory and the stores; reply is left out.   *)
Quiet == UNCHANGED <<inventoryVars, stores>>

StockSet ==
    /\ \E t \in SkuText, level \in StockLevels : SetStock(t, level)
    /\ UNCHANGED stores

Confirms(m) ==
    /\ Key(m) \notin DOMAIN simulationStore
    /\ Reserve(m.id, m.sku, m.quantity)
    /\ simulationStore' =
          Put(simulationStore, Key(m), NewResult(m, "confirmed", Nil))
    /\ reservationStore' =
          Put(reservationStore, Key(m), NewResult(m, "confirmed", Nil))
    /\ UNCHANGED releaseStore

RejectsForShortage(m) ==
    /\ Key(m) \notin DOMAIN simulationStore
    /\ UNCHANGED inventoryVars
    /\ simulationStore' = Put(simulationStore, Key(m),
                              NewResult(m, "rejected", "INSUFFICIENT_STOCK"))
    /\ reservationStore' = Put(reservationStore, Key(m),
                               NewResult(m, "rejected", "INSUFFICIENT_STOCK"))
    /\ UNCHANGED releaseStore

RejectsForMode(m) ==
    /\ Key(m) \notin DOMAIN simulationStore
    /\ UNCHANGED inventoryVars
    /\ simulationStore' = Put(simulationStore, Key(m),
                              NewResult(m, "rejected", "FAILURE_MODE"))
    /\ UNCHANGED <<reservationStore, releaseStore>>

Releases(m) ==
    /\ Key(m) \notin DOMAIN releaseStore
    /\ Release(m.id)
    /\ releaseStore' = Put(releaseStore, Key(m), NewResult(m, "released", Nil))
    /\ UNCHANGED <<simulationStore, reservationStore>>

RefusesRelease(m) ==
    /\ Key(m) \notin DOMAIN releaseStore
    /\ UNCHANGED inventoryVars
    /\ \E reason \in Reasons :
          releaseStore' = Put(releaseStore, Key(m),
                              NewResult(m, "release_failed", reason))
    /\ UNCHANGED <<simulationStore, reservationStore>>

Effect ==
    \/ Quiet
    \/ StockSet
    \/ \E m \in ReserveRequests :
          Decodes(m) /\ (Confirms(m) \/ RejectsForShortage(m) \/ RejectsForMode(m))
    \/ \E m \in ReleaseRequests :
          Decodes(m) /\ (Releases(m) \/ RefusesRelease(m))

(* Execute caches a result under a free key and leaves the store alone when *)
(* its operation failed.                                                    *)
LEMMA CacheEffect ==
    ASSUME NEW store, NEW k, k \notin DOMAIN store, NEW r
    PROVE  /\ r.error = Nil => CacheReply(store, k, r) = Put(store, k, r.result)
           /\ r.error # Nil => CacheReply(store, k, r) = store
  BY DEF CacheReply

(* The store of the failure simulation shields the inner store, so a key    *)
(* that reaches the inner handler is new there too: the repository is asked *)
(* once, and both stores cache its one answer.                              *)
LEMMA ReservedEffect ==
    ASSUME StoresAgree, NEW m \in ReserveRequests, Decodes(m), NEW mode,
           HandleReserved(m, mode)
    PROVE  Quiet \/ Confirms(m) \/ RejectsForShortage(m)
  <1> DEFINE k == Key(m)
  <1> DEFINE e == ReserveError(m.id, m.sku, m.quantity)
  <1>1. k \notin DOMAIN simulationStore /\ k \notin DOMAIN reservationStore
    BY DEF HandleReserved, StoresAgree
  <1>2. /\ reply' = ReserveReply(m)
        /\ e = Nil => Reserve(m.id, m.sku, m.quantity)
        /\ e # Nil => UNCHANGED inventoryVars
        /\ reservationStore' = CacheReply(reservationStore, k, reply')
        /\ simulationStore' = CacheReply(simulationStore, k, reply')
        /\ UNCHANGED releaseStore
    BY <1>1 DEF HandleReserved, ReservationReply
  <1>3. CASE e = Nil
    <2>1. reply'.error = Nil /\ reply'.result = NewResult(m, "confirmed", Nil)
      BY <1>2, <1>3 DEF ReserveReply, Ok, Err
    <2>2. /\ reservationStore' =
                Put(reservationStore, k, NewResult(m, "confirmed", Nil))
          /\ simulationStore' =
                Put(simulationStore, k, NewResult(m, "confirmed", Nil))
      BY <1>1, <1>2, <2>1, CacheEffect
    <2> QED BY <1>1, <1>2, <1>3, <2>2 DEF Confirms
  <1>4. CASE e \in {"InsufficientStock", "StockItemNotFound"}
    <2>1. reply'.error = Nil /\ reply'.result = NewResult(m, "rejected", "INSUFFICIENT_STOCK")
      BY <1>2, <1>4 DEF ReserveReply, Ok, Nil
    <2>2. /\ reservationStore' = Put(reservationStore, k,
                NewResult(m, "rejected", "INSUFFICIENT_STOCK"))
          /\ simulationStore' = Put(simulationStore, k,
                NewResult(m, "rejected", "INSUFFICIENT_STOCK"))
      BY <1>1, <1>2, <2>1, CacheEffect
    <2> QED BY <1>1, <1>2, <1>4, <2>2 DEF RejectsForShortage, Nil
  <1>5. CASE e \notin {Nil, "InsufficientStock", "StockItemNotFound"}
    <2>1. reply'.error = e
      BY <1>2, <1>5 DEF ReserveReply, Ok, Err
    <2>2. reservationStore' = reservationStore /\ simulationStore' = simulationStore
      BY <1>1, <1>2, <1>5, <2>1, CacheEffect
    <2> QED BY <1>2, <1>5, <2>2 DEF Quiet, stores
  <1> QED BY <1>3, <1>4, <1>5

(* A release asks the repository only for a key that is new.                *)
LEMMA ReleaseEffect ==
    ASSUME NEW m \in ReleaseRequests, HandleReservationReleaseRequested(m)
    PROVE  Quiet \/ Releases(m) \/ RefusesRelease(m)
  <1> DEFINE k == Key(m)
  <1> DEFINE e == ReleaseError(m.id)
  <1>1. CASE k \in DOMAIN releaseStore
    BY <1>1 DEF HandleReservationReleaseRequested, CacheReply, Quiet, stores
  <1>2. CASE k \notin DOMAIN releaseStore
    <2>1. /\ reply' = ReleaseReply(m)
          /\ e = Nil => Release(m.id)
          /\ e # Nil => UNCHANGED inventoryVars
          /\ releaseStore' = CacheReply(releaseStore, k, reply')
          /\ UNCHANGED <<simulationStore, reservationStore>>
      BY <1>2 DEF HandleReservationReleaseRequested
    <2>2. CASE e = Nil
      <3>1. reply'.error = Nil /\ reply'.result = NewResult(m, "released", Nil)
        BY <2>1, <2>2 DEF ReleaseReply, Ok, Err
      <3>2. releaseStore' = Put(releaseStore, k, NewResult(m, "released", Nil))
        BY <1>2, <2>1, <3>1, CacheEffect
      <3> QED BY <1>2, <2>1, <2>2, <3>2 DEF Releases
    <2>3. CASE e \in {"ReservationNotFound", "ReservationNotActive"}
      <3>1. PICK reason \in Reasons :
               reply'.error = Nil /\ reply'.result = NewResult(m, "release_failed", reason)
        BY <2>1, <2>3 DEF ReleaseReply, Ok, Nil, Reasons
      <3>2. releaseStore' =
               Put(releaseStore, k, NewResult(m, "release_failed", reason))
        BY <1>2, <2>1, <3>1, CacheEffect
      <3> QED BY <1>2, <2>1, <2>3, <3>2 DEF RefusesRelease, Nil
    <2>4. CASE e \notin {Nil, "ReservationNotFound", "ReservationNotActive"}
      <3>1. reply'.error = e
        BY <2>1, <2>4 DEF ReleaseReply, Ok, Err
      <3>2. releaseStore' = releaseStore
        BY <1>2, <2>1, <2>4, <3>1, CacheEffect
      <3> QED BY <2>1, <2>4, <3>2 DEF Quiet, stores
    <2> QED BY <2>2, <2>3, <2>4
  <1> QED BY <1>1, <1>2

(* Every step has one of the six effects.                                   *)
LEMMA StepEffect ==
    ASSUME StoresAgree, [HandlersNext]_handlerVars
    PROVE  Effect
  <1>1. ASSUME NEW m \in ReserveRequests, NEW mode \in Modes, Decodes(m),
               HandleReservationRequested(m, mode)
        PROVE  Effect
    <2>1. CASE HandleReplayed(m)
      BY <2>1 DEF HandleReplayed, Effect, Quiet
    <2>2. CASE HandleRejected(m, mode)
      <3>1. simulationStore' = Put(simulationStore, Key(m),
                                   NewResult(m, "rejected", "FAILURE_MODE"))
        BY <2>2, CacheEffect DEF HandleRejected, Ok
      <3>2. RejectsForMode(m)
        BY <2>2, <3>1 DEF HandleRejected, RejectsForMode
      <3> QED BY <1>1, <3>2 DEF Effect
    <2>3. CASE HandleReserved(m, mode)
      BY <1>1, <2>3, ReservedEffect DEF Effect
    <2> QED BY <1>1, <2>1, <2>2, <2>3 DEF HandleReservationRequested
  <1>2. ASSUME NEW m \in ReleaseRequests, Decodes(m),
               HandleReservationReleaseRequested(m)
        PROVE  Effect
    BY <1>2, ReleaseEffect DEF Effect
  <1>3. CASE HandleCancelled
    BY <1>3 DEF HandleCancelled, Effect, Quiet
  <1>4. ASSUME NEW t \in SkuText, NEW level \in StockLevels,
               SetStock(t, level), UNCHANGED <<stores, reply>>
        PROVE  Effect
    BY <1>4 DEF Effect, StockSet
  <1>5. CASE UNCHANGED handlerVars
    BY <1>5 DEF handlerVars, Effect, Quiet
  <1> QED BY <1>1, <1>2, <1>3, <1>4, <1>5 DEF HandlersNext

(* Seen from the repository, a handler call is at most one of its methods.  *)
LEMMA EffectOnInventory ==
    ASSUME Effect
    PROVE  [InventoryNext]_inventoryVars
  <1>1. ASSUME NEW m \in ReserveRequests, Confirms(m)
        PROVE  InventoryNext
    <2>1. m.id \in ReservationText /\ m.sku \in SkuText /\ m.quantity \in Quantities
      BY HandlersAssumption
    <2> QED BY <1>1, <2>1 DEF Confirms, InventoryNext
  <1>2. ASSUME NEW m \in ReleaseRequests, Releases(m)
        PROVE  InventoryNext
    <2>1. m.id \in ReservationText
      BY HandlersAssumption
    <2> QED BY <1>2, <2>1 DEF Releases, InventoryNext
  <1> QED BY <1>1, <1>2 DEF Effect, Quiet, StockSet, RejectsForShortage,
                            RejectsForMode, RefusesRelease, InventoryNext

-----------------------------------------------------------------------------
(* A new entry adds its key to the answers of its reservation and decision, *)
(* and to no others.                                                        *)
LEMMA AnsweredAfterPut ==
    ASSUME NEW store, NEW k, k \notin DOMAIN store, NEW entry,
           NEW decision, NEW r
    PROVE  AnsweredWith(Put(store, k, entry), decision, r) =
              IF entry.decision = decision /\ TrimSpace[entry.request.id] = r
              THEN AnsweredWith(store, decision, r) \cup {k}
              ELSE AnsweredWith(store, decision, r)
  <1> DEFINE new == Put(store, k, entry)
  <1>1. /\ DOMAIN new = DOMAIN store \cup {k}
        /\ new[k] = entry
        /\ \A x \in DOMAIN store : new[x] = store[x]
    BY DEF Put
  <1> HIDE DEF new
  <1>2. AnsweredWith(new, decision, r) =
           IF entry.decision = decision /\ TrimSpace[entry.request.id] = r
           THEN AnsweredWith(store, decision, r) \cup {k}
           ELSE AnsweredWith(store, decision, r)
    BY <1>1 DEF AnsweredWith
  <1> QED BY <1>2 DEF new

(* What decoding guarantees of a message.                                   *)
LEMMA DecodedRequest ==
    ASSUME NEW m \in Requests, Decodes(m)
    PROVE  Key(m) \in Keys /\ TrimSpace[m.id] \in ReservationIDs
  <1>1. TrimSpace[m.key] # Blank /\ TrimSpace[m.id] # Blank
    BY DEF Decodes, DecodeReservationRequested,
           DecodeReservationReleaseRequested, DecodeMessageMetadata
  <1>2. m.key \in KeyText /\ m.id \in ReservationText
    BY HandlersAssumption DEF KeyText
  <1> QED BY <1>1, <1>2 DEF Key, Keys, ReservationIDs

(* The results the handlers build are results.                              *)
LEMMA NewResultType ==
    ASSUME NEW m \in Requests, NEW d \in Decisions, NEW reason \in Reasons
    PROVE  /\ NewResult(m, d, reason) \in Result
           /\ NewResult(m, d, reason).decision = d
           /\ NewResult(m, d, reason).reason = reason
           /\ NewResult(m, d, reason).request = m
  BY DEF NewResult, Result

(* A well-typed store stays well typed when a decoded message is answered.  *)
StoreTyped(store) ==
    DOMAIN store \subseteq Keys /\ \A k \in DOMAIN store : store[k] \in Result

LEMMA PutTyped ==
    ASSUME NEW store, StoreTyped(store), NEW k \in Keys, NEW entry \in Result
    PROVE  StoreTyped(Put(store, k, entry))
  BY DEF StoreTyped, Put

(* The invariant holds at start.                                            *)
LEMMA HandlersInvInit ==
    ASSUME HandlersInit
    PROVE  HandlersInv
  <1>1. TypeOK
    BY InventoryAssumption
       DEF HandlersInit, InventoryInit, TypeOK, StockItem, GoInt, MinInt
  <1>2. HandlersTypeOK
    BY <1>1 DEF HandlersInit, HandlersTypeOK
  <1>3. StoresAgree /\ ConfirmedIsHeld /\ ConfirmedUnderOneKey
    BY DEF HandlersInit, InventoryInit, StoresAgree, ConfirmedIsHeld,
           ConfirmedUnderOneKey
  <1>4. ReleasedUnderOneKey
    BY DEF HandlersInit, InventoryInit, ReleasedUnderOneKey, IsReleased,
           ReleasedBy, AnsweredWith
  <1> QED BY <1>2, <1>3, <1>4 DEF HandlersInv

(* The stores stay well typed under every effect.                           *)
LEMMA HandlersTypeStep ==
    ASSUME HandlersTypeOK, Effect
    PROVE  HandlersTypeOK'
  <1>1. TypeOK'
    BY EffectOnInventory, TypeStep DEF HandlersTypeOK
  <1>2. /\ StoreTyped(simulationStore)
        /\ StoreTyped(reservationStore)
        /\ StoreTyped(releaseStore)
    BY DEF HandlersTypeOK, StoreTyped
  <1> DEFINE Typed == /\ StoreTyped(simulationStore')
                      /\ StoreTyped(reservationStore')
                      /\ StoreTyped(releaseStore')
  <1>3. ASSUME Quiet \/ StockSet PROVE Typed
    BY <1>2, <1>3 DEF Quiet, StockSet, stores
  <1>4. ASSUME NEW m \in ReserveRequests, Decodes(m),
               Confirms(m) \/ RejectsForShortage(m) \/ RejectsForMode(m)
        PROVE  Typed
    <2>1. m \in Requests /\ Key(m) \in Keys
      BY <1>4, DecodedRequest DEF ReserveRequests
    <2>2. /\ NewResult(m, "confirmed", Nil) \in Result
          /\ NewResult(m, "rejected", "INSUFFICIENT_STOCK") \in Result
          /\ NewResult(m, "rejected", "FAILURE_MODE") \in Result
      BY <2>1, NewResultType DEF Decisions, Reasons
    <2> QED BY <1>2, <1>4, <2>1, <2>2, PutTyped
            DEF Confirms, RejectsForShortage, RejectsForMode
  <1>5. ASSUME NEW m \in ReleaseRequests, Decodes(m),
               Releases(m) \/ RefusesRelease(m)
        PROVE  Typed
    <2>1. m \in Requests /\ Key(m) \in Keys
      BY <1>5, DecodedRequest DEF ReleaseRequests
    <2>2. /\ NewResult(m, "released", Nil) \in Result
          /\ \A reason \in Reasons :
                NewResult(m, "release_failed", reason) \in Result
      BY <2>1, NewResultType DEF Decisions, Reasons
    <2> QED BY <1>2, <1>5, <2>1, <2>2, PutTyped DEF Releases, RefusesRelease
  <1>6. Typed
    BY <1>3, <1>4, <1>5 DEF Effect
  <1> QED BY <1>1, <1>6 DEF HandlersTypeOK, StoreTyped

(* The two stores of a reservation are written together, except for a       *)
(* rejection by the failure mode.                                           *)
LEMMA StoresAgreeStep ==
    ASSUME StoresAgree, Effect
    PROVE  StoresAgree'
  <1>1. CASE Quiet \/ StockSet
    BY <1>1 DEF Quiet, StockSet, stores, StoresAgree
  <1>2. ASSUME NEW m \in ReserveRequests, Confirms(m) \/ RejectsForShortage(m)
        PROVE  StoresAgree'
    BY <1>2 DEF Confirms, RejectsForShortage, StoresAgree, Put
  <1>3. ASSUME NEW m \in ReserveRequests, RejectsForMode(m)
        PROVE  StoresAgree'
    BY <1>3 DEF RejectsForMode, StoresAgree, Put, NewResult
  <1>4. ASSUME NEW m \in ReleaseRequests, Releases(m) \/ RefusesRelease(m)
        PROVE  StoresAgree'
    BY <1>4 DEF Releases, RefusesRelease, StoresAgree
  <1> QED BY <1>1, <1>2, <1>3, <1>4 DEF Effect

(* Reservations are confirmed and held in the same step, under a new key,   *)
(* and only for an ID the repository has never seen.                        *)
LEMMA ConfirmedStep ==
    ASSUME HandlersTypeOK, ConfirmedIsHeld, ConfirmedUnderOneKey, Effect
    PROVE  ConfirmedIsHeld' /\ ConfirmedUnderOneKey'
  <1> DEFINE Kept == ConfirmedIsHeld' /\ ConfirmedUnderOneKey'
  <1>1. ASSUME UNCHANGED <<simulationStore, reservations>>
        PROVE  Kept
    BY <1>1 DEF ConfirmedIsHeld, ConfirmedUnderOneKey, ConfirmedBy
  <1>2. ASSUME NEW m \in ReserveRequests, Confirms(m)
        PROVE  Kept
    <2> DEFINE k == Key(m)
    <2> DEFINE x == TrimSpace[m.id]
    <2> DEFINE entry == NewResult(m, "confirmed", Nil)
    <2> DEFINE held == [sku |-> TrimSpace[m.sku], quantity |-> m.quantity,
                        status |-> "active"]
    <2>1. /\ k \notin DOMAIN simulationStore
          /\ simulationStore' = Put(simulationStore, k, entry)
          /\ reservations' = Put(reservations, x, held)
      BY <1>2 DEF Confirms, Reserve
    <2>2. x \notin DOMAIN reservations
      <3>1. ReserveError(m.id, m.sku, m.quantity) = Nil
        BY <1>2 DEF Confirms, Reserve
      <3> QED BY <3>1 DEF ReserveError, Nil
    <2>3. entry.decision = "confirmed" /\ entry.request = m
      BY DEF NewResult
    <2> HIDE DEF k, x, entry, held
    <2>4. /\ DOMAIN reservations' = DOMAIN reservations \cup {x}
          /\ reservations'[x] = held
          /\ \A r \in DOMAIN reservations : reservations'[r] = reservations[r]
          /\ DOMAIN simulationStore' = DOMAIN simulationStore \cup {k}
          /\ simulationStore'[k] = entry
          /\ \A j \in DOMAIN simulationStore :
                simulationStore'[j] = simulationStore[j]
      BY <2>1, <2>2 DEF Put
    <2>5. ConfirmedIsHeld'
      BY <2>2, <2>3, <2>4 DEF ConfirmedIsHeld, held, x
    <2>6. \A r : ConfirmedBy(r)' =
             IF r = x THEN ConfirmedBy(r) \cup {k} ELSE ConfirmedBy(r)
      <3> SUFFICES ASSUME NEW r
                   PROVE  ConfirmedBy(r)' = IF r = x THEN ConfirmedBy(r) \cup {k}
                                            ELSE ConfirmedBy(r)
        OBVIOUS
      <3> QED BY <2>1, <2>3, AnsweredAfterPut DEF ConfirmedBy, x
    <2>7. ConfirmedBy(x) = {}
      BY <2>2 DEF ConfirmedIsHeld, ConfirmedBy, AnsweredWith
    <2>8. ConfirmedUnderOneKey'
      BY <2>4, <2>6, <2>7 DEF ConfirmedUnderOneKey
    <2> QED BY <2>5, <2>8
  <1>3. ASSUME NEW m \in ReserveRequests,
               RejectsForShortage(m) \/ RejectsForMode(m)
        PROVE  Kept
    <2>1. PICK entry : /\ entry.decision = "rejected"
                       /\ Key(m) \notin DOMAIN simulationStore
                       /\ simulationStore' = Put(simulationStore, Key(m), entry)
      BY <1>3 DEF RejectsForShortage, RejectsForMode, NewResult
    <2>2. reservations' = reservations
      BY <1>3 DEF RejectsForShortage, RejectsForMode, inventoryVars
    <2>3. ConfirmedIsHeld'
      BY <2>1, <2>2 DEF ConfirmedIsHeld, Put
    <2>4. \A r : ConfirmedBy(r)' = ConfirmedBy(r)
      <3> SUFFICES ASSUME NEW r PROVE ConfirmedBy(r)' = ConfirmedBy(r)
        OBVIOUS
      <3> QED BY <2>1, AnsweredAfterPut DEF ConfirmedBy
    <2>5. DOMAIN simulationStore \subseteq DOMAIN simulationStore'
      BY <2>1 DEF Put
    <2>6. ConfirmedUnderOneKey'
      BY <2>2, <2>4, <2>5 DEF ConfirmedUnderOneKey
    <2> QED BY <2>3, <2>6
  <1>4. ASSUME NEW m \in ReleaseRequests, Releases(m)
        PROVE  Kept
    <2>1. /\ simulationStore' = simulationStore
          /\ reservations' =
                [reservations EXCEPT ![TrimSpace[m.id]].status = "released"]
      BY <1>4 DEF Releases, Release
    <2>2. \A r \in DOMAIN reservations : reservations[r] \in Reservation
      BY DEF HandlersTypeOK, TypeOK
    <2>3. /\ DOMAIN reservations' = DOMAIN reservations
          /\ \A r \in DOMAIN reservations :
                /\ reservations'[r].sku = reservations[r].sku
                /\ reservations'[r].quantity = reservations[r].quantity
      BY <2>1, <2>2 DEF Reservation
    <2> QED BY <2>1, <2>3 DEF ConfirmedIsHeld, ConfirmedUnderOneKey, ConfirmedBy
  <1>5. ASSUME NEW m \in ReleaseRequests, RefusesRelease(m)
        PROVE  Kept
    BY <1>1, <1>5 DEF RefusesRelease, inventoryVars
  <1>6. ASSUME Quiet \/ StockSet
        PROVE  Kept
    BY <1>1, <1>6 DEF Quiet, StockSet, SetStock, stores, inventoryVars
  <1> QED BY <1>2, <1>3, <1>4, <1>5, <1>6 DEF Effect

(* A reservation is released and answered in the same step, under a new     *)
(* key, and only while it is active.                                        *)
LEMMA ReleasedStep ==
    ASSUME HandlersTypeOK, ReleasedUnderOneKey, Effect
    PROVE  ReleasedUnderOneKey'
  <1>1. ASSUME UNCHANGED <<releaseStore, reservations>>
        PROVE  ReleasedUnderOneKey'
    BY <1>1 DEF ReleasedUnderOneKey, ReleasedBy, IsReleased
  <1>2. ASSUME NEW m \in ReserveRequests, Confirms(m)
        PROVE  ReleasedUnderOneKey'
    <2>1. releaseStore' = releaseStore
      BY <1>2 DEF Confirms
    <2>2. \A r : IsReleased(r)' = IsReleased(r)
      <3>1. TrimSpace[m.id] \notin DOMAIN reservations
        <4>1. ReserveError(m.id, m.sku, m.quantity) = Nil
          BY <1>2 DEF Confirms, Reserve
        <4> QED BY <4>1 DEF ReserveError, Nil
      <3> QED BY <1>2, <3>1 DEF Confirms, Reserve, Put, IsReleased
    <2> QED BY <2>1, <2>2 DEF ReleasedUnderOneKey, ReleasedBy
  <1>3. ASSUME NEW m \in ReserveRequests,
               RejectsForShortage(m) \/ RejectsForMode(m)
        PROVE  ReleasedUnderOneKey'
    BY <1>1, <1>3 DEF RejectsForShortage, RejectsForMode, inventoryVars
  <1>4. ASSUME NEW m \in ReleaseRequests, Releases(m)
        PROVE  ReleasedUnderOneKey'
    <2> DEFINE k == Key(m)
    <2> DEFINE x == TrimSpace[m.id]
    <2> DEFINE entry == NewResult(m, "released", Nil)
    <2>1. /\ k \notin DOMAIN releaseStore
          /\ releaseStore' = Put(releaseStore, k, entry)
          /\ reservations' = [reservations EXCEPT ![x].status = "released"]
      BY <1>4 DEF Releases, Release
    <2>2. x \in DOMAIN reservations /\ reservations[x].status = "active"
      <3>1. ReleaseError(m.id) = Nil
        BY <1>4 DEF Releases, Release
      <3> QED BY <3>1 DEF ReleaseError, Nil
    <2>3. entry.decision = "released" /\ entry.request = m
      BY DEF NewResult
    <2>4. x \in ReservationIDs /\ reservations[x] \in Reservation
      BY <2>2 DEF HandlersTypeOK, TypeOK
    <2> HIDE DEF k, x, entry
    <2>5. \A r : IsReleased(r)' <=> r = x \/ IsReleased(r)
      BY <2>1, <2>2, <2>4 DEF IsReleased, Reservation
    <2>6. \A r : ReleasedBy(r)' =
             IF r = x THEN ReleasedBy(r) \cup {k} ELSE ReleasedBy(r)
      <3> SUFFICES ASSUME NEW r
                   PROVE  ReleasedBy(r)' = IF r = x THEN ReleasedBy(r) \cup {k}
                                           ELSE ReleasedBy(r)
        OBVIOUS
      <3> QED BY <2>1, <2>3, AnsweredAfterPut DEF ReleasedBy, x
    <2>7. ReleasedBy(x) = {}
      BY <2>2, <2>4 DEF ReleasedUnderOneKey, IsReleased
    <2>8. DOMAIN releaseStore' = DOMAIN releaseStore \cup {k}
      BY <2>1 DEF Put
    <2> QED BY <2>5, <2>6, <2>7, <2>8 DEF ReleasedUnderOneKey
  <1>5. ASSUME NEW m \in ReleaseRequests, RefusesRelease(m)
        PROVE  ReleasedUnderOneKey'
    <2>1. PICK entry : /\ entry.decision = "release_failed"
                       /\ Key(m) \notin DOMAIN releaseStore
                       /\ releaseStore' = Put(releaseStore, Key(m), entry)
      BY <1>5 DEF RefusesRelease, NewResult
    <2>2. \A r : ReleasedBy(r)' = ReleasedBy(r)
      <3> SUFFICES ASSUME NEW r PROVE ReleasedBy(r)' = ReleasedBy(r)
        OBVIOUS
      <3> QED BY <2>1, AnsweredAfterPut DEF ReleasedBy
    <2>3. reservations' = reservations
      BY <1>5 DEF RefusesRelease, inventoryVars
    <2>4. DOMAIN releaseStore \subseteq DOMAIN releaseStore'
      BY <2>1 DEF Put
    <2> QED BY <2>2, <2>3, <2>4 DEF ReleasedUnderOneKey, IsReleased
  <1>6. CASE Quiet \/ StockSet
    BY <1>1, <1>6 DEF Quiet, StockSet, SetStock, stores, inventoryVars
  <1> QED BY <1>2, <1>3, <1>4, <1>5, <1>6 DEF Effect

-----------------------------------------------------------------------------
(* A step of the handlers preserves their invariant.                        *)
LEMMA HandlersInvStep ==
    ASSUME HandlersInv, [HandlersNext]_handlerVars
    PROVE  HandlersInv'
  <1>1. Effect
    BY StepEffect DEF HandlersInv
  <1> QED BY <1>1, HandlersTypeStep, StoresAgreeStep, ConfirmedStep,
             ReleasedStep DEF HandlersInv

(* The invariant of the handlers holds for every order and number of        *)
(* messages, duplicates and reused keys included, in every failure mode.    *)
THEOREM HandlersInductive == HandlersSpec => []HandlersInv
  <1>1. HandlersInit => HandlersInv
    BY HandlersInvInit
  <1>2. HandlersInv /\ [HandlersNext]_handlerVars => HandlersInv'
    BY HandlersInvStep
  <1> QED BY <1>1, <1>2, PTL DEF HandlersSpec

(* The inventory and the three stores stay well typed.                      *)
THEOREM HandlersTypeCorrect == HandlersSpec => []HandlersTypeOK
  <1>1. HandlersInv => HandlersTypeOK
    BY DEF HandlersInv
  <1> QED BY <1>1, HandlersInductive, PTL

(* The store of the failure simulation and that of the reservation handler  *)
(* never disagree on a key.                                                 *)
THEOREM StoresAgreeHolds == HandlersSpec => []StoresAgree
  <1>1. HandlersInv => StoresAgree
    BY DEF HandlersInv
  <1> QED BY <1>1, HandlersInductive, PTL

(* One key under which a reservation was confirmed, or released, is one.    *)
LEMMA OnceFromInv ==
    ASSUME HandlersInv
    PROVE  ReservationsConfirmedOnce /\ ReleasesAnsweredOnce
  <1>1. ASSUME NEW r \in DOMAIN reservations
        PROVE  Cardinality(ConfirmedBy(r)) = 1
    <2>1. PICK k : ConfirmedBy(r) = {k}
      BY DEF HandlersInv, ConfirmedUnderOneKey
    <2> QED BY <2>1, FS_Singleton
  <1>2. ASSUME NEW r \in ReservationIDs
        PROVE  Cardinality(ReleasedBy(r)) = IF IsReleased(r) THEN 1 ELSE 0
    <2>1. CASE IsReleased(r)
      <3>1. PICK k : ReleasedBy(r) = {k}
        BY <2>1 DEF HandlersInv, ReleasedUnderOneKey
      <3>2. Cardinality({k}) = 1
        BY FS_Singleton
      <3> QED BY <2>1, <3>1, <3>2
    <2>2. CASE ~IsReleased(r)
      <3>1. ReleasedBy(r) = {}
        BY <2>2 DEF HandlersInv, ReleasedUnderOneKey
      <3>2. Cardinality({}) = 0
        BY FS_EmptySet
      <3> QED BY <2>2, <3>1, <3>2
    <2> QED BY <2>1, <2>2
  <1> QED BY <1>1, <1>2 DEF HandlersInv, ReservationsConfirmedOnce,
                            ReleasesAnsweredOnce

(* A reservation exists exactly when one key was answered with confirmed    *)
(* for it, and it holds what that request asked for.                        *)
THEOREM ReservationsConfirmedOnceHolds ==
    HandlersSpec => []ReservationsConfirmedOnce
  <1>1. HandlersInv => ReservationsConfirmedOnce
    BY OnceFromInv
  <1> QED BY <1>1, HandlersInductive, PTL

(* A reservation is released exactly when one key was answered with         *)
(* released for it.                                                         *)
THEOREM ReleasesAnsweredOnceHolds == HandlersSpec => []ReleasesAnsweredOnce
  <1>1. HandlersInv => ReleasesAnsweredOnce
    BY OnceFromInv
  <1> QED BY <1>1, HandlersInductive, PTL

(* Through the handlers the repository is used as Inventory says, by any    *)
(* number of messages in any order: with the stores and the replies hidden, *)
(* the handlers implement the inventory on its own, and what is true of     *)
(* that is true of them.                                                    *)
THEOREM HandlersImplementInventory == HandlersSpec => InventorySpec
  <1>1. HandlersInit => InventoryInit
    BY DEF HandlersInit
  <1>2. HandlersInv /\ [HandlersNext]_handlerVars => [InventoryNext]_inventoryVars
    BY StepEffect, EffectOnInventory DEF HandlersInv
  <1> QED BY <1>1, <1>2, HandlersInductive, PTL DEF HandlersSpec, InventorySpec

(* A step keeps the entries of the two stores that answer.                   *)
DecisionsKept ==
    /\ \A k \in DOMAIN simulationStore :
          k \in DOMAIN simulationStore' /\ simulationStore'[k] = simulationStore[k]
    /\ \A k \in DOMAIN releaseStore :
          k \in DOMAIN releaseStore' /\ releaseStore'[k] = releaseStore[k]

(* Execute writes an entry under a free key only.                           *)
LEMMA DecisionsStep ==
    ASSUME HandlersInv, [HandlersNext]_handlerVars
    PROVE  DecisionsKept
  <1>1. Effect
    BY StepEffect DEF HandlersInv
  <1>2. CASE Quiet \/ StockSet
    BY <1>2 DEF Quiet, StockSet, stores, DecisionsKept
  <1>3. ASSUME NEW m \in ReserveRequests,
               Confirms(m) \/ RejectsForShortage(m) \/ RejectsForMode(m)
        PROVE  DecisionsKept
    BY <1>3 DEF Confirms, RejectsForShortage, RejectsForMode, Put, DecisionsKept
  <1>4. ASSUME NEW m \in ReleaseRequests, Releases(m) \/ RefusesRelease(m)
        PROVE  DecisionsKept
    BY <1>4 DEF Releases, RefusesRelease, Put, DecisionsKept
  <1> QED BY <1>1, <1>2, <1>3, <1>4 DEF Effect

(* A decision cached under a key is never revised: a new entry needs a key  *)
(* that is free.                                                            *)
THEOREM DecisionsAreFinalHolds == HandlersSpec => DecisionsAreFinal
  <1>1. HandlersInv /\ [HandlersNext]_handlerVars => [DecisionsKept]_handlerVars
    BY DecisionsStep
  <1> QED BY <1>1, HandlersInductive, PTL
          DEF HandlersSpec, DecisionsAreFinal, DecisionsKept

-----------------------------------------------------------------------------
(* What the repository can say to a decoded message within its capacity.    *)
LEMMA DecodedErrors ==
    ASSUME CapacityInv, NEW m, Decodes(m)
    PROVE  /\ m \in ReserveRequests =>
                 ReserveError(m.id, m.sku, m.quantity) \in
                    {Nil, "ReservationAlreadyExists", "StockItemNotFound",
                     "InsufficientStock"}
           /\ m \in ReleaseRequests =>
                 ReleaseError(m.id) \in
                    {Nil, "ReservationNotFound", "ReservationNotActive"}
  <1>1. StockNonNegative /\ ActiveIsReleasable
    BY InvNonNegative, InvReleasable
  <1>2. ASSUME m \in ReserveRequests
        PROVE  ReserveError(m.id, m.sku, m.quantity) \in
                  {Nil, "ReservationAlreadyExists", "StockItemNotFound",
                   "InsufficientStock"}
    <2>1. TrimSpace[m.id] # Blank /\ TrimSpace[m.sku] # Blank /\ m.quantity > 0
      BY <1>2 DEF Decodes, DecodeReservationRequested, ReserveRequests
    <2>2. m.quantity \in Int
      <3>1. m.quantity \in Quantities
        BY <1>2, HandlersAssumption
      <3>2. \A q \in Quantities : q \in Int
        BY InventoryAssumption DEF MinInt
      <3> QED BY <3>1, <3>2
    <2>3. ~(m.quantity <= 0)
      BY <2>1, <2>2
    <2> QED BY <1>1, <2>1, <2>3 DEF ReserveError, StockNonNegative
  <1>3. ASSUME m \in ReleaseRequests
        PROVE  ReleaseError(m.id) \in
                  {Nil, "ReservationNotFound", "ReservationNotActive"}
    <2> DEFINE r == TrimSpace[m.id]
    <2>1. r # Blank /\ m.id \in ReservationText
      BY <1>3, HandlersAssumption
         DEF Decodes, DecodeReservationReleaseRequested, ReleaseRequests
    <2>2. CASE r \notin DOMAIN reservations
      BY <2>1, <2>2 DEF ReleaseError
    <2>3. CASE r \in DOMAIN reservations /\ reservations[r].status = "active"
      BY <1>1, <2>1, <2>3 DEF ActiveIsReleasable
    <2>4. CASE r \in DOMAIN reservations /\ reservations[r].status # "active"
      <3>1. reservations[r].sku \in DOMAIN stock
        BY <2>4 DEF CapacityInv, ReservationsBacked
      <3>2. ValidItem(stock[reservations[r].sku])
        BY <1>1, <3>1 DEF StockNonNegative
      <3> QED BY <2>1, <2>4, <3>1, <3>2 DEF ReleaseError
    <2> QED BY <2>2, <2>3, <2>4
  <1> QED BY <1>2, <1>3

(* Within capacity the handlers fail on a decoded message only with errors  *)
(* that a client can cause and the consumer takes for permanent.            *)
LEMMA AnswerErrors ==
    ASSUME HandlersInv, CapacityInv, NEW m, Decodes(m),
           \/ m \in ReserveRequests /\ \E mode : HandleReservationRequested(m, mode)
           \/ m \in ReleaseRequests /\ HandleReservationReleaseRequested(m)
    PROVE  reply'.error \in {Nil, "ReservationAlreadyExists", "IdempotencyConflict"}
  <1> DEFINE Known == {Nil, "ReservationAlreadyExists", "IdempotencyConflict"}
  <1>1. \A entry : Replayed(entry, m).error \in {Nil, "IdempotencyConflict"}
    BY DEF Replayed, Ok, Err
  <1>2. ASSUME m \in ReserveRequests, NEW mode, HandleReservationRequested(m, mode)
        PROVE  reply'.error \in Known
    <2>1. CASE HandleReplayed(m)
      BY <1>1, <2>1 DEF HandleReplayed
    <2>2. CASE HandleRejected(m, mode)
      BY <2>2 DEF HandleRejected, Ok
    <2>3. CASE HandleReserved(m, mode)
      <3>1. reply' = ReserveReply(m)
        BY <2>3 DEF HandleReserved, ReservationReply, HandlersInv, StoresAgree
      <3>2. ReserveError(m.id, m.sku, m.quantity) \in
               {Nil, "ReservationAlreadyExists", "StockItemNotFound",
                "InsufficientStock"}
        BY <1>2, DecodedErrors
      <3> QED BY <3>1, <3>2 DEF ReserveReply, Ok, Err
    <2> QED BY <1>2, <2>1, <2>2, <2>3 DEF HandleReservationRequested
  <1>3. ASSUME m \in ReleaseRequests, HandleReservationReleaseRequested(m)
        PROVE  reply'.error \in Known
    <2>1. CASE Key(m) \in DOMAIN releaseStore
      BY <1>1, <1>3, <2>1 DEF HandleReservationReleaseRequested
    <2>2. CASE Key(m) \notin DOMAIN releaseStore
      <3>1. reply' = ReleaseReply(m)
        BY <1>3, <2>2 DEF HandleReservationReleaseRequested
      <3>2. ReleaseError(m.id) \in
               {Nil, "ReservationNotFound", "ReservationNotActive"}
        BY <1>3, DecodedErrors
      <3> QED BY <3>1, <3>2 DEF ReleaseReply, Ok, Err
    <2> QED BY <2>1, <2>2
  <1> QED BY <1>2, <1>3

(* Every step of the handlers answers so, or that the context is done.      *)
LEMMA OnlyClientErrorsStep ==
    ASSUME HandlersInv, CapacityInv, OnlyClientErrors, [HandlersNext]_handlerVars
    PROVE  OnlyClientErrors'
  <1>1. CASE HandleCancelled
    BY <1>1 DEF HandleCancelled, Err, OnlyClientErrors
  <1>2. CASE UNCHANGED reply
    BY <1>2 DEF OnlyClientErrors
  <1> QED BY <1>1, <1>2, AnswerErrors DEF HandlersNext, handlerVars, OnlyClientErrors

(* Within capacity the handlers fail on a decoded message only with the     *)
(* errors a client can cause, or because the context is done.               *)
THEOREM OnlyClientErrorsHold == HandlersSpec => []OnlyClientErrors
  <1>1. HandlersInit => CapacityInv /\ OnlyClientErrors
    <2> SUFFICES ASSUME HandlersInit PROVE CapacityInv /\ OnlyClientErrors
      OBVIOUS
    <2>1. CapacityInv
      BY CapacityInit DEF HandlersInit
    <2>2. OnlyClientErrors
      BY DEF HandlersInit, OnlyClientErrors, Err
    <2> QED BY <2>1, <2>2
  <1>2. HandlersInv /\ CapacityInv /\ [HandlersNext]_handlerVars => CapacityInv'
    BY StepEffect, EffectOnInventory, CapacityStep DEF HandlersInv
  <1>3. HandlersInv /\ CapacityInv /\ OnlyClientErrors
           /\ [HandlersNext]_handlerVars => OnlyClientErrors'
    BY OnlyClientErrorsStep
  <1> QED BY <1>1, <1>2, <1>3, HandlersInductive, PTL DEF HandlersSpec

-----------------------------------------------------------------------------
(* A result that store holds for the key and the payload of m, handed out   *)
(* under the metadata of m.                                                 *)
AnswersFrom(store, m, result) ==
    /\ Key(m) \in DOMAIN store
    /\ result \in Result
    /\ result.request = m
    /\ result.decision = store[Key(m)].decision
    /\ result.reason = store[Key(m)].reason
    /\ m.id = store[Key(m)].request.id
    /\ m.kind = "reserve" => SameReservationRequest(store[Key(m)].request, m)

(* A replayed result answers from the store.                                *)
LEMMA ReplayAnswers ==
    ASSUME NEW store, NEW m \in Requests, Key(m) \in DOMAIN store,
           store[Key(m)] \in Result, Replayed(store[Key(m)], m).error = Nil
    PROVE  AnswersFrom(store, m, Replayed(store[Key(m)], m).result)
  <1> DEFINE entry == store[Key(m)]
  <1>1. entry \in Result
    OBVIOUS
  <1> HIDE DEF entry
  <1>2. IF m.kind = "reserve" THEN SameReservationRequest(entry.request, m)
        ELSE SameReservationReleaseRequest(entry.request, m)
    BY DEF Replayed, Err, Nil, entry
  <1>3. Replayed(entry, m).result = [entry EXCEPT !.request = m]
    BY <1>2 DEF Replayed, Ok
  <1>4. /\ [entry EXCEPT !.request = m] \in Result
        /\ [entry EXCEPT !.request = m].request = m
        /\ [entry EXCEPT !.request = m].decision = entry.decision
        /\ [entry EXCEPT !.request = m].reason = entry.reason
    BY <1>1 DEF Result
  <1>5. m.id = entry.request.id
    BY <1>2 DEF SameReservationRequest, SameReservationReleaseRequest
  <1>6. m.kind = "reserve" => SameReservationRequest(entry.request, m)
    BY <1>2
  <1> QED BY <1>3, <1>4, <1>5, <1>6 DEF AnswersFrom, entry

(* A fresh result answers from the store it has been put into.              *)
LEMMA FreshAnswers ==
    ASSUME NEW store, NEW m \in Requests, NEW d \in Decisions,
           NEW reason \in Reasons
    PROVE  AnswersFrom(Put(store, Key(m), NewResult(m, d, reason)), m,
                       NewResult(m, d, reason))
  <1>1. /\ NewResult(m, d, reason) \in Result
        /\ NewResult(m, d, reason).request = m
    BY NewResultType
  <1>2. /\ Key(m) \in DOMAIN Put(store, Key(m), NewResult(m, d, reason))
        /\ Put(store, Key(m), NewResult(m, d, reason))[Key(m)] =
              NewResult(m, d, reason)
    BY DEF Put
  <1> QED BY <1>1, <1>2 DEF AnswersFrom, SameReservationRequest

(* What a handler returns without an error is what its outermost store      *)
(* holds for that key from then on.                                         *)
LEMMA ReservationAnswer ==
    ASSUME HandlersInv, NEW m \in ReserveRequests, NEW mode,
           HandleReservationRequested(m, mode), reply'.error = Nil
    PROVE  AnswersFrom(simulationStore', m, reply'.result)
  <1>1. m \in Requests
    BY DEF ReserveRequests
  <1>2. CASE HandleReplayed(m)
    <2>1. /\ Key(m) \in DOMAIN simulationStore
          /\ simulationStore[Key(m)] \in Result
      BY <1>2 DEF HandleReplayed, HandlersInv, HandlersTypeOK
    <2> QED BY <1>1, <1>2, <2>1, ReplayAnswers DEF HandleReplayed, stores
  <1>3. CASE HandleRejected(m, mode)
    <2> DEFINE new == NewResult(m, "rejected", "FAILURE_MODE")
    <2>1. reply'.error = Nil /\ reply'.result = new
      BY <1>3 DEF HandleRejected, Ok
    <2>2. simulationStore' = Put(simulationStore, Key(m), new)
      <3>1. /\ Key(m) \notin DOMAIN simulationStore
            /\ simulationStore' = CacheReply(simulationStore, Key(m), reply')
        BY <1>3 DEF HandleRejected
      <3> QED BY <2>1, <3>1, CacheEffect
    <2>3. AnswersFrom(Put(simulationStore, Key(m), new), m, new)
      BY <1>1, FreshAnswers DEF Decisions, Reasons
    <2> QED BY <2>1, <2>2, <2>3
  <1>4. CASE HandleReserved(m, mode)
    <2>1. /\ Key(m) \notin DOMAIN simulationStore
          /\ reply' = ReserveReply(m)
          /\ simulationStore' = CacheReply(simulationStore, Key(m), reply')
      BY <1>4 DEF HandleReserved, ReservationReply, HandlersInv, StoresAgree
    <2>2. simulationStore' = Put(simulationStore, Key(m), reply'.result)
      BY <2>1, CacheEffect
    <2>3. \/ reply'.result = NewResult(m, "confirmed", Nil)
          \/ reply'.result = NewResult(m, "rejected", "INSUFFICIENT_STOCK")
      BY <2>1 DEF ReserveReply, Ok, Err
    <2>4. AnswersFrom(Put(simulationStore, Key(m), reply'.result), m,
                      reply'.result)
      BY <1>1, <2>3, FreshAnswers DEF Decisions, Reasons
    <2> QED BY <2>2, <2>4
  <1> QED BY <1>2, <1>3, <1>4 DEF HandleReservationRequested

(* The same of the release handler and its store.                           *)
LEMMA ReleaseAnswer ==
    ASSUME HandlersInv, NEW m \in ReleaseRequests,
           HandleReservationReleaseRequested(m), reply'.error = Nil
    PROVE  AnswersFrom(releaseStore', m, reply'.result)
  <1>1. m \in Requests
    BY DEF ReleaseRequests
  <1>2. CASE Key(m) \in DOMAIN releaseStore
    <2>1. releaseStore[Key(m)] \in Result
      BY <1>2 DEF HandlersInv, HandlersTypeOK
    <2>2. reply' = Replayed(releaseStore[Key(m)], m) /\ releaseStore' = releaseStore
      BY <1>2 DEF HandleReservationReleaseRequested, CacheReply
    <2> QED BY <1>1, <1>2, <2>1, <2>2, ReplayAnswers
  <1>3. CASE Key(m) \notin DOMAIN releaseStore
    <2>1. /\ reply' = ReleaseReply(m)
          /\ releaseStore' = CacheReply(releaseStore, Key(m), reply')
      BY <1>3 DEF HandleReservationReleaseRequested
    <2>2. releaseStore' = Put(releaseStore, Key(m), reply'.result)
      BY <1>3, <2>1, CacheEffect
    <2>3. \/ reply'.result = NewResult(m, "released", Nil)
          \/ reply'.result = NewResult(m, "release_failed", "RESERVATION_NOT_FOUND")
          \/ reply'.result = NewResult(m, "release_failed", "RESERVATION_NOT_ACTIVE")
      BY <2>1 DEF ReleaseReply, Ok, Err
    <2>4. AnswersFrom(Put(releaseStore, Key(m), reply'.result), m, reply'.result)
      BY <1>1, <2>3, FreshAnswers DEF Decisions, Reasons
    <2> QED BY <2>2, <2>4
  <1> QED BY <1>2, <1>3
=============================================================================
