------------------------------ MODULE Handlers ------------------------------
(***************************************************************************)
(* The message handlers of internal/app over the inventory: the failure    *)
(* simulation around reservations, the reservation handler and the release *)
(* handler, each with its own idempotency store.                           *)
(*                                                                         *)
(* The one consumer goroutine is the only caller of the three stores, so a *)
(* call of Execute never waits and a handler call is one step: its only    *)
(* access to state it shares with the HTTP API is one repository call.     *)
(* IdempotencyStore models Execute under concurrent callers.               *)
(***************************************************************************)
EXTENDS Inventory

CONSTANTS
    Requests   \* messages the market may send, as decoded from AMQP

(* wellFormed: the headers are present and valid and the body is the JSON   *)
(* object expected.                                                         *)
ReserveRequests == {m \in Requests : m.kind = "reserve"}
ReleaseRequests == {m \in Requests : m.kind = "release"}

(* The texts that appear in messages, the idempotency keys among them. *)
KeyText == {m.key : m \in Requests}
Keys == {TrimSpace[t] : t \in KeyText} \ {Blank}

ASSUME HandlersAssumption ==
    /\ Requests = ReserveRequests \cup ReleaseRequests
    /\ \A m \in Requests : m.wellFormed \in BOOLEAN /\ m.id \in ReservationText
    /\ \A m \in ReserveRequests : m.sku \in SkuText /\ m.quantity \in Quantities

VARIABLES
    simulationStore,    \* entries of failureSimulationIdempotencyStore
    reservationStore,   \* entries of the reservation handler's store
    releaseStore,       \* entries of the release handler's store
    reply               \* what the last handler call returned

stores == <<simulationStore, reservationStore, releaseStore>>
handlerVars == <<inventoryVars, stores, reply>>

Modes == {"normal", "always_reject", "random_reject", "processing_delay",
          "publish_failure", "duplicate_response"}

Decisions == {"confirmed", "rejected", "released", "release_failed"}
Reasons == {Nil, "INSUFFICIENT_STOCK", "FAILURE_MODE", "RESERVATION_NOT_FOUND",
            "RESERVATION_NOT_ACTIVE"}
Result == [decision : Decisions, reason : Reasons, request : Requests]

(* A handler returns a result, possibly from the cache, or an error.        *)
Ok(result, hit) == [error |-> Nil, result |-> result, hit |-> hit]
NoResult == [decision |-> "none"]
Err(error) == [error |-> error, result |-> NoResult, hit |-> FALSE]

NewResult(request, decision, reason) ==
    [decision |-> decision, reason |-> reason, request |-> request]

HandlersInit ==
    /\ InventoryInit
    /\ simulationStore = [k \in {} |-> Nil]
    /\ reservationStore = [k \in {} |-> Nil]
    /\ releaseStore = [k \in {} |-> Nil]
    /\ reply = Err(Nil)

-----------------------------------------------------------------------------
(* What is turned away before a handler sees it. *)
DecodeMessageMetadata(m) == m.wellFormed /\ TrimSpace[m.key] # Blank

DecodeReservationRequested(m) ==
    /\ DecodeMessageMetadata(m)
    /\ TrimSpace[m.id] # Blank
    /\ TrimSpace[m.order] # Blank
    /\ TrimSpace[m.sku] # Blank
    /\ m.quantity > 0

DecodeReservationReleaseRequested(m) ==
    DecodeMessageMetadata(m) /\ TrimSpace[m.id] # Blank

Decodes(m) ==
    \/ m.kind = "reserve" /\ DecodeReservationRequested(m)
    \/ m.kind = "release" /\ DecodeReservationReleaseRequested(m)

(* Execute trims the key; the variant uses it as it came in. *)
RawKey(m) == m.key

Key(m) == TrimSpace[m.key]

SameReservationRequest(left, right) ==
    /\ left.id = right.id /\ left.order = right.order
    /\ left.sku = right.sku /\ left.quantity = right.quantity

SameReservationReleaseRequest(left, right) ==
    left.id = right.id /\ left.reason = right.reason

(* The reply to m when the store already has a result for its key: that     *)
(* result under m's own metadata, unless the key was used for another       *)
(* payload.                                                                 *)
Replayed(entry, m) ==
    IF IF m.kind = "reserve" THEN SameReservationRequest(entry.request, m)
       ELSE SameReservationReleaseRequest(entry.request, m)
    THEN Ok([entry EXCEPT !.request = m], TRUE)
    ELSE Err("IdempotencyConflict")

(* Whether a request may be, and whether it must be, rejected by the mode.  *)
MayReject(mode) == mode \in {"always_reject", "random_reject"}
MustReject(mode) == mode = "always_reject"

-----------------------------------------------------------------------------
(* InventoryReservationHandler.reserve: a shortage is an outcome, any other *)
(* failure of the repository an error.  The variants confirm a shortage, or *)
(* take an unknown SKU for an error.                                        *)
ReserveReplyGenerous(m) ==
    IF ReserveError(m.id, m.sku, m.quantity) \in {Nil, "InsufficientStock"}
    THEN Ok(NewResult(m, "confirmed", Nil), FALSE)
    ELSE Ok(NewResult(m, "rejected", "INSUFFICIENT_STOCK"), FALSE)

ReserveReplyStrict(m) ==
    LET e == ReserveError(m.id, m.sku, m.quantity)
    IN  IF e = Nil THEN Ok(NewResult(m, "confirmed", Nil), FALSE)
        ELSE IF e = "InsufficientStock"
             THEN Ok(NewResult(m, "rejected", "INSUFFICIENT_STOCK"), FALSE)
        ELSE Err(e)

ReserveReply(m) ==
    LET e == ReserveError(m.id, m.sku, m.quantity)
    IN  IF e = Nil THEN Ok(NewResult(m, "confirmed", Nil), FALSE)
        ELSE IF e \in {"InsufficientStock", "StockItemNotFound"}
             THEN Ok(NewResult(m, "rejected", "INSUFFICIENT_STOCK"), FALSE)
        ELSE Err(e)

ReservationReply(m) ==
    IF Key(m) \in DOMAIN reservationStore
    THEN Replayed(reservationStore[Key(m)], m)
    ELSE ReserveReply(m)

(* Execute caches what its operation returned unless that is an error.      *)
(* The variant forgets results, as a store that is never written would.     *)
CacheNothing(store, k, r) == store

CacheReply(store, k, r) ==
    IF r.error = Nil /\ k \notin DOMAIN store THEN Put(store, k, r.result)
    ELSE store

(* The outer handler finds the key in its own store. *)
HandleReplayed(m) ==
    /\ Key(m) \in DOMAIN simulationStore
    /\ reply' = Replayed(simulationStore[Key(m)], m)
    /\ UNCHANGED <<inventoryVars, stores>>

(* Variants of the next action: the rejection lands in the inner store,     *)
(* or is not kept from replacing an earlier decision.                       *)
HandleRejectedInside(m, mode) ==
    /\ Key(m) \notin DOMAIN simulationStore
    /\ MayReject(mode)
    /\ reply' = Ok(NewResult(m, "rejected", "FAILURE_MODE"), FALSE)
    /\ reservationStore' = CacheReply(reservationStore, Key(m), reply')
    /\ UNCHANGED <<inventoryVars, simulationStore, releaseStore>>

HandleRejectedAgain(m, mode) ==
    /\ MayReject(mode)
    /\ reply' = Ok(NewResult(m, "rejected", "FAILURE_MODE"), FALSE)
    /\ simulationStore' = Put(simulationStore, Key(m), reply'.result)
    /\ UNCHANGED <<inventoryVars, reservationStore, releaseStore>>

(* The failure mode rejects the request and the rejection is cached. *)
HandleRejected(m, mode) ==
    /\ Key(m) \notin DOMAIN simulationStore
    /\ MayReject(mode)
    /\ reply' = Ok(NewResult(m, "rejected", "FAILURE_MODE"), FALSE)
    /\ simulationStore' = CacheReply(simulationStore, Key(m), reply')
    /\ UNCHANGED <<inventoryVars, reservationStore, releaseStore>>

(* The request reaches the inner handler, and the repository if that has    *)
(* not seen the key.                                                        *)
HandleReserved(m, mode) ==
    /\ Key(m) \notin DOMAIN simulationStore
    /\ ~MustReject(mode)
    /\ reply' = ReservationReply(m)
    /\ IF /\ Key(m) \notin DOMAIN reservationStore
          /\ ReserveError(m.id, m.sku, m.quantity) = Nil
       THEN Reserve(m.id, m.sku, m.quantity)
       ELSE UNCHANGED inventoryVars
    /\ reservationStore' = CacheReply(reservationStore, Key(m), reply')
    /\ simulationStore' = CacheReply(simulationStore, Key(m), reply')
    /\ UNCHANGED releaseStore

(* The failure simulation under the mode it read before it waited. *)
HandleReservationRequested(m, mode) ==
    HandleReplayed(m) \/ HandleRejected(m, mode) \/ HandleReserved(m, mode)

-----------------------------------------------------------------------------
(* InventoryReservationReleaseHandler.release; the variant takes a          *)
(* reservation that is not active for one it has just released.             *)
ReleaseReplyLenient(m) ==
    LET e == ReleaseError(m.id)
    IN  IF e \in {Nil, "ReservationNotActive"}
        THEN Ok(NewResult(m, "released", Nil), FALSE)
        ELSE IF e = "ReservationNotFound"
             THEN Ok(NewResult(m, "release_failed", "RESERVATION_NOT_FOUND"), FALSE)
        ELSE Err(e)

ReleaseReply(m) ==
    LET e == ReleaseError(m.id)
    IN  IF e = Nil THEN Ok(NewResult(m, "released", Nil), FALSE)
        ELSE IF e = "ReservationNotFound"
             THEN Ok(NewResult(m, "release_failed", "RESERVATION_NOT_FOUND"), FALSE)
        ELSE IF e = "ReservationNotActive"
             THEN Ok(NewResult(m, "release_failed", "RESERVATION_NOT_ACTIVE"), FALSE)
        ELSE Err(e)

HandleReservationReleaseRequested(m) ==
    LET known == Key(m) \in DOMAIN releaseStore
    IN  /\ reply' = IF known THEN Replayed(releaseStore[Key(m)], m)
                    ELSE ReleaseReply(m)
        /\ IF ~known /\ ReleaseError(m.id) = Nil
           THEN Release(m.id)
           ELSE UNCHANGED inventoryVars
        /\ releaseStore' = CacheReply(releaseStore, Key(m), reply')
        /\ UNCHANGED <<simulationStore, reservationStore>>

(* The context was cancelled during the delay, or was seen to be done by    *)
(* Execute or the repository: nothing has changed.                          *)
HandleCancelled ==
    /\ reply' = Err("ContextCanceled")
    /\ UNCHANGED <<inventoryVars, stores>>

-----------------------------------------------------------------------------
(* The handlers on their own: decoded messages in any order and number,     *)
(* any failure mode, and stock set over HTTP in between.                    *)
HandlersNext ==
    \/ \E m \in ReserveRequests, mode \in Modes :
          Decodes(m) /\ HandleReservationRequested(m, mode)
    \/ \E m \in ReleaseRequests :
          Decodes(m) /\ HandleReservationReleaseRequested(m)
    \/ HandleCancelled
    \/ \E t \in SkuText, level \in StockLevels :
          SetStock(t, level) /\ UNCHANGED <<stores, reply>>

HandlersSpec == HandlersInit /\ [][HandlersNext]_handlerVars

-----------------------------------------------------------------------------
(* Type correctness of the stores: trimmed keys and well-formed results.    *)
HandlersTypeOK ==
    /\ TypeOK
    /\ DOMAIN simulationStore \cup DOMAIN reservationStore \cup
       DOMAIN releaseStore \subseteq Keys
    /\ \A k \in DOMAIN simulationStore : simulationStore[k] \in Result
    /\ \A k \in DOMAIN reservationStore : reservationStore[k] \in Result
    /\ \A k \in DOMAIN releaseStore : releaseStore[k] \in Result

(* The keys of a store under which reservation r got the given decision.    *)
AnsweredWith(store, decision, r) ==
    {k \in DOMAIN store : /\ store[k].decision = decision
                          /\ TrimSpace[store[k].request.id] = r}

ConfirmedBy(r) == AnsweredWith(simulationStore, "confirmed", r)

ReleasedBy(r) == AnsweredWith(releaseStore, "released", r)

IsReleased(r) ==
    r \in DOMAIN reservations /\ reservations[r].status = "released"

ConfirmedIsHeld ==
    \A k \in DOMAIN simulationStore :
        LET e == simulationStore[k]
            r == TrimSpace[e.request.id]
        IN  e.decision = "confirmed" =>
               /\ r \in DOMAIN reservations
               /\ reservations[r].sku = TrimSpace[e.request.sku]
               /\ reservations[r].quantity = e.request.quantity

(* Every reservation in the repository was confirmed under exactly one      *)
(* idempotency key, for the SKU and quantity that request asked for, and    *)
(* nothing else was confirmed: stock is never held for a request that was   *)
(* rejected, and no request is confirmed twice under two keys.              *)
ReservationsConfirmedOnce ==
    /\ \A r \in DOMAIN reservations : Cardinality(ConfirmedBy(r)) = 1
    /\ ConfirmedIsHeld

(* A reservation is released exactly when one key was answered with         *)
(* released for it: a duplicate release gives stock back once.              *)
ReleasesAnsweredOnce ==
    \A r \in ReservationIDs :
        Cardinality(ReleasedBy(r)) = IF IsReleased(r) THEN 1 ELSE 0

(* The two stores a reservation passes through never disagree: what the     *)
(* inner one knows the outer one knows too, and what only the outer one     *)
(* knows are rejections by the failure mode.                                *)
StoresAgree ==
    /\ DOMAIN reservationStore \subseteq DOMAIN simulationStore
    /\ \A k \in DOMAIN simulationStore :
          IF k \in DOMAIN reservationStore
          THEN simulationStore[k] = reservationStore[k]
          ELSE simulationStore[k].reason = "FAILURE_MODE"

(* One key per confirmed and per released reservation, said with sets of    *)
(* keys instead of their numbers: this is what steps preserve.              *)
ConfirmedUnderOneKey ==
    \A r \in DOMAIN reservations :
        \E k \in DOMAIN simulationStore : ConfirmedBy(r) = {k}

ReleasedUnderOneKey ==
    \A r \in ReservationIDs :
        IF IsReleased(r)
        THEN \E k \in DOMAIN releaseStore : ReleasedBy(r) = {k}
        ELSE ReleasedBy(r) = {}

(* The inductive invariant of the handlers.                                 *)
HandlersInv ==
    /\ HandlersTypeOK
    /\ StoresAgree
    /\ ConfirmedIsHeld
    /\ ConfirmedUnderOneKey
    /\ ReleasedUnderOneKey

(* A decoded message never makes a handler fail in a way that a retry could *)
(* not cure but the consumer would not recognise: apart from cancellation   *)
(* the only errors are the permanent ones a client can cause.               *)
OnlyClientErrors ==
    reply.error \in {Nil, "ContextCanceled", "ReservationAlreadyExists",
                     "IdempotencyConflict"}

(* A decision that was cached under a key is never revised, whatever the    *)
(* failure mode or the stock becomes.                                       *)
DecisionsAreFinal ==
    [][/\ \A k \in DOMAIN simulationStore :
             k \in DOMAIN simulationStore' /\
             simulationStore'[k] = simulationStore[k]
       /\ \A k \in DOMAIN releaseStore :
             k \in DOMAIN releaseStore' /\ releaseStore'[k] = releaseStore[k]
      ]_handlerVars
=============================================================================
