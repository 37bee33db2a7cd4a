----------------------------- MODULE Inventory -----------------------------
(***************************************************************************)
(* The inventory of the ERP mock: the domain rules of                      *)
(* internal/domain/inventory (StockItem, Reservation, Service) inside the  *)
(* repository of internal/storage/memory that guards them with one lock.   *)
(*                                                                         *)
(* Every repository method takes the lock once, so each is one action.     *)
(* A call that fails changes nothing; which error it returns is given by   *)
(* SetStockError, ReserveError and ReleaseError, in the code's order.      *)
(***************************************************************************)
EXTENDS Integers, FiniteSets

CONSTANTS
    ReservationText,  \* reservation IDs as callers write them
    SkuText,          \* SKUs as callers write them
    TrimSpace,        \* strings.TrimSpace, a function on the texts
    Blank,            \* the empty string
    Quantities,       \* quantities a reservation may ask for
    StockLevels,      \* levels the HTTP API may set
    Seed,             \* the seeded SKUs and their available quantities
    MaxInt            \* the largest value of Go's int

MinInt == -MaxInt - 1

(* The keys of the two maps are trimmed and never blank. *)
ReservationIDs == {TrimSpace[t] : t \in ReservationText} \ {Blank}
SKUs == {TrimSpace[t] : t \in SkuText} \ {Blank}

ASSUME InventoryAssumption ==
    /\ ReservationText \cup SkuText \cup {Blank} \subseteq DOMAIN TrimSpace
    /\ TrimSpace[Blank] = Blank
    /\ MaxInt \in Nat
    /\ Quantities \subseteq MinInt..MaxInt
    /\ StockLevels \subseteq MinInt..MaxInt
    /\ DOMAIN Seed \subseteq SKUs
    /\ \A s \in DOMAIN Seed : Seed[s] \in 0..MaxInt

VARIABLES
    stock,         \* map from a SKU to its StockItem
    reservations   \* map from a reservation ID to its Reservation

inventoryVars == <<stock, reservations>>

GoInt == MinInt..MaxInt
StockItem == [available : GoInt, reserved : GoInt]
Status == {"active", "released"}
Reservation == [sku : SKUs, quantity : 1..MaxInt, status : Status]

Nil == "nil"
Error == {"InvalidArgument", "InsufficientStock", "ReservationAlreadyExists",
          "ReservationNotFound", "ReservationNotActive", "StockItemNotFound",
          "StockInvariantViolation"}

(* Go's int addition wraps around. *)
AddInt(a, b) ==
    IF a + b > MaxInt THEN a + b - 2 * (MaxInt + 1)
    ELSE IF a + b < MinInt THEN a + b + 2 * (MaxInt + 1)
    ELSE a + b

(* A map m with key k set to v. *)
Put(m, k, v) == [x \in DOMAIN m \cup {k} |-> IF x = k THEN v ELSE m[x]]

ValidItem(item) == item.available >= 0 /\ item.reserved >= 0

InventoryInit ==
    /\ stock = [s \in DOMAIN Seed |-> [available |-> Seed[s], reserved |-> 0]]
    /\ reservations = [r \in {} |-> Nil]

-----------------------------------------------------------------------------
(* POST /stock: the level replaces the available quantity, the reserved     *)
(* quantity of a known SKU is kept.                                         *)
SetStockError(text, level) ==
    IF TrimSpace[text] = Blank THEN "InvalidArgument"
    ELSE IF level < 0 THEN "StockInvariantViolation"
    ELSE Nil

(* A variant that forgets the units held by reservations. *)
StockAfterReset(s, level) ==
    Put(stock, s, [available |-> level, reserved |-> 0])

StockAfterSet(s, level) ==
    Put(stock, s,
        [available |-> level,
         reserved |-> IF s \in DOMAIN stock THEN stock[s].reserved ELSE 0])

SetStock(text, level) ==
    /\ SetStockError(text, level) = Nil
    /\ stock' = StockAfterSet(TrimSpace[text], level)
    /\ UNCHANGED reservations

-----------------------------------------------------------------------------
(* Variants that leave out the check of the quantity, of the available      *)
(* stock, or of an ID that is taken.                                        *)
ReserveAnyQuantity(idText, skuText, quantity) ==
    LET r == TrimSpace[idText]
        s == TrimSpace[skuText]
    IN  IF r = Blank \/ s = Blank THEN "InvalidArgument"
        ELSE IF r \in DOMAIN reservations THEN "ReservationAlreadyExists"
        ELSE IF s \notin DOMAIN stock THEN "StockItemNotFound"
        ELSE IF stock[s].available < quantity THEN "InsufficientStock"
        ELSE Nil

ReserveBeyondStock(idText, skuText, quantity) ==
    LET r == TrimSpace[idText]
        s == TrimSpace[skuText]
    IN  IF r = Blank \/ s = Blank \/ quantity <= 0 THEN "InvalidArgument"
        ELSE IF r \in DOMAIN reservations THEN "ReservationAlreadyExists"
        ELSE IF s \notin DOMAIN stock THEN "StockItemNotFound"
        ELSE IF ~ValidItem(stock[s]) THEN "StockInvariantViolation"
        ELSE Nil

ReserveTwice(idText, skuText, quantity) ==
    LET s == TrimSpace[skuText]
    IN  IF TrimSpace[idText] = Blank \/ quantity <= 0 THEN "InvalidArgument"
        ELSE IF s \notin DOMAIN stock THEN "StockItemNotFound"
        ELSE IF stock[s].available < quantity THEN "InsufficientStock"
        ELSE Nil

(* The repository's checks, then those of Service.Reserve. *)
ReserveError(idText, skuText, quantity) ==
    LET r == TrimSpace[idText]
        s == TrimSpace[skuText]
    IN  IF r = Blank \/ s = Blank THEN "InvalidArgument"
        ELSE IF r \in DOMAIN reservations THEN "ReservationAlreadyExists"
        ELSE IF s \notin DOMAIN stock THEN "StockItemNotFound"
        ELSE IF ~ValidItem(stock[s]) THEN "StockInvariantViolation"
        ELSE IF quantity <= 0 THEN "InvalidArgument"
        ELSE IF stock[s].available < quantity THEN "InsufficientStock"
        ELSE Nil

(* A variant that counts the units as reserved and leaves them available. *)
ReservedTooItem(item, quantity) ==
    [available |-> item.available, reserved |-> AddInt(item.reserved, quantity)]

ReservedItem(item, quantity) ==
    [available |-> item.available - quantity,
     reserved |-> AddInt(item.reserved, quantity)]

Reserve(idText, skuText, quantity) ==
    LET r == TrimSpace[idText]
        s == TrimSpace[skuText]
    IN  /\ ReserveError(idText, skuText, quantity) = Nil
        /\ stock' = [stock EXCEPT ![s] = ReservedItem(@, quantity)]
        /\ reservations' = Put(reservations, r,
               [sku |-> s, quantity |-> quantity, status |-> "active"])

-----------------------------------------------------------------------------
(* The repository's checks, then those of Service.Release; the item is the  *)
(* one of the reservation's SKU, so the SKUs always match.                  *)
ReleaseError(idText) ==
    LET r == TrimSpace[idText]
        s == reservations[r].sku
    IN  IF r = Blank THEN "InvalidArgument"
        ELSE IF r \notin DOMAIN reservations THEN "ReservationNotFound"
        ELSE IF s \notin DOMAIN stock THEN "StockItemNotFound"
        ELSE IF ~ValidItem(stock[s]) THEN "StockInvariantViolation"
        ELSE IF reservations[r].status # "active" THEN "ReservationNotActive"
        ELSE IF stock[s].reserved < reservations[r].quantity
             THEN "StockInvariantViolation"
        ELSE Nil

(* A variant that gives units back without taking them off the reserved. *)
ReleasedTooItem(item, quantity) ==
    [available |-> AddInt(item.available, quantity), reserved |-> item.reserved]

ReleasedItem(item, quantity) ==
    [available |-> AddInt(item.available, quantity),
     reserved |-> item.reserved - quantity]

Release(idText) ==
    LET r == TrimSpace[idText]
    IN  /\ ReleaseError(idText) = Nil
        /\ stock' = [stock EXCEPT ![reservations[r].sku] =
                        ReleasedItem(@, reservations[r].quantity)]
        /\ reservations' = [reservations EXCEPT ![r].status = "released"]

-----------------------------------------------------------------------------
InventoryNext ==
    \/ \E t \in SkuText, level \in StockLevels : SetStock(t, level)
    \/ \E i \in ReservationText, t \in SkuText, q \in Quantities :
          Reserve(i, t, q)
    \/ \E i \in ReservationText : Release(i)

InventorySpec == InventoryInit /\ [][InventoryNext]_inventoryVars

-----------------------------------------------------------------------------
(* The units of SKU s held by the reservations in map m of the given       *)
(* status, one element <<reservation, i>> per unit: their number is the sum *)
(* of the quantities.                                                       *)
UnitsIn(m, s, status) ==
    UNION {{r} \X (1..m[r].quantity) :
           r \in {x \in DOMAIN m : m[x].sku = s /\ m[x].status = status}}

Units(s, status) == UnitsIn(reservations, s, status)

(* Type correctness: both maps are keyed by trimmed, non-blank names and    *)
(* hold well-formed items; quantities stay in the range of int, also where  *)
(* additions wrap.                                                          *)
TypeOK ==
    /\ DOMAIN stock \subseteq SKUs
    /\ \A s \in DOMAIN stock : stock[s] \in StockItem
    /\ DOMAIN reservations \subseteq ReservationIDs
    /\ \A r \in DOMAIN reservations : reservations[r] \in Reservation

(* The reserved counter of every item, which Service.Reserve and Release    *)
(* adjust and SetStock carries over, equals the units of the active         *)
(* reservations for that SKU: no sequence of the three can make them drift. *)
ReservedMatchesActive ==
    \A s \in DOMAIN stock :
        stock[s].reserved = Cardinality(Units(s, "active"))

(* StockItem.validate: neither quantity is ever negative.                   *)
StockNonNegative == \A s \in DOMAIN stock : ValidItem(stock[s])

(* An active reservation can always be given back: Release of it never      *)
(* fails, so no stock is stuck behind the checks of Service.Release.        *)
ActiveIsReleasable ==
    \A i \in ReservationText :
        LET r == TrimSpace[i]
        IN  /\ r \in DOMAIN reservations
            /\ reservations[r].status = "active"
            => ReleaseError(i) = Nil

(* A reservation is never forgotten, its SKU and quantity never change and  *)
(* a released one never becomes active again.                               *)
ReservationsAreFinal ==
    [][\A r \in DOMAIN reservations :
          /\ r \in DOMAIN reservations'
          /\ reservations'[r].sku = reservations[r].sku
          /\ reservations'[r].quantity = reservations[r].quantity
          /\ reservations[r].status = "released" =>
                reservations'[r].status = "released"]_inventoryVars

(* Reserving and releasing only move units between available and reserved:  *)
(* the total of every SKU changes through SetStock alone.                   *)
TransfersConserveStock ==
    [][reservations' # reservations =>
          /\ DOMAIN stock' = DOMAIN stock
          /\ \A s \in DOMAIN stock :
                stock'[s].available + stock'[s].reserved =
                stock[s].available + stock[s].reserved]_inventoryVars
=============================================================================
