------------------------- MODULE InventoryCapacity -------------------------
(***************************************************************************)
(* The inventory within its capacity: levels and quantities are small      *)
(* enough that no addition leaves the range of int.  Under this assumption *)
(* the counters are exact; MCInventoryOverflow shows what happens without. *)
(***************************************************************************)
EXTENDS Inventory

CONSTANTS
    MaxStock,     \* the largest level seeded or set over HTTP
    MaxQuantity   \* the largest quantity a reservation asks for

ASSUME CapacityAssumption ==
    /\ IsFiniteSet(ReservationIDs)
    /\ MaxStock \in Nat
    /\ MaxQuantity \in Nat
    /\ \A q \in Quantities : q <= MaxQuantity
    /\ \A level \in StockLevels : level <= MaxStock
    /\ \A s \in DOMAIN Seed : Seed[s] <= MaxStock
    /\ MaxStock + Cardinality(ReservationIDs) * MaxQuantity <= MaxInt

(* Every reservation points at an item that exists and fits the capacity.   *)
ReservationsBacked ==
    \A r \in DOMAIN reservations :
        /\ reservations[r].sku \in DOMAIN stock
        /\ reservations[r].quantity <= MaxQuantity

(* What is available of a SKU is at most a level that was set plus the      *)
(* units that were given back.                                              *)
AvailableBounded ==
    \A s \in DOMAIN stock :
        /\ 0 <= stock[s].available
        /\ stock[s].available <= MaxStock + Cardinality(Units(s, "released"))

(* The inductive invariant behind StockNonNegative and ActiveIsReleasable:  *)
(* available units never exceed a level that was set plus the units of      *)
(* released reservations, and the reserved units are those of the active    *)
(* ones, so neither counter of Service.Reserve and Release can wrap.        *)
CapacityInv ==
    /\ TypeOK
    /\ ReservationsBacked
    /\ ReservedMatchesActive
    /\ AvailableBounded
=============================================================================
