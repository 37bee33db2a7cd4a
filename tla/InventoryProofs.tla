-------------------------- MODULE InventoryProofs --------------------------
(***************************************************************************)
(* Proofs about the inventory, for every set of IDs, SKUs, levels and       *)
(* quantities.  Reserved units are counted as the cardinality of a set of   *)
(* unit tokens, so a sum over reservations needs no induction: reserving    *)
(* adds a block of tokens, releasing moves one.                             *)
(***************************************************************************)
EXTENDS InventoryCapacity, TLAPS, FiniteSetTheorems

(* AddInt is Go's addition: it stays in the range of int and is exact when  *)
(* the sum does.                                                            *)
LEMMA AddIntRange ==
    ASSUME NEW a \in GoInt, NEW b \in GoInt
    PROVE  /\ AddInt(a, b) \in GoInt
           /\ a + b \in GoInt => AddInt(a, b) = a + b
  BY InventoryAssumption DEF AddInt, GoInt, MinInt

(* The tokens of one reservation of q units are q.                          *)
LEMMA BlockCardinality ==
    ASSUME NEW r, NEW q \in Nat
    PROVE  /\ IsFiniteSet({r} \X (1..q))
           /\ Cardinality({r} \X (1..q)) = q
  <1>1. IsFiniteSet({r}) /\ Cardinality({r}) = 1
    BY FS_Singleton
  <1>2. IsFiniteSet(1..q) /\ Cardinality(1..q) = q
    <2>1. /\ IsFiniteSet(1..q)
          /\ Cardinality(1..q) = IF 1 > q THEN 0 ELSE q - 1 + 1
      BY FS_Interval
    <2> QED BY <2>1
  <1>3. /\ IsFiniteSet({r} \X (1..q))
        /\ Cardinality({r} \X (1..q)) = Cardinality({r}) * Cardinality(1..q)
    BY <1>1, <1>2, FS_Product
  <1> QED BY <1>1, <1>2, <1>3

(* When a token belongs to Units.                                           *)
LEMMA UnitsMembership ==
    ASSUME NEW m, NEW s, NEW status, NEW u
    PROVE  u \in UnitsIn(m, s, status) <=>
              \E r \in DOMAIN m : /\ m[r].sku = s
                                  /\ m[r].status = status
                                  /\ u \in {r} \X (1..m[r].quantity)
  BY DEF UnitsIn

-----------------------------------------------------------------------------
(* One step keeps the types; the wrapping additions are what makes this     *)
(* true without a bound on levels and quantities.                           *)
LEMMA TypeStep ==
    ASSUME TypeOK, [InventoryNext]_inventoryVars
    PROVE  TypeOK'
  <1> USE InventoryAssumption
  <1>1. CASE UNCHANGED inventoryVars
    BY <1>1 DEF TypeOK, inventoryVars
  <1>2. ASSUME NEW t \in SkuText, NEW level \in StockLevels, SetStock(t, level)
        PROVE  TypeOK'
    <2> DEFINE s == TrimSpace[t]
    <2> DEFINE item == [available |-> level,
                        reserved |-> IF s \in DOMAIN stock
                                     THEN stock[s].reserved ELSE 0]
    <2>1. s \in SKUs /\ level \in 0..MaxInt
      BY <1>2 DEF SetStock, SetStockError, SKUs, GoInt, MinInt, Nil
    <2>2. item \in StockItem
      BY <2>1 DEF TypeOK, StockItem, GoInt, MinInt
    <2>3. stock' = Put(stock, s, item) /\ reservations' = reservations
      BY <1>2 DEF SetStock, StockAfterSet
    <2> HIDE DEF s, item
    <2>4. DOMAIN stock' \subseteq SKUs
      BY <2>1, <2>3 DEF TypeOK, Put
    <2>5. \A x \in DOMAIN stock' : stock'[x] \in StockItem
      BY <2>2, <2>3 DEF TypeOK, Put
    <2> QED BY <2>3, <2>4, <2>5 DEF TypeOK
  <1>3. ASSUME NEW i \in ReservationText, NEW t \in SkuText,
               NEW q \in Quantities, Reserve(i, t, q)
        PROVE  TypeOK'
    <2> DEFINE r == TrimSpace[i]
    <2> DEFINE s == TrimSpace[t]
    <2> DEFINE new == [sku |-> s, quantity |-> q, status |-> "active"]
    <2>1. /\ r # Blank /\ s # Blank
          /\ s \in DOMAIN stock
          /\ ValidItem(stock[s])
          /\ q > 0 /\ ~(stock[s].available < q)
      BY <1>3 DEF Reserve, ReserveError, Nil
    <2>2. /\ stock' = [stock EXCEPT ![s] = ReservedItem(stock[s], q)]
          /\ reservations' = Put(reservations, r, new)
      BY <1>3 DEF Reserve
    <2>3. r \in ReservationIDs
      BY <2>1 DEF ReservationIDs
    <2>4. stock[s] \in StockItem /\ s \in SKUs /\ q \in GoInt
      BY <2>1 DEF TypeOK, GoInt
    <2>5. new \in Reservation
      BY <2>1, <2>4 DEF Reservation, Status, GoInt, MinInt
    <2>6. ReservedItem(stock[s], q) \in StockItem
      <3>1. AddInt(stock[s].reserved, q) \in GoInt
        BY <2>4, AddIntRange DEF StockItem
      <3>2. stock[s].available - q \in GoInt
        BY <2>1, <2>4 DEF StockItem, GoInt, MinInt, ValidItem
      <3> QED BY <3>1, <3>2 DEF ReservedItem, StockItem
    <2> HIDE DEF r, s, new
    <2>7. \A x \in DOMAIN stock' : stock'[x] \in StockItem
      BY <2>2, <2>6 DEF TypeOK
    <2>8. DOMAIN stock' \subseteq SKUs
      BY <2>2 DEF TypeOK
    <2>9. DOMAIN reservations' \subseteq ReservationIDs
      BY <2>2, <2>3 DEF TypeOK, Put
    <2>10. \A x \in DOMAIN reservations' : reservations'[x] \in Reservation
      BY <2>2, <2>5 DEF TypeOK, Put
    <2> QED BY <2>7, <2>8, <2>9, <2>10 DEF TypeOK
  <1>4. ASSUME NEW i \in ReservationText, Release(i)
        PROVE  TypeOK'
    <2> DEFINE r == TrimSpace[i]
    <2> DEFINE s == reservations[r].sku
    <2> DEFINE q == reservations[r].quantity
    <2>1. /\ r \in DOMAIN reservations
          /\ s \in DOMAIN stock
          /\ ValidItem(stock[s])
          /\ ~(stock[s].reserved < q)
      BY <1>4 DEF Release, ReleaseError, Nil
    <2>2. /\ stock' = [stock EXCEPT ![s] = ReleasedItem(stock[s], q)]
          /\ reservations' = [reservations EXCEPT ![r].status = "released"]
      BY <1>4 DEF Release
    <2>3. stock[s] \in StockItem /\ reservations[r] \in Reservation
      BY <2>1 DEF TypeOK
    <2>4. q \in 1..MaxInt /\ q \in GoInt
      BY <2>3 DEF Reservation, GoInt, MinInt
    <2>5. ReleasedItem(stock[s], q) \in StockItem
      <3>1. AddInt(stock[s].available, q) \in GoInt
        BY <2>3, <2>4, AddIntRange DEF StockItem
      <3>2. stock[s].reserved - q \in GoInt
        BY <2>1, <2>3, <2>4 DEF StockItem, GoInt, MinInt, ValidItem
      <3> QED BY <3>1, <3>2 DEF ReleasedItem, StockItem
    <2>6. [reservations[r] EXCEPT !.status = "released"] \in Reservation
      BY <2>3 DEF Reservation, Status
    <2> HIDE DEF r, s, q
    <2>7. \A x \in DOMAIN stock' : stock'[x] \in StockItem
      BY <2>2, <2>5 DEF TypeOK
    <2>8. \A x \in DOMAIN reservations' : reservations'[x] \in Reservation
      BY <2>2, <2>6 DEF TypeOK
    <2>9. /\ DOMAIN stock' = DOMAIN stock
          /\ DOMAIN reservations' = DOMAIN reservations
      BY <2>2
    <2> QED BY <2>7, <2>8, <2>9 DEF TypeOK
  <1> QED BY <1>1, <1>2, <1>3, <1>4 DEF InventoryNext

(* Both maps of the repository stay well typed under every sequence of      *)
(* SetStock, Reserve and Release, overflow included.                        *)
THEOREM TypeCorrect == InventorySpec => []TypeOK
  <1>1. InventoryInit => TypeOK
    BY InventoryAssumption
       DEF InventoryInit, TypeOK, StockItem, GoInt, MinInt
  <1>2. TypeOK /\ [InventoryNext]_inventoryVars => TypeOK'
    BY TypeStep
  <1> QED BY <1>1, <1>2, PTL DEF InventorySpec

-----------------------------------------------------------------------------
(* Maps of reservations that fit the capacity.                              *)
Fits(m) ==
    /\ DOMAIN m \subseteq ReservationIDs
    /\ \A r \in DOMAIN m : m[r] \in Reservation /\ m[r].quantity <= MaxQuantity

(* The active and the released units of a SKU together are at most          *)
(* MaxQuantity for each reservation ID.                                     *)
LEMMA UnitsBounded ==
    ASSUME NEW m, Fits(m), NEW s
    PROVE  /\ IsFiniteSet(UnitsIn(m, s, "active"))
           /\ IsFiniteSet(UnitsIn(m, s, "released"))
           /\ Cardinality(UnitsIn(m, s, "active")) \in Nat
           /\ Cardinality(UnitsIn(m, s, "released")) \in Nat
           /\ Cardinality(UnitsIn(m, s, "active"))
              + Cardinality(UnitsIn(m, s, "released"))
              + MaxStock <= MaxInt
  <1> DEFINE A == UnitsIn(m, s, "active")
  <1> DEFINE R == UnitsIn(m, s, "released")
  <1> DEFINE All == ReservationIDs \X (1..MaxQuantity)
  <1>1. /\ IsFiniteSet(All)
        /\ Cardinality(All) = Cardinality(ReservationIDs) * MaxQuantity
    <2>1. /\ IsFiniteSet(1..MaxQuantity)
          /\ Cardinality(1..MaxQuantity) =
               IF 1 > MaxQuantity THEN 0 ELSE MaxQuantity - 1 + 1
      BY FS_Interval, CapacityAssumption
    <2>2. Cardinality(1..MaxQuantity) = MaxQuantity
      BY <2>1, CapacityAssumption
    <2> QED BY <2>1, <2>2, FS_Product, CapacityAssumption
  <1>2. A \subseteq All /\ R \subseteq All
    <2> SUFFICES ASSUME NEW status, NEW u \in UnitsIn(m, s, status)
                 PROVE  u \in All
      OBVIOUS
    <2>1. PICK r \in DOMAIN m : u \in {r} \X (1..m[r].quantity)
      BY UnitsMembership
    <2>2. r \in ReservationIDs /\ m[r].quantity \in Nat
          /\ m[r].quantity <= MaxQuantity
      BY InventoryAssumption DEF Fits, Reservation
    <2>3. (1..m[r].quantity) \subseteq (1..MaxQuantity)
      BY <2>2, CapacityAssumption
    <2> QED BY <2>1, <2>2, <2>3
  <1>3. A \cap R = {}
    <2> SUFFICES ASSUME NEW u \in A, u \in R
                 PROVE  FALSE
      OBVIOUS
    <2>1. PICK x \in DOMAIN m : /\ m[x].status = "active"
                                /\ u \in {x} \X (1..m[x].quantity)
      BY UnitsMembership
    <2>2. PICK y \in DOMAIN m : /\ m[y].status = "released"
                                /\ u \in {y} \X (1..m[y].quantity)
      BY UnitsMembership
    <2>3. x = u[1] /\ y = u[1]
      BY <2>1, <2>2
    <2> QED BY <2>1, <2>2, <2>3
  <1> HIDE DEF A, R, All
  <1>4. /\ IsFiniteSet(A) /\ Cardinality(A) \in Nat
        /\ IsFiniteSet(R) /\ Cardinality(R) \in Nat
    BY <1>1, <1>2, FS_Subset, FS_CardinalityType
  <1>5. Cardinality(A \cup R) = Cardinality(A) + Cardinality(R)
    <2>1. Cardinality(A \cup R) =
             Cardinality(A) + Cardinality(R) - Cardinality(A \cap R)
      BY <1>4, FS_Union
    <2>2. Cardinality(A \cap R) = 0
      BY <1>3, FS_EmptySet
    <2> QED BY <1>4, <2>1, <2>2
  <1>6. Cardinality(A \cup R) <= Cardinality(All)
    BY <1>1, <1>2, FS_Subset
  <1>7. /\ Cardinality(ReservationIDs) * MaxQuantity + MaxStock <= MaxInt
        /\ Cardinality(All) \in Nat
    BY <1>1, CapacityAssumption, FS_CardinalityType
  <1> DEFINE product == Cardinality(ReservationIDs) * MaxQuantity
  <1>8. product = Cardinality(All) /\ product + MaxStock <= MaxInt
    BY <1>1, <1>7
  <1> HIDE DEF product
  <1>9. Cardinality(A) + Cardinality(R) + MaxStock <= MaxInt
    BY <1>4, <1>5, <1>6, <1>7, <1>8, CapacityAssumption, InventoryAssumption
  <1> QED BY <1>4, <1>9 DEF A, R

(* A block of tokens that is disjoint from a set adds its quantity.         *)
LEMMA AddBlock ==
    ASSUME NEW S, IsFiniteSet(S), NEW r, NEW q \in Nat,
           S \cap ({r} \X (1..q)) = {}
    PROVE  Cardinality(S \cup ({r} \X (1..q))) = Cardinality(S) + q
  <1> DEFINE B == {r} \X (1..q)
  <1>1. IsFiniteSet(B) /\ Cardinality(B) = q
    BY BlockCardinality
  <1> HIDE DEF B
  <1>2. Cardinality(S \cup B) = Cardinality(S) + q - Cardinality(S \cap B)
    BY <1>1, FS_Union
  <1>3. Cardinality(S \cap B) = 0 /\ Cardinality(S) \in Nat
    BY FS_EmptySet, FS_CardinalityType DEF B
  <1> QED BY <1>2, <1>3 DEF B

(* A block of tokens that is part of a set takes its quantity away.         *)
LEMMA RemoveBlock ==
    ASSUME NEW S, IsFiniteSet(S), NEW r, NEW q \in Nat,
           ({r} \X (1..q)) \subseteq S
    PROVE  Cardinality(S \ ({r} \X (1..q))) = Cardinality(S) - q
  <1> DEFINE B == {r} \X (1..q)
  <1>1. IsFiniteSet(B) /\ Cardinality(B) = q
    BY BlockCardinality
  <1>2. S \cap B = B
    OBVIOUS
  <1> HIDE DEF B
  <1>3. Cardinality(S \ B) = Cardinality(S) - Cardinality(S \cap B)
    BY FS_Difference
  <1> QED BY <1>1, <1>2, <1>3 DEF B

-----------------------------------------------------------------------------
(* A new active reservation adds its block to the active units of its SKU.  *)
LEMMA UnitsAfterReserve ==
    ASSUME NEW m, NEW r, r \notin DOMAIN m, NEW s, NEW q \in Nat, NEW n,
           n = Put(m, r, [sku |-> s, quantity |-> q, status |-> "active"])
    PROVE  /\ UnitsIn(m, s, "active") \cap ({r} \X (1..q)) = {}
           /\ UnitsIn(n, s, "active") =
                 UnitsIn(m, s, "active") \cup ({r} \X (1..q))
           /\ \A z : z # s => UnitsIn(n, z, "active") = UnitsIn(m, z, "active")
           /\ \A z : UnitsIn(n, z, "released") = UnitsIn(m, z, "released")
  <1>1. /\ DOMAIN n = DOMAIN m \cup {r}
        /\ n[r].sku = s /\ n[r].quantity = q /\ n[r].status = "active"
        /\ \A x \in DOMAIN m : n[x] = m[x]
    BY DEF Put
  <1>2. UnitsIn(m, s, "active") \cap ({r} \X (1..q)) = {}
    BY UnitsMembership
  <1>3. ASSUME NEW u
        PROVE  u \in UnitsIn(n, s, "active") <=>
                  u \in UnitsIn(m, s, "active") \cup ({r} \X (1..q))
    BY <1>1, UnitsMembership
  <1>4. ASSUME NEW z, z # s
        PROVE  UnitsIn(n, z, "active") = UnitsIn(m, z, "active")
    <2>1. ASSUME NEW u
          PROVE  u \in UnitsIn(n, z, "active") <=> u \in UnitsIn(m, z, "active")
      BY <1>1, <1>4, UnitsMembership
    <2> QED BY <2>1
  <1>5. ASSUME NEW z
        PROVE  UnitsIn(n, z, "released") = UnitsIn(m, z, "released")
    <2>1. ASSUME NEW u
          PROVE  u \in UnitsIn(n, z, "released") <=>
                    u \in UnitsIn(m, z, "released")
      BY <1>1, UnitsMembership
    <2> QED BY <2>1
  <1>6. UnitsIn(n, s, "active") = UnitsIn(m, s, "active") \cup ({r} \X (1..q))
    BY <1>3
  <1>7. \A z : z # s => UnitsIn(n, z, "active") = UnitsIn(m, z, "active")
    BY <1>4
  <1>8. \A z : UnitsIn(n, z, "released") = UnitsIn(m, z, "released")
    BY <1>5
  <1> QED BY <1>2, <1>6, <1>7, <1>8

(* Releasing moves the block of the reservation from the active to the      *)
(* released units of its SKU.                                               *)
LEMMA UnitsAfterRelease ==
    ASSUME NEW m, NEW r \in DOMAIN m, NEW s, NEW q,
           m[r].sku = s, m[r].quantity = q, m[r].status = "active",
           NEW n, DOMAIN n = DOMAIN m,
           n[r].sku = s, n[r].quantity = q, n[r].status = "released",
           \A x \in DOMAIN m : x # r => n[x] = m[x]
    PROVE  /\ ({r} \X (1..q)) \subseteq UnitsIn(m, s, "active")
           /\ UnitsIn(m, s, "released") \cap ({r} \X (1..q)) = {}
           /\ UnitsIn(n, s, "active") =
                 UnitsIn(m, s, "active") \ ({r} \X (1..q))
           /\ UnitsIn(n, s, "released") =
                 UnitsIn(m, s, "released") \cup ({r} \X (1..q))
           /\ \A z, status : z # s =>
                 UnitsIn(n, z, status) = UnitsIn(m, z, status)
  <1> DEFINE B == {r} \X (1..q)
  <1>1. /\ DOMAIN n = DOMAIN m
        /\ n[r].sku = s /\ n[r].quantity = q /\ n[r].status = "released"
        /\ \A x \in DOMAIN m : x # r => n[x] = m[x]
    OBVIOUS
  <1>2. \A u \in B : u[1] = r
    OBVIOUS
  <1>3. \A x, k : \A u \in {x} \X (1..k) : u[1] = x
    OBVIOUS
  <1>4. B \subseteq UnitsIn(m, s, "active")
    BY UnitsMembership
  <1>5. UnitsIn(m, s, "released") \cap B = {}
    BY <1>2, <1>3, UnitsMembership
  <1>6. ASSUME NEW u
        PROVE  u \in UnitsIn(n, s, "active") <=>
                  u \in UnitsIn(m, s, "active") \ B
    <2>1. ASSUME u \in UnitsIn(n, s, "active")
          PROVE  u \in UnitsIn(m, s, "active") \ B
      <3>1. PICK x \in DOMAIN n : /\ n[x].sku = s /\ n[x].status = "active"
                                  /\ u \in {x} \X (1..n[x].quantity)
        BY <2>1, UnitsMembership
      <3>2. x # r /\ n[x] = m[x]
        BY <1>1, <3>1
      <3>3. u \notin B
        BY <1>2, <1>3, <3>1, <3>2
      <3> QED BY <1>1, <3>1, <3>2, <3>3, UnitsMembership
    <2>2. ASSUME u \in UnitsIn(m, s, "active"), u \notin B
          PROVE  u \in UnitsIn(n, s, "active")
      <3>1. PICK x \in DOMAIN m : /\ m[x].sku = s /\ m[x].status = "active"
                                  /\ u \in {x} \X (1..m[x].quantity)
        BY <2>2, UnitsMembership
      <3>2. x # r
        BY <2>2, <3>1
      <3> QED BY <1>1, <3>1, <3>2, UnitsMembership
    <2> QED BY <2>1, <2>2
  <1>7. ASSUME NEW u
        PROVE  u \in UnitsIn(n, s, "released") <=>
                  u \in UnitsIn(m, s, "released") \cup B
    <2>1. ASSUME u \in UnitsIn(n, s, "released"), u \notin B
          PROVE  u \in UnitsIn(m, s, "released")
      <3>1. PICK x \in DOMAIN n : /\ n[x].sku = s /\ n[x].status = "released"
                                  /\ u \in {x} \X (1..n[x].quantity)
        BY <2>1, UnitsMembership
      <3>2. x # r
        BY <1>1, <2>1, <3>1
      <3> QED BY <1>1, <3>1, <3>2, UnitsMembership
    <2>2. ASSUME u \in UnitsIn(m, s, "released")
          PROVE  u \in UnitsIn(n, s, "released")
      <3>1. PICK x \in DOMAIN m : /\ m[x].sku = s /\ m[x].status = "released"
                                  /\ u \in {x} \X (1..m[x].quantity)
        BY <2>2, UnitsMembership
      <3> QED BY <1>1, <3>1, UnitsMembership
    <2>3. ASSUME u \in B
          PROVE  u \in UnitsIn(n, s, "released")
      BY <1>1, <2>3, UnitsMembership
    <2> QED BY <2>1, <2>2, <2>3
  <1>8. ASSUME NEW z, NEW status, z # s
        PROVE  UnitsIn(n, z, status) = UnitsIn(m, z, status)
    <2>1. ASSUME NEW u
          PROVE  u \in UnitsIn(n, z, status) <=> u \in UnitsIn(m, z, status)
      BY <1>1, <1>8, UnitsMembership
    <2> QED BY <2>1
  <1>9. UnitsIn(n, s, "active") = UnitsIn(m, s, "active") \ B
    BY <1>6
  <1>10. UnitsIn(n, s, "released") = UnitsIn(m, s, "released") \cup B
    BY <1>7
  <1>11. \A z, status : z # s => UnitsIn(n, z, status) = UnitsIn(m, z, status)
    BY <1>8
  <1> QED BY <1>4, <1>5, <1>9, <1>10, <1>11

-----------------------------------------------------------------------------
(* The invariant in the form the lemmas about maps use.                     *)
LEMMA InvFits ==
    ASSUME CapacityInv
    PROVE  Fits(reservations)
  BY DEF CapacityInv, TypeOK, ReservationsBacked, Fits

(* The seeded stock is within the capacity and nothing is reserved.         *)
LEMMA CapacityInit ==
    ASSUME InventoryInit
    PROVE  CapacityInv
  <1>1. TypeOK
    BY InventoryAssumption
       DEF InventoryInit, TypeOK, StockItem, GoInt, MinInt
  <1>2. DOMAIN reservations = {}
    BY DEF InventoryInit
  <1>3. \A s, status : Units(s, status) = {}
    BY <1>2 DEF Units, UnitsIn
  <1>4. \A s, status : Cardinality(Units(s, status)) = 0
    BY <1>3, FS_EmptySet
  <1>5. \A s \in DOMAIN stock : /\ stock[s].reserved = 0
                                /\ stock[s].available \in 0..MaxInt
                                /\ stock[s].available <= MaxStock
    BY InventoryAssumption, CapacityAssumption DEF InventoryInit
  <1>6. AvailableBounded
    BY <1>4, <1>5, CapacityAssumption, InventoryAssumption DEF AvailableBounded
  <1>7. ReservedMatchesActive /\ ReservationsBacked
    BY <1>2, <1>4, <1>5 DEF ReservedMatchesActive, ReservationsBacked
  <1> QED BY <1>1, <1>6, <1>7 DEF CapacityInv

(* Setting a level keeps the reserved units, so only available changes.     *)
LEMMA CapacitySetStock ==
    ASSUME CapacityInv, TypeOK', NEW t \in SkuText, NEW level \in StockLevels,
           SetStock(t, level)
    PROVE  CapacityInv'
  <1> DEFINE s == TrimSpace[t]
  <1>1. /\ level \in Nat /\ level <= MaxStock
        /\ reservations' = reservations
        /\ DOMAIN stock' = DOMAIN stock \cup {s}
        /\ stock'[s].available = level
        /\ stock'[s].reserved = IF s \in DOMAIN stock THEN stock[s].reserved
                                                      ELSE 0
        /\ \A x \in DOMAIN stock : x # s => stock'[x] = stock[x]
    <2>1. level \in Nat /\ level <= MaxStock
      BY InventoryAssumption, CapacityAssumption
         DEF SetStock, SetStockError, Nil, GoInt, MinInt
    <2> QED BY <2>1 DEF SetStock, StockAfterSet, Put
  <1>2. \A x, status : Units(x, status)' = Units(x, status)
    BY <1>1 DEF Units
  <1>3. \A x : /\ Cardinality(Units(x, "active")) \in Nat
               /\ Cardinality(Units(x, "released")) \in Nat
    BY InvFits, UnitsBounded DEF Units
  <1>4. s \notin DOMAIN stock => Units(s, "active") = {}
    <2> SUFFICES ASSUME s \notin DOMAIN stock, NEW u \in Units(s, "active")
                 PROVE  FALSE
      OBVIOUS
    <2>1. PICK r \in DOMAIN reservations : reservations[r].sku = s
      BY UnitsMembership DEF Units
    <2> QED BY <2>1 DEF CapacityInv, ReservationsBacked
  <1> HIDE DEF s
  <1>5. ReservedMatchesActive'
    <2> SUFFICES ASSUME NEW x \in DOMAIN stock'
                 PROVE  stock'[x].reserved = Cardinality(Units(x, "active"))
      BY <1>2 DEF ReservedMatchesActive
    <2>1. CASE x = s /\ s \notin DOMAIN stock
      BY <1>1, <1>4, <2>1, FS_EmptySet
    <2>2. CASE x \in DOMAIN stock
      BY <1>1, <2>2 DEF CapacityInv, ReservedMatchesActive
    <2> QED BY <1>1, <2>1, <2>2
  <1>6. AvailableBounded'
    <2> SUFFICES ASSUME NEW x \in DOMAIN stock'
                 PROVE  /\ 0 <= stock'[x].available
                        /\ stock'[x].available
                              <= MaxStock + Cardinality(Units(x, "released"))
      BY <1>2 DEF AvailableBounded
    <2>1. CASE x = s
      BY <1>1, <1>3, <2>1, CapacityAssumption
    <2>2. CASE x # s
      BY <1>1, <2>2 DEF CapacityInv, AvailableBounded
    <2> QED BY <2>1, <2>2
  <1>7. ReservationsBacked'
    BY <1>1 DEF CapacityInv, ReservationsBacked
  <1> QED BY <1>5, <1>6, <1>7 DEF CapacityInv

(* Reserving moves a block of units from available to the active ones.      *)
LEMMA CapacityReserve ==
    ASSUME CapacityInv, TypeOK', NEW i \in ReservationText, NEW t \in SkuText,
           NEW q \in Quantities, Reserve(i, t, q)
    PROVE  CapacityInv'
  <1> DEFINE r == TrimSpace[i]
  <1> DEFINE s == TrimSpace[t]
  <1> DEFINE B == {r} \X (1..q)
  <1>1. /\ r \notin DOMAIN reservations
        /\ s \in DOMAIN stock
        /\ q > 0 /\ ~(stock[s].available < q)
    <2>1. ReserveError(i, t, q) = Nil
      BY DEF Reserve
    <2> QED BY <2>1, InventoryAssumption DEF ReserveError, Nil
  <1>2. /\ stock' = [stock EXCEPT ![s] = ReservedItem(stock[s], q)]
        /\ reservations' = Put(reservations, r,
               [sku |-> s, quantity |-> q, status |-> "active"])
    BY DEF Reserve
  <1>3. q \in Nat /\ q <= MaxQuantity /\ q \in GoInt
    BY <1>1, InventoryAssumption, CapacityAssumption DEF GoInt, MinInt
  <1>4. /\ Units(s, "active") \cap B = {}
        /\ Units(s, "active")' = Units(s, "active") \cup B
        /\ \A z : z # s => Units(z, "active")' = Units(z, "active")
        /\ \A z : Units(z, "released")' = Units(z, "released")
    BY <1>1, <1>2, <1>3, UnitsAfterReserve DEF Units
  <1>5. ReservationsBacked'
    BY <1>1, <1>2, <1>3 DEF CapacityInv, ReservationsBacked, Put
  <1>6. Fits(reservations')
    BY <1>5 DEF TypeOK, ReservationsBacked, Fits
  <1>7. \A z : /\ IsFiniteSet(Units(z, "active"))
               /\ Cardinality(Units(z, "active")) \in Nat
               /\ Cardinality(Units(z, "released")) \in Nat
    BY InvFits, UnitsBounded DEF Units
  <1>8. /\ Cardinality(Units(s, "active")') + Cardinality(Units(s, "released")')
             + MaxStock <= MaxInt
        /\ Cardinality(Units(s, "released")') \in Nat
    BY <1>6, UnitsBounded DEF Units
  <1>9. Cardinality(Units(s, "active")') = Cardinality(Units(s, "active")) + q
    <2>1. Cardinality(Units(s, "active") \cup B)
             = Cardinality(Units(s, "active")) + q
      BY <1>3, <1>4, <1>7, AddBlock
    <2> QED BY <1>4, <2>1
  <1>10. /\ stock[s].reserved = Cardinality(Units(s, "active"))
         /\ stock[s].reserved \in GoInt /\ stock[s].available \in GoInt
         /\ stock[s].available <= MaxStock + Cardinality(Units(s, "released"))
    BY <1>1 DEF CapacityInv, ReservedMatchesActive, AvailableBounded,
                TypeOK, StockItem
  <1> DEFINE a == Cardinality(Units(s, "active"))
  <1>11. a \in Nat /\ a + q <= MaxInt
    BY <1>3, <1>7, <1>8, <1>9, CapacityAssumption, InventoryAssumption
  <1>12. AddInt(stock[s].reserved, q) = a + q
    <2>1. a + q \in GoInt
      BY <1>3, <1>11, InventoryAssumption DEF GoInt, MinInt
    <2> QED BY <1>3, <1>10, <2>1, AddIntRange
  <1>13. /\ stock'[s].reserved = a + q
         /\ stock'[s].available = stock[s].available - q
         /\ DOMAIN stock' = DOMAIN stock
         /\ \A x \in DOMAIN stock : x # s => stock'[x] = stock[x]
    BY <1>1, <1>2, <1>12 DEF ReservedItem
  <1> HIDE DEF s, r, B, a
  <1>14. ReservedMatchesActive'
    <2> SUFFICES ASSUME NEW x \in DOMAIN stock
                 PROVE  stock'[x].reserved = Cardinality(Units(x, "active")')
      BY <1>13 DEF ReservedMatchesActive
    <2>1. CASE x = s
      BY <1>9, <1>13, <2>1 DEF a
    <2>2. CASE x # s
      BY <1>4, <1>13, <2>2 DEF CapacityInv, ReservedMatchesActive
    <2> QED BY <2>1, <2>2
  <1>15. AvailableBounded'
    <2> SUFFICES ASSUME NEW x \in DOMAIN stock
                 PROVE  /\ 0 <= stock'[x].available
                        /\ stock'[x].available
                              <= MaxStock + Cardinality(Units(x, "released")')
      BY <1>13 DEF AvailableBounded
    <2>1. CASE x = s
      BY <1>1, <1>3, <1>4, <1>7, <1>10, <1>13, <2>1, CapacityAssumption,
         InventoryAssumption DEF GoInt, MinInt
    <2>2. CASE x # s
      BY <1>4, <1>13, <2>2 DEF CapacityInv, AvailableBounded
    <2> QED BY <2>1, <2>2
  <1> QED BY <1>5, <1>14, <1>15 DEF CapacityInv

(* Releasing moves the block back; the sum cannot exceed MaxInt because     *)
(* every ID contributes its units at most once.                             *)
LEMMA CapacityRelease ==
    ASSUME CapacityInv, TypeOK', NEW i \in ReservationText, Release(i)
    PROVE  CapacityInv'
  <1> DEFINE r == TrimSpace[i]
  <1> DEFINE s == reservations[r].sku
  <1> DEFINE q == reservations[r].quantity
  <1> DEFINE B == {r} \X (1..q)
  <1>1. /\ r \in DOMAIN reservations
        /\ s \in DOMAIN stock
        /\ reservations[r].status = "active"
        /\ ~(stock[s].reserved < q)
    <2>1. ReleaseError(i) = Nil
      BY DEF Release
    <2> QED BY <2>1 DEF ReleaseError, Nil
  <1>2. /\ stock' = [stock EXCEPT ![s] = ReleasedItem(stock[s], q)]
        /\ reservations' = [reservations EXCEPT ![r].status = "released"]
    BY DEF Release
  <1>3. /\ reservations[r] \in Reservation
        /\ q \in Nat /\ q \in GoInt /\ q <= MaxQuantity
    <2>1. reservations[r] \in Reservation /\ q <= MaxQuantity
      BY <1>1 DEF CapacityInv, TypeOK, ReservationsBacked
    <2> QED BY <2>1, InventoryAssumption DEF Reservation, GoInt, MinInt
  <1>4. /\ DOMAIN reservations' = DOMAIN reservations
        /\ reservations'[r].sku = s
        /\ reservations'[r].quantity = q
        /\ reservations'[r].status = "released"
        /\ \A x \in DOMAIN reservations :
              x # r => reservations'[x] = reservations[x]
    BY <1>1, <1>2, <1>3 DEF Reservation
  <1> HIDE DEF s, q
  <1>5. /\ B \subseteq Units(s, "active")
        /\ Units(s, "released") \cap B = {}
        /\ UnitsIn(reservations', s, "active") = Units(s, "active") \ B
        /\ UnitsIn(reservations', s, "released") = Units(s, "released") \cup B
        /\ \A z, status :
              z # s => UnitsIn(reservations', z, status) = Units(z, status)
    <2>1. reservations[r].sku = s /\ reservations[r].quantity = q
      BY DEF s, q
    <2> HIDE DEF r
    <2> QED BY <1>1, <1>4, <2>1, UnitsAfterRelease DEF Units
  <1>6. DOMAIN stock' = DOMAIN stock
    BY <1>2
  <1>7. ReservationsBacked'
    BY <1>1, <1>3, <1>4, <1>6 DEF CapacityInv, ReservationsBacked
  <1>8. Fits(reservations')
    BY <1>7 DEF TypeOK, ReservationsBacked, Fits
  <1>9. \A z : /\ IsFiniteSet(Units(z, "active"))
               /\ IsFiniteSet(Units(z, "released"))
               /\ Cardinality(Units(z, "active")) \in Nat
               /\ Cardinality(Units(z, "released")) \in Nat
    BY InvFits, UnitsBounded DEF Units
  <1>10. /\ Cardinality(UnitsIn(reservations', s, "active"))
              + Cardinality(UnitsIn(reservations', s, "released"))
              + MaxStock <= MaxInt
         /\ Cardinality(UnitsIn(reservations', s, "active")) \in Nat
         /\ Cardinality(UnitsIn(reservations', s, "released")) \in Nat
    BY <1>8, UnitsBounded
  <1>11. Cardinality(UnitsIn(reservations', s, "active"))
            = Cardinality(Units(s, "active")) - q
    <2>1. Cardinality(Units(s, "active") \ B)
             = Cardinality(Units(s, "active")) - q
      BY <1>3, <1>5, <1>9, RemoveBlock
    <2> QED BY <1>5, <2>1
  <1>12. Cardinality(UnitsIn(reservations', s, "released"))
            = Cardinality(Units(s, "released")) + q
    <2>1. Cardinality(Units(s, "released") \cup B)
             = Cardinality(Units(s, "released")) + q
      BY <1>3, <1>5, <1>9, AddBlock
    <2> QED BY <1>5, <2>1
  <1>13. /\ stock[s].reserved = Cardinality(Units(s, "active"))
         /\ stock[s].available \in GoInt
         /\ 0 <= stock[s].available
         /\ stock[s].available <= MaxStock + Cardinality(Units(s, "released"))
    BY <1>1 DEF CapacityInv, ReservedMatchesActive, AvailableBounded,
                TypeOK, StockItem
  <1> DEFINE new == stock[s].available + q
  <1>14. new \in GoInt /\ 0 <= new
         /\ new <= MaxStock + Cardinality(UnitsIn(reservations', s, "released"))
    BY <1>3, <1>9, <1>10, <1>12, <1>13, CapacityAssumption, InventoryAssumption
       DEF GoInt, MinInt
  <1>15. AddInt(stock[s].available, q) = new
    BY <1>3, <1>13, <1>14, AddIntRange
  <1>16. /\ stock'[s].reserved = stock[s].reserved - q
         /\ stock'[s].available = new
         /\ \A x \in DOMAIN stock : x # s => stock'[x] = stock[x]
    BY <1>1, <1>2, <1>15 DEF ReleasedItem
  <1> HIDE DEF s, r, q, B, new
  <1>17. ReservedMatchesActive'
    <2> SUFFICES ASSUME NEW x \in DOMAIN stock
                 PROVE  stock'[x].reserved =
                           Cardinality(UnitsIn(reservations', x, "active"))
      BY <1>6 DEF ReservedMatchesActive, Units
    <2>1. CASE x = s
      BY <1>11, <1>13, <1>16, <2>1
    <2>2. CASE x # s
      BY <1>5, <1>16, <2>2 DEF CapacityInv, ReservedMatchesActive, Units
    <2> QED BY <2>1, <2>2
  <1>18. AvailableBounded'
    <2> SUFFICES ASSUME NEW x \in DOMAIN stock
                 PROVE  /\ 0 <= stock'[x].available
                        /\ stock'[x].available
                              <= MaxStock +
                                 Cardinality(UnitsIn(reservations', x, "released"))
      BY <1>6 DEF AvailableBounded, Units
    <2>1. CASE x = s
      BY <1>14, <1>16, <2>1
    <2>2. CASE x # s
      BY <1>5, <1>16, <2>2 DEF CapacityInv, AvailableBounded, Units
    <2> QED BY <2>1, <2>2
  <1> QED BY <1>7, <1>17, <1>18 DEF CapacityInv

-----------------------------------------------------------------------------
(* Every step of the repository keeps the counters exact.                   *)
LEMMA CapacityStep ==
    ASSUME CapacityInv, [InventoryNext]_inventoryVars
    PROVE  CapacityInv'
  <1>1. TypeOK'
    BY TypeStep DEF CapacityInv
  <1>2. CASE UNCHANGED inventoryVars
    BY <1>2 DEF inventoryVars, CapacityInv, TypeOK, ReservationsBacked,
                ReservedMatchesActive, AvailableBounded, Units
  <1> QED BY <1>1, <1>2, CapacitySetStock, CapacityReserve, CapacityRelease
          DEF InventoryNext

(* Within its capacity the repository never breaks its own invariant: no    *)
(* sequence of SetStock, Reserve and Release makes an addition wrap.        *)
THEOREM CapacityInductive == InventorySpec => []CapacityInv
  <1>1. InventoryInit => CapacityInv
    BY CapacityInit
  <1>2. CapacityInv /\ [InventoryNext]_inventoryVars => CapacityInv'
    BY CapacityStep
  <1> QED BY <1>1, <1>2, PTL DEF InventorySpec

(* The reserved counter of an item is always the sum of its active          *)
(* reservations.                                                            *)
THEOREM ReservedMatchesActiveHolds == InventorySpec => []ReservedMatchesActive
  <1>1. CapacityInv => ReservedMatchesActive
    BY DEF CapacityInv
  <1> QED BY <1>1, CapacityInductive, PTL

(* The check of StockItem.validate never fails on a stored item.            *)
LEMMA InvNonNegative ==
    ASSUME CapacityInv
    PROVE  StockNonNegative
  <1> SUFFICES ASSUME NEW s \in DOMAIN stock
               PROVE  ValidItem(stock[s])
    BY DEF StockNonNegative
  <1>1. 0 <= stock[s].available
    BY DEF CapacityInv, AvailableBounded
  <1>2. stock[s].reserved = Cardinality(UnitsIn(reservations, s, "active"))
    BY DEF CapacityInv, ReservedMatchesActive, Units
  <1>3. Cardinality(UnitsIn(reservations, s, "active")) \in Nat
    BY InvFits, UnitsBounded
  <1> QED BY <1>1, <1>2, <1>3 DEF ValidItem

(* Neither quantity of a stored item is ever negative.                      *)
THEOREM StockNonNegativeHolds == InventorySpec => []StockNonNegative
  BY InvNonNegative, CapacityInductive, PTL

(* Within capacity the units of an active reservation are part of the       *)
(* reserved units of an item that exists, so Release accepts it.            *)
LEMMA InvReleasable ==
    ASSUME CapacityInv
    PROVE  ActiveIsReleasable
  <1> SUFFICES ASSUME NEW i \in ReservationText,
                      TrimSpace[i] \in DOMAIN reservations,
                      reservations[TrimSpace[i]].status = "active"
               PROVE  ReleaseError(i) = Nil
    BY DEF ActiveIsReleasable
  <1> DEFINE r == TrimSpace[i]
  <1> DEFINE s == reservations[r].sku
  <1> DEFINE q == reservations[r].quantity
  <1>1. r # Blank /\ reservations[r] \in Reservation
    BY DEF CapacityInv, TypeOK, ReservationIDs
  <1>2. s \in DOMAIN stock
    BY DEF CapacityInv, ReservationsBacked
  <1>3. ValidItem(stock[s])
    BY <1>2, InvNonNegative DEF StockNonNegative
  <1>4. q \in Nat
    BY <1>1, InventoryAssumption DEF Reservation
  <1> DEFINE A == UnitsIn(reservations, s, "active")
  <1>5. IsFiniteSet(A) /\ Cardinality(A) \in Nat
    BY InvFits, UnitsBounded
  <1>6. ({r} \X (1..q)) \subseteq A
    BY UnitsMembership
  <1>7. q <= Cardinality(A)
    <2>1. Cardinality({r} \X (1..q)) = q
      BY <1>4, BlockCardinality
    <2>2. Cardinality({r} \X (1..q)) <= Cardinality(A)
      BY <1>5, <1>6, FS_Subset
    <2> QED BY <2>1, <2>2
  <1>8. stock[s].reserved = Cardinality(A)
    BY <1>2 DEF CapacityInv, ReservedMatchesActive, Units
  <1>9. ~(stock[s].reserved < q)
    <2> HIDE DEF A, q, s, r
    <2> QED BY <1>4, <1>5, <1>7, <1>8
  <1> QED BY <1>1, <1>2, <1>3, <1>9 DEF ReleaseError

(* Release of an active reservation never fails.                            *)
THEOREM ActiveIsReleasableHolds == InventorySpec => []ActiveIsReleasable
  BY InvReleasable, CapacityInductive, PTL

-----------------------------------------------------------------------------
(* What a reservation was made for never changes, and released is final.    *)
THEOREM ReservationsAreFinalHolds == InventorySpec => ReservationsAreFinal
  <1> DEFINE Final ==
        \A r \in DOMAIN reservations :
          /\ r \in DOMAIN reservations'
          /\ reservations'[r].sku = reservations[r].sku
          /\ reservations'[r].quantity = reservations[r].quantity
          /\ reservations[r].status = "released" =>
                reservations'[r].status = "released"
  <1>1. ASSUME TypeOK, InventoryNext PROVE Final
    <2>1. ASSUME NEW t \in SkuText, NEW level \in StockLevels, SetStock(t, level)
          PROVE  Final
      BY <2>1 DEF SetStock
    <2>2. ASSUME NEW i \in ReservationText, NEW t \in SkuText,
                 NEW q \in Quantities, Reserve(i, t, q)
          PROVE  Final
      <3>1. ReserveError(i, t, q) = Nil
        BY <2>2 DEF Reserve
      <3>2. TrimSpace[i] \notin DOMAIN reservations
        BY <3>1 DEF ReserveError, Nil
      <3> QED BY <2>2, <3>2 DEF Reserve, Put
    <2>3. ASSUME NEW i \in ReservationText, Release(i)
          PROVE  Final
      <3>1. reservations' =
              [reservations EXCEPT ![TrimSpace[i]].status = "released"]
        BY <2>3 DEF Release
      <3>2. \A r \in DOMAIN reservations : reservations[r] \in Reservation
        BY <1>1 DEF TypeOK
      <3> QED BY <3>1, <3>2 DEF Reservation
    <2> QED BY <1>1, <2>1, <2>2, <2>3 DEF InventoryNext
  <1>2. ASSUME TypeOK, [InventoryNext]_inventoryVars
        PROVE  [Final]_inventoryVars
    BY <1>1, <1>2
  <1> QED BY <1>2, TypeCorrect, PTL DEF InventorySpec, ReservationsAreFinal

-----------------------------------------------------------------------------
(* A sum of two natural numbers that wraps is negative.                     *)
LEMMA AddIntExact ==
    ASSUME NEW a \in 0..MaxInt, NEW b \in 0..MaxInt, AddInt(a, b) >= 0
    PROVE  AddInt(a, b) = a + b
  BY InventoryAssumption DEF AddInt, MinInt

(* A step that changes the reservations moves units within one item.        *)
LEMMA TransferStep ==
    ASSUME CapacityInv, CapacityInv', InventoryNext, reservations' # reservations
    PROVE  /\ DOMAIN stock' = DOMAIN stock
           /\ \A s \in DOMAIN stock :
                 stock'[s].available + stock'[s].reserved =
                 stock[s].available + stock[s].reserved
  <1> DEFINE Conserved ==
        /\ DOMAIN stock' = DOMAIN stock
        /\ \A s \in DOMAIN stock :
              stock'[s].available + stock'[s].reserved =
              stock[s].available + stock[s].reserved
  <1>1. StockNonNegative /\ StockNonNegative'
    <2>1. StockNonNegative
      BY InvNonNegative
    <2>2. StockNonNegative'
      BY InvNonNegative, PTL
    <2> QED BY <2>1, <2>2
  <1>2. \A s \in DOMAIN stock :
           /\ stock[s].available \in 0..MaxInt
           /\ stock[s].reserved \in 0..MaxInt
    BY <1>1, InventoryAssumption
       DEF StockNonNegative, ValidItem, CapacityInv, TypeOK, StockItem, GoInt,
           MinInt
  <1>3. ASSUME NEW i \in ReservationText, NEW t \in SkuText,
               NEW q \in Quantities, Reserve(i, t, q)
        PROVE  Conserved
    <2> DEFINE s == TrimSpace[t]
    <2>1. s \in DOMAIN stock /\ q > 0
      <3>1. ReserveError(i, t, q) = Nil
        BY <1>3 DEF Reserve
      <3> QED BY <3>1, InventoryAssumption DEF ReserveError, Nil
    <2>2. q \in 0..MaxInt
      BY <2>1, InventoryAssumption DEF MinInt
    <2>3. stock' = [stock EXCEPT ![s] = ReservedItem(stock[s], q)]
      BY <1>3 DEF Reserve
    <2> HIDE DEF s
    <2>4. stock'[s] = [available |-> stock[s].available - q,
                       reserved |-> AddInt(stock[s].reserved, q)]
      BY <2>1, <2>3 DEF ReservedItem
    <2>5. AddInt(stock[s].reserved, q) >= 0
      BY <1>1, <2>1, <2>3, <2>4 DEF StockNonNegative, ValidItem
    <2>6. AddInt(stock[s].reserved, q) = stock[s].reserved + q
      BY <1>2, <2>1, <2>2, <2>5, AddIntExact
    <2>7. stock'[s].available + stock'[s].reserved =
          stock[s].available + stock[s].reserved
      BY <1>2, <2>1, <2>2, <2>4, <2>6
    <2> QED BY <2>3, <2>7
  <1>4. ASSUME NEW i \in ReservationText, Release(i)
        PROVE  Conserved
    <2> DEFINE r == TrimSpace[i]
    <2> DEFINE s == reservations[r].sku
    <2> DEFINE q == reservations[r].quantity
    <2>1. r \in DOMAIN reservations /\ s \in DOMAIN stock
      <3>1. ReleaseError(i) = Nil
        BY <1>4 DEF Release
      <3> QED BY <3>1 DEF ReleaseError, Nil
    <2>2. q \in 0..MaxInt
      BY <2>1, InventoryAssumption DEF CapacityInv, TypeOK, Reservation
    <2>3. stock' = [stock EXCEPT ![s] = ReleasedItem(stock[s], q)]
      BY <1>4 DEF Release
    <2> HIDE DEF r, s, q
    <2>4. stock'[s] = [available |-> AddInt(stock[s].available, q),
                       reserved |-> stock[s].reserved - q]
      BY <2>1, <2>3 DEF ReleasedItem
    <2>5. AddInt(stock[s].available, q) >= 0
      BY <1>1, <2>1, <2>3, <2>4 DEF StockNonNegative, ValidItem
    <2>6. AddInt(stock[s].available, q) = stock[s].available + q
      BY <1>2, <2>1, <2>2, <2>5, AddIntExact
    <2>7. stock'[s].available + stock'[s].reserved =
          stock[s].available + stock[s].reserved
      BY <1>2, <2>1, <2>2, <2>4, <2>6
    <2> QED BY <2>3, <2>7
  <1>5. ~ \E t \in SkuText, level \in StockLevels : SetStock(t, level)
    BY DEF SetStock
  <1> QED BY <1>3, <1>4, <1>5 DEF InventoryNext

(* Reserve and Release conserve the total of every SKU, within capacity:    *)
(* only SetStock changes how many units there are.                          *)
THEOREM TransfersConserveStockHolds == InventorySpec => TransfersConserveStock
  <1>1. ASSUME CapacityInv, CapacityInv', [InventoryNext]_inventoryVars
        PROVE  [reservations' # reservations =>
                  /\ DOMAIN stock' = DOMAIN stock
                  /\ \A s \in DOMAIN stock :
                        stock'[s].available + stock'[s].reserved =
                        stock[s].available + stock[s].reserved]_inventoryVars
    BY <1>1, TransferStep
  <1> QED BY <1>1, CapacityInductive, PTL
          DEF InventorySpec, TransfersConserveStock
=============================================================================
