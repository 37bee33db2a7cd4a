---------------------------- MODULE MCInventory ----------------------------
(* Three reservation IDs, one of them also written with a space, a blank    *)
(* one, a seeded SKU and one that only SetStock can create.                 *)
EXTENDS InventoryCapacity

MCReservationText == {"r1", " r1", "r2", "r3", " "}
MCSkuText == {"red", " red", "blue", " "}
MCTrimSpace ==
    [t \in MCReservationText \cup MCSkuText \cup {""} |->
        IF t = " r1" THEN "r1" ELSE
        IF t = " red" THEN "red" ELSE
        IF t = " " THEN "" ELSE t]
MCQuantities == {-1, 0, 1, 2}
MCStockLevels == {-1, 0, 1, 2}
MCSeed == [s \in {"red"} |-> 2]
=============================================================================
