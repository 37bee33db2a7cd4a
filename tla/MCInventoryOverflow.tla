------------------------- MODULE MCInventoryOverflow -----------------------
(* A 3-bit int, and a stock level at its largest value: POST /stock puts    *)
(* no upper bound on the quantity it accepts.                               *)
EXTENDS Inventory

MCReservationText == {"r1", "r2"}
MCSkuText == {"red"}
MCTrimSpace == [t \in MCReservationText \cup MCSkuText \cup {""} |-> t]
MCQuantities == {1, 2}
MCStockLevels == {0, 3}
MCSeed == [s \in {"red"} |-> 2]
=============================================================================
