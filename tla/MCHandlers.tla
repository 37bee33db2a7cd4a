----------------------------- MODULE MCHandlers -----------------------------
(* Two keys compete for one SKU and for one reservation ID; a key is also   *)
(* written with a space, is reused for another payload, whose SKU is        *)
(* unknown at first, and a reservation is released under two keys, also     *)
(* before it exists.                                                        *)
EXTENDS Handlers, InventoryCapacity

ReserveMsg(k, r, s, q) ==
    [kind |-> "reserve", wellFormed |-> TRUE, key |-> k, id |-> r,
     order |-> "o1", sku |-> s, quantity |-> q]
ReleaseMsg(k, r, why) ==
    [kind |-> "release", wellFormed |-> TRUE, key |-> k, id |-> r, reason |-> why]

MCRequests ==
    {ReserveMsg("k1", "r1", "red", 2),
     ReserveMsg(" k1", "r1", "red", 2),
     ReserveMsg("k1", "r2", "blue", 1),
     ReserveMsg("k2", " r1", "red", 1),
     ReserveMsg("k3", "r2", " red", 2),
     ReserveMsg("k3", "r2", "blue", 0),
     ReserveMsg(" ", "r2", "red", 1),
     ReleaseMsg("k1", "r1", "a"),
     ReleaseMsg("k2", " r1", "a"),
     ReleaseMsg("k2", "r2", "b"),
     [ReleaseMsg("k3", "r1", "a") EXCEPT !.wellFormed = FALSE]}
MCReservationText == {"r1", " r1", "r2"}
MCSkuText == {"red", " red", "blue"}
MCTrimSpace ==
    [t \in MCReservationText \cup MCSkuText \cup
           {"", " ", "o1", "k1", " k1", "k2", "k3"} |->
        IF t = " r1" THEN "r1" ELSE
        IF t = " red" THEN "red" ELSE
        IF t = " k1" THEN "k1" ELSE
        IF t = " " THEN "" ELSE t]
MCQuantities == 0..2
MCStockLevels == {0, 2}
MCSeed == [s \in {"red"} |-> 2]
=============================================================================
