---------------------------- MODULE MCErpService ----------------------------
(* Two reservations compete for the one unit of a SKU, the first of them is *)
(* released again; its key is also reused for another payload; one message  *)
(* does not decode.                                                         *)
EXTENDS ErpService

Reserve1 == [kind |-> "reserve", wellFormed |-> TRUE, key |-> "k1", id |-> "r1",
             order |-> "o1", sku |-> "red", quantity |-> 1]
Reserve2 == [Reserve1 EXCEPT !.key = "k2", !.id = "r2"]
Conflict1 == [Reserve1 EXCEPT !.id = "r2"]
Release1 == [kind |-> "release", wellFormed |-> TRUE, key |-> "k1", id |-> "r1",
             reason |-> ""]
Garbled == [Release1 EXCEPT !.wellFormed = FALSE]

Settings(mode) == [mode |-> mode, percent |-> 50, delay |-> 1]
Trouble == {Settings("publish_failure"), Settings("duplicate_response"),
            Settings("always_reject"), Settings("unsupported")}
NoSettings == {}

TwoReserves == {Reserve1, Reserve2}
ReserveReleaseGarbled == {Reserve1, Reserve2, Release1, Garbled}
Conflicting == {Reserve1, Conflict1}
AllRequests == {Reserve1, Reserve2, Conflict1, Release1, Garbled}
MCReservationText == {"r1", "r2"}
MCSkuText == {"red"}
MCTrimSpace == [t \in {"", "r1", "r2", "red", "o1", "k1", "k2"} |-> t]
MCQuantities == {1}
MCStockLevels == {0, 1}
MCSeed == [s \in {"red"} |-> 1]
=============================================================================
