------------------------- MODULE MCIdempotencyStore -------------------------
(* Four calls over two keys, one of them also written with a space, and a   *)
(* blank key: enough for an owner that fails while two others wait and a    *)
(* fourth starts anew.                                                      *)
EXTENDS IdempotencyStore

MCKeyText == {"k1", " k1", "k2", " "}
MCTrimSpace == [t \in MCKeyText |-> IF t = " k1" THEN "k1" ELSE
                                    IF t = " " THEN "" ELSE t]
=============================================================================
