---------------------------- MODULE MCOperations ----------------------------
(* The messages of MCErpService; dead letters arise from publish failures,  *)
(* from the conflicting and from the undecodable message.  Two calls reach  *)
(* the admin: requeues of either queue, with limits that are refused,       *)
(* reached and not reached, and scrapes.                                    *)
EXTENDS MCErpService, Operations

CONSTANTS c1, c2

MCCallers == {c1, c2}
ReserveAndGarbled == {Reserve1, Garbled}
OneReserve == {Reserve1}
OneCaller == {c1}
NoCallers == {}
PublishFailure == {Settings("publish_failure")}
Requeue(queue, limit) == [queue |-> queue, limit |-> limit]
MCRequeueRequests ==
    {Requeue("reservation_requests", 2), Requeue("reservation_requests", 3),
     Requeue("reservation_release_requests", 1)}
RequeueReservations == {Requeue("reservation_requests", 2)}
=============================================================================
