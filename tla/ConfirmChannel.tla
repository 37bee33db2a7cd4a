--------------------------- MODULE ConfirmChannel ---------------------------
(***************************************************************************)
(* An AMQP channel in confirm mode, as Publisher and Admin of              *)
(* internal/messaging/rabbitmq each have one on a connection of their own. *)
(*                                                                         *)
(* What is published travels on the wire in order.  The broker takes each  *)
(* message and confirms it, or refuses it, in the same order.              *)
(* publishWithConfirmation waits for the next confirmation, whichever      *)
(* publication it belongs to.                                              *)
(***************************************************************************)
EXTENDS Naturals, Sequences

CONSTANTS
    MaxTimeouts,   \* confirmations that arrive after the publish timeout
    MaxRejects,    \* publications the broker refuses
    MaxLosses      \* losses of the connection

VARIABLES
    wire,            \* published, not yet seen by the broker
    confirmations,   \* the channel of NotifyPublish: TRUE is an ack
    open,            \* connection and channel are open
    faults           \* how often each fault has happened

NoFaults == [timeouts |-> 0, rejects |-> 0, losses |-> 0]

ChannelInit ==
    /\ wire = <<>>
    /\ confirmations = <<>>
    /\ open = TRUE
    /\ faults = NoFaults

-----------------------------------------------------------------------------
(* publishWithConfirmation up to its select. *)
Publish(publication) ==
    /\ open
    /\ wire' = Append(wire, publication)

(* The arms of the select.  The first takes the next confirmation, ...      *)
(* The variant does not look whether it is an ack.                          *)
TakeAnyConfirmation(ack) ==
    /\ ack
    /\ confirmations # <<>>
    /\ confirmations' = Tail(confirmations)

TakeConfirmation(ack) ==
    /\ confirmations # <<>>
    /\ Head(confirmations) = ack
    /\ confirmations' = Tail(confirmations)

(* ... the second fires on the timeout or, at once, when the context that   *)
(* the caller passed is done; a closed channel ends the wait as well.       *)
GiveUp(ctxDone) ==
    /\ UNCHANGED confirmations
    /\ \/ /\ ctxDone \/ (~open /\ confirmations = <<>>)
          /\ UNCHANGED faults
       \/ /\ open
          /\ faults.timeouts < MaxTimeouts
          /\ faults' = [faults EXCEPT !.timeouts = @ + 1]

(* The client library reads replies and confirmations in one goroutine and  *)
(* NotifyPublish was given a buffer of one: a call that needs a reply, such *)
(* as Get or Close, does not return while a second confirmation is waiting. *)
Responsive == Len(confirmations) <= 1

-----------------------------------------------------------------------------
(* The broker confirms on the connection the publication came from, which   *)
(* is gone when the process has been started again.                         *)
Confirm(publication, life, ack) ==
    confirmations' = IF publication.life = life
                     THEN Append(confirmations, ack) ELSE confirmations

Accepts(life) ==
    /\ wire # <<>>
    /\ wire' = Tail(wire)
    /\ Confirm(Head(wire), life, TRUE)
    /\ UNCHANGED <<open, faults>>

Refuses(life) ==
    /\ wire # <<>>
    /\ faults.rejects < MaxRejects
    /\ faults' = [faults EXCEPT !.rejects = @ + 1]
    /\ wire' = Tail(wire)
    /\ Confirm(Head(wire), life, FALSE)
    /\ UNCHANGED open

(* The connection is lost with what was on it.  It is dialled once, when    *)
(* the process starts; nothing opens it again.                              *)
Lost ==
    /\ open
    /\ faults.losses < MaxLosses
    /\ faults' = [faults EXCEPT !.losses = @ + 1]
    /\ open' = FALSE
    /\ wire' = <<>>
    /\ UNCHANGED confirmations
=============================================================================
