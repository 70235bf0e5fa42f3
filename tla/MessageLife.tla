---------------------------- MODULE MessageLife -----------------------------
(***************************************************************************)
(* What the readers of a message's delivery status may rely on: the status *)
(* only advances, except that a failed message may be queued again a       *)
(* limited number of times.                                                *)
(***************************************************************************)
EXTENDS Integers

CONSTANT MaxDeliveryRetries

VARIABLES status, deliveryRetries

Order == <<"QUEUED", "SENT", "FAILED", "DELIVERED", "READ">>

Init == status = Order[1] /\ deliveryRetries = 0

Advance ==
    /\ \E i \in 1..5 : \E j \in i + 1 .. 5 : status = Order[i] /\ status' = Order[j]
    /\ UNCHANGED deliveryRetries

QueueAgain ==
    /\ status = "FAILED"
    /\ deliveryRetries < MaxDeliveryRetries
    /\ status' = "QUEUED"
    /\ deliveryRetries' = deliveryRetries + 1

Spec == Init /\ [][Advance \/ QueueAgain]_<<status, deliveryRetries>>
=============================================================================
