--------------------------- MODULE ReliableChannel ---------------------------
(***************************************************************************)
(* What a reliable stream promises to the two applications, whatever the   *)
(* transport loses, duplicates or reorders: "both non-out-of-order         *)
(* delivery and guarantee for delivery" (stream_id.h).                     *)
(***************************************************************************)
EXTENDS Sequences, Naturals

CONSTANT Submessages

VARIABLES
    queue,      \* accepted from the sender, not delivered yet
    received    \* what the last step delivered, in order

vars == <<queue, received>>

Init ==
    /\ queue = <<>>
    /\ received = <<>>

Send(s) ==
    /\ queue' = Append(queue, s)
    /\ received' = <<>>

\* A gap that closes lets several submessages through at once.
Receive ==
    /\ received' # <<>>
    /\ queue = received' \o queue'

Idle ==
    /\ received' = <<>>
    /\ UNCHANGED queue

Next ==
    \/ Idle
    \/ \E s \in Submessages : Send(s)
    \/ Receive

Spec == Init /\ [][Next]_vars
=============================================================================
