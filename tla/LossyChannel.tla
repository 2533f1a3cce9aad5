---------------------------- MODULE LossyChannel ----------------------------
(***************************************************************************)
(* What a best-effort stream promises to the two applications: what is     *)
(* delivered comes in the order it was sent and at most once; anything may *)
(* be missing.  The submessages are counted from 1.                        *)
(***************************************************************************)
EXTENDS Integers

VARIABLES
    sent,       \* how many were sent
    received    \* the newest that was delivered

vars == <<sent, received>>

Init ==
    /\ sent = 0
    /\ received = 0

Send ==
    /\ sent' \in Nat /\ sent' > sent
    /\ UNCHANGED received

Receive ==
    /\ received' \in received + 1 .. sent
    /\ UNCHANGED sent

Next == Send \/ Receive

Spec == Init /\ [][Next]_vars
=============================================================================
