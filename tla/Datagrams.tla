------------------------------ MODULE Datagrams ------------------------------
(***************************************************************************)
(* What a datagram transport does to packets (UDP, or a serial line that   *)
(* drops corrupted frames), as the two programs use it: anything may be    *)
(* lost, arrive late, twice or behind what was sent after it.              *)
(***************************************************************************)
EXTENDS Integers, FiniteSets

\* Where a transport with the packets flying can be after more were sent: a
\* packet stays when it arrives (so it may arrive again) and some of those
\* that fly and of those just sent are lost, as many as it takes for at most
\* limit to remain (a bound of the models).
Fates(flying, sent, limit) ==
    {left \in SUBSET (flying \cup sent) : Cardinality(left) <= limit}
=============================================================================
