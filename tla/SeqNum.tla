------------------------------- MODULE SeqNum -------------------------------
(***************************************************************************)
(* Serial-number arithmetic of the XRCE streams: the Agent's class SeqNum  *)
(* (utils/SeqNum.hpp) and the Client's uxr_seq_num_* functions             *)
(* (seq_num.c).  Both count modulo 2^16 and call the half of the circle    *)
(* ahead of a number "greater".  The modulus is 2*Half; the code has       *)
(* Half = 32768 and every result here holds for any Half > 0.              *)
(***************************************************************************)
EXTENDS Integers

CONSTANT Half          \* half the modulus: ADD_RANGE[1]+1 / SEQ_NUM_MIDSIZE

ASSUME HalfAssumption == Half \in Nat \ {0}

Modulus == 2 * Half
SeqNums == 0 .. Modulus - 1
MaxSeq  == Modulus - 1                               \* UINT16_MAX

\* seq_num_ + rhs modulo Modulus, for operands below Modulus.
Wrap(n) == IF n >= Modulus THEN n - Modulus ELSE n

\* The Agent's operator+: an increment outside ADD_RANGE is ignored.
SeqAdd(a, b) == IF b < Half THEN Wrap(a + b) ELSE a

\* The Client's uxr_seq_num_add has no such restriction.
ClientAdd(a, b) == Wrap(a + b)

\* operator-, uxr_seq_num_sub: also the distance from b forward to a.
SeqSub(a, b) == IF b > a THEN a - b + Modulus ELSE a - b

\* operator<: true when b is at most Half - 1 steps ahead of a.
SeqLt(a, b) ==
    /\ a # b
    /\ \/ a < b /\ b - a < Half
       \/ a > b /\ a - b > Half

\* operator<=, defined as the negation of operator>: numbers exactly Half
\* apart are each <= the other.
SeqLeq(a, b) == ~SeqLt(b, a)

\* uxr_seq_num_cmp: numbers exactly Half apart each compare greater (1).
ClientCmp(a, b) == IF a = b THEN 0 ELSE IF SeqLt(a, b) THEN -1 ELSE 1
=============================================================================
