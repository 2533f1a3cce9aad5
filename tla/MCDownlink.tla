----------------------------- MODULE MCDownlink -----------------------------
(***************************************************************************)
(* A small instance of Downlink.  Nothing tells one submessage from        *)
(* another, so that they may be permuted.                                  *)
(***************************************************************************)
EXTENDS Downlink, TLC

MCSymmetry == Permutations(Submessages)
=============================================================================
