---------------------------- MODULE MCMppPayment ----------------------------
(* MppPayment for TLC. *)
EXTENDS MppPayment
=============================================================================
