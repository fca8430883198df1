--------------------------- MODULE MCTrustedRebalance ---------------------------
(* TrustedRebalance for TLC. *)
EXTENDS TrustedRebalance, TLC

Symmetry == Permutations(Callers) \cup Permutations(Transfers)
=============================================================================
