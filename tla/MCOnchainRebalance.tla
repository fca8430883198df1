------------------------- MODULE MCOnchainRebalance -------------------------
(* OnchainRebalance for TLC.  All bounds at once are out of reach: a behaviour *)
(* goes on either with one receipt in the first second, or without a splice.   *)
EXTENDS OnchainRebalance, TLC

OneReceipt == now = 1 /\ \A r \in Receipts : conf[r] # 0 => r = 1

NoSplice ==
    /\ \A p \in Payers : call[p].pc = "idle"
    /\ \A s \in Splices : role[s] = "unused"

OneDimension == OneReceipt \/ NoSplice

Symmetry == Permutations(Callers) \cup Permutations(Channels) \cup Permutations(Splices)
=============================================================================
