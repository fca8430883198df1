----------------------------- MODULE MCProofStore -----------------------------
(* ProofStore for TLC.  A proof is added without its derivation index, or with *)
(* it while the other proofs are removed; its state is set to Pending or       *)
(* Spent; any selection is reserved.                                           *)
EXTENDS ProofStore, TLC

New(y, i) == [x \in Ys |-> IF x = y THEN [st |-> "Unspent", owner |-> NoOp, idx |-> i]
                           ELSE Absent]

MCRequests ==
    {[kind |-> "update", added |-> New(y, FALSE), removed |-> {}] : y \in Ys}
    \cup {[kind |-> "update", added |-> New(y, TRUE), removed |-> Ys \ {y}] : y \in Ys}
    \cup [kind : {"update"}, added : {Nothing}, removed : {{y} : y \in Ys}]
    \cup [kind : {"state"}, ys : {{y} : y \in Ys}, st : {"Pending", "Spent"}]
    \cup [kind : {"reserve"}, ys : (SUBSET Ys) \ {{}}, o : Ops]
    \cup [kind : {"release", "reserved"}, o : Ops]
    \cup {ReadAll}

Symmetry == Permutations(Ys) \cup Permutations(Ops) \cup Permutations(Tasks)
=============================================================================
