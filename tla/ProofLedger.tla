----------------------------- MODULE ProofLedger -----------------------------
(***************************************************************************)
(* What CDK relies on when it uses `CashuKvDatabase` as its proof store:   *)
(* one ledger, every mutation of which happens at once or not at all, and  *)
(* reads that return the ledger as it is.  `out` is the value returned by  *)
(* the last step, None when it returned no proofs.                         *)
(***************************************************************************)
EXTENDS ProofOps

CONSTANT None

VARIABLES proofs, index, out

vars == <<proofs, index, out>>

Init ==
    /\ index \in {ix \in Index : \A a, b \in Ops : a # b => ix[a] \cap ix[b] = {}}
    /\ proofs = [y \in Ys |-> IF \E o \in Ops : y \in index[o]
                              THEN [st |-> "Reserved", owner |-> NoOp, idx |-> FALSE]
                              ELSE Absent]
    /\ out = None

\* A mutation that is let through takes effect as a whole.
Mutate(req) ==
    /\ Mutation(req) /\ Allowed(req, proofs, index)
    /\ proofs' = Apply(req, proofs, index)
    /\ out' = None
    /\ UNCHANGED index

\* A read returns the current proofs.
Read(req) ==
    /\ ~Mutation(req)
    /\ out' = View(req, proofs, index)
    /\ UNCHANGED <<proofs, index>>

\* The old index of an operation goes only when it reserves nothing any more.
DropIndex(o) ==
    /\ \A y \in index[o] : proofs[y] # Absent /\ proofs[y].owner = NoOp =>
          proofs[y].st \notin {"Reserved", "Pending"}
    /\ index' = [index EXCEPT ![o] = {}]
    /\ out' = None
    /\ UNCHANGED proofs

\* A step inside the store, or a call that returns without effect.
Internal == out' = None /\ UNCHANGED <<proofs, index>>

Next ==
    \/ \E req \in Requests : Mutate(req) \/ Read(req)
    \/ \E o \in Ops : DropIndex(o)
    \/ Internal

Spec == Init /\ [][Next]_vars
=============================================================================
