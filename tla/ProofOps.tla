------------------------------- MODULE ProofOps -------------------------------
(***************************************************************************)
(* What the operations of the Cashu wallet database do to the stored set   *)
(* of ecash proofs (`CashuKvDatabase`), as operators on a ledger: a        *)
(* function from the proofs' Y values to what is stored for them.          *)
(***************************************************************************)
CONSTANTS
    Ys,        \* public keys that identify proofs
    Ops,       \* ids of wallet operations (sagas) that reserve proofs
    NoOp,      \* used_by_operation is None
    Absent,    \* no proof is stored under this Y
    Requests   \* the calls CDK makes into the database

States == {"Unspent", "Reserved", "Pending", "Spent"}

\* A ProofInfo: `idx` says whether its NUT-13 derivation index is known.
Proof  == [st : States, owner : Ops \cup {NoOp}, idx : BOOLEAN]
Ledger == [Ys -> Proof \cup {Absent}]

\* PROOF_RESERVATIONS: the ownership index that version 0.16 kept apart.
Index == [Ops -> SUBSET Ys]

\* The calls: update_proofs with what to add and what to remove,
\* update_proofs_state, reserve_proofs of a non-empty selection,
\* release_proofs, get_reserved_proofs, and get_proofs or get_balance.
Request ==
    [kind : {"update"}, added : Ledger, removed : SUBSET Ys]
    \cup [kind : {"state"}, ys : SUBSET Ys, st : States]
    \cup [kind : {"reserve"}, ys : (SUBSET Ys) \ {{}}, o : Ops]
    \cup [kind : {"release", "reserved"}, o : Ops]
    \cup [kind : {"read"}]

ReadAll == [kind |-> "read"]

ASSUME ProofAssumption ==
    /\ NoOp \notin Ops
    /\ Absent \notin Proof
    /\ Requests \subseteq Request
    /\ ReadAll \in Requests

Mutation(req) == req.kind \in {"update", "state", "reserve", "release"}

-----------------------------------------------------------------------------
\* update_proofs_cache: replace or append what is added, keeping an index that
\* was known, then drop what is removed.
UpdateProofs(p, u) ==
    [y \in Ys |->
        IF y \in u.removed THEN Absent
        ELSE IF u.added[y] = Absent THEN p[y]
        ELSE [st |-> u.added[y].st, owner |-> u.added[y].owner,
              idx |-> u.added[y].idx \/ (p[y] # Absent /\ p[y].idx)]]

UpdateProofsState(p, ys, s) ==
    [y \in Ys |-> IF y \in ys /\ p[y] # Absent
                  THEN [p[y] EXCEPT !.st = s] ELSE p[y]]

\* reserved_proofs: an explicit owner takes precedence over the old index.
ReservedProofs(p, ix, o) ==
    {y \in Ys : /\ p[y] # Absent
                /\ IF p[y].owner = NoOp THEN y \in ix[o] ELSE p[y].owner = o}

\* Mutant: only the state of the proof is checked.
AnyoneMayReserve(p, ix, ys, o) ==
    \A y \in ys : p[y] # Absent /\ p[y].st \in {"Unspent", "Reserved"}

\* The tests of reserve_proofs: every requested proof is stored, free, and not
\* reserved through the old index by another operation.
CanReserve(p, ix, ys, o) ==
    \A y \in ys :
        /\ p[y] # Absent
        /\ p[y].owner \in {NoOp, o}
        /\ p[y].st \in {"Unspent", "Reserved"}
        /\ p[y].st = "Reserved" /\ p[y].owner = NoOp =>
               y \in ReservedProofs(p, ix, o)

ReserveProofs(p, ys, o) ==
    [y \in Ys |-> IF y \in ys /\ p[y] # Absent
                  THEN [p[y] EXCEPT !.st = "Reserved", !.owner = o] ELSE p[y]]

ReleaseProofs(p, ix, o) ==
    [y \in Ys |->
        IF y \in ReservedProofs(p, ix, o) /\ p[y].st \in {"Reserved", "Pending"}
        THEN [p[y] EXCEPT !.st = "Unspent", !.owner = NoOp] ELSE p[y]]

\* Whether the ledger p lets a request through, and what it becomes.
Allowed(req, p, ix) ==
    req.kind = "reserve" => CanReserve(p, ix, req.ys, req.o)

Apply(req, p, ix) ==
    CASE req.kind = "update"  -> UpdateProofs(p, req)
      [] req.kind = "state"   -> UpdateProofsState(p, req.ys, req.st)
      [] req.kind = "reserve" -> ReserveProofs(p, req.ys, req.o)
      [] req.kind = "release" -> ReleaseProofs(p, ix, req.o)
      [] OTHER -> p

\* What get_proofs and get_reserved_proofs return.
View(req, p, ix) ==
    IF req.kind = "read" THEN p
    ELSE [y \in Ys |-> IF y \in ReservedProofs(p, ix, req.o) THEN p[y] ELSE Absent]
=============================================================================
