--------------------------- MODULE ListTransactions ---------------------------
(***************************************************************************)
(* `Wallet::list_transactions`: the one list the application sees, made    *)
(* from the trusted wallet's payments, the lightning wallet's, the splice  *)
(* outs and the metadata of all of them.  A transaction is an id, what it  *)
(* was made from and its status; amounts, times and fees are left out.     *)
(***************************************************************************)
EXTENDS Naturals, FiniteSets

\* A payment a wallet lists.
Listed(id, status, onchain) == [id |-> id, status |-> status, onchain |-> onchain]

Single(p) == [id |-> p.id, from |-> "payment", status |-> p.status]

\* What the metadata says of a payment, "none" if there is no entry.
TypeIn(meta, id) == IF id \in DOMAIN meta THEN meta[id].ty ELSE "none"

\* should_surface_lightning_payment_without_metadata, and its counterpart in
\* the loop over the trusted wallet's payments (which knows no chain).
SurfacedWithout(p) == p.status = "completed" \/ p.onchain

\* A payment with an entry of its own, or one that is surfaced without.
Own(payments, meta) ==
    {Single(p) : p \in {q \in payments :
        \/ TypeIn(meta, q.id) = "payment"
        \/ TypeIn(meta, q.id) = "none" /\ SurfacedWithout(q)}}

\* internal_transfers: the receipt that triggered a transfer is listed once,
\* the transfer's own payments only add their fees to it.
Triggers(payments, meta) ==
    {[Single(p) EXCEPT !.from = "transfer"] : p \in {q \in payments : TypeIn(meta, q.id) = "trigger"}}

\* MppMerge::status of the legs that are listed.
MppStatus(trusted, lightning) ==
    CASE \E l \in trusted \cup lightning : l.status = "failed" -> "failed"
      [] /\ \E l \in trusted : l.status = "completed"
         /\ \E l \in lightning : l.status = "completed" -> "completed"
      [] OTHER -> "pending"

\* mpp_payments: the legs are merged under the id they are surfaced under.
Splits(trusted, lightning, meta) ==
    LET Legs(ps, s) == {p \in ps : TypeIn(meta, p.id) = "mpp" /\ meta[p.id].surface = s}
        surfaces == {meta[p.id].surface :
                        p \in {q \in trusted \cup lightning : TypeIn(meta, q.id) = "mpp"}}
    IN  {[id |-> s, from |-> "split", status |-> MppStatus(Legs(trusted, s), Legs(lightning, s))] :
            s \in surfaces}

list_transactions(trusted, lightning, splice_outs, meta) ==
    UNION {Own(trusted \cup lightning, meta), Triggers(trusted \cup lightning, meta),
           Splits(trusted, lightning, meta),
           {[id |-> s, from |-> "splice", status |-> "completed"] : s \in splice_outs}}

=============================================================================
