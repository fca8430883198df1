------------------------------- MODULE MCSpark -------------------------------
(***************************************************************************)
(* SparkStore and SparkWallet for TLC.  The namespaces of the one and the  *)
(* payments of the other share neither keys nor locks, so a behaviour      *)
(* exercises one of the two, `side`, while the other is at rest.           *)
(***************************************************************************)
EXTENDS SparkStore, SparkWallet, TLC

\* Two tasks on each namespace, and ids whose characters run together the same way.
MCWorkloads == {{"metadata"}, {"deposits"}, {"swaps"}, {"sync"}}
MCIds == {<<<<"a">>, <<"b">>>>, <<<<"a", "b">>, <<>>>>}

MCDecimal(n) == <<<<"0", "1", "2", "3", "4", "5", "6", "7", "8", "9">>[n + 1]>>

\* Two old deposits, or a deposit and a payment before or after it, or lightning
\* payments only; at different times or in the same second.
MCKinds == {<<"deposit", "deposit">>, <<"send", "deposit">>, <<"deposit", "receive">>,
            <<"send", "rebalance">>}
MCTimes == {<<1, 1>>, <<1, 2>>}

VARIABLE side

StoreSide  == <<work, storeDisk, revisionLock, depositLock, sync, server, owed, applied>>
WalletSide == <<kind, disk, setup, lock, told>>

SparkInit ==
    /\ side \in {"store", "wallet"}
    /\ Init /\ StoreInit
    /\ side = "store" => /\ kind = <<"send", "rebalance">> /\ offset = None /\ ~migrated
                         /\ \A p \in Payments : stored[p] = None
    /\ side = "wallet" => work = {"swaps"}

SparkNext ==
    \/ side = "store" /\ StoreNext /\ UNCHANGED <<side, WalletSide>>
    \/ side = "wallet" /\ Next /\ UNCHANGED <<side, StoreSide>>

SparkSpec ==
    /\ SparkInit /\ [][SparkNext]_<<side, StoreSide, WalletSide, call, faults>>
    /\ \A t \in Tasks : WF_vars(Emit(t))

Symmetry == Permutations(Fields) \cup Permutations(Refunds)
=============================================================================
