----------------------------- MODULE MCWalletPay -----------------------------
EXTENDS WalletPay, TLC

B11 == <<"bolt11", "i1">>
B12 == <<"bolt12", "o1">>
Chain == <<"onchain", "a1">>

MCInstructions == {<<B11, Chain>>, <<B12>>}

Purse(t, l, o) == [trusted |-> t, lightning |-> l, onchain |-> o]

MCFunds == {Purse(1, 1, 3), Purse(1, 2, 0), Purse(2, 1, 0)}

MCTunables == [trusted_balance_limit |-> 1, rebalance_min |-> 0]

Symmetry == Permutations(Calls)

=============================================================================
