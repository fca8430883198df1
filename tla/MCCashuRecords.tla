--------------------------- MODULE MCCashuRecords ---------------------------
EXTENDS CashuRecords

\* Two keysets share a u32.
MCKeysets == {1, 2, 3}
MCU32 == <<1, 1, 2>>

MCMaxCalls == [w \in Workloads |-> IF w = "mints" THEN 3 ELSE 4]
MCMaxFaults == [w \in Workloads |-> IF w \in {"quotes", "mints"} THEN 1 ELSE 2]

Symmetry == Permutations(Tasks) \cup Permutations(Txs) \cup Permutations(Urls)

=============================================================================
