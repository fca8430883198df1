SPECIFICATION Spec
CONSTANTS
    Callers = {c1, c2}
    Payers = {p1}
    Receipts = {1, 2}
    Channels = {k1}
    Splices = {s1, s2}
    MaxTime = 2
    MaxFaults = 1
    None = None
SYMMETRY Symmetry
CONSTRAINT OneDimension
INVARIANTS NoLostWakeup RecordsMatchTransactions TransferHasBothEnds NoReceiptSkipped
