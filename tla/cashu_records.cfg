SPECIFICATION Spec
CONSTANTS
    Tasks = {t1, t2}
    Workloads = {"quotes", "sagas", "counters", "history", "mints", "reads"}
    MaxCounter = 6
    Txs = {x1, x2}
    Urls = {u1, u2}
    Keysets <- MCKeysets
    U32 <- MCU32
    NKeys = 4
    MAX_CONCURRENT_READS = 2
    MaxVersion = 2
    MaxCalls <- MCMaxCalls
    MaxFaults <- MCMaxFaults
    None = None
SYMMETRY Symmetry
INVARIANTS QuoteReservedOnce NoQuoteUpdateLost SagaStepOnce CountersNotReused NoTransactionLost KeysetsKept ReadsInOrder
CHECK_DEADLOCK FALSE
