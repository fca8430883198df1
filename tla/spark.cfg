SPECIFICATION SparkSpec
CONSTANTS
    Tasks = {t1, t2}
    MaxFaults = 1
    None = None
    Workloads <- MCWorkloads
    Fields = {f1, f2}
    Refunds = {r1, r2}
    Characters = {"a", "b"}
    RecordIds <- MCIds
    Swaps <- MCIds
    KeyMaxLen = 6
    MaxRevision = 3
    MaxChanges = 2
    Limits = {1, 2}
    Decimal <- MCDecimal
    N = 2
    Times <- MCTimes
    Kinds <- MCKinds
SYMMETRY Symmetry
INVARIANTS NoChangeLost UnderOwnKey ErasedIsResynced ListedInPages OneFinalEvent
PROPERTIES SyncNeverGoesBack RefundsKept FinalIsAnnounced
