SPECIFICATION EventsSpec
CONSTANTS
    Fees = {1, 2}
    MaxMsat = 3
    NoFee = NoFee
    MaxCrashes = 1
    MaxErrors = 1
    LdkEvents <- MCLdkEvents
    TaskEvents <- MCTaskEvents
    Received <- MCReceived
    LegEvents <- MCLegEvents
    Apps <- MCApps
    MaxFaults = 1
    MaxRestarts = 1
    Rebalance = {r1, r2}
    Monitor = {m1}
    Melts = {p1}
    Listener = {l1}
    Nobody = Nobody
INVARIANTS CombinedSound AtMostOneUnlessStale RecordSnapshotIsLatest FifoWithoutLoss DiskTracksQueue AckedIsDurable
PROPERTIES DecidedIsSurfaced StopReturns
