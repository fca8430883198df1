SPECIFICATION FairSpec
CONSTANTS
    Callers = {c1, c2}
    Receipts = {1}
    Times = {1}
    Transfers = {s1, s2}
    MaxCrashes = 1
    None = None
INVARIANTS PromotionSucceeds TransfersWellFormed AnnouncedIsRecorded
PROPERTY TransferEnds
