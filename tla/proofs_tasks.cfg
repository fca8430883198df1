SPECIFICATION FairSpec
CONSTANTS
    Ys = {y1}
    Ops = {o1, o2}
    Tasks = {t1, t2}
    NoOp = NoOp
    Absent = Absent
    None = None
    Requests <- MCRequests
PROPERTIES AtomicLedger CallsReturn NoStolenReservation
