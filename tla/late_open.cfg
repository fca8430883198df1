SPECIFICATION Spec
CONSTANTS
    Callers = {c1}
    Payers = {p1}
    Receipts = {1}
    Channels = {k1, k2}
    Splices = {s1}
    MaxTime = 1
    MaxFaults = 0
    None = None
PROPERTY NoLateOpen
