SPECIFICATION Spec
CONSTANTS
    Fees = {1, 2}
    MaxMsat = 3
    NoFee = NoFee
    MaxCrashes = 0
    MaxErrors = 0
INVARIANT NoLegEventSurfaced
