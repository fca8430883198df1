SPECIFICATION Spec
CONSTANTS
    Calls = {c1, c2}
    Instructions <- MCInstructions
    Amount = 2
    Tunables <- MCTunables
    Funds <- MCFunds
    Backends = {"cashu", "spark"}
    MaxQuotes = 3
    MaxReceipts = 1
    None = None
SYMMETRY Symmetry
INVARIANTS PaysOnce ListedOnce ListedTruthfully
CHECK_DEADLOCK FALSE
