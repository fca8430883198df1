SPECIFICATION Spec
CONSTANTS
    Calls = {c1, c2}
    Instructions <- MCInstructions
    Amount = 2
    Tunables <- MCTunables
    Funds <- MCFunds
    Backends = {"cashu", "spark"}
    MaxQuotes = 2
    MaxReceipts = 0
    None = None
SYMMETRY Symmetry
INVARIANTS InsertsNew
CHECK_DEADLOCK FALSE
