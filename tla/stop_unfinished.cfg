SPECIFICATION StopSpec
CONSTANTS
    Rebalance = {r1}
    Monitor = {m1}
    Melts = {p1}
    Listener = {l1}
    Nobody = Nobody
INVARIANT CriticalTasksCompleted
CHECK_DEADLOCK FALSE
