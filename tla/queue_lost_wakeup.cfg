SPECIFICATION FairQueueSpec
CONSTANTS
    LdkEvents <- MCLdkEvents
    TaskEvents <- MCTaskEvents
    Received <- MCReceived
    LegEvents = {}
    Apps <- MCWaiting
    MaxFaults = 0
    MaxRestarts = 0
PROPERTY QueuedIsRetrieved
CHECK_DEADLOCK FALSE
