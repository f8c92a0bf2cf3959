SPECIFICATION FairSpec
CONSTANTS
    Events = {e1, e2}
    MaxAttempts = 3
    MaxFaults = 2
    MaxCrashes = 2
INVARIANTS
    TypeOK
    SettledIsMarked
PROPERTIES
    PromiseSpec
    QueuedIsSettled
CHECK_DEADLOCK FALSE
