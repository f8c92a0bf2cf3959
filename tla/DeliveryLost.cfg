SPECIFICATION FairSpec
CONSTANTS
    Events = {e1}
    MaxAttempts = 5
    MaxFaults = 0
    MaxCrashes = 1
PROPERTY EveryEventIsPosted
CHECK_DEADLOCK FALSE
