SPECIFICATION FairSpec
CONSTANTS
    Accounts = {a1}
    Links = {w1}
    Cleaners = {c1, c2}
    MaxPolls = 2
    MaxReauths = 1
    MaxCrashes = 1
    MaxErrors = 1
    Nil = Nil
PROPERTIES
    LifecycleSpec
    PendingIsResolved
    PollingEnds
