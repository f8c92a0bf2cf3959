SPECIFICATION FairSpec
CONSTANTS
    Accounts = {a1}
    Apps = {p1}
    Requests = {r1}
    Links = {l1}
    Checkers = {k1}
    Cleaners = {c1}
    Aging = {p1}
    MaxErrors = 1
    Resends = 1
    Nil = Nil
PROPERTIES
    ReadyIsAnnounced
    PendingEnds
