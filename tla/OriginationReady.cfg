SPECIFICATION Spec
CONSTANTS
    Accounts = {a1, a2}
    Apps = {p1}
    Requests = {r1}
    Links = {l1}
    Checkers = {k1, k2}
    Cleaners = {}
    Aging = {}
    MaxErrors = 1
    Resends = 1
    Nil = Nil
CONSTRAINT Explored
SYMMETRY Symmetry
INVARIANTS
    TypeOK
    LinkedHasAccounts
    NoLostReady
