SPECIFICATION Spec
CONSTANTS
    Accounts = {a1, a2}
    Links = {w1, w2}
    Cleaners = {c1}
    MaxPolls = 1
    MaxReauths = 0
    MaxCrashes = 0
    MaxErrors = 1
    Nil = Nil
SYMMETRY Symmetry
INVARIANTS
    TypeOK
    ReadyIsComplete
    OneEventPerEntry
    CompleteIsChecked
