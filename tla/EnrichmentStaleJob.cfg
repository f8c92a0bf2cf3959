SPECIFICATION Spec
CONSTANTS
    Accounts = {a1}
    Links = {w1, w2}
    Cleaners = {c1}
    MaxPolls = 1
    MaxReauths = 0
    MaxCrashes = 0
    MaxErrors = 0
    Nil = Nil
PROPERTY RelinkRestarts
