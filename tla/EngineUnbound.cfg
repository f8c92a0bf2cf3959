SPECIFICATION Spec
CONSTANTS
    Nil = Nil
    Precision = 10000
    AFFORDABILITY_CAP = Nil
    Requests <- MCRequests
INVARIANT
    EveryRequestIsDecided
CHECK_DEADLOCK FALSE
