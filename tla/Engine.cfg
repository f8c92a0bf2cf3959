SPECIFICATION Spec
CONSTANTS
    Nil = Nil
    Precision = 10000
    AFFORDABILITY_CAP = 35
    Requests <- MCRequests
INVARIANTS
    TypeOK
    OfferIsAffordable
    ApprovedIsUncontested
    AskingMoreNeverRescues
    CleanerAccountScoresNoLess
    LinkingMoreNeverClears
CHECK_DEADLOCK FALSE
