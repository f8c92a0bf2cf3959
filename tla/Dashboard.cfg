SPECIFICATION Spec
CONSTANTS
    Nil = Nil
    Null = Null
    Queries = {m1, m2}
    Passwords = {p1, p2}
    MaxFaults = 1
    MaxSubmits = 3
    MaxExpiries = 1
    Apps = {a1}
    Clicks = {m1, m2}
    People = {p1, p2}
    Emails = {e1, e2}
    Edits = {m1, m2}
    Urls = {u1}
    Saves = {m1, m2}
    MaxKeys = 3
    Thresholds = {t0, t1}
    Default = t0
    Puts = {m1, m2}
CONSTRAINT Explored
SYMMETRY Symmetry
INVARIANTS
    TypeOK
    RefreshIsAwaited
    ResetEndsSessions
    OneVerdictPerReview
    DecidedLeavesQueue
    FreshListIsStored
    KeyShownIsTheKey
    FreshProfileIsStored
    FreshPolicyIsStored
PROPERTIES
    ForcedOutForCause
