SPECIFICATION FairSpec
CONSTANTS
    Accounts = {a1}
    Jobs = {j1, j2}
    Reviewers = {v1}
    MaxAttempts = 2
    MaxTrouble = 2
    MaxCrashes = 2
INVARIANTS
    TypeOK
    OutcomeIsTold
PROPERTY AnalysisIsAnswered
