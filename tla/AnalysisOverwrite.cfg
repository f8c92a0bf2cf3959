SPECIFICATION Spec
CONSTANTS
    Accounts = {a1}
    Jobs = {j1}
    Reviewers = {}
    MaxAttempts = 3
    MaxTrouble = 1
    MaxCrashes = 0
PROPERTY CompletedIsTerminal
