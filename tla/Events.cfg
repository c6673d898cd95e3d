SPECIFICATION FairSpec
CONSTANTS
    Events = {v1}
    Accounts = {a1}
    Servers = {s1}
    Main = s1
    Rewards <- EmptyOrTwo
    Scenarios <- AllScenarios
    Engines = {e1}
    Operators = {o1}
    MaxAttempts = 3
INVARIANT RowsConsistent
INVARIANT ResumesWhereFailed
INVARIANT Rewarded
PROPERTY PaidInFull
PROPERTY PendingSettles
