SPECIFICATION FairSpec
CONSTANTS
    Tiers = {t1}
    LevelTiers = {t1}
    DefaultTiers = {t1}
    Accounts = {a1}
    Engines = {e1}
    Operators = {o1}
    Handlers = {"demote"}
    AutoGrantModes = {TRUE}
    AwardPastModes = {FALSE}
    Faults = {"fail"}
    MaxAttempts = 2
INVARIANT PaymentsExact
PROPERTY EarnedSettles
