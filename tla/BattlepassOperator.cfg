SPECIFICATION Spec
CONSTANTS
    Tiers = {t1}
    LevelTiers = {t1}
    DefaultTiers = {t1}
    Accounts = {a1}
    Engines = {e1}
    Operators = {o1}
    Handlers = {"grantTier", "grantAll", "demote", "purge", "edit", "reseed"}
    AutoGrantModes = {TRUE}
    AwardPastModes = {FALSE}
    Faults = {"lost", "store", "crash"}
    MaxAttempts = 1
INVARIANT RowsConsistent
INVARIANT PreexistingNeverPaid
PROPERTY ClaimLifecycle
