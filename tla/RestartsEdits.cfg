SPECIFICATION Spec
CONSTANTS
    Servers = {s1}
    Scheduler = sch
    Operators = {o1}
    MaxTime = 6
    Grace = 1
    DefaultLead = 1
    Leads = {0, 1}
    RuleSets = {{2, 4}, {3}}
    FirstRules = {2, 4}
    Overlap = FALSE
    Prompt = TRUE
    Requests = {"update"}
    Faults = {"save", "broadcast"}
INVARIANT FiredWasScheduled
INVARIANT NoneMissed
