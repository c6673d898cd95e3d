SPECIFICATION Spec
CONSTANTS
    Servers = {s1, s2}
    Scheduler = sch
    Operators = {o1}
    MaxTime = 3
    Grace = 1
    DefaultLead = 1
    Leads = {0, 1}
    RuleSets = {}
    FirstRules = {1, 3}
    Overlap = FALSE
    Prompt = FALSE
    Requests = {"skip"}
    Faults = {"load", "offline", "crash"}
INVARIANT FiredOnce
PROPERTY SkippedStaysQuiet
CHECK_DEADLOCK FALSE
