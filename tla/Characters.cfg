SPECIFICATION Spec
CONSTANTS
    Requests = {r1, r2}
    r1 = r1
    r2 = r2
    Kinds = {"delete", "safeDelete", "plain", "backup", "restore", "drop"}
    Leaks = {"import"}
    Races = {}
    Faults = {"export", "write", "record", "clean"}
    MaxAccounts = 3
    MaxLevel = 1
    MaxPatch = 2
    MaxSeconds = 2
    MaxAsked = 3
INVARIANT BackupsKept
PROPERTY SafetyNet
PROPERTY OrphansCleaned
CHECK_DEADLOCK FALSE
