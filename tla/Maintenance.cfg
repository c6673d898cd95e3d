SPECIFICATION FairSpec
CONSTANTS
    Requests = {r1}
    Kinds = {"backup", "delete", "put", "restore", "announce", "cancel", "update", "start", "stop", "restart"}
    KeepN = 1
    Grace = 1
    Cap = 3
    CanStop = TRUE
    OtherTasks = FALSE
    Overlap = {}
    Faults = {"dump", "silent", "stop", "restore", "broadcast", "tasks"}
    FirstDumps = 0
    MaxDumps = 3
    MaxOccurrences = 1
    MaxTimers = 3
    MaxUpdates = 1
    MaxVerbs = 2
    MaxFaults = 2
    MaxBegun = 3
    r1 = r1
 
INVARIANT RestoreSound
INVARIANT CountdownSound
PROPERTY UpdateHandled
CHECK_DEADLOCK FALSE
