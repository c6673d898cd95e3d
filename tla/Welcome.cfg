SPECIFICATION FairSpec
CONSTANTS
    Servers = {s1}
    Default = s1
    Accounts = {a1}
    NoFls = {}
    Versions = {v1}
    Broken = {}
    FirstActive = {v1}
    FirstOn = {"enabled", "message", "presence"}
    Scanner = sch
    Requests = {r1}
    Kinds = {"run", "override", "retry", "revoke", "put", "get"}
    Edits = {"presence"}
    Overlap = {}
    Faults = {"list", "check", "give", "record", "save", "load", "crash"}
    MaxFaults = 1
    MaxActs = 1
    s1 = s1
    a1 = a1
    v1 = v1
    sch = sch
    r1 = r1
INVARIANT NoticedOncePerVisit
PROPERTY GrantsKept
PROPERTY Settled
