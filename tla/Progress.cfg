SPECIFICATION Spec
CONSTANTS
    Requests = {r1}
    r1 = r1
    Kinds = {"awardXP", "awardIntel", "setIntel", "grantKeys", "resetKeys", "awardTrack", "maxTrack", "resetTrack", "resetAll", "grantJob", "resetJob", "starter", "complete", "reset", "wipe", "unlock", "relock", "contract", "reverse", "rep", "tier", "fetch"}
    Races = {}
    Faults = {}
    Jobs = {j1, j2}
    j1 = j1
    j2 = j2
    Stones = {k1}
    k1 = k1
    PointStones = {k1}
    Deltas = {1}
    Losses = {}
    None = None
    MaxXP = 3
    MaxIntel = 5
    MaxTrack = 2
    MaxSpent = 2
    MaxAsked = 2
    MaxPlayed = 2
    Nodes <- NodesMC
    Tags <- TagsMC
    Below <- BelowMC
    TagsOf <- TagsOfMC
    ContractTags = {"Contract", "Tier"}
    ContractBlocks <- ContractBlocksMC
    PresetNodes = {quest, step}
    PresetTags <- PresetTagsMC
    VisionNodes = {quest}
    TierTags = {"Tier"}
    TierRep = 2
    RepCap = 3
    quest = quest
    step = step
    errand = errand
    Sharing = {}
INVARIANT SheetSound
INVARIANT JourneysSound
PROPERTY SkillsHandled
CHECK_DEADLOCK FALSE
