SPECIFICATION PanelSpec
CONSTANTS
    Upgrades = {"fresh", "flat", "scoped", "files"}
    Seeds = 1
    FileRows = {1}
    ScopedRows = {1, 2}
    CatalogRows = {0}
    Kinds = {"welcome", "permissions", "backup", "links", "unregister", "settings", "add", "remove"}
    Faults = {"tear", "open", "copy", "import", "convert", "decompose", "single", "drop", "links", "linkmark"}
    MaxServers = 3
    MaxBoots = 4
    MaxFaults = 1
    MaxEdits = 1
    Rooms = 3
    FirstServers = 2
    Requests = {r1, r2}
    RequestKinds = {"add", "edit", "reconnect", "activate", "delete"}
    Overlap = FALSE
    KeepOne = TRUE
    RequestFaults = {"connect", "row", "crash"}
    MaxContexts = 4
    MaxRequestFaults = 1
    Guilds = {g1, g2}
    Channels = {c1, c2}
    Operators = {o1, o2}
    LegacyGuild = FALSE
    BotRaces = {}
    BotFaults = {"open", "register", "restart"}
    MaxSessions = 3
    MaxBotWrites = 4
    StatusServers = {s1}
    StatusRaces = {}
    StatusFaults = {"edit", "send", "restart"}
    MaxStatusWrites = 4
    MaxLoops = 4
    MaxMessages = 3
    Bases = {"hagga", "arrakeen"}
    Partitions = {1, 2, 3}
    MaxPlayers = 1
    Custom = FALSE
    Drift = FALSE
    CommandServers = {1, 2}
    CommandGuilds = {g1}
    CommandChannels = {1, 2}
    Users = {u1}
    Roles = {r1, r2}
    Accounts = {1, 2}
    Names = {{"ann"}, {"ann", "bo"}}
    Commands = {"give-currency", "register", "unregister", "mybalance", "status", "lookup"}
    CommandEdits = {"link", "roles", "player", "outage"}
    CommandRaces = {}
    CommandFaults = {"lookup", "adjust", "register"}
    MaxUses = 2
    MaxCommandEdits = 1
    Saves = {r1}
    HandKeys = {"port", "fog"}
    RawForms = {}
    Blank = FALSE
    SettingRaces = {}
    SettingFaults = {"write", "api"}
    MaxSaves = 2
    MaxHandEdits = 1
    Browsers = {b1, b2}
    Members = {m1}
    AccessRoles = {"mod"}
    AccessUsers = {"u1"}
    GuildOwner = "nobody"
    MaxAge = 2
    MayClear = FALSE
    AccessRaces = {}
    AccessFaults = {"member", "load", "persist"}
    MaxAccessEdits = 2
    MaxAccessBoots = 1
INVARIANT StoreKept
INVARIANT RegistryInStep
INVARIANT DiscordSound
INVARIANT ReportSound
INVARIANT SettingsSound
INVARIANT AccessSound
CHECK_DEADLOCK FALSE
