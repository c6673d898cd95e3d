------------------------------- MODULE Panel -------------------------------
(***************************************************************************)
(* The panel's own state, in one exploration: the boot and the migrations  *)
(* of the store (StoreMigration), the registry of the servers once it runs *)
(* (Servers), the settings of a server, who may do what on the dashboard,  *)
(* and the Discord bot with its status embeds, what these report, and its  *)
(* slash commands.  They take turns, never steps together: each reads the  *)
(* others' tables but keeps its own memory, so a behaviour follows one of  *)
(* them and leaves the others at their start.                              *)
(***************************************************************************)
EXTENDS StoreMigration

CONSTANTS Rooms, FirstServers, Requests, RequestKinds, Overlap, KeepOne,
          RequestFaults, MaxContexts, MaxRequestFaults,
          Guilds, Channels, Operators, LegacyGuild, BotRaces, BotFaults,
          MaxSessions, MaxBotWrites,
          StatusServers, StatusRaces, StatusFaults, MaxStatusWrites, MaxLoops,
          MaxMessages,
          Bases, Partitions, MaxPlayers, Custom, Drift,
          CommandServers, CommandGuilds, CommandChannels, Users, Roles, Accounts,
          Names, Commands, CommandEdits, CommandRaces, CommandFaults, MaxUses,
          MaxCommandEdits,
          Saves, HandKeys, RawForms, Blank, SettingRaces, SettingFaults,
          MaxSaves, MaxHandEdits,
          Browsers, Members, AccessRoles, AccessUsers, GuildOwner,
          MaxAge, MayClear, AccessRaces, AccessFaults, MaxAccessEdits,
          MaxAccessBoots

None == "none"

VARIABLES part,  \* the one this behaviour follows
          rServers, rOrder, rActive, rContext, rAlias, rProxies, rRows, rMeta,
          rRequest, rFaults,
          bEnabled, bGuilds, bLinked, bSave, bHeld, bBot, bPosted, bApplies,
          bRegistered, bWrites, bStarted, bDisplaced, bExcused,
          eRegistered, eLinks, eSession, ePending, eLoops, eRunning, eStored,
          eMessages, eFailing, eTold, eWrites,
          tServers, tControl, tStats, tSessions, tReport, tStep,
          cLinks, cRoles, cPools, cNames, cBalance, cMember, cLink, cCommand,
          cUses, cEdits, cCredited, cShown,
          sPlane, sDisk, sTorn, sAmp, sDirector, sCached, sRequest, sSaves,
          sEdits, sWant, sWrote, sTouched,
          aUp, aStore, aConfig, aRows, aMatrix, aUsers, aKeyed, aWired,
          aStanding, aCookies, aDoing, aEdits, aBoots, aSeen, aGranted,
          aPromised, aUnread, aWrong

Registry == INSTANCE Servers WITH
    MaxServers <- Rooms, Kinds <- RequestKinds, Faults <- RequestFaults,
    MaxFaults <- MaxRequestFaults,
    servers <- rServers, order <- rOrder, active <- rActive, context <- rContext,
    alias <- rAlias, proxies <- rProxies, rows <- rRows, meta <- rMeta,
    request <- rRequest, faults <- rFaults

Bot == INSTANCE DiscordBot WITH
    Races <- BotRaces, Faults <- BotFaults, MaxWrites <- MaxBotWrites,
    enabled <- bEnabled, guilds <- bGuilds, linked <- bLinked, save <- bSave,
    held <- bHeld, bot <- bBot, posted <- bPosted, applies <- bApplies,
    registered <- bRegistered, writes <- bWrites, started <- bStarted,
    displaced <- bDisplaced, excused <- bExcused

Embeds == INSTANCE StatusEmbeds WITH
    Servers <- StatusServers, Races <- StatusRaces, Faults <- StatusFaults,
    MaxWrites <- MaxStatusWrites,
    registered <- eRegistered, links <- eLinks, session <- eSession,
    pending <- ePending, loops <- eLoops, running <- eRunning, stored <- eStored,
    messages <- eMessages, failing <- eFailing, told <- eTold, writes <- eWrites

Report == INSTANCE StatusReport WITH
    servers <- tServers, control <- tControl, stats <- tStats,
    sessions <- tSessions, report <- tReport, step <- tStep

Slash == INSTANCE DiscordCommands WITH
    Servers <- CommandServers, Guilds <- CommandGuilds, Channels <- CommandChannels,
    Changes <- CommandEdits, Races <- CommandRaces, Faults <- CommandFaults, MaxEdits <- MaxCommandEdits,
    links <- cLinks, roles <- cRoles, pools <- cPools, names <- cNames,
    balance <- cBalance, member <- cMember, link <- cLink, command <- cCommand,
    uses <- cUses, edits <- cEdits, credited <- cCredited, shown <- cShown

Settings == INSTANCE ServerSettings WITH
    Requests <- Saves, Races <- SettingRaces, Faults <- SettingFaults,
    plane <- sPlane, disk <- sDisk, torn <- sTorn, amp <- sAmp,
    director <- sDirector, cached <- sCached, request <- sRequest,
    saves <- sSaves, edits <- sEdits, want <- sWant, wrote <- sWrote,
    touched <- sTouched

Doors == INSTANCE Access WITH
    Roles <- AccessRoles, Users <- AccessUsers, Races <- AccessRaces,
    Faults <- AccessFaults, MaxEdits <- MaxAccessEdits,
    MaxBoots <- MaxAccessBoots, up <- aUp, store <- aStore, config <- aConfig,
    rows <- aRows, matrix <- aMatrix, users <- aUsers, keyed <- aKeyed,
    wired <- aWired, standing <- aStanding, cookies <- aCookies,
    doing <- aDoing, edits <- aEdits, boots <- aBoots, seen <- aSeen,
    granted <- aGranted, promised <- aPromised, unread <- aUnread,
    wrong <- aWrong

rvars == <<rServers, rOrder, rActive, rContext, rAlias, rProxies, rRows, rMeta,
           rRequest, rFaults>>
bvars == <<bEnabled, bGuilds, bLinked, bSave, bHeld, bBot, bPosted, bApplies,
           bRegistered, bWrites, bStarted, bDisplaced, bExcused>>
evars == <<eRegistered, eLinks, eSession, ePending, eLoops, eRunning, eStored,
           eMessages, eFailing, eTold, eWrites>>
tvars == <<tServers, tControl, tStats, tSessions, tReport, tStep>>
cvars == <<cLinks, cRoles, cPools, cNames, cBalance, cMember, cLink, cCommand,
           cUses, cEdits, cCredited, cShown>>
svars == <<sPlane, sDisk, sTorn, sAmp, sDirector, sCached, sRequest, sSaves,
           sEdits, sWant, sWrote, sTouched>>
avars == <<aUp, aStore, aConfig, aRows, aMatrix, aUsers, aKeyed, aWired,
           aStanding, aCookies, aDoing, aEdits, aBoots, aSeen, aGranted,
           aPromised, aUnread, aWrong>>

ReportIdle ==
    /\ tServers = None /\ tControl = None /\ tStats = None
    /\ tSessions = None /\ tReport = None /\ tStep = None

CommandsIdle ==
    /\ cLinks = None /\ cRoles = None /\ cPools = None
    /\ cNames = None /\ cBalance = None /\ cMember = None
    /\ cLink = None /\ cCommand = None /\ cUses = None
    /\ cEdits = None /\ cCredited = None /\ cShown = None

SettingsIdle ==
    /\ sPlane = None /\ sDisk = None /\ sTorn = None
    /\ sAmp = None /\ sDirector = None /\ sCached = None
    /\ sRequest = None /\ sSaves = None /\ sEdits = None
    /\ sWant = None /\ sWrote = None /\ sTouched = None

AccessIdle ==
    /\ aUp = None /\ aStore = None /\ aConfig = None
    /\ aRows = None /\ aMatrix = None /\ aUsers = None
    /\ aKeyed = None /\ aWired = None /\ aStanding = None
    /\ aCookies = None /\ aDoing = None /\ aEdits = None
    /\ aBoots = None /\ aSeen = None /\ aGranted = None
    /\ aPromised = None /\ aUnread = None /\ aWrong = None

ASSUME PanelAssumption ==
    /\ Registry!Bounded /\ Bot!Bounded /\ Embeds!Bounded /\ Report!Bounded
    /\ Slash!Bounded /\ Settings!Bounded /\ Doors!Bounded

\* Two beginnings of one part are not combined with those of another.
PanelInit ==
    /\ part \in {"boot", "registry", "bot", "embeds", "report", "commands",
               "settings", "access"}
    /\ Init /\ (part # "boot" => first = CHOOSE v \in Upgrades : TRUE)
    /\ Registry!Init
    /\ Bot!Init
    /\ Embeds!Init
    /\ IF part = "report" THEN Report!Init ELSE ReportIdle
    /\ IF part = "commands" THEN Slash!Init ELSE CommandsIdle
    /\ IF part = "settings" THEN Settings!Init ELSE SettingsIdle
    /\ IF part = "access" THEN Doors!Init ELSE AccessIdle

PanelNext ==
    \/ /\ part = "boot" /\ Next
       /\ UNCHANGED <<part, rvars, bvars, evars, tvars, cvars, svars, avars>>
    \/ /\ part = "registry" /\ Registry!Next
       /\ UNCHANGED <<part, vars, bvars, evars, tvars, cvars, svars, avars>>
    \/ /\ part = "bot" /\ Bot!Next
       /\ UNCHANGED <<part, vars, rvars, evars, tvars, cvars, svars, avars>>
    \/ /\ part = "embeds" /\ Embeds!Next
       /\ UNCHANGED <<part, vars, rvars, bvars, tvars, cvars, svars, avars>>
    \/ /\ part = "report" /\ Report!Next
       /\ UNCHANGED <<part, vars, rvars, bvars, evars, cvars, svars, avars>>
    \/ /\ part = "commands" /\ Slash!Next
       /\ UNCHANGED <<part, vars, rvars, bvars, evars, tvars, svars, avars>>
    \/ /\ part = "settings" /\ Settings!Next
       /\ UNCHANGED <<part, vars, rvars, bvars, evars, tvars, cvars, avars>>
    \/ /\ part = "access" /\ Doors!Next
       /\ UNCHANGED <<part, vars, rvars, bvars, evars, tvars, cvars, svars>>

PanelSpec == PanelInit /\ [][PanelNext]_<<part, vars, rvars, bvars, evars, tvars, cvars,
                                       svars, avars>>

\* Whatever fails or is cut short on the way, everything of the old store arrives
\* (store_remodel_migration.go); nothing a save, an edit or a first import wrote is
\* lost or undone by a later boot; and the snapshot holds the store as it was before
\* the first change.
StoreKept == MigrationCompletes /\ EditsKept /\ SnapshotPristine

\* Between requests the background workers, which use the process-wide
\* aliases, act on the active server through its present connection; a
\* server has one bot, that of its registered context (server_selector.go);
\* and a restart brings every registered server back and activates the one
\* that is active now (connectMultiServer).
RegistryInStep ==
    Registry!AliasesFollowActive /\ Registry!OneBot /\ Registry!RestartBringsBack

\* When everything under way is over, no gateway session runs but that of the last
\* save, and while one can post every configured guild, and no other, has the bot's
\* commands (discord.go).
BotSound == part = "bot" => Bot!OneBotRuns /\ Bot!CommandsMatchGuilds

\* One loop runs for every server with a status channel, keeps one embed there
\* and tells of a failure once (discord_status.go).
EmbedsSound == part = "embeds" => Embeds!EmbedsSound

\* What an embed reports adds up: its lines are of different places, and their
\* players are all that are online (collectStatusData of discord_status.go).
ReportSound == part = "report" => Report!ReportSound

\* A command acts with the right of its user on the server of its channel, and
\* answers for what it did (handlers_discord.go).
CommandsSound ==
    part = "commands" => Slash!GrantsAnswered /\ Slash!ShowsMine /\ Slash!GrantsJustified

\* What the panel does on Discord: the bot, its embeds and its commands.
DiscordSound == BotSound /\ EmbedsSound /\ CommandsSound

\* A game server's settings are what was last saved, and what the operator
\* wrote by hand stays (handlers_server_settings.go).
SettingsSound == part = "settings" => Settings!SettingsShown /\ Settings!HandKept

\* A request is judged by the matrix last saved and by roles its user had within
\* rolesMaxAge, and what an admin saved - the matrix, the password - stays through
\* restarts and saves of other settings, failing ones included (auth_*.go, handlers_config.go).
AccessSound ==
    part = "access" => Doors!RequestsJudged /\ Doors!MatrixKept /\ Doors!PasswordKept
=============================================================================
