----------------------------- MODULE DiscordBot -----------------------------
(***************************************************************************)
(* The Discord bot's life (discord.go): every save of the settings stops   *)
(* the running bot and starts the next, whose gateway connection is opened, *)
(* watched and closed by goroutines of its own, while requests edit the    *)
(* guilds (handlers_discord_guilds.go) and a worker brings the slash       *)
(* commands registered at Discord in line with them.                       *)
(*                                                                         *)
(* Every access to the shared session, the shared cancel function, the     *)
(* store and Discord is a step of its own.  The commands registered at     *)
(* Discord outlive the process.                                            *)
(***************************************************************************)
EXTENDS Naturals, Sequences, FiniteSets

CONSTANTS Guilds,        \* the Discord guilds
          Operators,     \* settings saves that may be under way at a time
          LegacyGuild,   \* does the configuration name a guild of its own
          Races,         \* what may overlap: "saves", "connect" (a
                         \* connecting bot and an edit or its apply),
                         \* "applies" (run in any order)
          Faults,        \* what may fail: "open", "register", "restart"
          MaxSessions, MaxWrites

\* What the constants have to be.
Bounded == MaxSessions \in Nat /\ MaxWrites \in Nat /\ LegacyGuild \in BOOLEAN

Sessions == 1..MaxSessions
None == 0

VARIABLES enabled,     \* loadedConfig.DiscordBotEnabled
          guilds,      \* the rows of discord_guilds
          linked,      \* is a server linked to a guild (discord_servers)
          save,        \* the settings saves under way
          held,        \* the bot globalDiscordCancel cancels
          bot,         \* the gateway sessions
          posted,      \* globalDiscordSession
          applies,     \* the goroutines of applyDiscordGuildsAsync
          registered,  \* the guilds with commands at Discord
          writes,
          started,     \* did the last save start a bot
          displaced,   \* the bots that posted, and whose session a bot
                       \* stopped before then replaced or cleared
          excused      \* guilds whose commands nobody could bring in line

settings == <<enabled, save, held, started>>
vars == <<enabled, guilds, linked, save, held, bot, posted, applies,
          registered, writes, started, displaced, excused>>

Idle == [pc |-> "idle", bot |-> None]
Unused == [pc |-> "unused", cancelled |-> FALSE, list |-> {}]
Connecting == {"opening", "open", "registering", "posting"}
Ended == {"unused", "closed", "failed"}

Init == /\ enabled = FALSE
        /\ guilds = {} /\ linked = FALSE
        /\ save = [o \in Operators |-> Idle]
        /\ held = None
        /\ bot = [i \in Sessions |-> Unused]
        /\ posted = None
        /\ applies = <<>>
        /\ registered = {}
        /\ writes = 0
        /\ started = FALSE
        /\ displaced = {}
        /\ excused = {}

TypeOK ==
    /\ enabled \in BOOLEAN /\ linked \in BOOLEAN /\ started \in BOOLEAN
    /\ guilds \subseteq Guilds /\ registered \subseteq Guilds /\ excused \subseteq Guilds
    /\ save \in [Operators -> [pc : {"idle", "stop", "start", "hold"}, bot : Sessions \cup {None}]]
    /\ held \in Sessions \cup {None} /\ posted \in Sessions \cup {None}
    /\ displaced \subseteq Sessions
    /\ bot \in [Sessions -> [pc : Connecting \cup Ended \cup {"live", "closing"},
                             cancelled : BOOLEAN, list : SUBSET Guilds]]
    /\ applies \in Seq([pc : {"wait", "register", "clear"}, removed : SUBSET Guilds,
                        list : SUBSET Guilds])
    /\ writes \in 0..MaxWrites

May(race) == race \in Races
Write == writes < MaxWrites /\ writes' = writes + 1

\* A call to Discord reaches every guild of S but those it returns.
Missed(S) == IF "register" \in Faults THEN SUBSET S ELSE {{}}

Tried(S, missed) == excused' = (excused \ S) \cup missed

-----------------------------------------------------------------------------
(* A save of the settings: handleSaveConfig and applyDiscordConfig.        *)

HasConfiguredGuild == LegacyGuild \/ guilds # {} \/ linked

Alone == \A o \in Operators : save[o].pc = "idle"

SaveConfig(o, e) ==
    /\ save[o].pc = "idle" /\ Write
    /\ May("saves") \/ Alone
    /\ enabled' = e
    /\ save' = [save EXCEPT ![o].pc = "stop"]
    /\ UNCHANGED <<guilds, linked, held, bot, posted, applies, registered,
                   started, excused, displaced>>

StopBot(o) ==
    /\ save[o].pc = "stop"
    /\ bot' = IF held = None THEN bot ELSE [bot EXCEPT ![held].cancelled = TRUE]
    /\ held' = None
    /\ save' = [save EXCEPT ![o].pc = "start"]
    /\ UNCHANGED <<enabled, guilds, linked, posted, applies, registered, writes,
                   started, excused, displaced>>

StartBot(o) ==
    /\ save[o].pc = "start"
    /\ May("connect") \/ applies = <<>>
    /\ IF enabled /\ HasConfiguredGuild
       THEN \E i \in Sessions :
              /\ bot[i].pc = "unused"
              /\ \A j \in 1..(i - 1) : bot[j].pc # "unused"
              /\ bot' = [bot EXCEPT ![i].pc = "opening"]
              /\ save' = [save EXCEPT ![o] = [pc |-> "hold", bot |-> i]]
              /\ started' = TRUE
       ELSE /\ save' = [save EXCEPT ![o] = Idle]
            /\ started' = FALSE
            /\ UNCHANGED bot
    /\ UNCHANGED <<enabled, guilds, linked, held, posted, applies, registered,
                   writes, excused, displaced>>

HoldBot(o) ==
    /\ save[o].pc = "hold"
    /\ held' = save[o].bot
    /\ save' = [save EXCEPT ![o] = Idle]
    /\ UNCHANGED <<enabled, guilds, linked, bot, posted, applies, registered,
                   writes, started, excused, displaced>>

-----------------------------------------------------------------------------
(* The goroutine of a bot: discordConnect.                                 *)

Goto(i, pc) == bot' = [bot EXCEPT ![i].pc = pc]

OpenFails(i) ==
    /\ bot[i].pc = "opening" /\ "open" \in Faults
    /\ Goto(i, "failed")
    /\ UNCHANGED <<settings, guilds, linked, posted, applies, registered, writes,
                   excused, displaced>>

Open(i) ==
    /\ bot[i].pc = "opening"
    /\ Goto(i, IF bot[i].cancelled THEN "closed" ELSE "open")
    /\ UNCHANGED <<settings, guilds, linked, posted, applies, registered, writes,
                   excused, displaced>>

ListGuilds(i) ==
    /\ bot[i].pc = "open"
    /\ bot' = [bot EXCEPT ![i].pc = "registering", ![i].list = guilds]
    /\ UNCHANGED <<settings, guilds, linked, posted, applies, registered, writes,
                   excused, displaced>>

RegisterAll(i) ==
    /\ bot[i].pc = "registering"
    /\ \E missed \in Missed(bot[i].list) :
         /\ registered' = registered \cup (bot[i].list \ missed)
         /\ Tried(bot[i].list, missed)
    /\ bot' = [bot EXCEPT ![i].pc = "posting", ![i].list = {}]
    /\ UNCHANGED <<settings, guilds, linked, posted, applies, writes, displaced>>

\* The shared session becomes s; what another bot had posted there is lost.
SetSession(i, s) ==
    /\ posted' = s
    /\ displaced' = displaced \cup ({posted} \ {i, None})

Post(i) ==
    /\ bot[i].pc = "posting"
    /\ SetSession(i, i)
    /\ Goto(i, "live")
    /\ UNCHANGED <<settings, guilds, linked, applies, registered, writes, excused>>

CloseSession(i) ==
    /\ bot[i].pc = "live" /\ bot[i].cancelled
    /\ Goto(i, "closing")
    /\ UNCHANGED <<settings, guilds, linked, posted, applies, registered, writes,
                   excused, displaced>>

\* The watcher clears the shared session, whoever's it is by now.
ClearPosted(i) ==
    /\ bot[i].pc = "closing"
    /\ SetSession(i, None)
    /\ Goto(i, "closed")
    /\ UNCHANGED <<settings, guilds, linked, applies, registered, writes, excused>>

-----------------------------------------------------------------------------
(* The edits of the guilds and of the servers' links.                      *)

Editable == May("connect") \/ \A i \in Sessions : bot[i].pc \notin Connecting

Apply(removed) ==
    applies' = Append(applies, [pc |-> "wait", removed |-> removed, list |-> {}])

UpsertGuild(g) ==
    /\ Write /\ Editable
    /\ guilds' = guilds \cup {g}
    /\ Apply({})
    /\ UNCHANGED <<settings, linked, bot, posted, registered, excused, displaced>>

DeleteGuild(g) ==
    /\ g \in guilds /\ Write /\ Editable
    /\ guilds' = guilds \ {g}
    /\ Apply({g})
    /\ UNCHANGED <<settings, linked, bot, posted, registered, excused, displaced>>

LinkServer(l) ==
    /\ Write /\ Editable
    /\ linked' = l
    /\ Apply({})
    /\ UNCHANGED <<settings, guilds, bot, posted, registered, excused, displaced>>

Without(q, i) == SubSeq(q, 1, i - 1) \o SubSeq(q, i + 1, Len(q))

Waiting(k) == /\ k \in DOMAIN applies
              /\ \A j \in DOMAIN applies : applies[j].pc = "wait"
              /\ May("applies") \/ k = 1

\* Without a session nothing is registered and nothing cleared.
SkipApply(k) ==
    /\ Waiting(k) /\ posted = None
    /\ applies' = Without(applies, k)
    /\ excused' = excused \cup (applies[k].removed \cap registered)
    /\ UNCHANGED <<settings, guilds, linked, bot, posted, registered, writes,
                   displaced>>

BeginApply(k) ==
    /\ Waiting(k) /\ posted # None
    /\ applies' = [applies EXCEPT ![k].pc = "register", ![k].list = guilds]
    /\ UNCHANGED <<settings, guilds, linked, bot, posted, registered, writes,
                   excused, displaced>>

RegisterApply(k) ==
    /\ k \in DOMAIN applies /\ applies[k].pc = "register"
    /\ \E missed \in Missed(applies[k].list) :
         /\ registered' = registered \cup (applies[k].list \ missed)
         /\ Tried(applies[k].list, missed)
    /\ applies' = [applies EXCEPT ![k].pc = "clear", ![k].list = {}]
    /\ UNCHANGED <<settings, guilds, linked, bot, posted, writes, displaced>>

ClearRemoved(k) ==
    /\ k \in DOMAIN applies /\ applies[k].pc = "clear"
    /\ \E missed \in Missed(applies[k].removed) :
         /\ registered' = registered \ (applies[k].removed \ missed)
         /\ Tried(applies[k].removed, missed)
    /\ applies' = Without(applies, k)
    /\ UNCHANGED <<settings, guilds, linked, bot, posted, writes, displaced>>

-----------------------------------------------------------------------------
\* The process is gone, the gateway drops its sessions, and the next process
\* applies the stored settings.
Restart(o) ==
    /\ "restart" \in Faults /\ Write
    /\ bot' = [i \in Sessions |-> IF bot[i].pc = "unused" THEN Unused
                                  ELSE [Unused EXCEPT !.pc = "closed"]]
    /\ save' = [[p \in Operators |-> Idle] EXCEPT ![o].pc = "stop"]
    /\ held' = None /\ posted' = None
    /\ applies' = <<>>
    /\ excused' = excused \cup UNION {applies[k].removed : k \in DOMAIN applies}
    /\ UNCHANGED <<enabled, guilds, linked, registered, started, displaced>>

BotStep(i) ==
    \/ OpenFails(i) \/ Open(i) \/ ListGuilds(i) \/ RegisterAll(i)
    \/ Post(i) \/ CloseSession(i) \/ ClearPosted(i)

SaveStep(o) ==
    \/ \E e \in BOOLEAN : SaveConfig(o, e)
    \/ StopBot(o) \/ StartBot(o) \/ HoldBot(o) \/ Restart(o)

GuildStep ==
    \/ \E g \in Guilds : UpsertGuild(g) \/ DeleteGuild(g)
    \/ \E l \in BOOLEAN : LinkServer(l)
    \/ \E k \in DOMAIN applies :
         SkipApply(k) \/ BeginApply(k) \/ RegisterApply(k) \/ ClearRemoved(k)

Next == \/ \E o \in Operators : SaveStep(o)
        \/ \E i \in Sessions : BotStep(i)
        \/ GuildStep

Spec == Init /\ [][Next]_vars

-----------------------------------------------------------------------------
Settled == /\ Alone
           /\ applies = <<>>
           /\ \A i \in Sessions : bot[i].pc \in Ended \/ (bot[i].pc = "live" /\ ~bot[i].cancelled)

\* When everything under way is over, at most the bot of the last save runs:
\* it is the one the next save would stop and the only one that can post, and it
\* runs only if the last save started one.  It can post unless a bot that was
\* stopped before closed only after this one had connected, and took its session
\* away (applyDiscordConfig, discordConnect and discordShutdownWatcher of
\* discord.go).
OneBotRuns ==
    Settled =>
      LET live == {i \in Sessions : bot[i].pc = "live"}
      IN  /\ posted # None => live = {posted}
          /\ \A i \in live : i = held /\ started /\ (posted = i \/ i \in displaced)

\* When everything under way is over and the bot is connected, the guilds with
\* commands are the configured ones, but for those a call to Discord failed
\* for and those removed while no bot was connected (applyDiscordGuilds,
\* registerAllGuildCommands and clearGuildCommands of discord.go).
CommandsMatchGuilds ==
    Settled /\ posted # None => (registered \ guilds) \cup (guilds \ registered) \subseteq excused
=============================================================================
