-------------------------- MODULE DiscordCommands --------------------------
(***************************************************************************)
(* The slash commands (handlers_discord.go, discord.go): the channel picks *)
(* the game server and its guild, the guild's roles decide who may run the *)
(* command, and the command acts on that server's players, looked up by a  *)
(* part of their name.  Links, roles, registrations and players change     *)
(* between any two of a command's reads.                                   *)
(*                                                                         *)
(* A registration holds the character's name, by which the self-service    *)
(* commands look it up again, and its account.                             *)
(***************************************************************************)
EXTENDS Integers, FiniteSets, FiniteSetsExt, Functions

CONSTANTS Servers, Guilds, Channels, Users, Roles, Accounts,
          Names,      \* a name is the set of its parts
          Commands,   \* the commands that are used
          Changes,      \* what changes: "link", "roles", "player", "outage"
          Races,      \* "command": it may change under a command
          Faults,     \* what may fail: "lookup", "adjust", "balance", "register"
          MaxUses, MaxEdits

NoOne == 0
Administrator == "ADMINISTRATOR"
NoGuild == "none"
NoName == {}

\* What the constants have to be.
Bounded == /\ MaxUses \in Nat /\ MaxEdits \in Nat /\ IsFiniteSet(Users) /\ IsFiniteSet(Accounts)
           /\ Accounts \subseteq Nat \ {0} /\ NoName \notin Names

VARIABLES links,       \* discord_servers: guild and channels of each server
          roles,       \* discord_guilds: the roles of each tier
          pools,       \* the servers that are connected
          names,       \* each server's characters
          balance,     \* what each was given
          member,      \* each user's roles, and perhaps the Administrator bit
          link,        \* discord_user_links
          command,     \* the command each user has under way
          uses, edits,
          credited,    \* what the users were told was granted
          shown        \* the account each user's last self-service reply was about

store == <<links, roles, link>>
world == <<pools, names, member>>
vars == <<links, roles, pools, names, balance, member, link, command, uses,
          edits, credited, shown>>

Tiers == 0..3
tierViewer == 1
tierEconomy == 2
tierAdmin == 3

NoLink == [guild |-> NoGuild, announce |-> NoOne, status |-> NoOne]
NoRoles == [viewer |-> {}, economy |-> {}, admin |-> {}, configured |-> FALSE]
NoCharacter == [account |-> NoOne, name |-> NoName]
Idle == [pc |-> "idle", name |-> "none", part |-> NoName, server |-> NoOne,
         guild |-> NoGuild, target |-> NoOne]

Init == /\ links = [s \in Servers |->
                      [guild |-> CHOOSE g \in Guilds : TRUE, announce |-> s, status |-> s]]
        /\ roles = [g \in Guilds |->
                      [viewer |-> Roles, economy |-> {CHOOSE r \in Roles : TRUE},
                       admin |-> {}, configured |-> TRUE]]
        /\ pools = Servers
        /\ names \in {[s \in Servers |-> f] : f \in Injection(Accounts, Names)}
        /\ balance = [s \in Servers |-> [a \in Accounts |-> 0]]
        /\ member \in [Users -> {{}, {Administrator}} \cup {{r} : r \in Roles}]
        /\ link = [u \in Users |-> [s \in Servers |-> NoCharacter]]
        /\ command = [u \in Users |-> Idle]
        /\ uses = 0 /\ edits = 0
        /\ credited = [s \in Servers |-> [a \in Accounts |-> 0]]
        /\ shown = [u \in Users |-> [server |-> NoOne, account |-> NoOne, registered |-> NoOne]]

-----------------------------------------------------------------------------
(* Who may do what.                                                        *)

SelfService == {"mystats", "mybalance", "myinventory"}
CommandTier(c) ==
    IF c \in {"status", "lookup", "register", "unregister"} \cup SelfService THEN tierViewer
    ELSE IF c = "give-currency" THEN tierEconomy ELSE tierAdmin

MemberTier(u, r) ==
    Max({0} \cup {t \in 1..3 : member[u] \cap
                    (CASE t = tierViewer -> r.viewer
                       [] t = tierEconomy -> r.economy
                       [] t = tierAdmin -> r.admin) # {}})

Authorized(u, c, r) == Administrator \in member[u] \/ MemberTier(u, r) >= CommandTier(c)

\* The characters a search finds, in the order of their actors.
Found(s, part) == {a \in Accounts : names[s][a] # NoName /\ part \subseteq names[s][a]}

-----------------------------------------------------------------------------
(* A command, from the channel to the reply.                               *)

At(u, pc) == command[u].pc = pc
Set(u, c) == command' = [command EXCEPT ![u] = c]
Reply(u) == Set(u, Idle)
Goto(u, pc) == Set(u, [command[u] EXCEPT !.pc = pc])
Fails(f) == f \in Faults

Named == {"lookup", "give-currency", "register"}

\* serverForChannel: any one of the servers that claim the channel.
Invoke(u, c, part, channel) ==
    /\ At(u, "idle") /\ uses < MaxUses
    /\ c \in Named \/ part = NoName
    /\ uses' = uses + 1
    /\ LET owners == {s \in Servers : links[s].guild # NoGuild
                                      /\ channel \in {links[s].announce, links[s].status}}
       IN  /\ owners # {}
           /\ \E s \in owners :
                Set(u, [pc |-> "authorize", name |-> c, part |-> part, server |-> s,
                        guild |-> links[s].guild, target |-> NoOne])
    /\ UNCHANGED <<store, world, balance, edits, credited, shown>>

NoServer(u, channel) ==
    /\ At(u, "idle") /\ uses < MaxUses
    /\ \A s \in Servers : channel \notin {links[s].announce, links[s].status}
    /\ uses' = uses + 1
    /\ UNCHANGED <<store, world, balance, command, edits, credited, shown>>

Authorize(u) ==
    LET c == command[u]
    IN  /\ At(u, "authorize")
        /\ IF /\ roles[c.guild].configured /\ c.server \in pools
              /\ Authorized(u, c.name, roles[c.guild])
           THEN Goto(u, CASE c.name = "unregister" -> "act"
                          [] c.name = "status" -> "act"
                          [] c.name \in SelfService -> "link"
                          [] OTHER -> "lookup")
           ELSE Reply(u)
        /\ UNCHANGED <<store, world, balance, uses, edits, credited, shown>>

\* The name the user registered on the server is what is looked up.
ReadLink(u) ==
    LET r == link[u][command[u].server]
    IN  /\ At(u, "link")
        /\ IF r.account = NoOne THEN Reply(u)
           ELSE Set(u, [command[u] EXCEPT !.pc = "lookup", !.part = r.name])
        /\ UNCHANGED <<store, world, balance, uses, edits, credited, shown>>

\* Bug: a name several characters have is taken for the first of them.
FirstOf(c, found) == Min(found)

\* A grant and a registration want exactly one character; the self-service
\* commands take the first.
Chosen(c, found) ==
    IF Cardinality(found) = 1 \/ c \in SelfService THEN Min(found) ELSE NoOne

Lookup(u) ==
    LET c == command[u]
        found == Found(c.server, c.part)
        a == Chosen(c.name, found)
    IN  /\ At(u, "lookup")
        /\ c.part # NoName /\ c.server \in pools
        /\ IF found = {} \/ c.name = "lookup" \/ a = NoOne THEN Reply(u)
           ELSE Set(u, [c EXCEPT !.pc = "act", !.target = a, !.part = names[c.server][a]])
        /\ UNCHANGED <<store, world, balance, uses, edits, credited, shown>>

LookupFails(u) ==
    /\ At(u, "lookup")
    /\ Fails("lookup") \/ command[u].part = NoName \/ command[u].server \notin pools
    /\ Reply(u)
    /\ UNCHANGED <<store, world, balance, uses, edits, credited, shown>>

Status(u) ==
    /\ At(u, "act") /\ command[u].name = "status"
    /\ Reply(u)
    /\ UNCHANGED <<store, world, balance, uses, edits, credited, shown>>

\* The adjustment and the read of the new balance are two statements; the
\* reply tells of a grant only when both went through.
Credit(u) ==
    LET c == command[u]
    IN  /\ At(u, "act") /\ c.name = "give-currency" /\ c.server \in pools
        /\ balance' = [balance EXCEPT ![c.server][c.target] = @ + 1]
        /\ Goto(u, "told")
        /\ UNCHANGED <<store, world, uses, edits, credited, shown>>

DatabaseFails(u) ==
    /\ At(u, "act") /\ command[u].name \in {"give-currency", "mybalance", "myinventory"}
    /\ Fails("adjust") \/ command[u].server \notin pools
    /\ Reply(u)
    /\ UNCHANGED <<store, world, balance, uses, edits, credited, shown>>

TellCredit(u) ==
    LET c == command[u]
    IN  /\ At(u, "told")
        /\ \/ credited' = [credited EXCEPT ![c.server][c.target] = @ + 1]
           \/ Fails("balance") /\ UNCHANGED credited
        /\ Reply(u)
        /\ UNCHANGED <<store, world, balance, uses, edits, shown>>

\* One character per user and server: a new registration replaces the old.
RegisterLink(u) ==
    LET c == command[u]
    IN  /\ At(u, "act") /\ c.name = "register"
        /\ link' = [link EXCEPT ![u][c.server] = [account |-> c.target, name |-> c.part]]
        /\ Reply(u)
        /\ UNCHANGED <<links, roles, world, balance, uses, edits, credited, shown>>

StoreFails(u) ==
    /\ \/ At(u, "act") /\ command[u].name \in {"register", "unregister"}
       \/ At(u, "link")
    /\ Fails("register")
    /\ Reply(u)
    /\ UNCHANGED <<store, world, balance, uses, edits, credited, shown>>

Unregister(u) ==
    /\ At(u, "act") /\ command[u].name = "unregister"
    /\ link' = [link EXCEPT ![u][command[u].server] = NoCharacter]
    /\ Reply(u)
    /\ UNCHANGED <<links, roles, world, balance, uses, edits, credited, shown>>

ShowMine(u) ==
    LET c == command[u]
    IN  /\ At(u, "act") /\ c.name \in SelfService
        /\ c.name = "mystats" \/ c.server \in pools
        /\ shown' = [shown EXCEPT ![u] = [server |-> c.server, account |-> c.target,
                                          registered |-> link[u][c.server].account]]
        /\ Reply(u)
        /\ UNCHANGED <<store, world, balance, uses, edits, credited>>

-----------------------------------------------------------------------------
(* What changes meanwhile.                                                 *)

Edit(e) == /\ e \in Changes /\ edits < MaxEdits
           /\ e # "outage" /\ "command" \notin Races => \A u \in Users : At(u, "idle")
           /\ edits' = edits + 1

RelinkServer(s, g, channel) ==
    /\ Edit("link")
    /\ links' = [links EXCEPT ![s] = [guild |-> g, announce |-> channel, status |-> channel]]
    /\ UNCHANGED <<roles, link, world, balance, command, uses, credited, shown>>

\* A server that is deleted takes its link and its registrations with it.
DropServer(s) ==
    /\ Edit("link") /\ pools' = pools \ {s}
    /\ links' = [links EXCEPT ![s] = NoLink]
    /\ link' = [u \in Users |-> [link[u] EXCEPT ![s] = NoCharacter]]
    /\ UNCHANGED <<roles, names, member, balance, command, uses, credited, shown>>

SetRoles(g, economy) ==
    /\ Edit("roles")
    /\ roles' = [roles EXCEPT ![g] = [viewer |-> Roles, economy |-> economy, admin |-> {},
                                      configured |-> TRUE]]
    /\ UNCHANGED <<links, link, world, balance, command, uses, credited, shown>>

DeleteGuild(g) ==
    /\ Edit("roles")
    /\ roles' = [roles EXCEPT ![g] = NoRoles]
    /\ UNCHANGED <<links, link, world, balance, command, uses, credited, shown>>

\* The game renames or drops a character, or it is given a free name.
ChangePlayer(s, a, n) ==
    /\ Edit("player") /\ names[s][a] # n
    /\ n = NoName \/ \A b \in Accounts : names[s][b] # n
    /\ names' = [names EXCEPT ![s][a] = n]
    /\ UNCHANGED <<store, pools, member, balance, command, uses, credited, shown>>

Outage(s) ==
    /\ Edit("outage")
    /\ pools' = IF s \in pools THEN pools \ {s} ELSE pools \cup {s}
    /\ UNCHANGED <<store, names, member, balance, command, uses, credited, shown>>

Change == \/ \E s \in Servers, g \in Guilds, ch \in Channels : RelinkServer(s, g, ch)
          \/ \E s \in Servers : DropServer(s) \/ Outage(s)
          \/ \E g \in Guilds : (\E e \in SUBSET Roles : SetRoles(g, e)) \/ DeleteGuild(g)
          \/ \E s \in Servers, a \in Accounts, n \in Names \cup {NoName} : ChangePlayer(s, a, n)

Use(u) == \/ \E c \in Commands, n \in Names \cup {NoName}, ch \in Channels : Invoke(u, c, n, ch)
          \/ \E ch \in Channels : NoServer(u, ch)
          \/ Authorize(u) \/ ReadLink(u) \/ Lookup(u) \/ LookupFails(u)
          \/ Status(u) \/ Credit(u) \/ DatabaseFails(u) \/ TellCredit(u)
          \/ RegisterLink(u) \/ StoreFails(u) \/ Unregister(u) \/ ShowMine(u)

Next == Change \/ \E u \in Users : Use(u)

Spec == Init /\ [][Next]_vars

-----------------------------------------------------------------------------
\* What players were given through Discord is what the users were told of: no
\* answer of a failed grant hides one that went through, but while the reply
\* is on its way (handleDiscordGiveCurrency and cmdGiveCurrencyCtx).
GrantsAnswered ==
    \A s \in Servers, a \in Accounts :
      balance[s][a] = credited[s][a]
        + Cardinality({u \in Users : At(u, "told") /\ command[u].server = s
                                     /\ command[u].target = a})

\* A self-service reply is about the character the user registered on the
\* channel's server (discordResolvePlayer).
ShowsMine ==
    \A u \in Users : shown[u].registered # NoOne => shown[u].account = shown[u].registered

\* A grant under way is for a user whose role allows it and, of the server the
\* channel belongs to, for the one character the name finds: while nobody edits
\* roles, links or players (dispatchDiscordCommand, handleDiscordGiveCurrency).
GrantsJustified ==
    \A u \in Users :
      At(u, "act") /\ command[u].name = "give-currency" =>
        LET c == command[u]
        IN  /\ c.guild = links[c.server].guild
            /\ MemberTier(u, roles[c.guild]) >= tierEconomy \/ Administrator \in member[u]
            /\ Found(c.server, c.part) = {c.target}
=============================================================================
