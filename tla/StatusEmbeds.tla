---------------------------- MODULE StatusEmbeds ----------------------------
(***************************************************************************)
(* The status embeds (discord_status.go): one loop per linked server posts *)
(* an embed to the server's status channel and edits it in place at every  *)
(* tick.  The loops are stopped and started again by every save of the     *)
(* settings and every edit of a link, and a tick makes up to two calls to  *)
(* Discord between two accesses to the store, where the id of the posted   *)
(* message is kept per server and guild.                                   *)
(*                                                                         *)
(* What the embed shows is StatusReport's subject.                         *)
(***************************************************************************)
EXTENDS Naturals, Sequences, FiniteSets

CONSTANTS Servers, Guilds, Channels,
          Races,       \* what may overlap: "tick" (a tick and a restart of
                       \* the loops), "connect" (an edit before the bot is on)
          Faults,      \* what may fail: "load", "edit", "send", "save",
                       \* "crash", or "restart": but between a post and its save
          MaxWrites, MaxLoops, MaxMessages

\* What the constants have to be.
Bounded == /\ MaxWrites \in Nat /\ MaxLoops \in Nat /\ MaxMessages \in Nat
           /\ IsFiniteSet(Servers)

None == 0
NoLink == [guild |-> CHOOSE g \in Guilds : TRUE, channel |-> CHOOSE c \in Channels : TRUE,
           status |-> FALSE]
Link == [guild : Guilds, channel : Channels, status : BOOLEAN]

VARIABLES registered,  \* the servers table
          links,       \* discord_servers; NoLink stands for no row
          session,     \* "off", "starting" (a save has started the bot), "on"
          pending,     \* an edit's applyDiscordGuilds has yet to run
          loops,       \* the goroutines of the loops, in the order of their start
          running,     \* statusLoopCancels
          stored,      \* server_discord_status: the id of a message, or None
          messages,    \* the embeds posted so far
          failing,     \* statusPostFailed
          told,        \* the channel the log last named as failing
          writes

vars == <<registered, links, session, pending, loops, running, stored,
          messages, failing, told, writes>>

Loop == [server : Servers, link : Link, cancelled : BOOLEAN,
         pc : {"wait", "edit", "send", "save"}, message : Nat, failed : BOOLEAN]
Message == [server : Servers, guild : Guilds, channel : Channels,
            deleted : BOOLEAN, left : BOOLEAN]  \* left: for another channel

Init == /\ registered = Servers
        /\ links = [s \in Servers |-> NoLink]
        /\ session = "off"
        /\ pending = FALSE
        /\ loops = <<>>
        /\ running = [s \in Servers |-> None]
        /\ stored = [s \in Servers |-> [g \in Guilds |-> None]]
        /\ messages = <<>>
        /\ failing = [s \in Servers |-> FALSE]
        /\ told = [s \in Servers |-> {}]
        /\ writes = 0

TypeOK ==
    /\ registered \subseteq Servers
    /\ links \in [Servers -> Link]
    /\ session \in {"off", "starting", "on"} /\ pending \in BOOLEAN
    /\ loops \in Seq(Loop) /\ Len(loops) <= MaxLoops
    /\ running \in [Servers -> 0..Len(loops)]
    /\ stored \in [Servers -> [Guilds -> 0..Len(messages)]]
    /\ messages \in Seq(Message) /\ Len(messages) <= MaxMessages
    /\ failing \in [Servers -> BOOLEAN]
    /\ told \in [Servers -> SUBSET Channels]
    /\ writes \in 0..MaxWrites

Write == writes < MaxWrites /\ writes' = writes + 1
May(race) == race \in Races

-----------------------------------------------------------------------------
(* Starting and stopping the loops: applyDiscordStatusLoops.               *)

Wanted == {s \in registered : links[s].status}
Running == {l \in DOMAIN loops : \E s \in Servers : running[s] = l}
Ticking == \E l \in DOMAIN loops : loops[l].pc # "wait"
Quiet == May("tick") \/ ~Ticking

Stopped == [l \in DOMAIN loops |-> IF l \in Running THEN [loops[l] EXCEPT !.cancelled = TRUE]
                                   ELSE loops[l]]

\* The servers of S in some order, and each one's place in it.
Started(S, order) ==
    [i \in 1..Cardinality(S) |->
       LET s == CHOOSE t \in S : order[t] = i
       IN  [server |-> s, link |-> links[s], cancelled |-> FALSE, pc |-> "wait",
            message |-> None, failed |-> FALSE]]
Orders(S) == {f \in [S -> 1..Cardinality(S)] : \A s, t \in S : f[s] = f[t] => s = t}

RearmLog(S) == failing' = [s \in Servers |-> failing[s] /\ s \notin S]

RestartLoops ==
    LET order == CHOOSE f \in Orders(Wanted) : TRUE
    IN  /\ Quiet
        /\ Len(loops) + Cardinality(Wanted) <= MaxLoops
        /\ loops' = Stopped \o Started(Wanted, order)
        /\ running' = [s \in Servers |-> IF s \in Wanted THEN Len(loops) + order[s] ELSE None]
        /\ RearmLog(Wanted)

\* A save of the settings restarts the loops and the bot; one that leaves the
\* bot off restarts them all the same.
SaveConfig(on) ==
    /\ Write /\ ~pending
    /\ RestartLoops
    /\ session' = IF on THEN "starting" ELSE "off"
    /\ UNCHANGED <<registered, links, pending, stored, messages, told>>

BotConnects ==
    /\ session = "starting"
    /\ May("connect") \/ ~pending
    /\ session' = "on"
    /\ UNCHANGED <<registered, links, pending, loops, running, stored, messages,
                   failing, told, writes>>

EditLink(s, link) ==
    /\ s \in registered /\ Write /\ link # links[s]
    /\ May("connect") \/ session # "starting"
    /\ links' = [links EXCEPT ![s] = link]
    /\ pending' = TRUE
    /\ UNCHANGED <<registered, session, loops, running, stored, messages,
                   failing, told>>

\* applyDiscordGuilds: without a session the loops are left as they are.
ApplyEdit ==
    /\ pending /\ pending' = FALSE
    /\ IF session = "on" THEN RestartLoops ELSE UNCHANGED <<loops, running, failing>>
    /\ UNCHANGED <<registered, links, session, stored, messages, told, writes>>

\* The rows of a deleted server go with it, and the loops follow at once.
DeleteServer(s) ==
    /\ s \in registered /\ Write /\ Quiet
    /\ registered' = registered \ {s}
    /\ links' = [links EXCEPT ![s] = NoLink]
    /\ stored' = [stored EXCEPT ![s] = [g \in Guilds |-> None]]
    /\ LET left == Wanted \ {s}
           order == CHOOSE f \in Orders(left) : TRUE
       IN  /\ Len(loops) + Cardinality(left) <= MaxLoops
           /\ loops' = Stopped \o Started(left, order)
           /\ running' = [t \in Servers |-> IF t \in left THEN Len(loops) + order[t] ELSE None]
           /\ RearmLog(left)
    /\ UNCHANGED <<session, pending, messages, told>>

-----------------------------------------------------------------------------
(* A tick: runStatusTickForServer and postOrEditStatusEmbed.               *)

Set(l, changes) == loops' = [loops EXCEPT ![l] = changes]
At(l, pc) == loops[l].pc = pc
Fails(f) == f \in Faults

\* nextStatusLogAction warns of the first failure, notes a recovery and is
\* silent in between.
Log(l, failed) ==
    LET s == loops[l].server
    IN  /\ failing' = [failing EXCEPT ![s] = failed]
        /\ told' = [told EXCEPT ![s] =
                      IF failed /\ ~failing[s] THEN {loops[l].link.channel}
                      ELSE IF ~failed /\ failing[s] THEN {} ELSE @]
        /\ Set(l, [loops[l] EXCEPT !.pc = "wait", !.message = None, !.failed = failed])

\* A cancelled loop whose ticker is due as well may take one more tick.
Begin(l) ==
    /\ At(l, "wait") /\ session = "on"
    /\ ~loops[l].cancelled \/ May("tick")
    /\ \E error \in {FALSE, Fails("load")} :
         LET id == IF error THEN None ELSE stored[loops[l].server][loops[l].link.guild]
             edits == id # None /\ messages[id].channel = loops[l].link.channel
         IN  Set(l, [loops[l] EXCEPT !.pc = IF edits THEN "edit" ELSE "send", !.message = id])
    /\ UNCHANGED <<registered, links, session, pending, running, stored,
                   messages, failing, told, writes>>

Exists(id) == ~messages[id].deleted

EditEmbed(l) ==
    /\ At(l, "edit") /\ Exists(loops[l].message)
    /\ Log(l, FALSE)
    /\ UNCHANGED <<registered, links, session, pending, running, stored,
                   messages, writes>>

EditRefused(l) ==
    /\ At(l, "edit") /\ Fails("edit")
    /\ Log(l, TRUE)
    /\ UNCHANGED <<registered, links, session, pending, running, stored,
                   messages, writes>>

EditUnknown(l) ==
    /\ At(l, "edit") /\ ~Exists(loops[l].message)
    /\ Set(l, [loops[l] EXCEPT !.pc = "send"])
    /\ UNCHANGED <<registered, links, session, pending, running, stored,
                   messages, failing, told, writes>>

\* The embed in the other channel, if that is where the stored one is, stays
\* there and is no longer edited.
SendEmbed(l) ==
    LET k == loops[l]
        left == [i \in DOMAIN messages |->
                   IF i = k.message /\ messages[i].channel # k.link.channel
                   THEN [messages[i] EXCEPT !.left = TRUE] ELSE messages[i]]
    IN  /\ At(l, "send") /\ Len(messages) < MaxMessages
        /\ messages' = Append(left, [server |-> k.server, guild |-> k.link.guild,
                                     channel |-> k.link.channel,
                                     deleted |-> FALSE, left |-> FALSE])
        /\ Set(l, [k EXCEPT !.pc = "save", !.message = Len(messages) + 1])
        /\ UNCHANGED <<registered, links, session, pending, running, stored,
                       failing, told, writes>>

SendFails(l) ==
    /\ At(l, "send") /\ Fails("send")
    /\ Log(l, TRUE)
    /\ UNCHANGED <<registered, links, session, pending, running, stored,
                   messages, writes>>

Save(k) == stored' = [stored EXCEPT ![k.server][k.link.guild] = k.message]

SaveId(l) ==
    /\ At(l, "save") /\ loops[l].server \in registered
    /\ Save(loops[l])
    /\ Log(l, FALSE)
    /\ UNCHANGED <<registered, links, session, pending, running, messages, writes>>

\* The statement fails, or the server is gone and its key refused.
SaveFails(l) ==
    /\ At(l, "save")
    /\ Fails("save") \/ loops[l].server \notin registered
    /\ Log(l, TRUE)
    /\ UNCHANGED <<registered, links, session, pending, running, stored,
                   messages, writes>>

-----------------------------------------------------------------------------
\* Somebody deletes an embed at Discord.
DeleteMessage(i) ==
    /\ ~messages[i].deleted /\ Write
    /\ messages' = [messages EXCEPT ![i].deleted = TRUE]
    /\ UNCHANGED <<registered, links, session, pending, loops, running, stored,
                   failing, told>>

\* The process stops; the next one's start is a save of the same settings.
Crash ==
    /\ Fails("crash") \/ (Fails("restart") /\ \A l \in DOMAIN loops : ~At(l, "save"))
    /\ Write
    /\ Len(loops) + Cardinality(Wanted) <= MaxLoops
    /\ LET order == CHOOSE f \in Orders(Wanted) : TRUE
           ended == [l \in DOMAIN loops |->
                       [loops[l] EXCEPT !.cancelled = TRUE, !.pc = "wait", !.message = None]]
       IN  /\ loops' = ended \o Started(Wanted, order)
           /\ running' = [s \in Servers |-> IF s \in Wanted THEN Len(loops) + order[s] ELSE None]
    /\ session' = IF session = "off" THEN "off" ELSE "starting"
    /\ failing' = [s \in Servers |-> FALSE]
    /\ pending' = FALSE
    /\ UNCHANGED <<registered, links, stored, messages, told>>

Tick(l) == \/ Begin(l) \/ EditEmbed(l) \/ EditRefused(l) \/ EditUnknown(l)
           \/ SendEmbed(l) \/ SendFails(l) \/ SaveId(l) \/ SaveFails(l)

Next == \/ \E l \in DOMAIN loops : Tick(l)
        \/ \E on \in BOOLEAN : SaveConfig(on)
        \/ BotConnects \/ ApplyEdit \/ Crash
        \/ \E s \in Servers : \E link \in Link : EditLink(s, link)
        \/ \E s \in Servers : DeleteServer(s)
        \/ \E i \in DOMAIN messages : DeleteMessage(i)

Spec == Init /\ [][Next]_vars

-----------------------------------------------------------------------------
\* With the bot connected and no edit still to apply, the servers with a loop
\* are those whose link asks for one, it works from that link, and no loop
\* that was stopped goes on posting (applyDiscordStatusLoops and
\* startServerStatusLoop of discord_status.go).
LoopsFollowLinks ==
    session = "on" /\ ~pending =>
      /\ \A s \in Servers : running[s] # None <=> s \in Wanted
      /\ \A s \in Wanted : loops[running[s]].link = links[s]
      /\ \A l \in DOMAIN loops : l \notin Running => loops[l].pc = "wait"

\* A server has one embed in a guild: a second one is posted only when the
\* first was deleted or is left behind in another channel, whatever restarts
\* in between (postOrEditStatusEmbed of discord_status.go).
OneEmbed ==
    \A s \in Servers, g \in Guilds :
      Cardinality({i \in DOMAIN messages :
                     /\ messages[i].server = s /\ messages[i].guild = g
                     /\ ~messages[i].deleted /\ ~messages[i].left}) <= 1

\* Of a loop that cannot post, its operator was told since it was started or
\* edited, and for the channel it posts to now (logStatusPostResult and
\* resetStatusFailState of discord_status.go).
FailureTold ==
    \A s \in Servers :
      LET l == running[s]
      IN  l # None /\ loops[l].failed => told[s] = {loops[l].link.channel}

EmbedsSound == LoopsFollowLinks /\ OneEmbed /\ FailureTold
=============================================================================
