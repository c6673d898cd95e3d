---------------------------- MODULE StatusReport ----------------------------
(***************************************************************************)
(* What one tick of a status embed reports (discord_status.go): the state  *)
(* of the game server, a line per map partition and the number of players  *)
(* online, from three sources read one after the other, each of which may  *)
(* be missing: the control plane, the game database and the session store. *)
(*                                                                         *)
(* A map's raw name is a base name and the number it was provisioned with, *)
(* which the report leaves out.  An operator's own name for a partition    *)
(* passes through unchanged, whatever it ends with.  The order of the      *)
(* lines is left out.                                                      *)
(***************************************************************************)
EXTENDS Integers, FiniteSets, FiniteSetsExt

CONSTANTS Bases,      \* the base names of maps
          Partitions, \* the partitions there may be, by their index
          MaxPlayers,
          Custom,     \* TRUE: an operator's name may end like a generated one
          Drift       \* TRUE: players come and go between the reads

\* What the constants have to be.
Bounded == Partitions \subseteq Nat /\ MaxPlayers \in Nat

VARIABLES servers,  \* the partitions the control plane lists, as a function
          control,  \* "none", "fails" or "ok"
          stats,    \* the database's counts, or none
          sessions, \* the accounts seen in 24 hours, or none
          report,   \* statusEmbedData
          step

inputs == <<servers, control, stats, sessions>>
vars == <<servers, control, stats, sessions, report, step>>

\* number 0: a name as it is; otherwise it ends with " #number".
Name == [base : Bases, number : IF Custom THEN {0, 1} ELSE {0}]
Server == [name : Name, players : 0..MaxPlayers, ready : BOOLEAN]
NoStats == [online |-> -1, characters |-> [b \in Bases |-> [n \in Partitions |-> 0]]]
NoSessions == -1

Live(f) == MapThenSumSet(LAMBDA p : f[p].players, DOMAIN f)

Init == /\ servers \in UNION {[P -> Server] : P \in SUBSET Partitions}
        /\ control \in {"none", "fails", "ok"}
        /\ control # "ok" => servers = [p \in {} |-> NoSessions]
        /\ stats \in {NoStats} \cup
             {[online |-> n, characters |-> [b \in Bases |-> c]] :
                n \in 0..MaxPlayers, c \in [Partitions -> 0..1]}
        /\ stats # NoStats /\ control = "ok" /\ ~Drift => stats.online = Live(servers)
        /\ sessions \in {NoSessions, 2}
        /\ report = [state |-> "offline", lines |-> {}, online |-> 0, total |-> 0, unique |-> 0]
        /\ step = "control"

-----------------------------------------------------------------------------
\* deriveServerState
DeriveState == IF control # "ok" \/ DOMAIN servers = {} THEN "offline"
               ELSE IF \E p \in DOMAIN servers : servers[p].ready THEN "online"
               ELSE "booting"

Group(p) == {q \in DOMAIN servers : servers[q].name = servers[p].name}

\* Bug: partitions of one name are not told apart.
NameOf(p) == servers[p].name

\* groupByLabel, aggregateMapCounts: partitions of one name are numbered.
Label(p) == IF Cardinality(Group(p)) = 1 THEN servers[p].name
            ELSE [base |-> servers[p].name.base,
                  number |-> Cardinality({q \in Group(p) : q <= p})]

Lines == {[at |-> p, label |-> Label(p), players |-> servers[p].players] : p \in DOMAIN servers}

\* applyControlStatus
ApplyControl ==
    /\ step = "control" /\ step' = "stats"
    /\ report' = IF control = "ok"
                 THEN [report EXCEPT !.state = DeriveState, !.lines = Lines,
                                     !.online = Live(servers)]
                 ELSE report
    /\ UNCHANGED inputs

\* mapCountsFromLabeled: the characters of all of a map's partitions, online or not.
Characters(b) == MapThenSumSet(LAMBDA n : stats.characters[b][n], Partitions)
CountLines == {[at |-> b, label |-> [base |-> b, number |-> 0], players |-> Characters(b)] :
                 b \in {c \in Bases : Characters(c) > 0}}

\* applyDBStats
ApplyStats ==
    /\ step = "stats" /\ step' = "sessions"
    /\ report' = IF stats = NoStats THEN report
                 ELSE [report EXCEPT
                         !.total = MapThenSumSet(Characters, Bases),
                         !.online = IF @ = 0 THEN stats.online ELSE @,
                         !.lines = IF @ = {} THEN CountLines ELSE @]
    /\ UNCHANGED inputs

\* applyUnique24h
ApplySessions ==
    /\ step = "sessions" /\ step' = "told"
    /\ report' = IF sessions = NoSessions THEN report ELSE [report EXCEPT !.unique = sessions]
    /\ UNCHANGED inputs

Next == ApplyControl \/ ApplyStats \/ ApplySessions

Spec == Init /\ [][Next]_vars

-----------------------------------------------------------------------------
\* No two lines of the report have one label, the partitions' players add up
\* to the players online and the lines of the fallback to the characters
\* known (aggregateMapCounts, mapCountsFromLabeled, collectStatusData).
ReportSound ==
    /\ \A a, b \in report.lines : a.label = b.label => a = b
    /\ step = "told" =>
         LET listed == MapThenSumSet(LAMBDA l : l.players, report.lines)
         IN  IF control = "ok" /\ DOMAIN servers # {} THEN listed = report.online
             ELSE listed = report.total
=============================================================================
