------------------------------ MODULE Servers ------------------------------
(***************************************************************************)
(* The registered game servers (server_registry.go) and the requests that  *)
(* add, edit, reconnect, activate and delete one (server_selector.go),     *)
(* with everything those keep in step with the registry: the rows of the   *)
(* store, the process-wide aliases of the active server's pool, control    *)
(* plane and executor, its web proxies, the persisted choice of the active *)
(* server, and each server's market bot.                                   *)
(*                                                                         *)
(* A ServerContext is a number, given in the order of the connections.     *)
(* Every access to shared state is a step of its own, as the handlers hold *)
(* the registry's lock only inside each of its methods.                    *)
(***************************************************************************)
EXTENDS Naturals, Sequences, FiniteSets, Functions

CONSTANTS MaxServers,    \* the rows the store has room for, 1..MaxServers
          FirstServers,  \* the first of them are there at the start
          Requests,      \* requests under way at a time
          Kinds,         \* "add", "edit", "reconnect", "activate", "delete"
          Overlap,       \* does a request that may re-point the aliases
                         \* overlap another such, or one for its server
          KeepOne,       \* is the last server left alone
          Faults,        \* what may fail: "connect", "row", "crash"
          MaxContexts, MaxFaults

\* What the constants have to be.
Bounded == /\ MaxServers \in Nat /\ FirstServers \in 0..MaxServers
           /\ MaxContexts \in Nat /\ MaxFaults \in Nat

Ids == 1..MaxServers
None == 0
NoServer == 0

VARIABLES servers,      \* serverRegistry.servers, None where there is none
          order,        \* serverRegistry.order
          active,       \* serverRegistry.active
          context,      \* the contexts made so far: server, pool, bot
          alias,        \* globalDB, globalControl and globalExecutor
          proxies,      \* the context the web proxies tunnel through
          rows,         \* the servers table: which ids, and is its bot enabled
          meta,         \* the persisted active server
          request,
          faults

registry == <<servers, order, active>>
vars == <<servers, order, active, context, alias, proxies, rows, meta,
          request, faults>>

Idle == [pc |-> "idle", kind |-> "none", id |-> NoServer, enabled |-> FALSE,
         context |-> None]
Rows == [stored : BOOLEAN, used : BOOLEAN, enabled : BOOLEAN]
Context == [id : Ids, pool : BOOLEAN, enabled : BOOLEAN, bot : BOOLEAN]

Connected(s, e) == [id |-> s, pool |-> TRUE, enabled |-> e, bot |-> e]
Fresh == Len(context) + 1
ActiveContext == IF active = NoServer THEN None ELSE servers[active]

\* serversStore.listServers: the rows in the order of their ids.
Kept(stored) == {s \in Ids : stored[s].stored}
Rising(q) == \A i, j \in DOMAIN q : i < j => q[i] < q[j]
Listed(stored) ==
    CHOOSE q \in UNION {[1..n -> Kept(stored)] : n \in 0..MaxServers} :
        Rising(q) /\ Range(q) = Kept(stored)

Place(q, s) == CHOOSE i \in DOMAIN q : q[i] = s
Without(q, i) == SubSeq(q, 1, i - 1) \o SubSeq(q, i + 1, Len(q))

\* connectMultiServer: every row is connected, the persisted choice activated.
Boot(stored, chosen) ==
    LET listed == Listed(stored)
        first == IF listed = <<>> THEN NoServer ELSE listed[1]
        act == IF chosen \in Range(listed) THEN chosen ELSE first
    IN  [context |-> [i \in DOMAIN listed |-> Connected(listed[i], stored[listed[i]].enabled)],
         servers |-> [s \in Ids |-> IF stored[s].stored THEN Place(listed, s) ELSE None],
         order |-> listed,
         active |-> act,
         alias |-> IF act = NoServer THEN None ELSE Place(listed, act)]

FirstRows == [s \in Ids |-> [stored |-> s <= FirstServers, used |-> s <= FirstServers,
                             enabled |-> TRUE]]

Bots == {c \in DOMAIN context : context[c].bot}

Started(b) ==
    /\ servers = b.servers /\ order = b.order /\ active = b.active
    /\ context = b.context
    /\ alias = b.alias
    /\ proxies = b.alias

Init == /\ rows = FirstRows
        /\ meta = NoServer
        /\ Started(Boot(FirstRows, NoServer))
        /\ request = [r \in Requests |-> Idle]
        /\ faults = MaxFaults

Fault(f) == f \in Faults /\ faults > 0 /\ faults' = faults - 1

-----------------------------------------------------------------------------
(* The registry's methods, each under its lock.                            *)

\* Register replaces in place; the first server registered becomes active.
Register(s, c) ==
    /\ servers' = [servers EXCEPT ![s] = c]
    /\ IF servers[s] # None THEN UNCHANGED <<order, active>>
       ELSE /\ order' = Append(order, s)
            /\ active' = IF active = NoServer THEN s ELSE active

\* Bug: a removal that leaves the active server's id behind.
Forget(s) ==
    /\ servers' = [servers EXCEPT ![s] = None]
    /\ order' = Without(order, Place(order, s))
    /\ UNCHANGED active

Unregister(s) ==
    /\ servers' = [servers EXCEPT ![s] = None]
    /\ order' = Without(order, Place(order, s))
    /\ active' = IF active # s THEN active
                 ELSE IF order' = <<>> THEN NoServer ELSE order'[1]

SetActive(s) == servers[s] # None /\ active' = s /\ UNCHANGED <<servers, order>>

-----------------------------------------------------------------------------
(* Steps the handlers share.                                               *)

At(r, pc) == request[r].pc = pc
Goto(r, pc) == request' = [request EXCEPT ![r].pc = pc]
Done(r) == request' = [request EXCEPT ![r] = Idle]

Switching(r) == request[r].pc # "idle" /\ request[r].kind # "add"
Alone(s) == Overlap \/ \A r \in Requests : ~Switching(r) /\ request[r].id # s

Begins(r, kind, s, pc, e) ==
    /\ kind \in Kinds
    /\ At(r, "idle")
    /\ kind # "add" => Alone(s)
    /\ Fresh + Cardinality({q \in Requests : At(q, "connect")}) <= MaxContexts
    /\ request' = [request EXCEPT ![r] = [pc |-> pc, kind |-> kind, id |-> s,
                                             enabled |-> e, context |-> None]]

\* Bug: the old context's bot is left running.
KeepBot(c) == UNCHANGED context

\* stopServerMarketBot.
StopBot(c) ==
    IF c = None THEN UNCHANGED context
    ELSE context' = [context EXCEPT ![c].bot = FALSE]

\* connectServer: without the executor or the database there is no pool.
Outcomes(s, e) == {[Connected(s, e) EXCEPT !.bot = FALSE, !.pool = p] : p \in BOOLEAN}

\* A reconnect that failed leaves the old context registered, its bot stopped.
Connect(r) ==
    /\ At(r, "connect")
    /\ \E c \in Outcomes(request[r].id, request[r].enabled) :
         /\ IF c.pool THEN UNCHANGED faults ELSE Fault("connect")
         /\ IF ~c.pool /\ request[r].kind = "reconnect"
            THEN Done(r) /\ UNCHANGED context
            ELSE /\ context' = Append(context, c)
                 /\ request' = [request EXCEPT ![r].pc = "register", ![r].context = Fresh]
    /\ UNCHANGED <<registry, alias, proxies, rows, meta>>

\* Only a request that replaces the active server's context goes on to the
\* aliases: adding the first server does not.
Registers(r) ==
    /\ At(r, "register")
    /\ Register(request[r].id, request[r].context)
    /\ Goto(r, IF request[r].kind = "add" THEN "startbot" ELSE "isactive")
    /\ UNCHANGED <<context, alias, proxies, rows, meta, faults>>

\* Bug: the aliases stay with the context that was replaced.
KeepsAliases(r) ==
    /\ At(r, "isactive")
    /\ Goto(r, "startbot")
    /\ UNCHANGED <<registry, context, alias, proxies, rows, meta, faults>>

IsActive(r) ==
    /\ At(r, "isactive")
    /\ Goto(r, IF active = request[r].id THEN "alias" ELSE "startbot")
    /\ UNCHANGED <<registry, context, alias, proxies, rows, meta, faults>>

\* handleSetActiveServer and reassignActiveAfterDelete read the active server,
\* then write the three aliases.
ReadActive(r) ==
    /\ At(r, "read")
    /\ request' = [request EXCEPT ![r].pc = "alias", ![r].context = ActiveContext]
    /\ UNCHANGED <<registry, context, alias, proxies, rows, meta, faults>>

Goes(kind) == CASE kind = "edit" -> "startbot"
                [] kind = "reconnect" -> "proxies"
                [] kind \in {"activate", "delete"} -> "persist"

Alias(r) ==
    /\ At(r, "alias")
    /\ alias' = request[r].context
    /\ Goto(r, Goes(request[r].kind))
    /\ UNCHANGED <<registry, context, proxies, rows, meta, faults>>

\* persistActiveServer: the id asked for, or the one the deletion left.
Persist(r) ==
    /\ At(r, "persist")
    /\ meta' = IF request[r].kind = "activate" THEN request[r].id
               ELSE IF request[r].context = None THEN NoServer
               ELSE context[request[r].context].id
    /\ Goto(r, "proxies")
    /\ UNCHANGED <<registry, context, alias, proxies, rows, faults>>

\* rebuildWebProxiesForActive.
Proxies(r) ==
    /\ At(r, "proxies")
    /\ proxies' = ActiveContext
    /\ IF request[r].kind = "reconnect" THEN Goto(r, "startbot") ELSE Done(r)
    /\ UNCHANGED <<registry, context, alias, rows, meta, faults>>

\* startServerMarketBot: with its toggle on and a live pool.
StartBot(r) ==
    /\ At(r, "startbot")
    /\ LET c == request[r].context
       IN  IF context[c].enabled /\ context[c].pool
           THEN context' = [context EXCEPT ![c].bot = TRUE]
           ELSE UNCHANGED context
    /\ Done(r)
    /\ UNCHANGED <<registry, alias, proxies, rows, meta, faults>>

-----------------------------------------------------------------------------
(* The requests.                                                           *)

\* handleAddServer: the row comes first, its id is never used again.
Add(r, s) ==
    /\ ~rows[s].used /\ \A t \in 1..(s - 1) : rows[t].used
    /\ \E e \in BOOLEAN :
         /\ Begins(r, "add", s, "connect", e)
         /\ rows' = [rows EXCEPT ![s] = [stored |-> TRUE, used |-> TRUE, enabled |-> e]]
    /\ UNCHANGED <<registry, context, alias, proxies, meta, faults>>

\* handleReconnectServer connects with the registered context's config.
Reconnect(r, s) ==
    /\ servers[s] # None
    /\ Begins(r, "reconnect", s, "connect", context[servers[s]].enabled)
    /\ StopBot(servers[s])
    /\ UNCHANGED <<registry, alias, proxies, rows, meta, faults>>

\* handleUpdateServerConfig: an UPDATE of the row, which may be gone.
Edit(r, s) ==
    /\ servers[s] # None
    /\ \E e \in BOOLEAN :
         /\ Begins(r, "edit", s, "connect", e)
         /\ rows' = [rows EXCEPT ![s].enabled = e]
    /\ StopBot(servers[s])
    /\ UNCHANGED <<registry, alias, proxies, meta, faults>>

Activate(r, s) ==
    /\ Begins(r, "activate", s, "read", FALSE)
    /\ SetActive(s)
    /\ UNCHANGED <<context, alias, proxies, rows, meta, faults>>

\* handleDeleteServer: the bot, the registry, then the row.
Delete(r, s) ==
    /\ servers[s] # None
    /\ KeepOne => Len(order) > 1
    /\ Begins(r, "delete", s, "remove", FALSE)
    /\ StopBot(servers[s])
    /\ UNCHANGED <<registry, alias, proxies, rows, meta, faults>>

RemoveServer(r) ==
    /\ At(r, "remove")
    /\ IF servers[request[r].id] = None THEN Done(r) /\ UNCHANGED registry
       ELSE Unregister(request[r].id) /\ Goto(r, "row")
    /\ UNCHANGED <<context, alias, proxies, rows, meta, faults>>

\* An error is logged and the deletion goes on.
DeleteRow(r) ==
    /\ At(r, "row")
    /\ \/ rows' = [rows EXCEPT ![request[r].id].stored = FALSE] /\ UNCHANGED faults
       \/ Fault("row") /\ UNCHANGED rows
    /\ Goto(r, "read")
    /\ UNCHANGED <<registry, context, alias, proxies, meta>>

Crash ==
    /\ Fault("crash")
    /\ LET b == Boot(rows, meta)
       IN  /\ servers' = b.servers /\ order' = b.order /\ active' = b.active
           /\ context' = b.context
           /\ alias' = b.alias
           /\ proxies' = b.alias
    /\ request' = [r \in Requests |-> Idle]
    /\ UNCHANGED <<rows, meta>>

-----------------------------------------------------------------------------
Steps(r) == \/ Connect(r) \/ Registers(r) \/ IsActive(r) \/ ReadActive(r)
            \/ Alias(r) \/ Persist(r) \/ Proxies(r) \/ StartBot(r)
            \/ RemoveServer(r) \/ DeleteRow(r)

Asked(r) == \E s \in Ids : \/ Add(r, s)
                           \/ Edit(r, s)
                           \/ Reconnect(r, s)
                           \/ Activate(r, s)
                           \/ Delete(r, s)

Next == \/ \E r \in Requests : Steps(r) \/ Asked(r)
        \/ Crash

Spec == Init /\ [][Next]_vars

-----------------------------------------------------------------------------
TypeOK ==
    /\ servers \in [Ids -> 0..MaxContexts]
    /\ order \in Seq(Ids)
    /\ active \in Ids \cup {NoServer}
    /\ \A c \in DOMAIN context : context[c] \in Context
    /\ rows \in [Ids -> Rows]
    /\ meta \in Ids \cup {NoServer}

\* However requests interleave: the order lists each registered server once,
\* and one of them is active unless there is none (serverRegistry).
RegistryOK ==
    /\ IsInjective(order)
    /\ Range(order) = {s \in Ids : servers[s] # None}
    /\ active \in Range(order) \cup {NoServer}
    /\ active = NoServer => order = <<>>

AtRest == \A r \in Requests : At(r, "idle")
NoneSwitching == \A r \in Requests : ~Switching(r)

\* Between requests the background workers, which use the aliases, act on the
\* active server through its present connection.
AliasesFollowActive ==
    NoneSwitching => alias = ActiveContext

\* The proxies tunnel "through its executor" (rebuildWebProxiesForActive).
ProxiesFollowActive == NoneSwitching => proxies = ActiveContext

\* A server has one bot, that of its registered context, which a request can
\* stop; none runs on for a server that is gone or whose toggle is off.
OneBot ==
    \A c \in Bots : context[c].enabled /\ (AtRest => servers[context[c].id] = c)

\* A restart brings every registered server back and activates the one that
\* is active now (connectMultiServer).
RestartBringsBack ==
    AtRest => LET b == Boot(rows, meta)
              IN  Range(order) \subseteq Range(b.order) /\ b.active = active

\* None comes back that was deleted (handleDeleteServer).
DeletedStaysAway == AtRest => Range(Boot(rows, meta).order) \subseteq Range(order)

\* An enabled bot runs wherever it can.
BotRuns == AtRest => \A s \in Ids :
    LET c == servers[s]
    IN  c # None /\ context[c].enabled /\ context[c].pool => c \in Bots
=============================================================================
