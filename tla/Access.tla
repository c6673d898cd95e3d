------------------------------- MODULE Access -------------------------------
(***************************************************************************)
(* Who may do what on the dashboard (auth_*.go, app_permissions_store.go,  *)
(* and the configuration save of handlers_config.go, which re-initializes  *)
(* all of it).                                                             *)
(*                                                                         *)
(* A session is a signed cookie: what it says of its holder was true when  *)
(* it was minted.  The permissions matrix gives capabilities to roles; it  *)
(* is kept in the store and, for the requests, in memory.  A Discord       *)
(* member's roles are a snapshot, fetched again when it is rolesMaxAge     *)
(* old.  A tick of the model's clock is a part of rolesMaxAge (15 minutes) *)
(* that no request outlasts.                                               *)
(***************************************************************************)
EXTENDS Integers, FiniteSets

CONSTANTS Browsers, Members, Roles, Users,
          GuildOwner,   \* a member, or another value: nobody of Members
          MaxAge,       \* rolesMaxAge, in ticks
          MayClear,     \* an admin may save a matrix that grants nothing
          Races,        \* "saves": changes overlap; "cli": --set-password is run
                        \* beside a running server
          Faults,       \* "member", "owner", "load", "persist"
          MaxEdits, MaxBoots

\* What the constants have to be.
Bounded == /\ MaxAge \in Nat \ {0} /\ MayClear \in BOOLEAN
           /\ MaxEdits \in Nat /\ MaxBoots \in Nat

VARIABLES up,
          store,      \* the settings as app_settings has them
          config,     \* loadedConfig
          rows,       \* app_role_capabilities
          matrix,     \* permissionsState.matrix
          users,      \* auth_users: the capabilities of each, who is enabled
          keyed,      \* the signing key is initialized
          wired,      \* the Discord clients are set
          standing,   \* what Discord says of each member
          cookies, doing,
          edits, boots,
          seen,       \* the standings of each member, by how many ticks ago
          granted,    \* the matrix last acknowledged
          promised,   \* the password last acknowledged, and those that saves
                      \* which failed since may have left
          unread,     \* the last load of the matrix failed
          wrong       \* how a request was misjudged

vars == <<up, store, config, rows, matrix, users, keyed, wired, standing, cookies,
          doing, edits, boots, seen, granted, promised, unread, wrong>>
memory == <<config, matrix, keyed, wired>>
ghosts == <<seen, granted, promised, unread, wrong>>

\* A capability to read, which the default row is seeded with, and two that it is
\* not.  A route needs one; one route stands for all that need the same.
Caps == {"read", "config", "manage"}
DefaultSeeds == {"read"}
Needs == [players |-> "read", settings |-> "config"]

Rows == {"default", "guest"} \cup Roles
Seeded == {"default"} \X DefaultSeeds
Passwords == 1..MaxEdits + 1
Settings == [enabled : BOOLEAN, guest : BOOLEAN, discord : BOOLEAN,
             owners : SUBSET Roles, password : Passwords]

Admin == "admin"
NoSession == [way |-> "none"]
Session(way, who, owner, held) ==
    [way |-> way, who |-> who, owner |-> owner, roles |-> held, age |-> 0, stale |-> FALSE]
Idle == [op |-> "idle"]

-----------------------------------------------------------------------------
(* What a session may do. *)

\* resolveOwner; the guild's owner is unknown when the lookup failed
Owns(m, held, known) == (known /\ m = GuildOwner) \/ held \cap config.owners # {}

\* The rows that apply to a session, besides what a local user is given directly.
RowsOf(s) == {"default"} \cup (IF s.way = "guest" THEN {"guest"} ELSE s.roles)
UserCaps(u) == IF users[u].known /\ users[u].enabled THEN users[u].caps ELSE {}
CapsOf(s, m) ==
    {c \in Caps : \E r \in RowsOf(s) : <<r, c>> \in m}
        \cup (IF s.way = "local" /\ s.who \in Users THEN UserCaps(s.who) ELSE {})

Allowed(s, c) == s.owner \/ c \in CapsOf(s, matrix)

\* The permission endpoints are outside the middleware: the cookie as it is.
MayManage(b) == keyed /\ cookies[b].way # "none" /\ Allowed(cookies[b], "manage")

-----------------------------------------------------------------------------
(* What it ought to be able to do: by the matrix last acknowledged, and by a
   standing the member had within the age of a snapshot. *)

Standing(m) == [in |-> standing[m].in, roles |-> standing[m].roles,
                owner |-> Owns(m, standing[m].roles, TRUE)]
Recent(m) == UNION {seen[m][a] : a \in 0..MaxAge - 1}
Entitled(m, st, c) ==
    st.in /\ (st.owner \/ c \in CapsOf(Session("discord", m, FALSE, st.roles), granted))

Justified(s, c) ==
    CASE s.way = "discord" -> s.stale \/ \E st \in Recent(s.who) : Entitled(s.who, st, c)
      [] s.way = "local" /\ s.who = Admin -> TRUE
      [] OTHER -> c \in CapsOf(s, granted)

Due(s, c) ==
    CASE s.way = "discord" -> /\ ~s.stale
                              /\ \A st \in Recent(s.who) : Entitled(s.who, st, c)
      [] s.way = "local" /\ s.who = Admin -> TRUE
      [] OTHER -> c \in CapsOf(s, granted)

Judge(s, c, passed) ==
    wrong' = wrong \cup (IF passed /\ ~Justified(s, c) THEN {"allowed"} ELSE {})
                   \cup (IF ~passed /\ ~unread /\ Due(s, c) THEN {"refused"} ELSE {})

\* What Discord and the configuration say, now, is part of the present tick.
Note(config1, standing1) ==
    seen' = [m \in Members |->
        [seen[m] EXCEPT ![0] = @ \cup
            {[in |-> standing1[m].in, roles |-> standing1[m].roles,
              owner |-> m = GuildOwner \/ standing1[m].roles \cap config1.owners # {}]}]]

-----------------------------------------------------------------------------
Init ==
    /\ up = TRUE
    /\ store = [enabled |-> TRUE, guest |-> TRUE, discord |-> TRUE, owners |-> {},
                password |-> 1]
    /\ config = store
    /\ rows = Seeded /\ matrix = Seeded
    /\ users = [u \in Users |-> [known |-> FALSE, enabled |-> FALSE, caps |-> {}]]
    /\ keyed = TRUE /\ wired = TRUE
    /\ standing = [m \in Members |-> [in |-> TRUE, roles |-> {}]]
    /\ cookies = [b \in Browsers |-> NoSession]
    /\ doing = [b \in Browsers |-> Idle]
    /\ edits = 0 /\ boots = 0
    /\ seen = [m \in Members |-> [a \in 0..MaxAge - 1 |-> {Standing(m)}]]
    /\ granted = Seeded /\ promised = {1} /\ unread = FALSE /\ wrong = {}

Free(b) == up /\ doing[b] = Idle
Alone == "saves" \in Races \/ \A b \in Browsers : doing[b] = Idle
Edit == edits < MaxEdits /\ edits' = edits + 1

SignIn(b, s) ==
    /\ Free(b) /\ config.enabled /\ keyed
    /\ cookies' = [cookies EXCEPT ![b] = s]
    /\ UNCHANGED <<up, store, config, rows, matrix, users, keyed, wired, standing,
                   doing, edits, boots, seen, granted, promised, unread, wrong>>

\* handleAuthLogin: the configured admin, then the stored users
Login(b) ==
    \/ SignIn(b, Session("local", Admin, TRUE, {}))
    \/ \E u \in Users : /\ users[u].known /\ users[u].enabled
                        /\ SignIn(b, Session("local", u, FALSE, {}))

Guest(b) == config.guest /\ SignIn(b, Session("guest", "guest", FALSE, {}))

Callback(b, m) ==
    /\ config.discord /\ wired /\ standing[m].in
    /\ \E known \in {TRUE} \cup (IF "owner" \in Faults THEN {FALSE} ELSE {}) :
        SignIn(b, Session("discord", m, Owns(m, standing[m].roles, known), standing[m].roles))

\* handleAuthLogout, or the end of the session's lifetime
Leave(b) ==
    /\ Free(b) /\ cookies[b].way # "none"
    /\ cookies' = [cookies EXCEPT ![b] = NoSession]
    /\ UNCHANGED <<up, store, config, rows, matrix, users, keyed, wired, standing,
                   doing, edits, boots, seen, granted, promised, unread, wrong>>

\* refreshDiscordSession: the sessions a request may go on with; NoSession is "no
\* longer valid".
Refreshed(s) ==
    IF s.way # "discord" \/ s.age < MaxAge THEN {s}
    ELSE IF ~wired THEN {[s EXCEPT !.stale = TRUE]}
    ELSE (IF "member" \in Faults THEN {[s EXCEPT !.stale = TRUE]} ELSE {})
         \cup (IF ~standing[s.who].in THEN {NoSession}
               ELSE {Session("discord", s.who, Owns(s.who, standing[s.who].roles, known),
                             standing[s.who].roles) :
                     known \in {TRUE} \cup (IF "owner" \in Faults THEN {FALSE} ELSE {})})

\* authMiddleware: authenticate, refresh, judge
Request(b, route) ==
    /\ Free(b) /\ config.enabled /\ keyed /\ cookies[b].way # "none"
    /\ \E s \in Refreshed(cookies[b]) :
        /\ cookies' = [cookies EXCEPT ![b] = s]
        /\ IF s = NoSession THEN Judge(cookies[b], Needs[route], FALSE)
           ELSE Judge(s, Needs[route], Allowed(s, Needs[route]))
    /\ UNCHANGED <<up, store, config, rows, matrix, users, keyed, wired, standing,
                   doing, edits, boots, seen, granted, promised, unread>>

-----------------------------------------------------------------------------
(* The matrix and the users. *)

PutMatrix(b, m) ==
    /\ Free(b) /\ Alone /\ MayManage(b) /\ Edit
    /\ MayClear \/ m # {}
    /\ \/ /\ rows' = m
          /\ doing' = [doing EXCEPT ![b] = [op |-> "put", matrix |-> m]]
       \/ /\ "persist" \in Faults
          /\ UNCHANGED <<rows, doing>>
    /\ UNCHANGED <<up, store, users, standing, cookies, boots>>
    /\ UNCHANGED memory
    /\ UNCHANGED ghosts

\* setPermissionsMatrix, and the answer
SetMatrix(b) ==
    /\ doing[b].op = "put"
    /\ matrix' = doing[b].matrix
    /\ granted' = doing[b].matrix
    /\ unread' = FALSE
    /\ doing' = [doing EXCEPT ![b] = Idle]
    /\ UNCHANGED <<up, store, config, rows, users, keyed, wired, standing, cookies,
                   edits, boots, seen, promised, wrong>>

\* handlePutAuthUser and handleDeleteAuthUser
PutUser(b, u, enabled, caps) ==
    /\ Free(b) /\ Alone /\ MayManage(b) /\ Edit
    /\ users' = [users EXCEPT ![u] = [known |-> TRUE, enabled |-> enabled, caps |-> caps]]
    /\ UNCHANGED <<up, store, rows, standing, cookies, doing, boots>>
    /\ UNCHANGED memory
    /\ UNCHANGED ghosts

DeleteUser(b, u) ==
    /\ Free(b) /\ Alone /\ MayManage(b) /\ Edit
    /\ users[u].known
    /\ users' = [users EXCEPT ![u] = [known |-> FALSE, enabled |-> FALSE, caps |-> {}]]
    /\ UNCHANGED <<up, store, rows, standing, cookies, doing, boots>>
    /\ UNCHANGED memory
    /\ UNCHANGED ghosts

-----------------------------------------------------------------------------
(* The configuration. *)

\* The forms the settings page can send: one change to what it was shown, where
\* the password's hash is masked.  preserveMaskedSecrets puts back loadedConfig's.
Masked == 0
Forms ==
    LET shown == [config EXCEPT !.password = Masked]
    IN  {[shown EXCEPT !.enabled = ~@], [shown EXCEPT !.guest = ~@],
         [shown EXCEPT !.discord = ~@], [shown EXCEPT !.password = edits + 2]}
            \cup {[shown EXCEPT !.owners = o] : o \in SUBSET Roles}
\* Bug: the hash is not among the secrets that are put back.
KeepsMask(form) == form
Restored(form) ==
    IF form.password = Masked THEN [form EXCEPT !.password = config.password] ELSE form

\* handleSaveConfig, behind the middleware.  (A snapshot that is due is refreshed by
\* the request before.)
BeginSave(b, form) ==
    /\ Free(b) /\ Alone /\ Edit
    /\ config.enabled => /\ keyed /\ cookies[b] # NoSession
                         /\ cookies[b] \in Refreshed(cookies[b])
                         /\ Allowed(cookies[b], Needs.settings)
    /\ doing' = [doing EXCEPT ![b] =
        [op |-> "save", form |-> Restored(form), new |-> form.password # Masked]]
    /\ UNCHANGED <<up, store, rows, users, standing, cookies, boots>>
    /\ UNCHANGED memory
    /\ UNCHANGED ghosts

\* saveAppConfigColumns: a statement for each table, in no transaction.  One that
\* fails comes before the row of these settings is written, or after.
StoreSave(b) ==
    LET form == doing[b].form
    IN  /\ doing[b].op = "save"
        /\ \/ /\ store' = form
              /\ doing' = [doing EXCEPT ![b].op = "apply"]
              /\ UNCHANGED promised
           \/ /\ "persist" \in Faults
              /\ doing' = [doing EXCEPT ![b] = Idle]
              /\ \/ UNCHANGED <<store, promised>>
                 \/ /\ store' = form
                    /\ promised' = promised \cup (IF doing[b].new THEN {form.password} ELSE {})
    /\ UNCHANGED <<up, rows, users, standing, cookies, edits, boots, seen, granted, unread, wrong>>
    /\ UNCHANGED memory

\* initPermissionsMatrix, when rows has been read: an empty table is seeded.
Loaded == IF rows = {} THEN Seeded ELSE rows

\* applyConfig, and initAuthRuntime up to the load of the matrix
ApplySave(b) ==
    /\ doing[b].op = "apply"
    /\ config' = doing[b].form
    /\ keyed' = (keyed \/ config'.enabled)
    /\ \E read \in {TRUE} \cup (IF "load" \in Faults THEN {FALSE} ELSE {}) :
        LET loads == config'.enabled /\ read
        IN  /\ rows' = IF loads THEN Loaded ELSE rows
            /\ doing' = [doing EXCEPT ![b] =
                [op |-> "finish", new |-> @.new, toggled |-> config.enabled # config'.enabled,
                 matrix |-> IF loads THEN Loaded ELSE matrix, loads |-> loads]]
    /\ Note(config', standing)
    /\ UNCHANGED <<up, store, matrix, users, wired, standing, cookies, edits, boots,
                   granted, promised, unread, wrong>>

\* the matrix set, the Discord clients, the caller's cookie, the answer
FinishSave(b) ==
    /\ doing[b].op = "finish"
    /\ matrix' = IF doing[b].loads THEN doing[b].matrix ELSE matrix
    /\ unread' = (unread /\ ~doing[b].loads)
    /\ wired' = (config.enabled /\ config.discord)
    /\ cookies' = [cookies EXCEPT ![b] = IF doing[b].toggled THEN NoSession ELSE @]
    /\ promised' = IF doing[b].new THEN {config.password} ELSE promised
    /\ doing' = [doing EXCEPT ![b] = Idle]
    /\ UNCHANGED <<up, store, config, rows, users, keyed, standing, edits, boots, seen,
                   granted, wrong>>

-----------------------------------------------------------------------------
(* The process, the command line, Discord and the clock. *)

\* An acknowledgement that was under way is never given: either outcome stands.
Stop ==
    /\ up /\ boots < MaxBoots
    /\ up' = FALSE
    /\ boots' = boots + 1
    /\ matrix' = {} /\ keyed' = FALSE /\ wired' = FALSE
    /\ doing' = [b \in Browsers |-> Idle]
    /\ granted' = IF \E b \in Browsers : doing[b].op = "put" THEN rows ELSE granted
    /\ promised' = IF \E b \in Browsers : doing[b].op \in {"apply", "finish"} /\ doing[b].new
                   THEN {store.password} ELSE promised
    /\ UNCHANGED <<store, config, rows, users, standing, cookies, edits, seen, unread, wrong>>

\* loadedConfig hydrated from the store, then initAuthRuntime
Start ==
    /\ ~up
    /\ up' = TRUE
    /\ config' = store
    /\ keyed' = store.enabled
    /\ wired' = (store.enabled /\ store.discord)
    /\ \E read \in {TRUE} \cup (IF "load" \in Faults THEN {FALSE} ELSE {}) :
        /\ rows' = IF store.enabled /\ read THEN Loaded ELSE rows
        /\ matrix' = IF store.enabled /\ read THEN Loaded ELSE {}
        /\ unread' = ~(store.enabled /\ read)
    /\ Note(store, standing)
    /\ UNCHANGED <<store, users, standing, cookies, doing, edits, boots, granted,
                   promised, wrong>>

\* dune-admin --set-password, in a process of its own
SetPassword ==
    /\ ~up \/ "cli" \in Races
    /\ Edit
    /\ store' = [store EXCEPT !.password = edits + 2]
    /\ promised' = {edits + 2}
    /\ UNCHANGED <<up, rows, users, standing, cookies, doing, boots, seen, granted,
                   unread, wrong>>
    /\ UNCHANGED memory

\* A member gets or loses a role, leaves or joins; the owner stays.
Change(m, st) ==
    /\ Edit
    /\ st # standing[m] /\ (st.in \/ st.roles = {}) /\ (m = GuildOwner => st.in)
    /\ standing' = [standing EXCEPT ![m] = st]
    /\ Note(config, standing')
    /\ UNCHANGED <<up, store, rows, users, cookies, doing, boots, granted, promised,
                   unread, wrong>>
    /\ UNCHANGED memory

Tick ==
    /\ \A b \in Browsers : doing[b] = Idle
    /\ cookies' = [b \in Browsers |->
        IF cookies[b].way = "discord" /\ cookies[b].age < MaxAge
        THEN [cookies[b] EXCEPT !.age = @ + 1] ELSE cookies[b]]
    /\ seen' = [m \in Members |-> [a \in 0..MaxAge - 1 |->
        IF a = 0 THEN {Standing(m)} ELSE seen[m][a - 1]]]
    /\ UNCHANGED <<up, store, rows, users, standing, doing, edits, boots, granted,
                   promised, unread, wrong>>
    /\ UNCHANGED memory

Toggled(m) == {(m \ {p}) \cup ({p} \ m) : p \in Rows \X Caps}

Next ==
    \/ \E b \in Browsers :
        \/ Login(b) \/ Guest(b) \/ Leave(b)
        \/ \E m \in Members : Callback(b, m)
        \/ \E route \in DOMAIN Needs : Request(b, route)
        \/ \E m \in Toggled(matrix) : PutMatrix(b, m)
        \/ SetMatrix(b)
        \/ \E u \in Users, e \in BOOLEAN, c \in SUBSET Caps : PutUser(b, u, e, c)
        \/ \E u \in Users : DeleteUser(b, u)
        \/ \E form \in Forms : BeginSave(b, form)
        \/ StoreSave(b) \/ ApplySave(b) \/ FinishSave(b)
    \/ Stop \/ Start \/ SetPassword \/ Tick
    \/ \E m \in Members, i \in BOOLEAN, r \in SUBSET Roles : Change(m, [in |-> i, roles |-> r])

Spec == Init /\ [][Next]_vars

-----------------------------------------------------------------------------
Settled == \A b \in Browsers : doing[b] = Idle

TypeOK ==
    /\ store \in Settings /\ config \in Settings
    /\ rows \subseteq Rows \X Caps /\ matrix \subseteq Rows \X Caps
    /\ promised \subseteq Passwords
    /\ edits \in 0..MaxEdits /\ boots \in 0..MaxBoots /\ wrong \subseteq {"allowed", "refused"}

\* A request is allowed only what its session is entitled to by the matrix last
\* saved and by roles its holder had within rolesMaxAge (or that Discord could not
\* be asked about since), and is not refused what it was entitled to all that time.
RequestsJudged == wrong = {}

\* What an admin saved as the matrix is what the store has and what the requests
\* are judged by, through restarts, saves of the configuration and failures; only
\* a load that failed leaves the requests with an older matrix, or with none.
MatrixKept ==
    Settled => /\ rows = granted
               /\ up /\ config.enabled /\ ~unread => matrix = granted

\* The password last set, on the page or on the command line, is the one stored, or
\* that of a later save that answered with an error (its statements before the one
\* that failed stand): a save of other settings puts back the hash it was shown
\* masked.
PasswordKept == Settled => store.password \in promised
=============================================================================
