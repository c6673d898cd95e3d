-------------------------- MODULE WelcomePackages --------------------------
(***************************************************************************)
(* The welcome packages (welcome_package.go, welcome_store.go) and the     *)
(* join and leave notices (presence.go, motd.go, region_broadcast.go): one *)
(* goroutine that scans every registered server, and the requests of       *)
(* handlers_welcome.go that run, force, retry or revoke a grant and read   *)
(* or write the configuration.                                             *)
(*                                                                         *)
(* A package is its version.  Its items are given together or not at all   *)
(* or in part; what a message says is left out.  Looking up a message's    *)
(* row and sending the message are one step: only the scanner sends        *)
(* messages, so nothing can add the row in between.                        *)
(***************************************************************************)
EXTENDS Integers, FiniteSets

CONSTANTS Servers,      \* the registered servers
          Default,      \* the one whose scope welcomeStoreDB has; active too
          Accounts,     \* the characters the game knows
          NoFls,        \* those whose account has no FLS id yet
          Versions,     \* packages an operator may put in the library
          Broken,       \* those with an invalid item
          FirstActive,  \* the packages that are active at the start
          FirstOn,      \* what is on at the start: "enabled", "message", "presence"
          Scanner,      \* the goroutine of runWelcomePackageScanner
          Requests,     \* requests under way at a time, of any kind
          Kinds,        \* requests that occur: "run", "override", "retry",
                        \* "revoke", "put", "get"
          Edits,        \* what a PUT changes: "enabled", "message",
                        \* "presence", "packages"
          Overlap,      \* which tasks overlap: "grants", "configs"
          Faults,       \* what may fail: "list", "check", "give", "record",
                        \* "save", "load", "crash"
          MaxFaults,    \* how many things fail at most
          MaxActs       \* how many grants are forced, rows released, saves asked

ASSUME SetAssumption == /\ Default \in Servers
                        /\ NoFls \subseteq Accounts
                        /\ Broken \subseteq Versions
                        /\ FirstActive \subseteq Versions
                        /\ Scanner \notin Requests
                        /\ Accounts # {} /\ Versions # {}
ASSUME BoundAssumption == MaxFaults \in Nat /\ MaxActs \in Nat

Tasks == Requests \cup {Scanner}
Keys == Servers \X Versions \X Accounts
Status == {"none", "granted", "failed"}

VARIABLES online,       \* who is in the game, per server
          packages,     \* welcome_grants, the rows of packages
          messages,     \* welcome_grants, the rows with the suffix ":msg"
          stored,       \* welcome_config and the tables of its packages
          runtime,      \* welcomeRuntime
          tracker,      \* welcomePresence
          task,         \* what the goroutine and each request is doing
          left,         \* faults and operator's acts that may still happen
          gifts, told,  \* times a package, its message reached the account
          arrived,      \* who logged in and was not sent the message of the day
          departed,     \* who logged out and was not announced to have left
          misled,       \* who was greeted or announced without cause
          ledger        \* released and lost, per key, of packages and messages

vars == <<online, packages, messages, stored, runtime, tracker, task, left,
          gifts, told, arrived, departed, misled, ledger>>
history == <<gifts, told, arrived, departed, misled, ledger>>

Config == [enabled : BOOLEAN, message : BOOLEAN, presence : BOOLEAN,
           library : SUBSET Versions, active : SUBSET Versions]
Tracker == [seeded : BOOLEAN, seen : SUBSET Accounts]

\* buildWelcomeRuntime: unknown versions are dropped, and the first package
\* of the library stands in when none is left.
Built(c) ==
    LET valid == c.active \cap c.library
    IN  [c EXCEPT !.active = IF valid = {} /\ c.library # {}
                             THEN {CHOOSE v \in c.library : TRUE} ELSE valid]

Active(c) == c.active \cap c.library
PackagesOn(c) == c.enabled /\ Active(c) # {}

FirstConfig == [enabled |-> "enabled" \in FirstOn, message |-> "message" \in FirstOn,
                presence |-> "presence" \in FirstOn,
                library |-> Versions, active |-> FirstActive]
Idle == [pc |-> "idle", server |-> Default, todo |-> {}, cfg |-> FirstConfig,
         seen |-> {}, packs |-> {}, version |-> CHOOSE v \in Versions : TRUE,
         accounts |-> {}, account |-> CHOOSE a \in Accounts : TRUE,
         outcome |-> "none", forced |-> FALSE]
Unseeded == [seeded |-> FALSE, seen |-> {}]

Init == /\ online \in [Servers -> SUBSET Accounts]
        /\ \A a \in Accounts : Cardinality({s \in Servers : a \in online[s]}) <= 1
        /\ packages = [k \in Keys |-> "none"]
        /\ messages = [k \in Keys |-> "none"]
        /\ stored = Built(FirstConfig)
        /\ runtime = Built(FirstConfig)
        /\ tracker = Unseeded
        /\ task = [t \in Tasks |-> Idle]
        /\ left = [faults |-> MaxFaults, acts |-> MaxActs]
        /\ gifts = [k \in Keys |-> 0]
        /\ told = [k \in Keys |-> 0]
        /\ arrived = {}
        /\ departed = {}
        /\ misled = {}
        /\ ledger = [released |-> [k \in Keys |-> 0], lost |-> [k \in Keys |-> 0],
                     forced |-> [k \in Keys |-> 0],
                     releasedMsg |-> [k \in Keys |-> 0],
                     lostMsg |-> [k \in Keys |-> 0]]

-----------------------------------------------------------------------------
(* The game.                                                               *)

Login(s, a) ==
    /\ \A r \in Servers : a \notin online[r]
    /\ online' = [online EXCEPT ![s] = @ \cup {a}]
    /\ arrived' = arrived \cup {a}
    /\ UNCHANGED <<packages, messages, stored, runtime, tracker, task, left,
                   gifts, told, departed, misled, ledger>>

Logout(s, a) ==
    /\ a \in online[s]
    /\ online' = [online EXCEPT ![s] = @ \ {a}]
    /\ departed' = departed \cup {a}
    /\ UNCHANGED <<packages, messages, stored, runtime, tracker, task, left,
                   gifts, told, arrived, misled, ledger>>

-----------------------------------------------------------------------------
(* A scan of one server by the goroutine, or of the active server by the   *)
(* run request.                                                            *)

Fault(f) == /\ f \in Faults
            /\ left.faults > 0
            /\ left' = [left EXCEPT !.faults = @ - 1]

Granting == {"list", "package", "account", "give", "record", "tell", "told"}
Apart(t) == "grants" \in Overlap \/ \A u \in Tasks \ {t} : task[u].pc \notin Granting

\* The rows a task reads and writes: the scanner has a store per server, the
\* requests have the default one.
Scope(t) == IF t = Scanner THEN task[t].server ELSE Default
Row(t) == <<Scope(t), task[t].version, task[t].account>>
Receiver(t) == <<task[t].server, task[t].version, task[t].account>>

Go(t, r) == task' = [task EXCEPT ![t] = r]

\* One pass of the loop over the registry.
StartScan ==
    /\ task[Scanner].pc = "idle"
    /\ Go(Scanner, [Idle EXCEPT !.pc = "tick", !.todo = Servers])
    /\ UNCHANGED <<online, packages, messages, stored, runtime, tracker, left, history>>

EndScan ==
    /\ task[Scanner].pc = "tick"
    /\ task[Scanner].todo = {}
    /\ Go(Scanner, Idle)
    /\ UNCHANGED <<online, packages, messages, stored, runtime, tracker, left, history>>

NextServer(r) == [Idle EXCEPT !.pc = "tick", !.todo = r.todo]

\* A mutated form: the baseline keeps its mark.
ForgetsSeen(b) == [b EXCEPT !.seen = {}]
Reset(b) == Unseeded

\* A mutated form: the packages alone are no reason to scan.
NeededByNotices(c) == c.presence
Needed(c) == PackagesOn(c) \/ c.presence

\* welcomePackageScanTick up to the listing, which grants need and notices
\* need; without notices the baseline is dropped.
Tick(s) ==
    /\ task[Scanner].pc = "tick"
    /\ s \in task[Scanner].todo
    /\ Apart(Scanner)
    /\ LET r == [task[Scanner] EXCEPT !.todo = @ \ {s}, !.server = s, !.cfg = runtime]
       IN  Go(Scanner, IF Needed(runtime)
                       THEN [r EXCEPT !.pc = "list",
                                      !.packs = IF PackagesOn(runtime)
                                                THEN Active(runtime) ELSE {}]
                       ELSE NextServer(r))
    /\ tracker' = IF runtime.presence THEN tracker ELSE Reset(tracker)
    /\ UNCHANGED <<online, packages, messages, stored, runtime, left, history>>

\* A mutated form: accounts without an FLS id are granted to.
EveryAccount(accounts) == accounts
\* welcomePackageScanOnce passes over accounts without an FLS id.
Eligible(accounts) == accounts \ NoFls

\* The one listing of a tick, and the one per package of a run request.
List(t) ==
    /\ task[t].pc = "list"
    /\ LET s == IF t = Scanner THEN task[t].server ELSE Default
       IN  Go(t, [task[t] EXCEPT !.seen = online[s], !.accounts = Eligible(online[s]),
                                 !.pc = IF t = Scanner THEN "package" ELSE "account"])
    /\ UNCHANGED <<online, packages, messages, stored, runtime, tracker, left, history>>

ListFails(t) ==
    /\ task[t].pc = "list"
    /\ Fault("list")
    /\ Go(t, IF t = Scanner THEN NextServer(task[t]) ELSE Idle)
    /\ UNCHANGED <<online, packages, messages, stored, runtime, tracker, history>>

\* The next active package; the scanner passes over an invalid one, the run
\* request gives up.
NextPackage(t) ==
    /\ task[t].pc = "package"
    /\ \E v \in task[t].packs :
         LET r == [task[t] EXCEPT !.packs = @ \ {v}, !.version = v]
         IN  Go(t, IF v \in Broken THEN IF t = Scanner THEN r ELSE Idle
                   ELSE IF t = Scanner
                        THEN [r EXCEPT !.accounts = Eligible(r.seen), !.pc = "account"]
                        ELSE [r EXCEPT !.pc = "list"])
    /\ UNCHANGED <<online, packages, messages, stored, runtime, tracker, left, history>>

LastPackage(t) ==
    /\ task[t].pc = "package"
    /\ task[t].packs = {}
    /\ Go(t, IF t # Scanner THEN Idle
             ELSE IF task[t].cfg.presence THEN [task[t] EXCEPT !.pc = "notice"]
                  ELSE NextServer(task[t]))
    /\ UNCHANGED <<online, packages, messages, stored, runtime, tracker, left, history>>

\* A task between two accounts.
Between(t) == [task[t] EXCEPT !.pc = "account", !.account = Idle.account,
                              !.outcome = "none"]

\* Mutated forms: a failed row does not count; no row counts.
ExistsGranted(status) == status = "granted"
ExistsNever(status) == FALSE
\* grantExists
Exists(status) == status # "none"

\* The next account: given the package unless it has a row.
NextAccount(t) ==
    /\ task[t].pc = "account"
    /\ \E a \in task[t].accounts :
         Go(t, [task[t] EXCEPT
              !.account = a, !.accounts = @ \ {a},
              !.pc = IF Exists(packages[<<Scope(t), task[t].version, a>>])
                     THEN "tell" ELSE "give"])
    /\ UNCHANGED <<online, packages, messages, stored, runtime, tracker, left, history>>

LastAccount(t) ==
    /\ task[t].pc = "account"
    /\ task[t].accounts = {}
    /\ Go(t, [task[t] EXCEPT !.pc = "package", !.version = Idle.version])
    /\ UNCHANGED <<online, packages, messages, stored, runtime, tracker, left, history>>

\* The look-up of a row fails: the scan of the package is over, a run request
\* too.
CheckFails(t) ==
    /\ \/ task[t].pc = "account" /\ task[t].accounts # {}
       \/ task[t].pc = "tell" /\ t = Scanner /\ task[t].cfg.message
    /\ Fault("check")
    /\ Go(t, IF t = Scanner THEN [task[t] EXCEPT !.pc = "package", !.accounts = {},
                                             !.version = Idle.version,
                                             !.account = Idle.account]
             ELSE Idle)
    /\ UNCHANGED <<online, packages, messages, stored, runtime, tracker, history>>

\* Every item is given on its own: processGiveItems names those it skipped.
GiveOutcomes == {"all"} \cup IF "give" \in Faults THEN {"some", "nothing"} ELSE {}

\* welcomeGrantViaGiveItems never answers an error: items it could not give
\* are named as skipped.
Give(t) ==
    /\ task[t].pc = "give"
    /\ \E o \in GiveOutcomes :
         LET n == IF o = "nothing" THEN 0 ELSE 1
         IN  /\ gifts' = [gifts EXCEPT ![Receiver(t)] = @ + n]
             /\ ledger' = IF task[t].forced
                          THEN [ledger EXCEPT !.forced[Receiver(t)] = @ + n]
                          ELSE ledger
             /\ Go(t, [task[t] EXCEPT !.outcome = o, !.pc = "record"])
    /\ UNCHANGED <<online, packages, messages, stored, runtime, tracker, left,
                   told, arrived, departed, misled>>

AfterRecord(t) == IF task[t].forced THEN Idle ELSE [task[t] EXCEPT !.pc = "tell", !.outcome = "none"]

\* A mutated form: a failure is not recorded.
RowIfGiven(outcome, row) == IF outcome = "all" THEN "granted" ELSE row
\* insertGranted or insertFailed
RowFor(outcome, row) == IF outcome = "all" THEN "granted" ELSE "failed"

Record(t) ==
    /\ task[t].pc = "record"
    /\ packages' = [packages EXCEPT
         ![Row(t)] = RowFor(task[t].outcome, @)]
    /\ Go(t, AfterRecord(t))
    /\ UNCHANGED <<online, messages, stored, runtime, tracker, left, history>>

\* The insert fails; its error is dropped.
RecordFails(t) ==
    /\ task[t].pc = "record"
    /\ Fault("record")
    /\ Go(t, AfterRecord(t))
    /\ ledger' = IF task[t].forced \/ packages[Row(t)] # "none" THEN ledger
                 ELSE [ledger EXCEPT !.lost[Row(t)] = @ + 1]
    /\ UNCHANGED <<online, packages, messages, stored, runtime, tracker,
                   gifts, told, arrived, departed, misled>>

\* whisperAccount: nothing to send, or a row for it already.
TellNot(t) ==
    /\ task[t].pc = "tell"
    /\ \/ t # Scanner
       \/ ~task[t].cfg.message
       \/ Exists(messages[Row(t)])
    /\ Go(t, Between(t))
    /\ UNCHANGED <<online, packages, messages, stored, runtime, tracker, left, history>>

Tell(t) ==
    /\ task[t].pc = "tell"
    /\ t = Scanner /\ task[t].cfg.message /\ ~Exists(messages[Row(t)])
    /\ \E o \in {"all"} \cup (IF "give" \in Faults THEN {"nothing"} ELSE {}) :
         /\ told' = [told EXCEPT ![Receiver(t)] = IF o = "all" THEN @ + 1 ELSE @]
         /\ Go(t, [task[t] EXCEPT !.outcome = o, !.pc = "told"])
    /\ UNCHANGED <<online, packages, messages, stored, runtime, tracker, left,
                   gifts, arrived, departed, misled, ledger>>

RecordTold(t) ==
    /\ task[t].pc = "told"
    /\ messages' = [messages EXCEPT
         ![Row(t)] = RowFor(task[t].outcome, @)]
    /\ Go(t, Between(t))
    /\ UNCHANGED <<online, packages, stored, runtime, tracker, left, history>>

RecordToldFails(t) ==
    /\ task[t].pc = "told"
    /\ Fault("record")
    /\ Go(t, Between(t))
    /\ ledger' = [ledger EXCEPT !.lostMsg[Row(t)] = @ + 1]
    /\ UNCHANGED <<online, packages, messages, stored, runtime, tracker,
                   gifts, told, arrived, departed, misled>>

-----------------------------------------------------------------------------
(* The notices at the end of a tick.                                       *)

\* A mutated form: the first observation is compared with nobody.
JoinsUnseeded(b, seen) == seen \ b.seen
Joins(b, seen) == IF b.seeded THEN seen \ b.seen ELSE {}
Leaves(b, seen) == IF b.seeded THEN b.seen \ seen ELSE {}

\* Each message is sent on its own, so some may fail: which of a set of players
\* are greeted, and which of a set of comings and goings are announced.
Some(whom) == IF "give" \in Faults THEN SUBSET whom ELSE {whom}
Greetings(joins) == Some(joins)
Announcements(joins, leaves) == {[joined |-> j, left |-> l] : j \in Some(joins), l \in Some(leaves)}

\* runPresenceWhispers: one observation, then a message to each who joined and
\* a notice for each who joined or left.
Notice ==
    /\ task[Scanner].pc = "notice"
    /\ LET seen == task[Scanner].seen
           joins == Joins(tracker, seen)
           leaves == Leaves(tracker, seen)
       IN  /\ \E g \in Greetings(joins), n \in Announcements(joins, leaves) :
                LET came == g \cup n.joined
                IN  /\ misled' = misled \cup (came \ arrived) \cup (n.left \ departed)
                    /\ arrived' = arrived \ came
                    /\ departed' = departed \ n.left
           /\ tracker' = [seeded |-> TRUE, seen |-> seen]
    /\ Go(Scanner, NextServer(task[Scanner]))
    /\ UNCHANGED <<online, packages, messages, stored, runtime, left, gifts,
                   told, ledger>>

-----------------------------------------------------------------------------
(* The requests that grant, retry and revoke.                              *)

Run(t) ==
    /\ "run" \in Kinds
    /\ task[t].pc = "idle" /\ t # Scanner
    /\ Apart(t)
    /\ Active(runtime) # {}
    /\ \E s \in Servers :
         Go(t, [Idle EXCEPT !.pc = "package", !.server = s, !.cfg = runtime,
                            !.packs = Active(runtime)])
    /\ UNCHANGED <<online, packages, messages, stored, runtime, tracker, left, history>>

\* overrideGrantToAccount, which does not look for a row.
Override(t, v, a) ==
    /\ "override" \in Kinds
    /\ task[t].pc = "idle" /\ t # Scanner
    /\ Apart(t)
    /\ left.acts > 0
    /\ v \in runtime.library \ Broken
    /\ a \notin NoFls
    /\ left' = [left EXCEPT !.acts = @ - 1]
    /\ \E s \in Servers :
         Go(t, [Idle EXCEPT !.pc = "give", !.server = s, !.version = v,
                            !.account = a, !.forced = TRUE])
    /\ UNCHANGED <<online, packages, messages, stored, runtime, tracker, history>>

\* A mutated form: any row is deleted.
RetryAny(status) == status # "none"
\* deleteFailed
Retriable(status) == status = "failed"

\* One statement, on a package's row or on a message's.
Deletable(status) == \/ "retry" \in Kinds /\ Retriable(status)
                     \/ "revoke" \in Kinds /\ status # "none"

ReleasePackage(k) ==
    /\ k[1] = Default
    /\ Deletable(packages[k])
    /\ left.acts > 0
    /\ left' = [left EXCEPT !.acts = @ - 1]
    /\ packages' = [packages EXCEPT ![k] = "none"]
    /\ ledger' = [ledger EXCEPT !.released[k] = @ + 1]
    /\ UNCHANGED <<online, messages, stored, runtime, tracker, task, gifts,
                   told, arrived, departed, misled>>

ReleaseMessage(k) ==
    /\ k[1] = Default
    /\ Deletable(messages[k])
    /\ left.acts > 0
    /\ left' = [left EXCEPT !.acts = @ - 1]
    /\ messages' = [messages EXCEPT ![k] = "none"]
    /\ ledger' = [ledger EXCEPT !.releasedMsg[k] = @ + 1]
    /\ UNCHANGED <<online, packages, stored, runtime, tracker, task, gifts,
                   told, arrived, departed, misled>>

-----------------------------------------------------------------------------
(* The configuration: several statements to save, several to load, and no  *)
(* transaction around either.                                              *)

Configuring == {"putRow", "clear", "insert", "activate", "apply",
                "getRow", "getTables", "answer"}
ApartConfig(t) ==
    "configs" \in Overlap \/ \A u \in Tasks \ {t} : task[u].pc \notin Configuring

Bodies == {c \in Config : /\ "enabled" \in Edits \/ c.enabled = FirstConfig.enabled
                          /\ "message" \in Edits \/ c.message = FirstConfig.message
                          /\ "presence" \in Edits \/ c.presence = FirstConfig.presence
                          /\ \/ "packages" \in Edits
                             \/ c.library = Versions /\ c.active = FirstActive}

\* handlePutWelcomeConfig: an enabled package must be valid.
Put(t, c) ==
    /\ "put" \in Kinds
    /\ task[t].pc = "idle" /\ t # Scanner
    /\ ApartConfig(t)
    /\ left.acts > 0
    /\ c.enabled => Active(Built(c)) \cap Broken = {}
    /\ left' = [left EXCEPT !.acts = @ - 1]
    /\ Go(t, [Idle EXCEPT !.pc = "putRow", !.cfg = Built(c)])
    /\ UNCHANGED <<online, packages, messages, stored, runtime, tracker, history>>

PutRow(t) ==
    /\ task[t].pc = "putRow"
    /\ stored' = [stored EXCEPT !.enabled = task[t].cfg.enabled,
                                !.message = task[t].cfg.message,
                                !.presence = task[t].cfg.presence]
    /\ Go(t, [task[t] EXCEPT !.pc = "clear"])
    /\ UNCHANGED <<online, packages, messages, runtime, tracker, left, history>>

Clear(t) ==
    /\ task[t].pc = "clear"
    /\ stored' = [stored EXCEPT !.library = {}, !.active = {}]
    /\ Go(t, [task[t] EXCEPT !.pc = "insert"])
    /\ UNCHANGED <<online, packages, messages, runtime, tracker, left, history>>

Insert(t) ==
    /\ task[t].pc = "insert"
    /\ \E v \in task[t].cfg.library \ stored.library :
         stored' = [stored EXCEPT !.library = @ \cup {v}]
    /\ UNCHANGED <<online, packages, messages, runtime, tracker, task, left, history>>

Activate(t) ==
    /\ task[t].pc = "insert"
    /\ task[t].cfg.library \subseteq stored.library
    /\ stored' = [stored EXCEPT !.active = task[t].cfg.active]
    /\ Go(t, [task[t] EXCEPT !.pc = "apply"])
    /\ UNCHANGED <<online, packages, messages, runtime, tracker, left, history>>

\* A statement fails: what was written stays, the runtime is not touched.
SaveFails(t) ==
    /\ task[t].pc \in {"putRow", "clear", "insert"}
    /\ Fault("save")
    /\ Go(t, Idle)
    /\ UNCHANGED <<online, packages, messages, stored, runtime, tracker, history>>

Apply(t) ==
    /\ task[t].pc = "apply"
    /\ runtime' = task[t].cfg
    /\ Go(t, Idle)
    /\ UNCHANGED <<online, packages, messages, stored, tracker, left, history>>

\* handleGetWelcomeConfig reads the store and makes it the runtime.
Get(t) ==
    /\ "get" \in Kinds
    /\ task[t].pc = "idle" /\ t # Scanner
    /\ ApartConfig(t)
    /\ Go(t, [Idle EXCEPT !.pc = "getTables",
                          !.cfg = [stored EXCEPT !.library = {}, !.active = {}]])
    /\ UNCHANGED <<online, packages, messages, stored, runtime, tracker, left, history>>

GetTables(t) ==
    /\ task[t].pc = "getTables"
    /\ Go(t, [task[t] EXCEPT !.pc = "apply",
                             !.cfg = Built([task[t].cfg EXCEPT !.library = stored.library,
                                                               !.active = stored.active])])
    /\ UNCHANGED <<online, packages, messages, stored, runtime, tracker, left, history>>

LoadFails(t) ==
    /\ task[t].pc = "getTables"
    /\ Fault("load")
    /\ Go(t, Idle)
    /\ UNCHANGED <<online, packages, messages, stored, runtime, tracker, history>>

-----------------------------------------------------------------------------
\* The keys of services that are given and not yet recorded.
Unrecorded == {Receiver(t) : t \in {u \in Tasks : task[u].pc = "record" /\ ~task[u].forced}}
UnrecordedMsg == {Receiver(t) : t \in {u \in Tasks : task[u].pc = "told"}}
Plus(f, ks) == [k \in Keys |-> f[k] + IF k \in ks THEN 1 ELSE 0]

\* dune-admin stops and is started again: nothing in memory survives.
Crash ==
    /\ Fault("crash")
    /\ task' = [t \in Tasks |-> Idle]
    /\ tracker' = Unseeded
    /\ runtime' = Built(stored)
    /\ ledger' = [ledger EXCEPT !.lost = Plus(@, {k \in Unrecorded : packages[k] = "none"}),
                                !.lostMsg = Plus(@, UnrecordedMsg)]
    /\ UNCHANGED <<online, packages, messages, stored, gifts, told, arrived, departed,
                   misled>>

GameStep == \E s \in Servers, a \in Accounts : Login(s, a) \/ Logout(s, a)

ScanStep(t) == \/ List(t) \/ NextPackage(t) \/ LastPackage(t)
               \/ NextAccount(t) \/ LastAccount(t)
               \/ Give(t) \/ Record(t) \/ TellNot(t) \/ Tell(t) \/ RecordTold(t)

ScannerStep == \/ StartScan \/ EndScan \/ Notice
               \/ \E s \in Servers : Tick(s)
               \/ ScanStep(Scanner)

ConfigStep(t) == \/ PutRow(t) \/ Clear(t) \/ Insert(t) \/ Activate(t) \/ Apply(t)
                 \/ GetTables(t)

RequestStep(t) == ScanStep(t) \/ ConfigStep(t)

FaultStep(t) == \/ ListFails(t) \/ CheckFails(t) \/ RecordFails(t)
                \/ RecordToldFails(t) \/ SaveFails(t) \/ LoadFails(t)

OperatorStep == \/ \E t \in Requests : \/ Run(t) \/ Get(t)
                                       \/ \E c \in Bodies : Put(t, c)
                                       \/ \E v \in Versions, a \in Accounts : Override(t, v, a)
                \/ \E k \in Keys : ReleasePackage(k) \/ ReleaseMessage(k)

Next == \/ GameStep
        \/ ScannerStep
        \/ \E t \in Requests : RequestStep(t)
        \/ \E t \in Tasks : FaultStep(t)
        \/ OperatorStep
        \/ Crash

Spec == Init /\ [][Next]_vars

\* The goroutine and the requests under way go on; nobody has to log in, act
\* or fail.
FairSpec == /\ Spec
            /\ WF_vars(ScannerStep)
            /\ \A t \in Requests : WF_vars(RequestStep(t))

-----------------------------------------------------------------------------
(* Properties                                                              *)

\* Every variable has its type.
TypeOK ==
    /\ online \in [Servers -> SUBSET Accounts]
    /\ packages \in [Keys -> Status] /\ messages \in [Keys -> Status]
    /\ stored \in Config /\ runtime \in Config
    /\ tracker \in Tracker
    /\ \A t \in Tasks : /\ task[t].server \in Servers /\ task[t].todo \subseteq Servers
                        /\ task[t].cfg \in Config
                        /\ task[t].seen \subseteq Accounts
                        /\ task[t].packs \subseteq Versions /\ task[t].version \in Versions
                        /\ task[t].accounts \subseteq Accounts \ NoFls
                        /\ task[t].pc \in Granting \cup Configuring \cup {"idle", "tick", "notice"}

Zero == [k \in Keys |-> 0]

PackageLedger == INSTANCE GrantLedger WITH
    open <- [k \in Keys |-> packages[k] = "none" /\ k \notin Unrecorded],
    served <- gifts, forced <- ledger.forced,
    released <- ledger.released, lost <- ledger.lost

MessageLedger == INSTANCE GrantLedger WITH
    open <- [k \in Keys |-> messages[k] = "none" /\ k \notin UnrecordedMsg],
    served <- told, forced <- Zero,
    released <- ledger.releasedMsg, lost <- ledger.lostMsg

\* Packages are granted as GrantLedger says: the scanner and the run request
\* (welcomePackageScanOnce, "grants the package to each eligible account
\* exactly once") give a package only while it has no row, and it gets none
\* again only because an operator retried or revoked it, or because the row
\* was never written.
PackagesKept == PackageLedger!Spec

\* The companion message of a package is sent as GrantLedger says ("called at
\* most once per (flsID, version)").
MessagesKept == MessageLedger!Spec

\* Both ledgers are kept.
GrantsKept == PackageLedger!Spec /\ MessageLedger!Spec

\* Nobody is sent the message of the day, or announced as having left, more
\* often than they logged in or out (observeJoinsLeaves; "so a dune-admin
\* (re)start does not re-fire on-join/on-leave actions").
NoticedOncePerVisit == misled = {}

\* A package in force reaches who stays online: an account with an FLS id that
\* is online for good, while the package is enabled and active for good, gets
\* its row (runWelcomePackageScanner goes over every server at every tick, past
\* listings and look-ups that fail).
Settled ==
    \A s \in Servers, v \in Versions \ Broken, a \in Accounts \ NoFls :
       <>[](a \in online[s] /\ runtime.enabled /\ v \in Active(runtime))
          => <>[](packages[<<s, v, a>>] # "none")

\* Whoever reads the configuration: with no request under way the scanner works
\* with what is stored (handlePutWelcomeConfig saves, then applies).
RuntimeIsStored ==
    (\A t \in Tasks : task[t].pc \notin Configuring) => runtime = Built(stored)
=============================================================================
