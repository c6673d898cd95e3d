# dune-admin: TLA+ verification project

dune-admin is the administration panel of a self-hosted *Dune: Awakening*
server: one Go process (`src/cmd/dune-admin`, `src/internal/marketbot`) that
serves a web interface, reads and edits the game's PostgreSQL database, sends
commands to the game over RabbitMQ, drives the host through one of four control
planes (AMP, kubectl, docker, local) and runs a number of background loops of
its own. What it must remember is in one SQLite file.

Many request handlers are one query and one answer. What is hard to get right,
and hard to test, is the rest: goroutines on tickers that give things to
players, restart servers and trade on the market, while operators edit the same
rows through requests, while a configuration change starts a second incarnation
beside the first, while the game server holds its own copy of what is edited,
and while every call to the game may fail, or succeed without an answer. That is
what the modules here are about.

Contents: [inventory](#1-inventory), [plan](#2-plan), [modules and
code](#3-modules-and-code), [runs](#4-runs), [fairness](#5-fairness),
[proofs](#6-proofs), [what is only
model-checked](#7-what-is-only-model-checked),
[where the code does not keep its word](#8-where-the-code-does-not-keep-its-word),
[what is not modelled](#9-what-is-not-modelled). To repeat a check:

    tlc -config BattlepassOperator.cfg Battlepass
    tlapm BattlepassProofs.tla

## 1. Inventory

### How the parts meet

* **One SQLite handle** (`store.go`): a pool of connections on one file with a
  write-ahead log and a busy timeout (a single connection only for `:memory:`).
  SQLite runs one writing statement or transaction at a time, and a reading one
  sees the state between two of them; nothing excludes another goroutine
  *between* two statements of a handler or of a loop. This is the grain of
  atomicity of every module; a busy timeout is one of the failures.
* **The game database** is another process that players change all the time.
  Each query or update of it is a step; a call may fail, or land and then fail.
* **Broker and control plane** calls are slow, fire-and-forget, or both.
* **Loops** are started by `main.go` (welcome scanner, cache warmer, restart and
  backup schedulers), by the engines (events: poll, backfill, retry; battlepass:
  scan, grant loop), by requests (restore job, update watcher, shutdown timer,
  market bot) and by Discord. A change of configuration cancels a context and
  starts a new loop; nobody waits for the old one.

### Components

For each: the state it keeps, its operations, what is hard, what makes it
correct.

**Battlepass** (`battlepass_engine.go`, `battlepass_grant_engine.go`,
`battlepass_grant_ledger.go`, `battlepass_store.go`, `handlers_battlepass.go`,
`deferred_grant.go`). *State:* the tier catalogue; a claim per tier and account
(baseline, earned, granted); a marker "watched unsatisfied"; a grant ledger with
status, attempts and time of the next attempt. *Operations:* the scan (signals,
markers, claims, enqueue), the grant loop (list, settled?, tier, offline?,
award, seal), manual grants of one tier or of all, demote and purge, catalogue
edits and reseeds, applying the configuration. *Hard:* all of these interleave
statement by statement; a player who is online defers a grant for hours; a
failure counts and a deferral does not; a crash can fall between payment and
record. *Correct:* a claim is paid at most once, granted means paid, progress
that predates the server is never paid (issue 297), no row is stranded between
"pending" and "exhausted".

**Live events** (`events_engine.go`, `event_store.go`, `handlers_events.go`).
*State:* event definitions; one award claim per event and account with status,
attempts and last error. *Operations:* poll, startup backfill, retry loop — one
of each per server — manual grant, reset, edit, delete, enable. *Hard:* a reward
is several calls and one may fail in the middle; the text of the last error is
the only record of where; all servers share one ledger keyed by account numbers
that are per server; the announcement precedes the record. *Correct:* no part
twice, none skipped, an announced winner has the reward, announced once.

**Scheduled restarts** (`scheduled_restart.go`, `handlers_scheduled_restart.go`,
`schedule_store.go`). *State:* a schedule row (enabled, lead, watermark
`last_fired`) and weekly rules per server; `warnedFor` in memory. *Operations:*
one goroutine ticks through all servers: fire, warn or nothing; update and
skip-next requests. *Hard:* every writer loads the whole schedule and writes it
back; a load is two queries; an unreadable schedule reads as the disabled
default; one server's restart command blocks the rest. *Correct:* each
occurrence fires once or was skipped, is warned of first, skipped ones stay
quiet, only edits edit.

**Market bot** (`internal/marketbot`, `market_bot_lifecycle.go`,
`handlers_market_bot.go`). *State:* its listings and its payments in the game
database, a reconstruction of the game's clock, the runtime configuration and
its state file. *Operations:* buy tick, list tick, start, stop, restart,
cleanup, quota, disable. *Hard:* players, expiry and cleanup change the exchange
between its statements; the clock is learned from its own listings; a stop in
the middle of a tick. *Correct:* quota and one price per key, each order paid
once and its payment kept, the bot is enabled exactly when the operator left it
so, the market stays stocked.

**Welcome packages** (`welcome_package.go`, `welcome_store.go`,
`handlers_welcome.go`). *State:* packages, grants keyed (character id, version,
account), granted or failed; the configuration in the store and the one in
memory. *Operations:* scan of the online players (exists? give, insert), run,
override, retry, revoke, reading and writing the configuration. *Hard:* the
scanner and a run request overlap; items are given before the row and the error
of the insert is dropped. *Correct:* a package reaches an account once per
version, and reaches whoever stays online.

**Presence, message of the day, region broadcasts** (`presence.go`, `motd.go`,
`region_broadcast.go`). *State:* one set of accounts seen at the last scan.
*Operations:* difference of two scans, whispers. *Hard:* one tracker serves the
ticks of all servers. *Correct:* a join or a leave is noticed once.

**Backups** (`scheduled_backup.go`, `db_backup.go`, `handlers_db_backup.go`,
`handlers_scheduled_backup.go`). *State:* a schedule with a watermark, dump
files. *Operations:* watermark, dump, prune to the newest N; create, verify,
delete. *Hard:* a failed dump leaves a partial file that pruning counts; two
dumps of one second write one file; a file being restored can be pruned. *Correct:* the newest complete dumps survive, an
occurrence is dumped once.

**Database restore** (`db_restore_job.go`). *State:* one job. *Operations:*
check, stop the game servers, restore, read the result. *Hard:* nothing
coordinates it with an operator's start. *Correct:* a job that says so has
restored; no game runs on the database while it is replaced.

**Countdown and delayed shutdown** (`handlers_rmq.go`). *State:* one armed
timer. *Operations:* arm, supersede, cancel, fire. *Hard:* a timer that has
expired but waits for the lock, while another is armed. *Correct:* what fires is
what was last asked for, what is cancelled does not fire.

**AMP update watcher** (`control_amp.go`). A goroutine that polls an update to
its end and then restarts the instance, whatever was decided meanwhile.

**Server registry and connections** (`server_registry.go`, `server_selector.go`,
`servers_store.go`, `connection.go`). *State:* the registered servers and their
order, the active one, process-wide aliases of its connection and control plane.
*Operations:* add, edit, reconnect, activate, delete. *Hard:* reconnects
overlap; the aliases are several variables that are not written together.
*Correct:* the aliases belong to the active server, a replaced connection has no
user, a restart brings the same servers back.

**Items, characters, progression, journeys** (`db.go`, `handlers_players.go`,
`handlers_storage.go`, `handlers_character_backups.go`,
`progression_presets.go`). *State:* the game's tables, and the game server's own
copy of them while the player is connected. *Operations:* give, edit, repair and
delete items; delete, back up and restore a character; experience, skills,
keystones, tracks; journey nodes, contracts, tags, reputation. *Hard:* several
statements per request, each of which may fail; the game writes its copy back at
logout; a plan is made from rows that change before it is applied. *Correct:*
nothing is lost or doubled, a listed backup is good, totals add up, side effects
of a node come with it, the page shows what is stored.

**SQLite store and migrations** (`store*.go`, `config_import.go`, `*_columns.go`,
`*_migration.go`). *State:* tables, markers of the steps that are done, files of
older versions. *Operations:* a boot of some thirty steps, each of which may
fail or be the last one before a crash. *Hard:* what is retried must not undo
what was saved since. *Correct:* everything arrives, nothing saved is lost.

**Discord bot, status embeds, commands** (`discord.go`, `discord_status.go`,
`handlers_discord*.go`). *State:* the shared session and its cancel function,
the commands registered at Discord, message ids per channel, loops per server.
*Operations:* apply the configuration (stop, start), the watcher that closes a
session, the status loops, slash commands. *Hard:* two applies overlap; an old
watcher clears the new session; a tick makes slow calls between two accesses to
the store. *Correct:* one session when enabled, one embed per channel, a command
acts with the right of its user.

**Settings of game servers** (`handlers_server_settings.go`,
`handlers_director.go`). *State:* INI files with a managed region, AMP's own
configuration. *Hard:* read, merge, write; edits by hand beside it. *Correct:*
the last save is what is shown, hand-written lines stay.

**Authentication** (`auth_*.go`, `app_permissions_store.go`,
`handlers_config.go`). *State:* signed cookies, the permissions matrix in the
store and in memory, users, the configuration. *Hard:* a snapshot of roles ages;
a save of the configuration re-initializes everything. *Correct:* a request is
judged by what was last saved; saves keep what they do not show.

**Read caches and warmer**, **play sessions**, **give packs**, **self-update**,
**log ring**, **diagnostics**, **web proxies**, **control planes and
executors**, **the remaining game database commands**, **front end**, **database
routines and deployment**: sequential, pure input and output, or external; see
[what is not modelled](#9-what-is-not-modelled).

## 2. Plan

The order follows the damage a mistake does: first what gives things to players
and cannot be taken back, then what stops servers, then what edits a player's
character, then what only looks wrong.

| step | modules | runs | theorems |
|---|---|---|---|
| 1 | `Battlepass` | two | `BattlepassProofs`: five |
| 2 | `EventClaims` with `EventClaimsMC` | one, three scenarios | `EventClaimsProofs`: seven |
| 3 | `RestartScheduler` | two | `RestartSchedulerProofs`: five |
| 4 | `MarketBot` | one | `MarketProofs`: four |
| 5 | `WelcomePackages`, which implements `GrantLedger` | one | `WelcomeProofs`: four |
| 6 | `Maintenance`: dumps, restore, countdown, update watcher | two | `MaintenanceProofs`: six |
| 7 | `PlayerItems`, `Characters`, `Progress`, `Journeys` with `JourneysMC` | one each (the last two together) | `CharactersProofs`: four; the others rest on TLC (section 7) |
| 8 | `StoreMigration`, `Servers`, `DiscordBot`, `StatusEmbeds`, `StatusReport`, `DiscordCommands`, `ServerSettings`, `Access`, together in `Panel` | one | `PanelProofs`: eight |

What the plan leaves open are theorems about `PlayerItems` (`MendedStays`),
`Progress` and `Journeys` (`JourneysSound`) and about the store (`StoreKept`) and the
report (`ReportSound`) of `Panel`; section 7 says what stands in the way.


## 3. Modules and code

Every module has the same shape. A goroutine or a request is a record with its
place in the code (`pc`) and what it has read and not yet used; a step is what
the code does between two points at which another goroutine, the game or a
crash can come between. Names are the source's. `Faults`, `Races`, `Overlap`,
`Kinds`, `Handlers`, `Environment` name what may happen in a run; a history
variable (`paid`, `fired`, `expected`, `wanted`...) records what a property
needs to know of the past and is never read by a guard. A definition marked
"Bug:" or "A mutated form:" is a plausible mistake that a run must notice; the
specification does not use it. `PROJECT.json` maps each definition to its
lines.

### Battlepass

`catalog`, `claim`, `seen` and `ledger` are the four tables. `satisfied` and
`online` are the game's: progress, login and logout can happen at any step.
`engine[e]` is one *incarnation*: the context and the settings that
`applyBattlepassEngine` started its two goroutines with. A configuration change
cancels the live one and starts another; a cancelled goroutine still finishes
the player or the claim it is at, so two scans and two loops can be in the
middle of the same rows. `scan[e]` and `loop[e]` hold the goroutines' positions
and everything they have read and not yet used; `op[o]` does so for a request.

* A scan reads the signals of the online players (`ScanSignals`), the markers
  (`ScanSeen`), then per player the claims (`ScanPlayer`), writes markers and
  claims one by one (`ScanMark`, `ScanClaim`), enqueues what was earned
  (`ScanPending`, `ScanEnqueue`) including the retroactive pass, and leaves the
  player at the first error (`ScanLeave`).
* The grant loop lists what is due (`LoopList`) and per claim asks: settled?
  (`LoopSettled`), tier on? (`LoopTier`), offline? (`LoopOffline`), then pays
  (`LoopAward`, `LoopAwardLost`), marks claim and ledger (`LoopMark`,
  `LoopSeal`), or defers (`LoopRetry`), or counts a failure (`LoopFail`).
* `paid` counts payments (2 stands for more than one); `merit` is the set of
  pairs the engine may pay: those seen unsatisfied, or recorded with award-past
  on.

### EventClaims

A *task* is one goroutine (poll, `reconcile` for the backfill, retry) of one
server and one incarnation, or one manual grant. It carries the events it has
listed, the row it has loaded, the rest of the reward and the mark it will
record. A reward is a sequence of parts; a failure stores only kind and name of
the part (`Label`), as `last_error` does, and `Remainder` is `sliceRewardSpec`.
All tasks share `claim`, because the code opens one event store. `MaxCount` caps
the two history counters. A behaviour follows one *scenario*, chosen at its
start: which events are races, which pay past deeds, what players and operators
do, what may fail. `EventClaimsMC` gives three: `Leaving` (players leave while
grants fail, claims fall due once they have), `Coming` (players come, calls fail
or lose their answer, the engine is stopped and started, the backfill pays) and
`Operated` (every request of an operator, failing writes and look-ups, crashes).

### RestartScheduler

Time is `0..MaxTime`; a weekly rule is the set of its occurrences in it. A task
is the scheduler goroutine or a request; each goes through `LoadRow`,
`LoadRules` (or `LoadFails`, which yields the disabled default) to its decision,
and through a second load to its save, exactly as `getScheduledRestartConfig`
and `setRestartLastFired` do. `DueAt` and `WarnAt` are `restartDecision`.
`fired`, `warned`, `skipped`, `offered` and `since` are histories. `Overlap =
FALSE` restricts a run to behaviours in which a request and a tick do not
overlap; `Prompt = TRUE` to those in which the scheduler keeps pace with the
clock.

### MarketBot

`orders` are the bot's listings, `selling` the one order of each player, and
`clock` the game's clock. `lag` is how far the bot's reconstruction is behind
it. A tick is `StartTick`, then either the buy steps (`SelectOrders`, `Buy` or
`PassOver` per order, `EndBuy`) or the list steps (`Prepare`, `Load`,
`DeleteStale`, `Insert`); `bot.plan` is what it computed from what it has read.
`Purchase`, `Expire`, `Withdraw`, `Collect` and `ListOrder` are players and
game. `cfg` is the configuration in memory, `saved` the state file, `wanted`
what an operator last asked for (a pause, once a restart has failed or a crash has
cut a restart or a cleanup short: both begin with a pause that is stored). Items and stacks are taken to go with their
order. Two things the model shows that the code does not say: while a listing of
the bot lives, the bot's clock stands still at the creation of its newest one,
so the clock lags by up to a listing's life and then lists what has expired
already; and for the same reason the bot's own removal of expired listings
practically never removes any.

### WelcomePackages, and the GrantLedger it implements

`task[Scanner]` is the goroutine of `runWelcomePackageScanner`; it goes through
all servers (`Tick`, `List`), then package by package and account by account
(`NextPackage`, `NextAccount`): is there a row, `Give`, `Record` the outcome;
then the message (`Tell`, `RecordTold`) and the notices (`Notice`). A
request runs, overrides, retries or revokes; `put` and `get` save and load the
configuration statement by statement. `tracker` is the one baseline that all
servers share. A request writes its rows under the default server whatever
server it gives on (`Scope`), as `welcomeStoreDB` does.

`GrantLedger` says what such a ledger promises and nothing of how: a key is
served of the component's own accord only while it is open, serving closes it,
and it opens again only because an operator releases it or the record of the
service is lost. The mapping: a key is *open* when it has no row and no task is
about to write one; *served* is `gifts` (for the messages `told`); *forced*
counts overrides; *released* retries and revocations; *lost* the inserts that
failed or that a crash forestalled. `PackageLedger` and `MessageLedger` are the
two instances, `GrantsKept` states both.

### Maintenance

One container runs the game and its Postgres. `files` is the backup directory in
the order of modification times, `dump[d]` what became of each file. A dump's file
is named for the second the dump begins in, and no lock keeps a scheduled and a
manual dump apart: `BeginDump` takes the `Name` of the second before while it lasts
(`sameSecond`, ended by `SecondEnds`), the two then write into a `shared` file, and
a complete dump that another one of its second empties, overwrites or removes is
`lost` (`Spoilt`, and `BackupEnds`, which removes what is not an archive).
`Dumping` is the scheduler's goroutine: `Tick`, the watermark (`Mark`,
`Marked`), the dump, `Prune`; a manual backup or a deletion is a request.
`Restoring` is the job: check, stop, look for the file, `pg_restore`, how its
output is read. A countdown request is shown to the players, then arms a timer
(`Arm`) or retracts one; `Expire` and `Fire` are apart because the callback of
`time.AfterFunc` waits for a lock. The watcher of an update polls (`Poll`) with a
grace and a cap counted in polls and then cycles the container. `Command` is the
operator. `boot` lets a dump or a restore notice that the container went away
under it.

### PlayerItems, Characters, Progress, Journeys

The game server owns a copy of what is edited. `PlayerItems` has the rows
(`items`), the game's copy (`live`) while the player is online, and the commands
under way to the game (`commands`). A give chooses its route (`Route`), reads the
inventory and plans (`PlanGive`), then applies the plan (`ApplyGive`); an edit
and a repair check that the player is offline before they write. `expected`
counts the units there should be.

`Characters` has the accounts, states, actors and bases of one player as the
game's procedures treat them, the backup files and their records; `store` says
whether the store of the records could be opened at boot: without it a capture
succeeds with a file only (`CreateRecord`), and a safe delete goes on. A delete of
the safe kind captures first, for the account found before and the one found again
by its FLS id (`ResolveAgain`, `Export`); a restore resolves the old account, imports and
cleans the actors. Each step may fail. `Races` names what the code leaves to
chance: a login under a request, two captures in one second, and a backup removed
while a request relies on it (`Needed`: any safe delete, and the restore that has
read it).

`Progress` has the sheet (experience, points, skills, intel), keystones and
tracks; `Journeys` extends it with nodes, tags, contracts, reputation and its
component, the cache of the journeys page. Each statement is a step; the player
logs in, plays and logs out between them (`Races` names where that may fall into
a request). `JourneysMC` is a small tree of nodes.

### StoreMigration, Servers, DiscordBot, StatusEmbeds, StatusReport, DiscordCommands, ServerSettings, Access

* `StoreMigration` is the boot: `pc` and `pos` go through its steps in the order
  of the code; a step happens, fails and is passed over, or the process stops.
  `held` says what each table holds, `marks` which markers stand, `wanted` what
  operators saved last.
* `Servers`: the registry (`servers`, `order`, `active`), the contexts made so
  far, the three aliases, the proxies, the rows, the persisted choice. Each
  method of the registry is a step, as its lock is held no longer.
* `DiscordBot`: `held` is the cancel function, `bot` the sessions, `posted` the
  session the posters use, `applies` the goroutines that register commands. A save
  starts the next session at once, while the one it stopped may still connect or
  close; when it closes it clears `posted`, whoever's session that is by then, and
  `displaced` remembers whose it was.
* `StatusEmbeds`: `loops` with their place, `stored` and `messages` on the two
  sides, `failing` and `told`. `StatusReport`: what an embed is computed from.
* `DiscordCommands`: a command from its channel to the answer, with registrations
  and roles that change between two of its reads.
* `ServerSettings`: a file is, per key, the operator's line and the managed
  lines; a save reads, merges, writes; AMP regenerates its files at a start.
* `Access`: cookies are snapshots; the matrix is in the store and in memory;
  saving the configuration is three steps (`StoreSave`, `ApplySave`,
  `FinishSave`) that re-initialize what the store holds. A save is a statement per
  table and no transaction: one that fails, and answers 500, leaves the password's
  row as it was or written (`promised` holds what may then be stored).

`Panel` puts these eight into one exploration. They keep memory of their own and
take turns: a behaviour follows one part and leaves the others at their start.

## 4. Runs

State counts are distinct states.

| run | asks | shows | states |
|---|---|---|---|
| `battlepass_operator` | does any request, save, lost answer, failed write or crash break the retry policy, the order of a claim's states, or issue 297? | `RowsConsistent`, `PreexistingNeverPaid`, `ClaimLifecycle` | 2 189 958 |
| `battlepass_live` | with auto-grant left on: paid once, granted only if paid, and in the end? | `PaymentsExact`, `EarnedSettles` | 14 956 |
| `events` | three scenarios of section 3: does a retry resume where the reward failed, and does every failed reward end? | `RowsConsistent`, `ResumesWhereFailed`, `Rewarded`, `PaidInFull`, `PendingSettles` | 431 445 |
| `restarts_edits` | are all restarts fired, and only those, while schedules are edited? | `FiredWasScheduled`, `NoneMissed` | 1 697 000 |
| `restarts_faults` | two servers, late ticks, failing reads, crashes, skips: does one fire twice, or a skipped one? | `FiredOnce`, `SkippedStaysQuiet` | 6 856 000 |
| `market` | do quota, prices, payments and the operator's wish survive every order of ticks, requests, purchases and expiries, and is the market served? | `ListingsSound`, `SellersPaid`, `WishKept`, `Served` | 135 808 |
| `welcome` | scans, requests, one failure of any kind: a package once per version, a notice once per visit, and everybody served? | `GrantsKept`, `NoticedOncePerVisit`, `Settled` | 641 972 |
| `maintenance` | any three of dumps (of one second or not), restores, countdowns, an update and commands at once, with deletions, schedule edits and two failures | `BackupsSound`, `RestoreSound`, `CountdownSound`, `UpdateHandled` | 1 327 342 |
| `items` | two requests beside a player who logs in, uses, logs out | `Conserved`, `MendedStays`, `GiveFits` | 604 462 |
| `characters` | deletes, captures, restores, removals, two at a time, with failing steps | `BackupsKept`, `SafetyNet`, `OrphansCleaned` | 1 771 988 |
| `progress` | all edits of progression and journeys, one request at a time beside a player | `SheetSound`, `JourneysSound`, `SkillsHandled` | 755 902 |
| `panel` | the eight parts of `Panel` | `StoreKept`, `RegistryInStep`, `DiscordSound`, `ReportSound`, `SettingsSound`, `AccessSound` | 1 053 429 |

`CHECK_DEADLOCK FALSE` stands where counters of a run may all be used up; the
other runs have no deadlock.

A property is checked, and proved, under what its run or theorem admits; where a
weaker environment is needed, that is a disagreement, and section 8 names it:

* `PaymentsExact` excludes manual grants, lost answers and crashes: after a
  payment whose answer or whose record is lost, the code cannot tell and pays
  again.
* `ResumesWhereFailed`, `PaidInFull` and the parts of `Rewarded` name their
  scenarios: a retry that meets the poll loop at a claim, one cut short, or one
  whose call landed without an answer delivers again.
* `FiredOnce` and `SkippedStaysQuiet` exclude overlapping requests and failing
  saves; `NoneMissed` is stated for a scheduler that keeps pace (`Prompt`): a
  restart command that blocks for longer than the grace period makes the
  occurrences of the other servers lapse. That is how the single goroutine is
  built.
* `WishKept` and `SellersPaid` exclude requests that overlap each other and
  orders withdrawn during a buy tick; `ListingsSound` failing deletions.
* `GrantsKept` excludes two granting tasks at a time and runs for another server
  than the default one; `NoticedOncePerVisit` several servers.
* `BackupsSound` excludes a schedule edit that overlaps a firing and a failing
  read or write of the row; of dumps of one second it allows each but one to be
  lost, as the code loses them;
  `RestoreSound` a process listing that fails; `CountdownSound` two overlapping
  broadcast requests.
* `Conserved` excludes a login between check and write (as `MendedStays` does),
  commands that reach nobody and deletions under a pending plan.
* `SafetyNet`, `BackupsKept` and the properties of `Progress`, `Journeys` and
  the parts of `Panel` exclude what `Races` and `Faults` of section 8 name.

### Bounds, and why they are enough

* One tier and one account (battlepass), one event and one account (events; two
  accounts in an unlisted run, section 8), one package and one account
  (welcome), one key and one seller (market): what is kept per pair interacts
  only through shared snapshots and queues, and the theorems lift these bounds
  for all five components, as they do for `Maintenance` and `Characters`.
* One incarnation of an engine in the runs; the theorems that do not name
  `OneEngine` or `LeftAlone` hold for any number of overlapping ones.
* One or two requests at a time: the races found need two actors, a loop and a
  request or two requests.
* `MaxAttempts` is 1 or 2 for the battlepass and the code's 3 for the events: the
  policy compares with the bound and adds one, so one step below and the bound
  itself are both met.
* `MaxTime` of 3 to 6 with `Grace = 1`, `DefaultLead = 1`: occurrences with the
  grace period, the lead, both or neither between them all occur. `Life = 2`
  with `MaxTime = 3`: a listing can expire, be repriced and be replaced.
* `MaxFaults` of 1 or 2 and `MaxBegun = 3`, `MaxAsked` of 2 or 3: every single
  failure at every place, under up to three activities. `Maintenance` starts with
  no file: a dump, a second one of the same second or not, and what then goes
  wrong with either are three. Larger instances were explored
  where they are feasible (section 8). For `Characters` three requests are too few
  to see a restore of a removed backup overlap a safe delete; that takes four, and
  `MaxAsked = 4` (without `delete` and `plain`, one patch, failing records:
  2 193 300 states) holds with the invariants of the proofs besides.
* Two levels of experience, one keystone, one contract, three nodes of which one
  is below another: below, beside and shared are the cases the code tells apart.
* `CommandFaults`, `SettingRaces` and the like name what may happen in one part
  of `Panel`; a run leaves out what its question is not about, never what would
  make it fail silently.

## 5. Fairness

* `Battlepass`: both goroutines of an incarnation run on tickers, so each keeps
  stepping while it can (weak fairness of `Scan`, `Loop`), and a backoff elapses
  (`Elapse`). Enqueueing (`ScanEnqueue`) is strongly fair: an error makes the scan
  leave the player, and the claim is that it does not do so at every tick.
  `EarnedSettles` is conditional on one incarnation staying on with auto-grant
  and on players being logged out from some time on.
* `EventClaims`: every started task keeps stepping and a backoff elapses (weak);
  nothing is asked of players, operators or faults. `PendingSettles` holds
  although every grant may fail, since failures are counted and exhaust the row.
* `MarketBot`: ticks are carried through (weak); timers start both kinds of tick
  again and again, inserts and purchases do not fail for ever (strong, since a
  tick may always choose the other kind or meet a failing transaction); requests
  come to their end.
* `WelcomePackages`: the scanner and the requests keep stepping (weak). `Settled`
  asks nothing of players but to stay.
* `Maintenance`: watchers keep polling and restart (weak); the update's task need
  not end.
* The other modules state no fairness; their properties are safety, `NoneMissed`
  included, which is a bounded statement.

For each liveness property a mutated definition (a dropped retroactive pass, a
listing that lists nothing, a rule that rejects, a watcher without a cap) breaks
it under the same fairness.

## 6. Proofs

All proofs are for arbitrary constants under the named assumptions of the
modules (which TLC evaluates in every run that extends them) and the hypotheses
a theorem states. A hypothesis restricts what may happen, never what a component
does; each one is needed, and section 8 has the run that shows it. Where a proof
needs induction over the natural numbers it takes the least counterexample
(`LeastNat`, from the well-foundedness of `<`).

**BattlepassProofs** (`ConstantAssumption`: attempt bound at least 1 and kinds as
listed; nothing about how many incarnations, requests or faults).

* `TypeCorrect`. One lemma per group of actions.
* `RetryPolicyExact`: `[]RowsConsistent`. The invariant `RowsInv` adds that a
  row that does not exist has no attempts. `LedgerSteps` reduces every action to
  one of the few things that can happen to a row (created, failed, deferred,
  healed, sealed, forgotten, unchanged), and each keeps `RowsInv`; in particular
  it does not matter what a loop had read before.
* `ClaimsMoveForward`: `ClaimLifecycle` for every step, by the same reduction
  for claims.
* `PreexistingProgressNeverPaid`: `[]PreexistingNeverPaid` (issue 297). Not
  inductive by itself: a scan acts on markers and claims read earlier, a loop on
  a queue listed earlier, a request on a sum read earlier. `MeritInv` therefore
  says of each *reading* that it has merit (`ScanMerit`, `LoopMerit`, the pairs
  of a request), that markers and earned or granted claims have it, and that
  what is unsatisfied has it. Since merit never shrinks (`MeritGrows`), an old
  reading stays good.
* `EachPaidOnce`: `LeftAlone` implies `[]PaymentsExact`. `LeftAlone` is one
  incarnation, no grants by hand, and failures that have had no effect (an answer
  lost, or a crash between payment and record, makes the code pay again).
  `PaymentInv` says of an attempt under way whether it has paid, by its place
  (`AttemptInv`), and that what is paid is on record in the ledger or still in
  its attempt's hands (`OnRecord`). Demotions, purges, catalogue edits and
  configuration changes may come between any two steps of the attempt.

**EventClaimsProofs** (`ConstantAssumption`).

* `TypeCorrect`: `TypeOK` together with `Shape`, which relates a task's place to
  what it carries (a retry takes up only claims it has listed).
* `RetryPolicyExact`: `[]RowsConsistent` for any number of servers, engines and
  operators. `RowSteps` reduces every step to what it does to a row.
* `WinnersAreRewarded` and `WaitingClaimsPaidInFull` (`PaidInFull`), with one
  server: `PaidInv` says that each marker - in a row, in a listing, in a task's
  hands - points at a place of the reward before which everything has been
  delivered (`Sound`, `Marked`), also when labels repeat: the code resumes at the
  first part with the label, which is never after the one that failed.
* `OnlyDeedsPay`: what is on its way to being paid was earned (`EarnedInv`). It is
  stated for milestones; a race is won by whoever stands first.
* `PaidAndAnnounced` (`Rewarded`): with one engine besides. `TurnsInv` says who
  may hold a claim: those of players who are out belong to the retry loop, the
  others to the poll loop; an announced claim is granted or about to be.
* `RetriesResume` (`ResumesWhereFailed`), for rewards whose labels differ
  (section 8 shows why): for each claim there is one number `n` such
  that exactly the first `n` parts have landed, once, and whoever acts next - the
  row, a listing, a task - continues with the part after them (`Progress`).

**RestartSchedulerProofs** (`TimeAssumption`, `RulesAssumption`,
`TaskAssumption`).

* `TypeCorrect`, with overlap and every fault.
* `OnlyScheduledFires`: `~Overlap` implies `[]FiredWasScheduled`. `OneAtATime`
  says that of all tasks only one is under way; then what that one has read is
  what is stored (`Reading`), so the decided occurrence is an offered one
  (`TargetOffered`).
* `EachFiredOnce`: under `OnceAssumption` (no overlap, the watermark's save does
  not fail, no failing read where schedules are edited) `[]FiredOnce`. The
  invariant `OnceInv`: what is fired is behind the stored watermark *and* behind
  the clock (`FiredBehind`); a task that has read the watermark has read the
  stored one, and one about to move it moves it beyond everything fired
  (`Holding`); the command follows its mark (`Firing`). The clock is needed for
  skips: a skip may move the watermark *back*, below an earlier skip, but never
  below now. Reads may fail, and crashes and late ticks may come anywhere.
* `SkippedStaysSkipped`: with nobody editing the rules besides (`NoEdits`)
  `SkippedStaysQuiet`, a property of every step. `QuietInv`: the rules are those
  of the start or gone, so whatever a skip chooses is still the next one to come
  (`NextUp`), and whoever is about to move the watermark moves it past all that
  is skipped. If rules may be edited it is false: an occurrence skipped later can
  be an earlier one (section 8).
* `EveryRestartFires`: under `KeepsPace` (ticks keep pace with the clock, are not
  overlapped, cut short or blind; nobody skips) `[]NoneMissed`, whatever is edited
  and whichever saves and broadcasts fail. `PaceInv`: what is loaded is what is
  stored (`Loaded`), a watermark is an occurrence that was fired or is about to
  be (`Watermark`), and what came since the last edit is fired once the tick is
  through with its server (`Kept`).

**MarketProofs** (`TimeAssumption` and the module's other assumptions).

* `TypeCorrect`, together with `Times` (the reconstructed clock, and every
  expiration time the bot writes, stays within a listing's life of the true
  window) and the finiteness of each key's listings.
* `ListingsStaySound`: `DeletesSucceed` implies `[]ListingsSound`. `ListingInv`
  needs the clock: all live listings carry one expiration time (`OneExpiry`),
  none of them is past on the bot's own clock (`NonePast`), so a plan's deletions
  are exactly the listings at another price, and at each place of the tick what
  is kept plus what is pending is within the quota. Insertions are counted with
  the cardinality lemmas of the library.
* `SellersArePaid`: when actors take turns (`TakesTurns`) `[]SellersPaid`.
* `WishIsKept`: when requests take turns `[]WishKept`: between the two halves of
  a cleanup the bot is off and the request remembers what was wanted (`WishInv`).
  Crashes come anywhere; one in the middle of a restart or a cleanup leaves the bot
  paused, as was stored, and never running against a stop.

**WelcomeProofs** (`SetAssumption`, `BoundAssumption`).

* `TypeCorrect`.
* `GrantsAreKept` (`GrantsKept`): the refinement, step by step: every action of
  `WelcomePackages` is a step of the ledger or leaves it alone, for packages and
  for messages. `GrantInv` is what it needs: only one granting task at a time, and
  what a task is about to give has no row yet (`Justified`). Hypotheses:
  `TakesTurns` and `OneScope`.
* `GivenOnce`: what the ledger promises of its `log`, of `gifts` and `told`: each
  key at most once plus what was forced, released or lost. Each step of the
  refinement keeps it (`PackageStepOnce`, `MessageStepOnce`).
* `NobodyMisled`: with one server `[]NoticedOncePerVisit`. `NoticeInv` relates
  three sets at two times: who is here, whom the scan in progress saw, whom the
  baseline holds; every difference is covered by those who arrived or departed.

**MaintenanceProofs** (`BoundAssumption`).

* `TypeCorrect`.
* `CountdownsKept`: `OneAtATime` (broadcast requests do not overlap, and no timer
  waits for the lock while another is armed) implies `[]CountdownSound`.
  `CountdownInv`: only the timer in the handle may be running or about to fire, a
  revoked one is stopped (`RevokedStopped`), and one request at most is between its
  two halves, with a timer of its own that the players see (`OneTeller`).
* `RestoresKept`: while the process listing works (`ListingWorks`)
  `[]RestoreSound`.
* `RetentionKept`: `[]NewestKept`, without a hypothesis, so with dumps of one second:
  `DumpsInv` says that files are numbered without a gap, that the listing shows a file
  once and what is being written has begun, and `DumpStep` reduces every action to
  what it does to files (begins, ends, deletes, prunes or leaves them). Whether a
  prune may take a file depends on what was complete when it listed; `Retained` says that either no
  complete dump was pruned yet or at least `KeepN` of the newest are accounted for.
  Counts of files use the cardinality lemmas of the library.
* `BackupsKept`: when a PUT of the schedule and a firing do not overlap and the row
  can be read and written (`WatermarkSafe`) `[]BackupsSound`. `OnceInv` says where
  the watermark is while it moves: stored, in the one firing, or in a PUT.
* `UpdateLeftToEnd`: with one update and no other AMP task (`OneUpdate`)
  `[]UpdateNotCut`, the safety half of `UpdateHandled`: a watcher that has seen a
  task has seen its own (`WatcherInv`).

**CharactersProofs** (`BoundAssumption`, `KindAssumption`).

* `TypeCorrect`. What a request carries depends on its place in the code; `Shape`
  is the union of these record types, and one lemma per action (`WriteStep`,
  `ImportStep`, ...) says what the action makes of its request, the files and the
  records. The three invariants below rest on these lemmas only.
* `LeftoversCleaned` (`OrphansCleaned`), without a hypothesis, so with logins,
  removals and failures at any place. `OrphanInv`: a row without an account is
  owed or some request is about to clean; the account a restore found was issued
  before every later one (`Before`), so cleaning its actors misses the living.
* `ListedBackupsKept`: with no two captures in one second `[]BackupsKept`.
  `PathInv`: each file has one name at most, a record or a request between file and
  record; otherwise a removal could unlink what another record names.
* `NeverWithoutBackup`: `Alone` (nobody logs in under a request, removes a backup
  in use or captures twice in a second) implies `SafetyNet`. Not inductive by
  itself: the level a safe delete exported need not be the level it removes, since
  an overlapping restore may have put an earlier one back. `NetInv` says of every
  safe delete that the level is covered by a listed backup or by its own capture
  (`Netted`), and of every restore that the backup it read is still listed
  (`Backed`); when the store of the records could not be opened, a file covers it and
  no removal can take it away (`StoreInv`). This proof attempt is how the missing case of `Needed` was found.

**PanelProofs** (`PanelAssumption`). The parts of `Panel` take turns, so each
theorem is about one part's own steps, for any number of its actors.

* `AccessIsSound`: `AccessHypothesis` implies `[]AccessSound`. The hypothesis: saves do
  not overlap, nothing is saved by the CLI beside a running panel, no saved matrix is
  empty, and the look-up of the guild's owner works (section 8 has a run for each);
  and no stored user has the configured admin's name. `DataInv`: one change at most is
  between its halves (`TakesTurns`), and what it carries is what the store and the
  memory hold when it is through (`MatrixInv`, `PasswordInv`). `SessionInv`: what a
  Discord session says of its user was true at some time within the cookie's age; the
  history `seen` only grows under a change of roles (`MoreSeen`) and is shifted with the
  clock. `RequestsJudged` follows because more roles never mean fewer capabilities
  (`CapsGrow`).
* `SettingsAreSound`: `SettingsHypothesis` implies `[]SettingsSound`. The hypothesis: saves,
  edits by hand and regenerations take turns, a file that is there can be read and is
  written whole, defaults can be read, and the arrays have sections of their own. `SettingsInv`
  relates five things for every key: where it lives on its plane (`PlaceInv`), what
  the request under way has read (`ReadInv`), wants (`WantInv`) and has written
  (`WroteInv`), and what the operator wrote by hand (`TouchedInv`). `ShownIsView` is
  the lemma about the page: what a reader is shown, merged from the file, the
  control plane and the director in the code's order, is the view those
  invariants speak of (`View`).
* `RegistryIsInStep`: `RegistryHypothesis` implies `[]RegistryInStep`. The hypothesis:
  requests that may move the aliases take turns, the last server is left alone
  (`KeepOne`), and the panel starts with one; any number of additions may overlap,
  connections fail and the process stop anywhere. `RegistryInv` has a part per relation that has to survive
  both: the rows with the contexts and the order that list them (`LiveInv`), ids that
  only rise, so that none comes back (`RowsInv`), what each request relies on at its
  place in the code (`TurnsInv`, `RequestAt`), the aliases, in step with the active
  server but where the request that moves them says so (`AliasInv`), the persisted choice
  (`MetaInv`) and the bots (`BotInv`). `SortedExists` and `ListedIs`, by least
  counterexample over the number of rows, say that a start lists the stored rows in
  rising order; `Booted` says what a start makes of them.
* `CommandsAreSound`: `CommandsHypothesis` (no edit comes under a command, the balance can
  be read back after a grant, no player changes name) implies `[]CommandsSound`. `CommandAt` says of each step of a command what is still
  true of what it read before. `GrantsAreJustified` is its half that holds without the
  last hypothesis, so with characters renamed and deleted in between.
* `BotIsSound`: `BotHypothesis` (saves do not overlap, no guild is edited or applied while
  a bot connects, applies do not overlap) implies `[]BotSound`. A save does not wait for
  the bots of earlier ones, which may still connect or close. `LifeInv`: one save at
  most is between stopping and starting, every session but the one a stop would
  cancel is cancelled, and a running one has the shared session unless it was
  `displaced`. `GuildsInv`: of every guild whose commands differ from the
  configuration it names who will bring it in line - the apply under way, one that
  waits, or the start of a session (`Brings`, `Clears`).
* `EmbedsAreSound`: `EmbedsHypothesis` (nothing restarts the loops under a tick, no link is
  edited under a connecting bot, ids load and save, no stop between a post and its
  save) implies `[]EmbedsSound`. `RunningInv`: a loop that is not its server's own is
  stopped and at rest. `LinkInv`: the loops are those the links ask for, or an edit is
  pending. `EmbedInv`: of the embeds of one server and guild one at most can still be
  edited, and it is the stored one or the one about to be stored (`PostAt`, `Saving`);
  that a save of a registered server's id cannot fail is part of it. `OrderIs` (finitely
  many servers have an order), `Restarted` and `Afresh` say what a restart makes of the
  loops.
* `DiscordIsSound`: under these three hypotheses together `[]DiscordSound`.

## 7. What is only model-checked

* Liveness (`EarnedSettles`, `PendingSettles`, `Served`, `Settled`, the second half
  of `UpdateHandled`) and everything that depends on fairness: the proof system
  has no rule for `ENABLED`.
* `Conserved` and `GiveFits` of `PlayerItems`: sums over sequences and plans,
  defined by recursion over data, which the provers cannot unfold for every
  input. `SheetSound` and `ReportSound` count in the same way.
* `MendedStays` of `PlayerItems`, `JourneysSound` and `SkillsHandled` of `Progress`
  and `Journeys`: they speak of what a fold over a player's inventory, skills or tags
  returns, again recursion over data.
* `StoreKept`: no theorem. The migration's order of tables is a long sequence of
  distinct places with a fold in each.

No module uses a recursive operator; recursion is by functions and the folds of
the community modules.

## 8. Where the code does not keep its word

What the properties of section 4 exclude, and what else was met on the way. Each
line is a configuration: the constants of the module's `.cfg` with the given
changes, and one property that TLC finds violated (the invariant or property and
`SPECIFICATION Spec` are all the file needs). They are not among the runs, so
that every run is one to keep green; where a comment or a document of the
repository promises the property, it is quoted.

### Battlepass (`BattlepassLive.cfg`)

| changes | property | what happens |
|---|---|---|
| `Handlers={"grantTier"}, Faults={}` | `PaidAtMostOnce` | a manual grant between the loop's settled check and its award pays twice ("delivery ... must be skipped", `battlepass_grant_engine.go:71`) |
| `AutoGrantModes={FALSE}`, two tiers, `Handlers={"grantAll"}, Faults={}` | `GrantedIsPaid` | a claim earned while grant-all pays is marked with the others, not in the sum |
| `Handlers={"purge"}, Faults={}` | `EarnedWasWatched` | a scan between the two DELETEs of a purge re-earns a claim from a marker about to go ("MUST go together", `handlers_battlepass.go:820`) |
| `Faults={}` | `AwardOnlyEarned` | a demote during an attempt does not stop its delivery |
| `Handlers={}, Faults={}` | `AwardOnlyOffline` | the player logs in between the offline check and the update |
| `Handlers={"purge"}, Faults={}`, `FairSpec` | `EarnedSettles` | a purge keeps the granted ledger row: the claim, earned again, is never enqueued ("safe and self-healing", `battlepass_engine.go:98`) |

`AutoGrantModes` and `AwardPastModes` both `{TRUE, FALSE}`, `LevelTiers={}`,
`Handlers={"demote","purge"}` passes `PaymentsExact`, `ExhaustedNotOnline` and
`GrantedRowTerminal`.

### Live events (`Events.cfg`, `Rewards <- OneReward`, `Operators={}`, `MaxAttempts=2` unless said)

| changes | property | what happens |
|---|---|---|
| `Scenarios <- Retried` | `DeliveredOnce` | the poll finishes a reward after the retry loop has listed the claim |
| `Scenarios <- Unresolved` | `DeliveredOnce` | a retry that cannot resolve the player overwrites the error that says where the reward stopped |
| `Scenarios <- Stopped, MaxAttempts=3` | `DeliveredOnce` | the engine is stopped while a retry resolves its player: the same overwrite |
| `Scenarios <- OnlyComing, MaxAttempts=3` | `AlwaysAnnouncedOnce` | a retry fails after the poll loop has granted and announced: the claim reopens and is announced again |
| `Rewards <- SameTemplate, Scenarios <- Failing` | `DeliveredOnce` | two items of one template: the retry resumes at the first |
| `Scenarios <- Failing` | `ClosedComplete` | the backfill marks a claim that waits for a retry as granted |
| `Scenarios <- Untroubled` | `NoPastDeedAnnounced` | the poll starts together with the backfill and announces an old deed ("never announces past deeds", `events_engine.go:381`) |
| `Scenarios <- Elapsing, Servers={s1,s2}` | `OnlyTheDeedPays` | every server's retry loop lists the claims of all |

With `Accounts={a1,a2}, Scenarios <- OnlyLeaving` all of `Rewarded` and
`ResumesWhereFailed` hold (849 520 states).

### Scheduled restarts (`RestartsEdits.cfg`, `MaxTime=5, Faults={}` unless said)

| changes | property | what happens |
|---|---|---|
| `Overlap=TRUE` | `FiredOnce` | an edit writes back the watermark it loaded before a restart fired |
| `Faults={"save"}, Requests={}` | `FiredOnce` | the watermark is not saved and the restart fires at every tick of the grace period ("Watermark first", `scheduled_restart.go:254`) |
| `Faults={"load"}, Requests={}` | `OnlyEditsEdit` | a failing read while the watermark is set saves the disabled default |
| `Overlap=TRUE, Requests={"skip"}` | `SkippedStaysQuiet` | a firing tick overwrites the skip of the next occurrence |
| `Requests={"skip","update"}, FirstRules={3}, RuleSets={{2,3}}, MaxTime=3, Prompt=FALSE` | `SkippedStaysQuiet` | an occurrence added and skipped after a later one was skipped takes the watermark back, and the later one fires |
| `Requests={"skip","update"}, FirstRules={4}, RuleSets={{2}}` | `NoneMissed` | a skip also covers earlier occurrences of rules added later |
| none | `FiredAfterWarning` | a schedule saved just after one of its times fires unannounced |
| `Overlap=TRUE, FirstRules={4}, RuleSets={{2}}` | `FiredWasScheduled` | a tick reads the row before and the rules after a save |

`Faults={"offline"}, Requests={"skip"}, Servers={s1,s2}` passes
`FiredAfterWarning` and `WarnedOnce`: with a schedule that is not edited, every
restart fired was announced before, once.

### Market bot (`Market.cfg`, `MaxOrders=1, Prices={1}, Faults={}, Requests={}` unless said)

| changes | property | what happens |
|---|---|---|
| none | `LearnsExactly` | the clock is learned anew from the same listing at every tick and stands still ("the offset is exact", `exchange.go:197`) |
| none | `ListedAlive` | the clock is a listing's life behind: all that is listed has expired |
| `PlayerLives={3}` | `ClockNotAhead` | a player's listing longer than the bot's own sets the clock ahead |
| `Overlap=TRUE` | `PaidOnce` | an order withdrawn between query and transaction is paid for |
| `Overlap=TRUE, Operators={o1,o2}, Requests={"stop","cleanup"}` | `WishKept` | a stop during a cleanup is undone at its end |
| `Requests={"stop"}` | `QuietWhenStopped` | a stopped bot lists: the tick under way goes on, a new loop starts with one |
| `MaxOrders=2, Prices={1,2}, Faults={"delete"}` | `OnePrice` | stale listings are not deleted and new ones inserted all the same |
| `MaxTime=1, SelectLimit=1, Sellers={p1,p2}`, `FairSpec` | `NoneUnbought` | the query for player orders is limited and unordered |

`Faults={"insert","init"}, MaxOrders=3, PlayerLives={1,2}, Quotas={1,2}` with all
requests passes `ListingsSound`, `SellersPaid`, `ClockNotAhead` and `WishKept`.

A crash in the middle of a restart or a cleanup leaves the bot off, because the
pause both begin with is stored; `WishKept` counts that as a pause asked for.

Seen while reading the market bot, and not modelled: `LoadState` ignores a state
file with the zero values of three of its fields; the error of a commit is
ignored, and a listing is then recorded as written by the bot although the
comment says "Recorded only on commit"; a lowered quota never removes listings.

### Welcome packages (`Welcome.cfg`, `Faults={}, Edits={}` unless said)

| changes | property | what happens |
|---|---|---|
| `Overlap={"grants"}, MaxActs=0` | `PackagesKept` | the scanner and a run request both find no row and both give |
| `Servers={s1,s2}, Kinds={"run"}, FirstOn={"enabled"}` | `PackagesKept` | a run for another server records its grants under the default one |
| `Servers={s1,s2}, Kinds={}` | `NoticedOncePerVisit` | two servers share one baseline: each scan takes the players of the other for gone |
| `Overlap={"configs"}, Requests={r1,r2}, Kinds={"put","get"}, Edits={"enabled"}, FirstOn={"enabled"}` | `RuntimeIsStored` | reading the configuration makes what was read the runtime: a save that ends in between is undone until the next read |

With notices switched off and on again (`Edits={"presence"}`, two accounts, one
without an FLS id, failing lists, saves and loads) `NoticedOncePerVisit` holds.

### Maintenance (`Maintenance.cfg`; counters raised only for what a line needs)

| changes | property | what happens |
|---|---|---|
| `Kinds={"restore"}, Faults={"status"}` | `GameOff` | a process listing that fails is taken for an empty one: the restore begins under a running game |
| `Kinds={"restore","start"}, MaxBegun=4` | `GameOff` | the game is started between the job's check and its restore ("The caller must ensure the game is stopped", `pgRestoreCommand`) |
| `Kinds={"backup"}, Faults={"dump"}, MaxDumps=4` | `KeepsBackups` | failed dumps count among the newest `keep_n` files and push out complete ones |
| `Kinds={"backup"}, Faults={}, KeepN=2, MaxDumps=4` | `KeepsBackups` | a manual dump of the second of a complete one overwrites it, and one that fails its check removes it |
| `Kinds={"restore","delete"}` | `NotStoppedForNothing` | the game servers are stopped for a file that is not there ("Never touch game servers over a bad filename") |
| `Kinds={"announce","cancel"}, Overlap={"expiry"}`, two requests | `ArmedIsShown` | a timer that expired waits for the lock while another is armed, then clears the new one's handle and fires |
| the same with `Overlap={"countdown"}` | `ArmedIsShown` | players see the countdown of the one request, the timer of the other is armed |
| `Kinds={"update"}, MaxUpdates=2` | `UpdateNotCut` | the watcher of a second update sees the task of the first come and go, and restarts before its own ran |
| `Kinds={"put"}, Overlap={"schedule"}, MaxDumps=4, MaxOccurrences=2` | `BackedUpOnce` | a schedule edit writes the watermark back and the occurrence is dumped again |

### Items (`Items.cfg`)

| changes | property | what happens |
|---|---|---|
| `Kinds={"give"}` | `WithinSlots` | two gives are planned on the same inventory: each fits, together they do not |
| `Kinds={"put","delete"}, MaxAsked=4, MaxSlots=3` | `OneEachPlace` | a container's row is placed at the number of rows: after a deletion that place is taken |
| `Kinds={"give","delete"}, DeleteAnytime=TRUE` | `Conserved` | a plan tops up a stack that is gone: the update hits no row, the answer says given |
| `Kinds={"give"}, Faults={"drop"}` | `Conserved` | a command to the game reaches nobody |
| `Kinds={"give"}, Faults={"fls"}` | `Conserved` | an FLS id that cannot be resolved counts as offline: the database is written under the playing game |
| `Kinds={"give"}, Faults={"status"}` | `Conserved` | an online check that fails counts as online: the command goes to a player who is not there |
| `Kinds={"give"}, Graded={ammo,gear}` | `Conserved` | graded items are written to the database also while the player is online: a stack they top up is overwritten by the game's copy |
| `Kinds={"give","update"}, LoginRace=TRUE` | `Conserved` | the player logs in between check and write; so do repairs (`Kinds={"give","repair"}`, `MendedStays`) |

### Characters (`Characters.cfg`)

| changes | property | what happens |
|---|---|---|
| `Requests={r1}, Leaks={"delete","import"}, Faults={}` | `NoGhosts` | the actors are cleaned for the account found before the import: those an earlier delete left stay |
| `Kinds={"backup","restore"}, Faults={}` | `NoGhosts` | so do those of an overlapping restore |
| the same with `Requests={r1}` | `Findable` | backups are listed by account id, and a restore gives another: none is listed any more |
| `Races={"login"}` or `{"drop"}` | `SafetyNet` | a player who logs in between safety backup and delete loses what was achieved since; a backup dropped between record and delete is missed |
| `Races={"drop"}, Kinds={"safeDelete","backup","restore","drop"}, Faults={}, MaxAsked=4` | `SafetyNet` | so is the one a restore has read: it brings a level back that no backup holds any more, under a safe delete of a later one |
| `Races={"second"}` | `BackupsKept` | two captures in one second write one file: removing one removes the other's |

### Progression and journeys (`Progress.cfg`)

| changes | property | what happens |
|---|---|---|
| `Kinds={"grantKeys"}, Races={"online"}` | `TotalAddsUp` | keystones are granted while the player plays; the sheet written at logout does not count them |
| `Kinds={"awardXP"}, Races={"login"}` | `AwardsKept` | an award lands after the login and is overwritten at logout |
| `Kinds={"awardXP"}, Races={"overlap"}`, two requests | `AwardsKept` | two awards read the same amount |
| `Kinds={"starter"}, Races={"overlap"}`, three jobs | `SwitchClears` | two switches leave two starters stacked |
| `Kinds={"unlock"}, Sharing={"preset"}` | `SideEffects` | an unlock completes nodes whose tags its preset lacks |
| `Kinds={"complete","reset"}, Sharing={"errand"}` | `SideEffects` | a reset takes a tag that another completed node brings as well |
| `Kinds={"rep"}, Faults={"statement"}` | `ComponentMirrors` | reputation written, component not |
| `Kinds={"complete","fetch"}, Faults={"statement"}` | `CacheFresh` | a change that failed half-way does not drop the cache |
| the same with `Races={"overlap"}` instead | `CacheFresh` | a page stores what it queried before the change |
| `Kinds={"contract"}, Races={"online"}, MaxPlayed=3` | `NeverLowered` | what the player gains between read and write is undone |
| `Kinds={"awardTrack"}, Losses={1}` | `TrackInRange` | a negative award goes below nothing |
| `Kinds={"resetJob"}` | `StarterOpen` | the starter class is reset, its tag stays |
| `Kinds={"awardIntel","awardXP"}` | `IntelByLevel` | an award of experience sets the intel to what the level is worth |

### Servers (`Servers` with `MaxServers=3, FirstServers=2, Requests={r1,r2}, Kinds={"add","edit","reconnect","activate","delete"}, Overlap=FALSE, KeepOne=TRUE, Faults={"connect","row","crash"}, MaxContexts=4, MaxFaults=1`)

| changes | property | what happens |
|---|---|---|
| `Overlap=TRUE` | `AliasesFollowActive`, `OneBot`, `RestartBringsBack` | two requests that re-point the aliases overlap: aliases of two servers; a bot without an owner; the persisted choice is another server |
| `Kinds={"edit"}` | `ProxiesFollowActive` | an edit of the active server does not rebuild its proxies |
| `Kinds={"delete"}, Faults={"row"}` | `DeletedStaysAway` | the row is not deleted, the failure is logged, a restart brings the server back |
| `FirstServers=0, Kinds={"add"}` | `AliasesFollowActive` | the first server added is active, but nothing points at it |
| `Kinds={"reconnect"}, Faults={"connect"}` | `BotRuns` | a reconnect that fails has already stopped the bot of the connection it leaves in place |

As given, and with `Overlap=TRUE, MaxServers=2, FirstServers=1, KeepOne=FALSE,
MaxContexts=3` for `RegistryOK`, the module passes.

### Store and migrations (`Panel.cfg`'s constants, module `StoreMigration`)

| changes | property | what happens |
|---|---|---|
| `FileRows={0}` or `CatalogRows={1,2}` | `MigrationCompletes` | rows without a server, and packs of a stand-alone store (`store.go:382`), are not imported; events of two servers collapse |
| `MaxFaults=2` | `EditsKept` | a registration withdrawn between two failing boots comes back |

Reading the same steps: a conversion or decomposition that fails once loses the
packages, because `dropVestigialBlobColumns` runs all the same
(`store_remodel_migration.go:21`); an import cut short is retried with a `DELETE
FROM servers` that cascades; a torn snapshot is kept for ever.
`MaxFaults=2, MaxEdits=1` passes `MigrationCompletes` (2 342 928 states).

### Discord (`DiscordBot`, `StatusEmbeds`, `StatusReport`, `DiscordCommands`, constants as in `Panel.cfg`)

| changes | property | what happens |
|---|---|---|
| `Races={"saves"}` | `OneBotRuns` | two saves each start a session, and the first one's is not cancelled any more |
| `Races={"connect"}` or `{"applies"}` | `CommandsMatchGuilds` | a bot that connects, or an apply that comes late, registers the guilds of before the edit |
| `Faults` with `"load"`, `"save"` or `"crash"` | `OneEmbed` | the id of the posted message is lost: a second embed |
| `Races={"tick"}` | `LoopsFollowLinks`, `OneEmbed`, `FailureTold` | an edit falls into a tick that goes on with the old link |
| `Races={"connect"}` | `LoopsFollowLinks` | an edit while the bot connects starts no loop |
| `Custom=TRUE` or `Drift=TRUE` | `ReportSound` | an operator's name that ends like a generated one gives two lines one label; players come and go between the two readings |
| `CommandFaults` with `"balance"` | `GrantsAnswered` | a grant that went through is answered as failed |
| `MaxEdits=2` | `ShowsMine` | a registration is by name: another character of that name is shown |
| `Races={"command"}` | `GrantsJustified` | link, roles or player change under a command |

`OneBotRuns` lets a running bot be without the shared session when the one it
replaced closed after it had connected (`discordShutdownWatcher` clears the session
whoever's it is): it then posts nothing until the next save. That is reached in
`panel`.

In the fallback of a report the lines of the maps count all characters, although
they are called players. Larger instances pass: `MaxWrites=6` (288 561 states),
two servers with restarts (166 232), two guilds (75 096), three uses (229 360).

### Settings (`ServerSettings`, constants as in `Panel.cfg`)

| changes | property | what happens |
|---|---|---|
| `Races={"saves"}`, two requests | `SettingsShown` | each writes the file it read (`HandKept` holds) |
| `Races={"hand"}` | `SettingsShown`, `HandKept` | an edit by hand between read and write is lost |
| `Races={"elsewhere"}` | `SettingsShown` | the operator writes the key into another file than the one its saves go to |
| `Faults={"read"}` | both | a file that cannot be read is taken for empty and replaced ("Hand-edits above the BEGIN marker are preserved verbatim") |
| `Faults={"tear"}` / `{"default"}` / `{"clobber"}` | `SettingsShown` (the last: both) | a region without its end marker; defaults that cannot be read; AMP regenerating over a save |
| `Blank=TRUE`, `RawForms={"shared"}`, `RawForms={"plain"}`, `HandKeys={"+mod"}` | `SettingsShown` | an empty default, arrays that share a section, raw lines that name a plain setting, array lines by hand |

`MaxSaves=3` passes (2 278 360 states).

### Access (`Access`, constants as in `Panel.cfg`)

| changes | property | what happens |
|---|---|---|
| `Races={"saves"}` | `MatrixKept`, `PasswordKept` | a save of other settings writes back what it loaded |
| `Races={"cli"}` | `PasswordKept` | the running server saves its own copy over `--set-password` |
| `MayClear=TRUE` | `MatrixKept` | a cleared matrix is seeded again at the next start or save ("gets true deny-by-default for everyone") |
| `Faults={"owner"}, GuildOwner=m1` | `RequestsJudged` | an owner look-up that fails is taken for "not the owner" |

The endpoints for permissions use the cookie's snapshot as it is.
`GuildOwner=m1` alone (359 749 states) and `MaxEdits=3, Browsers={b1}` (291 115)
pass.

## 9. What is not modelled

The map covers about three tenths of the implementation's lines. What
is left is mostly wide rather than deep:

* *Read caches and warmer*, *play sessions and statistics*: a stale entry goes
  away with its time to live, sessions have one writer per server.
* *Game database commands*: the queries and procedure calls that no component
  above lists - browsing and searching, guilds, bases, blueprints, vehicles, the
  Landsraad, the map; one statement or one procedure of the game each.
* *Control planes and executors*, *battlegroup pages*, *broker commands*, *web
  proxies*: input and output. Their blocking and their failures are choices in
  the modules that use them.
* *Give packs*, *self-update*, *market prices, categories and log*, *log ring*,
  *setup and diagnostics*: sequential.
* *External*: the game's stored procedures (`src/db-routines`), the game server,
  RabbitMQ, Discord; they appear as steps that may fail.
* *Web front end*, generated API documentation (`src/docs`), deployment.
* *Abstracted inside the modelled parts*: amounts, texts, time zones and weekday
  masks, intervals and jitter, prices and categories, item attributes, columns
  nothing reads back.

Of parts modelled "partly", `PROJECT.json` says what is left out.
