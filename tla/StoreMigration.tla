--------------------------- MODULE StoreMigration ---------------------------
(***************************************************************************)
(* The boot of dune-admin up to a loaded configuration: the snapshot of    *)
(* the store, its schema, the import of the stand-alone stores and of      *)
(* config.yaml, the rebuild of the tables that hold rows per server, the   *)
(* steps that move blobs and files into tables of their own, and the copy  *)
(* of the Discord registrations.  Every step is one statement or one       *)
(* transaction; the process may stop between any two, and a step may fail, *)
(* in which case the boot goes on as the code does.  Between boots an      *)
(* operator saves what the panel lets them save.                           *)
(***************************************************************************)
EXTENDS Integers, Sequences, FiniteSetsExt

CONSTANTS Upgrades,    \* what the first boot finds, members of Versions below
          Seeds,       \* servers in config.yaml
          FileRows,    \* scopes of the rows in the stand-alone files
          ScopedRows,  \* scopes of the rows a multi-server store holds
          CatalogRows, \* scopes of its events and tiers
          Kinds,       \* what an operator saves
          Faults,      \* what may fail
          MaxServers, MaxBoots, MaxFaults, MaxEdits

Versions == {"fresh", "flat", "scoped", "files"}
Unscoped == 0             \* a row written before there were several servers
Default == 1              \* defaultServerID
Ids == 1..MaxServers

\* The tables with rows per server, in the order of convertScopedTablesToInt.
Order == <<"grants", "sessions", "welcome", "packs", "events">>
Tables == {Order[k] : k \in 1..Len(Order)}
Blobs == {"welcome", "packs"}
\* Moved by a step of its own, once, unless something is there already.
Singles == {"permissions", "backup", "restart", "guild"}
Features == Blobs \union Singles \union {"links"}
App == 0                  \* what belongs to no server is held here
Places == Ids \union {App}

\* defaultLegacySources, statement by statement.
CopySteps == <<[source |-> "sessions-db", what |-> "sessions"], [source |-> "sessions-db", what |-> "mark"],
               [source |-> "welcome-db", what |-> "grants"], [source |-> "welcome-db", what |-> "welcome"],
               [source |-> "welcome-db", what |-> "mark"],
               [source |-> "packs-db", what |-> "packs"], [source |-> "packs-db", what |-> "mark"]>>
Sources == {CopySteps[k].source : k \in 1..Len(CopySteps)}

VARIABLES pc, pos,    \* the place in the boot
          first,      \* what the first boot found
          snapshot,   \* dune-admin.db.pre-migrate.bak
          changed,    \* the store is no longer what the first boot found
          servers, lastId,   \* the servers table and its sequence
          settings,   \* the app_config tables
          legacy,     \* tables that still have their old shape
          rows,       \* table -> scopes of its rows
          blobs,      \* tables whose JSON columns are still there
          held,       \* feature, place -> what the tables of the feature hold
          marks,      \* meta: the markers "migrated:..."
          wanted,     \* what operators saved last: <<feature, server, content>>
          removed,    \* servers an operator removed
          boots, edits,
          failed,     \* what has failed so far
          clean       \* boots in a row in which nothing failed

store == <<servers, lastId, settings, legacy, rows, blobs, held, marks>>
bounds == <<first, boots, edits, wanted, removed>>
vars == <<pc, pos, snapshot, changed, store, bounds, failed, clean>>

Contents == {"none", "legacy", "defaults", "edit", "cleared"}
Less(m, n) == IF m < n THEN m ELSE n
Files == IF first = "files" THEN FileRows ELSE {}
HasConfig == first # "fresh"

FirstRows(v, t) == CASE v = "flat" -> {Unscoped}
                     [] v = "scoped" -> IF t = "events" THEN CatalogRows ELSE ScopedRows
                     [] OTHER -> {}

Init == /\ first \in Upgrades
        /\ pc = "down" /\ pos = 1 /\ snapshot = "none" /\ changed = FALSE
        /\ servers = (IF first = "scoped" THEN ScopedRows ELSE {})
        /\ lastId = Max(servers \union {0})
        /\ settings = IF first = "scoped" THEN "legacy" ELSE "none"
        /\ legacy = IF first \in {"flat", "scoped"} THEN Tables ELSE {}
        /\ rows = [t \in Tables |-> FirstRows(first, t)]
        /\ blobs = IF first \in {"flat", "scoped"} THEN Blobs ELSE {}
        /\ held = [f \in Features |-> [s \in Places |-> "none"]]
        /\ marks = (IF first \in {"flat", "scoped"} THEN Sources ELSE {})
                      \union (IF first = "scoped" THEN {"config"} ELSE {})
        /\ wanted = {} /\ removed = {} /\ boots = 0 /\ failed = {} /\ edits = 0 /\ clean = 0

At(p) == pc = p
Goes(p) == pc' = p /\ pos' = 1 /\ UNCHANGED <<snapshot, changed, bounds, failed, clean>>
\* The statement of this step fails: the boot goes on at p.
Fault(what) == /\ what \in Faults /\ Cardinality(failed \union {what}) <= MaxFaults
               /\ failed' = failed \union {what} /\ clean' = -1
Fails(what, p) == /\ Fault(what)
                  /\ pc' = p /\ pos' = 1
                  /\ UNCHANGED <<snapshot, changed, store, bounds>>
Skip(p) == Goes(p) /\ UNCHANGED store

-----------------------------------------------------------------------------
(* Before the store is open, and the schema.                               *)

Boot == /\ At("down") /\ boots < MaxBoots
        /\ boots' = boots + 1 /\ clean' = Max({clean, 0})
        /\ pc' = "snapshot" /\ pos' = 1
        /\ UNCHANGED <<snapshot, changed, store, first, edits, wanted, removed, failed>>

StoreExists == changed \/ first \in {"flat", "scoped"}
\* Mutated form of SnapshotOnce: every boot writes the snapshot.
SnapshotEachBoot ==
    IF ~StoreExists THEN snapshot ELSE IF changed THEN "late" ELSE "pristine"
\* backupFileOnce: an existing snapshot is never written again.
SnapshotOnce ==
    IF snapshot # "none" \/ ~StoreExists THEN snapshot
    ELSE IF changed THEN "late" ELSE "pristine"
TakeSnapshot == /\ At("snapshot") /\ pc' = "schema" /\ pos' = 1
                /\ snapshot' = SnapshotOnce
                /\ UNCHANGED <<changed, store, bounds, failed, clean>>
\* The process or the disk stops in the middle of the file.
TearSnapshot == /\ At("snapshot") /\ snapshot = "none" /\ StoreExists
                /\ Fault("tear")
                /\ snapshot' = "torn"
                /\ pc' \in {"schema", "down"} /\ pos' = 1
                /\ UNCHANGED <<changed, store, bounds>>

\* applyUnifiedSchema creates what is missing, in its final shape.
ApplySchema == /\ At("schema") /\ pc' = "copy" /\ pos' = 1 /\ changed' = TRUE
               /\ UNCHANGED <<snapshot, store, bounds, failed, clean>>
\* Without the store the features fall back to files of their own.
OpenFails == /\ At("schema") /\ Fails("open", "bare")

-----------------------------------------------------------------------------
(* migrateLegacyStores: the stand-alone files.                             *)

Copying == CopySteps[pos]
NextCopy == /\ pc' = (IF pos < Len(CopySteps) THEN "copy" ELSE "config")
            /\ pos' = IF pos < Len(CopySteps) THEN pos + 1 ELSE 1
            /\ UNCHANGED <<snapshot, changed, bounds, failed, clean>>
Copied == Copying.source \in marks \/ Files = {}

\* A row without a server gets the next row id where server_id is the whole
\* key, and is ignored where it is one column of several.
RowId(t) == Max(rows[t] \union {0}) + 1
Inserted(t) == (Files \ {Unscoped})
                  \union (IF Unscoped \in Files /\ t \in Blobs THEN {RowId(t)} ELSE {})
CopyTable == /\ At("copy") /\ ~Copied /\ Copying.what # "mark"
             /\ Inserted(Copying.what) \subseteq servers
             /\ rows' = [rows EXCEPT ![Copying.what] = @ \union Inserted(Copying.what)]
             /\ NextCopy
             /\ UNCHANGED <<servers, lastId, settings, legacy, blobs, held, marks>>
MarkSource == /\ At("copy") /\ ~Copied /\ Copying.what = "mark"
              /\ marks' = marks \union {Copying.source}
              /\ NextCopy
              /\ UNCHANGED <<servers, lastId, settings, legacy, rows, blobs, held>>
PassSource == At("copy") /\ Copied /\ NextCopy /\ UNCHANGED store
\* A row of a server there is not: the foreign key ends the import of all.
CopyRefused == /\ At("copy") /\ ~Copied /\ Copying.what # "mark"
               /\ ~(Inserted(Copying.what) \subseteq servers)
               /\ Skip("config")
CopyFails == At("copy") /\ ~Copied /\ Fails("copy", "config")

-----------------------------------------------------------------------------
(* importConfigYAMLIntoStore, its statements one by one.                   *)

MayImport == "config" \notin marks /\ HasConfig
PassImport == At("config") /\ ~MayImport /\ Skip("remodel")

\* DELETE FROM servers takes every row along that refers to a server; the row
\* of the guild itself stays without its link.
Cascade(gone) ==
    /\ rows' = [t \in Tables |-> IF t \in legacy THEN rows[t] ELSE rows[t] \ gone]
    /\ held' = [f \in Features |-> [s \in Places |->
                  IF s \notin gone \/ held[f][s] = "none" THEN held[f][s]
                  ELSE IF f = "guild" THEN "cleared" ELSE "none"]]

ClearServers == /\ At("config") /\ MayImport /\ Goes("sequence")
                /\ servers' = {} /\ Cascade(servers)
                /\ UNCHANGED <<lastId, settings, legacy, blobs, marks>>
ResetSequence == /\ At("sequence") /\ Goes("settings")
                 /\ lastId' = 0
                 /\ UNCHANGED <<servers, settings, legacy, rows, blobs, held, marks>>
SaveSettings == /\ At("settings") /\ Goes("insert")
                /\ settings' = "legacy"
                /\ UNCHANGED <<servers, lastId, legacy, rows, blobs, held, marks>>
InsertServer == /\ At("insert") /\ pos <= Seeds
                /\ lastId' = lastId + 1 /\ servers' = servers \union {lastId'}
                /\ pos' = pos + 1
                /\ UNCHANGED <<pc, snapshot, changed, bounds, failed, clean,
                               settings, legacy, rows, blobs, held, marks>>
MarkImported == /\ At("insert") /\ pos > Seeds /\ Goes("remodel")
                /\ marks' = marks \union {"config"}
                /\ UNCHANGED <<servers, lastId, settings, legacy, rows, blobs, held>>
\* The caller returns at once: the YAML configuration stays in force.
Importing == {"sequence", "settings", "insert"}
ImportFails == /\ (At("config") /\ MayImport) \/ pc \in Importing
               /\ Fails("import", "links")

-----------------------------------------------------------------------------
(* migrateUnifiedRemodel.                                                  *)

First == Min(servers)      \* firstServerID
Remodel == At("remodel") /\ Skip(IF servers = {} THEN "links" ELSE "convert")

ToConvert == {k \in 1..Len(Order) : Order[k] \in legacy}
Converting == Order[Min(ToConvert)]
\* rebuildLegacyServerIDToInt keeps a numeric scope, rebuildCatalogServerIDToInt
\* gives every row to the first server.
Rescoped(s) == IF s = Unscoped THEN First ELSE s
Rebuilt(t) == IF t = "events" THEN {First : s \in rows[t]} ELSE {Rescoped(s) : s \in rows[t]}
\* The key admits one row per server, and the foreign keys hold at the end.
Accepted(t) == /\ t \in {"sessions", "events"} \/ Cardinality(Rebuilt(t)) = Cardinality(rows[t])
               /\ Rebuilt(t) \subseteq servers

ConvertTable == /\ At("convert") /\ ToConvert # {} /\ Accepted(Converting)
                /\ legacy' = legacy \ {Converting}
                /\ rows' = [rows EXCEPT ![Converting] = Rebuilt(Converting)]
                /\ UNCHANGED <<pc, pos, snapshot, changed, bounds, failed, clean,
                               servers, lastId, settings, blobs, held, marks>>
ConvertRefused == At("convert") /\ ToConvert # {} /\ ~Accepted(Converting) /\ Skip("welcome")
ConvertDone == At("convert") /\ ToConvert = {} /\ Skip("welcome")
ConvertFails == At("convert") /\ ToConvert # {} /\ Fails("convert", "welcome")

AfterBlob(f) == IF f = "welcome" THEN "packs" ELSE "permissions"
\* server_id can be read once there is one, and is a number.
Readable(f) == f \notin legacy \/ (first = "scoped" /\ Unscoped \notin rows[f])
MustDecompose(f) == f \in blobs /\ f \notin marks

Decompose(f) == /\ At(f) /\ MustDecompose(f) /\ Goes(AfterBlob(f))
                /\ Readable(f) /\ rows[f] \subseteq servers
                /\ held' = [held EXCEPT ![f] =
                       [s \in Places |-> IF s \in rows[f] THEN "legacy" ELSE @[s]]]
                /\ marks' = marks \union {f}
                /\ UNCHANGED <<servers, lastId, settings, legacy, rows, blobs>>
PassBlob(f) == At(f) /\ ~MustDecompose(f) /\ Skip(AfterBlob(f))
DecomposeRefused(f) == /\ At(f) /\ MustDecompose(f) /\ ~(Readable(f) /\ rows[f] \subseteq servers)
                       /\ Skip(AfterBlob(f))
DecomposeFails(f) == At(f) /\ MustDecompose(f) /\ Fails("decompose", AfterBlob(f))

Following == [permissions |-> "backup", backup |-> "restart", restart |-> "guild", guild |-> "drop"]
\* Permissions belong to the application, the others to the first server.
Place(f) == IF f = "permissions" THEN App ELSE First
\* Any guild counts as there, whichever server it is linked to.
Present(f) == IF f = "guild" THEN \E s \in Places : held[f][s] # "none"
              ELSE held[f][Place(f)] # "none"
\* Nothing is imported over what is there; the marker is set all the same.
Imported(f) == IF ~Present(f) /\ HasConfig THEN "legacy" ELSE held[f][Place(f)]
ImportSingle(f) == /\ At(f) /\ f \notin marks /\ Goes(Following[f])
                   /\ held' = [held EXCEPT ![f][Place(f)] = Imported(f)]
                   /\ marks' = marks \union {f}
                   /\ UNCHANGED <<servers, lastId, settings, legacy, rows, blobs>>
PassSingle(f) == At(f) /\ f \in marks /\ Skip(Following[f])
SingleFails(f) == At(f) /\ f \notin marks /\ Fails("single", Following[f])

\* dropVestigialBlobColumns: whatever became of the steps before it.
DropBlobs == /\ At("drop") /\ "drop" \notin marks /\ Goes("links")
             /\ blobs' = {} /\ marks' = marks \union {"drop"}
             /\ UNCHANGED <<servers, lastId, settings, legacy, rows, held>>
PassDrop == At("drop") /\ "drop" \in marks /\ Skip("links")
DropFails == At("drop") /\ "drop" \notin marks /\ Fails("drop", "links")

-----------------------------------------------------------------------------
(* After the configuration is loaded.                                      *)

\* migrateLegacyDiscordUserLinks: a row that is there stays as it is.
MustCopyLinks == "links" \notin marks /\ servers # {}
PassLinks == At("links") /\ ~MustCopyLinks /\ Skip("seed")
CopyLinks == /\ At("links") /\ MustCopyLinks /\ Goes("linkmark")
             /\ held' = [held EXCEPT !.links[First] =
                    IF @ \in {"none", "cleared"} /\ HasConfig THEN "legacy" ELSE @]
             /\ UNCHANGED <<servers, lastId, settings, legacy, rows, blobs, marks>>
MarkLinks == /\ At("linkmark") /\ Goes("seed")
             /\ marks' = marks \union {"links"}
             /\ UNCHANGED <<servers, lastId, settings, legacy, rows, blobs, held>>
LinksFail == At("links") /\ MustCopyLinks /\ Fails("links", "seed")
LinkMarkFails == At("linkmark") /\ Fails("linkmark", "seed")

\* applyWelcomeConfigFromStore and initGivePacksStore give a server that has
\* no row the defaults: first the row, then what belongs to it.
Seeding == IF pos <= 2 THEN "welcome" ELSE "packs"
NextSeed == /\ pc' = "seed" /\ pos' = pos + 1
            /\ UNCHANGED <<snapshot, changed, bounds, failed, clean>>
NeedsSeed(f) == /\ Default \in servers /\ Default \notin rows[f]
                /\ f \in legacy => first = "scoped"
SeedRow == /\ At("seed") /\ pos \in {1, 3} /\ NeedsSeed(Seeding) /\ NextSeed
           /\ rows' = [rows EXCEPT ![Seeding] = @ \union {Default}]
           /\ UNCHANGED <<servers, lastId, settings, legacy, blobs, held, marks>>
SeedPacks == /\ At("seed") /\ pos \in {2, 4} /\ NextSeed
             /\ held' = [held EXCEPT ![Seeding][Default] = "defaults"]
             /\ UNCHANGED <<servers, lastId, settings, legacy, rows, blobs, marks>>
PassSeed == /\ At("seed") /\ pos \in {1, 3} /\ ~NeedsSeed(Seeding)
            /\ pc' = "seed" /\ pos' = pos + 2
            /\ UNCHANGED <<snapshot, changed, bounds, failed, clean, store>>
Start == /\ At("seed") /\ pos > 4 /\ pc' = "running" /\ pos' = 1
         /\ clean' = IF clean = -1 THEN 0 ELSE Less(clean + 1, 2)
         /\ UNCHANGED <<snapshot, changed, bounds, failed, store>>

\* A kill or a shutdown, anywhere; one that cuts the import or a seed short
\* is one of the faults.
Cut == IF pc \in Importing THEN "import"
       ELSE IF At("seed") /\ pos \in {2, 4} THEN "tear" ELSE "none"
Stop == /\ ~At("down")
        /\ \/ Cut = "none" /\ UNCHANGED <<failed, clean>>
           \/ Cut # "none" /\ Fault(Cut)
        /\ pc' = "down" /\ pos' = 1
        /\ UNCHANGED <<snapshot, changed, store, bounds>>

-----------------------------------------------------------------------------
(* What operators save while the panel runs.                               *)

Edits(kind) == /\ At("running") /\ kind \in Kinds /\ edits < MaxEdits /\ edits' = edits + 1
               /\ UNCHANGED <<pc, pos, snapshot, changed, first, boots, failed, clean>>
\* The last thing saved of a feature replaces what was wanted before.
Wants(f, s, c) == /\ wanted' = {w \in wanted : <<w[1], w[2]>> # <<f, s>>} \union {<<f, s, c>>}
                  /\ UNCHANGED removed

\* saveWelcomePackagesColumns, saveGivePacksColumns
SavePackages(f, s) == /\ Edits(f) /\ f \notin legacy /\ s \in servers /\ Wants(f, s, "edit")
                      /\ rows' = [rows EXCEPT ![f] = @ \union {s}]
                      /\ held' = [held EXCEPT ![f][s] = "edit"]
                      /\ UNCHANGED <<servers, lastId, settings, legacy, blobs, marks>>
\* savePermissionMatrix, saveBackupSchedule, saveRestartSchedule, upsertServerLink,
\* upsertUserLink: a row of a server needs the server.
SaveSingle(f, s) == /\ Edits(f)
                    /\ s \in IF f = "permissions" THEN {App} ELSE servers
                    /\ Wants(f, s, "edit")
                    /\ held' = [held EXCEPT ![f][s] = "edit"]
                    /\ UNCHANGED <<servers, lastId, settings, legacy, rows, blobs, marks>>
\* deleteUserLink
Unregister(s) == /\ Edits("unregister") /\ held.links[s] \in {"legacy", "edit"}
                 /\ Wants("links", s, "cleared")
                 /\ held' = [held EXCEPT !.links[s] = "cleared"]
                 /\ UNCHANGED <<servers, lastId, settings, legacy, rows, blobs, marks>>
EditSettings == /\ Edits("settings") /\ Wants("settings", App, "edit")
                /\ settings' = "edit"
                /\ UNCHANGED <<servers, lastId, legacy, rows, blobs, held, marks>>
AddServer == /\ Edits("add") /\ lastId < MaxServers
             /\ lastId' = lastId + 1 /\ servers' = servers \union {lastId'}
             /\ Wants("server", lastId', "edit")
             /\ UNCHANGED <<settings, legacy, rows, blobs, held, marks>>
RemoveServer(s) == /\ Edits("remove") /\ s \in servers
                   /\ servers' = servers \ {s} /\ Cascade({s})
                   /\ removed' = removed \union {s}
                   /\ wanted' = {w \in wanted : w[2] # s}
                   /\ UNCHANGED <<lastId, settings, legacy, blobs, marks>>

-----------------------------------------------------------------------------

Next ==
    \/ Boot \/ TakeSnapshot \/ TearSnapshot \/ ApplySchema \/ OpenFails
    \/ CopyTable \/ MarkSource \/ PassSource \/ CopyRefused \/ CopyFails
    \/ PassImport \/ ClearServers \/ ResetSequence \/ SaveSettings \/ InsertServer
    \/ MarkImported \/ ImportFails
    \/ Remodel \/ ConvertTable \/ ConvertRefused \/ ConvertDone \/ ConvertFails
    \/ \E f \in Blobs : Decompose(f) \/ PassBlob(f) \/ DecomposeRefused(f) \/ DecomposeFails(f)
    \/ \E f \in Singles : ImportSingle(f) \/ PassSingle(f) \/ SingleFails(f)
    \/ DropBlobs \/ PassDrop \/ DropFails
    \/ PassLinks \/ CopyLinks \/ MarkLinks \/ LinksFail \/ LinkMarkFails
    \/ SeedRow \/ SeedPacks \/ PassSeed \/ Start \/ Stop
    \/ \E f \in Blobs, s \in Ids : SavePackages(f, s)
    \/ \E f \in Features \ Blobs, s \in Places : SaveSingle(f, s)
    \/ EditSettings \/ AddServer
    \/ \E s \in Ids : Unregister(s) \/ RemoveServer(s)

Spec == Init /\ [][Next]_vars

TypeOK == /\ pos \in 1..9 /\ snapshot \in {"none", "torn", "late", "pristine"}
          /\ servers \subseteq Ids /\ lastId \in 0..MaxServers
          /\ settings \in Contents /\ legacy \subseteq Tables /\ blobs \subseteq Blobs
          /\ rows \in [Tables -> SUBSET (Ids \union {Unscoped})]
          /\ held \in [Features -> [Places -> Contents]]
          /\ clean \in -1..2 /\ boots \in 0..MaxBoots /\ failed \subseteq Faults

Home(s) == IF s = Unscoped THEN Default ELSE s
FromFiles(t) == IF \E k \in 1..Len(CopySteps) : CopySteps[k].what = t THEN Files ELSE {}
Owed(t) == {Home(s) : s \in FirstRows(first, t)} \ removed
Edited(f, s) == \E c \in Contents : <<f, s, c>> \in wanted
NeverFailed(what) == what \cap failed = {}

\* Once two boots in a row have had no failure, whatever failed and wherever
\* the process stopped before, every server, row, package, schedule and
\* registration the first boot found is there, at its server
\* (migrateUnifiedRemodel: "a failure warns and leaves markers unset so the
\* next boot retries").  What no later boot brings back is taken out here:
\* tables that could not be converted, packages whose table could not be
\* converted or taken apart the first time, and the rows of the stand-alone
\* files and the registrations when an import was cut short.
MigrationCompletes ==
    (At("running") /\ clean = 2) =>
        /\ NeverFailed({"convert"}) => legacy = {} /\ \A t \in Tables : Owed(t) \subseteq rows[t]
        /\ HasConfig => (IF first = "scoped" THEN ScopedRows ELSE 1..Seeds) \ removed \subseteq servers
        /\ NeverFailed({"import"}) => \A t \in Tables : {Home(s) : s \in FromFiles(t)} \ removed \subseteq rows[t]
        /\ NeverFailed({"convert", "decompose"}) =>
              \A f \in Blobs : \A s \in Owed(f) : held[f][s] = "legacy" \/ Edited(f, s)
        /\ (HasConfig /\ removed = {}) =>
              \A f \in Features \ Blobs : \/ \E s \in Places : held[f][s] # "none"
                                          \/ f = "links" /\ "import" \in failed

\* What an operator saved, added or cleared is not undone by a later boot, by
\* a step that is retried or by a default (the markers and the tests for what
\* is there already).  Two retries do undo it: the import of config.yaml, and
\* the copy of the registrations brings back one that was removed.
EditsKept ==
    NeverFailed({"import"}) =>
        \A w \in wanted :
            CASE w[1] = "server" -> w[2] \in servers
              [] w[1] = "settings" -> settings = w[3]
              [] OTHER -> \/ held[w[1]][w[2]] = w[3]
                          \/ w[3] = "cleared" /\ ~NeverFailed({"links", "linkmark"})

\* Once a boot has touched an older store, the snapshot holds it whole, as it
\* was: the way back (backupPreMigration), unless writing it was cut short.
SnapshotPristine ==
    (changed /\ first \in {"flat", "scoped"} /\ NeverFailed({"tear"})) => snapshot = "pristine"
=============================================================================
