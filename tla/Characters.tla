------------------------------ MODULE Characters ------------------------------
(***************************************************************************)
(* Deleting, backing up and restoring one player's character (db.go,       *)
(* handlers_players.go, handlers_character_backups.go and its store), with *)
(* the game's own procedures delete_account, character_transfer_export and *)
(* character_transfer_import, as far as dune-admin relies on them.         *)
(*                                                                         *)
(* The player is one FLS id; each new character or restore gets a fresh    *)
(* account id.  A player_state row and the player's actors may outlive     *)
(* their account; the Players list then shows them as further entries.     *)
(***************************************************************************)
EXTENDS Integers, Sequences, FiniteSets

CONSTANTS Requests, Kinds,
          Leaks,   \* when delete_account leaves the player's actors:
                   \* "delete", "import"
          Races,   \* what may coincide: "login" with a request, "drop" with a
                   \* request that relies on it, "second": two captures in one
          Faults,  \* what may fail: "export", "write", "record", "clean"
          MaxAccounts, MaxLevel, MaxPatch, MaxSeconds, MaxAsked

ASSUME BoundAssumption ==
    /\ {MaxAccounts, MaxPatch, MaxSeconds} \subseteq Nat \ {0}
    /\ {MaxLevel, MaxAsked} \subseteq Nat
ASSUME KindAssumption ==
    /\ Kinds \subseteq {"delete", "safeDelete", "plain", "backup", "restore", "drop"}
    /\ Leaks \subseteq {"delete", "import"}

VARIABLES account,  \* dune.accounts: the FLS id's account, 0 if none
          issued,   \* the account ids the sequence gave out
          states,   \* accounts with a row in encrypted_player_state
          actors,   \* accounts whose pawn, controller and state actors exist
          bases,    \* accounts whose bases and storage stand
          level,    \* what the character has achieved
          online, patch, clock,
          store,    \* was the store of the records opened at boot
          files,    \* the backups directory: path -> what the file holds
          records,  \* character_backups, by id; a deleted one is Dropped
          request,  \* per request: its place in the code and what it read
          owed,     \* a removal was not followed by its clean-up
          asked

vars == <<account, issued, states, actors, bases, level, online, patch, clock,
          store, files, records, request, owed, asked>>
database == <<account, issued, states, actors, level, owed>>
world == <<bases, online, patch, clock, store>>

Idle == [pc |-> "idle"]
Dropped == [path |-> <<0, 0>>]
Kept == {k \in DOMAIN records : records[k] # Dropped}

Init == /\ account = 1 /\ issued = 1
        /\ states = {1} /\ actors = {1} /\ bases = {}
        /\ level = 0 /\ online = FALSE /\ patch = 1 /\ clock = 1
        /\ store \in BOOLEAN
        /\ files = <<>> /\ records = <<>>
        /\ request = [r \in Requests |-> Idle]
        /\ owed = FALSE /\ asked = 0

At(r, pc) == request[r].pc = pc
Ends(r) == request' = [request EXCEPT ![r] = Idle]
Goes(r, pc) == request' = [request EXCEPT ![r].pc = pc]
Asks(r, kind) == /\ At(r, "idle") /\ kind \in Kinds
                 /\ asked < MaxAsked /\ asked' = asked + 1
Fails(what) == what \in Faults

-----------------------------------------------------------------------------
(* Capture: a request of its own, or the first half of a safe delete.      *)

\* rawFuncomID of an account: gone once another took its place.  The capture of
\* a safe delete asks once more.
Resolve(r) ==
    \E kind \in {"delete", "safeDelete", "plain", "backup"}, a \in 1..issued :
        /\ Asks(r, kind)
        /\ IF a # account THEN UNCHANGED request
           ELSE request' = [request EXCEPT ![r] =
                    [pc |-> CASE kind = "safeDelete" -> "resolve"
                              [] kind = "backup" -> "export"
                              [] OTHER -> "remove",
                     kind |-> kind, account |-> a]]
        /\ UNCHANGED <<database, world, files, records>>

ResolveAgain(r) ==
    /\ At(r, "resolve")
    /\ IF request[r].account # account THEN Ends(r) ELSE Goes(r, "export")
    /\ UNCHANGED <<database, world, files, records, asked>>

\* exportCharacter, of whoever has the FLS id by then: refused while the player
\* is online.
Export(r) ==
    /\ At(r, "export")
    /\ \/ /\ account # 0 /\ ~online
          /\ request' = [request EXCEPT ![r] = [pc |-> "write", kind |-> @.kind,
                account |-> @.account, data |-> [level |-> level, patch |-> patch]]]
       \/ /\ account = 0 \/ online \/ Fails("export")
          /\ Ends(r)
    /\ UNCHANGED <<database, world, files, records, asked>>

\* Bug: the file is named for the account alone.
PathOfAccount(a) == <<a, 0>>

\* writeCharacterBackupFile: account and second.
Path(a) == <<a, clock>>

WriteFile(r) ==
    LET path == Path(request[r].account)
    IN  /\ At(r, "write")
        /\ "second" \in Races \/ <<request[r].account, clock>> \notin DOMAIN files
        /\ \/ /\ files' = [p \in DOMAIN files \union {path} |->
                    IF p = path THEN request[r].data ELSE files[p]]
              /\ request' = [request EXCEPT ![r] = [pc |-> "record", kind |-> @.kind,
                    account |-> @.account, data |-> @.data, path |-> path]]
           \/ Fails("write") /\ Ends(r) /\ UNCHANGED files
        /\ UNCHANGED <<database, world, records, asked>>

\* Bug: a record that could not be written does not stop the delete.
RecordOrNot(r) == Goes(r, "remove")

\* createRecord failed: the capture has, and so has the delete that asked for it.
Unrecorded(r) == Ends(r)

Captured(r) == IF request[r].kind = "backup" THEN Ends(r) ELSE Goes(r, "remove")

\* Without a store the file alone is the backup, and the capture has succeeded.
CreateRecord(r) ==
    /\ At(r, "record")
    /\ \/ /\ store
          /\ records' = Append(records, [path |-> request[r].path, data |-> request[r].data,
                                         account |-> request[r].account])
          /\ Captured(r)
       \/ store /\ Fails("record") /\ UNCHANGED records /\ Unrecorded(r)
       \/ ~store /\ UNCHANGED records /\ Captured(r)
    /\ UNCHANGED <<database, world, files, asked>>

-----------------------------------------------------------------------------
(* Delete.                                                                 *)

\* dune.delete_account: by FLS id, whichever account holds it; the row of
\* player_state stays, and at times the actors.
Deleted(when) ==
    \E leaks \in {FALSE} \union {when \in Leaks} :
        actors' = IF leaks THEN actors ELSE actors \ {account}

\* processDeleteCharacter: without an account to delete it ends in an error.
Remove(r) ==
    /\ At(r, "remove") /\ request[r].kind # "plain"
    /\ IF account = 0 THEN Ends(r) /\ UNCHANGED <<account, actors, online>>
       ELSE /\ Deleted("delete")
            /\ account' = 0 /\ online' = FALSE
            /\ Goes(r, "clean")
    /\ UNCHANGED <<issued, states, level, owed, bases, patch, clock, store, files, records, asked>>

\* cmdDeleteAccount: delete_account and nothing else.
RemovePlain(r) ==
    /\ At(r, "remove") /\ request[r].kind = "plain"
    /\ IF account = 0 THEN UNCHANGED <<account, actors, online, owed>>
       ELSE /\ Deleted("delete")
            /\ account' = 0 /\ online' = FALSE /\ owed' = TRUE
    /\ Ends(r)
    /\ UNCHANGED <<issued, states, level, bases, patch, clock, store, files, records, asked>>

\* Bug: only the row of the account that was asked for.
CleanedOfOne(r) == states \ {request[r].account}

\* cleanupOrphans: every row without an account.
Cleaned(r) == states \intersect {account}

CleanStates(r) ==
    /\ At(r, "clean")
    /\ \/ /\ states' = Cleaned(r)
          /\ owed' = FALSE
          /\ IF request[r].kind = "restore" /\ request[r].account # 0
             THEN Goes(r, "actors") ELSE Ends(r)
       \/ Fails("clean") /\ owed' = TRUE /\ Ends(r) /\ UNCHANGED states
    /\ UNCHANGED <<account, issued, actors, level, world, files, records, asked>>

-----------------------------------------------------------------------------
(* Restore.                                                                *)

\* getBackup and readFile.
LoadBackup(r) ==
    \E k \in DOMAIN records :
        /\ Asks(r, "restore")
        /\ IF k \notin Kept \/ records[k].path \notin DOMAIN files THEN UNCHANGED request
           ELSE request' = [request EXCEPT ![r] = [pc |-> "old", kind |-> "restore",
                    data |-> files[records[k].path], record |-> k]]
        /\ UNCHANGED <<database, world, files, records>>

\* resolveOldAccountID: 0 when nobody holds the FLS id.
ResolveOld(r) ==
    /\ At(r, "old")
    /\ request' = [request EXCEPT ![r] = [pc |-> "import", kind |-> "restore",
                     data |-> @.data, record |-> @.record, account |-> account]]
    /\ UNCHANGED <<database, world, files, records, asked>>

\* Bug: the clean-up also follows an import that was refused.
CleansAnyway(r) == Goes(r, "actors")

\* importCharacter failed: nothing changed and nothing is cleaned.
Refused(r) == Ends(r)

\* character_transfer_import: one transaction, refused for a player who is
\* online and for a backup of another patch.
Import(r) ==
    /\ At(r, "import")
    /\ IF online \/ request[r].data.patch # patch
       THEN Refused(r) /\ UNCHANGED <<account, issued, states, actors, level>>
       ELSE /\ issued < MaxAccounts
            /\ issued' = issued + 1
            /\ account' = issued'
            /\ states' = states \union {issued'}
            /\ \E leaks \in {FALSE} \union {"import" \in Leaks} :
                  actors' = (IF leaks THEN actors ELSE actors \ {account}) \union {issued'}
            /\ level' = request[r].data.level
            /\ Goes(r, "clean")
    /\ UNCHANGED <<world, files, records, owed, asked>>

\* Bug: everything that still names the account.
OwnedBy(a) == {a}

\* orphanPlayerActorsDeleteSQL: of what is left of an account, the bases are
\* outside its classes.
BasesRemoved(a) == {}

\* cleanupOrphanActorsForAccount
CleanActors(r) ==
    /\ At(r, "actors")
    /\ actors' = actors \ {request[r].account}
    /\ bases' = bases \ BasesRemoved(request[r].account)
    /\ Ends(r)
    /\ UNCHANGED <<account, issued, states, level, owed, online, patch, clock, store,
                   files, records, asked>>

-----------------------------------------------------------------------------
(* Removing a backup.                                                      *)

\* Some request relies on backup k: a restore that read it, any safe delete.
Needed(k) == \E r \in Requests :
    /\ ~At(r, "idle")
    /\ \/ request[r].kind = "safeDelete"
       \/ request[r].kind = "restore" /\ request[r].record = k

\* handleDeleteCharacterBackup: the record, then its file.
DropRecord(r) ==
    \E k \in Kept :
        /\ Asks(r, "drop")
        /\ "drop" \in Races \/ ~Needed(k)
        /\ records' = [records EXCEPT ![k] = Dropped]
        /\ request' = [request EXCEPT ![r] =
                [pc |-> "unlink", kind |-> "drop", path |-> records[k].path]]
        /\ UNCHANGED <<database, world, files>>

Unlink(r) ==
    /\ At(r, "unlink")
    /\ files' = [p \in DOMAIN files \ {request[r].path} |-> files[p]]
    /\ Ends(r)
    /\ UNCHANGED <<database, world, records, asked>>

-----------------------------------------------------------------------------
(* The player and the game.                                                *)

Quiet == "login" \in Races \/ \A r \in Requests : At(r, "idle") \/ At(r, "unlink")

\* A player without a character makes a new one.
Create ==
    /\ account = 0 /\ Quiet /\ issued < MaxAccounts
    /\ issued' = issued + 1 /\ account' = issued'
    /\ states' = states \union {issued'} /\ actors' = actors \union {issued'}
    /\ level' = 0 /\ online' = TRUE
    /\ UNCHANGED <<bases, patch, clock, store, files, records, request, owed, asked>>

Login ==
    /\ account # 0 /\ ~online /\ Quiet
    /\ online' = TRUE
    /\ UNCHANGED <<database, bases, patch, clock, store, files, records, request, asked>>

Play ==
    /\ online
    /\ \/ level < MaxLevel /\ level' = level + 1 /\ UNCHANGED bases
       \/ bases' = bases \union {account} /\ UNCHANGED level
    /\ UNCHANGED <<account, issued, states, actors, owed, online, patch, clock, store,
                   files, records, request, asked>>

Logout ==
    /\ online /\ online' = FALSE
    /\ UNCHANGED <<database, bases, patch, clock, store, files, records, request, asked>>

Second ==
    /\ clock < MaxSeconds /\ clock' = clock + 1
    /\ UNCHANGED <<database, bases, online, patch, store, files, records, request, asked>>

Patched ==
    /\ patch < MaxPatch /\ ~online /\ patch' = patch + 1
    /\ UNCHANGED <<database, bases, online, clock, store, files, records, request, asked>>

Next ==
    \/ \E r \in Requests :
          \/ Resolve(r) \/ ResolveAgain(r) \/ Export(r) \/ WriteFile(r) \/ CreateRecord(r)
          \/ Remove(r) \/ RemovePlain(r) \/ CleanStates(r)
          \/ LoadBackup(r) \/ ResolveOld(r) \/ Import(r) \/ CleanActors(r)
          \/ DropRecord(r) \/ Unlink(r)
    \/ Create \/ Login \/ Play \/ Logout \/ Second \/ Patched

Spec == Init /\ [][Next]_vars

-----------------------------------------------------------------------------

TypeOK ==
    /\ issued \in 1..MaxAccounts /\ account \in {0, issued}
    /\ states \subseteq 1..issued /\ actors \subseteq 1..issued /\ bases \subseteq 1..issued
    /\ level \in 0..MaxLevel /\ patch \in 1..MaxPatch /\ clock \in 1..MaxSeconds
    /\ \A p \in DOMAIN files : files[p] \in [level : 0..MaxLevel, patch : 1..MaxPatch]
    /\ {online, owed, store} \subseteq BOOLEAN
    /\ \A r \in Requests : At(r, "idle") \/ request[r].kind \in Kinds
    /\ asked \in 0..MaxAsked

(* A backup that is listed can be trusted: its file is there and holds     *)
(* what the character was when it was captured.                            *)
BackupsKept == \A k \in Kept :
    records[k].path \in DOMAIN files /\ files[records[k].path] = records[k].data

(* What the character has achieved is in a listed backup or, when the      *)
(* store of the records could not be opened, in a file of the directory.   *)
Covered ==
    IF store THEN \E k \in Kept : records[k].data.level = level
             ELSE \E p \in DOMAIN files : files[p].level = level

(* A delete that was asked for with a backup takes a character away only   *)
(* while a backup covers what the character has achieved.                  *)
SafetyNet == [][\A r \in Requests :
    At(r, "remove") /\ request[r].kind = "safeDelete" /\ account # 0 /\ account' = 0 =>
        Covered]_vars

(* Once every request is done and none of them left the clean-up out, no   *)
(* player_state row is left without its account, however deletes, restores *)
(* and new characters overlapped.                                          *)
NoOrphanStates ==
    (\A r \in Requests : At(r, "idle")) /\ ~owed => states \subseteq {account}

(* The clean-up never reaches the living: the row and the actors of an     *)
(* account that stays, and the bases of any account, are never removed.    *)
LivingUntouched == [][
    /\ account # 0 /\ account' = account =>
           account \in states' /\ account \in actors'
    /\ bases \subseteq bases']_vars

(* What is left behind by a deleted account is cleaned, and nothing else.   *)
OrphansCleaned == []NoOrphanStates /\ LivingUntouched

(* A listed backup of the player is found from the present character.      *)
Findable == account # 0 => \A k \in Kept : records[k].account = account

(* No actors of an account that is gone are left once no request runs.     *)
NoGhosts == (\A r \in Requests : At(r, "idle")) => actors \subseteq {account}
=============================================================================
