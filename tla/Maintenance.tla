---------------------------- MODULE Maintenance ----------------------------
(***************************************************************************)
(* What happens to one game host over the heads of its players: scheduled  *)
(* and manual database dumps with their retention (scheduled_backup.go,    *)
(* db_backup.go), the restore job (db_restore_job.go, prepareAndRestoreDB),*)
(* the shutdown after a broadcast countdown (handlers_rmq.go), the watcher *)
(* that restarts the game after an update (control_amp.go), and the        *)
(* operator's start, stop and restart.  All of them act on one container,  *)
(* which runs the game and its Postgres alike (AMP in container mode, the  *)
(* only control plane that can dump).                                      *)
(*                                                                         *)
(* A dump's file is named for the second it begins in; those seconds are   *)
(* numbered, so two dumps of one second have one number.  A timer's expiry,*)
(* the end of a command, of that second and of the grace period are steps  *)
(* of their own; there is no clock but the watcher's count of polls.       *)
(***************************************************************************)
EXTENDS Naturals, Sequences, FiniteSets, SequencesExt

CONSTANTS Requests,        \* HTTP requests under way at a time
          Kinds,           \* those that occur: "backup", "delete", "put",
                           \* "restore", "announce", "cancel", "update",
                           \* "start", "stop", "restart"
          KeepN,           \* keep_n of the schedule, 0 keeps all
          Grace, Cap,      \* ampUpdateAppearGrace and ampUpdateMaxWait, in polls
          CanStop,         \* is the control plane a gameServerStopper
          OtherTasks,      \* does AMP run tasks other than updates
          Overlap,         \* what overlaps: "schedule" (a PUT and a firing),
                           \* "countdown" (two broadcast requests), "expiry"
                           \* (a broadcast request and a timer that expired)
          Faults,          \* what may fail: "dump", "silent", "stop", "restore",
                           \* "broadcast", "status", "tasks",
                           \* "load", "save"
          FirstDumps, MaxDumps, MaxOccurrences, MaxTimers, MaxUpdates,
          MaxVerbs, MaxFaults,
          MaxBegun         \* dumps, restores, countdowns, updates, commands and
                           \* occurrences together

ASSUME BoundAssumption ==
    /\ {KeepN, Grace, Cap, FirstDumps, MaxDumps, MaxOccurrences} \subseteq Nat
    /\ {MaxTimers, MaxUpdates, MaxVerbs, MaxFaults, MaxBegun} \subseteq Nat
    /\ FirstDumps <= MaxDumps
    /\ Grace <= Cap

Dumps == 1..MaxDumps
Timers == 1..MaxTimers
Updates == 1..MaxUpdates
Occurrences == 1..MaxOccurrences

VARIABLES game,         \* are game servers running
          container,    \* is the container, with Postgres in it, running
          boot,         \* how often the container was cycled or stopped
          files,        \* the .dump files, oldest modification first
          dump,         \* what became of each file
          sameSecond,   \* is it the second in which the latest dump began
          deleted,      \* whole dumps an operator deleted
          schedule,     \* the stored schedule: enabled, lastFired
          occurrence,   \* the latest scheduled occurrence, and is it in grace
          scheduler,    \* runBackupScheduler's goroutine
          fired,        \* how often each occurrence was fired
          job,          \* the server's entry of globalRestoreJobs
          database,     \* "live", the dump it was restored from, or "mixed"
          timer,        \* the timers scheduleBroadcastShutdownExec made
          pending,      \* shutdownExecTimer and shutdownExecAt
          shown,        \* the countdown the players see
          revoked,      \* timers cancelled or replaced
          watcher,      \* the goroutines of watchUpdateAndRestart
          task,         \* AMP's update tasks
          request,      \* what each request is doing
          left          \* faults and operator's commands that may still happen

machine == <<game, container, boot>>
backups == <<files, dump, sameSecond, deleted, schedule, occurrence, scheduler, fired>>
restores == <<job, database>>
countdowns == <<timer, pending, shown, revoked>>
updates == <<watcher, task>>
vars == <<game, container, boot, files, dump, sameSecond, deleted, schedule,
          occurrence, scheduler, fired, job, database, timer, pending, shown, revoked,
          watcher, task, request, left>>

None == 0
Whole == {d \in Dumps : dump[d] = "whole"}
Broken == {d \in Dumps : dump[d] \in {"writing", "shared", "partial"}}
Lost == {d \in Dumps : dump[d] = "lost"}
Idle == [pc |-> "idle", dump |-> None, boot |-> 0, timer |-> None,
         enabled |-> FALSE, lastFired |-> 0]

Init == /\ game = TRUE /\ container = TRUE /\ boot = 1
        /\ files = [i \in 1..FirstDumps |-> i]
        /\ dump = [d \in Dumps |-> IF d <= FirstDumps THEN "whole" ELSE "none"]
        /\ sameSecond = FALSE
        /\ deleted = {}
        /\ schedule = [enabled |-> TRUE, lastFired |-> 0]
        /\ occurrence = [latest |-> 0, grace |-> FALSE]
        /\ scheduler = Idle
        /\ fired = [o \in Occurrences |-> 0]
        /\ job = [pc |-> "none", dump |-> None, boot |-> 0, stopped |-> FALSE,
                  started |-> FALSE, failed |-> FALSE]
        /\ database = "live"
        /\ timer = [t \in Timers |-> "none"]
        /\ pending = [handle |-> None, at |-> None]
        /\ shown = None
        /\ revoked = {}
        /\ watcher = [u \in Updates |-> [pc |-> "none", seen |-> FALSE, polls |-> 0]]
        /\ task = [u \in Updates |-> "none"]
        /\ request = [r \in Requests |-> Idle]
        /\ left = [faults |-> MaxFaults, verbs |-> MaxVerbs]

Fault(f) == /\ f \in Faults
            /\ left.faults > 0
            /\ left' = [left EXCEPT !.faults = @ - 1]

\* The bound on what a run begins.
MayBegin ==
    LET dumps == {d \in Dumps : d > FirstDumps /\ dump[d] # "none"}
        timers == {t \in Timers : timer[t] # "none" \/ \E r \in Requests : request[r].timer = t}
        started == {u \in Updates : task[u] # "none"}
    IN  Cardinality(dumps) + Cardinality(timers) + Cardinality(started)
          + occurrence.latest + (MaxVerbs - left.verbs) < MaxBegun

-----------------------------------------------------------------------------
(* The container.  Everything that runs in it ends with it: the commands   *)
(* of a dump or a restore notice by the boot they began under.             *)

JobRunning == job.pc \notin {"none", "done"}
Cuts == task' = [u \in Updates |-> IF task[u] \in {"queued", "running"} THEN "cut" ELSE task[u]]
JobSeesStart == job' = [job EXCEPT !.started = JobRunning]

Start == /\ game' = TRUE
         /\ container' = TRUE
         /\ JobSeesStart
         /\ UNCHANGED <<boot, task>>

\* restartGame cycles the container; the game comes up with it.
Restart == /\ game' = TRUE
           /\ container' = TRUE
           /\ boot' = boot + 1
           /\ Cuts
           /\ JobSeesStart

\* ampinstmgr -q takes the container down with everything in it.
Stop == /\ game' = FALSE
        /\ container' = FALSE
        /\ boot' = boot + 1
        /\ Cuts
        /\ UNCHANGED job

Execute(verb) == CASE verb = "start" -> Start
                   [] verb = "stop" -> Stop
                   [] verb = "restart" -> Restart

\* The operator's lifecycle command (handleBGExec, and the restart scheduler).
Command(verb) ==
    /\ verb \in Kinds \cap {"start", "stop", "restart"}
    /\ left.verbs > 0
    /\ MayBegin
    /\ left' = [left EXCEPT !.verbs = @ - 1]
    /\ Execute(verb)
    /\ UNCHANGED <<backups, database, countdowns, watcher, request>>

-----------------------------------------------------------------------------
(* Dumps.  The shell creates the file, or empties it, before pg_dump runs, *)
(* and a file's modification time is that of its last byte.  Nothing keeps *)
(* two dumps of one second apart: they write "shared" into one file, and a *)
(* complete dump that the other one empties, overwrites or removes is      *)
(* "lost".                                                                 *)

Fresh == Cardinality({d \in Dumps : dump[d] # "none"}) + 1

\* dbBackupFilename: the current second.
Name == {Fresh} \cup {d \in Dumps : sameSecond /\ d = Fresh - 1}

BeginDump(d) ==
    /\ d \in Dumps
    /\ dump' = [dump EXCEPT ![d] = CASE @ = "none" -> "writing"
                                     [] @ \in {"whole", "lost"} -> "lost"
                                     [] OTHER -> "shared"]
    /\ files' = Append(RemoveFirst(files, d), d)
    /\ sameSecond' = TRUE

Alive(p) == container /\ p.boot = boot

\* A file that is there and is overwritten.
Spoilt(d) == CASE dump[d] \notin {"whole", "lost"} -> "partial"
               [] dump[d] \in {"whole", "lost"} /\ d \in ToSet(files) -> "lost"
               [] OTHER -> dump[d]

\* What the exec of pg_dump returns, and what it left behind: nothing, when the
\* file was deleted under it, and anything, when another dump wrote into it.
DumpEnds(p, outcome) ==
    LET d == p.dump
        alone == dump[d] = "writing"
        there == d \in ToSet(files)
        stays == outcome = "failed" /\ d \in Whole
    IN  /\ \/ outcome = "written" /\ Alive(p) /\ UNCHANGED left
           \/ outcome = "failed" /\ ~Alive(p) /\ UNCHANGED left
           \/ outcome = "failed" /\ Alive(p) /\ Fault("dump")
           \/ outcome = "silent" /\ Alive(p) /\ IF alone THEN Fault("silent") ELSE UNCHANGED left
        /\ \E after \in {"whole", Spoilt(d)} :
             /\ dump' = [dump EXCEPT ![d] = after]
             /\ after # Spoilt(d) => there /\ (outcome = "written" \/ stays)
             /\ alone /\ there /\ outcome = "written" => after = "whole"

Newest(d) == IF d \in ToSet(files) THEN Append(RemoveFirst(files, d), d) ELSE files

\* A retention that counts one too many.
KeptFewer(seq) == IF KeepN = 0 \/ Len(seq) < KeepN THEN seq
                  ELSE SubSeq(seq, Len(seq) - KeepN + 2, Len(seq))
\* backupsToPrune of the list, newest first, beyond keep_n.
Kept(seq) == IF KeepN = 0 \/ Len(seq) <= KeepN THEN seq
             ELSE SubSeq(seq, Len(seq) - KeepN + 1, Len(seq))

-----------------------------------------------------------------------------
(* The scheduler.                                                          *)

Occurs ==
    /\ occurrence.latest < MaxOccurrences
    /\ MayBegin
    /\ occurrence' = [latest |-> occurrence.latest + 1, grace |-> TRUE]
    /\ UNCHANGED <<machine, files, dump, sameSecond, deleted, schedule,
                   scheduler, fired, restores, countdowns, updates, request, left>>

GraceEnds ==
    /\ occurrence.grace
    /\ occurrence' = [occurrence EXCEPT !.grace = FALSE]
    /\ UNCHANGED <<machine, files, dump, sameSecond, deleted, schedule,
                   scheduler, fired, restores, countdowns, updates, request, left>>

SecondEnds ==
    /\ sameSecond
    /\ sameSecond' = FALSE
    /\ UNCHANGED <<machine, files, dump, deleted, schedule, occurrence, scheduler,
                   fired, restores, countdowns, updates, request, left>>

Editing == \E r \in Requests : request[r].pc = "save"
Firing == scheduler.pc \in {"mark", "marking"}

ShouldFire(cfg) ==
    cfg.enabled /\ occurrence.grace /\ occurrence.latest > cfg.lastFired

\* backupSchedulerTickOnce decides on the configuration it loaded.
Tick ==
    /\ scheduler.pc = "idle"
    /\ ShouldFire(schedule)
    /\ "schedule" \in Overlap \/ ~Editing
    /\ scheduler' = [scheduler EXCEPT !.pc = "mark", !.timer = occurrence.latest]
    /\ fired' = [fired EXCEPT ![occurrence.latest] = @ + 1]
    /\ UNCHANGED <<machine, files, dump, sameSecond, deleted, schedule,
                   occurrence, restores, countdowns, updates, request, left>>

NoSchedule == [enabled |-> FALSE, lastFired |-> 0]

\* A failed load is answered with the disabled default.
Loaded(cfg) == \/ cfg = schedule /\ UNCHANGED left
               \/ cfg = NoSchedule /\ Fault("load")

\* setBackupLastFired: load, then save with the new watermark.
Mark ==
    /\ scheduler.pc = "mark"
    /\ \E cfg \in {schedule, NoSchedule} :
         /\ Loaded(cfg)
         /\ scheduler' = [scheduler EXCEPT !.pc = "marking", !.enabled = cfg.enabled]
    /\ UNCHANGED <<machine, files, dump, sameSecond, deleted, schedule,
                   occurrence, fired, restores, countdowns, updates, request>>

\* A failed save is logged and the backup taken all the same.
Marked ==
    /\ scheduler.pc = "marking"
    /\ \/ /\ schedule' = [enabled |-> scheduler.enabled, lastFired |-> scheduler.timer]
          /\ UNCHANGED left
       \/ Fault("save") /\ UNCHANGED schedule
    /\ \E d \in Name :
         /\ BeginDump(d)
         /\ scheduler' = [scheduler EXCEPT !.pc = "dump", !.dump = d, !.boot = boot]
    /\ UNCHANGED <<machine, deleted, occurrence, fired, restores, countdowns,
                   updates, request>>

\* Only a dump that succeeded is followed by the pruning.
ScheduledDumpEnds ==
    /\ scheduler.pc = "dump"
    /\ \E outcome \in {"written", "failed", "silent"} :
         /\ DumpEnds(scheduler, outcome)
         /\ scheduler' = IF outcome = "failed" THEN Idle ELSE [scheduler EXCEPT !.pc = "prune"]
    /\ files' = Newest(scheduler.dump)
    /\ UNCHANGED <<machine, sameSecond, deleted, schedule, occurrence, fired, restores,
                   countdowns, updates, request>>

Prune ==
    /\ scheduler.pc = "prune"
    /\ files' = Kept(files)
    /\ scheduler' = Idle
    /\ UNCHANGED <<machine, dump, sameSecond, deleted, schedule,
                   occurrence, fired, restores, countdowns, updates, request, left>>

-----------------------------------------------------------------------------
(* Requests about dumps and the schedule.                                  *)

Handles(r, kind) == kind \in Kinds /\ request[r].pc = "idle"
Answer(r) == request' = [request EXCEPT ![r] = Idle]

\* createDBBackup.
Backup(r) ==
    /\ Handles(r, "backup")
    /\ MayBegin
    /\ \E d \in Name :
         /\ BeginDump(d)
         /\ request' = [request EXCEPT ![r] = [Idle EXCEPT !.pc = "dump", !.dump = d, !.boot = boot]]
    /\ UNCHANGED <<machine, deleted, schedule, occurrence, scheduler, fired,
                   restores, countdowns, updates, left>>

\* A failed command leaves its file; an invalid archive is removed.
BackupEnds(r) ==
    /\ request[r].pc = "dump"
    /\ \E outcome \in {"written", "failed", "silent"} :
         /\ DumpEnds(request[r], outcome)
         /\ files' = IF outcome = "silent" THEN RemoveFirst(files, request[r].dump)
                     ELSE Newest(request[r].dump)
    /\ Answer(r)
    /\ UNCHANGED <<machine, sameSecond, deleted, schedule, occurrence,
                   scheduler, fired, restores, countdowns, updates>>

Delete(r, d) ==
    /\ Handles(r, "delete")
    /\ d \in ToSet(files)
    /\ files' = RemoveFirst(files, d)
    /\ deleted' = deleted \cup ({d} \cap Whole)
    /\ UNCHANGED <<machine, dump, sameSecond, schedule, occurrence,
                   scheduler, fired, restores, countdowns, updates, request, left>>

\* "Preserve last_fired watermark".
Watermark(cfg) == cfg.lastFired

\* handleUpdateScheduledBackups: load for the watermark, then save.
Put(r) ==
    /\ Handles(r, "put")
    /\ "schedule" \in Overlap \/ (~Editing /\ ~Firing)
    /\ \E cfg \in {schedule, NoSchedule}, body \in BOOLEAN :
         /\ Loaded(cfg)
         /\ request' = [request EXCEPT ![r] = [Idle EXCEPT !.pc = "save", !.enabled = body,
                                                           !.lastFired = Watermark(cfg)]]
    /\ UNCHANGED <<machine, backups, restores, countdowns, updates>>

PutSaved(r) ==
    /\ request[r].pc = "save"
    /\ \/ /\ schedule' = [enabled |-> request[r].enabled, lastFired |-> request[r].lastFired]
          /\ UNCHANGED left
       \/ Fault("save") /\ UNCHANGED schedule
    /\ Answer(r)
    /\ UNCHANGED <<machine, files, dump, sameSecond, deleted, occurrence,
                   scheduler, fired, restores, countdowns, updates>>

-----------------------------------------------------------------------------
(* The restore job.                                                        *)

\* dbRestoreJobs.Start: one job at a time.  The name is checked, the file is
\* not: it may have been deleted since it was listed.
Restore(r, d) ==
    /\ Handles(r, "restore")
    /\ left.verbs > 0
    /\ MayBegin
    /\ dump[d] # "none"
    /\ ~JobRunning
    /\ job' = [pc |-> "check", dump |-> d, boot |-> 0, stopped |-> FALSE,
               started |-> FALSE, failed |-> FALSE]
    /\ left' = [left EXCEPT !.verbs = @ - 1]
    /\ UNCHANGED <<machine, backups, database, countdowns, updates, request>>

Failed == [job EXCEPT !.pc = "done", !.failed = TRUE]

\* gameServersRunning.  A listing that fails lists nothing: listGameProcesses
\* takes any error without output for grep's "no match".
Check ==
    /\ job.pc = "check"
    /\ \E sees \in BOOLEAN :
         /\ IF game /\ ~sees THEN Fault("status") ELSE UNCHANGED left
         /\ sees => game
         /\ job' = [job EXCEPT !.pc = IF sees THEN "stop" ELSE "file", !.started = FALSE]
    /\ UNCHANGED <<machine, backups, database, countdowns, updates, request>>

\* A stop that does not wait for the shards to end.
SignalShards ==
    /\ job.pc = "stop"
    /\ CanStop
    /\ job' = [job EXCEPT !.pc = "file", !.stopped = TRUE, !.started = FALSE]
    /\ UNCHANGED <<machine, backups, database, countdowns, updates, request, left>>

\* StopGameServers: signal the shards and poll until the listing is empty.
StopShards ==
    /\ job.pc = "stop"
    /\ \/ /\ CanStop
          /\ \/ game' = FALSE /\ UNCHANGED left
             \/ UNCHANGED game /\ Fault("status")
          /\ job' = [job EXCEPT !.pc = "file", !.stopped = TRUE, !.started = FALSE]
       \/ /\ job' = Failed
          /\ IF CanStop THEN Fault("stop") ELSE UNCHANGED left
          /\ UNCHANGED game
    /\ UNCHANGED <<container, boot, backups, database, countdowns, updates, request>>

\* restoreDBBackupFile: the file is looked for only now, and without the
\* container pg_restore does not even begin.
OpenFile ==
    /\ job.pc = "file"
    /\ job' = IF container /\ job.dump \in ToSet(files)
              THEN [job EXCEPT !.pc = "restore", !.boot = boot]
              ELSE Failed
    /\ UNCHANGED <<machine, backups, database, countdowns, updates, request, left>>

\* Errors are part of every restore, so none counts.
SucceedsAlways(exit, summary) == TRUE
\* classifyPgRestoreResult: --clean makes the exit code useless, only the
\* summary line printed at the end of the archive tells.
Succeeds(exit, summary) == exit = 0 \/ summary

\* What pg_restore does: it comes to the end of a whole dump, with errors that
\* do not matter, or it dies on the way and leaves the tables half replaced.
RestoreEnds ==
    /\ job.pc = "restore"
    /\ \E exit \in {0, 1}, summary \in BOOLEAN :
         /\ exit = 0 => summary
         /\ summary => Alive(job) /\ dump[job.dump] = "whole"
         /\ IF ~summary /\ Alive(job) /\ dump[job.dump] = "whole"
            THEN Fault("restore") ELSE UNCHANGED left
         /\ database' = IF summary THEN ToString(job.dump) ELSE "mixed"
         /\ job' = IF Succeeds(exit, summary) THEN [job EXCEPT !.pc = "done"] ELSE Failed
    /\ UNCHANGED <<machine, backups, countdowns, updates, request>>

-----------------------------------------------------------------------------
(* The countdown: a broadcast shows it to the players, a timer ends it.    *)

Broadcasting == \E r \in Requests : request[r].pc \in {"announce", "arm", "retract"}
Alone == "countdown" \in Overlap \/ ~Broadcasting
Unused == {t \in Timers : timer[t] = "none" /\ \A r \in Requests : request[r].timer # t}

\* A countdown that is armed although nobody was told.
AnnounceAnyway(r) ==
    /\ Handles(r, "announce")
    /\ Alone
    /\ Unused # {}
    /\ MayBegin
    /\ LET t == CHOOSE u \in Unused : \A w \in Unused : u <= w
       IN  /\ \/ shown' = t /\ UNCHANGED left
              \/ Fault("broadcast") /\ UNCHANGED shown
           /\ request' = [request EXCEPT ![r] = [Idle EXCEPT !.pc = "arm", !.timer = t]]
    /\ UNCHANGED <<machine, backups, restores, timer, pending, revoked, updates>>

\* The first half of handleRMQBroadcastShutdown.
Announce(r) ==
    /\ Handles(r, "announce")
    /\ Alone
    /\ Unused # {}
    /\ MayBegin
    /\ LET t == CHOOSE u \in Unused : \A w \in Unused : u <= w
       IN  \/ /\ shown' = t
              /\ request' = [request EXCEPT ![r] = [Idle EXCEPT !.pc = "arm", !.timer = t]]
              /\ UNCHANGED left
           \/ Fault("broadcast") /\ UNCHANGED <<shown, request>>
    /\ UNCHANGED <<machine, backups, restores, timer, pending, revoked, updates>>

\* A new timer beside the old one.
NotStopped == timer
\* Timer.Stop of the timer in the handle, when there is one and it is not too
\* late for it.
InTime == "expiry" \in Overlap \/ \A t \in Timers : timer[t] # "expired"
Stopped == IF pending.handle # None /\ timer[pending.handle] = "armed"
           THEN [timer EXCEPT ![pending.handle] = "stopped"] ELSE timer
Revoked == revoked \cup {t \in Timers : timer[t] \in {"armed", "expired"}}

\* scheduleBroadcastShutdownExec.
Arm(r) ==
    /\ request[r].pc = "arm"
    /\ InTime
    /\ timer' = [Stopped EXCEPT ![request[r].timer] = "armed"]
    /\ pending' = [handle |-> request[r].timer, at |-> request[r].timer]
    /\ revoked' = Revoked
    /\ Answer(r)
    /\ UNCHANGED <<machine, backups, restores, shown, updates, left>>

\* cancelBroadcastShutdownExec, which comes before the broadcast.
Cancel(r) ==
    /\ Handles(r, "cancel")
    /\ Alone
    /\ InTime
    /\ pending.at # None
    /\ timer' = Stopped
    /\ pending' = [handle |-> None, at |-> None]
    /\ revoked' = Revoked
    /\ request' = [request EXCEPT ![r].pc = "retract"]
    /\ UNCHANGED <<machine, backups, restores, shown, updates, left>>

Retract(r) ==
    /\ request[r].pc = "retract"
    /\ \/ shown' = None /\ UNCHANGED left
       \/ Fault("broadcast") /\ UNCHANGED shown
    /\ Answer(r)
    /\ UNCHANGED <<machine, backups, restores, timer, pending, revoked, updates>>

Expire(t) ==
    /\ timer[t] = "armed"
    /\ timer' = [timer EXCEPT ![t] = "expired"]
    /\ UNCHANGED <<machine, backups, restores, pending, shown, revoked, updates, request, left>>

\* The timer's function clears whatever is armed, then runs its verb: "Restart"
\* restarts, "Maintenance" and "Update" stop (shutdownVerb).
Fire(t) ==
    /\ timer[t] = "expired"
    /\ timer' = [timer EXCEPT ![t] = "fired"]
    /\ pending' = [handle |-> None, at |-> None]
    /\ shown' = IF shown = t THEN None ELSE shown
    /\ \E verb \in {"restart", "stop"} : Execute(verb)
    /\ UNCHANGED <<backups, database, revoked, watcher, request, left>>

-----------------------------------------------------------------------------
(* The update watcher.                                                     *)

NewUpdate == {u \in Updates : task[u] = "none" /\ \A w \in Updates : task[w] = "none" => u <= w}

\* updateApplication, then kickAfterUpdateRestart.
Update(u) ==
    /\ "update" \in Kinds
    /\ container
    /\ u \in NewUpdate
    /\ MayBegin
    /\ task' = [task EXCEPT ![u] = "queued"]
    /\ watcher' = [watcher EXCEPT ![u].pc = "poll"]
    /\ UNCHANGED <<machine, backups, restores, countdowns, request, left>>

\* AMP runs the update, which crashes the game servers it rewrites.
UpdateRuns(u) ==
    /\ task[u] = "queued"
    /\ task' = [task EXCEPT ![u] = "running"]
    /\ game' = FALSE
    /\ UNCHANGED <<container, boot, backups, restores, countdowns, watcher, request, left>>

UpdateOver(u) ==
    /\ task[u] = "running"
    /\ task' = [task EXCEPT ![u] = "over"]
    /\ UNCHANGED <<machine, backups, restores, countdowns, watcher, request, left>>

RunningTasks == {n \in 0..(MaxUpdates + 1) :
                   LET running == Cardinality({u \in Updates : task[u] = "running"})
                   IN  n = running \/ (OtherTasks /\ n = running + 1)}

\* One turn of waitForUpdateThenRestart's loop on n running tasks; a failing
\* status call tells nothing.
Polled(w, n) == [w EXCEPT !.seen = @ \/ n > 0]
ClearedUnseen(w, n) == n = 0
NoCap(w) == ~w.seen /\ w.polls >= Grace
Cleared(w, n) == w.seen /\ n = 0
GivesUp(w) == (~w.seen /\ w.polls >= Grace) \/ w.polls >= Cap

Poll(u) ==
    /\ watcher[u].pc = "poll"
    /\ \E ok \in BOOLEAN, n \in RunningTasks :
         /\ ok => container
         /\ IF ~ok /\ container THEN Fault("tasks") ELSE UNCHANGED left
         /\ LET w == IF ok THEN Polled(watcher[u], n) ELSE watcher[u]
                ends == (ok /\ Cleared(w, n)) \/ GivesUp(w)
            IN  watcher' = [watcher EXCEPT ![u] =
                  IF ends THEN [w EXCEPT !.pc = "restart"] ELSE [w EXCEPT !.polls = IF @ < Cap THEN @ + 1 ELSE @]]
    /\ UNCHANGED <<machine, backups, restores, countdowns, task, request>>

WatcherRestarts(u) ==
    /\ watcher[u].pc = "restart"
    /\ Restart
    /\ watcher' = [watcher EXCEPT ![u].pc = "done"]
    /\ UNCHANGED <<backups, database, countdowns, request, left>>

-----------------------------------------------------------------------------
Dumping == Occurs \/ GraceEnds \/ SecondEnds \/ Tick \/ Mark \/ Marked \/ ScheduledDumpEnds \/ Prune
Restoring == Check \/ StopShards \/ OpenFile \/ RestoreEnds

Asking(r) == \/ Backup(r) \/ BackupEnds(r)
             \/ Put(r) \/ PutSaved(r)
             \/ Announce(r) \/ Arm(r) \/ Cancel(r) \/ Retract(r)
             \/ \E d \in Dumps : Delete(r, d) \/ Restore(r, d)

Next == \/ Dumping
        \/ Restoring
        \/ \E r \in Requests : Asking(r)
        \/ \E verb \in {"start", "stop", "restart"} : Command(verb)
        \/ \E t \in Timers : Expire(t) \/ Fire(t)
        \/ \E u \in Updates : \/ Update(u) \/ UpdateRuns(u) \/ UpdateOver(u)
                              \/ Poll(u) \/ WatcherRestarts(u)

Spec == Init /\ [][Next]_vars

\* The watchers run on.
FairSpec == /\ Spec
            /\ \A u \in Updates : WF_vars(Poll(u)) /\ WF_vars(WatcherRestarts(u))

-----------------------------------------------------------------------------
FileStates == {"none", "writing", "shared", "whole", "partial", "lost"}

\* The goroutine of a request or of the scheduler, in one of pcs; its timer is
\* the scheduler's occurrence.
Task(pcs, timers) ==
    [pc : pcs, dump : 0..MaxDumps, boot : Nat, timer : timers, enabled : BOOLEAN,
     lastFired : 0..MaxOccurrences]

TypeOK ==
    /\ game \in BOOLEAN /\ container \in BOOLEAN /\ boot \in Nat
    /\ files \in Seq(Dumps)
    /\ dump \in [Dumps -> FileStates]
    /\ sameSecond \in BOOLEAN
    /\ deleted \subseteq Dumps
    /\ schedule \in [enabled : BOOLEAN, lastFired : 0..MaxOccurrences]
    /\ occurrence \in [latest : 0..MaxOccurrences, grace : BOOLEAN]
    /\ scheduler \in Task({"idle", "mark", "marking", "dump", "prune"}, 0..MaxOccurrences)
    /\ fired \in [Occurrences -> Nat]
    /\ job \in [pc : {"none", "check", "stop", "file", "restore", "done"},
                dump : 0..MaxDumps, boot : Nat, stopped : BOOLEAN,
                started : BOOLEAN, failed : BOOLEAN]
    /\ timer \in [Timers -> {"none", "armed", "expired", "stopped", "fired"}]
    /\ pending \in [handle : 0..MaxTimers, at : 0..MaxTimers]
    /\ shown \in 0..MaxTimers
    /\ revoked \subseteq Timers
    /\ watcher \in [Updates -> [pc : {"none", "poll", "restart", "done"},
                                seen : BOOLEAN, polls : Nat]]
    /\ task \in [Updates -> {"none", "queued", "running", "over", "cut"}]
    /\ request \in [Requests -> Task({"idle", "dump", "save", "arm", "retract"}, 0..MaxTimers)]
    /\ left \in [faults : Nat, verbs : Nat]

\* An occurrence of the schedule is dumped once, whatever requests rewrite the
\* row that holds the watermark (setBackupLastFired, handleUpdateScheduledBackups).
BackedUpOnce == \A o \in Occurrences : fired[o] <= 1

\* Of the dumps that were completed the newest keep_n are there, but for those
\* an operator deleted, those another dump of the same second overwrote or
\* removed, and one per file that is no complete dump: those count as dumps for
\* the retention (listDBBackupsInDir, backupsToPrune, createDBBackup).
NewestKept ==
    LET present == Cardinality(Whole \cap ToSet(files))
        broken == Cardinality(Broken)
        gone == Cardinality(deleted)
        lost == Cardinality(Lost)
        all == Cardinality(Whole \cup Lost)
    IN  present + broken + gone + lost >= IF KeepN = 0 \/ all < KeepN THEN all ELSE KeepN

\* What an operator can count on: each occurrence of the schedule is dumped
\* once, and the newest dumps are there to restore from, unless two were taken
\* in one second.
BackupsSound == BackedUpOnce /\ NewestKept

\* As an operator who sets keep_n reads it: the newest keep_n backups.  Dumps
\* that failed push complete ones out, and those of one second overwrite them.
KeepsBackups ==
    LET all == Cardinality(Whole \cup Lost)
    IN  Cardinality(Whole \cap ToSet(files)) + Cardinality(deleted)
          >= IF KeepN = 0 \/ all < KeepN THEN all ELSE KeepN

\* A job that reports success has replaced the database by a dump that was
\* complete, and none other has touched it since (classifyPgRestoreResult,
\* dbRestoreJobs).  Its file may be lost to a dump of the same second later.
DoneIsRestored ==
    job.pc = "done" /\ ~job.failed =>
        /\ job.dump \in Whole \cup Lost
        /\ database = ToString(job.dump)

\* From the moment its check or its stop has passed, the job has no game on its
\* database, unless someone started the game in the meantime.
GameOffUnlessStarted ==
    job.pc \in {"file", "restore"} => ~game \/ job.started

\* The two promises of a restore job.
RestoreSound == DoneIsRestored /\ GameOffUnlessStarted

\* "The caller must ensure the game is stopped" (pgRestoreCommand).
GameOff == job.pc = "restore" => ~game

\* "Never touch game servers over a bad filename" (handleDBBackupRestore): the
\* servers are stopped for a restore that can begin.
NotStoppedForNothing ==
    job.pc = "done" /\ job.stopped => job.boot > 0

\* A timer that was cancelled or replaced never runs its command.
RevokedNeverFires == \A t \in revoked : timer[t] # "fired"

\* What is armed can be cancelled and is what /status shows; and when no
\* request is in the middle of it, it is the countdown the players see.
ArmedIsShown ==
    /\ \A t \in Timers : timer[t] = "armed" => pending = [handle |-> t, at |-> t]
    /\ pending.at # None => timer[pending.at] \in {"armed", "expired"}
    /\ \A t \in Timers : timer[t] = "armed" /\ ~Broadcasting => shown = t

\* The two promises of a countdown.
CountdownSound == RevokedNeverFires /\ ArmedIsShown

\* The watcher lets its update finish before it cycles the container, unless
\* none appeared in time or it never ends (waitForUpdateThenRestart).
UpdateNotCut ==
    \A u \in Updates :
        watcher[u].pc = "restart" /\ task[u] \in {"queued", "running"} =>
            watcher[u].polls >= (IF watcher[u].seen THEN Cap ELSE Grace)

\* An update is followed by a restart, even if its task never ends or AMP's
\* status fails all the time.
UpdateRestarts ==
    \A u \in Updates : watcher[u].pc = "poll" ~> watcher[u].pc = "done"

\* The two promises of the watcher.
UpdateHandled == []UpdateNotCut /\ UpdateRestarts
=============================================================================
