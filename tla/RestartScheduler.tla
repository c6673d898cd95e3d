-------------------------- MODULE RestartScheduler --------------------------
(***************************************************************************)
(* The scheduled game-server restarts (scheduled_restart.go), the two      *)
(* requests that write a schedule (handlers_scheduled_restart.go) and the  *)
(* statements by which a schedule is read and written (schedule_store.go). *)
(*                                                                         *)
(* A weekly rule is the set of its occurrences in the window of time that  *)
(* is explored; time zones, weekdays and the bit mask they are stored as   *)
(* are abstracted into that set.  A load is two queries and a save one     *)
(* transaction; nothing keeps the load and the save of a caller together,  *)
(* and every caller but the decision of a tick loads to save.              *)
(***************************************************************************)
EXTENDS Integers, FiniteSets, FiniteSetsExt

CONSTANTS Servers,      \* the registered servers, one schedule each
          Scheduler,    \* the goroutine of runRestartScheduler
          Operators,    \* requests that may be under way at a time
          MaxTime,      \* the explored window of time
          Grace,        \* restartFireGrace
          DefaultLead,  \* defaultWarnMinutes
          Leads,        \* values of warn_minutes an operator saves
          RuleSets,     \* occurrences of the rules an operator saves
          FirstRules,   \* the rules stored at the start
          Overlap,      \* TRUE: requests and ticks may overlap in time
          Prompt,       \* TRUE: a tick is over before the clock moves on
          Requests,     \* the requests that occur: "update", "skip"
          Faults        \* what may fail: "load", "save", "offline", "broadcast",
                        \* "crash"

None == 0
Never == -1             \* the scheduler has not ticked
Occurrences == 1..MaxTime
Instants == 0..MaxTime
Tasks == Operators \cup {Scheduler}

ASSUME TimeAssumption == MaxTime \in Nat /\ Grace \in Nat /\ DefaultLead \in Nat
ASSUME RulesAssumption == /\ FirstRules \subseteq Occurrences
                          /\ RuleSets \subseteq SUBSET Occurrences
                          /\ Leads \subseteq Nat
ASSUME TaskAssumption == Servers # {} /\ Scheduler \notin Operators

MaxCount == 2           \* the counters below saturate here

VARIABLES now, schedule, task, at, todo, warnedFor,
          fired,    \* how often each occurrence's restart command was issued
          warned,   \* how often each occurrence was announced to the players
          skipped,  \* occurrences an operator was told are skipped
          offered,  \* occurrences some saved, enabled schedule held
          since     \* when the schedule was last edited

vars == <<now, schedule, task, at, todo, warnedFor, fired, warned, skipped,
          offered, since>>
history == <<fired, warned, skipped, offered, since>>

Config == [enabled : BOOLEAN, lead : (Leads \ {0}) \cup {DefaultLead},
           lastFired : Instants, rules : SUBSET Occurrences]

\* What a load answers for a missing row, and for an error.
DefaultConfig == [enabled |-> FALSE, lead |-> DefaultLead,
                  lastFired |-> None, rules |-> {}]

Idle == [pc |-> "idle", server |-> CHOOSE s \in Servers : TRUE,
         request |-> "none", cfg |-> DefaultConfig, body |-> DefaultConfig,
         target |-> None]

Init == /\ now = 0
        /\ schedule = [s \in Servers |->
                         [DefaultConfig EXCEPT !.enabled = TRUE, !.rules = FirstRules]]
        /\ task = [t \in Tasks |-> Idle]
        /\ at = Never
        /\ todo = {}
        /\ warnedFor = [s \in Servers |-> None]
        /\ fired = [s \in Servers |-> [x \in Occurrences |-> 0]]
        /\ warned = [s \in Servers |-> [x \in Occurrences |-> 0]]
        /\ skipped = [s \in Servers |-> {}]
        /\ offered = [s \in Servers |-> FirstRules]
        /\ since = [s \in Servers |-> 0]

-----------------------------------------------------------------------------
(* The decision of a tick.                                                 *)

Earlier(rules, t) == {x \in rules : x <= t}
Later(rules, t) == {x \in rules : x > t}

PrevEarliest(t, rules) == IF Earlier(rules, t) = {} THEN None ELSE Min(Earlier(rules, t))
PrevRestartAt(t, rules) == IF Earlier(rules, t) = {} THEN None ELSE Max(Earlier(rules, t))
NextRestartAt(t, rules) == IF Later(rules, t) = {} THEN None ELSE Min(Later(rules, t))

\* Mutated forms of DueAt.
DueAgain(t, cfg) ==
    LET prev == PrevRestartAt(t, cfg.rules)
    IN  IF cfg.enabled /\ prev >= cfg.lastFired /\ t - prev <= Grace
        THEN prev ELSE None
DueDisabled(t, cfg) ==
    LET prev == PrevRestartAt(t, cfg.rules)
    IN  IF prev > cfg.lastFired /\ t - prev <= Grace THEN prev ELSE None

\* The occurrence to fire now, or None.
DueAt(t, cfg) ==
    LET prev == PrevRestartAt(t, cfg.rules)
    IN  IF cfg.enabled /\ prev > cfg.lastFired /\ t - prev <= Grace
        THEN prev ELSE None

\* Mutated forms of WarnAt.
WarnSkipped(t, cfg, already) ==
    LET next == NextRestartAt(t, cfg.rules)
    IN  IF cfg.enabled /\ next - t <= cfg.lead /\ next # None /\ next # already
        THEN next ELSE None
WarnAgain(t, cfg, already) ==
    LET next == NextRestartAt(t, cfg.rules)
    IN  IF cfg.enabled /\ next - t <= cfg.lead /\ next > cfg.lastFired
        THEN next ELSE None
WarnLate(t, cfg, already) ==
    LET next == NextRestartAt(t, cfg.rules)
    IN  IF cfg.enabled /\ next - t < cfg.lead /\ next > cfg.lastFired /\ next # already
        THEN next ELSE None

\* The occurrence to warn of now, or None.
WarnAt(t, cfg, already) ==
    LET next == NextRestartAt(t, cfg.rules)
    IN  IF /\ cfg.enabled
           /\ next - t <= cfg.lead
           /\ next > cfg.lastFired
           /\ next # already
        THEN next ELSE None

-----------------------------------------------------------------------------
(* Loading and saving, by whichever task.                                  *)

\* A load for a decision is at "row" and "rules", the one of
\* setRestartLastFired at "markRow" and "markRules".
AfterRules(pc) == IF pc = "rules" THEN "loaded" ELSE "mark"

LoadRow(t) ==
    /\ task[t].pc \in {"row", "markRow"}
    /\ task' = [task EXCEPT
         ![t].cfg = [schedule[task[t].server] EXCEPT !.rules = {}],
         ![t].pc = IF task[t].pc = "row" THEN "rules" ELSE "markRules"]
    /\ UNCHANGED <<now, schedule, at, todo, warnedFor, history>>

LoadRules(t) ==
    /\ task[t].pc \in {"rules", "markRules"}
    /\ task' = [task EXCEPT ![t].cfg.rules = schedule[task[t].server].rules,
                            ![t].pc = AfterRules(task[t].pc)]
    /\ UNCHANGED <<now, schedule, at, todo, warnedFor, history>>

\* Either query fails: the caller goes on with the disabled default.
LoadFails(t) ==
    /\ "load" \in Faults
    /\ task[t].pc \in {"row", "rules", "markRow", "markRules"}
    /\ task' = [task EXCEPT
         ![t].cfg = DefaultConfig,
         ![t].pc = IF task[t].pc \in {"row", "rules"} THEN "loaded" ELSE "mark"]
    /\ UNCHANGED <<now, schedule, at, todo, warnedFor, history>>

NormalAsGiven(cfg) == cfg

\* A saved warn_minutes of 0 stands for the default.
Normal(cfg) == IF cfg.lead = 0 THEN [cfg EXCEPT !.lead = DefaultLead] ELSE cfg

\* saveRestartSchedule replaces the row and the rules together.
Save(s, cfg) ==
    /\ schedule' = [schedule EXCEPT ![s] = Normal(cfg)]
    /\ offered' = [offered EXCEPT ![s] = IF cfg.enabled THEN @ \cup cfg.rules ELSE @]

SaveFails ==
    /\ "save" \in Faults
    /\ UNCHANGED <<schedule, offered>>

MarkedOnly(t) == [DefaultConfig EXCEPT !.lastFired = t.target]

\* What setRestartLastFired saves.
Marked(t) == [t.cfg EXCEPT !.lastFired = t.target]

Quiet == \A t \in Tasks : task[t].pc = "idle"

-----------------------------------------------------------------------------
(* The scheduler goroutine: one tick goes through the servers in turn.     *)

Self == task[Scheduler]

\* On to the next server; what was loaded for this one is local to its turn.
NextTurn == task' = [task EXCEPT ![Scheduler] = [Idle EXCEPT !.pc = "next"]]

StartTick ==
    /\ Self.pc = "idle"
    /\ Overlap \/ Quiet
    /\ at' = now
    /\ todo' = Servers
    /\ NextTurn
    /\ UNCHANGED <<now, schedule, warnedFor, history>>

NextServer ==
    /\ Self.pc = "next"
    /\ \E s \in todo :
         /\ todo' = todo \ {s}
         /\ task' = [task EXCEPT ![Scheduler].server = s, ![Scheduler].pc = "row"]
    /\ UNCHANGED <<now, schedule, at, warnedFor, history>>

EndTick ==
    /\ Self.pc = "next"
    /\ todo = {}
    /\ task' = [task EXCEPT ![Scheduler] = Idle]
    /\ UNCHANGED <<now, schedule, at, todo, warnedFor, history>>

Due == DueAt(at, Self.cfg)
ToWarn == WarnAt(at, Self.cfg, warnedFor[Self.server])

DecideFire ==
    /\ Self.pc = "loaded"
    /\ Due # None
    /\ task' = [task EXCEPT ![Scheduler].target = Due, ![Scheduler].pc = "markRow"]
    /\ UNCHANGED <<now, schedule, at, todo, warnedFor, history>>

\* A broadcast that fails is logged and counts as given.
DecideWarn ==
    /\ Self.pc = "loaded"
    /\ Due = None
    /\ ToWarn # None
    /\ \/ warned' = [warned EXCEPT ![Self.server][ToWarn] = Min({@ + 1, MaxCount})]
       \/ "broadcast" \in Faults /\ UNCHANGED warned
    /\ warnedFor' = [warnedFor EXCEPT ![Self.server] = ToWarn]
    /\ NextTurn
    /\ UNCHANGED <<now, schedule, at, todo, fired, skipped, offered, since>>

DecideNothing ==
    /\ Self.pc = "loaded"
    /\ Due = None
    /\ ToWarn = None
    /\ NextTurn
    /\ UNCHANGED <<now, schedule, at, todo, warnedFor, history>>

\* The watermark is written before the command, and an error only logged.
MarkFired ==
    /\ Self.pc = "mark"
    /\ \/ Save(Self.server, Marked(Self))
       \/ SaveFails
    /\ task' = [task EXCEPT ![Scheduler].pc = "exec"]
    /\ UNCHANGED <<now, at, todo, warnedFor, fired, warned, skipped, since>>

\* ExecCommand, whose error is only logged.
Restart ==
    /\ Self.pc = "exec"
    /\ fired' = [fired EXCEPT ![Self.server][Self.target] = Min({@ + 1, MaxCount})]
    /\ NextTurn
    /\ UNCHANGED <<now, schedule, at, todo, warnedFor, warned, skipped, offered, since>>

\* The control plane or the executor is not connected.
RestartSkipped ==
    /\ "offline" \in Faults
    /\ Self.pc = "exec"
    /\ NextTurn
    /\ UNCHANGED <<now, schedule, at, todo, warnedFor, history>>

-----------------------------------------------------------------------------
(* The requests.                                                           *)

Request(o, request, s, body) ==
    /\ request \in Requests
    /\ task[o].pc = "idle"
    /\ Overlap \/ Quiet
    /\ task' = [task EXCEPT ![o] = [Idle EXCEPT !.pc = "row", !.request = request,
                                                !.server = s, !.body = body]]
    /\ UNCHANGED <<now, schedule, at, todo, warnedFor, history>>

AskUpdate(o) ==
    \E s \in Servers, enabled \in BOOLEAN, lead \in Leads, rules \in RuleSets :
        Request(o, "update", s, [DefaultConfig EXCEPT
            !.enabled = enabled, !.lead = lead, !.rules = rules])

AskSkip(o) == \E s \in Servers : Request(o, "skip", s, DefaultConfig)

\* handleUpdateScheduledRestarts writes its body with the watermark it loaded.
Edited(t) == [t.body EXCEPT !.lastFired = t.cfg.lastFired]

Update(o) ==
    /\ task[o].request = "update"
    /\ task[o].pc = "loaded"
    /\ \/ /\ Save(task[o].server, Edited(task[o]))
          /\ since' = [since EXCEPT ![task[o].server] = now]
       \/ /\ SaveFails
          /\ UNCHANGED since
    /\ task' = [task EXCEPT ![o] = Idle]
    /\ UNCHANGED <<now, at, todo, warnedFor, fired, warned, skipped>>

SkipTarget(t, cfg) == NextRestartAt(t, cfg.rules)

SkipNothing(o) ==
    /\ task[o].request = "skip"
    /\ task[o].pc = "loaded"
    /\ SkipTarget(now, task[o].cfg) = None
    /\ task' = [task EXCEPT ![o] = Idle]
    /\ UNCHANGED <<now, schedule, at, todo, warnedFor, history>>

SkipNext(o) ==
    /\ task[o].request = "skip"
    /\ task[o].pc = "loaded"
    /\ SkipTarget(now, task[o].cfg) # None
    /\ task' = [task EXCEPT ![o].target = SkipTarget(now, task[o].cfg),
                            ![o].pc = "markRow"]
    /\ UNCHANGED <<now, schedule, at, todo, warnedFor, history>>

\* The operator is told that the restart is skipped, saved or not.
MarkSkipped(o) ==
    /\ task[o].request = "skip"
    /\ task[o].pc = "mark"
    /\ \/ Save(task[o].server, Marked(task[o]))
       \/ SaveFails
    /\ skipped' = [skipped EXCEPT ![task[o].server] = @ \cup {task[o].target}]
    /\ task' = [task EXCEPT ![o] = Idle]
    /\ UNCHANGED <<now, at, todo, warnedFor, fired, warned, since>>

-----------------------------------------------------------------------------

\* With Prompt the ticks keep pace with the clock: half a minute against the
\* minutes of the grace period, as long as no restart command blocks.
Advance ==
    /\ now < MaxTime
    /\ Prompt => Self.pc = "idle" /\ at = now
    /\ now' = now + 1
    /\ UNCHANGED <<schedule, task, at, todo, warnedFor, history>>

Crash ==
    /\ "crash" \in Faults
    /\ task' = [t \in Tasks |-> Idle]
    /\ todo' = {}
    /\ at' = Never
    /\ warnedFor' = [s \in Servers |-> None]
    /\ UNCHANGED <<now, schedule, history>>

Tick == \/ StartTick \/ NextServer \/ EndTick
        \/ DecideFire \/ DecideWarn \/ DecideNothing
        \/ MarkFired \/ Restart \/ RestartSkipped

Serve(o) == \/ AskUpdate(o) \/ Update(o)
            \/ AskSkip(o) \/ SkipNothing(o) \/ SkipNext(o) \/ MarkSkipped(o)

Next == \/ Tick \/ Advance \/ Crash
        \/ \E o \in Operators : Serve(o)
        \/ \E t \in Tasks : LoadRow(t) \/ LoadRules(t) \/ LoadFails(t)

Spec == Init /\ [][Next]_vars
-----------------------------------------------------------------------------
(* Properties.                                                             *)

TaskState ==
    [pc : {"idle", "next", "row", "rules", "loaded", "markRow", "markRules", "mark",
           "exec"},
     server : Servers, request : {"none", "update", "skip"}, cfg : Config,
     body : [enabled : BOOLEAN, lead : Leads \cup {DefaultLead}, lastFired : {None},
             rules : SUBSET Occurrences],
     target : Instants]

TypeOK ==
    /\ now \in Instants /\ at \in Instants \cup {Never}
    /\ schedule \in [Servers -> Config]
    /\ todo \subseteq Servers
    /\ warnedFor \in [Servers -> Instants]
    /\ task \in [Tasks -> TaskState]
    /\ fired \in [Servers -> [Occurrences -> 0..MaxCount]]
    /\ warned \in [Servers -> [Occurrences -> 0..MaxCount]]
    /\ skipped \in [Servers -> SUBSET Instants]
    /\ offered \in [Servers -> SUBSET Occurrences]
    /\ since \in [Servers -> Instants]

\* The restart command of one occurrence is issued at most once, however many
\* ticks see it due, however the command ends and whenever dune-admin restarts
\* ("Watermark first so a failed/looping restart can't re-fire").
FiredOnce == \A s \in Servers, x \in Occurrences : fired[s][x] <= 1

\* Only what some saved and enabled schedule of that server held is fired.
FiredWasScheduled ==
    \A s \in Servers, x \in Occurrences : fired[s][x] > 0 => x \in offered[s]

\* An occurrence that its operator was told is skipped is neither warned of
\* nor fired from then on (the comment of handleSkipNextRestart).
SkippedStaysQuiet ==
    [][\A s \in Servers : \A x \in skipped[s] :
         fired'[s][x] = fired[s][x] /\ warned'[s][x] = warned[s][x]]_vars

\* Every restart that is fired was announced to the players before (the head
\* comment of scheduled_restart.go), when the schedule was in place ahead of it.
FiredAfterWarning ==
    \A s \in Servers, x \in Occurrences : fired[s][x] > 0 => warned[s][x] > 0

\* Players are warned of one restart once.
WarnedOnce == \A s \in Servers, x \in Occurrences : warned[s][x] <= 1

\* An occurrence of an enabled schedule that was saved before it is fired by
\* the end of its grace period, unless that very occurrence was skipped.
NoneMissed ==
    \A s \in Servers : schedule[s].enabled =>
      \A x \in schedule[s].rules :
        since[s] < x /\ x + Grace < now => fired[s][x] > 0 \/ x \in skipped[s]

\* Firing and skipping leave the rest of the schedule alone: only an edit
\* changes it (the comment of setRestartLastFired).
OnlyEditsEdit ==
    [][\A s \in Servers :
         [schedule'[s] EXCEPT !.lastFired = schedule[s].lastFired] # schedule[s]
           => \E o \in Operators : task[o].request = "update" /\ task[o].server = s
                                   /\ task[o].pc = "loaded"]_vars

=============================================================================
