----------------------- MODULE RestartSchedulerProofs -----------------------
(***************************************************************************)
(* Theorems about the scheduled restarts, for every set of servers and     *)
(* requests, every schedule, grace period and window of time.              *)
(***************************************************************************)
EXTENDS RestartScheduler, WellFoundedInduction, TLAPS

-----------------------------------------------------------------------------
(* Minima and maxima                                                       *)

LEMMA Least == ASSUME NEW S \in SUBSET Nat, S # {} PROVE \E x \in S : \A y \in S : x <= y
<1>1. PICK x \in S : \A y \in S : ~(<<y, x>> \in OpToRel(<, Nat))
  BY NatLessThanWellFounded, WFMin
<1>2. \A y \in S : ~(y < x)
  BY <1>1 DEF OpToRel
<1> QED  BY <1>2

\* The smallest element of a set of numbers is one of them.
LEMMA MinOf == ASSUME NEW S \in SUBSET Nat, S # {} PROVE Min(S) \in S /\ \A y \in S : Min(S) <= y
BY Least DEF Min

\* So is the largest, when the numbers are bounded.
LEMMA MaxOf ==
    ASSUME NEW n \in Nat, NEW S \in SUBSET (0..n), S # {}
    PROVE  Max(S) \in S /\ \A y \in S : y <= Max(S)
<1> DEFINE T == {n - x : x \in S}
<1>1. \A x \in S : n - x \in Nat  OBVIOUS
<1>2. T \subseteq Nat /\ T # {}  BY <1>1
<1>3. PICK t \in T : \A y \in T : t <= y  BY <1>2, Least
<1>4. PICK x \in S : t = n - x  BY <1>3
<1>5. \A y \in S : x >= y
  <2>1. TAKE y \in S
  <2>2. n - y \in T  OBVIOUS
  <2>3. n - x <= n - y  BY <1>3, <1>4, <2>2
  <2> QED  BY <2>3
<1> QED  BY <1>5 DEF Max

\* A count that saturates stays in its range and leaves 0.
LEMMA CountUp == \A n \in 0..MaxCount : /\ Min({n + 1, MaxCount}) \in 0..MaxCount
                                        /\ Min({n + 1, MaxCount}) > 0
                                        /\ n = 0 => Min({n + 1, MaxCount}) = 1
<1> TAKE n \in 0..MaxCount
<1>1. {n + 1, MaxCount} \in SUBSET Nat  BY DEF MaxCount
<1>2. Min({n + 1, MaxCount}) \in {n + 1, MaxCount} /\ Min({n + 1, MaxCount}) <= n + 1
      /\ Min({n + 1, MaxCount}) <= MaxCount
  BY <1>1, MinOf
<1> QED  BY <1>2 DEF MaxCount

\* The occurrences a decision and a skip pick are rules on the right side of
\* the time they are asked for.
LEMMA Picked ==
    ASSUME NEW t \in Int, NEW rules \in SUBSET Occurrences
    PROVE  /\ PrevRestartAt(t, rules) \in Instants /\ NextRestartAt(t, rules) \in Instants
           /\ PrevRestartAt(t, rules) # None =>
                PrevRestartAt(t, rules) \in rules /\ PrevRestartAt(t, rules) <= t
           /\ NextRestartAt(t, rules) # None =>
                NextRestartAt(t, rules) \in rules /\ NextRestartAt(t, rules) > t
<1> USE TimeAssumption DEF TimeAssumption
<1>0. /\ MaxTime \in Nat
      /\ \A x \in rules : x \in Nat /\ x > 0 /\ x <= MaxTime
  BY DEF Occurrences
<1>1. ASSUME Earlier(rules, t) # {}  PROVE Max(Earlier(rules, t)) \in Earlier(rules, t)
  <2>1. Earlier(rules, t) \in SUBSET (0..MaxTime)  BY <1>0 DEF Earlier
  <2> QED  BY <1>1, <2>1, MaxOf
<1>2. ASSUME Later(rules, t) # {}  PROVE Min(Later(rules, t)) \in Later(rules, t)
  <2>1. Later(rules, t) \in SUBSET Nat  BY <1>0 DEF Later
  <2> QED  BY <1>2, <2>1, MinOf
<1>3. PrevRestartAt(t, rules) \in Earlier(rules, t) \cup {None}
  BY <1>1 DEF PrevRestartAt
<1>4. NextRestartAt(t, rules) \in Later(rules, t) \cup {None}
  BY <1>2 DEF NextRestartAt
<1>5. \A x \in rules : x \in Instants  BY <1>0 DEF Instants
<1>6. None \in Instants  BY DEF None, Instants
<1> QED  BY <1>3, <1>4, <1>5, <1>6 DEF Earlier, Later

LEMMA DuePicked ==
    ASSUME NEW t \in Int, NEW cfg \in Config, DueAt(t, cfg) # None
    PROVE  /\ DueAt(t, cfg) \in cfg.rules /\ DueAt(t, cfg) \in Occurrences
           /\ DueAt(t, cfg) <= t /\ DueAt(t, cfg) > cfg.lastFired
           /\ cfg.enabled
<1>1. cfg.rules \in SUBSET Occurrences  BY DEF Config
<1> QED  BY <1>1, Picked DEF DueAt

-----------------------------------------------------------------------------
(* Type correctness                                                        *)

LEMMA Constants ==
    /\ MaxTime \in Nat /\ Grace \in Nat /\ DefaultLead \in Nat
    /\ None \in Instants /\ Instants \subseteq Nat /\ Occurrences \subseteq Instants
    /\ FirstRules \subseteq Occurrences /\ Leads \subseteq Nat
    /\ \A r \in RuleSets : r \in SUBSET Occurrences
BY TimeAssumption, RulesAssumption
   DEF TimeAssumption, RulesAssumption, None, Instants, Occurrences

LEMMA IdleType == DefaultConfig \in Config /\ Idle \in TaskState
<1>1. DefaultConfig \in Config  BY Constants DEF DefaultConfig, Config
<1>2. (CHOOSE s \in Servers : TRUE) \in Servers  BY TaskAssumption DEF TaskAssumption
<1>3. DefaultConfig \in [enabled : BOOLEAN, lead : Leads \cup {DefaultLead},
                         lastFired : {None}, rules : SUBSET Occurrences]
  BY Constants DEF DefaultConfig
<1> QED  BY <1>1, <1>2, <1>3, Constants DEF Idle, TaskState

LEMMA InitType == Init => TypeOK
<1> SUFFICES ASSUME Init PROVE TypeOK  OBVIOUS
<1>1. [[DefaultConfig EXCEPT !.enabled = TRUE] EXCEPT !.rules = FirstRules] \in Config
  BY IdleType, Constants DEF DefaultConfig, Config
<1>2. [DefaultConfig EXCEPT !.enabled = TRUE, !.rules = FirstRules] \in Config
  BY <1>1
<1>3. schedule \in [Servers -> Config] /\ task \in [Tasks -> TaskState]
  BY <1>2, IdleType DEF Init
<1>4. 0 \in 0..MaxCount /\ 0 \in Instants  BY Constants DEF MaxCount, Instants
<1> QED  BY <1>3, <1>4, Constants DEF Init, TypeOK, None

\* What any caller may save.
Savable == [enabled : BOOLEAN, lead : Leads \cup {DefaultLead}, lastFired : Instants,
            rules : SUBSET Occurrences]

LEMMA SaveType ==
    ASSUME TypeOK, NEW s \in Servers, NEW cfg \in Savable, Save(s, cfg)
    PROVE  /\ schedule' \in [Servers -> Config]
           /\ offered' \in [Servers -> SUBSET Occurrences]
<1>1. Normal(cfg) \in Config  BY Constants DEF Normal, Savable, Config
<1>2. offered[s] \cup cfg.rules \in SUBSET Occurrences  BY DEF Savable, TypeOK
<1> QED  BY <1>1, <1>2 DEF Save, TypeOK

LEMMA MarkedType ==
    ASSUME NEW k \in TaskState PROVE Marked(k) \in Savable /\ Edited(k) \in Savable
BY DEF TaskState, Marked, Edited, Savable, Config

LEMMA TaskType ==
    ASSUME TypeOK, NEW t \in Tasks
    PROVE  /\ task[t] \in TaskState /\ task[t].server \in Servers
           /\ task[t].cfg \in Config /\ task[t].target \in Instants
           /\ schedule[task[t].server] \in Config
           /\ now \in Int /\ at \in Int
BY Constants DEF TypeOK, TaskState, Never

LEMMA TasksAre == Scheduler \in Tasks /\ \A o \in Operators : o \in Tasks /\ o # Scheduler
BY TaskAssumption DEF Tasks, TaskAssumption

LEMMA LoadType ==
    ASSUME TypeOK, NEW t \in Tasks, LoadRow(t) \/ LoadRules(t) \/ LoadFails(t)
    PROVE  TypeOK'
<1> DEFINE k == task[t]
<1> USE TaskType, IdleType DEF history
<1>1. CASE LoadRow(t)
  <2>1. [schedule[k.server] EXCEPT !.rules = {}] \in Config  BY DEF Config
  <2>2. [k EXCEPT !.cfg = [schedule[k.server] EXCEPT !.rules = {}],
                  !.pc = IF k.pc = "row" THEN "rules" ELSE "markRules"] \in TaskState
    BY <2>1 DEF TaskState
  <2>3. task' \in [Tasks -> TaskState]  BY <1>1, <2>2 DEF LoadRow, TypeOK
  <2> QED  BY <1>1, <2>3 DEF LoadRow, TypeOK
<1>2. CASE LoadRules(t)
  <2>1. [k.cfg EXCEPT !.rules = schedule[k.server].rules] \in Config  BY DEF Config
  <2>2. [k EXCEPT !.cfg = [k.cfg EXCEPT !.rules = schedule[k.server].rules],
                  !.pc = AfterRules(k.pc)] \in TaskState
    BY <2>1 DEF TaskState, AfterRules
  <2>3. task' \in [Tasks -> TaskState]  BY <1>2, <2>2 DEF LoadRules, TypeOK
  <2> QED  BY <1>2, <2>3 DEF LoadRules, TypeOK
<1>3. CASE LoadFails(t)
  <2>1. [k EXCEPT !.cfg = DefaultConfig,
                  !.pc = IF k.pc \in {"row", "rules"} THEN "loaded" ELSE "mark"] \in TaskState
    BY DEF TaskState
  <2>2. task' \in [Tasks -> TaskState]  BY <1>3, <2>1 DEF LoadFails, TypeOK
  <2> QED  BY <1>3, <2>2 DEF LoadFails, TypeOK
<1> QED  BY <1>1, <1>2, <1>3

\* A step that rewrites only the scheduler's own state, with a well-typed one.
LEMMA SelfType ==
    ASSUME TypeOK, NEW k \in TaskState, task' = [task EXCEPT ![Scheduler] = k]
    PROVE  task' \in [Tasks -> TaskState]
BY DEF TypeOK

LEMMA NextTurnType == ASSUME TypeOK, NextTurn PROVE task' \in [Tasks -> TaskState]
<1>1. [Idle EXCEPT !.pc = "next"] \in TaskState  BY IdleType DEF TaskState
<1> QED  BY <1>1, SelfType DEF NextTurn

LEMMA TickType == ASSUME TypeOK, Tick PROVE TypeOK'
<1> USE DEF history
<1>0. /\ Scheduler \in Tasks /\ Self \in TaskState /\ Self.server \in Servers
      /\ Self.cfg \in Config /\ Self.target \in Instants /\ at \in Int
  BY TasksAre, TaskType DEF Self
<1>1. CASE StartTick
  BY <1>1, NextTurnType DEF StartTick, TypeOK
<1>2. CASE NextServer
  <2>1. PICK s \in todo : /\ todo' = todo \ {s}
                          /\ task' = [task EXCEPT ![Scheduler].server = s,
                                                  ![Scheduler].pc = "row"]
    BY <1>2 DEF NextServer
  <2>2. [Self EXCEPT !.server = s, !.pc = "row"] \in TaskState
    BY <1>0 DEF TaskState, TypeOK
  <2>3. task' \in [Tasks -> TaskState]  BY <2>1, <2>2 DEF TypeOK, Self
  <2> QED  BY <1>2, <2>1, <2>3 DEF NextServer, TypeOK
<1>3. CASE EndTick
  BY <1>3, SelfType, IdleType DEF EndTick, TypeOK
<1>4. CASE DecideFire
  <2>1. Due \in Instants  BY <1>0, <1>4, DuePicked, Constants DEF DecideFire, Due
  <2>2. [Self EXCEPT !.target = Due, !.pc = "markRow"] \in TaskState
    BY <1>0, <2>1 DEF TaskState
  <2>3. task' \in [Tasks -> TaskState]  BY <1>4, <2>2 DEF DecideFire, TypeOK, Self
  <2> QED  BY <1>4, <2>3 DEF DecideFire, TypeOK
<1>5. CASE DecideWarn
  <2>1. ToWarn \in Instants /\ ToWarn \in Occurrences
    <3>1. Self.cfg.rules \in SUBSET Occurrences  BY <1>0 DEF Config
    <3> QED  BY <1>0, <1>5, <3>1, Picked DEF DecideWarn, ToWarn, WarnAt
  <2>2. warnedFor' \in [Servers -> Instants]
    BY <1>5, <2>1 DEF DecideWarn, TypeOK
  <2>3. warned' \in [Servers -> [Occurrences -> 0..MaxCount]]
    <3>1. warned[Self.server][ToWarn] \in 0..MaxCount  BY <1>0, <2>1 DEF TypeOK
    <3>2. Min({warned[Self.server][ToWarn] + 1, MaxCount}) \in 0..MaxCount
      BY <3>1, CountUp
    <3>3. [warned EXCEPT ![Self.server][ToWarn] = Min({@ + 1, MaxCount})]
            \in [Servers -> [Occurrences -> 0..MaxCount]]
      BY <1>0, <2>1, <3>2 DEF TypeOK
    <3> QED  BY <1>5, <3>3 DEF DecideWarn, TypeOK
  <2> QED  BY <1>5, <2>2, <2>3, NextTurnType DEF DecideWarn, TypeOK
<1>6. CASE DecideNothing
  BY <1>6, NextTurnType DEF DecideNothing, TypeOK
<1>7. CASE MarkFired
  <2>1. /\ schedule' \in [Servers -> Config]
        /\ offered' \in [Servers -> SUBSET Occurrences]
    BY <1>0, <1>7, MarkedType, SaveType DEF MarkFired, SaveFails, TypeOK
  <2>2. [Self EXCEPT !.pc = "exec"] \in TaskState  BY <1>0 DEF TaskState
  <2>3. task' \in [Tasks -> TaskState]  BY <1>7, <2>2 DEF MarkFired, TypeOK, Self
  <2> QED  BY <1>7, <2>1, <2>3 DEF MarkFired, TypeOK
<1>8. CASE Restart
  <2>1. fired' \in [Servers -> [Occurrences -> 0..MaxCount]]
    <3>1. CASE Self.target \in Occurrences
      <4>1. fired[Self.server][Self.target] \in 0..MaxCount  BY <1>0, <3>1 DEF TypeOK
      <4>2. Min({fired[Self.server][Self.target] + 1, MaxCount}) \in 0..MaxCount
        BY <4>1, CountUp
      <4> QED  BY <1>0, <1>8, <3>1, <4>2 DEF Restart, TypeOK
    <3>2. CASE Self.target \notin Occurrences
      BY <1>0, <1>8, <3>2 DEF Restart, TypeOK
    <3> QED  BY <3>1, <3>2
  <2> QED  BY <1>8, <2>1, NextTurnType DEF Restart, TypeOK
<1>9. CASE RestartSkipped
  BY <1>9, NextTurnType DEF RestartSkipped, TypeOK
<1> QED  BY <1>1, <1>2, <1>3, <1>4, <1>5, <1>6, <1>7, <1>8, <1>9 DEF Tick

LEMMA ServeType == ASSUME TypeOK, NEW o \in Operators, Serve(o) PROVE TypeOK'
<1> USE DEF history
<1> DEFINE k == task[o]
<1>0. /\ o \in Tasks /\ k \in TaskState /\ k.server \in Servers
      /\ k.cfg \in Config /\ k.target \in Instants /\ now \in Int /\ now \in Instants
  BY TasksAre, TaskType DEF TypeOK
<1>a. ASSUME NEW request \in {"update", "skip"}, NEW s \in Servers,
             NEW body \in [enabled : BOOLEAN, lead : Leads \cup {DefaultLead},
                           lastFired : {None}, rules : SUBSET Occurrences],
             Request(o, request, s, body)
      PROVE  TypeOK'
  <2>1. [Idle EXCEPT !.pc = "row", !.request = request, !.server = s, !.body = body]
          \in TaskState
    BY IdleType DEF TaskState
  <2>2. task' \in [Tasks -> TaskState]  BY <1>a, <2>1 DEF Request, TypeOK
  <2> QED  BY <1>a, <2>2 DEF Request, TypeOK
<1>1. CASE AskUpdate(o)
  <2>1. PICK s \in Servers, enabled \in BOOLEAN, lead \in Leads, rules \in RuleSets :
          Request(o, "update", s, [DefaultConfig EXCEPT
            !.enabled = enabled, !.lead = lead, !.rules = rules])
    BY <1>1 DEF AskUpdate
  <2>2. [DefaultConfig EXCEPT !.enabled = enabled, !.lead = lead, !.rules = rules]
          \in [enabled : BOOLEAN, lead : Leads \cup {DefaultLead},
               lastFired : {None}, rules : SUBSET Occurrences]
    BY Constants DEF DefaultConfig
  <2> QED  BY <1>a, <2>1, <2>2
<1>2. CASE Update(o)
  <2>1. /\ schedule' \in [Servers -> Config]
        /\ offered' \in [Servers -> SUBSET Occurrences]
    BY <1>0, <1>2, MarkedType, SaveType DEF Update, SaveFails, TypeOK
  <2>2. since' \in [Servers -> Instants]  BY <1>0, <1>2 DEF Update, TypeOK
  <2>3. task' \in [Tasks -> TaskState]  BY <1>2, IdleType DEF Update, TypeOK
  <2> QED  BY <1>2, <2>1, <2>2, <2>3 DEF Update, TypeOK
<1>3. CASE AskSkip(o)
  <2>1. DefaultConfig \in [enabled : BOOLEAN, lead : Leads \cup {DefaultLead},
                           lastFired : {None}, rules : SUBSET Occurrences]
    BY Constants DEF DefaultConfig
  <2> QED  BY <1>3, <1>a, <2>1 DEF AskSkip
<1>4. CASE SkipNothing(o)
  BY <1>4, IdleType DEF SkipNothing, TypeOK
<1>5. CASE SkipNext(o)
  <2>1. SkipTarget(now, k.cfg) \in Instants
    BY <1>0, Picked DEF SkipTarget, Config
  <2>2. [k EXCEPT !.target = SkipTarget(now, k.cfg), !.pc = "markRow"] \in TaskState
    BY <1>0, <2>1 DEF TaskState
  <2>3. task' \in [Tasks -> TaskState]  BY <1>5, <2>2 DEF SkipNext, TypeOK
  <2> QED  BY <1>5, <2>3 DEF SkipNext, TypeOK
<1>6. CASE MarkSkipped(o)
  <2>1. /\ schedule' \in [Servers -> Config]
        /\ offered' \in [Servers -> SUBSET Occurrences]
    BY <1>0, <1>6, MarkedType, SaveType DEF MarkSkipped, SaveFails, TypeOK
  <2>2. task' \in [Tasks -> TaskState]  BY <1>6, IdleType DEF MarkSkipped, TypeOK
  <2>3. skipped' \in [Servers -> SUBSET Instants]
    BY <1>0, <1>6 DEF MarkSkipped, TypeOK
  <2> QED  BY <1>6, <2>1, <2>2, <2>3 DEF MarkSkipped, TypeOK
<1> QED  BY <1>1, <1>2, <1>3, <1>4, <1>5, <1>6 DEF Serve

LEMMA AdvanceType == ASSUME TypeOK, Advance \/ Crash PROVE TypeOK'
<1> USE DEF history
<1>1. CASE Advance
  <2>1. now' \in Instants  BY <1>1, Constants DEF Advance, TypeOK, Instants
  <2> QED  BY <1>1, <2>1 DEF Advance, TypeOK
<1>2. CASE Crash
  BY <1>2, IdleType, Constants DEF Crash, TypeOK
<1> QED  BY <1>1, <1>2

LEMMA TypeStep == ASSUME TypeOK, [Next]_vars PROVE TypeOK'
<1>1. CASE Tick  BY <1>1, TickType
<1>2. CASE Advance \/ Crash  BY <1>2, AdvanceType
<1>3. CASE \E o \in Operators : Serve(o)  BY <1>3, ServeType
<1>4. CASE \E t \in Tasks : LoadRow(t) \/ LoadRules(t) \/ LoadFails(t)
  BY <1>4, LoadType
<1>5. CASE UNCHANGED vars  BY <1>5 DEF vars, TypeOK
<1> QED  BY <1>1, <1>2, <1>3, <1>4, <1>5 DEF Next

\* Every variable keeps its type: schedules stay well formed whatever is saved,
\* counts stay in range, and a decision never names a time outside the window.
THEOREM TypeCorrect == Spec => []TypeOK
BY InitType, TypeStep, PTL DEF Spec

-----------------------------------------------------------------------------
(* One at a time: without overlap, whoever is under way is alone.          *)

OneAtATime == \A t, u \in Tasks : task[t].pc # "idle" /\ task[u].pc # "idle" => t = u

\* A step of task t, which was under way or found nobody to be.
StepOf(t) == /\ task[t].pc # "idle" \/ Quiet
             /\ \A u \in Tasks \ {t} : task'[u] = task[u]

LEMMA Alone ==
    ASSUME OneAtATime, NEW t \in Tasks, StepOf(t)
    PROVE  OneAtATime' /\ \A u \in Tasks \ {t} : task'[u].pc = "idle"
BY DEF OneAtATime, StepOf, Quiet

LEMMA LoadIsStep ==
    ASSUME TypeOK, NEW t \in Tasks, LoadRow(t) \/ LoadRules(t) \/ LoadFails(t)
    PROVE  StepOf(t)
BY DEF LoadRow, LoadRules, LoadFails, StepOf, TypeOK

LEMMA TickIsStep == ASSUME TypeOK, ~Overlap, Tick PROVE StepOf(Scheduler)
BY TasksAre DEF Tick, StartTick, NextServer, EndTick, DecideFire, DecideWarn, DecideNothing,
    MarkFired, Restart, RestartSkipped, NextTurn, StepOf, TypeOK, Self

LEMMA ServeIsStep ==
    ASSUME TypeOK, ~Overlap, NEW o \in Operators, Serve(o) PROVE StepOf(o)
BY TasksAre DEF Serve, AskUpdate, Update, AskSkip, SkipNothing, SkipNext, MarkSkipped,
    Request, StepOf, TypeOK

-----------------------------------------------------------------------------
(* What is fired was scheduled                                             *)

\* A task that has loaded an enabled schedule has loaded offered occurrences.
Reading(t) ==
    /\ task[t].pc = "rules" => task[t].cfg.enabled = schedule[task[t].server].enabled
    /\ task[t].pc = "loaded" /\ task[t].cfg.enabled =>
         task[t].cfg.rules \subseteq offered[task[t].server]

\* So the occurrence a tick has decided to fire is an offered one.
TargetOffered ==
    Self.pc \in {"markRow", "markRules", "mark", "exec"} =>
      Self.target \in offered[Self.server]

StoredOffered == \A s \in Servers : schedule[s].enabled => schedule[s].rules \subseteq offered[s]

ScheduledInv == /\ OneAtATime
                /\ StoredOffered
                /\ \A t \in Tasks : Reading(t)
                /\ TargetOffered
                /\ FiredWasScheduled

LEMMA SaveOffers ==
    ASSUME TypeOK, StoredOffered, NEW s \in Servers, NEW cfg \in Savable, Save(s, cfg)
    PROVE  StoredOffered' /\ \A z \in Servers : offered[z] \subseteq offered'[z]
<1>1. Normal(cfg).enabled = cfg.enabled /\ Normal(cfg).rules = cfg.rules
  BY DEF Normal, Savable
<1>2. /\ schedule' = [schedule EXCEPT ![s] = Normal(cfg)]
      /\ offered' = [offered EXCEPT ![s] = IF cfg.enabled THEN @ \cup cfg.rules ELSE @]
  BY DEF Save
<1> QED  BY <1>1, <1>2 DEF TypeOK, StoredOffered

\* Reading and the target are about whoever is under way only.
LEMMA IdleReads == ASSUME NEW t \in Tasks, task[t].pc = "idle" PROVE Reading(t)
BY DEF Reading

LEMMA ScheduledInit == Init => ScheduledInv
<1> SUFFICES ASSUME Init PROVE ScheduledInv  OBVIOUS
<1>1. \A t \in Tasks : task[t].pc = "idle"  BY DEF Init, Idle
<1>2. StoredOffered  BY DEF Init, StoredOffered, DefaultConfig
<1>3. FiredWasScheduled  BY DEF Init, FiredWasScheduled
<1> QED  BY <1>1, <1>2, <1>3, IdleReads, TasksAre DEF ScheduledInv, OneAtATime, TargetOffered, Self

LEMMA ScheduledLoad ==
    ASSUME TypeOK, ScheduledInv, NEW t \in Tasks, LoadRow(t) \/ LoadRules(t) \/ LoadFails(t)
    PROVE  ScheduledInv'
<1>1. OneAtATime' /\ \A u \in Tasks \ {t} : task'[u].pc = "idle"
  BY Alone, LoadIsStep DEF ScheduledInv
<1>2. UNCHANGED <<schedule, offered, fired>>
  BY DEF LoadRow, LoadRules, LoadFails, history
<1>3. Reading(t)'
  <2>1. CASE LoadRow(t)
    BY <2>1, <1>2, TaskType DEF LoadRow, Reading, TypeOK, Config
  <2>2. CASE LoadRules(t)
    BY <2>2, <1>2, TaskType DEF LoadRules, Reading, TypeOK, Config, ScheduledInv, StoredOffered, AfterRules
  <2>3. CASE LoadFails(t)
    BY <2>3, <1>2 DEF LoadFails, Reading, TypeOK, DefaultConfig
  <2> QED  BY <2>1, <2>2, <2>3
<1>4. \A u \in Tasks : Reading(u)'
  BY <1>1, <1>3 DEF Reading
<1>5. TargetOffered'
  <2>1. CASE t = Scheduler
    <3>1. /\ task'[t].target = task[t].target /\ task'[t].server = task[t].server
          /\ task'[t].pc \in {"markRow", "markRules", "mark", "exec"} =>
               task[t].pc \in {"markRow", "markRules", "mark", "exec"}
      BY TaskType DEF LoadRow, LoadRules, LoadFails, TypeOK, TaskState, AfterRules
    <3> QED  BY <2>1, <1>2, <3>1 DEF TargetOffered, Self, ScheduledInv
  <2>2. CASE t # Scheduler
    BY <2>2, <1>1, TasksAre DEF TargetOffered, Self
  <2> QED  BY <2>1, <2>2
<1> QED  BY <1>1, <1>2, <1>4, <1>5 DEF ScheduledInv, StoredOffered, FiredWasScheduled

\* After a step of the scheduler that leaves it idle or between two servers.
LEMMA TurnReads ==
    ASSUME OneAtATime', \A u \in Tasks \ {Scheduler} : task'[u].pc = "idle",
           task'[Scheduler].pc \in {"idle", "next", "row"}
    PROVE  (\A t \in Tasks : Reading(t)') /\ TargetOffered'
BY DEF Reading, TargetOffered, Self

LEMMA TurnIsNext == ASSUME TypeOK, NextTurn PROVE task'[Scheduler].pc = "next"
BY TasksAre, IdleType DEF NextTurn, TypeOK, TaskState

LEMMA ScheduledTick == ASSUME TypeOK, ScheduledInv, ~Overlap, Tick PROVE ScheduledInv'
<1> USE DEF history
<1>0. /\ Scheduler \in Tasks /\ Self \in TaskState /\ Self.server \in Servers
      /\ Self.cfg \in Config /\ Self.target \in Instants /\ at \in Int
  BY TasksAre, TaskType DEF Self
<1>1. OneAtATime' /\ \A u \in Tasks \ {Scheduler} : task'[u].pc = "idle"
  BY <1>0, Alone, TickIsStep DEF ScheduledInv
<1>2. CASE StartTick \/ DecideWarn \/ DecideNothing \/ RestartSkipped
  <2>1. UNCHANGED <<schedule, offered, fired>> /\ NextTurn
    BY <1>2 DEF StartTick, DecideWarn, DecideNothing, RestartSkipped
  <2> QED  BY <1>1, <2>1, TurnReads, TurnIsNext
           DEF ScheduledInv, StoredOffered, FiredWasScheduled
<1>3. CASE NextServer \/ EndTick
  <2>1. UNCHANGED <<schedule, offered, fired>>  BY <1>3 DEF NextServer, EndTick
  <2>2. task'[Scheduler].pc \in {"row", "idle"}
    <3>1. CASE NextServer
      <4>1. PICK s \in todo : task' = [task EXCEPT ![Scheduler].server = s,
                                                   ![Scheduler].pc = "row"]
        BY <3>1 DEF NextServer
      <4>2. task'[Scheduler] = [Self EXCEPT !.server = s, !.pc = "row"]
        BY <1>0, <4>1 DEF TypeOK, Self
      <4> QED  BY <1>0, <4>2 DEF TaskState
    <3>2. CASE EndTick
      <4>1. task'[Scheduler] = Idle  BY <1>0, <3>2 DEF EndTick, TypeOK
      <4> QED  BY <4>1 DEF Idle
    <3> QED  BY <1>3, <3>1, <3>2
  <2> QED  BY <1>1, <2>1, <2>2, TurnReads DEF ScheduledInv, StoredOffered, FiredWasScheduled
<1>4. CASE DecideFire
  <2>1. UNCHANGED <<schedule, offered, fired>>  BY <1>4 DEF DecideFire
  <2>2. task'[Scheduler] = [Self EXCEPT !.target = Due, !.pc = "markRow"]
    BY <1>0, <1>4 DEF DecideFire, TypeOK, Self
  <2>3. Due \in offered[Self.server]
    <3>1. Due \in Self.cfg.rules /\ Self.cfg.enabled
      BY <1>0, <1>4, DuePicked DEF DecideFire, Due
    <3> QED  BY <1>0, <1>4, <3>1 DEF DecideFire, ScheduledInv, Reading, Self
  <2>4. /\ task'[Scheduler].pc = "markRow" /\ task'[Scheduler].target = Due
        /\ task'[Scheduler].server = Self.server
    BY <1>0, <2>2 DEF TaskState
  <2>5. TargetOffered'  BY <2>1, <2>3, <2>4 DEF TargetOffered, Self
  <2>6. \A t \in Tasks : Reading(t)'  BY <1>1, <2>4 DEF Reading
  <2> QED  BY <1>1, <2>1, <2>5, <2>6 DEF ScheduledInv, StoredOffered, FiredWasScheduled
<1>5. CASE MarkFired
  <2>1. StoredOffered' /\ \A z \in Servers : offered[z] \subseteq offered'[z]
    BY <1>0, <1>5, MarkedType, SaveOffers DEF MarkFired, SaveFails, ScheduledInv, StoredOffered
  <2>2. fired' = fired  BY <1>5 DEF MarkFired
  <2>3. /\ task'[Scheduler].pc = "exec" /\ task'[Scheduler].target = Self.target
        /\ task'[Scheduler].server = Self.server
    BY <1>0, <1>5 DEF MarkFired, TypeOK, Self, TaskState
  <2>4. Self.target \in offered[Self.server]
    BY <1>5 DEF MarkFired, ScheduledInv, TargetOffered
  <2>5. TargetOffered'  BY <1>0, <2>1, <2>3, <2>4 DEF TargetOffered, Self
  <2>6. \A t \in Tasks : Reading(t)'  BY <1>1, <2>3 DEF Reading
  <2>7. FiredWasScheduled'  BY <2>1, <2>2 DEF ScheduledInv, FiredWasScheduled
  <2> QED  BY <1>1, <2>1, <2>5, <2>6, <2>7 DEF ScheduledInv
<1>6. CASE Restart
  <2>1. UNCHANGED <<schedule, offered>> /\ NextTurn  BY <1>6 DEF Restart
  <2>2. Self.target \in offered[Self.server]
    BY <1>6 DEF Restart, ScheduledInv, TargetOffered
  <2>3. FiredWasScheduled'
    <3>1. SUFFICES ASSUME NEW s \in Servers, NEW x \in Occurrences, fired'[s][x] > 0
                   PROVE  x \in offered'[s]
      BY DEF FiredWasScheduled
    <3>2. CASE s = Self.server /\ x = Self.target  BY <2>1, <2>2, <3>2
    <3>3. CASE ~(s = Self.server /\ x = Self.target)
      <4>1. fired'[s][x] = fired[s][x]  BY <1>0, <1>6, <3>3 DEF Restart, TypeOK
      <4> QED  BY <2>1, <3>1, <4>1 DEF ScheduledInv, FiredWasScheduled
    <3> QED  BY <3>2, <3>3
  <2> QED  BY <1>1, <2>1, <2>3, TurnReads, TurnIsNext DEF ScheduledInv, StoredOffered
<1> QED  BY <1>2, <1>3, <1>4, <1>5, <1>6 DEF Tick

\* A request is never at the target of the scheduler.
LEMMA OthersTarget ==
    ASSUME NEW o \in Operators, \A u \in Tasks \ {o} : task'[u].pc = "idle"
    PROVE  TargetOffered'
BY TasksAre DEF TargetOffered, Self

LEMMA Asked ==
    ASSUME TypeOK, NEW o \in Tasks, NEW request, NEW s, NEW body, Request(o, request, s, body)
    PROVE  /\ task'[o].pc = "row" /\ task'[o].request = request
           /\ request \in Requests
<1>1. task'[o] = [Idle EXCEPT !.pc = "row", !.request = request, !.server = s, !.body = body]
  BY DEF Request, TypeOK
<1> QED  BY <1>1 DEF Idle, Request

LEMMA ScheduledServe ==
    ASSUME TypeOK, ScheduledInv, ~Overlap, NEW o \in Operators, Serve(o)
    PROVE  ScheduledInv'
<1> USE DEF history
<1>0. /\ o \in Tasks /\ task[o] \in TaskState /\ task[o].server \in Servers
  BY TasksAre, TaskType
<1>1. OneAtATime' /\ \A u \in Tasks \ {o} : task'[u].pc = "idle"
  BY <1>0, Alone, ServeIsStep DEF ScheduledInv
<1>2. task'[o].pc \notin {"rules", "loaded"}
  <2>1. CASE AskUpdate(o) \/ AskSkip(o)
    <3>1. PICK request, s, body : Request(o, request, s, body)
      BY <2>1 DEF AskUpdate, AskSkip
    <3> QED  BY <1>0, <3>1, Asked
  <2>2. CASE Update(o) \/ SkipNothing(o) \/ MarkSkipped(o)
    <3>1. task'[o] = Idle  BY <1>0, <2>2 DEF Update, SkipNothing, MarkSkipped, TypeOK
    <3> QED  BY <3>1 DEF Idle
  <2>3. CASE SkipNext(o)
    <3>1. task'[o] = [task[o] EXCEPT !.target = SkipTarget(now, task[o].cfg),
                                     !.pc = "markRow"]
      BY <1>0, <2>3 DEF SkipNext, TypeOK
    <3> QED  BY <1>0, <3>1 DEF TaskState
  <2> QED  BY <2>1, <2>2, <2>3 DEF Serve
<1>3. \A t \in Tasks : Reading(t)'  BY <1>1, <1>2 DEF Reading
<1>4. fired' = fired
  BY DEF Serve, AskUpdate, AskSkip, Request, Update, SkipNothing, SkipNext, MarkSkipped
<1>5. StoredOffered' /\ \A z \in Servers : offered[z] \subseteq offered'[z]
  <2>1. CASE Update(o)
    BY <1>0, <2>1, MarkedType, SaveOffers DEF Update, SaveFails, ScheduledInv, StoredOffered
  <2>2. CASE MarkSkipped(o)
    BY <1>0, <2>2, MarkedType, SaveOffers DEF MarkSkipped, SaveFails, ScheduledInv, StoredOffered
  <2>3. CASE ~Update(o) /\ ~MarkSkipped(o)
    BY <2>3 DEF Serve, AskUpdate, AskSkip, Request, SkipNothing, SkipNext, ScheduledInv, StoredOffered
  <2> QED  BY <2>1, <2>2, <2>3
<1>6. FiredWasScheduled'  BY <1>4, <1>5 DEF ScheduledInv, FiredWasScheduled
<1> QED  BY <1>1, <1>3, <1>5, <1>6, OthersTarget DEF ScheduledInv

LEMMA ScheduledStep ==
    ASSUME TypeOK, ScheduledInv, ~Overlap, [Next]_vars PROVE ScheduledInv'
<1>1. CASE Tick  BY <1>1, ScheduledTick
<1>2. CASE Advance \/ UNCHANGED vars
  BY <1>2 DEF Advance, vars, history, ScheduledInv, OneAtATime, StoredOffered, Reading, TargetOffered,
    Self, FiredWasScheduled
<1>3. CASE Crash
  <2>1. UNCHANGED <<schedule, offered, fired>> /\ \A t \in Tasks : task'[t].pc = "idle"
    BY <1>3 DEF Crash, history, Idle
  <2> QED  BY <2>1, TasksAre DEF ScheduledInv, OneAtATime, StoredOffered, Reading, TargetOffered, Self,
    FiredWasScheduled
<1>4. CASE \E o \in Operators : Serve(o)  BY <1>4, ScheduledServe
<1>5. CASE \E t \in Tasks : LoadRow(t) \/ LoadRules(t) \/ LoadFails(t)
  BY <1>5, ScheduledLoad
<1> QED  BY <1>1, <1>2, <1>3, <1>4, <1>5 DEF Next

\* As long as ticks and requests do not overlap, only an occurrence of a schedule
\* that was saved and enabled is ever fired, whatever read, write, command or
\* crash fails in between.
THEOREM OnlyScheduledFires == ASSUME ~Overlap PROVE Spec => []FiredWasScheduled
<1>1. TypeOK /\ ScheduledInv /\ [Next]_vars => TypeOK' /\ ScheduledInv'
  BY TypeStep, ScheduledStep
<1>2. ScheduledInv => FiredWasScheduled  BY DEF ScheduledInv
<1> QED  BY <1>1, <1>2, InitType, ScheduledInit, PTL DEF Spec

-----------------------------------------------------------------------------
(* An occurrence is fired once                                             *)

\* What is fired is behind the stored watermark and behind the clock.
FiredBehind == \A s \in Servers, x \in Occurrences :
                 fired[s][x] > 0 => x <= schedule[s].lastFired /\ x <= now

Marking == {"markRow", "markRules", "mark", "exec"}

\* A task that may save the watermark it has read has read the stored one, and
\* one that is about to move it moves it past whatever is fired.
Holding(t) ==
    LET k == task[t]
    IN  /\ k.pc = "rules" => k.cfg.lastFired = schedule[k.server].lastFired
        /\ k.pc = "loaded" /\ (k.cfg.enabled \/ k.request = "update")
             => k.cfg.lastFired = schedule[k.server].lastFired
        /\ k.pc \in Marking
             => \A x \in Occurrences : fired[k.server][x] > 0 => x < k.target

\* The occurrence to fire has come, and its command follows its mark.
Firing == /\ Self.pc \in Marking => Self.target \in Occurrences /\ Self.target <= now
          /\ Self.pc = "exec" => Self.target = schedule[Self.server].lastFired

AskedFor == \A t \in Tasks : task[t].request = "update" => "update" \in Requests

OnceInv == /\ OneAtATime
           /\ FiredBehind
           /\ at <= now
           /\ AskedFor
           /\ \A t \in Tasks : Holding(t)
           /\ Firing
           /\ FiredOnce

\* Requests and ticks do not overlap, a watermark is saved when it is set, and
\* reads do not fail where schedules are edited.
OnceAssumption == /\ ~Overlap
                  /\ "save" \notin Faults
                  /\ "update" \in Requests => "load" \notin Faults

LEMMA SaveMoves ==
    ASSUME TypeOK, NEW s \in Servers, NEW cfg \in Savable, Save(s, cfg)
    PROVE  /\ schedule'[s].lastFired = cfg.lastFired
           /\ \A z \in Servers \ {s} : schedule'[z] = schedule[z]
<1>1. Normal(cfg).lastFired = cfg.lastFired  BY DEF Normal, Savable
<1> QED  BY <1>1 DEF Save, TypeOK

\* A task that is alone holds for all of them, and one at rest holds nothing.
LEMMA RestHold ==
    ASSUME NEW t \in Tasks, \A u \in Tasks \ {t} : task'[u].pc = "idle",
           task'[t].pc \in {"idle", "next", "row"} \/ Holding(t)'
    PROVE  \A u \in Tasks : Holding(u)'
BY DEF Holding, Marking

LEMMA RestFires ==
    ASSUME task'[Scheduler].pc \in {"idle", "next", "row"} PROVE Firing'
BY DEF Firing, Marking, Self

\* What every step needs of a task.
LEMMA TaskFacts ==
    ASSUME TypeOK, OnceInv, NEW t \in Tasks
    PROVE  /\ \A x \in Occurrences : x \in Int /\ x \in Instants
           /\ \A s \in Servers : schedule[s].lastFired \in Int /\ schedule[s] \in Config
           /\ task[t] \in TaskState /\ task[t].server \in Servers
           /\ task[t].cfg \in Config /\ task[t].cfg.lastFired \in Int
           /\ task[t].target \in Int /\ now \in Int /\ at \in Int
           /\ Holding(t) /\ (task[t].request = "update" => "update" \in Requests)
<1>1. \A x \in Instants : x \in Int  BY Constants
<1> QED  BY <1>1, TaskType, Constants DEF OnceInv, AskedFor, TypeOK, Config

LEMMA OnceInit == Init => OnceInv
<1> SUFFICES ASSUME Init PROVE OnceInv  OBVIOUS
<1>1. \A t \in Tasks : task[t].pc = "idle" /\ task[t].request = "none"  BY DEF Init, Idle
<1>2. \A s \in Servers, x \in Occurrences : fired[s][x] = 0  BY DEF Init
<1>3. at <= now  BY DEF Init, Never
<1>4. \A t \in Tasks : Holding(t)  BY <1>1 DEF Holding, Marking
<1>5. Firing  BY <1>1, TasksAre DEF Firing, Marking, Self
<1>6. FiredBehind /\ FiredOnce  BY <1>2 DEF FiredBehind, FiredOnce
<1> QED  BY <1>1, <1>3, <1>4, <1>5, <1>6 DEF OnceInv, OneAtATime, AskedFor

LEMMA OnceLoad ==
    ASSUME TypeOK, OnceInv, OnceAssumption,
           NEW t \in Tasks, LoadRow(t) \/ LoadRules(t) \/ LoadFails(t)
    PROVE  OnceInv'
<1>1. OneAtATime' /\ \A u \in Tasks \ {t} : task'[u].pc = "idle" /\ task'[u] = task[u]
  BY Alone, LoadIsStep DEF OnceInv, StepOf
<1>2. UNCHANGED <<schedule, fired, now, at>>
  BY DEF LoadRow, LoadRules, LoadFails, history
<1>3. /\ task'[t].server = task[t].server /\ task'[t].target = task[t].target
      /\ task'[t].request = task[t].request
      /\ task'[t].pc \in Marking => task[t].pc \in Marking
      /\ task'[t].pc # "exec"
  BY TaskType DEF LoadRow, LoadRules, LoadFails, TypeOK, TaskState, AfterRules, Marking
<1>4. Holding(t)'
  <2>1. CASE LoadRow(t)
    <3>1. task'[t] = [task[t] EXCEPT
             !.cfg = [schedule[task[t].server] EXCEPT !.rules = {}],
             !.pc = IF task[t].pc = "row" THEN "rules" ELSE "markRules"]
      BY <2>1 DEF LoadRow, TypeOK
    <3>2. /\ task'[t].cfg.lastFired = schedule[task[t].server].lastFired
          /\ task'[t].pc \in {"rules", "markRules"}
      BY <3>1, TaskType DEF TaskState, Config
    <3> QED  BY <1>2, <1>3, <3>2, TaskFacts DEF Holding
  <2>2. CASE LoadRules(t)
    <3>1. task'[t] = [task[t] EXCEPT !.cfg.rules = schedule[task[t].server].rules,
                                     !.pc = AfterRules(task[t].pc)]
      BY <2>2 DEF LoadRules, TypeOK
    <3>2. /\ task'[t].cfg.lastFired = task[t].cfg.lastFired
          /\ task'[t].pc = AfterRules(task[t].pc) /\ task[t].pc \in {"rules", "markRules"}
      <4>1. task'[t].cfg = [task[t].cfg EXCEPT !.rules = schedule[task[t].server].rules]
        BY <3>1, TaskType DEF TaskState
      <4>2. task'[t].pc = AfterRules(task[t].pc)  BY <3>1, TaskType DEF TaskState
      <4>3. task[t].pc \in {"rules", "markRules"}  BY <2>2 DEF LoadRules
      <4> QED  BY <4>1, <4>2, <4>3, TaskType DEF Config
    <3> QED  BY <1>2, <1>3, <3>2, TaskFacts DEF Holding, AfterRules
  <2>3. CASE LoadFails(t)
    <3>1. task'[t] = [task[t] EXCEPT
             !.cfg = DefaultConfig,
             !.pc = IF task[t].pc \in {"row", "rules"} THEN "loaded" ELSE "mark"]
      BY <2>3 DEF LoadFails, TypeOK
    <3>2. task'[t].cfg = DefaultConfig /\ task'[t].pc \in {"loaded", "mark"}
      BY <3>1, TaskType DEF TaskState
    <3>3. task[t].request # "update"
      BY <2>3, TaskFacts DEF LoadFails, OnceAssumption
    <3> QED  BY <1>2, <1>3, <3>2, <3>3, TaskFacts DEF Holding, DefaultConfig
  <2> QED  BY <2>1, <2>2, <2>3
<1>5. \A u \in Tasks : Holding(u)'  BY <1>1, <1>4, RestHold
<1>6. Firing'
  <2>1. CASE t = Scheduler  BY <2>1, <1>2, <1>3 DEF OnceInv, Firing, Self
  <2>2. CASE t # Scheduler  BY <2>2, <1>1, TasksAre, RestFires
  <2> QED  BY <2>1, <2>2
<1>7. AskedFor'  BY <1>1, <1>3 DEF AskedFor, OnceInv
<1> QED  BY <1>1, <1>2, <1>5, <1>6, <1>7 DEF OnceInv, FiredBehind, FiredOnce

\* A step that fires nothing, saves nothing and leaves the clock alone.
LEMMA OnceIdleStep ==
    ASSUME OnceInv, UNCHANGED <<schedule, fired, now>>
    PROVE  FiredBehind' /\ FiredOnce'
BY DEF OnceInv, FiredBehind, FiredOnce

LEMMA TurnIs ==
    ASSUME TypeOK, NextTurn
    PROVE  task'[Scheduler].pc = "next" /\ task'[Scheduler].request = "none"
<1>1. task'[Scheduler] = [Idle EXCEPT !.pc = "next"]
  BY TasksAre DEF NextTurn, TypeOK
<1> QED  BY <1>1 DEF Idle

LEMMA OnceTick == ASSUME TypeOK, OnceInv, OnceAssumption, Tick PROVE OnceInv'
<1> USE DEF history
<1>0. /\ Scheduler \in Tasks /\ Self \in TaskState /\ Self.server \in Servers
      /\ Self.cfg \in Config /\ Self.target \in Instants /\ at \in Int /\ Self.target \in Int
  BY TasksAre, TaskType, TaskFacts DEF Self
<1>1. OneAtATime' /\ \A u \in Tasks \ {Scheduler} : task'[u].pc = "idle" /\ task'[u] = task[u]
  BY <1>0, Alone, TickIsStep DEF OnceInv, OnceAssumption, StepOf
<1>2. CASE StartTick \/ DecideWarn \/ DecideNothing \/ RestartSkipped
  <2>1. UNCHANGED <<schedule, fired, now>> /\ NextTurn /\ at' \in {at, now}
    BY <1>2 DEF StartTick, DecideWarn, DecideNothing, RestartSkipped
  <2>2. at' <= now'  BY <1>0, <2>1, TaskFacts DEF OnceInv
  <2>3. Firing' /\ \A u \in Tasks : Holding(u)'
    BY <1>0, <1>1, <2>1, TurnIs, RestHold, RestFires
  <2>4. AskedFor'  BY <1>1, <2>1, TurnIs DEF AskedFor, OnceInv
  <2> QED  BY <1>1, <2>1, <2>2, <2>3, <2>4, OnceIdleStep DEF OnceInv
<1>3. CASE NextServer \/ EndTick
  <2>1. UNCHANGED <<schedule, fired, now, at>>  BY <1>3 DEF NextServer, EndTick
  <2>2. /\ task'[Scheduler].pc \in {"row", "idle"}
        /\ task'[Scheduler].request \in {Self.request, "none"}
    <3>1. CASE NextServer
      <4>1. PICK s \in todo : task' = [task EXCEPT ![Scheduler].server = s,
                                                   ![Scheduler].pc = "row"]
        BY <3>1 DEF NextServer
      <4>2. task'[Scheduler] = [Self EXCEPT !.server = s, !.pc = "row"]
        BY <1>0, <4>1 DEF TypeOK, Self
      <4> QED  BY <1>0, <4>2 DEF TaskState
    <3>2. CASE EndTick
      <4>1. task'[Scheduler] = Idle  BY <1>0, <3>2 DEF EndTick, TypeOK
      <4> QED  BY <4>1 DEF Idle
    <3> QED  BY <1>3, <3>1, <3>2
  <2>3. Firing' /\ \A u \in Tasks : Holding(u)'
    BY <1>0, <1>1, <2>2, RestHold, RestFires
  <2>4. AskedFor'  BY <1>0, <1>1, <2>2 DEF AskedFor, OnceInv, Self
  <2> QED  BY <1>1, <2>1, <2>3, <2>4, OnceIdleStep DEF OnceInv
<1>4. CASE DecideFire
  <2>1. UNCHANGED <<schedule, fired, now, at>>  BY <1>4 DEF DecideFire
  <2>2. task'[Scheduler] = [Self EXCEPT !.target = Due, !.pc = "markRow"]
    BY <1>0, <1>4 DEF DecideFire, TypeOK, Self
  <2>3. /\ task'[Scheduler].pc = "markRow" /\ task'[Scheduler].target = Due
        /\ task'[Scheduler].server = Self.server
        /\ task'[Scheduler].request = Self.request
    BY <1>0, <2>2 DEF TaskState
  <2>4. /\ Due \in Occurrences /\ Due <= at /\ Due > Self.cfg.lastFired
        /\ Self.cfg.enabled /\ Self.pc = "loaded"
    BY <1>0, <1>4, DuePicked DEF DecideFire, Due
  <2>5. Self.cfg.lastFired = schedule[Self.server].lastFired
    BY <1>0, <2>4, TaskFacts DEF Holding, Self
  <2>6. \A x \in Occurrences : fired[Self.server][x] > 0 => x < Due
    BY <1>0, <2>4, <2>5, TaskFacts DEF OnceInv, FiredBehind
  <2>7. Holding(Scheduler)'  BY <2>1, <2>3, <2>6 DEF Holding
  <2>8. Due <= now  BY <1>0, <2>4, TaskFacts DEF OnceInv
  <2>9. Firing'  BY <2>1, <2>3, <2>4, <2>8 DEF Firing, Self
  <2>10. \A u \in Tasks : Holding(u)'  BY <1>0, <1>1, <2>7, RestHold
  <2>11. AskedFor'  BY <1>0, <1>1, <2>3 DEF AskedFor, OnceInv, Self
  <2> QED  BY <1>1, <2>1, <2>9, <2>10, <2>11, OnceIdleStep DEF OnceInv
<1>5. CASE MarkFired
  <2>1. UNCHANGED <<fired, now, at>>  BY <1>5 DEF MarkFired
  <2>2. task'[Scheduler] = [Self EXCEPT !.pc = "exec"] /\ Self.pc = "mark"
    BY <1>0, <1>5 DEF MarkFired, TypeOK, Self
  <2>3. /\ task'[Scheduler].pc = "exec" /\ task'[Scheduler].target = Self.target
        /\ task'[Scheduler].server = Self.server
        /\ task'[Scheduler].request = Self.request
    BY <1>0, <2>2 DEF TaskState
  <2>4. Save(Self.server, Marked(Self))
    BY <1>5 DEF MarkFired, SaveFails, OnceAssumption
  <2>5. /\ schedule'[Self.server].lastFired = Self.target
        /\ \A z \in Servers \ {Self.server} : schedule'[z] = schedule[z]
    <3>1. Marked(Self).lastFired = Self.target  BY <1>0 DEF Marked, TaskState, Config
    <3> QED  BY <1>0, <2>4, <3>1, MarkedType, SaveMoves
  <2>6. \A x \in Occurrences : fired[Self.server][x] > 0 => x < Self.target
    BY <1>0, <2>2, TaskFacts DEF Holding, Marking, Self
  <2>7. FiredBehind'
    BY <1>0, <2>1, <2>5, <2>6, TaskFacts DEF FiredBehind, OnceInv
  <2>8. Holding(Scheduler)'  BY <2>1, <2>3, <2>6 DEF Holding
  <2>9. Firing'
    BY <2>1, <2>2, <2>3, <2>5 DEF Firing, Self, OnceInv, Marking
  <2>10. \A u \in Tasks : Holding(u)'  BY <1>0, <1>1, <2>8, RestHold
  <2>11. AskedFor'  BY <1>0, <1>1, <2>3 DEF AskedFor, OnceInv, Self
  <2> QED  BY <1>1, <2>1, <2>7, <2>9, <2>10, <2>11 DEF OnceInv, FiredOnce
<1>6. CASE Restart
  <2>1. UNCHANGED <<schedule, now, at>> /\ NextTurn /\ Self.pc = "exec"  BY <1>6 DEF Restart
  <2>2. /\ Self.target \in Occurrences /\ Self.target <= now
        /\ Self.target = schedule[Self.server].lastFired
    BY <2>1 DEF OnceInv, Firing, Marking
  <2>3. fired[Self.server][Self.target] = 0
    <3>1. ~(fired[Self.server][Self.target] > 0)
      BY <1>0, <2>1, <2>2, TaskFacts DEF Holding, Marking, Self
    <3>2. fired[Self.server][Self.target] \in 0..MaxCount  BY <1>0, <2>2 DEF TypeOK
    <3> QED  BY <3>1, <3>2 DEF MaxCount
  <2>4. fired'[Self.server][Self.target] = 1
    <3>1. fired'[Self.server][Self.target] = Min({fired[Self.server][Self.target] + 1, MaxCount})
      BY <1>0, <1>6, <2>2 DEF Restart, TypeOK
    <3> QED  BY <2>3, <3>1, CountUp DEF MaxCount
  <2>5. \A s \in Servers, x \in Occurrences :
          ~(s = Self.server /\ x = Self.target) => fired'[s][x] = fired[s][x]
    BY <1>0, <1>6 DEF Restart, TypeOK
  <2>6. FiredBehind'
    <3>1. SUFFICES ASSUME NEW s \in Servers, NEW x \in Occurrences, fired'[s][x] > 0
                   PROVE  x <= schedule'[s].lastFired /\ x <= now'
      BY DEF FiredBehind
    <3>2. CASE s = Self.server /\ x = Self.target
      BY <1>0, <2>1, <2>2, <3>2, TaskFacts
    <3>3. CASE ~(s = Self.server /\ x = Self.target)
      BY <2>1, <2>5, <3>1, <3>3 DEF OnceInv, FiredBehind
    <3> QED  BY <3>2, <3>3
  <2>7. FiredOnce'
    <3>1. SUFFICES ASSUME NEW s \in Servers, NEW x \in Occurrences PROVE fired'[s][x] <= 1
      BY DEF FiredOnce
    <3>2. CASE s = Self.server /\ x = Self.target  BY <2>4, <3>2
    <3>3. CASE ~(s = Self.server /\ x = Self.target)
      BY <2>5, <3>3 DEF OnceInv, FiredOnce
    <3> QED  BY <3>2, <3>3
  <2>8. Firing' /\ \A u \in Tasks : Holding(u)'
    BY <1>0, <1>1, <2>1, TurnIs, RestHold, RestFires
  <2>9. AskedFor'  BY <1>1, <2>1, TurnIs DEF AskedFor, OnceInv
  <2> QED  BY <1>1, <2>1, <2>6, <2>7, <2>8, <2>9 DEF OnceInv
<1> QED  BY <1>2, <1>3, <1>4, <1>5, <1>6 DEF Tick

LEMMA OnceServe ==
    ASSUME TypeOK, OnceInv, OnceAssumption, NEW o \in Operators, Serve(o)
    PROVE  OnceInv'
<1> USE DEF history
<1> DEFINE k == task[o]
<1>0. /\ o \in Tasks /\ o # Scheduler /\ Scheduler \in Tasks
      /\ k \in TaskState /\ k.server \in Servers
  BY TasksAre, TaskType
<1>1. OneAtATime' /\ \A u \in Tasks \ {o} : task'[u].pc = "idle" /\ task'[u] = task[u]
  BY <1>0, Alone, ServeIsStep DEF OnceInv, OnceAssumption, StepOf
<1>2. Firing'  BY <1>0, <1>1, RestFires
<1>3. UNCHANGED <<fired, now, at>>
  BY DEF Serve, AskUpdate, AskSkip, Request, Update, SkipNothing, SkipNext, MarkSkipped
<1>4. FiredOnce' /\ at' <= now'  BY <1>3 DEF OnceInv, FiredOnce
<1>5. CASE AskUpdate(o) \/ AskSkip(o)
  <2>1. PICK request, s, body : Request(o, request, s, body)
    BY <1>5 DEF AskUpdate, AskSkip
  <2>2. task'[o].pc = "row" /\ task'[o].request = request /\ request \in Requests
    BY <1>0, <2>1, Asked
  <2>3. AskedFor'  BY <1>1, <2>2 DEF AskedFor, OnceInv
  <2>4. \A u \in Tasks : Holding(u)'  BY <1>0, <1>1, <2>2, RestHold
  <2>5. FiredBehind'  BY <1>3, <2>1, OnceIdleStep DEF Request
  <2> QED  BY <1>1, <1>2, <1>4, <2>3, <2>4, <2>5 DEF OnceInv
<1>6. CASE Update(o) \/ SkipNothing(o) \/ MarkSkipped(o)
  <2>1. task'[o] = Idle  BY <1>0, <1>6 DEF Update, SkipNothing, MarkSkipped, TypeOK
  <2>2. AskedFor'  BY <1>1, <2>1 DEF AskedFor, OnceInv, Idle
  <2>3. \A u \in Tasks : Holding(u)'  BY <1>0, <1>1, <2>1, RestHold DEF Idle
  <2>4. FiredBehind'
    <3>1. CASE SkipNothing(o)  BY <1>3, <3>1, OnceIdleStep DEF SkipNothing
    <3>2. CASE Update(o)
      <4>1. Save(k.server, Edited(k)) /\ k.pc = "loaded" /\ k.request = "update"
        BY <3>2 DEF Update, SaveFails, OnceAssumption
      <4>2. Edited(k).lastFired = schedule[k.server].lastFired
        <5>1. Edited(k).lastFired = k.cfg.lastFired  BY <1>0 DEF Edited, TaskState
        <5> QED  BY <1>0, <4>1, <5>1, TaskFacts DEF Holding
      <4>3. \A s \in Servers : schedule'[s].lastFired = schedule[s].lastFired
        BY <1>0, <4>1, <4>2, MarkedType, SaveMoves
      <4> QED  BY <1>3, <4>3 DEF FiredBehind, OnceInv
    <3>3. CASE MarkSkipped(o)
      <4>1. Save(k.server, Marked(k)) /\ k.pc = "mark"
        BY <3>3 DEF MarkSkipped, SaveFails, OnceAssumption
      <4>2. Marked(k).lastFired = k.target  BY <1>0 DEF Marked, TaskState, Config
      <4>3. /\ schedule'[k.server].lastFired = k.target
            /\ \A z \in Servers \ {k.server} : schedule'[z] = schedule[z]
        BY <1>0, <4>1, <4>2, MarkedType, SaveMoves
      <4>4. \A x \in Occurrences : fired[k.server][x] > 0 => x < k.target
        BY <1>0, <4>1, TaskFacts DEF Holding, Marking
      <4> QED  BY <1>0, <1>3, <4>3, <4>4, TaskFacts DEF FiredBehind, OnceInv
    <3> QED  BY <1>6, <3>1, <3>2, <3>3
  <2> QED  BY <1>1, <1>2, <1>4, <2>2, <2>3, <2>4 DEF OnceInv
<1>7. CASE SkipNext(o)
  <2>1. task'[o] = [k EXCEPT !.target = SkipTarget(now, k.cfg), !.pc = "markRow"]
    BY <1>0, <1>7 DEF SkipNext, TypeOK
  <2>2. /\ task'[o].pc = "markRow" /\ task'[o].target = SkipTarget(now, k.cfg)
        /\ task'[o].server = k.server /\ task'[o].request = k.request
    BY <1>0, <2>1 DEF TaskState
  <2>3. SkipTarget(now, k.cfg) > now /\ SkipTarget(now, k.cfg) \in Instants
    <3>1. k.cfg.rules \in SUBSET Occurrences  BY <1>0, TaskFacts DEF Config
    <3> QED  BY <1>0, <1>7, <3>1, TaskFacts, Picked DEF SkipNext, SkipTarget
  <2>4. \A x \in Occurrences : fired[k.server][x] > 0 => x < SkipTarget(now, k.cfg)
    <3>0. \A x \in Instants : x \in Int  BY Constants
    <3>1. SkipTarget(now, k.cfg) \in Int  BY <2>3, <3>0
    <3>2. \A x \in Occurrences : x \in Int /\ now \in Int  BY <1>0, TaskFacts
    <3>3. \A x \in Occurrences : fired[k.server][x] > 0 => x <= now
      BY <1>0 DEF OnceInv, FiredBehind
    <3> QED  BY <2>3, <3>1, <3>2, <3>3
  <2>5. Holding(o)'  BY <1>3, <2>2, <2>4 DEF Holding
  <2>6. \A u \in Tasks : Holding(u)'  BY <1>0, <1>1, <2>5, RestHold
  <2>7. AskedFor'  BY <1>1, <2>2 DEF AskedFor, OnceInv
  <2>8. FiredBehind'  BY <1>3, <1>7, OnceIdleStep DEF SkipNext
  <2> QED  BY <1>1, <1>2, <1>4, <2>6, <2>7, <2>8 DEF OnceInv
<1> QED  BY <1>5, <1>6, <1>7 DEF Serve

LEMMA OnceStep ==
    ASSUME TypeOK, OnceInv, OnceAssumption, [Next]_vars PROVE OnceInv'
<1>1. CASE Tick  BY <1>1, OnceTick
<1>2. CASE Advance
  <2>1. now' = now + 1 /\ UNCHANGED <<schedule, task, at, fired>>
    BY <1>2 DEF Advance, history
  <2>2. now \in Int /\ at \in Int /\ \A x \in Occurrences : x \in Int
    BY TasksAre, TaskFacts
  <2>3. FiredBehind' /\ at' <= now'  BY <2>1, <2>2 DEF OnceInv, FiredBehind
  <2>4. Firing'
    <3>1. Self.target \in Int  BY TasksAre, TaskFacts DEF Self
    <3> QED  BY <2>1, <2>2, <3>1 DEF OnceInv, Firing, Self
  <2> QED  BY <2>1, <2>3, <2>4 DEF OnceInv, OneAtATime, AskedFor, Holding, FiredOnce
<1>3. CASE Crash
  <2>1. /\ UNCHANGED <<schedule, fired, now>> /\ at' = Never
        /\ \A t \in Tasks : task'[t].pc = "idle" /\ task'[t].request = "none"
    BY <1>3 DEF Crash, history, Idle
  <2>2. at' <= now'  BY <2>1 DEF Never, TypeOK, Instants
  <2>3. \A t \in Tasks : Holding(t)'  BY <2>1 DEF Holding, Marking
  <2>4. Firing'  BY <2>1, TasksAre, RestFires
  <2> QED  BY <2>1, <2>2, <2>3, <2>4, OnceIdleStep DEF OnceInv, OneAtATime, AskedFor
<1>4. CASE \E o \in Operators : Serve(o)  BY <1>4, OnceServe
<1>5. CASE \E t \in Tasks : LoadRow(t) \/ LoadRules(t) \/ LoadFails(t)
  BY <1>5, OnceLoad
<1>6. CASE UNCHANGED vars
  BY <1>6 DEF vars, OnceInv, OneAtATime, FiredBehind, AskedFor, Holding, Firing, Self, FiredOnce
<1> QED  BY <1>1, <1>2, <1>3, <1>4, <1>5, <1>6 DEF Next

\* The command of one occurrence is issued at most once, for any number of
\* servers, skips, edits, failing commands and crashes, and however late the
\* ticks come: as long as ticks and requests do not overlap, the watermark is
\* saved whenever it is set, and no read fails where schedules are edited.
\* (restarts_edit_race and restarts_save_fails show the first two are needed.)
THEOREM EachFiredOnce == ASSUME OnceAssumption PROVE Spec => []FiredOnce
<1>1. TypeOK /\ OnceInv /\ [Next]_vars => TypeOK' /\ OnceInv'
  BY TypeStep, OnceStep
<1>2. OnceInv => FiredOnce  BY DEF OnceInv
<1> QED  BY <1>1, <1>2, InitType, OnceInit, PTL DEF Spec

-----------------------------------------------------------------------------
(* What is skipped stays quiet                                             *)

\* An occurrence that was the next one to come once, and still is no later than
\* the next one to come.
NextUp(x) == x \in FirstRules /\ \A y \in FirstRules : y > now => x <= y

\* The rules stay the ones of the start or are lost to a failed load, what is
\* skipped is behind the watermark, and whoever is about to move the watermark
\* moves it past what is skipped.
QuietInv ==
    /\ \A s \in Servers : schedule[s].rules \in {FirstRules, {}}
    /\ \A t \in Tasks : task[t].cfg.rules \in {FirstRules, {}}
    /\ \A s \in Servers : \A x \in skipped[s] : NextUp(x) /\ x <= schedule[s].lastFired
    /\ \A o \in Operators : task[o].pc \in Marking =>
          /\ NextUp(task[o].target)
          /\ \A x \in skipped[task[o].server] : x <= task[o].target
    /\ Self.pc \in Marking => \A x \in skipped[Self.server] : x < Self.target

NoEdits == OnceAssumption /\ "update" \notin Requests

Untouched == \A s \in Servers : \A x \in skipped[s] :
                fired'[s][x] = fired[s][x] /\ warned'[s][x] = warned[s][x]

LEMMA QuietInit == Init => QuietInv
<1> SUFFICES ASSUME Init PROVE QuietInv  OBVIOUS
<1>1. \A t \in Tasks : task[t].pc = "idle" /\ task[t].cfg.rules = {}
  BY DEF Init, Idle, DefaultConfig
<1>2. \A s \in Servers : schedule[s].rules = FirstRules /\ skipped[s] = {}
  BY DEF Init, DefaultConfig
<1> QED  BY <1>1, <1>2, TasksAre DEF QuietInv, Marking, Self

LEMMA SaveSets ==
    ASSUME TypeOK, NEW s \in Servers, NEW cfg \in Savable, Save(s, cfg)
    PROVE  schedule'[s].rules = cfg.rules /\ schedule'[s].enabled = cfg.enabled
<1>1. Normal(cfg).rules = cfg.rules /\ Normal(cfg).enabled = cfg.enabled
  BY DEF Normal, Savable
<1> QED  BY <1>1 DEF Save, TypeOK

LEMMA LoadKeeps ==
    ASSUME TypeOK, NEW t \in Tasks, LoadRow(t) \/ LoadRules(t) \/ LoadFails(t)
    PROVE  /\ task'[t].server = task[t].server /\ task'[t].target = task[t].target
           /\ task'[t].request = task[t].request
           /\ task'[t].pc \in Marking => task[t].pc \in Marking
           /\ task'[t].cfg.rules \in {{}, schedule[task[t].server].rules}
           /\ \A u \in Tasks \ {t} : task'[u] = task[u]
           /\ UNCHANGED <<now, schedule, at, todo, warnedFor, history>>
<1>1. task[t] \in TaskState /\ task[t].cfg \in Config /\ schedule[task[t].server] \in Config
  BY TaskType
<1>2. CASE LoadRow(t)
  <2>1. task'[t] = [task[t] EXCEPT
           !.cfg = [schedule[task[t].server] EXCEPT !.rules = {}],
           !.pc = IF task[t].pc = "row" THEN "rules" ELSE "markRules"]
    BY <1>2 DEF LoadRow, TypeOK
  <2>2. task'[t].cfg.rules = {}  BY <1>1, <2>1 DEF TaskState, Config
  <2> QED  BY <1>1, <1>2, <2>1, <2>2 DEF LoadRow, TypeOK, TaskState, Marking
<1>3. CASE LoadRules(t)
  <2>1. task'[t] = [task[t] EXCEPT !.cfg.rules = schedule[task[t].server].rules,
                                   !.pc = AfterRules(task[t].pc)]
    BY <1>3 DEF LoadRules, TypeOK
  <2>2. task'[t].cfg = [task[t].cfg EXCEPT !.rules = schedule[task[t].server].rules]
    BY <1>1, <2>1 DEF TaskState
  <2>3. task'[t].cfg.rules = schedule[task[t].server].rules  BY <1>1, <2>2 DEF Config
  <2> QED  BY <1>1, <1>3, <2>1, <2>3 DEF LoadRules, TypeOK, TaskState, Marking, AfterRules
<1>4. CASE LoadFails(t)
  <2>1. task'[t] = [task[t] EXCEPT
           !.cfg = DefaultConfig,
           !.pc = IF task[t].pc \in {"row", "rules"} THEN "loaded" ELSE "mark"]
    BY <1>4 DEF LoadFails, TypeOK
  <2>2. task'[t].cfg = DefaultConfig  BY <1>1, <2>1 DEF TaskState
  <2> QED  BY <1>1, <1>4, <2>1, <2>2 DEF LoadFails, TypeOK, TaskState, Marking, DefaultConfig
<1> QED  BY <1>2, <1>3, <1>4

LEMMA QuietLoad ==
    ASSUME TypeOK, QuietInv,
           NEW t \in Tasks, LoadRow(t) \/ LoadRules(t) \/ LoadFails(t)
    PROVE  QuietInv' /\ Untouched
<1>1. task[t].server \in Servers  BY TaskType
<1>2. \A u \in Tasks : /\ task'[u].cfg.rules \in {FirstRules, {}}
                       /\ task'[u].server = task[u].server
                       /\ task'[u].target = task[u].target
                       /\ task'[u].pc \in Marking => task[u].pc \in Marking
  BY <1>1, LoadKeeps DEF QuietInv
<1> QED  BY <1>2, LoadKeeps, TasksAre DEF QuietInv, NextUp, Self, history, Untouched

\* The decisions look past the watermark, and so past what is skipped.
LEMMA WarnPicked ==
    ASSUME NEW t \in Int, NEW cfg \in Config, NEW already, WarnAt(t, cfg, already) # None
    PROVE  /\ WarnAt(t, cfg, already) \in cfg.rules
           /\ WarnAt(t, cfg, already) > cfg.lastFired
           /\ WarnAt(t, cfg, already) > t /\ cfg.enabled
<1>1. cfg.rules \in SUBSET Occurrences  BY DEF Config
<1>2. WarnAt(t, cfg, already) = NextRestartAt(t, cfg.rules)  BY DEF WarnAt
<1> QED  BY <1>1, <1>2, Picked DEF WarnAt

LEMMA QuietTick ==
    ASSUME TypeOK, OnceInv, QuietInv, NoEdits, Tick
    PROVE  QuietInv' /\ Untouched
<1> USE DEF history
<1>0. /\ Scheduler \in Tasks /\ Self \in TaskState /\ Self.server \in Servers
      /\ Self.cfg \in Config /\ Self.target \in Int /\ at \in Int /\ Self.cfg.lastFired \in Int
      /\ \A s \in Servers : schedule[s].lastFired \in Int
      /\ \A x \in Occurrences : x \in Int
      /\ FirstRules \subseteq Occurrences
      /\ \A s \in Servers : \A x \in skipped[s] : x \in Occurrences
  BY TasksAre, TaskType, TaskFacts, Constants DEF Self, QuietInv, NextUp
<1>1. /\ \A u \in Tasks \ {Scheduler} : task'[u].pc = "idle" /\ task'[u] = task[u]
      /\ \A o \in Operators : o \in Tasks \ {Scheduler}
  BY <1>0, TasksAre, Alone, TickIsStep DEF OnceInv, OnceAssumption, NoEdits, StepOf
<1>2. UNCHANGED <<now, skipped>>
  BY DEF Tick, StartTick, NextServer, EndTick, DecideFire, DecideWarn, DecideNothing,
         MarkFired, Restart, RestartSkipped
\* All that is left to see is the schedule and the state of the scheduler.
<1>3. ASSUME \A s \in Servers : /\ schedule'[s].rules \in {FirstRules, {}}
                                /\ \A x \in skipped[s] : x <= schedule'[s].lastFired,
             task'[Scheduler].cfg.rules \in {FirstRules, {}},
             task'[Scheduler].pc \in Marking =>
                \A x \in skipped[task'[Scheduler].server] : x < task'[Scheduler].target
      PROVE  QuietInv'
  <2>1. \A t \in Tasks : task'[t].cfg.rules \in {FirstRules, {}}
    BY <1>1, <1>3 DEF QuietInv
  <2>2. \A o \in Operators : task'[o].pc \notin Marking  BY <1>1 DEF Marking
  <2>3. \A s \in Servers : \A x \in skipped'[s] : NextUp(x)'
    BY <1>2 DEF QuietInv, NextUp
  <2> QED  BY <1>2, <1>3, <2>1, <2>2, <2>3 DEF QuietInv, Self
<1>4. \A s \in Servers : \A x \in skipped[s] : x \in FirstRules /\ x <= schedule[s].lastFired
  BY DEF QuietInv, NextUp
<1>n. ASSUME NextTurn PROVE task'[Scheduler].pc = "next" /\ task'[Scheduler].cfg.rules = {}
  <2>1. task'[Scheduler] = [Idle EXCEPT !.pc = "next"]  BY <1>0, <1>n DEF NextTurn, TypeOK
  <2> QED  BY <2>1 DEF Idle, DefaultConfig
<1>5. CASE StartTick \/ DecideNothing \/ RestartSkipped
  <2>1. UNCHANGED <<schedule, fired, warned>> /\ NextTurn
    BY <1>5 DEF StartTick, DecideNothing, RestartSkipped
  <2> QED  BY <1>3, <1>4, <1>n, <2>1 DEF Untouched, QuietInv, Marking
<1>6. CASE NextServer \/ EndTick
  <2>1. UNCHANGED <<schedule, fired, warned>>  BY <1>6 DEF NextServer, EndTick
  <2>2. task'[Scheduler].pc \in {"row", "idle"} /\ task'[Scheduler].cfg.rules \in {FirstRules, {}}
    <3>1. CASE NextServer
      <4>1. PICK s \in todo : task' = [task EXCEPT ![Scheduler].server = s,
                                                   ![Scheduler].pc = "row"]
        BY <3>1 DEF NextServer
      <4>2. task'[Scheduler] = [Self EXCEPT !.server = s, !.pc = "row"]
        BY <1>0, <4>1 DEF TypeOK, Self
      <4> QED  BY <1>0, <4>2 DEF TaskState, QuietInv, Self
    <3>2. CASE EndTick
      <4>1. task'[Scheduler] = Idle  BY <1>0, <3>2 DEF EndTick, TypeOK
      <4> QED  BY <4>1 DEF Idle, DefaultConfig
    <3> QED  BY <1>6, <3>1, <3>2
  <2> QED  BY <1>3, <1>4, <2>1, <2>2 DEF Untouched, QuietInv, Marking
<1>7. CASE DecideWarn
  <2>1. UNCHANGED <<schedule, fired>> /\ NextTurn /\ ToWarn # None /\ Self.pc = "loaded"
    BY <1>7 DEF DecideWarn
  <2>2. ToWarn > Self.cfg.lastFired /\ Self.cfg.enabled /\ ToWarn \in Int
    <3>1. Self.cfg.rules \subseteq Occurrences  BY <1>0 DEF Config
    <3> QED  BY <1>0, <2>1, <3>1, WarnPicked DEF ToWarn
  <2>3. Self.cfg.lastFired = schedule[Self.server].lastFired
    BY <1>0, <2>1, <2>2, TaskFacts DEF Holding, Self
  <2>4. ToWarn \notin skipped[Self.server]  BY <1>0, <1>4, <2>2, <2>3
  <2>5. Untouched
    <3>1. CASE warned' = warned  BY <2>1, <3>1 DEF Untouched
    <3>2. CASE warned' = [warned EXCEPT ![Self.server][ToWarn] = Min({@ + 1, MaxCount})]
      <4>1. \A s \in Servers, x \in Occurrences :
              ~(s = Self.server /\ x = ToWarn) => warned'[s][x] = warned[s][x]
        BY <1>0, <3>2 DEF TypeOK
      <4> QED  BY <1>0, <2>1, <2>4, <4>1 DEF Untouched
    <3> QED  BY <1>7, <3>1, <3>2 DEF DecideWarn
  <2> QED  BY <1>3, <1>4, <1>n, <2>1, <2>5 DEF QuietInv, Marking
<1>8. CASE DecideFire
  <2>1. UNCHANGED <<schedule, fired, warned>>  BY <1>8 DEF DecideFire
  <2>2. task'[Scheduler] = [Self EXCEPT !.target = Due, !.pc = "markRow"]
    BY <1>0, <1>8 DEF DecideFire, TypeOK, Self
  <2>3. /\ task'[Scheduler].pc = "markRow" /\ task'[Scheduler].target = Due
        /\ task'[Scheduler].server = Self.server /\ task'[Scheduler].cfg = Self.cfg
    BY <1>0, <2>2 DEF TaskState
  <2>4. Due \in Int /\ Due > Self.cfg.lastFired /\ Self.cfg.enabled /\ Self.pc = "loaded"
    BY <1>0, <1>8, DuePicked DEF DecideFire, Due
  <2>5. Self.cfg.lastFired = schedule[Self.server].lastFired
    BY <1>0, <2>4, TaskFacts DEF Holding, Self
  <2>6. \A x \in skipped[Self.server] : x < Due  BY <1>0, <1>4, <2>4, <2>5
  <2> QED  BY <1>0, <1>3, <1>4, <2>1, <2>3, <2>6 DEF Untouched, QuietInv, Self
<1>9. CASE MarkFired
  <2>1. UNCHANGED <<fired, warned>>  BY <1>9 DEF MarkFired
  <2>2. task'[Scheduler] = [Self EXCEPT !.pc = "exec"] /\ Self.pc \in Marking
    BY <1>0, <1>9 DEF MarkFired, TypeOK, Self, Marking
  <2>3. /\ task'[Scheduler].pc = "exec" /\ task'[Scheduler].target = Self.target
        /\ task'[Scheduler].server = Self.server /\ task'[Scheduler].cfg = Self.cfg
    BY <1>0, <2>2 DEF TaskState
  <2>4. Save(Self.server, Marked(Self))
    BY <1>9 DEF MarkFired, SaveFails, NoEdits, OnceAssumption
  <2>5. Marked(Self).lastFired = Self.target /\ Marked(Self).rules = Self.cfg.rules
    BY <1>0 DEF Marked, TaskState, Config
  <2>6. /\ schedule'[Self.server].lastFired = Self.target
        /\ schedule'[Self.server].rules = Self.cfg.rules
        /\ \A z \in Servers \ {Self.server} : schedule'[z] = schedule[z]
    BY <1>0, <2>4, <2>5, MarkedType, SaveMoves, SaveSets
  <2>7. \A x \in skipped[Self.server] : x < Self.target  BY <2>2 DEF QuietInv
  <2>8. \A s \in Servers : /\ schedule'[s].rules \in {FirstRules, {}}
                           /\ \A x \in skipped[s] : x <= schedule'[s].lastFired
    BY <1>0, <1>4, <2>6, <2>7 DEF QuietInv, Self
  <2> QED  BY <1>0, <1>3, <2>1, <2>3, <2>7, <2>8 DEF Untouched, QuietInv, Self
<1>10. CASE Restart
  <2>1. UNCHANGED <<schedule, warned>> /\ NextTurn /\ Self.pc \in Marking
    BY <1>10 DEF Restart, Marking
  <2>2. \A x \in skipped[Self.server] : x < Self.target  BY <2>1 DEF QuietInv
  <2>3. Self.target \notin skipped[Self.server]  BY <1>0, <2>2
  <2>4. \A s \in Servers, x \in Occurrences :
          ~(s = Self.server /\ x = Self.target) => fired'[s][x] = fired[s][x]
    BY <1>0, <1>10 DEF Restart, TypeOK
  <2> QED  BY <1>0, <1>3, <1>4, <1>n, <2>1, <2>3, <2>4 DEF Untouched, QuietInv, Marking
<1> QED  BY <1>5, <1>6, <1>7, <1>8, <1>9, <1>10 DEF Tick

LEMMA QuietServe ==
    ASSUME TypeOK, OnceInv, QuietInv, NoEdits, NEW o \in Operators, Serve(o)
    PROVE  QuietInv' /\ Untouched
<1> USE DEF history
<1> DEFINE k == task[o]
<1>0. /\ o \in Tasks /\ o # Scheduler /\ Scheduler \in Tasks
      /\ k \in TaskState /\ k.server \in Servers /\ k.cfg \in Config /\ k.target \in Int
      /\ now \in Int /\ \A s \in Servers : schedule[s].lastFired \in Int
      /\ \A x \in Occurrences : x \in Int
      /\ FirstRules \subseteq Occurrences
  BY TasksAre, TaskType, TaskFacts, Constants
<1>1. \A u \in Tasks \ {o} : task'[u].pc = "idle" /\ task'[u] = task[u]
  BY <1>0, Alone, ServeIsStep DEF OnceInv, OnceAssumption, NoEdits, StepOf
<1>2. UNCHANGED <<fired, warned, now>>
  BY DEF Serve, AskUpdate, AskSkip, Request, Update, SkipNothing, SkipNext, MarkSkipped
<1>u. Untouched  BY <1>2 DEF Untouched
<1>3. ASSUME \A s \in Servers : /\ schedule'[s].rules \in {FirstRules, {}}
                                /\ \A x \in skipped'[s] : NextUp(x) /\ x <= schedule'[s].lastFired,
             task'[o].cfg.rules \in {FirstRules, {}},
             task'[o].pc \in Marking =>
                /\ NextUp(task'[o].target)
                /\ \A x \in skipped'[task'[o].server] : x <= task'[o].target
      PROVE  QuietInv'
  <2>1. \A t \in Tasks : task'[t].cfg.rules \in {FirstRules, {}}
    BY <1>1, <1>3 DEF QuietInv
  <2>2. Self'.pc = "idle"  BY <1>0, <1>1 DEF Self
  <2>3. \A x : NextUp(x)' <=> NextUp(x)  BY <1>2 DEF NextUp
  <2>4. \A d \in Operators : task'[d].pc \in Marking => d = o
    BY <1>1, TasksAre DEF Marking
  <2>5. \A d \in Operators : task'[d].pc \in Marking =>
          /\ NextUp(task'[d].target)
          /\ \A x \in skipped'[task'[d].server] : x <= task'[d].target
    BY <1>3, <2>4
  <2> QED  BY <1>2, <1>3, <2>1, <2>2, <2>5 DEF QuietInv, NextUp, Marking
<1>4. CASE AskUpdate(o) \/ AskSkip(o)
  <2>1. PICK request, s, body : Request(o, request, s, body)
    BY <1>4 DEF AskUpdate, AskSkip
  <2>2. task'[o] = [Idle EXCEPT !.pc = "row", !.request = request, !.server = s, !.body = body]
    BY <1>0, <2>1 DEF Request, TypeOK
  <2>3. task'[o].pc = "row" /\ task'[o].cfg.rules = {}  BY <2>2 DEF Idle, DefaultConfig
  <2>4. UNCHANGED <<schedule, skipped>>  BY <2>1 DEF Request
  <2> QED  BY <1>3, <1>u, <2>3, <2>4 DEF QuietInv, Marking
<1>5. CASE Update(o)
  <2>1. k.request = "update"  BY <1>5 DEF Update
  <2> QED  BY <1>0, <2>1, TaskFacts DEF NoEdits
<1>6. CASE SkipNothing(o)
  <2>1. task'[o] = Idle /\ UNCHANGED <<schedule, skipped>>
    BY <1>0, <1>6 DEF SkipNothing, TypeOK
  <2>2. task'[o].pc = "idle" /\ task'[o].cfg.rules = {}  BY <2>1 DEF Idle, DefaultConfig
  <2> QED  BY <1>3, <1>u, <2>1, <2>2 DEF QuietInv, Marking
<1>7. CASE SkipNext(o)
  <2>1. task'[o] = [k EXCEPT !.target = SkipTarget(now, k.cfg), !.pc = "markRow"]
        /\ UNCHANGED <<schedule, skipped>>
    BY <1>0, <1>7 DEF SkipNext, TypeOK
  <2>2. /\ task'[o].target = SkipTarget(now, k.cfg)
        /\ task'[o].server = k.server /\ task'[o].cfg = k.cfg
    BY <1>0, <2>1 DEF TaskState
  <2>3. SkipTarget(now, k.cfg) = NextRestartAt(now, k.cfg.rules) /\ SkipTarget(now, k.cfg) # None
    BY <1>7 DEF SkipTarget, SkipNext
  <2>4. k.cfg.rules \in SUBSET Occurrences  BY <1>0 DEF Config
  <2>5. SkipTarget(now, k.cfg) \in k.cfg.rules /\ SkipTarget(now, k.cfg) > now
    BY <1>0, <2>3, <2>4, Picked
  <2>6. k.cfg.rules = FirstRules  BY <1>0, <2>5 DEF QuietInv
  <2>7. \A y \in FirstRules : y > now => SkipTarget(now, k.cfg) <= y
    <3>1. Later(FirstRules, now) \in SUBSET Nat  BY <1>0, Constants DEF Later, Occurrences
    <3>2. Later(FirstRules, now) # {}  BY <2>3, <2>6 DEF NextRestartAt
    <3>3. SkipTarget(now, k.cfg) = Min(Later(FirstRules, now))
      BY <2>3, <2>6, <3>2 DEF NextRestartAt
    <3> HIDE DEF k
    <3> QED  BY <3>1, <3>2, <3>3, MinOf DEF Later
  <2>8. NextUp(task'[o].target)  BY <2>2, <2>5, <2>6, <2>7 DEF NextUp
  <2>9. \A x \in skipped[k.server] : x <= SkipTarget(now, k.cfg)
    BY <1>0, <2>5, <2>6 DEF QuietInv, NextUp
  <2>10. \A s \in Servers : /\ schedule'[s].rules \in {FirstRules, {}}
                            /\ \A x \in skipped'[s] : NextUp(x) /\ x <= schedule'[s].lastFired
    BY <2>1 DEF QuietInv
  <2>11. task'[o].cfg.rules \in {FirstRules, {}}  BY <2>2, <2>6
  <2> QED  BY <1>3, <1>u, <2>1, <2>2, <2>8, <2>9, <2>10, <2>11
<1>8. CASE MarkSkipped(o)
  <2>1. k.pc \in Marking /\ Save(k.server, Marked(k))
    BY <1>8 DEF MarkSkipped, SaveFails, NoEdits, OnceAssumption, Marking
  <2>2. task'[o] = Idle  BY <1>0, <1>8 DEF MarkSkipped, TypeOK
  <2>3. task'[o].pc = "idle" /\ task'[o].cfg.rules = {}  BY <2>2 DEF Idle, DefaultConfig
  <2>4. Marked(k).lastFired = k.target /\ Marked(k).rules = k.cfg.rules
    BY <1>0 DEF Marked, TaskState, Config
  <2>5. /\ schedule'[k.server].lastFired = k.target
        /\ schedule'[k.server].rules = k.cfg.rules
        /\ \A z \in Servers \ {k.server} : schedule'[z] = schedule[z]
    BY <1>0, <2>1, <2>4, MarkedType, SaveMoves, SaveSets
  <2>6. NextUp(k.target) /\ \A x \in skipped[k.server] : x <= k.target
    BY <2>1 DEF QuietInv
  <2>7. \A s \in Servers : skipped'[s] = IF s = k.server THEN skipped[s] \cup {k.target}
                                         ELSE skipped[s]
    BY <1>0, <1>8 DEF MarkSkipped, TypeOK
  <2>8. ASSUME NEW s \in Servers
        PROVE  /\ schedule'[s].rules \in {FirstRules, {}}
               /\ \A x \in skipped'[s] : NextUp(x) /\ x <= schedule'[s].lastFired
    <3>1. CASE s = k.server
      <4>1. schedule'[s].rules \in {FirstRules, {}} /\ schedule'[s].lastFired = k.target
        BY <1>0, <2>5, <3>1 DEF QuietInv
      <4>2. skipped'[s] = skipped[k.server] \cup {k.target}  BY <2>7, <3>1
      <4>3. \A x \in skipped[k.server] : NextUp(x)  BY <1>0 DEF QuietInv
      <4> HIDE DEF k
      <4> QED  BY <1>0, <2>6, <4>1, <4>2, <4>3
    <3>2. CASE s # k.server
      BY <2>5, <2>7, <3>2 DEF QuietInv
    <3> QED  BY <3>1, <3>2
  <2> QED  BY <1>3, <1>u, <2>3, <2>8 DEF Marking
<1> QED  BY <1>4, <1>5, <1>6, <1>7, <1>8 DEF Serve

LEMMA QuietStep ==
    ASSUME TypeOK, OnceInv, QuietInv, NoEdits, [Next]_vars
    PROVE  QuietInv' /\ Untouched
<1>1. CASE Tick  BY <1>1, QuietTick
<1>2. CASE Advance
  <2>1. now' = now + 1 /\ UNCHANGED <<schedule, task, fired, warned, skipped>>
    BY <1>2 DEF Advance, history
  <2>2. now \in Int /\ \A y \in FirstRules : y \in Int
    BY TasksAre, TaskFacts, Constants
  <2>3. \A x : NextUp(x) => NextUp(x)'  BY <2>1, <2>2 DEF NextUp
  <2> QED  BY <2>1, <2>3 DEF QuietInv, Untouched, Self
<1>3. CASE Crash
  <2>1. /\ UNCHANGED <<now, schedule, fired, warned, skipped>>
        /\ \A t \in Tasks : task'[t].pc = "idle" /\ task'[t].cfg.rules = {}
    BY <1>3 DEF Crash, history, Idle, DefaultConfig
  <2> QED  BY <2>1, TasksAre DEF QuietInv, NextUp, Untouched, Self, Marking
<1>4. CASE \E o \in Operators : Serve(o)  BY <1>4, QuietServe
<1>5. CASE \E t \in Tasks : LoadRow(t) \/ LoadRules(t) \/ LoadFails(t)
  BY <1>5, QuietLoad
<1>6. CASE UNCHANGED vars
  BY <1>6 DEF vars, QuietInv, NextUp, Self, Untouched
<1> QED  BY <1>1, <1>2, <1>3, <1>4, <1>5, <1>6 DEF Next

\* An occurrence an operator was told is skipped is neither announced nor fired
\* from then on, through failing reads and commands, crashes, late ticks and
\* further skips: the watermark only moves forward, past it.  Ticks and requests
\* do not overlap, the watermark is saved, and nobody edits the rules meanwhile
\* (an earlier occurrence could then be skipped afterwards, which takes the
\* watermark back).
THEOREM SkippedStaysSkipped == NoEdits => (Spec => SkippedStaysQuiet)
<1>1. ASSUME NoEdits  PROVE Spec => SkippedStaysQuiet
  <2>1. TypeOK /\ OnceInv /\ QuietInv /\ [Next]_vars => TypeOK' /\ OnceInv' /\ QuietInv'
    BY <1>1, TypeStep, OnceStep, QuietStep DEF NoEdits
  <2>2. TypeOK /\ OnceInv /\ QuietInv /\ [Next]_vars =>
          [\A s \in Servers : \A x \in skipped[s] :
             fired'[s][x] = fired[s][x] /\ warned'[s][x] = warned[s][x]]_vars
    BY <1>1, QuietStep DEF Untouched
  <2> QED  BY <2>1, <2>2, InitType, OnceInit, QuietInit, PTL DEF Spec, SkippedStaysQuiet
<1> QED  BY <1>1

-----------------------------------------------------------------------------
(* No restart is missed                                                    *)

\* Ticks keep pace with the clock and are not overlapped by requests, nobody
\* skips, and neither a read, nor the restart command, nor the process fails.
\* Saves and broadcasts may fail.
KeepsPace == /\ ~Overlap /\ Prompt
             /\ "skip" \notin Requests
             /\ Faults \subseteq {"save", "broadcast"}

\* Whoever has read a schedule has read what is stored.
Loaded(t) ==
    LET k == task[t]  stored == schedule[k.server]
    IN  /\ k.pc \in {"rules", "loaded", "markRules", "mark"} =>
             k.cfg.enabled = stored.enabled /\ k.cfg.lastFired = stored.lastFired
        /\ k.pc \in {"loaded", "mark"} => k.cfg.rules = stored.rules

\* The tick at `at' is through with server s.
Done(s) == s \notin todo /\ (Self.pc \notin {"idle", "next"} => Self.server # s)

\* The watermark is an occurrence that was fired, or is about to be.
Watermark(s) ==
    LET last == schedule[s].lastFired
    IN  last <= now /\ (last # None =>
          \/ fired[s][last] > 0
          \/ Self.pc = "exec" /\ Self.server = s /\ Self.target = last)

\* What came since the last edit is fired once its tick is through.
Kept(s) ==
    schedule[s].enabled =>
      \A x \in schedule[s].rules :
        since[s] < x /\ (x < now \/ (x = now /\ at = now /\ Done(s))) => fired[s][x] > 0

TickState ==
    /\ Self.pc = "idle" => todo = {}
    /\ Self.pc # "idle" => at = now
    /\ Self.pc \in Marking =>
         /\ Self.target \in Occurrences /\ Self.target <= now
         /\ at \in schedule[Self.server].rules => Self.target = at

PaceInv == /\ OneAtATime
           /\ \A o \in Operators : task[o].request # "skip" /\ task[o].pc \notin Marking
           /\ \A t \in Tasks : Loaded(t)
           /\ TickState
           /\ \A s \in Servers : Watermark(s) /\ Kept(s)

LEMMA PaceInit == Init => PaceInv
<1> SUFFICES ASSUME Init PROVE PaceInv  OBVIOUS
<1>1. \A t \in Tasks : task[t].pc = "idle" /\ task[t].request = "none"  BY DEF Init, Idle
<1>2. \A o \in Operators : o \in Tasks  BY TasksAre
<1>3. Self.pc = "idle"  BY <1>1, TasksAre DEF Self
<1>4. TickState  BY <1>3 DEF TickState, Init, Marking
<1>5. ASSUME NEW s \in Servers  PROVE Watermark(s) /\ Kept(s)
  <2>1. schedule[s].lastFired = None /\ schedule[s].rules = FirstRules
    BY DEF Init, DefaultConfig
  <2>2. now = 0 /\ at # now  BY DEF Init, Never
  <2>3. \A x \in FirstRules : x \in Nat /\ x > 0  BY Constants DEF Occurrences
  <2> QED  BY <2>1, <2>2, <2>3 DEF Watermark, Kept, None
<1> QED  BY <1>1, <1>2, <1>4, <1>5 DEF PaceInv, OneAtATime, Loaded, Marking

LEMMA PaceFacts ==
    ASSUME TypeOK
    PROVE  /\ \A x \in Occurrences : x \in Int /\ x # None /\ x > 0
           /\ \A s \in Servers : /\ schedule[s].lastFired \in Int /\ schedule[s] \in Config
                                 /\ schedule[s].rules \in SUBSET Occurrences
           /\ now \in Int /\ at \in Int
           /\ Self \in TaskState /\ Self.server \in Servers /\ Self.cfg \in Config
           /\ Self.target \in Int /\ Self.cfg.lastFired \in Int /\ Scheduler \in Tasks
           /\ \A s \in Servers, x \in Occurrences : fired[s][x] \in 0..MaxCount
<1>1. \A x \in Instants : x \in Int  BY Constants
<1>2. \A x \in Occurrences : x \in Int /\ x # None /\ x > 0
  BY Constants DEF Occurrences, None
<1> QED  BY <1>1, <1>2, TasksAre, TaskType DEF Self, TypeOK, Config

\* Whatever a rule says of this very instant is the last occurrence so far.
LEMMA PrevIsNow ==
    ASSUME NEW rules \in SUBSET Occurrences, NEW t \in rules
    PROVE  PrevRestartAt(t, rules) = t
<1>1. \A x \in Occurrences : x \in Nat /\ x <= MaxTime
  BY Constants DEF Occurrences
<1>2. Earlier(rules, t) \in SUBSET (0..MaxTime) /\ t \in Earlier(rules, t)
  BY <1>1 DEF Earlier
<1>3. PrevRestartAt(t, rules) = Max(Earlier(rules, t))  BY <1>2 DEF PrevRestartAt
<1>4. Max(Earlier(rules, t)) \in Earlier(rules, t) /\ t <= Max(Earlier(rules, t))
  BY <1>2, Constants, MaxOf
<1> QED  BY <1>1, <1>3, <1>4 DEF Earlier

LEMMA PaceLoad ==
    ASSUME TypeOK, PaceInv, NEW t \in Tasks, LoadRow(t) \/ LoadRules(t)
    PROVE  PaceInv'
<1>1. OneAtATime' /\ \A u \in Tasks \ {t} : task'[u].pc = "idle" /\ task'[u] = task[u]
  BY Alone, LoadIsStep DEF PaceInv, StepOf
<1>2. /\ task'[t].server = task[t].server /\ task'[t].target = task[t].target
      /\ task'[t].request = task[t].request
      /\ task'[t].pc \in Marking => task[t].pc \in Marking
      /\ UNCHANGED <<now, schedule, at, todo, fired, since>>
  BY LoadKeeps DEF history
<1>3. /\ task[t].pc \notin {"idle", "next", "exec"}
      /\ task'[t].pc \notin {"idle", "next", "exec"}
      /\ Loaded(t)'
  <2>1. CASE LoadRow(t)
    <3>1. task'[t] = [task[t] EXCEPT
             !.cfg = [schedule[task[t].server] EXCEPT !.rules = {}],
             !.pc = IF task[t].pc = "row" THEN "rules" ELSE "markRules"]
      BY <2>1 DEF LoadRow, TypeOK
    <3>2. /\ task'[t].cfg.lastFired = schedule[task[t].server].lastFired
          /\ task'[t].cfg.enabled = schedule[task[t].server].enabled
          /\ task'[t].pc \in {"rules", "markRules"}
      BY <3>1, TaskType DEF TaskState, Config
    <3> QED  BY <1>2, <2>1, <3>2 DEF Loaded, LoadRow
  <2>2. CASE LoadRules(t)
    <3>1. task'[t] = [task[t] EXCEPT !.cfg.rules = schedule[task[t].server].rules,
                                     !.pc = AfterRules(task[t].pc)]
      BY <2>2 DEF LoadRules, TypeOK
    <3>2. task'[t].cfg = [task[t].cfg EXCEPT !.rules = schedule[task[t].server].rules]
      BY <3>1, TaskType DEF TaskState
    <3>3. /\ task'[t].cfg.rules = schedule[task[t].server].rules
          /\ task'[t].cfg.lastFired = task[t].cfg.lastFired
          /\ task'[t].cfg.enabled = task[t].cfg.enabled
      BY <3>2, TaskType DEF Config
    <3>4. task'[t].pc \in {"loaded", "mark"} /\ task[t].pc \in {"rules", "markRules"}
      <4>1. task'[t].pc = AfterRules(task[t].pc)  BY <3>1, TaskType DEF TaskState
      <4>2. task[t].pc \in {"rules", "markRules"}  BY <2>2 DEF LoadRules
      <4> QED  BY <4>1, <4>2 DEF AfterRules
    <3> QED  BY <1>2, <3>3, <3>4 DEF Loaded, PaceInv
  <2> QED  BY <2>1, <2>2
<1>4. \A u \in Tasks : Loaded(u)'  BY <1>1, <1>3 DEF Loaded
<1>5. /\ Self'.server = Self.server /\ Self'.target = Self.target
      /\ Self'.pc \in Marking => Self.pc \in Marking
      /\ Self'.pc = "idle" <=> Self.pc = "idle"
      /\ Self'.pc = "next" <=> Self.pc = "next"
      /\ Self'.pc = "exec" <=> Self.pc = "exec"
  BY <1>1, <1>2, <1>3, TasksAre DEF Self
<1>6. TickState'  BY <1>2, <1>5 DEF TickState, PaceInv
<1>7. \A s \in Servers : Watermark(s)' /\ Kept(s)'
  BY <1>2, <1>5 DEF Watermark, Kept, Done, PaceInv
<1>8. \A o \in Operators : task'[o].request # "skip" /\ task'[o].pc \notin Marking
  BY <1>1, <1>2, TasksAre DEF PaceInv
<1> QED  BY <1>1, <1>4, <1>6, <1>7, <1>8 DEF PaceInv

LEMMA PaceTick == ASSUME TypeOK, PaceInv, KeepsPace, Tick PROVE PaceInv'
<1> USE DEF history
<1>0. /\ Scheduler \in Tasks /\ Self \in TaskState /\ Self.server \in Servers
      /\ Self.cfg \in Config /\ Self.target \in Int /\ at \in Int /\ now \in Int
      /\ Self = task[Scheduler]
  BY PaceFacts DEF Self
<1>1. /\ OneAtATime'
      /\ \A u \in Tasks \ {Scheduler} : task'[u].pc = "idle" /\ task'[u] = task[u]
  BY <1>0, Alone, TickIsStep DEF PaceInv, KeepsPace, StepOf
<1>2. UNCHANGED <<now, since>>
  BY DEF Tick, StartTick, NextServer, EndTick, DecideFire, DecideWarn, DecideNothing,
         MarkFired, Restart, RestartSkipped
<1>3. \A o \in Operators : task'[o].request # "skip" /\ task'[o].pc \notin Marking
  BY <1>1, TasksAre DEF PaceInv
<1>4. ASSUME Loaded(Scheduler)', TickState',
             \A s \in Servers : Watermark(s)' /\ Kept(s)'
      PROVE  PaceInv'
  <2>1. \A t \in Tasks : Loaded(t)'  BY <1>1, <1>4 DEF Loaded
  <2> QED  BY <1>1, <1>3, <1>4, <2>1 DEF PaceInv
<1>5. \A s \in Servers : Watermark(s) /\ Kept(s)  BY DEF PaceInv
\* The scheduler turns to the next server.
<1>n. ASSUME NextTurn, at' = now, UNCHANGED schedule,
             \A s \in Servers : Watermark(s)' /\ Kept(s)'
      PROVE  PaceInv'
  <2>1. task'[Scheduler].pc = "next"  BY <1>n, TurnIs
  <2> QED  BY <1>2, <1>4, <1>n, <2>1 DEF Loaded, TickState, Self, Marking
<1>6. CASE StartTick
  <2>1. NextTurn /\ at' = now /\ todo' = Servers /\ UNCHANGED <<schedule, fired>> /\ Self.pc = "idle"
    BY <1>6 DEF StartTick
  <2>2. \A s \in Servers : Watermark(s)' /\ Kept(s)'
    BY <1>2, <1>5, <2>1 DEF Watermark, Kept, Done
  <2> QED  BY <1>n, <2>1, <2>2
<1>7. CASE NextServer
  <2>1. PICK s \in todo : /\ todo' = todo \ {s}
                          /\ task' = [task EXCEPT ![Scheduler].server = s,
                                                  ![Scheduler].pc = "row"]
    BY <1>7 DEF NextServer
  <2>2. task'[Scheduler] = [Self EXCEPT !.server = s, !.pc = "row"]
    BY <1>0, <2>1 DEF TypeOK, Self
  <2>3. task'[Scheduler].pc = "row" /\ task'[Scheduler].server = s
    BY <1>0, <2>2 DEF TaskState
  <2>4. UNCHANGED <<schedule, fired, at>> /\ Self.pc = "next"  BY <1>7 DEF NextServer
  <2>5. TickState' /\ Loaded(Scheduler)'
    BY <1>2, <2>3, <2>4 DEF TickState, Loaded, PaceInv, Self, Marking
  <2>6. \A z \in Servers : Watermark(z)'
    BY <1>2, <1>5, <2>4 DEF Watermark
  <2>7. \A z \in Servers : Done(z)' => Done(z)
    BY <2>1, <2>3, <2>4 DEF Done, Self
  <2>8. \A z \in Servers : Kept(z)'  BY <1>2, <1>5, <2>4, <2>7 DEF Kept
  <2> QED  BY <1>4, <2>5, <2>6, <2>8
<1>8. CASE EndTick
  <2>1. task'[Scheduler] = Idle /\ UNCHANGED <<schedule, fired, at, todo>>
        /\ Self.pc = "next" /\ todo = {}
    BY <1>0, <1>8 DEF EndTick, TypeOK
  <2>2. task'[Scheduler].pc = "idle"  BY <2>1 DEF Idle
  <2>3. TickState' /\ Loaded(Scheduler)'
    BY <2>1, <2>2 DEF TickState, Loaded, Self, Marking
  <2>4. \A s \in Servers : Watermark(s)' /\ Kept(s)'
    BY <1>2, <1>5, <2>1 DEF Watermark, Kept, Done
  <2> QED  BY <1>4, <2>3, <2>4
\* Deciding that nothing is due on a server ends its turn.
<1>9. CASE DecideWarn \/ DecideNothing
  <2>1. /\ NextTurn /\ UNCHANGED <<schedule, fired, at, todo>>
        /\ Self.pc = "loaded" /\ Due = None
    BY <1>9 DEF DecideWarn, DecideNothing
  <2>2. at' = now /\ at = now  BY <2>1 DEF PaceInv, TickState
  <2>3. /\ Self.cfg.enabled = schedule[Self.server].enabled
        /\ Self.cfg.lastFired = schedule[Self.server].lastFired
        /\ Self.cfg.rules = schedule[Self.server].rules
    BY <1>0, <2>1 DEF PaceInv, Loaded
  <2>4. \A s \in Servers : Watermark(s)'  BY <1>2, <1>5, <2>1 DEF Watermark
  <2>5. ASSUME NEW s \in Servers  PROVE Kept(s)'
    <3>1. CASE s # Self.server
      <4>1. Done(s)' => Done(s)  BY <2>1, <3>1 DEF Done
      <4> QED  BY <1>2, <1>5, <2>1, <4>1 DEF Kept
    <3>2. CASE s = Self.server
      <4>1. ASSUME schedule[s].enabled, now \in schedule[s].rules
            PROVE  fired[s][now] > 0
        <5>1. schedule[s].rules \in SUBSET Occurrences  BY PaceFacts
        <5>2. PrevRestartAt(at, Self.cfg.rules) = now
          BY <2>2, <2>3, <3>2, <4>1, <5>1, PrevIsNow
        <5>3. now # None  BY <4>1, <5>1, PaceFacts
        <5>4. ~(now > schedule[s].lastFired /\ now - now <= Grace)
          BY <2>1, <2>2, <2>3, <3>2, <4>1, <5>2, <5>3 DEF Due, DueAt
        <5>5. 0 <= Grace /\ schedule[s].lastFired \in Int  BY Constants, PaceFacts
        <5>6. schedule[s].lastFired <= now  BY <1>5 DEF Watermark
        <5>7. schedule[s].lastFired = now  BY <1>0, <5>4, <5>5, <5>6
        <5> QED  BY <1>5, <2>1, <5>3, <5>7 DEF Watermark
      <4>2. schedule[s].enabled => \A x \in schedule[s].rules :
              since[s] < x /\ x < now => fired[s][x] > 0
        BY <1>5 DEF Kept
      <4> QED  BY <1>2, <2>1, <4>1, <4>2 DEF Kept
    <3> QED  BY <3>1, <3>2
  <2> QED  BY <1>n, <2>1, <2>2, <2>4, <2>5
<1>10. CASE DecideFire
  <2>1. UNCHANGED <<schedule, fired, at, todo>> /\ Self.pc = "loaded"  BY <1>10 DEF DecideFire
  <2>2. task'[Scheduler] = [Self EXCEPT !.target = Due, !.pc = "markRow"]
    BY <1>0, <1>10 DEF DecideFire, TypeOK, Self
  <2>3. /\ task'[Scheduler].pc = "markRow" /\ task'[Scheduler].target = Due
        /\ task'[Scheduler].server = Self.server
    BY <1>0, <2>2 DEF TaskState
  <2>4. at = now  BY <2>1 DEF PaceInv, TickState
  <2>5. Due \in Occurrences /\ Due <= at
    BY <1>0, <1>10, DuePicked DEF DecideFire, Due
  <2>6. at \in schedule[Self.server].rules => Due = at
    <3>1. Self.cfg.rules = schedule[Self.server].rules
      BY <1>0, <2>1 DEF PaceInv, Loaded
    <3>2. Due = PrevRestartAt(at, Self.cfg.rules)
      BY <1>10 DEF DecideFire, Due, DueAt
    <3>3. Self.cfg.rules \in SUBSET Occurrences  BY <1>0 DEF Config
    <3> QED  BY <3>1, <3>2, <3>3, PrevIsNow
  <2>7. TickState'  BY <1>2, <2>1, <2>3, <2>4, <2>5, <2>6 DEF TickState, Self
  <2>8. Loaded(Scheduler)'  BY <2>3 DEF Loaded
  <2>9. \A s \in Servers : Watermark(s)' /\ Kept(s)'
    BY <1>2, <1>5, <2>1, <2>3 DEF Watermark, Kept, Done, Self
  <2> QED  BY <1>4, <2>7, <2>8, <2>9
<1>11. CASE MarkFired
  <2>1. UNCHANGED <<fired, at, todo>> /\ Self.pc = "mark"  BY <1>11 DEF MarkFired
  <2>2. task'[Scheduler] = [Self EXCEPT !.pc = "exec"]
    BY <1>0, <1>11 DEF MarkFired, TypeOK, Self
  <2>3. /\ task'[Scheduler].pc = "exec" /\ task'[Scheduler].target = Self.target
        /\ task'[Scheduler].server = Self.server
    BY <1>0, <2>2 DEF TaskState
  <2>4. /\ Self.target \in Occurrences /\ Self.target <= now
        /\ at = now /\ (at \in schedule[Self.server].rules => Self.target = at)
    BY <2>1 DEF PaceInv, TickState, Marking
  <2>5. /\ Self.cfg.enabled = schedule[Self.server].enabled
        /\ Self.cfg.rules = schedule[Self.server].rules
    BY <1>0, <2>1 DEF PaceInv, Loaded
  <2>6. /\ \A z \in Servers : /\ schedule'[z].rules = schedule[z].rules
                              /\ schedule'[z].enabled = schedule[z].enabled
        /\ \A z \in Servers \ {Self.server} : schedule'[z] = schedule[z]
        /\ schedule'[Self.server].lastFired \in {schedule[Self.server].lastFired, Self.target}
    <3>1. CASE Save(Self.server, Marked(Self))
      <4>1. /\ Marked(Self).lastFired = Self.target /\ Marked(Self).rules = Self.cfg.rules
            /\ Marked(Self).enabled = Self.cfg.enabled
        BY <1>0 DEF Marked, TaskState, Config
      <4> QED  BY <1>0, <2>5, <3>1, <4>1, MarkedType, SaveMoves, SaveSets
    <3>2. CASE SaveFails  BY <1>0, <3>2 DEF SaveFails
    <3> QED  BY <1>11, <3>1, <3>2 DEF MarkFired
  <2>7. TickState'  BY <1>0, <1>2, <2>1, <2>3, <2>4, <2>6 DEF TickState, Self
  <2>8. Loaded(Scheduler)'  BY <2>3 DEF Loaded
  <2>9. \A s \in Servers : Done(s)' => Done(s)  BY <2>1, <2>3 DEF Done, Self
  <2>10. \A s \in Servers : Kept(s)'  BY <1>2, <1>5, <2>1, <2>6, <2>9 DEF Kept
  <2>11. ASSUME NEW s \in Servers  PROVE Watermark(s)'
    <3>1. CASE schedule'[s].lastFired = schedule[s].lastFired
      BY <1>2, <1>5, <2>1, <3>1 DEF Watermark
    <3>2. CASE s = Self.server /\ schedule'[s].lastFired = Self.target
      BY <1>2, <2>3, <2>4, <3>2 DEF Watermark, Self
    <3> QED  BY <2>6, <3>1, <3>2
  <2> QED  BY <1>4, <2>7, <2>8, <2>10, <2>11
<1>12. CASE Restart
  <2>1. NextTurn /\ UNCHANGED <<schedule, at, todo>> /\ Self.pc = "exec"  BY <1>12 DEF Restart
  <2>2. /\ Self.target \in Occurrences /\ at = now
        /\ at \in schedule[Self.server].rules => Self.target = at
    BY <2>1 DEF PaceInv, TickState, Marking
  <2>3. fired'[Self.server][Self.target] > 0
    <3>1. fired'[Self.server][Self.target] = Min({fired[Self.server][Self.target] + 1, MaxCount})
      BY <1>0, <1>12, <2>2 DEF Restart, TypeOK
    <3>2. fired[Self.server][Self.target] \in 0..MaxCount  BY <1>0, <2>2, PaceFacts
    <3> QED  BY <3>1, <3>2, CountUp
  <2>4. \A s \in Servers, x \in Occurrences : fired[s][x] > 0 => fired'[s][x] > 0
    <3>1. \A s \in Servers, x \in Occurrences :
            ~(s = Self.server /\ x = Self.target) => fired'[s][x] = fired[s][x]
      BY <1>0, <1>12 DEF Restart, TypeOK
    <3> QED  BY <2>3, <3>1
  <2>5. ASSUME NEW s \in Servers  PROVE Watermark(s)'
    <3>1. schedule[s].lastFired \in Instants  BY DEF TypeOK, Config
    <3>2. schedule[s].lastFired # None => schedule[s].lastFired \in Occurrences
      BY <3>1, Constants DEF None, Occurrences, Instants
    <3> QED  BY <1>2, <1>5, <2>1, <2>3, <2>4, <3>2 DEF Watermark
  <2>6. ASSUME NEW s \in Servers  PROVE Kept(s)'
    <3>0. schedule[s].rules \in SUBSET Occurrences  BY PaceFacts
    <3>1. CASE s # Self.server
      <4>1. Done(s)' => Done(s)  BY <2>1, <3>1 DEF Done
      <4> QED  BY <1>2, <1>5, <2>1, <2>4, <3>0, <4>1 DEF Kept
    <3>2. CASE s = Self.server
      <4>1. now \in schedule[s].rules => fired'[s][now] > 0  BY <2>2, <2>3, <3>2
      <4>2. schedule[s].enabled => \A x \in schedule[s].rules :
              since[s] < x /\ x < now => fired'[s][x] > 0
        BY <1>5, <2>4, <3>0 DEF Kept
      <4> QED  BY <1>2, <2>1, <4>1, <4>2 DEF Kept
    <3> QED  BY <3>1, <3>2
  <2> QED  BY <1>n, <2>1, <2>2, <2>5, <2>6
<1>13. ~RestartSkipped  BY DEF RestartSkipped, KeepsPace
<1> QED  BY <1>6, <1>7, <1>8, <1>9, <1>10, <1>11, <1>12, <1>13 DEF Tick

LEMMA PaceServe ==
    ASSUME TypeOK, PaceInv, KeepsPace, NEW o \in Operators, Serve(o)
    PROVE  PaceInv'
<1> USE DEF history
<1> DEFINE k == task[o]
<1>0. /\ o \in Tasks /\ o # Scheduler /\ Scheduler \in Tasks
      /\ k \in TaskState /\ k.server \in Servers /\ k.cfg \in Config
  BY TasksAre, TaskType
<1>1. OneAtATime' /\ \A u \in Tasks \ {o} : task'[u].pc = "idle" /\ task'[u] = task[u]
  BY <1>0, Alone, ServeIsStep DEF PaceInv, KeepsPace, StepOf
<1>2. UNCHANGED <<fired, at, todo, now>> /\ Self' = Self /\ Self.pc = "idle"
  <2>1. Self' = Self /\ Self'.pc = "idle"  BY <1>0, <1>1 DEF Self
  <2> QED  BY <2>1 DEF Serve, AskUpdate, AskSkip, Request, Update, SkipNothing, SkipNext, MarkSkipped
<1>3. TickState'  BY <1>2 DEF PaceInv, TickState, Marking
<1>4. \A s \in Servers : Watermark(s) /\ Kept(s) /\ (Done(s)' => Done(s))
  BY <1>2 DEF PaceInv, Done
<1>5. CASE \E s, body : Request(o, "update", s, body)
  <2>1. PICK s, body : Request(o, "update", s, body)  BY <1>5
  <2>2. task'[o] = [Idle EXCEPT !.pc = "row", !.request = "update", !.server = s, !.body = body]
    BY <1>0, <2>1 DEF Request, TypeOK
  <2>3. task'[o].pc = "row" /\ task'[o].request = "update"  BY <2>2 DEF Idle
  <2>4. UNCHANGED <<schedule, since>>  BY <2>1 DEF Request
  <2>5. \A t \in Tasks : Loaded(t)'  BY <1>1, <2>3 DEF Loaded
  <2>6. \A z \in Servers : Watermark(z)' /\ Kept(z)'
    BY <1>2, <1>4, <2>4 DEF Watermark, Kept
  <2>7. \A d \in Operators : task'[d].request # "skip" /\ task'[d].pc \notin Marking
    BY <1>1, <2>3, TasksAre DEF PaceInv, Marking
  <2> QED  BY <1>1, <1>3, <2>5, <2>6, <2>7 DEF PaceInv
<1>6. CASE Update(o)
  <2>1. task'[o] = Idle /\ k.pc = "loaded"  BY <1>0, <1>6 DEF Update, TypeOK
  <2>2. task'[o].pc = "idle" /\ task'[o].request = "none"  BY <2>1 DEF Idle
  <2>3. \A t \in Tasks : Loaded(t)'  BY <1>1, <2>2 DEF Loaded
  <2>4. \A d \in Operators : task'[d].request # "skip" /\ task'[d].pc \notin Marking
    BY <1>1, <2>2, TasksAre DEF PaceInv, Marking
  <2>5. CASE UNCHANGED <<schedule, since>>
    <3>1. \A z \in Servers : Watermark(z)' /\ Kept(z)'
      BY <1>2, <1>4, <2>5 DEF Watermark, Kept
    <3> QED  BY <1>1, <1>3, <2>3, <2>4, <3>1 DEF PaceInv
  <2>6. CASE Save(k.server, Edited(k)) /\ since' = [since EXCEPT ![k.server] = now]
    <3>1. Edited(k).lastFired = k.cfg.lastFired  BY <1>0 DEF Edited, TaskState
    <3>2. k.cfg.lastFired = schedule[k.server].lastFired
      BY <1>0, <2>1 DEF PaceInv, Loaded
    <3>3. /\ schedule'[k.server].lastFired = schedule[k.server].lastFired
          /\ \A z \in Servers \ {k.server} : schedule'[z] = schedule[z] /\ since'[z] = since[z]
          /\ since'[k.server] = now
          /\ schedule'[k.server].rules \in SUBSET Occurrences
      <4>1. Edited(k) \in Savable /\ Edited(k).rules \in SUBSET Occurrences
        BY <1>0, MarkedType DEF Savable
      <4> QED  BY <1>0, <2>6, <3>1, <3>2, <4>1, SaveMoves, SaveSets DEF TypeOK
    <3>4. \A z \in Servers : Watermark(z)'  BY <1>2, <1>4, <3>3 DEF Watermark
    <3>5. ASSUME NEW z \in Servers  PROVE Kept(z)'
      <4>1. CASE z # k.server  BY <1>2, <1>4, <3>3, <4>1 DEF Kept
      <4>2. CASE z = k.server
        <5>1. now \in Int /\ \A x \in schedule'[z].rules : x \in Int
          BY <3>3, <4>2, PaceFacts
        <5> QED  BY <1>2, <3>3, <4>2, <5>1 DEF Kept
      <4> QED  BY <4>1, <4>2
    <3> QED  BY <1>1, <1>3, <2>3, <2>4, <3>4, <3>5 DEF PaceInv
  <2> QED  BY <1>6, <2>5, <2>6 DEF Update, SaveFails
<1>7. ~AskSkip(o) /\ ~SkipNothing(o) /\ ~SkipNext(o) /\ ~MarkSkipped(o)
  BY DEF AskSkip, Request, SkipNothing, SkipNext, MarkSkipped, KeepsPace, PaceInv
<1> QED  BY <1>5, <1>6, <1>7 DEF Serve, AskUpdate

LEMMA PaceStep == ASSUME TypeOK, PaceInv, KeepsPace, [Next]_vars PROVE PaceInv'
<1>1. CASE Tick  BY <1>1, PaceTick
<1>2. CASE Advance
  <2>1. /\ now' = now + 1 /\ UNCHANGED <<schedule, task, at, todo, fired, since>>
        /\ Self.pc = "idle" /\ at = now
    BY <1>2 DEF Advance, history, KeepsPace
  <2>2. now \in Int /\ \A s \in Servers : \A x \in schedule[s].rules : x \in Int
    BY PaceFacts
  <2>3. \A s \in Servers : Done(s)  BY <2>1 DEF PaceInv, TickState, Done
  <2>4. ASSUME NEW s \in Servers  PROVE Watermark(s)' /\ Kept(s)'
    <3>1. Watermark(s) /\ Kept(s) /\ schedule[s].lastFired \in Int
      BY PaceFacts DEF PaceInv
    <3>2. Watermark(s)'  BY <2>1, <2>2, <3>1 DEF Watermark, Self
    <3>3. \A x \in schedule[s].rules : x < now' => x < now \/ x = now
      BY <2>1, <2>2
    <3>4. \A x \in schedule[s].rules : x = now' => at' # now'
      BY <2>1, <2>2
    <3>5. Kept(s)'  BY <2>1, <2>3, <3>1, <3>3, <3>4 DEF Kept
    <3> QED  BY <3>2, <3>5
  <2> QED  BY <2>1, <2>4 DEF PaceInv, OneAtATime, Loaded, TickState, Self, Marking
<1>3. ~Crash /\ ~\E t \in Tasks : LoadFails(t)  BY DEF Crash, LoadFails, KeepsPace
<1>4. CASE \E o \in Operators : Serve(o)  BY <1>4, PaceServe
<1>5. CASE \E t \in Tasks : LoadRow(t) \/ LoadRules(t)  BY <1>5, PaceLoad
<1>6. CASE UNCHANGED vars
  BY <1>6 DEF vars, PaceInv, OneAtATime, Loaded, TickState, Self, Watermark, Kept, Done
<1> QED  BY <1>1, <1>2, <1>3, <1>4, <1>5, <1>6 DEF Next

\* Every occurrence of an enabled schedule that was saved before it is fired, for
\* any servers, rules, edits in between, lost saves and grace period, as long as
\* the ticks keep pace with the clock and a tick is not overlapped, cut short or
\* blind.
THEOREM EveryRestartFires == KeepsPace => (Spec => []NoneMissed)
<1>1. ASSUME KeepsPace  PROVE Spec => []NoneMissed
  <2>1. TypeOK /\ PaceInv /\ [Next]_vars => TypeOK' /\ PaceInv'
    BY <1>1, TypeStep, PaceStep
  <2>2. TypeOK /\ PaceInv => NoneMissed
    <3>1. SUFFICES ASSUME TypeOK, PaceInv, NEW s \in Servers, schedule[s].enabled,
                          NEW x \in schedule[s].rules, since[s] < x, x + Grace < now
                   PROVE  fired[s][x] > 0
      BY DEF NoneMissed
    <3>0. schedule[s].rules \in SUBSET Occurrences  BY <3>1, PaceFacts
    <3>2. x \in Int /\ now \in Int /\ Grace \in Nat  BY <3>0, <3>1, PaceFacts, Constants
    <3>3. x < now  BY <3>1, <3>2
    <3> QED  BY <3>1, <3>3 DEF PaceInv, Kept
  <2> QED  BY <2>1, <2>2, InitType, PaceInit, PTL DEF Spec
<1> QED  BY <1>1
=============================================================================
