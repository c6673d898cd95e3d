----------------------------- MODULE WelcomeProofs -----------------------------
(***************************************************************************)
(* Theorems about the welcome packages, for every set of servers, accounts,*)
(* packages and requests: what is in welcome_grants keeps the promises of  *)
(* GrantLedger, and no notice is sent twice for one visit.                 *)
(***************************************************************************)
EXTENDS WelcomePackages, TLAPS

-----------------------------------------------------------------------------
(* Type correctness                                                        *)

Outcome == {"none", "all", "some", "nothing"}

TaskState == [pc : Granting \cup Configuring \cup {"idle", "tick", "notice"},
              server : Servers, todo : SUBSET Servers, cfg : Config,
              seen : SUBSET Accounts, packs : SUBSET Versions, version : Versions,
              accounts : SUBSET (Accounts \ NoFls), account : Accounts,
              outcome : Outcome, forced : BOOLEAN]

Counts == [Keys -> Nat]

Types ==
    /\ online \in [Servers -> SUBSET Accounts]
    /\ packages \in [Keys -> Status] /\ messages \in [Keys -> Status]
    /\ stored \in Config /\ runtime \in Config
    /\ tracker \in Tracker
    /\ task \in [Tasks -> TaskState]
    /\ left \in [faults : Nat, acts : Nat]
    /\ gifts \in Counts /\ told \in Counts
    /\ arrived \in SUBSET Accounts /\ departed \in SUBSET Accounts
    /\ misled \in SUBSET Accounts
    /\ ledger \in [released : Counts, lost : Counts, forced : Counts,
                   releasedMsg : Counts, lostMsg : Counts]

LEMMA BuiltType == ASSUME NEW c \in Config PROVE Built(c) \in Config
<1>1. c.library \in SUBSET Versions /\ c.active \in SUBSET Versions  BY DEF Config
<1>2. c.library # {} => (CHOOSE v \in c.library : TRUE) \in Versions  BY <1>1
<1> DEFINE valid == c.active \cap c.library
           new == IF valid = {} /\ c.library # {}
                  THEN {CHOOSE v \in c.library : TRUE} ELSE valid
<1>3. new \in SUBSET Versions  BY <1>1, <1>2
<1> HIDE DEF new
<1>4. [c EXCEPT !.active = new] \in Config  BY <1>3 DEF Config
<1> QED  BY <1>4 DEF Built, new

LEMMA IdleType == FirstConfig \in Config /\ Idle \in TaskState
<1>1. FirstConfig \in Config
  BY SetAssumption DEF SetAssumption, FirstConfig, Config
<1>2. (CHOOSE v \in Versions : TRUE) \in Versions /\ (CHOOSE a \in Accounts : TRUE) \in Accounts
  BY SetAssumption DEF SetAssumption
<1>3. Default \in Servers  BY SetAssumption DEF SetAssumption
<1> QED  BY <1>1, <1>2, <1>3 DEF Idle, TaskState, Outcome

LEMMA InitTypes == Init => Types
<1> SUFFICES ASSUME Init PROVE Types  OBVIOUS
<1>1. Built(FirstConfig) \in Config  BY IdleType, BuiltType
<1>2. Unseeded \in Tracker  BY DEF Unseeded, Tracker
<1>3. left \in [faults : Nat, acts : Nat]  BY BoundAssumption DEF BoundAssumption, Init
<1>4. [k \in Keys |-> 0] \in Counts  BY DEF Counts
<1> QED  BY <1>1, <1>2, <1>3, <1>4, IdleType DEF Init, Types, Status

\* A step that changes one task and nothing else about tasks.
LEMMA GoType ==
    ASSUME Types, NEW t \in Tasks, NEW r \in TaskState, Go(t, r)
    PROVE  task' \in [Tasks -> TaskState]
BY DEF Types, Go

LEMMA TaskType ==
    ASSUME Types, NEW t \in Tasks
    PROVE  /\ task[t] \in TaskState
           /\ task[t].server \in Servers /\ task[t].version \in Versions
           /\ task[t].account \in Accounts /\ task[t].cfg \in Config
           /\ Default \in Servers
           /\ Row(t) \in Keys /\ Receiver(t) \in Keys
<1>1. task[t] \in TaskState  BY DEF Types
<1>2. task[t].server \in Servers /\ task[t].version \in Versions /\ task[t].account \in Accounts
      /\ task[t].cfg \in Config
  BY <1>1 DEF TaskState
<1>3. Default \in Servers  BY SetAssumption DEF SetAssumption
<1> QED  BY <1>1, <1>2, <1>3 DEF Row, Receiver, Scope, Keys

LEMMA ScannerTask == Scanner \in Tasks /\ \A t \in Requests : t \in Tasks /\ t # Scanner
BY SetAssumption DEF SetAssumption, Tasks

LEMMA FaultType ==
    ASSUME Types, NEW f, Fault(f) PROVE left' \in [faults : Nat, acts : Nat]
<1>1. left.faults - 1 \in Nat  BY DEF Types, Fault
<1> QED  BY <1>1 DEF Types, Fault

LEMMA ActType ==
    ASSUME Types, left.acts > 0, left' = [left EXCEPT !.acts = @ - 1]
    PROVE  left' \in [faults : Nat, acts : Nat]
<1>1. left.acts - 1 \in Nat  BY DEF Types
<1> QED  BY <1>1 DEF Types

LEMMA NextServerType ==
    ASSUME NEW r \in TaskState PROVE NextServer(r) \in TaskState
BY IdleType DEF NextServer, TaskState

LEMMA BetweenType == ASSUME Types, NEW t \in Tasks PROVE Between(t) \in TaskState
BY IdleType, TaskType DEF Between, TaskState, Granting, Outcome, Idle
LEMMA GameType == ASSUME Types, GameStep PROVE Types'
<1>1. PICK s \in Servers, a \in Accounts : Login(s, a) \/ Logout(s, a)  BY DEF GameStep
<1>2. CASE Login(s, a)  BY <1>2 DEF Login, Types
<1>3. CASE Logout(s, a)  BY <1>3 DEF Logout, Types
<1> QED  BY <1>1, <1>2, <1>3

\* What a scan and a request under way turn their task into.
LEMMA ListType == ASSUME Types, NEW t \in Tasks, List(t) \/ ListFails(t) PROVE Types'
<1> USE TaskType, IdleType DEF history
<1>1. CASE List(t)
  <2> DEFINE s == IF t = Scanner THEN task[t].server ELSE Default
  <2>1. online[s] \in SUBSET Accounts  BY DEF Types
  <2>2. [task[t] EXCEPT !.seen = online[s], !.accounts = Eligible(online[s]),
                        !.pc = IF t = Scanner THEN "package" ELSE "account"] \in TaskState
    BY <2>1 DEF TaskState, Eligible, Granting
  <2>3. task' \in [Tasks -> TaskState]  BY <1>1, <2>2, GoType DEF List
  <2> QED  BY <1>1, <2>3 DEF List, Types
<1>2. CASE ListFails(t)
  <2>1. NextServer(task[t]) \in TaskState  BY NextServerType
  <2>2. task' \in [Tasks -> TaskState]  BY <1>2, <2>1, GoType DEF ListFails
  <2>3. left' \in [faults : Nat, acts : Nat]  BY <1>2, FaultType DEF ListFails
  <2> QED  BY <1>2, <2>2, <2>3 DEF ListFails, Types
<1> QED  BY <1>1, <1>2

LEMMA PackageType == ASSUME Types, NEW t \in Tasks, NextPackage(t) \/ LastPackage(t) PROVE Types'
<1> USE TaskType, IdleType DEF history
<1>1. CASE NextPackage(t)
  <2>1. PICK v \in task[t].packs :
          LET r == [task[t] EXCEPT !.packs = @ \ {v}, !.version = v]
          IN  Go(t, IF v \in Broken THEN IF t = Scanner THEN r ELSE Idle
                    ELSE IF t = Scanner
                         THEN [r EXCEPT !.accounts = Eligible(r.seen), !.pc = "account"]
                         ELSE [r EXCEPT !.pc = "list"])
    BY <1>1 DEF NextPackage
  <2> DEFINE r == [task[t] EXCEPT !.packs = @ \ {v}, !.version = v]
  <2>2. r \in TaskState  BY DEF TaskState
  <2> HIDE DEF r
  <2>3. /\ [r EXCEPT !.accounts = Eligible(r.seen), !.pc = "account"] \in TaskState
        /\ [r EXCEPT !.pc = "list"] \in TaskState
    BY <2>2 DEF TaskState, Eligible, Granting
  <2>4. PICK q \in TaskState : Go(t, q)  BY <2>1, <2>2, <2>3 DEF r
  <2>5. task' \in [Tasks -> TaskState]  BY <2>4, GoType
  <2> QED  BY <1>1, <2>5 DEF NextPackage, Types
<1>2. CASE LastPackage(t)
  <2>1. NextServer(task[t]) \in TaskState  BY NextServerType
  <2>2. [task[t] EXCEPT !.pc = "notice"] \in TaskState  BY DEF TaskState
  <2>3. task' \in [Tasks -> TaskState]  BY <1>2, <2>1, <2>2, GoType DEF LastPackage
  <2> QED  BY <1>2, <2>3 DEF LastPackage, Types
<1> QED  BY <1>1, <1>2

LEMMA AccountType ==
    ASSUME Types, NEW t \in Tasks, NextAccount(t) \/ LastAccount(t) \/ CheckFails(t)
    PROVE  Types'
<1> USE TaskType, IdleType DEF history
<1>0. Idle.version \in Versions /\ Idle.account \in Accounts  BY DEF TaskState
<1>1. CASE NextAccount(t)
  <2>1. PICK a \in task[t].accounts : 
          Go(t, [task[t] EXCEPT
              !.account = a, !.accounts = @ \ {a},
              !.pc = IF Exists(packages[<<Scope(t), task[t].version, a>>])
                     THEN "tell" ELSE "give"])
    BY <1>1 DEF NextAccount
  <2>2. [task[t] EXCEPT !.account = a, !.accounts = @ \ {a},
              !.pc = IF Exists(packages[<<Scope(t), task[t].version, a>>])
                     THEN "tell" ELSE "give"] \in TaskState
    BY DEF TaskState, Granting
  <2>3. task' \in [Tasks -> TaskState]  BY <2>1, <2>2, GoType
  <2> QED  BY <1>1, <2>3 DEF NextAccount, Types
<1>2. CASE LastAccount(t)
  <2>1. [task[t] EXCEPT !.pc = "package", !.version = Idle.version] \in TaskState
    BY <1>0 DEF TaskState, Granting
  <2>2. task' \in [Tasks -> TaskState]  BY <1>2, <2>1, GoType DEF LastAccount
  <2> QED  BY <1>2, <2>2 DEF LastAccount, Types
<1>3. CASE CheckFails(t)
  <2>1. [task[t] EXCEPT !.pc = "package", !.accounts = {}, !.version = Idle.version,
                        !.account = Idle.account] \in TaskState
    BY <1>0 DEF TaskState, Granting
  <2>2. task' \in [Tasks -> TaskState]  BY <1>3, <2>1, GoType DEF CheckFails
  <2>3. left' \in [faults : Nat, acts : Nat]  BY <1>3, FaultType DEF CheckFails
  <2> QED  BY <1>3, <2>2, <2>3 DEF CheckFails, Types
<1> QED  BY <1>1, <1>2, <1>3

\* One more in a count.
LEMMA CountType ==
    ASSUME NEW f \in Counts, NEW k \in Keys, NEW n \in {0, 1}
    PROVE  [f EXCEPT ![k] = @ + n] \in Counts /\ [f EXCEPT ![k] = @ + 1] \in Counts
BY DEF Counts

LEMMA GiveType == ASSUME Types, NEW t \in Tasks, Give(t) PROVE Types'
<1> USE TaskType
<1>1. PICK o \in GiveOutcomes :
        LET n == IF o = "nothing" THEN 0 ELSE 1
        IN  /\ gifts' = [gifts EXCEPT ![Receiver(t)] = @ + n]
            /\ ledger' = IF task[t].forced
                         THEN [ledger EXCEPT !.forced[Receiver(t)] = @ + n]
                         ELSE ledger
            /\ Go(t, [task[t] EXCEPT !.outcome = o, !.pc = "record"])
  BY DEF Give
<1> DEFINE n == IF o = "nothing" THEN 0 ELSE 1
<1>2. o \in Outcome /\ n \in {0, 1}  BY DEF GiveOutcomes, Outcome
<1>3. [task[t] EXCEPT !.outcome = o, !.pc = "record"] \in TaskState
  BY <1>2 DEF TaskState, Granting
<1>4. task' \in [Tasks -> TaskState]  BY <1>1, <1>3, GoType
<1>5. gifts' \in Counts  BY <1>1, <1>2, CountType DEF Types
<1>6. [ledger.forced EXCEPT ![Receiver(t)] = @ + n] \in Counts
  BY <1>2, CountType DEF Types
<1>7. ledger' \in [released : Counts, lost : Counts, forced : Counts,
                   releasedMsg : Counts, lostMsg : Counts]
  BY <1>1, <1>6 DEF Types
<1> QED  BY <1>4, <1>5, <1>7 DEF Give, Types

LEMMA RecordType == ASSUME Types, NEW t \in Tasks, Record(t) \/ RecordFails(t) PROVE Types'
<1> USE TaskType, IdleType DEF history
<1>1. [task[t] EXCEPT !.pc = "tell", !.outcome = "none"] \in TaskState
  BY DEF TaskState, Granting, Outcome
<1>2. AfterRecord(t) \in TaskState  BY <1>1 DEF AfterRecord
<1>3. CASE Record(t)
  <2>1. task' \in [Tasks -> TaskState]  BY <1>2, <1>3, GoType DEF Record
  <2>2. packages' \in [Keys -> Status]  BY <1>3 DEF Record, RowFor, Status, Types
  <2> QED  BY <1>3, <2>1, <2>2 DEF Record, Types
<1>4. CASE RecordFails(t)
  <2>1. task' \in [Tasks -> TaskState]  BY <1>2, <1>4, GoType DEF RecordFails
  <2>2. left' \in [faults : Nat, acts : Nat]  BY <1>4, FaultType DEF RecordFails
  <2>3. [ledger.lost EXCEPT ![Row(t)] = @ + 1] \in Counts  BY CountType DEF Types
  <2>4. ledger' \in [released : Counts, lost : Counts, forced : Counts,
                     releasedMsg : Counts, lostMsg : Counts]
    BY <1>4, <2>3 DEF RecordFails, Types
  <2> QED  BY <1>4, <2>1, <2>2, <2>4 DEF RecordFails, Types
<1> QED  BY <1>3, <1>4

LEMMA TellType ==
    ASSUME Types, NEW t \in Tasks, TellNot(t) \/ Tell(t) \/ RecordTold(t) \/ RecordToldFails(t)
    PROVE  Types'
<1> USE TaskType, BetweenType DEF history
<1>1. CASE TellNot(t)
  <2>1. task' \in [Tasks -> TaskState]  BY <1>1, GoType DEF TellNot
  <2> QED  BY <1>1, <2>1 DEF TellNot, Types
<1>2. CASE Tell(t)
  <2>1. PICK o \in {"all", "nothing"} :
          /\ told' = [told EXCEPT ![Receiver(t)] = IF o = "all" THEN @ + 1 ELSE @]
          /\ Go(t, [task[t] EXCEPT !.outcome = o, !.pc = "told"])
    BY <1>2 DEF Tell
  <2>2. [task[t] EXCEPT !.outcome = o, !.pc = "told"] \in TaskState
    BY DEF TaskState, Granting, Outcome
  <2>3. task' \in [Tasks -> TaskState]  BY <2>1, <2>2, GoType
  <2>4. told' \in Counts  BY <2>1 DEF Types, Counts
  <2> QED  BY <1>2, <2>3, <2>4 DEF Tell, Types
<1>3. CASE RecordTold(t)
  <2>1. task' \in [Tasks -> TaskState]  BY <1>3, GoType DEF RecordTold
  <2>2. messages' \in [Keys -> Status]  BY <1>3 DEF RecordTold, RowFor, Status, Types
  <2> QED  BY <1>3, <2>1, <2>2 DEF RecordTold, Types
<1>4. CASE RecordToldFails(t)
  <2>1. task' \in [Tasks -> TaskState]  BY <1>4, GoType DEF RecordToldFails
  <2>2. left' \in [faults : Nat, acts : Nat]  BY <1>4, FaultType DEF RecordToldFails
  <2>3. [ledger.lostMsg EXCEPT ![Row(t)] = @ + 1] \in Counts  BY CountType DEF Types
  <2>4. ledger' \in [released : Counts, lost : Counts, forced : Counts,
                     releasedMsg : Counts, lostMsg : Counts]
    BY <1>4, <2>3 DEF RecordToldFails, Types
  <2> QED  BY <1>4, <2>1, <2>2, <2>4 DEF RecordToldFails, Types
<1> QED  BY <1>1, <1>2, <1>3, <1>4
LEMMA ScannerType ==
    ASSUME Types, StartScan \/ EndScan \/ Notice \/ \E s \in Servers : Tick(s)
    PROVE  Types'
<1> USE ScannerTask, TaskType, IdleType DEF history
<1>0. NextServer(task[Scanner]) \in TaskState  BY NextServerType
<1>1. CASE StartScan
  <2>1. [Idle EXCEPT !.pc = "tick", !.todo = Servers] \in TaskState  BY DEF TaskState
  <2>2. task' \in [Tasks -> TaskState]  BY <1>1, <2>1, GoType DEF StartScan
  <2> QED  BY <1>1, <2>2 DEF StartScan, Types
<1>2. CASE EndScan
  <2>1. task' \in [Tasks -> TaskState]  BY <1>2, GoType DEF EndScan
  <2> QED  BY <1>2, <2>1 DEF EndScan, Types
<1>3. CASE Notice
  <2>1. task' \in [Tasks -> TaskState]  BY <1>0, <1>3, GoType DEF Notice
  <2>2. task[Scanner].seen \in SUBSET Accounts  BY DEF TaskState
  <2>3. tracker' \in Tracker  BY <1>3, <2>2 DEF Notice, Tracker
  <2> DEFINE joins == Joins(tracker, task[Scanner].seen)
             leaves == Leaves(tracker, task[Scanner].seen)
  <2>4. joins \in SUBSET Accounts /\ leaves \in SUBSET Accounts
    BY <2>2 DEF Joins, Leaves, Types, Tracker
  <2>5. PICK g \in Greetings(joins), a \in Announcements(joins, leaves) :
          LET came == g \cup a.joined
          IN  /\ misled' = misled \cup (came \ arrived) \cup (a.left \ departed)
              /\ arrived' = arrived \ came
              /\ departed' = departed \ a.left
    BY <1>3 DEF Notice
  <2>6. g \in SUBSET Accounts /\ a.joined \in SUBSET Accounts /\ a.left \in SUBSET Accounts
    BY <2>4 DEF Greetings, Announcements, Some
  <2>7. /\ arrived' \in SUBSET Accounts /\ departed' \in SUBSET Accounts
        /\ misled' \in SUBSET Accounts
    BY <2>5, <2>6 DEF Types
  <2> QED  BY <1>3, <2>1, <2>3, <2>7 DEF Notice, Types
<1>4. CASE \E s \in Servers : Tick(s)
  <2>1. PICK s \in Servers : Tick(s)  BY <1>4
  <2> DEFINE r == [task[Scanner] EXCEPT !.todo = @ \ {s}, !.server = s, !.cfg = runtime]
             packs == IF PackagesOn(runtime) THEN Active(runtime) ELSE {}
  <2>2. r \in TaskState  BY DEF TaskState, Types
  <2>3. packs \in SUBSET Versions  BY DEF Types, Config, Active
  <2> HIDE DEF r, packs
  <2>4. NextServer(r) \in TaskState  BY <2>2, NextServerType
  <2>5. [r EXCEPT !.pc = "list", !.packs = packs] \in TaskState
    BY <2>2, <2>3 DEF TaskState, Granting
  <2>6. PICK q \in TaskState : Go(Scanner, q)  BY <2>1, <2>4, <2>5 DEF Tick, r, packs
  <2>7. task' \in [Tasks -> TaskState]  BY <2>6, GoType
  <2>8. tracker' \in Tracker  BY <2>1 DEF Tick, Reset, Unseeded, Tracker, Types
  <2> QED  BY <2>1, <2>7, <2>8 DEF Tick, Types
<1> QED  BY <1>1, <1>2, <1>3, <1>4

LEMMA RequestType ==
    ASSUME Types, NEW t \in Requests,
           Run(t) \/ \E v \in Versions, a \in Accounts : Override(t, v, a)
    PROVE  Types'
<1> USE ScannerTask, TaskType, IdleType DEF history
<1>1. CASE Run(t)
  <2>1. PICK s \in Servers : Go(t, [Idle EXCEPT !.pc = "package", !.server = s,
                                    !.cfg = runtime, !.packs = Active(runtime)])
    BY <1>1 DEF Run
  <2>2. Active(runtime) \in SUBSET Versions /\ runtime \in Config
    BY DEF Types, Config, Active
  <2>3. [Idle EXCEPT !.pc = "package", !.server = s, !.cfg = runtime,
                     !.packs = Active(runtime)] \in TaskState
    BY <2>2 DEF TaskState, Granting
  <2>4. task' \in [Tasks -> TaskState]  BY <2>1, <2>3, GoType
  <2> QED  BY <1>1, <2>4 DEF Run, Types
<1>2. CASE \E v \in Versions, a \in Accounts : Override(t, v, a)
  <2>1. PICK v \in Versions, a \in Accounts : Override(t, v, a)  BY <1>2
  <2>2. PICK s \in Servers : Go(t, [Idle EXCEPT !.pc = "give", !.server = s, !.version = v,
                                    !.account = a, !.forced = TRUE])
    BY <2>1 DEF Override
  <2>3. [Idle EXCEPT !.pc = "give", !.server = s, !.version = v,
                     !.account = a, !.forced = TRUE] \in TaskState
    BY DEF TaskState, Granting
  <2>4. task' \in [Tasks -> TaskState]  BY <2>2, <2>3, GoType
  <2>5. left' \in [faults : Nat, acts : Nat]  BY <2>1, ActType DEF Override
  <2> QED  BY <2>1, <2>4, <2>5 DEF Override, Types
<1> QED  BY <1>1, <1>2

LEMMA ReleaseType ==
    ASSUME Types, NEW k \in Keys, ReleasePackage(k) \/ ReleaseMessage(k) PROVE Types'
<1>1. left' \in [faults : Nat, acts : Nat]  BY ActType DEF ReleasePackage, ReleaseMessage
<1>2. "none" \in Status  BY DEF Status
<1>3. CASE ReleasePackage(k)
  <2>1. [ledger.released EXCEPT ![k] = @ + 1] \in Counts  BY CountType DEF Types
  <2>2. ledger' \in [released : Counts, lost : Counts, forced : Counts,
                     releasedMsg : Counts, lostMsg : Counts]
    BY <1>3, <2>1 DEF ReleasePackage, Types
  <2> QED  BY <1>1, <1>2, <1>3, <2>2 DEF ReleasePackage, Types
<1>4. CASE ReleaseMessage(k)
  <2>1. [ledger.releasedMsg EXCEPT ![k] = @ + 1] \in Counts  BY CountType DEF Types
  <2>2. ledger' \in [released : Counts, lost : Counts, forced : Counts,
                     releasedMsg : Counts, lostMsg : Counts]
    BY <1>4, <2>1 DEF ReleaseMessage, Types
  <2> QED  BY <1>1, <1>2, <1>4, <2>2 DEF ReleaseMessage, Types
<1> QED  BY <1>3, <1>4

LEMMA SaveType ==
    ASSUME Types, NEW t \in Tasks,
           ConfigStep(t) \/ SaveFails(t) \/ LoadFails(t)
    PROVE  Types'
<1> USE TaskType, IdleType DEF history
<1>0. stored \in Config /\ runtime \in Config  BY DEF Types
<1>1. CASE PutRow(t)
  <2>1. [task[t] EXCEPT !.pc = "clear"] \in TaskState  BY DEF TaskState, Configuring
  <2>2. task' \in [Tasks -> TaskState]  BY <1>1, <2>1, GoType DEF PutRow
  <2>3. stored' \in Config  BY <1>0, <1>1 DEF PutRow, Config
  <2> QED  BY <1>1, <2>2, <2>3 DEF PutRow, Types
<1>2. CASE Clear(t)
  <2>1. [task[t] EXCEPT !.pc = "insert"] \in TaskState  BY DEF TaskState, Configuring
  <2>2. task' \in [Tasks -> TaskState]  BY <1>2, <2>1, GoType DEF Clear
  <2>3. stored' \in Config  BY <1>0, <1>2 DEF Clear, Config
  <2> QED  BY <1>2, <2>2, <2>3 DEF Clear, Types
<1>3. CASE Insert(t)
  <2>1. PICK v \in task[t].cfg.library \ stored.library :
          stored' = [stored EXCEPT !.library = @ \cup {v}]
    BY <1>3 DEF Insert
  <2>2. v \in Versions  BY DEF Config
  <2>3. stored' \in Config  BY <1>0, <2>1, <2>2 DEF Config
  <2> QED  BY <1>3, <2>3 DEF Insert, Types
<1>4. CASE Activate(t)
  <2>1. [task[t] EXCEPT !.pc = "apply"] \in TaskState  BY DEF TaskState, Configuring
  <2>2. task' \in [Tasks -> TaskState]  BY <1>4, <2>1, GoType DEF Activate
  <2>3. stored' \in Config  BY <1>0, <1>4 DEF Activate, Config
  <2> QED  BY <1>4, <2>2, <2>3 DEF Activate, Types
<1>5. CASE Apply(t)
  <2>1. task' \in [Tasks -> TaskState]  BY <1>5, GoType DEF Apply
  <2> QED  BY <1>5, <2>1 DEF Apply, Types
<1>6. CASE GetTables(t)
  <2> DEFINE c == [task[t].cfg EXCEPT !.library = stored.library, !.active = stored.active]
  <2>1. c \in Config  BY <1>0 DEF Config
  <2>2. Built(c) \in Config  BY <2>1, BuiltType
  <2> HIDE DEF c
  <2>3. [task[t] EXCEPT !.pc = "apply", !.cfg = Built(c)] \in TaskState
    BY <2>2 DEF TaskState, Configuring
  <2>4. task' \in [Tasks -> TaskState]  BY <1>6, <2>3, GoType DEF GetTables, c
  <2> QED  BY <1>6, <2>4 DEF GetTables, Types
<1>7. CASE SaveFails(t)
  <2>1. task' \in [Tasks -> TaskState]  BY <1>7, GoType DEF SaveFails
  <2>2. left' \in [faults : Nat, acts : Nat]  BY <1>7, FaultType DEF SaveFails
  <2> QED  BY <1>7, <2>1, <2>2 DEF SaveFails, Types
<1>8. CASE LoadFails(t)
  <2>1. task' \in [Tasks -> TaskState]  BY <1>8, GoType DEF LoadFails
  <2>2. left' \in [faults : Nat, acts : Nat]  BY <1>8, FaultType DEF LoadFails
  <2> QED  BY <1>8, <2>1, <2>2 DEF LoadFails, Types
<1> QED  BY <1>1, <1>2, <1>3, <1>4, <1>5, <1>6, <1>7, <1>8 DEF ConfigStep

LEMMA ConfigureType ==
    ASSUME Types, NEW t \in Requests, Get(t) \/ \E c \in Bodies : Put(t, c)
    PROVE  Types'
<1> USE ScannerTask, TaskType, IdleType DEF history
<1>1. CASE Get(t)
  <2>1. [stored EXCEPT !.library = {}, !.active = {}] \in Config  BY DEF Types, Config
  <2>2. [Idle EXCEPT !.pc = "getTables",
                     !.cfg = [stored EXCEPT !.library = {}, !.active = {}]] \in TaskState
    BY <2>1 DEF TaskState, Configuring
  <2>3. task' \in [Tasks -> TaskState]  BY <1>1, <2>2, GoType DEF Get
  <2> QED  BY <1>1, <2>3 DEF Get, Types
<1>2. CASE \E c \in Bodies : Put(t, c)
  <2>1. PICK c \in Bodies : Put(t, c)  BY <1>2
  <2>2. Built(c) \in Config  BY BuiltType DEF Bodies
  <2>3. [Idle EXCEPT !.pc = "putRow", !.cfg = Built(c)] \in TaskState
    BY <2>2 DEF TaskState, Configuring
  <2>4. task' \in [Tasks -> TaskState]  BY <2>1, <2>3, GoType DEF Put
  <2>5. left' \in [faults : Nat, acts : Nat]  BY <2>1, ActType DEF Put
  <2> QED  BY <2>1, <2>4, <2>5 DEF Put, Types
<1> QED  BY <1>1, <1>2

LEMMA CrashType == ASSUME Types, Crash PROVE Types'
<1>1. task' \in [Tasks -> TaskState]  BY IdleType DEF Crash
<1>2. runtime' \in Config  BY BuiltType DEF Crash, Types
<1>3. tracker' \in Tracker  BY DEF Crash, Unseeded, Tracker
<1>4. left' \in [faults : Nat, acts : Nat]  BY FaultType DEF Crash
<1>5. \A f \in Counts : \A ks : Plus(f, ks) \in Counts
  <2>1. TAKE f \in Counts
  <2> TAKE ks
  <2>2. \A k \in Keys : f[k] + (IF k \in ks THEN 1 ELSE 0) \in Nat  BY DEF Counts
  <2> QED  BY <2>2 DEF Plus, Counts
<1>6. ledger' \in [released : Counts, lost : Counts, forced : Counts,
                   releasedMsg : Counts, lostMsg : Counts]
  BY <1>5 DEF Crash, Types
<1> QED  BY <1>1, <1>2, <1>3, <1>4, <1>6 DEF Crash, Types

LEMMA StepTypes == Types /\ [Next]_vars => Types'
<1> SUFFICES ASSUME Types, [Next]_vars PROVE Types'  OBVIOUS
<1> USE ScannerTask
<1>1. CASE GameStep  BY <1>1, GameType
<1>2. ASSUME NEW t \in Tasks, ScanStep(t)  PROVE Types'
  BY <1>2, ListType, PackageType, AccountType, GiveType, RecordType, TellType DEF ScanStep
<1>3. CASE ScannerStep  BY <1>2, <1>3, ScannerType DEF ScannerStep
<1>4. CASE \E t \in Requests : RequestStep(t)
  BY <1>2, <1>4, SaveType DEF RequestStep
<1>5. CASE \E t \in Tasks : FaultStep(t)
  BY <1>5, ListType, AccountType, RecordType, TellType, SaveType DEF FaultStep
<1>6. CASE OperatorStep
  BY <1>6, RequestType, ConfigureType, ReleaseType DEF OperatorStep
<1>7. CASE Crash  BY <1>7, CrashType
<1>8. CASE UNCHANGED vars  BY <1>8 DEF vars, Types
<1> QED  BY <1>1, <1>3, <1>4, <1>5, <1>6, <1>7, <1>8 DEF Next

\* Every variable keeps its type, whatever requests, faults and crashes do.
THEOREM TypeCorrect == Spec => []Types
<1>1. Init => Types  BY InitTypes
<1>2. Types /\ [Next]_vars => Types'  BY StepTypes
<1> QED  BY <1>1, <1>2, PTL DEF Spec

-----------------------------------------------------------------------------
(* Who grants what                                                         *)

\* The granting tasks take turns, and what an operator runs by hand is for the
\* server whose store the requests write to.
TakesTurns == "grants" \notin Overlap
OneScope == "run" \in Kinds => Servers = {Default}

RowOf(t, r) == <<IF t = Scanner THEN r.server ELSE Default, r.version, r.account>>

\* A task that is about to give, or has given, of its own account does so for a
\* key without a row, and the row it will write is the receiver's.
Justified(t, r) ==
    /\ r.pc \in {"give", "record"} /\ ~r.forced => packages[RowOf(t, r)] = "none"
    /\ r.pc = "told" => t = Scanner /\ messages[RowOf(t, r)] = "none"
    /\ r.pc \in Granting /\ ~r.forced /\ t # Scanner => r.server = Default

GrantInv ==
    /\ \A t, u \in Tasks : task[t].pc \in Granting /\ task[u].pc \in Granting => t = u
    /\ \A t \in Tasks : Justified(t, task[t])

LEMMA InitGrants == Init => GrantInv
<1>1. Idle.pc = "idle"  BY DEF Idle
<1> QED  BY <1>1 DEF Init, GrantInv, Justified, Granting


\* A step of one task leaves the others alone.
LEMMA OneTask ==
    ASSUME Types, NEW t \in Tasks, NEW r, Go(t, r)
    PROVE  task'[t] = r /\ \A u \in Tasks \ {t} : task'[u] = task[u]
BY DEF Types, Go

\* A task goes on, and no row is written.
LEMMA MoveKeeps ==
    ASSUME Types, GrantInv, NEW t \in Tasks,
           \A u \in Tasks \ {t} : task'[u] = task[u],
           UNCHANGED <<packages, messages>>,
           task'[t].pc \in Granting => task[t].pc \in Granting \/ (TakesTurns /\ Apart(t)),
           Justified(t, task'[t])
    PROVE  GrantInv'
<1>1. \A u \in Tasks \ {t} : task'[t].pc \in Granting => task[u].pc \notin Granting
  BY DEF GrantInv, Apart, TakesTurns
<1>2. \A u \in Tasks : Justified(u, task[u])'
  BY DEF GrantInv, Justified, RowOf
<1>3. \A u, v \in Tasks : task'[u].pc \in Granting /\ task'[v].pc \in Granting => u = v
  BY <1>1 DEF GrantInv
<1> QED  BY <1>2, <1>3 DEF GrantInv

\* The steps of a scan that neither give nor record.
LEMMA ScanGrants ==
    ASSUME Types, GrantInv, NEW t \in Tasks,
           List(t) \/ ListFails(t) \/ NextPackage(t) \/ LastPackage(t)
             \/ NextAccount(t) \/ LastAccount(t) \/ CheckFails(t)
    PROVE  GrantInv'
<1> DEFINE k == task[t]
<1> USE TaskType, IdleType
<1>1. k \in TaskState /\ Justified(t, k)  BY DEF GrantInv
<1>2. PICK r : /\ Go(t, r) /\ UNCHANGED <<packages, messages>> /\ k.pc \in Granting
               /\ Justified(t, r)
  <2>1. CASE List(t)
    <3> DEFINE s == IF t = Scanner THEN task[t].server ELSE Default
               r == [task[t] EXCEPT !.seen = online[s], !.accounts = Eligible(online[s]),
                                    !.pc = IF t = Scanner THEN "package" ELSE "account"]
    <3>1. /\ r.pc \in {"package", "account"} /\ r.server = k.server /\ r.forced = k.forced
      BY <1>1 DEF TaskState
    <3> QED  BY <1>1, <2>1, <3>1 DEF List, Justified, Granting
  <2>2. CASE ListFails(t)
    <3>1. NextServer(task[t]).pc = "tick" /\ Idle.pc = "idle"
      BY DEF NextServer, Idle
    <3> QED  BY <2>2, <3>1 DEF ListFails, Justified, Granting
  <2>3. CASE NextPackage(t)
    <3> DEFINE q(v) == [task[t] EXCEPT !.packs = @ \ {v}, !.version = v]
               r(v) == IF v \in Broken THEN IF t = Scanner THEN q(v) ELSE Idle
                       ELSE IF t = Scanner
                            THEN [q(v) EXCEPT !.accounts = Eligible(q(v).seen), !.pc = "account"]
                            ELSE [q(v) EXCEPT !.pc = "list"]
    <3>1. PICK v \in task[t].packs : Go(t, r(v))  BY <2>3 DEF NextPackage
    <3>2. /\ q(v).pc = "package" /\ q(v).server = k.server /\ q(v).forced = k.forced
          /\ q(v) \in TaskState
      BY <1>1, <2>3 DEF TaskState, NextPackage
    <3> HIDE DEF q
    <3>3. \/ r(v).pc = "idle"
          \/ /\ r(v).pc \in {"package", "account", "list"} /\ r(v).server = k.server
             /\ r(v).forced = k.forced
      BY <3>2 DEF TaskState, Idle
    <3>4. Justified(t, r(v))  BY <1>1, <2>3, <3>3 DEF Justified, Granting, NextPackage
    <3> QED  BY <2>3, <3>1, <3>4 DEF NextPackage, Granting
  <2>4. CASE LastPackage(t)
    <3> DEFINE r == IF t # Scanner THEN Idle
                    ELSE IF task[t].cfg.presence THEN [task[t] EXCEPT !.pc = "notice"]
                         ELSE NextServer(task[t])
    <3>1. r.pc \in {"idle", "notice", "tick"}  BY <1>1 DEF TaskState, Idle, NextServer
    <3>2. Justified(t, r)  BY <3>1 DEF Justified, Granting
    <3> QED  BY <2>4, <3>2 DEF LastPackage, Granting
  <2>5. CASE NextAccount(t)
    <3> DEFINE row(a) == packages[<<Scope(t), task[t].version, a>>]
               r(a) == [task[t] EXCEPT !.account = a, !.accounts = @ \ {a},
                          !.pc = IF Exists(row(a)) THEN "tell" ELSE "give"]
    <3>1. PICK a \in task[t].accounts : Go(t, r(a))  BY <2>5 DEF NextAccount
    <3>2. /\ r(a).pc = IF Exists(row(a)) THEN "tell" ELSE "give"
          /\ r(a).account = a /\ r(a).version = k.version
          /\ r(a).server = k.server /\ r(a).forced = k.forced
      BY <1>1 DEF TaskState
    <3>3. RowOf(t, r(a)) = <<Scope(t), task[t].version, a>>  BY <3>2 DEF RowOf, Scope
    <3>4. r(a).pc = "give" => packages[RowOf(t, r(a))] = "none"  BY <3>2, <3>3 DEF Exists
    <3>5. UNCHANGED <<packages, messages>> /\ k.pc \in Granting
      BY <2>5 DEF NextAccount, Granting
    <3> HIDE DEF r, row
    <3>6. Justified(t, r(a))  BY <1>1, <3>2, <3>4, <3>5 DEF Justified, Granting
    <3> QED  BY <3>1, <3>5, <3>6
  <2>6. CASE LastAccount(t)
    <3> DEFINE r == [task[t] EXCEPT !.pc = "package", !.version = Idle.version]
    <3>1. r.pc = "package" /\ r.server = k.server /\ r.forced = k.forced
      BY <1>1 DEF TaskState
    <3>2. Justified(t, r)  BY <1>1, <2>6, <3>1 DEF Justified, Granting, LastAccount
    <3> QED  BY <2>6, <3>2 DEF LastAccount, Granting
  <2>7. CASE CheckFails(t)
    <3> DEFINE q == [task[t] EXCEPT !.pc = "package", !.accounts = {},
                                    !.version = Idle.version, !.account = Idle.account]
               r == IF t = Scanner THEN q ELSE Idle
    <3>1. q.pc = "package"  BY <1>1 DEF TaskState
    <3>2. Idle.pc = "idle"  BY DEF Idle
    <3> HIDE DEF q
    <3>3. Justified(t, r)  BY <3>1, <3>2 DEF Justified, Granting
    <3> QED  BY <2>7, <3>3 DEF CheckFails, Granting, q
  <2> QED  BY <2>1, <2>2, <2>3, <2>4, <2>5, <2>6, <2>7
<1> QED  BY <1>1, <1>2, OneTask, MoveKeeps

LEMMA Resting ==
    ASSUME NEW t, NEW r, r.pc \notin Granting
    PROVE  Justified(t, r)
BY DEF Justified, Granting

LEMMA GiveGrants ==
    ASSUME Types, GrantInv, NEW t \in Tasks, Give(t) \/ Tell(t) \/ TellNot(t)
    PROVE  GrantInv'
<1> DEFINE k == task[t]
<1> USE TaskType
<1>1. k \in TaskState /\ Justified(t, k)  BY DEF GrantInv
<1>2. PICK r : Go(t, r) /\ UNCHANGED <<packages, messages>> /\ k.pc \in Granting /\ Justified(t, r)
  <2>1. CASE Give(t)
    <3> DEFINE r(o) == [task[t] EXCEPT !.outcome = o, !.pc = "record"]
    <3>1. PICK o : Go(t, r(o))  BY <2>1 DEF Give
    <3>2. /\ r(o).pc = "record" /\ r(o).server = k.server /\ r(o).forced = k.forced
          /\ RowOf(t, r(o)) = RowOf(t, k)
      BY <1>1 DEF TaskState, RowOf
    <3>3. k.pc = "give" /\ UNCHANGED <<packages, messages>>  BY <2>1 DEF Give
    <3> HIDE DEF r
    <3>4. Justified(t, r(o))  BY <1>1, <3>2, <3>3 DEF Justified, Granting
    <3> QED  BY <3>1, <3>3, <3>4 DEF Granting
  <2>2. CASE Tell(t)
    <3> DEFINE r(o) == [task[t] EXCEPT !.outcome = o, !.pc = "told"]
    <3>1. PICK o : Go(t, r(o))  BY <2>2 DEF Tell
    <3>2. /\ r(o).pc = "told" /\ RowOf(t, r(o)) = Row(t)
      BY <1>1 DEF TaskState, RowOf, Row, Scope
    <3>3. /\ k.pc = "tell" /\ UNCHANGED <<packages, messages>> /\ t = Scanner
          /\ messages[Row(t)] = "none"
      BY <2>2 DEF Tell, Exists
    <3> HIDE DEF r
    <3>4. Justified(t, r(o))  BY <3>2, <3>3 DEF Justified
    <3> QED  BY <3>1, <3>3, <3>4 DEF Granting
  <2>3. CASE TellNot(t)
    <3>1. Between(t).pc = "account" /\ Between(t).server = k.server /\ Between(t).forced = k.forced
      BY <1>1 DEF TaskState, Between
    <3>2. k.pc = "tell" /\ UNCHANGED <<packages, messages>> /\ Go(t, Between(t))
      BY <2>3 DEF TellNot
    <3>3. Justified(t, Between(t))  BY <1>1, <3>1, <3>2 DEF Justified, Granting
    <3> QED  BY <3>2, <3>3 DEF Granting
  <2> QED  BY <2>1, <2>2, <2>3
<1> QED  BY <1>1, <1>2, OneTask, MoveKeeps

\* What a task records it does for the one key at hand; no other task grants.
LEMMA RecordGrants ==
    ASSUME Types, GrantInv, NEW t \in Tasks,
           Record(t) \/ RecordFails(t) \/ RecordTold(t) \/ RecordToldFails(t)
    PROVE  GrantInv'
<1> DEFINE k == task[t]
<1> USE TaskType
<1>1. k \in TaskState /\ Justified(t, k)  BY DEF GrantInv
<1>2. k.pc \in {"record", "told"} /\ k.pc \in Granting
  BY DEF Record, RecordFails, RecordTold, RecordToldFails, Granting
<1>3. PICK r : Go(t, r) /\ (r.pc \in Granting => r.pc \notin {"give", "record", "told"}
                                                  /\ r.server = k.server /\ r.forced = k.forced)
  <2>1. Between(t).pc = "account" /\ Between(t).server = k.server /\ Between(t).forced = k.forced
    BY <1>1 DEF TaskState, Between
  <2>2. \/ AfterRecord(t).pc = "idle"
        \/ /\ AfterRecord(t).pc = "tell" /\ AfterRecord(t).server = k.server
           /\ AfterRecord(t).forced = k.forced
    BY <1>1 DEF TaskState, AfterRecord, Idle
  <2>3. \/ Go(t, Between(t)) \/ Go(t, AfterRecord(t))
    BY DEF Record, RecordFails, RecordTold, RecordToldFails
  <2> QED  BY <2>1, <2>2, <2>3 DEF Granting
<1>4. task'[t] = r /\ \A u \in Tasks \ {t} : task'[u] = task[u]  BY <1>3, OneTask
<1>5. \A u \in Tasks \ {t} : task[u].pc \notin Granting  BY <1>2 DEF GrantInv
<1>6. \A u \in Tasks : Justified(u, task[u])'
  <2>1. TAKE u \in Tasks
  <2>2. CASE u = t
    <3>1. r.pc \in Granting /\ ~r.forced /\ t # Scanner => r.server = Default
      BY <1>1, <1>2, <1>3 DEF Justified
    <3> QED  BY <1>3, <1>4, <2>2, <3>1 DEF Justified, Granting
  <2>3. CASE u # t  BY <1>4, <1>5, <2>3 DEF Justified, Granting
  <2> QED  BY <2>2, <2>3
<1>7. \A u, v \in Tasks : task'[u].pc \in Granting /\ task'[v].pc \in Granting => u = v
  BY <1>4, <1>5
<1> QED  BY <1>6, <1>7 DEF GrantInv

LEMMA ScannerGrants ==
    ASSUME Types, GrantInv, TakesTurns,
           StartScan \/ EndScan \/ Notice \/ \E s \in Servers : Tick(s)
    PROVE  GrantInv'
<1> USE ScannerTask, TaskType, IdleType
<1>0. Idle.pc = "idle" /\ \A r : NextServer(r).pc = "tick"  BY DEF Idle, NextServer
<1>1. PICK r : /\ Go(Scanner, r) /\ UNCHANGED <<packages, messages>>
               /\ r.pc \notin {"give", "record", "told"}
               /\ r.pc \in Granting => Apart(Scanner)
  <2>1. CASE StartScan
    <3>1. [Idle EXCEPT !.pc = "tick", !.todo = Servers].pc = "tick"  BY DEF TaskState
    <3> QED  BY <2>1, <3>1 DEF StartScan, Granting
  <2>2. CASE EndScan  BY <1>0, <2>2 DEF EndScan, Granting
  <2>3. CASE Notice  BY <1>0, <2>3 DEF Notice, Granting
  <2>4. CASE \E s \in Servers : Tick(s)
    <3>1. PICK s \in Servers : Tick(s)  BY <2>4
    <3> DEFINE q == [task[Scanner] EXCEPT !.todo = @ \ {s}, !.server = s, !.cfg = runtime]
               packs == IF PackagesOn(runtime) THEN Active(runtime) ELSE {}
               l == [q EXCEPT !.pc = "list", !.packs = packs]
    <3>2. l.pc = "list"  BY DEF TaskState
    <3>3. Go(Scanner, l) \/ Go(Scanner, NextServer(q))  BY <3>1 DEF Tick
    <3>4. Apart(Scanner) /\ UNCHANGED <<packages, messages>>  BY <3>1 DEF Tick
    <3> HIDE DEF l, q
    <3> QED  BY <1>0, <3>2, <3>3, <3>4
  <2> QED  BY <2>1, <2>2, <2>3, <2>4
<1>2. Justified(Scanner, r)  BY <1>1 DEF Justified
<1> QED  BY <1>1, <1>2, OneTask, MoveKeeps

LEMMA RequestGrants ==
    ASSUME Types, GrantInv, TakesTurns, OneScope, NEW t \in Requests,
           Run(t) \/ \E v \in Versions, a \in Accounts : Override(t, v, a)
    PROVE  GrantInv'
<1> USE ScannerTask, IdleType
<1>1. PICK r : /\ Go(t, r) /\ UNCHANGED <<packages, messages>> /\ Apart(t) /\ Justified(t, r)
  <2>1. CASE Run(t)
    <3> DEFINE r(s) == [Idle EXCEPT !.pc = "package", !.server = s, !.cfg = runtime,
                                    !.packs = Active(runtime)]
    <3>1. PICK s \in Servers : Go(t, r(s))  BY <2>1 DEF Run
    <3>2. s = Default  BY <2>1 DEF Run, OneScope
    <3>3. r(s).pc = "package" /\ r(s).server = Default  BY <3>2 DEF TaskState
    <3>4. Apart(t) /\ UNCHANGED <<packages, messages>>  BY <2>1 DEF Run
    <3> HIDE DEF r
    <3>5. Justified(t, r(s))  BY <3>3 DEF Justified
    <3> QED  BY <3>1, <3>4, <3>5
  <2>2. CASE \E v \in Versions, a \in Accounts : Override(t, v, a)
    <3>1. PICK v \in Versions, a \in Accounts : Override(t, v, a)  BY <2>2
    <3> DEFINE r(s) == [Idle EXCEPT !.pc = "give", !.server = s, !.version = v,
                                    !.account = a, !.forced = TRUE]
    <3>2. PICK s \in Servers : Go(t, r(s))  BY <3>1 DEF Override
    <3>3. r(s).pc = "give" /\ r(s).forced  BY DEF TaskState
    <3>4. Apart(t) /\ UNCHANGED <<packages, messages>>  BY <3>1 DEF Override
    <3> HIDE DEF r
    <3>5. Justified(t, r(s))  BY <3>3 DEF Justified
    <3> QED  BY <3>2, <3>4, <3>5
  <2> QED  BY <2>1, <2>2
<1> QED  BY <1>1, OneTask, MoveKeeps

\* Who reads or writes the configuration grants nothing.
LEMMA ConfigGrants ==
    ASSUME Types, GrantInv, NEW t \in Tasks,
           \/ ConfigStep(t) \/ SaveFails(t) \/ LoadFails(t) \/ Get(t)
           \/ \E c \in Bodies : Put(t, c)
    PROVE  GrantInv'
<1> USE TaskType, IdleType
<1>0. task[t] \in TaskState /\ Idle \in TaskState  BY DEF Types
<1>1. CASE Insert(t)
  BY <1>1 DEF Insert, GrantInv, Justified, RowOf
<1>2. ASSUME ~Insert(t)
      PROVE /\ task'[t].pc \notin Granting /\ UNCHANGED <<packages, messages>>
            /\ \A u \in Tasks \ {t} : task'[u] = task[u]
  <2> USE <1>0 DEF Types, Go, TaskState, Granting
  <2>1. Idle.pc = "idle"  BY DEF Idle
  <2>2. CASE PutRow(t)  BY <2>2 DEF PutRow
  <2>3. CASE Clear(t)  BY <2>3 DEF Clear
  <2>4. CASE Activate(t)  BY <2>4 DEF Activate
  <2>5. CASE Apply(t)  BY <2>1, <2>5 DEF Apply
  <2>6. CASE GetTables(t)  BY <2>6 DEF GetTables
  <2>7. CASE SaveFails(t)  BY <2>1, <2>7 DEF SaveFails
  <2>8. CASE LoadFails(t)  BY <2>1, <2>8 DEF LoadFails
  <2>9. CASE Get(t)  BY <2>9 DEF Get
  <2>10. CASE \E c \in Bodies : Put(t, c)
    <3>1. PICK c \in Bodies : Put(t, c)  BY <2>10
    <3> DEFINE r == [Idle EXCEPT !.pc = "putRow", !.cfg = Built(c)]
    <3>2. r.pc = "putRow"  OBVIOUS
    <3>3. Go(t, r) /\ UNCHANGED <<packages, messages>>  BY <3>1 DEF Put
    <3> HIDE DEF r
    <3> QED  BY <3>2, <3>3
  <2> QED  BY <1>2, <2>2, <2>3, <2>4, <2>5, <2>6, <2>7, <2>8, <2>9, <2>10 DEF ConfigStep
<1>3. ASSUME ~Insert(t)  PROVE GrantInv'
  <2>1. Justified(t, task'[t])  BY <1>2, <1>3, Resting
  <2> QED  BY <1>2, <1>3, <2>1, MoveKeeps
<1> QED  BY <1>1, <1>3

LEMMA StepGrants == TakesTurns /\ OneScope /\ Types /\ GrantInv /\ [Next]_vars => GrantInv'
<1> SUFFICES ASSUME TakesTurns, OneScope, Types, GrantInv, [Next]_vars PROVE GrantInv'  OBVIOUS
<1> USE ScannerTask
<1>1. CASE GameStep \/ UNCHANGED vars
  <2>1. UNCHANGED <<task, packages, messages>>  BY <1>1 DEF GameStep, Login, Logout, vars
  <2> QED  BY <2>1 DEF GrantInv, Justified, RowOf
<1>2. ASSUME NEW t \in Tasks, ScanStep(t)  PROVE GrantInv'
  BY <1>2, ScanGrants, GiveGrants, RecordGrants DEF ScanStep
<1>3. CASE ScannerStep  BY <1>2, <1>3, ScannerGrants DEF ScannerStep
<1>4. CASE \E t \in Requests : RequestStep(t)
  BY <1>2, <1>4, ConfigGrants DEF RequestStep
<1>5. CASE \E t \in Tasks : FaultStep(t)
  BY <1>5, ScanGrants, RecordGrants, ConfigGrants DEF FaultStep
<1>6. CASE OperatorStep
  <2>1. ASSUME NEW k \in Keys, ReleasePackage(k) \/ ReleaseMessage(k)  PROVE GrantInv'
    <3>1. /\ task' = task
          /\ \A l \in Keys : /\ packages[l] = "none" => packages'[l] = "none"
                             /\ messages[l] = "none" => messages'[l] = "none"
      BY <2>1 DEF ReleasePackage, ReleaseMessage, Types
    <3>2. \A t \in Tasks : RowOf(t, task[t]) \in Keys
      BY TaskType DEF RowOf, Row, Scope
    <3> QED  BY <3>1, <3>2 DEF GrantInv, Justified, RowOf
  <2> QED  BY <1>6, <2>1, RequestGrants, ConfigGrants DEF OperatorStep
<1>7. CASE Crash
  <2>1. \A t \in Tasks : task'[t].pc = "idle"  BY <1>7 DEF Crash, Idle
  <2> QED  BY <2>1 DEF GrantInv, Justified, Granting
<1> QED  BY <1>1, <1>3, <1>4, <1>5, <1>6, <1>7 DEF Next

-----------------------------------------------------------------------------
(* The ledgers                                                             *)

rows == <<packages, messages, gifts, told, ledger>>
Pending == {"record", "told"}

\* A step that neither gives, nor tells, nor writes a row.
Quiet(t) == /\ UNCHANGED rows
            /\ \A u \in Tasks \ {t} : task'[u] = task[u]
            /\ task[t].pc \notin Pending /\ task'[t].pc \notin Pending

LEMMA QuietUnrecorded ==
    ASSUME NEW t \in Tasks, Quiet(t)
    PROVE  Unrecorded' = Unrecorded /\ UnrecordedMsg' = UnrecordedMsg
<1>1. \A u \in Tasks : \/ task'[u] = task[u]
                       \/ task[u].pc \notin Pending /\ task'[u].pc \notin Pending
  BY DEF Quiet
<1>2. \A u \in Tasks : /\ task[u].pc \in Pending <=> task'[u].pc \in Pending
                       /\ task[u].pc \in Pending => task'[u] = task[u]
  BY <1>1
<1>3. {u \in Tasks : task[u].pc = "record" /\ ~task[u].forced}'
        = {u \in Tasks : task[u].pc = "record" /\ ~task[u].forced}
  BY <1>2 DEF Pending
<1>4. {u \in Tasks : task[u].pc = "told"}' = {u \in Tasks : task[u].pc = "told"}
  BY <1>2 DEF Pending
<1>5. \A u \in Tasks : task[u].pc \in Pending => Receiver(u)' = Receiver(u)
  BY <1>2 DEF Receiver
<1> QED  BY <1>3, <1>4, <1>5 DEF Unrecorded, UnrecordedMsg, Pending

\* What is given and not recorded, while t is the one that grants.
LEMMA OnlyUnrecorded ==
    ASSUME GrantInv, NEW t \in Tasks, task[t].pc \in Granting
    PROVE  /\ Unrecorded = IF task[t].pc = "record" /\ ~task[t].forced THEN {Receiver(t)} ELSE {}
           /\ UnrecordedMsg = IF task[t].pc = "told" THEN {Receiver(t)} ELSE {}
<1>1. \A u \in Tasks : task[u].pc \in Granting => u = t  BY DEF GrantInv
<1> QED  BY <1>1 DEF Unrecorded, UnrecordedMsg, Granting

\* Of its own account a task writes the receiver's row.
LEMMA OwnRow ==
    ASSUME GrantInv, NEW t \in Tasks, task[t].pc \in Granting, ~task[t].forced
    PROVE  Row(t) = Receiver(t) /\ Row(t) = RowOf(t, task[t])
BY DEF GrantInv, Justified, Row, Receiver, RowOf, Scope

LEMMA QuietScan ==
    ASSUME Types, NEW t \in Tasks,
           List(t) \/ ListFails(t) \/ NextPackage(t) \/ LastPackage(t)
             \/ NextAccount(t) \/ LastAccount(t) \/ CheckFails(t) \/ TellNot(t)
    PROVE  Quiet(t)
<1> USE DEF history, rows, Quiet, Pending
<1>0. task[t] \in TaskState /\ Idle.pc = "idle" /\ NextServer(task[t]).pc = "tick"
  BY DEF Types, Idle, NextServer
<1> USE DEF Types, Go, TaskState
<1>1. CASE List(t)  BY <1>0, <1>1 DEF List
<1>2. CASE ListFails(t)  BY <1>0, <1>2 DEF ListFails
<1>3. CASE NextPackage(t)
  <2> DEFINE q(v) == [task[t] EXCEPT !.packs = @ \ {v}, !.version = v]
             r(v) == IF v \in Broken THEN IF t = Scanner THEN q(v) ELSE Idle
                     ELSE IF t = Scanner
                          THEN [q(v) EXCEPT !.accounts = Eligible(q(v).seen), !.pc = "account"]
                          ELSE [q(v) EXCEPT !.pc = "list"]
  <2>1. PICK v \in task[t].packs : Go(t, r(v))  BY <1>3 DEF NextPackage
  <2>2. q(v).pc = "package" /\ q(v) \in TaskState  BY <1>0, <1>3 DEF NextPackage
  <2> HIDE DEF q
  <2>3. r(v).pc \notin Pending  BY <1>0, <2>2
  <2> HIDE DEF r
  <2> QED  BY <1>3, <2>1, <2>3 DEF NextPackage
<1>4. CASE LastPackage(t)  BY <1>0, <1>4 DEF LastPackage
<1>5. CASE NextAccount(t)
  <2> DEFINE row(a) == packages[<<Scope(t), task[t].version, a>>]
             r(a) == [task[t] EXCEPT !.account = a, !.accounts = @ \ {a},
                        !.pc = IF Exists(row(a)) THEN "tell" ELSE "give"]
  <2>1. PICK a \in task[t].accounts : Go(t, r(a))  BY <1>5 DEF NextAccount
  <2>2. r(a).pc \in {"tell", "give"}  BY <1>0
  <2> HIDE DEF r
  <2> QED  BY <1>5, <2>1, <2>2 DEF NextAccount
<1>6. CASE LastAccount(t)  BY <1>0, <1>6 DEF LastAccount
<1>7. CASE CheckFails(t)  BY <1>0, <1>7 DEF CheckFails
<1>8. CASE TellNot(t)  BY <1>0, <1>8 DEF TellNot, Between
<1> QED  BY <1>1, <1>2, <1>3, <1>4, <1>5, <1>6, <1>7, <1>8

LEMMA QuietScanner ==
    ASSUME Types, StartScan \/ EndScan \/ Notice \/ \E s \in Servers : Tick(s)
    PROVE  Quiet(Scanner)
<1> USE ScannerTask DEF history, rows, Quiet, Pending
<1>0. /\ task[Scanner] \in TaskState /\ Idle \in TaskState /\ Idle.pc = "idle"
      /\ \A r : NextServer(r).pc = "tick"
  BY IdleType DEF Types, Idle, NextServer
<1> USE DEF Types, Go, TaskState
<1>1. CASE StartScan  BY <1>0, <1>1 DEF StartScan
<1>2. CASE EndScan  BY <1>0, <1>2 DEF EndScan
<1>3. CASE Notice  BY <1>0, <1>3 DEF Notice
<1>4. CASE \E s \in Servers : Tick(s)
  <2>1. PICK s \in Servers : Tick(s)  BY <1>4
  <2> DEFINE q == [task[Scanner] EXCEPT !.todo = @ \ {s}, !.server = s, !.cfg = runtime]
             packs == IF PackagesOn(runtime) THEN Active(runtime) ELSE {}
             l == [q EXCEPT !.pc = "list", !.packs = packs]
  <2>2. l.pc = "list"  BY <1>0
  <2>3. Go(Scanner, l) \/ Go(Scanner, NextServer(q))  BY <2>1 DEF Tick
  <2> HIDE DEF l, q
  <2> QED  BY <1>0, <2>1, <2>2, <2>3 DEF Tick
<1> QED  BY <1>1, <1>2, <1>3, <1>4

LEMMA QuietRequest ==
    ASSUME Types, NEW t \in Tasks,
           \/ Run(t) \/ Get(t) \/ ConfigStep(t) \/ SaveFails(t) \/ LoadFails(t)
           \/ \E c \in Bodies : Put(t, c)
           \/ \E v \in Versions, a \in Accounts : Override(t, v, a)
    PROVE  Quiet(t)
<1> USE DEF history, rows, Quiet, Pending
<1>0. task[t] \in TaskState /\ Idle \in TaskState /\ Idle.pc = "idle"
  BY IdleType DEF Types, Idle
<1> USE DEF Types, Go, TaskState
<1>1. CASE PutRow(t)  BY <1>0, <1>1 DEF PutRow
<1>2. CASE Clear(t)  BY <1>0, <1>2 DEF Clear
<1>3. CASE Insert(t)  BY <1>0, <1>3 DEF Insert
<1>4. CASE Activate(t)  BY <1>0, <1>4 DEF Activate
<1>5. CASE Apply(t)  BY <1>0, <1>5 DEF Apply
<1>6. CASE GetTables(t)  BY <1>0, <1>6 DEF GetTables
<1>7. CASE SaveFails(t)  BY <1>0, <1>7 DEF SaveFails
<1>8. CASE LoadFails(t)  BY <1>0, <1>8 DEF LoadFails
<1>9. CASE Get(t)  BY <1>0, <1>9 DEF Get
<1>10. CASE Run(t)
  <2> DEFINE r(s) == [Idle EXCEPT !.pc = "package", !.server = s, !.cfg = runtime,
                                  !.packs = Active(runtime)]
  <2>1. PICK s \in Servers : Go(t, r(s))  BY <1>10 DEF Run
  <2>2. r(s).pc = "package"  BY <1>0
  <2> HIDE DEF r
  <2> QED  BY <1>10, <2>1, <2>2 DEF Run
<1>11. CASE \E v \in Versions, a \in Accounts : Override(t, v, a)
  <2>1. PICK v \in Versions, a \in Accounts : Override(t, v, a)  BY <1>11
  <2> DEFINE r(s) == [Idle EXCEPT !.pc = "give", !.server = s, !.version = v,
                                  !.account = a, !.forced = TRUE]
  <2>2. PICK s \in Servers : Go(t, r(s))  BY <2>1 DEF Override
  <2>3. r(s).pc = "give"  BY <1>0
  <2> HIDE DEF r
  <2> QED  BY <2>1, <2>2, <2>3 DEF Override
<1>12. CASE \E c \in Bodies : Put(t, c)
  <2>1. PICK c \in Bodies : Put(t, c)  BY <1>12
  <2> DEFINE r == [Idle EXCEPT !.pc = "putRow", !.cfg = Built(c)]
  <2>2. r.pc = "putRow"  BY <1>0
  <2>3. Go(t, r) /\ UNCHANGED rows /\ task[t].pc = "idle"  BY <2>1 DEF Put
  <2> HIDE DEF r
  <2> QED  BY <2>2, <2>3
<1> QED  BY <1>1, <1>2, <1>3, <1>4, <1>5, <1>6, <1>7, <1>8, <1>9, <1>10, <1>11, <1>12
         DEF ConfigStep

\* The open keys of the two ledgers, as they are mapped.
OpenPackages == [k \in Keys |-> packages[k] = "none" /\ k \notin Unrecorded]
OpenMessages == [k \in Keys |-> messages[k] = "none" /\ k \notin UnrecordedMsg]

PackageState == <<OpenPackages, gifts, ledger.forced, ledger.released, ledger.lost>>
MessageState == <<OpenMessages, told, Zero, ledger.releasedMsg, ledger.lostMsg>>

PackageMove == PackageLedger!Next \/ UNCHANGED PackageState
MessageMove == MessageLedger!Next \/ UNCHANGED MessageState

LEMMA NothingMoves ==
    ASSUME UNCHANGED rows, Unrecorded' = Unrecorded, UnrecordedMsg' = UnrecordedMsg
    PROVE  PackageMove /\ MessageMove
BY DEF rows, PackageMove, MessageMove, PackageState, MessageState, OpenPackages, OpenMessages, Zero

LEMMA GiveMoves ==
    ASSUME Types, GrantInv, Types', GrantInv', NEW t \in Tasks, Give(t)
    PROVE  PackageMove /\ MessageMove
<1> USE TaskType
<1>0. PICK k \in Keys : k = Receiver(t)  OBVIOUS
<1> USE <1>0
<1>1. PICK o :
        LET n == IF o = "nothing" THEN 0 ELSE 1
        IN  /\ gifts' = [gifts EXCEPT ![k] = @ + n]
            /\ ledger' = IF task[t].forced THEN [ledger EXCEPT !.forced[k] = @ + n] ELSE ledger
            /\ Go(t, [task[t] EXCEPT !.outcome = o, !.pc = "record"])
  BY DEF Give
<1> DEFINE n == IF o = "nothing" THEN 0 ELSE 1
           r == [task[t] EXCEPT !.outcome = o, !.pc = "record"]
<1>2. /\ r.pc = "record" /\ r.server = task[t].server /\ r.version = task[t].version
      /\ r.account = task[t].account /\ r.forced = task[t].forced
  BY DEF TaskState
<1>3. task'[t] = r  BY <1>1, OneTask
<1>4. /\ task[t].pc = "give" /\ task'[t].pc = "record" /\ task'[t].forced = task[t].forced
      /\ Receiver(t)' = k
  BY <1>2, <1>3 DEF Give, Receiver
<1>5. /\ Unrecorded = {} /\ UnrecordedMsg = {} /\ UnrecordedMsg' = {}
      /\ Unrecorded' = IF task[t].forced THEN {} ELSE {k}
  <2>1. task[t].pc \in Granting /\ task'[t].pc \in Granting  BY <1>4 DEF Granting
  <2>2. Unrecorded = {} /\ UnrecordedMsg = {}  BY <1>4, <2>1, OnlyUnrecorded
  <2>3. /\ Unrecorded' = IF task'[t].pc = "record" /\ ~task'[t].forced THEN {Receiver(t)'} ELSE {}
        /\ UnrecordedMsg' = IF task'[t].pc = "told" THEN {Receiver(t)'} ELSE {}
    <3>1. \A u \in Tasks : task'[u].pc \in Granting => u = t  BY <2>1 DEF GrantInv
    <3> QED  BY <3>1 DEF Unrecorded, UnrecordedMsg, Granting
  <2> QED  BY <1>4, <2>2, <2>3
<1>6. UNCHANGED <<packages, messages, told>>  BY DEF Give
<1>7. MessageMove
  <2>1. ledger'.releasedMsg = ledger.releasedMsg /\ ledger'.lostMsg = ledger.lostMsg
    BY <1>1 DEF Types
  <2> QED  BY <1>5, <1>6, <2>1 DEF MessageMove, MessageState, OpenMessages, Zero
<1>8. CASE ~task[t].forced
  <2>1. packages[k] = "none"  BY <1>4, <1>8, OwnRow DEF GrantInv, Justified, Granting
  <2>2. OpenPackages[k]  BY <1>5, <2>1 DEF OpenPackages
  <2>3. OpenPackages' = [OpenPackages EXCEPT ![k] = FALSE]
    BY <1>5, <1>6, <1>8 DEF OpenPackages
  <2>4. ledger' = ledger /\ n \in {0, 1} /\ gifts' = [gifts EXCEPT ![k] = @ + n]
    BY <1>1, <1>8
  <2>5. PackageLedger!Serve(k)
    BY <2>2, <2>3, <2>4 DEF PackageLedger!Serve, OpenPackages
  <2>6. PackageLedger!Next  BY <1>0, <2>5 DEF PackageLedger!Next
  <2> QED  BY <1>7, <2>6 DEF PackageMove
<1>9. CASE task[t].forced
  <2>1. OpenPackages' = OpenPackages  BY <1>5, <1>6, <1>9 DEF OpenPackages
  <2>2. /\ n \in {0, 1} /\ gifts' = [gifts EXCEPT ![k] = @ + n]
        /\ ledger'.forced = [ledger.forced EXCEPT ![k] = @ + n]
        /\ ledger'.released = ledger.released /\ ledger'.lost = ledger.lost
    BY <1>1, <1>9 DEF Types
  <2>3. PackageLedger!ServeAnyway(k)  BY <2>1, <2>2 DEF PackageLedger!ServeAnyway, OpenPackages
  <2>4. PackageLedger!Next  BY <1>0, <2>3 DEF PackageLedger!Next
  <2> QED  BY <1>7, <2>4 DEF PackageMove
<1> QED  BY <1>8, <1>9

LEMMA TellMoves ==
    ASSUME Types, GrantInv, Types', GrantInv', NEW t \in Tasks, Tell(t)
    PROVE  PackageMove /\ MessageMove
<1>k. PICK k \in Keys : k = Receiver(t)  BY TaskType
<1> USE <1>k
<1>0. Row(t) = k /\ t = Scanner /\ task[t] \in TaskState
  BY TaskType DEF Tell, Row, Receiver, Scope
<1>1. PICK o :
        /\ told' = [told EXCEPT ![k] = IF o = "all" THEN @ + 1 ELSE @]
        /\ Go(t, [task[t] EXCEPT !.outcome = o, !.pc = "told"])
  BY DEF Tell
<1> DEFINE n == IF o = "all" THEN 1 ELSE 0
           r == [task[t] EXCEPT !.outcome = o, !.pc = "told"]
<1>2. /\ r.pc = "told" /\ r.server = task[t].server /\ r.version = task[t].version
      /\ r.account = task[t].account
  BY <1>0 DEF TaskState
<1>3. task'[t] = r  BY <1>1, OneTask
<1>4. task[t].pc = "tell" /\ task'[t].pc = "told" /\ Receiver(t)' = k
  BY <1>2, <1>3 DEF Tell, Receiver
<1>5. /\ Unrecorded = {} /\ Unrecorded' = {} /\ UnrecordedMsg = {} /\ UnrecordedMsg' = {k}
  <2>1. task[t].pc \in Granting /\ task'[t].pc \in Granting  BY <1>4 DEF Granting
  <2>2. Unrecorded = {} /\ UnrecordedMsg = {}  BY <1>4, <2>1, OnlyUnrecorded
  <2>3. \A u \in Tasks : task'[u].pc \in Granting => u = t  BY <2>1 DEF GrantInv
  <2> QED  BY <1>4, <2>2, <2>3 DEF Unrecorded, UnrecordedMsg, Granting
<1>6. UNCHANGED <<packages, messages, gifts, ledger>> /\ messages[k] = "none"
  BY <1>0 DEF Tell, Exists
<1>7. PackageMove
  BY <1>5, <1>6 DEF PackageMove, PackageState, OpenPackages
<1>8. MessageLedger!Serve(k)
  <2>1. OpenMessages[k]  BY <1>0, <1>5, <1>6 DEF OpenMessages
  <2>2. OpenMessages' = [OpenMessages EXCEPT ![k] = FALSE]
    BY <1>5, <1>6 DEF OpenMessages
  <2>3. n \in {0, 1} /\ told' = [told EXCEPT ![k] = @ + n]
    <3>1. told[k] \in Nat  BY <1>0 DEF Types, Counts
    <3>2. told[k] + n = IF o = "all" THEN told[k] + 1 ELSE told[k]  BY <3>1
    <3>3. n \in {0, 1}  OBVIOUS
    <3> HIDE DEF n
    <3> QED  BY <1>1, <3>2, <3>3
  <2> QED  BY <1>6, <2>1, <2>2, <2>3 DEF MessageLedger!Serve, OpenMessages, Zero
<1>9. MessageLedger!Next  BY <1>0, <1>8 DEF MessageLedger!Next
<1> QED  BY <1>7, <1>9 DEF MessageMove

LEMMA RecordMoves ==
    ASSUME Types, GrantInv, Types', GrantInv', NEW t \in Tasks, Record(t) \/ RecordFails(t)
    PROVE  PackageMove /\ MessageMove
<1>k. PICK k \in Keys : k = Row(t)  BY TaskType
<1> USE <1>k
<1>0. Receiver(t) \in Keys /\ task[t] \in TaskState  BY TaskType
<1>1. task[t].pc = "record" /\ Go(t, AfterRecord(t)) /\ UNCHANGED <<messages, gifts, told>>
  BY DEF Record, RecordFails, history
<1>2. AfterRecord(t).pc \notin Pending
  BY <1>0 DEF AfterRecord, Idle, TaskState, Pending
<1>3. /\ UnrecordedMsg = {} /\ UnrecordedMsg' = {} /\ Unrecorded' = {}
      /\ Unrecorded = IF task[t].forced THEN {} ELSE {Receiver(t)}
  <2>1. task[t].pc \in Granting  BY <1>1 DEF Granting
  <2>2. UnrecordedMsg = {} /\ Unrecorded = IF task[t].forced THEN {} ELSE {Receiver(t)}
    BY <1>1, <2>1, OnlyUnrecorded
  <2>3. \A u \in Tasks \ {t} : task'[u] = task[u] /\ task[u].pc \notin Granting
    BY <1>1, <2>1, OneTask DEF GrantInv
  <2>4. \A u \in Tasks : task'[u].pc \notin Pending
    BY <1>1, <1>2, <2>3, OneTask DEF Granting, Pending
  <2> QED  BY <2>2, <2>4 DEF Unrecorded, UnrecordedMsg, Pending
<1>4. ~task[t].forced => packages[k] = "none" /\ Receiver(t) = k
  BY <1>1, OwnRow DEF GrantInv, Justified, Granting
<1>5. ledger'.releasedMsg = ledger.releasedMsg /\ ledger'.lostMsg = ledger.lostMsg
  BY DEF Record, RecordFails, history, Types
<1>6. MessageMove
  BY <1>1, <1>3, <1>5 DEF MessageMove, MessageState, OpenMessages, Zero
<1>7. CASE Record(t)
  <2>1. ledger' = ledger /\ packages' = [packages EXCEPT ![k] = RowFor(task[t].outcome, @)]
    BY <1>7 DEF Record, history
  <2>2. packages'[k] # "none" /\ \A l \in Keys \ {k} : packages'[l] = packages[l]
    BY <1>0, <2>1 DEF Types, RowFor
  <2>3. OpenPackages' = [OpenPackages EXCEPT ![k] = FALSE]
    BY <1>0, <1>3, <1>4, <2>2 DEF OpenPackages
  <2>4. PackageLedger!Close(k)
    BY <1>1, <2>1, <2>3 DEF PackageLedger!Close, OpenPackages
  <2>5. PackageLedger!Next  BY <1>0, <2>4 DEF PackageLedger!Next
  <2> QED  BY <1>6, <2>5 DEF PackageMove
<1>8. CASE RecordFails(t) /\ ~task[t].forced
  <2>1. packages' = packages /\ ledger' = [ledger EXCEPT !.lost[k] = @ + 1]
    BY <1>4, <1>8 DEF RecordFails
  <2>2. /\ ledger'.lost = [ledger.lost EXCEPT ![k] = @ + 1]
        /\ ledger'.forced = ledger.forced /\ ledger'.released = ledger.released
    BY <2>1 DEF Types
  <2>3. ~OpenPackages[k] /\ OpenPackages' = [OpenPackages EXCEPT ![k] = TRUE]
    BY <1>0, <1>3, <1>4, <1>8, <2>1 DEF OpenPackages
  <2>4. PackageLedger!Lose(k)
    BY <1>1, <2>2, <2>3 DEF PackageLedger!Lose, OpenPackages
  <2>5. PackageLedger!Next  BY <1>0, <2>4 DEF PackageLedger!Next
  <2> QED  BY <1>6, <2>5 DEF PackageMove
<1>9. CASE RecordFails(t) /\ task[t].forced
  <2>1. packages' = packages /\ ledger' = ledger  BY <1>9 DEF RecordFails
  <2> QED  BY <1>1, <1>3, <1>6, <1>9, <2>1 DEF PackageMove, PackageState, OpenPackages
<1> QED  BY <1>7, <1>8, <1>9

LEMMA RecordToldMoves ==
    ASSUME Types, GrantInv, Types', GrantInv', NEW t \in Tasks,
           RecordTold(t) \/ RecordToldFails(t)
    PROVE  PackageMove /\ MessageMove
<1>k. PICK k \in Keys : k = Row(t)  BY TaskType
<1> USE <1>k
<1>0. task[t] \in TaskState  BY TaskType
<1>1. task[t].pc = "told" /\ Go(t, Between(t)) /\ UNCHANGED <<packages, gifts, told>>
  BY DEF RecordTold, RecordToldFails, history
<1>2. Between(t).pc \notin Pending
  BY <1>0 DEF Between, TaskState, Pending
<1>3. messages[k] = "none" /\ Receiver(t) = k
  BY <1>1 DEF GrantInv, Justified, RowOf, Row, Receiver, Scope
<1>4. Unrecorded = {} /\ Unrecorded' = {} /\ UnrecordedMsg = {k} /\ UnrecordedMsg' = {}
  <2>1. task[t].pc \in Granting  BY <1>1 DEF Granting
  <2>2. UnrecordedMsg = {k} /\ Unrecorded = {}
    BY <1>1, <1>3, <2>1, OnlyUnrecorded
  <2>3. \A u \in Tasks \ {t} : task'[u] = task[u] /\ task[u].pc \notin Granting
    BY <1>1, <2>1, OneTask DEF GrantInv
  <2>4. \A u \in Tasks : task'[u].pc \notin Pending
    BY <1>1, <1>2, <2>3, OneTask DEF Granting, Pending
  <2> QED  BY <2>2, <2>4 DEF Unrecorded, UnrecordedMsg, Pending
<1>5. /\ ledger'.forced = ledger.forced /\ ledger'.released = ledger.released
      /\ ledger'.lost = ledger.lost /\ ledger'.releasedMsg = ledger.releasedMsg
  BY DEF RecordTold, RecordToldFails, history, Types
<1>6. PackageMove
  BY <1>1, <1>4, <1>5 DEF PackageMove, PackageState, OpenPackages
<1>7. CASE RecordTold(t)
  <2>1. ledger' = ledger /\ messages' = [messages EXCEPT ![k] = RowFor(task[t].outcome, @)]
    BY <1>7 DEF RecordTold, history
  <2>2. messages'[k] # "none" /\ \A l \in Keys \ {k} : messages'[l] = messages[l]
    BY <1>0, <2>1 DEF Types, RowFor
  <2>3. OpenMessages' = OpenMessages
    BY <1>0, <1>4, <2>2 DEF OpenMessages
  <2> QED  BY <1>1, <1>6, <2>1, <2>3 DEF MessageMove, MessageState, Zero
<1>8. CASE RecordToldFails(t)
  <2>1. messages' = messages /\ ledger' = [ledger EXCEPT !.lostMsg[k] = @ + 1]
    BY <1>8 DEF RecordToldFails
  <2>2. ledger'.lostMsg = [ledger.lostMsg EXCEPT ![k] = @ + 1]  BY <2>1 DEF Types
  <2>3. ~OpenMessages[k] /\ OpenMessages' = [OpenMessages EXCEPT ![k] = TRUE]
    BY <1>0, <1>3, <1>4, <2>1 DEF OpenMessages
  <2>4. MessageLedger!Lose(k)
    BY <1>1, <1>5, <2>2, <2>3 DEF MessageLedger!Lose, OpenMessages, Zero
  <2>5. MessageLedger!Next  BY <1>0, <2>4 DEF MessageLedger!Next
  <2> QED  BY <1>6, <2>5 DEF MessageMove
<1> QED  BY <1>7, <1>8

LEMMA ReleaseMoves ==
    ASSUME Types, GrantInv, NEW k \in Keys, ReleasePackage(k) \/ ReleaseMessage(k)
    PROVE  PackageMove /\ MessageMove
<1>1. task' = task  BY DEF ReleasePackage, ReleaseMessage
<1>2. Unrecorded' = Unrecorded /\ UnrecordedMsg' = UnrecordedMsg
  BY <1>1 DEF Unrecorded, UnrecordedMsg, Receiver
<1>3. /\ \A l \in Unrecorded : packages[l] = "none"
      /\ \A l \in UnrecordedMsg : messages[l] = "none"
  <2>1. ASSUME NEW t \in Tasks, task[t].pc = "record", ~task[t].forced
        PROVE  packages[Receiver(t)] = "none"
    BY <2>1, OwnRow DEF GrantInv, Justified, Granting
  <2>2. ASSUME NEW t \in Tasks, task[t].pc = "told"
        PROVE  messages[Receiver(t)] = "none"
    BY <2>2 DEF GrantInv, Justified, Receiver, RowOf
  <2> QED  BY <2>1, <2>2 DEF Unrecorded, UnrecordedMsg
<1>4. CASE ReleasePackage(k)
  <2>1. /\ packages[k] # "none" /\ packages' = [packages EXCEPT ![k] = "none"]
        /\ UNCHANGED <<messages, gifts, told>>
        /\ ledger' = [ledger EXCEPT !.released[k] = @ + 1]
    BY <1>4 DEF ReleasePackage, Deletable, Retriable
  <2>2. /\ ledger'.released = [ledger.released EXCEPT ![k] = @ + 1]
        /\ ledger'.lost = ledger.lost /\ ledger'.forced = ledger.forced
        /\ ledger'.releasedMsg = ledger.releasedMsg /\ ledger'.lostMsg = ledger.lostMsg
    BY <2>1 DEF Types
  <2>3. ~OpenPackages[k] /\ OpenPackages' = [OpenPackages EXCEPT ![k] = TRUE]
    <3>1. packages'[k] = "none" /\ \A l \in Keys \ {k} : packages'[l] = packages[l]
      BY <2>1 DEF Types
    <3>2. k \notin Unrecorded  BY <1>3, <2>1
    <3> QED  BY <1>2, <2>1, <3>1, <3>2 DEF OpenPackages
  <2>4. PackageLedger!Release(k)
    BY <2>1, <2>2, <2>3 DEF PackageLedger!Release, OpenPackages
  <2>5. PackageLedger!Next  BY <2>4 DEF PackageLedger!Next
  <2>6. UNCHANGED MessageState
    BY <1>2, <2>1, <2>2 DEF MessageState, OpenMessages, Zero
  <2> QED  BY <2>5, <2>6 DEF PackageMove, MessageMove
<1>5. CASE ReleaseMessage(k)
  <2>1. /\ messages[k] # "none" /\ messages' = [messages EXCEPT ![k] = "none"]
        /\ UNCHANGED <<packages, gifts, told>>
        /\ ledger' = [ledger EXCEPT !.releasedMsg[k] = @ + 1]
    BY <1>5 DEF ReleaseMessage, Deletable, Retriable
  <2>2. /\ ledger'.releasedMsg = [ledger.releasedMsg EXCEPT ![k] = @ + 1]
        /\ ledger'.lost = ledger.lost /\ ledger'.forced = ledger.forced
        /\ ledger'.released = ledger.released /\ ledger'.lostMsg = ledger.lostMsg
    BY <2>1 DEF Types
  <2>3. ~OpenMessages[k] /\ OpenMessages' = [OpenMessages EXCEPT ![k] = TRUE]
    <3>1. messages'[k] = "none" /\ \A l \in Keys \ {k} : messages'[l] = messages[l]
      BY <2>1 DEF Types
    <3>2. k \notin UnrecordedMsg  BY <1>3, <2>1
    <3> QED  BY <1>2, <2>1, <3>1, <3>2 DEF OpenMessages
  <2>4. MessageLedger!Release(k)
    BY <2>1, <2>2, <2>3 DEF MessageLedger!Release, OpenMessages, Zero
  <2>5. MessageLedger!Next  BY <2>4 DEF MessageLedger!Next
  <2>6. UNCHANGED PackageState
    BY <1>2, <2>1, <2>2 DEF PackageState, OpenPackages
  <2> QED  BY <2>5, <2>6 DEF PackageMove, MessageMove
<1> QED  BY <1>4, <1>5

LEMMA PlusOne ==
    ASSUME NEW f \in Counts
    PROVE  Plus(f, {}) = f /\ \A k \in Keys : Plus(f, {k}) = [f EXCEPT ![k] = @ + 1]
<1>1. \A k \in Keys : f[k] + 0 = f[k]  BY DEF Counts
<1> QED  BY <1>1 DEF Plus, Counts

\* A stop loses at most the one record that was due.
LEMMA CrashMoves ==
    ASSUME Types, GrantInv, Crash
    PROVE  PackageMove /\ MessageMove
<1> DEFINE P == {k \in Unrecorded : packages[k] = "none"}
<1>1. /\ UNCHANGED <<packages, messages, gifts, told>> /\ task' = [t \in Tasks |-> Idle]
      /\ ledger' = [ledger EXCEPT !.lost = Plus(@, P), !.lostMsg = Plus(@, UnrecordedMsg)]
  BY DEF Crash
<1>2. /\ ledger'.lost = Plus(ledger.lost, P) /\ ledger'.lostMsg = Plus(ledger.lostMsg, UnrecordedMsg)
      /\ ledger'.forced = ledger.forced /\ ledger'.released = ledger.released
      /\ ledger'.releasedMsg = ledger.releasedMsg
      /\ ledger.lost \in Counts /\ ledger.lostMsg \in Counts
  BY <1>1 DEF Types
<1>3. Unrecorded' = {} /\ UnrecordedMsg' = {}
  BY <1>1 DEF Unrecorded, UnrecordedMsg, Idle
<1>4. CASE \A t \in Tasks : task[t].pc \notin Pending
  <2>1. Unrecorded = {} /\ UnrecordedMsg = {}
    BY <1>4 DEF Unrecorded, UnrecordedMsg, Pending
  <2>2. ledger'.lost = ledger.lost /\ ledger'.lostMsg = ledger.lostMsg
    BY <1>2, <2>1, PlusOne
  <2> QED  BY <1>1, <1>2, <1>3, <2>1, <2>2
           DEF PackageMove, MessageMove, PackageState, MessageState, OpenPackages,
               OpenMessages, Zero
<1>5. ASSUME NEW t \in Tasks, task[t].pc = "told"  PROVE PackageMove /\ MessageMove
  <2>1. PICK k \in Keys : k = Receiver(t)  BY TaskType
  <2>2. messages[k] = "none"
    BY <1>5, <2>1 DEF GrantInv, Justified, RowOf, Receiver
  <2>3. Unrecorded = {} /\ UnrecordedMsg = {k}
    BY <1>5, <2>1, OnlyUnrecorded DEF Granting
  <2>4. ledger'.lost = ledger.lost /\ ledger'.lostMsg = [ledger.lostMsg EXCEPT ![k] = @ + 1]
    BY <1>2, <2>3, PlusOne
  <2>5. ~OpenMessages[k] /\ OpenMessages' = [OpenMessages EXCEPT ![k] = TRUE]
    BY <1>1, <1>3, <2>2, <2>3 DEF OpenMessages
  <2>6. MessageLedger!Lose(k)
    BY <1>1, <1>2, <2>4, <2>5 DEF MessageLedger!Lose, OpenMessages, Zero
  <2>7. MessageLedger!Next  BY <2>6 DEF MessageLedger!Next
  <2>8. UNCHANGED PackageState
    BY <1>1, <1>2, <1>3, <2>3, <2>4 DEF PackageState, OpenPackages
  <2> QED  BY <2>7, <2>8 DEF PackageMove, MessageMove
<1>6. ASSUME NEW t \in Tasks, task[t].pc = "record", ~task[t].forced
      PROVE  PackageMove /\ MessageMove
  <2>1. PICK k \in Keys : k = Receiver(t)  BY TaskType
  <2>2. packages[k] = "none"
    BY <1>6, <2>1, OwnRow DEF GrantInv, Justified, Granting
  <2>3. Unrecorded = {k} /\ UnrecordedMsg = {}
    BY <1>6, <2>1, OnlyUnrecorded DEF Granting
  <2>4. ledger'.lostMsg = ledger.lostMsg /\ ledger'.lost = [ledger.lost EXCEPT ![k] = @ + 1]
    <3>1. P = {k}  BY <2>2, <2>3
    <3> QED  BY <1>2, <2>3, <3>1, PlusOne
  <2>5. ~OpenPackages[k] /\ OpenPackages' = [OpenPackages EXCEPT ![k] = TRUE]
    BY <1>1, <1>3, <2>2, <2>3 DEF OpenPackages
  <2>6. PackageLedger!Lose(k)
    BY <1>1, <1>2, <2>4, <2>5 DEF PackageLedger!Lose, OpenPackages
  <2>7. PackageLedger!Next  BY <2>6 DEF PackageLedger!Next
  <2>8. UNCHANGED MessageState
    BY <1>1, <1>2, <1>3, <2>3, <2>4 DEF MessageState, OpenMessages, Zero
  <2> QED  BY <2>7, <2>8 DEF PackageMove, MessageMove
<1>7. ASSUME NEW t \in Tasks, task[t].pc = "record", task[t].forced
      PROVE  PackageMove /\ MessageMove
  <2>1. Unrecorded = {} /\ UnrecordedMsg = {}
    BY <1>7, OnlyUnrecorded DEF Granting
  <2>2. ledger'.lost = ledger.lost /\ ledger'.lostMsg = ledger.lostMsg
    BY <1>2, <2>1, PlusOne
  <2> QED  BY <1>1, <1>2, <1>3, <2>1, <2>2
           DEF PackageMove, MessageMove, PackageState, MessageState, OpenPackages,
               OpenMessages, Zero
<1> QED  BY <1>4, <1>5, <1>6, <1>7 DEF Pending

\* Every step of the panel is a step of both ledgers, or none.
LEMMA StepMoves ==
    ASSUME Types, GrantInv, Types', GrantInv', [Next]_vars
    PROVE  PackageMove /\ MessageMove
<1> USE ScannerTask
<1>1. CASE GameStep \/ UNCHANGED vars
  <2>1. UNCHANGED rows /\ UNCHANGED task
    BY <1>1 DEF GameStep, Login, Logout, vars, rows
  <2>2. Unrecorded' = Unrecorded /\ UnrecordedMsg' = UnrecordedMsg
    BY <2>1 DEF Unrecorded, UnrecordedMsg, Receiver
  <2> QED  BY <2>1, <2>2, NothingMoves
<1>2. ASSUME NEW t \in Tasks, Quiet(t)  PROVE PackageMove /\ MessageMove
  <2>1. Unrecorded' = Unrecorded /\ UnrecordedMsg' = UnrecordedMsg
    BY <1>2, QuietUnrecorded
  <2>2. UNCHANGED rows  BY <1>2 DEF Quiet
  <2> QED  BY <2>1, <2>2, NothingMoves
<1>3. ASSUME NEW t \in Tasks, ScanStep(t) \/ FaultStep(t)  PROVE PackageMove /\ MessageMove
  <2>1. CASE Give(t)  BY <2>1, GiveMoves
  <2>2. CASE Tell(t)  BY <2>2, TellMoves
  <2>3. CASE Record(t) \/ RecordFails(t)  BY <2>3, RecordMoves
  <2>4. CASE RecordTold(t) \/ RecordToldFails(t)  BY <2>4, RecordToldMoves
  <2>5. CASE SaveFails(t) \/ LoadFails(t)  BY <1>2, <2>5, QuietRequest
  <2>6. CASE List(t) \/ ListFails(t) \/ NextPackage(t) \/ LastPackage(t)
             \/ NextAccount(t) \/ LastAccount(t) \/ CheckFails(t) \/ TellNot(t)
    BY <1>2, <2>6, QuietScan
  <2> QED  BY <1>3, <2>1, <2>2, <2>3, <2>4, <2>5, <2>6 DEF ScanStep, FaultStep
<1>4. CASE ScannerStep
  <2>1. CASE ScanStep(Scanner)  BY <1>3, <2>1
  <2>2. CASE StartScan \/ EndScan \/ Notice \/ \E s \in Servers : Tick(s)
    BY <1>2, <2>2, QuietScanner
  <2> QED  BY <1>4, <2>1, <2>2 DEF ScannerStep
<1>5. CASE \E t \in Requests : RequestStep(t)
  <2>1. PICK t \in Requests : RequestStep(t)  BY <1>5
  <2>2. CASE ScanStep(t)  BY <1>3, <2>2
  <2>3. CASE ConfigStep(t)  BY <1>2, <2>3, QuietRequest
  <2> QED  BY <2>1, <2>2, <2>3 DEF RequestStep
<1>6. CASE \E t \in Tasks : FaultStep(t)  BY <1>3, <1>6
<1>7. CASE OperatorStep
  <2>1. CASE \E k \in Keys : ReleasePackage(k) \/ ReleaseMessage(k)
    BY <2>1, ReleaseMoves
  <2>2. ASSUME NEW t \in Requests, 
               \/ Run(t) \/ Get(t) \/ \E c \in Bodies : Put(t, c)
               \/ \E v \in Versions, a \in Accounts : Override(t, v, a)
        PROVE  PackageMove /\ MessageMove
    BY <1>2, <2>2, QuietRequest
  <2> QED  BY <1>7, <2>1, <2>2 DEF OperatorStep
<1>8. CASE Crash  BY <1>8, CrashMoves
<1> QED  BY <1>1, <1>4, <1>5, <1>6, <1>7, <1>8 DEF Next

LEMMA InitLedgers == Init => PackageLedger!Init /\ MessageLedger!Init
<1> SUFFICES ASSUME Init PROVE PackageLedger!Init /\ MessageLedger!Init  OBVIOUS
<1>1. Unrecorded = {} /\ UnrecordedMsg = {}
  BY DEF Init, Idle, Unrecorded, UnrecordedMsg
<1>2. packages = [k \in Keys |-> "none"] /\ messages = [k \in Keys |-> "none"]  BY DEF Init
<1>3. [k \in Keys |-> packages[k] = "none" /\ k \notin Unrecorded] = [k \in Keys |-> TRUE]
  BY <1>1, <1>2
<1>4. [k \in Keys |-> messages[k] = "none" /\ k \notin UnrecordedMsg] = [k \in Keys |-> TRUE]
  BY <1>1, <1>2
<1> QED  BY <1>3, <1>4 DEF Init, PackageLedger!Init, MessageLedger!Init, Zero

\* welcome_grants implements the ledger of GrantLedger, for packages and for
\* their messages, as long as the granting tasks take turns and what is run by
\* hand is for the server the requests write to.
THEOREM GrantsAreKept == TakesTurns /\ OneScope => (Spec => GrantsKept)
<1> SUFFICES ASSUME TakesTurns, OneScope PROVE Spec => GrantsKept  OBVIOUS
<1> DEFINE Inv == Types /\ GrantInv
<1>1. Init => Inv  BY InitTypes, InitGrants
<1>2. Inv /\ [Next]_vars => Inv'  BY StepTypes, StepGrants
<1>3. Inv /\ Inv' /\ [Next]_vars
        => [PackageLedger!Next]_(PackageLedger!vars) /\ [MessageLedger!Next]_(MessageLedger!vars)
  BY StepMoves DEF PackageMove, MessageMove, PackageState, MessageState, OpenPackages,
                   OpenMessages, PackageLedger!vars, MessageLedger!vars
<1>4. Init => PackageLedger!Init /\ MessageLedger!Init  BY InitLedgers
<1> QED
  BY <1>1, <1>2, <1>3, <1>4, PTL DEF Spec, GrantsKept, PackageLedger!Spec, MessageLedger!Spec

\* A step changes the account of one key, and keeps it balanced.
LEMMA PackageStepOnce ==
    ASSUME Types, Types', PackageLedger!ServedOnce, PackageMove
    PROVE  PackageLedger!ServedOnce'
<1> DEFINE open == OpenPackages
           forced == ledger.forced
           released == ledger.released
           lost == ledger.lost
<1> SUFFICES ASSUME NEW j \in Keys
             PROVE  /\ gifts'[j] <= 1 + forced'[j] + released'[j] + lost'[j]
                    /\ open'[j] => gifts'[j] <= forced'[j] + released'[j] + lost'[j]
  BY DEF PackageLedger!ServedOnce, OpenPackages
<1>1. /\ open \in [Keys -> BOOLEAN] /\ open' \in [Keys -> BOOLEAN]
      /\ gifts \in Counts /\ forced \in Counts /\ released \in Counts /\ lost \in Counts
      /\ gifts' \in Counts
  BY DEF Types, OpenPackages
<1>2. /\ gifts[j] <= 1 + forced[j] + released[j] + lost[j]
      /\ open[j] => gifts[j] <= forced[j] + released[j] + lost[j]
  BY DEF PackageLedger!ServedOnce, OpenPackages
<1>3. CASE UNCHANGED PackageState  BY <1>2, <1>3 DEF PackageState
<1>4. CASE PackageLedger!Next
  <2>1. PICK k \in Keys : \/ PackageLedger!Serve(k) \/ PackageLedger!ServeAnyway(k)
                           \/ PackageLedger!Close(k) \/ PackageLedger!Release(k)
                           \/ PackageLedger!Lose(k)
    BY <1>4 DEF PackageLedger!Next
  <2>2. CASE PackageLedger!Serve(k)
    <3>1. PICK n \in {0, 1} : gifts' = [gifts EXCEPT ![k] = @ + n]
      BY <2>2 DEF PackageLedger!Serve
    <3>2. /\ open[k] /\ open' = [open EXCEPT ![k] = FALSE]
          /\ forced' = forced /\ released' = released /\ lost' = lost
      BY <2>2 DEF PackageLedger!Serve, OpenPackages
    <3> HIDE DEF open, forced, released, lost
    <3> QED  BY <1>1, <1>2, <3>1, <3>2 DEF Counts
  <2>3. CASE PackageLedger!ServeAnyway(k)
    <3>1. PICK n \in {0, 1} : /\ gifts' = [gifts EXCEPT ![k] = @ + n]
                              /\ forced' = [forced EXCEPT ![k] = @ + n]
      BY <2>3 DEF PackageLedger!ServeAnyway
    <3>2. open' = open /\ released' = released /\ lost' = lost
      BY <2>3 DEF PackageLedger!ServeAnyway, OpenPackages
    <3> HIDE DEF open, forced, released, lost
    <3> QED  BY <1>1, <1>2, <3>1, <3>2 DEF Counts
  <2>4. CASE PackageLedger!Close(k)
    <3>1. /\ open' = [open EXCEPT ![k] = FALSE]
          /\ gifts' = gifts /\ forced' = forced /\ released' = released /\ lost' = lost
      BY <2>4 DEF PackageLedger!Close, OpenPackages
    <3> HIDE DEF open, forced, released, lost
    <3> QED  BY <1>1, <1>2, <3>1 DEF Counts
  <2>5. CASE PackageLedger!Release(k)
    <3>1. /\ ~open[k] /\ open' = [open EXCEPT ![k] = TRUE]
          /\ released' = [released EXCEPT ![k] = @ + 1]
          /\ gifts' = gifts /\ forced' = forced /\ lost' = lost
      BY <2>5 DEF PackageLedger!Release, OpenPackages
    <3> HIDE DEF open, forced, released, lost
    <3> QED  BY <1>1, <1>2, <3>1 DEF Counts
  <2>6. CASE PackageLedger!Lose(k)
    <3>1. /\ ~open[k] /\ open' = [open EXCEPT ![k] = TRUE]
          /\ lost' = [lost EXCEPT ![k] = @ + 1]
          /\ gifts' = gifts /\ forced' = forced /\ released' = released
      BY <2>6 DEF PackageLedger!Lose, OpenPackages
    <3> HIDE DEF open, forced, released, lost
    <3> QED  BY <1>1, <1>2, <3>1 DEF Counts
  <2> QED  BY <2>1, <2>2, <2>3, <2>4, <2>5, <2>6
<1> QED  BY <1>3, <1>4 DEF PackageMove

\* A step changes the account of one key, and keeps it balanced.
LEMMA MessageStepOnce ==
    ASSUME Types, Types', MessageLedger!ServedOnce, MessageMove
    PROVE  MessageLedger!ServedOnce'
<1> DEFINE open == OpenMessages
           forced == Zero
           released == ledger.releasedMsg
           lost == ledger.lostMsg
<1> SUFFICES ASSUME NEW j \in Keys
             PROVE  /\ told'[j] <= 1 + forced'[j] + released'[j] + lost'[j]
                    /\ open'[j] => told'[j] <= forced'[j] + released'[j] + lost'[j]
  BY DEF MessageLedger!ServedOnce, OpenMessages
<1>1. /\ open \in [Keys -> BOOLEAN] /\ open' \in [Keys -> BOOLEAN]
      /\ told \in Counts /\ forced \in Counts /\ released \in Counts /\ lost \in Counts
      /\ told' \in Counts
  BY DEF Types, OpenMessages, Counts, Zero
<1>2. /\ told[j] <= 1 + forced[j] + released[j] + lost[j]
      /\ open[j] => told[j] <= forced[j] + released[j] + lost[j]
  BY DEF MessageLedger!ServedOnce, OpenMessages
<1>3. CASE UNCHANGED MessageState  BY <1>2, <1>3 DEF MessageState
<1>4. CASE MessageLedger!Next
  <2>1. PICK k \in Keys : \/ MessageLedger!Serve(k) \/ MessageLedger!ServeAnyway(k)
                           \/ MessageLedger!Close(k) \/ MessageLedger!Release(k)
                           \/ MessageLedger!Lose(k)
    BY <1>4 DEF MessageLedger!Next
  <2>2. CASE MessageLedger!Serve(k)
    <3>1. PICK n \in {0, 1} : told' = [told EXCEPT ![k] = @ + n]
      BY <2>2 DEF MessageLedger!Serve
    <3>2. /\ open[k] /\ open' = [open EXCEPT ![k] = FALSE]
          /\ forced' = forced /\ released' = released /\ lost' = lost
      BY <2>2 DEF MessageLedger!Serve, OpenMessages
    <3> HIDE DEF open, forced, released, lost
    <3> QED  BY <1>1, <1>2, <3>1, <3>2 DEF Counts
  <2>3. CASE MessageLedger!ServeAnyway(k)
    <3>1. PICK n \in {0, 1} : /\ told' = [told EXCEPT ![k] = @ + n]
                              /\ forced' = [forced EXCEPT ![k] = @ + n]
      BY <2>3 DEF MessageLedger!ServeAnyway
    <3>2. open' = open /\ released' = released /\ lost' = lost
      BY <2>3 DEF MessageLedger!ServeAnyway, OpenMessages
    <3> HIDE DEF open, forced, released, lost
    <3> QED  BY <1>1, <1>2, <3>1, <3>2 DEF Counts
  <2>4. CASE MessageLedger!Close(k)
    <3>1. /\ open' = [open EXCEPT ![k] = FALSE]
          /\ told' = told /\ forced' = forced /\ released' = released /\ lost' = lost
      BY <2>4 DEF MessageLedger!Close, OpenMessages
    <3> HIDE DEF open, forced, released, lost
    <3> QED  BY <1>1, <1>2, <3>1 DEF Counts
  <2>5. CASE MessageLedger!Release(k)
    <3>1. /\ ~open[k] /\ open' = [open EXCEPT ![k] = TRUE]
          /\ released' = [released EXCEPT ![k] = @ + 1]
          /\ told' = told /\ forced' = forced /\ lost' = lost
      BY <2>5 DEF MessageLedger!Release, OpenMessages
    <3> HIDE DEF open, forced, released, lost
    <3> QED  BY <1>1, <1>2, <3>1 DEF Counts
  <2>6. CASE MessageLedger!Lose(k)
    <3>1. /\ ~open[k] /\ open' = [open EXCEPT ![k] = TRUE]
          /\ lost' = [lost EXCEPT ![k] = @ + 1]
          /\ told' = told /\ forced' = forced /\ released' = released
      BY <2>6 DEF MessageLedger!Lose, OpenMessages
    <3> HIDE DEF open, forced, released, lost
    <3> QED  BY <1>1, <1>2, <3>1 DEF Counts
  <2> QED  BY <2>1, <2>2, <2>3, <2>4, <2>5, <2>6
<1> QED  BY <1>3, <1>4 DEF MessageMove

\* No package and no message reaches a player more often than once, plus what
\* operators forced or released and what was lost.
THEOREM GivenOnce ==
    TakesTurns /\ OneScope => (Spec => [](PackageLedger!ServedOnce /\ MessageLedger!ServedOnce))
<1> SUFFICES ASSUME TakesTurns, OneScope
             PROVE  Spec => [](PackageLedger!ServedOnce /\ MessageLedger!ServedOnce)
  OBVIOUS
<1> DEFINE Inv == /\ Types /\ GrantInv
                  /\ PackageLedger!ServedOnce /\ MessageLedger!ServedOnce
<1>1. Init => PackageLedger!ServedOnce /\ MessageLedger!ServedOnce
  BY InitLedgers DEF PackageLedger!Init, PackageLedger!ServedOnce, MessageLedger!Init,
                     MessageLedger!ServedOnce, Zero
<1>2. Init => Inv  BY <1>1, InitTypes, InitGrants
<1>3. Inv /\ [Next]_vars => Inv'
  <2> SUFFICES ASSUME Inv, [Next]_vars PROVE Inv'  OBVIOUS
  <2>1. Types' /\ GrantInv'  BY StepTypes, StepGrants
  <2>2. PackageMove /\ MessageMove  BY <2>1, StepMoves
  <2> QED  BY <2>1, <2>2, PackageStepOnce, MessageStepOnce
<1> QED  BY <1>2, <1>3, PTL DEF Spec

-----------------------------------------------------------------------------
(* The notices                                                             *)

\* With one server, every difference between two observations is owed to a
\* player who came or went: between the baseline and the game, the baseline and
\* the listing at hand, and that listing and the game.
Holds == {"package", "account", "give", "record", "tell", "told", "notice"}
OneServer == Servers = {Default}

NoticeInv ==
    LET here == online[Default]
        seen == task[Scanner].seen
        holds == task[Scanner].pc \in Holds
    IN  /\ tracker.seeded => /\ here \ tracker.seen \subseteq arrived
                             /\ tracker.seen \ here \subseteq departed
        /\ holds => here \ seen \subseteq arrived /\ seen \ here \subseteq departed
        /\ holds /\ tracker.seeded => /\ seen \ tracker.seen \subseteq arrived
                                      /\ tracker.seen \ seen \subseteq departed
        /\ misled = {}

LEMMA InitNotices == Init => NoticeInv
BY ScannerTask DEF Init, NoticeInv, Unseeded, Idle, Holds

\* A step that leaves players and notices alone and keeps or drops the listing.
LEMMA NoticeKeeps ==
    ASSUME NoticeInv, UNCHANGED <<online, tracker, arrived, departed, misled>>,
           task'[Scanner].pc \in Holds => /\ task[Scanner].pc \in Holds
                                          /\ task'[Scanner].seen = task[Scanner].seen
    PROVE  NoticeInv'
BY DEF NoticeInv

LEMMA ScannerHolds ==
    ASSUME Types, NEW t \in Tasks,
           \/ ListFails(t) \/ NextPackage(t) \/ LastPackage(t) \/ NextAccount(t)
           \/ LastAccount(t) \/ CheckFails(t) \/ Give(t) \/ Record(t) \/ RecordFails(t)
           \/ TellNot(t) \/ Tell(t) \/ RecordTold(t) \/ RecordToldFails(t)
    PROVE  /\ UNCHANGED <<online, tracker, arrived, departed, misled>>
           /\ task'[t].pc \in Holds => task[t].pc \in Holds /\ task'[t].seen = task[t].seen
           /\ \A u \in Tasks \ {t} : task'[u] = task[u]
<1>0. task[t] \in TaskState /\ Idle.pc = "idle" /\ NextServer(task[t]).pc = "tick"
  BY DEF Types, Idle, NextServer
<1> USE DEF history, Holds
<1>1. PICK r : /\ Go(t, r)
               /\ UNCHANGED <<online, tracker, arrived, departed, misled>>
               /\ r.pc \in Holds => task[t].pc \in Holds /\ r.seen = task[t].seen
  <2> USE <1>0 DEF TaskState
  <2>1. CASE ListFails(t)  BY <2>1 DEF ListFails
  <2>2. CASE NextPackage(t)
    <3> DEFINE q(v) == [task[t] EXCEPT !.packs = @ \ {v}, !.version = v]
               r(v) == IF v \in Broken THEN IF t = Scanner THEN q(v) ELSE Idle
                       ELSE IF t = Scanner
                            THEN [q(v) EXCEPT !.accounts = Eligible(q(v).seen), !.pc = "account"]
                            ELSE [q(v) EXCEPT !.pc = "list"]
    <3>1. PICK v \in task[t].packs : Go(t, r(v))  BY <2>2 DEF NextPackage
    <3>2. q(v).seen = task[t].seen /\ q(v) \in TaskState  BY <2>2 DEF NextPackage
    <3> HIDE DEF q
    <3>3. r(v).pc \in Holds => r(v).seen = task[t].seen  BY <3>2
    <3>4. task[t].pc \in Holds /\ UNCHANGED <<online, tracker, arrived, departed, misled>>
      BY <2>2 DEF NextPackage
    <3> HIDE DEF r
    <3> QED  BY <3>1, <3>3, <3>4
  <2>3. CASE LastPackage(t)  BY <2>3 DEF LastPackage
  <2>4. CASE NextAccount(t)
    <3> DEFINE row(a) == packages[<<Scope(t), task[t].version, a>>]
               r(a) == [task[t] EXCEPT !.account = a, !.accounts = @ \ {a},
                          !.pc = IF Exists(row(a)) THEN "tell" ELSE "give"]
    <3>1. PICK a \in task[t].accounts : Go(t, r(a))  BY <2>4 DEF NextAccount
    <3>2. r(a).seen = task[t].seen  OBVIOUS
    <3>3. task[t].pc \in Holds /\ UNCHANGED <<online, tracker, arrived, departed, misled>>
      BY <2>4 DEF NextAccount
    <3> HIDE DEF r
    <3> QED  BY <3>1, <3>2, <3>3
  <2>5. CASE LastAccount(t)
    <3> DEFINE r == [task[t] EXCEPT !.pc = "package", !.version = Idle.version]
    <3>1. r.seen = task[t].seen  OBVIOUS
    <3>2. /\ Go(t, r) /\ task[t].pc \in Holds
          /\ UNCHANGED <<online, tracker, arrived, departed, misled>>
      BY <2>5 DEF LastAccount
    <3> HIDE DEF r
    <3> QED  BY <3>1, <3>2
  <2>6. CASE CheckFails(t)
    <3> DEFINE q == [task[t] EXCEPT !.pc = "package", !.accounts = {},
                                    !.version = Idle.version, !.account = Idle.account]
    <3>1. q.seen = task[t].seen  OBVIOUS
    <3>2. /\ Go(t, IF t = Scanner THEN q ELSE Idle) /\ task[t].pc \in Holds
          /\ UNCHANGED <<online, tracker, arrived, departed, misled>>
      BY <2>6 DEF CheckFails
    <3> HIDE DEF q
    <3> QED  BY <3>1, <3>2
  <2>7. CASE Give(t)
    <3> DEFINE r(o) == [task[t] EXCEPT !.outcome = o, !.pc = "record"]
    <3>1. PICK o : Go(t, r(o))  BY <2>7 DEF Give
    <3>2. r(o).seen = task[t].seen  OBVIOUS
    <3>3. task[t].pc \in Holds /\ UNCHANGED <<online, tracker, arrived, departed, misled>>
      BY <2>7 DEF Give
    <3> HIDE DEF r
    <3> QED  BY <3>1, <3>2, <3>3
  <2>8. CASE Record(t) \/ RecordFails(t)
    <3>1. AfterRecord(t).pc \in Holds => AfterRecord(t).seen = task[t].seen
      BY DEF AfterRecord
    <3>2. /\ Go(t, AfterRecord(t)) /\ task[t].pc \in Holds
          /\ UNCHANGED <<online, tracker, arrived, departed, misled>>
      BY <2>8 DEF Record, RecordFails
    <3> QED  BY <3>1, <3>2
  <2>9. CASE Tell(t)
    <3> DEFINE r(o) == [task[t] EXCEPT !.outcome = o, !.pc = "told"]
    <3>1. PICK o : Go(t, r(o))  BY <2>9 DEF Tell
    <3>2. r(o).seen = task[t].seen  OBVIOUS
    <3>3. task[t].pc \in Holds /\ UNCHANGED <<online, tracker, arrived, departed, misled>>
      BY <2>9 DEF Tell
    <3> HIDE DEF r
    <3> QED  BY <3>1, <3>2, <3>3
  <2>10. CASE TellNot(t) \/ RecordTold(t) \/ RecordToldFails(t)
    <3>1. Between(t).seen = task[t].seen  BY DEF Between
    <3>2. /\ Go(t, Between(t)) /\ task[t].pc \in Holds
          /\ UNCHANGED <<online, tracker, arrived, departed, misled>>
      BY <2>10 DEF TellNot, RecordTold, RecordToldFails
    <3> QED  BY <3>1, <3>2
  <2> QED  BY <2>1, <2>2, <2>3, <2>4, <2>5, <2>6, <2>7, <2>8, <2>9, <2>10
<1> QED  BY <1>1, OneTask

LEMMA StepNotices == OneServer /\ Types /\ NoticeInv /\ [Next]_vars => NoticeInv'
<1> SUFFICES ASSUME OneServer, Types, NoticeInv, [Next]_vars PROVE NoticeInv'  OBVIOUS
<1> USE ScannerTask
<1> DEFINE k == task[Scanner]
<1>0. k \in TaskState /\ Idle \in TaskState /\ Idle.pc = "idle" /\ \A r : NextServer(r).pc = "tick"
  BY IdleType DEF Types, Idle, NextServer
<1>1. CASE GameStep
  <2>1. PICK s \in Servers, a \in Accounts : Login(s, a) \/ Logout(s, a)
    BY <1>1 DEF GameStep
  <2>2. s = Default  BY DEF OneServer
  <2>3. CASE Login(s, a)
    BY <2>2, <2>3 DEF Login, NoticeInv, Types
  <2>4. CASE Logout(s, a)
    BY <2>2, <2>4 DEF Logout, NoticeInv, Types
  <2> QED  BY <2>1, <2>3, <2>4
<1>2. ASSUME NEW t \in Tasks, ScanStep(t) \/ FaultStep(t)  PROVE NoticeInv'
  <2>1. CASE SaveFails(t) \/ LoadFails(t)
    <3>1. task'[t].pc = "idle" /\ \A u \in Tasks \ {t} : task'[u] = task[u]
      BY <1>0, <2>1, OneTask DEF SaveFails, LoadFails
    <3> QED  BY <2>1, <3>1, NoticeKeeps DEF SaveFails, LoadFails, history, Holds
  <2>2. CASE List(t)
    <3> DEFINE s == IF t = Scanner THEN task[t].server ELSE Default
               r == [task[t] EXCEPT !.seen = online[s], !.accounts = Eligible(online[s]),
                                    !.pc = IF t = Scanner THEN "package" ELSE "account"]
    <3>1. Go(t, r) /\ UNCHANGED <<online, tracker, arrived, departed, misled>>
      BY <2>2 DEF List, history
    <3>2. task'[t] = r /\ \A u \in Tasks \ {t} : task'[u] = task[u]  BY <3>1, OneTask
    <3>3. CASE t # Scanner  BY <3>1, <3>2, <3>3, NoticeKeeps
    <3>4. CASE t = Scanner
      <4>1. task[t].server = Default  BY <3>4, <1>0 DEF TaskState, OneServer
      <4>2. task'[Scanner].seen = online[Default]
        BY <1>0, <3>2, <3>4, <4>1 DEF TaskState
      <4> QED  BY <3>1, <4>2 DEF NoticeInv
    <3> QED  BY <3>3, <3>4
  <2>3. CASE ~List(t) /\ ~SaveFails(t) /\ ~LoadFails(t)
    <3>1. /\ UNCHANGED <<online, tracker, arrived, departed, misled>>
          /\ task'[t].pc \in Holds => task[t].pc \in Holds /\ task'[t].seen = task[t].seen
          /\ \A u \in Tasks \ {t} : task'[u] = task[u]
      BY <1>2, <2>3, ScannerHolds DEF ScanStep, FaultStep
    <3> QED  BY <3>1, NoticeKeeps
  <2> QED  BY <2>1, <2>2, <2>3
<1>3. CASE StartScan \/ EndScan
  <2>1. CASE StartScan
    <3> DEFINE r == [Idle EXCEPT !.pc = "tick", !.todo = Servers]
    <3>1. r.pc = "tick"  BY <1>0 DEF TaskState
    <3>2. Go(Scanner, r)  BY <2>1 DEF StartScan
    <3> HIDE DEF r
    <3>3. task'[Scanner].pc \notin Holds  BY <3>1, <3>2, OneTask DEF Holds
    <3> QED  BY <2>1, <3>3, NoticeKeeps DEF StartScan, history
  <2>2. CASE EndScan
    <3>1. task'[Scanner].pc \notin Holds  BY <1>0, <2>2, OneTask DEF EndScan, Holds
    <3> QED  BY <2>2, <3>1, NoticeKeeps DEF EndScan, history
  <2> QED  BY <1>3, <2>1, <2>2
<1>4. CASE \E s \in Servers : Tick(s)
  <2>1. PICK s \in Servers : Tick(s)  BY <1>4
  <2> DEFINE q == [k EXCEPT !.todo = @ \ {s}, !.server = s, !.cfg = runtime]
             packs == IF PackagesOn(runtime) THEN Active(runtime) ELSE {}
             l == [q EXCEPT !.pc = "list", !.packs = packs]
  <2>2. l.pc = "list"  BY <1>0
  <2>3. Go(Scanner, l) \/ Go(Scanner, NextServer(q))  BY <2>1 DEF Tick
  <2> HIDE DEF l, q
  <2>4. task'[Scanner].pc \notin Holds  BY <1>0, <2>2, <2>3, OneTask DEF Holds
  <2>5. UNCHANGED <<online, arrived, departed, misled>> /\ (tracker' = tracker \/ ~tracker'.seeded)
    BY <2>1 DEF Tick, history, Reset, Unseeded
  <2> QED  BY <2>4, <2>5 DEF NoticeInv
<1>5. CASE Notice
  <2> DEFINE joins == Joins(tracker, k.seen)
             leaves == Leaves(tracker, k.seen)
  <2>1. PICK g \in Greetings(joins), n \in Announcements(joins, leaves) :
          LET came == g \cup n.joined
          IN  /\ misled' = misled \cup (came \ arrived) \cup (n.left \ departed)
              /\ arrived' = arrived \ came
              /\ departed' = departed \ n.left
    BY <1>5 DEF Notice
  <2>2. g \subseteq joins /\ n.joined \subseteq joins /\ n.left \subseteq leaves
    BY DEF Greetings, Announcements, Some
  <2>3. /\ k.pc = "notice" /\ tracker' = [seeded |-> TRUE, seen |-> k.seen] /\ online' = online
        /\ Go(Scanner, NextServer(k))
    BY <1>5 DEF Notice
  <2>4. task'[Scanner].pc \notin Holds  BY <1>0, <2>3, OneTask DEF Holds
  <2>5. joins \subseteq arrived /\ leaves \subseteq departed
    BY <2>3 DEF NoticeInv, Joins, Leaves, Holds
  <2>6. joins \subseteq k.seen /\ leaves \cap k.seen = {}  BY DEF Joins, Leaves
  <2>7. misled' = {}  BY <2>1, <2>2, <2>5 DEF NoticeInv
  <2>8. /\ online[Default] \ k.seen \subseteq arrived'
        /\ k.seen \ online[Default] \subseteq departed'
    BY <2>1, <2>2, <2>3, <2>6 DEF NoticeInv, Holds
  <2> QED  BY <2>3, <2>4, <2>7, <2>8 DEF NoticeInv
<1>6. ASSUME NEW t \in Requests,
             \/ Run(t) \/ Get(t) \/ ConfigStep(t)
             \/ \E c \in Bodies : Put(t, c)
             \/ \E v \in Versions, a \in Accounts : Override(t, v, a)
      PROVE  NoticeInv'
  <2>1. task'[Scanner] = task[Scanner]  BY <1>6, QuietRequest DEF Quiet
  <2>2. UNCHANGED <<online, tracker, arrived, departed, misled>>
    <3>1. CASE ConfigStep(t)
      BY <3>1 DEF ConfigStep, PutRow, Clear, Insert, Activate, Apply, GetTables, history
    <3>2. CASE Run(t) \/ Get(t)  BY <3>2 DEF Run, Get, history
    <3>3. CASE \E c \in Bodies : Put(t, c)  BY <3>3 DEF Put, history
    <3>4. CASE \E v \in Versions, a \in Accounts : Override(t, v, a)
      BY <3>4 DEF Override, history
    <3> QED  BY <1>6, <3>1, <3>2, <3>3, <3>4
  <2> QED  BY <2>1, <2>2, NoticeKeeps
<1>7. CASE \E j \in Keys : ReleasePackage(j) \/ ReleaseMessage(j)
  <2>1. UNCHANGED <<online, tracker, arrived, departed, misled, task>>
    BY <1>7 DEF ReleasePackage, ReleaseMessage
  <2> QED  BY <2>1, NoticeKeeps
<1>8. CASE Crash
  BY <1>8 DEF Crash, NoticeInv, Unseeded, Idle, Holds
<1>9. CASE UNCHANGED vars  BY <1>9, NoticeKeeps DEF vars
<1>10. CASE ScannerStep  BY <1>2, <1>3, <1>4, <1>5, <1>10 DEF ScannerStep
<1>11. CASE \E t \in Requests : RequestStep(t)  BY <1>2, <1>6, <1>11 DEF RequestStep
<1>12. CASE OperatorStep  BY <1>6, <1>7, <1>12 DEF OperatorStep
<1> QED  BY <1>1, <1>2, <1>8, <1>9, <1>10, <1>11, <1>12 DEF Next

\* With one server nobody is greeted or announced more often than they came or
\* went, however listings fail, notices are switched and dune-admin restarts.
THEOREM NobodyMisled == OneServer => (Spec => []NoticedOncePerVisit)
<1> SUFFICES ASSUME OneServer PROVE Spec => []NoticedOncePerVisit  OBVIOUS
<1> DEFINE Inv == Types /\ NoticeInv
<1>1. Init => Inv  BY InitTypes, InitNotices
<1>2. Inv /\ [Next]_vars => Inv'  BY StepTypes, StepNotices
<1>3. Inv => NoticedOncePerVisit  BY DEF NoticeInv, NoticedOncePerVisit
<1> QED  BY <1>1, <1>2, <1>3, PTL DEF Spec
=============================================================================
