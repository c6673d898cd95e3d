----------------------------- MODULE Battlepass -----------------------------
(***************************************************************************)
(* The battlepass of one game server: the evaluation engine that turns     *)
(* player progress into claims, the auto-grant loop that pays earned       *)
(* claims, the operator's manual grants and claim resets, and the tier     *)
(* catalogue (battlepass_engine.go, battlepass_grant_engine.go,            *)
(* battlepass_grant_ledger.go, deferred_grant.go, battlepass_store.go,     *)
(* handlers_battlepass.go).                                                *)
(*                                                                         *)
(* Grain of atomicity.  The store is one SQLite handle with one open       *)
(* connection, so one SQL statement is one step; the game database is a    *)
(* separate server, so each query or update of it is a step of its own.    *)
(* Between two statements any other goroutine may run.                     *)
(*                                                                         *)
(* Left out: labels, timestamps, intel amounts, the attempts and           *)
(* last_error columns of a CLAIM (no code reads them back), and item       *)
(* rewards, which are fired after the ledger is sealed and recorded        *)
(* nowhere.                                                                *)
(***************************************************************************)
EXTENDS Naturals

CONSTANTS
    Tiers,          \* tier keys
    LevelTiers,     \* the tiers whose signal is the player level
    DefaultTiers,   \* the tiers of the baked-in catalogue
    Accounts,       \* player accounts of this server
    Engines,        \* incarnations of the engine alive at the same time
    Operators,      \* HTTP requests in flight at the same time
    Handlers,       \* the operator requests a run considers
    AutoGrantModes, \* values battlepass_auto_grant may be given
    AwardPastModes, \* values battlepass_award_past may be given
    Faults,         \* the faults a run considers
    MaxAttempts     \* deferredGrantMaxAttempts

HandlerKinds == {"grantTier", "grantAll", "demote", "purge", "edit", "reseed"}

\* fail:  a game-database call fails without effect
\* lost:  the intel update lands but its answer is lost (the call errs)
\* store: a store write fails where the code logs the error and goes on
\* crash: the process dies and is started again
FaultKinds == {"fail", "lost", "store", "crash"}

ASSUME ConstantAssumption ==
    /\ LevelTiers \subseteq Tiers
    /\ DefaultTiers \subseteq Tiers
    /\ Handlers \subseteq HandlerKinds
    /\ AutoGrantModes \subseteq BOOLEAN
    /\ AwardPastModes \subseteq BOOLEAN
    /\ Faults \subseteq FaultKinds
    /\ MaxAttempts \in Nat \ {0}

VARIABLES
    satisfied,  \* game: does the account meet the tier's signal
    online,     \* game: is the account's character online
    catalog,    \* battlepass_tiers
    claim,      \* battlepass_claims
    seen,       \* battlepass_tier_seen
    ledger,     \* battlepass_grant_ledger
    engine,     \* the context and the settings each incarnation was started with
    scan,       \* the evaluation goroutine of each incarnation
    loop,       \* the grant-loop goroutine of each incarnation
    op,         \* operator requests being served
    paid,       \* history: times the intel of a claim was paid (2: more than once)
    merit       \* history: pairs the engine may pay, see Merit below

vars == <<satisfied, online, catalog, claim, seen, ledger, engine, scan, loop,
          op, paid, merit>>
game == <<satisfied, online>>
history == <<paid, merit>>

-----------------------------------------------------------------------------
(* Values *)

Pairs == Tiers \X Accounts
Of(accts) == {p \in Pairs : p[2] \in accts}

ClaimStatus == {"none", "baseline", "earned", "granted"}

\* due: next_attempt_at is empty or past; online: last_error is the
\* player-is-online message.
LedgerRow == [status: {"none", "pending", "granted", "exhausted"},
              attempts: Nat, due: BOOLEAN, online: BOOLEAN]
NoRow   == [status |-> "none", attempts |-> 0, due |-> TRUE, online |-> FALSE]
PendRow == [status |-> "pending", attempts |-> 0, due |-> TRUE, online |-> FALSE]

EngineState == [live: BOOLEAN, autoGrant: BOOLEAN, awardPast: BOOLEAN]

ScanState == [pc: {"idle", "players", "enqueue", "seen", "apply", "pending"},
              tiers: SUBSET Tiers,    \* enabled tiers listed at the tick's start
              todo: SUBSET Accounts,  \* players still to evaluate
              enq: SUBSET Pairs,      \* grants to put on the ledger
              work: SUBSET Pairs,     \* unclaimed pairs still to decide
              sat: SUBSET Pairs,      \* pairs read as satisfied
              seen: SUBSET Pairs]     \* pairs read as seen unsatisfied
IdleScan == [pc |-> "idle", tiers |-> {}, todo |-> {}, enq |-> {}, work |-> {},
             sat |-> {}, seen |-> {}]

LoopState == [pc: {"idle", "claim", "settled", "tier", "offline", "award",
                   "mark", "seal", "fail", "retry"},
              queue: SUBSET Pairs,    \* claims listed as due, not yet attempted
              cur: SUBSET Pairs]      \* the claim being attempted (one at most)
IdleLoop == [pc |-> "idle", queue |-> {}, cur |-> {}]

OpState == [pc: {"idle", "offline", "award", "mark", "demote", "purge",
                 "purgeSeen", "insert"},
            all: BOOLEAN,             \* the grant covers the whole account
            pairs: SUBSET Pairs,      \* claims granted, or scope of a reset
            tiers: SUBSET Tiers]      \* tiers a reseed has still to insert
IdleOp == [pc |-> "idle", all |-> FALSE, pairs |-> {}, tiers |-> {}]

TypeOK ==
    /\ satisfied \in [Pairs -> BOOLEAN]
    /\ online \in [Accounts -> BOOLEAN]
    /\ catalog \in [Tiers -> {"absent", "off", "on"}]
    /\ claim \in [Pairs -> ClaimStatus]
    /\ seen \subseteq Pairs
    /\ ledger \in [Pairs -> LedgerRow]
    /\ engine \in [Engines -> EngineState]
    /\ scan \in [Engines -> ScanState]
    /\ loop \in [Engines -> LoopState]
    /\ op \in [Operators -> OpState]
    /\ paid \in [Pairs -> 0..2]
    /\ merit \subseteq Pairs

(* A fresh server: nothing recorded, no engine running. *)
Init ==
    /\ satisfied \in [Pairs -> BOOLEAN]
    /\ online = [a \in Accounts |-> FALSE]
    /\ catalog = [t \in Tiers |-> "absent"]
    /\ claim = [p \in Pairs |-> "none"]
    /\ seen = {}
    /\ ledger = [p \in Pairs |-> NoRow]
    /\ engine = [e \in Engines |->
                   [live |-> FALSE, autoGrant |-> FALSE, awardPast |-> FALSE]]
    /\ scan = [e \in Engines |-> IdleScan]
    /\ loop = [e \in Engines |-> IdleLoop]
    /\ op = [o \in Operators |-> IdleOp]
    /\ paid = [p \in Pairs |-> 0]
    /\ merit = {p \in Pairs : ~satisfied[p]}

\* Merit: a pair merits its reward once it has been unsatisfied, so that a
\* later satisfied reading is progress made on this server, or once an
\* award-past engine recorded it.

-----------------------------------------------------------------------------
(* Statements of the store *)

\* recordPendingGrant: INSERT ... ON CONFLICT DO NOTHING
RecordPendingGrant(p) ==
    ledger' = [ledger EXCEPT ![p] = IF @.status = "none" THEN PendRow ELSE @]

\* recordGrantLedgerSuccess: upsert to granted; attempts only set on insert
Sealed(r) == [status |-> "granted",
              attempts |-> IF r.status = "none" THEN 1 ELSE r.attempts,
              due |-> TRUE, online |-> FALSE]

FailedOffByOne(r) ==      \* mutated form of Failed: > for >=
    [status |-> IF r.attempts + 1 > MaxAttempts THEN "exhausted" ELSE "pending",
     attempts |-> r.attempts + 1, due |-> FALSE, online |-> FALSE]

\* recordGrantLedgerFailure: the status follows from the incremented count,
\* whatever the row's present status is
Failed(r) ==
    LET n == r.attempts + 1
    IN  [status |-> IF n >= MaxAttempts THEN "exhausted" ELSE "pending",
         attempts |-> n, due |-> n >= MaxAttempts, online |-> FALSE]

RetryCounts(r) == [Failed(r) EXCEPT !.online = TRUE]  \* of RetryLater: an attempt

\* recordGrantLedgerRetryLater: status and attempts untouched on conflict
RetryLater(r) ==
    [status |-> IF r.status = "none" THEN "pending" ELSE r.status,
     attempts |-> r.attempts, due |-> FALSE, online |-> TRUE]

\* healExhaustedOnlineGrantLedger
Healed(r) ==
    IF r.status = "exhausted" /\ r.online
    THEN [status |-> "pending", attempts |-> 0, due |-> TRUE, online |-> TRUE]
    ELSE r

UnsettledAny(r) == r.status # "none"    \* of Unsettled: forgets the status filter

\* deleteUnsettledGrantLedger: granted rows are delivery history and are kept
Unsettled(r) == r.status \in {"pending", "exhausted"}

\* listRetryableGrantLedger
Retryable(r) == r.status = "pending" /\ r.attempts < MaxAttempts /\ r.due

\* seedTiersIfEmpty
SeededCatalog ==
    IF \A t \in Tiers : catalog[t] = "absent"
    THEN [t \in Tiers |-> IF t \in DefaultTiers THEN "on" ELSE "absent"]
    ELSE catalog

TierActionBlank(sawUnsatisfied, awardPast) ==   \* of TierAction: empty status
    IF awardPast \/ sawUnsatisfied THEN "earned" ELSE ""

TierActionEager(sawUnsatisfied, awardPast) == "earned"  \* of TierAction: no baseline

\* battlepassTierAction for a satisfied tier
TierAction(sawUnsatisfied, awardPast) ==
    IF awardPast \/ sawUnsatisfied THEN "earned" ELSE "baseline"

RecordedUpsert(old, status) == status           \* of Recorded: DO UPDATE

\* recordClaim: ON CONFLICT DO NOTHING
Recorded(old, status) == IF old = "none" THEN status ELSE old

RetroactiveOff(e, a) == {}                      \* of Retroactive: call dropped

\* battlepassRetroactiveGrantTiers: claims earned before auto-grant was on, or
\* whose enqueue was lost
Retroactive(e, a) ==
    IF engine[e].autoGrant THEN {p \in Of({a}) : claim[p] = "earned"} ELSE {}

\* awardIntel lands
Pay(S) == paid' = [p \in Pairs |-> IF p \in S THEN IF paid[p] = 0 THEN 1 ELSE 2
                                   ELSE paid[p]]

-----------------------------------------------------------------------------
(* The game: progress, a journey or character reset, logging in and out *)

Progress(p) ==
    /\ ~satisfied[p]
    /\ satisfied' = [satisfied EXCEPT ![p] = TRUE]
    /\ UNCHANGED <<online, catalog, claim, seen, ledger, engine, scan, loop, op,
                   paid, merit>>

Regress(p) ==
    /\ satisfied[p]
    /\ satisfied' = [satisfied EXCEPT ![p] = FALSE]
    /\ merit' = merit \union {p}
    /\ UNCHANGED <<online, catalog, claim, seen, ledger, engine, scan, loop, op,
                   paid>>

ToggleOnline(a) ==
    /\ online' = [online EXCEPT ![a] = ~@]
    /\ UNCHANGED <<satisfied, catalog, claim, seen, ledger, engine, scan, loop,
                   op, paid, merit>>

-----------------------------------------------------------------------------
(* Engine lifecycle: applyBattlepassEngine at startup and on a config save *)

Cancelled == [f \in Engines |-> [engine[f] EXCEPT !.live = FALSE]]

\* Cancelling a context does not wait for the goroutines that hold it: the
\* new incarnation starts beside what is left of the old one.
ApplyEngine(e, autoGrant, awardPast) ==
    /\ ~engine[e].live /\ scan[e] = IdleScan /\ loop[e] = IdleLoop
    /\ engine' = [Cancelled EXCEPT
                    ![e] = [live |-> TRUE, autoGrant |-> autoGrant,
                            awardPast |-> awardPast]]
    /\ catalog' = SeededCatalog
    /\ UNCHANGED <<game, claim, seen, ledger, scan, loop, op, history>>

\* The save switched the battlepass off.
StopEngine ==
    /\ \E e \in Engines : engine[e].live
    /\ engine' = Cancelled
    /\ catalog' = SeededCatalog
    /\ UNCHANGED <<game, claim, seen, ledger, scan, loop, op, history>>

\* The process dies between any two steps; the next start heals the ledger
\* before it applies the engine.
Crash ==
    /\ "crash" \in Faults
    /\ engine' = Cancelled
    /\ scan' = [e \in Engines |-> IdleScan]
    /\ loop' = [e \in Engines |-> IdleLoop]
    /\ op' = [o \in Operators |-> IdleOp]
    /\ ledger' = [p \in Pairs |-> Healed(ledger[p])]
    /\ UNCHANGED <<game, catalog, claim, seen, history>>

\* A backoff window elapses (5 minutes or 24 hours).
Elapse(p) ==
    /\ ledger[p].status = "pending" /\ ~ledger[p].due
    /\ ledger' = [ledger EXCEPT ![p].due = TRUE]
    /\ UNCHANGED <<game, catalog, claim, seen, engine, scan, loop, op, history>>

-----------------------------------------------------------------------------
(* The evaluation goroutine: evaluateBattlepassTick *)

SetScan(e, s) == scan' = [scan EXCEPT ![e] = s]

\* listTiers, then fetchPlayers, which carries every player's level.
ScanBegin(e) ==
    /\ engine[e].live /\ scan[e].pc = "idle"
    /\ \E t \in Tiers : catalog[t] # "absent"
    /\ SetScan(e, [IdleScan EXCEPT
            !.pc = "players",
            !.tiers = {t \in Tiers : catalog[t] = "on"},
            !.todo = Accounts,
            !.sat = {p \in Pairs : p[1] \in LevelTiers /\ satisfied[p]}])
    /\ UNCHANGED <<game, catalog, claim, seen, ledger, engine, loop, op, history>>

\* claimedKeys: the snapshot both the retroactive enqueue and the list of
\* unclaimed tiers are computed from.
ScanPlayer(e, a) ==
    /\ scan[e].pc = "players" /\ a \in scan[e].todo
    /\ SetScan(e, [scan[e] EXCEPT
            !.pc = "enqueue",
            !.todo = @ \ {a},
            !.enq = Retroactive(e, a),
            !.work = {p \in Of({a}) : p[1] \in scan[e].tiers /\ claim[p] = "none"}])
    /\ UNCHANGED <<game, catalog, claim, seen, ledger, engine, loop, op, history>>

\* enqueueRetroactiveBattlepassGrants
ScanEnqueue(e, p) ==
    /\ scan[e].pc = "enqueue" /\ p \in scan[e].enq
    /\ RecordPendingGrant(p)
    /\ SetScan(e, [scan[e] EXCEPT !.enq = @ \ {p}])
    /\ UNCHANGED <<game, catalog, claim, seen, engine, loop, op, history>>

\* fetchBattlepassSignals
ScanSignals(e) ==
    /\ scan[e].pc = "enqueue" /\ scan[e].enq = {} /\ scan[e].work # {}
    /\ SetScan(e, [scan[e] EXCEPT
            !.pc = "seen",
            !.sat = @ \union {p \in scan[e].work :
                                p[1] \notin LevelTiers /\ satisfied[p]}])
    /\ UNCHANGED <<game, catalog, claim, seen, ledger, engine, loop, op, history>>

\* seenUnsatisfiedKeys
ScanSeen(e) ==
    /\ scan[e].pc = "seen"
    /\ SetScan(e, [scan[e] EXCEPT !.pc = "apply", !.seen = seen \intersect scan[e].work])
    /\ UNCHANGED <<game, catalog, claim, seen, ledger, engine, loop, op, history>>

\* applyBattlepassTierAction for an unsatisfied tier: markSeenUnsatisfied
ScanMark(e, p) ==
    /\ scan[e].pc = "apply" /\ p \in scan[e].work \ scan[e].sat
    /\ seen' = seen \union {p}
    /\ SetScan(e, [scan[e] EXCEPT !.work = @ \ {p}])
    /\ UNCHANGED <<game, catalog, claim, ledger, engine, loop, op, history>>

\* applyBattlepassTierAction for a satisfied tier: recordClaim, ON CONFLICT DO
\* NOTHING; the enqueue that follows goes by the status decided here, not by
\* the row the insert may have found.
ScanClaim(e, p) ==
    LET status == TierAction(p \in scan[e].seen, engine[e].awardPast)
    IN  /\ scan[e].pc = "apply" /\ p \in scan[e].work \intersect scan[e].sat
        /\ claim' = [claim EXCEPT ![p] = Recorded(@, status)]
        /\ merit' = IF engine[e].awardPast THEN merit \union {p} ELSE merit
        /\ SetScan(e, IF engine[e].autoGrant /\ status = "earned"
                      THEN [scan[e] EXCEPT !.pc = "pending", !.work = @ \ {p},
                                           !.enq = {p}]
                      ELSE [scan[e] EXCEPT !.work = @ \ {p}])
        /\ UNCHANGED <<game, catalog, seen, ledger, engine, loop, op, paid>>

ScanPending(e, p) ==
    /\ scan[e].pc = "pending" /\ p \in scan[e].enq
    /\ RecordPendingGrant(p)
    /\ SetScan(e, [scan[e] EXCEPT !.pc = "apply", !.enq = {}])
    /\ UNCHANGED <<game, catalog, claim, seen, engine, loop, op, history>>

\* The player is done, or an error abandons it: a failed call, or a signal
\* query on a cancelled context.  Errors never stop the tick.
ScanLeave(e) ==
    /\ \/ scan[e].pc \in {"enqueue", "apply"} /\ scan[e].enq \union scan[e].work = {}
       \/ scan[e].pc = "enqueue" /\ scan[e].enq = {} /\ ~engine[e].live
       \/ scan[e].pc \notin {"idle", "players"} /\ Faults \intersect {"fail", "store"} # {}
    /\ SetScan(e, [scan[e] EXCEPT !.pc = "players", !.enq = {}, !.work = {},
                                  !.sat = @ \intersect Of(scan[e].todo),
                                  !.seen = {}])
    /\ UNCHANGED <<game, catalog, claim, seen, ledger, engine, loop, op, history>>

\* All players evaluated, or a pause between two players saw the cancelled
\* context (with scan_pace_ms = 0 there is no pause and the tick runs on).
ScanEnd(e) ==
    /\ scan[e].pc = "players"
    /\ scan[e].todo = {} \/ ~engine[e].live
    /\ SetScan(e, IdleScan)
    /\ UNCHANGED <<game, catalog, claim, seen, ledger, engine, loop, op, history>>

Scan(e) ==
    \/ ScanBegin(e)
    \/ \E a \in Accounts : ScanPlayer(e, a)
    \/ \E p \in Pairs : ScanEnqueue(e, p)
    \/ ScanSignals(e)
    \/ ScanSeen(e)
    \/ \E p \in Pairs : ScanMark(e, p)
    \/ \E p \in Pairs : ScanClaim(e, p)
    \/ \E p \in Pairs : ScanPending(e, p)
    \/ ScanLeave(e)
    \/ ScanEnd(e)

-----------------------------------------------------------------------------
(* The grant-loop goroutine: processDeferredGrantTick over                 *)
(* attemptBattlepassGrant                                                  *)

SetLoop(e, l) == loop' = [loop EXCEPT ![e] = l]
At(e, pc) == SetLoop(e, [loop[e] EXCEPT !.pc = pc])
EndAttempt(e) == SetLoop(e, [loop[e] EXCEPT !.pc = "idle", !.cur = {}])

LoopList(e) ==
    /\ engine[e].live /\ engine[e].autoGrant /\ loop[e] = IdleLoop
    /\ \E p \in Pairs : Retryable(ledger[p])
    /\ SetLoop(e, [IdleLoop EXCEPT !.queue = {p \in Pairs : Retryable(ledger[p])}])
    /\ UNCHANGED <<game, catalog, claim, seen, ledger, engine, scan, op, history>>

\* Take the next listed claim and read grantLedgerStatus.  The tick does not
\* look at the context between two claims.
LoopNext(e, p) ==
    /\ loop[e].pc = "idle" /\ p \in loop[e].queue
    /\ SetLoop(e, IF ledger[p].status = "granted"
                  THEN [loop[e] EXCEPT !.queue = @ \ {p}]
                  ELSE [loop[e] EXCEPT !.queue = @ \ {p}, !.cur = {p}, !.pc = "claim"])
    /\ UNCHANGED <<game, catalog, claim, seen, ledger, engine, scan, op, history>>

\* earnedClaim
LoopClaim(e, p) ==
    /\ loop[e].pc = "claim" /\ p \in loop[e].cur
    /\ At(e, IF claim[p] = "earned" THEN "tier" ELSE "settled")
    /\ UNCHANGED <<game, catalog, claim, seen, ledger, engine, scan, op, history>>

\* Nothing is owed any more: seal the row so that the loop stops retrying.
LoopSettled(e, p) ==
    /\ loop[e].pc = "settled" /\ p \in loop[e].cur
    /\ ledger' = [ledger EXCEPT ![p] = Sealed(@)]
    /\ EndAttempt(e)
    /\ UNCHANGED <<game, catalog, claim, seen, engine, scan, op, history>>

\* getTierByKey and resolveGrantTarget
LoopTier(e, p) ==
    /\ loop[e].pc = "tier" /\ p \in loop[e].cur
    /\ \/ catalog[p[1]] = "absent" /\ At(e, "fail")
       \/ catalog[p[1]] # "absent" /\ engine[e].live /\ At(e, "offline")
    /\ UNCHANGED <<game, catalog, claim, seen, ledger, engine, scan, op, history>>

\* checkPlayerOfflinePool, the first half of awardIntel
LoopOffline(e, p) ==
    /\ loop[e].pc = "offline" /\ p \in loop[e].cur /\ engine[e].live
    /\ At(e, IF online[p[2]] THEN "retry" ELSE "award")
    /\ UNCHANGED <<game, catalog, claim, seen, ledger, engine, scan, op, history>>

\* the UPDATE of awardIntel, which does not look at the online state again
LoopAward(e) ==
    /\ loop[e].pc = "award" /\ engine[e].live
    /\ Pay(loop[e].cur)
    /\ At(e, "mark")
    /\ UNCHANGED <<game, catalog, claim, seen, ledger, engine, scan, op, merit>>

LoopAwardLost(e) ==
    /\ "lost" \in Faults /\ loop[e].pc = "award"
    /\ Pay(loop[e].cur)
    /\ At(e, "fail")
    /\ UNCHANGED <<game, catalog, claim, seen, ledger, engine, scan, op, merit>>

LoopErrorIgnored(e) ==      \* of LoopError: the award's error is not returned
    /\ loop[e].pc = "award"
    /\ "fail" \in Faults \/ ~engine[e].live
    /\ At(e, "mark")
    /\ UNCHANGED <<game, catalog, claim, seen, ledger, engine, scan, op, history>>

\* A call fails without effect.  Calls of the game database carry the context
\* and fail once it is cancelled.
LoopError(e) ==
    /\ \/ /\ loop[e].pc \in {"tier", "offline", "award"}
          /\ "fail" \in Faults \/ ~engine[e].live
       \/ loop[e].pc \in {"claim", "tier"} /\ "store" \in Faults
    /\ At(e, "fail")
    /\ UNCHANGED <<game, catalog, claim, seen, ledger, engine, scan, op, history>>

\* markGrantedForTier
LoopMark(e, p) ==
    /\ loop[e].pc = "mark" /\ p \in loop[e].cur
    /\ claim' = [claim EXCEPT ![p] = IF @ = "earned" THEN "granted" ELSE @]
    /\ At(e, "seal")
    /\ UNCHANGED <<game, catalog, seen, ledger, engine, scan, op, history>>

LoopSeal(e, p) ==
    /\ loop[e].pc = "seal" /\ p \in loop[e].cur
    /\ ledger' = [ledger EXCEPT ![p] = Sealed(@)]
    /\ EndAttempt(e)
    /\ UNCHANGED <<game, catalog, claim, seen, engine, scan, op, history>>

\* recordBattlepassGrantFailure
LoopFail(e, p) ==
    /\ loop[e].pc = "fail" /\ p \in loop[e].cur
    /\ ledger' = [ledger EXCEPT ![p] = Failed(@)]
    /\ EndAttempt(e)
    /\ UNCHANGED <<game, catalog, claim, seen, engine, scan, op, history>>

LoopRetry(e, p) ==
    /\ loop[e].pc = "retry" /\ p \in loop[e].cur
    /\ ledger' = [ledger EXCEPT ![p] = RetryLater(@)]
    /\ EndAttempt(e)
    /\ UNCHANGED <<game, catalog, claim, seen, engine, scan, op, history>>

\* A write of the store fails: logged, and the attempt goes on.
LoopWriteLost(e) ==
    /\ "store" \in Faults
    /\ \/ loop[e].pc = "mark" /\ At(e, "seal")
       \/ loop[e].pc \in {"settled", "seal", "fail", "retry"} /\ EndAttempt(e)
    /\ UNCHANGED <<game, catalog, claim, seen, ledger, engine, scan, op, history>>

Loop(e) ==
    \/ LoopList(e)
    \/ \E p \in Pairs :
          \/ LoopNext(e, p) \/ LoopClaim(e, p) \/ LoopSettled(e, p)
          \/ LoopTier(e, p) \/ LoopOffline(e, p) \/ LoopMark(e, p)
          \/ LoopSeal(e, p) \/ LoopFail(e, p) \/ LoopRetry(e, p)
    \/ LoopAward(e)
    \/ LoopAwardLost(e)
    \/ LoopError(e)
    \/ LoopWriteLost(e)

-----------------------------------------------------------------------------
(* Operator requests *)

SetOp(o, r) == op' = [op EXCEPT ![o] = r]

\* grantBattlepassTier up to its intel award
GrantTier(o, p) ==
    /\ "grantTier" \in Handlers /\ op[o] = IdleOp
    /\ claim[p] = "earned"
    /\ SetOp(o, [IdleOp EXCEPT !.pc = "offline", !.pairs = {p}])
    /\ UNCHANGED <<game, catalog, claim, seen, ledger, engine, scan, loop, history>>

\* grantBattlepassEarned up to its intel award
GrantAll(o, a) ==
    LET earned == {p \in Of({a}) : claim[p] = "earned"}
    IN  /\ "grantAll" \in Handlers /\ op[o] = IdleOp
        /\ earned # {}
        /\ SetOp(o, [IdleOp EXCEPT !.pc = "offline", !.all = TRUE, !.pairs = earned])
        /\ UNCHANGED <<game, catalog, claim, seen, ledger, engine, scan, loop, history>>

OpOffline(o) ==
    /\ op[o].pc = "offline"
    /\ SetOp(o, IF \E p \in op[o].pairs : online[p[2]]
                THEN IdleOp ELSE [op[o] EXCEPT !.pc = "award"])
    /\ UNCHANGED <<game, catalog, claim, seen, ledger, engine, scan, loop, history>>

OpAward(o) ==
    /\ op[o].pc = "award"
    /\ Pay(op[o].pairs)
    /\ \/ SetOp(o, [op[o] EXCEPT !.pc = "mark"])
       \/ "lost" \in Faults /\ SetOp(o, IdleOp)
    /\ UNCHANGED <<game, catalog, claim, seen, ledger, engine, scan, loop, merit>>

\* markGrantedForTier, or markGrantedForAccount: the latter flips every claim
\* of the account that is earned now
OpMark(o) ==
    LET scope == IF op[o].all THEN {p \in Pairs : \E q \in op[o].pairs : q[2] = p[2]}
                 ELSE op[o].pairs
    IN  /\ op[o].pc = "mark"
        /\ claim' = [p \in Pairs |-> IF p \in scope /\ claim[p] = "earned"
                                     THEN "granted" ELSE claim[p]]
        /\ SetOp(o, IdleOp)
        /\ UNCHANGED <<game, catalog, seen, ledger, engine, scan, loop, history>>

\* handleBattlepassResetClaims, statement by statement
Reset(o, accts, mode) ==
    /\ mode \in Handlers /\ op[o] = IdleOp
    /\ ledger' = [p \in Pairs |-> IF p \in Of(accts) /\ Unsettled(ledger[p])
                                  THEN NoRow ELSE ledger[p]]
    /\ SetOp(o, [IdleOp EXCEPT !.pc = mode, !.pairs = Of(accts)])
    /\ UNCHANGED <<game, catalog, claim, seen, engine, scan, loop, history>>

DemoteEverything(o) ==      \* of DemoteClaims: the status filter is dropped
    /\ op[o].pc = "demote"
    /\ claim' = [p \in Pairs |-> IF p \in op[o].pairs /\ claim[p] # "none"
                                 THEN "baseline" ELSE claim[p]]
    /\ SetOp(o, IdleOp)
    /\ UNCHANGED <<game, catalog, seen, ledger, engine, scan, loop, history>>

DemoteClaims(o) ==
    /\ op[o].pc = "demote"
    /\ claim' = [p \in Pairs |-> IF p \in op[o].pairs /\ claim[p] = "earned"
                                 THEN "baseline" ELSE claim[p]]
    /\ SetOp(o, IdleOp)
    /\ UNCHANGED <<game, catalog, seen, ledger, engine, scan, loop, history>>

PurgeClaims(o) ==
    /\ op[o].pc = "purge"
    /\ claim' = [p \in Pairs |-> IF p \in op[o].pairs THEN "none" ELSE claim[p]]
    /\ SetOp(o, [op[o] EXCEPT !.pc = "purgeSeen"])
    /\ UNCHANGED <<game, catalog, seen, ledger, engine, scan, loop, history>>

PurgeTierSeen(o) ==
    /\ op[o].pc = "purgeSeen"
    /\ seen' = seen \ op[o].pairs
    /\ SetOp(o, IdleOp)
    /\ UNCHANGED <<game, catalog, claim, ledger, engine, scan, loop, history>>

\* A call fails and the handler returns, whatever it has done so far.
OpError(o) ==
    /\ \/ op[o].pc \in {"offline", "award"} /\ "fail" \in Faults
       \/ op[o].pc \in {"mark", "demote", "purge", "purgeSeen", "insert"}
             /\ "store" \in Faults
    /\ SetOp(o, IdleOp)
    /\ UNCHANGED <<game, catalog, claim, seen, ledger, engine, scan, loop, history>>

\* createTier, updateTier, setTiersEnabled, deleteTiers
EditTier(t, state) ==
    /\ "edit" \in Handlers /\ catalog[t] # state
    /\ catalog' = [catalog EXCEPT ![t] = state]
    /\ UNCHANGED <<game, claim, seen, ledger, engine, scan, loop, op, history>>

\* reseedTiers: clear the catalogue, then insert tier by tier (a reset to the
\* defaults or an import; claims are left alone)
Reseed(o, tiers) ==
    /\ "reseed" \in Handlers /\ op[o] = IdleOp /\ tiers # {}
    /\ catalog' = [t \in Tiers |-> "absent"]
    /\ SetOp(o, [IdleOp EXCEPT !.pc = "insert", !.tiers = tiers])
    /\ UNCHANGED <<game, claim, seen, ledger, engine, scan, loop, history>>

InsertTier(o, t, state) ==
    /\ op[o].pc = "insert" /\ t \in op[o].tiers
    /\ catalog' = [catalog EXCEPT ![t] = IF @ = "absent" THEN state ELSE @]
    /\ SetOp(o, IF op[o].tiers = {t} THEN IdleOp
                ELSE [op[o] EXCEPT !.tiers = @ \ {t}])
    /\ UNCHANGED <<game, claim, seen, ledger, engine, scan, loop, history>>

Operate(o) ==
    \/ \E p \in Pairs : GrantTier(o, p)
    \/ \E a \in Accounts : GrantAll(o, a)
    \/ OpOffline(o)
    \/ OpAward(o)
    \/ OpMark(o)
    \/ \E accts \in {Accounts} \union {{a} : a \in Accounts},
          mode \in {"demote", "purge"} : Reset(o, accts, mode)
    \/ DemoteClaims(o)
    \/ PurgeClaims(o)
    \/ PurgeTierSeen(o)
    \/ OpError(o)
    \/ \E tiers \in SUBSET Tiers : Reseed(o, tiers)
    \/ \E t \in Tiers, state \in {"off", "on"} : InsertTier(o, t, state)

Next ==
    \/ \E p \in Pairs : Progress(p) \/ Regress(p) \/ Elapse(p)
    \/ \E a \in Accounts : ToggleOnline(a)
    \/ \E e \in Engines, autoGrant \in AutoGrantModes, awardPast \in AwardPastModes :
          ApplyEngine(e, autoGrant, awardPast)
    \/ StopEngine
    \/ Crash
    \/ \E t \in Tiers, state \in {"absent", "off", "on"} : EditTier(t, state)
    \/ \E e \in Engines : Scan(e) \/ Loop(e)
    \/ \E o \in Operators : Operate(o)

Spec == Init /\ [][Next]_vars

-----------------------------------------------------------------------------
(* Fairness.  The two goroutines of an incarnation run on tickers, so each    *)
(* keeps taking steps while it has one to take, and a backoff elapses.  An    *)
(* error does not abandon the same player at every tick, before its earned    *)
(* claims are enqueued: that is the strong fairness of ScanEnqueue.  Faults,  *)
(* operators and the players owe nothing.                                     *)

FairSpec ==
    /\ Spec
    /\ \A e \in Engines : WF_vars(Scan(e)) /\ WF_vars(Loop(e))
    /\ \A p \in Pairs : WF_vars(Elapse(p))
    /\ \A e \in Engines, p \in Pairs : SF_vars(ScanEnqueue(e, p))

-----------------------------------------------------------------------------
(* Properties *)

\* The retry policy is exact: a row that still shows pending can still be
\* listed for retry, and a row is exhausted (manual grant only) only after
\* MaxAttempts real failures.  No interleaving of loops, resets, heals and
\* re-enqueues may strand a row between the two (battlepass_grant_ledger.go).
RowsConsistent ==
    \A p \in Pairs :
        /\ ledger[p].status = "pending" => ledger[p].attempts < MaxAttempts
        /\ ledger[p].status = "exhausted" => ledger[p].attempts >= MaxAttempts

\* Issue #297: a tier that has been satisfied ever since the server was set up
\* is never paid, by no route and under no interleaving, unless an award-past
\* engine recorded it (evaluateBattlepassPlayer, attemptBattlepassGrant and the
\* manual grants together).
PreexistingNeverPaid == \A p \in Pairs : paid[p] > 0 => p \in merit

\* A claim only moves forward: recorded once, earned to granted by a grant or
\* to baseline by a demote, and forgotten only by a purge that covers it.  In
\* particular a granted or demoted claim never becomes grantable again
\* (recordClaim, markGranted..., demoteEarnedClaims, purgeClaims).
ClaimLifecycle ==
    [][\A p \in Pairs :
          \/ claim'[p] = claim[p]
          \/ claim[p] = "none" /\ claim'[p] \in {"baseline", "earned"}
          \/ claim[p] = "earned" /\ claim'[p] \in {"baseline", "granted"}
          \/ /\ claim'[p] = "none"
             /\ \E o \in Operators : op[o].pc = "purge" /\ p \in op[o].pairs]_vars

\* The intel of a claim reaches the player at most once.
PaidAtMostOnce == \A p \in Pairs : paid[p] <= 1

\* A claim shown as granted was paid: "granted claims are delivery history".
GrantedIsPaid == \A p \in Pairs : claim[p] = "granted" => paid[p] >= 1

\* The two together: what is shown as granted was paid exactly once.
PaymentsExact == PaidAtMostOnce /\ GrantedIsPaid

\* The granted status of a ledger row is terminal (recordGrantLedgerSuccess).
GrantedRowTerminal ==
    [][\A p \in Pairs : ledger[p].status = "granted" => ledger'[p].status = "granted"]_vars

\* healExhaustedOnlineGrantLedger matches nothing that this version wrote: being
\* online never exhausts a row.
ExhaustedNotOnline ==
    \A p \in Pairs : ~(ledger[p].status = "exhausted" /\ ledger[p].online)

\* A claim becomes earned only if the watched-unsatisfied marker of its tier is
\* on record, so that a purge, which deletes both, re-baselines and never
\* re-earns (purgeClaims, purgeTierSeen).
EarnedWasWatched == \A p \in Pairs : claim[p] = "earned" => p \in seen

\* Intel is only paid for a claim that is earned at that moment: after a demote
\* "nothing is left for auto-grant or manual grant to deliver".
AwardOnlyEarned ==
    [][\A p \in Pairs : paid'[p] # paid[p] => claim[p] = "earned"]_vars

\* Intel is only written while the player is offline: the game would clobber a
\* live edit.
AwardOnlyOffline ==
    [][\A p \in Pairs : paid'[p] # paid[p] => ~online[p[2]]]_vars

\* Once auto-grant stays on and the players stay logged out, every earned claim
\* is eventually granted (or demoted, or purged) or handed to the operator as
\* exhausted: none sits in pending for ever.
AutoGrantStays == \E e \in Engines : <>[](engine[e].live /\ engine[e].autoGrant)
PlayersRest == <>[](\A a \in Accounts : ~online[a])
EarnedSettles ==
    AutoGrantStays /\ PlayersRest =>
        \A p \in Pairs :
            claim[p] = "earned" ~> \/ claim[p] # "earned"
                                   \/ ledger[p].status = "exhausted"
=============================================================================
