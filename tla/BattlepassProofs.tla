-------------------------- MODULE BattlepassProofs --------------------------
(***************************************************************************)
(* Theorems about the battlepass, for every set of tiers, accounts,        *)
(* engine incarnations, operators and faults.                              *)
(***************************************************************************)
EXTENDS Battlepass, TLAPS

-----------------------------------------------------------------------------
(* Type correctness *)

LEMMA ConstantTypes ==
    /\ LevelTiers \subseteq Tiers /\ DefaultTiers \subseteq Tiers
    /\ AutoGrantModes \subseteq BOOLEAN /\ AwardPastModes \subseteq BOOLEAN
    /\ MaxAttempts \in Nat /\ MaxAttempts > 0
BY ConstantAssumption DEF ConstantAssumption

LEMMA PairParts == ASSUME NEW p \in Pairs PROVE p[1] \in Tiers /\ p[2] \in Accounts
BY DEF Pairs

LEMMA RowTypes ==
    /\ NoRow \in LedgerRow /\ PendRow \in LedgerRow
    /\ \A r \in LedgerRow : /\ Sealed(r) \in LedgerRow
                            /\ Failed(r) \in LedgerRow
                            /\ RetryLater(r) \in LedgerRow
                            /\ Healed(r) \in LedgerRow
BY ConstantTypes DEF NoRow, PendRow, LedgerRow, Sealed, Failed, RetryLater, Healed

\* Writing a value of the right type at one place keeps a function's type.
LEMMA Update ==
    ASSUME NEW D, NEW R, NEW f \in [D -> R], NEW d, NEW r \in R
    PROVE  [f EXCEPT ![d] = r] \in [D -> R]
OBVIOUS

LEMMA IdleTypes ==
    IdleScan \in ScanState /\ IdleLoop \in LoopState /\ IdleOp \in OpState
BY DEF IdleScan, IdleLoop, IdleOp, ScanState, LoopState, OpState

LEMMA InitType == Init => TypeOK
BY IdleTypes, RowTypes DEF Init, TypeOK, ClaimStatus, EngineState, NoRow

LEMMA CancelledType == TypeOK => Cancelled \in [Engines -> EngineState]
BY DEF TypeOK, Cancelled, EngineState

LEMMA SeededType == TypeOK => SeededCatalog \in [Tiers -> {"absent", "off", "on"}]
BY DEF TypeOK, SeededCatalog

LEMMA ApplyEngineType ==
    ASSUME TypeOK, NEW e \in Engines, NEW autoGrant \in AutoGrantModes,
           NEW awardPast \in AwardPastModes, ApplyEngine(e, autoGrant, awardPast)
    PROVE  TypeOK'
<1>1. [live |-> TRUE, autoGrant |-> autoGrant, awardPast |-> awardPast] \in EngineState
  BY ConstantTypes DEF EngineState
<1>2. engine' \in [Engines -> EngineState]
  BY <1>1, CancelledType, Update DEF ApplyEngine
<1> QED  BY <1>2, SeededType DEF ApplyEngine, TypeOK, game, history

LEMMA StopType == ASSUME TypeOK, StopEngine \/ Crash PROVE TypeOK'
<1>1. CASE StopEngine
  BY <1>1, CancelledType, SeededType DEF StopEngine, TypeOK, game, history
<1>2. CASE Crash
  BY <1>2, CancelledType, IdleTypes, RowTypes DEF Crash, TypeOK, game, history
<1> QED  BY <1>1, <1>2

LEMMA ElapseType == ASSUME TypeOK, NEW p \in Pairs, Elapse(p) PROVE TypeOK'
<1>1. [ledger[p] EXCEPT !.due = TRUE] \in LedgerRow  BY DEF TypeOK, LedgerRow
<1>2. ledger' \in [Pairs -> LedgerRow]  BY <1>1, Update DEF Elapse, TypeOK
<1> QED  BY <1>2 DEF Elapse, TypeOK, game, history

\* A step of the evaluation goroutine writes a well-typed goroutine state.
LEMMA SetScanType ==
    ASSUME TypeOK, NEW e \in Engines, NEW s \in ScanState, SetScan(e, s)
    PROVE  scan' \in [Engines -> ScanState]
BY Update DEF SetScan, TypeOK

LEMMA RecordPendingType ==
    ASSUME TypeOK, NEW p \in Pairs, RecordPendingGrant(p)
    PROVE  ledger' \in [Pairs -> LedgerRow]
BY RowTypes DEF RecordPendingGrant, TypeOK

LEMMA ScanType == ASSUME TypeOK, NEW e \in Engines, Scan(e) PROVE TypeOK'
<1> USE DEF game, history
<1>0. scan[e] \in ScanState /\ loop[e] \in LoopState  BY DEF TypeOK
<1>1. CASE ScanBegin(e)
  BY <1>1, SetScanType DEF ScanBegin, TypeOK, IdleScan, ScanState
<1>2. CASE \E a \in Accounts : ScanPlayer(e, a)
  BY <1>0, <1>2, SetScanType, PairParts DEF ScanPlayer, TypeOK, Of, Retroactive, ScanState
<1>3. CASE \E p \in Pairs : ScanEnqueue(e, p)
  BY <1>0, <1>3, SetScanType, RecordPendingType DEF ScanEnqueue, TypeOK, ScanState
<1>4. CASE ScanSignals(e)
  BY <1>0, <1>4, SetScanType DEF ScanSignals, TypeOK, ScanState
<1>5. CASE ScanSeen(e)
  BY <1>0, <1>5, SetScanType DEF ScanSeen, TypeOK, ScanState
<1>6. CASE \E p \in Pairs : ScanMark(e, p)
  BY <1>0, <1>6, SetScanType DEF ScanMark, TypeOK, ScanState
<1>7. ASSUME NEW p \in Pairs, ScanClaim(e, p)  PROVE TypeOK'
  <2> DEFINE status == TierAction(p \in scan[e].seen, engine[e].awardPast)
  <2>1. status \in {"earned", "baseline"}  BY DEF TierAction
  <2>2. Recorded(claim[p], status) \in ClaimStatus
    BY <2>1 DEF Recorded, TypeOK, ClaimStatus
  <2>3. claim' \in [Pairs -> ClaimStatus]
    BY <1>7, <2>2, Update DEF ScanClaim, TypeOK
  <2>4. merit' \subseteq Pairs  BY <1>7 DEF ScanClaim, TypeOK
  <2>5. /\ [scan[e] EXCEPT !.pc = "pending", !.work = @ \ {p}, !.enq = {p}] \in ScanState
        /\ [scan[e] EXCEPT !.work = @ \ {p}] \in ScanState
    BY <1>0 DEF ScanState
  <2>6. scan' \in [Engines -> ScanState]
    BY <1>7, <2>5, SetScanType DEF ScanClaim
  <2> QED  BY <1>7, <2>3, <2>4, <2>6 DEF ScanClaim, TypeOK
<1>8. CASE \E p \in Pairs : ScanPending(e, p)
  BY <1>0, <1>8, SetScanType, RecordPendingType DEF ScanPending, TypeOK, ScanState
<1>9. CASE ScanLeave(e)
  BY <1>0, <1>9, SetScanType DEF ScanLeave, TypeOK, ScanState, Of
<1>10. CASE ScanEnd(e)
  BY <1>10, SetScanType, IdleTypes DEF ScanEnd, TypeOK
<1> QED  BY <1>1, <1>2, <1>3, <1>4, <1>5, <1>6, <1>7, <1>8, <1>9, <1>10 DEF Scan

LEMMA SetLoopType ==
    ASSUME TypeOK, NEW e \in Engines, NEW l \in LoopState, SetLoop(e, l)
    PROVE  loop' \in [Engines -> LoopState]
BY Update DEF SetLoop, TypeOK

\* Moving to another point of the loop, or ending the attempt.
LEMMA AtType ==
    ASSUME TypeOK, NEW e \in Engines,
           NEW pc \in {"idle", "claim", "settled", "tier", "offline", "award",
                       "mark", "seal", "fail", "retry"},
           At(e, pc) \/ EndAttempt(e)
    PROVE  loop' \in [Engines -> LoopState]
<1>1. /\ [loop[e] EXCEPT !.pc = pc] \in LoopState
      /\ [loop[e] EXCEPT !.pc = "idle", !.cur = {}] \in LoopState
  BY DEF TypeOK, LoopState
<1> QED  BY <1>1, SetLoopType DEF At, EndAttempt

\* Rewriting one row of the ledger with one of the store's statements.
LEMMA RowUpdate ==
    ASSUME TypeOK, NEW p \in Pairs,
           \/ ledger' = [ledger EXCEPT ![p] = Sealed(@)]
           \/ ledger' = [ledger EXCEPT ![p] = Failed(@)]
           \/ ledger' = [ledger EXCEPT ![p] = RetryLater(@)]
    PROVE  ledger' \in [Pairs -> LedgerRow]
BY RowTypes DEF TypeOK

LEMMA PayType ==
    ASSUME TypeOK, NEW S, Pay(S) PROVE paid' \in [Pairs -> 0..2]
BY DEF TypeOK, Pay

LEMMA LoopType == ASSUME TypeOK, NEW e \in Engines, Loop(e) PROVE TypeOK'
<1> USE DEF game, history
<1>0. loop[e] \in LoopState  BY DEF TypeOK
<1>1. CASE LoopList(e)
  BY <1>1, SetLoopType DEF LoopList, TypeOK, IdleLoop, LoopState
<1>2. CASE \E p \in Pairs : LoopNext(e, p)
  BY <1>0, <1>2, SetLoopType DEF LoopNext, TypeOK, LoopState
<1>3. CASE \E p \in Pairs : LoopClaim(e, p) \/ LoopTier(e, p) \/ LoopOffline(e, p)
  BY <1>3, AtType DEF LoopClaim, LoopTier, LoopOffline, TypeOK
<1>4. CASE \E p \in Pairs : LoopSettled(e, p) \/ LoopSeal(e, p)
  BY <1>4, AtType, RowUpdate DEF LoopSettled, LoopSeal, TypeOK
<1>5. CASE \E p \in Pairs : LoopFail(e, p) \/ LoopRetry(e, p)
  BY <1>5, AtType, RowUpdate DEF LoopFail, LoopRetry, TypeOK
<1>6. CASE \E p \in Pairs : LoopMark(e, p)
  BY <1>6, AtType DEF LoopMark, TypeOK, ClaimStatus
<1>7. CASE LoopAward(e) \/ LoopAwardLost(e)
  BY <1>7, AtType, PayType DEF LoopAward, LoopAwardLost, TypeOK
<1>8. CASE LoopError(e) \/ LoopWriteLost(e)
  BY <1>8, AtType DEF LoopError, LoopWriteLost, TypeOK
<1> QED  BY <1>1, <1>2, <1>3, <1>4, <1>5, <1>6, <1>7, <1>8 DEF Loop

LEMMA SetOpType ==
    ASSUME TypeOK, NEW o \in Operators, NEW r \in OpState, SetOp(o, r)
    PROVE  op' \in [Operators -> OpState]
BY Update DEF SetOp, TypeOK

LEMMA OperateType == ASSUME TypeOK, NEW o \in Operators, Operate(o) PROVE TypeOK'
<1> USE DEF game, history
<1>0. op[o] \in OpState  BY DEF TypeOK
<1>1. CASE \E p \in Pairs : GrantTier(o, p)
  BY <1>1, SetOpType DEF GrantTier, TypeOK, IdleOp, OpState
<1>2. CASE \E a \in Accounts : GrantAll(o, a)
  BY <1>2, SetOpType DEF GrantAll, TypeOK, IdleOp, OpState, Of
<1>3. CASE OpOffline(o)
  BY <1>0, <1>3, SetOpType, IdleTypes DEF OpOffline, TypeOK, OpState
<1>4. CASE OpAward(o)
  BY <1>0, <1>4, SetOpType, IdleTypes, PayType DEF OpAward, TypeOK, OpState
<1>5. CASE OpMark(o)
  BY <1>5, SetOpType, IdleTypes DEF OpMark, TypeOK, ClaimStatus
<1>6. ASSUME NEW accts \in {Accounts} \union {{a} : a \in Accounts},
             NEW mode \in {"demote", "purge"}, Reset(o, accts, mode)
      PROVE  TypeOK'
  <2>1. [IdleOp EXCEPT !.pc = mode, !.pairs = Of(accts)] \in OpState
    BY DEF IdleOp, OpState, Of
  <2>2. op' \in [Operators -> OpState]  BY <1>6, <2>1, SetOpType DEF Reset
  <2>3. ledger' \in [Pairs -> LedgerRow]  BY <1>6, RowTypes DEF Reset, TypeOK
  <2> QED  BY <1>6, <2>2, <2>3 DEF Reset, TypeOK
<1>7. CASE DemoteClaims(o)
  BY <1>7, SetOpType, IdleTypes DEF DemoteClaims, TypeOK, ClaimStatus
<1>8. CASE PurgeClaims(o)
  BY <1>0, <1>8, SetOpType DEF PurgeClaims, TypeOK, ClaimStatus, OpState
<1>9. CASE PurgeTierSeen(o)
  BY <1>9, SetOpType, IdleTypes DEF PurgeTierSeen, TypeOK
<1>10. CASE OpError(o)
  BY <1>10, SetOpType, IdleTypes DEF OpError, TypeOK
<1>11. CASE \E tiers \in SUBSET Tiers : Reseed(o, tiers)
  BY <1>11, SetOpType DEF Reseed, TypeOK, IdleOp, OpState
<1>12. CASE \E t \in Tiers, state \in {"off", "on"} : InsertTier(o, t, state)
  BY <1>0, <1>12, SetOpType, IdleTypes DEF InsertTier, TypeOK, OpState
<1> QED
  BY <1>1, <1>2, <1>3, <1>4, <1>5, <1>6, <1>7, <1>8, <1>9, <1>10, <1>11, <1>12
  DEF Operate

LEMMA EditTierType ==
    ASSUME TypeOK, NEW t \in Tiers, NEW state \in {"absent", "off", "on"},
           EditTier(t, state)
    PROVE  TypeOK'
BY DEF EditTier, TypeOK, game, history

LEMMA NextType == TypeOK /\ [Next]_vars => TypeOK'
<1> SUFFICES ASSUME TypeOK, [Next]_vars PROVE TypeOK'
  OBVIOUS
<1>1. CASE UNCHANGED vars  BY <1>1 DEF vars, TypeOK
<1>2. CASE Next
  <2>1. ASSUME NEW p \in Pairs, Progress(p) \/ Regress(p)  PROVE TypeOK'
    BY <2>1 DEF TypeOK, Progress, Regress
  <2>2. ASSUME NEW a \in Accounts, ToggleOnline(a)  PROVE TypeOK'
    BY <2>2 DEF TypeOK, ToggleOnline
  <2>3. ASSUME NEW p \in Pairs, Elapse(p)  PROVE TypeOK'
    BY <2>3, ElapseType
  <2>4. ASSUME NEW e \in Engines, NEW autoGrant \in AutoGrantModes,
               NEW awardPast \in AwardPastModes, ApplyEngine(e, autoGrant, awardPast)
        PROVE  TypeOK'
    BY <2>4, ApplyEngineType
  <2>5. CASE StopEngine \/ Crash  BY <2>5, StopType
  <2>6. ASSUME NEW t \in Tiers, NEW state \in {"absent", "off", "on"},
               EditTier(t, state)
        PROVE  TypeOK'
    BY <2>6, EditTierType
  <2>7. ASSUME NEW e \in Engines, Scan(e) \/ Loop(e)  PROVE TypeOK'
    BY <2>7, ScanType, LoopType
  <2>8. ASSUME NEW o \in Operators, Operate(o)  PROVE TypeOK'
    BY <2>8, OperateType
  <2> QED  BY <1>2, <2>1, <2>2, <2>3, <2>4, <2>5, <2>6, <2>7, <2>8 DEF Next
<1> QED  BY <1>1, <1>2

\* Every variable keeps its type, whatever fails, crashes or overlaps (the
\* whole module; the assumption of every proof below).
THEOREM TypeCorrect == Spec => []TypeOK
<1>1. TypeOK /\ [Next]_vars => TypeOK'  BY NextType
<1> QED  BY <1>1, InitType, PTL DEF Spec

-----------------------------------------------------------------------------
(* The retry policy *)

\* Every way a step of the system may change a row of the grant ledger.
RowStep(p) ==
    \/ ledger'[p] = ledger[p]
    \/ ledger[p].status = "none" /\ ledger'[p] = PendRow
    \/ Unsettled(ledger[p]) /\ ledger'[p] = NoRow
    \/ ledger'[p] = Sealed(ledger[p])
    \/ ledger'[p] = Failed(ledger[p])
    \/ ledger'[p] = RetryLater(ledger[p])
    \/ ledger'[p] = Healed(ledger[p])
    \/ ledger[p].status = "pending" /\ ledger'[p] = [ledger[p] EXCEPT !.due = TRUE]

LEMMA LedgerSteps == ASSUME TypeOK, [Next]_vars, NEW q \in Pairs PROVE RowStep(q)
<1> USE DEF RowStep
<1>1. CASE UNCHANGED vars  BY <1>1 DEF vars
<1>2. ASSUME NEW e \in Engines, Scan(e)  PROVE RowStep(q)
  <2>1. CASE UNCHANGED ledger  BY <2>1
  <2>2. CASE \E p \in Pairs : RecordPendingGrant(p)
    BY <2>2 DEF RecordPendingGrant, TypeOK
  <2> QED  BY <1>2, <2>1, <2>2 DEF Scan, ScanBegin, ScanPlayer, ScanEnqueue, ScanSignals,
       ScanSeen, ScanMark, ScanClaim, ScanPending, ScanLeave, ScanEnd
<1>3. ASSUME NEW e \in Engines, Loop(e)  PROVE RowStep(q)
  <2>1. CASE UNCHANGED ledger  BY <2>1
  <2>2. CASE \E p \in Pairs : LoopSettled(e, p) \/ LoopSeal(e, p)
    BY <2>2 DEF LoopSettled, LoopSeal, TypeOK
  <2>3. CASE \E p \in Pairs : LoopFail(e, p) \/ LoopRetry(e, p)
    BY <2>3 DEF LoopFail, LoopRetry, TypeOK
  <2> QED  BY <1>3, <2>1, <2>2, <2>3 DEF Loop, LoopList, LoopNext, LoopClaim,
       LoopTier, LoopOffline, LoopMark, LoopAward, LoopAwardLost, LoopError, LoopWriteLost
<1>4. ASSUME NEW o \in Operators, Operate(o)  PROVE RowStep(q)
  <2>1. CASE UNCHANGED ledger  BY <2>1
  <2>2. ASSUME NEW accts, NEW mode, Reset(o, accts, mode)  PROVE RowStep(q)
    BY <2>2 DEF Reset, TypeOK
  <2> QED  BY <1>4, <2>1, <2>2 DEF Operate, GrantTier, GrantAll, OpOffline, OpAward,
       OpMark, DemoteClaims, PurgeClaims, PurgeTierSeen, OpError, Reseed, InsertTier
<1>5. ASSUME NEW p \in Pairs, Elapse(p)  PROVE RowStep(q)
  BY <1>5 DEF Elapse, TypeOK
<1>6. CASE Crash  BY <1>6 DEF Crash
<1>7. CASE UNCHANGED ledger  BY <1>7
<1> QED
  BY <1>1, <1>2, <1>3, <1>4, <1>5, <1>6, <1>7
  DEF Next, Progress, Regress, ToggleOnline, ApplyEngine, StopEngine, EditTier

\* RowsConsistent is inductive once a missing row counts no attempts.
RowsInv ==
    /\ RowsConsistent
    /\ \A p \in Pairs : ledger[p].status = "none" => ledger[p].attempts = 0

LEMMA RowsInvStep == TypeOK /\ RowsInv /\ [Next]_vars => RowsInv'
<1> SUFFICES ASSUME TypeOK, RowsInv, [Next]_vars, NEW p \in Pairs
             PROVE  /\ ledger'[p].status = "pending" => ledger'[p].attempts < MaxAttempts
                    /\ ledger'[p].status = "exhausted" => ledger'[p].attempts >= MaxAttempts
                    /\ ledger'[p].status = "none" => ledger'[p].attempts = 0
  BY DEF RowsInv, RowsConsistent
<1>1. RowStep(p)  BY LedgerSteps
<1>2. ledger[p] \in LedgerRow  BY DEF TypeOK
<1> QED
  BY <1>1, <1>2, ConstantTypes
  DEF RowStep, RowsInv, RowsConsistent, LedgerRow, NoRow, PendRow, Sealed, Failed,
      RetryLater, Healed, Unsettled

\* The retry policy is exact, for every bound on the attempts and any number of
\* overlapping loops, resets, heals and re-enqueues: no row shows pending that
\* listRetryableGrantLedger can no longer list, none is exhausted early.
THEOREM RetryPolicyExact == Spec => []RowsConsistent
<1>1. Init => RowsInv
  BY ConstantTypes DEF Init, RowsInv, RowsConsistent, NoRow
<1>2. RowsInv => RowsConsistent  BY DEF RowsInv
<1> QED  BY <1>1, <1>2, RowsInvStep, TypeCorrect, PTL DEF Spec

-----------------------------------------------------------------------------
(* The life of a claim *)

ClaimStep(p) ==
    \/ claim'[p] = claim[p]
    \/ claim[p] = "none" /\ claim'[p] \in {"baseline", "earned"}
    \/ claim[p] = "earned" /\ claim'[p] \in {"baseline", "granted"}
    \/ /\ claim'[p] = "none"
       /\ \E o \in Operators : op[o].pc = "purge" /\ p \in op[o].pairs

LEMMA ClaimSteps == ASSUME TypeOK, [Next]_vars, NEW q \in Pairs PROVE ClaimStep(q)
<1> USE DEF ClaimStep
<1>1. CASE UNCHANGED vars  BY <1>1 DEF vars
<1>2. ASSUME NEW e \in Engines, Scan(e)  PROVE ClaimStep(q)
  <2>1. CASE UNCHANGED claim  BY <2>1
  <2>2. ASSUME NEW p \in Pairs, ScanClaim(e, p)  PROVE ClaimStep(q)
    BY <2>2 DEF ScanClaim, TierAction, Recorded, TypeOK
  <2> QED  BY <1>2, <2>1, <2>2 DEF Scan, ScanBegin, ScanPlayer, ScanEnqueue, ScanSignals,
       ScanSeen, ScanMark, ScanPending, ScanLeave, ScanEnd
<1>3. ASSUME NEW e \in Engines, Loop(e)  PROVE ClaimStep(q)
  <2>1. CASE UNCHANGED claim  BY <2>1
  <2>2. ASSUME NEW p \in Pairs, LoopMark(e, p)  PROVE ClaimStep(q)
    BY <2>2 DEF LoopMark, TypeOK
  <2> QED  BY <1>3, <2>1, <2>2 DEF Loop, LoopList, LoopNext, LoopClaim, LoopSettled,
       LoopTier, LoopOffline, LoopSeal, LoopFail, LoopRetry, LoopAward, LoopAwardLost,
       LoopError, LoopWriteLost
<1>4. ASSUME NEW o \in Operators, Operate(o)  PROVE ClaimStep(q)
  <2>1. CASE UNCHANGED claim  BY <2>1
  <2>2. CASE OpMark(o) \/ DemoteClaims(o)  BY <2>2 DEF OpMark, DemoteClaims, TypeOK
  <2>3. CASE PurgeClaims(o)  BY <2>3 DEF PurgeClaims, TypeOK
  <2> QED  BY <1>4, <2>1, <2>2, <2>3 DEF Operate, GrantTier, GrantAll, OpOffline, OpAward,
       Reset, PurgeTierSeen, OpError, Reseed, InsertTier
<1>5. CASE UNCHANGED claim  BY <1>5
<1> QED
  BY <1>1, <1>2, <1>3, <1>4, <1>5
  DEF Next, Progress, Regress, ToggleOnline, ApplyEngine, StopEngine, Crash, Elapse,
      EditTier, game

\* A claim only moves forward, and is only forgotten by a purge that covers it,
\* whatever snapshots the scans, loops and requests work from.
THEOREM ClaimsMoveForward == Spec => ClaimLifecycle
<1>1. TypeOK /\ [Next]_vars => [\A p \in Pairs : ClaimStep(p)]_vars
  BY ClaimSteps
<1>2. [\A p \in Pairs : ClaimStep(p)]_vars <=>
      [\A p \in Pairs :
          \/ claim'[p] = claim[p]
          \/ claim[p] = "none" /\ claim'[p] \in {"baseline", "earned"}
          \/ claim[p] = "earned" /\ claim'[p] \in {"baseline", "granted"}
          \/ /\ claim'[p] = "none"
             /\ \E o \in Operators : op[o].pc = "purge" /\ p \in op[o].pairs]_vars
  BY DEF ClaimStep
<1> QED  BY <1>1, <1>2, TypeCorrect, PTL DEF Spec, ClaimLifecycle

-----------------------------------------------------------------------------
(* Pre-existing progress *)

\* What the evaluation goroutine is still to treat as unsatisfied was
\* unsatisfied when it was read: the level tiers with the player list, the
\* others with the player's signals.
ScanMerit(e) ==
    /\ scan[e].seen \subseteq merit
    /\ scan[e].pc # "idle" =>
          \A p \in Pairs : p[1] \in LevelTiers /\ p[2] \in scan[e].todo =>
                              p \in scan[e].sat \union merit
    /\ scan[e].pc = "enqueue" =>
          \A p \in scan[e].work : p[1] \in LevelTiers => p \in scan[e].sat \union merit
    /\ scan[e].pc \in {"seen", "apply", "pending"} =>
          scan[e].work \subseteq scan[e].sat \union merit

\* The grant loop attempts one claim at a time, and pays what it saw earned.
LoopMerit(e) ==
    /\ \A p, q \in loop[e].cur : p = q
    /\ loop[e].pc \in {"tier", "offline", "award"} => loop[e].cur \subseteq merit

\* Whatever may still be paid or put on record as earned has merit.
MeritInv ==
    /\ \A p \in Pairs : satisfied[p] \/ p \in merit
    /\ seen \subseteq merit
    /\ \A p \in Pairs : claim[p] \in {"earned", "granted"} => p \in merit
    /\ \A e \in Engines : ScanMerit(e)
    /\ \A e \in Engines : LoopMerit(e)
    /\ \A o \in Operators : op[o].pc \in {"offline", "award"} => op[o].pairs \subseteq merit
    /\ PreexistingNeverPaid

\* merit never shrinks, so what has merit keeps it as long as it is not touched.
LEMMA MeritGrows == TypeOK /\ [Next]_vars => merit \subseteq merit'
<1> SUFFICES ASSUME TypeOK, [Next]_vars PROVE merit \subseteq merit'
  OBVIOUS
<1>1. CASE UNCHANGED vars  BY <1>1 DEF vars
<1>2. ASSUME NEW e \in Engines, Scan(e)  PROVE merit \subseteq merit'
  BY <1>2 DEF Scan, ScanBegin, ScanPlayer, ScanEnqueue, ScanSignals, ScanSeen, ScanMark,
       ScanClaim, ScanPending, ScanLeave, ScanEnd, history
<1>3. ASSUME NEW e \in Engines, Loop(e)  PROVE merit \subseteq merit'
  BY <1>3 DEF Loop, LoopList, LoopNext, LoopClaim, LoopSettled, LoopTier, LoopOffline,
       LoopMark, LoopSeal, LoopFail, LoopRetry, LoopAward, LoopAwardLost, LoopError,
       LoopWriteLost, history
<1>4. ASSUME NEW o \in Operators, Operate(o)  PROVE merit \subseteq merit'
  BY <1>4 DEF Operate, GrantTier, GrantAll, OpOffline, OpAward, OpMark, Reset,
       DemoteClaims, PurgeClaims, PurgeTierSeen, OpError, Reseed, InsertTier, history
<1>5. CASE UNCHANGED merit \/ \E p \in Pairs : Regress(p)  BY <1>5 DEF Regress
<1> QED
  BY <1>1, <1>2, <1>3, <1>4, <1>5
  DEF Next, Progress, ToggleOnline, ApplyEngine, StopEngine, Crash, Elapse, EditTier, history

LEMMA InitMerit == Init => MeritInv
BY DEF Init, MeritInv, ScanMerit, LoopMerit, PreexistingNeverPaid, IdleScan, IdleLoop, IdleOp

\* The evaluation goroutine: each of its steps keeps what it will still decide
\* within merit, and records as earned only what has merit.
LEMMA ScanMeritStep ==
    ASSUME TypeOK, MeritInv, NEW e \in Engines, Scan(e)
    PROVE  /\ ScanMerit(e)'
           /\ seen' \subseteq merit'
           /\ \A p \in Pairs : claim'[p] \in {"earned", "granted"} => p \in merit'
<1> USE DEF game, history
<1>0. /\ scan[e] \in ScanState /\ ScanMerit(e) /\ scan \in [Engines -> ScanState]
      /\ seen \subseteq merit
      /\ \A p \in Pairs : claim[p] \in {"earned", "granted"} => p \in merit
      /\ \A p \in Pairs : satisfied[p] \/ p \in merit
  BY DEF TypeOK, MeritInv
<1>1. CASE ScanBegin(e)
  BY <1>0, <1>1 DEF ScanBegin, SetScan, IdleScan, ScanMerit, ScanState
<1>2. ASSUME NEW a \in Accounts, ScanPlayer(e, a)  PROVE ScanMerit(e)'
  <2>1. scan'[e] = [scan[e] EXCEPT !.pc = "enqueue", !.todo = @ \ {a},
            !.enq = Retroactive(e, a),
            !.work = {p \in Of({a}) : p[1] \in scan[e].tiers /\ claim[p] = "none"}]
    BY <1>0, <1>2 DEF ScanPlayer, SetScan
  <2>2. merit' = merit  BY <1>2 DEF ScanPlayer
  <2>3. scan[e].pc = "players" /\ a \in scan[e].todo  BY <1>2 DEF ScanPlayer
  <2> QED  BY <1>0, <2>1, <2>2, <2>3 DEF ScanMerit, ScanState, Of
<1>3. CASE \E p \in Pairs : ScanEnqueue(e, p)
  BY <1>0, <1>3 DEF ScanEnqueue, SetScan, ScanMerit, ScanState
<1>4. CASE ScanSignals(e)
  BY <1>0, <1>4 DEF ScanSignals, SetScan, ScanMerit, ScanState
<1>5. CASE ScanSeen(e)
  BY <1>0, <1>5 DEF ScanSeen, SetScan, ScanMerit, ScanState
<1>6. ASSUME NEW p \in Pairs, ScanMark(e, p)
      PROVE  ScanMerit(e)' /\ seen' \subseteq merit'
  BY <1>0, <1>6 DEF ScanMark, SetScan, ScanMerit, ScanState
<1>7. ASSUME NEW p \in Pairs, ScanClaim(e, p)
      PROVE  /\ ScanMerit(e)'
             /\ \A q \in Pairs : claim'[q] \in {"earned", "granted"} => q \in merit'
  <2> DEFINE status == TierAction(p \in scan[e].seen, engine[e].awardPast)
  <2>1. merit \subseteq merit' /\ (engine[e].awardPast => p \in merit')
    BY <1>7 DEF ScanClaim, TypeOK
  <2>2. status \in {"earned", "granted"} => p \in merit'
    BY <1>0, <2>1 DEF TierAction, ScanMerit
  <2>3. claim' = [claim EXCEPT ![p] = Recorded(claim[p], status)]
    BY <1>7 DEF ScanClaim
  <2>4. \A q \in Pairs : claim'[q] \in {"earned", "granted"} => q \in merit'
    BY <1>0, <2>1, <2>2, <2>3 DEF Recorded, TypeOK
  <2>5. \/ scan'[e] = [scan[e] EXCEPT !.pc = "pending", !.work = @ \ {p}, !.enq = {p}]
        \/ scan'[e] = [scan[e] EXCEPT !.work = @ \ {p}]
    BY <1>0, <1>7 DEF ScanClaim, SetScan
  <2>6. scan[e].pc = "apply"  BY <1>7 DEF ScanClaim
  <2>7. ScanMerit(e)'  BY <1>0, <2>1, <2>5, <2>6 DEF ScanMerit, ScanState
  <2> QED  BY <2>4, <2>7
<1>8. CASE \E p \in Pairs : ScanPending(e, p)
  BY <1>0, <1>8 DEF ScanPending, SetScan, ScanMerit, ScanState
<1>9. CASE ScanLeave(e)
  BY <1>0, <1>9, PairParts DEF ScanLeave, SetScan, ScanMerit, ScanState, Of
<1>10. CASE ScanEnd(e)
  BY <1>0, <1>10 DEF ScanEnd, SetScan, IdleScan, ScanMerit, ScanState
<1>11. seen' = seen \/ \E p \in Pairs : ScanMark(e, p)
  BY DEF Scan, ScanBegin, ScanPlayer, ScanEnqueue, ScanSignals, ScanSeen, ScanClaim,
         ScanPending, ScanLeave, ScanEnd
<1>12. claim' = claim \/ \E p \in Pairs : ScanClaim(e, p)
  BY DEF Scan, ScanBegin, ScanPlayer, ScanEnqueue, ScanSignals, ScanSeen, ScanMark,
         ScanPending, ScanLeave, ScanEnd
<1>13. merit \subseteq merit'  BY MeritGrows DEF Next
<1>14. ScanMerit(e)'
  BY <1>1, <1>2, <1>3, <1>4, <1>5, <1>6, <1>7, <1>8, <1>9, <1>10 DEF Scan
<1>15. seen' \subseteq merit'  BY <1>0, <1>6, <1>11, <1>13
<1>16. \A p \in Pairs : claim'[p] \in {"earned", "granted"} => p \in merit'
  BY <1>0, <1>7, <1>12, <1>13
<1> QED  BY <1>14, <1>15, <1>16

\* The grant loop: it pays only a claim that it saw earned.
LEMMA LoopMeritStep ==
    ASSUME TypeOK, MeritInv, NEW e \in Engines, Loop(e)
    PROVE  /\ LoopMerit(e)'
           /\ \A p \in Pairs : claim'[p] \in {"earned", "granted"} => p \in merit'
           /\ \A p \in Pairs : paid'[p] > 0 => p \in merit'
<1> USE DEF game, history
<1>0. /\ loop \in [Engines -> LoopState] /\ loop[e] \in LoopState /\ LoopMerit(e)
      /\ paid \in [Pairs -> 0..2] /\ claim \in [Pairs -> ClaimStatus]
      /\ \A p \in Pairs : claim[p] \in {"earned", "granted"} => p \in merit
      /\ \A p \in Pairs : paid[p] > 0 => p \in merit
  BY DEF TypeOK, MeritInv, PreexistingNeverPaid
<1>m. merit' = merit
  BY DEF Loop, LoopList, LoopNext, LoopClaim, LoopSettled, LoopTier, LoopOffline, LoopMark,
         LoopSeal, LoopFail, LoopRetry, LoopAward, LoopAwardLost, LoopError, LoopWriteLost
<1>1. CASE LoopList(e)
  BY <1>0, <1>1, <1>m DEF LoopList, SetLoop, IdleLoop, LoopMerit
<1>2. ASSUME NEW p \in Pairs, LoopNext(e, p)  PROVE LoopMerit(e)'
  <2>1. loop'[e].pc \in {"idle", "claim"} /\ loop'[e].cur \in {loop[e].cur, {p}}
    BY <1>0, <1>2 DEF LoopNext, SetLoop, LoopState
  <2>2. \A q, r \in loop'[e].cur : q = r
    BY <1>0, <2>1 DEF LoopMerit
  <2> QED  BY <2>1, <2>2 DEF LoopMerit
<1>3. ASSUME NEW p \in Pairs, LoopClaim(e, p)  PROVE LoopMerit(e)'
  <2>1. loop'[e] = [loop[e] EXCEPT !.pc = IF claim[p] = "earned" THEN "tier" ELSE "settled"]
    BY <1>0, <1>3 DEF LoopClaim, At, SetLoop
  <2>2. p \in loop[e].cur  BY <1>3 DEF LoopClaim
  <2>3. CASE claim[p] = "earned"
    <3>1. p \in merit  BY <1>0, <2>3
    <3> QED  BY <1>0, <1>m, <2>1, <2>2, <2>3, <3>1 DEF LoopMerit, LoopState
  <2>4. CASE claim[p] # "earned"
    BY <1>0, <1>m, <2>1, <2>4 DEF LoopMerit, LoopState
  <2> QED  BY <2>3, <2>4
<1>4. ASSUME NEW p \in Pairs, LoopTier(e, p) \/ LoopOffline(e, p)  PROVE LoopMerit(e)'
  <2>1. /\ loop[e].pc \in {"tier", "offline"}
        /\ \E pc \in {"fail", "offline", "retry", "award"} :
              loop'[e] = [loop[e] EXCEPT !.pc = pc]
    BY <1>0, <1>4 DEF LoopTier, LoopOffline, At, SetLoop
  <2> QED  BY <1>0, <1>m, <2>1 DEF LoopMerit, LoopState
\* The other steps leave the paying part of the loop or end the attempt.
<1>5. ASSUME \E pc \in {"mark", "seal", "fail"} : At(e, pc)  PROVE LoopMerit(e)'
  BY <1>0, <1>m, <1>5 DEF At, SetLoop, LoopMerit, LoopState
<1>6. ASSUME EndAttempt(e)  PROVE LoopMerit(e)'
  BY <1>0, <1>m, <1>6 DEF EndAttempt, SetLoop, LoopMerit, LoopState
<1>7. LoopMerit(e)'
  BY <1>1, <1>2, <1>3, <1>4, <1>5, <1>6
  DEF Loop, LoopSettled, LoopMark, LoopSeal, LoopFail, LoopRetry, LoopAward,
      LoopAwardLost, LoopError, LoopWriteLost
<1>8. \A p \in Pairs : claim'[p] \in {"earned", "granted"} => p \in merit'
  <2>1. CASE claim' = claim  BY <1>0, <1>m, <2>1
  <2>2. ASSUME NEW q \in Pairs, LoopMark(e, q)
        PROVE  \A p \in Pairs : claim'[p] \in {"earned", "granted"} => p \in merit'
    BY <1>0, <1>m, <2>2 DEF LoopMark
  <2> QED
    BY <2>1, <2>2 DEF Loop, LoopList, LoopNext, LoopClaim, LoopSettled, LoopTier,
       LoopOffline, LoopSeal, LoopFail, LoopRetry, LoopAward, LoopAwardLost, LoopError,
       LoopWriteLost
<1>9. \A p \in Pairs : paid'[p] > 0 => p \in merit'
  <2>1. CASE paid' = paid  BY <1>0, <1>m, <2>1
  <2>2. CASE LoopAward(e) \/ LoopAwardLost(e)
    <3>1. loop[e].cur \subseteq merit  BY <1>0, <2>2 DEF LoopAward, LoopAwardLost, LoopMerit
    <3>2. Pay(loop[e].cur)  BY <2>2 DEF LoopAward, LoopAwardLost
    <3> DEFINE cur == loop[e].cur
    <3>3. paid' = [p \in Pairs |-> IF p \in cur THEN IF paid[p] = 0 THEN 1 ELSE 2
                                   ELSE paid[p]]
      BY <3>2 DEF Pay
    <3>4. cur \subseteq merit  BY <3>1
    <3> HIDE DEF cur
    <3> QED  BY <1>0, <1>m, <3>3, <3>4
  <2> QED
    BY <2>1, <2>2 DEF Loop, LoopList, LoopNext, LoopClaim, LoopSettled, LoopTier,
       LoopOffline, LoopMark, LoopSeal, LoopFail, LoopRetry, LoopError, LoopWriteLost
<1> QED  BY <1>7, <1>8, <1>9

\* An operator pays only claims that he saw earned.
LEMMA OperateMeritStep ==
    ASSUME TypeOK, MeritInv, NEW o \in Operators, Operate(o)
    PROVE  /\ op'[o].pc \in {"offline", "award"} => op'[o].pairs \subseteq merit'
           /\ seen' \subseteq merit'
           /\ \A p \in Pairs : claim'[p] \in {"earned", "granted"} => p \in merit'
           /\ \A p \in Pairs : paid'[p] > 0 => p \in merit'
<1> USE DEF game, history
<1>0. /\ op \in [Operators -> OpState] /\ op[o] \in OpState /\ seen \subseteq merit
      /\ op[o].pc \in {"offline", "award"} => op[o].pairs \subseteq merit
      /\ paid \in [Pairs -> 0..2] /\ claim \in [Pairs -> ClaimStatus]
      /\ \A p \in Pairs : claim[p] \in {"earned", "granted"} => p \in merit
      /\ \A p \in Pairs : paid[p] > 0 => p \in merit
  BY DEF TypeOK, MeritInv, PreexistingNeverPaid
<1>m. merit' = merit
  BY DEF Operate, GrantTier, GrantAll, OpOffline, OpAward, OpMark, Reset, DemoteClaims,
         PurgeClaims, PurgeTierSeen, OpError, Reseed, InsertTier
<1>1. op'[o].pc \in {"offline", "award"} => op'[o].pairs \subseteq merit'
  <2>1. CASE \E p \in Pairs : GrantTier(o, p)
    BY <1>0, <1>m, <2>1 DEF GrantTier, SetOp, IdleOp
  <2>2. CASE \E a \in Accounts : GrantAll(o, a)
    BY <1>0, <1>m, <2>2 DEF GrantAll, SetOp, IdleOp, Of
  <2>3. CASE OpOffline(o)
    BY <1>0, <1>m, <2>3 DEF OpOffline, SetOp, IdleOp, OpState
  <2>4. CASE op'[o].pc \notin {"offline", "award"}  BY <2>4
  <2>5. ASSUME NEW r, SetOp(o, r), r.pc \notin {"offline", "award"}
        PROVE  op'[o].pc \notin {"offline", "award"}
    BY <1>0, <2>5 DEF SetOp
  <2>6. SetOp(o, IdleOp) => op'[o].pc \notin {"offline", "award"}
    BY <2>5 DEF IdleOp
  <2>7. OpAward(o) => op'[o].pc \notin {"offline", "award"}
    BY <1>0, <2>6 DEF OpAward, SetOp, OpState
  <2>8. ASSUME NEW accts, NEW mode \in {"demote", "purge"}, Reset(o, accts, mode)
        PROVE  op'[o].pc \notin {"offline", "award"}
    BY <1>0, <2>8 DEF Reset, SetOp, IdleOp
  <2>9. PurgeClaims(o) => op'[o].pc \notin {"offline", "award"}
    BY <1>0 DEF PurgeClaims, SetOp, OpState
  <2>10. ASSUME NEW tiers, Reseed(o, tiers)  PROVE op'[o].pc \notin {"offline", "award"}
    BY <1>0, <2>10 DEF Reseed, SetOp, IdleOp
  <2>11. ASSUME NEW t, NEW state, InsertTier(o, t, state)
         PROVE  op'[o].pc \notin {"offline", "award"}
    BY <1>0, <2>11 DEF InsertTier, SetOp, IdleOp, OpState
  <2> QED
    BY <2>1, <2>2, <2>3, <2>4, <2>6, <2>7, <2>8, <2>9, <2>10, <2>11
    DEF Operate, OpMark, DemoteClaims, PurgeTierSeen, OpError
<1>2. seen' \subseteq merit'
  BY <1>0, <1>m DEF Operate, GrantTier, GrantAll, OpOffline, OpAward, OpMark, Reset,
     DemoteClaims, PurgeClaims, PurgeTierSeen, OpError, Reseed, InsertTier
<1>3. \A p \in Pairs : claim'[p] \in {"earned", "granted"} => p \in merit'
  <2>1. CASE claim' = claim  BY <1>0, <1>m, <2>1
  <2>2. CASE OpMark(o) \/ DemoteClaims(o) \/ PurgeClaims(o)
    BY <1>0, <1>m, <2>2 DEF OpMark, DemoteClaims, PurgeClaims
  <2> QED
    BY <2>1, <2>2 DEF Operate, GrantTier, GrantAll, OpOffline, OpAward, Reset,
       PurgeTierSeen, OpError, Reseed, InsertTier
<1>4. \A p \in Pairs : paid'[p] > 0 => p \in merit'
  <2>1. CASE paid' = paid  BY <1>0, <1>m, <2>1
  <2>2. CASE OpAward(o)
    <3>1. op[o].pairs \subseteq merit /\ Pay(op[o].pairs)  BY <1>0, <2>2 DEF OpAward
    <3> QED  BY <1>0, <1>m, <3>1 DEF Pay
  <2> QED
    BY <2>1, <2>2 DEF Operate, GrantTier, GrantAll, OpOffline, OpMark, Reset, DemoteClaims,
       PurgeClaims, PurgeTierSeen, OpError, Reseed, InsertTier
<1> QED  BY <1>1, <1>2, <1>3, <1>4

\* What an actor has read keeps its merit while another actor moves.
LEMMA OthersKeepMerit ==
    ASSUME MeritInv, merit \subseteq merit'
    PROVE  /\ \A e \in Engines : scan'[e] = scan[e] => ScanMerit(e)'
           /\ \A e \in Engines : loop'[e] = loop[e] => LoopMerit(e)'
           /\ \A o \in Operators : op'[o] = op[o] =>
                 (op'[o].pc \in {"offline", "award"} => op'[o].pairs \subseteq merit')
BY DEF MeritInv, ScanMerit, LoopMerit

LEMMA MeritStep == TypeOK /\ MeritInv /\ [Next]_vars => MeritInv'
<1> USE DEF game, history
<1> SUFFICES ASSUME TypeOK, MeritInv, [Next]_vars  PROVE MeritInv'
  OBVIOUS
<1>m. merit \subseteq merit'  BY MeritGrows
<1>p. /\ \A p \in Pairs : satisfied[p] \/ p \in merit
      /\ seen \subseteq merit
      /\ \A p \in Pairs : claim[p] \in {"earned", "granted"} => p \in merit
      /\ \A p \in Pairs : paid[p] > 0 => p \in merit
  BY DEF MeritInv, PreexistingNeverPaid
<1>1. CASE UNCHANGED vars  BY <1>1, <1>m, <1>p, OthersKeepMerit DEF vars, MeritInv, PreexistingNeverPaid
<1>2. ASSUME NEW e \in Engines, Scan(e)  PROVE MeritInv'
  <2>1. /\ UNCHANGED <<satisfied, loop, op, paid>>
        /\ \A f \in Engines \ {e} : scan'[f] = scan[f]
    BY <1>2 DEF TypeOK, SetScan, Scan, ScanBegin, ScanPlayer, ScanEnqueue, ScanSignals,
       ScanSeen, ScanMark, ScanClaim, ScanPending, ScanLeave, ScanEnd
  <2>2. \A f \in Engines : ScanMerit(f)'
    BY <1>2, <1>m, <2>1, ScanMeritStep, OthersKeepMerit
  <2> QED
    BY <1>2, <1>m, <1>p, <2>1, <2>2, ScanMeritStep, OthersKeepMerit
    DEF MeritInv, PreexistingNeverPaid
<1>3. ASSUME NEW e \in Engines, Loop(e)  PROVE MeritInv'
  <2>1. /\ UNCHANGED <<satisfied, seen, scan, op>>
        /\ \A f \in Engines \ {e} : loop'[f] = loop[f]
    BY <1>3 DEF TypeOK, SetLoop, At, EndAttempt, Loop, LoopList, LoopNext, LoopClaim,
       LoopSettled, LoopTier, LoopOffline, LoopMark, LoopSeal, LoopFail, LoopRetry,
       LoopAward, LoopAwardLost, LoopError, LoopWriteLost
  <2>2. \A f \in Engines : LoopMerit(f)'
    BY <1>3, <1>m, <2>1, LoopMeritStep, OthersKeepMerit
  <2> QED
    BY <1>3, <1>m, <1>p, <2>1, <2>2, LoopMeritStep, OthersKeepMerit
    DEF MeritInv, PreexistingNeverPaid
<1>4. ASSUME NEW o \in Operators, Operate(o)  PROVE MeritInv'
  <2>1. /\ UNCHANGED <<satisfied, scan, loop>>
        /\ \A x \in Operators \ {o} : op'[x] = op[x]
    BY <1>4 DEF TypeOK, SetOp, Operate, GrantTier, GrantAll, OpOffline, OpAward, OpMark,
       Reset, DemoteClaims, PurgeClaims, PurgeTierSeen, OpError, Reseed, InsertTier
  <2>2. \A x \in Operators :
           op'[x].pc \in {"offline", "award"} => op'[x].pairs \subseteq merit'
    BY <1>4, <1>m, <2>1, OperateMeritStep, OthersKeepMerit
  <2> QED
    BY <1>4, <1>m, <1>p, <2>1, <2>2, OperateMeritStep, OthersKeepMerit
    DEF MeritInv, PreexistingNeverPaid
<1>5. ASSUME NEW p \in Pairs, Progress(p) \/ Regress(p)  PROVE MeritInv'
  <2>1. \A q \in Pairs : satisfied'[q] \/ q \in merit'
    BY <1>p, <1>5 DEF Progress, Regress, TypeOK
  <2> QED
    BY <1>5, <1>m, <1>p, <2>1, OthersKeepMerit
    DEF Progress, Regress, MeritInv, PreexistingNeverPaid
<1>6. CASE Crash
  <2>1. /\ \A e \in Engines : ScanMerit(e)' /\ LoopMerit(e)'
        /\ \A o \in Operators :
              op'[o].pc \in {"offline", "award"} => op'[o].pairs \subseteq merit'
    BY <1>6 DEF Crash, IdleScan, IdleLoop, IdleOp, ScanMerit, LoopMerit
  <2> QED
    BY <1>6, <1>m, <1>p, <2>1 DEF Crash, MeritInv, PreexistingNeverPaid
<1>7. CASE UNCHANGED <<satisfied, claim, seen, scan, loop, op, paid>>
  BY <1>7, <1>m, <1>p, OthersKeepMerit DEF MeritInv, PreexistingNeverPaid
<1> QED
  BY <1>1, <1>2, <1>3, <1>4, <1>5, <1>6, <1>7
  DEF Next, ToggleOnline, ApplyEngine, StopEngine, Elapse, EditTier

\* Issue #297: progress that predates the server is never paid, for any number
\* of overlapping incarnations, operators and crashes, and whatever is read
\* before it is used.
THEOREM PreexistingProgressNeverPaid == Spec => []PreexistingNeverPaid
<1>1. MeritInv => PreexistingNeverPaid  BY DEF MeritInv
<1> QED  BY <1>1, InitMerit, MeritStep, TypeCorrect, PTL DEF Spec

-----------------------------------------------------------------------------
(* What is granted was paid exactly once                                   *)

\* One incarnation of the engine pays the claims: a successor waits until its
\* predecessor's goroutines are through, no operator grants by hand, and a call
\* of the game database that fails has had no effect.
LeftAlone ==
    /\ \A d, e \in Engines : d = e
    /\ Handlers \intersect {"grantTier", "grantAll"} = {}
    /\ Faults \subseteq {"fail"}

\* An attempt is for one claim, and has paid it exactly when its award is behind
\* it (LoopAward goes to "mark", everything that gives up leads elsewhere).
AttemptInv(e) ==
    /\ loop[e].pc = "idle" => loop[e].cur = {}
    /\ \A p, q \in loop[e].cur : p = q
    /\ \A p \in loop[e].cur :
          IF loop[e].pc \in {"mark", "seal"} THEN paid[p] = 1 ELSE paid[p] = 0

\* What was paid is on record, unless its attempt is still under way.
OnRecord(p) ==
    paid[p] > 0 => \/ ledger[p].status = "granted"
                   \/ \E e \in Engines : p \in loop[e].cur

PaymentInv ==
    /\ PaymentsExact
    /\ \A e \in Engines : AttemptInv(e)
    /\ \A p \in Pairs : OnRecord(p)
    /\ \A o \in Operators : op[o].pc \notin {"offline", "award", "mark"}

LEMMA InitPayment == Init => PaymentInv
BY DEF Init, PaymentInv, PaymentsExact, PaidAtMostOnce, GrantedIsPaid, AttemptInv, OnRecord,
       IdleLoop, IdleOp

\* Outside the grant loop nothing is paid, nothing becomes granted and no granted
\* row of the ledger changes.
LEMMA OthersKeepPayments ==
    ASSUME TypeOK, PaymentInv, paid' = paid, loop' = loop,
           \A p \in Pairs : claim'[p] = "granted" => claim[p] = "granted",
           \A p \in Pairs : ledger[p].status = "granted" => ledger'[p].status = "granted",
           \A o \in Operators : op'[o].pc \notin {"offline", "award", "mark"}
    PROVE  PaymentInv'
BY DEF PaymentInv, PaymentsExact, PaidAtMostOnce, GrantedIsPaid, AttemptInv, OnRecord

LEMMA ScanKeepsPayments ==
    ASSUME TypeOK, PaymentInv, NEW e \in Engines, Scan(e)
    PROVE  PaymentInv'
<1>1. paid' = paid /\ loop' = loop /\ op' = op
  BY DEF Scan, ScanBegin, ScanPlayer, ScanEnqueue, ScanSignals, ScanSeen, ScanMark,
         ScanClaim, ScanPending, ScanLeave, ScanEnd, history
<1>2. ASSUME NEW q \in Pairs, claim'[q] = "granted"  PROVE claim[q] = "granted"
  <2>1. CASE UNCHANGED claim  BY <1>2, <2>1
  <2>2. ASSUME NEW p \in Pairs, ScanClaim(e, p)  PROVE claim[q] = "granted"
    BY <1>2, <2>2 DEF ScanClaim, TierAction, Recorded, TypeOK
  <2> QED  BY <2>1, <2>2 DEF Scan, ScanBegin, ScanPlayer, ScanEnqueue, ScanSignals,
       ScanSeen, ScanMark, ScanPending, ScanLeave, ScanEnd
<1>3. ASSUME NEW q \in Pairs, ledger[q].status = "granted"  PROVE ledger'[q].status = "granted"
  <2>1. CASE UNCHANGED ledger  BY <1>3, <2>1
  <2>2. CASE \E p \in Pairs : RecordPendingGrant(p)
    BY <1>3, <2>2 DEF RecordPendingGrant, TypeOK
  <2> QED  BY <2>1, <2>2 DEF Scan, ScanBegin, ScanPlayer, ScanEnqueue, ScanSignals,
       ScanSeen, ScanMark, ScanClaim, ScanPending, ScanLeave, ScanEnd
<1>4. \A o \in Operators : op'[o].pc \notin {"offline", "award", "mark"}
  BY <1>1 DEF PaymentInv
<1> QED  BY <1>1, <1>2, <1>3, <1>4, OthersKeepPayments

LEMMA OperateKeepsPayments ==
    ASSUME LeftAlone, TypeOK, PaymentInv, NEW o \in Operators, Operate(o)
    PROVE  PaymentInv'
<1>0. op[o].pc \notin {"offline", "award", "mark"} /\ op \in [Operators -> OpState]
  BY DEF PaymentInv, TypeOK
<1>1. "grantTier" \notin Handlers /\ "grantAll" \notin Handlers  BY DEF LeftAlone
<1>2. \/ \E accts : \E mode \in {"demote", "purge"} : Reset(o, accts, mode)
      \/ DemoteClaims(o) \/ PurgeClaims(o) \/ PurgeTierSeen(o) \/ OpError(o)
      \/ \E tiers : Reseed(o, tiers)
      \/ \E t, state : InsertTier(o, t, state)
  BY <1>0, <1>1 DEF Operate, GrantTier, GrantAll, OpOffline, OpAward, OpMark
<1>3. paid' = paid /\ loop' = loop
  BY <1>2 DEF Reset, DemoteClaims, PurgeClaims, PurgeTierSeen, OpError, Reseed,
              InsertTier, history
<1>4. ASSUME NEW q \in Pairs, claim'[q] = "granted"  PROVE claim[q] = "granted"
  <2>1. CASE UNCHANGED claim  BY <1>4, <2>1
  <2>2. CASE DemoteClaims(o) \/ PurgeClaims(o)
    BY <1>4, <2>2 DEF DemoteClaims, PurgeClaims
  <2> QED  BY <1>2, <2>1, <2>2 DEF Reset, PurgeTierSeen, OpError, Reseed, InsertTier
<1>5. ASSUME NEW q \in Pairs, ledger[q].status = "granted"  PROVE ledger'[q].status = "granted"
  <2>1. CASE UNCHANGED ledger  BY <1>5, <2>1
  <2>2. ASSUME NEW accts, NEW mode, Reset(o, accts, mode)  PROVE ledger'[q].status = "granted"
    BY <1>5, <2>2 DEF Reset, Unsettled
  <2> QED  BY <1>2, <2>1, <2>2 DEF DemoteClaims, PurgeClaims, PurgeTierSeen, OpError,
                                   Reseed, InsertTier
<1> DEFINE Written == \E r \in OpState : /\ op' = [op EXCEPT ![o] = r]
                                        /\ r.pc \notin {"offline", "award", "mark"}
<1>6. Written
  <2>1. IdleOp \in OpState /\ IdleOp.pc = "idle"  BY DEF IdleOp, OpState
  <2>2. ASSUME NEW accts, NEW mode \in {"demote", "purge"}, Reset(o, accts, mode)
        PROVE  Written
    <3> DEFINE r == [IdleOp EXCEPT !.pc = mode, !.pairs = Of(accts)]
    <3>1. r \in OpState /\ r.pc = mode  BY <2>2, <2>1 DEF IdleOp, OpState, Of
    <3>2. op' = [op EXCEPT ![o] = r]  BY <2>2 DEF Reset, SetOp
    <3> HIDE DEF r
    <3> QED  BY <2>2, <3>1, <3>2
  <2>3. CASE DemoteClaims(o) \/ PurgeTierSeen(o) \/ OpError(o)
    BY <2>1, <2>3 DEF DemoteClaims, PurgeTierSeen, OpError, SetOp
  <2>4. CASE PurgeClaims(o)
    <3> DEFINE r == [op[o] EXCEPT !.pc = "purgeSeen"]
    <3>1. r \in OpState /\ r.pc = "purgeSeen"  BY <1>0 DEF OpState
    <3>2. op' = [op EXCEPT ![o] = r]  BY <2>4 DEF PurgeClaims, SetOp
    <3> HIDE DEF r
    <3> QED  BY <3>1, <3>2
  <2>5. ASSUME NEW tiers, Reseed(o, tiers), tiers \subseteq Tiers  PROVE Written
    <3> DEFINE r == [IdleOp EXCEPT !.pc = "insert", !.tiers = tiers]
    <3>1. r \in OpState /\ r.pc = "insert"  BY <2>5 DEF IdleOp, OpState
    <3>2. op' = [op EXCEPT ![o] = r]  BY <2>5 DEF Reseed, SetOp
    <3> HIDE DEF r
    <3> QED  BY <3>1, <3>2
  <2>6. ASSUME NEW t, NEW state, InsertTier(o, t, state)  PROVE Written
    <3> DEFINE r == [op[o] EXCEPT !.tiers = @ \ {t}]
    <3>1. r \in OpState /\ r.pc = "insert"  BY <1>0, <2>6 DEF OpState, InsertTier
    <3>2. op' = [op EXCEPT ![o] = r] \/ op' = [op EXCEPT ![o] = IdleOp]
      BY <2>6 DEF InsertTier, SetOp
    <3> HIDE DEF r
    <3> QED  BY <2>1, <3>1, <3>2
  <2> QED  BY <1>0, <1>1, <2>2, <2>3, <2>4, <2>5, <2>6
           DEF Operate, GrantTier, GrantAll, OpOffline, OpAward, OpMark
<1>7. \A d \in Operators : op'[d].pc \notin {"offline", "award", "mark"}
  BY <1>0, <1>6 DEF PaymentInv
<1> QED  BY <1>3, <1>4, <1>5, <1>7, OthersKeepPayments

\* A step of the loop that leaves the claims, the payments and the granted rows
\* alone only has to keep its own attempt.
LEMMA QuietLoopStep ==
    ASSUME LeftAlone, TypeOK, PaymentInv, NEW e \in Engines, NEW l \in LoopState,
           loop' = [loop EXCEPT ![e] = l], paid' = paid, claim' = claim, op' = op,
           \A p \in Pairs : paid[p] > 0 =>
               \/ ledger'[p].status = "granted"
               \/ p \in l.cur,
           l.pc = "idle" => l.cur = {},
           \A p, q \in l.cur : p = q,
           \A p \in l.cur : IF l.pc \in {"mark", "seal"} THEN paid[p] = 1 ELSE paid[p] = 0
    PROVE  PaymentInv'
<1>0. loop' \in [Engines -> LoopState] /\ loop'[e] = l /\ \A f \in Engines : f = e
  BY DEF TypeOK, LeftAlone
<1>1. \A f \in Engines : AttemptInv(f)'  BY <1>0 DEF AttemptInv
<1>2. \A p \in Pairs : OnRecord(p)'  BY <1>0 DEF OnRecord
<1> QED  BY <1>1, <1>2 DEF PaymentInv, PaymentsExact, PaidAtMostOnce, GrantedIsPaid

LEMMA LoopKeepsPayments ==
    ASSUME LeftAlone, TypeOK, PaymentInv, NEW e \in Engines, Loop(e)
    PROVE  PaymentInv'
<1>0. /\ loop \in [Engines -> LoopState] /\ loop[e] \in LoopState
      /\ \A f \in Engines : f = e
      /\ AttemptInv(e)
      /\ \A p \in Pairs : OnRecord(p)
      /\ "lost" \notin Faults /\ "store" \notin Faults
      /\ paid \in [Pairs -> 0..2] /\ ledger \in [Pairs -> LedgerRow]
      /\ claim \in [Pairs -> ClaimStatus]
  BY DEF TypeOK, LeftAlone, PaymentInv
<1>r. \A p \in Pairs : paid[p] > 0 => ledger[p].status = "granted" \/ p \in loop[e].cur
  BY <1>0 DEF OnRecord
\* The attempt moves on to another statement of the same phase.
<1>a. ASSUME NEW pc \in {"claim", "settled", "tier", "offline", "award", "fail", "retry"},
             loop[e].pc \notin {"idle", "mark", "seal"}, At(e, pc),
             UNCHANGED <<claim, ledger, op, paid>>
      PROVE  PaymentInv'
  <2> DEFINE l == [loop[e] EXCEPT !.pc = pc]
  <2>1. l \in LoopState /\ l.pc = pc /\ l.cur = loop[e].cur  BY <1>0 DEF LoopState
  <2>2. loop' = [loop EXCEPT ![e] = l]  BY <1>a DEF At, SetLoop
  <2> HIDE DEF l
  <2>3. /\ \A p, q \in l.cur : p = q
        /\ \A p \in l.cur : paid[p] = 0
    BY <1>0, <1>a, <2>1 DEF AttemptInv
  <2>4. \A p \in Pairs : paid[p] > 0 => ledger'[p].status = "granted" \/ p \in l.cur
    BY <1>a, <1>r, <2>1
  <2> QED  BY <1>a, <2>1, <2>2, <2>3, <2>4, QuietLoopStep
\* The attempt ends: what it paid is sealed.
<1>b. ASSUME EndAttempt(e), UNCHANGED <<claim, op, paid>>,
             \A p \in Pairs : paid[p] > 0 => ledger'[p].status = "granted"
      PROVE  PaymentInv'
  <2> DEFINE l == [loop[e] EXCEPT !.pc = "idle", !.cur = {}]
  <2>1. l \in LoopState /\ l.pc = "idle" /\ l.cur = {}  BY <1>0 DEF LoopState
  <2>2. loop' = [loop EXCEPT ![e] = l]  BY <1>b DEF EndAttempt, SetLoop
  <2> HIDE DEF l
  <2> QED  BY <1>0, <1>b, <2>1, <2>2, QuietLoopStep
<1>1. CASE LoopList(e)
  <2> DEFINE l == [IdleLoop EXCEPT !.queue = {p \in Pairs : Retryable(ledger[p])}]
  <2>1. l \in LoopState /\ l.pc = "idle" /\ l.cur = {}  BY DEF LoopState, IdleLoop
  <2>2. loop[e].cur = {}  BY <1>1 DEF LoopList, IdleLoop
  <2>3. loop' = [loop EXCEPT ![e] = l] /\ UNCHANGED <<claim, ledger, op, paid>>
    BY <1>1 DEF LoopList, SetLoop, history
  <2> HIDE DEF l
  <2> QED  BY <1>0, <1>r, <2>1, <2>2, <2>3, QuietLoopStep
<1>2. ASSUME NEW p \in Pairs, LoopNext(e, p)  PROVE PaymentInv'
  <2> DEFINE l == IF ledger[p].status = "granted"
                  THEN [loop[e] EXCEPT !.queue = @ \ {p}]
                  ELSE [loop[e] EXCEPT !.queue = @ \ {p}, !.cur = {p}, !.pc = "claim"]
  <2>1. loop[e].pc = "idle" /\ loop[e].cur = {}  BY <1>0, <1>2 DEF LoopNext, AttemptInv
  <2>2. /\ l \in LoopState
        /\ \/ l.pc = "idle" /\ l.cur = {}
           \/ ledger[p].status # "granted" /\ l.pc = "claim" /\ l.cur = {p}
    BY <1>0, <2>1 DEF LoopState
  <2>3. loop' = [loop EXCEPT ![e] = l] /\ UNCHANGED <<claim, ledger, op, paid>>
    BY <1>2 DEF LoopNext, SetLoop, history
  <2>4. ledger[p].status # "granted" => paid[p] = 0  BY <1>0, <1>r, <2>1
  <2> HIDE DEF l
  <2> QED  BY <1>0, <1>r, <2>1, <2>2, <2>3, <2>4, QuietLoopStep
<1>3. ASSUME NEW p \in Pairs, LoopClaim(e, p)  PROVE PaymentInv'
  BY <1>a, <1>3 DEF LoopClaim, history
<1>4. ASSUME NEW p \in Pairs, LoopSettled(e, p) \/ LoopSeal(e, p)  PROVE PaymentInv'
  <2>1. p \in loop[e].cur /\ ledger' = [ledger EXCEPT ![p] = Sealed(@)]
    BY <1>4 DEF LoopSettled, LoopSeal
  <2>2. \A q \in Pairs : paid[q] > 0 => ledger'[q].status = "granted"
    BY <1>0, <1>r, <2>1 DEF AttemptInv, Sealed
  <2> QED  BY <1>b, <1>4, <2>2 DEF LoopSettled, LoopSeal, history
<1>5. ASSUME NEW p \in Pairs, LoopTier(e, p)  PROVE PaymentInv'
  BY <1>a, <1>5 DEF LoopTier, history
<1>6. ASSUME NEW p \in Pairs, LoopOffline(e, p)  PROVE PaymentInv'
  BY <1>a, <1>6 DEF LoopOffline, history
<1>7. ASSUME NEW p \in Pairs, LoopFail(e, p) \/ LoopRetry(e, p)  PROVE PaymentInv'
  <2>1. p \in loop[e].cur /\ loop[e].pc \in {"fail", "retry"}
    BY <1>7 DEF LoopFail, LoopRetry
  <2>2. \A q \in Pairs \ {p} : ledger'[q] = ledger[q]
    BY <1>0, <1>7 DEF LoopFail, LoopRetry
  <2>3. paid[p] = 0 /\ loop[e].cur = {p}  BY <1>0, <2>1 DEF AttemptInv
  <2>4. \A q \in Pairs : paid[q] > 0 => ledger'[q].status = "granted"
    BY <1>0, <1>r, <2>2, <2>3
  <2> QED  BY <1>b, <1>7, <2>4 DEF LoopFail, LoopRetry, history
<1>8. CASE LoopAward(e)
  <2> DEFINE l == [loop[e] EXCEPT !.pc = "mark"]
  <2>1. l \in LoopState /\ l.pc = "mark" /\ l.cur = loop[e].cur  BY <1>0 DEF LoopState
  <2>2. loop' = [loop EXCEPT ![e] = l] /\ UNCHANGED <<claim, ledger, op>>
    BY <1>8 DEF LoopAward, At, SetLoop
  <2>3. \A p \in Pairs : paid'[p] = IF p \in loop[e].cur THEN 1 ELSE paid[p]
    BY <1>0, <1>8 DEF LoopAward, Pay, AttemptInv
  <2> HIDE DEF l
  <2>4. loop'[e] = l /\ loop[e].cur \subseteq Pairs  BY <1>0, <2>2 DEF LoopState
  <2>5. AttemptInv(e)'  BY <1>0, <2>1, <2>3, <2>4 DEF AttemptInv
  <2>6. \A p \in Pairs : OnRecord(p)'  BY <1>r, <2>1, <2>2, <2>3, <2>4 DEF OnRecord
  <2>7. PaymentsExact'
    BY <1>0, <2>2, <2>3 DEF PaymentInv, PaymentsExact, PaidAtMostOnce, GrantedIsPaid
  <2> QED  BY <1>0, <2>2, <2>5, <2>6, <2>7 DEF PaymentInv
<1>9. CASE LoopError(e)
  BY <1>0, <1>a, <1>9 DEF LoopError, history
<1>10. ASSUME NEW p \in Pairs, LoopMark(e, p)  PROVE PaymentInv'
  <2> DEFINE l == [loop[e] EXCEPT !.pc = "seal"]
  <2>0. loop[e].pc = "mark" /\ p \in loop[e].cur  BY <1>10 DEF LoopMark
  <2>1. l \in LoopState /\ l.pc = "seal" /\ l.cur = loop[e].cur  BY <1>0 DEF LoopState
  <2>2. loop' = [loop EXCEPT ![e] = l] /\ UNCHANGED <<ledger, op, paid>>
    BY <1>10 DEF LoopMark, At, SetLoop, history
  <2>3. paid[p] = 1  BY <1>0, <2>0 DEF AttemptInv
  <2> HIDE DEF l
  <2>4. loop'[e] = l  BY <1>0, <2>2
  <2>5. AttemptInv(e)'  BY <1>0, <2>0, <2>1, <2>2, <2>4 DEF AttemptInv
  <2>6. \A q \in Pairs : OnRecord(q)'  BY <1>r, <2>1, <2>2, <2>4 DEF OnRecord
  <2>7. \A q \in Pairs \ {p} : claim'[q] = claim[q]  BY <1>0, <1>10 DEF LoopMark
  <2>8. PaymentsExact'
    BY <1>0, <2>2, <2>3, <2>7 DEF PaymentInv, PaymentsExact, PaidAtMostOnce, GrantedIsPaid
  <2> QED  BY <1>0, <2>2, <2>5, <2>6, <2>8 DEF PaymentInv
<1> QED
  BY <1>0, <1>1, <1>2, <1>3, <1>4, <1>5, <1>6, <1>7, <1>8, <1>9, <1>10
  DEF Loop, LoopAwardLost, LoopWriteLost

LEMMA PaymentStep ==
    ASSUME LeftAlone, TypeOK, PaymentInv, [Next]_vars
    PROVE  PaymentInv'
<1>0. /\ \A o \in Operators : op[o].pc \notin {"offline", "award", "mark"}
      /\ "crash" \notin Faults
  BY DEF PaymentInv, LeftAlone
<1>1. CASE UNCHANGED <<claim, ledger, loop, op, paid>>
  BY <1>0, <1>1, OthersKeepPayments
<1>2. ASSUME NEW p \in Pairs, Elapse(p)  PROVE PaymentInv'
  BY <1>0, <1>2, OthersKeepPayments DEF Elapse, TypeOK, history
<1>3. ASSUME NEW e \in Engines, Scan(e) \/ Loop(e)  PROVE PaymentInv'
  BY <1>3, ScanKeepsPayments, LoopKeepsPayments
<1>4. ASSUME NEW o \in Operators, Operate(o)  PROVE PaymentInv'
  BY <1>4, OperateKeepsPayments
<1> QED
  BY <1>0, <1>1, <1>2, <1>3, <1>4
  DEF Next, vars, Progress, Regress, ToggleOnline, ApplyEngine, StopEngine, Crash,
      EditTier, history

\* While one incarnation pays, no operator grants by hand and the calls that
\* fail have had no effect, a claim shown as granted was paid exactly once, and
\* no claim is paid twice, however purges, resets, catalogue edits, log-ins and
\* the retries of the ledger interleave with the attempt
\* (attemptBattlepassGrant, processDeferredGrantTick).
THEOREM EachPaidOnce == LeftAlone => (Spec => []PaymentsExact)
<1>1. ASSUME LeftAlone  PROVE Spec => []PaymentsExact
  <2>1. Init => PaymentInv  BY InitPayment
  <2>2. TypeOK /\ PaymentInv /\ [Next]_vars => PaymentInv'  BY <1>1, PaymentStep
  <2>3. PaymentInv => PaymentsExact  BY DEF PaymentInv
  <2> QED  BY <2>1, <2>2, <2>3, TypeCorrect, PTL DEF Spec
<1> QED  BY <1>1
=============================================================================
