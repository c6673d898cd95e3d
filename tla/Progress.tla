------------------------------- MODULE Progress -------------------------------
(***************************************************************************)
(* One player's experience, skill points, keystones, skills and            *)
(* specialisation tracks as dune-admin edits them (db.go and               *)
(* handlers_players.go), statement by statement, beside the game server    *)
(* that loads the character's sheet when the player logs in and writes it  *)
(* back when the player logs out.                                          *)
(*                                                                         *)
(* The sheet is the FLevelComponent of the pawn and the intel on its       *)
(* actor.  Keystones and tracks have tables of their own, which the game   *)
(* writes at once.                                                         *)
(***************************************************************************)
EXTENDS Integers, FiniteSets, FiniteSetsExt

CONSTANTS Requests, Kinds,
          Races,       \* what may coincide: "overlap" of two requests, "login"
                       \* during a request, "online": edits that nothing holds
                       \* back while the player plays
          Faults,      \* what may fail: "statement"
          Jobs, Stones,
          PointStones, \* the keystones that carry a skill point
          Deltas,      \* track experience an operator awards,
          Losses,      \* and takes away
          None,        \* no row
          MaxXP, MaxIntel, MaxTrack, MaxSpent, MaxAsked, MaxPlayed

ASSUME NumberAssumption ==
    /\ {MaxXP, MaxIntel, MaxTrack, MaxSpent, MaxAsked, MaxPlayed} \subseteq Nat
    /\ Deltas \cup Losses \subseteq Nat /\ None \notin Int
ASSUME SetAssumption == PointStones \subseteq Stones /\ IsFiniteSet(Stones)

VARIABLES online,
          sheet,     \* the character's sheet in the database
          live,      \* the game server's copy while the player is online, else None
          keystones, \* purchased_specialization_keystones
          track,     \* one specialization_tracks row, None without
          sent,      \* live awards published to the broker, not yet handled
          request,   \* per request: its place in the code and what it read
          asked, played,
          earned,    \* all experience earned and awarded, up to the cap
          recounted  \* the points were written since all specialisations were reset

sheets == <<online, sheet, live>>
tables == <<keystones, track>>
counts == <<asked, played>>
history == <<earned, recounted>>

Modules == Jobs \X {"key", "ability", "capstone"}
Blocks(j) == {<<j, "key">>, <<j, "capstone">>}
JobAllModules(j) == {j} \X {"key", "ability", "capstone"}

\* The character starts at level 2 with both points in its starter class.
Level(xp) == 2 + xp \div 2
IntelAtLevel(level) == Min({2 * level - 2, MaxIntel})
KeystoneBonus(ks) == Cardinality(ks \cap PointStones)
\* The starter class's own block is left out of the sum.
Spent(s) == MapThenSumSet(LAMBDA m : s.spent[m], Modules \ {<<s.starter, "key">>})
NotNegative(n) == Max({n, 0})

Idle == [pc |-> "idle"]

ProgressInit ==
    /\ online = FALSE
    /\ \E j \in Jobs :
        sheet = [xp |-> 0, total |-> 2, unspent |-> 0, intel |-> IntelAtLevel(2),
                 starter |-> j,
                 spent |-> [m \in Modules |->
                     IF m \in {<<j, "key">>, <<j, "ability">>} THEN 1 ELSE 0]]
    /\ live = None
    /\ keystones = {} /\ track = None /\ sent = 0
    /\ request = [r \in Requests |-> Idle]
    /\ asked = 0 /\ played = 0 /\ earned = 0 /\ recounted = TRUE

At(r, pc) == request[r].pc = pc
Ends(r) == request' = [request EXCEPT ![r] = Idle]
Goes(r, pc) == request' = [request EXCEPT ![r] =
                    IF pc = "idle" THEN Idle ELSE [@ EXCEPT !.pc = pc]]
Resting == \A r \in Requests : At(r, "idle")

\* A request for an edit of this kind; what asks for no offline player is asked
\* for one at the operator's discretion.
Asks(r, kind) == /\ At(r, "idle") /\ kind \in Kinds /\ asked < MaxAsked
                 /\ Resting \/ "overlap" \in Races
                 /\ asked' = asked + 1 /\ UNCHANGED played
Gated == {"awardXP", "awardIntel", "setIntel"}
MayAsk(r, kind) == Asks(r, kind) /\ (online => (kind \in Gated \/ "online" \in Races))

\* A statement fails and the request ends where it is.
Fail(r) == /\ "statement" \in Faults /\ ~At(r, "idle") /\ Ends(r)
           /\ UNCHANGED <<sheets, tables, sent, counts, history>>

-----------------------------------------------------------------------------
(* Experience and intel.                                                   *)

\* handleAwardCharXP: with the player's FLS id, and the player online, the
\* award goes to the game server; otherwise to the database.
AskAwardXP(r) ==
    \E amount \in 1..2, withFLS \in BOOLEAN :
        /\ MayAsk(r, "awardXP")
        /\ IF withFLS /\ online
           THEN amount = 1 /\ sent' = sent + 1 /\ UNCHANGED request
           ELSE /\ request' = [request EXCEPT ![r] =
                    [pc |-> "gate", to |-> "readXP", amount |-> amount]]
                /\ UNCHANGED sent
        /\ UNCHANGED <<sheets, tables, history>>

\* cmdAwardIntelCtx and cmdSetIntelCtx: gate, then one statement.
AskIntel(r) ==
    \E kind \in {"awardIntel", "setIntel"}, amount \in {1, MaxIntel} :
        /\ MayAsk(r, kind)
        /\ request' = [request EXCEPT ![r] = [pc |-> "gate", to |-> kind, amount |-> amount]]
        /\ UNCHANGED <<sheets, tables, sent, history>>

\* Bug: the gate lets an online player through.
RefusedNobody == FALSE
\* checkPlayerOfflinePool.
Refused == online

Gate(r) == /\ At(r, "gate")
           /\ IF Refused THEN Ends(r) ELSE Goes(r, request[r].to)
           /\ UNCHANGED <<sheets, tables, sent, counts, history>>

ReadXP(r) ==
    /\ At(r, "readXP")
    /\ request' = [request EXCEPT ![r] =
           [pc |-> "bonus", spent |-> Spent(sheet), xp |-> sheet.xp, amount |-> request[r].amount]]
    /\ UNCHANGED <<sheets, tables, sent, counts, history>>

\* fetchKeystoneBonusForPawn and computeAwardCharXPOutcome.
Outcome(q, bonus) ==
    LET xp == Min({q.xp + q.amount, MaxXP}) IN
    [pc |-> "writeXP", xp |-> xp, level |-> Level(xp), total |-> Level(xp) + bonus,
     unspent |-> NotNegative(Level(xp) + bonus - q.spent - 1), amount |-> q.amount]

ReadBonus(r) == /\ At(r, "bonus")
                /\ request' = [request EXCEPT ![r] = Outcome(request[r], KeystoneBonus(keystones))]
                /\ UNCHANGED <<sheets, tables, sent, counts, history>>

WriteXP(r) ==
    LET q == request[r] IN
    /\ At(r, "writeXP")
    /\ sheet' = [sheet EXCEPT !.xp = q.xp, !.total = q.total, !.unspent = q.unspent]
    /\ earned' = Min({earned + q.amount, MaxXP}) /\ recounted' = TRUE
    /\ Goes(r, "writeIntel")
    /\ UNCHANGED <<online, live, tables, sent, counts>>

WriteIntel(r) ==
    /\ At(r, "writeIntel")
    /\ sheet' = [sheet EXCEPT !.intel = IntelAtLevel(request[r].level)]
    /\ Ends(r)
    /\ UNCHANGED <<online, live, tables, sent, counts, history>>

AwardIntel(r) ==
    LET grant == Min({request[r].amount, NotNegative(MaxIntel - sheet.intel)}) IN
    /\ At(r, "awardIntel")
    /\ sheet' = [sheet EXCEPT !.intel = @ + grant]
    /\ Ends(r)
    /\ UNCHANGED <<online, live, tables, sent, counts, history>>

SetIntel(r) ==
    /\ At(r, "setIntel")
    /\ sheet' = [sheet EXCEPT !.intel = Min({request[r].amount, MaxIntel})]
    /\ Ends(r)
    /\ UNCHANGED <<online, live, tables, sent, counts, history>>

-----------------------------------------------------------------------------
(* Keystones: purchased by the controller, counted on the pawn's sheet.    *)

\* The page sends the controller's id, which is no pawn's: the gate of both
\* operations finds no row and lets them pass.
AskKeystones(r) ==
    \E kind \in {"grantKeys", "resetKeys"} :
        /\ MayAsk(r, kind)
        /\ request' = [request EXCEPT ![r] =
               [pc |-> IF kind = "grantKeys" THEN "insertKeys" ELSE "readPoints", kind |-> kind]]
        /\ UNCHANGED <<sheets, tables, sent, history>>

InsertKeys(r) ==
    /\ At(r, "insertKeys")
    /\ keystones' = Stones
    /\ Goes(r, "readPoints")
    /\ UNCHANGED <<sheets, track, sent, counts, history>>

\* readLevelComponentSkillState with grantAllKeystoneTargets, which leaves a
\* total that is already there; a reset always writes.
Target(kind) == Level(sheet.xp) + IF kind = "grantKeys" THEN KeystoneBonus(Stones) ELSE 0
ReadPoints(r) ==
    LET q == request[r] total == Target(q.kind) IN
    /\ At(r, "readPoints")
    /\ IF q.kind = "grantKeys" /\ sheet.total >= total
       THEN Ends(r)
       ELSE request' = [request EXCEPT ![r] =
               [pc |-> IF q.kind = "grantKeys" THEN "writePoints" ELSE "deleteKeys",
                total |-> total, unspent |-> NotNegative(total - Spent(sheet) - 1)]]
    /\ UNCHANGED <<sheets, tables, sent, counts, history>>

DeleteKeys(r) ==
    /\ At(r, "deleteKeys")
    /\ keystones' = {}
    /\ Goes(r, "writePoints")
    /\ UNCHANGED <<sheets, track, sent, counts, history>>

WritePoints(r) ==
    /\ At(r, "writePoints")
    /\ sheet' = [sheet EXCEPT !.total = request[r].total, !.unspent = request[r].unspent]
    /\ recounted' = TRUE
    /\ Ends(r)
    /\ UNCHANGED <<online, live, tables, sent, counts, earned>>

-----------------------------------------------------------------------------
(* Specialisation tracks.                                                  *)

AskTrack(r) ==
    \E kind \in {"awardTrack", "maxTrack", "resetTrack", "resetAll"}, delta \in Deltas \cup {-d : d \in Losses} :
        /\ MayAsk(r, kind)
        /\ request' = [request EXCEPT ![r] = [pc |-> kind, delta |-> Min({delta, MaxTrack})]]
        /\ UNCHANGED <<sheets, tables, sent, history>>

\* cmdAwardXP: an update of the row, or an insert when it changed none.
AwardTrack(r) ==
    /\ At(r, "awardTrack")
    /\ IF track = None THEN Goes(r, "insertTrack") /\ UNCHANGED track
       ELSE /\ track' = NotNegative(Min({track + request[r].delta, MaxTrack}))
            /\ Ends(r)
    /\ UNCHANGED <<sheets, keystones, sent, counts, history>>

\* The insert is refused when another request put the row there.
InsertTrack(r) ==
    /\ At(r, "insertTrack")
    /\ track' = IF track = None THEN request[r].delta ELSE track
    /\ Ends(r)
    /\ UNCHANGED <<sheets, keystones, sent, counts, history>>

\* cmdGrantMaxSpec; and cmdResetSpecializations of one track.
SetTrack(r) ==
    /\ At(r, "maxTrack") \/ At(r, "resetTrack")
    /\ track' = IF At(r, "maxTrack") THEN MaxTrack ELSE None
    /\ Ends(r)
    /\ UNCHANGED <<sheets, keystones, sent, counts, history>>

\* cmdResetSpecializations of all: the skill points are not counted again.
ResetTracks(r) == /\ At(r, "resetAll")
                  /\ track' = None /\ Goes(r, "resetKeystones")
                  /\ UNCHANGED <<sheets, keystones, sent, counts, history>>
ResetKeystones(r) == /\ At(r, "resetKeystones")
                     /\ keystones' = {} /\ recounted' = FALSE /\ Ends(r)
                     /\ UNCHANGED <<sheets, track, sent, counts, earned>>

-----------------------------------------------------------------------------
(* Skills.                                                                 *)

AskSkills(r) ==
    \E kind \in {"grantJob", "resetJob", "starter"}, j \in Jobs :
        /\ MayAsk(r, kind)
        /\ request' = [request EXCEPT ![r] =
               IF kind = "grantJob" THEN [pc |-> "grantBlocks", left |-> Blocks(j), to |-> "idle"]
               ELSE [pc |-> kind, job |-> j]]
        /\ UNCHANGED <<sheets, tables, sent, history>>

\* grantSkillBlocks, one block a statement; what is already open is left alone.
GrantBlocks(r) ==
    /\ At(r, "grantBlocks")
    /\ IF request[r].left = {} THEN Goes(r, request[r].to) /\ UNCHANGED sheet
       ELSE \E m \in request[r].left :
            /\ request' = [request EXCEPT ![r].left = @ \ {m}]
            /\ sheet' = [sheet EXCEPT !.spent[m] = Max({@, 1})]
    /\ UNCHANGED <<online, live, tables, sent, counts, history>>

\* Bug: a strip takes every block.
MayStripAny(s, m) == TRUE
MayStrip(s, m) == s.spent[m] <= 1

\* stripContractSkillBlocks, one block a statement.
StripBlocks(r) ==
    /\ At(r, "stripBlocks")
    /\ IF request[r].left = {} THEN Goes(r, request[r].to) /\ UNCHANGED sheet
       ELSE \E m \in request[r].left :
            /\ request' = [request EXCEPT ![r].left = @ \ {m}]
            /\ sheet' = IF MayStrip(sheet, m) THEN [sheet EXCEPT !.spent[m] = 0] ELSE sheet
    /\ UNCHANGED <<online, live, tables, sent, counts, history>>

\* cmdResetJobSkills: neither the unspent points nor the starter tag change.
ResetJob(r) ==
    /\ At(r, "resetJob")
    /\ sheet' = [sheet EXCEPT !.spent = [m \in Modules |->
                    IF m \in JobAllModules(request[r].job) THEN 0 ELSE @[m]]]
    /\ Ends(r)
    /\ UNCHANGED <<online, live, tables, sent, counts, history>>

\* Bug: the old starter's ability stays.
StarterKeyOnly(old, job) == IF old = job THEN {} ELSE {<<old, "key">>}
\* starterKeysToRemove.
StarterOf(old, job) == IF old = job THEN {} ELSE {<<old, "key">>, <<old, "ability">>}

\* cmdSetStarterClass reads the old starter, then makes one update of it all.
ReadStarter(r) ==
    LET job == request[r].job IN
    /\ At(r, "starter")
    /\ request' = [request EXCEPT ![r] =
           [pc |-> "setStarter", job |-> job, remove |-> StarterOf(sheet.starter, job)]]
    /\ UNCHANGED <<sheets, tables, sent, counts, history>>

SetStarter(r) ==
    LET q == request[r] IN
    /\ At(r, "setStarter")
    /\ sheet' = [sheet EXCEPT !.starter = q.job, !.spent = [m \in Modules |->
           CASE m \in {<<q.job, "key">>, <<q.job, "ability">>} -> 1
             [] m \in q.remove -> 0
             [] OTHER -> @[m]]]
    /\ Ends(r)
    /\ UNCHANGED <<online, live, tables, sent, counts, history>>

-----------------------------------------------------------------------------
(* The player and the game server.                                         *)

Login == /\ ~online
         /\ Resting \/ "login" \in Races
         /\ online' = TRUE /\ live' = sheet
         /\ UNCHANGED <<sheet, tables, sent, request, counts, history>>

Logout == /\ online
          /\ online' = FALSE /\ sheet' = live /\ live' = None
          /\ UNCHANGED <<tables, sent, request, counts, history>>

\* Experience raises the level, and a level brings a point and intel.
Gains(s, amount) ==
    LET xp == Min({s.xp + amount, MaxXP}) levels == Level(xp) - Level(s.xp) IN
    [s EXCEPT !.xp = xp, !.total = @ + levels, !.unspent = @ + levels,
              !.intel = Min({@ + IntelAtLevel(Level(xp)) - IntelAtLevel(Level(s.xp)), MaxIntel})]

Plays == online /\ played < MaxPlayed /\ played' = played + 1 /\ UNCHANGED asked

Earn == /\ Plays
        /\ live' = Gains(live, 1) /\ earned' = Min({earned + 1, MaxXP})
        /\ UNCHANGED <<online, sheet, tables, sent, request, recounted>>

Spend == \E m \in Modules :
    /\ Plays /\ live.unspent > 0 /\ live.spent[m] \in 1..MaxSpent - 1
    /\ live' = [live EXCEPT !.unspent = @ - 1, !.spent[m] = @ + 1]
    /\ UNCHANGED <<online, sheet, tables, sent, request, history>>

\* A keystone is bought and, if it carries a point, counted.
BuyKeystone == \E k \in Stones \ keystones :
    /\ Plays
    /\ keystones' = keystones \cup {k}
    /\ live' = IF k \in PointStones
               THEN [live EXCEPT !.total = @ + 1, !.unspent = @ + 1] ELSE live
    /\ UNCHANGED <<online, sheet, track, sent, request, history>>

\* The broker hands a live award to the game server, which drops it when the
\* player has gone.
Deliver == /\ sent > 0 /\ sent' = sent - 1
           /\ live' = IF online THEN Gains(live, 1) ELSE live
           /\ earned' = IF online THEN Min({earned + 1, MaxXP}) ELSE earned
           /\ UNCHANGED <<online, sheet, tables, request, counts, recounted>>

Steps(r) ==
    \/ AskAwardXP(r) \/ AskIntel(r) \/ AskKeystones(r) \/ AskTrack(r) \/ AskSkills(r)
    \/ Gate(r) \/ ReadXP(r) \/ ReadBonus(r) \/ WriteXP(r) \/ WriteIntel(r)
    \/ AwardIntel(r) \/ SetIntel(r)
    \/ InsertKeys(r) \/ ReadPoints(r) \/ DeleteKeys(r) \/ WritePoints(r)
    \/ AwardTrack(r) \/ InsertTrack(r) \/ SetTrack(r) \/ ResetTracks(r) \/ ResetKeystones(r)
    \/ GrantBlocks(r) \/ ResetJob(r) \/ ReadStarter(r) \/ SetStarter(r)
    \/ Fail(r)

Game == Login \/ Logout \/ Earn \/ Spend \/ BuyKeystone \/ Deliver

-----------------------------------------------------------------------------
(* Properties.                                                             *)

Sheet == [xp : 0..MaxXP, total : Nat, unspent : Nat, intel : 0..MaxIntel,
          starter : Jobs, spent : [Modules -> 0..MaxSpent]]

\* The variables stay in their domains; intel never passes the cap.
ProgressTypeOK ==
    /\ online \in BOOLEAN /\ sheet \in Sheet /\ live \in Sheet \cup {None}
    /\ keystones \subseteq Stones /\ track \in {None} \cup Int /\ sent \in Nat
    /\ asked \in 0..MaxAsked /\ played \in 0..MaxPlayed
    /\ earned \in 0..MaxXP /\ recounted \in BOOLEAN

Current == IF online THEN live ELSE sheet

\* Whatever the player earned and was awarded, before, during and between
\* sessions, is on the character: no award is written where the game server
\* overwrites it (the reason for checkPlayerOfflinePool).
AwardsKept == Current.xp = earned

\* Unless a reset of all specialisations took keystones away without counting
\* again, the character has one skill point for each level and each keystone
\* that carries one.
TotalAddsUp ==
    Resting /\ recounted => Current.total = Level(Current.xp) + KeystoneBonus(keystones)

\* Nothing earned is lost, and the skill points are those of what was earned.
SheetSound == AwardsKept /\ TotalAddsUp

\* When a request raises the points left to spend, they and those spent are
\* covered by the total.
PointsBacked ==
    [][ /\ ~(online /\ ~online') /\ sheet'.unspent > sheet.unspent
        => sheet'.unspent + Spent(sheet') + 1 <= sheet'.total ]_<<sheet, online>>

\* "So you don't end up with two starters stacked after switching": once the
\* starter class changes, nothing of the old one's first row is left.
SwitchClears ==
    [][ sheet'.starter # sheet.starter =>
        \A part \in {"key", "ability"} : sheet'.spent[<<sheet.starter, part>>] = 0 ]_sheet

\* A track holds between nothing and its cap.
TrackInRange == track # None => track \in 0..MaxTrack

\* The starter class the tag names is an open one.
StarterOpen == Resting => sheet.spent[<<sheet.starter, "key">>] > 0

\* An award of experience to an offline player takes back no intel and hands out
\* none that was spent: it adds what the new level is worth.
IntelByLevel ==
    [][ (online' = online /\ \E r \in Requests : At(r, "writeIntel") /\ request'[r] = Idle)
        => sheet'.intel >= sheet.intel ]_<<sheet, online, request>>


===============================================================================
