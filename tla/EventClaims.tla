----------------------------- MODULE EventClaims -----------------------------
(***************************************************************************)
(* Live events: the poll loop that rewards and announces milestones and    *)
(* zone races, the startup backfill, the retry loop, and the operator's    *)
(* manual grants, resets and edits, all over one ledger of award claims    *)
(* (events_engine.go, event_store.go, handlers_events.go,                  *)
(* deferred_grant.go).                                                     *)
(*                                                                         *)
(* One statement of the store, one call to a game database and one post to *)
(* Discord are one step each; any goroutine may run in between.  Every     *)
(* server has its own three goroutines but they share the claims: the one  *)
(* event store is opened for the default server.  Left out: the version    *)
(* of an event, which no code ever raises, poll intervals and jitter, the  *)
(* texts, and the order in which a tick visits players.                    *)
(***************************************************************************)
EXTENDS Integers, Sequences

CONSTANTS
    Events, Accounts, Servers,
    Main,          \* the server a manual grant is delivered on
    Rewards,       \* rewards an event may be given: sequences of parts
    Engines,       \* incarnations of the engine alive at the same time
    Operators,     \* manual grants in flight at the same time
    Scenarios,     \* what may happen around the engine and fail, see Scenario
    MaxAttempts    \* eventGrantMaxAttempts

\* A part of a reward: the currency, an item or an XP track.  What a failure
\* leaves in last_error identifies the part by its kind and name only.
Parts == UNION {{r[i] : i \in DOMAIN r} : r \in Rewards}
Label(part) == <<part.kind, part.name>>
Marks == {<<"", "">>, <<"resolve", "">>} \union {Label(p) : p \in Parts}

\* races: the events that are zone races, the others are milestones
\* awardPast: the milestones whose backfill also pays the reward
\* count: deliveries and announcements are counted up to this bound
\* stop: the engine is stopped at any time, else only between two retry ticks
EnvironmentKinds == {"login", "logout", "elapse", "absence", "stop", "manual", "reset",
                     "edit", "delete", "enable"}

\* fail:    a grant fails without effect;  lost: it lands but the call errs
\* resolve: the grant targets of an account cannot be read
\* store:   a write of the ledger fails;   crash: the process is restarted
FaultKinds == {"fail", "lost", "resolve", "store", "crash"}

Scenario == [races : SUBSET Events, awardPast : SUBSET Events,
             environment : SUBSET EnvironmentKinds, faults : SUBSET FaultKinds,
             count : 1..2]

ASSUME ConstantAssumption ==
    /\ Main \in Servers
    /\ Scenarios \subseteq Scenario
    /\ Rewards \subseteq Seq([kind : {"currency", "item", "xp"}, name : STRING, id : Nat])
    /\ MaxAttempts \in Nat \ {0}

VARIABLES
    scenario,   \* what this behaviour is about, fixed at the start
    online,     \* game: accounts online, per server
    qualified,  \* game: deeds done (or positions in the finish sphere)
    def,        \* event_definitions
    claim,      \* event_award_claims
    engine,     \* the incarnations whose context is not cancelled
    task,       \* the goroutines and the manual requests
    delivered,  \* history: times a part reached a player
    announced,  \* history: times a claim was announced
    past        \* history: deeds of players online when the engine started

vars == <<scenario, online, qualified, def, claim, engine, task, delivered, announced, past>>
game == <<online, qualified>>
history == <<delivered, announced, past>>

Races == scenario.races
AwardPast == scenario.awardPast
Environment == scenario.environment
Faults == scenario.faults
MaxCount == scenario.count

-----------------------------------------------------------------------------
(* Values *)

Keys == Events \X Accounts      \* identity of a claim
Deeds == Servers \X Keys

Roles == {"poll", "reconcile", "retry"}
Tasks == (Engines \X Servers \X Roles) \union (Operators \X {Main} \X {"manual"})
Server(t) == t[2]
Role(t) == t[3]

Definition == [state : {"absent", "off", "on"}, reward : Rewards]

ClaimRow == [status : {"none", "pending", "exhausted", "granted"}, attempts : 0..MaxAttempts,
             mark : Marks, due : BOOLEAN]
NoClaim == [status |-> "none", attempts |-> 0, mark |-> <<"", "">>, due |-> FALSE]

TaskState == [pc : {"idle", "list", "next", "load", "resolve", "deliver", "announce",
                    "grant", "fail"},
              events : SUBSET Events,      \* listed events still to evaluate
              reward : [Events -> Rewards],\* their rewards, as listed
              queue : SUBSET Keys,         \* outcomes or listed claims still to apply
              pending : SUBSET (Keys \X Marks), \* the listed claims and their last errors
              cur : SUBSET Keys,           \* the claim at hand (one at most)
              rest : Seq(Parts),           \* parts still to deliver
              mark : Marks]                \* what the failure will record
SomeReward == CHOOSE r \in Rewards : TRUE
Idle == [pc |-> "idle", events |-> {}, reward |-> [e \in Events |-> SomeReward],
         queue |-> {}, pending |-> {}, cur |-> {},
         rest |-> <<>>, mark |-> <<"", "">>]

TypeOK ==
    /\ scenario \in Scenarios
    /\ online \subseteq Servers \X Accounts
    /\ qualified \subseteq Deeds
    /\ def \in [Events -> Definition]
    /\ claim \in [Keys -> ClaimRow]
    /\ engine \in [Engines -> BOOLEAN]
    /\ task \in [Tasks -> TaskState]
    /\ delivered \in [Deeds \X Parts -> 0..MaxCount]
    /\ announced \in [Keys -> 0..MaxCount]
    /\ past \subseteq Deeds

Init ==
    /\ scenario \in Scenarios
    /\ online \in SUBSET (Servers \X Accounts)
    /\ qualified \in SUBSET Deeds
    /\ def \in [Events -> [state : {"on"}, reward : Rewards]]
    /\ claim = [k \in Keys |-> NoClaim]
    /\ engine = [e \in Engines |-> FALSE]
    /\ task = [t \in Tasks |-> Idle]
    /\ delivered = [d \in Deeds \X Parts |-> 0]
    /\ announced = [k \in Keys |-> 0]
    /\ past = {}

-----------------------------------------------------------------------------
(* Statements of the store, and the slicing of a reward *)

RemainderWhole(reward, mark) == reward     \* of Remainder: not sliced

RemainderAfter(reward, mark) ==            \* of Remainder: skips the failed part
    LET hits == {i \in DOMAIN reward : Label(reward[i]) = mark}
    IN  IF hits = {} THEN reward
        ELSE SubSeq(reward, (CHOOSE i \in hits : \A j \in hits : i <= j) + 1, Len(reward))

\* sliceRewardSpec: resume at the first part with the failed one's kind and
\* name; any other error, or none, means the whole reward
Remainder(reward, mark) ==
    LET hits == {i \in DOMAIN reward : Label(reward[i]) = mark}
    IN  IF hits = {} THEN reward
        ELSE SubSeq(reward, CHOOSE i \in hits : \A j \in hits : i <= j, Len(reward))

\* attempts + 1, counted up to MaxAttempts: every use only asks whether the
\* count has reached it
Count(row) == IF row.attempts < MaxAttempts THEN row.attempts + 1 ELSE MaxAttempts

FailedOffByOne(row, mark) ==               \* of Failed: > for >=
    LET n == Count(row)
    IN  [status |-> IF n > MaxAttempts THEN "exhausted" ELSE "pending",
         attempts |-> n, mark |-> mark, due |-> FALSE]

\* recordFailed, whatever the row's present status is
Failed(row, mark) ==
    LET n == Count(row)
    IN  [status |-> IF n >= MaxAttempts THEN "exhausted" ELSE "pending",
         attempts |-> n, mark |-> mark, due |-> FALSE]

\* recordGranted
Granted(row) == [status |-> "granted", attempts |-> Count(row),
                 mark |-> <<"", "">>, due |-> FALSE]

RetryableStopped(k) == FALSE               \* of Retryable: lists nothing

\* listRetryableClaims
Retryable(k) == claim[k].status = "pending" /\ claim[k].attempts < MaxAttempts /\ claim[k].due

ListedByAccount(k, pending) == CHOOSE c \in pending : c[1][2] = k[2]  \* of Listed: #291

\* eventClaimKey: the tick's side map is keyed by event, version and account
Listed(k, pending) == CHOOSE c \in pending : c[1] = k

Counted(n) == IF n < MaxCount THEN n + 1 ELSE n

Deliver(t, k, part) ==
    delivered' = [delivered EXCEPT ![<<<<Server(t), k>>, part>>] = Counted(@)]

-----------------------------------------------------------------------------
(* The game and the clock *)

Qualify(d) ==
    /\ d \notin qualified
    /\ qualified' = qualified \union {d}
    /\ UNCHANGED <<online, def, claim, engine, task, history>>

\* A racer leaves the finish sphere; levels and achievements are kept.
Leave(d) ==
    /\ d \in qualified /\ d[2][1] \in Races
    /\ qualified' = qualified \ {d}
    /\ UNCHANGED <<online, def, claim, engine, task, history>>

Log(p) ==
    /\ \/ "login" \in Environment /\ p \notin online /\ online' = online \union {p}
       \/ "logout" \in Environment /\ p \in online /\ online' = online \ {p}
    /\ UNCHANGED <<qualified, def, claim, engine, task, history>>

\* The 24 hours of eventGrantRetryBackoff pass, which no tick lasts; in a run
\* with "absence" they only pass for players who are logged out.
Elapse(k) ==
    /\ \/ "elapse" \in Environment
       \/ "absence" \in Environment /\ \A s \in Servers : <<s, k[2]>> \notin online
    /\ claim[k].status = "pending" /\ ~claim[k].due
    /\ \A t \in Tasks : k \notin task[t].cur \union task[t].queue
    /\ claim' = [claim EXCEPT ![k].due = TRUE]
    /\ UNCHANGED <<game, def, engine, task, history>>

-----------------------------------------------------------------------------
(* Engine lifecycle: applyEventEngine at startup and on a config save *)

\* The old context is cancelled and not waited for; one set of goroutines
\* starts per server.
ApplyEngine(e) ==
    /\ ~engine[e] /\ \A t \in Tasks : t[1] = e => task[t] = Idle
    /\ engine' = [f \in Engines |-> f = e]
    /\ task' = [t \in Tasks |-> IF t[1] = e /\ Role(t) = "reconcile"
                                THEN [Idle EXCEPT !.pc = "list"] ELSE task[t]]
    /\ past' = past \union {d \in qualified : <<d[1], d[2][2]>> \in online
                                              /\ d[2][1] \notin Races}
    /\ UNCHANGED <<game, def, claim, delivered, announced>>

StopEngine ==
    /\ \E e \in Engines : engine[e]
    /\ "stop" \in Environment \/ \A t \in Tasks : Role(t) = "retry" => task[t].pc = "idle"
    /\ engine' = [e \in Engines |-> FALSE]
    /\ UNCHANGED <<game, def, claim, task, history>>

Crash ==
    /\ "crash" \in Faults
    /\ engine' = [e \in Engines |-> FALSE]
    /\ task' = [t \in Tasks |-> Idle]
    /\ UNCHANGED <<game, def, claim, history>>

-----------------------------------------------------------------------------
(* The poll loop and the backfill *)

Set(t, s) == task' = [task EXCEPT ![t] = s]
At(t, pc) == Set(t, [task[t] EXCEPT !.pc = pc])

\* Back to the next outcome, or to the ticker when a manual request ends.
Done(t) ==
    LET s == task[t] IN
    Set(t, IF s.queue = {} /\ s.events = {} THEN Idle
           ELSE [s EXCEPT !.pc = "next", !.cur = {}, !.rest = <<>>, !.mark = <<"", "">>])

\* The context a goroutine's calls carry; the backfill's is never cancelled.
Cancelled(t) == Role(t) \in {"poll", "retry"} /\ ~engine[t[1]]

\* store.list
ListEvents(t) ==
    /\ \/ Role(t) = "poll" /\ task[t].pc = "idle" /\ engine[t[1]]
       \/ Role(t) = "reconcile" /\ task[t].pc = "list"
    /\ LET listed == {e \in Events : /\ def[e].state = "on"
                                     /\ Role(t) = "reconcile" => e \notin Races}
       IN  Set(t, IF listed = {} THEN Idle
                  ELSE [Idle EXCEPT !.pc = "next", !.events = listed,
                                    !.reward = [e \in Events |-> def[e].reward]])
    /\ UNCHANGED <<game, def, claim, engine, history>>

Online(t) == {p[2] : p \in {q \in online : q[1] = Server(t)}}

OutcomesOfAll(t, e) == {{<<e, a>> : a \in Online(t)}}   \* of Outcomes: signal not tested

\* evaluateMilestone: the online players who satisfy the signal, without those
\* whose signal could not be read; evaluateZoneRace: the first participant
\* found in the sphere
Outcomes(t, e) ==
    LET done == {<<e, a>> : a \in {b \in Online(t) : <<Server(t), <<e, b>>>> \in qualified}}
    IN  IF e \in Races /\ done # {} THEN {{k} : k \in done}
        ELSE IF "fail" \in Faults THEN SUBSET done ELSE {done}

Evaluate(t, e) ==
    /\ task[t].pc = "next" /\ task[t].queue = {} /\ e \in task[t].events
    /\ \E keys \in IF Cancelled(t) THEN {{}} ELSE Outcomes(t, e) :
          LET s == [task[t] EXCEPT !.events = @ \ {e}, !.queue = keys]
          IN  Set(t, IF keys = {} /\ s.events = {} THEN Idle ELSE s)
    /\ UNCHANGED <<game, def, claim, engine, history>>

SettledExhaustedOnly(row) == row.status = "exhausted"   \* of Settled: forgets granted

\* applyOneOutcome skips granted and exhausted claims
Settled(row) == row.status \in {"granted", "exhausted"}

\* getClaimStatus.  The backfill pays nothing unless award_past is set.
Check(t, k) ==
    /\ task[t].pc = "next" /\ Role(t) \in {"poll", "reconcile"} /\ k \in task[t].queue
    /\ LET rest == IF Role(t) = "poll" \/ k[1] \in AwardPast
                   THEN Remainder(task[t].reward[k[1]], claim[k].mark) ELSE <<>>
           s == [task[t] EXCEPT !.queue = @ \ {k}]
       IN  Set(t, IF ~Settled(claim[k])
                  THEN [s EXCEPT !.pc = "deliver", !.cur = {k}, !.rest = rest]
                  ELSE IF s.queue = {} /\ s.events = {} THEN Idle ELSE s)
    /\ UNCHANGED <<game, def, claim, engine, history>>

-----------------------------------------------------------------------------
(* The retry loop and manual grants: attemptGrantForClaim *)

\* listRetryableDeferredClaims, with the side map of the tick
ListRetryable(t) ==
    LET due == {k \in Keys : Retryable(k)}
    IN  /\ Role(t) = "retry" /\ task[t].pc = "idle" /\ engine[t[1]]
        /\ due # {}
        /\ Set(t, [Idle EXCEPT !.pc = "next", !.queue = due,
                               !.pending = {<<k, claim[k].mark>> : k \in due}])
        /\ UNCHANGED <<game, def, claim, engine, history>>

\* The claim found in the side map; its last error is the one listed.
Retry(t, k) ==
    /\ task[t].pc = "next" /\ Role(t) = "retry" /\ k \in task[t].queue
    /\ LET found == Listed(k, task[t].pending)
       IN  Set(t, [task[t] EXCEPT !.pc = "load", !.queue = @ \ {k}, !.cur = {found[1]},
                                  !.mark = found[2]])
    /\ UNCHANGED <<game, def, claim, engine, history>>

\* handleGrantEventClaim: no last error, no look at the claim's status
Manual(t, k) ==
    /\ "manual" \in Environment /\ Role(t) = "manual" /\ task[t].pc = "idle"
    /\ def[k[1]].state # "absent"
    /\ Set(t, [Idle EXCEPT !.pc = "load", !.cur = {k}])
    /\ UNCHANGED <<game, def, claim, engine, history>>

\* store.get: the reward as it is now.  A deleted event ends the attempt
\* without a record; a reward with nothing in it needs no grant targets.
Load(t, k) ==
    /\ task[t].pc = "load" /\ k \in task[t].cur
    /\ LET reward == def[k[1]].reward
       IN  IF def[k[1]].state = "absent" THEN Done(t)
           ELSE Set(t, [task[t] EXCEPT !.pc = IF reward = <<>> THEN "deliver" ELSE "resolve",
                                       !.rest = Remainder(reward, task[t].mark)])
    /\ UNCHANGED <<game, def, claim, engine, history>>

\* resolveGrantTargets
Resolve(t) ==
    /\ task[t].pc = "resolve"
    /\ \/ ~Cancelled(t) /\ At(t, "deliver")
       \/ /\ Cancelled(t) \/ "resolve" \in Faults
          /\ Set(t, [task[t] EXCEPT !.pc = "fail", !.mark = <<"resolve", "">>])
    /\ UNCHANGED <<game, def, claim, engine, history>>

-----------------------------------------------------------------------------
(* Delivery, shared by all: grantEventReward and what follows it *)

Fail(t) == Set(t, [task[t] EXCEPT !.pc = "fail", !.mark = Label(Head(task[t].rest))])
Advance(t) == Set(t, [task[t] EXCEPT !.rest = Tail(@)])

GrantPart(t, k) ==
    /\ task[t].pc = "deliver" /\ k \in task[t].cur /\ task[t].rest # <<>>
    /\ ~Cancelled(t)
    /\ Deliver(t, k, Head(task[t].rest))
    /\ \/ Advance(t)
       \/ "lost" \in Faults /\ Fail(t)
    /\ UNCHANGED <<game, def, claim, engine, announced, past>>

GrantErrorIgnored(t) ==        \* of GrantError: goes on with the next part
    /\ task[t].pc = "deliver" /\ task[t].rest # <<>>
    /\ "fail" \in Faults \/ Cancelled(t)
    /\ Advance(t)
    /\ UNCHANGED <<game, def, claim, engine, history>>

GrantError(t) ==
    /\ task[t].pc = "deliver" /\ task[t].rest # <<>>
    /\ "fail" \in Faults \/ Cancelled(t)
    /\ Fail(t)
    /\ UNCHANGED <<game, def, claim, engine, history>>

GrantsDone(t) ==
    /\ task[t].pc = "deliver" /\ task[t].rest = <<>>
    /\ At(t, IF Role(t) = "poll" THEN "announce" ELSE "grant")
    /\ UNCHANGED <<game, def, claim, engine, history>>

\* A failed announcement is logged and the claim is recorded all the same.
Announce(t, k) ==
    /\ task[t].pc = "announce" /\ k \in task[t].cur
    /\ \/ announced' = [announced EXCEPT ![k] = Counted(@)]
       \/ "fail" \in Faults /\ UNCHANGED announced
    /\ At(t, "grant")
    /\ UNCHANGED <<game, def, claim, engine, delivered, past>>

RecordGranted(t, k) ==
    /\ task[t].pc = "grant" /\ k \in task[t].cur
    /\ \/ claim' = [claim EXCEPT ![k] = Granted(@)]
       \/ "store" \in Faults /\ UNCHANGED claim
    /\ Done(t)
    /\ UNCHANGED <<game, def, engine, history>>

RecordFailed(t, k) ==
    /\ task[t].pc = "fail" /\ k \in task[t].cur
    /\ \/ claim' = [claim EXCEPT ![k] = Failed(@, task[t].mark)]
       \/ "store" \in Faults /\ UNCHANGED claim
    /\ Done(t)
    /\ UNCHANGED <<game, def, engine, history>>

Run(t) ==
    \/ ListEvents(t)
    \/ \E e \in Events : Evaluate(t, e)
    \/ ListRetryable(t)
    \/ \E k \in Keys : \/ Check(t, k) \/ Retry(t, k) \/ Load(t, k) \/ GrantPart(t, k)
                       \/ Announce(t, k) \/ RecordGranted(t, k) \/ RecordFailed(t, k)
    \/ Resolve(t)
    \/ GrantError(t)
    \/ GrantsDone(t)

-----------------------------------------------------------------------------
(* Operator requests that are one statement *)

\* handleResetEvent
ResetEvent(e) ==
    /\ "reset" \in Environment /\ def[e].state # "absent"
    /\ claim' = [k \in Keys |-> IF k[1] = e THEN NoClaim ELSE claim[k]]
    /\ UNCHANGED <<game, def, engine, task, history>>

\* handleUpdateEvent, handleSetEventEnabled, handleDeleteEvent: claims are kept
EditEvent(e, d) ==
    /\ def[e].state # "absent" /\ d # def[e]
    /\ \/ "edit" \in Environment /\ d.state = def[e].state
       \/ "enable" \in Environment /\ d.state # "absent" /\ d.reward = def[e].reward
       \/ "delete" \in Environment /\ d = [def[e] EXCEPT !.state = "absent"]
    /\ def' = [def EXCEPT ![e] = d]
    /\ UNCHANGED <<game, claim, engine, task, history>>

Step ==
    \/ \E d \in Deeds : Qualify(d) \/ Leave(d)
    \/ \E p \in Servers \X Accounts : Log(p)
    \/ \E k \in Keys : Elapse(k)
    \/ \E e \in Engines : ApplyEngine(e)
    \/ StopEngine
    \/ Crash
    \/ \E t \in Tasks : Run(t)
    \/ \E t \in Tasks, k \in Keys : Manual(t, k)
    \/ \E e \in Events : ResetEvent(e)
    \/ \E e \in Events, d \in Definition : EditEvent(e, d)

Next == Step /\ UNCHANGED scenario

Spec == Init /\ [][Next]_vars

\* The goroutines run on tickers and a backoff elapses; players, operators and
\* faults owe nothing.  A deferred claim is due for good once it is due, so a
\* retry loop that stays on lists it.
FairSpec ==
    /\ Spec
    /\ \A t \in Engines \X Servers \X Roles : WF_vars(Run(t) /\ UNCHANGED scenario)
    /\ \A k \in Keys : WF_vars(Elapse(k) /\ UNCHANGED scenario)

-----------------------------------------------------------------------------
(* Properties.  Some hold only in the scenarios named in them: manual grants, *)
(* resets and edits, a grant that lands although its call errs, and a reward  *)
(* finished by the poll loop while the retry loop has it listed break them.   *)

\* Only the engine is at work: nobody edits, resets or grants by hand.
Unattended == Environment \subseteq {"login", "logout", "elapse", "absence", "stop"}

\* And no claim falls due while its player is online, no retry is cut short,
\* and all that fails is a grant.
Apart == Environment \subseteq {"logout", "absence"} /\ Faults \subseteq {"fail"}

\* Every part of the reward the event has now reached the player somewhere.
Complete(k) ==
    \E s \in Servers : \A i \in DOMAIN def[k[1]].reward :
        delivered[<<<<s, k>>, def[k[1]].reward[i]>>] > 0

\* The retry policy is exact: a row that shows pending can still be listed, and
\* it is exhausted only after MaxAttempts attempts, whatever the poll loop, the
\* retry loops, the backfill and manual grants write over each other
\* (recordFailed, recordGranted, listRetryableClaims).
RowsConsistent ==
    \A k \in Keys :
        /\ claim[k].status = "pending" => claim[k].attempts < MaxAttempts
        /\ claim[k].status = "exhausted" => claim[k].attempts >= MaxAttempts

\* A part of a reward that has landed is not delivered again by a retry: "so a
\* partial failure doesn't re-deliver currency/items that already landed"
\* (applyOneOutcome, attemptGrantForClaim, sliceRewardSpec).
DeliveredOnce == \A d \in Deeds \X Parts : delivered[d] <= 1

\* So it is while claims fall due only for players who left and the only thing
\* that fails is a grant: the retry resumes at the part that failed.
ResumesWhereFailed == Apart => DeliveredOnce

\* A claim that was waiting for a retry is closed only when every part of its
\* reward has reached the player: slicing never skips what failed.
ClosesComplete ==
    \A k \in Keys :
        claim[k].status \in {"pending", "exhausted"} /\ claim'[k].status = "granted"
            => Complete(k)
ClosedComplete == [][ClosesComplete]_vars

\* So it is unless the operator intervenes, when the backfill pays as well.
PaidInFull == [][Unattended /\ AwardPast = Events => ClosesComplete]_vars

\* An announced winner has received the reward.
AnnouncedIsDelivered == Unattended => \A k \in Keys : announced[k] > 0 => Complete(k)

\* A deed is announced once (the poll loop stops at a granted claim), while the
\* poll loop and the retry loop do not meet at a claim.
AnnouncedOnce == Apart => \A k \in Keys : announced[k] <= 1

\* Without that a late failure of a retry reopens a claim that has been
\* granted and announced, and the next poll announces it again.
AlwaysAnnouncedOnce == Unattended => \A k \in Keys : announced[k] <= 1

\* Nothing reaches a player of a server on which the deed was not done.  (A
\* milestone once done stays done; manual grants are the operator's business.)
OnlyTheDeedPays ==
    Unattended => \A d \in Deeds : (\E p \in Parts : delivered[<<d, p>>] > 0) => d \in qualified

\* What is announced and paid follows the deeds, exactly.
Rewarded == AnnouncedIsDelivered /\ AnnouncedOnce /\ OnlyTheDeedPays

\* The backfill "silently seals already-satisfied milestones on startup so the
\* live loop never announces past deeds".
NoPastDeedAnnounced ==
    \A k \in Keys : announced[k] > 0 => \E s \in Servers : <<s, k>> \notin past

\* With the engine left on, a failed reward is retried until it is granted or
\* handed to the operator as exhausted (or an operator resets the event).
EngineStays == \E e \in Engines : <>[]engine[e]
PendingSettles ==
    Unattended /\ "elapse" \in Environment /\ EngineStays => \A k \in Keys : claim[k].status = "pending" ~> claim[k].status # "pending"
=============================================================================
