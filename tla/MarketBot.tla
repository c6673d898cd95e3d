----------------------------- MODULE MarketBot -----------------------------
(***************************************************************************)
(* The embedded market bot: its loop, its buy tick and its list tick       *)
(* (internal/marketbot/bot.go and exchange.go), the runtime configuration  *)
(* (config.go) and the lifecycle requests of an operator                   *)
(* (handlers_market_bot.go, market_bot_lifecycle.go).                      *)
(*                                                                         *)
(* The exchange itself lives in the game's database and is changed by the  *)
(* players and by the game server too.  The game has a clock of its own    *)
(* that the bot cannot read: it reconstructs it from the expiration times  *)
(* of listings.  The unit of time is coarse: a tick of the bot, and the    *)
(* expiry pass of the game server, take none.                              *)
(*                                                                         *)
(* A key is a template with a quality grade.  Stacks, item rows, category  *)
(* masks and the price formula are abstracted: the price of a key is any   *)
(* of Prices after every update.                                           *)
(***************************************************************************)
EXTENDS Integers, FiniteSets, FiniteSetsExt

CONSTANTS Keys,        \* what the catalog lists
          Sellers,     \* players; each lists one order at most
          Operators,   \* lifecycle requests that may be under way at a time
          Prices,      \* prices the price update can settle on
          Quotas,      \* values of listings_per_grade
          MaxBuys,     \* max_buys
          SelectLimit, \* the LIMIT of the query for player orders
          Life,        \* orderExpirySecs
          PlayerLives, \* for how long players list
          MaxTime,     \* the explored window of game time
          MaxOrders,   \* rows of the bot that can exist at a time
          Requests,    \* "start", "stop", "restart", "cleanup", "quota", "disable"
          Faults,      \* "insert", "delete", "buy", "init", "cleanup", "crash"
          Overlap      \* TRUE: requests overlap, and a player's order can leave
                       \* the market while a buy tick is under way

Sentinel == 2 * (MaxTime + Life)  \* epochSentinelCutoff, out of reach of the clock
Unknown == -1000                  \* gameEpochUnix = 0
Slots == 1..MaxOrders

ASSUME TimeAssumption == /\ MaxTime \in Nat \ {0}
                         /\ Life \in Nat \ {0}
                         /\ PlayerLives \subseteq 1..(MaxTime + Life)
ASSUME QuotaAssumption == /\ Quotas # {} /\ Quotas \subseteq Nat \ {0} /\ IsFiniteSet(Quotas)
                          /\ MaxBuys \in Nat /\ SelectLimit \in Nat /\ MaxOrders \in Nat
ASSUME PriceAssumption == Prices # {} /\ Prices \subseteq Nat /\ IsFiniteSet(Keys)

VARIABLES clock,     \* the game's clock
          lag,       \* how far the bot's reconstruction is behind it, or Unknown
          terminal,  \* an exchange access point exists
          orders,    \* the bot's sell orders
          selling,   \* what became of each player's order
          cfg,       \* the runtime configuration
          saved,     \* the state file
          bot,       \* the loop
          op,        \* the requests under way
          wanted     \* what operators last asked for, running or not; a restart
                     \* that fails and a request a crash cuts short ask for a pause

vars == <<clock, lag, terminal, orders, selling, cfg, saved, bot, op, wanted>>
market == <<clock, terminal, orders, selling>>
control == <<cfg, saved, op, wanted>>

Config == [enabled : BOOLEAN, quota : Quotas, disabled : SUBSET Keys]
DefaultConfig == [enabled |-> TRUE, quota |-> Max(Quotas), disabled |-> {}]

\* What a tick keeps between its statements; quota and disabled are of the
\* configuration's snapshot.
NoPlan == [quota |-> Max(Quotas), disabled |-> {}, seen |-> {}, bought |-> 0, stale |-> {},
           pending |-> [k \in Keys |-> 0],
           price |-> [k \in Keys |-> Min(Prices)], expiry |-> 0]
Resting(pc, next) == [pc |-> pc, next |-> next, plan |-> NoPlan]

Init == /\ clock = 1
        /\ lag = Unknown
        /\ terminal = FALSE
        /\ orders = {}
        /\ selling \in [Sellers -> [at : {"home"}, key : Keys, cheap : BOOLEAN, exp : {0},
                                    paid : {0}, due : {"none"}]]
        /\ cfg = DefaultConfig
        /\ saved = DefaultConfig
        /\ bot = Resting("off", "none")
        /\ op = [o \in Operators |-> [pc |-> "idle", was |-> FALSE]]
        /\ wanted = TRUE

Calm == \A o \in Operators : op[o].pc = "idle"
Of(k) == {o \in orders : o.key = k}

-----------------------------------------------------------------------------
(* The bot's clock.                                                        *)

\* The clock that follows from the latest expiration time seen.
LagFrom(exps) == clock - (Max(exps) - Life)

OwnExpsAll == {o.exp : o \in orders}  \* a mutated form of OwnExps
OwnExps == {o.exp : o \in orders} \ {Sentinel}

\* Player rows: orders on sale, and the payments of those the bot bought.
PlayerExps == {selling[s].exp : s \in {t \in Sellers :
                  selling[t].at = "listed" \/ selling[t].due = "due"}} \ {Sentinel}

\* Tier 1, tier 2 while nothing is known, or the offset as it was.
Learned == CASE OwnExps # {} -> LagFrom(OwnExps)
             [] OwnExps = {} /\ lag = Unknown /\ PlayerExps # {} -> LagFrom(PlayerExps)
             [] OTHER -> lag

\* gameNow(), given the offset; 0 stands for unknown.
GameNow(l) == IF l = Unknown THEN 0 ELSE clock - l
Expiry(l) == IF GameNow(l) > 0 THEN GameNow(l) + Life ELSE Sentinel

PaymentExpiryOfOrder == Expiry(lag)  \* a mutated form of PaymentExpiry
PaymentExpiry == Sentinel

-----------------------------------------------------------------------------
(* The loop: Init and a first tick of both kinds whatever the              *)
(* configuration, then the ticks that are due while the bot is enabled.    *)

Boot ==
    /\ bot.pc = "off" /\ Calm
    /\ cfg' = saved
    /\ lag' = Learned
    /\ bot' = Resting("buy", "list")
    /\ UNCHANGED <<market, saved, op, wanted>>

StartTick ==
    /\ bot.pc = "idle"
    /\ cfg.enabled
    /\ bot' \in {Resting("buy", "idle"), Resting("buy", "list"), Resting("list", "none")}
    /\ UNCHANGED <<market, lag, control>>

\* The context of the loop is cancelled: none of its later statements succeeds.
Stop ==
    /\ bot.pc # "off" /\ Calm
    /\ bot' = Resting("off", "none")
    /\ UNCHANGED <<market, lag, control>>

\* dune-admin stops: the requests under way are cut off with the loop, and the
\* pause a restart or a cleanup began with is in the state file.
Crash ==
    /\ "crash" \in Faults /\ bot.pc # "off"
    /\ bot' = Resting("off", "none")
    /\ op' = [o \in Operators |-> [pc |-> "idle", was |-> FALSE]]
    /\ wanted' = (wanted /\ Calm)
    /\ UNCHANGED <<market, lag, cfg, saved>>

-----------------------------------------------------------------------------
(* BuyTick: one query, then a transaction for each order worth buying.     *)

OnSale == {s \in Sellers : selling[s].at = "listed"}

SelectOrders ==
    /\ bot.pc = "buy"
    /\ lag' = Learned
    /\ \E seen \in SUBSET OnSale :
         /\ Cardinality(seen) <= SelectLimit
         /\ Cardinality(seen) < SelectLimit => seen = OnSale
         /\ bot' = [bot EXCEPT !.pc = "buying", !.plan.disabled = cfg.disabled,
                            !.plan.seen = seen]
    /\ UNCHANGED <<market, control>>

\* A mutated form of WorthBuying.
WorthEnabled(s) == selling[s].cheap /\ selling[s].key \in bot.plan.disabled

\* Cheap stands for a price within buy_threshold of the bot's own.
WorthBuying(s) == selling[s].cheap /\ selling[s].key \notin bot.plan.disabled

\* A mutated form of Bought: the listing outlives the payment.
BoughtKept(s) == [selling EXCEPT ![s].paid = @ + 1, ![s].due = "due"]

\* The payment is entered and the order removed, in one transaction that does
\* not ask whether the order is still there.
Bought(s) == [selling EXCEPT ![s].at = IF @ = "listed" THEN "bought" ELSE @,
                             ![s].exp = PaymentExpiry,
                             ![s].paid = @ + 1,
                             ![s].due = "due"]

Buy(s) ==
    /\ bot.pc = "buying" /\ s \in bot.plan.seen
    /\ bot.plan.bought < MaxBuys
    /\ WorthBuying(s)
    /\ selling' = Bought(s)
    /\ bot' = [bot EXCEPT !.plan.seen = @ \ {s}, !.plan.bought = @ + 1]
    /\ UNCHANGED <<clock, terminal, orders, lag, control>>

\* Not worth it, or the transaction fails and is rolled back.
PassOver(s) ==
    /\ bot.pc = "buying" /\ s \in bot.plan.seen
    /\ bot.plan.bought < MaxBuys
    /\ ~WorthBuying(s) \/ "buy" \in Faults
    /\ bot' = [bot EXCEPT !.plan.seen = @ \ {s}]
    /\ UNCHANGED <<market, lag, control>>

EndBuy ==
    /\ bot.pc = "buying"
    /\ bot.plan.seen = {} \/ bot.plan.bought >= MaxBuys
    /\ bot' = Resting(bot.next, "none")
    /\ UNCHANGED <<market, lag, control>>

-----------------------------------------------------------------------------
(* ListTick: learn, reprice and purge; load and plan; delete; insert.      *)

SkipList ==
    /\ bot.pc = "list" /\ ~terminal
    /\ bot' = Resting("idle", "none")
    /\ UNCHANGED <<market, lag, control>>

\* The bot's own listings that its clock has passed.
Passed == {o \in orders : GameNow(Learned) > 0 /\ o.exp < GameNow(Learned)}

Prepare ==
    /\ bot.pc = "list" /\ terminal
    /\ lag' = Learned
    /\ orders' = orders \ Passed
    /\ \E price \in [Keys -> Prices] :
         bot' = [bot EXCEPT !.pc = "load", !.plan.quota = cfg.quota,
                            !.plan.disabled = cfg.disabled, !.plan.price = price,
                            !.plan.expiry = Expiry(Learned)]
    /\ UNCHANGED <<clock, terminal, selling, control>>

Live(k) == {o \in Of(k) : o.exp > GameNow(lag)}
Priced(k) == {o \in Live(k) : o.price = bot.plan.price[k]}
WrongDisabled(k) == IF k \in bot.plan.disabled THEN Live(k) ELSE {}  \* a mutated Wrong
Wrong(k) == IF k \in bot.plan.disabled THEN Live(k) ELSE Live(k) \ Priced(k)

MissingBlind(k) == bot.plan.quota  \* a mutated form of Missing
Missing(k) == IF k \in bot.plan.disabled THEN 0
              ELSE Max({0, bot.plan.quota - Cardinality(Priced(k))})

LoadForgets ==  \* a mutated form of Load: nothing pending
    /\ bot.pc = "load"
    /\ bot' = [bot EXCEPT !.pc = "delete", !.plan.stale = UNION {Wrong(k) : k \in Keys}]
    /\ UNCHANGED <<market, lag, control>>

Load ==
    /\ bot.pc = "load"
    /\ bot' = [bot EXCEPT !.pc = "delete",
                          !.plan.stale = UNION {Wrong(k) : k \in Keys},
                          !.plan.pending = [k \in Keys |-> Missing(k)]]
    /\ UNCHANGED <<market, lag, control>>

DeleteStale ==
    /\ bot.pc = "delete"
    /\ orders' \in {orders \ bot.plan.stale}
                      \cup (IF "delete" \in Faults THEN {orders} ELSE {})
    /\ bot' = [bot EXCEPT !.pc = "insert", !.plan.stale = {}]
    /\ UNCHANGED <<clock, terminal, selling, lag, control>>

Free == Slots \ {o.id : o \in orders}
Rows(k, ids) == {[id |-> i, key |-> k, price |-> bot.plan.price[k], exp |-> bot.plan.expiry] :
                   i \in ids}

\* Free rows for what is pending, whichever.
Places == {f \in [Keys -> SUBSET Free] :
             /\ \A k \in Keys : Cardinality(f[k]) = bot.plan.pending[k]
             /\ \A k, l \in Keys : k # l => f[k] \cap f[l] = {}}

\* One transaction inserts what is pending, of all keys.
Insert ==
    /\ bot.pc = "insert"
    /\ Places # {}
    /\ LET place == CHOOSE f \in Places : TRUE
       IN  orders' = orders \cup UNION {Rows(k, place[k]) : k \in Keys}
    /\ bot' = Resting("idle", "none")
    /\ UNCHANGED <<clock, terminal, selling, lag, control>>

InsertFails ==
    /\ bot.pc = "insert" /\ "insert" \in Faults
    /\ bot' = Resting("idle", "none")
    /\ UNCHANGED <<market, lag, control>>

-----------------------------------------------------------------------------
(* Requests.  Each step is a change of the configuration, which the state  *)
(* file follows, or a statement.                                           *)

Apply(c) == cfg' = c /\ saved' = c
Ready(o, request) == /\ request \in Requests
                     /\ op[o].pc = "idle" /\ bot.pc # "off"
                     /\ Overlap \/ Calm

SetEnabled(o) ==
    /\ \E on \in BOOLEAN : /\ Ready(o, IF on THEN "start" ELSE "stop")
                           /\ Apply([cfg EXCEPT !.enabled = on])
                           /\ wanted' = on
    /\ UNCHANGED <<market, lag, bot, op>>

Tune(o) ==
    /\ \/ /\ Ready(o, "quota")
          /\ \E n \in Quotas : Apply([cfg EXCEPT !.quota = n])
       \/ /\ Ready(o, "disable")
          /\ \E ks \in SUBSET Keys : Apply([cfg EXCEPT !.disabled = ks])
    /\ UNCHANGED <<market, lag, bot, op, wanted>>

\* Restart pauses, runs Init again and resumes.
Restart(o) ==
    /\ Ready(o, "restart")
    /\ Apply([cfg EXCEPT !.enabled = FALSE])
    /\ op' = [op EXCEPT ![o].pc = "init"]
    /\ UNCHANGED <<market, lag, bot, wanted>>

Reinit(o) ==
    /\ op[o].pc = "init"
    /\ lag' = Learned
    /\ op' = [op EXCEPT ![o] = [pc |-> "resume", was |-> TRUE]]
    /\ wanted' = TRUE
    /\ UNCHANGED <<market, bot, cfg, saved>>

\* The error is returned to the operator, and the bot stays paused.
ReinitFails(o) ==
    /\ op[o].pc = "init" /\ "init" \in Faults
    /\ op' = [op EXCEPT ![o].pc = "idle"]
    /\ wanted' = FALSE
    /\ UNCHANGED <<market, lag, bot, cfg, saved>>

Cleanup(o) ==
    /\ Ready(o, "cleanup")
    /\ op' = [op EXCEPT ![o] = [pc |-> "sweep", was |-> cfg.enabled]]
    /\ Apply([cfg EXCEPT !.enabled = FALSE])
    /\ UNCHANGED <<market, lag, bot, wanted>>

Sweep(o) ==
    /\ op[o].pc = "sweep"
    /\ orders' \in {{}} \cup (IF "cleanup" \in Faults THEN {orders} ELSE {})
    /\ op' = [op EXCEPT ![o].pc = "resume"]
    /\ UNCHANGED <<clock, terminal, selling, lag, bot, cfg, saved, wanted>>

ResumeAlways(o) ==  \* a mutated form of Resume
    /\ op[o].pc = "resume"
    /\ Apply([cfg EXCEPT !.enabled = TRUE])
    /\ op' = [op EXCEPT ![o] = [pc |-> "idle", was |-> FALSE]]
    /\ UNCHANGED <<market, lag, bot, wanted>>

\* The end of a restart, and of a cleanup of a bot that was running before.
Resume(o) ==
    /\ op[o].pc = "resume"
    /\ Apply([cfg EXCEPT !.enabled = @ \/ op[o].was])
    /\ op' = [op EXCEPT ![o] = [pc |-> "idle", was |-> FALSE]]
    /\ UNCHANGED <<market, lag, bot, wanted>>

-----------------------------------------------------------------------------
(* The players and the game server.                                        *)

Expired(exp) == exp <= clock

\* The game deletes what has expired long before the next unit of time.
Pass ==
    /\ clock < MaxTime
    /\ bot.pc \in {"off", "idle"}
    /\ \A o \in orders : ~Expired(o.exp)
    /\ \A s \in Sellers : selling[s].at = "listed" => ~Expired(selling[s].exp)
    /\ clock' = clock + 1
    /\ UNCHANGED <<lag, terminal, orders, selling, control, bot>>

Expire ==
    /\ \/ /\ \E o \in orders : Expired(o.exp)
          /\ orders' = {o \in orders : ~Expired(o.exp)}
          /\ UNCHANGED selling
       \/ \E s \in Sellers :
            /\ selling[s].at = "listed" /\ Expired(selling[s].exp)
            /\ Overlap \/ bot.pc # "buying"
            /\ selling' = [selling EXCEPT ![s].at = "expired"]
            /\ UNCHANGED orders
       \/ \E s \in Sellers :
            /\ selling[s].due = "due" /\ Expired(selling[s].exp)
            /\ selling' = [selling EXCEPT ![s].due = "lost"]
            /\ UNCHANGED orders
    /\ UNCHANGED <<clock, terminal, lag, control, bot>>

OpenTerminal ==
    /\ ~terminal /\ terminal' = TRUE
    /\ UNCHANGED <<clock, orders, selling, lag, control, bot>>

ListOrder(s) ==
    /\ terminal /\ selling[s].at = "home"
    /\ \E n \in PlayerLives :
         selling' = [selling EXCEPT ![s].at = "listed", ![s].exp = clock + n]
    /\ UNCHANGED <<clock, terminal, orders, lag, control, bot>>

\* Cancelled, or bought by another player.
Withdraw(s) ==
    /\ selling[s].at = "listed"
    /\ Overlap \/ bot.pc # "buying"
    /\ selling' = [selling EXCEPT ![s].at = "withdrawn"]
    /\ UNCHANGED <<clock, terminal, orders, lag, control, bot>>

Collect(s) ==
    /\ selling[s].due = "due"
    /\ selling' = [selling EXCEPT ![s].due = "collected"]
    /\ UNCHANGED <<clock, terminal, orders, lag, control, bot>>

\* A player buys one of the bot's listings out.
Purchase ==
    /\ \E o \in orders : ~Expired(o.exp) /\ orders' = orders \ {o}
    /\ UNCHANGED <<clock, terminal, selling, lag, control, bot>>

-----------------------------------------------------------------------------
Tick == \/ SelectOrders \/ EndBuy \/ SkipList \/ Prepare \/ Load \/ DeleteStale
        \/ Insert \/ InsertFails
        \/ \E s \in Sellers : Buy(s) \/ PassOver(s)

Loop == Boot \/ StartTick \/ Tick

Request == \E o \in Operators :
             \/ SetEnabled(o) \/ Tune(o) \/ Restart(o) \/ Reinit(o) \/ ReinitFails(o)
             \/ Cleanup(o) \/ Sweep(o) \/ Resume(o)

Environment == \/ Pass \/ Expire \/ OpenTerminal \/ Purchase
               \/ \E s \in Sellers : ListOrder(s) \/ Withdraw(s) \/ Collect(s)

Next == Loop \/ Stop \/ Crash \/ Request \/ Environment

Spec == Init /\ [][Next]_vars

\* A loop that runs goes through its ticks, and its timers start ticks of both
\* kinds again and again.  A transaction does not fail for ever, and a handler
\* comes to its end.
Fairness == /\ WF_vars(Tick)
            /\ SF_vars(StartTick /\ bot' = Resting("buy", "idle"))
            /\ SF_vars(StartTick /\ bot' = Resting("list", "none"))
            /\ SF_vars(Insert)
            /\ \A s \in Sellers : SF_vars(Buy(s))
            /\ \A o \in Operators : WF_vars(Reinit(o) \/ Sweep(o) \/ Resume(o))

FairSpec == Spec /\ Fairness

-----------------------------------------------------------------------------
(* Properties.                                                             *)

\* The types of the variables.
TypeOK ==
    /\ clock \in 1..MaxTime /\ terminal \in BOOLEAN /\ wanted \in BOOLEAN
    /\ lag \in {Unknown} \cup (-Sentinel)..Sentinel
    /\ orders \subseteq [id : Slots, key : Keys, price : Prices, exp : 1..Sentinel]
    /\ selling \in [Sellers -> [at : {"home", "listed", "withdrawn", "expired", "bought"},
                                key : Keys, cheap : BOOLEAN, exp : 0..Sentinel,
                                paid : 0..2, due : {"none", "due", "collected", "lost"}]]
    /\ cfg \in Config /\ saved = cfg
    /\ bot.pc \in {"off", "idle", "buy", "buying", "list", "load", "delete", "insert"}
    /\ op \in [Operators -> [pc : {"idle", "init", "sweep", "resume"}, was : BOOLEAN]]

\* However ticks, purchases, expiries, cleanups and restarts of the bot follow
\* each other, a key never has more listings than the quota allows
\* (exchange.go, "listings to create to reach the configured quota per grade").
QuotaKept == \A k \in Keys : Cardinality(Of(k)) <= Max(Quotas)

\* Players never see the bot ask two prices for the same item and grade: a
\* tick deletes what has the wrong price before it lists at the new one.
OnePrice == \A o, p \in orders : o.key = p.key => o.price = p.price

\* What players see of the bot's listings is what the configuration asks for.
ListingsSound == QuotaKept /\ OnePrice

\* The bot pays for exactly the orders it takes off the market, once each
\* (buyPlayerListings: "part of the atomic purchase transaction").
PaidOnce == \A s \in Sellers : selling[s].paid = IF selling[s].at = "bought" THEN 1 ELSE 0

\* A seller's payment is there until it is collected, however wrong the bot's
\* clock is (sellerPaymentExpiry: "must never auto-expire").
PaymentKept == \A s \in Sellers : selling[s].due # "lost"

\* A seller gets what the order asked, once, and whenever the seller comes.
SellersPaid == PaidOnce /\ PaymentKept

\* The bot's clock is never ahead of the game's, so it never removes as
\* expired what players can still buy, while players list for at most the
\* time the bot lists for (learnGameEpoch).
ClockNotAhead == lag # Unknown => lag >= 0

\* What the bot learns from its own listings is exact (learnGameEpoch: "so
\* the offset is exact").
LearnsExactly == [][lag' # lag /\ OwnExps # {} => lag' = 0]_vars

\* What the bot lists is on sale for some time at least (ListTick: expired
\* rows are excluded so that "the bot refills those slots").
ListedAlive == [][\A o \in orders' \ orders : ~Expired(o.exp)]_vars

\* Between requests the bot is enabled exactly when the last start, stop or
\* restart left it so: a cleanup gives back what it found (CleanupListings:
\* "resumed only if it was running before"), across restarts of the loop too.
\* A crash in the middle of a restart or a cleanup leaves it paused, never
\* running against a stop.
WishKept == Calm => cfg.enabled = wanted

\* A stopped bot lists nothing (Pause: "disables the tick loop").
QuietWhenStopped == [][~cfg.enabled => orders' \subseteq orders]_vars

Running == terminal /\ bot.pc # "off" /\ cfg.enabled

\* While the bot runs, every key on sale is listed again and again, whatever
\* players buy out and the game expires.
Stocked == \A k \in Keys :
    <>[](Running /\ k \notin cfg.disabled) => []<>(Of(k) # {})

\* A running bot does not leave a player's order it would buy on the market.
NoneUnbought == \A s \in Sellers :
    ~<>[](Running /\ selling[s].at = "listed" /\ selling[s].cheap
                  /\ selling[s].key \notin cfg.disabled)

\* A running bot goes on selling and buying.
Served == Stocked /\ NoneUnbought

=============================================================================
