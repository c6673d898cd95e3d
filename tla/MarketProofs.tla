---------------------------- MODULE MarketProofs ----------------------------
(***************************************************************************)
(* Theorems about the market bot of MarketBot, for every value of its      *)
(* constants: the listings respect the quota and never show two prices of  *)
(* one item, sellers are paid once and their payment stays, and between    *)
(* requests the bot is on or off as it was last asked to be.               *)
(***************************************************************************)
EXTENDS MarketBot, FiniteSetTheorems, WellFoundedInduction, TLAPS

\* A failing deletion leaves the stale listings beside the new ones.
DeletesSucceed == "delete" \notin Faults

\* Requests, crashes and the changes of an order under a buy tick take turns.
TakesTurns == ~Overlap

-----------------------------------------------------------------------------
(* Finite sets of numbers.                                                 *)

\* Induction by the least counterexample.
LEMMA LeastNat ==
    ASSUME NEW T, T \subseteq Nat, T # {}
    PROVE  \E x \in T : \A y \in T : x <= y
<1> DEFINE Less == OpToRel(<, Nat)
<1>1. IsWellFoundedOn(Less, Nat)  BY NatLessThanWellFounded
<1>2. \A x, y \in Nat : y < x => <<y, x>> \in Less  BY DEF OpToRel
<1> HIDE DEF Less
<1>3. PICK x \in T : \A y \in T : ~(<<y, x>> \in Less)  BY <1>1, WFMin
<1>4. ASSUME NEW y \in T  PROVE x <= y
  <2>1. ~(y < x)  BY <1>2, <1>3
  <2> QED  BY <2>1
<1> QED  BY <1>4

LEMMA MaxExists ==
    ASSUME NEW S \in SUBSET Nat, IsFiniteSet(S), S # {}
    PROVE  Max(S) \in S /\ \A y \in S : y <= Max(S)
<1> DEFINE Top(U) == \E x \in U : \A y \in U : y <= x
           Bad == {n \in Nat : \E U \in SUBSET Nat :
                      IsFiniteSet(U) /\ U # {} /\ Cardinality(U) = n /\ ~Top(U)}
<1>1. ASSUME Bad # {}  PROVE FALSE
  <2>1. PICK n \in Bad : \A m \in Bad : n <= m  BY <1>1, LeastNat
  <2>2. PICK U \in SUBSET Nat :
           IsFiniteSet(U) /\ U # {} /\ Cardinality(U) = n /\ ~Top(U)  BY <2>1
  <2>3. PICK x \in U : TRUE  BY <2>2
  <2> DEFINE V == U \ {x}
  <2>4. IsFiniteSet(V) /\ Cardinality(V) = n - 1  BY <2>2, FS_RemoveElement
  <2>5. n - 1 \in Nat  BY <2>4, FS_CardinalityType
  <2>6. V # {} => Top(V)
    <3>1. n - 1 \notin Bad  BY <2>1, <2>5
    <3> HIDE DEF Top
    <3> QED BY <2>4, <2>5, <3>1
  <2>7. CASE V = {}
    BY <2>2, <2>7
  <2>8. CASE V # {}
    <3>1. PICK y \in V : \A z \in V : z <= y  BY <2>6, <2>8
    <3>2. CASE x <= y  BY <2>2, <3>1, <3>2
    <3>3. CASE ~(x <= y)  
      <4>1. \A z \in U : z <= x  BY <2>2, <3>1, <3>3
      <4> QED BY <2>2, <4>1
    <3> QED BY <3>2, <3>3
  <2> QED  BY <2>7, <2>8
<1>2. Top(S)
  <2>1. Cardinality(S) \in Nat  BY FS_CardinalityType
  <2> HIDE DEF Top
  <2> QED  BY <1>1, <2>1
<1> QED  BY <1>2 DEF Max

\* The largest quota is one of them.
LEMMA LargestQuota == Max(Quotas) \in Quotas /\ \A n \in Quotas : n <= Max(Quotas)
BY MaxExists, QuotaAssumption

-----------------------------------------------------------------------------
(* Types, and how far the bot's clock can be off.                          *)

Planning == {"load", "delete", "insert"}

Row == [id : Slots, key : Keys, price : Prices, exp : Nat \ {0}]
Offer == [at : {"home", "listed", "withdrawn", "expired", "bought"}, key : Keys,
          cheap : BOOLEAN, exp : Nat, paid : Nat, due : {"none", "due", "collected", "lost"}]
Plan == [quota : Quotas, disabled : SUBSET Keys, seen : SUBSET Sellers, bought : Nat,
         stale : SUBSET Row, pending : [Keys -> Nat], price : [Keys -> Prices], expiry : Nat]
Bot == [pc : {"off", "idle", "buy", "buying"} \cup {"list"} \cup Planning,
        next : {"none", "idle", "list"}, plan : Plan]

\* A time the bot can put on a row, or read off one.
Dated(exp) == exp = Sentinel \/ exp \in 1..(clock + MaxTime + Life)

Types ==
    /\ clock \in 1..MaxTime /\ terminal \in BOOLEAN /\ wanted \in BOOLEAN
    /\ orders \subseteq Row
    /\ selling \in [Sellers -> Offer]
    /\ cfg \in Config /\ saved \in Config
    /\ bot \in Bot
    /\ bot.pc \in {"buy", "buying"} => bot.next \in {"idle", "list"}
    /\ op \in [Operators -> [pc : {"idle", "init", "sweep", "resume"}, was : BOOLEAN]]

\* The offset is unknown or within the explored window, and so is every
\* expiration time.
Times ==
    /\ lag = Unknown \/ lag \in (-MaxTime)..(MaxTime + Life)
    /\ \A o \in orders : Dated(o.exp)
    /\ \A s \in Sellers : selling[s].at = "listed" \/ selling[s].due = "due"
                             => Dated(selling[s].exp)
    /\ bot.pc \in Planning => Dated(bot.plan.expiry)

\* A set of times that are not the sentinel gives an offset within the window.
LEMMA FromDates ==
    ASSUME Types, NEW S, S # {}, \A x \in S : x # Sentinel /\ Dated(x)
    PROVE  /\ Max(S) \in S
           /\ LagFrom(S) \in (-MaxTime)..(MaxTime + Life)
<1> USE TimeAssumption
<1>1. S \in SUBSET Nat /\ \A x \in S : x <= clock + MaxTime + Life
  BY DEF Types, Dated
<1>2. IsFiniteSet(S)
  <2>1. clock + MaxTime + Life \in Nat  BY DEF Types
  <2> QED  BY <1>1, <2>1, FS_BoundedSetOfNaturals
<1>3. Max(S) \in S  BY <1>1, <1>2, MaxExists
<1> QED  BY <1>3 DEF LagFrom, Dated, Types

\* What the bot learns is within the window too.
LEMMA Learns ==
    ASSUME Types, Times
    PROVE  Learned = Unknown \/ Learned \in (-MaxTime)..(MaxTime + Life)
<1>1. \A x \in OwnExps : x # Sentinel /\ Dated(x)  BY DEF OwnExps, Times
<1>2. \A x \in PlayerExps : x # Sentinel /\ Dated(x)  BY DEF PlayerExps, Times
<1>3. CASE OwnExps # {}  BY <1>1, <1>3, FromDates DEF Learned
<1>4. CASE OwnExps = {} /\ lag = Unknown /\ PlayerExps # {}
  BY <1>2, <1>4, FromDates DEF Learned
<1>5. CASE OwnExps = {} /\ ~(lag = Unknown /\ PlayerExps # {})
  BY <1>5 DEF Learned, Times
<1> QED  BY <1>3, <1>4, <1>5

\* With such an offset a new row is dated properly.
LEMMA DatedExpiry ==
    ASSUME Types, NEW l, l = Unknown \/ l \in (-MaxTime)..(MaxTime + Life)
    PROVE  /\ GameNow(l) \in Int /\ GameNow(l) <= clock + MaxTime
           /\ GameNow(l) < Sentinel
           /\ Expiry(l) \in Nat \ {0} /\ Dated(Expiry(l))
BY TimeAssumption DEF Types, GameNow, Expiry, Dated, Sentinel, Unknown

LEMMA PlanTypes == NoPlan \in Plan
<1>1. PICK x \in Prices : \A y \in Prices : x <= y  BY PriceAssumption, LeastNat
<1>2. Min(Prices) \in Prices  BY <1>1 DEF Min
<1>3. Max(Quotas) \in Quotas  BY LargestQuota
<1> HIDE DEF Min, Max
<1> QED  BY <1>2, <1>3 DEF NoPlan, Plan
LEMMA RestTypes ==
    ASSUME NEW pc \in {"off", "idle", "buy", "list"}, NEW next \in {"none", "idle", "list"}
    PROVE  /\ Resting(pc, next) \in Bot
           /\ Resting(pc, next).pc = pc /\ Resting(pc, next).next = next
           /\ Resting(pc, next).plan = NoPlan
BY PlanTypes DEF Resting, Bot

\* Each key has finitely many listings.
Finite == \A k \in Keys : IsFiniteSet(Of(k))

LEMMA OfFinite ==
    ASSUME Finite, NEW k \in Keys, NEW S \in SUBSET Of(k)
    PROVE  /\ IsFiniteSet(S) /\ Cardinality(S) \in Nat
           /\ Cardinality(Of(k)) \in Nat /\ Cardinality(S) <= Cardinality(Of(k))
BY FS_Subset, FS_CardinalityType DEF Finite

LEMMA InitTypes == Init => Types /\ Times /\ Finite
<1> SUFFICES ASSUME Init PROVE Types /\ Times /\ Finite  OBVIOUS
<1>5. Finite
  <2>1. \A k \in Keys : Of(k) = {}  BY DEF Init, Of
  <2> QED  BY <2>1, FS_EmptySet DEF Finite
<1>1. DefaultConfig \in Config  BY LargestQuota DEF DefaultConfig, Config
<1>2. bot \in Bot /\ bot.pc = "off"  BY RestTypes DEF Init
<1>3. selling \in [Sellers -> Offer] /\ \A s \in Sellers : selling[s].at = "home" /\ selling[s].due = "none"
  BY DEF Init, Offer
<1>4. 1 \in 1..MaxTime  BY TimeAssumption
<1> QED  BY <1>1, <1>2, <1>3, <1>4, <1>5 DEF Init, Types, Times, Planning

LEMMA LoopTypes ==
    ASSUME Types, Times, Boot \/ StartTick \/ Stop \/ Crash
    PROVE  Types' /\ Times'
<1>1. CASE Boot
  <2>1. bot' \in Bot /\ bot'.pc = "buy" /\ bot'.next = "list"
    BY <1>1, RestTypes DEF Boot
  <2> QED  BY <1>1, <2>1, Learns DEF Boot, Types, Times, market, Planning, Dated
<1>2. CASE StartTick
  <2>1. bot' \in Bot /\ bot'.pc \in {"buy", "list"}
       /\ (bot'.pc = "buy" => bot'.next \in {"idle", "list"})
    BY <1>2, RestTypes DEF StartTick
  <2> QED  BY <1>2, <2>1 DEF StartTick, Types, Times, market, control, Planning, Dated
<1>3. CASE Stop \/ Crash
  <2>1. bot' \in Bot /\ bot'.pc = "off"  BY <1>3, RestTypes DEF Stop, Crash
  <2>2. op' \in [Operators -> [pc : {"idle", "init", "sweep", "resume"}, was : BOOLEAN]]
    <3>1. CASE Stop  BY <3>1 DEF Stop, Types, control
    <3>2. CASE Crash  BY <3>2 DEF Crash
    <3> QED  BY <1>3, <3>1, <3>2
  <2> QED  BY <1>3, <2>1, <2>2 DEF Stop, Crash, Types, Times, market, control, Planning, Dated
<1> QED  BY <1>1, <1>2, <1>3

\* What a purchase does to the order it takes.
LEMMA BuysOne ==
    ASSUME Types, NEW s \in Sellers, selling' = Bought(s)
    PROVE  /\ selling' \in [Sellers -> Offer]
           /\ \A t \in Sellers \ {s} : selling'[t] = selling[t]
           /\ selling'[s].at = IF selling[s].at = "listed" THEN "bought" ELSE selling[s].at
           /\ selling'[s].exp = Sentinel /\ selling'[s].due = "due"
           /\ selling'[s].paid = selling[s].paid + 1
<1>1. Sentinel \in Nat  BY TimeAssumption DEF Sentinel
<1>2. selling \in [Sellers -> Offer] /\ selling[s] \in Offer  BY DEF Types
<1> DEFINE at == IF selling[s].at = "listed" THEN "bought" ELSE selling[s].at
           paid == selling[s].paid + 1
           r == [selling[s] EXCEPT !.at = at, !.exp = Sentinel, !.paid = paid, !.due = "due"]
<1>0. at \in {"home", "listed", "withdrawn", "expired", "bought"} /\ paid \in Nat
  BY <1>2 DEF Offer
<1>4. selling' = [selling EXCEPT ![s] = r]  BY <1>2 DEF Bought, PaymentExpiry
<1>3. /\ r \in Offer /\ r.exp = Sentinel /\ r.due = "due" /\ r.paid = paid /\ r.at = at
  <2> HIDE DEF at, paid
  <2> QED  BY <1>0, <1>1, <1>2 DEF Offer
<1> HIDE DEF r
<1> QED  BY <1>2, <1>3, <1>4

LEMMA BuyTypes ==
    ASSUME Types, Times,
           SelectOrders \/ EndBuy \/ SkipList \/ \E s \in Sellers : Buy(s) \/ PassOver(s)
    PROVE  Types' /\ Times'
<1>1. CASE SelectOrders
  <2>1. bot' \in Bot /\ bot'.pc = "buying" /\ bot'.next = bot.next
    <3>1. PICK seen \in SUBSET OnSale :
            bot' = [bot EXCEPT !.pc = "buying", !.plan.disabled = cfg.disabled, !.plan.seen = seen]
      BY <1>1 DEF SelectOrders
    <3>2. seen \in SUBSET Sellers /\ cfg.disabled \in SUBSET Keys  BY DEF OnSale, Types, Config
    <3> QED  BY <3>1, <3>2 DEF Types, Bot, Plan
  <2> QED  BY <1>1, <2>1, Learns DEF SelectOrders, Types, Times, market, control, Planning, Dated
<1>2. CASE EndBuy \/ SkipList
  <2>1. bot' \in Bot /\ bot'.pc \in {"idle", "list"}
    <3>1. CASE EndBuy
      <4>1. bot.next \in {"idle", "list"}  BY <3>1 DEF EndBuy, Types
      <4> QED  BY <3>1, <4>1, RestTypes DEF EndBuy, Planning
    <3>2. CASE SkipList  BY <3>2, RestTypes DEF SkipList, Planning
    <3> QED  BY <1>2, <3>1, <3>2
  <2> QED  BY <1>2, <2>1 DEF EndBuy, SkipList, Types, Times, market, control, Planning, Dated
<1>3. ASSUME NEW s \in Sellers, Buy(s) PROVE Types' /\ Times'
  <2>1. bot' \in Bot /\ bot'.pc = "buying" /\ bot'.next = bot.next
    <3> DEFINE seen == bot.plan.seen \ {s}
               bought == bot.plan.bought + 1
    <3>1. seen \in SUBSET Sellers /\ bought \in Nat  BY DEF Types, Bot, Plan
    <3>2. bot.pc = "buying" /\ bot' = [bot EXCEPT !.plan.seen = seen, !.plan.bought = bought]
      BY <1>3 DEF Buy
    <3> HIDE DEF seen, bought
    <3> QED  BY <3>1, <3>2 DEF Types, Bot, Plan
  <2>2. /\ selling' \in [Sellers -> Offer]
        /\ \A t \in Sellers : selling'[t].exp = Sentinel \/ selling'[t] = selling[t]
    BY <1>3, BuysOne DEF Buy
  <2> QED  BY <1>3, <2>1, <2>2 DEF Buy, Types, Times, control, Planning, Dated
<1>4. ASSUME NEW s \in Sellers, PassOver(s) PROVE Types' /\ Times'
  <2>1. bot' \in Bot /\ bot'.pc = "buying" /\ bot'.next = bot.next
    BY <1>4 DEF PassOver, Types, Bot, Plan
  <2> QED  BY <1>4, <2>1 DEF PassOver, Types, Times, market, control, Planning, Dated
<1> QED  BY <1>1, <1>2, <1>3, <1>4
\* The number of listings a key lacks.
LEMMA MissingNat ==
    ASSUME Types, Finite, NEW k \in Keys
    PROVE  /\ Missing(k) \in Nat
           /\ Missing(k) = 0 \/ Cardinality(Priced(k)) + Missing(k) <= bot.plan.quota
<1>1. bot.plan.quota \in Nat  BY QuotaAssumption DEF Types, Bot, Plan
<1>2. Cardinality(Priced(k)) \in Nat
  <2>1. Priced(k) \in SUBSET Of(k)  BY DEF Priced, Live
  <2> QED  BY <2>1, OfFinite
<1> DEFINE q == bot.plan.quota
           c == Cardinality(Priced(k))
           S == {0, q - c}
           m == Max({0, q - c})
<1>3. m \in S /\ \A y \in S : m >= y
  <2>1. \E x \in S : \A y \in S : x >= y
    <3>1. CASE q >= c  BY <1>1, <1>2, <3>1
    <3>2. CASE q < c  BY <1>1, <1>2, <3>2
    <3> QED  BY <1>1, <1>2, <3>1, <3>2
  <2> QED  BY <2>1 DEF Max
<1>4. m \in Nat /\ (m = 0 \/ c + m <= q)
  <2> HIDE DEF m
  <2> QED  BY <1>1, <1>2, <1>3
<1>5. Missing(k) = IF k \in bot.plan.disabled THEN 0 ELSE m  BY DEF Missing
<1> HIDE DEF m, c, q
<1> QED  BY <1>4, <1>5 DEF c, q

LEMMA ListTypes ==
    ASSUME Types, Times, Finite, Prepare \/ Load \/ DeleteStale
    PROVE  Types' /\ Times'
<1>1. CASE Prepare
  <2>1. PICK price \in [Keys -> Prices] :
          bot' = [bot EXCEPT !.pc = "load", !.plan.quota = cfg.quota,
                             !.plan.disabled = cfg.disabled, !.plan.price = price,
                             !.plan.expiry = Expiry(Learned)]
    BY <1>1 DEF Prepare
  <2>2. cfg.quota \in Quotas /\ cfg.disabled \in SUBSET Keys  BY DEF Types, Config
  <2> DEFINE e == Expiry(Learned)
  <2>3. e \in Nat \ {0} /\ Dated(e)  BY Learns, DatedExpiry
  <2> HIDE DEF e
  <2>4. bot' \in Bot /\ bot'.pc = "load" /\ bot'.plan.expiry = e
    <3>1. bot' = [bot EXCEPT !.pc = "load", !.plan.quota = cfg.quota,
                             !.plan.disabled = cfg.disabled, !.plan.price = price,
                             !.plan.expiry = e]
      BY <2>1 DEF e
    <3> QED  BY <2>2, <2>3, <3>1 DEF Types, Bot, Plan, Planning
  <2>5. orders' \subseteq orders /\ UNCHANGED <<clock, terminal, selling, cfg, saved, op, wanted>>
    BY <1>1 DEF Prepare, control
  <2>6. lag' = Learned  BY <1>1 DEF Prepare
  <2> QED  BY <2>3, <2>4, <2>5, <2>6, Learns DEF Types, Times, Dated
<1>2. CASE Load
  <2>1. UNION {Wrong(k) : k \in Keys} \in SUBSET Row
    BY DEF Types, Wrong, Live, Of, Priced
  <2>2. [k \in Keys |-> Missing(k)] \in [Keys -> Nat]  BY MissingNat
  <2>3. /\ bot' \in Bot /\ bot'.pc = "delete" /\ bot.pc = "load"
        /\ bot'.plan.expiry = bot.plan.expiry
    <3> DEFINE w == UNION {Wrong(k) : k \in Keys}
               p == [k \in Keys |-> Missing(k)]
    <3>1. bot' = [bot EXCEPT !.pc = "delete", !.plan.stale = w, !.plan.pending = p] /\ bot.pc = "load"
      BY <1>2 DEF Load
    <3>2. w \in SUBSET Row /\ p \in [Keys -> Nat]  BY <2>1, <2>2
    <3> HIDE DEF w, p
    <3> QED  BY <3>1, <3>2 DEF Types, Bot, Plan, Planning
  <2> QED  BY <1>2, <2>3 DEF Load, Types, Times, market, control, Planning, Dated
<1>3. CASE DeleteStale
  <2>1. /\ bot' \in Bot /\ bot'.pc = "insert" /\ bot.pc = "delete"
        /\ bot'.plan.expiry = bot.plan.expiry
    BY <1>3 DEF DeleteStale, Types, Bot, Plan, Planning
  <2>2. orders' \subseteq orders  BY <1>3 DEF DeleteStale
  <2> QED  BY <1>3, <2>1, <2>2 DEF DeleteStale, Types, Times, control, Planning, Dated
<1> QED  BY <1>1, <1>2, <1>3

\* The rows an insertion adds, key by key.
LEMMA Inserted ==
    ASSUME Types, Insert
    PROVE  \E f \in [Keys -> SUBSET Free] :
             /\ \A k \in Keys : Cardinality(f[k]) = bot.plan.pending[k]
             /\ orders' = orders \cup UNION {Rows(k, f[k]) : k \in Keys}
<1> DEFINE f == CHOOSE g \in Places : TRUE
<1>1. f \in Places /\ orders' = orders \cup UNION {Rows(k, f[k]) : k \in Keys}
  BY DEF Insert
<1> QED  BY <1>1 DEF Places

\* As many rows as places.
LEMMA RowsCount ==
    ASSUME NEW k, NEW ids \in SUBSET Slots
    PROVE  IsFiniteSet(Rows(k, ids)) /\ Cardinality(Rows(k, ids)) <= Cardinality(ids)
<1>1. IsFiniteSet(ids)
  <2>1. IsFiniteSet(Slots)  BY QuotaAssumption, FS_Interval DEF Slots
  <2> QED  BY <2>1, FS_Subset
<1> DEFINE f == [r \in Rows(k, ids) |-> r.id]
<1>2. f \in Injection(Rows(k, ids), ids)
  BY DEF Rows, Injection, IsInjective
<1> QED  BY <1>1, <1>2, FS_Injection

\* An insertion adds what is pending at most.
LEMMA ListingsGrow ==
    ASSUME Types, Finite, Insert, NEW k \in Keys
    PROVE  /\ IsFiniteSet(Of(k)') /\ Cardinality(Of(k)') \in Nat
           /\ Cardinality(Of(k)') <= Cardinality(Of(k)) + bot.plan.pending[k]
<1>1. PICK f \in [Keys -> SUBSET Free] :
        /\ \A l \in Keys : Cardinality(f[l]) = bot.plan.pending[l]
        /\ orders' = orders \cup UNION {Rows(l, f[l]) : l \in Keys}
  BY Inserted
<1> DEFINE n == Rows(k, f[k])
           a == Cardinality(Of(k))
           b == Cardinality(n)
           c == Cardinality(Of(k) \cap n)
<1>2. Of(k)' = Of(k) \cup n  BY <1>1 DEF Of, Rows
<1>3. f[k] \in SUBSET Slots  BY <1>1 DEF Free
<1>4. IsFiniteSet(n) /\ b <= bot.plan.pending[k]  BY <1>1, <1>3, RowsCount
<1>5. IsFiniteSet(Of(k))  BY DEF Finite
<1>6. IsFiniteSet(Of(k) \cup n) /\ Cardinality(Of(k) \cup n) = a + b - c
  BY <1>4, <1>5, FS_Union
<1>7. a \in Nat /\ b \in Nat /\ c \in Nat /\ Cardinality(Of(k) \cup n) \in Nat
  BY <1>4, <1>5, <1>6, FS_CardinalityType, FS_Intersection
<1>8. bot.plan.pending[k] \in Nat  BY DEF Types, Bot, Plan
<1> HIDE DEF a, b, c, n
<1>9. a + b - c <= a + bot.plan.pending[k]  BY <1>4, <1>7, <1>8
<1> QED  BY <1>2, <1>6, <1>7, <1>9 DEF a

LEMMA InsertTypes ==
    ASSUME Types, Times, Insert \/ InsertFails
    PROVE  Types' /\ Times'
<1>1. bot' \in Bot /\ bot'.pc = "idle"  BY RestTypes DEF Insert, InsertFails
<1>2. CASE Insert
  <2>1. PICK f \in [Keys -> SUBSET Free] :
          orders' = orders \cup UNION {Rows(k, f[k]) : k \in Keys}  BY <1>2, Inserted
  <2>2. bot.plan \in Plan /\ bot.pc = "insert"  BY <1>2 DEF Insert, Types, Bot
  <2>3. bot.plan.expiry \in Nat \ {0} /\ Dated(bot.plan.expiry)
    BY <2>2, TimeAssumption DEF Times, Planning, Dated, Sentinel, Plan
  <2>4. ASSUME NEW k \in Keys, NEW r \in Rows(k, f[k])
        PROVE  r \in Row /\ r.exp = bot.plan.expiry
    <3>1. PICK i \in f[k] : r = [id |-> i, key |-> k, price |-> bot.plan.price[k],
                                 exp |-> bot.plan.expiry]
      BY <2>4 DEF Rows
    <3>2. i \in Slots  BY <2>1 DEF Free
    <3>3. bot.plan.price[k] \in Prices  BY <2>2 DEF Plan
    <3> QED  BY <2>3, <3>1, <3>2, <3>3 DEF Row
  <2>5. orders' \subseteq Row /\ \A o \in orders' : Dated(o.exp)
    BY <2>1, <2>3, <2>4 DEF Types, Times
  <2> QED  BY <1>1, <1>2, <2>5 DEF Insert, Types, Times, control, Planning, Dated
<1>3. CASE InsertFails
  BY <1>1, <1>3 DEF InsertFails, Types, Times, market, control, Planning, Dated
<1> QED  BY <1>2, <1>3
-----------------------------------------------------------------------------
(* Requests and the players.                                               *)

LEMMA RequestTypes ==
    ASSUME Types, Times, Request
    PROVE  Types' /\ Times'
<1> DEFINE Op == [pc : {"idle", "init", "sweep", "resume"}, was : BOOLEAN]
<1>1. PICK o \in Operators :
        \/ SetEnabled(o) \/ Tune(o) \/ Restart(o) \/ Reinit(o) \/ ReinitFails(o)
        \/ Cleanup(o) \/ Sweep(o) \/ Resume(o)
  BY DEF Request
<1>2. op \in [Operators -> Op] /\ cfg \in Config  BY DEF Types
<1>3. CASE SetEnabled(o)
  <2>1. cfg' \in Config /\ saved' = cfg' /\ wanted' \in BOOLEAN
    BY <1>2, <1>3 DEF SetEnabled, Apply, Config
  <2> QED  BY <1>3, <2>1 DEF SetEnabled, Types, Times, market, Planning, Dated
<1>4. CASE Tune(o)
  <2>1. cfg' \in Config /\ saved' = cfg'  BY <1>2, <1>4 DEF Tune, Apply, Config
  <2> QED  BY <1>4, <2>1 DEF Tune, Types, Times, market, Planning, Dated
<1>5. CASE Restart(o)
  <2>1. cfg' \in Config /\ saved' = cfg'  BY <1>2, <1>5 DEF Restart, Apply, Config
  <2>2. op' \in [Operators -> Op]  BY <1>2, <1>5 DEF Restart
  <2> QED  BY <1>5, <2>1, <2>2 DEF Restart, Types, Times, market, Planning, Dated
<1>6. CASE Reinit(o)
  <2>1. op' \in [Operators -> Op]  BY <1>2, <1>6 DEF Reinit
  <2> QED  BY <1>6, <2>1, Learns DEF Reinit, Types, Times, market, Planning, Dated
<1>7. CASE ReinitFails(o)
  <2>1. op' \in [Operators -> Op]  BY <1>2, <1>7 DEF ReinitFails
  <2> QED  BY <1>7, <2>1 DEF ReinitFails, Types, Times, market, Planning, Dated
<1>8. CASE Cleanup(o)
  <2>1. cfg' \in Config /\ saved' = cfg' /\ cfg.enabled \in BOOLEAN
    BY <1>2, <1>8 DEF Cleanup, Apply, Config
  <2>2. op' \in [Operators -> Op]  BY <1>2, <1>8, <2>1 DEF Cleanup
  <2> QED  BY <1>8, <2>1, <2>2 DEF Cleanup, Types, Times, market, Planning, Dated
<1>9. CASE Sweep(o)
  <2>1. op' \in [Operators -> Op]  BY <1>2, <1>9 DEF Sweep
  <2>2. orders' \subseteq orders  BY <1>9 DEF Sweep
  <2> QED  BY <1>9, <2>1, <2>2 DEF Sweep, Types, Times, Planning, Dated
<1>10. CASE Resume(o)
  <2>1. cfg' \in Config /\ saved' = cfg'
    BY <1>2, <1>10 DEF Resume, Apply, Config
  <2>2. op' \in [Operators -> Op]  BY <1>2, <1>10 DEF Resume
  <2> QED  BY <1>10, <2>1, <2>2 DEF Resume, Types, Times, market, Planning, Dated
<1> QED  BY <1>1, <1>3, <1>4, <1>5, <1>6, <1>7, <1>8, <1>9, <1>10

LEMMA EnvironmentTypes ==
    ASSUME Types, Times, Environment
    PROVE  Types' /\ Times'
<1> USE TimeAssumption
<1>0. selling \in [Sellers -> Offer]  BY DEF Types
<1>1. CASE Pass
  <2>1. clock' \in 1..MaxTime /\ clock' = clock + 1  BY <1>1 DEF Pass, Types
  <2> QED  BY <1>1, <2>1 DEF Pass, Types, Times, control, Planning, Dated
<1>2. CASE Expire
  <2>1. orders' \subseteq orders  BY <1>2 DEF Expire
  <2>2. /\ selling' \in [Sellers -> Offer]
        /\ \A s \in Sellers : /\ selling'[s].exp = selling[s].exp
                              /\ selling'[s].at = "listed" => selling[s].at = "listed"
                              /\ selling'[s].due = "due" => selling[s].due = "due"
    BY <1>0, <1>2 DEF Expire, Offer
  <2> QED  BY <1>2, <2>1, <2>2 DEF Expire, Types, Times, control, Planning, Dated
<1>3. CASE OpenTerminal
  BY <1>3 DEF OpenTerminal, Types, Times, control, Planning, Dated
<1>4. CASE Purchase
  BY <1>4 DEF Purchase, Types, Times, control, Planning, Dated
<1>5. ASSUME NEW s \in Sellers, ListOrder(s)  PROVE Types' /\ Times'
  <2>1. PICK n \in PlayerLives :
          selling' = [selling EXCEPT ![s].at = "listed", ![s].exp = clock + n]
    BY <1>5 DEF ListOrder
  <2> DEFINE e == clock + n
  <2>2. e \in Nat /\ e \in 1..(clock + MaxTime + Life)  BY DEF Types
  <2>3. selling' = [selling EXCEPT ![s].at = "listed", ![s].exp = e]  BY <2>1
  <2> HIDE DEF e
  <2>4. /\ selling' \in [Sellers -> Offer]
        /\ \A t \in Sellers : selling'[t].exp = e \/ selling'[t] = selling[t]
    BY <1>0, <2>2, <2>3 DEF Offer
  <2> QED  BY <1>5, <2>2, <2>4 DEF ListOrder, Types, Times, control, Planning, Dated
<1>6. ASSUME NEW s \in Sellers, Withdraw(s) \/ Collect(s)  PROVE Types' /\ Times'
  <2>2. /\ selling' \in [Sellers -> Offer]
        /\ \A t \in Sellers : /\ selling'[t].exp = selling[t].exp
                              /\ selling'[t].at = "listed" => selling[t].at = "listed"
                              /\ selling'[t].due = "due" => selling[t].due = "due"
    BY <1>0, <1>6 DEF Withdraw, Collect, Offer
  <2> QED  BY <1>6, <2>2 DEF Withdraw, Collect, Types, Times, control, Planning, Dated
<1> QED  BY <1>1, <1>2, <1>3, <1>4, <1>5, <1>6 DEF Environment
LEMMA FewerFinite == ASSUME Finite, orders' \subseteq orders  PROVE Finite'
<1>1. \A k \in Keys : Of(k)' \in SUBSET Of(k)  BY DEF Of
<1> QED  BY <1>1, FS_Subset DEF Finite

LEMMA StepFinite == Types /\ Finite /\ [Next]_vars => Finite'
<1> SUFFICES ASSUME Types, Finite, [Next]_vars  PROVE Finite'  OBVIOUS
<1>1. CASE Insert  BY <1>1, ListingsGrow DEF Finite
<1>2. CASE ~Insert
  <2>1. orders' \subseteq orders
    BY <1>2 DEF Next, vars, Loop, Tick, Request, Environment, Boot, StartTick, Stop, Crash,
                SelectOrders, EndBuy, SkipList, Prepare, Load, DeleteStale, InsertFails,
                Buy, PassOver, Pass, Expire, OpenTerminal, Purchase, ListOrder, Withdraw,
                Collect, SetEnabled, Tune, Restart, Reinit, ReinitFails, Cleanup, Sweep,
                Resume, market
  <2> QED  BY <2>1, FewerFinite
<1> QED  BY <1>1, <1>2

LEMMA StepTypes == Types /\ Times /\ Finite /\ [Next]_vars => Types' /\ Times'
<1> SUFFICES ASSUME Types, Times, Finite, [Next]_vars  PROVE Types' /\ Times'  OBVIOUS
<1>1. CASE UNCHANGED vars  BY <1>1 DEF vars, Types, Times, Dated
<1>2. CASE Loop \/ Stop \/ Crash
  <2>1. CASE Boot \/ StartTick \/ Stop \/ Crash  BY <2>1, LoopTypes
  <2>2. CASE Tick  BY <2>2, BuyTypes, ListTypes, InsertTypes DEF Tick
  <2> QED  BY <1>2, <2>1, <2>2 DEF Loop
<1> QED  BY <1>1, <1>2, RequestTypes, EnvironmentTypes DEF Next

-----------------------------------------------------------------------------
(* Listings: quota and price.                                              *)

\* What the bot listed at a time it knew expires together.
OneExpiry == \A o, p \in orders :
    o.exp # Sentinel /\ p.exp # Sentinel => o.exp = p.exp

Kept(k) == {o \in Of(k) : o.price = bot.plan.price[k]}

ListingInv ==
    /\ Finite /\ QuotaKept /\ OnePrice /\ OneExpiry
    /\ bot.pc \in Planning => \A o \in orders :
          bot.plan.expiry # Sentinel => o.exp \in {Sentinel, bot.plan.expiry}
    /\ bot.pc = "load" => \A o \in orders : o.exp > GameNow(lag)
    /\ bot.pc = "delete" => \A o \in orders :
          o.price # bot.plan.price[o.key] => o \in bot.plan.stale
    /\ bot.pc = "insert" => \A o \in orders : o.price = bot.plan.price[o.key]
    /\ bot.pc \in {"delete", "insert"} => \A k \in Keys :
          \/ bot.plan.pending[k] = 0
          \/ Cardinality(Kept(k)) + bot.plan.pending[k] <= bot.plan.quota

\* The clock the bot reads off its listings is a listing's life before they
\* expire: none of them is past.
LEMMA NonePast ==
    ASSUME Types, Times, OneExpiry, NEW o \in orders
    PROVE  /\ o.exp > GameNow(Learned)
           /\ Expiry(Learned) # Sentinel => o.exp \in {Sentinel, Expiry(Learned)}
<1> USE TimeAssumption
<1>1. GameNow(Learned) < Sentinel /\ GameNow(Learned) \in Int  BY Learns, DatedExpiry
<1>2. o.exp \in Nat \ {0}  BY DEF Types, Row
<1>3. CASE o.exp = Sentinel  BY <1>1, <1>3
<1>4. CASE o.exp # Sentinel
  <2> DEFINE e == o.exp
  <2>1. OwnExps # {} /\ \A x \in OwnExps : x = e /\ x # Sentinel /\ Dated(x)
    BY <1>4 DEF OwnExps, OneExpiry, Times
  <2>2. Max(OwnExps) = e  BY <2>1, FromDates
  <2>3. Learned = clock - (e - Life)  BY <2>1, <2>2 DEF Learned, LagFrom
  <2>4. GameNow(Learned) = IF Learned = Unknown THEN 0 ELSE e - Life
    <3> HIDE DEF e
    <3> QED  BY <1>2, <2>3 DEF GameNow, Types, e
  <2> HIDE DEF e
  <2>5. e > GameNow(Learned)  BY <1>2, <2>4 DEF e
  <2>6. Expiry(Learned) \in {Sentinel, e}  BY <1>2, <2>4 DEF Expiry, e
  <2> QED  BY <2>5, <2>6 DEF e
<1> QED  BY <1>3, <1>4

\* Listings that go disturb nothing.
LEMMA FewerKeep ==
    ASSUME Types, ListingInv, orders' \subseteq orders
    PROVE  /\ Finite' /\ QuotaKept' /\ OnePrice' /\ OneExpiry'
<1>1. \A k \in Keys : \A S \in SUBSET Of(k) :
         IsFiniteSet(S) /\ Cardinality(S) <= Cardinality(Of(k)) /\ Cardinality(S) \in Nat
                        /\ Cardinality(Of(k)) \in Nat
  BY OfFinite DEF ListingInv
<1>2. \A k \in Keys : Of(k)' \in SUBSET Of(k)  BY DEF Of
<1>3. QuotaKept'
  <2>1. Max(Quotas) \in Nat  BY LargestQuota, QuotaAssumption
  <2> QED  BY <1>1, <1>2, <2>1 DEF ListingInv, QuotaKept
<1>4. OnePrice' /\ OneExpiry'  BY DEF ListingInv, OnePrice, OneExpiry
<1> QED  BY <1>1, <1>2, <1>3, <1>4 DEF Finite

\* A plan stands while listings go.
LEMMA PlanKeeps ==
    ASSUME Types, ListingInv, orders' \subseteq orders, bot' = bot,
           bot.pc = "load" => \A o \in orders' : o.exp > GameNow(lag)'
    PROVE  ListingInv'
<1>1. ASSUME NEW k \in Keys, bot.pc \in {"delete", "insert"}
      PROVE  \/ bot.plan.pending[k] = 0
             \/ Cardinality(Kept(k))' + bot.plan.pending[k] <= bot.plan.quota
  <2>1. bot.plan.quota \in Nat /\ bot.plan.pending[k] \in Nat
    BY QuotaAssumption DEF Types, Bot, Plan
  <2>2. Kept(k)' \in SUBSET Kept(k) /\ Kept(k) \in SUBSET Of(k)  BY DEF Kept, Of
  <2>3. IsFiniteSet(Kept(k)) /\ Cardinality(Kept(k)) \in Nat
    BY <2>2, OfFinite DEF ListingInv
  <2>4. Cardinality(Kept(k)') <= Cardinality(Kept(k)) /\ Cardinality(Kept(k)') \in Nat
    BY <2>2, <2>3, FS_Subset, FS_CardinalityType
  <2>5. \/ bot.plan.pending[k] = 0
        \/ Cardinality(Kept(k)) + bot.plan.pending[k] <= bot.plan.quota
    BY <1>1 DEF ListingInv
  <2> QED  BY <2>1, <2>3, <2>4, <2>5
<1> QED  BY <1>1, FewerKeep DEF ListingInv

\* Outside a list tick there is no plan.
LEMMA NoPlanKeeps ==
    ASSUME Types, ListingInv, orders' \subseteq orders, bot'.pc \notin Planning
    PROVE  ListingInv'
BY FewerKeep DEF ListingInv, Planning
LEMMA PrepareListings ==
    ASSUME Types, Times, ListingInv, Prepare
    PROVE  ListingInv'
<1>1. PICK price \in [Keys -> Prices] :
        bot' = [bot EXCEPT !.pc = "load", !.plan.quota = cfg.quota,
                           !.plan.disabled = cfg.disabled, !.plan.price = price,
                           !.plan.expiry = Expiry(Learned)]
  BY DEF Prepare
<1> DEFINE e == Expiry(Learned)
           g == GameNow(Learned)
<1>2. bot'.pc = "load" /\ bot'.plan.expiry = e
  <2>1. bot' = [bot EXCEPT !.pc = "load", !.plan.quota = cfg.quota,
                           !.plan.disabled = cfg.disabled, !.plan.price = price,
                           !.plan.expiry = e]
    BY <1>1
  <2> HIDE DEF e
  <2> QED  BY <2>1 DEF Types, Bot, Plan
<1>3. OneExpiry  BY DEF ListingInv
<1>4. \A o \in orders : o.exp > g /\ (e # Sentinel => o.exp \in {Sentinel, e})
  BY <1>3, NonePast
<1>5. orders' \subseteq orders /\ GameNow(lag)' = g
  BY DEF Prepare, GameNow
<1> HIDE DEF e, g
<1> QED  BY <1>2, <1>4, <1>5, FewerKeep DEF ListingInv

LEMMA LoadListings ==
    ASSUME Types, ListingInv, Load
    PROVE  ListingInv'
<1> DEFINE w == UNION {Wrong(k) : k \in Keys}
           p == [k \in Keys |-> Missing(k)]
<1>1. bot.pc = "load" /\ bot' = [bot EXCEPT !.pc = "delete", !.plan.stale = w, !.plan.pending = p]
  BY DEF Load
<1>2. orders' = orders  BY DEF Load, market
<1>3. \A o \in orders : o.exp > GameNow(lag)  BY <1>1 DEF ListingInv
<1>4. \A k \in Keys : Live(k) = Of(k) /\ Priced(k) = Kept(k)
  BY <1>3 DEF Live, Of, Priced, Kept
<1>5. \A o \in orders : o.price # bot.plan.price[o.key] => o \in w
  BY <1>4 DEF Types, Row, Wrong, Of, Kept
<1>6. \A k \in Keys : p[k] = 0 \/ Cardinality(Kept(k)) + p[k] <= bot.plan.quota
  <2> TAKE k \in Keys
  <2>1. Missing(k) = 0 \/ Cardinality(Priced(k)) + Missing(k) <= bot.plan.quota
    BY MissingNat DEF ListingInv
  <2> QED  BY <1>4, <2>1
<1> HIDE DEF w, p
<1>7. /\ bot'.pc = "delete" /\ bot'.plan.stale = w /\ bot'.plan.pending = p
      /\ bot'.plan.quota = bot.plan.quota /\ bot'.plan.price = bot.plan.price
      /\ bot'.plan.expiry = bot.plan.expiry
  BY <1>1 DEF Types, Bot, Plan
<1>8. \A k \in Keys : Cardinality(Kept(k))' = Cardinality(Kept(k))
  BY <1>2, <1>7 DEF Kept, Of
<1>9. Finite' /\ QuotaKept' /\ OnePrice' /\ OneExpiry'  BY <1>2, FewerKeep
<1>10. \A o \in orders : bot.plan.expiry # Sentinel => o.exp \in {Sentinel, bot.plan.expiry}
  BY <1>1 DEF ListingInv, Planning
<1> QED  BY <1>2, <1>5, <1>6, <1>7, <1>8, <1>9, <1>10 DEF ListingInv

LEMMA DeleteListings ==
    ASSUME DeletesSucceed, Types, ListingInv, DeleteStale
    PROVE  ListingInv'
<1>1. bot.pc = "delete" /\ bot' = [bot EXCEPT !.pc = "insert", !.plan.stale = {}]
      /\ orders' = orders \ bot.plan.stale
  BY DEF DeleteStale, DeletesSucceed
<1>2. /\ bot'.pc = "insert" /\ bot'.plan.pending = bot.plan.pending
      /\ bot'.plan.quota = bot.plan.quota /\ bot'.plan.price = bot.plan.price
      /\ bot'.plan.expiry = bot.plan.expiry
  BY <1>1 DEF Types, Bot, Plan
<1>3. Finite' /\ QuotaKept' /\ OnePrice' /\ OneExpiry'  BY <1>1, FewerKeep
<1>4. \A o \in orders' : o.price = bot.plan.price[o.key]  BY <1>1 DEF ListingInv
<1>5. ASSUME NEW k \in Keys
      PROVE  \/ bot.plan.pending[k] = 0
             \/ Cardinality(Kept(k))' + bot.plan.pending[k] <= bot.plan.quota
  <2>1. bot.plan.quota \in Nat /\ bot.plan.pending[k] \in Nat
    BY QuotaAssumption DEF Types, Bot, Plan
  <2>2. Kept(k)' \in SUBSET Kept(k) /\ Kept(k) \in SUBSET Of(k)  BY <1>1, <1>2 DEF Kept, Of
  <2>3. IsFiniteSet(Kept(k)) /\ Cardinality(Kept(k)) \in Nat
    BY <2>2, OfFinite DEF ListingInv
  <2>4. Cardinality(Kept(k)') <= Cardinality(Kept(k)) /\ Cardinality(Kept(k)') \in Nat
    BY <2>2, <2>3, FS_Subset, FS_CardinalityType
  <2>5. \/ bot.plan.pending[k] = 0
        \/ Cardinality(Kept(k)) + bot.plan.pending[k] <= bot.plan.quota
    BY <1>1 DEF ListingInv
  <2> QED  BY <2>1, <2>3, <2>4, <2>5
<1>6. \A o \in orders' : bot.plan.expiry # Sentinel => o.exp \in {Sentinel, bot.plan.expiry}
  BY <1>1 DEF ListingInv, Planning
<1> QED  BY <1>2, <1>3, <1>4, <1>5, <1>6 DEF ListingInv

LEMMA InsertListings ==
    ASSUME Types, ListingInv, Insert
    PROVE  ListingInv'
<1>1. PICK f \in [Keys -> SUBSET Free] :
        orders' = orders \cup UNION {Rows(k, f[k]) : k \in Keys}
  BY Inserted
<1>2. bot.pc = "insert" /\ bot'.pc = "idle"  BY RestTypes DEF Insert
<1>3. bot.plan \in Plan  BY DEF Types, Bot
<1>4. ASSUME NEW k \in Keys
      PROVE  IsFiniteSet(Of(k)') /\ Cardinality(Of(k)') <= Max(Quotas)
  <2> DEFINE a == Cardinality(Of(k))
             b == Cardinality(Of(k)')
  <2>1. Finite  BY DEF ListingInv
  <2>2. IsFiniteSet(Of(k)') /\ b \in Nat /\ b <= a + bot.plan.pending[k]
    BY <2>1, ListingsGrow
  <2>3. a \in Nat /\ a <= Max(Quotas)
    BY FS_CardinalityType DEF ListingInv, Finite, QuotaKept
  <2>4. Kept(k) = Of(k)  BY <1>2 DEF ListingInv, Kept, Of
  <2>5. bot.plan.pending[k] = 0 \/ a + bot.plan.pending[k] <= bot.plan.quota
    BY <1>2, <2>4 DEF ListingInv
  <2>6. bot.plan.pending[k] \in Nat /\ bot.plan.quota \in Nat
    BY <1>3, QuotaAssumption DEF Plan
  <2>7. Max(Quotas) \in Nat /\ bot.plan.quota <= Max(Quotas)
    BY <1>3, LargestQuota, QuotaAssumption DEF Plan
  <2> HIDE DEF a, b
  <2>8. b <= Max(Quotas)  BY <2>2, <2>3, <2>5, <2>6, <2>7
  <2> QED  BY <2>2, <2>8 DEF b
<1>5. \A o \in orders' : \/ o \in orders
                         \/ o.price = bot.plan.price[o.key] /\ o.exp = bot.plan.expiry
  BY <1>1 DEF Rows
<1>6. OnePrice'
  BY <1>2, <1>5 DEF ListingInv, OnePrice
<1>7. OneExpiry'
  BY <1>2, <1>5 DEF ListingInv, OneExpiry, Planning
<1> QED  BY <1>2, <1>4, <1>6, <1>7 DEF ListingInv, Finite, QuotaKept, Planning
LEMMA ListingSteps ==
    DeletesSucceed /\ Types /\ Times /\ ListingInv /\ [Next]_vars => ListingInv'
<1> SUFFICES ASSUME DeletesSucceed, Types, Times, ListingInv, [Next]_vars  PROVE ListingInv'
  OBVIOUS
<1>1. CASE UNCHANGED vars
  BY <1>1, PlanKeeps DEF vars, ListingInv, GameNow
<1>2. CASE Loop
  <2>1. CASE Boot
    <3>1. bot'.pc = "buy" /\ orders' = orders  BY <2>1, RestTypes DEF Boot, market
    <3> QED  BY <3>1, NoPlanKeeps DEF Planning
  <2>2. CASE StartTick
    <3>1. bot'.pc \in {"buy", "list"} /\ orders' = orders
      BY <2>2, RestTypes DEF StartTick, market
    <3> QED  BY <3>1, NoPlanKeeps DEF Planning
  <2>3. CASE SelectOrders \/ EndBuy \/ SkipList \/ \E s \in Sellers : Buy(s) \/ PassOver(s)
    <3>1. orders' = orders
      BY <2>3 DEF SelectOrders, EndBuy, SkipList, Buy, PassOver, market
    <3>2. bot'.pc \notin Planning
      <4>1. CASE SelectOrders \/ \E s \in Sellers : Buy(s) \/ PassOver(s)
        <5>1. bot \in Bot  BY DEF Types
        <5> QED  BY <4>1, <5>1 DEF SelectOrders, Buy, PassOver, Bot, Planning
      <4>2. CASE EndBuy
        <5>1. bot.next \in {"idle", "list"}  BY <4>2 DEF EndBuy, Types
        <5> QED  BY <4>2, <5>1, RestTypes DEF EndBuy, Planning
      <4>3. CASE SkipList  BY <4>3, RestTypes DEF SkipList, Planning
      <4> QED  BY <2>3, <4>1, <4>2, <4>3
    <3> QED  BY <3>1, <3>2, NoPlanKeeps
  <2>4. CASE InsertFails
    <3>1. bot'.pc = "idle" /\ orders' = orders  BY <2>4, RestTypes DEF InsertFails, market
    <3> QED  BY <3>1, NoPlanKeeps DEF Planning
  <2> QED
    BY <1>2, <2>1, <2>2, <2>3, <2>4, PrepareListings, LoadListings, DeleteListings, InsertListings
       DEF Loop, Tick
<1>3. CASE Stop \/ Crash
  <2>1. bot'.pc = "off" /\ orders' = orders  BY <1>3, RestTypes DEF Stop, Crash, market
  <2> QED  BY <2>1, NoPlanKeeps DEF Planning
<1>4. CASE Request
  <2>1. PICK o \in Operators :
          \/ SetEnabled(o) \/ Tune(o) \/ Restart(o) \/ Reinit(o) \/ ReinitFails(o)
          \/ Cleanup(o) \/ Sweep(o) \/ Resume(o)
    BY <1>4 DEF Request
  <2>2. CASE Reinit(o)
    <3>1. \A p \in orders : p.exp > GameNow(Learned)  BY NonePast DEF ListingInv
    <3>2. GameNow(lag)' = GameNow(Learned)  BY <2>2 DEF Reinit, market, GameNow
    <3> QED  BY <2>2, <3>1, <3>2, PlanKeeps DEF Reinit, market
  <2>3. CASE Sweep(o)
    <3>1. orders' \subseteq orders /\ GameNow(lag)' = GameNow(lag) /\ bot' = bot
      BY <2>3 DEF Sweep, GameNow
    <3> QED  BY <3>1, PlanKeeps DEF ListingInv
  <2>4. CASE ~Reinit(o) /\ ~Sweep(o)
    <3>1. orders' = orders /\ GameNow(lag)' = GameNow(lag) /\ bot' = bot
      BY <2>1, <2>4
         DEF SetEnabled, Tune, Restart, ReinitFails, Cleanup, Resume, market, GameNow
    <3> QED  BY <3>1, PlanKeeps DEF ListingInv
  <2> QED  BY <2>2, <2>3, <2>4
<1>5. CASE Environment
  <2>1. CASE Pass
    <3>1. orders' = orders /\ bot'.pc \notin Planning  BY <2>1 DEF Pass, Planning
    <3> QED  BY <3>1, NoPlanKeeps
  <2>2. CASE ~Pass
    <3>1. orders' \subseteq orders /\ bot' = bot /\ clock' = clock /\ lag' = lag
      BY <1>5, <2>2
         DEF Environment, Expire, OpenTerminal, Purchase, ListOrder, Withdraw, Collect, control
    <3>2. GameNow(lag)' = GameNow(lag)  BY <3>1 DEF GameNow
    <3> QED  BY <3>1, <3>2, PlanKeeps DEF ListingInv
  <2> QED  BY <2>1, <2>2
<1> QED  BY <1>1, <1>2, <1>3, <1>4, <1>5 DEF Next

LEMMA InitListings == Init => ListingInv
<1> SUFFICES ASSUME Init  PROVE ListingInv  OBVIOUS
<1>1. \A k \in Keys : IsFiniteSet(Of(k)) /\ Cardinality(Of(k)) = 0
  <2>1. \A k \in Keys : Of(k) = {}  BY DEF Init, Of
  <2> QED  BY <2>1, FS_EmptySet
<1>2. bot.pc = "off"  BY RestTypes DEF Init
<1>3. Max(Quotas) \in Nat  BY LargestQuota, QuotaAssumption
<1>4. \A k \in Keys : Cardinality(Of(k)) <= Max(Quotas)
  <2> HIDE DEF Max
  <2> QED  BY <1>1, <1>3
<1> QED
  BY <1>1, <1>2, <1>4
     DEF Init, ListingInv, Finite, QuotaKept, OnePrice, OneExpiry, Planning

-----------------------------------------------------------------------------
(* Payments.                                                               *)

\* While a buy tick is under way what it has read is still on the market.
PaymentInv ==
    /\ bot.pc = "buying" => bot.plan.seen \subseteq OnSale
    /\ PaidOnce /\ PaymentKept
    /\ \A s \in Sellers : selling[s].due = "due" => selling[s].exp = Sentinel
    /\ \A s \in Sellers : selling[s].at \in {"home", "listed"} => selling[s].due = "none"

LEMMA NeverExpires == Types => ~Expired(Sentinel)
BY TimeAssumption DEF Types, Expired, Sentinel
\* Nothing is read or paid: what is under way goes on or ends.
LEMMA PaymentKeeps ==
    ASSUME PaymentInv, selling' = selling,
           bot'.pc = "buying" => bot.pc = "buying" /\ bot'.plan.seen \subseteq bot.plan.seen
    PROVE  PaymentInv'
BY DEF PaymentInv, OnSale, PaidOnce, PaymentKept

LEMMA PaymentSteps ==
    TakesTurns /\ Types /\ PaymentInv /\ [Next]_vars => PaymentInv'
<1> SUFFICES ASSUME TakesTurns, Types, PaymentInv, [Next]_vars  PROVE PaymentInv'
  OBVIOUS
<1>0. bot \in Bot /\ selling \in [Sellers -> Offer]  BY DEF Types
<1>1. CASE UNCHANGED vars \/ Request
  <2>1. selling' = selling /\ bot' = bot
    BY <1>1 DEF vars, Request, SetEnabled, Tune, Restart, Reinit, ReinitFails, Cleanup,
                Sweep, Resume, market
  <2> QED  BY <2>1, PaymentKeeps
<1>2. CASE Boot \/ StartTick \/ Stop \/ Crash \/ InsertFails \/ SkipList
  <2>1. selling' = selling
    BY <1>2 DEF Boot, StartTick, Stop, Crash, InsertFails, SkipList, market
  <2>2. bot'.pc # "buying"
    BY <1>2, RestTypes DEF Boot, StartTick, Stop, Crash, InsertFails, SkipList
  <2> QED  BY <2>1, <2>2, PaymentKeeps
<1>3. CASE EndBuy
  <2>1. bot.next \in {"idle", "list"}  BY <1>3 DEF EndBuy, Types
  <2>2. bot'.pc # "buying"  BY <1>3, <2>1, RestTypes DEF EndBuy
  <2> QED  BY <1>3, <2>2, PaymentKeeps DEF EndBuy, market
<1>4. CASE Prepare \/ Load \/ DeleteStale \/ Insert
  <2>1. selling' = selling  BY <1>4 DEF Prepare, Load, DeleteStale, Insert, market
  <2>2. bot'.pc # "buying"
    <3>1. CASE Insert  BY <3>1, RestTypes DEF Insert
    <3>2. CASE Prepare  BY <1>0, <3>2 DEF Prepare, Bot
    <3>3. CASE Load  BY <1>0, <3>3 DEF Load, Bot
    <3>4. CASE DeleteStale  BY <1>0, <3>4 DEF DeleteStale, Bot
    <3> QED  BY <1>4, <3>1, <3>2, <3>3, <3>4
  <2> QED  BY <2>1, <2>2, PaymentKeeps
<1>5. CASE SelectOrders
  <2>1. PICK seen \in SUBSET OnSale :
          bot' = [bot EXCEPT !.pc = "buying", !.plan.disabled = cfg.disabled, !.plan.seen = seen]
    BY <1>5 DEF SelectOrders
  <2>2. bot'.plan.seen = seen  BY <1>0, <2>1 DEF Bot, Plan
  <2>3. selling' = selling  BY <1>5 DEF SelectOrders, market
  <2> QED  BY <2>2, <2>3 DEF PaymentInv, OnSale, PaidOnce, PaymentKept
<1>6. ASSUME NEW s \in Sellers, PassOver(s)  PROVE PaymentInv'
  <2>1. bot.pc = "buying" /\ bot'.plan.seen \subseteq bot.plan.seen /\ selling' = selling
    BY <1>0, <1>6 DEF PassOver, Bot, Plan, market
  <2> QED  BY <2>1, PaymentKeeps
<1>7. ASSUME NEW s \in Sellers, Buy(s)  PROVE PaymentInv'
  <2>1. bot.pc = "buying" /\ s \in bot.plan.seen /\ bot'.plan.seen = bot.plan.seen \ {s}
    <3> DEFINE seen == bot.plan.seen \ {s}
               bought == bot.plan.bought + 1
    <3>1. /\ bot' = [bot EXCEPT !.plan.seen = seen, !.plan.bought = bought]
          /\ bot.pc = "buying" /\ s \in bot.plan.seen
      BY <1>7 DEF Buy
    <3> HIDE DEF bought
    <3> QED  BY <1>0, <3>1 DEF Bot, Plan
  <2>2. selling[s].at = "listed" /\ selling[s].paid = 0
    BY <2>1 DEF PaymentInv, OnSale, PaidOnce
  <2>3. selling' = Bought(s)  BY <1>7 DEF Buy
  <2>4. /\ \A t \in Sellers \ {s} : selling'[t] = selling[t]
        /\ selling'[s].at = "bought" /\ selling'[s].exp = Sentinel
        /\ selling'[s].due = "due" /\ selling'[s].paid = 1
    BY <2>2, <2>3, BuysOne
  <2>5. bot'.pc = "buying" => bot'.plan.seen \subseteq OnSale'
    BY <2>1, <2>4 DEF PaymentInv, OnSale
  <2>6. PaidOnce' /\ PaymentKept'
    BY <2>4 DEF PaymentInv, PaidOnce, PaymentKept
  <2> QED  BY <2>4, <2>5, <2>6 DEF PaymentInv
<1>8. CASE Pass \/ OpenTerminal \/ Purchase
  <2>1. selling' = selling /\ bot' = bot  BY <1>8 DEF Pass, OpenTerminal, Purchase
  <2> QED  BY <2>1, PaymentKeeps
<1>9. CASE Expire
  <2>1. CASE selling' = selling
    BY <1>9, <2>1, PaymentKeeps DEF Expire
  <2>2. ASSUME NEW s \in Sellers, selling[s].at = "listed", Overlap \/ bot.pc # "buying",
               selling' = [selling EXCEPT ![s].at = "expired"]
        PROVE  PaymentInv'
    <3>1. bot.pc # "buying" /\ bot' = bot  BY <1>9, <2>2 DEF TakesTurns, Expire
    <3>2. /\ \A t \in Sellers : /\ selling'[t].paid = selling[t].paid
                                /\ selling'[t].due = selling[t].due
                                /\ selling'[t].exp = selling[t].exp
          /\ \A t \in Sellers \ {s} : selling'[t].at = selling[t].at
          /\ selling'[s].at = "expired"
      BY <1>0, <2>2 DEF Offer
    <3> QED  BY <2>2, <3>1, <3>2 DEF PaymentInv, PaidOnce, PaymentKept
  <2>3. \A s \in Sellers : ~(selling[s].due = "due" /\ Expired(selling[s].exp))
    BY NeverExpires DEF PaymentInv
  <2> QED  BY <1>9, <2>1, <2>2, <2>3 DEF Expire
<1>10. ASSUME NEW s \in Sellers, ListOrder(s)  PROVE PaymentInv'
  <2>1. bot' = bot /\ selling[s].at = "home"  BY <1>10 DEF ListOrder
  <2>2. /\ \A t \in Sellers \ {s} : selling'[t] = selling[t]
        /\ selling'[s].at = "listed" /\ selling'[s].paid = selling[s].paid
        /\ selling'[s].due = selling[s].due
    BY <1>0, <1>10 DEF ListOrder, Offer
  <2> QED  BY <2>1, <2>2 DEF PaymentInv, OnSale, PaidOnce, PaymentKept
<1>11. ASSUME NEW s \in Sellers, Withdraw(s)  PROVE PaymentInv'
  <2>1. bot.pc # "buying" /\ bot' = bot /\ selling[s].at = "listed"
    BY <1>11 DEF TakesTurns, Withdraw
  <2>2. /\ \A t \in Sellers : /\ selling'[t].paid = selling[t].paid
                              /\ selling'[t].due = selling[t].due
                              /\ selling'[t].exp = selling[t].exp
        /\ \A t \in Sellers \ {s} : selling'[t].at = selling[t].at
        /\ selling'[s].at = "withdrawn"
    BY <1>0, <1>11 DEF Withdraw, Offer
  <2> QED  BY <2>1, <2>2 DEF PaymentInv, PaidOnce, PaymentKept
<1>12. ASSUME NEW s \in Sellers, Collect(s)  PROVE PaymentInv'
  <2>1. bot' = bot /\ selling[s].due = "due"  BY <1>12 DEF Collect
  <2>2. /\ \A t \in Sellers : /\ selling'[t].paid = selling[t].paid
                              /\ selling'[t].at = selling[t].at
                              /\ selling'[t].exp = selling[t].exp
        /\ \A t \in Sellers \ {s} : selling'[t].due = selling[t].due
        /\ selling'[s].due = "collected"
    BY <1>0, <1>12 DEF Collect, Offer
  <2> QED  BY <2>1, <2>2 DEF PaymentInv, OnSale, PaidOnce, PaymentKept
<1> QED
  BY <1>1, <1>2, <1>3, <1>4, <1>5, <1>6, <1>7, <1>8, <1>9, <1>10, <1>11, <1>12
     DEF Next, Loop, Tick, Environment

LEMMA InitPayments == Init => PaymentInv
<1> SUFFICES ASSUME Init  PROVE PaymentInv  OBVIOUS
<1>1. bot.pc = "off"  BY RestTypes DEF Init
<1> QED  BY <1>1 DEF Init, PaymentInv, PaidOnce, PaymentKept

-----------------------------------------------------------------------------
(* The bot's enabled state.                                                *)

\* A request that paused the bot is the only one under way, and remembers
\* what to give back.
WishInv ==
    /\ saved = cfg
    /\ \A o, p \in Operators : op[o].pc # "idle" /\ op[p].pc # "idle" => o = p
    /\ Calm => cfg.enabled = wanted
    /\ \A o \in Operators : op[o].pc \in {"sweep", "resume"} =>
                              ~cfg.enabled /\ op[o].was = wanted
    /\ \A o \in Operators : op[o].pc = "init" => ~cfg.enabled

\* The configuration stays, and so do the requests.
LEMMA WishKeeps ==
    ASSUME WishInv, UNCHANGED <<cfg, saved, op, wanted>>
    PROVE  WishInv'
BY DEF WishInv, Calm

LEMMA WishSteps == TakesTurns /\ Types /\ WishInv /\ [Next]_vars => WishInv'
<1> SUFFICES ASSUME TakesTurns, Types, WishInv, [Next]_vars  PROVE WishInv'
  OBVIOUS
<1>0. /\ op \in [Operators -> [pc : {"idle", "init", "sweep", "resume"}, was : BOOLEAN]]
      /\ cfg \in Config
  BY DEF Types
<1>1. CASE Boot  BY <1>1, WishKeeps DEF Boot, WishInv
<1>2. CASE Crash
  <2>1. UNCHANGED <<cfg, saved>> /\ \A o \in Operators : op'[o].pc = "idle"
    BY <1>2 DEF Crash
  <2>2. CASE Calm
    <3>1. wanted' = wanted  BY <1>2, <2>2 DEF Crash, Types
    <3> QED  BY <2>1, <2>2, <3>1 DEF WishInv, Calm
  <2>3. CASE ~Calm
    <3>1. ~wanted' /\ wanted' \in BOOLEAN  BY <1>2, <2>3 DEF Crash, Types
    <3>2. PICK o \in Operators : op[o].pc # "idle"  BY <2>3 DEF Calm
    <3>3. op[o].pc \in {"init", "sweep", "resume"}  BY <1>0, <3>2
    <3>4. ~cfg.enabled /\ cfg.enabled \in BOOLEAN  BY <1>0, <3>3 DEF WishInv, Config
    <3>5. cfg'.enabled = wanted'  BY <2>1, <3>1, <3>4
    <3> QED  BY <2>1, <3>5 DEF WishInv, Calm
  <2> QED  BY <2>2, <2>3
<1>3. CASE UNCHANGED vars \/ StartTick \/ Tick \/ Stop \/ Environment
  <2>1. UNCHANGED <<cfg, saved, op, wanted>>
    BY <1>3 DEF vars, StartTick, Tick, Stop, Environment, SelectOrders, EndBuy, SkipList,
                Prepare, Load, DeleteStale, Insert, InsertFails, Buy, PassOver, Pass, Expire,
                OpenTerminal, Purchase, ListOrder, Withdraw, Collect, control
  <2> QED  BY <2>1, WishKeeps
<1>4. ASSUME NEW o \in Operators, SetEnabled(o) \/ Tune(o)  PROVE WishInv'
  <2>1. Calm  BY <1>4 DEF SetEnabled, Tune, Ready, TakesTurns
  <2>2. op' = op /\ saved' = cfg' /\ cfg'.enabled = wanted'
    BY <1>0, <1>4, <2>1 DEF SetEnabled, Tune, Apply, Config, WishInv
  <2> QED  BY <2>1, <2>2 DEF WishInv, Calm
<1>5. ASSUME NEW o \in Operators, Restart(o)  PROVE WishInv'
  <2>1. Calm  BY <1>5 DEF Restart, Ready, TakesTurns
  <2>2. saved' = cfg' /\ ~cfg'.enabled /\ wanted' = wanted
    BY <1>0, <1>5 DEF Restart, Apply, Config
  <2>3. op'[o].pc = "init" /\ \A p \in Operators \ {o} : op'[p] = op[p]
    BY <1>0, <1>5 DEF Restart
  <2> QED  BY <2>1, <2>2, <2>3 DEF WishInv, Calm
<1>6. ASSUME NEW o \in Operators, Reinit(o) \/ ReinitFails(o)  PROVE WishInv'
  <2>1. op[o].pc = "init" /\ UNCHANGED <<cfg, saved>>  BY <1>6 DEF Reinit, ReinitFails
  <2>2. \A p \in Operators \ {o} : op'[p] = op[p]  BY <1>0, <1>6 DEF Reinit, ReinitFails
  <2>3. \A p \in Operators \ {o} : op[p].pc = "idle"  BY <2>1 DEF WishInv
  <2>4. CASE Reinit(o)
    <3>1. op'[o].pc = "resume" /\ op'[o].was = wanted'  BY <1>0, <2>4 DEF Reinit
    <3> QED  BY <2>1, <2>2, <2>3, <3>1 DEF WishInv, Calm
  <2>5. CASE ReinitFails(o)
    <3>1. op'[o].pc = "idle" /\ wanted' = FALSE  BY <1>0, <2>5 DEF ReinitFails
    <3>2. cfg.enabled = FALSE  BY <1>0, <2>1 DEF WishInv, Config
    <3> QED  BY <2>1, <2>2, <2>3, <3>1, <3>2 DEF WishInv, Calm
  <2> QED  BY <1>6, <2>4, <2>5
<1>7. ASSUME NEW o \in Operators, Cleanup(o)  PROVE WishInv'
  <2>1. Calm  BY <1>7 DEF Cleanup, Ready, TakesTurns
  <2>2. saved' = cfg' /\ ~cfg'.enabled /\ wanted' = wanted
    BY <1>0, <1>7 DEF Cleanup, Apply, Config
  <2>3. /\ op'[o].pc = "sweep" /\ op'[o].was = cfg.enabled
        /\ \A p \in Operators \ {o} : op'[p] = op[p]
    BY <1>0, <1>7 DEF Cleanup
  <2> QED  BY <2>1, <2>2, <2>3 DEF WishInv, Calm
<1>8. ASSUME NEW o \in Operators, Sweep(o)  PROVE WishInv'
  <2>1. op[o].pc = "sweep" /\ UNCHANGED <<cfg, saved, wanted>>  BY <1>8 DEF Sweep
  <2>2. /\ op'[o].pc = "resume" /\ op'[o].was = op[o].was
        /\ \A p \in Operators \ {o} : op'[p] = op[p]
    BY <1>0, <1>8 DEF Sweep
  <2> QED  BY <2>1, <2>2 DEF WishInv, Calm
<1>9. ASSUME NEW o \in Operators, Resume(o)  PROVE WishInv'
  <2>1. op[o].pc = "resume" /\ wanted' = wanted /\ saved' = cfg'
    BY <1>9 DEF Resume, Apply
  <2>2. op'[o].pc = "idle" /\ \A p \in Operators \ {o} : op'[p] = op[p]
    BY <1>0, <1>9 DEF Resume
  <2>3. cfg'.enabled = (cfg.enabled \/ op[o].was)
    BY <1>0, <1>9 DEF Resume, Apply, Config
  <2>4. ~cfg.enabled /\ op[o].was = wanted  BY <2>1 DEF WishInv
  <2>5. \A p \in Operators \ {o} : op[p].pc = "idle"  BY <2>1 DEF WishInv
  <2>6. cfg'.enabled = wanted'  BY <2>1, <2>3, <2>4, Zenon DEF Types
  <2> QED  BY <2>1, <2>2, <2>5, <2>6 DEF WishInv, Calm
<1> QED
  BY <1>1, <1>2, <1>3, <1>4, <1>5, <1>6, <1>7, <1>8, <1>9 DEF Next, Loop, Request

LEMMA InitWish == Init => WishInv
BY DEF Init, WishInv, Calm, DefaultConfig

-----------------------------------------------------------------------------
\* Every variable keeps its type, and the bot's clock stays within the window.
THEOREM TypeCorrect == Spec => [](Types /\ Times /\ Finite)
<1>1. Types /\ Times /\ Finite /\ [Next]_vars => (Types /\ Times /\ Finite)'
  BY StepTypes, StepFinite
<1> QED  BY <1>1, InitTypes, PTL DEF Spec

\* As long as deletions succeed no key ever has more listings than the quota
\* and players never see two prices of one item, whatever the ticks, the
\* requests, the crashes, the purchases and the expiries.
THEOREM ListingsStaySound == DeletesSucceed => (Spec => []ListingsSound)
<1> SUFFICES ASSUME DeletesSucceed  PROVE Spec => []ListingsSound  OBVIOUS
<1>1. Types /\ Times /\ Finite /\ ListingInv /\ [Next]_vars => ListingInv'
  BY ListingSteps
<1>2. ListingInv => ListingsSound  BY DEF ListingInv, ListingsSound
<1> QED  BY <1>1, <1>2, InitListings, TypeCorrect, PTL DEF Spec

\* Without overlap the bot pays once for each order it takes, and what it pays
\* stays until it is collected, however wrong its clock is.
THEOREM SellersArePaid == TakesTurns => (Spec => []SellersPaid)
<1> SUFFICES ASSUME TakesTurns  PROVE Spec => []SellersPaid  OBVIOUS
<1>1. Types /\ PaymentInv /\ [Next]_vars => PaymentInv'  BY PaymentSteps
<1>2. PaymentInv => SellersPaid  BY DEF PaymentInv, SellersPaid
<1> QED  BY <1>1, <1>2, InitPayments, TypeCorrect, PTL DEF Spec

\* When requests take turns, restarts, cleanups and stops leave the bot on or
\* off as it was last asked to be, wherever dune-admin crashes: in the middle
\* of a restart or a cleanup a crash leaves it paused, never running against a
\* stop.
THEOREM WishIsKept == TakesTurns => (Spec => []WishKept)
<1> SUFFICES ASSUME TakesTurns  PROVE Spec => []WishKept  OBVIOUS
<1>1. Types /\ WishInv /\ [Next]_vars => WishInv'  BY WishSteps
<1>2. WishInv => WishKept  BY DEF WishInv, WishKept
<1> QED  BY <1>1, <1>2, InitWish, TypeCorrect, PTL DEF Spec

=============================================================================
