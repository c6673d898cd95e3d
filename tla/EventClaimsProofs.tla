-------------------------- MODULE EventClaimsProofs --------------------------
(***************************************************************************)
(* Theorems about the award claims of EventClaims, for every value of its  *)
(* constants: the retry policy is exact, a claim that waited is closed     *)
(* only when all of its reward has landed, what is announced and paid      *)
(* follows the deeds, and a retry resumes where the reward failed.         *)
(***************************************************************************)
EXTENDS EventClaims, SequenceTheorems, WellFoundedInduction, TLAPS

\* The claims belong to the one server whose goroutines work on them.
OneServer == Servers = {Main}

-----------------------------------------------------------------------------
(* Sequences and the slicing of a reward.                                  *)

\* Induction by the least counterexample.
LEMMA LeastNat ==
    ASSUME NEW T, T \subseteq Nat, T # {}
    PROVE  \E x \in T : \A y \in T : x <= y
<1> DEFINE Less == OpToRel(<, Nat)
<1>1. IsWellFoundedOn(Less, Nat)  BY NatLessThanWellFounded
<1>2. \A x, y \in Nat : y < x => <<y, x>> \in Less  BY DEF OpToRel
<1> HIDE DEF Less
<1>3. PICK x \in T : \A y \in T : ~(<<y, x>> \in Less)  BY <1>1, WFMin
<1>4. ASSUME NEW y \in T  PROVE x <= y
  <2>1. ~(y < x)  BY <1>2, <1>3
  <2> QED  BY <2>1
<1> QED  BY <1>4

\* What is left of a reward after its first m parts.
After(r, m) == SubSeq(r, m + 1, Len(r))

LEMMA RewardParts ==
    ASSUME NEW r \in Rewards
    PROVE  /\ r \in Seq(Parts) /\ Len(r) \in Nat /\ DOMAIN r = 1..Len(r)
           /\ \A i \in 1..Len(r) :
                r[i] \in Parts /\ Label(r[i]) \in Marks /\ Label(r[i])[1] \notin {"", "resolve"}
<1> DEFINE P == [kind : {"currency", "item", "xp"}, name : STRING, id : Nat]
<1>1. r \in Seq(P)  BY ConstantAssumption
<1>2. Len(r) \in Nat /\ DOMAIN r = 1..Len(r) /\ \A i \in 1..Len(r) : r[i] \in P
  <2> HIDE DEF P
  <2> QED  BY <1>1
<1>3. \A i \in 1..Len(r) : r[i] \in Parts  BY <1>2 DEF Parts
<1>4. \A i \in 1..Len(r) : Label(r[i]) \in Marks /\ Label(r[i])[1] \notin {"", "resolve"}
  BY <1>2, <1>3 DEF Marks, Label
<1>5. r \in Seq(Parts)
  <2> HIDE DEF P
  <2>1. r \in [1..Len(r) -> Parts]  BY <1>1, <1>2, <1>3
  <2> QED  BY <1>2, <2>1, SeqDef
<1> QED  BY <1>2, <1>3, <1>4, <1>5

LEMMA Slices ==
    ASSUME NEW r \in Rewards, NEW m \in 0..Len(r)
    PROVE  /\ After(r, m) \in Seq(Parts)
           /\ After(r, m) = <<>> <=> m = Len(r)
           /\ m < Len(r) => /\ Head(After(r, m)) = r[m + 1]
                            /\ Tail(After(r, m)) = After(r, m + 1)
<1>1. r \in Seq(Parts) /\ Len(r) \in Nat  BY RewardParts
<1>2. After(r, m) \in Seq(Parts) /\ Len(After(r, m)) = Len(r) - m
      /\ \A i \in 1..(Len(r) - m) : After(r, m)[i] = r[m + i]
  BY <1>1 DEF After
<1>3. After(r, m) = <<>> <=> m = Len(r)
  BY <1>1, <1>2, EmptySeq
<1>4. ASSUME m < Len(r)
      PROVE  Head(After(r, m)) = r[m + 1] /\ Tail(After(r, m)) = After(r, m + 1)
  <2>1. m + 1 \in 1..(Len(r) + 1) /\ Len(r) \in (m + 1)..Len(r)  BY <1>1, <1>4
  <2>2. /\ Head(SubSeq(r, m + 1, Len(r))) = r[m + 1]
        /\ Tail(SubSeq(r, m + 1, Len(r))) = SubSeq(r, m + 1 + 1, Len(r))
    BY <1>1, <2>1, HeadTailOfSubSeq
  <2> QED  BY <2>2 DEF After
<1> QED  BY <1>2, <1>3, <1>4

\* A marker that names no part of the reward means the whole of it; else the
\* slice starts at the first part it names.
LEMMA Remainders ==
    ASSUME NEW r \in Rewards, NEW mark
    PROVE  \/ /\ \A i \in 1..Len(r) : Label(r[i]) # mark
              /\ Remainder(r, mark) = After(r, 0)
           \/ \E i \in 1..Len(r) :
                /\ Label(r[i]) = mark /\ \A j \in 1..Len(r) : Label(r[j]) = mark => i <= j
                /\ Remainder(r, mark) = After(r, i - 1)
<1> DEFINE hits == {i \in DOMAIN r : Label(r[i]) = mark}
<1>1. r \in Seq(Parts) /\ Len(r) \in Nat /\ DOMAIN r = 1..Len(r)  BY RewardParts
<1>2. CASE hits = {}
  <2>1. Remainder(r, mark) = r  BY <1>2 DEF Remainder
  <2>2. After(r, 0) = r
    <3>1. After(r, 0) \in Seq(Parts) /\ Len(After(r, 0)) = Len(r)
          /\ \A i \in 1..Len(r) : After(r, 0)[i] = r[i]
      BY <1>1 DEF After
    <3> QED  BY <1>1, <3>1, SeqEqual
  <2> QED  BY <1>1, <1>2, <2>1, <2>2
<1>3. CASE hits # {}
  <2>1. hits \subseteq Nat  BY <1>1
  <2>2. PICK z \in hits : \A y \in hits : z <= y  BY <1>3, <2>1, LeastNat
  <2> DEFINE i == CHOOSE x \in hits : \A y \in hits : x <= y
  <2>3. i \in hits /\ \A y \in hits : i <= y  BY <2>2
  <2>4. Remainder(r, mark) = SubSeq(r, i, Len(r))  BY <1>3 DEF Remainder
  <2> HIDE DEF i
  <2>5. i \in 1..Len(r) /\ i - 1 + 1 = i  BY <1>1, <2>3
  <2>6. Remainder(r, mark) = After(r, i - 1)  BY <2>4, <2>5 DEF After
  <2> QED  BY <1>1, <2>3, <2>5, <2>6
<1> QED  BY <1>2, <1>3

-----------------------------------------------------------------------------
(* What each step of a goroutine or request makes of its task.             *)

\* Only t moves, to a state r of the right type.
Moves(t, r) ==
    /\ r \in TaskState
    /\ task' \in [Tasks -> TaskState] /\ task'[t] = r
    /\ \A u \in Tasks : u # t => task'[u] = task[u]

LEMMA TaskParts ==
    ASSUME NEW t \in Tasks
    PROVE  /\ Server(t) \in Servers /\ Role(t) \in {"poll", "reconcile", "retry", "manual"}
           /\ Role(t) = "manual" => Server(t) = Main
           /\ Role(t) # "manual" => t[1] \in Engines
BY ConstantAssumption DEF Tasks, Server, Role, Roles

LEMMA SetMoves ==
    ASSUME task \in [Tasks -> TaskState], NEW t \in Tasks, NEW s \in TaskState, Set(t, s)
    PROVE  Moves(t, s)
BY DEF Set, Moves

LEMMA IdleFields ==
    ASSUME def \in [Events -> Definition]
    PROVE  /\ Idle \in TaskState /\ Idle.pc = "idle" /\ Idle.events = {} /\ Idle.queue = {}
           /\ Idle.pending = {} /\ Idle.cur = {} /\ Idle.rest = <<>> /\ Idle.mark = <<"", "">>
<1>1. [e \in Events |-> SomeReward] \in [Events -> Rewards]
  <2> SUFFICES ASSUME NEW e \in Events PROVE SomeReward \in Rewards
    OBVIOUS
  <2>1. def[e].reward \in Rewards  BY DEF Definition
  <2> QED  BY <2>1 DEF SomeReward
<1>2. <<>> \in Seq(Parts) /\ <<"", "">> \in Marks  BY DEF Marks
<1> QED  BY <1>1, <1>2 DEF Idle, TaskState

\* The state in which a task goes on with the next outcome.
Onward(t, r) ==
    \/ r = Idle /\ task[t].queue = {}
    \/ /\ r.pc = "next" /\ r.events = task[t].events /\ r.reward = task[t].reward
       /\ r.queue = task[t].queue /\ r.pending = task[t].pending
       /\ r.cur = {} /\ r.rest = <<>> /\ r.mark = <<"", "">>

LEMMA DoneMoves ==
    ASSUME TypeOK, NEW t \in Tasks, Done(t)
    PROVE  \E r : Moves(t, r) /\ Onward(t, r)
<1>1. task \in [Tasks -> TaskState] /\ Idle \in TaskState  BY IdleFields DEF TypeOK
<1>2. <<>> \in Seq(Parts) /\ <<"", "">> \in Marks  BY DEF Marks
<1> DEFINE s == task[t]
           n == [s EXCEPT !.pc = "next", !.cur = {}, !.rest = <<>>, !.mark = <<"", "">>]
<1>3. n \in TaskState /\ n.pc = "next" /\ n.events = s.events /\ n.reward = s.reward
      /\ n.queue = s.queue /\ n.pending = s.pending /\ n.cur = {} /\ n.rest = <<>>
      /\ n.mark = <<"", "">>
  BY <1>1, <1>2 DEF TaskState
<1>4. (Set(t, Idle) /\ s.queue = {}) \/ Set(t, n)  BY DEF Done
<1> HIDE DEF n
<1>5. CASE Set(t, Idle) /\ s.queue = {}  BY <1>1, <1>5, SetMoves DEF Onward
<1>6. CASE Set(t, n)  BY <1>1, <1>3, <1>6, SetMoves DEF Onward
<1> QED  BY <1>4, <1>5, <1>6

LEMMA RemainderTyped ==
    ASSUME NEW r \in Rewards, NEW mark
    PROVE  Remainder(r, mark) \in Seq(Parts)
<1>1. Len(r) \in Nat  BY RewardParts
<1>2. \E m \in 0..Len(r) : Remainder(r, mark) = After(r, m)
  <2>1. CASE Remainder(r, mark) = After(r, 0)  BY <1>1, <2>1
  <2>2. CASE \E i \in 1..Len(r) : Remainder(r, mark) = After(r, i - 1)  BY <1>1, <2>2
  <2> QED  BY <2>1, <2>2, Remainders
<1> QED  BY <1>2, Slices

LEMMA ListEventsMoves ==
    ASSUME TypeOK, NEW t \in Tasks, ListEvents(t)
    PROVE  \E r : /\ Moves(t, r) /\ r.queue = {} /\ r.pending = {} /\ r.cur = {}
                  /\ r.rest = <<>> /\ r.mark = <<"", "">>
                  /\ \/ r = Idle
                     \/ /\ r.pc = "next" /\ r.reward = [e \in Events |-> def[e].reward]
                        /\ r.events \subseteq {e \in Events : /\ def[e].state = "on"
                                                              /\ Role(t) = "reconcile" => e \notin Races}
<1>1. task \in [Tasks -> TaskState] /\ def \in [Events -> Definition]  BY DEF TypeOK
<1> DEFINE listed == {e \in Events : /\ def[e].state = "on"
                                     /\ Role(t) = "reconcile" => e \notin Races}
           w == [e \in Events |-> def[e].reward]
           n == [Idle EXCEPT !.pc = "next", !.events = listed, !.reward = w]
<1>2. w \in [Events -> Rewards]  BY <1>1 DEF Definition
<1>3. Set(t, Idle) \/ Set(t, n)  BY DEF ListEvents
<1>4. listed \subseteq Events  OBVIOUS
<1> HIDE DEF listed, w
<1>5. n \in TaskState /\ n.pc = "next" /\ n.events = listed /\ n.reward = w /\ n.queue = {}
      /\ n.pending = {} /\ n.cur = {} /\ n.rest = <<>> /\ n.mark = <<"", "">>
  BY <1>1, <1>2, <1>4, IdleFields DEF TaskState
<1> HIDE DEF n
<1>6. CASE Set(t, Idle)  BY <1>1, <1>6, SetMoves, IdleFields
<1>7. CASE Set(t, n)
  <2>1. Moves(t, n)  BY <1>1, <1>5, <1>7, SetMoves
  <2>2. n.events \subseteq {e \in Events : /\ def[e].state = "on"
                                           /\ Role(t) = "reconcile" => e \notin Races}
    BY <1>5 DEF listed
  <2>3. n.reward = [e \in Events |-> def[e].reward]  BY <1>5 DEF w
  <2> QED  BY <1>5, <2>1, <2>2, <2>3
<1> QED  BY <1>3, <1>6, <1>7

LEMMA OutcomesDone ==
    ASSUME TypeOK, NEW t \in Tasks, NEW e \in Events,
           NEW keys, keys \in IF Cancelled(t) THEN {{}} ELSE Outcomes(t, e)
    PROVE  /\ keys \subseteq Keys
           /\ \A k \in keys : /\ k[1] = e /\ <<Server(t), k>> \in qualified
                              /\ <<Server(t), k[2]>> \in online
<1> DEFINE done == {<<e, a>> : a \in {b \in Online(t) : <<Server(t), <<e, b>>>> \in qualified}}
<1>1. ASSUME NEW a \in Online(t)
      PROVE  a \in Accounts /\ <<Server(t), a>> \in online
  <2>1. PICK p \in online : p[1] = Server(t) /\ a = p[2]  BY DEF Online
  <2>2. p \in Servers \X Accounts  BY DEF TypeOK
  <2>3. p = <<Server(t), a>>  BY <2>1, <2>2
  <2> QED  BY <2>1, <2>2, <2>3
<1>2. ASSUME NEW k \in done
      PROVE  /\ k \in Keys /\ k[1] = e /\ <<Server(t), k>> \in qualified
             /\ <<Server(t), k[2]>> \in online
  <2>1. PICK a \in Online(t) : k = <<e, a>> /\ <<Server(t), <<e, a>>>> \in qualified
    OBVIOUS
  <2> QED  BY <1>1, <2>1 DEF Keys
<1>3. keys \subseteq done  BY DEF Outcomes
<1> QED  BY <1>2, <1>3

LEMMA EvaluateMoves ==
    ASSUME TypeOK, NEW t \in Tasks, NEW e \in Events, Evaluate(t, e)
    PROVE  \E r, keys :
             /\ keys \in IF Cancelled(t) THEN {{}} ELSE Outcomes(t, e)
             /\ Moves(t, r)
             /\ \/ r = Idle /\ keys = {}
                \/ /\ r.pc = "next" /\ r.events = task[t].events \ {e}
                   /\ r.reward = task[t].reward /\ r.queue = keys
                   /\ r.pending = task[t].pending /\ r.cur = task[t].cur
                   /\ r.rest = task[t].rest /\ r.mark = task[t].mark
<1>1. task \in [Tasks -> TaskState] /\ def \in [Events -> Definition] /\ task[t].pc = "next"
  BY DEF TypeOK, Evaluate
<1> DEFINE n(keys) == [task[t] EXCEPT !.events = @ \ {e}, !.queue = keys]
<1>2. PICK keys \in IF Cancelled(t) THEN {{}} ELSE Outcomes(t, e) :
        (keys = {} /\ Set(t, Idle)) \/ Set(t, n(keys))
  BY DEF Evaluate
<1>3. keys \subseteq Keys  BY OutcomesDone
<1> DEFINE r == n(keys)
<1>4. r \in TaskState /\ r.pc = "next" /\ r.events = task[t].events \ {e}
      /\ r.reward = task[t].reward /\ r.queue = keys /\ r.pending = task[t].pending
      /\ r.cur = task[t].cur /\ r.rest = task[t].rest /\ r.mark = task[t].mark
  BY <1>1, <1>3 DEF TaskState
<1> HIDE DEF r
<1>5. CASE keys = {} /\ Set(t, Idle)
  BY <1>1, <1>2, <1>5, SetMoves, IdleFields
<1>6. CASE Set(t, r)  BY <1>1, <1>2, <1>4, <1>6, SetMoves
<1> QED  BY <1>2, <1>5, <1>6 DEF r

\* The reward the poll loop or the backfill delivers for k.
Pays(t, k) == Role(t) # "reconcile" \/ k[1] \in AwardPast

LEMMA CheckMoves ==
    ASSUME TypeOK, NEW t \in Tasks, NEW k \in Keys, Check(t, k)
    PROVE  \E r : /\ Moves(t, r)
                  /\ \/ r = Idle /\ Settled(claim[k])
                     \/ /\ r.queue = task[t].queue \ {k}
                        /\ r.events = task[t].events /\ r.reward = task[t].reward
                        /\ r.pending = task[t].pending /\ r.mark = task[t].mark
                        /\ \/ /\ Settled(claim[k]) /\ r.pc = "next"
                              /\ r.cur = task[t].cur /\ r.rest = task[t].rest
                           \/ /\ ~Settled(claim[k]) /\ r.pc = "deliver" /\ r.cur = {k}
                              /\ r.rest = IF Pays(t, k)
                                          THEN Remainder(task[t].reward[k[1]], claim[k].mark)
                                          ELSE <<>>
<1>1. task \in [Tasks -> TaskState] /\ def \in [Events -> Definition]
      /\ Role(t) \in {"poll", "reconcile"} /\ task[t].pc = "next"
  BY DEF TypeOK, Check
<1> DEFINE w == IF Role(t) = "poll" \/ k[1] \in AwardPast
                THEN Remainder(task[t].reward[k[1]], claim[k].mark) ELSE <<>>
           n == [[task[t] EXCEPT !.queue = @ \ {k}] EXCEPT !.pc = "deliver", !.cur = {k},
                                                          !.rest = w]
           m == [task[t] EXCEPT !.queue = @ \ {k}]
<1>2. w \in Seq(Parts)
  <2>1. task[t].reward[k[1]] \in Rewards  BY <1>1 DEF TaskState, Keys
  <2> QED  BY <2>1, RemainderTyped
<1>3. w = IF Pays(t, k) THEN Remainder(task[t].reward[k[1]], claim[k].mark) ELSE <<>>
  BY <1>1 DEF Pays
<1>4. \/ Settled(claim[k]) /\ Set(t, Idle)
      \/ Settled(claim[k]) /\ Set(t, m)
      \/ ~Settled(claim[k]) /\ Set(t, n)
  BY DEF Check
<1> HIDE DEF w
<1>5. n \in TaskState /\ n.pc = "deliver" /\ n.events = task[t].events
      /\ n.reward = task[t].reward /\ n.queue = task[t].queue \ {k}
      /\ n.pending = task[t].pending /\ n.cur = {k} /\ n.rest = w /\ n.mark = task[t].mark
  BY <1>1, <1>2 DEF TaskState
<1>6. m \in TaskState /\ m.pc = "next" /\ m.events = task[t].events
      /\ m.reward = task[t].reward /\ m.queue = task[t].queue \ {k}
      /\ m.pending = task[t].pending /\ m.cur = task[t].cur /\ m.rest = task[t].rest
      /\ m.mark = task[t].mark
  BY <1>1 DEF TaskState
<1> HIDE DEF n, m
<1>7. CASE Settled(claim[k]) /\ Set(t, Idle)  BY <1>1, <1>7, SetMoves, IdleFields
<1>8. CASE Settled(claim[k]) /\ Set(t, m)  BY <1>1, <1>6, <1>8, SetMoves
<1>9. CASE ~Settled(claim[k]) /\ Set(t, n)  BY <1>1, <1>3, <1>5, <1>9, SetMoves
<1> QED  BY <1>4, <1>7, <1>8, <1>9

LEMMA ListRetryableMoves ==
    ASSUME TypeOK, NEW t \in Tasks, ListRetryable(t)
    PROVE  \E r : /\ Moves(t, r) /\ r.pc = "next" /\ r.events = {} /\ r.cur = {}
                  /\ r.rest = <<>> /\ r.mark = <<"", "">>
                  /\ r.queue = {k \in Keys : Retryable(k)}
                  /\ r.pending = {<<k, claim[k].mark>> : k \in {k \in Keys : Retryable(k)}}
<1>1. task \in [Tasks -> TaskState] /\ def \in [Events -> Definition]
      /\ claim \in [Keys -> ClaimRow]
  BY DEF TypeOK
<1> DEFINE due == {k \in Keys : Retryable(k)}
           found == {<<k, claim[k].mark>> : k \in due}
           n == [Idle EXCEPT !.pc = "next", !.queue = due, !.pending = found]
<1>2. Set(t, n)  BY DEF ListRetryable
<1>3. due \subseteq Keys /\ found \subseteq Keys \X Marks  BY <1>1 DEF ClaimRow
<1>4. found = {<<k, claim[k].mark>> : k \in {k \in Keys : Retryable(k)}}
      /\ due = {k \in Keys : Retryable(k)}
  OBVIOUS
<1> HIDE DEF due, found
<1>5. n \in TaskState /\ n.pc = "next" /\ n.events = {} /\ n.cur = {} /\ n.rest = <<>>
      /\ n.mark = <<"", "">> /\ n.queue = due /\ n.pending = found
  BY <1>1, <1>3, IdleFields DEF TaskState
<1> HIDE DEF n
<1>6. Moves(t, n)  BY <1>1, <1>2, <1>5, SetMoves
<1> QED  BY <1>4, <1>5, <1>6

LEMMA RetryMoves ==
    ASSUME TypeOK, NEW t \in Tasks, NEW k \in Keys, Retry(t, k),
           \E c \in task[t].pending : c[1] = k
    PROVE  \E r : \E c \in task[t].pending :
             /\ Moves(t, r) /\ c[1] = k
             /\ r.pc = "load" /\ r.events = task[t].events /\ r.queue = task[t].queue \ {k}
             /\ r.pending = task[t].pending /\ r.cur = {k} /\ r.rest = task[t].rest
             /\ r.mark = c[2] /\ r.reward = task[t].reward
<1>1. task \in [Tasks -> TaskState]  BY DEF TypeOK
<1> DEFINE c == Listed(k, task[t].pending)
           n == [task[t] EXCEPT !.pc = "load", !.queue = @ \ {k}, !.cur = {c[1]}, !.mark = c[2]]
<1>2. c \in task[t].pending /\ c[1] = k  BY DEF Listed
<1>3. Set(t, n)  BY DEF Retry
<1> HIDE DEF c
<1>4. c \in Keys \X Marks  BY <1>1, <1>2 DEF TaskState
<1>5. c[2] \in Marks  BY <1>4
<1>6. n \in TaskState /\ n.pc = "load" /\ n.events = task[t].events
      /\ n.queue = task[t].queue \ {k} /\ n.pending = task[t].pending /\ n.cur = {k}
      /\ n.rest = task[t].rest /\ n.mark = c[2] /\ n.reward = task[t].reward
  BY <1>1, <1>2, <1>5 DEF TaskState
<1> HIDE DEF n
<1>7. Moves(t, n)  BY <1>1, <1>3, <1>6, SetMoves
<1> QED  BY <1>2, <1>6, <1>7

LEMMA ManualMoves ==
    ASSUME TypeOK, NEW t \in Tasks, NEW k \in Keys, Manual(t, k)
    PROVE  \E r : /\ Moves(t, r) /\ r.pc = "load" /\ r.events = {} /\ r.queue = {}
                  /\ r.pending = {} /\ r.cur = {k} /\ r.rest = <<>> /\ r.mark = <<"", "">>
<1>1. task \in [Tasks -> TaskState] /\ def \in [Events -> Definition]  BY DEF TypeOK
<1> DEFINE n == [Idle EXCEPT !.pc = "load", !.cur = {k}]
<1>2. Set(t, n)  BY DEF Manual
<1>3. n \in TaskState /\ n.pc = "load" /\ n.events = {} /\ n.queue = {} /\ n.pending = {}
      /\ n.cur = {k} /\ n.rest = <<>> /\ n.mark = <<"", "">>
  BY <1>1, IdleFields DEF TaskState
<1> HIDE DEF n
<1> QED  BY <1>1, <1>2, <1>3, SetMoves

\* The fields of a task that only the outcome at hand changes.
Keeps(t, r) ==
    /\ r.events = task[t].events /\ r.reward = task[t].reward /\ r.queue = task[t].queue
    /\ r.pending = task[t].pending /\ r.cur = task[t].cur

LEMMA LoadMoves ==
    ASSUME TypeOK, NEW t \in Tasks, NEW k \in Keys, Load(t, k)
    PROVE  \E r : /\ Moves(t, r)
                  /\ \/ Onward(t, r)
                     \/ /\ Keeps(t, r) /\ r.mark = task[t].mark
                        /\ r.rest = Remainder(def[k[1]].reward, task[t].mark)
                        /\ r.pc = IF def[k[1]].reward = <<>> THEN "deliver" ELSE "resolve"
<1>1. task \in [Tasks -> TaskState] /\ def[k[1]].reward \in Rewards
  BY DEF TypeOK, Definition, Keys
<1> DEFINE pc == IF def[k[1]].reward = <<>> THEN "deliver" ELSE "resolve"
           w == Remainder(def[k[1]].reward, task[t].mark)
           n == [task[t] EXCEPT !.pc = pc, !.rest = w]
<1>2. w \in Seq(Parts)  BY <1>1, RemainderTyped
<1>3. pc \in {"deliver", "resolve"}  OBVIOUS
<1>4. Done(t) \/ Set(t, n)  BY DEF Load
<1>5. pc = (IF def[k[1]].reward = <<>> THEN "deliver" ELSE "resolve")
      /\ w = Remainder(def[k[1]].reward, task[t].mark)
  OBVIOUS
<1> HIDE DEF pc, w
<1>6. n \in TaskState /\ Keeps(t, n) /\ n.mark = task[t].mark /\ n.rest = w /\ n.pc = pc
  BY <1>1, <1>2, <1>3 DEF TaskState, Keeps
<1> HIDE DEF n
<1>7. CASE Done(t)  BY <1>7, DoneMoves
<1>8. CASE Set(t, n)
  <2>1. Moves(t, n)  BY <1>1, <1>6, <1>8, SetMoves
  <2> QED  BY <1>5, <1>6, <2>1
<1> QED  BY <1>4, <1>7, <1>8

LEMMA AtMoves ==
    ASSUME TypeOK, NEW t \in Tasks,
           NEW pc \in {"deliver", "announce", "grant"}, At(t, pc)
    PROVE  \E r : Moves(t, r) /\ Keeps(t, r) /\ r.pc = pc /\ r.rest = task[t].rest
                  /\ r.mark = task[t].mark
<1>1. task \in [Tasks -> TaskState]  BY DEF TypeOK
<1> DEFINE n == [task[t] EXCEPT !.pc = pc]
<1>2. n \in TaskState /\ Keeps(t, n) /\ n.pc = pc /\ n.rest = task[t].rest
      /\ n.mark = task[t].mark
  BY <1>1 DEF TaskState, Keeps
<1>3. Set(t, n)  BY DEF At
<1> HIDE DEF n
<1> QED  BY <1>1, <1>2, <1>3, SetMoves

LEMMA ResolveMoves ==
    ASSUME TypeOK, NEW t \in Tasks, Resolve(t)
    PROVE  \E r : /\ Moves(t, r) /\ Keeps(t, r) /\ r.rest = task[t].rest
                  /\ \/ r.pc = "deliver" /\ r.mark = task[t].mark /\ ~Cancelled(t)
                     \/ /\ r.pc = "fail" /\ r.mark = <<"resolve", "">>
                        /\ Cancelled(t) \/ "resolve" \in Faults
<1>1. task \in [Tasks -> TaskState]  BY DEF TypeOK
<1> DEFINE n == [task[t] EXCEPT !.pc = "fail", !.mark = <<"resolve", "">>]
<1>2. n \in TaskState /\ Keeps(t, n) /\ n.pc = "fail" /\ n.rest = task[t].rest
      /\ n.mark = <<"resolve", "">>
  BY <1>1 DEF TaskState, Keeps, Marks
<1>3. CASE ~Cancelled(t) /\ At(t, "deliver")  BY <1>3, AtMoves
<1>4. CASE (Cancelled(t) \/ "resolve" \in Faults) /\ Set(t, n)
  <2> HIDE DEF n
  <2> QED  BY <1>1, <1>2, <1>4, SetMoves
<1> QED  BY <1>3, <1>4 DEF Resolve

\* A grant that fails leaves the label of the part it was about.
LEMMA FailMoves ==
    ASSUME TypeOK, NEW t \in Tasks, task[t].rest # <<>>, Fail(t)
    PROVE  \E r : Moves(t, r) /\ Keeps(t, r) /\ r.pc = "fail" /\ r.rest = task[t].rest
                  /\ r.mark = Label(Head(task[t].rest))
<1>1. task \in [Tasks -> TaskState]  BY DEF TypeOK
<1> DEFINE m == Label(Head(task[t].rest))
           n == [task[t] EXCEPT !.pc = "fail", !.mark = m]
<1>2. m \in Marks
  <2>1. task[t].rest \in Seq(Parts)  BY <1>1 DEF TaskState
  <2>2. Head(task[t].rest) \in Parts  BY <2>1, HeadTailProperties
  <2> QED  BY <2>2 DEF Marks
<1>3. Set(t, n)  BY DEF Fail
<1> HIDE DEF m
<1>4. n \in TaskState /\ Keeps(t, n) /\ n.pc = "fail" /\ n.rest = task[t].rest /\ n.mark = m
  BY <1>1, <1>2 DEF TaskState, Keeps
<1> HIDE DEF n
<1> QED  BY <1>1, <1>3, <1>4, SetMoves DEF m

LEMMA AdvanceMoves ==
    ASSUME TypeOK, NEW t \in Tasks, task[t].rest # <<>>, Advance(t)
    PROVE  \E r : Moves(t, r) /\ Keeps(t, r) /\ r.pc = task[t].pc
                  /\ r.rest = Tail(task[t].rest) /\ r.mark = task[t].mark
<1>1. task \in [Tasks -> TaskState]  BY DEF TypeOK
<1> DEFINE w == Tail(task[t].rest)
           n == [task[t] EXCEPT !.rest = w]
<1>2. w \in Seq(Parts)
  <2>1. task[t].rest \in Seq(Parts)  BY <1>1 DEF TaskState
  <2> QED  BY <2>1, HeadTailProperties
<1>3. Set(t, n)  BY DEF Advance
<1> HIDE DEF w
<1>4. n \in TaskState /\ Keeps(t, n) /\ n.pc = task[t].pc /\ n.rest = w
      /\ n.mark = task[t].mark
  BY <1>1, <1>2 DEF TaskState, Keeps
<1> HIDE DEF n
<1> QED  BY <1>1, <1>3, <1>4, SetMoves DEF w

-----------------------------------------------------------------------------
(* Types, with what a task's program counter says of its other fields.     *)

Shaped(t, s) ==
    /\ s.pc \in {"idle", "list", "next"} => s.cur = {}
    /\ s.pc = "idle" => s.queue = {}
    /\ \A k, l \in s.cur : k = l
    /\ Role(t) = "retry" => \A k \in s.queue : \E c \in s.pending : c[1] = k
    /\ Role(t) = "manual" => s.queue = {}
    /\ Role(t) \in {"retry", "manual"} => s.events = {}
    /\ s.pc = "announce" => Role(t) = "poll"
    /\ s.pc = "list" => Role(t) = "reconcile"
    /\ s.pc \in {"load", "resolve"} => Role(t) \in {"retry", "manual"}
Shape == \A t \in Tasks : Shaped(t, task[t])

LEMMA ShapeMoves ==
    ASSUME Shape, NEW t \in Tasks, NEW r, Moves(t, r), Shaped(t, r)
    PROVE  Shape' /\ task' \in [Tasks -> TaskState]
BY DEF Shape, Moves, Shaped, Role

LEMMA IdleShaped ==
    ASSUME TypeOK, NEW t
    PROVE  Shaped(t, Idle)
BY IdleFields DEF TypeOK, Shaped

LEMMA OnwardShaped ==
    ASSUME TypeOK, Shape, NEW t \in Tasks, NEW r, Onward(t, r)
    PROVE  Shaped(t, r)
<1>1. CASE r = Idle  BY <1>1, IdleShaped
<1>2. CASE r # Idle
  <2>1. /\ r.pc = "next" /\ r.cur = {} /\ r.queue = task[t].queue
        /\ r.pending = task[t].pending /\ r.events = task[t].events
    BY <1>2 DEF Onward
  <2>2. Shaped(t, task[t])  BY DEF Shape
  <2> QED  BY <2>1, <2>2 DEF Shaped
<1> QED  BY <1>1, <1>2

\* Every step of a task moves it, and leaves it in shape.
LEMMA RunShaped ==
    ASSUME TypeOK, Shape, NEW t \in Tasks, Run(t)
    PROVE  \E r : Moves(t, r) /\ Shaped(t, r)
<1>1. CASE ListEvents(t)
  <2>1. PICK r : /\ Moves(t, r) /\ r.queue = {} /\ r.pending = {} /\ r.cur = {}
                 /\ r.pc \in {"idle", "next"} /\ Role(t) \in {"poll", "reconcile"}
    <3>1. def \in [Events -> Definition]  BY DEF TypeOK
    <3>2. Role(t) \in {"poll", "reconcile"}  BY <1>1 DEF ListEvents
    <3> QED  BY <1>1, <3>1, <3>2, ListEventsMoves, IdleFields
  <2> QED  BY <2>1 DEF Shaped
<1>2. ASSUME NEW e \in Events, Evaluate(t, e)  PROVE \E r : Moves(t, r) /\ Shaped(t, r)
  <2>1. PICK r, keys :
             /\ Moves(t, r)
             /\ \/ r = Idle
                \/ /\ r.pc = "next" /\ r.queue = keys /\ r.cur = task[t].cur
                   /\ r.events = task[t].events \ {e}
                   /\ keys \in IF Cancelled(t) THEN {{}} ELSE Outcomes(t, e)
    BY <1>2, EvaluateMoves
  <2>2. CASE r = Idle  BY <2>1, <2>2, IdleShaped
  <2>3. CASE r # Idle
    <3>1. task[t].pc = "next" /\ Role(t) \in {"poll", "reconcile"}
      BY <1>2, TaskParts DEF Evaluate, Shape, Shaped
    <3> QED  BY <2>1, <2>3, <3>1 DEF Shape, Shaped
  <2> QED  BY <2>2, <2>3
<1>3. CASE ListRetryable(t)
  <2>1. PICK r : /\ Moves(t, r) /\ r.pc = "next" /\ r.cur = {} /\ r.events = {}
                 /\ r.queue = {k \in Keys : Retryable(k)}
                 /\ r.pending = {<<k, claim[k].mark>> : k \in {k \in Keys : Retryable(k)}}
    BY <1>3, ListRetryableMoves
  <2>2. \A k \in r.queue : <<k, claim[k].mark>> \in r.pending /\ <<k, claim[k].mark>>[1] = k
    BY <2>1
  <2>3. Role(t) = "retry"  BY <1>3 DEF ListRetryable
  <2> QED  BY <2>1, <2>2, <2>3 DEF Shaped
<1>4. ASSUME NEW k \in Keys, Check(t, k)  PROVE \E r : Moves(t, r) /\ Shaped(t, r)
  <2>1. PICK r : /\ Moves(t, r)
                 /\ \/ r = Idle
                    \/ r.pc = "next" /\ r.cur = task[t].cur /\ r.events = task[t].events
                    \/ r.pc = "deliver" /\ r.cur = {k} /\ r.events = task[t].events
    BY <1>4, CheckMoves
  <2>2. task[t].pc = "next" /\ Role(t) \in {"poll", "reconcile"}  BY <1>4 DEF Check
  <2> QED  BY <2>1, <2>2, IdleShaped DEF Shape, Shaped
<1>5. ASSUME NEW k \in Keys, Retry(t, k)  PROVE \E r : Moves(t, r) /\ Shaped(t, r)
  <2>1. Role(t) = "retry" /\ k \in task[t].queue  BY <1>5 DEF Retry
  <2>2. \E c \in task[t].pending : c[1] = k  BY <2>1 DEF Shape, Shaped
  <2>3. PICK r : /\ Moves(t, r) /\ r.pc = "load" /\ r.queue = task[t].queue \ {k}
                 /\ r.pending = task[t].pending /\ r.cur = {k} /\ r.events = task[t].events
    BY <1>5, <2>2, RetryMoves
  <2> QED  BY <2>1, <2>3 DEF Shape, Shaped
<1>6. ASSUME NEW k \in Keys, Load(t, k)  PROVE \E r : Moves(t, r) /\ Shaped(t, r)
  <2>1. PICK r : /\ Moves(t, r)
                 /\ Onward(t, r) \/ (Keeps(t, r) /\ r.pc \in {"deliver", "resolve"})
    BY <1>6, LoadMoves
  <2>2. task[t].pc = "load"  BY <1>6 DEF Load
  <2> QED  BY <2>1, <2>2, OnwardShaped DEF Keeps, Shape, Shaped
<1>7. CASE Resolve(t)
  <2>1. PICK r : Moves(t, r) /\ Keeps(t, r) /\ r.pc \in {"deliver", "fail"}
    BY <1>7, ResolveMoves
  <2> QED  BY <2>1 DEF Keeps, Shape, Shaped
<1>8. ASSUME task[t].pc = "deliver", task[t].rest # <<>>, Advance(t) \/ Fail(t)
      PROVE  \E r : Moves(t, r) /\ Shaped(t, r)
  <2>1. PICK r : Moves(t, r) /\ Keeps(t, r) /\ r.pc \in {"deliver", "fail"}
    BY <1>8, AdvanceMoves, FailMoves
  <2> QED  BY <2>1 DEF Keeps, Shape, Shaped
<1>9. ASSUME NEW k \in Keys, GrantPart(t, k)  PROVE \E r : Moves(t, r) /\ Shaped(t, r)
  BY <1>8, <1>9 DEF GrantPart
<1>10. CASE GrantError(t)  BY <1>8, <1>10 DEF GrantError
<1>11. CASE GrantsDone(t)
  <2>1. PICK r : Moves(t, r) /\ Keeps(t, r)
                 /\ r.pc = IF Role(t) = "poll" THEN "announce" ELSE "grant"
    BY <1>11, AtMoves DEF GrantsDone
  <2> QED  BY <2>1 DEF Keeps, Shape, Shaped
<1>12. ASSUME NEW k \in Keys, Announce(t, k)  PROVE \E r : Moves(t, r) /\ Shaped(t, r)
  <2>1. PICK r : Moves(t, r) /\ Keeps(t, r) /\ r.pc = "grant"
    BY <1>12, AtMoves DEF Announce
  <2> QED  BY <2>1 DEF Keeps, Shape, Shaped
<1>13. ASSUME NEW k \in Keys, RecordGranted(t, k) \/ RecordFailed(t, k)
       PROVE  \E r : Moves(t, r) /\ Shaped(t, r)
  BY <1>13, DoneMoves, OnwardShaped DEF RecordGranted, RecordFailed
<1> QED  BY <1>1, <1>2, <1>3, <1>4, <1>5, <1>6, <1>7, <1>9, <1>10, <1>11, <1>12, <1>13 DEF Run

LEMMA RowsTyped ==
    ASSUME TypeOK, NEW k \in Keys, NEW mark \in Marks
    PROVE  /\ Count(claim[k]) \in 1..MaxAttempts
           /\ Failed(claim[k], mark) \in ClaimRow
           /\ Granted(claim[k]) \in ClaimRow
           /\ NoClaim \in ClaimRow
           /\ [claim[k] EXCEPT !.due = TRUE] \in ClaimRow
<1>1. claim[k] \in ClaimRow  BY DEF TypeOK
<1>2. Count(claim[k]) \in 1..MaxAttempts  BY <1>1, ConstantAssumption DEF ClaimRow, Count
<1>3. <<"", "">> \in Marks  BY DEF Marks
<1>4. 0 \in 0..MaxAttempts /\ Count(claim[k]) \in 0..MaxAttempts  BY <1>2, ConstantAssumption
<1>5. Failed(claim[k], mark) \in ClaimRow  BY <1>4 DEF Failed, ClaimRow
<1> QED  BY <1>1, <1>2, <1>3, <1>4, <1>5 DEF Granted, NoClaim, ClaimRow

LEMMA CountedTyped ==
    ASSUME TypeOK, NEW n \in 0..MaxCount
    PROVE  Counted(n) \in 1..MaxCount /\ Counted(n) >= n
<1>1. MaxCount \in 1..2  BY ConstantAssumption DEF TypeOK, Scenario, MaxCount
<1> QED  BY <1>1 DEF Counted

TypeInv == TypeOK /\ Shape

LEMMA TypeInit == Init => TypeInv
<1> SUFFICES ASSUME Init PROVE TypeInv
  OBVIOUS
<1>1. scenario \in Scenarios /\ scenario \in Scenario  BY ConstantAssumption DEF Init
<1>2. def \in [Events -> Definition]  BY DEF Init, Definition
<1>3. task \in [Tasks -> TaskState]  BY <1>2, IdleFields DEF Init
<1>4. claim \in [Keys -> ClaimRow]
  <2>1. 0 \in 0..MaxAttempts /\ <<"", "">> \in Marks  BY ConstantAssumption DEF Marks
  <2>2. NoClaim \in ClaimRow  BY <2>1 DEF NoClaim, ClaimRow
  <2> QED  BY <2>2 DEF Init
<1>5. 0 \in 0..MaxCount  BY <1>1 DEF Scenario, MaxCount
<1>6. TypeOK  BY <1>1, <1>2, <1>3, <1>4, <1>5 DEF Init, TypeOK
<1>7. Shape  BY <1>6, IdleShaped DEF Init, Shape
<1> QED  BY <1>6, <1>7 DEF TypeInv

LEMMA RunTyped ==
    ASSUME TypeInv, NEW t \in Tasks, Run(t), UNCHANGED scenario
    PROVE  TypeInv'
<1>1. PICK r : Moves(t, r) /\ Shaped(t, r)  BY RunShaped DEF TypeInv
<1>2. Shape' /\ task' \in [Tasks -> TaskState]  BY <1>1, ShapeMoves DEF TypeInv
<1>3. UNCHANGED <<game, def, engine, past>>
  BY DEF Run, ListEvents, Evaluate, ListRetryable, Check, Retry, Load, GrantPart, Announce,
         RecordGranted, RecordFailed, Resolve, GrantError, GrantsDone, game, history
<1>4. claim' \in [Keys -> ClaimRow]
  <2>1. ASSUME NEW k \in Keys, RecordGranted(t, k) \/ RecordFailed(t, k)
        PROVE  claim' \in [Keys -> ClaimRow]
    <3>1. task[t].mark \in Marks  BY DEF TypeInv, TypeOK, TaskState
    <3>2. Failed(claim[k], task[t].mark) \in ClaimRow /\ Granted(claim[k]) \in ClaimRow
      BY <3>1, RowsTyped DEF TypeInv
    <3>3. \/ claim' = claim \/ claim' = [claim EXCEPT ![k] = Granted(claim[k])]
          \/ claim' = [claim EXCEPT ![k] = Failed(claim[k], task[t].mark)]
      BY <2>1 DEF RecordGranted, RecordFailed
    <3> QED  BY <3>2, <3>3 DEF TypeInv, TypeOK
  <2>2. CASE UNCHANGED claim  BY <2>2 DEF TypeInv, TypeOK
  <2> QED
    BY <2>1, <2>2 DEF Run, ListEvents, Evaluate, ListRetryable, Check, Retry, Load,
                      GrantPart, Announce, Resolve, GrantError, GrantsDone
<1>5. delivered' \in [Deeds \X Parts -> 0..MaxCount]
  <2>1. ASSUME NEW k \in Keys, GrantPart(t, k)
        PROVE  delivered' \in [Deeds \X Parts -> 0..MaxCount]
    <3> DEFINE d == <<<<Server(t), k>>, Head(task[t].rest)>>
    <3>1. task[t].rest \in Seq(Parts) /\ task[t].rest # <<>>
      BY <2>1 DEF TypeInv, TypeOK, TaskState, GrantPart
    <3>2. d \in Deeds \X Parts  BY <3>1, HeadTailProperties, TaskParts DEF Deeds
    <3>3. delivered' = [delivered EXCEPT ![d] = Counted(delivered[d])]
      BY <2>1 DEF GrantPart, Deliver
    <3>4. delivered \in [Deeds \X Parts -> 0..MaxCount]  BY DEF TypeInv, TypeOK
    <3> HIDE DEF d
    <3>5. Counted(delivered[d]) \in 0..MaxCount  BY <3>2, <3>4, CountedTyped DEF TypeInv
    <3> QED  BY <3>2, <3>3, <3>4, <3>5
  <2>2. CASE UNCHANGED delivered  BY <2>2 DEF TypeInv, TypeOK
  <2> QED
    BY <2>1, <2>2 DEF Run, ListEvents, Evaluate, ListRetryable, Check, Retry, Load, history,
                      RecordGranted, RecordFailed, Announce, Resolve, GrantError, GrantsDone
<1>6. announced' \in [Keys -> 0..MaxCount]
  <2>1. ASSUME NEW k \in Keys, Announce(t, k)  PROVE announced' \in [Keys -> 0..MaxCount]
    <3>1. announced \in [Keys -> 0..MaxCount]  BY DEF TypeInv, TypeOK
    <3>2. Counted(announced[k]) \in 0..MaxCount  BY <3>1, CountedTyped DEF TypeInv
    <3>3. \/ announced' = announced
          \/ announced' = [announced EXCEPT ![k] = Counted(announced[k])]
      BY <2>1 DEF Announce
    <3> QED  BY <3>1, <3>2, <3>3
  <2>2. CASE UNCHANGED announced  BY <2>2 DEF TypeInv, TypeOK
  <2> QED
    BY <2>1, <2>2 DEF Run, ListEvents, Evaluate, ListRetryable, Check, Retry, Load, history,
                      RecordGranted, RecordFailed, GrantPart, Resolve, GrantError, GrantsDone
<1>7. TypeOK'  BY <1>2, <1>3, <1>4, <1>5, <1>6 DEF TypeInv, TypeOK, MaxCount, game
<1> QED  BY <1>2, <1>7 DEF TypeInv

\* What the engine's lifecycle makes of a task.
LEMMA EngineMoves ==
    ASSUME TypeOK, NEW e \in Engines, ApplyEngine(e), NEW t \in Tasks
    PROVE  \/ task'[t] = task[t]
           \/ /\ t[1] = e /\ Role(t) = "reconcile" /\ task[t] = Idle
              /\ task'[t] \in TaskState /\ task'[t].pc = "list" /\ task'[t].events = {}
              /\ task'[t].queue = {} /\ task'[t].pending = {} /\ task'[t].cur = {}
              /\ task'[t].rest = <<>> /\ task'[t].mark = <<"", "">>
<1> DEFINE n == [Idle EXCEPT !.pc = "list"]
<1>1. n \in TaskState /\ n.pc = "list" /\ n.events = {} /\ n.queue = {} /\ n.pending = {}
      /\ n.cur = {} /\ n.rest = <<>> /\ n.mark = <<"", "">>
  BY IdleFields DEF TypeOK, TaskState
<1>2. task'[t] = IF t[1] = e /\ Role(t) = "reconcile" THEN n ELSE task[t]
  BY DEF ApplyEngine
<1>3. t[1] = e => task[t] = Idle  BY DEF ApplyEngine
<1> HIDE DEF n
<1> QED  BY <1>1, <1>2, <1>3

LEMMA ApplyTyped ==
    ASSUME TypeInv, NEW e \in Engines, ApplyEngine(e), UNCHANGED scenario
    PROVE  TypeInv'
<1>1. UNCHANGED <<game, def, claim, delivered, announced>>  BY DEF ApplyEngine
<1>2. TypeOK /\ Shape  BY DEF TypeInv
<1>3. ASSUME NEW t \in Tasks  PROVE task'[t] \in TaskState /\ Shaped(t, task'[t])
  <2>1. task[t] \in TaskState /\ Shaped(t, task[t])  BY <1>2 DEF TypeOK, Shape
  <2>2. CASE task'[t] = task[t]  BY <2>1, <2>2
  <2>3. CASE task'[t] # task[t]
    <3>1. /\ Role(t) = "reconcile" /\ task'[t] \in TaskState /\ task'[t].pc = "list"
          /\ task'[t].events = {} /\ task'[t].queue = {} /\ task'[t].cur = {}
      BY <1>2, <2>3, EngineMoves
    <3> QED  BY <3>1 DEF Shaped
  <2> QED  BY <2>2, <2>3
<1>4. task' = [t \in Tasks |-> task'[t]]  BY DEF ApplyEngine
<1>5. task' \in [Tasks -> TaskState]  BY <1>3, <1>4
<1>6. engine' \in [Engines -> BOOLEAN]  BY DEF ApplyEngine
<1>7. past' \subseteq Deeds  BY <1>2 DEF TypeOK, ApplyEngine
<1>8. TypeOK'  BY <1>1, <1>2, <1>5, <1>6, <1>7 DEF TypeOK, MaxCount, game
<1>9. Shape'  BY <1>3 DEF Shape, Shaped, Role
<1> QED  BY <1>8, <1>9 DEF TypeInv

LEMMA AroundTyped ==
    ASSUME TypeInv, UNCHANGED scenario,
           \/ \E d \in Deeds : Qualify(d) \/ Leave(d)
           \/ \E p \in Servers \X Accounts : Log(p)
           \/ \E k \in Keys : Elapse(k)
           \/ StopEngine
           \/ Crash
           \/ \E e \in Events : ResetEvent(e)
           \/ \E e \in Events, d \in Definition : EditEvent(e, d)
    PROVE  TypeInv'
<1>1. TypeOK /\ Shape  BY DEF TypeInv
<1>2. ASSUME UNCHANGED task, TypeOK'  PROVE TypeInv'
  BY <1>1, <1>2 DEF TypeInv, Shape, Shaped, Role
<1>3. ASSUME NEW d \in Deeds, Qualify(d) \/ Leave(d)  PROVE TypeInv'
  <2>1. UNCHANGED <<online, def, claim, engine, task, history>> /\ qualified' \subseteq Deeds
    BY <1>1, <1>3 DEF Qualify, Leave, TypeOK
  <2>2. TypeOK'  BY <1>1, <2>1 DEF TypeOK, history, MaxCount
  <2> QED  BY <1>2, <2>1, <2>2
<1>4. ASSUME NEW p \in Servers \X Accounts, Log(p)  PROVE TypeInv'
  <2>1. UNCHANGED <<qualified, def, claim, engine, task, history>>
        /\ online' \subseteq Servers \X Accounts
    BY <1>1, <1>4 DEF Log, TypeOK
  <2>2. TypeOK'  BY <1>1, <2>1 DEF TypeOK, history, MaxCount
  <2> QED  BY <1>2, <2>1, <2>2
<1>5. ASSUME NEW k \in Keys, Elapse(k)  PROVE TypeInv'
  <2>1. UNCHANGED <<game, def, engine, task, history>>
        /\ claim' = [claim EXCEPT ![k] = [claim[k] EXCEPT !.due = TRUE]]
    BY <1>5 DEF Elapse
  <2>2. [claim[k] EXCEPT !.due = TRUE] \in ClaimRow
    BY <1>1 DEF TypeOK, ClaimRow
  <2>3. claim' \in [Keys -> ClaimRow]  BY <1>1, <2>1, <2>2 DEF TypeOK
  <2>4. TypeOK'  BY <1>1, <2>1, <2>3 DEF TypeOK, history, game, MaxCount
  <2> QED  BY <1>2, <2>1, <2>4
<1>6. CASE StopEngine
  <2>1. UNCHANGED <<game, def, claim, task, history>> /\ engine' \in [Engines -> BOOLEAN]
    BY <1>6 DEF StopEngine
  <2>2. TypeOK'  BY <1>1, <2>1 DEF TypeOK, history, game, MaxCount
  <2> QED  BY <1>2, <2>1, <2>2
<1>7. CASE Crash
  <2>1. UNCHANGED <<game, def, claim, history>> /\ engine' \in [Engines -> BOOLEAN]
        /\ task' = [t \in Tasks |-> Idle]
    BY <1>7 DEF Crash
  <2>2. Idle \in TaskState  BY <1>1, IdleFields DEF TypeOK
  <2>3. TypeOK'  BY <1>1, <2>1, <2>2 DEF TypeOK, history, game, MaxCount
  <2>4. Shape'
    <3>1. \A t \in Tasks : Shaped(t, Idle)  BY <1>1, IdleShaped
    <3> QED  BY <2>1, <3>1 DEF Shape, Shaped, Role
  <2> QED  BY <2>3, <2>4 DEF TypeInv
<1>8. ASSUME NEW e \in Events, ResetEvent(e)  PROVE TypeInv'
  <2>1. UNCHANGED <<game, def, engine, task, history>>
        /\ claim' = [k \in Keys |-> IF k[1] = e THEN NoClaim ELSE claim[k]]
    BY <1>8 DEF ResetEvent
  <2>2. NoClaim \in ClaimRow
    BY ConstantAssumption DEF NoClaim, ClaimRow, Marks
  <2>3. claim' \in [Keys -> ClaimRow]  BY <1>1, <2>1, <2>2 DEF TypeOK
  <2>4. TypeOK'  BY <1>1, <2>1, <2>3 DEF TypeOK, history, game, MaxCount
  <2> QED  BY <1>2, <2>1, <2>4
<1>9. ASSUME NEW e \in Events, NEW d \in Definition, EditEvent(e, d)  PROVE TypeInv'
  <2>1. UNCHANGED <<game, claim, engine, task, history>> /\ def' = [def EXCEPT ![e] = d]
    BY <1>9 DEF EditEvent
  <2>2. TypeOK'  BY <1>1, <2>1 DEF TypeOK, history, game, MaxCount
  <2> QED  BY <1>2, <2>1, <2>2
<1> QED  BY <1>3, <1>4, <1>5, <1>6, <1>7, <1>8, <1>9

LEMMA ManualTyped ==
    ASSUME TypeInv, NEW t \in Tasks, NEW k \in Keys, Manual(t, k), UNCHANGED scenario
    PROVE  TypeInv'
<1>1. TypeOK /\ Shape  BY DEF TypeInv
<1>2. UNCHANGED <<game, def, claim, engine, history>> /\ Role(t) = "manual"
  BY DEF Manual
<1>3. PICK r : /\ Moves(t, r) /\ r.pc = "load" /\ r.events = {} /\ r.queue = {}
               /\ r.pending = {} /\ r.cur = {k}
  BY <1>1, ManualMoves
<1>4. Shaped(t, r)  BY <1>2, <1>3 DEF Shaped
<1>5. Shape' /\ task' \in [Tasks -> TaskState]  BY <1>1, <1>3, <1>4, ShapeMoves
<1>6. TypeOK'  BY <1>1, <1>2, <1>5 DEF TypeOK, history, game, MaxCount
<1> QED  BY <1>5, <1>6 DEF TypeInv

LEMMA TypeStep == TypeInv /\ [Next]_vars => TypeInv'
<1> SUFFICES ASSUME TypeInv, [Next]_vars PROVE TypeInv'
  OBVIOUS
<1>1. CASE UNCHANGED vars
  BY <1>1 DEF TypeInv, TypeOK, Shape, Shaped, Role, vars, MaxCount
<1>2. CASE Next
  BY <1>2, RunTyped, ApplyTyped, AroundTyped, ManualTyped DEF Next, Step
<1> QED  BY <1>1, <1>2

\* Every reachable state is well formed: no goroutine ever takes up a claim
\* whose row it did not list.
THEOREM TypeCorrect == Spec => []TypeOK
<1>1. TypeInv => TypeOK  BY DEF TypeInv
<1> QED  BY <1>1, TypeInit, TypeStep, PTL DEF Spec

LEMMA TypeAlways == Spec => []TypeInv
BY TypeInit, TypeStep, PTL DEF Spec

-----------------------------------------------------------------------------
(* The retry policy.                                                       *)

\* What a step may make of a claim.
RowMoves(k) ==
    \/ claim'[k] = claim[k]
    \/ /\ \E t \in Tasks : k \in task[t].cur /\ task[t].pc = "fail"
                           /\ claim'[k] = Failed(claim[k], task[t].mark)
    \/ /\ \E t \in Tasks : k \in task[t].cur /\ task[t].pc = "grant"
       /\ claim'[k] = Granted(claim[k])
    \/ claim'[k] = NoClaim /\ "reset" \in Environment
    \/ claim'[k] = [claim[k] EXCEPT !.due = TRUE] /\ claim[k].status = "pending"

LEMMA RowSteps ==
    ASSUME TypeInv, [Next]_vars, NEW k \in Keys
    PROVE  RowMoves(k)
<1>1. claim \in [Keys -> ClaimRow]  BY DEF TypeInv, TypeOK
<1>2. CASE UNCHANGED claim  BY <1>2 DEF RowMoves
<1>3. ASSUME NEW t \in Tasks, NEW l \in Keys, RecordGranted(t, l)  PROVE RowMoves(k)
  <2>1. task[t].pc = "grant" /\ l \in task[t].cur  BY <1>3 DEF RecordGranted
  <2>2. claim' = [claim EXCEPT ![l] = Granted(claim[l])] \/ UNCHANGED claim
    BY <1>3 DEF RecordGranted
  <2> QED  BY <1>1, <1>2, <2>1, <2>2 DEF RowMoves
<1>4. ASSUME NEW t \in Tasks, NEW l \in Keys, RecordFailed(t, l)  PROVE RowMoves(k)
  <2>1. task[t].pc = "fail" /\ l \in task[t].cur  BY <1>4 DEF RecordFailed
  <2>2. claim' = [claim EXCEPT ![l] = Failed(claim[l], task[t].mark)] \/ UNCHANGED claim
    BY <1>4 DEF RecordFailed
  <2> QED  BY <1>1, <1>2, <2>1, <2>2 DEF RowMoves
<1>5. ASSUME NEW l \in Keys, Elapse(l)  PROVE RowMoves(k)
  <2>1. claim[l].status = "pending"
        /\ claim' = [claim EXCEPT ![l] = [claim[l] EXCEPT !.due = TRUE]]
    BY <1>5 DEF Elapse
  <2> QED  BY <1>1, <2>1 DEF RowMoves
<1>6. ASSUME NEW e \in Events, ResetEvent(e)  PROVE RowMoves(k)
  BY <1>1, <1>6 DEF ResetEvent, RowMoves
<1>7. CASE UNCHANGED vars  BY <1>2, <1>7 DEF vars
<1>8. ASSUME NEW t \in Tasks, Run(t)  PROVE RowMoves(k)
  BY <1>2, <1>3, <1>4, <1>8
     DEF Run, ListEvents, Evaluate, ListRetryable, Check, Retry, Load,
         GrantPart, Announce, Resolve, GrantError, GrantsDone
<1>9. ASSUME Next, \A t \in Tasks : ~Run(t)  PROVE RowMoves(k)
  BY <1>2, <1>5, <1>6, <1>9
     DEF Next, Step, Qualify, Leave, Log, ApplyEngine, StopEngine, Crash, Manual, EditEvent
<1> QED  BY <1>7, <1>8, <1>9

LEMMA RowsInit == Init => RowsConsistent
<1> SUFFICES ASSUME Init, NEW k \in Keys PROVE claim[k].status = "none"
  BY DEF RowsConsistent
<1> QED  BY DEF Init, NoClaim

LEMMA RowsStep == TypeInv /\ RowsConsistent /\ [Next]_vars => RowsConsistent'
<1> SUFFICES ASSUME TypeInv, RowsConsistent, [Next]_vars, NEW k \in Keys
             PROVE  /\ claim'[k].status = "pending" => claim'[k].attempts < MaxAttempts
                    /\ claim'[k].status = "exhausted" => claim'[k].attempts >= MaxAttempts
  BY DEF RowsConsistent
<1>1. RowMoves(k)  BY RowSteps
<1>2. claim[k] \in ClaimRow /\ Count(claim[k]) \in 1..MaxAttempts /\ MaxAttempts \in Nat
  <2>1. <<"", "">> \in Marks  BY DEF Marks
  <2> QED  BY <2>1, RowsTyped, ConstantAssumption DEF TypeInv, TypeOK
<1>3. ASSUME NEW mark, claim'[k] = Failed(claim[k], mark)
      PROVE  /\ claim'[k].status = "pending" => claim'[k].attempts < MaxAttempts
             /\ claim'[k].status = "exhausted" => claim'[k].attempts >= MaxAttempts
  <2> DEFINE n == Count(claim[k])
  <2>1. claim'[k].status = (IF n >= MaxAttempts THEN "exhausted" ELSE "pending")
        /\ claim'[k].attempts = n
    BY <1>3 DEF Failed
  <2> HIDE DEF n
  <2>2. n \in 1..MaxAttempts  BY <1>2 DEF n
  <2> QED  BY <1>2, <2>1, <2>2
<1>4. ASSUME claim'[k] = Granted(claim[k])
      PROVE  /\ claim'[k].status = "pending" => claim'[k].attempts < MaxAttempts
             /\ claim'[k].status = "exhausted" => claim'[k].attempts >= MaxAttempts
  <2>1. Granted(claim[k]).status = "granted"  BY DEF Granted
  <2> QED  BY <1>4, <2>1
<1>5. ASSUME claim'[k] = NoClaim
      PROVE  /\ claim'[k].status = "pending" => claim'[k].attempts < MaxAttempts
             /\ claim'[k].status = "exhausted" => claim'[k].attempts >= MaxAttempts
  <2>1. NoClaim.status = "none"  BY DEF NoClaim
  <2> QED  BY <1>5, <2>1
<1>6. CASE claim'[k] = [claim[k] EXCEPT !.due = TRUE] \/ claim'[k] = claim[k]
  <2>1. claim'[k].status = claim[k].status /\ claim'[k].attempts = claim[k].attempts
    BY <1>2, <1>6 DEF ClaimRow
  <2> QED  BY <2>1 DEF RowsConsistent
<1> QED  BY <1>1, <1>3, <1>4, <1>5, <1>6 DEF RowMoves

\* The retry policy is exact for any number of attempts: a pending row can
\* still be listed, an exhausted one has used them up (recordFailed,
\* recordGranted, listRetryableClaims).
THEOREM RetryPolicyExact == Spec => []RowsConsistent
BY TypeAlways, RowsInit, RowsStep, PTL DEF Spec

-----------------------------------------------------------------------------
(* What a claim closed on, while nobody edits, resets or grants by hand.   *)

Reward(k) == def[k[1]].reward

\* The first m parts of the reward have reached the player.
Covered(k, m) == \A i \in 1..m : delivered[<<<<Main, k>>, Reward(k)[i]>>] > 0

\* q is what is left of the reward, and what it leaves out has been delivered.
Sound(k, q) == \E m \in 0..Len(Reward(k)) : q = After(Reward(k), m) /\ Covered(k, m)

\* A retry that resumes at the marker skips nothing that is still owed.
Marked(k, mark) == Sound(k, Remainder(Reward(k), mark))

Honest(t, s) ==
    /\ Role(t) = "manual" => s.pc = "idle"
    /\ Role(t) \in {"poll", "reconcile"} /\ s.pc \notin {"idle", "list"}
          => \A e \in Events : s.reward[e] = def[e].reward
    /\ \A c \in s.pending : Marked(c[1], c[2])
    /\ \A k \in s.cur :
          /\ s.pc \in {"load", "fail"} => Marked(k, s.mark)
          /\ s.pc = "resolve" => Sound(k, s.rest)
          /\ s.pc = "deliver" => IF Pays(t, k) THEN Sound(k, s.rest) ELSE s.rest = <<>>
          /\ s.pc \in {"announce", "grant"} /\ Pays(t, k) => Complete(k)

PaidInv ==
    /\ \A t \in Tasks : Honest(t, task[t])
    /\ \A k \in Keys : Marked(k, claim[k].mark)
    /\ \A k \in Keys : announced[k] > 0 => Complete(k)

LEMMA KeyRewards ==
    ASSUME TypeOK, NEW k \in Keys
    PROVE  /\ Reward(k) \in Rewards /\ Reward(k) \in Seq(Parts) /\ Len(Reward(k)) \in Nat
           /\ DOMAIN Reward(k) = 1..Len(Reward(k))
<1>1. Reward(k) \in Rewards  BY DEF TypeOK, Definition, Keys, Reward
<1> QED  BY <1>1, RewardParts

LEMMA WholeIsSound ==
    ASSUME TypeOK, NEW k \in Keys
    PROVE  Sound(k, After(Reward(k), 0))
BY KeyRewards DEF Sound, Covered

\* Any marker that names no part stands for the whole reward.
LEMMA NoMarker ==
    ASSUME TypeOK, NEW k \in Keys
    PROVE  Marked(k, <<"", "">>) /\ Marked(k, <<"resolve", "">>)
<1> SUFFICES ASSUME NEW mark \in {<<"", "">>, <<"resolve", "">>} PROVE Marked(k, mark)
  OBVIOUS
<1>1. \A i \in 1..Len(Reward(k)) : Label(Reward(k)[i])[1] \notin {"", "resolve"}
  BY KeyRewards, RewardParts
<1>2. \A i \in 1..Len(Reward(k)) : Label(Reward(k)[i]) # mark
  <2> SUFFICES ASSUME NEW i \in 1..Len(Reward(k)), Label(Reward(k)[i]) = mark PROVE FALSE
    OBVIOUS
  <2>1. <<"", "">>[1] = "" /\ <<"resolve", "">>[1] = "resolve"  OBVIOUS
  <2> QED  BY <1>1, <2>1
<1>3. Remainder(Reward(k), mark) = After(Reward(k), 0)
  BY <1>2, KeyRewards, Remainders
<1> QED  BY <1>3, WholeIsSound DEF Marked

\* The label of the first part that is not there yet is a sound marker: the
\* first part with that label comes no later.
LEMMA FirstMissing ==
    ASSUME TypeOK, NEW k \in Keys, NEW m \in 0..Len(Reward(k)), Covered(k, m),
           m < Len(Reward(k))
    PROVE  Marked(k, Label(Reward(k)[m + 1]))
<1> DEFINE r == Reward(k)
           mark == Label(r[m + 1])
<1>1. r \in Rewards /\ Len(r) \in Nat  BY KeyRewards
<1>2. m + 1 \in 1..Len(r)  BY <1>1
<1>3. PICK i \in 1..Len(r) :
        /\ \A j \in 1..Len(r) : Label(r[j]) = mark => i <= j
        /\ Remainder(r, mark) = After(r, i - 1)
  <2>1. ~ \A i \in 1..Len(r) : Label(r[i]) # mark  BY <1>2
  <2> QED  BY <1>1, <2>1, Remainders
<1>4. i <= m + 1 /\ i - 1 \in 0..Len(r) /\ i - 1 <= m  BY <1>1, <1>2, <1>3
<1>5. Covered(k, i - 1)  BY <1>4 DEF Covered
<1> QED  BY <1>3, <1>4, <1>5 DEF Marked, Sound

LEMMA NothingLeft ==
    ASSUME TypeOK, NEW k \in Keys, Sound(k, <<>>)
    PROVE  Complete(k)
<1>1. PICK m \in 0..Len(Reward(k)) : <<>> = After(Reward(k), m) /\ Covered(k, m)
  BY DEF Sound
<1>2. Reward(k) \in Rewards /\ Len(Reward(k)) \in Nat
      /\ DOMAIN Reward(k) = 1..Len(Reward(k))
  BY KeyRewards
<1>3. m = Len(Reward(k))  BY <1>1, <1>2, Slices
<1>4. \A i \in DOMAIN def[k[1]].reward : delivered[<<<<Main, k>>, def[k[1]].reward[i]>>] > 0
  BY <1>1, <1>2, <1>3 DEF Covered, Reward
<1> QED  BY <1>4, ConstantAssumption DEF Complete

\* Facts about what has been delivered stay true.
Grows == UNCHANGED def /\ \A d \in Deeds \X Parts : delivered[d] > 0 => delivered'[d] > 0

LEMMA StaysCovered ==
    ASSUME TypeOK, Grows, NEW k \in Keys
    PROVE  /\ \A m \in 0..Len(Reward(k)) : Covered(k, m) => Covered(k, m)'
           /\ Reward(k)' = Reward(k)
<1>1. Reward(k)' = Reward(k)  BY DEF Grows, Reward
<1>2. \A i \in 1..Len(Reward(k)) : <<<<Main, k>>, Reward(k)[i]>> \in Deeds \X Parts
  BY KeyRewards, RewardParts, ConstantAssumption DEF Deeds
<1>3. ASSUME NEW m \in 0..Len(Reward(k)), Covered(k, m)  PROVE Covered(k, m)'
  <2>1. \A i \in 1..m : i \in 1..Len(Reward(k))  BY KeyRewards
  <2> QED  BY <1>1, <1>2, <1>3, <2>1 DEF Covered, Grows
<1> QED  BY <1>1, <1>3

LEMMA StaysSound ==
    ASSUME TypeOK, Grows, NEW k \in Keys
    PROVE  /\ \A q : Sound(k, q) => Sound(k, q)'
           /\ \A mark : Marked(k, mark) => Marked(k, mark)'
           /\ Complete(k) => Complete(k)'
<1>1. Reward(k)' = Reward(k) /\ \A m \in 0..Len(Reward(k)) : Covered(k, m) => Covered(k, m)'
  BY StaysCovered
<1>2. \A q : Sound(k, q) => Sound(k, q)'  BY <1>1 DEF Sound
<1>3. \A mark : Marked(k, mark) => Marked(k, mark)'  BY <1>1, <1>2 DEF Marked
<1>4. ASSUME Complete(k)  PROVE Complete(k)'
  <2>1. PICK s \in Servers : \A i \in DOMAIN Reward(k) : delivered[<<<<s, k>>, Reward(k)[i]>>] > 0
    BY <1>4 DEF Complete, Reward
  <2>2. \A i \in DOMAIN Reward(k) : <<<<s, k>>, Reward(k)[i]>> \in Deeds \X Parts
    BY KeyRewards, RewardParts DEF Deeds
  <2>3. \A i \in DOMAIN Reward(k) : delivered'[<<<<s, k>>, Reward(k)[i]>>] > 0
    BY <2>1, <2>2 DEF Grows
  <2> QED  BY <1>1, <2>3 DEF Complete, Reward
<1> QED  BY <1>2, <1>3, <1>4

LEMMA StaysHonest ==
    ASSUME TypeOK, Grows, UNCHANGED scenario, NEW t \in Tasks, NEW s \in TaskState,
           Honest(t, s)
    PROVE  Honest(t, s)'
<1>1. \A k \in Keys : /\ \A q : Sound(k, q) => Sound(k, q)'
                      /\ \A mark : Marked(k, mark) => Marked(k, mark)'
                      /\ Complete(k) => Complete(k)'
  BY StaysSound
<1>2. s.cur \subseteq Keys /\ \A c \in s.pending : c[1] \in Keys
  BY DEF TaskState
<1>3. UNCHANGED def  BY DEF Grows
<1>4. \A k : Pays(t, k)' <=> Pays(t, k)  BY DEF Pays, AwardPast, Role
<1>5. Role(t) = "manual" => s.pc = "idle"  BY DEF Honest
<1>6. Role(t) \in {"poll", "reconcile"} /\ s.pc \notin {"idle", "list"}
         => \A e \in Events : s.reward[e] = def'[e].reward
  BY <1>3 DEF Honest
<1>7. \A c \in s.pending : Marked(c[1], c[2])'  BY <1>1, <1>2 DEF Honest
<1>8. ASSUME NEW k \in s.cur
      PROVE  /\ s.pc \in {"load", "fail"} => Marked(k, s.mark)'
             /\ s.pc = "resolve" => Sound(k, s.rest)'
             /\ s.pc = "deliver" => IF Pays(t, k) THEN Sound(k, s.rest)' ELSE s.rest = <<>>
             /\ s.pc \in {"announce", "grant"} /\ Pays(t, k) => Complete(k)'
  BY <1>1, <1>2, <1>8 DEF Honest
<1> QED  BY <1>4, <1>5, <1>6, <1>7, <1>8 DEF Honest, Role

LEMMA MoveHonest ==
    ASSUME TypeOK, Grows, UNCHANGED scenario, \A u \in Tasks : Honest(u, task[u]),
           NEW t \in Tasks, NEW r, Moves(t, r), Honest(t, r)'
    PROVE  \A u \in Tasks : Honest(u, task[u])'
<1> TAKE u \in Tasks
<1>1. CASE u = t  BY <1>1 DEF Moves, Honest
<1>2. CASE u # t
  <2>1. PICK s \in TaskState : s = task[u]  BY DEF TypeOK
  <2>2. Honest(u, s)'  BY <2>1, StaysHonest
  <2>3. task'[u] = s  BY <1>2, <2>1 DEF Moves
  <2> QED  BY <2>2, <2>3 DEF Honest
<1> QED  BY <1>1, <1>2

LEMMA OnwardHonest ==
    ASSUME TypeOK, NEW t \in Tasks, NEW r, Onward(t, r), Honest(t, task[t]),
           task[t].pc \notin {"idle", "list"}
    PROVE  Honest(t, r)
<1>1. CASE r = Idle
  BY <1>1, IdleFields DEF TypeOK, Honest
<1>2. CASE r # Idle
  <2>1. /\ r.pc = "next" /\ r.cur = {} /\ r.reward = task[t].reward
        /\ r.pending = task[t].pending
    BY <1>2 DEF Onward
  <2> QED  BY <2>1 DEF Honest
<1> QED  BY <1>1, <1>2

LEMMA ClaimsHonest ==
    ASSUME TypeInv, PaidInv, [Next]_vars, Grows, Unattended
    PROVE  \A k \in Keys : Marked(k, claim[k].mark)'
<1> TAKE k \in Keys
<1>1. PICK m : m = claim'[k].mark  OBVIOUS
<1>2. TypeOK /\ claim[k] \in ClaimRow /\ MaxAttempts \in Nat
  BY ConstantAssumption DEF TypeInv, TypeOK
<1>3. Marked(k, m)
  <2>1. RowMoves(k)  BY RowSteps
  <2>2. CASE claim'[k] = claim[k]  BY <1>1, <2>2 DEF PaidInv
  <2>3. ASSUME NEW t \in Tasks, k \in task[t].cur, task[t].pc = "fail",
               claim'[k] = Failed(claim[k], task[t].mark)
        PROVE  Marked(k, m)
    <3>1. m = task[t].mark  BY <1>1, <2>3 DEF Failed
    <3> QED  BY <2>3, <3>1 DEF PaidInv, Honest
  <2>4. CASE claim'[k] = Granted(claim[k]) \/ claim'[k] = NoClaim
    <3>1. Granted(claim[k]).mark = <<"", "">> /\ NoClaim.mark = <<"", "">>
      BY DEF Granted, NoClaim
    <3> QED  BY <1>1, <1>2, <2>4, <3>1, NoMarker
  <2>5. CASE claim'[k] = [claim[k] EXCEPT !.due = TRUE]
    <3>1. m = claim[k].mark  BY <1>1, <1>2, <2>5 DEF ClaimRow
    <3> QED  BY <3>1 DEF PaidInv
  <2> QED  BY <2>1, <2>2, <2>3, <2>4, <2>5 DEF RowMoves
<1>4. Marked(k, m)'  BY <1>2, <1>3, StaysSound
<1> QED  BY <1>1, <1>4 DEF Marked

\* What a task is left with after a grant that lands, and after one that fails.
LEMMA GrantHonest ==
    ASSUME TypeOK, Shape, OneServer, NEW t \in Tasks, NEW k \in Keys, GrantPart(t, k)
    PROVE  /\ Grows
           /\ UNCHANGED scenario /\ Honest(t, task[t]) /\ (\A l \in Keys : Pays(t, l)' <=> Pays(t, l))
              => \A r : Moves(t, r) /\ Keeps(t, r) /\ r.mark = task[t].mark
                        /\ r.pc = "deliver" /\ r.rest = Tail(task[t].rest)
                        => Honest(t, r)'
<1> DEFINE s == task[t]
           d == <<<<Server(t), k>>, Head(s.rest)>>
<1>1. s \in TaskState /\ s.pc = "deliver" /\ s.cur = {k} /\ s.rest # <<>> /\ UNCHANGED def
      /\ delivered' = [delivered EXCEPT ![d] = Counted(delivered[d])]
  BY DEF GrantPart, Deliver, TypeOK, Shape, Shaped
<1>2. d \in Deeds \X Parts /\ Server(t) = Main
  <2>1. Head(s.rest) \in Parts  BY <1>1, HeadTailProperties DEF TaskState
  <2> QED  BY <2>1, TaskParts DEF Deeds, OneServer
<1>3. delivered \in [Deeds \X Parts -> 0..MaxCount]  BY DEF TypeOK
<1>4. Counted(delivered[d]) \in 1..MaxCount  BY <1>2, <1>3, CountedTyped
<1> HIDE DEF d
<1>5. delivered'[d] > 0 /\ \A c \in Deeds \X Parts : c # d => delivered'[c] = delivered[c]
  BY <1>1, <1>2, <1>3, <1>4
<1>6. Grows  BY <1>1, <1>5 DEF Grows
<1>7. ASSUME UNCHANGED scenario, Honest(t, s), \A l \in Keys : Pays(t, l)' <=> Pays(t, l),
             NEW r, Moves(t, r), Keeps(t, r), r.mark = s.mark, r.pc = "deliver",
             r.rest = Tail(s.rest)
      PROVE  Honest(t, r)'
  <2>1. Pays(t, k) /\ Sound(k, s.rest)  BY <1>1, <1>7 DEF Honest
  <2>2. PICK m \in 0..Len(Reward(k)) : s.rest = After(Reward(k), m) /\ Covered(k, m)
    BY <2>1 DEF Sound
  <2>3. Reward(k) \in Rewards /\ Len(Reward(k)) \in Nat  BY KeyRewards
  <2>4. m < Len(Reward(k)) /\ r.rest = After(Reward(k), m + 1)
        /\ Head(s.rest) = Reward(k)[m + 1]
    BY <1>1, <1>7, <2>2, <2>3, Slices
  <2>5. Covered(k, m)' /\ Reward(k)' = Reward(k)  BY <1>6, <2>2, StaysCovered
  <2>6. Covered(k, m + 1)'
    <3>1. \A i \in 1..(m + 1) : i \in 1..m \/ i = m + 1  BY <2>3
    <3>2. delivered'[<<<<Main, k>>, Reward(k)[m + 1]>>] > 0  BY <1>2, <1>5, <2>4 DEF d
    <3> QED  BY <2>5, <3>1, <3>2 DEF Covered
  <2>7. Sound(k, r.rest)'
    <3>1. m + 1 \in 0..Len(Reward(k))  BY <2>3, <2>4
    <3> QED  BY <2>4, <2>5, <2>6, <3>1 DEF Sound
  <2>8. r.cur = {k} /\ r.pending = s.pending /\ r.reward = s.reward
    BY <1>1, <1>7 DEF Keeps
  <2>9. \A c \in r.pending : Marked(c[1], c[2])'
    <3>1. \A c \in s.pending : c[1] \in Keys /\ Marked(c[1], c[2])
      BY <1>1, <1>7 DEF Honest, TaskState
    <3> QED  BY <1>6, <2>8, <3>1, StaysSound
  <2>10. Role(t) # "manual"
         /\ (Role(t) \in {"poll", "reconcile"} => \A e \in Events : r.reward[e] = def'[e].reward)
    BY <1>1, <1>7, <2>8 DEF Honest
  <2> QED  BY <1>7, <2>1, <2>7, <2>8, <2>9, <2>10 DEF Honest, Role
<1> QED  BY <1>6, <1>7

LEMMA FailHonest ==
    ASSUME TypeOK, Shape, NEW t \in Tasks, task[t].pc = "deliver", task[t].rest # <<>>,
           NEW r, Keeps(t, r), r.pc = "fail", Honest(t, task[t]),
           r.mark = Label(Head(task[t].rest))
    PROVE  Honest(t, r)
<1> DEFINE s == task[t]
<1>1. s \in TaskState  BY DEF TypeOK
<1>2. ASSUME NEW k \in s.cur  PROVE Marked(k, r.mark)
  <2>1. k \in Keys /\ Sound(k, s.rest)  BY <1>1, <1>2 DEF Honest, TaskState
  <2>2. PICK m \in 0..Len(Reward(k)) : s.rest = After(Reward(k), m) /\ Covered(k, m)
    BY <2>1 DEF Sound
  <2>3. Reward(k) \in Rewards /\ Len(Reward(k)) \in Nat  BY <2>1, KeyRewards
  <2>4. m < Len(Reward(k)) /\ Head(s.rest) = Reward(k)[m + 1]
    BY <2>2, <2>3, Slices
  <2> QED  BY <2>1, <2>2, <2>4, FirstMissing
<1>3. r.cur = s.cur /\ r.pending = s.pending /\ r.reward = s.reward  BY DEF Keeps
<1> QED  BY <1>2, <1>3 DEF Honest

\* Every step of a goroutine leaves it honest, and what has been said stays true.
LEMMA RunHonest ==
    ASSUME TypeInv, PaidInv, OneServer, NEW t \in Tasks, Run(t), UNCHANGED scenario
    PROVE  /\ Grows
           /\ \A u \in Tasks : Honest(u, task[u])'
           /\ \A k \in Keys : announced[k] = 0 /\ announced'[k] > 0 => Complete(k)
<1> DEFINE s == task[t]
           Goal == /\ Grows
                   /\ \A u \in Tasks : Honest(u, task[u])'
                   /\ \A k \in Keys : announced[k] = 0 /\ announced'[k] > 0 => Complete(k)
<1>1. TypeOK /\ Shape /\ \A u \in Tasks : Honest(u, task[u])  BY DEF TypeInv, PaidInv
<1>2. s \in TaskState /\ Shaped(t, s) /\ Honest(t, s)  BY <1>1 DEF TypeOK, Shape
<1>3. \A l \in Keys : Pays(t, l)' <=> Pays(t, l)  BY DEF Pays, AwardPast, Role
\* Without a grant it is enough to look at the new state of t.
<1>4. ASSUME UNCHANGED <<def, delivered, announced>>, NEW r, Moves(t, r), Honest(t, r)
      PROVE  Goal
  <2>1. Grows  BY <1>4 DEF Grows
  <2>2. Honest(t, r)'  BY <1>1, <1>4, <2>1, StaysHonest DEF Moves
  <2>3. \A u \in Tasks : Honest(u, task[u])'  BY <1>1, <1>4, <2>1, <2>2, MoveHonest
  <2>4. \A k \in Keys : announced[k] = 0 /\ announced'[k] > 0 => Complete(k)
    <3> SUFFICES ASSUME NEW k \in Keys, announced[k] = 0, announced'[k] > 0 PROVE FALSE
      OBVIOUS
    <3>1. announced'[k] = 0  BY <1>4
    <3> QED  BY <3>1
  <2> QED  BY <2>1, <2>3, <2>4
<1>5. CASE ListEvents(t)
  <2>1. UNCHANGED <<def, delivered, announced>> /\ Role(t) \in {"poll", "reconcile"}
        /\ def \in [Events -> Definition]
    BY <1>1, <1>5 DEF ListEvents, history, TypeOK
  <2>2. PICK r : /\ Moves(t, r) /\ r.pending = {} /\ r.cur = {}
                 /\ \/ r = Idle
                    \/ r.pc = "next" /\ r.reward = [e \in Events |-> def[e].reward]
    BY <1>1, <1>5, ListEventsMoves
  <2>3. Honest(t, r)  BY <2>1, <2>2, IdleFields DEF Honest
  <2> QED  BY <1>4, <2>1, <2>2, <2>3
<1>6. ASSUME NEW e \in Events, Evaluate(t, e)  PROVE Goal
  <2>1. UNCHANGED <<def, delivered, announced>> /\ s.pc = "next"
        /\ def \in [Events -> Definition]
    BY <1>1, <1>6 DEF Evaluate, history, TypeOK
  <2>2. PICK r : /\ Moves(t, r)
                 /\ \/ r = Idle
                    \/ /\ r.pc = "next" /\ r.reward = s.reward
                       /\ r.pending = s.pending /\ r.cur = s.cur
    BY <1>1, <1>6, EvaluateMoves
  <2>3. Honest(t, r)
    <3>1. CASE r = Idle  BY <1>2, <2>1, <3>1, IdleFields DEF Honest
    <3>2. CASE r # Idle
      <4>1. r.pc = "next" /\ r.reward = s.reward /\ r.pending = s.pending /\ r.cur = s.cur
        BY <2>2, <3>2
      <4> QED  BY <1>2, <2>1, <4>1 DEF Honest
    <3> QED  BY <3>1, <3>2
  <2> QED  BY <1>4, <2>1, <2>2, <2>3
<1>7. CASE ListRetryable(t)
  <2>1. UNCHANGED <<def, delivered, announced>> /\ Role(t) = "retry"
    BY <1>7 DEF ListRetryable, history
  <2>2. PICK r : /\ Moves(t, r) /\ r.pc = "next" /\ r.cur = {}
                 /\ r.pending = {<<k, claim[k].mark>> : k \in {k \in Keys : Retryable(k)}}
    BY <1>1, <1>7, ListRetryableMoves
  <2>3. \A c \in r.pending : Marked(c[1], c[2])
    <3> TAKE c \in r.pending
    <3>1. PICK k \in Keys : c = <<k, claim[k].mark>>  BY <2>2
    <3> QED  BY <3>1 DEF PaidInv
  <2>4. Honest(t, r)  BY <2>1, <2>2, <2>3 DEF Honest
  <2> QED  BY <1>4, <2>1, <2>2, <2>4
<1>8. ASSUME NEW k \in Keys, Check(t, k)  PROVE Goal
  <2>1. UNCHANGED <<def, delivered, announced>> /\ s.pc = "next"
        /\ Role(t) \in {"poll", "reconcile"} /\ def \in [Events -> Definition]
    BY <1>1, <1>8 DEF Check, history, TypeOK
  <2>2. PICK r : /\ Moves(t, r)
                 /\ \/ r = Idle
                    \/ /\ r.reward = s.reward /\ r.pending = s.pending
                       /\ \/ r.pc = "next" /\ r.cur = s.cur
                          \/ /\ r.pc = "deliver" /\ r.cur = {k}
                             /\ r.rest = IF Pays(t, k)
                                         THEN Remainder(s.reward[k[1]], claim[k].mark)
                                         ELSE <<>>
    BY <1>1, <1>8, CheckMoves
  <2>3. Honest(t, r)
    <3>1. CASE r = Idle  BY <1>2, <2>1, <3>1, IdleFields DEF Honest
    <3>2. CASE r.pc = "next" /\ r.cur = s.cur /\ r.reward = s.reward /\ r.pending = s.pending
      BY <1>2, <2>1, <3>2 DEF Honest
    <3>3. CASE r.pc = "deliver" /\ r.cur = {k} /\ r.reward = s.reward /\ r.pending = s.pending
               /\ r.rest = IF Pays(t, k) THEN Remainder(s.reward[k[1]], claim[k].mark) ELSE <<>>
      <4>1. k[1] \in Events  BY DEF Keys
      <4>2. s.reward[k[1]] = Reward(k)  BY <1>2, <2>1, <4>1 DEF Honest, Reward
      <4>3. Sound(k, Remainder(Reward(k), claim[k].mark))  BY DEF PaidInv, Marked
      <4>4. IF Pays(t, k) THEN Sound(k, r.rest) ELSE r.rest = <<>>  BY <3>3, <4>2, <4>3
      <4> QED  BY <1>2, <2>1, <3>3, <4>4 DEF Honest
    <3> QED  BY <2>2, <3>1, <3>2, <3>3
  <2> QED  BY <1>4, <2>1, <2>2, <2>3
<1>9. ASSUME NEW k \in Keys, Retry(t, k)  PROVE Goal
  <2>1. UNCHANGED <<def, delivered, announced>> /\ Role(t) = "retry" /\ k \in s.queue
    BY <1>9 DEF Retry, history
  <2>2. \E c \in s.pending : c[1] = k  BY <1>2, <2>1 DEF Shaped
  <2>3. PICK r : \E c \in s.pending : /\ Moves(t, r) /\ c[1] = k /\ r.pc = "load"
                                      /\ r.pending = s.pending /\ r.cur = {k} /\ r.mark = c[2]
    BY <1>1, <1>9, <2>2, RetryMoves
  <2>4. Honest(t, r)  BY <1>2, <2>1, <2>3 DEF Honest
  <2> QED  BY <1>4, <2>1, <2>3, <2>4
<1>10. ASSUME NEW k \in Keys, Load(t, k)  PROVE Goal
  <2>1. UNCHANGED <<def, delivered, announced>> /\ s.pc = "load" /\ s.cur = {k}
    BY <1>2, <1>10 DEF Load, history, Shaped
  <2>2. PICK r : /\ Moves(t, r)
                 /\ \/ Onward(t, r)
                    \/ /\ Keeps(t, r) /\ r.pc \in {"deliver", "resolve"}
                       /\ r.rest = Remainder(def[k[1]].reward, s.mark)
    BY <1>1, <1>10, LoadMoves
  <2>3. Honest(t, r)
    <3>1. CASE Onward(t, r)  BY <1>1, <1>2, <2>1, <3>1, OnwardHonest
    <3>2. CASE Keeps(t, r) /\ r.pc \in {"deliver", "resolve"}
               /\ r.rest = Remainder(def[k[1]].reward, s.mark)
      <4>1. Sound(k, r.rest)  BY <1>2, <2>1, <3>2 DEF Honest, Marked, Reward
      <4>2. Role(t) = "retry" /\ Pays(t, k)
        BY <1>2, <2>1 DEF Shaped, Honest, Pays
      <4> QED  BY <1>2, <2>1, <3>2, <4>1, <4>2 DEF Honest, Keeps
    <3> QED  BY <2>2, <3>1, <3>2
  <2> QED  BY <1>4, <2>1, <2>2, <2>3
<1>11. CASE Resolve(t)
  <2>1. UNCHANGED <<def, delivered, announced>> /\ s.pc = "resolve"
    BY <1>11 DEF Resolve, history
  <2>2. PICK r : /\ Moves(t, r) /\ Keeps(t, r) /\ r.rest = s.rest
                 /\ r.pc = "deliver" \/ (r.pc = "fail" /\ r.mark = <<"resolve", "">>)
    BY <1>1, <1>11, ResolveMoves
  <2>3. Role(t) = "retry"  BY <1>2, <2>1 DEF Shaped, Honest
  <2>4. Honest(t, r)
    <3>1. r.cur = s.cur /\ r.pending = s.pending /\ s.cur \subseteq Keys
      BY <1>2, <2>2 DEF Keeps, TaskState
    <3>2. \A k \in s.cur : Sound(k, s.rest) /\ Marked(k, <<"resolve", "">>) /\ Pays(t, k)
      BY <1>1, <1>2, <2>1, <2>3, <3>1, NoMarker DEF Honest, Pays
    <3> QED  BY <1>2, <2>2, <2>3, <3>1, <3>2 DEF Honest
  <2> QED  BY <1>4, <2>1, <2>2, <2>4
<1>12. ASSUME NEW k \in Keys, GrantPart(t, k)  PROVE Goal
  <2>1. s.pc = "deliver" /\ s.rest # <<>> /\ UNCHANGED <<def, announced>>
        /\ (Advance(t) \/ Fail(t))
    BY <1>12 DEF GrantPart
  <2>2. Grows  BY <1>1, <1>12, GrantHonest
  <2>3. \E r : Moves(t, r) /\ Honest(t, r)'
    <3>1. CASE Advance(t)
      <4>1. PICK r : Moves(t, r) /\ Keeps(t, r) /\ r.pc = "deliver" /\ r.rest = Tail(s.rest)
                     /\ r.mark = s.mark
        BY <1>1, <2>1, <3>1, AdvanceMoves
      <4> QED  BY <1>1, <1>2, <1>3, <1>12, <4>1, GrantHonest
    <3>2. CASE Fail(t)
      <4>1. PICK r : Moves(t, r) /\ Keeps(t, r) /\ r.pc = "fail"
                     /\ r.mark = Label(Head(s.rest))
        BY <1>1, <2>1, <3>2, FailMoves
      <4>2. Honest(t, r)  BY <1>1, <1>2, <2>1, <4>1, FailHonest
      <4> QED  BY <1>1, <2>2, <4>1, <4>2, StaysHonest DEF Moves
    <3> QED  BY <2>1, <3>1, <3>2
  <2>4. \A u \in Tasks : Honest(u, task[u])'  BY <1>1, <2>2, <2>3, MoveHonest
  <2>5. \A l \in Keys : announced[l] = 0 /\ announced'[l] > 0 => Complete(l)
    <3> SUFFICES ASSUME NEW l \in Keys, announced[l] = 0, announced'[l] > 0 PROVE FALSE
      OBVIOUS
    <3>1. announced'[l] = 0  BY <2>1
    <3> QED  BY <3>1
  <2> QED  BY <2>2, <2>4, <2>5
<1>13. CASE GrantError(t)
  <2>1. UNCHANGED <<def, delivered, announced>> /\ s.pc = "deliver" /\ s.rest # <<>> /\ Fail(t)
    BY <1>13 DEF GrantError, history
  <2>2. PICK r : Moves(t, r) /\ Keeps(t, r) /\ r.pc = "fail" /\ r.mark = Label(Head(s.rest))
    BY <1>1, <2>1, FailMoves
  <2>3. Honest(t, r)  BY <1>1, <1>2, <2>1, <2>2, FailHonest
  <2> QED  BY <1>4, <2>1, <2>2, <2>3
<1>14. CASE GrantsDone(t)
  <2>1. UNCHANGED <<def, delivered, announced>> /\ s.pc = "deliver" /\ s.rest = <<>>
    BY <1>14 DEF GrantsDone, history
  <2>2. PICK r : Moves(t, r) /\ Keeps(t, r) /\ r.pc \in {"announce", "grant"}
    BY <1>1, <1>14, AtMoves DEF GrantsDone
  <2>3. ASSUME NEW k \in s.cur, Pays(t, k)  PROVE Complete(k)
    <3>1. k \in Keys /\ Sound(k, <<>>)  BY <1>2, <2>1, <2>3 DEF Honest, TaskState
    <3> QED  BY <1>1, <3>1, NothingLeft
  <2>4. Honest(t, r)  BY <1>2, <2>1, <2>2, <2>3 DEF Honest, Keeps
  <2> QED  BY <1>4, <2>1, <2>2, <2>4
<1>15. ASSUME NEW k \in Keys, Announce(t, k)  PROVE Goal
  <2>1. UNCHANGED <<def, delivered>> /\ s.pc = "announce" /\ k \in s.cur
        /\ \A l \in Keys : l # k => announced'[l] = announced[l]
    BY <1>1, <1>15 DEF Announce, TypeOK
  <2>2. PICK r : Moves(t, r) /\ Keeps(t, r) /\ r.pc = "grant"
    BY <1>1, <1>15, AtMoves DEF Announce
  <2>3. Honest(t, r)  BY <1>2, <2>1, <2>2 DEF Honest, Keeps
  <2>4. Grows  BY <2>1 DEF Grows
  <2>5. Honest(t, r)'  BY <1>1, <2>2, <2>3, <2>4, StaysHonest DEF Moves
  <2>6. \A u \in Tasks : Honest(u, task[u])'  BY <1>1, <2>2, <2>4, <2>5, MoveHonest
  <2>7. Complete(k)
    <3>1. Pays(t, k)  BY <1>2, <2>1 DEF Shaped, Pays
    <3> QED  BY <1>2, <2>1, <3>1 DEF Honest
  <2>8. \A l \in Keys : announced[l] = 0 /\ announced'[l] > 0 => Complete(l)
    <3> SUFFICES ASSUME NEW l \in Keys, announced[l] = 0, announced'[l] > 0 PROVE l = k
      BY <2>7
    <3> QED  BY <2>1
  <2> QED  BY <2>4, <2>6, <2>8
<1>16. ASSUME NEW k \in Keys, RecordGranted(t, k) \/ RecordFailed(t, k)  PROVE Goal
  <2>1. UNCHANGED <<def, delivered, announced>> /\ s.pc \in {"grant", "fail"} /\ Done(t)
    BY <1>16 DEF RecordGranted, RecordFailed, history
  <2>2. PICK r : Moves(t, r) /\ Onward(t, r)  BY <1>1, <2>1, DoneMoves
  <2>3. Honest(t, r)  BY <1>1, <1>2, <2>1, <2>2, OnwardHonest
  <2> QED  BY <1>4, <2>1, <2>2, <2>3
<1> QED  BY <1>5, <1>6, <1>7, <1>8, <1>9, <1>10, <1>11, <1>12, <1>13, <1>14, <1>15, <1>16 DEF Run

\* With nobody intervening only the engine's lifecycle is left, which grants
\* and announces nothing and makes no task dishonest.
LEMMA AroundHonest ==
    ASSUME TypeInv, PaidInv, Unattended, Step, \A t \in Tasks : ~Run(t), UNCHANGED scenario
    PROVE  /\ Grows
           /\ \A u \in Tasks : Honest(u, task[u])'
           /\ UNCHANGED announced
<1>1. TypeOK /\ def \in [Events -> Definition]  BY DEF TypeInv, TypeOK
<1>2. /\ \A t \in Tasks, k \in Keys : ~Manual(t, k)
      /\ \A e \in Events : ~ResetEvent(e)
      /\ \A e \in Events, d \in Definition : ~EditEvent(e, d)
  BY DEF Unattended, Manual, ResetEvent, EditEvent
<1>3. UNCHANGED <<def, delivered, announced>>
  BY <1>2 DEF Step, Qualify, Leave, Log, Elapse, ApplyEngine, StopEngine, Crash, history
<1>4. Grows  BY <1>3 DEF Grows
<1>5. ASSUME NEW u \in Tasks  PROVE Honest(u, task[u])'
  <2>1. PICK r : r = task'[u]  OBVIOUS
  <2>2. task[u] \in TaskState /\ Honest(u, task[u])  BY <1>1 DEF TypeOK, PaidInv
  <2>3. r \in TaskState /\ Honest(u, r)
    <3>1. CASE task'[u] = task[u]  BY <2>1, <2>2, <3>1
    <3>2. ASSUME NEW e \in Engines, ApplyEngine(e), task'[u] # task[u]
          PROVE  r \in TaskState /\ Honest(u, r)
      <4>1. /\ Role(u) = "reconcile" /\ r \in TaskState /\ r.pc = "list" /\ r.pending = {}
            /\ r.cur = {}
        BY <1>1, <2>1, <3>2, EngineMoves
      <4> QED  BY <4>1 DEF Honest
    <3>3. CASE Crash
      <4>1. r = Idle  BY <2>1, <3>3 DEF Crash
      <4> QED  BY <1>1, <4>1, IdleFields DEF Honest
    <3>4. CASE UNCHANGED task  BY <3>1, <3>4
    <3> QED
      BY <1>2, <3>1, <3>2, <3>3, <3>4 DEF Step, Qualify, Leave, Log, Elapse, StopEngine
  <2>4. Honest(u, r)'  BY <1>1, <1>4, <2>3, StaysHonest
  <2> QED  BY <2>1, <2>4 DEF Honest
<1> QED  BY <1>3, <1>4, <1>5

PaidSafe == Unattended => PaidInv

LEMMA PaidInit == Init => PaidSafe
<1> SUFFICES ASSUME Init PROVE PaidInv
  BY DEF PaidSafe
<1>1. TypeOK  BY TypeInit DEF TypeInv
<1>2. \A t \in Tasks : Honest(t, Idle)  BY <1>1, IdleFields DEF TypeOK, Honest
<1>3. \A t \in Tasks : Honest(t, task[t])  BY <1>2 DEF Init
<1>4. \A k \in Keys : Marked(k, claim[k].mark)
  <2>1. NoClaim.mark = <<"", "">>  BY DEF NoClaim
  <2> QED  BY <1>1, <2>1, NoMarker DEF Init
<1>5. \A k \in Keys : announced[k] = 0  BY DEF Init
<1>6. \A k \in Keys : ~(announced[k] > 0)  BY <1>5
<1> QED  BY <1>3, <1>4, <1>6 DEF PaidInv

LEMMA PaidStep ==
    OneServer => (TypeInv /\ PaidSafe /\ [Next]_vars => PaidSafe')
<1> SUFFICES ASSUME OneServer, TypeInv, PaidSafe, [Next]_vars, Unattended'  PROVE PaidInv'
  BY DEF PaidSafe
<1>1. UNCHANGED scenario  BY DEF Next, vars
<1>2. Unattended /\ PaidInv /\ TypeOK
  BY <1>1 DEF Unattended, Environment, PaidSafe, TypeInv
<1>3. /\ Grows /\ \A u \in Tasks : Honest(u, task[u])'
      /\ \A k \in Keys : announced[k] = 0 /\ announced'[k] > 0 => Complete(k)
  <2>1. CASE UNCHANGED vars
    <3>1. UNCHANGED <<def, delivered, task, announced>>  BY <2>1 DEF vars
    <3>2. Grows  BY <3>1 DEF Grows
    <3>3. ASSUME NEW u \in Tasks  PROVE Honest(u, task[u])'
      <4>1. PICK r \in TaskState : r = task[u]  BY <1>2 DEF TypeOK
      <4>2. Honest(u, r)'  BY <1>1, <1>2, <3>2, <4>1, StaysHonest DEF PaidInv
      <4> QED  BY <3>1, <4>1, <4>2 DEF Honest
    <3>4. ASSUME NEW k \in Keys, announced[k] = 0, announced'[k] > 0  PROVE FALSE
      <4>1. announced'[k] = 0  BY <3>1, <3>4
      <4> QED  BY <3>4, <4>1
    <3> QED  BY <3>2, <3>3, <3>4
  <2>2. ASSUME NEW t \in Tasks, Run(t)
        PROVE  /\ Grows /\ \A u \in Tasks : Honest(u, task[u])'
               /\ \A k \in Keys : announced[k] = 0 /\ announced'[k] > 0 => Complete(k)
    BY <1>1, <1>2, <2>2, RunHonest
  <2>3. CASE Next /\ \A t \in Tasks : ~Run(t)
    <3>1. Grows /\ (\A u \in Tasks : Honest(u, task[u])') /\ UNCHANGED announced
      BY <1>1, <1>2, <2>3, AroundHonest DEF Next
    <3>2. ASSUME NEW k \in Keys, announced[k] = 0, announced'[k] > 0  PROVE FALSE
      <4>1. announced'[k] = 0  BY <3>1, <3>2
      <4> QED  BY <3>2, <4>1
    <3> QED  BY <3>1, <3>2
  <2> QED  BY <2>1, <2>2, <2>3
<1>4. \A k \in Keys : Marked(k, claim[k].mark)'  BY <1>2, <1>3, ClaimsHonest
<1>5. \A k \in Keys : announced'[k] > 0 => Complete(k)'
  <2> TAKE k \in Keys
  <2>1. Complete(k) => Complete(k)'  BY <1>2, <1>3, StaysSound
  <2>2. announced[k] \in Nat
    <3>1. announced[k] \in 0..MaxCount  BY <1>2 DEF TypeOK
    <3> QED  BY <3>1
  <2>3. announced[k] > 0 => Complete(k)  BY <1>2 DEF PaidInv
  <2> QED  BY <1>3, <2>1, <2>2, <2>3
<1> QED  BY <1>3, <1>4, <1>5 DEF PaidInv

LEMMA PaidAlways == OneServer => (Spec => []PaidSafe)
<1> SUFFICES ASSUME OneServer PROVE Spec => []PaidSafe
  OBVIOUS
<1>1. TypeInv /\ PaidSafe /\ [Next]_vars => PaidSafe'  BY PaidStep
<1> QED  BY <1>1, TypeAlways, PaidInit, PTL DEF Spec

\* A winner who has been announced has the whole reward, however the poll
\* loop, the backfill and the retries share the claims and wherever a grant
\* fails (applyOneOutcome announces after grantEventReward).
THEOREM WinnersAreRewarded == OneServer => (Spec => []AnnouncedIsDelivered)
<1>1. PaidSafe => AnnouncedIsDelivered  BY DEF PaidSafe, PaidInv, AnnouncedIsDelivered
<1> QED  BY <1>1, PaidAlways, PTL

\* A claim that waited for a retry is closed only with all of its reward
\* delivered: the marker a failure leaves never makes a retry skip what
\* failed, whatever its labels repeat (sliceRewardSpec, attemptGrantForClaim).
THEOREM WaitingClaimsPaidInFull == OneServer => (Spec => PaidInFull)
<1> SUFFICES ASSUME OneServer PROVE Spec => PaidInFull
  OBVIOUS
<1>1. TypeInv /\ PaidSafe /\ [Next]_vars
        => [Unattended /\ AwardPast = Events => ClosesComplete]_vars
  <2> SUFFICES ASSUME TypeInv, PaidSafe, [Next]_vars, Unattended, AwardPast = Events,
                      NEW k \in Keys, claim[k].status \in {"pending", "exhausted"},
                      claim'[k].status = "granted"
               PROVE  Complete(k)
    BY DEF ClosesComplete
  <2>1. PICK t \in Tasks : k \in task[t].cur /\ task[t].pc = "grant"
    <3>1. RowMoves(k) /\ claim[k] \in ClaimRow  BY RowSteps DEF TypeInv, TypeOK
    <3>2. claim'[k] # claim[k]  OBVIOUS
    <3>3. claim'[k] # NoClaim
      <4>1. NoClaim.status = "none"  BY DEF NoClaim
      <4> QED  BY <4>1
    <3>4. claim'[k] # [claim[k] EXCEPT !.due = TRUE]
      <4>1. [claim[k] EXCEPT !.due = TRUE].status = claim[k].status  BY <3>1 DEF ClaimRow
      <4> QED  BY <4>1
    <3>5. \A mark : claim'[k] # Failed(claim[k], mark)
      <4>1. \A mark : Failed(claim[k], mark).status \in {"exhausted", "pending"}
        BY DEF Failed
      <4> QED  BY <4>1
    <3> QED  BY <3>1, <3>2, <3>3, <3>4, <3>5 DEF RowMoves
  <2>2. Pays(t, k)  BY DEF Keys, Pays
  <2> QED  BY <2>1, <2>2 DEF PaidSafe, PaidInv, Honest
<1> QED  BY <1>1, PaidAlways, TypeAlways, PTL DEF Spec, PaidInFull

-----------------------------------------------------------------------------
(* What is paid follows the deeds.                                         *)

\* While only the engine is at work the events are milestones: a deed once
\* done stays done.
Milestones ==
    \A c \in Scenarios :
        c.environment \subseteq {"login", "logout", "elapse", "absence", "stop"} => c.races = {}

\* Whatever is on the way to being paid was earned.
EarnedInv ==
    /\ \A t \in Tasks : \A k \in task[t].queue \union task[t].cur : <<Main, k>> \in qualified
    /\ \A k \in Keys : claim[k].status # "none" => <<Main, k>> \in qualified
    /\ \A d \in Deeds : (\E p \in Parts : delivered[<<d, p>>] > 0) => d \in qualified
EarnedSafe == Unattended => EarnedInv

LEMMA MoveEarned ==
    ASSUME \A u \in Tasks : \A k \in task[u].queue \union task[u].cur : <<Main, k>> \in qualified,
           UNCHANGED qualified, NEW t \in Tasks, NEW r, Moves(t, r),
           \A k \in r.queue \union r.cur : <<Main, k>> \in qualified
    PROVE  \A u \in Tasks : \A k \in task'[u].queue \union task'[u].cur : <<Main, k>> \in qualified'
<1> TAKE u \in Tasks
<1>1. CASE u = t  BY <1>1 DEF Moves
<1>2. CASE u # t
  <2>1. task'[u] = task[u]  BY <1>2 DEF Moves
  <2> QED  BY <2>1
<1> QED  BY <1>1, <1>2

LEMMA RunEarned ==
    ASSUME TypeInv, EarnedInv, OneServer, NEW t \in Tasks, Run(t)
    PROVE  \A u \in Tasks : \A k \in task'[u].queue \union task'[u].cur : <<Main, k>> \in qualified'
<1> DEFINE s == task[t]
           Earned(S) == \A k \in S : <<Main, k>> \in qualified
<1>1. TypeOK /\ Shape /\ s \in TaskState /\ Shaped(t, s) /\ def \in [Events -> Definition]
  BY DEF TypeInv, TypeOK, Shape
<1>2. UNCHANGED qualified
  BY DEF Run, ListEvents, Evaluate, ListRetryable, Check, Retry, Load, GrantPart, Announce,
         RecordGranted, RecordFailed, Resolve, GrantError, GrantsDone, game
<1>3. Earned(s.queue) /\ Earned(s.cur)  BY DEF EarnedInv
<1>4. Idle.queue = {} /\ Idle.cur = {}  BY <1>1, IdleFields
<1>5. \E r : Moves(t, r) /\ Earned(r.queue) /\ Earned(r.cur)
  <2>1. CASE ListEvents(t)
    <3>1. PICK r : Moves(t, r) /\ r.queue = {} /\ r.cur = {}  BY <1>1, <2>1, ListEventsMoves
    <3> QED  BY <3>1
  <2>2. ASSUME NEW e \in Events, Evaluate(t, e)
        PROVE  \E r : Moves(t, r) /\ Earned(r.queue) /\ Earned(r.cur)
    <3>1. PICK r, keys : /\ keys \in IF Cancelled(t) THEN {{}} ELSE Outcomes(t, e)
                         /\ Moves(t, r)
                         /\ r = Idle \/ (r.queue = keys /\ r.cur = s.cur)
      BY <1>1, <2>2, EvaluateMoves
    <3>2. \A k \in keys : <<Server(t), k>> \in qualified  BY <1>1, <3>1, OutcomesDone
    <3>3. Server(t) = Main  BY TaskParts DEF OneServer
    <3> QED  BY <1>3, <1>4, <3>1, <3>2, <3>3
  <2>3. CASE ListRetryable(t)
    <3>1. PICK r : Moves(t, r) /\ r.cur = {} /\ r.queue = {k \in Keys : Retryable(k)}
      BY <1>1, <2>3, ListRetryableMoves
    <3>2. \A k \in r.queue : k \in Keys /\ claim[k].status = "pending"
      BY <3>1 DEF Retryable
    <3> QED  BY <3>1, <3>2 DEF EarnedInv
  <2>4. ASSUME NEW k \in Keys, Check(t, k)
        PROVE  \E r : Moves(t, r) /\ Earned(r.queue) /\ Earned(r.cur)
    <3>1. k \in s.queue  BY <2>4 DEF Check
    <3>2. PICK r : /\ Moves(t, r)
                   /\ r = Idle \/ (r.queue = s.queue \ {k} /\ (r.cur = s.cur \/ r.cur = {k}))
      BY <1>1, <2>4, CheckMoves
    <3> QED  BY <1>3, <1>4, <3>1, <3>2
  <2>5. ASSUME NEW k \in Keys, Retry(t, k)
        PROVE  \E r : Moves(t, r) /\ Earned(r.queue) /\ Earned(r.cur)
    <3>1. k \in s.queue /\ Role(t) = "retry"  BY <2>5 DEF Retry
    <3>2. \E c \in s.pending : c[1] = k  BY <1>1, <3>1 DEF Shaped
    <3>3. PICK r : Moves(t, r) /\ r.queue = s.queue \ {k} /\ r.cur = {k}
      BY <1>1, <2>5, <3>2, RetryMoves
    <3> QED  BY <1>3, <3>1, <3>3
  <2>6. ASSUME NEW r, Moves(t, r), Onward(t, r) \/ Keeps(t, r)
        PROVE  \E q : Moves(t, q) /\ Earned(q.queue) /\ Earned(q.cur)
    <3>1. (r.queue = {} \/ r.queue = s.queue) /\ (r.cur = {} \/ r.cur = s.cur)
      BY <1>4, <2>6 DEF Onward, Keeps
    <3> QED  BY <1>3, <2>6, <3>1
  <2>7. ASSUME NEW k \in Keys, Load(t, k)
        PROVE  \E r : Moves(t, r) /\ Earned(r.queue) /\ Earned(r.cur)
    BY <1>1, <2>6, <2>7, LoadMoves
  <2>8. CASE Resolve(t)  BY <1>1, <2>6, <2>8, ResolveMoves
  <2>9. ASSUME s.rest # <<>>, Advance(t) \/ Fail(t)
        PROVE  \E r : Moves(t, r) /\ Earned(r.queue) /\ Earned(r.cur)
    BY <1>1, <2>6, <2>9, AdvanceMoves, FailMoves
  <2>10. ASSUME NEW k \in Keys, GrantPart(t, k)
         PROVE  \E r : Moves(t, r) /\ Earned(r.queue) /\ Earned(r.cur)
    BY <2>9, <2>10 DEF GrantPart
  <2>11. CASE GrantError(t)  BY <2>9, <2>11 DEF GrantError
  <2>12. ASSUME NEW pc \in {"announce", "grant"}, At(t, pc)
         PROVE  \E r : Moves(t, r) /\ Earned(r.queue) /\ Earned(r.cur)
    BY <1>1, <2>6, <2>12, AtMoves
  <2>13. CASE GrantsDone(t)  BY <2>12, <2>13 DEF GrantsDone
  <2>14. ASSUME NEW k \in Keys, Announce(t, k)
         PROVE  \E r : Moves(t, r) /\ Earned(r.queue) /\ Earned(r.cur)
    BY <2>12, <2>14 DEF Announce
  <2>15. ASSUME NEW k \in Keys, RecordGranted(t, k) \/ RecordFailed(t, k)
         PROVE  \E r : Moves(t, r) /\ Earned(r.queue) /\ Earned(r.cur)
    BY <1>1, <2>6, <2>15, DoneMoves DEF RecordGranted, RecordFailed
  <2> QED
    BY <2>1, <2>2, <2>3, <2>4, <2>5, <2>7, <2>8, <2>10, <2>11, <2>13, <2>14, <2>15 DEF Run
<1>6. PICK r : Moves(t, r) /\ Earned(r.queue) /\ Earned(r.cur)  BY <1>5
<1> QED  BY <1>2, <1>6, MoveEarned DEF EarnedInv

LEMMA AroundEarned ==
    ASSUME TypeInv, EarnedInv, Unattended, \A t \in Tasks : ~Run(t), Step, UNCHANGED scenario,
           Races = {}
    PROVE  /\ qualified \subseteq qualified' /\ UNCHANGED delivered
           /\ \A u \in Tasks : \/ task'[u] = task[u]
                               \/ task'[u].queue = {} /\ task'[u].cur = {}
<1>1. TypeOK /\ def \in [Events -> Definition]  BY DEF TypeInv, TypeOK
<1>2. /\ \A t \in Tasks, k \in Keys : ~Manual(t, k)
      /\ \A d \in Deeds : ~Leave(d)
  BY DEF Unattended, Manual, Leave
<1>3. qualified \subseteq qualified' /\ UNCHANGED delivered
  BY <1>2 DEF Step, Qualify, Log, Elapse, ApplyEngine, StopEngine, Crash, ResetEvent, EditEvent,
              history, game
<1>4. ASSUME NEW u \in Tasks
      PROVE  task'[u] = task[u] \/ (task'[u].queue = {} /\ task'[u].cur = {})
  <2>1. ASSUME NEW e \in Engines, ApplyEngine(e)
        PROVE  task'[u] = task[u] \/ (task'[u].queue = {} /\ task'[u].cur = {})
    BY <1>1, <2>1, EngineMoves
  <2>2. CASE Crash
    <3>1. task'[u] = Idle  BY <2>2 DEF Crash
    <3> QED  BY <1>1, <3>1, IdleFields
  <2>3. CASE UNCHANGED task  BY <2>3
  <2> QED
    BY <1>2, <2>1, <2>2, <2>3 DEF Step, Qualify, Log, Elapse, StopEngine, ResetEvent, EditEvent
<1> QED  BY <1>3, <1>4

LEMMA EarnedStep ==
    OneServer /\ Milestones => (TypeInv /\ EarnedSafe /\ [Next]_vars => EarnedSafe')
<1> SUFFICES ASSUME OneServer, Milestones, TypeInv, EarnedSafe, [Next]_vars, Unattended'
             PROVE  EarnedInv'
  BY DEF EarnedSafe
<1>1. UNCHANGED scenario  BY DEF Next, vars
<1>2. Unattended /\ EarnedInv /\ TypeOK
  BY <1>1 DEF Unattended, Environment, EarnedSafe, TypeInv
<1>3. Races = {}
  BY <1>2 DEF Milestones, Unattended, Environment, Races, TypeOK
<1>4. /\ qualified \subseteq qualified'
      /\ \A u \in Tasks : \A k \in task'[u].queue \union task'[u].cur : <<Main, k>> \in qualified'
      /\ \A d \in Deeds : (\E p \in Parts : delivered'[<<d, p>>] > 0) => d \in qualified'
  <2>1. CASE UNCHANGED vars  BY <1>2, <2>1 DEF vars, EarnedInv
  <2>2. ASSUME NEW t \in Tasks, Run(t)
        PROVE  /\ qualified \subseteq qualified'
               /\ \A u \in Tasks : \A k \in task'[u].queue \union task'[u].cur : <<Main, k>> \in qualified'
               /\ \A d \in Deeds : (\E p \in Parts : delivered'[<<d, p>>] > 0) => d \in qualified'
    <3>1. UNCHANGED qualified
      BY <2>2 DEF Run, ListEvents, Evaluate, ListRetryable, Check, Retry, Load, GrantPart,
              Announce, RecordGranted, RecordFailed, Resolve, GrantError, GrantsDone, game
    <3>2. \A u \in Tasks : \A k \in task'[u].queue \union task'[u].cur : <<Main, k>> \in qualified'
      BY <1>2, <2>2, RunEarned
    <3>3. ASSUME NEW k \in Keys, GrantPart(t, k), NEW d \in Deeds, NEW p \in Parts,
                 delivered'[<<d, p>>] > 0
          PROVE  d \in qualified
      <4> DEFINE c == <<<<Server(t), k>>, Head(task[t].rest)>>
      <4>1. task[t].rest \in Seq(Parts) /\ task[t].rest # <<>> /\ k \in task[t].cur
        BY <1>2, <3>3 DEF TypeOK, TaskState, GrantPart
      <4>2. c \in Deeds \X Parts  BY <4>1, HeadTailProperties, TaskParts DEF Deeds
      <4>3. delivered' = [delivered EXCEPT ![c] = Counted(delivered[c])]
        BY <3>3 DEF GrantPart, Deliver
      <4>4. c[1] = <<Main, k>>  BY TaskParts DEF OneServer
      <4>5. c[1] \in qualified  BY <1>2, <4>1, <4>4 DEF EarnedInv
      <4> HIDE DEF c
      <4>6. CASE <<d, p>> = c  BY <4>5, <4>6
      <4>7. CASE <<d, p>> # c
        <5>1. delivered \in [Deeds \X Parts -> 0..MaxCount] /\ <<d, p>> \in Deeds \X Parts
          BY <1>2 DEF TypeOK
        <5>2. delivered'[<<d, p>>] = delivered[<<d, p>>]  BY <4>2, <4>3, <4>7, <5>1
        <5> QED  BY <1>2, <3>3, <5>2 DEF EarnedInv
      <4> QED  BY <4>6, <4>7
    <3>4. CASE UNCHANGED delivered  BY <1>2, <3>1, <3>2, <3>4 DEF EarnedInv
    <3>5. \/ \E k \in Keys : GrantPart(t, k)
          \/ UNCHANGED delivered
      BY <2>2 DEF Run, ListEvents, Evaluate, ListRetryable, Check, Retry, Load, history,
              Announce, RecordGranted, RecordFailed, Resolve, GrantError, GrantsDone
    <3>6. \A d \in Deeds : (\E p \in Parts : delivered'[<<d, p>>] > 0) => d \in qualified'
      BY <1>2, <3>1, <3>3, <3>4, <3>5 DEF EarnedInv
    <3> QED  BY <3>1, <3>2, <3>6
  <2>3. CASE Next /\ \A t \in Tasks : ~Run(t)
    <3>1. /\ qualified \subseteq qualified' /\ UNCHANGED delivered
          /\ \A u \in Tasks : \/ task'[u] = task[u]
                              \/ task'[u].queue = {} /\ task'[u].cur = {}
      BY <1>1, <1>2, <1>3, <2>3, AroundEarned DEF Next
    <3>2. \A u \in Tasks : \A k \in task'[u].queue \union task'[u].cur : <<Main, k>> \in qualified'
      <4> TAKE u \in Tasks
      <4>1. CASE task'[u] = task[u]  BY <1>2, <3>1, <4>1 DEF EarnedInv
      <4>2. CASE task'[u].queue = {} /\ task'[u].cur = {}  BY <4>2
      <4> QED  BY <3>1, <4>1, <4>2
    <3>3. \A d \in Deeds : (\E p \in Parts : delivered'[<<d, p>>] > 0) => d \in qualified'
      BY <1>2, <3>1 DEF EarnedInv
    <3> QED  BY <3>1, <3>2, <3>3
  <2> QED  BY <2>1, <2>2, <2>3
<1>5. ASSUME NEW k \in Keys, claim'[k].status # "none"  PROVE <<Main, k>> \in qualified'
  <2>1. RowMoves(k) /\ claim[k] \in ClaimRow  BY RowSteps DEF TypeInv, TypeOK
  <2>2. CASE claim[k].status # "none"  BY <1>2, <1>4, <2>2 DEF EarnedInv
  <2>3. CASE \E t \in Tasks : k \in task[t].cur  BY <1>2, <1>4, <2>3 DEF EarnedInv
  <2>4. CASE claim'[k] = NoClaim
    <3>1. NoClaim.status = "none"  BY DEF NoClaim
    <3> QED  BY <1>5, <2>4, <3>1
  <2> QED  BY <1>5, <2>1, <2>2, <2>3, <2>4 DEF RowMoves
<1> QED  BY <1>4, <1>5 DEF EarnedInv

LEMMA EarnedInit == Init => EarnedSafe
<1> SUFFICES ASSUME Init PROVE EarnedInv
  BY DEF EarnedSafe
<1>1. def \in [Events -> Definition]  BY TypeInit DEF TypeInv, TypeOK
<1>2. \A t \in Tasks : task[t].queue = {} /\ task[t].cur = {}
  BY <1>1, IdleFields DEF Init
<1>3. \A k \in Keys : claim[k].status = "none"
  <2>1. NoClaim.status = "none"  BY DEF NoClaim
  <2> QED  BY <2>1 DEF Init
<1>4. \A d \in Deeds, p \in Parts : delivered[<<d, p>>] = 0  BY DEF Init
<1>5. ASSUME NEW d \in Deeds, NEW p \in Parts, delivered[<<d, p>>] > 0  PROVE FALSE
  <2>1. delivered[<<d, p>>] = 0  BY <1>4
  <2> QED  BY <1>5, <2>1
<1> QED  BY <1>2, <1>3, <1>5 DEF EarnedInv

\* Nothing reaches a player who has not done the deed (evaluateMilestone,
\* listRetryableClaims): a claim exists only for a deed, and stays tied to it.
THEOREM OnlyDeedsPay == OneServer /\ Milestones => (Spec => []OnlyTheDeedPays)
<1> SUFFICES ASSUME OneServer, Milestones PROVE Spec => []OnlyTheDeedPays
  OBVIOUS
<1>1. TypeInv /\ EarnedSafe /\ [Next]_vars => EarnedSafe'  BY EarnedStep
<1>2. EarnedSafe => OnlyTheDeedPays  BY DEF EarnedSafe, EarnedInv, OnlyTheDeedPays
<1> QED  BY <1>1, <1>2, TypeAlways, EarnedInit, PTL DEF Spec

-----------------------------------------------------------------------------
(* The poll loop and the retry loop take turns at a claim.                 *)

OneEngine == \A e, f \in Engines : e = f

\* While the loops stay apart the backfill seals past deeds without paying.
SealsOnly ==
    \A c \in Scenarios :
        c.environment \subseteq {"logout", "absence"} /\ c.faults \subseteq {"fail"}
            => c.awardPast = {}

\* Claims of players who are logged out are the retry loop's, the others the
\* poll loop's and the backfill's, which never fails.
Calm(t, s) ==
    /\ Role(t) = "manual" => s.pc = "idle"
    /\ Role(t) = "reconcile" => s.rest = <<>> /\ s.pc # "fail"
    /\ Role(t) = "retry" /\ s.pc # "idle" => engine[t[1]]
    /\ Role(t) \in {"poll", "reconcile"} => \A k \in s.queue \union s.cur : ~claim[k].due
    /\ Role(t) = "retry" => /\ \A k \in s.queue \union s.cur : claim[k].due
                            /\ \A k \in s.cur : k \notin s.queue

DueAway(k) ==
    claim[k].due => claim[k].status = "pending" /\ \A s \in Servers : <<s, k[2]>> \notin online

\* An announced claim is closed, or about to be.
Told(k) ==
    /\ announced[k] = 1 => \/ claim[k].status = "granted"
                           \/ \E t \in Tasks : /\ Role(t) = "poll" /\ task[t].pc = "grant"
                                               /\ k \in task[t].cur
    /\ \A t \in Tasks : /\ Role(t) = "poll" /\ task[t].pc \in {"deliver", "announce", "fail"}
                        /\ k \in task[t].cur
                        => announced[k] = 0
    /\ announced[k] \in {0, 1}

TurnsInv ==
    /\ \A t \in Tasks : Calm(t, task[t])
    /\ \A k \in Keys : DueAway(k) /\ Told(k)

LEMMA OneOfEach ==
    ASSUME OneServer, OneEngine, NEW t \in Tasks, NEW u \in Tasks,
           Role(t) = Role(u), Role(t) # "manual"
    PROVE  t = u
<1>1. t \in Engines \X Servers \X Roles /\ u \in Engines \X Servers \X Roles
  BY DEF Tasks, Role
<1>2. t = <<t[1], t[2], t[3]>> /\ u = <<u[1], u[2], u[3]>> /\ t[1] \in Engines
      /\ u[1] \in Engines /\ t[2] \in Servers /\ u[2] \in Servers
  BY <1>1
<1> QED  BY <1>2 DEF OneServer, OneEngine, Role

\* A step of t concerns no claim another goroutine has taken up.
LEMMA OthersCalm ==
    ASSUME TypeInv, TurnsInv, OneServer, OneEngine, NEW t \in Tasks, NEW r, Moves(t, r),
           UNCHANGED engine, Calm(t, r)',
           \A k \in Keys : \/ claim'[k].due <=> claim[k].due
                           \/ k \in task[t].cur /\ ~claim'[k].due
    PROVE  \A u \in Tasks : Calm(u, task[u])'
<1> TAKE u \in Tasks
<1> DEFINE s == task[u]
<1>1. s \in TaskState /\ Calm(u, s) /\ Shaped(u, s)
      /\ Calm(t, task[t]) /\ Shaped(t, task[t]) /\ task[t] \in TaskState
  BY DEF TypeInv, TypeOK, Shape, TurnsInv
<1>2. CASE u = t  BY <1>2 DEF Moves, Calm
<1>3. CASE u # t
  <2>1. task'[u] = s  BY <1>3 DEF Moves
  <2>2. s.queue \subseteq Keys /\ s.cur \subseteq Keys  BY <1>1 DEF TaskState
  <2>3. ASSUME Role(u) \in {"poll", "reconcile"}, NEW k \in s.queue \union s.cur
        PROVE  ~claim'[k].due
    BY <1>1, <2>2, <2>3 DEF Calm
  <2>4. ASSUME Role(u) = "retry", NEW k \in s.queue \union s.cur
        PROVE  claim'[k].due
    <3>1. k \in Keys /\ claim[k].due  BY <1>1, <2>2, <2>4 DEF Calm
    <3>2. k \notin task[t].cur
      <4> SUFFICES ASSUME k \in task[t].cur PROVE FALSE
        OBVIOUS
      <4>1. Role(t) \notin {"poll", "reconcile"}  BY <1>1, <3>1 DEF Calm
      <4>2. Role(t) # "manual"  BY <1>1 DEF Calm, Shaped
      <4>3. Role(t) = "retry"  BY <4>1, <4>2, TaskParts
      <4> QED  BY <1>3, <2>4, <4>3, OneOfEach
    <3> QED  BY <3>1, <3>2
  <2> QED  BY <1>1, <2>1, <2>3, <2>4 DEF Calm, Role
<1> QED  BY <1>2, <1>3

\* Every step of a goroutine keeps to its claims.
LEMMA RunCalm ==
    ASSUME TypeInv, TurnsInv, OneServer, OneEngine, AwardPast = {}, Faults \subseteq {"fail"},
           NEW t \in Tasks, Run(t)
    PROVE  \A u \in Tasks : Calm(u, task[u])'
<1> DEFINE s == task[t]
           Goal == \A u \in Tasks : Calm(u, task[u])'
<1>1. TypeOK /\ Shape /\ s \in TaskState /\ Shaped(t, s) /\ Calm(t, s)
      /\ def \in [Events -> Definition] /\ claim \in [Keys -> ClaimRow]
  BY DEF TypeInv, TypeOK, Shape, TurnsInv
<1>2. UNCHANGED engine
  BY DEF Run, ListEvents, Evaluate, ListRetryable, Check, Retry, Load, GrantPart, Announce,
         RecordGranted, RecordFailed, Resolve, GrantError, GrantsDone
<1>3. ASSUME NEW r, Moves(t, r), Calm(t, r), UNCHANGED claim  PROVE Goal
  <2>1. Calm(t, r)'  BY <1>2, <1>3 DEF Calm, Role
  <2> QED  BY <1>2, <1>3, <2>1, OthersCalm
<1>4. /\ Idle.pc = "idle" /\ Idle.queue = {} /\ Idle.cur = {} /\ Idle.rest = <<>>
  BY <1>1, IdleFields
<1>5. Calm(t, Idle)  BY <1>4 DEF Calm
<1>6. CASE ListEvents(t)
  <2>1. Role(t) \in {"poll", "reconcile"} /\ UNCHANGED claim  BY <1>6 DEF ListEvents
  <2>2. PICK r : /\ Moves(t, r) /\ r.queue = {} /\ r.cur = {} /\ r.rest = <<>>
                 /\ r.pc \in {"idle", "next"}
    BY <1>1, <1>4, <1>6, ListEventsMoves
  <2>3. Calm(t, r)  BY <2>1, <2>2 DEF Calm
  <2> QED  BY <1>3, <2>1, <2>2, <2>3
<1>7. ASSUME NEW e \in Events, Evaluate(t, e)  PROVE Goal
  <2>1. Role(t) \in {"poll", "reconcile"} /\ UNCHANGED claim
    BY <1>1, <1>7, TaskParts DEF Evaluate, Shaped
  <2>2. PICK r, keys : /\ keys \in IF Cancelled(t) THEN {{}} ELSE Outcomes(t, e)
                       /\ Moves(t, r)
                       /\ \/ r = Idle
                          \/ /\ r.queue = keys /\ r.cur = s.cur /\ r.rest = s.rest
                             /\ r.pc = "next"
    BY <1>1, <1>7, EvaluateMoves
  <2>3. \A k \in keys : k \in Keys /\ <<Server(t), k[2]>> \in online
    BY <1>1, <2>2, OutcomesDone
  <2>4. \A k \in keys : ~claim[k].due
    BY <2>3, TaskParts DEF TurnsInv, DueAway
  <2>5. CASE r = Idle  BY <1>3, <1>5, <2>1, <2>2, <2>5
  <2>6. CASE r # Idle
    <3>1. Calm(t, r)  BY <1>1, <2>1, <2>2, <2>4, <2>6 DEF Calm
    <3> QED  BY <1>3, <2>1, <2>2, <3>1
  <2> QED  BY <2>5, <2>6
<1>8. CASE ListRetryable(t)
  <2>1. Role(t) = "retry" /\ UNCHANGED claim /\ engine[t[1]]  BY <1>8 DEF ListRetryable
  <2>2. PICK r : Moves(t, r) /\ r.cur = {} /\ r.queue = {k \in Keys : Retryable(k)}
    BY <1>1, <1>8, ListRetryableMoves
  <2>3. \A k \in r.queue : claim[k].due  BY <2>2 DEF Retryable
  <2>4. Calm(t, r)  BY <2>1, <2>2, <2>3 DEF Calm
  <2> QED  BY <1>3, <2>1, <2>2, <2>4
<1>9. ASSUME NEW k \in Keys, Check(t, k)  PROVE Goal
  <2>1. Role(t) \in {"poll", "reconcile"} /\ UNCHANGED claim /\ k \in s.queue
    BY <1>9 DEF Check
  <2>2. PICK r : /\ Moves(t, r)
                 /\ \/ r = Idle
                    \/ /\ r.queue = s.queue \ {k} /\ r.pc \in {"next", "deliver"}
                       /\ \/ r.cur = s.cur /\ r.rest = s.rest
                          \/ /\ r.cur = {k}
                             /\ Pays(t, k) \/ r.rest = <<>>
    BY <1>1, <1>9, CheckMoves
  <2>3. Role(t) = "reconcile" => ~Pays(t, k)  BY DEF Pays
  <2>4. CASE r = Idle  BY <1>3, <1>5, <2>1, <2>2, <2>4
  <2>5. CASE r # Idle
    <3>1. Calm(t, r)  BY <1>1, <2>1, <2>2, <2>3, <2>5 DEF Calm
    <3> QED  BY <1>3, <2>1, <2>2, <3>1
  <2> QED  BY <2>4, <2>5
<1>10. ASSUME NEW k \in Keys, Retry(t, k)  PROVE Goal
  <2>1. Role(t) = "retry" /\ UNCHANGED claim /\ k \in s.queue /\ s.pc = "next"
    BY <1>10 DEF Retry
  <2>2. \E c \in s.pending : c[1] = k  BY <1>1, <2>1 DEF Shaped
  <2>3. PICK r : Moves(t, r) /\ r.queue = s.queue \ {k} /\ r.cur = {k} /\ r.pc = "load"
    BY <1>1, <1>10, <2>2, RetryMoves
  <2>4. Calm(t, r)  BY <1>1, <2>1, <2>3 DEF Calm
  <2> QED  BY <1>3, <2>1, <2>3, <2>4
\* Within an outcome only the program counter matters.
<1>11. ASSUME NEW r, Moves(t, r), Keeps(t, r), UNCHANGED claim, s.pc # "idle",
              Role(t) = "reconcile" => r.rest = <<>> /\ r.pc # "fail"
       PROVE  Goal
  <2>1. Calm(t, r)  BY <1>1, <1>11 DEF Calm, Keeps
  <2> QED  BY <1>3, <1>11, <2>1
<1>12. ASSUME NEW k \in Keys, Load(t, k)  PROVE Goal
  <2>1. s.pc = "load" /\ UNCHANGED claim  BY <1>12 DEF Load
  <2>2. Role(t) = "retry"  BY <1>1, <2>1 DEF Shaped, Calm
  <2>3. PICK r : Moves(t, r) /\ (Onward(t, r) \/ Keeps(t, r))  BY <1>1, <1>12, LoadMoves
  <2>4. CASE Keeps(t, r)  BY <1>11, <2>1, <2>2, <2>3, <2>4
  <2>5. CASE Onward(t, r)
    <3>1. CASE r = Idle  BY <1>3, <1>5, <2>1, <2>3, <3>1
    <3>2. CASE r # Idle
      <4>1. r.queue = s.queue /\ r.cur = {}  BY <2>5, <3>2 DEF Onward
      <4>2. Calm(t, r)  BY <1>1, <2>1, <2>2, <4>1 DEF Calm
      <4> QED  BY <1>3, <2>1, <2>3, <4>2
    <3> QED  BY <3>1, <3>2
  <2> QED  BY <2>3, <2>4, <2>5
<1>13. CASE Resolve(t)
  <2>1. s.pc = "resolve" /\ UNCHANGED claim  BY <1>13 DEF Resolve
  <2>2. Role(t) = "retry"  BY <1>1, <2>1 DEF Shaped, Calm
  <2>3. PICK r : Moves(t, r) /\ Keeps(t, r)  BY <1>1, <1>13, ResolveMoves
  <2> QED  BY <1>11, <2>1, <2>2, <2>3
<1>14. ASSUME s.pc = "deliver", s.rest # <<>>, Advance(t) \/ Fail(t), UNCHANGED claim
       PROVE  Goal
  <2>1. Role(t) # "reconcile"  BY <1>1, <1>14 DEF Calm
  <2>2. PICK r : Moves(t, r) /\ Keeps(t, r)  BY <1>1, <1>14, AdvanceMoves, FailMoves
  <2> QED  BY <1>11, <1>14, <2>1, <2>2
<1>15. ASSUME NEW k \in Keys, GrantPart(t, k)  PROVE Goal
  BY <1>14, <1>15 DEF GrantPart
<1>16. CASE GrantError(t)  BY <1>14, <1>16 DEF GrantError
<1>17. ASSUME NEW pc \in {"announce", "grant"}, At(t, pc), UNCHANGED claim, s.pc # "idle"
       PROVE  Goal
  <2>1. PICK r : Moves(t, r) /\ Keeps(t, r) /\ r.pc = pc /\ r.rest = s.rest
    BY <1>1, <1>17, AtMoves
  <2> QED  BY <1>1, <1>11, <1>17, <2>1 DEF Calm
<1>18. CASE GrantsDone(t)  BY <1>17, <1>18 DEF GrantsDone
<1>19. ASSUME NEW k \in Keys, Announce(t, k)  PROVE Goal
  BY <1>17, <1>19 DEF Announce
<1>20. ASSUME NEW k \in Keys, RecordGranted(t, k) \/ RecordFailed(t, k)  PROVE Goal
  <2>1. /\ k \in s.cur /\ s.pc \in {"grant", "fail"} /\ Done(t)
        /\ \/ claim' = [claim EXCEPT ![k] = Granted(claim[k])]
           \/ claim' = [claim EXCEPT ![k] = Failed(claim[k], s.mark)]
    BY <1>20 DEF RecordGranted, RecordFailed
  <2>2. ~Granted(claim[k]).due /\ ~Failed(claim[k], s.mark).due  BY DEF Granted, Failed
  <2>3. ~claim'[k].due /\ \A l \in Keys : l # k => claim'[l] = claim[l]
    BY <1>1, <2>1, <2>2
  <2>4. PICK r : Moves(t, r) /\ Onward(t, r)  BY <1>1, <2>1, DoneMoves
  <2>5. Calm(t, r)'
    <3>1. CASE r = Idle  BY <1>4, <3>1 DEF Calm
    <3>2. CASE r # Idle
      <4>1. r.queue = s.queue /\ r.cur = {} /\ r.rest = <<>> /\ r.pc = "next"
            /\ s.queue \subseteq Keys
        BY <1>1, <2>4, <3>2 DEF Onward, TaskState
      <4>2. Role(t) # "manual" /\ (Role(t) = "retry" => engine'[t[1]] /\ k \notin s.queue)
        BY <1>1, <1>2, <2>1 DEF Calm
      <4>3. \A l \in s.queue : l \in Keys /\ (l # k => claim'[l] = claim[l])
        BY <2>3, <4>1
      <4>4. Role(t) \in {"poll", "reconcile"} => \A l \in s.queue : ~claim'[l].due
        BY <1>1, <2>3, <4>3 DEF Calm
      <4>5. Role(t) = "retry" => \A l \in s.queue : claim'[l].due
        BY <1>1, <4>2, <4>3 DEF Calm
      <4> QED  BY <4>1, <4>2, <4>4, <4>5 DEF Calm, Role
    <3> QED  BY <3>1, <3>2
  <2>6. \A l \in Keys : \/ claim'[l].due <=> claim[l].due
                        \/ l \in task[t].cur /\ ~claim'[l].due
    BY <2>1, <2>3
  <2> QED  BY <1>2, <2>4, <2>5, <2>6, OthersCalm
<1> QED  BY <1>6, <1>7, <1>8, <1>9, <1>10, <1>12, <1>13, <1>15, <1>16, <1>18, <1>19, <1>20 DEF Run

\* What happens around the goroutines while the loops stay apart.
LEMMA AroundCalm ==
    ASSUME TypeInv, TurnsInv, Apart, OneEngine, Step, \A t \in Tasks : ~Run(t),
           UNCHANGED scenario
    PROVE  /\ \A u \in Tasks : Calm(u, task[u])'
           /\ \A u \in Tasks : \/ task'[u] = task[u]
                               \/ /\ Role(u) = "reconcile" /\ task[u] = Idle
                                  /\ task'[u].pc = "list" /\ task'[u].queue = {}
                                  /\ task'[u].cur = {}
           /\ online' \subseteq online
           /\ UNCHANGED <<announced, delivered, def>>
           /\ \A k \in Keys : \/ claim'[k] = claim[k]
                              \/ Elapse(k)
<1>1. TypeOK /\ def \in [Events -> Definition] /\ claim \in [Keys -> ClaimRow]
      /\ \A u \in Tasks : Calm(u, task[u]) /\ task[u] \in TaskState
  BY DEF TypeInv, TypeOK, TurnsInv
<1>2. /\ \A t \in Tasks, k \in Keys : ~Manual(t, k)
      /\ ~Crash
      /\ \A e \in Events : ~ResetEvent(e)
      /\ \A e \in Events, d \in Definition : ~EditEvent(e, d)
  BY DEF Apart, Manual, Crash, ResetEvent, EditEvent
<1>3. /\ online' \subseteq online /\ UNCHANGED <<announced, delivered, def>>
  <2>1. ASSUME NEW p \in Servers \X Accounts, Log(p)
        PROVE  online' \subseteq online /\ UNCHANGED <<announced, delivered, def>>
    BY <2>1 DEF Log, Apart, history
  <2> QED
    BY <1>2, <2>1 DEF Step, Qualify, Leave, Elapse, ApplyEngine, StopEngine, history, game
<1>4. ASSUME NEW k \in Keys  PROVE claim'[k] = claim[k] \/ Elapse(k)
  <2>1. ASSUME NEW l \in Keys, Elapse(l), l # k  PROVE claim'[k] = claim[k]
    BY <1>1, <2>1 DEF Elapse
  <2> QED
    BY <1>2, <2>1 DEF Step, Qualify, Leave, Log, ApplyEngine, StopEngine
<1>5. ASSUME UNCHANGED <<task, engine>>,
             \A u \in Tasks : \A k \in task[u].queue \union task[u].cur : claim'[k] = claim[k]
      PROVE  \A u \in Tasks : Calm(u, task[u])'
  BY <1>1, <1>5 DEF Calm, Role
<1>6. \A u \in Tasks : task[u].queue \subseteq Keys /\ task[u].cur \subseteq Keys
  BY <1>1 DEF TaskState
<1>7. \A u \in Tasks : Calm(u, task[u])'
  <2>1. CASE UNCHANGED <<task, engine, claim>>  BY <1>5, <2>1
  <2>2. ASSUME NEW k \in Keys, Elapse(k)  PROVE \A u \in Tasks : Calm(u, task[u])'
    <3>1. UNCHANGED <<task, engine>> /\ \A u \in Tasks : k \notin task[u].cur \union task[u].queue
      BY <2>2 DEF Elapse
    <3>2. \A l \in Keys : l # k => claim'[l] = claim[l]  BY <1>1, <2>2 DEF Elapse
    <3>3. \A u \in Tasks : \A l \in task[u].queue \union task[u].cur : claim'[l] = claim[l]
      BY <1>6, <3>1, <3>2
    <3> QED  BY <1>5, <3>1, <3>3
  <2>3. CASE StopEngine
    <3>1. UNCHANGED <<task, claim>> /\ \A t \in Tasks : Role(t) = "retry" => task[t].pc = "idle"
      BY <2>3 DEF StopEngine, Apart
    <3> QED  BY <1>1, <3>1 DEF Calm, Role
  <2>4. ASSUME NEW e \in Engines, ApplyEngine(e)  PROVE \A u \in Tasks : Calm(u, task[u])'
    <3> TAKE u \in Tasks
    <3>1. UNCHANGED claim /\ engine' = [f \in Engines |-> f = e]  BY <2>4 DEF ApplyEngine
    <3>2. Role(u) = "retry" => engine'[u[1]]
      <4>1. Role(u) = "retry" => u[1] \in Engines  BY TaskParts
      <4> QED  BY <3>1, <4>1 DEF OneEngine
    <3>3. CASE task'[u] = task[u]  BY <1>1, <3>1, <3>2, <3>3 DEF Calm, Role
    <3>4. CASE task'[u] # task[u]
      <4>1. /\ Role(u) = "reconcile" /\ task'[u].pc = "list" /\ task'[u].queue = {}
            /\ task'[u].cur = {} /\ task'[u].rest = <<>>
        BY <1>1, <2>4, <3>4, EngineMoves
      <4> QED  BY <4>1 DEF Calm, Role
    <3> QED  BY <3>3, <3>4
  <2> QED
    BY <1>2, <2>1, <2>2, <2>3, <2>4 DEF Step, Qualify, Leave, Log
<1>8. ASSUME NEW u \in Tasks
      PROVE  \/ task'[u] = task[u]
             \/ /\ Role(u) = "reconcile" /\ task[u] = Idle /\ task'[u].pc = "list"
                /\ task'[u].queue = {} /\ task'[u].cur = {}
  <2>1. ASSUME NEW e \in Engines, ApplyEngine(e)
        PROVE  \/ task'[u] = task[u]
               \/ /\ Role(u) = "reconcile" /\ task[u] = Idle /\ task'[u].pc = "list"
                  /\ task'[u].queue = {} /\ task'[u].cur = {}
    BY <1>1, <2>1, EngineMoves
  <2> QED  BY <1>2, <2>1 DEF Step, Qualify, Leave, Log, Elapse, StopEngine
<1> QED  BY <1>3, <1>4, <1>7, <1>8

\* A claim is due only while its player is away.
LEMMA DueStep ==
    ASSUME TypeInv, TurnsInv, Apart, [Next]_vars, online' \subseteq online, NEW k \in Keys
    PROVE  DueAway(k)'
<1>1. claim \in [Keys -> ClaimRow] /\ claim[k] \in ClaimRow /\ DueAway(k)
  BY DEF TypeInv, TypeOK, TurnsInv
<1>2. CASE claim'[k] = claim[k]  BY <1>1, <1>2 DEF DueAway
<1>3. CASE Elapse(k)
  <2>1. claim'[k] = [claim[k] EXCEPT !.due = TRUE] /\ claim[k].status = "pending"
        /\ \A s \in Servers : <<s, k[2]>> \notin online
    BY <1>1, <1>3 DEF Elapse, Apart
  <2>2. claim'[k].status = "pending"  BY <1>1, <2>1 DEF ClaimRow
  <2> QED  BY <2>1, <2>2 DEF DueAway
<1>4. ASSUME NEW t \in Tasks, NEW l \in Keys, RecordGranted(t, l) \/ RecordFailed(t, l)
      PROVE  DueAway(k)'
  <2>1. \/ claim' = claim
        \/ claim' = [claim EXCEPT ![l] = Granted(claim[l])]
        \/ claim' = [claim EXCEPT ![l] = Failed(claim[l], task[t].mark)]
    BY <1>4 DEF RecordGranted, RecordFailed
  <2>2. ~Granted(claim[l]).due /\ ~Failed(claim[l], task[t].mark).due  BY DEF Granted, Failed
  <2>3. claim'[k] = claim[k] \/ ~claim'[k].due  BY <1>1, <2>1, <2>2
  <2> QED  BY <1>2, <2>3 DEF DueAway
<1>5. ASSUME NEW l \in Keys, Elapse(l), l # k  PROVE DueAway(k)'
  <2>1. claim'[k] = claim[k]  BY <1>1, <1>5 DEF Elapse
  <2> QED  BY <1>2, <2>1
<1>6. \A e \in Events : ~ResetEvent(e)  BY DEF Apart, ResetEvent
<1>7. CASE UNCHANGED claim  BY <1>2, <1>7
<1>8. CASE UNCHANGED vars  BY <1>7, <1>8 DEF vars
<1>9. ASSUME NEW t \in Tasks, Run(t)  PROVE DueAway(k)'
  BY <1>4, <1>7, <1>9
     DEF Run, ListEvents, Evaluate, ListRetryable, Check, Retry, Load,
         GrantPart, Announce, Resolve, GrantError, GrantsDone
<1>10. ASSUME Next, \A t \in Tasks : ~Run(t)  PROVE DueAway(k)'
  BY <1>3, <1>5, <1>6, <1>7, <1>10
     DEF Next, Step, Qualify, Leave, Log, ApplyEngine, StopEngine, Crash, Manual, EditEvent
<1> QED  BY <1>8, <1>9, <1>10

LEMMA PollTold ==
    ASSUME OneServer, OneEngine, NEW t \in Tasks, NEW r, Moves(t, r), Role(t) = "poll",
           NEW l \in Keys, announced'[l] \in {0, 1},
           announced'[l] = 1 => claim'[l].status = "granted" \/ (r.pc = "grant" /\ l \in r.cur),
           r.pc \in {"deliver", "announce", "fail"} /\ l \in r.cur => announced'[l] = 0
    PROVE  Told(l)'
<1>1. \A u \in Tasks : Role(u) = "poll" => task'[u] = r
  BY OneOfEach DEF Moves
<1>2. \A u \in Tasks : Role(u)' = Role(u)  BY DEF Role
<1>3. announced'[l] = 1
        => \/ claim'[l].status = "granted"
           \/ \E u \in Tasks : Role(u) = "poll" /\ task'[u].pc = "grant" /\ l \in task'[u].cur
  BY <1>1
<1>4. \A u \in Tasks : /\ Role(u) = "poll" /\ task'[u].pc \in {"deliver", "announce", "fail"}
                       /\ l \in task'[u].cur
                       => announced'[l] = 0
  BY <1>1
<1> QED  BY <1>2, <1>3, <1>4 DEF Told

LEMMA OtherTold ==
    ASSUME TurnsInv, NEW t \in Tasks, NEW r, Moves(t, r), Role(t) # "poll",
           NEW l \in Keys, announced'[l] = announced[l],
           announced[l] = 1 /\ claim[l].status = "granted" => claim'[l].status = "granted"
    PROVE  Told(l)'
<1>1. \A u \in Tasks : Role(u) = "poll" => task'[u] = task[u]  BY DEF Moves
<1>2. Told(l)  BY DEF TurnsInv
<1>3. announced'[l] = 1
        => \/ claim'[l].status = "granted"
           \/ \E u \in Tasks : Role(u) = "poll" /\ task'[u].pc = "grant" /\ l \in task'[u].cur
  BY <1>1, <1>2 DEF Told
<1>4. \A u \in Tasks : /\ Role(u) = "poll" /\ task'[u].pc \in {"deliver", "announce", "fail"}
                       /\ l \in task'[u].cur
                       => announced'[l] = 0
  BY <1>1, <1>2 DEF Told
<1>5. announced'[l] \in {0, 1}  BY <1>2 DEF Told
<1> QED  BY <1>3, <1>4, <1>5 DEF Told, Role

\* A step of the poll loop.
LEMMA PollSteps ==
    ASSUME TypeInv, TurnsInv, OneServer, OneEngine, Faults \subseteq {"fail"},
           NEW t \in Tasks, Run(t), Role(t) = "poll", NEW l \in Keys
    PROVE  Told(l)'
<1> DEFINE s == task[t]
           Goal == Told(l)'
<1>1. TypeOK /\ Shape /\ s \in TaskState /\ Shaped(t, s) /\ Calm(t, s) /\ Told(l)
      /\ def \in [Events -> Definition] /\ claim \in [Keys -> ClaimRow]
  BY DEF TypeInv, TypeOK, Shape, TurnsInv
<1>2. /\ announced[l] = 1 => claim[l].status = "granted" \/ (s.pc = "grant" /\ l \in s.cur)
      /\ s.pc \in {"deliver", "announce", "fail"} /\ l \in s.cur => announced[l] = 0
      /\ announced[l] \in {0, 1}
  <2>1. \A u \in Tasks : Role(u) = "poll" => u = t  BY OneOfEach
  <2> QED  BY <1>1, <2>1 DEF Told
<1>3. Idle.cur = {}  BY <1>1, IdleFields
<1>4. ASSUME NEW r, Moves(t, r), r.cur = {}, s.cur = {}, UNCHANGED <<claim, announced>>
      PROVE  Goal
  BY <1>2, <1>4, PollTold
<1>5. ASSUME NEW r, Moves(t, r), Keeps(t, r), s.pc = "deliver",
             r.pc \in {"deliver", "fail", "announce"}, UNCHANGED <<claim, announced>>
      PROVE  Goal
  <2>1. r.cur = s.cur  BY <1>5 DEF Keeps
  <2> QED  BY <1>2, <1>5, <2>1, PollTold
<1>6. CASE ListEvents(t)
  <2>1. UNCHANGED <<claim, announced>> /\ s.pc \in {"idle", "list"}
    BY <1>6 DEF ListEvents, history
  <2>2. PICK r : Moves(t, r) /\ r.cur = {}  BY <1>1, <1>6, ListEventsMoves
  <2> QED  BY <1>1, <1>4, <2>1, <2>2 DEF Shaped
<1>7. ASSUME NEW e \in Events, Evaluate(t, e)  PROVE Goal
  <2>1. UNCHANGED <<claim, announced>> /\ s.pc = "next"  BY <1>7 DEF Evaluate, history
  <2>2. PICK r : Moves(t, r) /\ (r = Idle \/ r.cur = s.cur)  BY <1>1, <1>7, EvaluateMoves
  <2> QED  BY <1>1, <1>3, <1>4, <2>1, <2>2 DEF Shaped
<1>8. ASSUME NEW k \in Keys, Check(t, k)  PROVE Goal
  <2>1. UNCHANGED <<claim, announced>> /\ s.pc = "next" /\ s.cur = {}
    BY <1>1, <1>8 DEF Check, history, Shaped
  <2>2. PICK r : /\ Moves(t, r)
                 /\ \/ r = Idle \/ r.cur = s.cur
                    \/ ~Settled(claim[k]) /\ r.pc = "deliver" /\ r.cur = {k}
    BY <1>1, <1>8, CheckMoves
  <2>3. CASE r.cur = {}  BY <1>4, <2>1, <2>2, <2>3
  <2>4. CASE ~Settled(claim[k]) /\ r.pc = "deliver" /\ r.cur = {k}
    <3>1. l = k => announced[l] = 0  BY <1>2, <2>1, <2>4 DEF Settled
    <3> QED  BY <1>2, <2>1, <2>2, <2>4, <3>1, PollTold
  <2> QED  BY <1>3, <2>1, <2>2, <2>3, <2>4
<1>9. ASSUME s.pc = "deliver", s.rest # <<>>, Advance(t) \/ Fail(t),
             UNCHANGED <<claim, announced>>
      PROVE  Goal
  <2>1. PICK r : Moves(t, r) /\ Keeps(t, r) /\ r.pc \in {"deliver", "fail"}
    BY <1>1, <1>9, AdvanceMoves, FailMoves
  <2> QED  BY <1>5, <1>9, <2>1
<1>10. ASSUME NEW k \in Keys, GrantPart(t, k)  PROVE Goal
  BY <1>9, <1>10 DEF GrantPart
<1>11. CASE GrantError(t)  BY <1>9, <1>11 DEF GrantError, history
<1>12. CASE GrantsDone(t)
  <2>1. UNCHANGED <<claim, announced>> /\ s.pc = "deliver" /\ At(t, "announce")
    BY <1>12 DEF GrantsDone, history
  <2>2. PICK r : Moves(t, r) /\ Keeps(t, r) /\ r.pc = "announce"  BY <1>1, <2>1, AtMoves
  <2> QED  BY <1>5, <2>1, <2>2
<1>13. ASSUME NEW k \in Keys, Announce(t, k)  PROVE Goal
  <2>1. UNCHANGED claim /\ s.pc = "announce" /\ k \in s.cur /\ s.cur = {k} /\ At(t, "grant")
    BY <1>1, <1>13 DEF Announce, Shaped
  <2>2. PICK r : Moves(t, r) /\ Keeps(t, r) /\ r.pc = "grant"  BY <1>1, <2>1, AtMoves
  <2>3. r.cur = {k}  BY <2>1, <2>2 DEF Keeps
  <2>4. /\ l # k => announced'[l] = announced[l]
        /\ l = k => announced'[l] \in {0, 1}
    <3>1. announced \in [Keys -> 0..MaxCount] /\ MaxCount \in 1..2
      BY <1>1, ConstantAssumption DEF TypeOK, Scenario, MaxCount
    <3>2. l = k => announced[l] = 0  BY <1>2, <2>1
    <3>3. Counted(0) = 1  BY <3>1 DEF Counted
    <3>4. announced' = announced \/ announced' = [announced EXCEPT ![k] = Counted(announced[k])]
      BY <1>13 DEF Announce
    <3> QED  BY <3>1, <3>2, <3>3, <3>4
  <2> QED  BY <1>2, <2>1, <2>2, <2>3, <2>4, PollTold
<1>14. ASSUME NEW k \in Keys, RecordGranted(t, k)  PROVE Goal
  <2>1. UNCHANGED announced /\ s.cur = {k} /\ Done(t) /\ s.pc = "grant"
        /\ claim' = [claim EXCEPT ![k] = Granted(claim[k])]
    BY <1>1, <1>14 DEF RecordGranted, history, Shaped
  <2>2. PICK r : Moves(t, r) /\ r.cur = {}
    BY <1>1, <1>3, <2>1, DoneMoves DEF Onward
  <2>3. Granted(claim[k]).status = "granted"  BY DEF Granted
  <2>4. claim'[l].status = "granted" \/ (l # k /\ claim'[l] = claim[l])
    BY <1>1, <2>1, <2>3
  <2> QED  BY <1>2, <2>1, <2>2, <2>4, PollTold
<1>15. ASSUME NEW k \in Keys, RecordFailed(t, k)  PROVE Goal
  <2>1. UNCHANGED announced /\ s.cur = {k} /\ Done(t) /\ s.pc = "fail"
        /\ \A m \in Keys : m # k => claim'[m] = claim[m]
    BY <1>1, <1>15 DEF RecordFailed, history, Shaped
  <2>2. PICK r : Moves(t, r) /\ r.cur = {}
    BY <1>1, <1>3, <2>1, DoneMoves DEF Onward
  <2>3. l = k => announced[l] = 0  BY <1>2, <2>1
  <2> QED  BY <1>2, <2>1, <2>2, <2>3, PollTold
<1>16. /\ ~ListRetryable(t) /\ ~Resolve(t)
       /\ \A k \in Keys : ~Retry(t, k) /\ ~Load(t, k)
  BY <1>1 DEF ListRetryable, Resolve, Retry, Load, Shaped
<1> QED
  BY <1>6, <1>7, <1>8, <1>10, <1>11, <1>12, <1>13, <1>14, <1>15, <1>16 DEF Run

\* A step of the backfill or of the retry loop: it may close a claim, but not
\* one that has been announced, nor reopen one.
LEMMA OtherSteps ==
    ASSUME TypeInv, TurnsInv, Faults \subseteq {"fail"},
           NEW t \in Tasks, Run(t), Role(t) # "poll", NEW l \in Keys
    PROVE  Told(l)'
<1> DEFINE s == task[t]
<1>1. TypeOK /\ Shape /\ s \in TaskState /\ Shaped(t, s) /\ Calm(t, s) /\ Told(l)
      /\ claim \in [Keys -> ClaimRow]
  BY DEF TypeInv, TypeOK, Shape, TurnsInv
<1>2. PICK r : Moves(t, r)  BY <1>1, RunShaped
<1>3. UNCHANGED announced
  <2>1. \A k \in Keys : ~Announce(t, k)  BY <1>1 DEF Announce, Shaped
  <2> QED
    BY <2>1 DEF Run, ListEvents, Evaluate, ListRetryable, Check, Retry, Load, GrantPart,
                RecordGranted, RecordFailed, Resolve, GrantError, GrantsDone, history
<1>4. announced[l] = 1 /\ claim[l].status = "granted" => claim'[l].status = "granted"
  <2>1. ASSUME NEW k \in Keys, RecordGranted(t, k), claim[l].status = "granted"
        PROVE  claim'[l].status = "granted"
    <3>1. Granted(claim[k]).status = "granted"  BY DEF Granted
    <3>2. claim' = claim \/ claim' = [claim EXCEPT ![k] = Granted(claim[k])]
      BY <2>1 DEF RecordGranted
    <3> QED  BY <1>1, <2>1, <3>1, <3>2
  <2>2. ASSUME NEW k \in Keys, RecordFailed(t, k), claim[l].status = "granted"
        PROVE  claim'[l].status = "granted"
    <3>1. s.pc = "fail" /\ k \in s.cur /\ \A m \in Keys : m # k => claim'[m] = claim[m]
      BY <1>1, <2>2 DEF RecordFailed
    <3>2. Role(t) = "retry"  BY <1>1, <3>1, TaskParts DEF Calm
    <3>3. claim[k].status = "pending"  BY <1>1, <3>1, <3>2 DEF Calm, TurnsInv, DueAway
    <3> QED  BY <2>2, <3>1, <3>3
  <2>3. CASE UNCHANGED claim  BY <2>3
  <2> QED
    BY <2>1, <2>2, <2>3 DEF Run, ListEvents, Evaluate, ListRetryable, Check, Retry, Load,
                GrantPart, Announce, Resolve, GrantError, GrantsDone
<1> QED  BY <1>2, <1>3, <1>4, OtherTold

TurnsSafe == Apart => TurnsInv

LEMMA TurnsInit == Init => TurnsSafe
<1> SUFFICES ASSUME Init PROVE TurnsInv
  BY DEF TurnsSafe
<1>1. def \in [Events -> Definition]  BY TypeInit DEF TypeInv, TypeOK
<1>2. /\ Idle.pc = "idle" /\ Idle.queue = {} /\ Idle.cur = {} /\ Idle.rest = <<>>
  BY <1>1, IdleFields
<1>3. \A t \in Tasks : task[t] = Idle  BY DEF Init
<1>4. ~NoClaim.due  BY DEF NoClaim
<1>5. \A t \in Tasks : Calm(t, task[t])  BY <1>2, <1>3 DEF Calm
<1>6. \A k \in Keys : DueAway(k)  BY <1>4 DEF Init, DueAway
<1>7. \A k \in Keys : Told(k)
  <2>1. \A k \in Keys : announced[k] = 0  BY DEF Init
  <2> QED  BY <2>1 DEF Told
<1> QED  BY <1>5, <1>6, <1>7 DEF TurnsInv

LEMMA TurnsStep ==
    OneServer /\ OneEngine /\ SealsOnly
        => (TypeInv /\ TurnsSafe /\ [Next]_vars => TurnsSafe')
<1> SUFFICES ASSUME OneServer, OneEngine, SealsOnly, TypeInv, TurnsSafe, [Next]_vars, Apart'
             PROVE  TurnsInv'
  BY DEF TurnsSafe
<1>1. UNCHANGED scenario  BY DEF Next, vars
<1>2. Apart /\ TurnsInv  BY <1>1 DEF Apart, Environment, Faults, TurnsSafe
<1>3. AwardPast = {} /\ Faults \subseteq {"fail"}
  BY <1>2 DEF Apart, SealsOnly, AwardPast, Environment, Faults, TypeInv, TypeOK
<1>4. CASE UNCHANGED vars
  <2>1. UNCHANGED <<task, claim, announced, engine, online>>  BY <1>4 DEF vars
  <2>2. \A t \in Tasks : Calm(t, task[t])'  BY <1>2, <2>1 DEF TurnsInv, Calm, Role
  <2>3. \A k \in Keys : DueAway(k)'  BY <1>2, <2>1 DEF TurnsInv, DueAway
  <2>4. \A k \in Keys : Told(k)'  BY <1>2, <2>1 DEF TurnsInv, Told, Role
  <2> QED  BY <2>2, <2>3, <2>4 DEF TurnsInv
<1>5. ASSUME NEW t \in Tasks, Run(t)  PROVE TurnsInv'
  <2>1. \A u \in Tasks : Calm(u, task[u])'  BY <1>2, <1>3, <1>5, RunCalm
  <2>2. online' \subseteq online
    BY <1>5 DEF Run, ListEvents, Evaluate, ListRetryable, Check, Retry, Load, GrantPart,
           Announce, RecordGranted, RecordFailed, Resolve, GrantError, GrantsDone, game
  <2>3. \A k \in Keys : DueAway(k)'  BY <1>2, <2>2, DueStep
  <2>4. \A k \in Keys : Told(k)'  BY <1>2, <1>3, <1>5, PollSteps, OtherSteps
  <2> QED  BY <2>1, <2>3, <2>4 DEF TurnsInv
<1>6. CASE Next /\ \A t \in Tasks : ~Run(t)
  <2>1. /\ \A u \in Tasks : Calm(u, task[u])'
        /\ \A u \in Tasks : \/ task'[u] = task[u]
                            \/ Role(u) = "reconcile" /\ task[u] = Idle
        /\ online' \subseteq online
        /\ UNCHANGED announced
        /\ \A k \in Keys : claim'[k] = claim[k] \/ Elapse(k)
    BY <1>1, <1>2, <1>6, AroundCalm DEF Next
  <2>2. \A k \in Keys : DueAway(k)'  BY <1>2, <2>1, DueStep
  <2>3. ASSUME NEW k \in Keys  PROVE Told(k)'
    <3>1. \A u \in Tasks : Role(u) = "poll" => task'[u] = task[u]  BY <2>1
    <3>2. claim[k].status = "granted" => claim'[k].status = "granted"  BY <2>1 DEF Elapse
    <3>3. Told(k)  BY <1>2 DEF TurnsInv
    <3>4. announced[k] = 1
            => \/ claim'[k].status = "granted"
               \/ \E u \in Tasks : Role(u) = "poll" /\ task'[u].pc = "grant" /\ k \in task'[u].cur
      BY <3>1, <3>2, <3>3 DEF Told
    <3>5. \A u \in Tasks : /\ Role(u) = "poll"
                           /\ task'[u].pc \in {"deliver", "announce", "fail"}
                           /\ k \in task'[u].cur
                           => announced[k] = 0
      BY <3>1, <3>3 DEF Told
    <3> QED  BY <2>1, <3>3, <3>4, <3>5 DEF Told, Role
  <2> QED  BY <2>1, <2>2, <2>3 DEF TurnsInv
<1> QED  BY <1>4, <1>5, <1>6 DEF Next, Step

LEMMA TurnsAlways == OneServer /\ OneEngine /\ SealsOnly => (Spec => []TurnsSafe)
<1> SUFFICES ASSUME OneServer, OneEngine, SealsOnly PROVE Spec => []TurnsSafe
  OBVIOUS
<1>1. TypeInv /\ TurnsSafe /\ [Next]_vars => TurnsSafe'  BY TurnsStep
<1> QED  BY <1>1, TypeAlways, TurnsInit, PTL DEF Spec

\* What is announced and paid follows the deeds, exactly: an announced winner
\* has the whole reward, is announced once while the loops take turns, and
\* nobody else is paid (applyOneOutcome, attemptGrantForClaim).
THEOREM PaidAndAnnounced ==
    OneServer /\ OneEngine /\ SealsOnly /\ Milestones => (Spec => []Rewarded)
<1> SUFFICES ASSUME OneServer, OneEngine, SealsOnly, Milestones PROVE Spec => []Rewarded
  OBVIOUS
<1>1. TurnsSafe => AnnouncedOnce
  <2> SUFFICES ASSUME TurnsInv, NEW k \in Keys PROVE announced[k] <= 1
    BY DEF TurnsSafe, AnnouncedOnce
  <2>1. announced[k] \in {0, 1}  BY DEF TurnsInv, Told
  <2> QED  BY <2>1
<1>2. AnnouncedIsDelivered /\ AnnouncedOnce /\ OnlyTheDeedPays => Rewarded  BY DEF Rewarded
<1> QED  BY <1>1, <1>2, TurnsAlways, WinnersAreRewarded, OnlyDeedsPay, PTL

-----------------------------------------------------------------------------
(* A retry resumes where the reward failed.                                *)

DistinctLabels ==
    \A r \in Rewards : \A i, j \in DOMAIN r : Label(r[i]) = Label(r[j]) => i = j

\* Exactly the first n parts of the reward have reached the player, once.
Landed(k, n) ==
    \A p \in Parts :
        delivered[<<<<Main, k>>, p>>] = IF \E i \in 1..n : Reward(k)[i] = p THEN 1 ELSE 0

\* t goes on with the part after them, and a claim it has listed points there.
Resumes(t, s, k, n) ==
    Role(t) \in {"poll", "retry"} =>
        /\ k \in s.cur /\ s.pc \in {"resolve", "deliver", "fail"} => s.rest = After(Reward(k), n)
        /\ k \in s.cur /\ s.pc \in {"load", "fail"}
              => Remainder(Reward(k), s.mark) = After(Reward(k), n)
        /\ Role(t) = "retry" /\ k \in s.queue
              => \A c \in s.pending : c[1] = k => Remainder(Reward(k), c[2]) = After(Reward(k), n)

\* t is delivering the reward of k, or about to record how that went.
Busy(t, s, k) ==
    /\ Role(t) \in {"poll", "retry"} /\ k \in s.cur
    /\ s.pc \in {"deliver", "announce", "grant", "fail"}

\* Between two attempts it is the row that says where to resume.
Waits(k, n) ==
    ~Settled(claim[k]) /\ (\A t \in Tasks : ~Busy(t, task[t], k))
        => Remainder(Reward(k), claim[k].mark) = After(Reward(k), n)

Progress(k) ==
    \E n \in 0..Len(Reward(k)) :
        /\ Landed(k, n) /\ Waits(k, n)
        /\ \A t \in Tasks : Resumes(t, task[t], k, n)

\* The label of the first missing part leads back to it.
LEMMA MarkExact ==
    ASSUME DistinctLabels, NEW r \in Rewards, NEW n \in 0..Len(r), After(r, n) # <<>>
    PROVE  Remainder(r, Label(Head(After(r, n)))) = After(r, n)
<1>1. Len(r) \in Nat /\ DOMAIN r = 1..Len(r)  BY RewardParts
<1>2. n < Len(r) /\ Head(After(r, n)) = r[n + 1] /\ n + 1 \in 1..Len(r)
  BY <1>1, Slices
<1>3. PICK i \in 1..Len(r) : /\ Label(r[i]) = Label(r[n + 1])
                             /\ Remainder(r, Label(r[n + 1])) = After(r, i - 1)
  BY <1>2, Remainders
<1>4. i = n + 1  BY <1>1, <1>2, <1>3 DEF DistinctLabels
<1> QED  BY <1>1, <1>2, <1>3, <1>4

\* Two loops never hold one claim.
LEMMA Exclusive ==
    ASSUME TypeInv, TurnsInv, OneServer, OneEngine, NEW t \in Tasks, NEW u \in Tasks,
           Role(t) \in {"poll", "retry"}, Role(u) \in {"poll", "retry"}, NEW k,
           k \in task[t].queue \union task[t].cur,
           k \in task[u].queue \union task[u].cur
    PROVE  t = u
<1>1. Calm(t, task[t]) /\ Calm(u, task[u])  BY DEF TurnsInv
<1>2. Role(t) = Role(u)  BY <1>1 DEF Calm
<1> QED  BY <1>2, OneOfEach

\* A step of t that delivers nothing.
LEMMA QuietStep ==
    ASSUME NEW k \in Keys, NEW n \in 0..Len(Reward(k)), Landed(k, n),
           \A u \in Tasks : Resumes(u, task[u], k, n), UNCHANGED <<def, delivered>>,
           NEW t \in Tasks, NEW r, Moves(t, r), Resumes(t, r, k, n), Waits(k, n)'
    PROVE  Progress(k)'
<1>1. Reward(k)' = Reward(k)  BY DEF Reward
<1>2. Landed(k, n)'  BY <1>1 DEF Landed
<1>3. ASSUME NEW u \in Tasks  PROVE Resumes(u, task[u], k, n)'
  <2>1. CASE u = t  BY <1>1, <2>1 DEF Moves, Resumes, Role
  <2>2. CASE u # t
    <3>1. task'[u] = task[u]  BY <2>2 DEF Moves
    <3> QED  BY <1>1, <3>1 DEF Resumes, Role
  <2> QED  BY <2>1, <2>2
<1> QED  BY <1>1, <1>2, <1>3 DEF Progress

\* It leaves the row alone, or t keeps hold of the claim.
LEMMA StillWaits ==
    ASSUME NEW k \in Keys, NEW n, Waits(k, n), UNCHANGED def, NEW t \in Tasks, NEW r,
           Moves(t, r), Busy(t, task[t], k) => Busy(t, r, k),
           claim'[k].mark = claim[k].mark, claim'[k].status = claim[k].status
    PROVE  Waits(k, n)'
<1>1. Reward(k)' = Reward(k)  BY DEF Reward
<1>2. ASSUME NEW u \in Tasks, Busy(u, task[u], k)  PROVE Busy(u, task'[u], k)
  <2>1. CASE u = t  BY <1>2, <2>1 DEF Moves
  <2>2. CASE u # t
    <3>1. task'[u] = task[u]  BY <2>2 DEF Moves
    <3> QED  BY <1>2, <3>1
  <2> QED  BY <2>1, <2>2
<1>3. (\A u \in Tasks : ~Busy(u, task'[u], k)) => \A u \in Tasks : ~Busy(u, task[u], k)
  BY <1>2
<1>4. Settled(claim'[k]) <=> Settled(claim[k])  BY DEF Settled
<1>5. ~Settled(claim'[k]) /\ (\A u \in Tasks : ~Busy(u, task'[u], k))
        => Remainder(Reward(k), claim'[k].mark) = After(Reward(k), n)
  BY <1>3, <1>4 DEF Waits
<1>6. \A u \in Tasks : Busy(u, task'[u], k) <=> Busy(u, task[u], k)'
  BY DEF Busy, Role
<1> QED  BY <1>1, <1>5, <1>6 DEF Waits, Settled

\* A grant that lands is the next part of the reward, and lands for the first
\* time.
LEMMA GrantProgress ==
    ASSUME TypeInv, TurnsInv, OneServer, OneEngine, DistinctLabels, Faults \subseteq {"fail"},
           NEW t \in Tasks, NEW k \in Keys, GrantPart(t, k), NEW l \in Keys, Progress(l)
    PROVE  Progress(l)'
<1> DEFINE s == task[t]
           p == Head(s.rest)
           d == <<<<Server(t), k>>, p>>
<1>1. TypeOK /\ Shape /\ s \in TaskState /\ Shaped(t, s) /\ Calm(t, s)
  BY DEF TypeInv, TypeOK, Shape, TurnsInv
<1>2. /\ s.pc = "deliver" /\ s.cur = {k} /\ s.rest # <<>> /\ UNCHANGED <<def, claim>>
      /\ delivered' = [delivered EXCEPT ![d] = Counted(delivered[d])] /\ Advance(t)
  BY <1>1 DEF GrantPart, Deliver, Shaped
<1>3. p \in Parts /\ Server(t) = Main
  <2>1. p \in Parts  BY <1>1, <1>2, HeadTailProperties DEF TaskState
  <2> QED  BY <2>1, TaskParts DEF OneServer
<1>4. Role(t) \in {"poll", "retry"}
  BY <1>1, <1>2, TaskParts DEF Calm
<1>5. PICK r : Moves(t, r) /\ Keeps(t, r) /\ r.pc = "deliver" /\ r.rest = Tail(s.rest)
  BY <1>1, <1>2, AdvanceMoves
<1>6. r.cur = {k} /\ r.queue = s.queue /\ r.pending = s.pending  BY <1>2, <1>5 DEF Keeps
<1>7. PICK n \in 0..Len(Reward(l)) : /\ Landed(l, n) /\ Waits(l, n)
                                     /\ \A u \in Tasks : Resumes(u, task[u], l, n)
  BY DEF Progress
<1>8. Reward(l)' = Reward(l) /\ Reward(l) \in Rewards /\ Len(Reward(l)) \in Nat
      /\ DOMAIN Reward(l) = 1..Len(Reward(l)) /\ Reward(l) \in Seq(Parts)
  <2>1. Reward(l)' = Reward(l)  BY <1>2 DEF Reward
  <2> QED  BY <1>1, <2>1, KeyRewards
<1>9. delivered \in [Deeds \X Parts -> 0..MaxCount] /\ MaxCount \in 1..2
  BY <1>1, ConstantAssumption DEF TypeOK, Scenario, MaxCount
<1>10. d = <<<<Main, k>>, p>> /\ d \in Deeds \X Parts  BY <1>3, ConstantAssumption DEF Deeds
<1>11. \A q \in Parts : <<<<Main, l>>, q>> \in Deeds \X Parts  BY ConstantAssumption DEF Deeds
<1> HIDE DEF d
<1>12. CASE l # k
  <2>1. \A q \in Parts : delivered'[<<<<Main, l>>, q>>] = delivered[<<<<Main, l>>, q>>]
    <3> TAKE q \in Parts
    <3>1. <<<<Main, l>>, q>> # d  BY <1>10, <1>12
    <3> QED  BY <1>2, <1>9, <1>11, <3>1
  <2>2. Landed(l, n)'  BY <1>7, <1>8, <2>1 DEF Landed
  <2>3. Resumes(t, r, l, n)  BY <1>6, <1>7, <1>12 DEF Resumes
  <2>4. \A u \in Tasks : Resumes(u, task[u], l, n)'
    <3> TAKE u \in Tasks
    <3>1. CASE u = t  BY <1>5, <1>8, <2>3, <3>1 DEF Moves, Resumes, Role
    <3>2. CASE u # t
      <4>1. task'[u] = task[u]  BY <1>5, <3>2 DEF Moves
      <4> QED  BY <1>7, <1>8, <4>1 DEF Resumes, Role
    <3> QED  BY <3>1, <3>2
  <2>5. ~Busy(t, s, l)  BY <1>2, <1>12 DEF Busy
  <2>6. Waits(l, n)'  BY <1>2, <1>5, <1>7, <2>5, StillWaits
  <2> QED  BY <1>8, <2>2, <2>4, <2>6 DEF Progress
<1>13. CASE l = k
  <2>1. s.rest = After(Reward(k), n)  BY <1>2, <1>4, <1>7, <1>13 DEF Resumes
  <2>2. n < Len(Reward(k)) /\ p = Reward(k)[n + 1] /\ r.rest = After(Reward(k), n + 1)
    BY <1>2, <1>5, <1>8, <1>13, <2>1, Slices
  <2>3. n + 1 \in 0..Len(Reward(k)) /\ n + 1 \in 1..Len(Reward(k)) /\ n \in Nat
    BY <1>8, <1>13, <2>2
  <2>4. \A i \in 1..n : Reward(k)[i] # p
    <3> TAKE i \in 1..n
    <3>1. i \in 1..Len(Reward(k)) /\ i # n + 1  BY <1>8, <1>13, <2>3
    <3> QED  BY <1>8, <1>13, <2>2, <2>3, <3>1 DEF DistinctLabels
  <2>5. delivered[d] = 0  BY <1>3, <1>7, <1>10, <1>13, <2>4 DEF Landed
  <2>6. delivered'[d] = 1
    <3>1. Counted(0) = 1  BY <1>9 DEF Counted
    <3> QED  BY <1>2, <1>9, <1>10, <2>5, <3>1
  <2>7. ASSUME NEW q \in Parts
        PROVE  delivered'[<<<<Main, k>>, q>>] = IF \E i \in 1..(n + 1) : Reward(k)[i] = q THEN 1 ELSE 0
    <3>1. CASE q = p
      <4>1. \E i \in 1..(n + 1) : Reward(k)[i] = q  BY <2>2, <2>3, <3>1
      <4> QED  BY <1>10, <2>6, <3>1, <4>1
    <3>2. CASE q # p
      <4>1. <<<<Main, k>>, q>> # d  BY <1>10, <3>2
      <4>2. delivered'[<<<<Main, k>>, q>>] = delivered[<<<<Main, k>>, q>>]
        BY <1>2, <1>9, <1>11, <1>13, <4>1
      <4>3. (\E i \in 1..(n + 1) : Reward(k)[i] = q) <=> \E i \in 1..n : Reward(k)[i] = q
        <5>1. \A i \in 1..(n + 1) : i \in 1..n \/ i = n + 1  BY <2>3
        <5>2. \A i \in 1..n : i \in 1..(n + 1)  BY <2>3
        <5> QED  BY <2>2, <3>2, <5>1, <5>2
      <4>4. delivered[<<<<Main, k>>, q>>] = IF \E i \in 1..n : Reward(k)[i] = q THEN 1 ELSE 0
        BY <1>7, <1>13 DEF Landed
      <4> QED  BY <4>2, <4>3, <4>4
    <3> QED  BY <3>1, <3>2
  <2>8. Landed(k, n + 1)'  BY <1>8, <1>13, <2>7 DEF Landed
  <2>9. \A u \in Tasks : u # t /\ Role(u) \in {"poll", "retry"}
          => k \notin task[u].queue /\ k \notin task[u].cur
    BY <1>2, <1>4, Exclusive
  <2>10. Role(t) = "retry" => k \notin r.queue
    BY <1>1, <1>2, <1>6 DEF Calm
  <2>11. \A u \in Tasks : Resumes(u, task[u], k, n + 1)'
    <3> TAKE u \in Tasks
    <3>1. CASE u = t
      BY <1>5, <1>8, <1>13, <2>2, <2>10, <3>1 DEF Moves, Resumes, Role
    <3>2. CASE u # t
      <4>1. task'[u] = task[u]  BY <1>5, <3>2 DEF Moves
      <4> QED  BY <2>9, <3>2, <4>1 DEF Resumes, Role
    <3> QED  BY <3>1, <3>2
  <2>12. Waits(k, n + 1)'
    <3>1. Busy(t, task'[t], k)  BY <1>4, <1>5, <1>6 DEF Busy, Moves
    <3>2. Busy(t, task[t], k)'  BY <3>1 DEF Busy, Role
    <3> QED  BY <3>2 DEF Waits
  <2> QED  BY <1>8, <1>13, <2>3, <2>8, <2>11, <2>12 DEF Progress
<1> QED  BY <1>12, <1>13

\* Every other step of a goroutine.
LEMMA RunProgress ==
    ASSUME TypeInv, TurnsInv, PaidInv, OneServer, OneEngine, DistinctLabels,
           AwardPast = {}, Faults \subseteq {"fail"},
           NEW t \in Tasks, Run(t), NEW l \in Keys, Progress(l)
    PROVE  Progress(l)'
<1> DEFINE s == task[t]
           Goal == Progress(l)'
<1>1. TypeOK /\ Shape /\ s \in TaskState /\ Shaped(t, s) /\ Calm(t, s) /\ Honest(t, s)
      /\ claim \in [Keys -> ClaimRow] /\ def \in [Events -> Definition]
  BY DEF TypeInv, TypeOK, Shape, TurnsInv, PaidInv
<1>2. PICK n \in 0..Len(Reward(l)) : /\ Landed(l, n) /\ Waits(l, n)
                                     /\ \A u \in Tasks : Resumes(u, task[u], l, n)
  BY DEF Progress
<1>3. Resumes(t, s, l, n)  BY <1>2
<1>4. Idle.cur = {} /\ Idle.queue = {} /\ Idle.pc = "idle"  BY <1>1, IdleFields
<1>5. ASSUME NEW r, Moves(t, r), Resumes(t, r, l, n), UNCHANGED <<def, delivered, claim>>,
             Busy(t, s, l) => Busy(t, r, l)
      PROVE  Goal
  <2>1. Waits(l, n)'  BY <1>2, <1>5, StillWaits
  <2> QED  BY <1>2, <1>5, <2>1, QuietStep
<1>6. ASSUME NEW r, Moves(t, r), r.cur = {}, r.queue = s.queue \/ r.queue = {},
             r.pending = s.pending \/ r.queue = {}, UNCHANGED <<def, delivered, claim>>,
             ~Busy(t, s, l)
      PROVE  Goal
  <2>1. Resumes(t, r, l, n)  BY <1>3, <1>6 DEF Resumes
  <2> QED  BY <1>5, <1>6, <2>1
<1>7. CASE ListEvents(t)
  <2>1. UNCHANGED <<def, delivered, claim>> /\ s.pc \in {"idle", "list"}
    BY <1>7 DEF ListEvents, history
  <2>2. PICK r : Moves(t, r) /\ r.cur = {} /\ r.queue = {}  BY <1>1, <1>7, ListEventsMoves
  <2> QED  BY <1>6, <2>1, <2>2 DEF Busy
<1>8. ASSUME NEW e \in Events, Evaluate(t, e)  PROVE Goal
  <2>1. UNCHANGED <<def, delivered, claim>> /\ s.pc = "next" /\ s.cur = {}
        /\ Role(t) \in {"poll", "reconcile"}
    BY <1>1, <1>8, TaskParts DEF Evaluate, history, Shaped
  <2>2. PICK r : Moves(t, r) /\ (r = Idle \/ r.cur = s.cur)  BY <1>1, <1>8, EvaluateMoves
  <2>3. Resumes(t, r, l, n)  BY <1>4, <2>1, <2>2 DEF Resumes
  <2> QED  BY <1>5, <2>1, <2>2, <2>3 DEF Busy
<1>9. CASE ListRetryable(t)
  <2>1. UNCHANGED <<def, delivered, claim>> /\ Role(t) = "retry" /\ s.pc = "idle"
    BY <1>9 DEF ListRetryable, history
  <2>2. PICK r : /\ Moves(t, r) /\ r.cur = {} /\ r.queue = {k \in Keys : Retryable(k)}
                 /\ r.pending = {<<k, claim[k].mark>> : k \in {k \in Keys : Retryable(k)}}
    BY <1>1, <1>9, ListRetryableMoves
  <2>3. ASSUME l \in r.queue, NEW c \in r.pending, c[1] = l
        PROVE  Remainder(Reward(l), c[2]) = After(Reward(l), n)
    <3>1. Retryable(l)  BY <2>2, <2>3
    <3>2. PICK k \in Keys : c = <<k, claim[k].mark>>  BY <2>2
    <3>3. c[2] = claim[l].mark  BY <2>3, <3>2
    <3>4. ~Settled(claim[l]) /\ claim[l].due  BY <3>1 DEF Retryable, Settled
    <3>5. ASSUME NEW u \in Tasks, Busy(u, task[u], l)  PROVE FALSE
      <4>1. Calm(u, task[u]) /\ Role(u) # "poll"  BY <3>4, <3>5 DEF TurnsInv, Calm, Busy
      <4>2. u = t  BY <2>1, <3>5, <4>1, OneOfEach DEF Busy
      <4> QED  BY <2>1, <3>5, <4>2 DEF Busy
    <3> QED  BY <1>2, <3>3, <3>4, <3>5 DEF Waits
  <2>4. Resumes(t, r, l, n)  BY <2>2, <2>3 DEF Resumes
  <2> QED  BY <1>5, <2>1, <2>2, <2>4 DEF Busy
<1>10. ASSUME NEW k \in Keys, Check(t, k)  PROVE Goal
  <2>1. UNCHANGED <<def, delivered, claim>> /\ s.pc = "next" /\ s.cur = {} /\ k \in s.queue
        /\ Role(t) \in {"poll", "reconcile"}
    BY <1>1, <1>10 DEF Check, history, Shaped
  <2>2. PICK r : /\ Moves(t, r)
                 /\ \/ r = Idle \/ r.cur = s.cur
                    \/ /\ ~Settled(claim[k]) /\ r.pc = "deliver" /\ r.cur = {k}
                       /\ r.rest = IF Pays(t, k)
                                   THEN Remainder(s.reward[k[1]], claim[k].mark) ELSE <<>>
    BY <1>1, <1>10, CheckMoves
  <2>3. ~Busy(t, s, l)  BY <2>1 DEF Busy
  <2>4. CASE r.cur = {}
    <3>1. Resumes(t, r, l, n)  BY <2>1, <2>4 DEF Resumes
    <3> QED  BY <1>5, <2>1, <2>2, <2>3, <3>1
  <2>5. CASE /\ ~Settled(claim[k]) /\ r.pc = "deliver" /\ r.cur = {k}
             /\ r.rest = IF Pays(t, k) THEN Remainder(s.reward[k[1]], claim[k].mark) ELSE <<>>
    <3>1. ASSUME Role(t) = "poll", l = k  PROVE r.rest = After(Reward(l), n)
      <4>1. Pays(t, k)  BY <3>1 DEF Pays
      <4>2. s.reward[k[1]] = Reward(k)  BY <1>1, <2>1 DEF Honest, Keys, Reward
      <4>3. ASSUME NEW u \in Tasks, Busy(u, task[u], k)  PROVE FALSE
        <5>1. u = t  BY <2>1, <3>1, <4>3, Exclusive DEF Busy
        <5> QED  BY <2>1, <4>3, <5>1 DEF Busy
      <4>4. Remainder(Reward(k), claim[k].mark) = After(Reward(k), n)
        BY <1>2, <2>5, <3>1, <4>3 DEF Waits
      <4> QED  BY <2>5, <3>1, <4>1, <4>2, <4>4
    <3>2. Resumes(t, r, l, n)  BY <2>1, <2>5, <3>1 DEF Resumes
    <3> QED  BY <1>5, <2>1, <2>2, <2>3, <3>2
  <2> QED  BY <1>4, <2>1, <2>2, <2>4, <2>5
<1>11. ASSUME NEW k \in Keys, Retry(t, k)  PROVE Goal
  <2>1. UNCHANGED <<def, delivered, claim>> /\ s.pc = "next" /\ k \in s.queue
        /\ Role(t) = "retry"
    BY <1>11 DEF Retry, history
  <2>2. \E c \in s.pending : c[1] = k  BY <1>1, <2>1 DEF Shaped
  <2>3. PICK r : \E c \in s.pending :
             /\ Moves(t, r) /\ c[1] = k /\ r.pc = "load" /\ r.queue = s.queue \ {k}
             /\ r.pending = s.pending /\ r.cur = {k} /\ r.mark = c[2]
    BY <1>1, <1>11, <2>2, RetryMoves
  <2>4. l = k => Remainder(Reward(l), r.mark) = After(Reward(l), n)
    BY <1>3, <2>1, <2>3 DEF Resumes
  <2>5. Resumes(t, r, l, n)  BY <1>3, <2>3, <2>4 DEF Resumes
  <2>6. ~Busy(t, s, l)  BY <2>1 DEF Busy
  <2> QED  BY <1>5, <2>1, <2>3, <2>5, <2>6
<1>12. ASSUME NEW k \in Keys, Load(t, k)  PROVE Goal
  <2>1. UNCHANGED <<def, delivered, claim>> /\ s.pc = "load" /\ s.cur = {k} /\ ~Busy(t, s, l)
    BY <1>1, <1>12 DEF Load, history, Shaped, Busy
  <2>2. PICK r : /\ Moves(t, r)
                 /\ \/ Onward(t, r)
                    \/ /\ Keeps(t, r) /\ r.pc \in {"deliver", "resolve"}
                       /\ r.rest = Remainder(def[k[1]].reward, s.mark)
    BY <1>1, <1>12, LoadMoves
  <2>3. CASE Onward(t, r)
    <3>1. r.cur = {} /\ (r.queue = {} \/ (r.queue = s.queue /\ r.pending = s.pending))
      BY <1>4, <2>3 DEF Onward
    <3> QED  BY <1>6, <2>1, <2>2, <3>1
  <2>4. CASE Keeps(t, r) /\ r.pc \in {"deliver", "resolve"}
             /\ r.rest = Remainder(def[k[1]].reward, s.mark)
    <3>1. r.cur = {k} /\ r.queue = s.queue /\ r.pending = s.pending
      BY <2>1, <2>4 DEF Keeps
    <3>2. Role(t) = "retry"  BY <1>1, <2>1 DEF Shaped, Calm
    <3>3. l = k => r.rest = After(Reward(l), n)
      BY <1>3, <2>1, <2>4, <3>2 DEF Resumes, Reward
    <3>4. Resumes(t, r, l, n)  BY <1>3, <2>4, <3>1, <3>3 DEF Resumes
    <3> QED  BY <1>5, <2>1, <2>2, <3>4
  <2> QED  BY <2>2, <2>3, <2>4
<1>13. CASE Resolve(t)
  <2>1. UNCHANGED <<def, delivered, claim>> /\ s.pc = "resolve" /\ ~Busy(t, s, l)
    BY <1>13 DEF Resolve, history, Busy
  <2>2. Role(t) = "retry" /\ ~Cancelled(t) /\ "resolve" \notin Faults
    BY <1>1, <2>1 DEF Shaped, Calm, Cancelled
  <2>3. PICK r : Moves(t, r) /\ Keeps(t, r) /\ r.rest = s.rest /\ r.pc = "deliver"
    BY <1>1, <1>13, <2>2, ResolveMoves
  <2>4. r.cur = s.cur /\ r.queue = s.queue /\ r.pending = s.pending  BY <2>3 DEF Keeps
  <2>5. Resumes(t, r, l, n)  BY <1>3, <2>1, <2>3, <2>4 DEF Resumes
  <2> QED  BY <1>5, <2>1, <2>3, <2>5
<1>14. ASSUME NEW k \in Keys, GrantPart(t, k)  PROVE Goal
  BY <1>14, GrantProgress
<1>15. CASE GrantError(t)
  <2>1. UNCHANGED <<def, delivered, claim>> /\ s.pc = "deliver" /\ s.rest # <<>> /\ Fail(t)
    BY <1>15 DEF GrantError, history
  <2>2. PICK r : /\ Moves(t, r) /\ Keeps(t, r) /\ r.pc = "fail" /\ r.rest = s.rest
                 /\ r.mark = Label(Head(s.rest))
    BY <1>1, <2>1, FailMoves
  <2>3. r.cur = s.cur /\ r.queue = s.queue /\ r.pending = s.pending  BY <2>2 DEF Keeps
  <2>4. ASSUME Role(t) \in {"poll", "retry"}, l \in s.cur
        PROVE  r.rest = After(Reward(l), n)
               /\ Remainder(Reward(l), r.mark) = After(Reward(l), n)
    <3>1. s.rest = After(Reward(l), n)  BY <1>3, <2>1, <2>4 DEF Resumes
    <3>2. Reward(l) \in Rewards  BY <1>1, KeyRewards
    <3> QED  BY <2>1, <2>2, <3>1, <3>2, MarkExact
  <2>5. Resumes(t, r, l, n)  BY <1>3, <2>2, <2>3, <2>4 DEF Resumes
  <2>6. Busy(t, s, l) => Busy(t, r, l)  BY <2>2, <2>3 DEF Busy
  <2> QED  BY <1>5, <2>1, <2>2, <2>5, <2>6
<1>16. ASSUME NEW pc \in {"announce", "grant"}, At(t, pc), UNCHANGED <<def, delivered, claim>>
       PROVE  Goal
  <2>1. PICK r : Moves(t, r) /\ Keeps(t, r) /\ r.pc = pc  BY <1>1, <1>16, AtMoves
  <2>2. r.cur = s.cur /\ r.queue = s.queue /\ r.pending = s.pending  BY <2>1 DEF Keeps
  <2>3. Resumes(t, r, l, n)  BY <1>3, <2>1, <2>2 DEF Resumes
  <2>4. Busy(t, s, l) => Busy(t, r, l)  BY <2>1, <2>2 DEF Busy
  <2> QED  BY <1>5, <1>16, <2>1, <2>3, <2>4
<1>17. CASE GrantsDone(t)  BY <1>16, <1>17 DEF GrantsDone, history
<1>18. ASSUME NEW k \in Keys, Announce(t, k)  PROVE Goal
  BY <1>16, <1>18 DEF Announce
<1>19. ASSUME NEW k \in Keys, RecordGranted(t, k) \/ RecordFailed(t, k)  PROVE Goal
  <2>1. /\ UNCHANGED <<def, delivered>> /\ s.cur = {k} /\ s.pc \in {"grant", "fail"} /\ Done(t)
        /\ \/ s.pc = "grant" /\ claim' = [claim EXCEPT ![k] = Granted(claim[k])]
           \/ s.pc = "fail" /\ claim' = [claim EXCEPT ![k] = Failed(claim[k], s.mark)]
    BY <1>1, <1>19 DEF RecordGranted, RecordFailed, history, Shaped
  <2>2. PICK r : Moves(t, r) /\ Onward(t, r)  BY <1>1, <2>1, DoneMoves
  <2>3. r.cur = {} /\ (r.queue = {} \/ (r.queue = s.queue /\ r.pending = s.pending))
    BY <1>4, <2>2 DEF Onward
  <2>4. Resumes(t, r, l, n)  BY <1>3, <2>3 DEF Resumes
  <2>5. Waits(l, n)'
    <3>1. CASE l # k
      <4>1. claim'[l] = claim[l] /\ ~Busy(t, s, l)  BY <1>1, <2>1, <3>1 DEF Busy
      <4> QED  BY <1>2, <2>1, <2>2, <4>1, StillWaits
    <3>2. CASE l = k /\ claim' = [claim EXCEPT ![k] = Granted(claim[k])]
      <4>1. Settled(Granted(claim[k]))  BY DEF Granted, Settled
      <4>2. claim'[l] = Granted(claim[k])  BY <1>1, <3>2
      <4>3. Settled(claim[l])'  BY <4>1, <4>2 DEF Settled
      <4> QED  BY <4>3 DEF Waits
    <3>3. CASE l = k /\ s.pc = "fail" /\ claim' = [claim EXCEPT ![k] = Failed(claim[k], s.mark)]
      <4>1. Role(t) \in {"poll", "retry"}  BY <1>1, <3>3, TaskParts DEF Calm
      <4>2. Remainder(Reward(l), s.mark) = After(Reward(l), n)
        BY <1>3, <2>1, <3>3, <4>1 DEF Resumes
      <4>3. Failed(claim[k], s.mark).mark = s.mark  BY DEF Failed
      <4>4. claim'[l].mark = s.mark  BY <1>1, <3>3, <4>3
      <4>5. Reward(l)' = Reward(l)  BY <2>1 DEF Reward
      <4> QED  BY <4>2, <4>4, <4>5 DEF Waits
    <3> QED  BY <2>1, <3>1, <3>2, <3>3
  <2> QED  BY <1>2, <2>1, <2>2, <2>4, <2>5, QuietStep
<1> QED
  BY <1>7, <1>8, <1>9, <1>10, <1>11, <1>12, <1>13, <1>14, <1>15, <1>17, <1>18, <1>19 DEF Run

ProgressSafe == Apart => \A k \in Keys : Progress(k)

LEMMA ProgressInit == Init => ProgressSafe
<1> SUFFICES ASSUME Init, NEW k \in Keys PROVE Progress(k)
  BY DEF ProgressSafe
<1>1. TypeOK /\ def \in [Events -> Definition]  BY TypeInit DEF TypeInv, TypeOK
<1>2. Idle.cur = {} /\ Idle.queue = {}  BY <1>1, IdleFields
<1>3. \A t \in Tasks : Resumes(t, task[t], k, 0)  BY <1>2 DEF Init, Resumes
<1>4. Reward(k) \in Rewards /\ Len(Reward(k)) \in Nat  BY <1>1, KeyRewards
<1>5. Waits(k, 0)
  <2>1. NoClaim.mark = <<"", "">>  BY DEF NoClaim
  <2>2. claim[k].mark = <<"", "">>  BY <2>1 DEF Init
  <2>3. \A i \in 1..Len(Reward(k)) : Label(Reward(k)[i]) # <<"", "">>
    <3> SUFFICES ASSUME NEW i \in 1..Len(Reward(k)), Label(Reward(k)[i]) = <<"", "">> PROVE FALSE
      OBVIOUS
    <3>1. Label(Reward(k)[i])[1] \notin {"", "resolve"}  BY <1>4, RewardParts
    <3>2. <<"", "">>[1] = ""  OBVIOUS
    <3> QED  BY <3>1, <3>2
  <2>4. Remainder(Reward(k), <<"", "">>) = After(Reward(k), 0)
    BY <1>4, <2>3, Remainders
  <2> QED  BY <2>2, <2>4 DEF Waits
<1>6. Landed(k, 0)
  <2>1. \A p \in Parts : <<<<Main, k>>, p>> \in Deeds \X Parts  BY ConstantAssumption DEF Deeds
  <2>2. \A p \in Parts : delivered[<<<<Main, k>>, p>>] = 0  BY <2>1 DEF Init
  <2> QED  BY <2>2 DEF Landed
<1>7. 0 \in 0..Len(Reward(k))  BY <1>4
<1> QED  BY <1>3, <1>5, <1>6, <1>7 DEF Progress

LEMMA ProgressStep ==
    OneServer /\ OneEngine /\ SealsOnly /\ DistinctLabels
        => (TypeInv /\ PaidSafe /\ TurnsSafe /\ ProgressSafe /\ [Next]_vars => ProgressSafe')
<1> SUFFICES ASSUME OneServer, OneEngine, SealsOnly, DistinctLabels, TypeInv, PaidSafe,
                    TurnsSafe, ProgressSafe, [Next]_vars, Apart', NEW l \in Keys
             PROVE  Progress(l)'
  BY DEF ProgressSafe
<1>1. UNCHANGED scenario  BY DEF Next, vars
<1>2. Apart /\ TurnsInv /\ Progress(l)
  BY <1>1 DEF Apart, Environment, Faults, TurnsSafe, ProgressSafe
<1>3. AwardPast = {} /\ Faults \subseteq {"fail"}
  BY <1>2 DEF Apart, SealsOnly, AwardPast, Environment, Faults, TypeInv, TypeOK
<1>4. PaidInv  BY <1>2 DEF PaidSafe, Unattended, Apart
<1>5. ASSUME NEW t \in Tasks, Run(t)  PROVE Progress(l)'
  BY <1>2, <1>3, <1>4, <1>5, RunProgress
\* Around the goroutines only a reconcile may start, and a claim fall due.
<1>6. ASSUME UNCHANGED <<def, delivered>>,
             claim'[l].mark = claim[l].mark, claim'[l].status = claim[l].status,
             \A u \in Tasks : task'[u] = task[u] \/ Role(u) = "reconcile"
      PROVE  Progress(l)'
  <2>1. PICK n \in 0..Len(Reward(l)) : /\ Landed(l, n) /\ Waits(l, n)
                                       /\ \A u \in Tasks : Resumes(u, task[u], l, n)
    BY <1>2 DEF Progress
  <2>2. Reward(l)' = Reward(l)  BY <1>6 DEF Reward
  <2>3. Landed(l, n)'  BY <1>6, <2>1, <2>2 DEF Landed
  <2>4. \A u \in Tasks : Resumes(u, task[u], l, n)'
    <3> TAKE u \in Tasks
    <3>1. CASE Role(u) = "reconcile"  BY <3>1 DEF Resumes, Role
    <3>2. CASE task'[u] = task[u]  BY <2>1, <2>2, <3>2 DEF Resumes, Role
    <3> QED  BY <1>6, <3>1, <3>2
  <2>5. Waits(l, n)'
    <3>1. \A u \in Tasks : Busy(u, task'[u], l) <=> Busy(u, task[u], l)
      BY <1>6 DEF Busy
    <3>2. \A u \in Tasks : Busy(u, task'[u], l) <=> Busy(u, task[u], l)'
      BY DEF Busy, Role
    <3>3. Settled(claim[l])' <=> Settled(claim[l])  BY <1>6 DEF Settled
    <3>4. Settled(claim[l]) \/ (\E u \in Tasks : Busy(u, task[u], l))
          \/ Remainder(Reward(l), claim[l].mark) = After(Reward(l), n)
      BY <2>1 DEF Waits
    <3>5. CASE Settled(claim[l])  BY <3>3, <3>5 DEF Waits
    <3>6. CASE \E u \in Tasks : Busy(u, task[u], l)
      BY <3>1, <3>2, <3>6 DEF Waits
    <3>7. CASE Remainder(Reward(l), claim[l].mark) = After(Reward(l), n)
      BY <1>6, <2>2, <3>7 DEF Waits
    <3> QED  BY <3>4, <3>5, <3>6, <3>7
  <2> QED  BY <2>1, <2>2, <2>3, <2>4, <2>5 DEF Progress
<1>7. CASE UNCHANGED vars
  BY <1>6, <1>7 DEF vars
<1>8. CASE Next /\ \A t \in Tasks : ~Run(t)
  <2>1. /\ \A u \in Tasks : task'[u] = task[u] \/ Role(u) = "reconcile"
        /\ UNCHANGED <<delivered, def>>
        /\ claim'[l] = claim[l] \/ Elapse(l)
    BY <1>1, <1>2, <1>8, AroundCalm DEF Next
  <2>2. claim'[l].mark = claim[l].mark /\ claim'[l].status = claim[l].status
    <3>1. claim \in [Keys -> ClaimRow] /\ claim[l] \in ClaimRow  BY DEF TypeInv, TypeOK
    <3>2. CASE Elapse(l)
      <4>1. claim'[l] = [claim[l] EXCEPT !.due = TRUE]  BY <3>1, <3>2 DEF Elapse
      <4> QED  BY <3>1, <4>1 DEF ClaimRow
    <3> QED  BY <2>1, <3>2
  <2> QED  BY <1>6, <2>1, <2>2
<1> QED  BY <1>5, <1>7, <1>8 DEF Next, Step

\* A part of a reward that has landed is not delivered again: what has been
\* delivered is always the first parts of the reward, once each, and the row,
\* the listed marker or the goroutine at work points at the next one
\* (sliceRewardSpec, attemptGrantForClaim, applyOneOutcome).
THEOREM RetriesResume ==
    OneServer /\ OneEngine /\ SealsOnly /\ DistinctLabels => (Spec => []ResumesWhereFailed)
<1> SUFFICES ASSUME OneServer, OneEngine, SealsOnly, DistinctLabels
             PROVE  Spec => []ResumesWhereFailed
  OBVIOUS
<1>1. TypeInv /\ PaidSafe /\ TurnsSafe /\ ProgressSafe /\ [Next]_vars => ProgressSafe'
  BY ProgressStep
<1>2. TypeInv /\ ProgressSafe => ResumesWhereFailed
  <2> SUFFICES ASSUME TypeInv, ProgressSafe, Apart, NEW d \in Deeds \X Parts
               PROVE  delivered[d] <= 1
    BY DEF ResumesWhereFailed, DeliveredOnce
  <2>1. PICK k \in Keys, p \in Parts : d = <<<<Main, k>>, p>>
    BY DEF Deeds, OneServer
  <2>2. delivered[d] = 0 \/ delivered[d] = 1
    BY <2>1 DEF ProgressSafe, Progress, Landed
  <2> QED  BY <2>2
<1> QED  BY <1>1, <1>2, TypeAlways, PaidAlways, TurnsAlways, ProgressInit, PTL DEF Spec
=============================================================================
