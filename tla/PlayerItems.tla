----------------------------- MODULE PlayerItems -----------------------------
(***************************************************************************)
(* The item requests on one player and one storage container: give one     *)
(* item or several (handlers_players.go), put an item into the container   *)
(* (handlers_storage.go), edit, delete and repair (db.go), beside the game *)
(* server, which owns the live copy of the backpack while the player is    *)
(* connected and writes it back.                                           *)
(*                                                                         *)
(* A give reads the backpack, plans (which stacks to top up, which to add) *)
(* and applies the plan in a transaction of its own: the plan may be old.  *)
(* A row is its index in `items`, its sequence number in the database; a   *)
(* deleted row stays there as Gone.  Every unit has volume 1.              *)
(***************************************************************************)
EXTENDS Integers, Sequences, FiniteSets, SequencesExt, FiniteSetsExt

CONSTANTS Templates,   \* the item templates
          Graded,      \* itemNeedsDBPath, or asked for with a quality
          Single,      \* a rule says they do not stack
          Unknown,     \* no rule says how they stack
          StackSize,   \* StackMax of the others' rule
          MaxSlots,    \* max_item_count of either inventory
          MaxVolume,   \* max_item_volume of the backpack
          Requests, Kinds, Quantities,
          DeleteAnytime,  \* also a stack that a pending plan tops up
          LoginRace,   \* may the player log in between check and write
          Faults,      \* what may fail: "status" (the online check's query),
                       \* "fls" (the look-up of the player's FLS id),
                       \* "drop" (a command reaches nobody)
          MaxRows, MaxAsked

ASSUME TemplateAssumption == (Graded \union Single \union Unknown) \subseteq Templates
ASSUME SizeAssumption ==
    /\ {StackSize, MaxSlots, MaxVolume} \subseteq Nat \ {0}
    /\ Quantities \subseteq Nat \ {0}
    /\ MaxRows \in Nat /\ MaxAsked \in Nat

Inventories == {"backpack", "container"}
Row(v, t, n, p) == [inv |-> v, template |-> t, size |-> n, pos |-> p, worn |-> FALSE]
Gone == [inv |-> "none"]

VARIABLES items,     \* dune.items
          online,    \* dune.player_state.online_status
          live,      \* the game's copy: row -> size and wear, while online
          commands,  \* AddItemToInventory commands the game has yet to handle
          request,   \* per request: its place in the code and what it read
          asked,     \* requests made so far
          expected,  \* units there should be, by what was answered and played
          mended     \* rows reported repaired since the player was last online

vars == <<items, online, live, commands, request, asked, expected, mended>>

Idle == [pc |-> "idle"]
NoPlan == [adds |-> <<>>, sizes |-> <<>>, pos |-> 0, seen |-> <<>>]

Rows(v) == {i \in DOMAIN items : items[i].inv = v}
Present == Rows("backpack") \union Rows("container")
Volume(S) == MapThenSumSet(LAMBDA i : items[i].size, S)
MaxPos == Max({items[i].pos : i \in Rows("backpack")} \union {-1})

\* What the inventories hold at first: one row, or none.
FirstItems == {<<>>} \union {<<Row("backpack", t, 1, 0)>> : t \in Templates \ Graded}

Init == /\ items \in FirstItems
        /\ online = FALSE
        /\ live = <<>>
        /\ commands = <<>>
        /\ request = [r \in Requests |-> Idle]
        /\ asked = 0
        /\ expected = Len(items)
        /\ mended = {}

-----------------------------------------------------------------------------
(* What a give computes.                                                   *)

\* resolveStackMax and effectiveStackMax: the rule, else the largest stack of
\* the template anywhere, else one stack for all that is asked.
StackMax(t, q) ==
    IF t \in Single THEN 1
    ELSE IF t \notin Unknown THEN StackSize
    ELSE LET sizes == {items[i].size : i \in {j \in Present : items[j].template = t}}
         IN  IF sizes = {} THEN q ELSE Max(sizes)

Less(m, n) == IF m < n THEN m ELSE n

\* As many full stacks as fit, the last one with what is left.
NewStacks(n, most) ==
    [k \in 1..((n + most - 1) \div most) |-> IF k * most <= n THEN most ELSE n % most]

\* planGiveItemStacks: the fullest stacks first are topped up, each to the
\* most a stack holds; the rest goes to new stacks, one position after another.
Plan(t, q) ==
    LET most == StackMax(t, q)
        own == SetToSortSeq({i \in Rows("backpack") : items[i].template = t},
                            LAMBDA i, j : items[i].size > items[j].size)
        room(i) == IF most > 1 /\ items[i].size < most THEN most - items[i].size ELSE 0
        rest[k \in 0..Len(own)] ==
            IF k = 0 THEN q
            ELSE rest[k - 1] - Less(room(own[k]), rest[k - 1])
        add(k) == rest[k - 1] - rest[k]
    IN  [adds |-> SelectSeq([k \in DOMAIN own |-> <<own[k], add(k)>>], LAMBDA a : a[2] > 0),
         sizes |-> NewStacks(rest[Len(own)], most),
         pos |-> MaxPos + 1,
         seen |-> items]

\* Bug: the slots are not looked at.
AnySlots(n) == TRUE

\* ensureGiveItemSlotCapacity, and checkInventorySlotLimit with every unit in
\* a new stack.
SlotsFor(n) == Cardinality(Rows("backpack")) + n <= MaxSlots
VolumeFor(q) == Volume(Rows("backpack")) + q <= MaxVolume

-----------------------------------------------------------------------------
(* The requests.                                                           *)

At(r, pc) == request[r].pc = pc
Ends(r) == request' = [request EXCEPT ![r] = Idle]
Giving(r) == ~At(r, "idle") /\ request[r].kind \in {"give", "pack"}

Asks(r, kind) ==
    /\ At(r, "idle") /\ kind \in Kinds
    /\ asked < MaxAsked /\ asked' = asked + 1

\* resolveGiveItemsOnlinePath: an online check that fails counts as online, a
\* player whose FLS id cannot be resolved as offline.
SeenOnline(b) == b = online \/ (IF b THEN "status" ELSE "fls") \in Faults

\* handleGiveItem, handleGiveItems: the path is chosen once for all the items.
\* Bound: a pack is two templates, as many of each.
Route(r) ==
    \E kind \in {"give", "pack"} :
    \E templates \in [1..(IF kind = "give" THEN 1 ELSE 2) -> Templates] :
    \E q \in Quantities, b \in BOOLEAN :
        /\ Asks(r, kind)
        /\ IsInjective(templates)
        /\ SeenOnline(b)
        /\ request' = [request EXCEPT ![r] =
                [pc |-> "next", kind |-> kind, viaGame |-> b,
                 queue |-> [n \in DOMAIN templates |-> <<templates[n], q>>],
                 plan |-> NoPlan]]
        /\ UNCHANGED <<items, online, live, commands, expected, mended>>

Item(r) == Head(request[r].queue)
InGame(r) == request[r].viaGame /\ Item(r)[1] \notin Graded

\* An item is done or skipped: on with the next.
OnWith(r) ==
    IF Len(request[r].queue) = 1 THEN Ends(r)
    ELSE request' = [request EXCEPT ![r].pc = "next", ![r].queue = Tail(@),
                                    ![r].plan = NoPlan]

\* checkInventoryCapacity: the game's command does not look.
CheckCapacity(r) ==
    LET t == Item(r)[1]  q == Item(r)[2]
    IN  /\ At(r, "next") /\ InGame(r)
        /\ IF VolumeFor(q) /\ SlotsFor(Len(NewStacks(q, StackMax(t, q))))
           THEN request' = [request EXCEPT ![r].pc = "send"]
           ELSE OnWith(r)
        /\ UNCHANGED <<items, online, live, commands, asked, expected, mended>>

Send(r) ==
    /\ At(r, "send")
    /\ commands' = Append(commands, Item(r))
    /\ expected' = expected + Item(r)[2]
    /\ OnWith(r)
    /\ UNCHANGED <<items, online, live, asked, mended>>

\* runGiveItem up to its transaction; its reads are taken as one.
PlanGive(r) ==
    LET t == Item(r)[1]  q == Item(r)[2]  plan == Plan(t, q)
    IN  /\ At(r, "next") /\ ~InGame(r)
        /\ IF VolumeFor(q) /\ SlotsFor(Len(plan.sizes))
           THEN request' = [request EXCEPT ![r].pc = "apply", ![r].plan = plan]
           ELSE OnWith(r)
        /\ UNCHANGED <<items, online, live, commands, asked, expected, mended>>

\* Bug: the new size is worked out from what was read.
ToppedAsRead(old, now, add) == old + add

\* SET stack_size = stack_size + add
Topped(old, now, add) == now + add

\* applyGiveItemChanges: an update of a row that is gone changes nothing.
ApplyGive(r) ==
    LET plan == request[r].plan
        add(i) == SelectSeq(plan.adds, LAMBDA a : a[1] = i)
        topped == [i \in DOMAIN items |->
            IF add(i) = <<>> \/ items[i] = Gone THEN items[i]
            ELSE [items[i] EXCEPT !.size = Topped(plan.seen[i].size, @, add(i)[1][2])]]
    IN  /\ At(r, "apply")
        /\ Len(items) + Len(plan.sizes) <= MaxRows
        /\ items' = topped \o [k \in DOMAIN plan.sizes |->
                Row("backpack", Item(r)[1], plan.sizes[k], plan.pos + k - 1)]
        /\ expected' = expected + Item(r)[2]
        /\ OnWith(r)
        /\ UNCHANGED <<online, live, commands, asked, mended>>

\* cmdGiveItemToContainer: one stack, at the position after as many rows.
CountContainer(r) ==
    LET n == Cardinality(Rows("container"))
    IN  \E t \in Templates, q \in Quantities :
        /\ Asks(r, "put")
        /\ IF n >= MaxSlots THEN UNCHANGED request
           ELSE request' = [request EXCEPT ![r] =
                    [pc |-> "insert", kind |-> "put", item |-> <<t, q>>, count |-> n]]
        /\ UNCHANGED <<items, online, live, commands, expected, mended>>

InsertIntoContainer(r) ==
    /\ At(r, "insert") /\ Len(items) < MaxRows
    /\ LET i == request[r].item
       IN  /\ items' = Append(items, Row("container", i[1], i[2], request[r].count))
           /\ expected' = expected + i[2]
    /\ Ends(r)
    /\ UNCHANGED <<online, live, commands, asked, mended>>

\* Bug: an edit that does not ask whether the player is there.
Ungated(v) == TRUE

\* checkPlayerOffline of an inventory's owner; a container is nobody.
OfflineOwner(v) == v = "backpack" => ~online

\* cmdUpdateItem: the owner's check, then the write.
CheckUpdate(r) ==
    \E i \in Present, n \in Quantities :
        /\ Asks(r, "update")
        /\ IF ~OfflineOwner(items[i].inv) THEN UNCHANGED request
           ELSE request' = [request EXCEPT ![r] =
                    [pc |-> "write", kind |-> "update", row |-> i, size |-> n]]
        /\ UNCHANGED <<items, online, live, commands, expected, mended>>

WriteUpdate(r) ==
    /\ At(r, "write")
    /\ LET i == request[r].row  n == request[r].size
       IN  IF items[i] = Gone THEN UNCHANGED <<items, expected>>
           ELSE /\ items' = [items EXCEPT ![i].size = n]
                /\ expected' = expected + n - items[i].size
    /\ Ends(r)
    /\ UNCHANGED <<online, live, commands, asked, mended>>

\* cmdRepairItem of one row, cmdRepairPlayerGear of all that are worn.
CheckRepair(r) ==
    \E rows \in {Rows("backpack")} \union {{i} : i \in Present} :
        /\ Asks(r, "repair")
        /\ IF \E i \in rows : ~OfflineOwner(items[i].inv) THEN UNCHANGED request
           ELSE request' = [request EXCEPT ![r] =
                    [pc |-> "scan", kind |-> "repair", rows |-> rows]]
        /\ UNCHANGED <<items, online, live, commands, expected, mended>>

ScanRepair(r) ==
    /\ At(r, "scan")
    /\ LET worn == {i \in request[r].rows : items[i] # Gone /\ items[i].worn}
       IN  IF worn = {} THEN Ends(r)
           ELSE request' = [request EXCEPT ![r].pc = "mend", ![r].rows = worn]
    /\ UNCHANGED <<items, online, live, commands, asked, expected, mended>>

Mend(r) ==
    /\ At(r, "mend")
    /\ LET rows == request[r].rows \intersect Present
       IN  /\ items' = [i \in DOMAIN items |->
                    IF i \in rows THEN [items[i] EXCEPT !.worn = FALSE] ELSE items[i]]
           /\ mended' = mended \union rows
    /\ Ends(r)
    /\ UNCHANGED <<online, live, commands, asked, expected>>

\* What a row holds: the game's copy while it has one.
Held(i) == IF items[i] = Gone THEN 0
           ELSE IF i \in DOMAIN live THEN live[i].size ELSE items[i].size

PlannedFor(i) == \E r \in Requests :
    At(r, "apply") /\ \E k \in DOMAIN request[r].plan.adds : request[r].plan.adds[k][1] = i

\* cmdDeleteItem: one statement, whoever is there.
Delete(i) ==
    /\ "delete" \in Kinds /\ asked < MaxAsked /\ asked' = asked + 1
    /\ ~DeleteAnytime => ~PlannedFor(i)
    /\ items' = [items EXCEPT ![i] = Gone]
    /\ expected' = expected - Held(i)
    /\ UNCHANGED <<online, live, commands, request, mended>>

-----------------------------------------------------------------------------
(* The game server and the player.                                         *)

Written == [i \in DOMAIN items |->
    IF i \in DOMAIN live /\ items[i] # Gone
    THEN [items[i] EXCEPT !.size = live[i].size, !.worn = live[i].worn] ELSE items[i]]

OnPlayer(r) == ~At(r, "idle") /\ request[r].kind # "put"
ViaGame(r) == Giving(r) /\ request[r].viaGame

Login ==
    /\ ~online
    /\ ~LoginRace => \A r \in Requests : ~OnPlayer(r)
    /\ online' = TRUE
    /\ live' = [i \in Rows("backpack") |-> [size |-> items[i].size, worn |-> items[i].worn]]
    /\ mended' = {}
    /\ UNCHANGED <<items, commands, request, asked, expected>>

\* The copy is written back when the player leaves, and now and then before.
Save ==
    /\ online /\ items' = Written
    /\ UNCHANGED <<online, live, commands, request, asked, expected, mended>>

Logout ==
    /\ online
    /\ "drop" \notin Faults => commands = <<>> /\ \A r \in Requests : ~ViaGame(r)
    /\ items' = Written
    /\ online' = FALSE /\ live' = <<>>
    /\ UNCHANGED <<commands, request, asked, expected, mended>>

\* The game puts what a command brings in a free place, full or not.
Handle ==
    /\ commands # <<>> /\ Len(items) < MaxRows
    /\ commands' = Tail(commands)
    /\ IF ~online THEN UNCHANGED <<items, live>>
       ELSE LET taken == {items[i].pos : i \in Rows("backpack")}
                free == Min((0..MaxRows) \ taken)
                row == Row("backpack", Head(commands)[1], Head(commands)[2], free)
            IN  /\ items' = Append(items, row)
                /\ live' = [i \in DOMAIN live \union {Len(items) + 1} |->
                        IF i \in DOMAIN live THEN live[i]
                        ELSE [size |-> row.size, worn |-> FALSE]]
    /\ UNCHANGED <<online, request, asked, expected, mended>>

\* The player uses up a unit of a stack, and wears it.
Use(i) ==
    /\ i \in DOMAIN live /\ items[i] # Gone
    /\ \/ live[i].size > 1 /\ expected' = expected - 1
          /\ live' = [live EXCEPT ![i].size = @ - 1]
       \/ live' = [live EXCEPT ![i].worn = TRUE] /\ UNCHANGED expected
    /\ UNCHANGED <<items, online, commands, request, asked, mended>>

Next ==
    \/ \E r \in Requests :
          \/ Route(r) \/ CheckCapacity(r) \/ Send(r) \/ PlanGive(r) \/ ApplyGive(r)
          \/ CountContainer(r) \/ InsertIntoContainer(r)
          \/ CheckUpdate(r) \/ WriteUpdate(r)
          \/ CheckRepair(r) \/ ScanRepair(r) \/ Mend(r)
    \/ \E i \in Present : Delete(i) \/ Use(i)
    \/ Login \/ Save \/ Logout \/ Handle

Spec == Init /\ [][Next]_vars

Alike == Permutations(Requests)

-----------------------------------------------------------------------------

TypeOK ==
    /\ \A i \in Present : items[i] \in
           [inv : Inventories, template : Templates, size : Nat, pos : Nat, worn : BOOLEAN]
    /\ Len(items) <= MaxRows
    /\ online \in BOOLEAN
    /\ DOMAIN live \subseteq DOMAIN items
    /\ commands \in Seq(Templates \X Quantities)
    /\ \A r \in Requests : At(r, "idle") \/ request[r].kind \in Kinds
    /\ asked \in 0..MaxAsked
    /\ expected \in Int
    /\ mended \subseteq DOMAIN items

Carried == FoldSeq(LAMBDA c, n : c[2] + n, 0, commands)

(* Nothing is lost and nothing doubled: the units in the inventories and   *)
(* in commands under way are those the requests answered for, less what    *)
(* was deleted and used, however requests and the game's saves interleave. *)
Conserved == MapThenSumSet(Held, DOMAIN items) + Carried = expected

(* A row reported as repaired stays so until the player is next online:    *)
(* no save of an old copy undoes it.                                       *)
MendedStays == \A i \in mended : items[i] # Gone => ~items[i].worn

Taken(v) == {items[i].pos : i \in Rows(v)}
NewRows == {i \in DOMAIN items' : i > Len(items)}
More(m, n) == IF m > n THEN m ELSE n

(* A give whose backpack did not change between its plan and its           *)
(* transaction leaves it within its slots and volume, every stack within   *)
(* what stacks, every new row in a place of its own.                       *)
GiveFits == [][\A r \in Requests :
    At(r, "apply") /\ request'[r] # request[r] /\ request[r].plan.seen = items =>
        LET t == Item(r)[1]  q == Item(r)[2]
            rows == {i \in DOMAIN items' : items'[i].inv = "backpack"}
        IN  /\ Cardinality(rows) <= More(MaxSlots, Cardinality(Rows("backpack")))
            /\ MapThenSumSet(LAMBDA i : items'[i].size, rows) <= MaxVolume
            /\ \A i \in rows : (i \in NewRows \/ items'[i] # items[i]) =>
                   items'[i].size <= StackMax(t, q)
            /\ \A i \in NewRows : items'[i].pos \notin Taken("backpack")
            /\ \A i, j \in NewRows : items'[i].pos = items'[j].pos => i = j]_vars

(* No two rows of the container are at the same position.                  *)
OneEachPlace == \A i, j \in Rows("container") : items[i].pos = items[j].pos => i = j

(* No request leaves an inventory with more rows than it has slots.        *)
WithinSlots == \A v \in Inventories : Cardinality(Rows(v)) <= MaxSlots
=============================================================================
