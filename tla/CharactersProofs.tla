--------------------------- MODULE CharactersProofs ---------------------------
(***************************************************************************)
(* Theorems about deleting, backing up and restoring a character, for any  *)
(* number of requests and every bound: what is left of a deleted account   *)
(* is cleaned and nothing that lives is, a listed backup can be trusted,   *)
(* and no safe delete takes away what no backup holds.                     *)
(***************************************************************************)
EXTENDS Characters, TLAPS

-----------------------------------------------------------------------------
(* Type correctness.  A request carries at each place in the code what the *)
(* code has read by then, so its type is one of these shapes.              *)

Ids == Nat \ {0}
Data == [level : 0..MaxLevel, patch : 1..MaxPatch]
Paths == Ids \X Nat

Bare == [pc : {"remove", "clean"}, kind : {"delete", "plain"} \cap Kinds, account : Nat]
Exporting == [pc : {"resolve", "export"}, kind : {"safeDelete", "backup"} \cap Kinds, account : Ids]
Writing == [pc : {"write"}, kind : {"safeDelete", "backup"} \cap Kinds, account : Ids, data : Data]
Recording == [pc : {"record", "remove", "clean"}, kind : {"safeDelete", "backup"} \cap Kinds,
              account : Ids, data : Data, path : Paths]
Loaded == [pc : {"old"}, kind : {"restore"} \cap Kinds, data : Data, record : Nat]
Restoring == [pc : {"import", "clean", "actors"}, kind : {"restore"} \cap Kinds, data : Data,
              record : Nat, account : Nat]
Dropping == [pc : {"unlink"}, kind : {"drop"} \cap Kinds, path : Paths]

Shape == {Idle} \cup Bare \cup Exporting \cup Writing \cup Recording \cup Loaded
         \cup Restoring \cup Dropping

Row == {Dropped} \cup [path : Paths, data : Data, account : Nat]

Types ==
    /\ issued \in 1..MaxAccounts /\ account \in {0, issued}
    /\ states \in SUBSET (1..issued) /\ actors \in SUBSET (1..issued)
    /\ bases \in SUBSET (1..issued)
    /\ level \in 0..MaxLevel /\ patch \in 1..MaxPatch /\ clock \in 1..MaxSeconds
    /\ asked \in 0..MaxAsked
    /\ online \in BOOLEAN /\ owed \in BOOLEAN /\ (online => account # 0)
    /\ store \in BOOLEAN
    /\ DOMAIN files \subseteq Paths
    /\ \A p \in DOMAIN files : files[p] \in Data
    /\ records \in Seq(Row)
    /\ request \in [Requests -> Shape]

\* Request r is put at s and no other request moves.
Becomes(r, s) == request' = [request EXCEPT ![r] = s]

LEMMA Placed ==
    ASSUME Types, NEW r \in Requests, NEW s \in Shape, Becomes(r, s)
    PROVE  /\ request' \in [Requests -> Shape]
           /\ request'[r] = s
           /\ \A q \in Requests : q # r => request'[q] = request[q]
BY DEF Types, Becomes

\* Where a request is tells what it carries.
LEMMA Shapes ==
    ASSUME Types, NEW r \in Requests
    PROVE  /\ At(r, "resolve") \/ At(r, "export") => request[r] \in Exporting
           /\ At(r, "write") => request[r] \in Writing
           /\ At(r, "record") => request[r] \in Recording
           /\ At(r, "remove") => request[r] \in Bare \cup Recording
           /\ At(r, "clean") => request[r] \in Bare \cup Recording \cup Restoring
           /\ At(r, "old") => request[r] \in Loaded
           /\ At(r, "import") => request[r] \in Restoring
           /\ At(r, "actors") => request[r] \in Restoring
           /\ At(r, "unlink") => request[r] \in Dropping
           /\ ~At(r, "idle") /\ request[r].kind = "restore" =>
                  request[r] \in Loaded \cup Restoring
<1>1. request[r] \in Shape  BY DEF Types
<1>2. CASE request[r] = Idle  BY <1>2 DEF At, Idle
<1>3. CASE request[r] \in Bare  BY <1>3 DEF At, Bare
<1>4. CASE request[r] \in Exporting  BY <1>4 DEF At, Exporting
<1>5. CASE request[r] \in Writing  BY <1>5 DEF At, Writing
<1>6. CASE request[r] \in Recording  BY <1>6 DEF At, Recording
<1>7. CASE request[r] \in Loaded  BY <1>7 DEF At, Loaded
<1>8. CASE request[r] \in Restoring  BY <1>8 DEF At, Restoring
<1>9. CASE request[r] \in Dropping  BY <1>9 DEF At, Dropping
<1> QED  BY <1>1, <1>2, <1>3, <1>4, <1>5, <1>6, <1>7, <1>8, <1>9 DEF Shape

\* A request that only moves on keeps what it carries.
LEMMA Moved ==
    ASSUME Types, NEW r \in Requests, NEW pc,
           \/ At(r, "resolve") /\ pc = "export"
           \/ At(r, "record") /\ pc = "remove"
           \/ At(r, "remove") /\ pc = "clean"
           \/ At(r, "import") /\ pc = "clean"
           \/ At(r, "clean") /\ request[r].kind = "restore" /\ pc = "actors",
           Goes(r, pc)
    PROVE  /\ request' \in [Requests -> Shape]
           /\ \A q \in Requests : q # r => request'[q] = request[q]
           /\ request'[r].pc = pc /\ request'[r].kind = request[r].kind
           /\ request[r] \in Recording \cup Restoring =>
                  /\ request'[r].data = request[r].data
           /\ request[r] \in Restoring =>
                  /\ request'[r].account = request[r].account
                  /\ request'[r].record = request[r].record
<1> DEFINE s == [request[r] EXCEPT !.pc = pc]
<1>1. Becomes(r, s)  BY DEF Goes, Becomes
<1>2. CASE request[r] \in Bare
  <2>1. pc = "clean"  BY <1>2 DEF At, Bare
  <2>2. s \in Bare /\ s.pc = pc /\ s.kind = request[r].kind  BY <1>2, <2>1 DEF Bare
  <2>3. request[r] \notin Recording \cup Restoring  BY <1>2 DEF Bare, Recording, Restoring
  <2> HIDE DEF s
  <2>4. s \in Shape  BY <2>2 DEF Shape
  <2> QED  BY <1>1, <2>2, <2>3, <2>4, Placed
<1>3. CASE request[r] \in Recording
  <2>1. pc \in {"remove", "clean"}  BY <1>3 DEF At, Recording
  <2>2. s \in Recording /\ s.pc = pc /\ s.kind = request[r].kind /\ s.data = request[r].data
    BY <1>3, <2>1 DEF Recording
  <2>3. request[r] \notin Restoring  BY <1>3 DEF Recording, Restoring
  <2> HIDE DEF s
  <2>4. s \in Shape  BY <2>2 DEF Shape
  <2> QED  BY <1>1, <2>2, <2>3, <2>4, Placed
<1>4. CASE request[r] \in Restoring
  <2>1. pc \in {"clean", "actors"}  BY <1>4 DEF At, Restoring
  <2>2. s \in Restoring /\ s.pc = pc /\ s.kind = request[r].kind /\ s.data = request[r].data
        /\ s.account = request[r].account /\ s.record = request[r].record
    BY <1>4, <2>1 DEF Restoring
  <2> HIDE DEF s
  <2>4. s \in Shape  BY <2>2 DEF Shape
  <2> QED  BY <1>1, <2>2, <2>4, Placed
<1>5. CASE request[r] \in Exporting
  <2>1. pc = "export"  BY <1>5 DEF At, Exporting
  <2>2. s \in Exporting /\ s.pc = pc /\ s.kind = request[r].kind  BY <1>5, <2>1 DEF Exporting
  <2>3. request[r] \notin Recording \cup Restoring
    BY <1>5 DEF Exporting, Recording, Restoring
  <2> HIDE DEF s
  <2>4. s \in Shape  BY <2>2 DEF Shape
  <2> QED  BY <1>1, <2>2, <2>3, <2>4, Placed
<1> QED  BY <1>2, <1>3, <1>4, <1>5, Shapes

LEMMA Ended ==
    ASSUME Types, NEW r \in Requests, Ends(r)
    PROVE  /\ request' \in [Requests -> Shape]
           /\ request'[r] = Idle /\ request'[r].pc = "idle"
           /\ \A q \in Requests : q # r => request'[q] = request[q]
<1>1. Idle \in Shape /\ Becomes(r, Idle)  BY DEF Shape, Becomes, Ends
<1> QED  BY <1>1, Placed DEF Idle

\* A kept record is a full row.
LEMMA KeptRow ==
    ASSUME Types, NEW k \in Kept
    PROVE  /\ records[k] \in [path : Paths, data : Data, account : Nat]
           /\ k \in Nat /\ k \in DOMAIN records
<1>1. k \in DOMAIN records /\ records[k] # Dropped  BY DEF Kept
<1>2. records[k] \in Row /\ k \in Nat  BY <1>1 DEF Types
<1> QED  BY <1>1, <1>2 DEF Row

-----------------------------------------------------------------------------
(* What each action makes of its request, with the types it keeps.         *)

LEMMA InitTypes == Init => Types
<1> SUFFICES ASSUME Init PROVE Types  OBVIOUS
<1> USE BoundAssumption DEF BoundAssumption
<1>1. DOMAIN files = {} /\ records \in Seq(Row)  BY DEF Init
<1>2. request \in [Requests -> Shape]  BY DEF Init, Shape
<1>3. DOMAIN files \subseteq Paths /\ \A p \in DOMAIN files : files[p] \in Data  BY <1>1
<1>4. {1} \in SUBSET (1..1) /\ {} \in SUBSET (1..1)  OBVIOUS
<1>5. /\ issued \in 1..MaxAccounts /\ account \in {0, issued} /\ level \in 0..MaxLevel
      /\ patch \in 1..MaxPatch /\ clock \in 1..MaxSeconds /\ asked \in 0..MaxAsked
  BY DEF Init
<1> QED  BY <1>1, <1>2, <1>3, <1>4, <1>5 DEF Init, Types

LEMMA AskedType ==
    ASSUME Types, asked < MaxAsked, asked' = asked + 1 PROVE asked' \in 0..MaxAsked
BY BoundAssumption DEF BoundAssumption, Types

LEMMA KindType ==
    ASSUME NEW r \in Requests, NEW kind, Asks(r, kind)
    PROVE  kind \in Kinds /\ asked < MaxAsked /\ asked' = asked + 1
BY DEF Asks

\* The requests that stand still and the one that moves, for any step.
OthersStay(r) == \A q \in Requests : q # r => request'[q] = request[q]

LEMMA ResolveStep ==
    ASSUME Types, NEW r \in Requests, Resolve(r)
    PROVE  /\ Types' /\ OthersStay(r)
           /\ request' = request \/ request'[r].pc \in {"remove", "resolve", "export"}
           /\ request'[r].pc = "remove" => request'[r].kind # "safeDelete"
           /\ request' = request \/ request'[r].kind # "restore"
<1>1. PICK kind \in {"delete", "safeDelete", "plain", "backup"}, a \in 1..issued :
          /\ Asks(r, kind) /\ At(r, "idle")
          /\ IF a # account THEN UNCHANGED request
             ELSE request' = [request EXCEPT ![r] =
                      [pc |-> CASE kind = "safeDelete" -> "resolve"
                                [] kind = "backup" -> "export"
                                [] OTHER -> "remove",
                       kind |-> kind, account |-> a]]
  BY DEF Resolve, Asks
<1>2. asked' \in 0..MaxAsked  BY <1>1, KindType, AskedType
<1>3. CASE request' = request
  <2>1. ~At(r, "remove") /\ request'[r].pc # "remove"  BY <1>1, <1>3 DEF At
  <2>2. Types'  BY <1>3, <1>2 DEF Resolve, Types, database, world
  <2> QED  BY <1>3, <2>1, <2>2 DEF OthersStay
<1>4. CASE request' # request
  <2> DEFINE s == [pc |-> CASE kind = "safeDelete" -> "resolve"
                            [] kind = "backup" -> "export"
                            [] OTHER -> "remove",
                   kind |-> kind, account |-> a]
  <2>1. Becomes(r, s) /\ a \in Ids /\ kind \in Kinds
    BY <1>1, <1>4, KindType DEF Becomes, Ids, Types
  <2>2. s \in Bare \cup Exporting  BY <2>1 DEF Bare, Exporting, Ids
  <2>3. /\ s.pc \in {"remove", "resolve", "export"} /\ s.kind # "restore"
        /\ s.pc = "remove" => s.kind # "safeDelete"
    OBVIOUS
  <2> HIDE DEF s
  <2>4. s \in Shape  BY <2>2 DEF Shape
  <2>5. request' \in [Requests -> Shape] /\ OthersStay(r) /\ request'[r] = s
    BY <2>1, <2>4, Placed DEF OthersStay
  <2>6. Types'  BY <1>2, <2>5 DEF Resolve, Types, database, world
  <2> QED  BY <2>3, <2>5, <2>6
<1> QED  BY <1>3, <1>4

LEMMA AgainStep ==
    ASSUME Types, NEW r \in Requests, ResolveAgain(r)
    PROVE  /\ Types' /\ OthersStay(r)
           /\ \/ request'[r].pc = "idle"
              \/ request'[r].pc = "export" /\ request'[r].kind # "restore"
<1>1. CASE Ends(r)
  BY <1>1, Ended DEF ResolveAgain, Types, database, world, OthersStay
<1>2. CASE ~Ends(r)
  <2>1. At(r, "resolve") /\ Goes(r, "export")  BY <1>2 DEF ResolveAgain
  <2>2. /\ request' \in [Requests -> Shape] /\ OthersStay(r)
        /\ request'[r].pc = "export" /\ request'[r].kind = request[r].kind
    BY <2>1, Moved DEF OthersStay
  <2>3. request[r] \in Exporting  BY <2>1, Shapes
  <2>4. request'[r].kind # "restore"  BY <2>2, <2>3 DEF Exporting
  <2> QED  BY <2>2, <2>4 DEF ResolveAgain, Types, database, world
<1> QED  BY <1>1, <1>2

LEMMA ExportStep ==
    ASSUME Types, NEW r \in Requests, Export(r)
    PROVE  /\ Types' /\ OthersStay(r)
           /\ \/ request'[r] = Idle
              \/ /\ request'[r] \in Writing /\ ~online
                 /\ request'[r].data.level = level
<1>1. CASE Ends(r)
  BY <1>1, Ended DEF Export, Types, database, world, OthersStay
<1>2. CASE ~Ends(r)
  <2> DEFINE s == [pc |-> "write", kind |-> request[r].kind, account |-> request[r].account,
                   data |-> [level |-> level, patch |-> patch]]
  <2>1. Becomes(r, s) /\ ~online  BY <1>2 DEF Export, Becomes
  <2>2. request[r] \in Exporting  BY Shapes DEF Export
  <2>3. s \in Writing /\ s.data.level = level
    BY <2>2 DEF Exporting, Writing, Data, Types
  <2> HIDE DEF s
  <2>4. s \in Shape  BY <2>3 DEF Shape
  <2> QED  BY <2>1, <2>3, <2>4, Placed DEF Export, Types, database, world, OthersStay
<1> QED  BY <1>1, <1>2

LEMMA WriteStep ==
    ASSUME Types, NEW r \in Requests, WriteFile(r)
    PROVE  /\ Types' /\ OthersStay(r)
           /\ \/ request'[r] = Idle /\ files' = files
              \/ /\ request'[r] \in Recording /\ request'[r].pc = "record"
                 /\ request'[r].kind = request[r].kind /\ request'[r].data = request[r].data
                 /\ request'[r].path \in DOMAIN files'
                 /\ files'[request'[r].path] = request[r].data
                 /\ DOMAIN files \subseteq DOMAIN files'
                 /\ "second" \notin Races =>
                        /\ request'[r].path \notin DOMAIN files
                        /\ \A p \in DOMAIN files : files'[p] = files[p]
<1> DEFINE path == Path(request[r].account)
<1>0. request[r] \in Writing  BY Shapes DEF WriteFile
<1>1. CASE files' = files /\ Ends(r)
  BY <1>1, Ended DEF WriteFile, Types, database, world, OthersStay
<1>2. CASE ~(files' = files /\ Ends(r))
  <2> DEFINE s == [pc |-> "record", kind |-> request[r].kind, account |-> request[r].account,
                   data |-> request[r].data, path |-> path]
  <2>1. /\ Becomes(r, s)
        /\ files' = [p \in DOMAIN files \union {path} |->
                        IF p = path THEN request[r].data ELSE files[p]]
        /\ "second" \in Races \/ path \notin DOMAIN files
    BY <1>2 DEF WriteFile, Becomes, Path
  <2>2. path \in Paths /\ request[r].data \in Data
    BY <1>0 DEF Writing, Path, Paths, Types
  <2> HIDE DEF path
  <2>3. s \in Recording /\ s.pc = "record" /\ s.data = request[r].data /\ s.path = path
        /\ s.kind = request[r].kind
    BY <1>0, <2>2 DEF Writing, Recording
  <2> HIDE DEF s
  <2>4. s \in Shape  BY <2>3 DEF Shape
  <2>5. /\ DOMAIN files' = DOMAIN files \union {path} /\ files'[path] = request[r].data
        /\ \A p \in DOMAIN files : p # path => files'[p] = files[p]
    BY <2>1
  <2>6. /\ DOMAIN files' \subseteq Paths
        /\ \A p \in DOMAIN files' : files'[p] \in Data
    BY <2>2, <2>5 DEF Types
  <2>7. request' \in [Requests -> Shape] /\ OthersStay(r) /\ request'[r] = s
    BY <2>1, <2>4, Placed DEF OthersStay
  <2>8. Types'  BY <2>6, <2>7 DEF WriteFile, Types, database, world
  <2> QED  BY <2>1, <2>3, <2>5, <2>7, <2>8
<1> QED  BY <1>1, <1>2

\* A record that is added is kept, under an id of its own.
LEMMA RecordAdded ==
    ASSUME Types, NEW row \in [path : Paths, data : Data, account : Nat],
           records' = Append(records, row)
    PROVE  /\ records' \in Seq(Row)
           /\ Kept' = Kept \cup {Len(records) + 1} /\ Len(records) + 1 \notin Kept
           /\ records'[Len(records) + 1] = row
           /\ \A k \in Kept : records'[k] = records[k]
<1> DEFINE n == Len(records)
<1>1. n \in Nat /\ DOMAIN records = 1..n /\ records \in Seq(Row) /\ row \in Row  BY DEF Types, Row
<1>2. records' \in Seq(Row) /\ DOMAIN records' = 1..(n + 1)  BY <1>1
<1>3. records'[n + 1] = row /\ \A k \in 1..n : records'[k] = records[k]  BY <1>1
<1>4. row # Dropped
  <2>1. row.path[1] \in Ids  BY DEF Paths
  <2>2. Dropped.path[1] = 0  BY DEF Dropped
  <2> QED  BY <2>1, <2>2 DEF Ids
<1> HIDE DEF n
<1>5. Kept' = {k \in 1..(n + 1) : records'[k] # Dropped}  BY <1>2 DEF Kept
<1>6. Kept = {k \in 1..n : records[k] # Dropped}  BY <1>1 DEF Kept
<1>7. Kept' = Kept \cup {n + 1} /\ n + 1 \notin Kept
  BY <1>1, <1>3, <1>4, <1>5, <1>6
<1>8. \A k \in Kept : records'[k] = records[k]  BY <1>3, <1>6
<1> QED  BY <1>2, <1>3, <1>7, <1>8 DEF n

\* A record that is dropped is not, and the others stay.
LEMMA RecordDropped ==
    ASSUME Types, NEW k \in Kept, records' = [records EXCEPT ![k] = Dropped]
    PROVE  /\ records' \in Seq(Row)
           /\ Kept' = Kept \ {k}
           /\ \A l \in Kept : l # k => records'[l] = records[l]
<1> DEFINE n == Len(records)
<1>1. n \in Nat /\ DOMAIN records = 1..n /\ records \in Seq(Row) /\ k \in 1..n /\ Dropped \in Row
  BY DEF Types, Kept, Row
<1>2. records' \in Seq(Row) /\ DOMAIN records' = 1..n  BY <1>1
<1>3. records'[k] = Dropped /\ \A l \in 1..n : l # k => records'[l] = records[l]  BY <1>1
<1> HIDE DEF n
<1>4. Kept' = {l \in 1..n : records'[l] # Dropped}  BY <1>2 DEF Kept
<1>5. Kept = {l \in 1..n : records[l] # Dropped}  BY <1>1 DEF Kept
<1> QED  BY <1>1, <1>2, <1>3, <1>4, <1>5

LEMMA RecordStep ==
    ASSUME Types, NEW r \in Requests, CreateRecord(r)
    PROVE  /\ Types' /\ OthersStay(r)
           /\ request'[r].pc \in {"idle", "remove"}
           /\ request'[r].pc = "remove" => request'[r].kind = request[r].kind
           /\ \/ records' = records /\ (store => request'[r].pc = "idle")
              \/ /\ store
                 /\ Kept' = Kept \cup {Len(records) + 1} /\ Len(records) + 1 \notin Kept
                 /\ records'[Len(records) + 1].path = request[r].path
                 /\ records'[Len(records) + 1].data = request[r].data
                 /\ \A k \in Kept : records'[k] = records[k]
<1>1. request[r] \in Recording /\ At(r, "record")  BY Shapes DEF CreateRecord
<1>2. /\ request' \in [Requests -> Shape] /\ OthersStay(r)
      /\ request'[r].pc \in {"idle", "remove"}
      /\ request'[r].pc = "remove" => request'[r].kind = request[r].kind
      /\ Unrecorded(r) => request'[r].pc = "idle"
  <2>1. CASE Ends(r)  BY <2>1, Ended DEF OthersStay
  <2>2. CASE ~Ends(r)
    <3>1. Goes(r, "remove") /\ ~Unrecorded(r)
      BY <2>2 DEF CreateRecord, Captured, Unrecorded
    <3> QED  BY <1>1, <3>1, Moved DEF OthersStay
  <2> QED  BY <2>1, <2>2
<1>3. CASE records' = records
  <2>1. store => Unrecorded(r)
    <3> DEFINE row == [path |-> request[r].path, data |-> request[r].data,
                       account |-> request[r].account]
    <3>1. row \in [path : Paths, data : Data, account : Nat]  BY <1>1 DEF Recording, Ids
    <3> HIDE DEF row
    <3>2. records' # Append(records, row)  BY <1>3, <3>1, RecordAdded
    <3> QED  BY <3>2 DEF CreateRecord, row
  <2> QED  BY <1>2, <1>3, <2>1 DEF CreateRecord, Types, database, world
<1>4. CASE records' # records
  <2> DEFINE row == [path |-> request[r].path, data |-> request[r].data,
                     account |-> request[r].account]
  <2>1. /\ row \in [path : Paths, data : Data, account : Nat]
        /\ row.path = request[r].path /\ row.data = request[r].data
    BY <1>1 DEF Recording, Ids
  <2>2. store /\ records' = Append(records, row)  BY <1>4 DEF CreateRecord
  <2> HIDE DEF row
  <2>3. Types'  BY <1>2, <2>1, <2>2, RecordAdded DEF CreateRecord, Types, database, world
  <2> QED  BY <1>2, <2>1, <2>2, <2>3, RecordAdded
<1> QED  BY <1>3, <1>4

LEMMA RemoveStep ==
    ASSUME Types, NEW r \in Requests, Remove(r)
    PROVE  /\ Types' /\ OthersStay(r)
           /\ \/ request'[r].pc = "idle" /\ account' = account /\ actors' = actors
                 /\ online' = online
              \/ request'[r].pc = "clean" /\ request'[r].kind # "restore"
                 /\ account' = 0 /\ online' = FALSE
<1>1. CASE account = 0
  <2>1. /\ Ends(r) /\ UNCHANGED <<account, actors, online>>  BY <1>1 DEF Remove
  <2>2. request' \in [Requests -> Shape] /\ OthersStay(r) /\ request'[r].pc = "idle"
    BY <2>1, Ended DEF OthersStay
  <2> QED  BY <2>1, <2>2 DEF Remove, Types
<1>2. CASE account # 0
  <2>1. /\ Goes(r, "clean") /\ At(r, "remove") /\ Deleted("delete") /\ account' = 0
        /\ online' = FALSE
    BY <1>2 DEF Remove
  <2>2. /\ request' \in [Requests -> Shape] /\ OthersStay(r)
        /\ request'[r].pc = "clean" /\ request'[r].kind = request[r].kind
    BY <2>1, Moved DEF OthersStay
  <2>3. request[r].kind # "restore"  BY <2>1, Shapes DEF Bare, Recording
  <2>4. actors' \in SUBSET (1..issued)  BY <2>1 DEF Deleted, Types
  <2>5. Types'  BY <2>1, <2>2, <2>4 DEF Remove, Types
  <2> QED  BY <2>1, <2>2, <2>3, <2>5
<1> QED  BY <1>1, <1>2

LEMMA RemovePlainStep ==
    ASSUME Types, NEW r \in Requests, RemovePlain(r)
    PROVE  /\ Types' /\ OthersStay(r) /\ request'[r].pc = "idle"
           /\ \/ account' = account /\ actors' = actors /\ online' = online /\ owed' = owed
              \/ account' = 0 /\ online' = FALSE /\ owed' = TRUE
<1>1. request' \in [Requests -> Shape] /\ OthersStay(r) /\ request'[r].pc = "idle"
  BY Ended DEF RemovePlain, OthersStay
<1>2. CASE account = 0  BY <1>1, <1>2 DEF RemovePlain, Types
<1>3. CASE account # 0
  <2>1. actors' \in SUBSET (1..issued)  BY <1>3 DEF RemovePlain, Deleted, Types
  <2> QED  BY <1>1, <1>3, <2>1 DEF RemovePlain, Types
<1> QED  BY <1>2, <1>3

LEMMA CleanStep ==
    ASSUME Types, NEW r \in Requests, CleanStates(r)
    PROVE  /\ Types' /\ OthersStay(r)
           /\ \/ request'[r].pc = "idle"
              \/ /\ request'[r].pc = "actors" /\ request[r] \in Restoring
                 /\ request'[r].kind = request[r].kind /\ request'[r].data = request[r].data
                 /\ request'[r].account = request[r].account
                 /\ request'[r].record = request[r].record
           /\ \/ states' = states \intersect {account}
              \/ states' = states /\ owed' = TRUE
<1>1. /\ request' \in [Requests -> Shape] /\ OthersStay(r)
      /\ \/ request'[r].pc = "idle"
         \/ /\ request'[r].pc = "actors" /\ request[r] \in Restoring
            /\ request'[r].kind = request[r].kind /\ request'[r].data = request[r].data
            /\ request'[r].account = request[r].account
            /\ request'[r].record = request[r].record
  <2>1. CASE Ends(r)  BY <2>1, Ended DEF OthersStay
  <2>2. CASE ~Ends(r)
    <3>1. At(r, "clean") /\ request[r].kind = "restore" /\ Goes(r, "actors")
      BY <2>2 DEF CleanStates
    <3>2. request[r] \in Restoring  BY <3>1, Shapes DEF Bare, Recording
    <3> QED  BY <3>1, <3>2, Moved DEF OthersStay
  <2> QED  BY <2>1, <2>2
<1>2. Types'  BY <1>1 DEF CleanStates, Cleaned, Types, world
<1> QED  BY <1>1, <1>2 DEF CleanStates, Cleaned

LEMMA LoadStep ==
    ASSUME Types, NEW r \in Requests, LoadBackup(r)
    PROVE  /\ Types' /\ OthersStay(r)
           /\ \/ request' = request
              \/ /\ request'[r] \in Loaded /\ request'[r].record \in Kept
                 /\ records[request'[r].record].path \in DOMAIN files
                 /\ request'[r].data = files[records[request'[r].record].path]
<1>1. PICK k \in DOMAIN records :
          IF k \notin Kept \/ records[k].path \notin DOMAIN files THEN UNCHANGED request
          ELSE request' = [request EXCEPT ![r] = [pc |-> "old", kind |-> "restore",
                              data |-> files[records[k].path], record |-> k]]
  BY DEF LoadBackup
<1>2. "restore" \in Kinds /\ asked' \in 0..MaxAsked
  BY KindType, AskedType DEF LoadBackup
<1>3. CASE request' = request
  <2>1. Types'  BY <1>3, <1>2 DEF LoadBackup, Types, database, world
  <2> QED  BY <1>3, <2>1 DEF OthersStay
<1>4. CASE request' # request
  <2> DEFINE s == [pc |-> "old", kind |-> "restore", data |-> files[records[k].path],
                   record |-> k]
  <2>1. k \in Kept /\ records[k].path \in DOMAIN files /\ Becomes(r, s)
    BY <1>1, <1>4 DEF Becomes
  <2>2. files[records[k].path] \in Data /\ k \in Nat  BY <2>1, KeptRow DEF Types
  <2>3. s \in Loaded /\ s.record = k /\ s.data = files[records[k].path]
    BY <1>2, <2>2 DEF Loaded
  <2> HIDE DEF s
  <2>4. s \in Shape  BY <2>3 DEF Shape
  <2>5. request' \in [Requests -> Shape] /\ OthersStay(r) /\ request'[r] = s
    BY <2>1, <2>4, Placed DEF OthersStay
  <2>6. Types'  BY <1>2, <2>5 DEF LoadBackup, Types, database, world
  <2> QED  BY <2>1, <2>3, <2>5, <2>6
<1> QED  BY <1>3, <1>4

LEMMA ResolveOldStep ==
    ASSUME Types, NEW r \in Requests, ResolveOld(r)
    PROVE  /\ Types' /\ OthersStay(r)
           /\ request'[r] \in Restoring /\ request'[r].pc = "import"
           /\ request'[r].data = request[r].data /\ request'[r].record = request[r].record
           /\ request'[r].account = account
<1> DEFINE s == [pc |-> "import", kind |-> "restore", data |-> request[r].data,
                 record |-> request[r].record, account |-> account]
<1>1. Becomes(r, s) /\ request[r] \in Loaded  BY Shapes DEF ResolveOld, Becomes
<1>2. account \in Nat  BY DEF Types, Ids
<1>3. s \in Restoring /\ s.pc = "import" /\ s.data = request[r].data
      /\ s.record = request[r].record /\ s.account = account
  BY <1>1, <1>2 DEF Loaded, Restoring
<1> HIDE DEF s
<1>4. s \in Shape  BY <1>3 DEF Shape
<1>5. request' \in [Requests -> Shape] /\ OthersStay(r) /\ request'[r] = s
  BY <1>1, <1>4, Placed DEF OthersStay
<1>6. Types'  BY <1>5 DEF ResolveOld, Types, database, world
<1> QED  BY <1>3, <1>5, <1>6

LEMMA ImportStep ==
    ASSUME Types, NEW r \in Requests, Import(r)
    PROVE  /\ Types' /\ OthersStay(r) /\ request[r] \in Restoring
           /\ \/ /\ request'[r].pc = "idle"
                 /\ UNCHANGED <<account, issued, states, actors, level>>
              \/ /\ request'[r].pc = "clean" /\ request'[r].kind = "restore"
                 /\ request'[r].data = request[r].data
                 /\ request'[r].record = request[r].record
                 /\ request'[r].account = request[r].account
                 /\ issued' = issued + 1 /\ account' = issued'
                 /\ states' = states \cup {issued'} /\ issued' \in actors'
                 /\ level' = request[r].data.level
<1>1. At(r, "import") /\ request[r] \in Restoring  BY Shapes DEF Import
<1>2. CASE online \/ request[r].data.patch # patch
  <2>1. Ends(r) /\ UNCHANGED <<account, issued, states, actors, level>>
    BY <1>2 DEF Import, Refused
  <2>2. request' \in [Requests -> Shape] /\ OthersStay(r) /\ request'[r].pc = "idle"
    BY <2>1, Ended DEF OthersStay
  <2> QED  BY <1>1, <2>1, <2>2 DEF Import, Types, world
<1>3. CASE ~(online \/ request[r].data.patch # patch)
  <2>1. /\ issued' = issued + 1 /\ account' = issued' /\ states' = states \cup {issued'}
        /\ level' = request[r].data.level /\ Goes(r, "clean")
        /\ \E leaks \in {FALSE} \union {"import" \in Leaks} :
               actors' = (IF leaks THEN actors ELSE actors \ {account}) \union {issued'}
    BY <1>3 DEF Import
  <2>2. /\ request' \in [Requests -> Shape] /\ OthersStay(r)
        /\ request'[r].pc = "clean" /\ request'[r].kind = request[r].kind
        /\ request'[r].data = request[r].data /\ request'[r].record = request[r].record
        /\ request'[r].account = request[r].account
    BY <1>1, <2>1, Moved DEF OthersStay
  <2>3. request[r].kind = "restore" /\ level' \in 0..MaxLevel
    BY <1>1, <2>1 DEF Restoring, Data
  <2>4. issued' \in 1..MaxAccounts /\ 1..issued \subseteq 1..issued' /\ issued' \in 1..issued'
    BY <1>3, <2>1, BoundAssumption DEF Types, Import, BoundAssumption
  <2>5. /\ actors' \in SUBSET (1..issued') /\ issued' \in actors'
        /\ states' \in SUBSET (1..issued') /\ bases' \in SUBSET (1..issued')
    BY <2>1, <2>4 DEF Types, Import, world
  <2>6. Types'  BY <2>1, <2>2, <2>3, <2>4, <2>5 DEF Import, Types, world
  <2> QED  BY <1>1, <2>1, <2>2, <2>3, <2>5, <2>6
<1> QED  BY <1>2, <1>3

LEMMA CleanActorsStep ==
    ASSUME Types, NEW r \in Requests, CleanActors(r)
    PROVE  /\ Types' /\ OthersStay(r) /\ request'[r].pc = "idle"
           /\ At(r, "actors") /\ request[r] \in Restoring
           /\ actors' = actors \ {request[r].account} /\ bases' = bases
<1>1. request[r] \in Restoring /\ At(r, "actors")  BY Shapes DEF CleanActors
<1>2. request' \in [Requests -> Shape] /\ OthersStay(r) /\ request'[r].pc = "idle"
  BY Ended DEF CleanActors, OthersStay
<1>3. actors' \in SUBSET (1..issued) /\ bases' = bases  BY DEF CleanActors, Types, BasesRemoved
<1>4. Types'  BY <1>2, <1>3 DEF CleanActors, Types
<1> QED  BY <1>1, <1>2, <1>3, <1>4 DEF CleanActors

LEMMA DropStep ==
    ASSUME Types, NEW r \in Requests, NEW k \in Kept,
           records' = [records EXCEPT ![k] = Dropped],
           request' = [request EXCEPT ![r] =
               [pc |-> "unlink", kind |-> "drop", path |-> records[k].path]],
           DropRecord(r)
    PROVE  /\ Types' /\ OthersStay(r)
           /\ request'[r].pc = "unlink" /\ request'[r].path = records[k].path
           /\ Kept' = Kept \ {k}
           /\ \A l \in Kept : l # k => records'[l] = records[l]
<1> DEFINE s == [pc |-> "unlink", kind |-> "drop", path |-> records[k].path]
<1>1. Becomes(r, s) /\ records[k].path \in Paths  BY KeptRow DEF Becomes
<1>2. "drop" \in Kinds /\ asked' \in 0..MaxAsked
  BY KindType, AskedType DEF DropRecord
<1>3. s \in Dropping /\ s.pc = "unlink" /\ s.path = records[k].path
  BY <1>1, <1>2 DEF Dropping
<1> HIDE DEF s
<1>4. s \in Shape  BY <1>3 DEF Shape
<1>5. request' \in [Requests -> Shape] /\ OthersStay(r) /\ request'[r] = s
  BY <1>1, <1>4, Placed DEF OthersStay
<1>6. records' \in Seq(Row) /\ UNCHANGED <<database, world, files>>
  BY RecordDropped DEF DropRecord
<1>7. Types'  BY <1>5, <1>2, <1>6 DEF Types, database, world
<1> QED  BY <1>3, <1>5, <1>7, RecordDropped

LEMMA UnlinkStep ==
    ASSUME Types, NEW r \in Requests, Unlink(r)
    PROVE  /\ Types' /\ OthersStay(r) /\ request'[r].pc = "idle" /\ At(r, "unlink")
           /\ DOMAIN files' = DOMAIN files \ {request[r].path}
           /\ \A p \in DOMAIN files' : files'[p] = files[p]
<1>1. request' \in [Requests -> Shape] /\ OthersStay(r) /\ request'[r].pc = "idle"
  BY Ended DEF Unlink, OthersStay
<1>2. /\ DOMAIN files' = DOMAIN files \ {request[r].path}
      /\ \A p \in DOMAIN files' : files'[p] = files[p]
  BY DEF Unlink
<1>3. Types'  BY <1>1, <1>2 DEF Unlink, Types, database, world
<1> QED  BY <1>1, <1>2, <1>3 DEF Unlink

\* The player and the game leave every request, file and record alone.
Outside == Create \/ Login \/ Play \/ Logout \/ Second \/ Patched

LEMMA OutsideStep ==
    ASSUME Types, Outside PROVE Types' /\ UNCHANGED <<request, files, records>>
<1> USE BoundAssumption DEF BoundAssumption
<1>1. CASE Create
  <2>1. issued' \in 1..MaxAccounts /\ 1..issued \subseteq 1..issued' /\ issued' \in 1..issued'
    BY <1>1 DEF Create, Types
  <2>2. /\ actors' \in SUBSET (1..issued') /\ states' \in SUBSET (1..issued')
        /\ bases' \in SUBSET (1..issued') /\ level' \in 0..MaxLevel
    BY <1>1, <2>1 DEF Create, Types
  <2> QED  BY <1>1, <2>1, <2>2 DEF Create, Types
<1>2. CASE Login  BY <1>2 DEF Login, Types, database
<1>3. CASE Play
  <2>1. level' \in 0..MaxLevel  BY <1>3 DEF Play, Types
  <2>2. account \in 1..issued  BY <1>3 DEF Play, Types
  <2>3. bases' \in SUBSET (1..issued)  BY <1>3, <2>2 DEF Play, Types
  <2> QED  BY <1>3, <2>1, <2>3 DEF Play, Types
<1>4. CASE Logout  BY <1>4 DEF Logout, Types, database
<1>5. CASE Second
  <2>1. clock' \in 1..MaxSeconds  BY <1>5 DEF Second, Types
  <2> QED  BY <1>5, <2>1 DEF Second, Types, database
<1>6. CASE Patched
  <2>1. patch' \in 1..MaxPatch  BY <1>6 DEF Patched, Types
  <2> QED  BY <1>6, <2>1 DEF Patched, Types, database
<1> QED  BY <1>1, <1>2, <1>3, <1>4, <1>5, <1>6 DEF Outside

LEMMA TypesStep == ASSUME Types, [Next]_vars PROVE Types'
<1>1. CASE UNCHANGED vars  BY <1>1 DEF vars, Types
<1>2. CASE Outside  BY <1>2, OutsideStep
<1>3. ASSUME NEW r \in Requests, Resolve(r) PROVE Types'  BY <1>3, ResolveStep
<1>4. ASSUME NEW r \in Requests, Export(r) PROVE Types'  BY <1>4, ExportStep
<1>16. ASSUME NEW r \in Requests, ResolveAgain(r) PROVE Types'  BY <1>16, AgainStep
<1>5. ASSUME NEW r \in Requests, WriteFile(r) PROVE Types'  BY <1>5, WriteStep
<1>6. ASSUME NEW r \in Requests, CreateRecord(r) PROVE Types'  BY <1>6, RecordStep
<1>7. ASSUME NEW r \in Requests, Remove(r) PROVE Types'  BY <1>7, RemoveStep
<1>8. ASSUME NEW r \in Requests, RemovePlain(r) PROVE Types'  BY <1>8, RemovePlainStep
<1>9. ASSUME NEW r \in Requests, CleanStates(r) PROVE Types'  BY <1>9, CleanStep
<1>10. ASSUME NEW r \in Requests, LoadBackup(r) PROVE Types'  BY <1>10, LoadStep
<1>11. ASSUME NEW r \in Requests, ResolveOld(r) PROVE Types'  BY <1>11, ResolveOldStep
<1>12. ASSUME NEW r \in Requests, Import(r) PROVE Types'  BY <1>12, ImportStep
<1>13. ASSUME NEW r \in Requests, CleanActors(r) PROVE Types'  BY <1>13, CleanActorsStep
<1>14. ASSUME NEW r \in Requests, DropRecord(r) PROVE Types'
  <2>1. PICK k \in Kept : /\ records' = [records EXCEPT ![k] = Dropped]
                          /\ request' = [request EXCEPT ![r] =
                                 [pc |-> "unlink", kind |-> "drop", path |-> records[k].path]]
    BY <1>14 DEF DropRecord
  <2> QED  BY <1>14, <2>1, DropStep
<1>15. ASSUME NEW r \in Requests, Unlink(r) PROVE Types'  BY <1>15, UnlinkStep
<1> QED  BY <1>1, <1>2, <1>3, <1>4, <1>5, <1>6, <1>7, <1>8, <1>9, <1>10, <1>11, <1>12,
            <1>13, <1>14, <1>15, <1>16 DEF Next, Outside

LEMMA AlwaysTypes == Spec => []Types
BY InitTypes, TypesStep, PTL DEF Spec

\* Every request carries what its place in the code has read, every account id in
\* the database was issued, and no bound is passed.
THEOREM TypeCorrect == Spec => []TypeOK
<1>1. Types => TypeOK
  <2> SUFFICES ASSUME Types PROVE TypeOK  OBVIOUS
  <2>1. \A r \in Requests : At(r, "idle") \/ request[r].kind \in Kinds
    <3> SUFFICES ASSUME NEW r \in Requests PROVE At(r, "idle") \/ request[r].kind \in Kinds
      OBVIOUS
    <3>1. request[r] \in Shape  BY DEF Types
    <3>2. request[r] = Idle => At(r, "idle")  BY DEF At, Idle
    <3> QED  BY <3>1, <3>2 DEF Shape, Bare, Exporting, Writing, Recording, Loaded, Restoring,
                Dropping
  <2>2. \A p \in DOMAIN files : files[p] \in [level : 0..MaxLevel, patch : 1..MaxPatch]
    BY DEF Types, Data
  <2> QED  BY <2>1, <2>2 DEF Types, TypeOK
<1> QED  BY <1>1, AlwaysTypes, PTL

-----------------------------------------------------------------------------
(* What is left behind by a deleted account is cleaned, and nothing else.  *)

\* The account a restore found lies before every account issued since, so the
\* clean-up of its actors misses the one the import made.
Before(r) ==
    request[r] \in Restoring =>
        /\ At(r, "import") => request[r].account <= issued
        /\ ~At(r, "import") => request[r].account < issued

\* What OrphansCleaned rests on: the living have their row and their actors, and
\* a row without its account is owed or has a clean-up on its way.
OrphanInv ==
    /\ account # 0 => account \in states /\ account \in actors
    /\ \A r \in Requests : Before(r)
    /\ states \subseteq {account} \/ owed \/ \E r \in Requests : At(r, "clean")

\* A request that is on no restore, or stands where it stood, is before.
LEMMA BeforeKept ==
    ASSUME Types, Types', OrphanInv, NEW r \in Requests, OthersStay(r), issued' >= issued,
           \/ request'[r] \notin Restoring
           \/ request'[r] = request[r]
           \/ request'[r].pc = "import" /\ request'[r].account <= issued'
           \/ request'[r].pc # "import" /\ request'[r].account < issued'
    PROVE  \A q \in Requests : Before(q)'
<1>1. issued \in Nat /\ issued' \in Nat  BY DEF Types, Ids
<1>2. ASSUME NEW q \in Requests, request'[q] = request[q] PROVE Before(q)'
  <2>1. CASE request[q] \in Restoring
    <3>1. request[q].account \in Nat  BY <2>1 DEF Restoring
    <3>2. Before(q)  BY DEF OrphanInv
    <3> QED  BY <1>1, <1>2, <2>1, <3>1, <3>2 DEF Before, At
  <2>2. CASE request[q] \notin Restoring  BY <1>2, <2>2 DEF Before
  <2> QED  BY <2>1, <2>2
<1>3. Before(r)'
  <2>1. CASE request'[r] = request[r]  BY <1>2, <2>1
  <2>2. CASE request'[r] \notin Restoring  BY <2>2 DEF Before
  <2>3. CASE request'[r].pc = "import" /\ request'[r].account <= issued'
    BY <2>3 DEF Before, At
  <2>4. CASE request'[r].pc # "import" /\ request'[r].account < issued'
    <3>1. CASE request'[r] \in Restoring
      <4>1. request'[r].account \in Nat  BY <3>1 DEF Restoring
      <4> QED  BY <1>1, <2>4, <4>1 DEF Before, At
    <3>2. CASE request'[r] \notin Restoring  BY <3>2 DEF Before
    <3> QED  BY <3>1, <3>2
  <2> QED  BY <2>1, <2>2, <2>3, <2>4
<1> QED  BY <1>2, <1>3 DEF OthersStay

\* Rows that were cleaned, owed or about to be cleaned still are when a request
\* that was not about to clean moves.
LEMMA OwedKept ==
    ASSUME OrphanInv, NEW r \in Requests, OthersStay(r), ~At(r, "clean"),
           states' = states, account' = account, owed' = owed
    PROVE  states' \subseteq {account'} \/ owed' \/ \E q \in Requests : At(q, "clean")'
<1>1. ASSUME NEW q \in Requests, At(q, "clean") PROVE At(q, "clean")'
  BY <1>1 DEF At, OthersStay
<1> QED  BY <1>1 DEF OrphanInv

\* A step that leaves the database alone and takes no request into a restore.
LEMMA OrphanQuiet ==
    ASSUME Types, Types', OrphanInv, NEW r \in Requests, OthersStay(r), ~At(r, "clean"),
           UNCHANGED database,
           \/ request'[r] \notin Restoring
           \/ request'[r] = request[r]
           \/ request'[r].pc = "import" /\ request'[r].account <= issued'
    PROVE  OrphanInv'
<1>1. \A q \in Requests : Before(q)'
  <2>1. issued' = issued /\ issued \in Nat  BY DEF database, Types, Ids
  <2> QED  BY <2>1, BeforeKept
<1>2. states' \subseteq {account'} \/ owed' \/ \E q \in Requests : At(q, "clean")'
  BY OwedKept DEF database
<1>3. account' # 0 => account' \in states' /\ account' \in actors'
  BY DEF OrphanInv, database
<1> QED  BY <1>1, <1>2, <1>3 DEF OrphanInv

\* The bases never shrink, and a step keeps OrphanInv.
LEMMA OrphanStep == ASSUME Types, Types', OrphanInv, [Next]_vars PROVE OrphanInv'
<1>0. issued \in Nat /\ issued' \in Nat /\ account \in {0, issued}  BY DEF Types, Ids
<1>1. CASE UNCHANGED vars  BY <1>1 DEF vars, OrphanInv, Before, At
<1>2. CASE Outside
  <2>1. request' = request  BY <1>2, OutsideStep
  <2>2. CASE Create
    <3>1. issued' = issued + 1 /\ account' = issued' /\ states' = states \cup {issued'}
          /\ actors' = actors \cup {issued'} /\ account = 0 /\ owed' = owed
      BY <2>2 DEF Create
    <3>2. \A q \in Requests : Before(q)'
      <4> SUFFICES ASSUME NEW q \in Requests, request[q] \in Restoring PROVE Before(q)'
        BY <2>1 DEF Before
      <4>1. request[q].account \in Nat /\ Before(q)  BY DEF Restoring, OrphanInv
      <4> QED  BY <1>0, <2>1, <3>1, <4>1 DEF Before, At
    <3>3. states \subseteq {0} => states = {}  BY DEF Types, Ids
    <3>4. states' \subseteq {account'} \/ owed' \/ \E q \in Requests : At(q, "clean")'
      BY <2>1, <3>1, <3>3 DEF OrphanInv, At
    <3> QED  BY <3>1, <3>2, <3>4 DEF OrphanInv
  <2>3. CASE ~Create
    <3>1. UNCHANGED <<account, issued, states, actors, owed>>
      BY <1>2, <2>3 DEF Outside, Login, Play, Logout, Second, Patched, database
    <3> QED  BY <2>1, <3>1 DEF OrphanInv, Before, At
  <2> QED  BY <2>2, <2>3
<1>3. ASSUME NEW r \in Requests, Resolve(r) PROVE OrphanInv'
  <2>1. ~At(r, "clean") /\ UNCHANGED database  BY <1>3 DEF Resolve, Asks, At
  <2>2. request'[r] \notin Restoring \/ request'[r] = request[r]
    BY <1>3, ResolveStep DEF Restoring
  <2> QED  BY <1>3, <2>1, <2>2, ResolveStep, OrphanQuiet
<1>4. ASSUME NEW r \in Requests, Export(r) PROVE OrphanInv'
  <2>1. ~At(r, "clean") /\ UNCHANGED database  BY <1>4 DEF Export, At
  <2>2. request'[r] \notin Restoring
    BY <1>4, ExportStep DEF Restoring, Writing, Idle
  <2> QED  BY <1>4, <2>1, <2>2, ExportStep, OrphanQuiet
<1>16. ASSUME NEW r \in Requests, ResolveAgain(r) PROVE OrphanInv'
  <2>1. ~At(r, "clean") /\ UNCHANGED database  BY <1>16 DEF ResolveAgain, At
  <2>2. request'[r] \notin Restoring  BY <1>16, AgainStep DEF Restoring
  <2> QED  BY <1>16, <2>1, <2>2, AgainStep, OrphanQuiet
<1>5. ASSUME NEW r \in Requests, WriteFile(r) PROVE OrphanInv'
  <2>1. ~At(r, "clean") /\ UNCHANGED database  BY <1>5 DEF WriteFile, At
  <2>2. request'[r] \notin Restoring
    BY <1>5, WriteStep DEF Restoring, Recording, Idle
  <2> QED  BY <1>5, <2>1, <2>2, WriteStep, OrphanQuiet
<1>6. ASSUME NEW r \in Requests, CreateRecord(r) PROVE OrphanInv'
  <2>1. ~At(r, "clean") /\ UNCHANGED database  BY <1>6 DEF CreateRecord, At
  <2>2. request'[r] \notin Restoring
    BY <1>6, RecordStep DEF Restoring
  <2> QED  BY <1>6, <2>1, <2>2, RecordStep, OrphanQuiet
<1>7. ASSUME NEW r \in Requests, Remove(r) PROVE OrphanInv'
  <2>1. ~At(r, "clean") /\ issued' = issued /\ states' = states /\ owed' = owed
    BY <1>7 DEF Remove, At
  <2>2. CASE request'[r].pc = "idle" /\ account' = account /\ actors' = actors
    <3>1. UNCHANGED database  BY <1>7, <2>1, <2>2 DEF database, Remove
    <3>2. request'[r] \notin Restoring  BY <2>2 DEF Restoring
    <3> QED  BY <1>7, <2>1, <3>1, <3>2, RemoveStep, OrphanQuiet
  <2>3. CASE request'[r].pc = "clean" /\ request'[r].kind # "restore" /\ account' = 0
    <3>1. request'[r] \notin Restoring  BY <2>3 DEF Restoring
    <3>2. issued' >= issued /\ OthersStay(r)
      <4>1. issued' >= issued  BY <1>0, <2>1
      <4>2. OthersStay(r)  BY <1>7, RemoveStep
      <4> QED  BY <4>1, <4>2
    <3>3. \A q \in Requests : Before(q)'  BY <3>1, <3>2, BeforeKept
    <3>4. At(r, "clean")'  BY <2>3 DEF At
    <3> QED  BY <2>3, <3>3, <3>4 DEF OrphanInv
  <2> QED  BY <1>7, <2>2, <2>3, RemoveStep
<1>8. ASSUME NEW r \in Requests, RemovePlain(r) PROVE OrphanInv'
  <2>1. ~At(r, "clean") /\ issued' = issued /\ states' = states /\ level' = level
    BY <1>8 DEF RemovePlain, At
  <2>2. request'[r] \notin Restoring  BY <1>8, RemovePlainStep DEF Restoring
  <2>3. CASE account' = account /\ actors' = actors /\ owed' = owed
    <3>1. UNCHANGED database  BY <2>1, <2>3 DEF database
    <3> QED  BY <1>8, <2>1, <2>2, <3>1, RemovePlainStep, OrphanQuiet
  <2>4. CASE account' = 0 /\ owed' = TRUE
    <3>1. issued' >= issued /\ OthersStay(r)
      <4>1. issued' >= issued  BY <1>0, <2>1
      <4>2. OthersStay(r)  BY <1>8, RemovePlainStep
      <4> QED  BY <4>1, <4>2
    <3>2. \A q \in Requests : Before(q)'  BY <2>2, <3>1, BeforeKept
    <3> QED  BY <2>4, <3>2 DEF OrphanInv
  <2> QED  BY <1>8, <2>3, <2>4, RemovePlainStep
<1>9. ASSUME NEW r \in Requests, CleanStates(r) PROVE OrphanInv'
  <2>1. At(r, "clean") /\ issued' = issued /\ account' = account /\ actors' = actors
    BY <1>9 DEF CleanStates
  <2>2. issued' >= issued /\ OthersStay(r)
    <3>1. issued' >= issued  BY <1>0, <2>1
    <3>2. OthersStay(r)  BY <1>9, CleanStep
    <3> QED  BY <3>1, <3>2
  <2>3. CASE request'[r].pc = "idle"
    <3>1. request'[r] \notin Restoring  BY <2>3 DEF Restoring
    <3>2. \A q \in Requests : Before(q)'
      BY <2>2, <3>1, BeforeKept
    <3>3. states' = states \intersect {account} \/ (states' = states /\ owed' = TRUE)
      BY <1>9, CleanStep
    <3> QED  BY <2>1, <3>2, <3>3 DEF OrphanInv
  <2>4. CASE request'[r].pc # "idle"
    <3>1. /\ request'[r].pc = "actors" /\ request[r] \in Restoring
          /\ request'[r].account = request[r].account
      BY <1>9, <2>4, CleanStep
    <3>2. request[r].account < issued /\ request'[r].pc # "import"
      BY <2>1, <3>1 DEF OrphanInv, Before, At
    <3>3. \A q \in Requests : Before(q)'
      BY <2>1, <2>2, <3>1, <3>2, BeforeKept
    <3>4. states' = states \intersect {account} \/ (states' = states /\ owed' = TRUE)
      BY <1>9, CleanStep
    <3> QED  BY <2>1, <3>3, <3>4 DEF OrphanInv
  <2> QED  BY <2>3, <2>4
<1>10. ASSUME NEW r \in Requests, LoadBackup(r) PROVE OrphanInv'
  <2>1. ~At(r, "clean") /\ UNCHANGED database  BY <1>10 DEF LoadBackup, Asks, At
  <2>2. request'[r] \notin Restoring \/ request'[r] = request[r]
    BY <1>10, LoadStep DEF Restoring, Loaded
  <2> QED  BY <1>10, <2>1, <2>2, LoadStep, OrphanQuiet
<1>11. ASSUME NEW r \in Requests, ResolveOld(r) PROVE OrphanInv'
  <2>1. ~At(r, "clean") /\ UNCHANGED database  BY <1>11 DEF ResolveOld, At
  <2>2. request'[r].pc = "import" /\ request'[r].account <= issued'
    BY <1>0, <1>11, <2>1, ResolveOldStep DEF database
  <2> QED  BY <1>11, <2>1, <2>2, ResolveOldStep, OrphanQuiet
<1>12. ASSUME NEW r \in Requests, Import(r) PROVE OrphanInv'
  <2>1. ~At(r, "clean") /\ At(r, "import") /\ owed' = owed  BY <1>12 DEF Import, At
  <2>2. CASE request'[r].pc = "idle" /\ UNCHANGED <<account, issued, states, actors, level>>
    <3>1. UNCHANGED database  BY <2>1, <2>2 DEF database
    <3>2. request'[r] \notin Restoring  BY <2>2 DEF Restoring
    <3> QED  BY <1>12, <2>1, <3>1, <3>2, ImportStep, OrphanQuiet
  <2>3. CASE ~(request'[r].pc = "idle" /\ UNCHANGED <<account, issued, states, actors, level>>)
    <3>1. /\ request'[r].pc = "clean" /\ request[r] \in Restoring
          /\ request'[r].account = request[r].account
          /\ issued' = issued + 1 /\ account' = issued'
          /\ states' = states \cup {issued'} /\ issued' \in actors'
      BY <1>12, <2>3, ImportStep
    <3>2. request[r].account <= issued /\ request[r].account \in Nat
      BY <2>1, <3>1 DEF OrphanInv, Before, Restoring
    <3>3. \A q \in Requests : Before(q)'
      BY <1>0, <1>12, <3>1, <3>2, ImportStep, BeforeKept
    <3>4. At(r, "clean")'  BY <3>1 DEF At
    <3> QED  BY <3>1, <3>3, <3>4 DEF OrphanInv
  <2> QED  BY <2>2, <2>3
<1>13. ASSUME NEW r \in Requests, CleanActors(r) PROVE OrphanInv'
  <2>1. ~At(r, "clean") /\ issued' = issued /\ account' = account /\ states' = states
        /\ owed' = owed
    BY <1>13 DEF CleanActors, At
  <2>2. request'[r].pc = "idle" /\ At(r, "actors") /\ request[r] \in Restoring
        /\ actors' = actors \ {request[r].account}
    BY <1>13, CleanActorsStep
  <2>3. request'[r] \notin Restoring  BY <2>2 DEF Restoring
  <2>4. \A q \in Requests : Before(q)'
    BY <1>0, <1>13, <2>1, <2>3, CleanActorsStep, BeforeKept
  <2>5. request[r].account < issued /\ request[r].account \in Nat
    BY <2>2 DEF OrphanInv, Before, At, Restoring
  <2>6. account # 0 => request[r].account # account  BY <1>0, <2>5
  <2>7. states' \subseteq {account'} \/ owed' \/ \E q \in Requests : At(q, "clean")'
    BY <1>13, <2>1, CleanActorsStep, OwedKept
  <2> QED  BY <2>1, <2>2, <2>4, <2>6, <2>7 DEF OrphanInv
<1>14. ASSUME NEW r \in Requests, DropRecord(r) PROVE OrphanInv'
  <2>1. PICK k \in Kept : /\ records' = [records EXCEPT ![k] = Dropped]
                          /\ request' = [request EXCEPT ![r] =
                                 [pc |-> "unlink", kind |-> "drop", path |-> records[k].path]]
    BY <1>14 DEF DropRecord
  <2>2. ~At(r, "clean") /\ UNCHANGED database  BY <1>14 DEF DropRecord, Asks, At
  <2>3. request'[r] \notin Restoring /\ OthersStay(r)
    BY <1>14, <2>1, DropStep DEF Restoring
  <2> QED  BY <2>2, <2>3, OrphanQuiet
<1>15. ASSUME NEW r \in Requests, Unlink(r) PROVE OrphanInv'
  <2>1. ~At(r, "clean") /\ UNCHANGED database  BY <1>15 DEF Unlink, At
  <2>2. request'[r] \notin Restoring  BY <1>15, UnlinkStep DEF Restoring
  <2> QED  BY <1>15, <2>1, <2>2, UnlinkStep, OrphanQuiet
<1> QED  BY <1>1, <1>2, <1>3, <1>4, <1>5, <1>6, <1>7, <1>8, <1>9, <1>10, <1>11, <1>12,
            <1>13, <1>14, <1>15, <1>16 DEF Next, Outside

LEMMA AlwaysOrphan == Spec => [](Types /\ OrphanInv)
<1>1. Init => OrphanInv
  <2> SUFFICES ASSUME Init PROVE OrphanInv  OBVIOUS
  <2>1. \A r \in Requests : request[r] \notin Restoring  BY DEF Init, Idle, Restoring
  <2> QED  BY <2>1 DEF Init, OrphanInv, Before
<1>2. Types /\ OrphanInv /\ [Next]_vars => OrphanInv'  BY TypesStep, OrphanStep
<1> QED  BY <1>1, <1>2, AlwaysTypes, PTL DEF Spec

\* The bases of an account are never removed.
LEMMA BasesStand == ASSUME Types, [Next]_vars PROVE bases \subseteq bases'
<1>1. ASSUME NEW r \in Requests, CleanActors(r) PROVE bases' = bases
  BY <1>1, CleanActorsStep
<1>2. CASE Play  BY <1>2 DEF Play
<1>3. ASSUME NEW r \in Requests,
             \/ Resolve(r) \/ ResolveAgain(r) \/ Export(r) \/ WriteFile(r)
             \/ CreateRecord(r) \/ LoadBackup(r)
             \/ ResolveOld(r) \/ DropRecord(r) \/ Unlink(r) \/ CleanStates(r) \/ Import(r)
      PROVE  UNCHANGED world
  BY <1>3 DEF Resolve, ResolveAgain, Export, WriteFile, CreateRecord, LoadBackup, ResolveOld,
     DropRecord, Unlink, CleanStates, Import
<1>4. ASSUME NEW r \in Requests, Remove(r) \/ RemovePlain(r) PROVE bases' = bases
  BY <1>4 DEF Remove, RemovePlain
<1>5. CASE Create \/ Login \/ Logout \/ Second \/ Patched
  BY <1>5 DEF Create, Login, Logout, Second, Patched
<1>6. CASE UNCHANGED vars  BY <1>6 DEF vars
<1> QED  BY <1>1, <1>2, <1>3, <1>4, <1>5, <1>6 DEF Next, world

\* What cleanupOrphans and cleanupOrphanActorsForAccount may take: once every
\* request is done and none left the clean-up out, no row is left without its
\* account; the row and the actors of an account that stays, and every base, are
\* never removed.
THEOREM LeftoversCleaned == Spec => OrphansCleaned
<1>1. OrphanInv => NoOrphanStates
  <2> SUFFICES ASSUME OrphanInv, \A r \in Requests : At(r, "idle"), ~owed
               PROVE  states \subseteq {account}
    BY DEF NoOrphanStates
  <2>1. \A r \in Requests : ~At(r, "clean")  BY DEF At
  <2> QED  BY <2>1 DEF OrphanInv
<1>2. Types /\ OrphanInv' /\ [Next]_vars =>
          [/\ account # 0 /\ account' = account =>
                  account \in states' /\ account \in actors'
           /\ bases \subseteq bases']_vars
  BY BasesStand DEF OrphanInv
<1> QED  BY <1>1, <1>2, AlwaysOrphan, PTL DEF Spec, OrphansCleaned, LivingUntouched

-----------------------------------------------------------------------------
(* A listed backup can be trusted, when no two captures of one account     *)
(* fall into one second.                                                   *)

\* A request that has the only name for a file: a capture that has not listed it
\* yet, a removal that has not unlinked it yet.
Holds(r) == At(r, "record") \/ At(r, "unlink")

\* What BackupsKept rests on: every file has at most one record or request that
\* names it, and each of them finds it, the capture with what it wrote.
PathInv ==
    /\ BackupsKept
    /\ \A r \in Requests : Holds(r) => request[r].path \in DOMAIN files
    /\ \A r \in Requests : At(r, "record") => files[request[r].path] = request[r].data
    /\ \A k, l \in Kept : k # l => records[k].path # records[l].path
    /\ \A r \in Requests, k \in Kept : Holds(r) => request[r].path # records[k].path
    /\ \A r, q \in Requests :
          r # q /\ Holds(r) /\ Holds(q) => request[r].path # request[q].path

\* A step of a request that holds no file, before or after.
LEMMA PathQuiet ==
    ASSUME PathInv, UNCHANGED <<files, records>>, NEW r \in Requests, OthersStay(r),
           ~Holds(r)' \/ request'[r] = request[r]
    PROVE  PathInv'
<1>1. \A q \in Requests : Holds(q)' => Holds(q) /\ request'[q] = request[q]
  BY DEF Holds, At, OthersStay
<1>2. \A q \in Requests : At(q, "record")' => At(q, "record") /\ request'[q] = request[q]
  BY <1>1 DEF Holds, At
<1>3. Kept' = Kept /\ BackupsKept'  BY DEF Kept, BackupsKept, PathInv
<1> QED  BY <1>1, <1>2, <1>3 DEF PathInv

LEMMA PathWrite ==
    ASSUME "second" \notin Races, Types, PathInv, NEW r \in Requests, WriteFile(r)
    PROVE  PathInv'
<1>0. records' = records /\ Kept' = Kept /\ OthersStay(r)  BY WriteStep DEF WriteFile, Kept
<1>1. CASE request'[r] = Idle /\ files' = files
  <2>1. ~Holds(r)'  BY <1>1 DEF Holds, At, Idle
  <2> QED  BY <1>0, <1>1, <2>1, PathQuiet
<1>2. CASE request'[r] # Idle \/ files' # files
  <2>1. /\ request'[r].pc = "record" /\ request'[r].data = request[r].data
        /\ request'[r].path \in DOMAIN files' /\ request'[r].path \notin DOMAIN files
        /\ files'[request'[r].path] = request[r].data
        /\ DOMAIN files \subseteq DOMAIN files'
        /\ \A p \in DOMAIN files : files'[p] = files[p]
    BY <1>2, WriteStep
  <2>2. \A q \in Requests : q # r => request'[q] = request[q]  BY <1>0 DEF OthersStay
  <2>3. \A k \in Kept : records[k].path \in DOMAIN files  BY DEF PathInv, BackupsKept
  <2>4. \A q \in Requests : q # r /\ Holds(q)' => Holds(q) /\ request[q].path \in DOMAIN files
    BY <2>2 DEF PathInv, Holds, At
  <2>5. BackupsKept'  BY <1>0, <2>1, <2>3 DEF PathInv, BackupsKept
  <2>6. \A q \in Requests : Holds(q)' => request'[q].path \in DOMAIN files'
    BY <2>1, <2>2, <2>4
  <2>7. \A q \in Requests : At(q, "record")' => files'[request'[q].path] = request'[q].data
    <3> SUFFICES ASSUME NEW q \in Requests, At(q, "record")'
                 PROVE  files'[request'[q].path] = request'[q].data
      OBVIOUS
    <3>1. CASE q = r  BY <2>1, <3>1
    <3>2. CASE q # r
      <4>1. At(q, "record") /\ request'[q] = request[q]  BY <2>2, <3>2 DEF At
      <4>2. request[q].path \in DOMAIN files /\ files[request[q].path] = request[q].data
        BY <4>1 DEF PathInv, Holds
      <4> QED  BY <2>1, <4>1, <4>2
    <3> QED  BY <3>1, <3>2
  <2>8. \A k, l \in Kept' : k # l => records'[k].path # records'[l].path
    BY <1>0 DEF PathInv
  <2>9. \A q \in Requests, k \in Kept' : Holds(q)' => request'[q].path # records'[k].path
    BY <1>0, <2>1, <2>2, <2>3, <2>4 DEF PathInv
  <2>10. \A p, q \in Requests :
            p # q /\ Holds(p)' /\ Holds(q)' => request'[p].path # request'[q].path
    BY <2>1, <2>2, <2>4 DEF PathInv
  <2> QED  BY <2>5, <2>6, <2>7, <2>8, <2>9, <2>10 DEF PathInv
<1> QED  BY <1>1, <1>2

LEMMA PathRecord ==
    ASSUME Types, PathInv, NEW r \in Requests, CreateRecord(r)
    PROVE  PathInv'
<1>0. files' = files /\ At(r, "record") /\ ~Holds(r)' /\ OthersStay(r)
  BY RecordStep DEF CreateRecord, Holds, At
<1>1. CASE records' = records  BY <1>0, <1>1, PathQuiet
<1>2. CASE records' # records
  <2> DEFINE n == Len(records) + 1
  <2>1. /\ Kept' = Kept \cup {n} /\ n \notin Kept
        /\ records'[n].path = request[r].path /\ records'[n].data = request[r].data
        /\ \A k \in Kept : records'[k] = records[k]
    BY <1>2, RecordStep
  <2> HIDE DEF n
  <2>2. request[r].path \in DOMAIN files /\ files[request[r].path] = request[r].data
    BY <1>0 DEF PathInv, Holds
  <2>3. \A q \in Requests : Holds(q)' => q # r /\ Holds(q) /\ request'[q] = request[q]
    BY <1>0 DEF Holds, At, OthersStay
  <2>4. BackupsKept'  BY <1>0, <2>1, <2>2 DEF PathInv, BackupsKept
  <2>5. \A q \in Requests : Holds(q)' => request'[q].path \in DOMAIN files'
    BY <1>0, <2>3 DEF PathInv
  <2>6. \A q \in Requests : At(q, "record")' => files'[request'[q].path] = request'[q].data
    BY <1>0, <2>3 DEF PathInv, Holds, At
  <2>7. \A k, l \in Kept' : k # l => records'[k].path # records'[l].path
    BY <1>0, <2>1 DEF PathInv, Holds
  <2>8. \A q \in Requests, k \in Kept' : Holds(q)' => request'[q].path # records'[k].path
    <3> SUFFICES ASSUME NEW q \in Requests, NEW k \in Kept', Holds(q)'
                 PROVE  request'[q].path # records'[k].path
      OBVIOUS
    <3>1. q # r /\ Holds(q) /\ request'[q] = request[q]  BY <2>3
    <3>2. CASE k = n  BY <1>0, <2>1, <3>1, <3>2 DEF PathInv, Holds
    <3>3. CASE k # n  BY <2>1, <3>1, <3>3 DEF PathInv
    <3> QED  BY <3>2, <3>3
  <2>9. \A p, q \in Requests :
            p # q /\ Holds(p)' /\ Holds(q)' => request'[p].path # request'[q].path
    BY <2>3 DEF PathInv
  <2> QED  BY <2>4, <2>5, <2>6, <2>7, <2>8, <2>9 DEF PathInv
<1> QED  BY <1>1, <1>2

LEMMA PathDrop ==
    ASSUME Types, PathInv, NEW r \in Requests, DropRecord(r)
    PROVE  PathInv'
<1>1. PICK k \in Kept : /\ records' = [records EXCEPT ![k] = Dropped]
                        /\ request' = [request EXCEPT ![r] =
                               [pc |-> "unlink", kind |-> "drop", path |-> records[k].path]]
  BY DEF DropRecord
<1>2. /\ OthersStay(r) /\ files' = files
      /\ request'[r].pc = "unlink" /\ request'[r].path = records[k].path
      /\ Kept' = Kept \ {k}
      /\ \A l \in Kept : l # k => records'[l] = records[l]
  BY <1>1, DropStep DEF DropRecord
<1>3. /\ records[k].path \in DOMAIN files
      /\ \A l \in Kept : l # k => records[l].path # records[k].path
  BY DEF PathInv, BackupsKept
<1>4. \A q \in Requests : q # r /\ Holds(q)' => Holds(q) /\ request'[q] = request[q]
  BY <1>2 DEF Holds, At, OthersStay
<1>5. \A q \in Requests : At(q, "record")' => At(q, "record") /\ request'[q] = request[q]
  BY <1>2 DEF At, OthersStay
<1>6. \A q \in Requests : Holds(q) => request[q].path # records[k].path  BY DEF PathInv
<1>7. BackupsKept'  BY <1>2 DEF PathInv, BackupsKept
<1>8. \A q \in Requests : Holds(q)' => request'[q].path \in DOMAIN files'
  BY <1>2, <1>3, <1>4 DEF PathInv
<1>9. \A q \in Requests : At(q, "record")' => files'[request'[q].path] = request'[q].data
  BY <1>2, <1>5 DEF PathInv
<1>10. \A j, l \in Kept' : j # l => records'[j].path # records'[l].path
  BY <1>2 DEF PathInv
<1>11. \A q \in Requests, l \in Kept' : Holds(q)' => request'[q].path # records'[l].path
  <2> SUFFICES ASSUME NEW q \in Requests, NEW l \in Kept', Holds(q)'
               PROVE  request'[q].path # records'[l].path
    OBVIOUS
  <2>1. l \in Kept /\ l # k /\ records'[l] = records[l]  BY <1>2
  <2>2. CASE q = r  BY <1>2, <1>3, <2>1, <2>2
  <2>3. CASE q # r  BY <1>4, <2>1, <2>3 DEF PathInv
  <2> QED  BY <2>2, <2>3
<1>12. \A p, q \in Requests :
          p # q /\ Holds(p)' /\ Holds(q)' => request'[p].path # request'[q].path
  <2> SUFFICES ASSUME NEW p \in Requests, NEW q \in Requests, p # q, Holds(p)', Holds(q)'
               PROVE  request'[p].path # request'[q].path
    OBVIOUS
  <2>1. CASE p = r  BY <1>2, <1>4, <1>6, <2>1
  <2>2. CASE q = r  BY <1>2, <1>4, <1>6, <2>2
  <2>3. CASE p # r /\ q # r  BY <1>4, <2>3 DEF PathInv
  <2> QED  BY <2>1, <2>2, <2>3
<1> QED  BY <1>7, <1>8, <1>9, <1>10, <1>11, <1>12 DEF PathInv

LEMMA PathUnlink ==
    ASSUME Types, PathInv, NEW r \in Requests, Unlink(r)
    PROVE  PathInv'
<1>1. /\ OthersStay(r) /\ records' = records /\ Kept' = Kept /\ Holds(r) /\ ~Holds(r)'
      /\ DOMAIN files' = DOMAIN files \ {request[r].path}
      /\ \A p \in DOMAIN files' : files'[p] = files[p]
  BY UnlinkStep DEF Unlink, Kept, Holds, At
<1>2. \A q \in Requests : Holds(q)' => q # r /\ Holds(q) /\ request'[q] = request[q]
  BY <1>1 DEF Holds, At, OthersStay
<1>3. \A q \in Requests : At(q, "record")' => At(q, "record")
  BY <1>2 DEF Holds, At
<1>4. \A k \in Kept : records[k].path # request[r].path  BY <1>1 DEF PathInv
<1>5. BackupsKept'  BY <1>1, <1>4 DEF PathInv, BackupsKept
<1>6. \A q \in Requests : Holds(q)' =>
          request'[q].path = request[q].path /\ request'[q].path \in DOMAIN files'
  BY <1>1, <1>2 DEF PathInv
<1>7. \A q \in Requests : At(q, "record")' => files'[request'[q].path] = request'[q].data
  BY <1>1, <1>2, <1>3, <1>6 DEF PathInv, Holds
<1> QED  BY <1>1, <1>2, <1>5, <1>6, <1>7 DEF PathInv

LEMMA PathStep ==
    ASSUME "second" \notin Races, Types, PathInv, [Next]_vars PROVE PathInv'
<1>1. CASE UNCHANGED vars
  BY <1>1 DEF vars, PathInv, BackupsKept, Kept, Holds, At
<1>2. CASE Outside
  BY <1>2, OutsideStep DEF PathInv, BackupsKept, Kept, Holds, At
<1>3. ASSUME NEW r \in Requests, Resolve(r) PROVE PathInv'
  <2>1. ~Holds(r)' \/ request'[r] = request[r]  BY <1>3, ResolveStep DEF Holds, At
  <2> QED  BY <1>3, <2>1, ResolveStep, PathQuiet DEF Resolve
<1>4. ASSUME NEW r \in Requests, Export(r) PROVE PathInv'
  <2>1. ~Holds(r)'  BY <1>4, ExportStep DEF Holds, At, Idle, Writing
  <2> QED  BY <1>4, <2>1, ExportStep, PathQuiet DEF Export
<1>16. ASSUME NEW r \in Requests, ResolveAgain(r) PROVE PathInv'
  <2>1. ~Holds(r)'  BY <1>16, AgainStep DEF Holds, At
  <2> QED  BY <1>16, <2>1, AgainStep, PathQuiet DEF ResolveAgain
<1>5. ASSUME NEW r \in Requests, WriteFile(r) PROVE PathInv'  BY <1>5, PathWrite
<1>6. ASSUME NEW r \in Requests, CreateRecord(r) PROVE PathInv'  BY <1>6, PathRecord
<1>7. ASSUME NEW r \in Requests, Remove(r) PROVE PathInv'
  <2>1. ~Holds(r)'  BY <1>7, RemoveStep DEF Holds, At
  <2> QED  BY <1>7, <2>1, RemoveStep, PathQuiet DEF Remove
<1>8. ASSUME NEW r \in Requests, RemovePlain(r) PROVE PathInv'
  <2>1. ~Holds(r)'  BY <1>8, RemovePlainStep DEF Holds, At
  <2> QED  BY <1>8, <2>1, RemovePlainStep, PathQuiet DEF RemovePlain
<1>9. ASSUME NEW r \in Requests, CleanStates(r) PROVE PathInv'
  <2>1. ~Holds(r)'  BY <1>9, CleanStep DEF Holds, At
  <2> QED  BY <1>9, <2>1, CleanStep, PathQuiet DEF CleanStates
<1>10. ASSUME NEW r \in Requests, LoadBackup(r) PROVE PathInv'
  <2>1. ~Holds(r)' \/ request'[r] = request[r]
    BY <1>10, LoadStep DEF Holds, At, Loaded
  <2> QED  BY <1>10, <2>1, LoadStep, PathQuiet DEF LoadBackup
<1>11. ASSUME NEW r \in Requests, ResolveOld(r) PROVE PathInv'
  <2>1. ~Holds(r)'  BY <1>11, ResolveOldStep DEF Holds, At
  <2> QED  BY <1>11, <2>1, ResolveOldStep, PathQuiet DEF ResolveOld
<1>12. ASSUME NEW r \in Requests, Import(r) PROVE PathInv'
  <2>1. ~Holds(r)'  BY <1>12, ImportStep DEF Holds, At
  <2> QED  BY <1>12, <2>1, ImportStep, PathQuiet DEF Import
<1>13. ASSUME NEW r \in Requests, CleanActors(r) PROVE PathInv'
  <2>1. ~Holds(r)'  BY <1>13, CleanActorsStep DEF Holds, At
  <2> QED  BY <1>13, <2>1, CleanActorsStep, PathQuiet DEF CleanActors
<1>14. ASSUME NEW r \in Requests, DropRecord(r) PROVE PathInv'  BY <1>14, PathDrop
<1>15. ASSUME NEW r \in Requests, Unlink(r) PROVE PathInv'  BY <1>15, PathUnlink
<1> QED  BY <1>1, <1>2, <1>3, <1>4, <1>5, <1>6, <1>7, <1>8, <1>9, <1>10, <1>11, <1>12,
            <1>13, <1>14, <1>15, <1>16 DEF Next, Outside

LEMMA InitPath == Init => PathInv
<1> SUFFICES ASSUME Init PROVE PathInv  OBVIOUS
<1>1. Kept = {}  BY DEF Init, Kept
<1>2. \A r \in Requests : ~Holds(r) /\ ~At(r, "record")  BY DEF Init, Holds, At, Idle
<1> QED  BY <1>1, <1>2 DEF PathInv, BackupsKept

LEMMA AlwaysPath == "second" \notin Races => (Spec => [](Types /\ PathInv))
<1>1. ASSUME "second" \notin Races PROVE Spec => [](Types /\ PathInv)
  <2>1. Types /\ PathInv /\ [Next]_vars => PathInv'  BY <1>1, PathStep
  <2> QED  BY <2>1, InitPath, AlwaysTypes, PTL DEF Spec
<1> QED  BY <1>1

\* A listed backup's file is there and holds what was captured, as long as two
\* captures of one account never share a second (writeCharacterBackupFile names
\* the file for both).
THEOREM ListedBackupsKept == "second" \notin Races => (Spec => []BackupsKept)
<1>1. ASSUME "second" \notin Races PROVE Spec => []BackupsKept
  <2>1. PathInv => BackupsKept  BY DEF PathInv
  <2> QED  BY <1>1, <2>1, AlwaysPath, PTL
<1> QED  BY <1>1

-----------------------------------------------------------------------------
(* No safe delete takes away what no backup covers, when the player keeps  *)
(* out while a request runs and nobody removes a backup that a request     *)
(* relies on.                                                              *)

\* Without a store nothing is listed, so nothing is removed either.
StoreInv == ~store => records = <<>> /\ \A r \in Requests : ~At(r, "unlink")

\* The files that no record leads to stay as they are.
FilesStay ==
    /\ store' = store
    /\ store \/ \A p \in DOMAIN files : p \in DOMAIN files' /\ files'[p] = files[p]

LEMMA StoreQuiet ==
    ASSUME StoreInv, UNCHANGED <<store, files, records>>, NEW r \in Requests, OthersStay(r),
           request'[r].pc # "unlink" \/ request' = request
    PROVE  FilesStay /\ StoreInv'
<1>1. FilesStay  BY DEF FilesStay
<1>2. \A q \in Requests : At(q, "unlink")' => At(q, "unlink")  BY DEF OthersStay, At
<1> QED  BY <1>1, <1>2 DEF StoreInv

LEMMA StoreStep ==
    ASSUME "second" \notin Races, Types, StoreInv, [Next]_vars PROVE FilesStay /\ StoreInv'
<1>1. CASE UNCHANGED vars  BY <1>1 DEF vars, FilesStay, StoreInv, At
<1>2. CASE Outside
  <2>1. store' = store
    BY <1>2 DEF Outside, Create, Login, Play, Logout, Second, Patched
  <2> QED  BY <1>2, <2>1, OutsideStep DEF FilesStay, StoreInv, At
<1> USE DEF world
<1>3. ASSUME NEW r \in Requests, Resolve(r) PROVE FilesStay /\ StoreInv'
  BY <1>3, ResolveStep, StoreQuiet DEF Resolve
<1>4. ASSUME NEW r \in Requests, ResolveAgain(r) PROVE FilesStay /\ StoreInv'
  BY <1>4, AgainStep, StoreQuiet DEF ResolveAgain
<1>5. ASSUME NEW r \in Requests, Export(r) PROVE FilesStay /\ StoreInv'
  <2>1. request'[r].pc # "unlink"  BY <1>5, ExportStep DEF Idle, Writing
  <2> QED  BY <1>5, <2>1, ExportStep, StoreQuiet DEF Export
<1>6. ASSUME NEW r \in Requests, WriteFile(r) PROVE FilesStay /\ StoreInv'
  <2>1. OthersStay(r) /\ UNCHANGED <<store, records>>  BY <1>6, WriteStep DEF WriteFile
  <2>2. request'[r].pc # "unlink"  BY <1>6, WriteStep DEF Idle
  <2>3. \A p \in DOMAIN files : p \in DOMAIN files' /\ files'[p] = files[p]
    BY <1>6, WriteStep
  <2>4. \A q \in Requests : At(q, "unlink")' => At(q, "unlink")
    BY <2>1, <2>2 DEF OthersStay, At
  <2> QED  BY <2>1, <2>3, <2>4 DEF FilesStay, StoreInv
<1>7. ASSUME NEW r \in Requests, CreateRecord(r) PROVE FilesStay /\ StoreInv'
  <2>1. UNCHANGED <<store, files>> /\ (store \/ records' = records)
    BY <1>7 DEF CreateRecord
  <2>2. OthersStay(r) /\ request'[r].pc # "unlink"  BY <1>7, RecordStep
  <2>3. \A q \in Requests : At(q, "unlink")' => At(q, "unlink")
    BY <2>2 DEF OthersStay, At
  <2> QED  BY <2>1, <2>3 DEF FilesStay, StoreInv
<1>8. ASSUME NEW r \in Requests, Remove(r) PROVE FilesStay /\ StoreInv'
  BY <1>8, RemoveStep, StoreQuiet DEF Remove
<1>9. ASSUME NEW r \in Requests, RemovePlain(r) PROVE FilesStay /\ StoreInv'
  BY <1>9, RemovePlainStep, StoreQuiet DEF RemovePlain
<1>10. ASSUME NEW r \in Requests, CleanStates(r) PROVE FilesStay /\ StoreInv'
  BY <1>10, CleanStep, StoreQuiet DEF CleanStates
<1>11. ASSUME NEW r \in Requests, LoadBackup(r) PROVE FilesStay /\ StoreInv'
  <2>1. request' = request \/ request'[r].pc # "unlink"  BY <1>11, LoadStep DEF Loaded
  <2> QED  BY <1>11, <2>1, LoadStep, StoreQuiet DEF LoadBackup
<1>12. ASSUME NEW r \in Requests, ResolveOld(r) PROVE FilesStay /\ StoreInv'
  BY <1>12, ResolveOldStep, StoreQuiet DEF ResolveOld
<1>13. ASSUME NEW r \in Requests, Import(r) PROVE FilesStay /\ StoreInv'
  BY <1>13, ImportStep, StoreQuiet DEF Import
<1>14. ASSUME NEW r \in Requests, CleanActors(r) PROVE FilesStay /\ StoreInv'
  BY <1>14, CleanActorsStep, StoreQuiet DEF CleanActors
<1>15. ASSUME NEW r \in Requests, DropRecord(r) PROVE FilesStay /\ StoreInv'
  <2>1. Kept # {} /\ UNCHANGED <<store, files>>  BY <1>15 DEF DropRecord
  <2>2. store  BY <2>1 DEF StoreInv, Kept
  <2> QED  BY <2>1, <2>2 DEF FilesStay, StoreInv
<1>16. ASSUME NEW r \in Requests, Unlink(r) PROVE FilesStay /\ StoreInv'
  <2>1. At(r, "unlink") /\ store' = store  BY <1>16 DEF Unlink
  <2>2. store  BY <2>1 DEF StoreInv
  <2> QED  BY <2>1, <2>2 DEF FilesStay, StoreInv
<1> QED  BY <1>1, <1>2, <1>3, <1>4, <1>5, <1>6, <1>7, <1>8, <1>9, <1>10, <1>11, <1>12,
            <1>13, <1>14, <1>15, <1>16 DEF Next, Outside

\* A safe delete that has its export and has not removed the character yet.
Capturing(r) == /\ At(r, "write") \/ At(r, "record") \/ At(r, "remove")
                /\ request[r].kind = "safeDelete"

\* The player is away, and what was achieved is in a backup or, until its
\* record is written, in the capture itself: an overlapping restore may bring an
\* earlier level back, which the backup it came from holds.
Netted(r) ==
    Capturing(r) => /\ ~online
                    /\ \/ Covered
                       \/ ~At(r, "remove") /\ request[r].data.level = level

\* A restore still has the backup it read.
Backed(r) ==
    ~At(r, "idle") /\ request[r].kind = "restore" =>
        request[r].record \in Kept /\ records[request[r].record].data = request[r].data

NetInv == \A r \in Requests : Netted(r) /\ Backed(r)

\* What may coincide, when SafetyNet is to hold.
Alone == {"login", "drop", "second"} \cap Races = {}

\* A step that changes neither the level nor a record, and brings nobody online.
LEMMA NetQuiet ==
    ASSUME NetInv, FilesStay, NEW r \in Requests, OthersStay(r), UNCHANGED <<level, records>>,
           online' => online, Netted(r)', Backed(r)'
    PROVE  NetInv'
<1>1. Kept' = Kept /\ (Covered => Covered')  BY DEF Kept, Covered, FilesStay
<1>2. ASSUME NEW q \in Requests, q # r PROVE Netted(q)' /\ Backed(q)'
  <2>1. request'[q] = request[q] /\ Netted(q) /\ Backed(q)  BY <1>2 DEF OthersStay, NetInv
  <2> QED  BY <1>1, <2>1 DEF Netted, Backed, Capturing, At
<1> QED  BY <1>2 DEF NetInv

\* A request that ends, has removed the character, has no export yet or deletes
\* without a backup has nothing to keep.
LEMMA NetFree ==
    ASSUME NEW r \in Requests,
           \/ request'[r].pc = "idle"
           \/ request'[r].pc \in {"clean", "resolve", "export"} /\ request'[r].kind # "restore"
           \/ request'[r].pc = "remove" /\ request'[r].kind \notin {"safeDelete", "restore"}
    PROVE  Netted(r)' /\ Backed(r)'
BY DEF Netted, Backed, Capturing, At

LEMMA NetRecord ==
    ASSUME Types, PathInv, NetInv, FilesStay, NEW r \in Requests, CreateRecord(r)
    PROVE  NetInv'
<1>0. At(r, "record") /\ UNCHANGED <<level, online>> /\ OthersStay(r)
  BY RecordStep DEF CreateRecord, database, world
<1>1. CASE records' = records /\ request'[r].pc = "idle"
  <2>1. Netted(r)' /\ Backed(r)'  BY <1>1, NetFree
  <2> QED  BY <1>0, <1>1, <2>1, NetQuiet
<1>2. CASE records' = records /\ request'[r].pc # "idle"
  <2>0. Kept' = Kept  BY <1>2 DEF Kept
  <2>1. ~store /\ request'[r].pc = "remove" /\ request'[r].kind = request[r].kind
    BY <1>2, <2>0, RecordStep
  <2>2. Covered => Covered'  BY <1>0, <1>2 DEF Covered, FilesStay, Kept
  <2>3. request[r].path \in DOMAIN files /\ files[request[r].path] = request[r].data
    BY <1>0 DEF PathInv, Holds
  <2>4. request[r].data.level = level => Covered'
    BY <1>0, <2>1, <2>3 DEF Covered, FilesStay
  <2>5. Netted(r)'
    <3> SUFFICES ASSUME Capturing(r)' PROVE ~online' /\ Covered'  BY DEF Netted
    <3>1. request[r].kind = "safeDelete"  BY <2>1 DEF Capturing
    <3>2. Capturing(r) /\ Netted(r)  BY <1>0, <3>1 DEF Capturing, NetInv
    <3> QED  BY <1>0, <2>2, <2>4, <3>2 DEF Netted
  <2>6. Backed(r)'
    <3>1. request[r] \in Recording  BY <1>0, Shapes
    <3> QED  BY <2>1, <3>1 DEF Backed, At, Recording
  <2> QED  BY <1>0, <1>2, <2>5, <2>6, NetQuiet
<1>3. CASE records' # records
  <2> DEFINE n == Len(records) + 1
  <2>0. store /\ store' = store  BY <1>3, RecordStep DEF FilesStay
  <2>1. /\ Kept' = Kept \cup {n} /\ n \notin Kept
        /\ records'[n].data = request[r].data
        /\ \A k \in Kept : records'[k] = records[k]
        /\ request'[r].pc \in {"idle", "remove"}
        /\ request'[r].pc = "remove" => request'[r].kind = request[r].kind
    BY <1>3, RecordStep
  <2> HIDE DEF n
  <2>2. Covered => Covered'  BY <1>0, <2>0, <2>1 DEF Covered
  <2>3. request[r].data.level = level => Covered'  BY <1>0, <2>0, <2>1 DEF Covered
  <2>4. ASSUME NEW q \in Requests, q # r PROVE Netted(q)' /\ Backed(q)'
    <3>1. request'[q] = request[q] /\ Netted(q) /\ Backed(q)
      BY <1>0, <2>4 DEF OthersStay, NetInv
    <3> QED  BY <1>0, <2>1, <2>2, <3>1 DEF Netted, Backed, Capturing, At
  <2>5. Netted(r)'
    <3> SUFFICES ASSUME Capturing(r)' PROVE ~online' /\ Covered'  BY DEF Netted
    <3>1. request'[r].pc = "remove" /\ request[r].kind = "safeDelete"
      BY <2>1 DEF Capturing, At
    <3>2. Capturing(r) /\ Netted(r)  BY <1>0, <3>1 DEF Capturing, NetInv
    <3> QED  BY <1>0, <2>2, <2>3, <3>2 DEF Netted
  <2>6. Backed(r)'
    <3>1. request[r] \in Recording  BY <1>0, Shapes
    <3> QED  BY <2>1, <3>1 DEF Backed, At, Recording
  <2> QED  BY <2>4, <2>5, <2>6 DEF NetInv
<1> QED  BY <1>1, <1>2, <1>3

LEMMA NetImport ==
    ASSUME Types, StoreInv, FilesStay, NetInv, NEW r \in Requests, Import(r)
    PROVE  NetInv'
<1>0. At(r, "import") /\ records' = records /\ Kept' = Kept /\ online' = online
      /\ OthersStay(r) /\ request[r] \in Restoring
  BY ImportStep DEF Import, world, Kept
<1>1. CASE request'[r].pc = "idle" /\ level' = level
  <2>1. Netted(r)' /\ Backed(r)'  BY <1>1, NetFree
  <2> QED  BY <1>0, <1>1, <2>1, NetQuiet
<1>2. CASE ~(request'[r].pc = "idle" /\ level' = level)
  <2>1. /\ request'[r].pc = "clean" /\ request'[r].kind = "restore"
        /\ request'[r].data = request[r].data /\ request'[r].record = request[r].record
        /\ level' = request[r].data.level
    BY <1>2, ImportStep
  <2>2. request[r].record \in Kept /\ records[request[r].record].data = request[r].data
    BY <1>0 DEF NetInv, Backed, At, Restoring
  <2>3. Covered'
    <3>1. store'  BY <2>2 DEF StoreInv, FilesStay, Kept
    <3> QED  BY <1>0, <2>1, <2>2, <3>1 DEF Covered
  <2>4. ASSUME NEW q \in Requests, q # r PROVE Netted(q)' /\ Backed(q)'
    <3>1. request'[q] = request[q] /\ Netted(q) /\ Backed(q)
      BY <1>0, <2>4 DEF OthersStay, NetInv
    <3> QED  BY <1>0, <2>3, <3>1 DEF Netted, Backed, Capturing, At
  <2>5. Netted(r)'  BY <2>1 DEF Netted, Capturing, At
  <2>6. Backed(r)'  BY <1>0, <2>1, <2>2 DEF Backed
  <2> QED  BY <2>4, <2>5, <2>6 DEF NetInv
<1> QED  BY <1>1, <1>2

LEMMA NetDrop ==
    ASSUME "drop" \notin Races, Types, NetInv, NEW r \in Requests, DropRecord(r)
    PROVE  NetInv'
<1>1. PICK k \in Kept : /\ records' = [records EXCEPT ![k] = Dropped]
                        /\ request' = [request EXCEPT ![r] =
                               [pc |-> "unlink", kind |-> "drop", path |-> records[k].path]]
                        /\ ~Needed(k)
  BY DEF DropRecord
<1>2. /\ OthersStay(r) /\ request'[r].pc = "unlink" /\ Kept' = Kept \ {k}
      /\ \A l \in Kept : l # k => records'[l] = records[l]
  BY <1>1, DropStep
<1>3. ASSUME NEW q \in Requests, q # r PROVE Netted(q)' /\ Backed(q)'
  <2>1. request'[q] = request[q] /\ Backed(q)  BY <1>2, <1>3 DEF OthersStay, NetInv
  <2>2. ~Capturing(q)  BY <1>1 DEF Needed, Capturing, At
  <2>3. Netted(q)'  BY <2>1, <2>2 DEF Netted, Capturing, At
  <2>4. ~At(q, "idle") /\ request[q].kind = "restore" => request[q].record # k
    BY <1>1 DEF Needed
  <2> QED  BY <1>2, <2>1, <2>3, <2>4 DEF Backed, At
<1>4. Netted(r)'  BY <1>2 DEF Netted, Capturing, At
<1>5. Backed(r)'
  <2>1. request[r] \in Shape /\ request'[r].kind = "drop"  BY <1>1 DEF Types
  <2> QED  BY <2>1 DEF Backed
<1> QED  BY <1>3, <1>4, <1>5 DEF NetInv

LEMMA NetOutside ==
    ASSUME "login" \notin Races, Types, FilesStay, NetInv, Outside
    PROVE  NetInv'
<1>0. UNCHANGED <<request, files, records>> /\ Kept' = Kept  BY OutsideStep DEF Kept
<1>1. \A r \in Requests : Backed(r)'  BY <1>0 DEF NetInv, Backed, At
<1>2. CASE Create \/ Login \/ Play
  <2>1. \A r \in Requests : ~Capturing(r)
    <3>1. CASE Create \/ Login  BY <3>1 DEF Create, Login, Quiet, Capturing, At
    <3>2. CASE Play  BY <3>2 DEF Play, NetInv, Netted
    <3> QED  BY <1>2, <3>1, <3>2
  <2>2. \A r \in Requests : Netted(r)'  BY <1>0, <2>1 DEF Netted, Capturing, At
  <2> QED  BY <1>1, <2>2 DEF NetInv
<1>3. CASE Logout \/ Second \/ Patched
  <2>1. level' = level /\ (online' => online)
    BY <1>3 DEF Logout, Second, Patched, database
  <2>2. Covered => Covered'  BY <1>0, <2>1 DEF Covered, FilesStay
  <2>3. \A r \in Requests : Netted(r)'
    BY <1>0, <2>1, <2>2 DEF NetInv, Netted, Capturing, At
  <2> QED  BY <1>1, <2>3 DEF NetInv
<1> QED  BY <1>2, <1>3 DEF Outside

LEMMA NetStep ==
    ASSUME Alone, Types, PathInv, StoreInv, NetInv, [Next]_vars PROVE NetInv'
<1>0. "login" \notin Races /\ "drop" \notin Races /\ FilesStay  BY StoreStep DEF Alone
<1>1. CASE UNCHANGED vars
  BY <1>1 DEF vars, NetInv, Netted, Backed, Capturing, Covered, Kept, At
<1>2. CASE Outside  BY <1>0, <1>2, NetOutside
<1>3. ASSUME NEW r \in Requests, Resolve(r) PROVE NetInv'
  <2>1. UNCHANGED <<level, records>> /\ (online' => online)
    BY <1>3 DEF Resolve, database, world
  <2>2. CASE request' = request
    <3>1. NetInv' <=> NetInv
      BY <2>1, <2>2, <1>3 DEF Resolve, world, NetInv, Netted, Backed, Capturing, Covered, Kept, At
    <3> QED  BY <3>1
  <2>3. CASE request' # request
    <3>1. Netted(r)' /\ Backed(r)'  BY <1>3, <2>3, ResolveStep, NetFree
    <3> QED  BY <1>0, <1>3, <2>1, <3>1, ResolveStep, NetQuiet
  <2> QED  BY <2>2, <2>3
<1>4. ASSUME NEW r \in Requests, Export(r) PROVE NetInv'
  <2>1. UNCHANGED <<level, records>> /\ online' = online
    BY <1>4 DEF Export, database, world
  <2>2. Netted(r)' /\ Backed(r)'
    <3>1. CASE request'[r] = Idle
      <4>1. request'[r].pc = "idle"  BY <3>1 DEF Idle
      <4> QED  BY <4>1, NetFree
    <3>2. CASE request'[r] # Idle
      <4>1. request'[r] \in Writing /\ ~online /\ request'[r].data.level = level
        BY <1>4, <3>2, ExportStep
      <4> QED  BY <2>1, <4>1 DEF Writing, Netted, Backed, At
    <3> QED  BY <3>1, <3>2
  <2> QED  BY <1>0, <1>4, <2>1, <2>2, ExportStep, NetQuiet
<1>16. ASSUME NEW r \in Requests, ResolveAgain(r) PROVE NetInv'
  <2>1. UNCHANGED <<level, records>> /\ online' = online
    BY <1>16 DEF ResolveAgain, database, world
  <2>2. Netted(r)' /\ Backed(r)'  BY <1>16, AgainStep, NetFree
  <2> QED  BY <1>0, <1>16, <2>1, <2>2, AgainStep, NetQuiet
<1>5. ASSUME NEW r \in Requests, WriteFile(r) PROVE NetInv'
  <2>1. UNCHANGED <<level, records>> /\ online' = online /\ At(r, "write") /\ Kept' = Kept
    BY <1>5 DEF WriteFile, database, world, Kept
  <2>2. Netted(r)' /\ Backed(r)'
    <3>1. CASE request'[r] = Idle
      <4>1. request'[r].pc = "idle"  BY <3>1 DEF Idle
      <4> QED  BY <4>1, NetFree
    <3>2. CASE request'[r] # Idle
      <4>1. /\ request'[r] \in Recording /\ request'[r].pc = "record"
            /\ request'[r].kind = request[r].kind /\ request'[r].data = request[r].data
        BY <1>5, <3>2, WriteStep
      <4>2. Covered => Covered'  BY <1>0, <2>1 DEF Covered, FilesStay
      <4>3. Netted(r)  BY DEF NetInv
      <4>4. Netted(r)'  BY <2>1, <4>1, <4>2, <4>3 DEF Netted, Capturing, At
      <4>5. Backed(r)'  BY <4>1 DEF Recording, Backed
      <4> QED  BY <4>4, <4>5
    <3> QED  BY <3>1, <3>2
  <2> QED  BY <1>0, <1>5, <2>1, <2>2, WriteStep, NetQuiet
<1>6. ASSUME NEW r \in Requests, CreateRecord(r) PROVE NetInv'  BY <1>0, <1>6, NetRecord
<1>7. ASSUME NEW r \in Requests, Remove(r) PROVE NetInv'
  <2>1. UNCHANGED <<level, records>>  BY <1>7 DEF Remove
  <2>2. Netted(r)' /\ Backed(r)'  BY <1>7, RemoveStep, NetFree
  <2>3. (online' => online) /\ OthersStay(r)  BY <1>7, RemoveStep
  <2> QED  BY <1>0, <2>1, <2>2, <2>3, NetQuiet
<1>8. ASSUME NEW r \in Requests, RemovePlain(r) PROVE NetInv'
  <2>1. UNCHANGED <<level, records>>  BY <1>8 DEF RemovePlain
  <2>2. Netted(r)' /\ Backed(r)'  BY <1>8, RemovePlainStep, NetFree
  <2>3. (online' => online) /\ OthersStay(r)  BY <1>8, RemovePlainStep
  <2> QED  BY <1>0, <2>1, <2>2, <2>3, NetQuiet
<1>9. ASSUME NEW r \in Requests, CleanStates(r) PROVE NetInv'
  <2>1. UNCHANGED <<level, records>> /\ (online' => online) /\ Kept' = Kept /\ At(r, "clean")
    BY <1>9 DEF CleanStates, world, Kept
  <2>2. Netted(r)' /\ Backed(r)'
    <3>1. CASE request'[r].pc = "idle"  BY <3>1, NetFree
    <3>2. CASE request'[r].pc # "idle"
      <4>1. /\ request'[r].pc = "actors" /\ request[r] \in Restoring
            /\ request'[r].data = request[r].data /\ request'[r].record = request[r].record
        BY <1>9, <3>2, CleanStep
      <4>2. request[r].record \in Kept /\ records[request[r].record].data = request[r].data
        BY <2>1, <4>1 DEF NetInv, Backed, At, Restoring
      <4> QED  BY <2>1, <4>1, <4>2 DEF Netted, Capturing, Backed, At
    <3> QED  BY <3>1, <3>2
  <2>3. OthersStay(r)  BY <1>9, CleanStep
  <2> QED  BY <1>0, <2>1, <2>2, <2>3, NetQuiet
<1>10. ASSUME NEW r \in Requests, LoadBackup(r) PROVE NetInv'
  <2>1. UNCHANGED <<level, records, store, files>> /\ online' = online /\ Kept' = Kept
    BY <1>10 DEF LoadBackup, database, world, Kept
  <2>2. CASE request' = request
    <3>1. NetInv' <=> NetInv
      BY <2>1, <2>2 DEF NetInv, Netted, Backed, Capturing, Covered, At
    <3> QED  BY <3>1
  <2>3. CASE request' # request
    <3>1. /\ request'[r] \in Loaded /\ request'[r].record \in Kept
          /\ request'[r].data = files[records[request'[r].record].path]
      BY <1>10, <2>3, LoadStep
    <3>2. files[records[request'[r].record].path] = records[request'[r].record].data
      BY <3>1 DEF PathInv, BackupsKept
    <3>3. Netted(r)' /\ Backed(r)'
      BY <2>1, <3>1, <3>2 DEF Loaded, Netted, Capturing, Backed, At
    <3> QED  BY <1>0, <1>10, <2>1, <3>3, LoadStep, NetQuiet
  <2> QED  BY <2>2, <2>3
<1>11. ASSUME NEW r \in Requests, ResolveOld(r) PROVE NetInv'
  <2>1. UNCHANGED <<level, records>> /\ online' = online /\ Kept' = Kept
    BY <1>11 DEF ResolveOld, database, world, Kept
  <2>2. /\ request'[r] \in Restoring /\ request'[r].pc = "import" /\ OthersStay(r)
        /\ request'[r].data = request[r].data /\ request'[r].record = request[r].record
    BY <1>11, ResolveOldStep
  <2>3. request[r].record \in Kept /\ records[request[r].record].data = request[r].data
    <3>1. request[r] \in Loaded  BY <1>11, Shapes DEF ResolveOld
    <3> QED  BY <3>1 DEF NetInv, Backed, At, Loaded
  <2>4. Netted(r)' /\ Backed(r)'  BY <2>1, <2>2, <2>3 DEF Netted, Capturing, Backed, At
  <2> QED  BY <1>0, <2>1, <2>2, <2>4, NetQuiet
<1>12. ASSUME NEW r \in Requests, Import(r) PROVE NetInv'  BY <1>0, <1>12, NetImport
<1>13. ASSUME NEW r \in Requests, CleanActors(r) PROVE NetInv'
  <2>1. UNCHANGED <<level, records>> /\ online' = online  BY <1>13 DEF CleanActors
  <2>2. Netted(r)' /\ Backed(r)'  BY <1>13, CleanActorsStep, NetFree
  <2> QED  BY <1>0, <1>13, <2>1, <2>2, CleanActorsStep, NetQuiet
<1>14. ASSUME NEW r \in Requests, DropRecord(r) PROVE NetInv'  BY <1>0, <1>14, NetDrop
<1>15. ASSUME NEW r \in Requests, Unlink(r) PROVE NetInv'
  <2>1. UNCHANGED <<level, records>> /\ online' = online  BY <1>15 DEF Unlink, database, world
  <2>2. Netted(r)' /\ Backed(r)'  BY <1>15, UnlinkStep, NetFree
  <2> QED  BY <1>0, <1>15, <2>1, <2>2, UnlinkStep, NetQuiet
<1> QED  BY <1>1, <1>2, <1>3, <1>4, <1>5, <1>6, <1>7, <1>8, <1>9, <1>10, <1>11, <1>12,
            <1>13, <1>14, <1>15, <1>16 DEF Next, Outside

LEMMA InitNet == Init => StoreInv /\ NetInv
<1> SUFFICES ASSUME Init PROVE StoreInv /\ NetInv  OBVIOUS
<1>1. \A r \in Requests : request[r].pc = "idle"  BY DEF Init, Idle
<1> QED  BY <1>1 DEF Init, StoreInv, NetInv, Netted, Backed, Capturing, At

\* Whichever way a safe delete overlaps other deletes, captures and restores, the
\* step that takes its character away finds what the character had achieved in a
\* listed backup (captureSnapshot before deleteAccount in processDeleteCharacter),
\* and in a file when there is no store to list it in: as long as nobody logs in or removes a backup in use meanwhile, and no two
\* captures of one account share a second.
THEOREM NeverWithoutBackup == Alone => (Spec => SafetyNet)
<1>1. ASSUME Alone PROVE Spec => SafetyNet
  <2>1. "second" \notin Races  BY <1>1 DEF Alone
  <2>2. Types /\ PathInv /\ StoreInv /\ NetInv /\ [Next]_vars => NetInv'  BY <1>1, NetStep
  <2>4. Types /\ StoreInv /\ [Next]_vars => StoreInv'  BY <2>1, StoreStep
  <2>3. NetInv =>
          [\A r \in Requests :
              At(r, "remove") /\ request[r].kind = "safeDelete" /\ account # 0 /\ account' = 0 =>
                  Covered]_vars
    BY DEF NetInv, Netted, Capturing
  <2> QED  BY <2>1, <2>2, <2>3, <2>4, InitNet, AlwaysPath, PTL DEF Spec, SafetyNet
<1> QED  BY <1>1
=============================================================================
