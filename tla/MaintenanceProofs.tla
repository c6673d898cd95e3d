-------------------------- MODULE MaintenanceProofs --------------------------
(***************************************************************************)
(* Theorems about the maintenance of one game host, for every number of    *)
(* requests, dumps, occurrences, timers, updates and faults: its types,    *)
(* and the promises of a countdown, of a restore job and of the schedule   *)
(* of dumps with its retention.                                            *)
(***************************************************************************)
EXTENDS Maintenance, SequenceTheorems, FiniteSetTheorems, TLAPS

-----------------------------------------------------------------------------
(* The list of files                                                       *)

LEMMA Least ==
    ASSUME NEW S \in SUBSET Nat, S # {}
    PROVE  \E n \in S : \A m \in S : n <= m
<1> DEFINE R == OpToRel(<, Nat)
<1>1. \A n, m \in Nat : m < n => <<m, n>> \in R  BY DEF OpToRel
<1>2. IsWellFoundedOn(R, Nat)  BY NatLessThanWellFounded
<1> HIDE DEF R
<1>3. PICK n \in S : \A m \in S : ~(<<m, n>> \in R)  BY <1>2, WFMin
<1>4. \A m \in S : n <= m
  <2> SUFFICES ASSUME NEW m \in S PROVE n <= m  OBVIOUS
  <2>1. n \in Nat /\ m \in Nat  OBVIOUS
  <2>2. ~(m < n)  BY <1>1, <1>3, <2>1
  <2> QED  BY <2>1, <2>2
<1> QED  BY <1>4

\* RemoveFirst takes one place out of a sequence and keeps the order of the
\* others.
LEMMA RemovedAt ==
    ASSUME NEW S, NEW s \in Seq(S), NEW e, e \in ToSet(s)
    PROVE  \E k \in 1..Len(s) :
             /\ s[k] = e
             /\ RemoveFirst(s, e) \in Seq(S)
             /\ Len(RemoveFirst(s, e)) = Len(s) - 1
             /\ \A i \in 1..(Len(s) - 1) :
                  RemoveFirst(s, e)[i] = IF i < k THEN s[i] ELSE s[i + 1]
<1>1. Len(s) \in Nat /\ DOMAIN s = 1..Len(s)  BY LenProperties
<1> DEFINE I == {i \in 1..Len(s) : s[i] = e}
           k == SelectInSeq(s, LAMBDA v : v = e)
<1>2. PICK j \in 1..Len(s) : s[j] = e  BY <1>1 DEF ToSet
<1>3. I # {} /\ I \in SUBSET Nat  BY <1>1, <1>2
<1>4. k = Min(I)  BY <1>3 DEF SelectInSeq
<1>5. \E n \in I : \A m \in I : n <= m  BY <1>3, Least
<1>6. k \in I  BY <1>4, <1>5 DEF Min
<1> HIDE DEF k
<1>7. RemoveFirst(s, e) = RemoveAt(s, k)  BY <1>2 DEF RemoveFirst, k
<1>8. k \in 1..Len(s) /\ s[k] = e  BY <1>6
<1> DEFINE a == SubSeq(s, 1, k - 1)
           b == SubSeq(s, k + 1, Len(s))
<1>9. /\ a \in Seq(S) /\ Len(a) = k - 1
      /\ \A i \in 1..(k - 1) : a[i] = s[i]
  <2>1. \A i \in 1..(k - 1) : s[i] \in S  BY <1>1, <1>8, ElementOfSeq
  <2>2. 1 \in Int /\ k - 1 \in Int /\ (1 <= k - 1 => Len(a) = k - 1)
    BY <1>1, <1>8, <2>1, SubSeqProperties
  <2> QED  BY <1>1, <1>8, <2>1, <2>2, SubSeqProperties
<1>10. /\ b \in Seq(S) /\ Len(b) = Len(s) - k
       /\ \A i \in 1..(Len(s) - k) : b[i] = s[k + i]
  <2>1. \A i \in (k + 1)..Len(s) : s[i] \in S  BY <1>1, <1>8, ElementOfSeq
  <2>2. k + 1 \in Int /\ Len(s) \in Int  BY <1>1, <1>8
  <2>3. /\ b \in Seq(S)
        /\ Len(b) = IF k + 1 <= Len(s) THEN Len(s) - (k + 1) + 1 ELSE 0
        /\ \A i \in 1..(Len(s) - (k + 1) + 1) : b[i] = s[k + 1 + i - 1]
    BY <2>1, <2>2, SubSeqProperties
  <2> HIDE DEF b
  <2>4. Len(b) = Len(s) - k
    <3>1. k \in Int /\ Len(s) \in Int /\ k <= Len(s)  BY <1>1, <1>8
    <3>2. CASE k + 1 <= Len(s)
      <4>1. Len(b) = Len(s) - (k + 1) + 1  BY <2>3, <3>2
      <4> QED  BY <3>1, <4>1
    <3>3. CASE ~(k + 1 <= Len(s))
      <4>1. Len(b) = 0  BY <2>3, <3>3
      <4>2. k = Len(s)  BY <3>1, <3>3
      <4> QED  BY <3>1, <4>1, <4>2
    <3> QED  BY <3>2, <3>3
  <2>5. ASSUME NEW i \in 1..(Len(s) - k) PROVE b[i] = s[k + i]
    <3>1. k \in Nat /\ Len(s) \in Nat /\ i \in Nat  BY <1>1, <1>8
    <3>2. i \in 1..(Len(s) - (k + 1) + 1) /\ k + 1 + i - 1 = k + i  BY <3>1
    <3> QED  BY <2>3, <3>2
  <2> QED  BY <2>3, <2>4, <2>5
<1> HIDE DEF a, b
<1>11. RemoveFirst(s, e) = a \o b  BY <1>7 DEF RemoveAt, a, b
<1>12. /\ a \o b \in Seq(S) /\ Len(a \o b) = Len(s) - 1
       /\ \A i \in 1..(Len(s) - 1) : (a \o b)[i] = IF i <= k - 1 THEN a[i] ELSE b[i - (k - 1)]
  <2>1. Len(a) + Len(b) = Len(s) - 1  BY <1>1, <1>8, <1>9, <1>10
  <2>2. /\ a \o b \in Seq(S) /\ Len(a \o b) = Len(a) + Len(b)
        /\ \A i \in 1..(Len(a) + Len(b)) :
             (a \o b)[i] = IF i <= Len(a) THEN a[i] ELSE b[i - Len(a)]
    BY <1>9, <1>10, ConcatProperties
  <2> QED  BY <1>9, <2>1, <2>2
<1>13. \A i \in 1..(Len(s) - 1) : (a \o b)[i] = IF i < k THEN s[i] ELSE s[i + 1]
  BY <1>1, <1>8, <1>9, <1>10, <1>12
<1> QED  BY <1>8, <1>11, <1>12, <1>13

\* Without repetitions, it takes out just the element.
LEMMA RemovedFirst ==
    ASSUME NEW S, NEW s \in Seq(S), NEW e, IsInjective(s)
    PROVE  /\ RemoveFirst(s, e) \in Seq(S)
           /\ IsInjective(RemoveFirst(s, e))
           /\ ToSet(RemoveFirst(s, e)) = ToSet(s) \ {e}
<1>1. Len(s) \in Nat /\ DOMAIN s = 1..Len(s)  BY LenProperties
<1>2. CASE e \notin ToSet(s)
  <2>1. RemoveFirst(s, e) = s  BY <1>1, <1>2 DEF RemoveFirst, ToSet
  <2> QED  BY <1>2, <2>1
<1>3. CASE e \in ToSet(s)
  <2> DEFINE t == RemoveFirst(s, e)
  <2>1. PICK k \in 1..Len(s) :
          /\ s[k] = e /\ t \in Seq(S) /\ Len(t) = Len(s) - 1
          /\ \A i \in 1..(Len(s) - 1) : t[i] = IF i < k THEN s[i] ELSE s[i + 1]
    BY <1>3, RemovedAt
  <2> HIDE DEF t
  <2>2. DOMAIN t = 1..(Len(s) - 1)  BY <2>1, LenProperties
  <2>3. \A i, j \in 1..Len(s) : s[i] = s[j] => i = j  BY <1>1 DEF IsInjective
  <2>4. IsInjective(t)
    <3> SUFFICES ASSUME NEW i \in 1..(Len(s) - 1), NEW j \in 1..(Len(s) - 1), t[i] = t[j]
                 PROVE  i = j
      BY <2>2 DEF IsInjective
    <3>1. i \in Int /\ j \in Int /\ i + 1 \in 1..Len(s) /\ j + 1 \in 1..Len(s)
          /\ i \in 1..Len(s) /\ j \in 1..Len(s)
      BY <1>1
    <3> QED  BY <2>1, <2>3, <3>1
  <2>5. \A i \in 1..(Len(s) - 1) : t[i] \in ToSet(s) /\ t[i] # e
    <3> SUFFICES ASSUME NEW i \in 1..(Len(s) - 1) PROVE t[i] \in ToSet(s) /\ t[i] # e
      OBVIOUS
    <3>1. i \in Int /\ i + 1 \in 1..Len(s) /\ i \in 1..Len(s)  BY <1>1
    <3>2. CASE i < k  BY <1>1, <2>1, <2>3, <3>1, <3>2 DEF ToSet
    <3>3. CASE ~(i < k)
      <4>1. t[i] = s[i + 1] /\ i + 1 # k  BY <2>1, <3>1, <3>3
      <4> QED  BY <1>1, <2>1, <2>3, <3>1, <4>1 DEF ToSet
    <3> QED  BY <3>2, <3>3
  <2>6. \A j \in 1..Len(s) : s[j] # e => \E i \in 1..(Len(s) - 1) : t[i] = s[j]
    <3> SUFFICES ASSUME NEW j \in 1..Len(s), s[j] # e
                 PROVE  \E i \in 1..(Len(s) - 1) : t[i] = s[j]
      OBVIOUS
    <3>1. j # k /\ j \in Int /\ k \in Int  BY <2>1
    <3>2. CASE j < k
      <4>1. j \in 1..(Len(s) - 1)  BY <1>1, <3>1, <3>2
      <4> QED  BY <2>1, <3>2, <4>1
    <3>3. CASE j > k
      <4>1. j - 1 \in 1..(Len(s) - 1) /\ ~(j - 1 < k) /\ (j - 1) + 1 = j  BY <1>1, <3>1, <3>3
      <4> QED  BY <2>1, <4>1
    <3> QED  BY <3>1, <3>2, <3>3
  <2>7. ToSet(t) = ToSet(s) \ {e}
    <3>1. ToSet(t) \subseteq ToSet(s) \ {e}
      <4>1. ToSet(t) = {t[i] : i \in 1..(Len(s) - 1)}  BY <2>2 DEF ToSet
      <4> QED  BY <2>5, <4>1
    <3>2. ASSUME NEW x \in ToSet(s) \ {e} PROVE x \in ToSet(t)
      <4>1. PICK j \in 1..Len(s) : x = s[j]  BY <1>1 DEF ToSet
      <4>2. PICK i \in 1..(Len(s) - 1) : t[i] = s[j]  BY <2>6, <4>1
      <4> QED  BY <2>2, <4>1, <4>2 DEF ToSet
    <3> QED  BY <3>1, <3>2
  <2> QED  BY <2>1, <2>4, <2>7 DEF t
<1> QED  BY <1>2, <1>3

LEMMA Appended ==
    ASSUME NEW S, NEW s \in Seq(S), NEW e \in S
    PROVE  /\ Append(s, e) \in Seq(S)
           /\ ToSet(Append(s, e)) = ToSet(s) \cup {e}
           /\ IsInjective(s) /\ e \notin ToSet(s) => IsInjective(Append(s, e))
<1>1. Len(s) \in Nat /\ DOMAIN s = 1..Len(s)  BY LenProperties
<1> DEFINE t == Append(s, e)
<1>2. /\ t \in Seq(S) /\ Len(t) = Len(s) + 1
      /\ \A i \in 1..Len(s) : t[i] = s[i]
      /\ t[Len(s) + 1] = e
  BY AppendProperties
<1>3. DOMAIN t = 1..(Len(s) + 1)  BY <1>2, LenProperties
<1> HIDE DEF t
<1>4. \A i \in 1..(Len(s) + 1) : i \in 1..Len(s) \/ i = Len(s) + 1  BY <1>1
<1>5. 1..Len(s) \subseteq 1..(Len(s) + 1) /\ Len(s) + 1 \in 1..(Len(s) + 1)  BY <1>1
<1>6. ToSet(t) = ToSet(s) \cup {e}  BY <1>1, <1>2, <1>3, <1>4, <1>5 DEF ToSet
<1>7. ASSUME IsInjective(s), e \notin ToSet(s) PROVE IsInjective(t)
  <2> SUFFICES ASSUME NEW i \in 1..(Len(s) + 1), NEW j \in 1..(Len(s) + 1), t[i] = t[j]
               PROVE  i = j
    BY <1>3 DEF IsInjective
  <2>1. \A n \in 1..Len(s) : s[n] # e  BY <1>1, <1>7 DEF ToSet
  <2> QED  BY <1>1, <1>2, <1>4, <1>7, <2>1 DEF IsInjective
<1> QED  BY <1>2, <1>6, <1>7 DEF t

\* What keep_n keeps of a list: all, or its last KeepN files.
LEMMA KeptFiles ==
    ASSUME NEW S, NEW s \in Seq(S), IsInjective(s)
    PROVE  /\ Kept(s) \in Seq(S)
           /\ IsInjective(Kept(s))
           /\ ToSet(Kept(s)) \subseteq ToSet(s)
           /\ \/ Kept(s) = s
              \/ KeepN > 0 /\ Len(Kept(s)) = KeepN
<1>1. Len(s) \in Nat /\ DOMAIN s = 1..Len(s)  BY LenProperties
<1>2. KeepN \in Nat  BY BoundAssumption DEF BoundAssumption
<1>3. CASE KeepN = 0 \/ Len(s) <= KeepN  BY <1>3 DEF Kept
<1>4. CASE ~(KeepN = 0 \/ Len(s) <= KeepN)
  <2> DEFINE m == Len(s) - KeepN + 1
             t == SubSeq(s, m, Len(s))
  <2>1. m \in Int /\ Len(s) \in Int /\ m \in 1..Len(s) /\ Len(s) - m + 1 = KeepN
    BY <1>1, <1>2, <1>4
  <2>2. \A i \in m..Len(s) : s[i] \in S  BY <1>1, <2>1, ElementOfSeq
  <2>3. /\ t \in Seq(S) /\ Len(t) = IF m <= Len(s) THEN Len(s) - m + 1 ELSE 0
        /\ \A i \in 1..(Len(s) - m + 1) : t[i] = s[m + i - 1]
    BY <2>1, <2>2, SubSeqProperties
  <2>4. Kept(s) = t  BY <1>4 DEF Kept
  <2> HIDE DEF m, t
  <2>5. Len(t) = KeepN /\ KeepN > 0  BY <1>2, <1>4, <2>1, <2>3
  <2>6. DOMAIN t = 1..KeepN  BY <2>3, <2>5, LenProperties
  <2>7. \A i \in 1..KeepN : m + i - 1 \in 1..Len(s) /\ t[i] = s[m + i - 1]
    BY <1>1, <1>2, <2>1, <2>3
  <2>8. ToSet(t) \subseteq ToSet(s)  BY <1>1, <2>6, <2>7 DEF ToSet
  <2>9. IsInjective(t)
    <3> SUFFICES ASSUME NEW i \in 1..KeepN, NEW j \in 1..KeepN, t[i] = t[j] PROVE i = j
      BY <2>6 DEF IsInjective
    <3>1. m + i - 1 = m + j - 1  BY <1>1, <2>7 DEF IsInjective
    <3> QED  BY <2>1, <3>1
  <2> QED  BY <2>3, <2>4, <2>5, <2>8, <2>9
<1> QED  BY <1>3, <1>4

\* A list without repetitions has as many files as places.
LEMMA FilesCount ==
    ASSUME NEW S, IsFiniteSet(S), NEW s \in Seq(S), IsInjective(s)
    PROVE  IsFiniteSet(ToSet(s)) /\ Cardinality(ToSet(s)) = Len(s)
<1>1. Len(s) \in Nat /\ s \in [1..Len(s) -> S] /\ DOMAIN s = 1..Len(s)  BY LenProperties
<1>2. s \in [1..Len(s) -> ToSet(s)]  BY <1>1 DEF ToSet
<1>3. s \in Bijection(1..Len(s), ToSet(s))
  BY <1>1, <1>2 DEF Bijection, Injection, Surjection, IsInjective, ToSet
<1>4. ExistsBijection(1..Len(s), ToSet(s))  BY <1>3 DEF ExistsBijection
<1>5. IsFiniteSet(ToSet(s))  BY <1>1, <1>4, FS_NatBijection
<1> QED  BY <1>1, <1>4, <1>5, FS_CountingElements

-----------------------------------------------------------------------------
(* Types                                                                   *)

JobState == [pc : {"none", "check", "stop", "file", "restore", "done"},
             dump : 0..MaxDumps, boot : Nat, stopped : BOOLEAN,
             started : BOOLEAN, failed : BOOLEAN]
Request == Task({"idle", "dump", "save", "arm", "retract"}, 0..MaxTimers)
Scheduler == Task({"idle", "mark", "marking", "dump", "prune"}, 0..MaxOccurrences)

LEMMA IdleType == Idle \in Request /\ Idle \in Scheduler /\ None \in 0..MaxDumps
  BY BoundAssumption DEF BoundAssumption, Idle, None, Request, Scheduler, Task

\* What TypeOK says of the machine and the dumps, and of everything else.
StoredTypes ==
    /\ game \in BOOLEAN /\ container \in BOOLEAN /\ boot \in Nat
    /\ files \in Seq(Dumps)
    /\ dump \in [Dumps -> FileStates]
    /\ sameSecond \in BOOLEAN
    /\ deleted \subseteq Dumps
    /\ schedule \in [enabled : BOOLEAN, lastFired : 0..MaxOccurrences]
    /\ occurrence \in [latest : 0..MaxOccurrences, grace : BOOLEAN]

RunningTypes ==
    /\ scheduler \in Scheduler
    /\ fired \in [Occurrences -> Nat]
    /\ job \in JobState
    /\ timer \in [Timers -> {"none", "armed", "expired", "stopped", "fired"}]
    /\ pending \in [handle : 0..MaxTimers, at : 0..MaxTimers]
    /\ shown \in 0..MaxTimers
    /\ revoked \subseteq Timers
    /\ watcher \in [Updates -> [pc : {"none", "poll", "restart", "done"},
                                seen : BOOLEAN, polls : Nat]]
    /\ task \in [Updates -> {"none", "queued", "running", "over", "cut"}]
    /\ request \in [Requests -> Request]
    /\ left \in [faults : Nat, verbs : Nat]

LEMMA TypeParts == TypeOK <=> StoredTypes /\ RunningTypes
  BY DEF TypeOK, StoredTypes, RunningTypes, Scheduler, JobState, Request

LEMMA InitTypes == Init => TypeOK
<1> SUFFICES ASSUME Init PROVE TypeOK  OBVIOUS
<1>1. /\ FirstDumps \in Nat /\ MaxDumps \in Nat /\ FirstDumps <= MaxDumps
      /\ MaxOccurrences \in Nat /\ MaxTimers \in Nat /\ MaxFaults \in Nat /\ MaxVerbs \in Nat
  BY BoundAssumption DEF BoundAssumption
<1>2. files \in Seq(Dumps)
  <2>1. \A i \in 1..FirstDumps : i \in Dumps  BY <1>1 DEF Dumps
  <2>2. [i \in 1..FirstDumps |-> i] \in [1..FirstDumps -> Dumps]  BY <2>1
  <2>3. [1..FirstDumps -> Dumps] \subseteq Seq(Dumps)  BY <1>1, SeqDef
  <2> QED  BY <2>2, <2>3 DEF Init
<1>3. job \in JobState  BY <1>1 DEF Init, JobState, None
<1>4. request \in [Requests -> Request] /\ scheduler \in Scheduler  BY IdleType DEF Init
<1>5. dump \in [Dumps -> FileStates]  BY DEF Init, FileStates
<1>6. StoredTypes
  <2>1. schedule \in [enabled : BOOLEAN, lastFired : 0..MaxOccurrences]  BY <1>1 DEF Init
  <2>2. occurrence \in [latest : 0..MaxOccurrences, grace : BOOLEAN]  BY <1>1 DEF Init
  <2> QED  BY <1>2, <1>5, <2>1, <2>2 DEF Init, StoredTypes
<1>7. RunningTypes  BY <1>1, <1>3, <1>4 DEF Init, RunningTypes, None
<1> QED  BY <1>6, <1>7, TypeParts

\* What a command does to the machine, the job and the updates.
Commanded == /\ game' \in BOOLEAN /\ container' \in BOOLEAN /\ boot' \in Nat
             /\ task' \in [Updates -> {"none", "queued", "running", "over", "cut"}]
             /\ \/ job' = [job EXCEPT !.started = JobRunning]
                \/ job' = job /\ game' = FALSE

LEMMA Commands ==
    ASSUME TypeOK, NEW verb \in {"start", "stop", "restart"}, Execute(verb)
    PROVE  Commanded /\ job' \in JobState
<1>1. Start \/ Stop \/ Restart  BY DEF Execute
<1>2. JobRunning \in BOOLEAN /\ job \in JobState  BY DEF JobRunning, TypeOK, JobState
<1>3. [job EXCEPT !.started = JobRunning] \in JobState  BY <1>2 DEF JobState
<1> DEFINE Status == {"none", "queued", "running", "over", "cut"}
<1>4. game \in BOOLEAN /\ container \in BOOLEAN /\ boot \in Nat /\ boot + 1 \in Nat
      /\ task \in [Updates -> Status]
  BY DEF TypeOK
<1>5. Cuts => task' \in [Updates -> Status]  BY <1>4 DEF Cuts
<1>6. ASSUME Start PROVE Commanded  BY <1>4, <1>6 DEF Start, JobSeesStart, Commanded
<1>7. ASSUME Stop PROVE Commanded  BY <1>4, <1>5, <1>7 DEF Stop, Commanded
<1>8. ASSUME Restart PROVE Commanded  BY <1>4, <1>5, <1>8 DEF Restart, JobSeesStart, Commanded
<1>9. Commanded  BY <1>1, <1>6, <1>7, <1>8
<1> QED  BY <1>2, <1>3, <1>9 DEF Commanded


Budget == [faults : Nat, verbs : Nat]

LEMMA FaultType ==
    ASSUME TypeOK, NEW f, Fault(f) \/ UNCHANGED left
    PROVE  left' \in Budget
<1>1. left \in Budget  BY DEF TypeOK, Budget
<1>2. ASSUME Fault(f) PROVE left' \in Budget
  <2>1. left.faults - 1 \in Nat  BY <1>1, <1>2 DEF Fault, Budget
  <2> QED  BY <1>1, <1>2, <2>1 DEF Fault, Budget
<1> QED  BY <1>1, <1>2

LEMMA FilesTypes ==
    ASSUME TypeOK, NEW d \in Dumps
    PROVE  /\ Newest(d) \in Seq(Dumps)
           /\ RemoveFirst(files, d) \in Seq(Dumps)
           /\ Append(files, d) \in Seq(Dumps)
<1>1. files \in Seq(Dumps)  BY DEF TypeOK
<1>2. RemoveFirst(files, d) \in Seq(Dumps)
  <2>1. CASE d \in ToSet(files)  BY <1>1, <2>1, RemovedAt
  <2>2. CASE d \notin ToSet(files)
    <3>1. DOMAIN files = 1..Len(files)  BY <1>1, LenProperties
    <3> QED  BY <1>1, <2>2, <3>1 DEF RemoveFirst, ToSet
  <2> QED  BY <2>1, <2>2
<1>3. Append(files, d) \in Seq(Dumps)  BY <1>1, AppendProperties
<1>4. Append(RemoveFirst(files, d), d) \in Seq(Dumps)  BY <1>2, AppendProperties
<1> QED  BY <1>1, <1>2, <1>3, <1>4 DEF Newest

LEMMA KeptType == TypeOK => Kept(files) \in Seq(Dumps)
<1> SUFFICES ASSUME TypeOK PROVE Kept(files) \in Seq(Dumps)  OBVIOUS
<1>1. files \in Seq(Dumps) /\ Len(files) \in Nat /\ KeepN \in Nat
  BY LenProperties, BoundAssumption DEF BoundAssumption, TypeOK
<1>2. CASE KeepN = 0 \/ Len(files) <= KeepN  BY <1>1, <1>2 DEF Kept
<1>3. CASE ~(KeepN = 0 \/ Len(files) <= KeepN)
  <2> DEFINE m == Len(files) - KeepN + 1
  <2>1. m \in 1..Len(files) /\ Len(files) \in Int /\ m \in Int  BY <1>1, <1>3
  <2> HIDE DEF m
  <2>2. \A i \in m..Len(files) : files[i] \in Dumps  BY <1>1, <2>1, ElementOfSeq
  <2>3. SubSeq(files, m, Len(files)) \in Seq(Dumps)  BY <2>1, <2>2, SubSeqProperties
  <2> QED  BY <1>3, <2>3 DEF Kept, m
<1> QED  BY <1>2, <1>3

\* A dump takes one of the numbers, and what it does to the files.
LEMMA BeginType ==
    ASSUME TypeOK, NEW f \in Name, BeginDump(f)
    PROVE  /\ f \in Dumps /\ f \in 0..MaxDumps
           /\ dump' \in [Dumps -> FileStates]
           /\ files' \in Seq(Dumps)
           /\ sameSecond' \in BOOLEAN
<1>1. f \in Dumps  BY DEF BeginDump
<1>2. f \in 0..MaxDumps  BY <1>1, BoundAssumption DEF BoundAssumption, Dumps
<1>3. dump' \in [Dumps -> FileStates]
  <2> DEFINE new == CASE dump[f] = "none" -> "writing"
                      [] dump[f] \in {"whole", "lost"} -> "lost"
                      [] OTHER -> "shared"
  <2>1. new \in FileStates  BY DEF FileStates
  <2>2. dump' = [dump EXCEPT ![f] = new]  BY <1>1 DEF BeginDump, TypeOK
  <2> HIDE DEF new
  <2> QED  BY <2>1, <2>2 DEF TypeOK, FileStates
<1>4. RemoveFirst(files, f) \in Seq(Dumps)  BY <1>1, FilesTypes
<1>5. files' \in Seq(Dumps)
  <2>1. PICK g : g = RemoveFirst(files, f)  OBVIOUS
  <2>2. g \in Seq(Dumps)  BY <1>4, <2>1
  <2>3. Append(g, f) \in Seq(Dumps)  BY <1>1, <2>2, AppendProperties
  <2> QED  BY <2>1, <2>3 DEF BeginDump
<1> QED  BY <1>1, <1>2, <1>3, <1>5 DEF BeginDump

\* What the end of a dump makes of its file.
LEMMA EndType ==
    ASSUME TypeOK, NEW p, NEW outcome, DumpEnds(p, outcome)
    PROVE  dump' \in [Dumps -> FileStates]
<1>1. PICK after \in {"whole", Spoilt(p.dump)} : dump' = [dump EXCEPT ![p.dump] = after]
  BY DEF DumpEnds
<1>2. dump \in [Dumps -> FileStates]  BY DEF TypeOK, FileStates
<1>3. CASE p.dump \in Dumps
  <2>1. Spoilt(p.dump) \in FileStates  BY <1>2, <1>3 DEF Spoilt, FileStates
  <2>2. after \in FileStates  BY <1>1, <2>1 DEF FileStates
  <2> QED  BY <1>1, <1>2, <2>2
<1>4. CASE p.dump \notin Dumps  BY <1>1, <1>2, <1>4
<1> QED  BY <1>3, <1>4

Numbers == /\ MaxDumps \in Nat /\ MaxOccurrences \in Nat /\ MaxTimers \in Nat
           /\ MaxUpdates \in Nat /\ KeepN \in Nat
LEMMA NumberTypes == Numbers
  BY BoundAssumption DEF BoundAssumption, Numbers

LEMMA TypesDumping == TypeOK /\ Dumping => TypeOK'
<1> SUFFICES ASSUME TypeOK, Dumping PROVE TypeOK'  OBVIOUS
<1> USE NumberTypes DEF Numbers, machine, backups, restores, countdowns, updates
<1>1. CASE Occurs
  <2>1. occurrence'.latest \in 0..MaxOccurrences  BY <1>1 DEF Occurs, TypeOK
  <2>2. occurrence' \in [latest : 0..MaxOccurrences, grace : BOOLEAN]  BY <1>1, <2>1 DEF Occurs
  <2> QED  BY <1>1, <2>2 DEF Occurs, TypeOK
<1>2. CASE GraceEnds
  <2>1. occurrence' \in [latest : 0..MaxOccurrences, grace : BOOLEAN]
    BY <1>2 DEF GraceEnds, TypeOK
  <2> QED  BY <1>2, <2>1 DEF GraceEnds, TypeOK
<1>3. CASE Tick
  <2>1. scheduler' \in Scheduler  BY <1>3 DEF Tick, TypeOK, Scheduler, Task
  <2>2. fired' \in [Occurrences -> Nat]
    <3>1. fired \in [Occurrences -> Nat]  BY DEF TypeOK
    <3>2. \A o \in Occurrences : fired[o] + 1 \in Nat  BY <3>1
    <3> QED  BY <1>3, <3>1, <3>2 DEF Tick
  <2> QED  BY SMTT(60), <1>3, <2>1, <2>2 DEF Tick, TypeOK, Scheduler
<1>4. CASE Mark
  <2>1. left' \in Budget /\ scheduler' \in Scheduler
    <3>1. PICK cfg \in {schedule, NoSchedule} :
            Loaded(cfg) /\ scheduler' = [scheduler EXCEPT !.pc = "marking", !.enabled = cfg.enabled]
      BY <1>4 DEF Mark
    <3>2. cfg.enabled \in BOOLEAN  
      <4>1. NoSchedule.enabled = FALSE  BY DEF NoSchedule
      <4> QED  BY <4>1 DEF TypeOK
    <3>3. scheduler' \in Scheduler  BY <3>1, <3>2 DEF TypeOK, Scheduler, Task
    <3>4. left' \in Budget  BY <3>1, FaultType DEF Loaded
    <3> QED  BY <3>3, <3>4
  <2> QED  BY SMTT(60), <1>4, <2>1 DEF Mark, TypeOK, Scheduler, Budget
<1>5. CASE Marked
  <2>1. left' \in Budget  BY <1>5, FaultType DEF Marked
  <2>2. schedule' \in [enabled : BOOLEAN, lastFired : 0..MaxOccurrences]
    <3>1. scheduler.enabled \in BOOLEAN /\ scheduler.timer \in 0..MaxOccurrences
      BY DEF TypeOK, Task
    <3>2. schedule \in [enabled : BOOLEAN, lastFired : 0..MaxOccurrences]  BY DEF TypeOK
    <3>3. \/ schedule' = [enabled |-> scheduler.enabled, lastFired |-> scheduler.timer]
          \/ schedule' = schedule
      BY <1>5 DEF Marked
    <3> QED  BY <3>1, <3>2, <3>3
  <2>3. PICK f \in Name :
          BeginDump(f) /\ scheduler' = [scheduler EXCEPT !.pc = "dump", !.dump = f, !.boot = boot]
    BY <1>5 DEF Marked
  <2>4. /\ f \in 0..MaxDumps /\ dump' \in [Dumps -> FileStates]
        /\ files' \in Seq(Dumps) /\ sameSecond' \in BOOLEAN
    BY <2>3, BeginType
  <2>5. scheduler' \in Scheduler
    <3>1. scheduler \in Scheduler /\ boot \in Nat  BY DEF TypeOK, Scheduler
    <3> QED  BY <2>3, <2>4, <3>1 DEF Scheduler, Task
  <2> QED  BY <1>5, <2>1, <2>2, <2>4, <2>5 DEF Marked, TypeOK, Scheduler, Budget
<1>6. CASE ScheduledDumpEnds
  <2> DEFINE d == scheduler.dump
  <2>1. files' \in Seq(Dumps)
    <3>1. CASE d \in Dumps  BY <1>6, <3>1, FilesTypes DEF ScheduledDumpEnds
    <3>2. CASE d \notin Dumps
      <4>1. files \in Seq(Dumps)  BY DEF TypeOK
      <4>2. d \notin ToSet(files)  BY <3>2, <4>1, LenProperties, ElementOfSeq DEF ToSet
      <4> QED  BY <1>6, <4>1, <4>2 DEF ScheduledDumpEnds, Newest
    <3> QED  BY <3>1, <3>2
  <2>2. PICK outcome \in {"written", "failed", "silent"} :
          /\ DumpEnds(scheduler, outcome)
          /\ scheduler' = IF outcome = "failed" THEN Idle ELSE [scheduler EXCEPT !.pc = "prune"]
    BY <1>6 DEF ScheduledDumpEnds
  <2>3. left' \in Budget  BY <2>2, FaultType DEF DumpEnds
  <2>4. dump' \in [Dumps -> FileStates]
    BY <2>2, EndType
  <2>5. scheduler' \in Scheduler  BY <2>2, IdleType DEF TypeOK, Scheduler, Task
  <2> QED  BY SMTT(60), <1>6, <2>1, <2>3, <2>4, <2>5 DEF ScheduledDumpEnds, TypeOK, Scheduler, Budget
<1>7. CASE Prune
  <2>1. files' \in Seq(Dumps) /\ scheduler' \in Scheduler  BY <1>7, KeptType, IdleType DEF Prune
  <2> QED  BY <1>7, <2>1 DEF Prune, TypeOK, Scheduler
<1>8. CASE SecondEnds  BY <1>8 DEF SecondEnds, TypeOK
<1> QED  BY <1>1, <1>2, <1>3, <1>4, <1>5, <1>6, <1>7, <1>8 DEF Dumping

LEMMA TypesRestoring == TypeOK /\ Restoring => TypeOK'
<1> SUFFICES ASSUME TypeOK, Restoring PROVE TypeOK'  OBVIOUS
<1> USE DEF machine, backups, restores, countdowns, updates
<1>1. job \in JobState /\ Failed \in JobState  BY DEF TypeOK, JobState, Failed
<1>2. CASE Check
  <2>1. job' \in JobState  BY <1>1, <1>2 DEF Check, JobState
  <2>2. left' \in Budget  BY <1>2, FaultType DEF Check
  <2> QED  BY <1>2, <2>1, <2>2 DEF Check, TypeOK, JobState, Budget
<1>3. CASE StopShards
  <2>1. job' \in JobState  BY <1>1, <1>3 DEF StopShards, JobState
  <2>2. left' \in Budget  BY <1>3, FaultType DEF StopShards
  <2>3. game' \in BOOLEAN  BY <1>3 DEF StopShards, TypeOK
  <2> QED  BY <1>3, <2>1, <2>2, <2>3 DEF StopShards, TypeOK, JobState, Budget
<1>4. CASE OpenFile
  <2>1. job' \in JobState  BY <1>1, <1>4 DEF OpenFile, JobState, TypeOK
  <2> QED  BY <1>4, <2>1 DEF OpenFile, TypeOK, JobState
<1>5. CASE RestoreEnds
  <2>1. job' \in JobState  BY <1>1, <1>5 DEF RestoreEnds, JobState
  <2>2. left' \in Budget  BY <1>5, FaultType DEF RestoreEnds
  <2> QED  BY <1>5, <2>1, <2>2 DEF RestoreEnds, TypeOK, JobState, Budget
<1> QED  BY <1>2, <1>3, <1>4, <1>5 DEF Restoring

LEMMA TypesDumps ==
    ASSUME TypeOK, NEW r \in Requests,
           Backup(r) \/ BackupEnds(r) \/ Put(r) \/ PutSaved(r) \/ (\E d \in Dumps : Delete(r, d))
    PROVE  TypeOK'
<1> USE NumberTypes DEF Numbers, machine, backups, restores, countdowns, updates
<1>1. request \in [Requests -> Request] /\ request[r] \in Request  BY DEF TypeOK, Request
<1>2. Answer(r) => request' \in [Requests -> Request]  BY <1>1, IdleType DEF Answer
<1>3. CASE Backup(r)
  <2>1. PICK f \in Name :
          /\ BeginDump(f)
          /\ request' = [request EXCEPT ![r] = [Idle EXCEPT !.pc = "dump", !.dump = f, !.boot = boot]]
    BY <1>3 DEF Backup
  <2>2. /\ f \in 0..MaxDumps /\ dump' \in [Dumps -> FileStates]
        /\ files' \in Seq(Dumps) /\ sameSecond' \in BOOLEAN
    BY <2>1, BeginType
  <2>3. boot \in Nat  BY DEF TypeOK
  <2>4. [Idle EXCEPT !.pc = "dump", !.dump = f, !.boot = boot] \in Request
    BY <2>2, <2>3, IdleType DEF Request, Task
  <2>5. request' \in [Requests -> Request]  BY <1>1, <2>1, <2>4
  <2>6. StoredTypes'  BY <1>3, <2>1, <2>2, TypeParts DEF Backup, StoredTypes
  <2>7. RunningTypes'  BY <1>3, <2>1, <2>5, TypeParts DEF Backup, RunningTypes
  <2> QED  BY <2>6, <2>7 DEF TypeOK, StoredTypes, RunningTypes, Scheduler, JobState, Request
<1>4. CASE BackupEnds(r)
  <2> DEFINE d == request[r].dump
  <2>1. PICK outcome \in {"written", "failed", "silent"} :
          /\ DumpEnds(request[r], outcome)
          /\ files' = IF outcome = "silent" THEN RemoveFirst(files, d) ELSE Newest(d)
    BY <1>4 DEF BackupEnds
  <2>2. files' \in Seq(Dumps)
    <3>1. CASE d \in Dumps  BY <2>1, <3>1, FilesTypes
    <3>2. CASE d \notin Dumps
      <4>1. files \in Seq(Dumps) /\ DOMAIN files = 1..Len(files)  BY LenProperties DEF TypeOK
      <4>2. d \notin ToSet(files)  BY <3>2, <4>1, ElementOfSeq DEF ToSet
      <4>3. RemoveFirst(files, d) = files /\ Newest(d) = files
        BY <4>1, <4>2 DEF Newest, RemoveFirst, ToSet
      <4> QED  BY <2>1, <4>1, <4>3
    <3> QED  BY <3>1, <3>2
  <2>3. left' \in Budget  BY <2>1, FaultType DEF DumpEnds
  <2>4. dump' \in [Dumps -> FileStates]
    BY <2>1, EndType
  <2>5. request' \in [Requests -> Request]  BY <1>2, <1>4 DEF BackupEnds
  <2>6. StoredTypes'  BY <1>4, <2>2, <2>4, TypeParts DEF BackupEnds, StoredTypes
  <2>7. RunningTypes'  BY <1>4, <2>3, <2>5, TypeParts DEF BackupEnds, RunningTypes, Budget
  <2> QED  BY <2>6, <2>7 DEF TypeOK, StoredTypes, RunningTypes, Scheduler, JobState, Request
<1>5. CASE Put(r)
  <2>1. PICK cfg \in {schedule, NoSchedule}, body \in BOOLEAN :
          /\ Loaded(cfg)
          /\ request' = [request EXCEPT ![r] = [Idle EXCEPT !.pc = "save", !.enabled = body,
                                                           !.lastFired = Watermark(cfg)]]
    BY <1>5 DEF Put
  <2>2. Watermark(cfg) \in 0..MaxOccurrences
    <3>1. NoSchedule.lastFired = 0  BY DEF NoSchedule
    <3> QED  BY <3>1 DEF Watermark, TypeOK
  <2>3. [Idle EXCEPT !.pc = "save", !.enabled = body, !.lastFired = Watermark(cfg)] \in Request
    BY <2>2, IdleType DEF Request, Task
  <2>4. request' \in [Requests -> Request]  BY <1>1, <2>1, <2>3
  <2>5. left' \in Budget  BY <2>1, FaultType DEF Loaded
  <2>6. StoredTypes'  BY <1>5, TypeParts DEF Put, StoredTypes
  <2>7. RunningTypes'  BY <1>5, <2>4, <2>5, TypeParts DEF Put, RunningTypes, Budget
  <2> QED  BY <2>6, <2>7
           DEF TypeOK, StoredTypes, RunningTypes, Scheduler, JobState, Request
<1>6. CASE PutSaved(r)
  <2>1. left' \in Budget  BY <1>6, FaultType DEF PutSaved
  <2>2. schedule' \in [enabled : BOOLEAN, lastFired : 0..MaxOccurrences]
    <3>1. request[r].enabled \in BOOLEAN /\ request[r].lastFired \in 0..MaxOccurrences
      BY <1>1 DEF Request, Task
    <3>2. schedule \in [enabled : BOOLEAN, lastFired : 0..MaxOccurrences]  BY DEF TypeOK
    <3>3. \/ schedule' = [enabled |-> request[r].enabled, lastFired |-> request[r].lastFired]
          \/ schedule' = schedule
      BY <1>6 DEF PutSaved
    <3> QED  BY <3>1, <3>2, <3>3
  <2>3. request' \in [Requests -> Request]  BY <1>2, <1>6 DEF PutSaved
  <2>4. StoredTypes'  BY <1>6, <2>2, TypeParts DEF PutSaved, StoredTypes
  <2>5. RunningTypes'  BY <1>6, <2>1, <2>3, TypeParts DEF PutSaved, RunningTypes, Budget
  <2> QED  BY <2>4, <2>5 DEF TypeOK, StoredTypes, RunningTypes, Scheduler, JobState, Request
<1>7. CASE \E d \in Dumps : Delete(r, d)
  <2>1. PICK d \in Dumps : Delete(r, d)  BY <1>7
  <2>2. files' \in Seq(Dumps)  BY <2>1, FilesTypes DEF Delete
  <2>3. deleted' \subseteq Dumps  BY <2>1 DEF Delete, TypeOK
  <2> QED  BY <2>1, <2>2, <2>3 DEF Delete, TypeOK
<1> QED  BY <1>3, <1>4, <1>5, <1>6, <1>7

LEMMA TypesCountdown ==
    ASSUME TypeOK, NEW r \in Requests, Announce(r) \/ Arm(r) \/ Cancel(r) \/ Retract(r)
    PROVE  TypeOK'
<1> USE NumberTypes DEF Numbers, machine, backups, restores, countdowns, updates
<1> DEFINE Clock == {"none", "armed", "expired", "stopped", "fired"}
<1>1. request \in [Requests -> Request] /\ request[r] \in Request  BY DEF TypeOK, Request
<1>2. Answer(r) => request' \in [Requests -> Request]  BY <1>1, IdleType DEF Answer
<1>3. timer \in [Timers -> Clock] /\ Stopped \in [Timers -> Clock]  BY DEF TypeOK, Stopped
<1>4. Revoked \in SUBSET Timers  BY DEF TypeOK, Revoked
<1>5. None \in 0..MaxTimers  BY DEF None
<1>6. CASE Announce(r)
  <2>1. PICK t : t = CHOOSE u \in Unused : \A w \in Unused : u <= w  OBVIOUS
  <2>2. \/ /\ shown' = t
           /\ request' = [request EXCEPT ![r] = [Idle EXCEPT !.pc = "arm", !.timer = t]]
           /\ UNCHANGED left
        \/ Fault("broadcast") /\ UNCHANGED <<shown, request>>
    BY <1>6, <2>1 DEF Announce
  <2>3. left' \in Budget  BY <2>2, FaultType
  <2>4. CASE UNCHANGED <<shown, request>>
    BY SMTT(60), <1>1, <1>6, <2>3, <2>4 DEF Announce, TypeOK, Budget
  <2>5. CASE /\ shown' = t
             /\ request' = [request EXCEPT ![r] = [Idle EXCEPT !.pc = "arm", !.timer = t]]
    <3>1. t \in Unused
      <4>1. Unused \in SUBSET Nat /\ Unused # {}  BY <1>6 DEF Announce, Unused, Timers
      <4>2. \E u \in Unused : \A w \in Unused : u <= w  BY <4>1, Least
      <4> QED  BY <2>1, <4>2
    <3>2. t \in 0..MaxTimers  BY <3>1 DEF Unused, Timers
    <3>3. [Idle EXCEPT !.pc = "arm", !.timer = t] \in Request
      BY <3>2, IdleType DEF Request, Task
    <3>4. request' \in [Requests -> Request]  BY <1>1, <2>5, <3>3
    <3> QED  BY SMTT(60), <1>6, <2>3, <2>5, <3>2, <3>4 DEF Announce, TypeOK, Request, Budget
  <2> QED  BY <2>2, <2>4, <2>5
<1>7. CASE Arm(r)
  <2>1. request[r].timer \in 0..MaxTimers  BY <1>1 DEF Request, Task
  <2>2. timer' \in [Timers -> Clock]  BY <1>3, <1>7 DEF Arm
  <2>3. pending' \in [handle : 0..MaxTimers, at : 0..MaxTimers]  BY <1>7, <2>1 DEF Arm
  <2>4. revoked' \subseteq Timers /\ request' \in [Requests -> Request]
    BY <1>2, <1>4, <1>7 DEF Arm
  <2> QED  BY <1>7, <2>2, <2>3, <2>4 DEF Arm, TypeOK, Request
<1>8. CASE Cancel(r)
  <2>1. request' \in [Requests -> Request]
    <3>1. [request[r] EXCEPT !.pc = "retract"] \in Request  BY <1>1 DEF Request, Task
    <3> QED  BY <1>1, <1>8, <3>1 DEF Cancel
  <2>2. pending' \in [handle : 0..MaxTimers, at : 0..MaxTimers]  BY <1>5, <1>8 DEF Cancel
  <2>3. timer' \in [Timers -> Clock] /\ revoked' \subseteq Timers  BY <1>3, <1>4, <1>8 DEF Cancel
  <2> QED  BY SMTT(60), <1>8, <2>1, <2>2, <2>3 DEF Cancel, TypeOK, Request
<1>9. CASE Retract(r)
  <2>1. left' \in Budget  BY <1>9, FaultType DEF Retract
  <2>2. shown' \in 0..MaxTimers  BY <1>5, <1>9 DEF Retract, TypeOK
  <2>3. request' \in [Requests -> Request]  BY <1>2, <1>9 DEF Retract
  <2> QED  BY <1>9, <2>1, <2>2, <2>3 DEF Retract, TypeOK, Request, Budget
<1> QED  BY <1>6, <1>7, <1>8, <1>9

LEMMA TypesRestore ==
    ASSUME TypeOK, NEW r \in Requests, NEW d \in Dumps, Restore(r, d)
    PROVE  TypeOK'
<1>1. d \in 0..MaxDumps  BY NumberTypes DEF Numbers, Dumps
<1>2. job' \in JobState  BY <1>1 DEF Restore, JobState
<1>3. left' \in Budget
  <2>1. left \in Budget  BY DEF TypeOK, Budget
  <2>2. left.verbs - 1 \in Nat  BY <2>1 DEF Restore, Budget
  <2> QED  BY <2>1, <2>2 DEF Restore, Budget
<1> QED  BY <1>2, <1>3
        DEF Restore, TypeOK, JobState, Budget, machine, backups, countdowns, updates

LEMMA TypesUpdates ==
    ASSUME TypeOK, NEW u \in Updates,
           Update(u) \/ UpdateRuns(u) \/ UpdateOver(u) \/ Poll(u) \/ WatcherRestarts(u)
    PROVE  TypeOK'
<1> USE NumberTypes DEF Numbers, machine, backups, restores, countdowns
<1> DEFINE Watcher == [pc : {"none", "poll", "restart", "done"}, seen : BOOLEAN, polls : Nat]
           Status == {"none", "queued", "running", "over", "cut"}
<1>1. watcher \in [Updates -> Watcher] /\ watcher[u] \in Watcher /\ task \in [Updates -> Status]
  BY DEF TypeOK
<1>2. CASE Update(u)
  <2>1. task' \in [Updates -> Status]  BY <1>1, <1>2 DEF Update
  <2>2. watcher' \in [Updates -> Watcher]  BY <1>1, <1>2 DEF Update
  <2> QED  BY <1>2, <2>1, <2>2 DEF Update, TypeOK
<1>3. CASE UpdateRuns(u)  BY <1>1, <1>3 DEF UpdateRuns, TypeOK
<1>4. CASE UpdateOver(u)  BY <1>1, <1>4 DEF UpdateOver, TypeOK
<1>5. CASE Poll(u)
  <2>1. PICK ok \in BOOLEAN, n \in RunningTasks :
          /\ IF ~ok /\ container THEN Fault("tasks") ELSE UNCHANGED left
          /\ LET w == IF ok THEN Polled(watcher[u], n) ELSE watcher[u]
                 ends == (ok /\ Cleared(w, n)) \/ GivesUp(w)
             IN  watcher' = [watcher EXCEPT ![u] =
                   IF ends THEN [w EXCEPT !.pc = "restart"] ELSE [w EXCEPT !.polls = IF @ < Cap THEN @ + 1 ELSE @]]
    BY <1>5 DEF Poll
  <2>2. left' \in Budget  BY <2>1, FaultType
  <2> DEFINE w == IF ok THEN Polled(watcher[u], n) ELSE watcher[u]
             ends == (ok /\ Cleared(w, n)) \/ GivesUp(w)
  <2>3. w \in Watcher  BY <1>1 DEF Polled
  <2> HIDE DEF w
  <2>4. [w EXCEPT !.pc = "restart"] \in Watcher  BY <2>3
  <2>5. [w EXCEPT !.polls = IF @ < Cap THEN @ + 1 ELSE @] \in Watcher  BY <2>3
  <2>6. watcher' = [watcher EXCEPT ![u] =
          IF ends THEN [w EXCEPT !.pc = "restart"] ELSE [w EXCEPT !.polls = IF @ < Cap THEN @ + 1 ELSE @]]
    BY <2>1 DEF w
  <2> HIDE DEF ends
  <2>7. watcher' \in [Updates -> Watcher]  BY <1>1, <2>4, <2>5, <2>6
  <2> QED  BY SMTT(60), <1>5, <2>2, <2>7 DEF Poll, TypeOK, Budget
<1>6. CASE WatcherRestarts(u)
  <2>1. Commanded /\ job' \in JobState
    <3>1. Execute("restart")  BY <1>6 DEF WatcherRestarts, Execute
    <3> QED  BY <3>1, Commands
  <2>2. watcher' \in [Updates -> Watcher]  BY <1>1, <1>6 DEF WatcherRestarts
  <2> QED  BY <1>6, <2>1, <2>2 DEF WatcherRestarts, Commanded, TypeOK, JobState
<1> QED  BY <1>2, <1>3, <1>4, <1>5, <1>6

LEMMA TypesOthers ==
    ASSUME TypeOK,
           \/ \E verb \in {"start", "stop", "restart"} : Command(verb)
           \/ \E t \in Timers : Expire(t) \/ Fire(t)
           \/ UNCHANGED vars
    PROVE  TypeOK'
<1> USE NumberTypes DEF Numbers, backups, restores, countdowns, updates
<1> DEFINE Clock == {"none", "armed", "expired", "stopped", "fired"}
<1>1. CASE \E verb \in {"start", "stop", "restart"} : Command(verb)
  <2>1. PICK verb \in {"start", "stop", "restart"} : Command(verb)  BY <1>1
  <2>2. Commanded /\ job' \in JobState  BY <2>1, Commands DEF Command
  <2>3. left' \in Budget
    <3>1. left \in Budget  BY DEF TypeOK, Budget
    <3>2. left.verbs - 1 \in Nat  BY <2>1, <3>1 DEF Command, Budget
    <3> QED  BY <2>1, <3>1, <3>2 DEF Command, Budget
  <2> QED  BY <2>1, <2>2, <2>3 DEF Command, Commanded, TypeOK, JobState, Budget
<1>2. ASSUME NEW t \in Timers, Expire(t) PROVE TypeOK'
  <2>1. timer' \in [Timers -> Clock]  BY <1>2 DEF Expire, TypeOK
  <2> QED  BY <1>2, <2>1 DEF Expire, TypeOK, machine
<1>3. ASSUME NEW t \in Timers, Fire(t) PROVE TypeOK'
  <2>1. PICK verb \in {"restart", "stop"} : Execute(verb)  BY <1>3 DEF Fire
  <2>2. Commanded /\ job' \in JobState  BY <2>1, Commands
  <2>3. timer' \in [Timers -> Clock]  BY <1>3 DEF Fire, TypeOK
  <2>4. pending' \in [handle : 0..MaxTimers, at : 0..MaxTimers] /\ shown' \in 0..MaxTimers
    BY <1>3 DEF Fire, TypeOK, None
  <2> QED  BY <1>3, <2>2, <2>3, <2>4 DEF Fire, Commanded, TypeOK, JobState
<1>4. CASE UNCHANGED vars  BY <1>4 DEF vars, TypeOK
<1> QED  BY <1>1, <1>2, <1>3, <1>4

\* Every variable keeps its type.
THEOREM TypeCorrect == Spec => []TypeOK
<1>1. TypeOK /\ [Next]_vars => TypeOK'
  <2> SUFFICES ASSUME TypeOK, [Next]_vars PROVE TypeOK'  OBVIOUS
  <2>1. CASE Dumping \/ Restoring  BY <2>1, TypesDumping, TypesRestoring
  <2>2. ASSUME NEW r \in Requests, Asking(r) PROVE TypeOK'
    BY <2>2, TypesDumps, TypesCountdown, TypesRestore DEF Asking
  <2>3. ASSUME NEW u \in Updates,
               Update(u) \/ UpdateRuns(u) \/ UpdateOver(u) \/ Poll(u) \/ WatcherRestarts(u)
        PROVE  TypeOK'
    BY <2>3, TypesUpdates
  <2> QED  BY <2>1, <2>2, <2>3, TypesOthers DEF Next
<1> QED  BY <1>1, InitTypes, PTL DEF Spec

-----------------------------------------------------------------------------
(* The countdown                                                           *)

\* The assumption: a broadcast request is neither overtaken by another nor by
\* a timer that has just run out.
OneAtATime == "countdown" \notin Overlap /\ "expiry" \notin Overlap

Telling == {"announce", "arm", "retract"}

\* At most one timer is running or about to fire, the one in the handle;
\* revoked timers are stopped; at most one request is between its two halves,
\* with a timer of its own that the players already see, or with none left.
OneTimer ==
    /\ \A t \in Timers : timer[t] \in {"armed", "expired"} => pending = [handle |-> t, at |-> t]
    /\ pending.handle = pending.at
    /\ pending.at # None => timer[pending.at] \in {"armed", "expired"}
RevokedStopped == \A t \in revoked : timer[t] = "stopped"
OneTeller ==
    /\ \A r, q \in Requests : request[r].pc \in Telling /\ request[q].pc \in Telling => r = q
    /\ \A r \in Requests : request[r].pc = "arm" =>
          /\ request[r].timer \in Timers
          /\ timer[request[r].timer] = "none"
          /\ shown = request[r].timer
    /\ \A r \in Requests : request[r].pc = "retract" => pending.at = None
ShownWhenQuiet == \A t \in Timers : timer[t] = "armed" /\ ~Broadcasting => shown = t

CountdownInv == OneTimer /\ RevokedStopped /\ OneTeller /\ ShownWhenQuiet

LEMMA CountdownInit == Init => CountdownInv
<1> SUFFICES ASSUME Init PROVE CountdownInv  OBVIOUS
<1>1. \A r \in Requests : request[r].pc = "idle"  BY DEF Init, Idle
<1>2. pending.handle = None /\ pending.at = None /\ revoked = {}
      /\ \A t \in Timers : timer[t] = "none"
  BY DEF Init
<1> QED
  BY <1>1, <1>2 DEF CountdownInv, OneTimer, RevokedStopped, OneTeller, ShownWhenQuiet, Telling

LEMMA CountdownPromised == TypeOK /\ CountdownInv => CountdownSound
  BY DEF CountdownInv, OneTimer, RevokedStopped, ShownWhenQuiet, CountdownSound,
         RevokedNeverFires, ArmedIsShown

\* The steps of everything else leave the countdown and its requests alone.
Elsewhere == /\ UNCHANGED countdowns
             /\ \A q \in Requests : \/ request'[q] = request[q]
                                    \/ request[q].pc \notin Telling /\ request'[q].pc \notin Telling

LEMMA AnsweredElsewhere ==
    ASSUME TypeOK, NEW r \in Requests, NEW new, request[r].pc \notin Telling,
           new.pc \notin Telling, request' = [request EXCEPT ![r] = new],
           UNCHANGED countdowns
    PROVE  Elsewhere
<1>1. \A q \in Requests : request'[q] = IF q = r THEN new ELSE request[q]  BY DEF TypeOK
<1> QED  BY <1>1 DEF Elsewhere

LEMMA ElsewhereKeeps == CountdownInv /\ Elsewhere => CountdownInv'
<1> SUFFICES ASSUME CountdownInv, Elsewhere PROVE CountdownInv'  OBVIOUS
<1>1. timer' = timer /\ pending' = pending /\ shown' = shown /\ revoked' = revoked
  BY DEF Elsewhere, countdowns
<1>2. \A q \in Requests : \/ request'[q] = request[q]
                          \/ request[q].pc \notin Telling /\ request'[q].pc \notin Telling
  BY DEF Elsewhere
<1>3. OneTimer'  BY <1>1 DEF CountdownInv, OneTimer
<1>4. RevokedStopped'  BY <1>1 DEF CountdownInv, RevokedStopped
<1>5. OneTeller'  BY <1>1, <1>2 DEF CountdownInv, OneTeller, Telling
<1>6. Broadcasting' = Broadcasting
  <2>1. Broadcasting = \E q \in Requests : request[q].pc \in Telling
    BY DEF Broadcasting, Telling
  <2>2. Broadcasting' = \E q \in Requests : request'[q].pc \in Telling
    BY DEF Broadcasting, Telling
  <2> QED  BY <1>2, <2>1, <2>2
<1>7. ShownWhenQuiet'  BY <1>1, <1>6 DEF CountdownInv, ShownWhenQuiet
<1> QED  BY <1>3, <1>4, <1>5, <1>7 DEF CountdownInv

LEMMA ElsewhereSteps ==
    ASSUME TypeOK,
           \/ Dumping \/ Restoring \/ UNCHANGED vars
           \/ \E r \in Requests : \/ Backup(r) \/ BackupEnds(r) \/ Put(r) \/ PutSaved(r)
                                  \/ \E d \in Dumps : Delete(r, d) \/ Restore(r, d)
           \/ \E verb \in {"start", "stop", "restart"} : Command(verb)
           \/ \E u \in Updates : \/ Update(u) \/ UpdateRuns(u) \/ UpdateOver(u)
                                 \/ Poll(u) \/ WatcherRestarts(u)
    PROVE  Elsewhere
<1>1. ASSUME UNCHANGED countdowns, UNCHANGED request PROVE Elsewhere
  BY <1>1 DEF Elsewhere
<1>2. CASE Dumping
  <2>1. UNCHANGED countdowns /\ UNCHANGED request
    BY <1>2 DEF Dumping, Occurs, GraceEnds, SecondEnds, Tick, Mark, Marked, ScheduledDumpEnds, Prune
  <2> QED  BY <1>1, <2>1
<1>3. CASE Restoring
  <2>1. UNCHANGED countdowns /\ UNCHANGED request
    BY <1>3 DEF Restoring, Check, StopShards, OpenFile, RestoreEnds
  <2> QED  BY <1>1, <2>1
<1>4. CASE UNCHANGED vars  BY <1>1, <1>4 DEF vars, countdowns
<1>5. ASSUME NEW r \in Requests, Backup(r) PROVE Elsewhere
  <2>0. PICK d \in Name :
          request' = [request EXCEPT ![r] = [Idle EXCEPT !.pc = "dump", !.dump = d, !.boot = boot]]
    BY <1>5 DEF Backup
  <2> DEFINE new == [Idle EXCEPT !.pc = "dump", !.dump = d, !.boot = boot]
  <2>1. request[r].pc \notin Telling /\ UNCHANGED countdowns
    BY <1>5 DEF Backup, Handles, Telling
  <2>2. new.pc \notin Telling  BY DEF Idle, Telling
  <2>3. request' = [request EXCEPT ![r] = new]  BY <2>0
  <2> HIDE DEF new
  <2> QED  BY <2>1, <2>2, <2>3, AnsweredElsewhere
<1>6. Idle.pc \notin Telling  BY DEF Idle, Telling
<1>7. ASSUME NEW r \in Requests, BackupEnds(r) PROVE Elsewhere
  <2>1. request[r].pc \notin Telling  BY <1>7 DEF BackupEnds, Telling
  <2>2. request' = [request EXCEPT ![r] = Idle] /\ UNCHANGED countdowns
    BY <1>7 DEF BackupEnds, Answer
  <2> QED  BY <1>6, <2>1, <2>2, AnsweredElsewhere
<1>8. ASSUME NEW r \in Requests, Put(r) PROVE Elsewhere
  <2>1. PICK cfg \in {schedule, NoSchedule}, body \in BOOLEAN :
          request' = [request EXCEPT ![r] = [Idle EXCEPT !.pc = "save", !.enabled = body,
                                                         !.lastFired = Watermark(cfg)]]
    BY <1>8 DEF Put
  <2> DEFINE new == [Idle EXCEPT !.pc = "save", !.enabled = body, !.lastFired = Watermark(cfg)]
  <2>2. request[r].pc \notin Telling /\ UNCHANGED countdowns
    BY <1>8 DEF Put, Handles, Telling
  <2>3. new.pc \notin Telling  BY DEF Idle, Telling
  <2>4. request' = [request EXCEPT ![r] = new]  BY <2>1
  <2> HIDE DEF new
  <2> QED  BY <2>2, <2>3, <2>4, AnsweredElsewhere
<1>9. ASSUME NEW r \in Requests, PutSaved(r) PROVE Elsewhere
  <2>1. request[r].pc \notin Telling  BY <1>9 DEF PutSaved, Telling
  <2>2. request' = [request EXCEPT ![r] = Idle] /\ UNCHANGED countdowns
    BY <1>9 DEF PutSaved, Answer
  <2> QED  BY <1>6, <2>1, <2>2, AnsweredElsewhere
<1>10. ASSUME NEW r \in Requests, NEW d \in Dumps, Delete(r, d) \/ Restore(r, d) PROVE Elsewhere
  BY <1>1, <1>10 DEF Delete, Restore
<1>11. ASSUME NEW verb \in {"start", "stop", "restart"}, Command(verb) PROVE Elsewhere
  BY <1>1, <1>11 DEF Command
<1>12. ASSUME NEW u \in Updates,
              Update(u) \/ UpdateRuns(u) \/ UpdateOver(u) \/ Poll(u) \/ WatcherRestarts(u)
       PROVE  Elsewhere
  BY <1>1, <1>12 DEF Update, UpdateRuns, UpdateOver, Poll, WatcherRestarts
<1> QED
  BY <1>2, <1>3, <1>4, <1>5, <1>7, <1>8, <1>9, <1>10, <1>11, <1>12

LEMMA QuietRequests ==
    ASSUME OneAtATime, Alone PROVE \A q \in Requests : request[q].pc \notin Telling
  BY DEF OneAtATime, Alone, Broadcasting, Telling

LEMMA NothingRunning ==
    ASSUME OneTimer, pending.at = None PROVE \A t \in Timers : timer[t] \notin {"armed", "expired"}
<1> SUFFICES ASSUME NEW t \in Timers, timer[t] \in {"armed", "expired"} PROVE FALSE  OBVIOUS
<1>1. pending.at = t  BY DEF OneTimer
<1> QED  BY <1>1 DEF Timers, None

LEMMA CountdownAnnounce ==
    ASSUME TypeOK, CountdownInv, OneAtATime, NEW r \in Requests, Announce(r)
    PROVE  CountdownInv'
<1>1. \A q \in Requests : request[q].pc \notin Telling  BY QuietRequests DEF Announce
<1>2. timer' = timer /\ pending' = pending /\ revoked' = revoked  BY DEF Announce
<1>3. PICK t : t = CHOOSE u \in Unused : \A w \in Unused : u <= w  OBVIOUS
<1>4. t \in Unused
  <2>1. Unused \in SUBSET Nat /\ Unused # {}  BY DEF Announce, Unused, Timers
  <2>2. \E u \in Unused : \A w \in Unused : u <= w  BY <2>1, Least
  <2> QED  BY <1>3, <2>2
<1>5. t \in Timers /\ timer[t] = "none"  BY <1>4 DEF Unused
<1>6. CASE UNCHANGED <<shown, request>>
  <2>1. Elsewhere  BY <1>2, <1>6 DEF Elsewhere, countdowns
  <2> QED  BY <2>1, ElsewhereKeeps
<1>7. CASE /\ shown' = t
           /\ request' = [request EXCEPT ![r] = [Idle EXCEPT !.pc = "arm", !.timer = t]]
  <2> DEFINE new == [Idle EXCEPT !.pc = "arm", !.timer = t]
  <2>1. new.pc = "arm" /\ new.timer = t  BY DEF Idle
  <2>2. request' = [request EXCEPT ![r] = new]  BY <1>7
  <2> HIDE DEF new
  <2>3. \A q \in Requests : request'[q] = IF q = r THEN new ELSE request[q]
    BY <2>2 DEF TypeOK
  <2>4. OneTimer' /\ RevokedStopped'  BY <1>2 DEF CountdownInv, OneTimer, RevokedStopped
  <2>5. OneTeller'  BY <1>1, <1>2, <1>5, <1>7, <2>1, <2>3 DEF OneTeller, Telling
  <2>6. Broadcasting'  BY <2>1, <2>3 DEF Broadcasting
  <2> QED  BY <2>4, <2>5, <2>6 DEF CountdownInv, ShownWhenQuiet
<1> QED  BY <1>3, <1>6, <1>7 DEF Announce

\* Arm and Cancel: when no timer has just run out, Timer.Stop is in time for
\* whatever runs.
LEMMA AllStopped ==
    ASSUME TypeOK, CountdownInv, OneAtATime, InTime
    PROVE  /\ \A t \in Timers : Stopped[t] \notin {"armed", "expired"}
           /\ \A t \in Timers : timer[t] # "armed" => Stopped[t] = timer[t]
           /\ \A t \in Revoked : Stopped[t] = "stopped"
           /\ Stopped \in [Timers -> {"none", "armed", "expired", "stopped", "fired"}]
<1>1. \A t \in Timers : timer[t] # "expired"  BY DEF OneAtATime, InTime
<1>2. timer \in [Timers -> {"none", "armed", "expired", "stopped", "fired"}]  BY DEF TypeOK
<1>3. revoked \subseteq Timers /\ \A t \in revoked : timer[t] = "stopped"
  BY DEF TypeOK, CountdownInv, RevokedStopped
<1>4. CASE \E t \in Timers : timer[t] = "armed"
  <2>1. PICK t \in Timers : timer[t] = "armed"  BY <1>4
  <2>2. pending.handle = t /\ t # None
    <3>1. pending = [handle |-> t, at |-> t]  BY <2>1 DEF CountdownInv, OneTimer
    <3> QED  BY <3>1 DEF Timers, None
  <2>3. Stopped = [timer EXCEPT ![t] = "stopped"]  BY <2>1, <2>2 DEF Stopped
  <2>4. \A w \in Timers : timer[w] = "armed" => w = t
    <3> SUFFICES ASSUME NEW w \in Timers, timer[w] = "armed" PROVE w = t  OBVIOUS
    <3>1. pending = [handle |-> w, at |-> w]  BY DEF CountdownInv, OneTimer
    <3> QED  BY <2>2, <3>1
  <2>5. Revoked = revoked \cup {t}  BY <1>1, <2>1, <2>4 DEF Revoked
  <2>6. \A w \in Timers : Stopped[w] = IF w = t THEN "stopped" ELSE timer[w]  BY <1>2, <2>3
  <2>7. \A w \in Timers : Stopped[w] \notin {"armed", "expired"}  BY <1>1, <2>4, <2>6
  <2>8. \A w \in Timers : timer[w] # "armed" => Stopped[w] = timer[w]  BY <2>1, <2>6
  <2>9. \A w \in Revoked : Stopped[w] = "stopped"  BY <1>3, <2>1, <2>5, <2>6
  <2>10. Stopped \in [Timers -> {"none", "armed", "expired", "stopped", "fired"}]
    BY <1>2, <2>3
  <2> QED  BY <2>7, <2>8, <2>9, <2>10
<1>5. CASE \A t \in Timers : timer[t] # "armed"
  <2>1. Stopped = timer
    <3>1. CASE pending.handle = None  BY <3>1 DEF Stopped
    <3>2. CASE pending.handle # None
      <4>1. pending.handle \in Timers  BY <3>2, NumberTypes DEF TypeOK, Timers, None, Numbers
      <4> QED  BY <1>5, <4>1 DEF Stopped
    <3> QED  BY <3>1, <3>2
  <2>2. Revoked = revoked  BY <1>1, <1>5 DEF Revoked
  <2> QED  BY <1>1, <1>2, <1>3, <1>5, <2>1, <2>2
<1> QED  BY <1>4, <1>5

LEMMA CountdownArm ==
    ASSUME TypeOK, CountdownInv, OneAtATime, NEW r \in Requests, Arm(r)
    PROVE  CountdownInv'
<1>1. PICK t \in Timers : t = request[r].timer /\ timer[t] = "none" /\ shown = t
  BY DEF Arm, CountdownInv, OneTeller
<1>2. /\ \A w \in Timers : Stopped[w] \notin {"armed", "expired"}
      /\ \A w \in Timers : timer[w] # "armed" => Stopped[w] = timer[w]
      /\ \A w \in Revoked : Stopped[w] = "stopped"
      /\ Stopped \in [Timers -> {"none", "armed", "expired", "stopped", "fired"}]
  BY AllStopped DEF Arm
<1>3. timer' = [Stopped EXCEPT ![t] = "armed"] /\ pending' = [handle |-> t, at |-> t]
      /\ shown' = shown /\ revoked' = Revoked /\ request' = [request EXCEPT ![r] = Idle]
  BY <1>1 DEF Arm, Answer
<1>4. \A w \in Timers : timer'[w] = IF w = t THEN "armed" ELSE Stopped[w]  BY <1>2, <1>3
<1>5. OneTimer'  BY <1>1, <1>2, <1>3, <1>4 DEF OneTimer
<1>6. t \notin Revoked
  <2>1. Stopped[t] = "none"  BY <1>1, <1>2
  <2> QED  BY <1>2, <2>1
<1>7. Revoked \subseteq Timers  BY DEF Revoked, TypeOK
<1>8. RevokedStopped'  BY <1>2, <1>3, <1>4, <1>6, <1>7 DEF RevokedStopped
<1>9. \A q \in Requests : request'[q] = IF q = r THEN Idle ELSE request[q]
  BY <1>3 DEF TypeOK
<1>10. \A q \in Requests : request[q].pc \in Telling => q = r
  BY DEF Arm, CountdownInv, OneTeller, Telling
<1>11. \A q \in Requests : request'[q].pc \notin Telling
  BY <1>9, <1>10 DEF Idle, Telling
<1>12. OneTeller'  BY <1>11 DEF OneTeller, Telling
<1>13. ShownWhenQuiet'  BY <1>1, <1>2, <1>3, <1>4 DEF ShownWhenQuiet
<1> QED  BY <1>5, <1>8, <1>12, <1>13 DEF CountdownInv

LEMMA CountdownCancel ==
    ASSUME TypeOK, CountdownInv, OneAtATime, NEW r \in Requests, Cancel(r)
    PROVE  CountdownInv'
<1>1. \A q \in Requests : request[q].pc \notin Telling  BY QuietRequests DEF Cancel
<1>2. /\ \A w \in Timers : Stopped[w] \notin {"armed", "expired"}
      /\ \A w \in Revoked : Stopped[w] = "stopped"
  BY AllStopped DEF Cancel
<1>3. timer' = Stopped /\ pending' = [handle |-> None, at |-> None] /\ shown' = shown
      /\ revoked' = Revoked /\ request' = [request EXCEPT ![r].pc = "retract"]
  BY DEF Cancel
<1>4. OneTimer' /\ RevokedStopped' /\ ShownWhenQuiet'
  BY <1>2, <1>3 DEF OneTimer, RevokedStopped, ShownWhenQuiet
<1>5. \A q \in Requests : q # r => request'[q] = request[q]  BY <1>3 DEF TypeOK
<1>6. request'[r].pc = "retract"  BY <1>3 DEF TypeOK, Request, Task
<1>7. OneTeller'  BY <1>1, <1>3, <1>5, <1>6 DEF OneTeller, Telling
<1> QED  BY <1>4, <1>7 DEF CountdownInv

LEMMA CountdownRetract ==
    ASSUME TypeOK, CountdownInv, NEW r \in Requests, Retract(r)
    PROVE  CountdownInv'
<1>1. timer' = timer /\ pending' = pending /\ revoked' = revoked
      /\ request' = [request EXCEPT ![r] = Idle] /\ request[r].pc = "retract"
  BY DEF Retract, Answer
<1>2. OneTimer' /\ RevokedStopped'  BY <1>1 DEF CountdownInv, OneTimer, RevokedStopped
<1>3. \A t \in Timers : timer[t] \notin {"armed", "expired"}
  BY <1>1, NothingRunning DEF CountdownInv, OneTeller
<1>4. ShownWhenQuiet'  BY <1>1, <1>3 DEF ShownWhenQuiet
<1>5. \A q \in Requests : request'[q] = IF q = r THEN Idle ELSE request[q]
  BY <1>1 DEF TypeOK
<1>6. \A q \in Requests : request[q].pc \in Telling => q = r
  BY <1>1 DEF CountdownInv, OneTeller, Telling
<1>7. OneTeller'  BY <1>5, <1>6 DEF OneTeller, Idle, Telling
<1> QED  BY <1>2, <1>4, <1>7 DEF CountdownInv

LEMMA CountdownTimer ==
    ASSUME TypeOK, CountdownInv, NEW t \in Timers, Expire(t) \/ Fire(t)
    PROVE  CountdownInv'
<1>1. request' = request /\ revoked' = revoked /\ Broadcasting' = Broadcasting
  BY DEF Expire, Fire, Broadcasting
<1>2. pending = [handle |-> t, at |-> t]
  BY DEF Expire, Fire, CountdownInv, OneTimer
<1>3. \A w \in Timers \ {t} : timer[w] \notin {"armed", "expired"}
  <2> SUFFICES ASSUME NEW w \in Timers \ {t}, timer[w] \in {"armed", "expired"} PROVE FALSE
    OBVIOUS
  <2>1. pending = [handle |-> w, at |-> w]  BY DEF CountdownInv, OneTimer
  <2>2. pending.at = w /\ pending.at = t  BY <1>2, <2>1
  <2> QED  BY <2>2
<1>4. t \notin revoked /\ timer[t] \in {"armed", "expired"}
  BY DEF Expire, Fire, CountdownInv, RevokedStopped
<1>5. revoked \subseteq Timers  BY DEF TypeOK
<1>6. CASE Expire(t)
  <2>1. pending' = pending /\ shown' = shown  BY <1>6 DEF Expire
  <2>2. \A w \in Timers : timer'[w] = IF w = t THEN "expired" ELSE timer[w]
    BY <1>6 DEF Expire, TypeOK
  <2>3. OneTimer'  BY <1>2, <1>3, <2>1, <2>2 DEF OneTimer
  <2>4. RevokedStopped'
    BY <1>1, <1>4, <1>5, <2>2 DEF CountdownInv, RevokedStopped
  <2>5. OneTeller'  BY <1>1, <1>4, <2>1, <2>2 DEF CountdownInv, OneTeller
  <2>6. ShownWhenQuiet'  BY <1>3, <2>2 DEF ShownWhenQuiet
  <2> QED  BY <2>3, <2>4, <2>5, <2>6 DEF CountdownInv
<1>7. CASE Fire(t)
  <2>1. pending' = [handle |-> None, at |-> None] /\ shown' = IF shown = t THEN None ELSE shown
    BY <1>7 DEF Fire
  <2>2. \A w \in Timers : timer'[w] = IF w = t THEN "fired" ELSE timer[w]
    BY <1>7 DEF Fire, TypeOK
  <2>3. OneTimer'  BY <1>3, <2>1, <2>2 DEF OneTimer
  <2>4. RevokedStopped'
    BY <1>1, <1>4, <1>5, <2>2 DEF CountdownInv, RevokedStopped
  <2>5. OneTeller'  BY <1>1, <1>4, <2>1, <2>2 DEF CountdownInv, OneTeller
  <2>6. ShownWhenQuiet'  BY <1>3, <2>2 DEF ShownWhenQuiet
  <2> QED  BY <2>3, <2>4, <2>5, <2>6 DEF CountdownInv
<1> QED  BY <1>6, <1>7

\* When no broadcast request overtakes another or a timer that has just run
\* out, a cancelled or replaced countdown never runs its command, and what is
\* armed can be cancelled and is what the players see.
THEOREM CountdownsKept == OneAtATime => (Spec => []CountdownSound)
<1>1. ASSUME OneAtATime PROVE Spec => []CountdownSound
  <2>1. TypeOK /\ CountdownInv /\ [Next]_vars => CountdownInv'
    <3> SUFFICES ASSUME TypeOK, CountdownInv, [Next]_vars PROVE CountdownInv'
      OBVIOUS
    <3>1. ASSUME Elsewhere PROVE CountdownInv'  BY <3>1, ElsewhereKeeps
    <3>2. ASSUME NEW r \in Requests, Asking(r) PROVE CountdownInv'
      <4>1. CASE Announce(r) \/ Arm(r) \/ Cancel(r) \/ Retract(r)
        BY <1>1, <4>1, CountdownAnnounce, CountdownArm, CountdownCancel, CountdownRetract
      <4>2. CASE \/ Backup(r) \/ BackupEnds(r) \/ Put(r) \/ PutSaved(r)
                 \/ \E d \in Dumps : Delete(r, d) \/ Restore(r, d)
        BY <3>1, <4>2, ElsewhereSteps
      <4> QED  BY <3>2, <4>1, <4>2 DEF Asking
    <3>3. ASSUME NEW t \in Timers, Expire(t) \/ Fire(t) PROVE CountdownInv'
      BY <3>3, CountdownTimer
    <3> QED  BY <3>1, <3>2, <3>3, ElsewhereSteps DEF Next
  <2> QED  BY <2>1, CountdownInit, CountdownPromised, TypeCorrect, PTL DEF Spec
<1> QED  BY <1>1

-----------------------------------------------------------------------------
(* The dumps                                                               *)

\* The numbers of the dumps that were begun have no gap, a file is listed once and
\* belongs to a dump that was begun, as does what anyone writes.
Begun == \E n \in 0..MaxDumps : {d \in Dumps : dump[d] # "none"} = 1..n
Listed == IsInjective(files) /\ \A d \in ToSet(files) : dump[d] # "none"
Writers ==
    /\ scheduler.pc = "dump" => scheduler.dump \in Dumps /\ dump[scheduler.dump] # "none"
    /\ \A r \in Requests : request[r].pc = "dump" =>
          request[r].dump \in Dumps /\ dump[request[r].dump] # "none"

DumpsInv == Begun /\ Listed /\ Writers

LEMMA DumpsInit == Init => DumpsInv
<1> SUFFICES ASSUME Init PROVE DumpsInv  OBVIOUS
<1>1. FirstDumps \in Nat /\ MaxDumps \in Nat /\ FirstDumps <= MaxDumps
  BY BoundAssumption DEF BoundAssumption
<1>2. {d \in Dumps : dump[d] # "none"} = 1..FirstDumps  BY <1>1 DEF Init, Dumps
<1>3. Begun  BY <1>1, <1>2 DEF Begun
<1>4. DOMAIN files = 1..FirstDumps /\ \A i \in 1..FirstDumps : files[i] = i  BY DEF Init
<1>5. Listed
  <2>1. ToSet(files) = 1..FirstDumps  BY <1>4 DEF ToSet
  <2>2. \A d \in ToSet(files) : dump[d] # "none"  BY <1>2, <2>1
  <2> QED  BY <1>4, <2>2 DEF Listed, IsInjective
<1>6. scheduler.pc = "idle" /\ \A r \in Requests : request[r].pc = "idle"  BY DEF Init, Idle
<1>7. Writers  BY <1>6 DEF Writers
<1> QED  BY <1>3, <1>5, <1>7 DEF DumpsInv

LEMMA ListedDumps == TypeOK => ToSet(files) \in SUBSET Dumps
<1> SUFFICES ASSUME TypeOK PROVE ToSet(files) \in SUBSET Dumps  OBVIOUS
<1>1. files \in Seq(Dumps) /\ DOMAIN files = 1..Len(files)  BY LenProperties DEF TypeOK
<1> QED  BY <1>1, ElementOfSeq DEF ToSet

\* A dump that begins takes the next number, or that of its second.
LEMMA NamedDump ==
    ASSUME TypeOK, DumpsInv, NEW f \in Dumps, f \in Name
    PROVE  \E n \in 0..MaxDumps : {d \in Dumps : dump[d] # "none"} \cup {f} = 1..n
<1> DEFINE B == {d \in Dumps : dump[d] # "none"}
<1>1. PICK n \in 0..MaxDumps : B = 1..n  BY DEF DumpsInv, Begun
<1>2. n \in Int /\ MaxDumps \in Nat  BY NumberTypes DEF Numbers
<1>3. Cardinality(1..n) = n
  <2>1. Cardinality(1..n) = IF 1 > n THEN 0 ELSE n - 1 + 1  BY <1>2, FS_Interval
  <2> QED  BY <1>1, <1>2, <2>1
<1>4. Fresh = n + 1  BY <1>1, <1>3 DEF Fresh
<1>5. f \in 1..MaxDumps  BY DEF Dumps
<1>6. CASE f = Fresh
  <2>1. f = n + 1  BY <1>4, <1>6
  <2>2. B \cup {f} = 1..f  BY <1>1, <1>2, <2>1
  <2>3. f \in 0..MaxDumps  BY <1>2, <1>5
  <2> QED  BY <2>2, <2>3
<1>7. CASE f = Fresh - 1
  <2>1. f = n  BY <1>2, <1>4, <1>7
  <2>2. B \cup {f} = 1..n  BY <1>1, <1>2, <1>5, <2>1
  <2> QED  BY <2>2
<1> QED  BY <1>6, <1>7 DEF Name

\* A file that is created or emptied is the last of the list.
LEMMA BegunFiles ==
    ASSUME TypeOK, Listed, NEW f \in Dumps, files' = Append(RemoveFirst(files, f), f)
    PROVE  IsInjective(files') /\ ToSet(files') = ToSet(files) \cup {f}
<1>1. files \in Seq(Dumps) /\ IsInjective(files)  BY DEF TypeOK, Listed
<1>2. PICK g : g = RemoveFirst(files, f)  OBVIOUS
<1>3. g \in Seq(Dumps) /\ IsInjective(g) /\ ToSet(g) = ToSet(files) \ {f}
  BY <1>1, <1>2, RemovedFirst
<1>4. f \notin ToSet(g)  BY <1>3
<1>5. IsInjective(Append(g, f)) /\ ToSet(Append(g, f)) = ToSet(g) \cup {f}
  BY <1>3, <1>4, Appended
<1> QED  BY <1>2, <1>3, <1>5

LEMMA NewestFiles ==
    ASSUME TypeOK, Listed, NEW d \in Dumps
    PROVE  IsInjective(Newest(d)) /\ ToSet(Newest(d)) = ToSet(files)
<1>1. files \in Seq(Dumps) /\ IsInjective(files)  BY DEF TypeOK, Listed
<1>2. CASE d \notin ToSet(files)  BY <1>1, <1>2 DEF Newest
<1>3. CASE d \in ToSet(files)
  <2>1. /\ RemoveFirst(files, d) \in Seq(Dumps) /\ IsInjective(RemoveFirst(files, d))
        /\ ToSet(RemoveFirst(files, d)) = ToSet(files) \ {d}
    BY <1>1, RemovedFirst
  <2> DEFINE t == RemoveFirst(files, d)
  <2> HIDE DEF t
  <2>2. t \in Seq(Dumps) /\ IsInjective(t) /\ ToSet(t) = ToSet(files) \ {d} /\ d \notin ToSet(t)
    BY <2>1 DEF t
  <2>3. ToSet(Append(t, d)) = ToSet(t) \cup {d} /\ IsInjective(Append(t, d))
    BY <2>2, Appended
  <2>4. ToSet(Append(t, d)) = ToSet(files)  BY <1>3, <2>2, <2>3
  <2> QED  BY <1>3, <2>3, <2>4 DEF Newest, t
<1> QED  BY <1>2, <1>3

\* The steps, as the dumps see them: a dump begins, its writer ends it, a file
\* is deleted, old files are pruned, or nothing happens to dumps and writers.
SameWriters(S) == \A r \in S : request'[r].pc = "dump" => request'[r] = request[r]
SameScheduler == scheduler'.pc = "dump" => scheduler' = scheduler

Begins == \E f \in Name :
    /\ BeginDump(f)
    /\ deleted' = deleted
    /\ \/ scheduler'.dump = f /\ SameWriters(Requests)
       \/ \E r \in Requests : request'[r].dump = f /\ SameScheduler /\ SameWriters(Requests \ {r})

Ends(d) ==
    /\ \E after \in {"whole", Spoilt(d)} :
         /\ dump' = [dump EXCEPT ![d] = after]
         /\ after # Spoilt(d) => d \in ToSet(files) /\ files' = Newest(d)
    /\ files' \in {Newest(d), RemoveFirst(files, d)}
    /\ deleted' = deleted
    /\ \/ scheduler.pc = "dump" /\ scheduler.dump = d /\ scheduler'.pc # "dump" /\ SameWriters(Requests)
       \/ \E r \in Requests : /\ request[r].pc = "dump" /\ request[r].dump = d
                              /\ request'[r].pc # "dump"
                              /\ SameScheduler /\ SameWriters(Requests \ {r})

Deletes == /\ \E d \in ToSet(files) : /\ files' = RemoveFirst(files, d)
                                      /\ deleted' = deleted \cup ({d} \cap Whole)
           /\ dump' = dump
           /\ SameScheduler /\ SameWriters(Requests)

Prunes == /\ files' = Kept(files)
          /\ UNCHANGED <<dump, deleted>>
          /\ SameScheduler /\ SameWriters(Requests)

Leaves == UNCHANGED <<files, dump, deleted>> /\ SameScheduler /\ SameWriters(Requests)

DumpStep == Begins \/ (\E d \in Dumps : Ends(d)) \/ Deletes \/ Prunes \/ Leaves

LEMMA SameButOne ==
    ASSUME TypeOK, NEW r \in Requests, NEW new, request' = [request EXCEPT ![r] = new]
    PROVE  /\ request'[r] = new
           /\ SameWriters(Requests \ {r})
           /\ new.pc # "dump" => SameWriters(Requests)
<1>1. \A q \in Requests : request'[q] = IF q = r THEN new ELSE request[q]  BY DEF TypeOK
<1> QED  BY <1>1 DEF SameWriters

LEMMA EndsKeepsFiles ==
    ASSUME TypeOK, DumpsInv, NEW p, p.dump \in Dumps,
           NEW outcome \in {"written", "failed", "silent"}, DumpEnds(p, outcome)
    PROVE  \E after \in {"whole", Spoilt(p.dump)} :
             /\ dump' = [dump EXCEPT ![p.dump] = after]
             /\ after # Spoilt(p.dump) => p.dump \in ToSet(files) /\ outcome # "silent"
  BY DEF DumpEnds

LEMMA DumpSteps ==
    ASSUME TypeOK, DumpsInv, [Next]_vars PROVE DumpStep
<1>1. ASSUME UNCHANGED backups, UNCHANGED request PROVE DumpStep
  <2>1. Leaves  BY <1>1 DEF Leaves, backups, SameScheduler, SameWriters
  <2> QED  BY <2>1 DEF DumpStep
<1>2. ASSUME UNCHANGED <<files, dump, deleted, request>>, SameScheduler PROVE DumpStep
  <2>1. Leaves  BY <1>2 DEF Leaves, SameWriters
  <2> QED  BY <2>1 DEF DumpStep
<1>3. Idle.pc = "idle"  BY DEF Idle
<1>4. ASSUME NEW r \in Requests, NEW new, new.pc # "dump", request' = [request EXCEPT ![r] = new],
             UNCHANGED <<files, dump, deleted, scheduler>>
      PROVE  DumpStep
  <2>1. SameWriters(Requests)  BY <1>4, SameButOne
  <2>2. Leaves  BY <1>4, <2>1 DEF Leaves, SameScheduler
  <2> QED  BY <2>2 DEF DumpStep
<1>5. CASE Dumping
  <2>1. CASE Occurs \/ GraceEnds \/ SecondEnds
    BY <1>2, <2>1 DEF Occurs, GraceEnds, SecondEnds, SameScheduler
  <2>2. CASE Tick
    <3>1. scheduler'.pc = "mark"  BY <2>2 DEF Tick, TypeOK, Task
    <3> QED  BY <1>2, <2>2, <3>1 DEF Tick, SameScheduler
  <2>3. CASE Mark
    <3>1. scheduler'.pc = "marking"  BY <2>3 DEF Mark, TypeOK, Task
    <3> QED  BY <1>2, <2>3, <3>1 DEF Mark, SameScheduler
  <2>4. CASE Marked
    <3>1. PICK f \in Name :
            BeginDump(f) /\ scheduler' = [scheduler EXCEPT !.pc = "dump", !.dump = f, !.boot = boot]
      BY <2>4 DEF Marked
    <3>2. scheduler'.dump = f  BY <3>1 DEF TypeOK, Task
    <3>3. Begins  BY <2>4, <3>1, <3>2 DEF Marked, Begins, SameWriters
    <3> QED  BY <3>3 DEF DumpStep
  <2>5. CASE ScheduledDumpEnds
    <3>1. PICK outcome \in {"written", "failed", "silent"} :
            /\ DumpEnds(scheduler, outcome)
            /\ scheduler' = IF outcome = "failed" THEN Idle ELSE [scheduler EXCEPT !.pc = "prune"]
      BY <2>5 DEF ScheduledDumpEnds
    <3>2. PICK d \in Dumps : scheduler.dump = d
      BY <2>5 DEF ScheduledDumpEnds, DumpsInv, Writers
    <3>3. scheduler'.pc # "dump"  BY <1>3, <3>1 DEF TypeOK, Task
    <3>4. PICK after \in {"whole", Spoilt(d)} :
            /\ dump' = [dump EXCEPT ![d] = after]
            /\ after # Spoilt(d) => d \in ToSet(files) /\ outcome # "silent"
      BY <3>1, <3>2, EndsKeepsFiles
    <3>5. Ends(d)
      BY <2>5, <3>2, <3>3, <3>4 DEF ScheduledDumpEnds, Ends, SameWriters
    <3> QED  BY <3>5 DEF DumpStep
  <2>6. CASE Prune
    <3>1. Prunes  BY <1>3, <2>6 DEF Prune, Prunes, SameScheduler, SameWriters
    <3> QED  BY <3>1 DEF DumpStep
  <2> QED  BY <1>5, <2>1, <2>2, <2>3, <2>4, <2>5, <2>6 DEF Dumping
<1>6. CASE Restoring
  BY <1>1, <1>6 DEF Restoring, Check, StopShards, OpenFile, RestoreEnds
<1>7. ASSUME NEW r \in Requests, Asking(r) PROVE DumpStep
  <2>1. CASE Backup(r)
    <3>1. PICK f \in Name :
            /\ BeginDump(f)
            /\ request' = [request EXCEPT ![r] = [Idle EXCEPT !.pc = "dump", !.dump = f, !.boot = boot]]
      BY <2>1 DEF Backup
    <3> DEFINE new == [Idle EXCEPT !.pc = "dump", !.dump = f, !.boot = boot]
    <3>2. new.dump = f  BY DEF Idle
    <3>3. request' = [request EXCEPT ![r] = new]  BY <3>1
    <3> HIDE DEF new
    <3>4. request'[r].dump = f /\ SameWriters(Requests \ {r})  BY <3>2, <3>3, SameButOne
    <3>5. deleted' = deleted /\ scheduler' = scheduler  BY <2>1 DEF Backup
    <3>6. Begins  BY <3>1, <3>4, <3>5 DEF Begins, SameScheduler
    <3> QED  BY <3>6 DEF DumpStep
  <2>2. CASE BackupEnds(r)
    <3>1. PICK outcome \in {"written", "failed", "silent"} :
            /\ DumpEnds(request[r], outcome)
            /\ files' = IF outcome = "silent" THEN RemoveFirst(files, request[r].dump)
                        ELSE Newest(request[r].dump)
      BY <2>2 DEF BackupEnds
    <3>2. PICK d \in Dumps : request[r].dump = d  BY <2>2 DEF BackupEnds, DumpsInv, Writers
    <3>3. request'[r].pc # "dump" /\ SameWriters(Requests \ {r})
      BY <1>3, <2>2, SameButOne DEF BackupEnds, Answer
    <3>4. PICK after \in {"whole", Spoilt(d)} :
            /\ dump' = [dump EXCEPT ![d] = after]
            /\ after # Spoilt(d) => d \in ToSet(files) /\ outcome # "silent"
      BY <3>1, <3>2, EndsKeepsFiles
    <3>5. Ends(d)
      BY <2>2, <3>1, <3>2, <3>3, <3>4 DEF BackupEnds, Ends, SameScheduler
    <3> QED  BY <3>5 DEF DumpStep
  <2>3. CASE \E d \in Dumps : Delete(r, d)
    <3>1. Deletes  BY <2>3 DEF Delete, Deletes, SameScheduler, SameWriters
    <3> QED  BY <3>1 DEF DumpStep
  <2>4. CASE Put(r)
    <3>1. PICK cfg \in {schedule, NoSchedule}, body \in BOOLEAN :
            request' = [request EXCEPT ![r] = [Idle EXCEPT !.pc = "save", !.enabled = body,
                                                           !.lastFired = Watermark(cfg)]]
      BY <2>4 DEF Put
    <3> DEFINE new == [Idle EXCEPT !.pc = "save", !.enabled = body, !.lastFired = Watermark(cfg)]
    <3>2. new.pc # "dump"  BY DEF Idle
    <3> HIDE DEF new
    <3> QED  BY <1>4, <2>4, <3>1, <3>2 DEF Put, new, backups
  <2>5. CASE PutSaved(r)  BY <1>3, <1>4, <2>5 DEF PutSaved, Answer
  <2>6. CASE Announce(r)
    <3>1. PICK t : t = CHOOSE u \in Unused : \A w \in Unused : u <= w  OBVIOUS
    <3> DEFINE new == [Idle EXCEPT !.pc = "arm", !.timer = t]
    <3>2. new.pc # "dump"  BY DEF Idle
    <3>3. request' = [request EXCEPT ![r] = new] \/ UNCHANGED request
      BY <2>6, <3>1 DEF Announce
    <3> HIDE DEF new
    <3> QED  BY <1>1, <1>4, <2>6, <3>2, <3>3 DEF Announce, backups
  <2>7. CASE Arm(r) \/ Retract(r)
    BY <1>3, <1>4, <2>7 DEF Arm, Retract, Answer, backups
  <2>8. CASE Cancel(r)
    <3> DEFINE new == [request[r] EXCEPT !.pc = "retract"]
    <3>1. new.pc # "dump"  BY DEF TypeOK, Task
    <3>2. request' = [request EXCEPT ![r] = new]  BY <2>8 DEF Cancel, TypeOK
    <3> HIDE DEF new
    <3> QED  BY <1>4, <2>8, <3>1, <3>2 DEF Cancel, backups
  <2>9. CASE \E d \in Dumps : Restore(r, d)  BY <1>1, <2>9 DEF Restore
  <2> QED
    BY <1>7, <2>1, <2>2, <2>3, <2>4, <2>5, <2>6, <2>7, <2>8, <2>9 DEF Asking
<1>8. ASSUME NEW verb \in {"start", "stop", "restart"}, Command(verb) PROVE DumpStep
  BY <1>1, <1>8 DEF Command
<1>9. ASSUME NEW t \in Timers, Expire(t) \/ Fire(t) PROVE DumpStep
  BY <1>1, <1>9 DEF Expire, Fire
<1>10. ASSUME NEW u \in Updates,
              Update(u) \/ UpdateRuns(u) \/ UpdateOver(u) \/ Poll(u) \/ WatcherRestarts(u)
       PROVE  DumpStep
  BY <1>1, <1>10 DEF Update, UpdateRuns, UpdateOver, Poll, WatcherRestarts
<1>11. CASE UNCHANGED vars  BY <1>1, <1>11 DEF vars, backups
<1> QED  BY <1>5, <1>6, <1>7, <1>8, <1>9, <1>10, <1>11 DEF Next

LEMMA WritersKept ==
    ASSUME Writers, SameScheduler, SameWriters(Requests),
           \A d \in Dumps : dump[d] # "none" => dump'[d] # "none"
    PROVE  Writers'
<1>1. \A r \in Requests : request'[r].pc = "dump" => request'[r] = request[r]
  BY DEF SameWriters
<1>2. scheduler'.pc = "dump" => scheduler' = scheduler  BY DEF SameScheduler
<1> QED  BY <1>1, <1>2 DEF Writers

\* What was complete is complete, or lost to a dump of its second, for good.
Held == Whole \cup Lost

LEMMA BegunState ==
    ASSUME TypeOK, NEW f \in Dumps, BeginDump(f)
    PROVE  /\ \A d \in Dumps : d # f => dump'[d] = dump[d]
           /\ dump'[f] \in {"writing", "shared", "lost"}
           /\ f \in Held => dump'[f] = "lost"
<1>1. dump \in [Dumps -> FileStates]  BY DEF TypeOK
<1> DEFINE new == CASE dump[f] = "none" -> "writing"
                    [] dump[f] \in {"whole", "lost"} -> "lost"
                    [] OTHER -> "shared"
<1>2. dump' = [dump EXCEPT ![f] = new]  BY <1>1 DEF BeginDump
<1>3. new \in {"writing", "shared", "lost"} /\ (dump[f] \in {"whole", "lost"} => new = "lost")
  OBVIOUS
<1> HIDE DEF new
<1>4. f \in Held => dump[f] \in {"whole", "lost"}  BY DEF Held, Whole, Lost
<1> QED  BY <1>1, <1>2, <1>3, <1>4

LEMMA DumpsBegin ==
    ASSUME TypeOK, DumpsInv, Begins
    PROVE  DumpsInv'
<1>1. PICK f \in Name :
        /\ BeginDump(f)
        /\ \/ scheduler'.dump = f /\ SameWriters(Requests)
           \/ \E r \in Requests : request'[r].dump = f /\ SameScheduler /\ SameWriters(Requests \ {r})
  BY DEF Begins
<1>2. f \in Dumps /\ files' = Append(RemoveFirst(files, f), f)  BY <1>1 DEF BeginDump
<1>3. dump'[f] # "none" /\ \A d \in Dumps : d # f => dump'[d] = dump[d]
  BY <1>1, <1>2, BegunState
<1>4. Begun'
  <2>1. PICK n \in 0..MaxDumps : {d \in Dumps : dump[d] # "none"} \cup {f} = 1..n
    BY <1>1, <1>2, NamedDump
  <2>2. {d \in Dumps : dump'[d] # "none"} = 1..n  BY <1>2, <1>3, <2>1
  <2> QED  BY <2>2 DEF Begun
<1>5. ToSet(files) \in SUBSET Dumps  BY ListedDumps
<1>6. Listed'
  <2>1. IsInjective(files') /\ ToSet(files') = ToSet(files) \cup {f}
    BY <1>2, BegunFiles DEF DumpsInv
  <2>2. \A d \in ToSet(files) : dump[d] # "none"  BY DEF DumpsInv, Listed
  <2> QED  BY <1>3, <1>5, <2>1, <2>2 DEF Listed
<1>7. Writers  BY DEF DumpsInv
<1>8. CASE scheduler'.dump = f /\ SameWriters(Requests)
  <2>1. \A r \in Requests : request'[r].pc = "dump" => request'[r] = request[r]
    BY <1>8 DEF SameWriters
  <2>2. Writers'  BY <1>2, <1>3, <1>7, <1>8, <2>1 DEF Writers
  <2> QED  BY <1>4, <1>6, <2>2 DEF DumpsInv
<1>9. CASE \E r \in Requests : request'[r].dump = f /\ SameScheduler /\ SameWriters(Requests \ {r})
  <2>1. PICK r \in Requests : request'[r].dump = f /\ SameScheduler /\ SameWriters(Requests \ {r})
    BY <1>9
  <2>2. \A q \in Requests \ {r} : request'[q].pc = "dump" => request'[q] = request[q]
    BY <2>1 DEF SameWriters
  <2>3. scheduler'.pc = "dump" => scheduler' = scheduler  BY <2>1 DEF SameScheduler
  <2>4. Writers'  BY <1>2, <1>3, <1>7, <2>1, <2>2, <2>3 DEF Writers
  <2> QED  BY <1>4, <1>6, <2>4 DEF DumpsInv
<1> QED  BY <1>1, <1>8, <1>9

\* The end of a dump: its file is complete, spoilt, or as it was.
LEMMA EndedState ==
    ASSUME TypeOK, DumpsInv, NEW d \in Dumps, Ends(d)
    PROVE  /\ \A e \in Dumps : e # d => dump'[e] = dump[e]
           /\ dump[d] # "none"
           /\ \/ dump'[d] = "whole" /\ d \in ToSet(files) /\ files' = Newest(d)
              \/ dump'[d] = "partial" /\ d \notin Held
              \/ dump'[d] = "lost" /\ d \in Held
              \/ dump'[d] = dump[d] /\ d \notin ToSet(files)
<1>1. PICK after \in {"whole", Spoilt(d)} :
        /\ dump' = [dump EXCEPT ![d] = after]
        /\ after # Spoilt(d) => d \in ToSet(files) /\ files' = Newest(d)
  BY DEF Ends
<1>2. dump \in [Dumps -> FileStates]  BY DEF TypeOK, FileStates
<1>3. dump'[d] = after /\ \A e \in Dumps : e # d => dump'[e] = dump[e]  BY <1>1, <1>2
<1>4. dump[d] # "none"  BY DEF Ends, DumpsInv, Writers
<1>5. d \in Held <=> dump[d] \in {"whole", "lost"}  BY DEF Held, Whole, Lost
<1>6. CASE after # Spoilt(d)  BY <1>1, <1>3, <1>4, <1>6
<1>7. CASE after = Spoilt(d)
  <2>1. CASE dump[d] \notin {"whole", "lost"}
    BY <1>3, <1>4, <1>5, <1>7, <2>1 DEF Spoilt
  <2>2. CASE dump[d] \in {"whole", "lost"} /\ d \in ToSet(files)
    BY <1>3, <1>4, <1>5, <1>7, <2>2 DEF Spoilt
  <2>3. CASE dump[d] \in {"whole", "lost"} /\ d \notin ToSet(files)
    BY <1>3, <1>4, <1>7, <2>3 DEF Spoilt
  <2> QED  BY <2>1, <2>2, <2>3
<1> QED  BY <1>6, <1>7

LEMMA DumpsEnd ==
    ASSUME TypeOK, DumpsInv, NEW d \in Dumps, Ends(d)
    PROVE  DumpsInv'
<1>1. dump[d] # "none" /\ dump'[d] # "none" /\ \A e \in Dumps : e # d => dump'[e] = dump[e]
  BY EndedState
<1>2. \A e \in Dumps : dump'[e] # "none" <=> dump[e] # "none"  BY <1>1
<1>3. Begun'
  <2>1. {e \in Dumps : dump'[e] # "none"} = {e \in Dumps : dump[e] # "none"}  BY <1>2
  <2> QED  BY <2>1 DEF DumpsInv, Begun
<1>4. Listed'
  <2>1. files \in Seq(Dumps) /\ IsInjective(files) /\ ToSet(files) \in SUBSET Dumps
        /\ \A e \in ToSet(files) : dump[e] # "none"
    BY ListedDumps DEF TypeOK, DumpsInv, Listed
  <2>2. IsInjective(Newest(d)) /\ ToSet(Newest(d)) = ToSet(files)
    BY NewestFiles DEF DumpsInv
  <2>3. IsInjective(RemoveFirst(files, d)) /\ ToSet(RemoveFirst(files, d)) = ToSet(files) \ {d}
    BY <2>1, RemovedFirst
  <2>4. IsInjective(files') /\ ToSet(files') \subseteq ToSet(files)
    BY <2>2, <2>3 DEF Ends
  <2> QED  BY <1>2, <2>1, <2>4 DEF Listed
<1>5. Writers  BY DEF DumpsInv
<1>6. CASE scheduler.pc = "dump" /\ scheduler.dump = d /\ scheduler'.pc # "dump" /\ SameWriters(Requests)
  <2>1. \A r \in Requests : request'[r].pc = "dump" => request'[r] = request[r]
    BY <1>6 DEF SameWriters
  <2>2. Writers'  BY <1>2, <1>5, <1>6, <2>1 DEF Writers
  <2> QED  BY <1>3, <1>4, <2>2 DEF DumpsInv
<1>7. CASE \E r \in Requests : /\ request[r].pc = "dump" /\ request[r].dump = d
                               /\ request'[r].pc # "dump"
                               /\ SameScheduler /\ SameWriters(Requests \ {r})
  <2>1. PICK r \in Requests : /\ request[r].pc = "dump" /\ request[r].dump = d
                              /\ request'[r].pc # "dump"
                              /\ SameScheduler /\ SameWriters(Requests \ {r})
    BY <1>7
  <2>2. \A q \in Requests : request'[q].pc = "dump" => q # r /\ request'[q] = request[q]
    BY <2>1 DEF SameWriters
  <2>3. scheduler'.pc = "dump" => scheduler' = scheduler  BY <2>1 DEF SameScheduler
  <2>4. Writers'  BY <1>2, <1>5, <2>1, <2>2, <2>3 DEF Writers
  <2> QED  BY <1>3, <1>4, <2>4 DEF DumpsInv
<1> QED  BY <1>6, <1>7 DEF Ends

LEMMA DumpsKept ==
    ASSUME TypeOK, DumpsInv, DumpStep PROVE DumpsInv'
<1> DEFINE Quiet == dump' = dump /\ SameScheduler /\ SameWriters(Requests)
<1>1. ASSUME Quiet PROVE Begun' /\ Writers'
  <2>1. Begun'  BY <1>1 DEF DumpsInv, Begun
  <2>2. Writers'  BY <1>1, WritersKept DEF DumpsInv
  <2> QED  BY <2>1, <2>2
<1>2. ASSUME Quiet, IsInjective(files'), ToSet(files') \subseteq ToSet(files) PROVE DumpsInv'
  <2>1. Listed'  BY <1>2 DEF DumpsInv, Listed
  <2> QED  BY <1>1, <1>2, <2>1 DEF DumpsInv
<1>3. files \in Seq(Dumps) /\ IsInjective(files)  BY DEF TypeOK, DumpsInv, Listed
<1>4. CASE Deletes
  <2>1. PICK d \in ToSet(files) : files' = RemoveFirst(files, d)  BY <1>4 DEF Deletes
  <2>2. IsInjective(files') /\ ToSet(files') \subseteq ToSet(files)
    <3>1. /\ IsInjective(RemoveFirst(files, d))
          /\ ToSet(RemoveFirst(files, d)) = ToSet(files) \ {d}
      BY <1>3, RemovedFirst
    <3> QED  BY <2>1, <3>1
  <2> QED  BY <1>2, <1>4, <2>2 DEF Deletes
<1>5. CASE Prunes
  <2>1. IsInjective(Kept(files)) /\ ToSet(Kept(files)) \subseteq ToSet(files)
    BY <1>3, KeptFiles
  <2> QED  BY <1>2, <1>5, <2>1 DEF Prunes
<1>6. CASE Leaves  BY <1>2, <1>3, <1>6 DEF Leaves
<1> QED  BY <1>4, <1>5, <1>6, DumpsBegin, DumpsEnd DEF DumpStep

LEMMA HeldStays ==
    ASSUME TypeOK, DumpsInv, DumpStep, NEW d \in Dumps, d \in Held
    PROVE  d \in Held'
<1>1. dump[d] \in {"whole", "lost"}  BY DEF Held, Whole, Lost
<1>2. dump'[d] \in {"whole", "lost"}
  <2>1. CASE Begins
    <3>1. PICK f \in Name : BeginDump(f)  BY <2>1 DEF Begins
    <3>2. f \in Dumps  BY <3>1 DEF BeginDump
    <3> QED  BY <1>1, <3>1, <3>2, BegunState
  <2>2. ASSUME NEW e \in Dumps, Ends(e) PROVE dump'[d] \in {"whole", "lost"}
    <3>1. CASE e = d
      BY <1>1, <2>2, <3>1, EndedState
    <3>2. CASE e # d  BY <1>1, <2>2, <3>2, EndedState
    <3> QED  BY <3>1, <3>2
  <2>3. CASE Deletes \/ Prunes \/ Leaves  BY <1>1, <2>3 DEF Deletes, Prunes, Leaves
  <2> QED  BY <2>1, <2>2, <2>3 DEF DumpStep
<1> QED  BY <1>2 DEF Held, Whole, Lost

-----------------------------------------------------------------------------
(* The restore job                                                         *)

\* The assumption: the listing of the game processes does not fail.
ListingWorks == "status" \notin Faults

JobInv == (job.pc # "none" => job.dump \in Dumps) /\ RestoreSound

LEMMA JobInit == Init => JobInv
<1> SUFFICES ASSUME Init PROVE JobInv  OBVIOUS
<1>1. job.pc = "none"  BY DEF Init
<1> QED  BY <1>1 DEF JobInv, RestoreSound, DoneIsRestored, GameOffUnlessStarted

\* A step that leaves the job and the database alone, and starts no game.
LEMMA JobUntouched ==
    ASSUME TypeOK, DumpsInv, DumpStep, JobInv, job' = job, database' = database,
           game' = game \/ game' = FALSE
    PROVE  JobInv'
<1>1. job.pc # "none" => job.dump \in Dumps  BY DEF JobInv
<1>2. DoneIsRestored'
  BY <1>1, HeldStays DEF JobInv, RestoreSound, DoneIsRestored, Held
<1>3. GameOffUnlessStarted'  BY DEF JobInv, RestoreSound, GameOffUnlessStarted
<1> QED  BY <1>1, <1>2, <1>3 DEF JobInv, RestoreSound

\* A command that starts the game says so to a job that is running.
LEMMA JobCommanded ==
    ASSUME TypeOK, DumpsInv, DumpStep, JobInv, Commanded, database' = database
    PROVE  JobInv'
<1>1. CASE job' = job /\ game' = FALSE  BY <1>1, JobUntouched
<1>2. CASE job' = [job EXCEPT !.started = JobRunning]
  <2>1. /\ job'.pc = job.pc /\ job'.dump = job.dump /\ job'.failed = job.failed
        /\ job'.started = JobRunning
    BY <1>2 DEF TypeOK
  <2>2. job.pc # "none" => job.dump \in Dumps  BY DEF JobInv
  <2>3. DoneIsRestored'
    BY <2>1, <2>2, HeldStays DEF JobInv, RestoreSound, DoneIsRestored, Held
  <2>4. GameOffUnlessStarted'  BY <2>1 DEF GameOffUnlessStarted, JobRunning
  <2> QED  BY <2>1, <2>2, <2>3, <2>4 DEF JobInv, RestoreSound
<1> QED  BY <1>1, <1>2 DEF Commanded

LEMMA JobRestoring ==
    ASSUME TypeOK, DumpsInv, JobInv, ListingWorks, Restoring
    PROVE  JobInv'
<1>1. job \in JobState  BY DEF TypeOK, JobState
<1>2. job.pc # "none" => job.dump \in Dumps  BY DEF JobInv
<1>3. /\ Failed.pc = "done" /\ Failed.failed = TRUE /\ Failed.dump = job.dump
  BY <1>1 DEF Failed, JobState
<1>4. ~Fault("status")  BY DEF ListingWorks, Fault
<1>5. ASSUME job' = Failed, job.pc # "none" PROVE JobInv'
  BY <1>2, <1>3, <1>5 DEF JobInv, RestoreSound, DoneIsRestored, GameOffUnlessStarted
<1>6. CASE Check
  <2>1. PICK sees \in BOOLEAN :
          /\ IF game /\ ~sees THEN Fault("status") ELSE UNCHANGED left
          /\ job' = [job EXCEPT !.pc = IF sees THEN "stop" ELSE "file", !.started = FALSE]
    BY <1>6 DEF Check
  <2>2. job'.dump = job.dump /\ job'.pc = (IF sees THEN "stop" ELSE "file")
    BY <1>1, <2>1 DEF JobState
  <2>3. ~sees => ~game  BY <1>4, <2>1 DEF TypeOK
  <2>4. game' = game /\ job.pc = "check"  BY <1>6 DEF Check, machine
  <2> QED
    BY <1>2, <2>2, <2>3, <2>4 DEF JobInv, RestoreSound, DoneIsRestored, GameOffUnlessStarted
<1>7. CASE StopShards
  <2>1. job.pc = "stop"  BY <1>7 DEF StopShards
  <2>2. CASE job' = Failed  BY <1>5, <2>1, <2>2
  <2>3. CASE job' # Failed
    <3>1. game' = FALSE /\ job' = [job EXCEPT !.pc = "file", !.stopped = TRUE, !.started = FALSE]
      BY <1>4, <1>7, <2>3 DEF StopShards
    <3>2. job'.dump = job.dump /\ job'.pc = "file"  BY <1>1, <3>1 DEF JobState
    <3> QED
      BY <1>2, <2>1, <3>1, <3>2 DEF JobInv, RestoreSound, DoneIsRestored, GameOffUnlessStarted
  <2> QED  BY <2>2, <2>3
<1>8. CASE OpenFile
  <2>1. job.pc = "file" /\ game' = game  BY <1>8 DEF OpenFile, machine
  <2>2. CASE job' = Failed  BY <1>5, <2>1, <2>2
  <2>3. CASE job' # Failed
    <3>1. job' = [job EXCEPT !.pc = "restore", !.boot = boot]  BY <1>8, <2>3 DEF OpenFile
    <3>2. job'.dump = job.dump /\ job'.pc = "restore" /\ job'.started = job.started
      BY <1>1, <3>1 DEF JobState
    <3> QED
      BY <1>2, <2>1, <3>2 DEF JobInv, RestoreSound, DoneIsRestored, GameOffUnlessStarted
  <2> QED  BY <2>2, <2>3
<1>9. CASE RestoreEnds
  <2>1. PICK exit \in {0, 1}, summary \in BOOLEAN :
          /\ exit = 0 => summary
          /\ summary => dump[job.dump] = "whole"
          /\ database' = IF summary THEN ToString(job.dump) ELSE "mixed"
          /\ job' = IF Succeeds(exit, summary) THEN [job EXCEPT !.pc = "done"] ELSE Failed
    BY <1>9 DEF RestoreEnds
  <2>2. job.pc = "restore" /\ dump' = dump  BY <1>9 DEF RestoreEnds, backups
  <2>3. CASE ~Succeeds(exit, summary)  BY <1>5, <2>1, <2>2, <2>3
  <2>4. CASE Succeeds(exit, summary)
    <3>1. summary = TRUE  BY <2>1, <2>4 DEF Succeeds
    <3>2. job' = [job EXCEPT !.pc = "done"]  BY <2>1, <2>4
    <3>3. job'.dump = job.dump /\ job'.pc = "done"  BY <1>1, <3>2 DEF JobState
    <3>4. database' = ToString(job'.dump) /\ job'.dump \in Whole'
      BY <1>2, <2>1, <2>2, <3>1, <3>3 DEF Whole
    <3> QED
      BY <1>2, <2>2, <3>3, <3>4 DEF JobInv, RestoreSound, DoneIsRestored, GameOffUnlessStarted
  <2> QED  BY <2>3, <2>4
<1> QED  BY <1>6, <1>7, <1>8, <1>9 DEF Restoring

LEMMA JobStep ==
    ASSUME TypeOK, DumpsInv, JobInv, ListingWorks, [Next]_vars
    PROVE  JobInv'
<1> USE DEF machine, restores
<1>1. DumpStep  BY DumpSteps
<1>2. ASSUME job' = job, database' = database, game' = game \/ game' = FALSE PROVE JobInv'
  BY <1>1, <1>2, JobUntouched
<1>3. ASSUME Commanded, database' = database PROVE JobInv'  BY <1>1, <1>3, JobCommanded
<1>4. CASE Dumping
  BY <1>2, <1>4 DEF Dumping, Occurs, GraceEnds, SecondEnds, Tick, Mark, Marked, ScheduledDumpEnds, Prune
<1>5. CASE Restoring  BY <1>5, JobRestoring
<1>6. ASSUME NEW r \in Requests, NEW d \in Dumps, Restore(r, d) PROVE JobInv'
  <2>1. job'.pc = "check" /\ job'.dump = d  BY <1>6 DEF Restore
  <2> QED  BY <2>1 DEF JobInv, RestoreSound, DoneIsRestored, GameOffUnlessStarted
<1>7. ASSUME NEW r \in Requests, Asking(r) PROVE JobInv'
  <2>1. CASE Backup(r) \/ BackupEnds(r)  BY <1>2, <2>1 DEF Backup, BackupEnds
  <2>2. CASE Put(r) \/ PutSaved(r)  BY <1>2, <2>2 DEF Put, PutSaved
  <2>3. CASE Announce(r) \/ Arm(r)  BY <1>2, <2>3 DEF Announce, Arm
  <2>4. CASE Cancel(r) \/ Retract(r)  BY <1>2, <2>4 DEF Cancel, Retract
  <2>5. CASE \E d \in Dumps : Delete(r, d)  BY <1>2, <2>5 DEF Delete
  <2> QED  BY <1>6, <1>7, <2>1, <2>2, <2>3, <2>4, <2>5 DEF Asking
<1>8. ASSUME NEW verb \in {"start", "stop", "restart"}, Command(verb) PROVE JobInv'
  BY <1>3, <1>8, Commands DEF Command
<1>9. ASSUME NEW t \in Timers, Expire(t) \/ Fire(t) PROVE JobInv'
  <2>1. CASE Expire(t)  BY <1>2, <2>1 DEF Expire
  <2>2. CASE Fire(t)  BY <1>3, <2>2, Commands DEF Fire
  <2> QED  BY <1>9, <2>1, <2>2
<1>10. ASSUME NEW u \in Updates,
              Update(u) \/ UpdateRuns(u) \/ UpdateOver(u) \/ Poll(u) \/ WatcherRestarts(u)
       PROVE  JobInv'
  <2>1. CASE Update(u) \/ UpdateRuns(u) \/ UpdateOver(u) \/ Poll(u)
    BY <1>2, <2>1 DEF Update, UpdateRuns, UpdateOver, Poll
  <2>2. CASE WatcherRestarts(u)
    <3>1. Execute("restart")  BY <2>2 DEF WatcherRestarts, Execute
    <3> QED  BY <1>3, <2>2, <3>1, Commands DEF WatcherRestarts
  <2> QED  BY <1>10, <2>1, <2>2
<1>11. CASE UNCHANGED vars  BY <1>2, <1>11 DEF vars
<1> QED  BY <1>4, <1>5, <1>7, <1>8, <1>9, <1>10, <1>11 DEF Next

\* The numbers of the dumps, their files and their writers fit together.
LEMMA DumpsFit == Spec => []DumpsInv
<1>1. TypeOK /\ DumpsInv /\ [Next]_vars => DumpsInv'  BY DumpSteps, DumpsKept
<1> QED  BY <1>1, DumpsInit, TypeCorrect, PTL DEF Spec

\* While the listing of the game processes works, a job that reports success
\* has left the whole dump in the database, and works on it with no game
\* running that was not started under it.
THEOREM RestoresKept == ListingWorks => (Spec => []RestoreSound)
<1>1. ASSUME ListingWorks PROVE Spec => []RestoreSound
  <2>1. TypeOK /\ DumpsInv /\ JobInv /\ [Next]_vars => JobInv'  BY <1>1, JobStep
  <2>2. JobInv => RestoreSound  BY DEF JobInv
  <2> QED  BY <2>1, <2>2, JobInit, DumpsFit, TypeCorrect, PTL DEF Spec
<1> QED  BY <1>1

-----------------------------------------------------------------------------
(* The retention                                                           *)

\* The dumps NewestKept counts: those that are there, those that are no
\* complete dump, those an operator deleted and those lost to a dump of their
\* second.
Present == Whole \cap ToSet(files)
Accounted == Present \cup Broken \cup deleted \cup Lost

\* Either nothing complete was pruned yet, or enough dumps are accounted for:
\* no step but a pruning takes a dump off the account, and one that cuts the
\* list leaves KeepN files.
Retained == \/ Whole \subseteq ToSet(files) \cup deleted
            \/ KeepN > 0 /\ Cardinality(Accounted) >= KeepN

LEMMA FiniteDumps ==
    ASSUME NEW S \in SUBSET Dumps
    PROVE  IsFiniteSet(S) /\ Cardinality(S) \in Nat
<1>1. IsFiniteSet(Dumps)  BY NumberTypes, FS_Interval DEF Dumps, Numbers
<1>2. IsFiniteSet(S)  BY <1>1, FS_Subset
<1> QED  BY <1>2, FS_CardinalityType

LEMMA InUnion ==
    ASSUME NEW S \in SUBSET Dumps, NEW T \in SUBSET Dumps
    PROVE  Cardinality(S \cup T) <= Cardinality(S) + Cardinality(T)
<1>1. IsFiniteSet(S) /\ IsFiniteSet(T)  BY FiniteDumps
<1>2. Cardinality(S \cup T) = Cardinality(S) + Cardinality(T) - Cardinality(S \cap T)
  BY <1>1, FS_Union
<1>3. Cardinality(S \cap T) \in Nat /\ Cardinality(S) \in Nat /\ Cardinality(T) \in Nat
  BY FiniteDumps
<1> QED  BY <1>2, <1>3

LEMMA AccountTypes ==
    TypeOK => /\ Whole \in SUBSET Dumps /\ Present \in SUBSET Dumps
              /\ Broken \in SUBSET Dumps /\ deleted \in SUBSET Dumps
              /\ Lost \in SUBSET Dumps /\ Accounted \in SUBSET Dumps
  BY DEF TypeOK, Whole, Present, Broken, Lost, Accounted

LEMMA MoreAccounted ==
    ASSUME TypeOK, TypeOK', Retained, Accounted \subseteq Accounted',
           Whole \subseteq ToSet(files) \cup deleted => Whole' \subseteq ToSet(files') \cup deleted'
    PROVE  Retained'
<1>1. CASE Whole \subseteq ToSet(files) \cup deleted  BY <1>1 DEF Retained
<1>2. CASE KeepN > 0 /\ Cardinality(Accounted) >= KeepN
  <2>1. PICK A : A = Accounted'  OBVIOUS
  <2>2. A \in SUBSET Dumps  BY <2>1 DEF TypeOK, Accounted, Present, Broken, Lost, Whole
  <2>3. Accounted \in SUBSET A  BY <2>1
  <2>4. IsFiniteSet(A) /\ Cardinality(A) \in Nat  BY <2>2, FiniteDumps
  <2>5. Cardinality(Accounted) <= Cardinality(A)  BY <2>3, <2>4, FS_Subset
  <2>6. Cardinality(Accounted) \in Nat  BY AccountTypes, FiniteDumps
  <2>7. KeepN \in Nat  BY NumberTypes DEF Numbers
  <2>8. Cardinality(A) >= KeepN  BY <1>2, <2>4, <2>5, <2>6, <2>7
  <2> QED  BY <1>2, <2>1, <2>8 DEF Retained
<1> QED  BY <1>1, <1>2 DEF Retained

LEMMA RetainedStep ==
    ASSUME TypeOK, TypeOK', DumpsInv, DumpsInv', Retained, DumpStep
    PROVE  Retained'
<1>1. ToSet(files) \in SUBSET Dumps /\ files \in Seq(Dumps) /\ IsInjective(files)
  BY ListedDumps DEF TypeOK, DumpsInv, Listed
<1>2. CASE Begins
  <2>1. PICK f \in Name : BeginDump(f) /\ deleted' = deleted  BY <1>2 DEF Begins
  <2>2. f \in Dumps /\ files' = Append(RemoveFirst(files, f), f)  BY <2>1 DEF BeginDump
  <2>3. /\ \A d \in Dumps : d # f => dump'[d] = dump[d]
        /\ dump'[f] \in {"writing", "shared", "lost"}
    BY <2>1, <2>2, BegunState
  <2>4. ToSet(files') = ToSet(files) \cup {f}  BY <2>2, BegunFiles DEF DumpsInv
  <2>5. Whole' \subseteq Whole  BY <2>3 DEF Whole
  <2>6. f \in Broken' \/ f \in Lost'  BY <2>2, <2>3 DEF Broken, Lost
  <2>7. Present \subseteq Present' \cup {f}  BY <2>3, <2>4 DEF Present, Whole
  <2>8. Broken \subseteq Broken' \cup {f} /\ Lost \subseteq Lost' \cup {f}
    BY <2>3 DEF Broken, Lost
  <2>9. Accounted \subseteq Accounted'  BY <2>1, <2>6, <2>7, <2>8 DEF Accounted
  <2> QED  BY <2>1, <2>4, <2>5, <2>9, MoreAccounted
<1>3. ASSUME NEW d \in Dumps, Ends(d) PROVE Retained'
  <2>1. /\ \A e \in Dumps : e # d => dump'[e] = dump[e]
        /\ \/ dump'[d] = "whole" /\ d \in ToSet(files) /\ files' = Newest(d)
           \/ dump'[d] = "partial" /\ d \notin Held
           \/ dump'[d] = "lost" /\ d \in Held
           \/ dump'[d] = dump[d] /\ d \notin ToSet(files)
    BY <1>3, EndedState
  <2>2. deleted' = deleted /\ files' \in {Newest(d), RemoveFirst(files, d)}
    BY <1>3 DEF Ends
  <2>3. ToSet(Newest(d)) = ToSet(files)  BY NewestFiles DEF DumpsInv
  <2>4. ToSet(RemoveFirst(files, d)) = ToSet(files) \ {d}  BY <1>1, RemovedFirst
  <2>5. ToSet(files) \ {d} \subseteq ToSet(files')  BY <2>2, <2>3, <2>4
  <2>6. /\ Present \subseteq Present' \cup {d} /\ Broken \subseteq Broken' \cup {d}
        /\ Lost \subseteq Lost' \cup {d} /\ Whole' \subseteq Whole \cup {d}
    BY <2>1, <2>5 DEF Present, Whole, Broken, Lost
  <2>7. Accounted \subseteq Accounted' \cup {d}  BY <2>2, <2>6 DEF Accounted
  <2>8. CASE dump'[d] = "whole" /\ d \in ToSet(files) /\ files' = Newest(d)
    <3>1. d \in Present' /\ d \in ToSet(files')  BY <2>3, <2>8 DEF Present, Whole
    <3>2. Accounted \subseteq Accounted'  BY <2>7, <3>1 DEF Accounted
    <3> QED  BY <2>2, <2>5, <2>6, <3>1, <3>2, MoreAccounted
  <2>9. CASE dump'[d] = "partial" \/ dump'[d] = "lost"
    <3>1. (d \in Broken' \/ d \in Lost') /\ d \notin Whole'
      BY <2>9 DEF Broken, Lost, Whole
    <3>2. Accounted \subseteq Accounted'  BY <2>7, <3>1 DEF Accounted
    <3> QED  BY <2>2, <2>5, <2>6, <3>1, <3>2, MoreAccounted
  <2>10. CASE dump'[d] = dump[d] /\ d \notin ToSet(files)
    <3>1. ToSet(files) \subseteq ToSet(files')  BY <2>5, <2>10
    <3>2. Whole' = Whole /\ Broken' = Broken /\ Lost' = Lost
      BY <2>1, <2>10 DEF Whole, Broken, Lost
    <3>3. Accounted \subseteq Accounted'  BY <2>2, <3>1, <3>2 DEF Accounted, Present
    <3> QED  BY <2>2, <3>1, <3>2, <3>3, MoreAccounted
  <2> QED  BY <2>1, <2>8, <2>9, <2>10
<1>4. CASE Deletes
  <2>1. PICK d \in ToSet(files) : /\ files' = RemoveFirst(files, d)
                                  /\ deleted' = deleted \cup ({d} \cap Whole)
    BY <1>4 DEF Deletes
  <2>2. dump' = dump  BY <1>4 DEF Deletes
  <2>3. ToSet(files') = ToSet(files) \ {d}  BY <1>1, <2>1, RemovedFirst
  <2>4. Whole' = Whole /\ Broken' = Broken /\ Lost' = Lost  BY <2>2 DEF Whole, Broken, Lost
  <2>5. Accounted \subseteq Accounted'  BY <2>1, <2>3, <2>4 DEF Accounted, Present
  <2> QED  BY <2>1, <2>3, <2>4, <2>5, MoreAccounted
<1>5. CASE Prunes
  <2>1. files' = Kept(files) /\ dump' = dump /\ deleted' = deleted  BY <1>5 DEF Prunes
  <2>2. Whole' = Whole /\ Broken' = Broken /\ Lost' = Lost  BY <2>1 DEF Whole, Broken, Lost
  <2>3. CASE Kept(files) = files
    <3>1. Accounted' = Accounted  BY <2>1, <2>2, <2>3 DEF Accounted, Present
    <3> QED  BY <2>1, <2>2, <2>3, <3>1, MoreAccounted
  <2>4. CASE KeepN > 0 /\ Len(Kept(files)) = KeepN
    <3>1. PICK g : g = files'  OBVIOUS
    <3>2. g \in Seq(Dumps) /\ IsInjective(g) /\ Len(g) = KeepN
      BY <1>1, <2>1, <2>4, <3>1, KeptFiles
    <3>3. IsFiniteSet(Dumps)  BY FiniteDumps
    <3>4. IsFiniteSet(ToSet(g)) /\ Cardinality(ToSet(g)) = KeepN  BY <3>2, <3>3, FilesCount
    <3>5. PICK A : A = Accounted'  OBVIOUS
    <3>6. A \in SUBSET Dumps  BY <3>5 DEF TypeOK, Accounted, Present, Broken, Lost, Whole
    <3>7. ToSet(g) \in SUBSET A
      <4>1. ToSet(g) \in SUBSET Dumps
        <5>1. DOMAIN g = 1..Len(g)  BY <3>2, LenProperties
        <5> QED  BY <3>2, <5>1, ElementOfSeq DEF ToSet
      <4>2. \A d \in ToSet(g) : dump'[d] # "none"  BY <3>1 DEF DumpsInv, Listed
      <4>3. \A d \in Dumps : dump'[d] \in FileStates
        BY DEF TypeOK, FileStates
      <4>4. \A d \in ToSet(g) : d \in Whole' \/ d \in Broken' \/ d \in Lost'
        BY <4>1, <4>2, <4>3 DEF FileStates, Whole, Broken, Lost
      <4> QED  BY <3>1, <3>5, <4>4 DEF Accounted, Present
    <3>8. IsFiniteSet(A) /\ Cardinality(A) \in Nat  BY <3>6, FiniteDumps
    <3>9. Cardinality(ToSet(g)) <= Cardinality(A)  BY <3>7, <3>8, FS_Subset
    <3>10. KeepN \in Nat  BY NumberTypes DEF Numbers
    <3>11. Cardinality(A) >= KeepN  BY <3>4, <3>8, <3>9, <3>10
    <3> QED  BY <2>4, <3>5, <3>11 DEF Retained
  <2> QED  BY <1>1, <2>3, <2>4, KeptFiles
<1>6. CASE Leaves
  <2>1. files' = files /\ dump' = dump /\ deleted' = deleted  BY <1>6 DEF Leaves
  <2>2. Whole' = Whole /\ Accounted' = Accounted
    BY <2>1 DEF Whole, Accounted, Present, Broken, Lost
  <2> QED  BY <2>1, <2>2, MoreAccounted
<1> QED  BY <1>2, <1>3, <1>4, <1>5, <1>6 DEF DumpStep

LEMMA RetainedEnough == TypeOK /\ Retained => NewestKept
<1> SUFFICES ASSUME TypeOK, Retained PROVE NewestKept  OBVIOUS
<1> DEFINE present == Cardinality(Present)
           broken == Cardinality(Broken)
           gone == Cardinality(deleted)
           lost == Cardinality(Lost)
           all == Cardinality(Whole \cup Lost)
           sum == present + broken + gone + lost
<1>1. /\ present \in Nat /\ broken \in Nat /\ gone \in Nat /\ lost \in Nat /\ all \in Nat
      /\ KeepN \in Nat
  BY AccountTypes, FiniteDumps, NumberTypes DEF Numbers
<1>2. ASSUME NEW S \in SUBSET Accounted PROVE Cardinality(S) <= sum
  <2>1. /\ S \in SUBSET Dumps /\ Accounted \in SUBSET Dumps
        /\ Present \cup Broken \in SUBSET Dumps /\ Present \cup Broken \cup deleted \in SUBSET Dumps
    BY AccountTypes
  <2>2. /\ IsFiniteSet(Accounted) /\ Cardinality(Accounted) \in Nat
        /\ Cardinality(Present \cup Broken) \in Nat
        /\ Cardinality(Present \cup Broken \cup deleted) \in Nat
        /\ Cardinality(S) \in Nat
    BY <2>1, FiniteDumps
  <2>3. Cardinality(S) <= Cardinality(Accounted)  BY <2>2, FS_Subset
  <2>4. Cardinality(Present \cup Broken) <= present + broken  BY AccountTypes, InUnion
  <2>5. Cardinality(Present \cup Broken \cup deleted) <= Cardinality(Present \cup Broken) + gone
    BY <2>1, AccountTypes, InUnion
  <2>6. Cardinality(Accounted) <= Cardinality(Present \cup Broken \cup deleted) + lost
    BY <2>1, AccountTypes, InUnion DEF Accounted
  <2> QED  BY <1>1, <2>2, <2>3, <2>4, <2>5, <2>6
<1>3. sum >= IF KeepN = 0 \/ all < KeepN THEN all ELSE KeepN
  <2>1. CASE Whole \subseteq ToSet(files) \cup deleted
    <3>1. Whole \cup Lost \in SUBSET Accounted  BY <2>1 DEF Accounted, Present
    <3>2. all <= sum  BY <1>2, <3>1
    <3> QED  BY <1>1, <3>2
  <2>2. CASE KeepN > 0 /\ Cardinality(Accounted) >= KeepN
    <3>1. Cardinality(Accounted) <= sum  BY <1>2
    <3>2. Cardinality(Accounted) \in Nat  BY AccountTypes, FiniteDumps
    <3> QED  BY <1>1, <2>2, <3>1, <3>2
  <2> QED  BY <2>1, <2>2 DEF Retained
<1> QED  BY <1>3 DEF NewestKept, Present

\* The retention, whatever fails and whoever asks: of the complete dumps the
\* newest KeepN are there, but for those an operator deleted, those lost to
\* another dump of their second and one per file that is no complete dump.
THEOREM RetentionKept == Spec => []NewestKept
<1>1. Init => Retained
  <2> SUFFICES ASSUME Init PROVE Whole \subseteq ToSet(files)  BY DEF Retained
  <2>1. DOMAIN files = 1..FirstDumps /\ \A i \in 1..FirstDumps : files[i] = i  BY DEF Init
  <2>2. ToSet(files) = 1..FirstDumps  BY <2>1 DEF ToSet
  <2>3. \A d \in Dumps : dump[d] = "whole" => d <= FirstDumps  BY DEF Init
  <2>4. Whole \subseteq 1..FirstDumps
    BY <2>3, BoundAssumption DEF BoundAssumption, Whole, Dumps
  <2> QED  BY <2>2, <2>4
<1>2. TypeOK /\ TypeOK' /\ DumpsInv /\ DumpsInv' /\ Retained /\ [Next]_vars => Retained'
  BY DumpSteps, RetainedStep
<1> QED  BY <1>1, <1>2, RetainedEnough, DumpsFit, TypeCorrect, PTL DEF Spec

-----------------------------------------------------------------------------
(* Each occurrence once                                                    *)

\* The assumptions: a PUT of the schedule and a firing do not overlap, and the
\* row that holds the watermark can be read and written.
WatermarkSafe == "schedule" \notin Overlap /\ {"load", "save"} \cap Faults = {}

\* What was fired is behind the stored watermark, or is being marked by the one
\* firing there is, which no PUT sees; a PUT under way holds the watermark that
\* is stored.
OnceInv ==
    /\ BackedUpOnce
    /\ \A o \in Occurrences : fired[o] > 0 =>
          o <= schedule.lastFired \/ (Firing /\ o <= scheduler.timer)
    /\ Firing => ~Editing
    /\ Firing => scheduler.timer > schedule.lastFired
    /\ \A r \in Requests : request[r].pc = "save" => request[r].lastFired = schedule.lastFired

LEMMA OnceInit == Init => OnceInv
<1> SUFFICES ASSUME Init PROVE OnceInv  OBVIOUS
<1>1. \A o \in Occurrences : fired[o] = 0  BY DEF Init
<1>2. scheduler.pc = "idle" /\ \A r \in Requests : request[r].pc = "idle"  BY DEF Init, Idle
<1>3. BackedUpOnce  BY <1>1 DEF BackedUpOnce
<1> QED  BY <1>1, <1>2, <1>3 DEF OnceInv, Firing

\* A step that fires nothing, begins no firing and saves nothing.
SameSaves(S) == \A r \in S : request'[r].pc = "save" => request'[r] = request[r]
NoFiring == /\ UNCHANGED <<fired, schedule>>
            /\ scheduler' = scheduler \/ (~Firing /\ scheduler'.pc \notin {"mark", "marking"})
            /\ SameSaves(Requests)

LEMMA NoFiringKeeps ==
    ASSUME OnceInv, NoFiring PROVE OnceInv'
<1>1. \A r \in Requests : request'[r].pc = "save" => request'[r] = request[r]
  BY DEF NoFiring, SameSaves
<1>2. Editing' => Editing  BY <1>1 DEF Editing
<1>3. Firing' => Firing /\ scheduler' = scheduler  BY DEF NoFiring, Firing
<1>4. Firing => Firing' /\ scheduler' = scheduler  BY DEF NoFiring, Firing
<1>5. fired' = fired /\ schedule' = schedule  BY DEF NoFiring
<1>6. BackedUpOnce'  BY <1>5 DEF OnceInv, BackedUpOnce
<1> QED  BY <1>1, <1>2, <1>3, <1>4, <1>5, <1>6 DEF OnceInv

LEMMA OneRequest ==
    ASSUME TypeOK, NEW r \in Requests, NEW new, request' = [request EXCEPT ![r] = new],
           new.pc # "save"
    PROVE  SameSaves(Requests)
<1>1. \A q \in Requests : request'[q] = IF q = r THEN new ELSE request[q]  BY DEF TypeOK
<1> QED  BY <1>1 DEF SameSaves

LEMMA OnceDumping ==
    ASSUME TypeOK, OnceInv, WatermarkSafe, Dumping PROVE OnceInv'
<1>1. scheduler \in Scheduler /\ schedule.lastFired \in 0..MaxOccurrences
      /\ fired \in [Occurrences -> Nat] /\ occurrence.latest \in 0..MaxOccurrences
  BY DEF TypeOK, Scheduler
<1>2. scheduler.timer \in 0..MaxOccurrences /\ MaxOccurrences \in Nat
  BY <1>1, NumberTypes DEF Scheduler, Task, Numbers
<1>3. ~Fault("load") /\ ~Fault("save")  BY DEF WatermarkSafe, Fault
<1>4. CASE Occurs \/ GraceEnds \/ SecondEnds
  <2>1. NoFiring  BY <1>4 DEF Occurs, GraceEnds, SecondEnds, NoFiring, SameSaves
  <2> QED  BY <2>1, NoFiringKeeps
<1>5. CASE ScheduledDumpEnds
  <2>1. scheduler.pc = "dump" /\ scheduler'.pc \notin {"mark", "marking"}
    BY <1>1, <1>5 DEF ScheduledDumpEnds, Idle, Scheduler, Task
  <2>2. NoFiring  BY <1>5, <2>1 DEF ScheduledDumpEnds, NoFiring, SameSaves, Firing
  <2> QED  BY <2>2, NoFiringKeeps
<1>6. CASE Prune
  <2>1. scheduler.pc = "prune" /\ scheduler'.pc \notin {"mark", "marking"}
    BY <1>6 DEF Prune, Idle
  <2>2. NoFiring  BY <1>6, <2>1 DEF Prune, NoFiring, SameSaves, Firing
  <2> QED  BY <2>2, NoFiringKeeps
<1>7. CASE Tick
  <2>1. PICK n \in Occurrences : n = occurrence.latest /\ n > schedule.lastFired
    BY <1>1, <1>2, <1>7 DEF Tick, ShouldFire, Occurrences
  <2>2. scheduler'.pc = "mark" /\ scheduler'.timer = n /\ ~Firing /\ ~Editing
    BY <1>1, <1>7, <2>1 DEF Tick, Firing, Scheduler, Task, WatermarkSafe
  <2>3. \A o \in Occurrences : fired'[o] = IF o = n THEN fired[o] + 1 ELSE fired[o]
    BY <1>1, <1>7, <2>1 DEF Tick
  <2>4. schedule' = schedule /\ request' = request  BY <1>7 DEF Tick
  <2>5. \A o \in Occurrences : fired[o] > 0 => o <= schedule.lastFired  BY <2>2 DEF OnceInv
  <2>6. fired[n] = 0
    <3>1. ~(n <= schedule.lastFired)  BY <1>1, <2>1 DEF Occurrences
    <3> QED  BY <1>1, <2>5, <3>1
  <2>7. BackedUpOnce'
    <3>1. \A o \in Occurrences : fired[o] <= 1  BY DEF OnceInv, BackedUpOnce
    <3> QED  BY <2>3, <2>6, <3>1 DEF BackedUpOnce
  <2>8. \A o \in Occurrences : fired'[o] > 0 => o <= schedule.lastFired \/ o <= n
    BY <2>3, <2>5 DEF Occurrences
  <2>9. Firing' /\ ~Editing'  BY <2>2, <2>4 DEF Firing, Editing
  <2>10. \A r \in Requests : request'[r].pc # "save"  BY <2>2, <2>4 DEF Editing
  <2> QED  BY <2>1, <2>2, <2>4, <2>7, <2>8, <2>9, <2>10 DEF OnceInv
<1>8. CASE Mark
  <2>1. scheduler'.pc = "marking" /\ scheduler'.timer = scheduler.timer /\ Firing
    BY <1>1, <1>8 DEF Mark, Firing, Scheduler, Task
  <2>2. fired' = fired /\ schedule' = schedule /\ request' = request  BY <1>8 DEF Mark
  <2>3. Firing' /\ Editing' = Editing /\ BackedUpOnce' = BackedUpOnce
    BY <2>1, <2>2 DEF Firing, Editing, BackedUpOnce
  <2> QED  BY <2>1, <2>2, <2>3 DEF OnceInv
<1>9. CASE Marked
  <2>1. schedule' = [enabled |-> scheduler.enabled, lastFired |-> scheduler.timer]
    BY <1>3, <1>9 DEF Marked
  <2>2. schedule'.lastFired = scheduler.timer  BY <2>1
  <2>3. fired' = fired /\ request' = request /\ scheduler.pc = "marking"  BY <1>9 DEF Marked
  <2>4. scheduler'.pc = "dump"
    <3>1. \E d \in Name :
            scheduler' = [scheduler EXCEPT !.pc = "dump", !.dump = d, !.boot = boot]
      BY <1>9 DEF Marked
    <3> QED  BY <1>1, <3>1 DEF Scheduler, Task
  <2>5. Firing /\ ~Editing /\ scheduler.timer > schedule.lastFired  BY <2>3 DEF OnceInv, Firing
  <2>6. ~Firing'  BY <2>4 DEF Firing
  <2>7. \A o \in Occurrences : fired[o] > 0 => o <= schedule.lastFired \/ o <= scheduler.timer
    BY DEF OnceInv
  <2>8. \A o \in Occurrences : fired[o] > 0 => o <= scheduler.timer
    BY <1>1, <1>2, <2>5, <2>7 DEF Occurrences
  <2>9. \A r \in Requests : request'[r].pc # "save"  BY <2>3, <2>5 DEF Editing
  <2>10. BackedUpOnce'  BY <2>3 DEF OnceInv, BackedUpOnce
  <2> QED  BY <2>2, <2>3, <2>6, <2>8, <2>9, <2>10 DEF OnceInv
<1> QED  BY <1>4, <1>5, <1>6, <1>7, <1>8, <1>9 DEF Dumping

LEMMA OnceAsking ==
    ASSUME TypeOK, OnceInv, WatermarkSafe, NEW r \in Requests, Asking(r)
    PROVE  OnceInv'
<1>1. Idle.pc = "idle" /\ Idle.lastFired = 0  BY DEF Idle
<1>2. ASSUME UNCHANGED <<fired, schedule, scheduler, request>> PROVE OnceInv'
  <2>1. NoFiring  BY <1>2 DEF NoFiring, SameSaves
  <2> QED  BY <2>1, NoFiringKeeps
<1>3. ASSUME NEW new, new.pc # "save", request' = [request EXCEPT ![r] = new],
             UNCHANGED <<fired, schedule, scheduler>>
      PROVE  OnceInv'
  <2>1. SameSaves(Requests)  BY <1>3, OneRequest
  <2>2. NoFiring  BY <1>3, <2>1 DEF NoFiring
  <2> QED  BY <2>2, NoFiringKeeps
<1>4. CASE Backup(r)
  <2>0. PICK d \in Name :
          request' = [request EXCEPT ![r] = [Idle EXCEPT !.pc = "dump", !.dump = d, !.boot = boot]]
    BY <1>4 DEF Backup
  <2> DEFINE new == [Idle EXCEPT !.pc = "dump", !.dump = d, !.boot = boot]
  <2>1. new.pc # "save" /\ UNCHANGED <<fired, schedule, scheduler>>
    BY <1>4 DEF Idle, Backup
  <2>2. request' = [request EXCEPT ![r] = new]  BY <2>0
  <2> HIDE DEF new
  <2> QED  BY <1>3, <2>1, <2>2
<1>5. CASE BackupEnds(r)  BY <1>1, <1>3, <1>5 DEF BackupEnds, Answer
<1>6. CASE \E d \in Dumps : Delete(r, d)  BY <1>2, <1>6 DEF Delete
<1>7. CASE \E d \in Dumps : Restore(r, d)  BY <1>2, <1>7 DEF Restore, backups
<1>8. CASE Announce(r)
  <2>1. PICK t : t = CHOOSE u \in Unused : \A w \in Unused : u <= w  OBVIOUS
  <2> DEFINE new == [Idle EXCEPT !.pc = "arm", !.timer = t]
  <2>2. new.pc # "save"  BY DEF Idle
  <2>3. request' = [request EXCEPT ![r] = new] \/ UNCHANGED request
    BY <1>8, <2>1 DEF Announce
  <2> HIDE DEF new
  <2> QED  BY <1>2, <1>3, <1>8, <2>2, <2>3 DEF Announce, backups
<1>9. CASE Arm(r) \/ Retract(r)  BY <1>1, <1>3, <1>9 DEF Arm, Retract, Answer, backups
<1>10. CASE Cancel(r)
  <2> DEFINE new == [request[r] EXCEPT !.pc = "retract"]
  <2>1. new.pc # "save"  BY DEF TypeOK, Task
  <2>2. request' = [request EXCEPT ![r] = new]  BY <1>10 DEF Cancel, TypeOK
  <2> HIDE DEF new
  <2> QED  BY <1>3, <1>10, <2>1, <2>2 DEF Cancel, backups
<1>11. CASE Put(r)
  <2>1. ~Fault("load")  BY DEF WatermarkSafe, Fault
  <2>2. PICK body \in BOOLEAN :
          request' = [request EXCEPT ![r] = [Idle EXCEPT !.pc = "save", !.enabled = body,
                                                         !.lastFired = Watermark(schedule)]]
    BY <1>11, <2>1 DEF Put, Loaded
  <2> DEFINE new == [Idle EXCEPT !.pc = "save", !.enabled = body, !.lastFired = Watermark(schedule)]
  <2>3. new.lastFired = schedule.lastFired  BY DEF Idle, Watermark
  <2>4. request' = [request EXCEPT ![r] = new]  BY <2>2
  <2> HIDE DEF new
  <2>5. \A q \in Requests : request'[q] = IF q = r THEN new ELSE request[q]
    BY <2>4 DEF TypeOK
  <2>6. ~Firing  BY <1>11 DEF Put, WatermarkSafe
  <2>7. fired' = fired /\ schedule' = schedule /\ scheduler' = scheduler
    BY <1>11 DEF Put, backups
  <2>8. ~Firing' /\ BackedUpOnce'
    BY <2>6, <2>7 DEF Firing, OnceInv, BackedUpOnce
  <2> QED  BY <2>3, <2>5, <2>6, <2>7, <2>8 DEF OnceInv
<1>12. CASE PutSaved(r)
  <2>1. ~Fault("save")  BY DEF WatermarkSafe, Fault
  <2>2. schedule'.lastFired = request[r].lastFired /\ request[r].pc = "save"
    <3>1. schedule' = [enabled |-> request[r].enabled, lastFired |-> request[r].lastFired]
      BY <1>12, <2>1 DEF PutSaved
    <3> QED  BY <1>12, <3>1 DEF PutSaved
  <2>3. schedule'.lastFired = schedule.lastFired  BY <2>2 DEF OnceInv
  <2>4. fired' = fired /\ scheduler' = scheduler /\ request' = [request EXCEPT ![r] = Idle]
    BY <1>12 DEF PutSaved, Answer
  <2>5. SameSaves(Requests)  BY <1>1, <2>4, OneRequest
  <2>6. ~Firing  BY <2>2 DEF OnceInv, Editing
  <2>7. ~Firing' /\ BackedUpOnce'
    BY <2>4, <2>6 DEF Firing, OnceInv, BackedUpOnce
  <2> QED  BY <2>3, <2>4, <2>5, <2>6, <2>7 DEF OnceInv, SameSaves
<1> QED
  BY <1>4, <1>5, <1>6, <1>7, <1>8, <1>9, <1>10, <1>11, <1>12 DEF Asking

LEMMA OnceStep ==
    ASSUME TypeOK, OnceInv, WatermarkSafe, [Next]_vars PROVE OnceInv'
<1>1. ASSUME UNCHANGED <<fired, schedule, scheduler, request>> PROVE OnceInv'
  <2>1. NoFiring  BY <1>1 DEF NoFiring, SameSaves
  <2> QED  BY <2>1, NoFiringKeeps
<1> USE DEF backups
<1>2. CASE Restoring
  BY <1>1, <1>2 DEF Restoring, Check, StopShards, OpenFile, RestoreEnds
<1>3. ASSUME NEW verb \in {"start", "stop", "restart"}, Command(verb) PROVE OnceInv'
  BY <1>1, <1>3 DEF Command
<1>4. ASSUME NEW t \in Timers, Expire(t) \/ Fire(t) PROVE OnceInv'
  BY <1>1, <1>4 DEF Expire, Fire
<1>5. ASSUME NEW u \in Updates,
             Update(u) \/ UpdateRuns(u) \/ UpdateOver(u) \/ Poll(u) \/ WatcherRestarts(u)
      PROVE  OnceInv'
  BY <1>1, <1>5 DEF Update, UpdateRuns, UpdateOver, Poll, WatcherRestarts
<1>6. CASE UNCHANGED vars  BY <1>1, <1>6 DEF vars
<1> QED  BY <1>2, <1>3, <1>4, <1>5, <1>6, OnceDumping, OnceAsking DEF Next

\* When a PUT of the schedule and a firing do not overlap and the schedule's
\* row can be read and written, each occurrence is dumped once, and the
\* retention keeps what it should.
THEOREM BackupsKept == WatermarkSafe => (Spec => []BackupsSound)
<1>1. ASSUME WatermarkSafe PROVE Spec => []BackupsSound
  <2>1. TypeOK /\ OnceInv /\ [Next]_vars => OnceInv'  BY <1>1, OnceStep
  <2>2. OnceInv /\ NewestKept => BackupsSound  BY DEF OnceInv, BackupsSound
  <2> QED  BY <2>1, <2>2, OnceInit, RetentionKept, TypeCorrect, PTL DEF Spec
<1> QED  BY <1>1

-----------------------------------------------------------------------------
(* The update watcher                                                      *)

\* The assumption: AMP runs nothing but one update at a time.  A watcher only
\* counts the running tasks, so the task of another would pass for its own.
OneUpdate == MaxUpdates <= 1 /\ OtherTasks = FALSE

\* A watcher that has seen a task has seen its own, which runs or has ended.
WatcherInv ==
    /\ \A u \in Updates : watcher[u].seen => task[u] \in {"running", "over", "cut"}
    /\ UpdateNotCut

LEMMA WatcherInit == Init => WatcherInv
<1> SUFFICES ASSUME Init PROVE WatcherInv  OBVIOUS
<1>1. \A u \in Updates : watcher[u].pc = "none" /\ watcher[u].seen = FALSE  BY DEF Init
<1> QED  BY <1>1 DEF WatcherInv, UpdateNotCut

\* A step that leaves the watchers alone and moves no task back.
LEMMA WatcherUntouched ==
    ASSUME WatcherInv, watcher' = watcher,
           \A u \in Updates : \/ task'[u] = task[u]
                              \/ task[u] = "queued" /\ task'[u] = "running"
                              \/ task[u] \in {"queued", "running"} /\ task'[u] = "cut"
                              \/ task[u] = "running" /\ task'[u] = "over"
    PROVE  WatcherInv'
<1>1. UpdateNotCut'  BY DEF WatcherInv, UpdateNotCut
<1> QED  BY <1>1 DEF WatcherInv

LEMMA CutsOnly ==
    ASSUME TypeOK, Cuts \/ UNCHANGED task, NEW u \in Updates
    PROVE  \/ task'[u] = task[u]
           \/ task[u] \in {"queued", "running"} /\ task'[u] = "cut"
  BY DEF Cuts, TypeOK

LEMMA WatcherPoll ==
    ASSUME TypeOK, WatcherInv, OneUpdate, NEW u \in Updates, Poll(u)
    PROVE  WatcherInv'
<1> DEFINE running == {v \in Updates : task[v] = "running"}
<1>1. /\ Updates = {u} /\ IsFiniteSet(Updates)
  <2>1. MaxUpdates \in Nat /\ MaxUpdates <= 1 /\ u \in 1..MaxUpdates
    BY NumberTypes DEF Numbers, OneUpdate, Updates
  <2>2. MaxUpdates = 1 /\ u = 1  BY <2>1
  <2>3. Updates = {u}  BY <2>2 DEF Updates
  <2> QED  BY <2>3, FS_Singleton
<1>2. IsFiniteSet(running) /\ Cardinality(running) \in Nat
  BY <1>1, FS_Subset, FS_CardinalityType
<1>3. Cardinality(running) = 0 <=> task[u] # "running"
  <2>1. Cardinality(running) = 0 <=> running = {}  BY <1>2, FS_EmptySet
  <2> QED  BY <1>1, <2>1
<1>4. \A n \in RunningTasks : n = 0 <=> task[u] # "running"
  BY <1>3 DEF RunningTasks, OneUpdate
<1>5. RunningTasks \subseteq Nat  BY DEF RunningTasks
<1>6. PICK ok \in BOOLEAN, n \in RunningTasks :
        LET w == IF ok THEN Polled(watcher[u], n) ELSE watcher[u]
            ends == (ok /\ Cleared(w, n)) \/ GivesUp(w)
        IN  watcher' = [watcher EXCEPT ![u] =
              IF ends THEN [w EXCEPT !.pc = "restart"] ELSE [w EXCEPT !.polls = IF @ < Cap THEN @ + 1 ELSE @]]
  BY DEF Poll
<1> DEFINE w == IF ok THEN Polled(watcher[u], n) ELSE watcher[u]
           ends == (ok /\ Cleared(w, n)) \/ GivesUp(w)
           new == IF ends THEN [w EXCEPT !.pc = "restart"]
                  ELSE [w EXCEPT !.polls = IF @ < Cap THEN @ + 1 ELSE @]
<1> DEFINE Watcher == [pc : {"none", "poll", "restart", "done"}, seen : BOOLEAN, polls : Nat]
<1>7. watcher[u] \in Watcher /\ watcher[u].pc = "poll"  BY DEF TypeOK, Poll
<1>8. w \in Watcher /\ w.pc = "poll"  BY <1>7 DEF Polled
<1>9. w.seen => watcher[u].seen \/ n > 0  BY <1>7 DEF Polled
<1> HIDE DEF w
<1>10. w.seen => task[u] \in {"running", "over", "cut"}
  <2>1. watcher[u].seen => task[u] \in {"running", "over", "cut"}  BY DEF WatcherInv
  <2>2. n > 0 => task[u] = "running"  BY <1>4, <1>5
  <2> QED  BY <1>9, <2>1, <2>2
<1>11. ends /\ task[u] \in {"queued", "running"} =>
         w.polls >= (IF w.seen THEN Cap ELSE Grace)
  <2> SUFFICES ASSUME ends, task[u] \in {"queued", "running"}
               PROVE  w.polls >= (IF w.seen THEN Cap ELSE Grace)
    OBVIOUS
  <2>1. ~Cleared(w, n)  BY <1>4, <1>10 DEF Cleared
  <2>2. GivesUp(w)  BY <2>1
  <2>3. Grace \in Nat /\ Cap \in Nat /\ Grace <= Cap /\ w.polls \in Nat
    BY <1>8, BoundAssumption DEF BoundAssumption
  <2> QED  BY <2>2, <2>3 DEF GivesUp
<1>12. new.seen = w.seen /\ (new.pc = "restart" <=> ends) /\ (ends => new.polls = w.polls)
  BY <1>8
<1>13. watcher' = [watcher EXCEPT ![u] = new]  BY <1>6 DEF w
<1> HIDE DEF new
<1>14. watcher'[u] = new /\ task' = task  BY <1>13 DEF TypeOK, Poll
<1>15. \A v \in Updates : v = u  BY <1>1
<1>16. UpdateNotCut'
  BY <1>11, <1>12, <1>14, <1>15 DEF UpdateNotCut
<1> QED  BY <1>10, <1>12, <1>14, <1>15, <1>16 DEF WatcherInv

LEMMA WatcherStep ==
    ASSUME TypeOK, WatcherInv, OneUpdate, [Next]_vars
    PROVE  WatcherInv'
<1> USE DEF updates
<1>1. ASSUME UNCHANGED updates PROVE WatcherInv'  BY <1>1, WatcherUntouched
<1>2. ASSUME watcher' = watcher, Cuts \/ UNCHANGED task PROVE WatcherInv'
  BY <1>2, CutsOnly, WatcherUntouched
<1>3. \A verb \in {"start", "stop", "restart"} : Execute(verb) => Cuts \/ UNCHANGED task
  BY DEF Execute, Start, Stop, Restart
<1>4. CASE Dumping
  BY <1>1, <1>4 DEF Dumping, Occurs, GraceEnds, SecondEnds, Tick, Mark, Marked, ScheduledDumpEnds, Prune
<1>5. CASE Restoring
  BY <1>1, <1>5 DEF Restoring, Check, StopShards, OpenFile, RestoreEnds
<1>6. ASSUME NEW r \in Requests, Asking(r) PROVE WatcherInv'
  BY <1>1, <1>6 DEF Asking, Backup, BackupEnds, Put, PutSaved, Announce, Arm, Cancel, Retract,
                   Delete, Restore
<1>7. ASSUME NEW verb \in {"start", "stop", "restart"}, Command(verb) PROVE WatcherInv'
  BY <1>2, <1>3, <1>7 DEF Command
<1>8. ASSUME NEW t \in Timers, Expire(t) \/ Fire(t) PROVE WatcherInv'
  BY <1>1, <1>2, <1>3, <1>8 DEF Expire, Fire
<1>9. ASSUME NEW u \in Updates, Update(u) PROVE WatcherInv'
  <2>1. task[u] = "none"  BY <1>9 DEF Update, NewUpdate
  <2>2. watcher[u].seen # TRUE  BY <2>1 DEF WatcherInv
  <2>3. /\ \A v \in Updates : task'[v] = IF v = u THEN "queued" ELSE task[v]
        /\ \A v \in Updates : v # u => watcher'[v] = watcher[v]
        /\ watcher'[u].pc = "poll" /\ watcher'[u].seen = watcher[u].seen
    BY <1>9 DEF Update, TypeOK
  <2>4. watcher[u].seen \in BOOLEAN  BY DEF TypeOK
  <2>5. UpdateNotCut'  BY <2>3 DEF WatcherInv, UpdateNotCut
  <2> QED  BY <2>2, <2>3, <2>4, <2>5 DEF WatcherInv
<1>10. ASSUME NEW u \in Updates, UpdateRuns(u) \/ UpdateOver(u) PROVE WatcherInv'
  <2>1. watcher' = watcher  BY <1>10 DEF UpdateRuns, UpdateOver
  <2>2. \A v \in Updates : \/ task'[v] = task[v]
                           \/ task[v] = "queued" /\ task'[v] = "running"
                           \/ task[v] = "running" /\ task'[v] = "over"
    BY <1>10 DEF UpdateRuns, UpdateOver, TypeOK
  <2> QED  BY <2>1, <2>2, WatcherUntouched
<1>11. ASSUME NEW u \in Updates, WatcherRestarts(u) PROVE WatcherInv'
  <2>1. \A v \in Updates : \/ task'[v] = task[v]
                           \/ task[v] \in {"queued", "running"} /\ task'[v] = "cut"
    BY <1>11, CutsOnly DEF WatcherRestarts, Restart
  <2>2. /\ \A v \in Updates : v # u => watcher'[v] = watcher[v]
        /\ watcher'[u].pc = "done" /\ watcher'[u].seen = watcher[u].seen
    BY <1>11 DEF WatcherRestarts, TypeOK
  <2>3. \A v \in Updates : watcher'[v].seen = watcher[v].seen  BY <2>2
  <2>4. \A v \in Updates : watcher'[v].seen => task'[v] \in {"running", "over", "cut"}
    BY <2>1, <2>3 DEF WatcherInv
  <2>5. UpdateNotCut'  BY <2>1, <2>2 DEF WatcherInv, UpdateNotCut
  <2> QED  BY <2>4, <2>5 DEF WatcherInv
<1>12. CASE UNCHANGED vars  BY <1>1, <1>12 DEF vars
<1> QED
  BY <1>4, <1>5, <1>6, <1>7, <1>8, <1>9, <1>10, <1>11, <1>12, WatcherPoll DEF Next

\* The safety half of UpdateHandled: while AMP runs nothing but one update at a
\* time, the container is not cycled under an update before the watcher gave up
\* waiting for it, after the grace or after the cap.
THEOREM UpdateLeftToEnd == OneUpdate => (Spec => []UpdateNotCut)
<1>1. ASSUME OneUpdate PROVE Spec => []UpdateNotCut
  <2>1. TypeOK /\ WatcherInv /\ [Next]_vars => WatcherInv'  BY <1>1, WatcherStep
  <2>2. WatcherInv => UpdateNotCut  BY DEF WatcherInv
  <2> QED  BY <2>1, <2>2, WatcherInit, TypeCorrect, PTL DEF Spec
<1> QED  BY <1>1
=============================================================================
