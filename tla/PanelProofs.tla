------------------------------ MODULE PanelProofs ------------------------------
(***************************************************************************)
(* Theorems about the panel, for every value of the constants.  The parts  *)
(* take turns, so a theorem about one of them is about its own steps.      *)
(***************************************************************************)
EXTENDS Panel, FiniteSetTheorems, SequenceTheorems, WellFoundedInduction, TLAPS

-----------------------------------------------------------------------------
(* Access: types                                                           *)

Sheet == [enabled : BOOLEAN, guest : BOOLEAN, discord : BOOLEAN,
          owners : SUBSET AccessRoles, password : Int]
Matrix == SUBSET (Doors!Rows \X Doors!Caps)
Snapshot == [in : BOOLEAN, roles : SUBSET AccessRoles]
Past == [in : BOOLEAN, roles : SUBSET AccessRoles, owner : BOOLEAN]
Ages == 0..(MaxAge - 1)

\* The holder of a local session is the configured admin or a stored user.
DiscordSession == [way : {"discord"}, who : Members, owner : BOOLEAN,
                   roles : SUBSET AccessRoles, age : 0..MaxAge, stale : BOOLEAN]
AdminSession == {Doors!Session("local", Doors!Admin, TRUE, {})}
UserSession == {Doors!Session("local", u, FALSE, {}) : u \in AccessUsers}
GuestSession == {Doors!Session("guest", "guest", FALSE, {})}
Cookie == {Doors!NoSession} \cup DiscordSession \cup AdminSession \cup UserSession
              \cup GuestSession

LEMMA CookieWay ==
    ASSUME NEW s \in Cookie
    PROVE  /\ s.way = "discord" <=> s \in DiscordSession
           /\ s.way = "none" <=> s = Doors!NoSession
           /\ s.way = "local" <=> s \in AdminSession \cup UserSession
           /\ s.way = "guest" <=> s \in GuestSession
<1>1. \A x \in DiscordSession : x.way = "discord"  BY DEF DiscordSession
<1>2. \A x \in AdminSession \cup UserSession : x.way = "local"
  BY DEF AdminSession, UserSession, Doors!Session
<1>3. \A x \in GuestSession : x.way = "guest"  BY DEF GuestSession, Doors!Session
<1>4. Doors!NoSession.way = "none"  BY DEF Doors!NoSession
<1> QED  BY <1>1, <1>2, <1>3, <1>4 DEF Cookie

Doing ==
    {Doors!Idle}
    \cup [op : {"put"}, matrix : Matrix]
    \cup [op : {"save", "apply"}, form : Sheet, new : BOOLEAN]
    \cup [op : {"finish"}, new : BOOLEAN, toggled : BOOLEAN, matrix : Matrix, loads : BOOLEAN]

AccessTypes ==
    /\ aUp \in BOOLEAN
    /\ aStore \in Sheet /\ aConfig \in Sheet
    /\ aRows \in Matrix /\ aMatrix \in Matrix /\ aGranted \in Matrix
    /\ aKeyed \in BOOLEAN /\ aWired \in BOOLEAN /\ aUnread \in BOOLEAN
    /\ aStanding \in [Members -> Snapshot]
    /\ aSeen \in [Members -> [Ages -> SUBSET Past]]
    /\ aCookies \in [Browsers -> Cookie]
    /\ aDoing \in [Browsers -> Doing]
    /\ aEdits \in Int

AccessBounded == Doors!Bounded
LEMMA AccessBounds == MaxAge \in Nat /\ MaxAge > 0 /\ 0 \in Ages
BY PanelAssumption DEF Doors!Bounded, Ages

LEMMA SeededType == Doors!Seeded \in Matrix /\ Doors!Seeded # {}
BY <<"default", "read">> \in Doors!Seeded
   DEF Doors!Seeded, Matrix, Doors!Rows, Doors!Caps, Doors!DefaultSeeds

LEMMA InitAccessTypes == Doors!Init => AccessTypes
<1> SUFFICES ASSUME Doors!Init PROVE AccessTypes  OBVIOUS
<1>1. aStore \in Sheet /\ aConfig \in Sheet  BY DEF Doors!Init, Sheet
<1>2. aStanding \in [Members -> Snapshot]  BY DEF Doors!Init, Snapshot
<1>3. \A m \in Members : Doors!Standing(m) \in Past
  BY <1>1, <1>2 DEF Doors!Standing, Doors!Owns, Past, Snapshot
<1>4. aSeen \in [Members -> [Ages -> SUBSET Past]]  BY <1>3 DEF Doors!Init, Ages
<1>5. aCookies \in [Browsers -> Cookie]  BY DEF Doors!Init, Cookie
<1>6. aDoing \in [Browsers -> Doing]  BY DEF Doors!Init, Doing
<1>7. aRows \in Matrix /\ aMatrix \in Matrix /\ aGranted \in Matrix
  BY SeededType DEF Doors!Init
<1>8. aUp \in BOOLEAN /\ aKeyed \in BOOLEAN /\ aWired \in BOOLEAN /\ aUnread \in BOOLEAN
  BY DEF Doors!Init
<1>9. aEdits \in Int  BY DEF Doors!Init
<1> QED  BY <1>1, <1>2, <1>4, <1>5, <1>6, <1>7, <1>8, <1>9 DEF AccessTypes

-----------------------------------------------------------------------------
(* Access: the records that are made                                       *)

LEMMA NotedType ==
    ASSUME AccessTypes, NEW c \in Sheet, NEW st \in [Members -> Snapshot],
           Doors!Note(c, st)
    PROVE  /\ aSeen' \in [Members -> [Ages -> SUBSET Past]]
           /\ \A m \in Members, a \in Ages : aSeen[m][a] \subseteq aSeen'[m][a]
           /\ \A m \in Members :
                [in |-> st[m].in, roles |-> st[m].roles,
                 owner |-> m = GuildOwner \/ st[m].roles \cap c.owners # {}] \in aSeen'[m][0]
<1> DEFINE new(m) == [in |-> st[m].in, roles |-> st[m].roles,
                      owner |-> m = GuildOwner \/ st[m].roles \cap c.owners # {}]
<1>1. \A m \in Members : new(m) \in Past  BY DEF Past, Snapshot
<1>2. aSeen' = [m \in Members |-> [aSeen[m] EXCEPT ![0] = @ \cup {new(m)}]]
  BY DEF Doors!Note
<1> HIDE DEF new
<1>3. aSeen \in [Members -> [Ages -> SUBSET Past]]  BY DEF AccessTypes
<1>4. \A m \in Members : new(m) \in aSeen'[m][0]  BY <1>2, <1>3, AccessBounds
<1> QED  BY <1>1, <1>2, <1>3, <1>4, AccessBounds DEF new

LEMMA FormType == ASSUME AccessTypes, NEW form \in Doors!Forms PROVE form \in Sheet
<1> DEFINE shown == [aConfig EXCEPT !.password = Doors!Masked]
<1>0. shown \in Sheet  BY DEF Doors!Masked, AccessTypes, Sheet
<1>2. \/ form \in {[shown EXCEPT !.enabled = ~@], [shown EXCEPT !.guest = ~@],
                  [shown EXCEPT !.discord = ~@], [shown EXCEPT !.password = aEdits + 2]}
      \/ \E o \in SUBSET AccessRoles : form = [shown EXCEPT !.owners = o]
  BY DEF Doors!Forms
<1>3. aEdits + 2 \in Int  BY DEF AccessTypes
<1> HIDE DEF shown
<1> QED  BY <1>0, <1>2, <1>3 DEF Sheet

LEMMA RestoredType ==
    ASSUME AccessTypes, NEW form \in Doors!Forms
    PROVE  Doors!Restored(form) \in Sheet
BY FormType DEF Doors!Restored, AccessTypes, Sheet

LEMMA LoadedType == AccessTypes => Doors!Loaded \in Matrix /\ Doors!Loaded # {}
BY SeededType DEF AccessTypes, Doors!Loaded

LEMMA RefreshedType ==
    ASSUME AccessTypes, NEW b \in Browsers, NEW s \in Doors!Refreshed(aCookies[b])
    PROVE  s \in Cookie
<1>1. aCookies[b] \in Cookie  BY DEF AccessTypes
<1>2. CASE aCookies[b].way = "discord"
  <2>1. aCookies[b] \in DiscordSession  BY <1>1, <1>2, CookieWay
  <2>2. [aCookies[b] EXCEPT !.stale = TRUE] \in DiscordSession  BY <2>1 DEF DiscordSession
  <2>3. \A known \in BOOLEAN :
            Doors!Session("discord", aCookies[b].who,
                          Doors!Owns(aCookies[b].who, aStanding[aCookies[b].who].roles, known),
                          aStanding[aCookies[b].who].roles) \in DiscordSession
    BY <2>1, AccessBounds DEF DiscordSession, Doors!Session, Doors!Owns, AccessTypes, Snapshot
  <2>4. \/ s = aCookies[b]
        \/ s = [aCookies[b] EXCEPT !.stale = TRUE]
        \/ s = Doors!NoSession
        \/ \E known \in BOOLEAN :
             s = Doors!Session("discord", aCookies[b].who,
                          Doors!Owns(aCookies[b].who, aStanding[aCookies[b].who].roles, known),
                          aStanding[aCookies[b].who].roles)
    BY DEF Doors!Refreshed
  <2> QED  BY <1>1, <2>2, <2>3, <2>4 DEF Cookie
<1>3. CASE aCookies[b].way # "discord"  BY <1>1, <1>3 DEF Doors!Refreshed
<1> QED  BY <1>2, <1>3

LEMMA NotedTypes ==
    ASSUME AccessTypes, NEW c \in Sheet, NEW st \in [Members -> Snapshot],
           Doors!Note(c, st)
    PROVE  aSeen' \in [Members -> [Ages -> SUBSET Past]]
BY NotedType

\* A step of Access, without the parts that only watch.
LEMMA StepAccessTypes == AccessTypes /\ [Doors!Next]_(Doors!vars) => AccessTypes'
<1> SUFFICES ASSUME AccessTypes, [Doors!Next]_(Doors!vars) PROVE AccessTypes'  OBVIOUS
<1> USE DEF AccessTypes
<1>1. CASE UNCHANGED Doors!vars  BY <1>1 DEF Doors!vars
<1>2. ASSUME NEW b \in Browsers, NEW s \in Cookie, Doors!SignIn(b, s) PROVE AccessTypes'
  BY <1>2 DEF Doors!SignIn
<1>3. ASSUME NEW b \in Browsers, Doors!Login(b) PROVE AccessTypes'
  <2>1. Doors!Session("local", Doors!Admin, TRUE, {}) \in Cookie
    BY DEF Cookie, AdminSession
  <2>2. \A u \in AccessUsers : Doors!Session("local", u, FALSE, {}) \in Cookie
    BY DEF Cookie, UserSession
  <2> QED  BY <1>2, <1>3, <2>1, <2>2 DEF Doors!Login
<1>4. ASSUME NEW b \in Browsers, Doors!Guest(b) PROVE AccessTypes'
  <2>1. Doors!Session("guest", "guest", FALSE, {}) \in Cookie  BY DEF Cookie, GuestSession
  <2> QED  BY <1>2, <1>4, <2>1 DEF Doors!Guest
<1>5. ASSUME NEW b \in Browsers, NEW m \in Members, Doors!Callback(b, m) PROVE AccessTypes'
  <2>1. \A known \in BOOLEAN :
          Doors!Session("discord", m, Doors!Owns(m, aStanding[m].roles, known),
                        aStanding[m].roles) \in Cookie
    BY AccessBounds DEF Cookie, DiscordSession, Doors!Session, Doors!Owns, Snapshot
  <2> QED  BY <1>2, <1>5, <2>1 DEF Doors!Callback
<1>6. ASSUME NEW b \in Browsers, Doors!Leave(b) PROVE AccessTypes'
  <2>1. Doors!NoSession \in Cookie  BY DEF Cookie
  <2> QED  BY <1>6, <2>1 DEF Doors!Leave
<1>7. ASSUME NEW b \in Browsers, NEW route \in DOMAIN Doors!Needs, Doors!Request(b, route)
      PROVE  AccessTypes'
  <2>1. PICK s \in Doors!Refreshed(aCookies[b]) : aCookies' = [aCookies EXCEPT ![b] = s]
    BY <1>7 DEF Doors!Request
  <2>2. s \in Cookie  BY <2>1, RefreshedType
  <2> QED  BY <1>7, <2>1, <2>2 DEF Doors!Request
<1>8. ASSUME NEW b \in Browsers, NEW m \in Doors!Toggled(aMatrix), Doors!PutMatrix(b, m)
      PROVE  AccessTypes'
  <2>1. m \in Matrix  BY DEF Doors!Toggled, Matrix
  <2>2. [op |-> "put", matrix |-> m] \in Doing  BY <2>1 DEF Doing
  <2> QED
    BY <1>8, <2>1, <2>2 DEF Doors!PutMatrix, Doors!Edit, Doors!memory, Doors!ghosts
<1>9. ASSUME NEW b \in Browsers, Doors!SetMatrix(b) PROVE AccessTypes'
  <2>1. aDoing[b].matrix \in Matrix  BY <1>9 DEF Doors!SetMatrix, Doing, Doors!Idle
  <2> QED  BY <1>9, <2>1 DEF Doors!SetMatrix, Doing
<1>10. ASSUME NEW b \in Browsers, NEW u \in AccessUsers,
              Doors!DeleteUser(b, u) \/ \E e \in BOOLEAN, c \in SUBSET Doors!Caps : Doors!PutUser(b, u, e, c)
       PROVE  AccessTypes'
  BY <1>10 DEF Doors!DeleteUser, Doors!PutUser, Doors!Edit, Doors!memory, Doors!ghosts
<1>11. ASSUME NEW b \in Browsers, NEW form \in Doors!Forms, Doors!BeginSave(b, form)
       PROVE  AccessTypes'
  <2>1. [op |-> "save", form |-> Doors!Restored(form), new |-> form.password # Doors!Masked] \in Doing
    BY RestoredType DEF Doing
  <2> QED
    BY <1>11, <2>1 DEF Doors!BeginSave, Doors!Edit, Doors!memory, Doors!ghosts
<1>12. ASSUME NEW b \in Browsers, Doors!StoreSave(b) PROVE AccessTypes'
  <2>1. aDoing[b] \in [op : {"save", "apply"}, form : Sheet, new : BOOLEAN]
    BY <1>12 DEF Doors!StoreSave, Doing, Doors!Idle
  <2>2. [aDoing[b] EXCEPT !.op = "apply"] \in Doing  BY <2>1 DEF Doing
  <2>3. Doors!Idle \in Doing  BY DEF Doing
  <2>4. aStore' \in Sheet  BY <1>12, <2>1 DEF Doors!StoreSave
  <2>5. aDoing' \in [Browsers -> Doing]  BY <1>12, <2>2, <2>3 DEF Doors!StoreSave
  <2> QED  BY <1>12, <2>4, <2>5 DEF Doors!StoreSave, Doors!memory
<1>13. ASSUME NEW b \in Browsers, Doors!ApplySave(b) PROVE AccessTypes'
  <2>1. aDoing[b] \in [op : {"save", "apply"}, form : Sheet, new : BOOLEAN]
    BY <1>13 DEF Doors!ApplySave, Doing, Doors!Idle
  <2>2. aConfig' \in Sheet  BY <1>13, <2>1 DEF Doors!ApplySave
  <2>3. aSeen' \in [Members -> [Ages -> SUBSET Past]]
    BY <1>13, <2>2, NotedTypes DEF Doors!ApplySave
  <2>4. PICK read \in BOOLEAN :
          /\ aRows' = IF aConfig'.enabled /\ read THEN Doors!Loaded ELSE aRows
          /\ aDoing' = [aDoing EXCEPT ![b] =
                [op |-> "finish", new |-> aDoing[b].new,
                 toggled |-> aConfig.enabled # aConfig'.enabled,
                 matrix |-> IF aConfig'.enabled /\ read THEN Doors!Loaded ELSE aMatrix,
                 loads |-> aConfig'.enabled /\ read]]
    BY <1>13 DEF Doors!ApplySave
  <2>5. aRows' \in Matrix  BY <2>4, LoadedType
  <2>6. aDoing' \in [Browsers -> Doing]
    <3>1. [op |-> "finish", new |-> aDoing[b].new,
           toggled |-> aConfig.enabled # aConfig'.enabled,
           matrix |-> IF aConfig'.enabled /\ read THEN Doors!Loaded ELSE aMatrix,
           loads |-> aConfig'.enabled /\ read] \in Doing
      BY <2>1, <2>2, LoadedType DEF Doing, Sheet
    <3> QED  BY <2>4, <3>1
  <2>7. aKeyed' \in BOOLEAN  BY <1>13, <2>2 DEF Doors!ApplySave, Sheet
  <2> QED  BY <1>13, <2>2, <2>3, <2>5, <2>6, <2>7 DEF Doors!ApplySave
<1>14. ASSUME NEW b \in Browsers, Doors!FinishSave(b) PROVE AccessTypes'
  <2>1. aDoing[b] \in [op : {"finish"}, new : BOOLEAN, toggled : BOOLEAN, matrix : Matrix,
                       loads : BOOLEAN]
    BY <1>14 DEF Doors!FinishSave, Doing, Doors!Idle
  <2>2. Doors!Idle \in Doing /\ Doors!NoSession \in Cookie  BY DEF Doing, Cookie
  <2>3. aMatrix' \in Matrix /\ aUnread' \in BOOLEAN  BY <1>14, <2>1 DEF Doors!FinishSave
  <2>4. aWired' \in BOOLEAN  BY <1>14 DEF Doors!FinishSave, Sheet
  <2>5. aCookies' \in [Browsers -> Cookie] /\ aDoing' \in [Browsers -> Doing]
    BY <1>14, <2>2 DEF Doors!FinishSave
  <2> QED  BY <1>14, <2>3, <2>4, <2>5 DEF Doors!FinishSave
<1>15. CASE Doors!Stop
  <2>1. aDoing' \in [Browsers -> Doing]  BY <1>15 DEF Doors!Stop, Doing
  <2>2. aMatrix' \in Matrix /\ aGranted' \in Matrix  BY <1>15 DEF Doors!Stop, Matrix
  <2> QED  BY <1>15, <2>1, <2>2 DEF Doors!Stop
<1>16. CASE Doors!Start
  <2>1. aSeen' \in [Members -> [Ages -> SUBSET Past]]
    BY <1>16, NotedTypes DEF Doors!Start
  <2>2. aConfig' \in Sheet /\ aKeyed' \in BOOLEAN /\ aWired' \in BOOLEAN
    BY <1>16 DEF Doors!Start, Sheet
  <2>3. PICK read \in BOOLEAN :
          /\ aRows' = IF aStore.enabled /\ read THEN Doors!Loaded ELSE aRows
          /\ aMatrix' = IF aStore.enabled /\ read THEN Doors!Loaded ELSE {}
          /\ aUnread' = ~(aStore.enabled /\ read)
    BY <1>16 DEF Doors!Start
  <2>4. aRows' \in Matrix /\ aMatrix' \in Matrix /\ aUnread' \in BOOLEAN
    BY <2>3, LoadedType DEF Matrix
  <2> QED  BY <1>16, <2>1, <2>2, <2>4 DEF Doors!Start
<1>17. CASE Doors!SetPassword
  <2>1. aStore' \in Sheet  BY <1>17 DEF Doors!SetPassword, Sheet
  <2> QED  BY <1>17, <2>1 DEF Doors!SetPassword, Doors!Edit, Doors!memory
<1>18. CASE Doors!Tick
  <2>1. aCookies' \in [Browsers -> Cookie]
    <3>1. ASSUME NEW b \in Browsers, aCookies[b].way = "discord", aCookies[b].age < MaxAge
          PROVE  [aCookies[b] EXCEPT !.age = @ + 1] \in Cookie
      <4>1. aCookies[b] \in DiscordSession  BY <3>1, CookieWay
      <4>2. [aCookies[b] EXCEPT !.age = @ + 1] \in DiscordSession
        <5>1. aCookies[b].age + 1 \in 0..MaxAge
          BY <3>1, <4>1, AccessBounds DEF DiscordSession
        <5> QED  BY <4>1, <5>1 DEF DiscordSession
      <4> QED  BY <4>2 DEF Cookie
    <3> QED  BY <1>18, <3>1 DEF Doors!Tick
  <2>2. aSeen' \in [Members -> [Ages -> SUBSET Past]]
    <3>1. \A m \in Members : Doors!Standing(m) \in Past
      BY DEF Doors!Standing, Doors!Owns, Past, Snapshot
    <3>2. aSeen' = [m \in Members |-> [a \in Ages |->
             IF a = 0 THEN {Doors!Standing(m)} ELSE aSeen[m][a - 1]]]
      BY <1>18 DEF Doors!Tick, Ages
    <3>3. \A a \in Ages : a # 0 => a - 1 \in Ages  BY AccessBounds DEF Ages
    <3> QED  BY <3>1, <3>2, <3>3
  <2> QED  BY <1>18, <2>1, <2>2 DEF Doors!Tick, Doors!memory
<1>19. ASSUME NEW m \in Members, NEW st \in Snapshot, Doors!Change(m, st)
       PROVE  AccessTypes'
  <2>1. aStanding' \in [Members -> Snapshot]  BY <1>19 DEF Doors!Change
  <2>2. aSeen' \in [Members -> [Ages -> SUBSET Past]]
    BY <1>19, <2>1, NotedTypes DEF Doors!Change
  <2> QED  BY <1>19, <2>1, <2>2 DEF Doors!Change, Doors!Edit, Doors!memory
<1>20. \A i \in BOOLEAN, r \in SUBSET AccessRoles : [in |-> i, roles |-> r] \in Snapshot
  BY DEF Snapshot
<1> HIDE DEF AccessTypes
<1> QED
  BY <1>1, <1>3, <1>4, <1>5, <1>6, <1>7, <1>8, <1>9, <1>10, <1>11, <1>12, <1>13, <1>14,
     <1>15, <1>16, <1>17, <1>18, <1>19, <1>20 DEF Doors!Next

-----------------------------------------------------------------------------
(* Access: the matrix and the password                                     *)

\* Changes take turns, and nothing is saved from the command line beside a
\* running server; a matrix that grants nothing is not saved (it would be seeded
\* again); the guild's owner can be looked up; no stored user has the configured
\* admin's name.
AccessHypothesis ==
    /\ {"saves", "cli"} \cap AccessRaces = {}
    /\ ~MayClear
    /\ "owner" \notin AccessFaults
    /\ Doors!Admin \notin AccessUsers

Busy(b) == aDoing[b] # Doors!Idle

\* One change is under way at most.
TakesTurns ==
    /\ \A b, c \in Browsers : Busy(b) /\ Busy(c) => b = c
    /\ ~aUp => \A b \in Browsers : ~Busy(b)

\* The rows and the memory follow what was acknowledged; memory may lack it while
\* the process is down or after a load that failed.
MatrixInv ==
    /\ aGranted # {}
    /\ (\A b \in Browsers : aDoing[b].op # "put") => aRows = aGranted
    /\ \A b \in Browsers : /\ aDoing[b].op = "put" => aDoing[b].matrix = aRows /\ aRows # {}
                           /\ aDoing[b].op = "finish" =>
                                /\ aDoing[b].loads => aDoing[b].matrix = aGranted
    /\ aMatrix \in {{}, aGranted}
    /\ aUp /\ ~aUnread => aMatrix = aGranted

PasswordInv ==
    /\ (\A b \in Browsers : ~Busy(b)) => /\ aStore.password \in aPromised
                                         /\ aUp => aConfig.password \in aPromised
    /\ \A b \in Browsers :
         /\ aDoing[b].op \in {"put", "save"} => /\ aStore.password \in aPromised
                                                /\ aConfig.password \in aPromised
         /\ aDoing[b].op = "apply" => aStore = aDoing[b].form
         /\ aDoing[b].op = "finish" => aStore.password = aConfig.password
         /\ aDoing[b].op \in {"save", "apply"} /\ ~aDoing[b].new =>
                aDoing[b].form.password \in aPromised
         /\ aDoing[b].op = "finish" /\ ~aDoing[b].new => aConfig.password \in aPromised

DataInv == TakesTurns /\ MatrixInv /\ PasswordInv

LEMMA InitAccessData == Doors!Init => DataInv
BY SeededType DEF Doors!Init, DataInv, TakesTurns, MatrixInv, PasswordInv, Busy, Doors!Idle

LEMMA DoingOp ==
    ASSUME AccessTypes, NEW b \in Browsers
    PROVE  /\ aDoing[b].op \in {"idle", "put", "save", "apply", "finish"}
           /\ aDoing[b].op = "idle" <=> ~Busy(b)
           /\ aDoing[b].op = "put" => aDoing[b] \in [op : {"put"}, matrix : Matrix]
           /\ aDoing[b].op \in {"save", "apply"} =>
                aDoing[b] \in [op : {"save", "apply"}, form : Sheet, new : BOOLEAN]
           /\ aDoing[b].op = "finish" =>
                aDoing[b] \in [op : {"finish"}, new : BOOLEAN, toggled : BOOLEAN,
                               matrix : Matrix, loads : BOOLEAN]
<1>1. aDoing[b] \in Doing  BY DEF AccessTypes
<1> QED  BY <1>1 DEF Doing, Busy, Doors!Idle

DataState == <<aUp, aStore, aConfig, aRows, aMatrix, aDoing, aGranted, aPromised, aUnread>>

LEMMA StepAccessData ==
    ASSUME AccessHypothesis, AccessTypes, AccessTypes', DataInv, [Doors!Next]_(Doors!vars)
    PROVE  DataInv'
<1> USE DEF DataInv
<1>0. aDoing \in [Browsers -> Doing]  BY DEF AccessTypes
<1>1. CASE UNCHANGED DataState
  BY <1>1 DEF DataState, TakesTurns, MatrixInv, PasswordInv, Busy
\* Who begins is alone.
<1>2. ASSUME NEW b \in Browsers, Doors!Free(b), Doors!Alone
      PROVE  aUp /\ \A c \in Browsers : ~Busy(c) /\ aDoing[c].op = "idle"
  BY <1>2, DoingOp DEF Doors!Free, Doors!Alone, AccessHypothesis, Busy
\* Who is busy is so alone.
<1>3. ASSUME NEW b \in Browsers, aDoing[b].op # "idle"
      PROVE  aUp /\ Busy(b) /\ \A c \in Browsers \ {b} : ~Busy(c) /\ aDoing[c].op = "idle"
  BY <1>3, DoingOp DEF TakesTurns
<1>4. ASSUME NEW b \in Browsers, NEW m \in Doors!Toggled(aMatrix), Doors!PutMatrix(b, m)
      PROVE  DataInv'
  <2>1. aUp /\ \A c \in Browsers : ~Busy(c) /\ aDoing[c].op = "idle"
    BY <1>2, <1>4 DEF Doors!PutMatrix
  <2>2. UNCHANGED <<aUp, aStore, aConfig, aMatrix, aGranted, aPromised, aUnread>>
    BY <1>4 DEF Doors!PutMatrix, Doors!memory, Doors!ghosts
  <2>3. CASE UNCHANGED <<aRows, aDoing>>  BY <1>1, <2>2, <2>3 DEF DataState
  <2>4. CASE /\ aRows' = m
             /\ aDoing' = [aDoing EXCEPT ![b] = [op |-> "put", matrix |-> m]]
    <3>1. /\ aDoing'[b].op = "put" /\ aDoing'[b].matrix = m
          /\ \A c \in Browsers \ {b} : aDoing'[c] = aDoing[c]
      BY <2>4, <1>0
    <3>2. m # {}  BY <1>4 DEF Doors!PutMatrix, AccessHypothesis
    <3>3. TakesTurns'  BY <2>1, <2>2, <3>1 DEF TakesTurns, Busy
    <3>4. MatrixInv'  BY <2>1, <2>2, <2>4, <3>1, <3>2 DEF MatrixInv
    <3>5. Busy(b)'  BY <3>1 DEF Busy, Doors!Idle
    <3>6. PasswordInv'  BY <2>1, <2>2, <3>1, <3>5 DEF PasswordInv
    <3> QED  BY <3>3, <3>4, <3>6
  <2> QED  BY <1>4, <2>3, <2>4 DEF Doors!PutMatrix
<1>5. ASSUME NEW b \in Browsers, Doors!SetMatrix(b) PROVE DataInv'
  <2>1. aUp /\ Busy(b) /\ \A c \in Browsers \ {b} : ~Busy(c) /\ aDoing[c].op = "idle"
    BY <1>3, <1>5 DEF Doors!SetMatrix
  <2>2. UNCHANGED <<aUp, aStore, aConfig, aRows, aPromised>>  BY <1>5 DEF Doors!SetMatrix
  <2>3. aMatrix' = aDoing[b].matrix /\ aGranted' = aDoing[b].matrix /\ aUnread' = FALSE
    BY <1>5 DEF Doors!SetMatrix
  <2>4. aDoing[b].matrix = aRows /\ aRows # {}  BY <1>5 DEF Doors!SetMatrix, MatrixInv
  <2>5. aDoing'[b] = Doors!Idle /\ \A c \in Browsers \ {b} : aDoing'[c] = aDoing[c]
    BY <1>5, <1>0 DEF Doors!SetMatrix
  <2>6. \A c \in Browsers : ~Busy(c)' /\ aDoing'[c].op = "idle"
    BY <2>1, <2>5 DEF Busy, Doors!Idle
  <2>7. aStore.password \in aPromised /\ aConfig.password \in aPromised
    BY <1>5 DEF Doors!SetMatrix, PasswordInv
  <2>8. TakesTurns'  BY <2>6 DEF TakesTurns
  <2>9. MatrixInv'  BY <2>2, <2>3, <2>4, <2>6 DEF MatrixInv
  <2>10. PasswordInv'  BY <2>2, <2>6, <2>7 DEF PasswordInv
  <2> QED  BY <2>8, <2>9, <2>10
<1>6. ASSUME NEW b \in Browsers, NEW form \in Doors!Forms, Doors!BeginSave(b, form)
      PROVE  DataInv'
  <2>1. aUp /\ \A c \in Browsers : ~Busy(c) /\ aDoing[c].op = "idle"
    BY <1>2, <1>6 DEF Doors!BeginSave
  <2>2. UNCHANGED <<aUp, aStore, aConfig, aRows, aMatrix, aGranted, aPromised, aUnread>>
    BY <1>6 DEF Doors!BeginSave, Doors!memory, Doors!ghosts
  <2>3. /\ aDoing'[b] = [op |-> "save", form |-> Doors!Restored(form),
                         new |-> form.password # Doors!Masked]
        /\ \A c \in Browsers \ {b} : aDoing'[c] = aDoing[c]
    BY <1>6, <1>0 DEF Doors!BeginSave
  <2>4. aStore.password \in aPromised /\ aConfig.password \in aPromised
    BY <2>1 DEF PasswordInv
  <2>5. form.password = Doors!Masked => Doors!Restored(form).password = aConfig.password
    <3>1. ASSUME form.password = Doors!Masked
          PROVE  form \in Sheet
      BY FormType
    <3> QED  BY <3>1 DEF Doors!Restored, Sheet
  <2>6. Busy(b)'  BY <2>3 DEF Busy, Doors!Idle
  <2>7. TakesTurns'  BY <2>1, <2>2, <2>3 DEF TakesTurns, Busy
  <2>8. MatrixInv'  BY <2>1, <2>2, <2>3 DEF MatrixInv
  <2>9. PasswordInv'
    <3>1. /\ aDoing'[b].op = "save"
          /\ ~aDoing'[b].new => aDoing'[b].form.password \in aPromised
      <4>1. /\ aDoing'[b].op = "save" /\ aDoing'[b].form = Doors!Restored(form)
            /\ aDoing'[b].new = (form.password # Doors!Masked)
        BY <2>3
      <4>2. ~aDoing'[b].new => form.password = Doors!Masked  BY <4>1
      <4> QED  BY <2>4, <2>5, <4>1, <4>2
    <3> QED  BY <2>1, <2>2, <2>3, <2>4, <2>6, <3>1 DEF PasswordInv
  <2> QED  BY <2>7, <2>8, <2>9
<1>7. ASSUME NEW b \in Browsers, Doors!StoreSave(b) PROVE DataInv'
  <2>1. aUp /\ Busy(b) /\ \A c \in Browsers \ {b} : ~Busy(c) /\ aDoing[c].op = "idle"
    BY <1>3, <1>7 DEF Doors!StoreSave
  <2>2. UNCHANGED <<aUp, aConfig, aRows, aMatrix, aGranted, aUnread>>
    BY <1>7 DEF Doors!StoreSave, Doors!memory
  <2>3. aDoing[b] \in [op : {"save", "apply"}, form : Sheet, new : BOOLEAN] /\ aDoing[b].op = "save"
    BY <1>7, DoingOp DEF Doors!StoreSave
  <2>4. aStore.password \in aPromised /\ aConfig.password \in aPromised
    BY <2>3 DEF PasswordInv
  <2>5. ~aDoing[b].new => aDoing[b].form.password \in aPromised
    BY <2>3 DEF PasswordInv
  <2>6. CASE /\ aStore' = aDoing[b].form /\ aDoing' = [aDoing EXCEPT ![b].op = "apply"]
             /\ UNCHANGED aPromised
    <3>1. /\ aDoing'[b] = [aDoing[b] EXCEPT !.op = "apply"]
          /\ \A c \in Browsers \ {b} : aDoing'[c] = aDoing[c]
      BY <2>6 DEF AccessTypes
    <3>2. aDoing'[b].op = "apply" /\ aDoing'[b].form = aDoing[b].form /\ aDoing'[b].new = aDoing[b].new
      BY <2>3, <3>1
    <3>3. Busy(b)'  BY <3>2 DEF Busy, Doors!Idle
    <3>4. TakesTurns'  BY <2>1, <2>2, <3>1 DEF TakesTurns, Busy
    <3>5. MatrixInv'  BY <2>1, <2>2, <2>3, <3>1, <3>2 DEF MatrixInv
    <3>6. PasswordInv'  BY <2>1, <2>2, <2>6, <2>5, <3>1, <3>2, <3>3 DEF PasswordInv
    <3> QED  BY <3>4, <3>5, <3>6
  <2>7. CASE /\ aDoing' = [aDoing EXCEPT ![b] = Doors!Idle]
             /\ \/ UNCHANGED <<aStore, aPromised>>
                \/ /\ aStore' = aDoing[b].form
                   /\ aPromised' = aPromised \cup
                        (IF aDoing[b].new THEN {aDoing[b].form.password} ELSE {})
    <3>1. \A c \in Browsers : ~Busy(c)' /\ aDoing'[c].op = "idle"
      BY <2>1, <2>7, <1>0 DEF Busy, Doors!Idle
    <3>2. aRows = aGranted  BY <2>1, <2>3 DEF MatrixInv
    <3>3. TakesTurns'  BY <3>1 DEF TakesTurns
    <3>4. MatrixInv'  BY <2>2, <3>1, <3>2 DEF MatrixInv
    <3>5. aStore'.password \in aPromised' /\ aConfig'.password \in aPromised'
      BY <2>2, <2>4, <2>7, <2>5
    <3>6. PasswordInv'  BY <3>1, <3>5 DEF PasswordInv
    <3> QED  BY <3>3, <3>4, <3>6
  <2> QED  BY <1>7, <2>6, <2>7 DEF Doors!StoreSave
<1>8. ASSUME NEW b \in Browsers, Doors!ApplySave(b) PROVE DataInv'
  <2>1. aUp /\ Busy(b) /\ \A c \in Browsers \ {b} : ~Busy(c) /\ aDoing[c].op = "idle"
    BY <1>3, <1>8 DEF Doors!ApplySave
  <2>2. UNCHANGED <<aUp, aStore, aMatrix, aGranted, aPromised, aUnread>>
    BY <1>8 DEF Doors!ApplySave
  <2>3. aDoing[b].op = "apply" /\ aStore = aDoing[b].form /\ aConfig' = aDoing[b].form
    BY <1>8 DEF Doors!ApplySave, PasswordInv
  <2>4. ~aDoing[b].new => aDoing[b].form.password \in aPromised
    BY <2>3 DEF PasswordInv
  <2>5. aRows = aGranted /\ Doors!Loaded = aGranted
    BY <2>1, <2>3 DEF MatrixInv, Doors!Loaded
  <2>6. PICK read \in BOOLEAN :
          /\ aRows' = IF aConfig'.enabled /\ read THEN Doors!Loaded ELSE aRows
          /\ aDoing' = [aDoing EXCEPT ![b] =
                [op |-> "finish", new |-> aDoing[b].new,
                 toggled |-> aConfig.enabled # aConfig'.enabled,
                 matrix |-> IF aConfig'.enabled /\ read THEN Doors!Loaded ELSE aMatrix,
                 loads |-> aConfig'.enabled /\ read]]
    BY <1>8 DEF Doors!ApplySave
  <2>7. aRows' = aGranted  BY <2>5, <2>6
  <2>8. /\ aDoing'[b].op = "finish" /\ aDoing'[b].new = aDoing[b].new
        /\ aDoing'[b].loads => aDoing'[b].matrix = aGranted
        /\ \A c \in Browsers \ {b} : aDoing'[c] = aDoing[c]
    BY <2>5, <2>6, <1>0
  <2>9. Busy(b)'  BY <2>8 DEF Busy, Doors!Idle
  <2>10. TakesTurns'  BY <2>1, <2>2, <2>8 DEF TakesTurns, Busy
  <2>11. MatrixInv'  BY <2>1, <2>2, <2>7, <2>8 DEF MatrixInv
  <2>12. PasswordInv'  BY <2>1, <2>2, <2>3, <2>4, <2>8, <2>9 DEF PasswordInv
  <2> QED  BY <2>10, <2>11, <2>12
<1>9. ASSUME NEW b \in Browsers, Doors!FinishSave(b) PROVE DataInv'
  <2>1. aUp /\ Busy(b) /\ \A c \in Browsers \ {b} : ~Busy(c) /\ aDoing[c].op = "idle"
    BY <1>3, <1>9 DEF Doors!FinishSave
  <2>2. UNCHANGED <<aUp, aStore, aConfig, aRows, aGranted>>  BY <1>9 DEF Doors!FinishSave
  <2>3. aDoing[b].op = "finish"  BY <1>9 DEF Doors!FinishSave
  <2>4. \A c \in Browsers : ~Busy(c)' /\ aDoing'[c].op = "idle"
    BY <1>9, <2>1, <1>0 DEF Doors!FinishSave, Busy, Doors!Idle
  <2>5. aRows = aGranted /\ (aDoing[b].loads => aDoing[b].matrix = aGranted)
    BY <2>1, <2>3 DEF MatrixInv
  <2>6. /\ aMatrix' = IF aDoing[b].loads THEN aDoing[b].matrix ELSE aMatrix
        /\ aUnread' = (aUnread /\ ~aDoing[b].loads)
        /\ aPromised' = IF aDoing[b].new THEN {aConfig.password} ELSE aPromised
    BY <1>9 DEF Doors!FinishSave
  <2>7. aConfig.password \in aPromised' /\ aStore.password = aConfig.password
    BY <2>3, <2>6 DEF PasswordInv
  <2>8. TakesTurns'  BY <2>4 DEF TakesTurns
  <2>9. MatrixInv'  BY <2>1, <2>2, <2>4, <2>5, <2>6 DEF MatrixInv
  <2>10. PasswordInv'  BY <2>2, <2>4, <2>7 DEF PasswordInv
  <2> QED  BY <2>8, <2>9, <2>10
<1>10. CASE Doors!Stop
  <2>1. \A c \in Browsers : ~Busy(c)' /\ aDoing'[c].op = "idle"
    BY <1>10 DEF Doors!Stop, Busy, Doors!Idle
  <2>2. aUp' = FALSE /\ aMatrix' = {} /\ UNCHANGED <<aStore, aConfig, aRows, aUnread>>
    BY <1>10 DEF Doors!Stop
  <2>3. aGranted' = aRows /\ aRows # {}  BY <1>10 DEF Doors!Stop, MatrixInv
  <2>4. aStore.password \in aPromised'
    <3>1. CASE \E b \in Browsers : aDoing[b].op \in {"apply", "finish"} /\ aDoing[b].new
      BY <1>10, <3>1 DEF Doors!Stop
    <3>2. CASE \A b \in Browsers : ~(aDoing[b].op \in {"apply", "finish"} /\ aDoing[b].new)
      <4>1. aPromised' = aPromised  BY <1>10, <3>2 DEF Doors!Stop
      <4>2. ASSUME NEW b \in Browsers, Busy(b)  PROVE aStore.password \in aPromised
        <5>1. aDoing[b].op \in {"put", "save", "apply", "finish"}  BY <4>2, DoingOp
        <5> QED  BY <3>2, <5>1 DEF PasswordInv
      <4>3. (\A b \in Browsers : ~Busy(b)) => aStore.password \in aPromised
        BY DEF PasswordInv
      <4> QED  BY <4>1, <4>2, <4>3
    <3> QED  BY <3>1, <3>2
  <2>5. TakesTurns'  BY <2>1 DEF TakesTurns
  <2>6. MatrixInv'  BY <2>1, <2>2, <2>3 DEF MatrixInv
  <2>7. PasswordInv'  BY <2>1, <2>2, <2>4 DEF PasswordInv
  <2> QED  BY <2>5, <2>6, <2>7
<1>11. CASE Doors!Start
  <2>1. ~aUp /\ aUp' /\ aConfig' = aStore /\ UNCHANGED <<aStore, aDoing, aGranted, aPromised>>
    BY <1>11 DEF Doors!Start
  <2>2. \A c \in Browsers : ~Busy(c) /\ aDoing[c].op = "idle"
    BY <2>1, DoingOp DEF TakesTurns
  <2>3. aRows = aGranted /\ Doors!Loaded = aGranted
    BY <2>2 DEF MatrixInv, Doors!Loaded
  <2>4. PICK read \in BOOLEAN :
          /\ aRows' = IF aStore.enabled /\ read THEN Doors!Loaded ELSE aRows
          /\ aMatrix' = IF aStore.enabled /\ read THEN Doors!Loaded ELSE {}
          /\ aUnread' = ~(aStore.enabled /\ read)
    BY <1>11 DEF Doors!Start
  <2>5. TakesTurns'  BY <2>1, <2>2 DEF TakesTurns, Busy
  <2>6. MatrixInv'  BY <2>1, <2>2, <2>3, <2>4 DEF MatrixInv
  <2>7. PasswordInv'  BY <2>1, <2>2 DEF PasswordInv, Busy
  <2> QED  BY <2>5, <2>6, <2>7
<1>12. CASE Doors!SetPassword
  <2>1. ~aUp  BY <1>12 DEF Doors!SetPassword, AccessHypothesis
  <2>2. /\ aStore' = [aStore EXCEPT !.password = aEdits + 2] /\ aPromised' = {aEdits + 2}
        /\ UNCHANGED <<aUp, aConfig, aRows, aMatrix, aDoing, aGranted, aUnread>>
    BY <1>12 DEF Doors!SetPassword, Doors!memory
  <2>3. aStore'.password \in aPromised'  BY <2>2 DEF AccessTypes, Sheet
  <2>4. \A c \in Browsers : ~Busy(c) /\ aDoing[c].op = "idle"
    BY <2>1, DoingOp DEF TakesTurns
  <2>5. TakesTurns' /\ MatrixInv'  BY <2>2 DEF TakesTurns, MatrixInv, Busy
  <2>6. PasswordInv'  BY <2>1, <2>2, <2>3, <2>4 DEF PasswordInv, Busy
  <2> QED  BY <2>5, <2>6
<1>13. ASSUME \/ \E b \in Browsers :
                   \/ Doors!Login(b) \/ Doors!Guest(b) \/ Doors!Leave(b)
                   \/ \E m \in Members : Doors!Callback(b, m)
                   \/ \E route \in DOMAIN Doors!Needs : Doors!Request(b, route)
                   \/ \E u \in AccessUsers, e \in BOOLEAN, c \in SUBSET Doors!Caps :
                         Doors!PutUser(b, u, e, c)
                   \/ \E u \in AccessUsers : Doors!DeleteUser(b, u)
              \/ Doors!Tick
              \/ \E m \in Members, st \in Snapshot : Doors!Change(m, st)
              \/ UNCHANGED Doors!vars
       PROVE  UNCHANGED DataState
  BY <1>13 DEF Doors!Login, Doors!Guest, Doors!Leave, Doors!Callback, Doors!Request, Doors!SignIn,
        Doors!PutUser, Doors!DeleteUser, Doors!Tick, Doors!Change, Doors!memory, Doors!ghosts,
        Doors!vars, DataState
<1>14. \A i \in BOOLEAN, r \in SUBSET AccessRoles : [in |-> i, roles |-> r] \in Snapshot
  BY DEF Snapshot
<1> HIDE DEF DataInv
<1> QED
  BY <1>1, <1>4, <1>5, <1>6, <1>7, <1>8, <1>9, <1>10, <1>11, <1>12, <1>13, <1>14
     DEF Doors!Next

-----------------------------------------------------------------------------
(* Access: the sessions, and how requests are judged                       *)

\* What a member's session says of its holder, as the history has it.
Says(s) == [in |-> TRUE, roles |-> s.roles, owner |-> s.owner]

\* A standing that Discord and the configuration give now is noted; a snapshot
\* that is not due was true as many ticks ago as it is old, or less.
SessionInv ==
    /\ \A m \in Members : Doors!Standing(m) \in aSeen[m][0]
    /\ \A b \in Browsers :
         aCookies[b].way = "discord" /\ aCookies[b].age < MaxAge =>
            \E a \in 0..aCookies[b].age : Says(aCookies[b]) \in aSeen[aCookies[b].who][a]

LEMMA InitSessions == Doors!Init => SessionInv
BY AccessBounds DEF Doors!Init, SessionInv, Doors!NoSession, Ages

\* Snapshots that are only added to the history keep a session's witness.
LEMMA MoreSeen ==
    ASSUME AccessTypes, NEW s \in DiscordSession,
           \A m \in Members, a \in Ages : aSeen[m][a] \subseteq aSeen'[m][a],
           s.age < MaxAge => \E a \in 0..s.age : Says(s) \in aSeen[s.who][a]
    PROVE  s.age < MaxAge => \E a \in 0..s.age : Says(s) \in aSeen'[s.who][a]
<1> SUFFICES ASSUME s.age < MaxAge PROVE \E a \in 0..s.age : Says(s) \in aSeen'[s.who][a]
  OBVIOUS
<1>1. PICK a \in 0..s.age : Says(s) \in aSeen[s.who][a]  OBVIOUS
<1>2. s.age \in Int /\ s.who \in Members  BY DEF DiscordSession
<1>3. a \in Ages  BY <1>1, <1>2, AccessBounds DEF Ages
<1> QED  BY <1>1, <1>2, <1>3

\* A session made from what Discord says now.
LEMMA FreshSession ==
    ASSUME AccessTypes, SessionInv, NEW m \in Members, aStanding[m].in
    PROVE  LET s == Doors!Session("discord", m, Doors!Owns(m, aStanding[m].roles, TRUE),
                                  aStanding[m].roles)
           IN  s \in DiscordSession /\ s.age = 0 /\ s.who = m /\ Says(s) \in aSeen[m][0]
<1> DEFINE s == Doors!Session("discord", m, Doors!Owns(m, aStanding[m].roles, TRUE),
                              aStanding[m].roles)
<1>1. Doors!Standing(m) \in aSeen[m][0]  BY DEF SessionInv
<1>2. /\ s.age = 0 /\ s.who = m /\ s.roles = aStanding[m].roles
      /\ s.owner = Doors!Owns(m, aStanding[m].roles, TRUE)
  BY DEF Doors!Session
<1>3. Says(s) = Doors!Standing(m)  BY <1>2 DEF Says, Doors!Standing
<1>4. s \in DiscordSession
  BY AccessBounds DEF DiscordSession, Doors!Session, Doors!Owns, AccessTypes, Snapshot
<1> QED  BY <1>1, <1>2, <1>3, <1>4

\* The session a request goes on with.
LEMMA RefreshedSession ==
    ASSUME AccessHypothesis, AccessTypes, SessionInv, NEW b \in Browsers,
           NEW s \in Doors!Refreshed(aCookies[b])
    PROVE  \/ s = Doors!NoSession /\ ~aStanding[aCookies[b].who].in /\ aCookies[b] \in DiscordSession
           \/ s \in Cookie /\ s.way # "none" /\ s.way # "discord"
           \/ aCookies[b].way = "none"
           \/ s \in DiscordSession /\ s.age = MaxAge /\ s.stale
           \/ /\ s \in DiscordSession
              /\ s.age < MaxAge
              /\ \E a \in 0..s.age : Says(s) \in aSeen[s.who][a]
<1>1. aCookies[b] \in Cookie  BY DEF AccessTypes
<1>2. CASE aCookies[b].way # "discord"  BY <1>1, <1>2 DEF Doors!Refreshed
<1>3. CASE aCookies[b].way = "discord"
  <2>1. aCookies[b] \in DiscordSession  BY <1>1, <1>3, CookieWay
  <2>2. CASE aCookies[b].age < MaxAge
    BY <1>3, <2>1, <2>2 DEF Doors!Refreshed, SessionInv
  <2>3. CASE ~(aCookies[b].age < MaxAge)
    <3>1. aCookies[b].age = MaxAge  BY <2>1, <2>3, AccessBounds DEF DiscordSession
    <3>2. CASE s = [aCookies[b] EXCEPT !.stale = TRUE]
      BY <2>1, <3>1, <3>2 DEF DiscordSession
    <3>3. CASE /\ aStanding[aCookies[b].who].in
               /\ s = Doors!Session("discord", aCookies[b].who,
                          Doors!Owns(aCookies[b].who, aStanding[aCookies[b].who].roles, TRUE),
                          aStanding[aCookies[b].who].roles)
      <4>1. aCookies[b].who \in Members  BY <2>1 DEF DiscordSession
      <4>2. s \in DiscordSession /\ s.age = 0 /\ Says(s) \in aSeen[s.who][0]
        BY <3>3, <4>1, FreshSession
      <4>3. 0 \in 0..s.age  BY <4>2
      <4>4. \E a \in 0..s.age : Says(s) \in aSeen[s.who][a]  BY <4>2, <4>3
      <4> QED  BY <4>2, <4>4, AccessBounds
    <3>4. CASE s = Doors!NoSession /\ ~aStanding[aCookies[b].who].in  BY <2>1, <3>4
    <3> QED
      BY <1>3, <2>3, <3>2, <3>3, <3>4 DEF Doors!Refreshed, AccessHypothesis
  <2> QED  BY <2>2, <2>3
<1> QED  BY <1>2, <1>3

LEMMA StepSessions ==
    ASSUME AccessHypothesis, AccessTypes, AccessTypes', SessionInv, [Doors!Next]_(Doors!vars)
    PROVE  SessionInv'
<1> DEFINE Holds(s) == s.way = "discord" /\ s.age < MaxAge =>
                          \E a \in 0..s.age : Says(s) \in aSeen[s.who][a]
<1>0. /\ \A m \in Members : Doors!Standing(m) \in aSeen[m][0]
      /\ \A b \in Browsers : aCookies[b] \in Cookie /\ Holds(aCookies[b])
  BY DEF SessionInv, AccessTypes
<1>00. Holds(Doors!NoSession)  BY DEF Doors!NoSession
\* One cookie changes.
<1>1. ASSUME UNCHANGED <<aSeen, aStanding, aConfig>>, NEW b \in Browsers, NEW s, Holds(s),
             aCookies' = [aCookies EXCEPT ![b] = s]
      PROVE  SessionInv'
  <2>1. aCookies'[b] = s /\ \A c \in Browsers \ {b} : aCookies'[c] = aCookies[c]
    BY <1>1 DEF AccessTypes
  <2>2. \A m \in Members : (Doors!Standing(m) \in aSeen[m][0])'
    BY <1>0, <1>1 DEF Doors!Standing, Doors!Owns
  <2>3. \A c \in Browsers : Holds(aCookies'[c])  BY <1>0, <1>1, <2>1
  <2> QED  BY <1>1, <2>2, <2>3 DEF SessionInv
\* Only the history grows.
<1>2. ASSUME UNCHANGED aCookies,
             \A m \in Members, a \in Ages : aSeen[m][a] \subseteq aSeen'[m][a],
             \A m \in Members : Doors!Standing(m)' \in aSeen'[m][0]
      PROVE  SessionInv'
  <2>1. ASSUME NEW b \in Browsers, aCookies[b].way = "discord", aCookies[b].age < MaxAge
        PROVE  \E a \in 0..aCookies[b].age : Says(aCookies[b]) \in aSeen'[aCookies[b].who][a]
    <3>1. aCookies[b] \in DiscordSession  BY <1>0, <2>1, CookieWay
    <3> QED  BY <1>0, <1>2, <2>1, <3>1, MoreSeen
  <2> QED  BY <1>2, <2>1 DEF SessionInv
<1>3. CASE UNCHANGED <<aSeen, aStanding, aConfig, aCookies>>
  BY <1>0, <1>3 DEF SessionInv, Doors!Standing, Doors!Owns
<1>4. ASSUME NEW b \in Browsers, Doors!Login(b) \/ Doors!Guest(b) \/ Doors!Leave(b)
      PROVE  SessionInv'
  <2>1. PICK s : /\ \/ s.way = "local" \/ s.way = "guest" \/ s = Doors!NoSession
                 /\ aCookies' = [aCookies EXCEPT ![b] = s]
    BY <1>4 DEF Doors!Login, Doors!Guest, Doors!Leave, Doors!SignIn, Doors!Session
  <2>2. Holds(s)  BY <1>00, <2>1
  <2>3. UNCHANGED <<aSeen, aStanding, aConfig>>
    BY <1>4 DEF Doors!Login, Doors!Guest, Doors!Leave, Doors!SignIn
  <2> QED  BY <1>1, <2>1, <2>2, <2>3
<1>5. ASSUME NEW b \in Browsers, NEW m \in Members, Doors!Callback(b, m) PROVE SessionInv'
  <2> DEFINE s == Doors!Session("discord", m, Doors!Owns(m, aStanding[m].roles, TRUE),
                                aStanding[m].roles)
  <2>1. /\ aStanding[m].in /\ UNCHANGED <<aSeen, aStanding, aConfig>>
        /\ aCookies' = [aCookies EXCEPT ![b] = s]
    BY <1>5 DEF Doors!Callback, Doors!SignIn, AccessHypothesis
  <2>2. s \in DiscordSession /\ s.age = 0 /\ s.who = m /\ Says(s) \in aSeen[m][0]
    BY <2>1, FreshSession
  <2> HIDE DEF s
  <2>3. Holds(s)
    <3>1. 0 \in 0..s.age  BY <2>2
    <3> QED  BY <2>2, <3>1
  <2> QED  BY <1>1, <2>1, <2>3
<1>6. ASSUME NEW b \in Browsers, NEW route \in DOMAIN Doors!Needs, Doors!Request(b, route)
      PROVE  SessionInv'
  <2>1. PICK s \in Doors!Refreshed(aCookies[b]) : aCookies' = [aCookies EXCEPT ![b] = s]
    BY <1>6 DEF Doors!Request
  <2>2. UNCHANGED <<aSeen, aStanding, aConfig>> /\ aCookies[b].way # "none"
    BY <1>6 DEF Doors!Request
  <2>3. Holds(s)
    <3>1. CASE s = Doors!NoSession  BY <1>00, <3>1
    <3>2. CASE s.way # "discord"  BY <3>2
    <3>3. CASE s \in DiscordSession /\ s.age = MaxAge  BY <3>3, AccessBounds
    <3>4. CASE \E a \in 0..s.age : Says(s) \in aSeen[s.who][a]  BY <3>4
    <3> QED  BY <2>2, <3>1, <3>2, <3>3, <3>4, RefreshedSession
  <2> QED  BY <1>1, <2>1, <2>2, <2>3
<1>7. ASSUME NEW b \in Browsers, Doors!FinishSave(b) PROVE SessionInv'
  <2>1. PICK s : (s = Doors!NoSession \/ s = aCookies[b]) /\ aCookies' = [aCookies EXCEPT ![b] = s]
    BY <1>7 DEF Doors!FinishSave
  <2>2. UNCHANGED <<aSeen, aStanding, aConfig>>  BY <1>7 DEF Doors!FinishSave
  <2>3. Holds(s)  BY <1>0, <1>00, <2>1
  <2> QED  BY <1>1, <2>1, <2>2, <2>3
<1>8. ASSUME NEW b \in Browsers, Doors!ApplySave(b) PROVE SessionInv'
  <2>1. aConfig' \in Sheet /\ Doors!Note(aConfig', aStanding) /\ UNCHANGED <<aStanding, aCookies>>
    BY <1>8 DEF Doors!ApplySave, AccessTypes
  <2>2. \A m \in Members : Doors!Standing(m)' \in aSeen'[m][0]
    BY <2>1, NotedType DEF Doors!Standing, Doors!Owns, AccessTypes
  <2>3. \A m \in Members, a \in Ages : aSeen[m][a] \subseteq aSeen'[m][a]
    BY <2>1, NotedType DEF AccessTypes
  <2> QED  BY <1>2, <2>1, <2>2, <2>3
<1>9. CASE Doors!Start
  <2>1. /\ aConfig' = aStore /\ aStore \in Sheet /\ Doors!Note(aStore, aStanding)
        /\ UNCHANGED <<aStanding, aCookies>>
    BY <1>9 DEF Doors!Start, AccessTypes
  <2>2. \A m \in Members : Doors!Standing(m)' \in aSeen'[m][0]
    BY <2>1, NotedType DEF Doors!Standing, Doors!Owns, AccessTypes
  <2>3. \A m \in Members, a \in Ages : aSeen[m][a] \subseteq aSeen'[m][a]
    BY <2>1, NotedType DEF AccessTypes
  <2> QED  BY <1>2, <2>1, <2>2, <2>3
<1>10. ASSUME NEW m \in Members, NEW st \in Snapshot, Doors!Change(m, st) PROVE SessionInv'
  <2>1. /\ aStanding' \in [Members -> Snapshot] /\ Doors!Note(aConfig, aStanding')
        /\ UNCHANGED <<aConfig, aCookies>>
    BY <1>10 DEF Doors!Change, AccessTypes, Doors!memory
  <2>2. \A n \in Members : Doors!Standing(n)' \in aSeen'[n][0]
    BY <2>1, NotedType DEF Doors!Standing, Doors!Owns, AccessTypes
  <2>3. \A n \in Members, a \in Ages : aSeen[n][a] \subseteq aSeen'[n][a]
    BY <2>1, NotedType DEF AccessTypes
  <2> QED  BY <1>2, <2>1, <2>2, <2>3
<1>11. CASE Doors!Tick
  <2>1. UNCHANGED <<aStanding, aConfig>>  BY <1>11 DEF Doors!Tick, Doors!memory
  <2>2. aSeen' = [m \in Members |-> [a \in Ages |->
           IF a = 0 THEN {Doors!Standing(m)} ELSE aSeen[m][a - 1]]]
    BY <1>11 DEF Doors!Tick, Ages
  <2>3. \A m \in Members : Doors!Standing(m)' \in aSeen'[m][0]
    BY <2>1, <2>2, AccessBounds DEF Doors!Standing, Doors!Owns
  <2>4. ASSUME NEW b \in Browsers, aCookies'[b].way = "discord", aCookies'[b].age < MaxAge
        PROVE  \E a \in 0..aCookies'[b].age : Says(aCookies'[b]) \in aSeen'[aCookies'[b].who][a]
    <3>1. aCookies'[b] = IF aCookies[b].way = "discord" /\ aCookies[b].age < MaxAge
                         THEN [aCookies[b] EXCEPT !.age = @ + 1] ELSE aCookies[b]
      BY <1>11 DEF Doors!Tick
    <3>2. aCookies[b] \in DiscordSession
      <4>1. aCookies'[b] \in DiscordSession  BY <2>4, CookieWay DEF AccessTypes
      <4>2. aCookies[b].way = "discord"  BY <2>4, <3>1
      <4> QED  BY <1>0, <4>2, CookieWay
    <3>3. aCookies[b].way = "discord" /\ aCookies[b].age \in Nat /\ aCookies[b].who \in Members
      BY <3>2 DEF DiscordSession
    <3>4. aCookies[b].age < MaxAge  BY <2>4, <3>1, <3>3, AccessBounds
    <3>5. /\ aCookies'[b].age = aCookies[b].age + 1 /\ aCookies'[b].who = aCookies[b].who
          /\ Says(aCookies'[b]) = Says(aCookies[b])
      BY <3>1, <3>2, <3>3, <3>4 DEF DiscordSession, Says
    <3>6. PICK a \in 0..aCookies[b].age : Says(aCookies[b]) \in aSeen[aCookies[b].who][a]
      BY <1>0, <3>3, <3>4
    <3>7. a + 1 \in Ages /\ a + 1 # 0 /\ (a + 1) - 1 = a /\ a + 1 \in 0..aCookies'[b].age
      BY <2>4, <3>3, <3>5, <3>6, AccessBounds DEF Ages
    <3>8. aSeen'[aCookies[b].who][a + 1] = aSeen[aCookies[b].who][a]
      BY <2>2, <3>3, <3>7
    <3> QED  BY <3>5, <3>6, <3>7, <3>8
  <2> QED  BY <2>3, <2>4 DEF SessionInv
<1>12. ASSUME \/ \E b \in Browsers :
                   \/ \E m \in Doors!Toggled(aMatrix) : Doors!PutMatrix(b, m)
                   \/ Doors!SetMatrix(b)
                   \/ \E u \in AccessUsers, e \in BOOLEAN, c \in SUBSET Doors!Caps :
                         Doors!PutUser(b, u, e, c)
                   \/ \E u \in AccessUsers : Doors!DeleteUser(b, u)
                   \/ \E form \in Doors!Forms : Doors!BeginSave(b, form)
                   \/ Doors!StoreSave(b)
              \/ Doors!SetPassword \/ Doors!Stop
              \/ UNCHANGED Doors!vars
       PROVE  UNCHANGED <<aSeen, aStanding, aConfig, aCookies>>
  BY <1>12 DEF Doors!PutMatrix, Doors!SetMatrix, Doors!PutUser, Doors!DeleteUser,
        Doors!BeginSave, Doors!StoreSave, Doors!SetPassword, Doors!Stop, Doors!memory,
        Doors!ghosts, Doors!vars
<1>13. \A i \in BOOLEAN, r \in SUBSET AccessRoles : [in |-> i, roles |-> r] \in Snapshot
  BY DEF Snapshot
<1> HIDE DEF Holds
<1> QED
  BY <1>3, <1>4, <1>5, <1>6, <1>7, <1>8, <1>9, <1>10, <1>11, <1>12, <1>13
     DEF Doors!Next

\* More is allowed by a matrix that holds more.
LEMMA CapsGrow ==
    ASSUME NEW s, NEW m, NEW n, m \subseteq n
    PROVE  Doors!CapsOf(s, m) \subseteq Doors!CapsOf(s, n)
BY DEF Doors!CapsOf

\* A Discord session has the capabilities of its roles.
LEMMA SessionCaps ==
    ASSUME NEW s \in DiscordSession, NEW m
    PROVE  Doors!CapsOf(s, m) = Doors!CapsOf(Doors!Session("discord", s.who, FALSE, s.roles), m)
<1> DEFINE t == Doors!Session("discord", s.who, FALSE, s.roles)
<1>1. s.way = "discord" /\ t.way = "discord" /\ t.roles = s.roles
  BY DEF DiscordSession, Doors!Session
<1> QED  BY <1>1 DEF Doors!CapsOf, Doors!RowsOf

LEMMA StepJudged ==
    ASSUME AccessHypothesis, AccessTypes, DataInv, SessionInv, Doors!RequestsJudged,
           [Doors!Next]_(Doors!vars)
    PROVE  Doors!RequestsJudged'
<1> USE DEF Doors!RequestsJudged
<1>1. ASSUME NEW b \in Browsers, NEW route \in DOMAIN Doors!Needs, Doors!Request(b, route)
      PROVE  aWrong' = {}
  <2> DEFINE c == Doors!Needs[route]
  <2>1. PICK s \in Doors!Refreshed(aCookies[b]) :
          IF s = Doors!NoSession THEN Doors!Judge(aCookies[b], c, FALSE)
          ELSE Doors!Judge(s, c, Doors!Allowed(s, c))
    BY <1>1 DEF Doors!Request
  <2>2. aUp /\ aCookies[b].way # "none"  BY <1>1 DEF Doors!Request, Doors!Free
  <2>3. aMatrix \subseteq aGranted /\ (~aUnread => aMatrix = aGranted)
    BY <2>2 DEF DataInv, MatrixInv
  <2>4. aCookies[b] \in Cookie  BY DEF AccessTypes
  <2> HIDE DEF c
  <2>5. CASE /\ s = Doors!NoSession /\ ~aStanding[aCookies[b].who].in
             /\ aCookies[b] \in DiscordSession
    <3> DEFINE m == aCookies[b].who
    <3>1. m \in Members /\ aCookies[b].way = "discord"  BY <2>5 DEF DiscordSession
    <3>2. Doors!Standing(m) \in Doors!Recent(m) /\ ~Doors!Standing(m).in
      BY <2>5, <3>1, AccessBounds DEF SessionInv, Doors!Recent, Ages, Doors!Standing
    <3>3. ~Doors!Due(aCookies[b], c)  BY <3>1, <3>2 DEF Doors!Due, Doors!Entitled
    <3> QED  BY <2>1, <2>5, <3>3 DEF Doors!Judge
  <2>6. CASE s \in Cookie /\ s.way # "none" /\ s.way # "discord"
    <3>1. s # Doors!NoSession /\ Doors!Judge(s, c, Doors!Allowed(s, c))
      <4>1. Doors!NoSession.way = "none"  BY DEF Doors!NoSession
      <4> QED  BY <2>1, <2>6, <4>1
    <3>2. CASE s.who = Doors!Admin
      <4>1. s.owner
        <5>1. s \in AdminSession \cup UserSession \cup GuestSession
          BY <2>6, CookieWay DEF Cookie
        <5>2. Doors!Admin # "guest"  BY DEF Doors!Admin
        <5> QED
          BY <3>2, <5>1, <5>2
             DEF AdminSession, UserSession, GuestSession, Doors!Session, AccessHypothesis
      <4>2. s.way = "local"
        <5>1. s \in AdminSession \cup UserSession \cup GuestSession
          BY <2>6, CookieWay DEF Cookie
        <5> QED
          BY <3>2, <5>1 DEF AdminSession, UserSession, GuestSession, Doors!Session, Doors!Admin
      <4>3. Doors!Allowed(s, c) /\ Doors!Justified(s, c)
        BY <2>6, <3>2, <4>1, <4>2 DEF Doors!Allowed, Doors!Justified
      <4> QED  BY <3>1, <4>3 DEF Doors!Judge
    <3>3. CASE s.who # Doors!Admin
      <4>1. ~s.owner
        <5>1. s \in AdminSession \cup UserSession \cup GuestSession
          BY <2>6, CookieWay DEF Cookie
        <5> QED  BY <3>3, <5>1 DEF AdminSession, UserSession, GuestSession, Doors!Session
      <4>2. /\ Doors!Justified(s, c) <=> c \in Doors!CapsOf(s, aGranted)
            /\ Doors!Due(s, c) <=> c \in Doors!CapsOf(s, aGranted)
            /\ Doors!Allowed(s, c) <=> c \in Doors!CapsOf(s, aMatrix)
        BY <2>6, <3>3, <4>1 DEF Doors!Allowed, Doors!Justified, Doors!Due
      <4>3. Doors!CapsOf(s, aMatrix) \subseteq Doors!CapsOf(s, aGranted)  BY <2>3, CapsGrow
      <4>4. Doors!Allowed(s, c) => Doors!Justified(s, c)  BY <4>2, <4>3
      <4>5. ~aUnread /\ Doors!Due(s, c) => Doors!Allowed(s, c)  BY <2>3, <4>2
      <4> QED  BY <3>1, <4>4, <4>5 DEF Doors!Judge
    <3> QED  BY <3>2, <3>3
  <2>7. CASE s \in DiscordSession /\ s.age = MaxAge /\ s.stale
    <3>1. s.way = "discord" /\ s # Doors!NoSession  BY <2>7 DEF DiscordSession, Doors!NoSession
    <3>2. Doors!Justified(s, c) /\ ~Doors!Due(s, c)
      BY <2>7, <3>1 DEF Doors!Justified, Doors!Due
    <3> QED  BY <2>1, <3>1, <3>2 DEF Doors!Judge
  <2>8. CASE /\ s \in DiscordSession /\ s.age < MaxAge
             /\ \E a \in 0..s.age : Says(s) \in aSeen[s.who][a]
    <3> DEFINE t == Doors!Session("discord", s.who, FALSE, s.roles)
    <3>1. /\ s.way = "discord" /\ s.who \in Members /\ s.age \in Nat
          /\ s # Doors!NoSession
      BY <2>8 DEF DiscordSession, Doors!NoSession
    <3>2. PICK a \in 0..s.age : Says(s) \in aSeen[s.who][a]  BY <2>8
    <3>3. a \in 0..(MaxAge - 1)  BY <2>8, <3>1, <3>2, AccessBounds
    <3>4. Says(s) \in Doors!Recent(s.who)  BY <3>2, <3>3 DEF Doors!Recent
    <3>5. Says(s).in /\ Says(s).owner = s.owner /\ Says(s).roles = s.roles  BY DEF Says
    <3>6. /\ Doors!CapsOf(s, aMatrix) = Doors!CapsOf(t, aMatrix)
          /\ Doors!CapsOf(s, aMatrix) \subseteq Doors!CapsOf(t, aGranted)
      BY <2>3, <2>8, SessionCaps, CapsGrow
    <3>7. Doors!Entitled(s.who, Says(s), c) <=> s.owner \/ c \in Doors!CapsOf(t, aGranted)
      BY <3>5 DEF Doors!Entitled
    <3> HIDE DEF t
    <3>8. Doors!Allowed(s, c) => Doors!Justified(s, c)
      BY <3>1, <3>4, <3>6, <3>7 DEF Doors!Allowed, Doors!Justified
    <3>9. ~aUnread /\ Doors!Due(s, c) => Doors!Allowed(s, c)
      <4> SUFFICES ASSUME ~aUnread, Doors!Due(s, c) PROVE Doors!Allowed(s, c)  OBVIOUS
      <4>1. Doors!Entitled(s.who, Says(s), c)  BY <3>1, <3>4 DEF Doors!Due
      <4> QED  BY <2>3, <3>6, <3>7, <4>1 DEF Doors!Allowed
    <3> QED  BY <2>1, <3>1, <3>8, <3>9 DEF Doors!Judge
  <2> QED  BY <2>2, <2>5, <2>6, <2>7, <2>8, RefreshedSession
<1>2. ASSUME NEW b \in Browsers,
             \/ Doors!Login(b) \/ Doors!Guest(b) \/ Doors!Leave(b)
             \/ \E m \in Members : Doors!Callback(b, m)
             \/ \E m \in Doors!Toggled(aMatrix) : Doors!PutMatrix(b, m)
             \/ Doors!SetMatrix(b)
             \/ \E u \in AccessUsers, e \in BOOLEAN, c \in SUBSET Doors!Caps :
                   Doors!PutUser(b, u, e, c)
             \/ \E u \in AccessUsers : Doors!DeleteUser(b, u)
             \/ \E form \in Doors!Forms : Doors!BeginSave(b, form)
             \/ Doors!StoreSave(b) \/ Doors!ApplySave(b) \/ Doors!FinishSave(b)
      PROVE  UNCHANGED aWrong
  BY <1>2 DEF Doors!Login, Doors!Guest, Doors!Leave, Doors!Callback, Doors!SignIn,
        Doors!PutMatrix, Doors!SetMatrix, Doors!PutUser, Doors!DeleteUser, Doors!BeginSave,
        Doors!StoreSave, Doors!ApplySave, Doors!FinishSave, Doors!memory, Doors!ghosts
<1>3. ASSUME \/ Doors!Stop \/ Doors!Start \/ Doors!SetPassword \/ Doors!Tick
             \/ \E m \in Members, st \in Snapshot : Doors!Change(m, st)
             \/ UNCHANGED Doors!vars
      PROVE  UNCHANGED aWrong
  BY <1>3 DEF Doors!Stop, Doors!Start, Doors!SetPassword, Doors!Tick, Doors!Change, Doors!vars
<1>4. \A i \in BOOLEAN, r \in SUBSET AccessRoles : [in |-> i, roles |-> r] \in Snapshot
  BY DEF Snapshot
<1> QED  BY <1>1, <1>2, <1>3, <1>4 DEF Doors!Next

\* While the changes take turns, every request is judged by the matrix that was
\* acknowledged last and by a standing its user had within the age of a snapshot,
\* and the matrix and the password stay, whatever fails and whenever the process
\* stops (AccessSound).
THEOREM AccessIsSound == AccessHypothesis => (PanelSpec => []AccessSound)
<1> SUFFICES ASSUME AccessHypothesis PROVE PanelSpec => []AccessSound  OBVIOUS
<1> DEFINE Inv == part = "access" =>
                     AccessTypes /\ DataInv /\ SessionInv /\ Doors!RequestsJudged
<1>1. PanelInit => Inv
  BY InitAccessTypes, InitAccessData, InitSessions
     DEF PanelInit, Doors!Init, Doors!RequestsJudged
<1>2. Inv /\ [PanelNext]_<<part, vars, rvars, bvars, evars, tvars, cvars, svars, avars>> => Inv'
  <2> SUFFICES ASSUME Inv,
                      [PanelNext]_<<part, vars, rvars, bvars, evars, tvars, cvars, svars, avars>>,
                      part' = "access"
               PROVE  (AccessTypes /\ DataInv /\ SessionInv /\ Doors!RequestsJudged)'
    OBVIOUS
  <2>1. part = "access" /\ [Doors!Next]_(Doors!vars)
    BY DEF PanelNext, avars, Doors!vars
  <2> QED  BY <2>1, StepAccessTypes, StepAccessData, StepSessions, StepJudged
<1>3. Inv => AccessSound
  <2> SUFFICES ASSUME Inv, part = "access"
               PROVE  Doors!RequestsJudged /\ Doors!MatrixKept /\ Doors!PasswordKept
    BY DEF AccessSound
  <2>1. Doors!Settled => \A b \in Browsers : ~Busy(b) /\ aDoing[b].op # "put"
    BY DEF Doors!Settled, Busy, Doors!Idle
  <2>2. Doors!MatrixKept  BY <2>1 DEF DataInv, MatrixInv, Doors!MatrixKept
  <2>3. Doors!PasswordKept  BY <2>1 DEF DataInv, PasswordInv, Doors!PasswordKept
  <2> QED  BY <2>2, <2>3
<1> QED  BY <1>1, <1>2, <1>3, PTL DEF PanelSpec

-----------------------------------------------------------------------------
(* Server settings: files and requests                                     *)

AllKeys == Settings!Keys \cup Settings!DirectorKeys
Numbers == 0..2
\* What becomes of a plain setting's managed lines: one, or none.
OneLine == {<<>>} \cup {<<v>> : v \in Settings!Values}
FileRecord == [hand : [Settings!Keys -> Numbers], managed : [Settings!Keys -> Seq(Numbers)]]
File == {x \in FileRecord : \A k \in Settings!Plain : x.managed[k] \in OneLine}

SettingUpdates ==
    (UNION {[S -> Numbers] : S \in SUBSET Settings!Plain})
    \cup [{Settings!Array} -> Seq(Numbers)]
    \cup (UNION {[S -> Numbers] : S \in SUBSET Settings!DirectorKeys})
InFiles == {"route", "read game", "write game", "read engine", "write engine"}
SettingRequest ==
    [pc : InFiles \cup {"idle", "amp", "director", "write director"},
     kind : {"save", "raw", "director"}, updates : SettingUpdates, known : BOOLEAN,
     read : File, answer : {"none"}]

\* What a request names depends on its kind.
Formed(q) ==
    /\ q.kind = "save" => /\ DOMAIN q.updates \subseteq Settings!Plain
                          /\ \A k \in DOMAIN q.updates : q.updates[k] \in Numbers
    /\ q.kind = "raw" => DOMAIN q.updates = {Settings!Array} /\ q.updates[Settings!Array] \in Seq(Numbers)
    /\ q.kind = "director" => DOMAIN q.updates \subseteq Settings!DirectorKeys
    /\ q.pc = "idle" => DOMAIN q.updates = {}
    /\ q.pc = "amp" => q.kind = "save" /\ sPlane = "amp"
    /\ q.pc \in InFiles => /\ q.kind \in {"save", "raw"}
                           /\ sPlane = "amp" => "rate" \notin DOMAIN q.updates
    /\ q.pc \in InFiles \ {"route"} => q.known
    /\ q.pc \in {"director", "write director"} => q.kind = "director"

SettingsTypes ==
    /\ sPlane \in {"amp", "docker"}
    /\ sDisk \in [Settings!Files -> File]
    /\ sTorn = {}
    /\ sAmp \in [Settings!Curated -> Numbers]
    /\ sDirector \in [Settings!DirectorKeys -> Numbers]
    /\ sRequest \in [Saves -> SettingRequest]
    /\ \A r \in Saves : Formed(sRequest[r])
    /\ sWant = [k \in AllKeys |-> sWant[k]]
    /\ sWrote \in [Settings!Files -> [Settings!Keys -> Numbers]]

\* Saves, edits by hand and starts of the game take turns; a file that is there can
\* be read and is written whole; arrays have sections of their own and are not
\* written by hand; the curated setting's default is not the empty string.
SettingsHypothesis ==
    /\ {"saves", "hand", "elsewhere"} \cap SettingRaces = {}
    /\ {"read", "tear", "default", "clobber"} \cap SettingFaults = {}
    /\ {"shared", "plain"} \cap RawForms = {}
    /\ ~Blank
    /\ Settings!Array \notin HandKeys

LEMMA SettingKeys ==
    /\ Settings!Keys = {"rate", "port", "fog", "+mod"} /\ Settings!Array = "+mod"
    /\ Settings!Plain = {"rate", "port", "fog"} /\ Settings!Curated = {"rate"}
    /\ Settings!DirectorKeys = {"grace", "password", "host"}
    /\ Settings!Files = {"game", "overrides", "engine"}
    /\ Settings!Values = 1..2 /\ Settings!None = 0
BY DEF Settings!Keys, Settings!Array, Settings!Plain, Settings!Curated, Settings!DirectorKeys,
       Settings!Files, Settings!Values, Settings!None

LEMMA EmptyFile == Settings!Empty \in File
<1>1. <<>> \in OneLine /\ <<>> \in Seq(Numbers) /\ 0 \in Numbers  BY DEF OneLine, Numbers
<1> QED  BY <1>1, SettingKeys DEF Settings!Empty, File, FileRecord

LEMMA NoUpdates == <<>> \in SettingUpdates /\ DOMAIN <<>> = {}
<1>1. DOMAIN <<>> = {}  OBVIOUS
<1>2. <<>> = [k \in {} |-> 0]  OBVIOUS
<1>3. <<>> \in [{} -> Numbers]  BY <1>2
<1> QED  BY <1>1, <1>3 DEF SettingUpdates

LEMMA IdleRequest == Settings!Idle \in SettingRequest /\ Formed(Settings!Idle)
<1>1. Settings!Idle \in SettingRequest
  BY EmptyFile, NoUpdates DEF Settings!Idle, SettingRequest
<1>2. DOMAIN Settings!Idle.updates = {} /\ Settings!Idle.pc = "idle" /\ Settings!Idle.kind = "save"
  BY NoUpdates DEF Settings!Idle
<1> QED  BY <1>1, <1>2 DEF Formed, InFiles

\* The file a key belongs to.
PlaceOf(k) == Settings!FileOf(k, TRUE)

LEMMA Homes ==
    ASSUME SettingsHypothesis, SettingsTypes
    PROVE  /\ Settings!GameFile \in {"game", "overrides"}
           /\ sPlane = "amp" <=> Settings!GameFile = "overrides"
           /\ PlaceOf("fog") = "engine"
           /\ \A k \in {"rate", "port", "+mod"} : PlaceOf(k) = Settings!GameFile
           /\ Settings!Section("+mod") = "mods"
           /\ \A k \in Settings!Plain : Settings!Section(k) # "mods"
BY SettingKeys DEF PlaceOf, Settings!FileOf, Settings!IsEngine, Settings!Section, Settings!GameFile,
       SettingsHypothesis, SettingsTypes

-----------------------------------------------------------------------------
(* Server settings: what a save makes of a file                            *)

\* The value of a key in a file.
ValueIn(x, k) == IF x.managed[k] # <<>> THEN Settings!Ending(x.managed[k]) ELSE x.hand[k]

LEMMA LineMerged ==
    ASSUME NEW l \in OneLine, NEW v \in Numbers
    PROVE  /\ Settings!Merge(l, v) = (IF v = 0 THEN <<>> ELSE <<v>>)
           /\ Settings!Merge(l, v) \in OneLine
<1>1. l = <<>> \/ \E x \in 1..2 : l = <<x>>  BY SettingKeys DEF OneLine
<1>2. \A x \in 1..2 : Tail(<<x>>) = <<>> /\ [<<x>> EXCEPT ![1] = v] = <<v>> /\ <<x>> # <<>>
  OBVIOUS
<1>3. Settings!Merge(l, v) = (IF v = 0 THEN <<>> ELSE <<v>>)
  BY <1>1, <1>2, SettingKeys DEF Settings!Merge
<1> QED  BY <1>3, SettingKeys DEF OneLine, Numbers

LEMMA LineIn == OneLine \subseteq Seq(Numbers)
<1>1. \A v \in 1..2 : <<v>> \in Seq(Numbers)  BY DEF Numbers
<1>2. <<>> \in Seq(Numbers)  OBVIOUS
<1> SUFFICES ASSUME NEW l \in OneLine PROVE l \in Seq(Numbers)  OBVIOUS
<1>3. l = <<>> \/ \E v \in 1..2 : l = <<v>>  BY SettingKeys DEF OneLine
<1> QED  BY <1>1, <1>2, <1>3

LEMMA LineLast == \A v \in 1..2 : <<v>> # <<>> /\ Settings!Ending(<<v>>) = v
BY DEF Settings!Ending

\* What a change of a file promises: the named settings have their new values, the
\* others keep theirs, and a line by hand goes only where dune-admin has the key.
Changed(x, y, p) ==
    /\ y \in File
    /\ \A k \in DOMAIN p \cap Settings!Plain : ValueIn(y, k) = p[k]
    /\ \A k \in Settings!Plain \ DOMAIN p : ValueIn(y, k) = ValueIn(x, k)
    /\ y.managed["+mod"] = IF "+mod" \in DOMAIN p THEN p["+mod"] ELSE x.managed["+mod"]
    /\ \A k \in Settings!Keys :
         /\ y.managed[k] # <<>> => k \in DOMAIN p \/ x.managed[k] # <<>>
         /\ y.hand[k] # x.hand[k] => /\ y.hand[k] = 0
                                     /\ k \in DOMAIN p \/ x.managed[k] # <<>>
         /\ k \notin DOMAIN p => y.managed[k] = x.managed[k]

LEMMA SaveChanges ==
    ASSUME NEW x \in File, NEW p, DOMAIN p \subseteq Settings!Plain,
           \A k \in DOMAIN p : p[k] \in Numbers
    PROVE  Changed(x, Settings!ApplyUpdates(x, p), p)
<1> DEFINE y == Settings!ApplyUpdates(x, p)
           m == Settings!Merged(x, p)
<1> USE SettingKeys
<1>1. /\ x.hand \in [Settings!Keys -> Numbers] /\ x.managed \in [Settings!Keys -> Seq(Numbers)]
      /\ \A k \in Settings!Plain : x.managed[k] \in OneLine
  BY DEF File, FileRecord
<1>2. m = [k \in Settings!Keys |-> IF k \in DOMAIN p THEN Settings!Merge(x.managed[k], p[k])
                                   ELSE x.managed[k]]
  BY DEF Settings!Merged
<1>3. \A k \in DOMAIN p : m[k] = (IF p[k] = 0 THEN <<>> ELSE <<p[k]>>) /\ m[k] \in OneLine
  <2> SUFFICES ASSUME NEW k \in DOMAIN p
               PROVE  m[k] = (IF p[k] = 0 THEN <<>> ELSE <<p[k]>>) /\ m[k] \in OneLine
    OBVIOUS
  <2>1. m[k] = Settings!Merge(x.managed[k], p[k])  BY <1>2
  <2>2. x.managed[k] \in OneLine /\ p[k] \in Numbers  BY <1>1
  <2> HIDE DEF m
  <2> QED  BY <2>1, <2>2, LineMerged
<1>4. \A k \in Settings!Keys \ DOMAIN p : m[k] = x.managed[k]  BY <1>2
<1>5. /\ y.managed = m
      /\ y.hand = [k \in Settings!Keys |->
                     IF k \in Settings!Owned(m) \cup Settings!Cleared(p) THEN 0 ELSE x.hand[k]]
  BY DEF Settings!ApplyUpdates, Settings!Strip
<1>6. /\ Settings!Owned(m) = {k \in Settings!Keys : m[k] # <<>>}
      /\ Settings!Cleared(p) = {k \in DOMAIN p : p[k] = 0}
  BY DEF Settings!Owned, Settings!Cleared
<1>7. y = [managed |-> y.managed, hand |-> y.hand]  BY DEF Settings!ApplyUpdates
<1> HIDE DEF y, m
<1>8. m \in [Settings!Keys -> Seq(Numbers)] /\ \A k \in Settings!Plain : m[k] \in OneLine
  BY <1>1, <1>2, <1>3, <1>4, LineIn
<1>9. y.hand \in [Settings!Keys -> Numbers]  BY <1>1, <1>5 DEF Numbers
<1>10. y \in File  BY <1>5, <1>7, <1>8, <1>9 DEF File, FileRecord
<1>11. \A k \in DOMAIN p : ValueIn(y, k) = p[k]
  <2> SUFFICES ASSUME NEW k \in DOMAIN p PROVE ValueIn(y, k) = p[k]  OBVIOUS
  <2>1. k \in Settings!Keys /\ p[k] \in 0..2  BY DEF Numbers
  <2>2. CASE p[k] = 0  BY <1>3, <1>5, <1>6, <2>1, <2>2 DEF ValueIn
  <2>3. CASE p[k] # 0  BY <1>3, <1>5, <2>1, <2>3, LineLast DEF ValueIn
  <2> QED  BY <2>2, <2>3
<1>12. \A k \in Settings!Plain \ DOMAIN p : ValueIn(y, k) = ValueIn(x, k)
  BY <1>4, <1>5, <1>6 DEF ValueIn
<1>13. \A k \in Settings!Keys :
         /\ y.managed[k] # <<>> => k \in DOMAIN p \/ x.managed[k] # <<>>
         /\ y.hand[k] # x.hand[k] => y.hand[k] = 0 /\ (k \in DOMAIN p \/ x.managed[k] # <<>>)
         /\ k \notin DOMAIN p => y.managed[k] = x.managed[k]
  BY <1>4, <1>5, <1>6
<1>14. "+mod" \notin DOMAIN p /\ y.managed["+mod"] = x.managed["+mod"]  BY <1>4, <1>5
<1> QED  BY <1>10, <1>11, <1>12, <1>13, <1>14 DEF Changed, y

LEMMA RawChanges ==
    ASSUME SettingsHypothesis, SettingsTypes, NEW x \in File, NEW p,
           DOMAIN p = {"+mod"}, p["+mod"] \in Seq(Numbers)
    PROVE  Changed(x, Settings!ApplyRaw(x, "mods", p), p)
<1> DEFINE y == Settings!ApplyRaw(x, "mods", p)
           m == [k \in Settings!Keys |-> IF k \in DOMAIN p THEN p[k]
                                         ELSE IF Settings!Section(k) = "mods" THEN <<>>
                                         ELSE x.managed[k]]
<1> USE SettingKeys
<1>1. /\ x.hand \in [Settings!Keys -> Numbers] /\ x.managed \in [Settings!Keys -> Seq(Numbers)]
      /\ \A k \in Settings!Plain : x.managed[k] \in OneLine
  BY DEF File, FileRecord
<1>2. m["+mod"] = p["+mod"] /\ \A k \in Settings!Plain : m[k] = x.managed[k]  BY Homes
<1>3. /\ y.managed = m
      /\ y.hand = [k \in Settings!Keys |-> IF k \in Settings!Owned(m) THEN 0 ELSE x.hand[k]]
      /\ y = [managed |-> y.managed, hand |-> y.hand]
  BY DEF Settings!ApplyRaw, Settings!Strip
<1>4. Settings!Owned(m) = {k \in Settings!Keys : m[k] # <<>>}  BY DEF Settings!Owned
<1>5. DOMAIN m = Settings!Keys /\ m \in [Settings!Keys -> Seq(Numbers)]  BY <1>1, <1>2
<1> HIDE DEF y, m
<1>6. y.hand \in [Settings!Keys -> Numbers]  BY <1>1, <1>3 DEF Numbers
<1>7. y \in File  BY <1>1, <1>2, <1>3, <1>5, <1>6 DEF File, FileRecord
<1>8. \A k \in Settings!Plain : ValueIn(y, k) = ValueIn(x, k)  BY <1>2, <1>3, <1>4 DEF ValueIn
<1>9. \A k \in Settings!Keys :
         /\ y.managed[k] # <<>> => k \in DOMAIN p \/ x.managed[k] # <<>>
         /\ y.hand[k] # x.hand[k] => y.hand[k] = 0 /\ (k \in DOMAIN p \/ x.managed[k] # <<>>)
         /\ k \notin DOMAIN p => y.managed[k] = x.managed[k]
  BY <1>2, <1>3, <1>4
<1> QED  BY <1>2, <1>3, <1>7, <1>8, <1>9 DEF Changed, y

-----------------------------------------------------------------------------
(* Server settings: the invariant                                          *)

\* What the page shows of a key, by where the key has its place.
View(k) ==
    IF k \in Settings!DirectorKeys THEN sDirector[k]
    ELSE IF k = "+mod" THEN sDisk[Settings!GameFile].managed["+mod"]
    ELSE IF sPlane = "amp" /\ k = "rate" THEN sAmp["rate"]
    ELSE ValueIn(sDisk[PlaceOf(k)], k)

\* No file but its own has a key; AMP's files are regenerated with the curated one.
PlaceInv ==
    /\ \A k \in Settings!Keys, f \in Settings!Files : f # PlaceOf(k) =>
          /\ sDisk[f].managed[k] = <<>>
          /\ sDisk[f].hand[k] = 0 \/ (k = "rate" /\ sPlane = "amp")
    /\ \A f \in Settings!Files : sDisk[f].hand["+mod"] = 0

\* dune-admin has lines only of keys it was asked to set.
TouchedInv ==
    /\ \A f \in Settings!Files, k \in Settings!Keys :
          /\ sDisk[f].managed[k] # <<>> => k \in sTouched
          /\ k \in sTouched \/ sDisk[f].hand[k] = sWrote[f][k]
    /\ \A r \in Saves : DOMAIN sRequest[r].updates \subseteq sTouched

OneSave == \A r, s \in Saves : sRequest[r].pc # "idle" /\ sRequest[s].pc # "idle" => r = s

\* What a request is about to write over is what it read, and concerns it.
ReadInv ==
    \A r \in Saves :
        /\ sRequest[r].pc = "write game" =>
              /\ sRequest[r].read = sDisk[Settings!GameFile]
              /\ Settings!InFile(sRequest[r], Settings!GameFile)
        /\ sRequest[r].pc = "write engine" =>
              /\ sRequest[r].read = sDisk["engine"]
              /\ Settings!InFile(sRequest[r], "engine")

\* Every setting is what it may be, or what the request under way makes of it; of
\* the first file's settings the latter, once that file is written.
WantInv ==
    \A k \in AllKeys :
        \/ View(k) \in sWant[k]
        \/ \E r \in Saves : /\ k \in Settings!Changes(sRequest[r])
                            /\ View(k) = sRequest[r].updates[k]
WroteInv ==
    \A r \in Saves : sRequest[r].pc \in {"read engine", "write engine"} =>
        \A k \in DOMAIN sRequest[r].updates :
            PlaceOf(k) = Settings!GameFile => View(k) = sRequest[r].updates[k]

SettingsInv ==
    SettingsTypes /\ PlaceInv /\ TouchedInv /\ OneSave /\ ReadInv /\ WantInv /\ WroteInv

\* The page's view is where the keys have their place.
ShownInv ==
    /\ \A k \in Settings!Plain \cup Settings!DirectorKeys : Settings!Shown(k) = View(k)
    /\ Settings!Mods = View("+mod")

LEMMA ShownIsView == SettingsHypothesis /\ SettingsTypes /\ PlaceInv => ShownInv
<1> SUFFICES ASSUME SettingsHypothesis, SettingsTypes, PlaceInv PROVE ShownInv  OBVIOUS
<1> USE SettingKeys
<1>1. \A f \in Settings!Files, k \in Settings!Keys :
         Settings!FileValue(sDisk, f, k) = ValueIn(sDisk[f], k)
  BY DEF Settings!FileValue, ValueIn
<1>2. ASSUME NEW k \in Settings!Plain, ~(sPlane = "amp" /\ k = "rate")
      PROVE  Settings!Layered(sDisk, k) = ValueIn(sDisk[PlaceOf(k)], k)
  <2>1. PlaceOf(k) \in Settings!Files  BY Homes
  <2>2. \A f \in Settings!Files \ {PlaceOf(k)} : Settings!FileValue(sDisk, f, k) = 0
    BY <1>2 DEF PlaceInv, Settings!FileValue
  <2>3. Settings!FileValue(sDisk, PlaceOf(k), k) = ValueIn(sDisk[PlaceOf(k)], k)  BY <1>1, <2>1
  <2>4. CASE PlaceOf(k) = "overrides"  BY <2>2, <2>3, <2>4 DEF Settings!Layered
  <2>5. CASE PlaceOf(k) = "game"  BY <2>2, <2>3, <2>5 DEF Settings!Layered
  <2>6. CASE PlaceOf(k) = "engine"  BY <2>2, <2>3, <2>6 DEF Settings!Layered
  <2> QED  BY <2>1, <2>4, <2>5, <2>6
<1>3. \A k \in Settings!Plain \cup Settings!DirectorKeys : Settings!Shown(k) = View(k)
  BY <1>2 DEF Settings!Shown, View, SettingsHypothesis
<1>4. Settings!Mods = View("+mod")
  <2>1. \A f \in Settings!Files : sDisk[f].managed["+mod"] \in Seq(Numbers)
    BY DEF SettingsTypes, File, FileRecord
  <2>2. \A f \in Settings!Files : Settings!Lines(f) = sDisk[f].managed["+mod"]
    <3> SUFFICES ASSUME NEW f \in Settings!Files
                 PROVE  Settings!Lines(f) = sDisk[f].managed["+mod"]
      OBVIOUS
    <3>1. sDisk[f].hand["+mod"] = 0  BY DEF PlaceInv
    <3>2. Settings!Lines(f) = <<>> \o sDisk[f].managed["+mod"]  BY <3>1 DEF Settings!Lines
    <3> DEFINE l == sDisk[f].managed["+mod"]
    <3>3. l \in Seq(Numbers)  BY <2>1
    <3> HIDE DEF l
    <3>4. <<>> \o l = l  BY <3>3
    <3> QED  BY <3>2, <3>4 DEF l
  <2>3. \A f \in Settings!Files \ {Settings!GameFile} : sDisk[f].managed["+mod"] = <<>>
    BY Homes DEF PlaceInv
  <2>4. Settings!GameFile \in {"game", "overrides"}  BY Homes
  <2> DEFINE d(f) == sDisk[f].managed["+mod"]
  <2>5. Settings!Mods = d("engine") \o d("game") \o d("overrides")  BY <2>2 DEF Settings!Mods
  <2>6. /\ d("engine") = <<>> /\ d("game") \in Seq(Numbers) /\ d("overrides") \in Seq(Numbers)
        /\ d("game") = <<>> \/ d("overrides") = <<>>
    BY <2>1, <2>3, <2>4
  <2>7. View("+mod") = d(Settings!GameFile)  BY DEF View
  <2> HIDE DEF d
  <2>8. CASE Settings!GameFile = "game"
    <3>1. d("overrides") = <<>>  BY <2>3, <2>8 DEF d
    <3> QED  BY <2>5, <2>6, <2>7, <2>8, <3>1
  <2>9. CASE Settings!GameFile = "overrides"
    <3>1. d("game") = <<>>  BY <2>3, <2>9 DEF d
    <3> QED  BY <2>5, <2>6, <2>7, <2>9, <3>1
  <2> QED  BY <2>4, <2>8, <2>9
<1> QED  BY <1>3, <1>4 DEF ShownInv

LEMMA TargetIs ==
    ASSUME NEW q, Formed(q)
    PROVE  \A k \in DOMAIN q.updates : Settings!Target(q, k) = q.updates[k]
BY SettingKeys DEF Formed, Settings!Target

LEMMA ChangesAre ==
    ASSUME NEW q, Formed(q), q.kind \in {"save", "raw"}
    PROVE  Settings!Changes(q) = DOMAIN q.updates
BY SettingKeys DEF Formed, Settings!Changes, Settings!Named, Settings!ReadOnly

\* While a request is under way the others name nothing.
LEMMA OnlyOne ==
    ASSUME SettingsTypes, OneSave, WantInv, NEW r \in Saves, sRequest[r].pc # "idle"
    PROVE  /\ \A s \in Saves \ {r} : sRequest[s].pc = "idle" /\ DOMAIN sRequest[s].updates = {}
           /\ \A k \in AllKeys : \/ View(k) \in sWant[k]
                                 \/ /\ k \in Settings!Changes(sRequest[r])
                                    /\ View(k) = sRequest[r].updates[k]
<1>1. \A s \in Saves \ {r} : sRequest[s].pc = "idle" /\ DOMAIN sRequest[s].updates = {}
  BY DEF OneSave, SettingsTypes, Formed
<1>2. \A s \in Saves \ {r} : Settings!Changes(sRequest[s]) = {}
  BY <1>1 DEF Settings!Changes, Settings!Named
<1> QED  BY <1>1, <1>2 DEF WantInv

LEMMA QuietWant ==
    ASSUME SettingsTypes, WantInv, Settings!Quiet
    PROVE  \A k \in AllKeys : View(k) \in sWant[k]
<1>1. \A s \in Saves : DOMAIN sRequest[s].updates = {}
  BY DEF Settings!Quiet, Settings!At, SettingsTypes, Formed
<1>2. \A s \in Saves : Settings!Changes(sRequest[s]) = {}
  BY <1>1 DEF Settings!Changes, Settings!Named
<1> QED  BY <1>2 DEF WantInv

\* A file is written with what was asked: the view changes so, and nothing else.
LEMMA FileWritten ==
    ASSUME SettingsHypothesis, SettingsTypes, PlaceInv, TouchedInv,
           NEW f \in {"engine", Settings!GameFile}, NEW q \in SettingRequest, Formed(q),
           q.pc \in InFiles, q.known, q.read = sDisk[f], Settings!InFile(q, f),
           DOMAIN q.updates \subseteq sTouched,
           sDisk' = [sDisk EXCEPT ![f] = Settings!New(q, f)],
           UNCHANGED <<sPlane, sAmp, sDirector, sTouched, sWrote>>
    PROVE  /\ sDisk' \in [Settings!Files -> File]
           /\ PlaceInv'
           /\ \A g \in Settings!Files, k \in Settings!Keys :
                /\ sDisk'[g].managed[k] # <<>> => k \in sTouched
                /\ k \in sTouched \/ sDisk'[g].hand[k] = sWrote[g][k]
           /\ \A k \in AllKeys :
                View(k)' = IF k \in DOMAIN q.updates /\ PlaceOf(k) = f THEN q.updates[k] ELSE View(k)
<1> USE SettingKeys
<1> DEFINE p == Settings!Part(q, f)
           y == Settings!New(q, f)
<1>1. /\ p = [k \in {k \in DOMAIN q.updates : PlaceOf(k) = f} |-> q.updates[k]]
      /\ DOMAIN p # {}
  <2>1. q.known = TRUE  BY DEF SettingRequest
  <2>2. {k \in DOMAIN q.updates : Settings!FileOf(k, q.known) = f}
          = {k \in DOMAIN q.updates : PlaceOf(k) = f}
    BY <2>1 DEF PlaceOf
  <2> QED  BY <2>2 DEF Settings!Part, Settings!Restrict, Settings!Named, Settings!InFile
<1>2. /\ DOMAIN p = {k \in DOMAIN q.updates : PlaceOf(k) = f}
      /\ \A k \in DOMAIN p : p[k] = q.updates[k]
  BY <1>1
<1>3. f \in Settings!Files /\ sDisk[f] \in File  BY Homes DEF SettingsTypes
<1>4. Changed(sDisk[f], y, p)
  <2>1. CASE q.kind = "save"
    <3>1. /\ DOMAIN p \subseteq Settings!Plain /\ \A k \in DOMAIN p : p[k] \in Numbers
          /\ y = Settings!ApplyUpdates(sDisk[f], p)
      BY <1>2, <2>1 DEF Formed, Settings!New
    <3> HIDE DEF p, y
    <3> QED  BY <1>3, <3>1, SaveChanges
  <2>2. CASE q.kind = "raw"
    <3>1. DOMAIN q.updates = {"+mod"} /\ q.updates["+mod"] \in Seq(Numbers)
      BY <2>2 DEF Formed
    <3>2. DOMAIN p = {"+mod"} /\ p["+mod"] \in Seq(Numbers)
      BY <1>1, <1>2, <3>1
    <3>3. (CHOOSE k \in Settings!Named(q) : TRUE) = "+mod"  BY <3>1 DEF Settings!Named
    <3>4. y = Settings!ApplyRaw(sDisk[f], "mods", p)
      BY <2>2, <3>3, Homes DEF Settings!New
    <3> HIDE DEF p, y
    <3> QED  BY <1>3, <3>2, <3>4, RawChanges
  <2> QED  BY <2>1, <2>2 DEF Formed
<1> HIDE DEF p, y
<1>5. /\ sDisk'[f] = y /\ \A g \in Settings!Files \ {f} : sDisk'[g] = sDisk[g]
      /\ y \in File /\ sDisk' \in [Settings!Files -> File]
  BY <1>3, <1>4 DEF y, Changed, SettingsTypes
<1>6. Settings!GameFile' = Settings!GameFile /\ \A k \in AllKeys : PlaceOf(k)' = PlaceOf(k)
  BY DEF Settings!GameFile, PlaceOf, Settings!FileOf, Settings!IsEngine, Settings!Section
<1>7. DOMAIN p \subseteq Settings!Keys /\ \A k \in DOMAIN p : PlaceOf(k) = f
  BY <1>2 DEF Formed
<1>8. \A k \in Settings!Keys :
         /\ y.managed[k] # <<>> => k \in DOMAIN p \/ sDisk[f].managed[k] # <<>>
         /\ y.hand[k] # sDisk[f].hand[k] =>
                y.hand[k] = 0 /\ (k \in DOMAIN p \/ sDisk[f].managed[k] # <<>>)
         /\ k \notin DOMAIN p => y.managed[k] = sDisk[f].managed[k]
  BY <1>4 DEF Changed
<1>9. PlaceInv'
  <2>1. ASSUME NEW k \in Settings!Keys, NEW g \in Settings!Files, g # PlaceOf(k)
        PROVE  /\ sDisk'[g].managed[k] = <<>>
               /\ sDisk'[g].hand[k] = 0 \/ (k = "rate" /\ sPlane = "amp")
    <3>1. CASE g # f  BY <1>5, <2>1, <3>1 DEF PlaceInv
    <3>2. CASE g = f
      <4>1. k \notin DOMAIN p /\ sDisk[f].managed[k] = <<>>
        BY <1>7, <2>1, <3>2 DEF PlaceInv
      <4> QED  BY <1>5, <1>8, <2>1, <3>2, <4>1 DEF PlaceInv
    <3> QED  BY <3>1, <3>2
  <2>2. \A g \in Settings!Files : sDisk'[g].hand["+mod"] = 0
    BY <1>5, <1>8 DEF PlaceInv
  <2>3. \A k \in Settings!Keys : PlaceOf(k)' = PlaceOf(k)  BY <1>6 DEF AllKeys
  <2> QED  BY <2>1, <2>2, <2>3 DEF PlaceInv
<1>10. \A g \in Settings!Files, k \in Settings!Keys :
          /\ sDisk'[g].managed[k] # <<>> => k \in sTouched
          /\ k \in sTouched \/ sDisk'[g].hand[k] = sWrote[g][k]
  <2>1. DOMAIN p \subseteq sTouched  BY <1>2
  <2>2. \A g \in Settings!Files \ {f}, k \in Settings!Keys :
          /\ sDisk'[g].managed[k] # <<>> => k \in sTouched
          /\ k \in sTouched \/ sDisk'[g].hand[k] = sWrote[g][k]
    BY <1>5 DEF TouchedInv
  <2>3. \A k \in Settings!Keys :
          /\ y.managed[k] # <<>> => k \in sTouched
          /\ k \in sTouched \/ y.hand[k] = sWrote[f][k]
    BY <1>3, <1>8, <2>1 DEF TouchedInv
  <2> QED  BY <1>5, <2>2, <2>3
<1>11. ASSUME NEW k \in AllKeys
       PROVE  View(k)' = IF k \in DOMAIN q.updates /\ PlaceOf(k) = f THEN q.updates[k] ELSE View(k)
  <2>1. CASE k \in Settings!DirectorKeys
    BY <2>1 DEF View, Formed
  <2>2. CASE k = "+mod"
    <3>1. View(k)' = sDisk'[Settings!GameFile].managed["+mod"] /\ PlaceOf(k) = Settings!GameFile
      BY <1>6, <2>2, Homes DEF View
    <3>2. CASE f = Settings!GameFile
      BY <1>2, <1>4, <1>5, <2>2, <3>1, <3>2 DEF Changed, View
    <3>3. CASE f # Settings!GameFile
      BY <1>5, <2>2, <3>1, <3>3, Homes DEF View
    <3> QED  BY <3>2, <3>3
  <2>3. CASE k \in Settings!Plain
    <3>1. CASE sPlane = "amp" /\ k = "rate"
      BY <2>3, <3>1 DEF View, Formed
    <3>2. CASE ~(sPlane = "amp" /\ k = "rate")
      <4>1. /\ View(k)' = ValueIn(sDisk'[PlaceOf(k)], k) /\ View(k) = ValueIn(sDisk[PlaceOf(k)], k)
            /\ PlaceOf(k) \in Settings!Files
        BY <1>6, <2>3, <3>2, Homes DEF View, ValueIn
      <4>2. CASE PlaceOf(k) # f  BY <1>5, <4>1, <4>2 DEF ValueIn
      <4>3. CASE PlaceOf(k) = f /\ k \in DOMAIN q.updates
        BY <1>2, <1>4, <1>5, <2>3, <4>1, <4>3 DEF Changed
      <4>4. CASE PlaceOf(k) = f /\ k \notin DOMAIN q.updates
        BY <1>2, <1>4, <1>5, <2>3, <4>1, <4>4 DEF Changed
      <4> QED  BY <4>2, <4>3, <4>4
    <3> QED  BY <3>1, <3>2
  <2> QED  BY <2>1, <2>2, <2>3 DEF AllKeys
<1> QED  BY <1>5, <1>9, <1>10, <1>11

-----------------------------------------------------------------------------
(* Server settings: the invariant in every step                            *)

LEMMA InitSettings == SettingsHypothesis /\ Settings!Init => SettingsInv
<1> SUFFICES ASSUME SettingsHypothesis, Settings!Init PROVE SettingsInv  OBVIOUS
<1> USE SettingKeys
<1>1. /\ \A f \in Settings!Files : sDisk[f] = Settings!Empty
      /\ \A r \in Saves : sRequest[r] = Settings!Idle
      /\ \A k \in Settings!Keys : Settings!Empty.hand[k] = 0 /\ Settings!Empty.managed[k] = <<>>
  BY DEF Settings!Init, Settings!Empty
<1>2. SettingsTypes
  <2>1. /\ sDisk \in [Settings!Files -> File] /\ sTorn = {}
        /\ sRequest \in [Saves -> SettingRequest] /\ \A r \in Saves : Formed(sRequest[r])
    BY <1>1, EmptyFile, IdleRequest DEF Settings!Init
  <2>2. sAmp \in [Settings!Curated -> Numbers] /\ sDirector \in [Settings!DirectorKeys -> Numbers]
    BY DEF Settings!Init, Numbers
  <2>3. sWant = [k \in AllKeys |-> sWant[k]]  BY DEF Settings!Init, AllKeys
  <2>4. Settings!Empty.hand \in [Settings!Keys -> Numbers]  BY DEF Settings!Empty, Numbers
  <2>5. sWrote \in [Settings!Files -> [Settings!Keys -> Numbers]]
    BY <2>4 DEF Settings!Init
  <2>6. sPlane \in {"amp", "docker"}  BY DEF Settings!Init
  <2> QED  BY <2>1, <2>2, <2>3, <2>5, <2>6 DEF SettingsTypes
<1>3. PlaceInv  BY <1>1 DEF PlaceInv
<1>4. \A r \in Saves : sRequest[r].pc = "idle" /\ DOMAIN sRequest[r].updates = {}
  BY <1>1, NoUpdates DEF Settings!Idle
<1>5. \A f \in Settings!Files : sWrote[f] = Settings!Empty.hand  BY DEF Settings!Init
<1>6. TouchedInv  BY <1>1, <1>4, <1>5 DEF TouchedInv
<1>7. OneSave /\ ReadInv /\ WroteInv  BY <1>4 DEF OneSave, ReadInv, WroteInv
<1>8. WantInv
  <2> SUFFICES ASSUME NEW k \in AllKeys PROVE View(k) \in sWant[k]  BY DEF WantInv
  <2>1. \A x \in Settings!Plain : sWant[x] = {0}  BY DEF Settings!Init
  <2>2. sWant["+mod"] = {<<>>} /\ \A x \in Settings!DirectorKeys : sWant[x] = {1} /\ sDirector[x] = 1
    BY DEF Settings!Init
  <2>3. sAmp["rate"] = 0  BY DEF Settings!Init
  <2>4. \A x \in Settings!Plain : PlaceOf(x) \in Settings!Files  BY <1>2, Homes
  <2>5. Settings!GameFile \in Settings!Files  BY <1>2, Homes
  <2>6. CASE k \in Settings!DirectorKeys  BY <2>2, <2>6 DEF View
  <2>7. CASE k = "+mod"  BY <1>1, <2>2, <2>5, <2>7 DEF View
  <2>8. CASE k \in Settings!Plain
    <3>1. ValueIn(sDisk[PlaceOf(k)], k) = 0  BY <1>1, <2>4, <2>8 DEF ValueIn
    <3> QED  BY <2>1, <2>3, <2>8, <3>1 DEF View
  <2> QED  BY <2>6, <2>7, <2>8 DEF AllKeys
<1> QED  BY <1>2, <1>3, <1>6, <1>7, <1>8 DEF SettingsInv

\* The view and the files' order depend on the files, AMP and the director alone.
LEMMA ViewKept ==
    ASSUME UNCHANGED <<sPlane, sDisk, sAmp, sDirector>>
    PROVE  /\ \A k \in AllKeys : View(k)' = View(k) /\ PlaceOf(k)' = PlaceOf(k)
           /\ Settings!GameFile' = Settings!GameFile
           /\ PlaceInv => PlaceInv'
BY DEF View, PlaceOf, ValueIn, PlaceInv, Settings!GameFile, Settings!FileOf, Settings!IsEngine,
       Settings!Section

LEMMA OneOnly ==
    ASSUME NEW r \in Saves, \A s \in Saves \ {r} : sRequest'[s].pc = "idle"
    PROVE  OneSave'
<1> SUFFICES ASSUME NEW s \in Saves, NEW t \in Saves,
                    sRequest'[s].pc # "idle", sRequest'[t].pc # "idle"
             PROVE  s = t
  BY DEF OneSave
<1>1. s = r /\ t = r  OBVIOUS
<1> QED  BY <1>1

LEMMA UpdateKeys ==
    ASSUME NEW q \in SettingRequest, Formed(q)
    PROVE  DOMAIN q.updates \subseteq AllKeys
<1>1. q.kind \in {"save", "raw", "director"}  BY DEF SettingRequest
<1> QED  BY <1>1, SettingKeys DEF Formed, AllKeys

LEMMA OneSet ==
    ASSUME SettingsTypes, NEW r \in Saves, NEW q \in SettingRequest, Formed(q),
           sRequest' = [sRequest EXCEPT ![r] = q], sPlane' = sPlane
    PROVE  sRequest' \in [Saves -> SettingRequest] /\ \A s \in Saves : Formed(sRequest[s])'
<1>1. sRequest' \in [Saves -> SettingRequest]  BY DEF SettingsTypes
<1>2. ASSUME NEW s \in Saves PROVE Formed(sRequest[s])'
  <2>1. CASE s = r
    <3>1. sRequest'[s] = q  BY <2>1 DEF SettingsTypes
    <3> QED  BY <3>1 DEF Formed
  <2>2. CASE s # r
    <3>1. sRequest'[s] = sRequest[s] /\ Formed(sRequest[s])  BY <2>2 DEF SettingsTypes
    <3> QED  BY <3>1 DEF Formed
  <2> QED  BY <2>1, <2>2
<1> QED  BY <1>1, <1>2

LEMMA FormsStay ==
    ASSUME SettingsTypes, UNCHANGED <<sPlane, sRequest>>
    PROVE  \A s \in Saves : Formed(sRequest[s])'
<1> SUFFICES ASSUME NEW s \in Saves PROVE Formed(sRequest[s])'  OBVIOUS
<1>1. Formed(sRequest[s])  BY DEF SettingsTypes
<1> QED  BY <1>1 DEF Formed

\* A request begins while no other is under way.
LEMMA SaveBegins ==
    ASSUME SettingsInv, Settings!Quiet, NEW r \in Saves, NEW q \in SettingRequest, Formed(q),
           q.pc \in {"amp", "route", "director"},
           sRequest' = [sRequest EXCEPT ![r] = q],
           sTouched' = sTouched \cup DOMAIN q.updates,
           UNCHANGED <<sPlane, sDisk, sTorn, sAmp, sDirector, sWant, sWrote>>
    PROVE  SettingsInv'
<1> USE DEF SettingsInv
<1>1. \A s \in Saves \ {r} : sRequest'[s] = sRequest[s] /\ sRequest[s].pc = "idle"
  BY DEF SettingsTypes, Settings!Quiet, Settings!At
<1>2. sRequest'[r] = q  BY DEF SettingsTypes
<1>3. SettingsTypes'
  <2>1. sRequest' \in [Saves -> SettingRequest] /\ \A s \in Saves : Formed(sRequest[s])'
    BY OneSet
  <2> QED  BY <2>1 DEF SettingsTypes
<1>4. PlaceInv'  BY ViewKept
<1>5. TouchedInv'
  <2>1. ASSUME NEW s \in Saves PROVE DOMAIN sRequest'[s].updates \subseteq sTouched'
    <3>1. DOMAIN sRequest[s].updates \subseteq sTouched  BY DEF TouchedInv
    <3>2. CASE s = r  BY <1>2, <3>1, <3>2
    <3>3. CASE s # r  BY <1>1, <3>1, <3>3
    <3> QED  BY <3>2, <3>3
  <2>2. \A f \in Settings!Files, k \in Settings!Keys :
           /\ sDisk'[f].managed[k] # <<>> => k \in sTouched'
           /\ k \in sTouched' \/ sDisk'[f].hand[k] = sWrote'[f][k]
    BY DEF TouchedInv
  <2> QED  BY <2>1, <2>2 DEF TouchedInv
<1>6. (OneSave /\ ReadInv /\ WroteInv)'
  <2>1. OneSave'  BY <1>1, OneOnly
  <2>2. \A s \in Saves : sRequest'[s].pc \in {"idle", "amp", "route", "director"}
    BY <1>1, <1>2
  <2>3. ReadInv'  BY <2>2 DEF ReadInv
  <2>4. WroteInv'  BY <2>2 DEF WroteInv
  <2> QED  BY <2>1, <2>3, <2>4
<1>7. WantInv'
  <2>1. \A k \in AllKeys : View(k) \in sWant[k]  BY QuietWant
  <2> QED  BY <2>1, ViewKept DEF WantInv
<1> QED  BY <1>3, <1>4, <1>5, <1>6, <1>7

\* A request moves on and nothing else changes.
LEMMA SaveMoves ==
    ASSUME SettingsInv, NEW r \in Saves, sRequest[r].pc # "idle",
           NEW q \in SettingRequest, Formed(q), q.updates = sRequest[r].updates,
           q.pc \in {"write game", "write engine"} =>
               \E f \in {Settings!GameFile, "engine"} :
                  /\ q.pc = (IF f = "engine" THEN "write engine" ELSE "write game")
                  /\ q.read = sDisk[f] /\ Settings!InFile(q, f),
           q.pc \in {"read engine", "write engine"} =>
               \A k \in DOMAIN q.updates :
                  PlaceOf(k) = Settings!GameFile => View(k) = q.updates[k],
           sRequest' = [sRequest EXCEPT ![r] = q],
           UNCHANGED <<sPlane, sDisk, sTorn, sAmp, sDirector, sWant, sWrote, sTouched>>
    PROVE  SettingsInv'
<1> USE DEF SettingsInv
<1>1. \A s \in Saves \ {r} : sRequest'[s] = sRequest[s] /\ sRequest[s].pc = "idle"
  BY DEF SettingsTypes, OneSave
<1>2. sRequest'[r] = q  BY DEF SettingsTypes
<1>3. SettingsTypes'
  <2>1. sRequest' \in [Saves -> SettingRequest] /\ \A s \in Saves : Formed(sRequest[s])'
    BY OneSet
  <2> QED  BY <2>1 DEF SettingsTypes
<1>4. PlaceInv'  BY ViewKept
<1>5. TouchedInv'
  <2>1. ASSUME NEW s \in Saves PROVE DOMAIN sRequest'[s].updates \subseteq sTouched'
    <3>1. DOMAIN sRequest[s].updates \subseteq sTouched  BY DEF TouchedInv
    <3>2. CASE s = r  BY <1>2, <3>1, <3>2
    <3>3. CASE s # r  BY <1>1, <3>1, <3>3
    <3> QED  BY <3>2, <3>3
  <2>2. \A f \in Settings!Files, k \in Settings!Keys :
           /\ sDisk'[f].managed[k] # <<>> => k \in sTouched'
           /\ k \in sTouched' \/ sDisk'[f].hand[k] = sWrote'[f][k]
    BY DEF TouchedInv
  <2> QED  BY <2>1, <2>2 DEF TouchedInv
<1>6. OneSave'  BY <1>1, OneOnly
<1>7. ReadInv'
  <2>1. Settings!InFile(q, Settings!GameFile)' = Settings!InFile(q, Settings!GameFile)
    BY DEF Settings!InFile, Settings!Part, Settings!FileOf, Settings!GameFile
  <2>2. Settings!InFile(q, "engine")' = Settings!InFile(q, "engine")
    BY DEF Settings!InFile, Settings!Part, Settings!FileOf, Settings!GameFile
  <2>3. Settings!GameFile' = Settings!GameFile /\ Settings!GameFile # "engine"
    BY DEF Settings!GameFile
  <2> QED  BY <1>1, <1>2, <2>1, <2>2, <2>3 DEF ReadInv
<1>8. WroteInv'
  <2> SUFFICES ASSUME NEW s \in Saves, sRequest'[s].pc \in {"read engine", "write engine"},
                      NEW k \in DOMAIN sRequest'[s].updates, PlaceOf(k)' = Settings!GameFile'
               PROVE  View(k)' = sRequest'[s].updates[k]
    BY DEF WroteInv
  <2>1. s = r  BY <1>1
  <2>2. k \in AllKeys  BY <1>2, <2>1, UpdateKeys
  <2> QED  BY <1>2, <2>1, <2>2, ViewKept
<1>9. WantInv'
  <2> SUFFICES ASSUME NEW k \in AllKeys, View(k) \notin sWant[k]
               PROVE  k \in Settings!Changes(q) /\ View(k) = q.updates[k]
    BY <1>2, ViewKept DEF WantInv
  <2>1. k \in Settings!Changes(sRequest[r]) /\ View(k) = sRequest[r].updates[k]
    BY OnlyOne
  <2> QED  BY <2>1 DEF Settings!Changes, Settings!Named
<1> QED  BY <1>3, <1>4, <1>5, <1>6, <1>7, <1>8, <1>9

\* A request ends, and every setting is what it may be.
LEMMA SaveEnds ==
    ASSUME SettingsInv, NEW r \in Saves, sRequest[r].pc # "idle",
           sRequest' = [sRequest EXCEPT ![r] = Settings!Idle],
           sDisk' \in [Settings!Files -> File], sTorn' = {},
           sAmp' = sAmp, sDirector' \in [Settings!DirectorKeys -> Numbers],
           sWant' = [k \in AllKeys |-> sWant'[k]],
           PlaceInv',
           \A g \in Settings!Files, k \in Settings!Keys :
              /\ sDisk'[g].managed[k] # <<>> => k \in sTouched
              /\ k \in sTouched \/ sDisk'[g].hand[k] = sWrote[g][k],
           \A k \in AllKeys : View(k)' \in sWant'[k],
           UNCHANGED <<sPlane, sWrote, sTouched>>
    PROVE  SettingsInv'
<1> USE DEF SettingsInv
<1>1. \A s \in Saves \ {r} : sRequest'[s] = sRequest[s] /\ sRequest[s].pc = "idle"
  BY DEF SettingsTypes, OneSave
<1>2. sRequest'[r] = Settings!Idle /\ Settings!Idle.pc = "idle" /\ DOMAIN Settings!Idle.updates = {}
  BY NoUpdates DEF SettingsTypes, Settings!Idle
<1>3. SettingsTypes'
  <2>1. sRequest' \in [Saves -> SettingRequest] /\ \A s \in Saves : Formed(sRequest[s])'
    BY OneSet, IdleRequest
  <2> QED  BY <2>1 DEF SettingsTypes
<1>4. TouchedInv'  BY <1>1, <1>2 DEF TouchedInv
<1>5. (OneSave /\ ReadInv /\ WroteInv)'
  <2>1. OneSave'  BY <1>1, OneOnly
  <2>2. \A s \in Saves : sRequest'[s].pc = "idle"  BY <1>1, <1>2
  <2>3. ReadInv'  BY <2>2 DEF ReadInv
  <2>4. WroteInv'  BY <2>2 DEF WroteInv
  <2> QED  BY <2>1, <2>3, <2>4
<1>6. WantInv'  BY DEF WantInv
<1> QED  BY <1>3, <1>4, <1>5, <1>6

LEMMA Answered ==
    ASSUME SettingsInv, NEW r \in Saves, sRequest[r].pc # "idle", NEW ok \in BOOLEAN,
           Settings!Answer(r, ok),
           \A k \in AllKeys : \/ View(k)' = View(k)
                              \/ /\ k \in Settings!Changes(sRequest[r])
                                 /\ View(k)' = sRequest[r].updates[k],
           ok => \A k \in Settings!Changes(sRequest[r]) : View(k)' = sRequest[r].updates[k]
    PROVE  /\ sRequest' = [sRequest EXCEPT ![r] = Settings!Idle]
           /\ sWant' = [k \in AllKeys |-> sWant'[k]]
           /\ \A k \in AllKeys : View(k)' \in sWant'[k]
<1> USE DEF SettingsInv
<1> DEFINE q == sRequest[r]
<1>1. /\ sRequest' = [sRequest EXCEPT ![r] = Settings!Idle]
      /\ sWant' = [k \in DOMAIN sWant |->
                     IF k \notin Settings!Changes(q) THEN sWant[k]
                     ELSE IF ok THEN {Settings!Target(q, k)}
                     ELSE sWant[k] \cup {Settings!Target(q, k)}]
  BY DEF Settings!Answer, Settings!Set
<1>2. DOMAIN sWant = AllKeys  BY DEF SettingsTypes
<1>3. /\ Formed(q) /\ q \in SettingRequest  BY DEF SettingsTypes
<1>4. Settings!Changes(q) \subseteq DOMAIN q.updates
  BY DEF Settings!Changes, Settings!Named
<1>5. \A k \in Settings!Changes(q) : Settings!Target(q, k) = q.updates[k]
  BY <1>3, <1>4, TargetIs
<1>6. ASSUME NEW k \in AllKeys PROVE View(k)' \in sWant'[k]
  <2>1. CASE k \in Settings!Changes(q)
    <3>1. View(k) \in sWant[k] \/ View(k) = q.updates[k]  BY OnlyOne
    <3> QED  BY <1>1, <1>2, <1>5, <2>1, <3>1
  <2>2. CASE k \notin Settings!Changes(q)
    <3>1. View(k) \in sWant[k] /\ View(k)' = View(k)  BY <2>2, OnlyOne
    <3> QED  BY <1>1, <1>2, <2>2, <3>1
  <2> QED  BY <2>1, <2>2
<1> QED  BY <1>1, <1>2, <1>6

\* A request is answered and nothing else changes.
LEMMA AnsweredOnly ==
    ASSUME SettingsInv, NEW r \in Saves, sRequest[r].pc # "idle", NEW ok \in BOOLEAN,
           Settings!Answer(r, ok),
           ok => \A k \in Settings!Changes(sRequest[r]) : View(k) = sRequest[r].updates[k],
           UNCHANGED <<sPlane, sDisk, sTorn, sAmp, sDirector, sWrote, sTouched>>
    PROVE  SettingsInv'
<1>1. /\ \A k \in AllKeys : View(k)' = View(k)
      /\ PlaceInv => PlaceInv'
  BY ViewKept
<1>2. Settings!Changes(sRequest[r]) \subseteq AllKeys
  <2>1. sRequest[r] \in SettingRequest /\ Formed(sRequest[r])  BY DEF SettingsInv, SettingsTypes
  <2> QED  BY <2>1, UpdateKeys DEF Settings!Changes, Settings!Named
<1>3. /\ sRequest' = [sRequest EXCEPT ![r] = Settings!Idle]
      /\ sWant' = [k \in AllKeys |-> sWant'[k]]
      /\ \A k \in AllKeys : View(k)' \in sWant'[k]
  BY <1>1, <1>2, Answered
<1>4. \A g \in Settings!Files, k \in Settings!Keys :
         /\ sDisk'[g].managed[k] # <<>> => k \in sTouched
         /\ k \in sTouched \/ sDisk'[g].hand[k] = sWrote[g][k]
  BY DEF SettingsInv, TouchedInv
<1>5. /\ sDisk' \in [Settings!Files -> File] /\ sTorn' = {} /\ PlaceInv'
      /\ sDirector' \in [Settings!DirectorKeys -> Numbers] /\ sAmp' = sAmp
      /\ UNCHANGED <<sPlane, sWrote, sTouched>>
  BY <1>1 DEF SettingsInv, SettingsTypes
<1> QED  BY <1>3, <1>4, <1>5, SaveEnds

LEMMA UpdateForms ==
    /\ \A S \in SUBSET Settings!Plain : [S -> Numbers] \subseteq SettingUpdates
    /\ [{Settings!Array} -> Seq(Numbers)] \subseteq SettingUpdates
    /\ \A S \in SUBSET Settings!DirectorKeys : [S -> Numbers] \subseteq SettingUpdates
<1> DEFINE A == UNION {[S -> Numbers] : S \in SUBSET Settings!Plain}
           B == [{Settings!Array} -> Seq(Numbers)]
           C == UNION {[S -> Numbers] : S \in SUBSET Settings!DirectorKeys}
<1>1. SettingUpdates = A \cup B \cup C  BY DEF SettingUpdates
<1>2. \A S \in SUBSET Settings!Plain : [S -> Numbers] \subseteq A  OBVIOUS
<1>3. \A S \in SUBSET Settings!DirectorKeys : [S -> Numbers] \subseteq C  OBVIOUS
<1> HIDE DEF A, B, C
<1>4. B \subseteq SettingUpdates  BY <1>1
<1>5. A \subseteq SettingUpdates /\ C \subseteq SettingUpdates  BY <1>1
<1> QED  BY <1>2, <1>3, <1>4, <1>5 DEF B

LEMMA StepBegins ==
    ASSUME SettingsHypothesis, SettingsInv, NEW r \in Saves,
           \/ \E u \in Settings!PlainUpdates : Settings!Save(r, u)
           \/ \E lines \in Settings!RawLines : Settings!SaveRaw(r, lines)
           \/ \E k \in Settings!DirectorKeys :
                 Settings!EditDirector(r, [d \in {"grace", k} |-> 2])
    PROVE  SettingsInv'
<1> USE SettingKeys
<1>1. ASSUME NEW kind \in {"save", "raw", "director"}, NEW u \in SettingUpdates,
             NEW at \in {"amp", "route", "director"}, Settings!Begin(r, kind, u, at),
             Formed([Settings!Idle EXCEPT !.pc = at, !.kind = kind, !.updates = u])
      PROVE  SettingsInv'
  <2> DEFINE q == [Settings!Idle EXCEPT !.pc = at, !.kind = kind, !.updates = u]
  <2>1. q \in SettingRequest /\ q.pc = at /\ q.updates = u
    <3>1. q.pc = at /\ q.updates = u  BY DEF Settings!Idle
    <3>2. at \in InFiles \cup {"idle", "amp", "director", "write director"}  BY DEF InFiles
    <3>3. q \in SettingRequest  BY <3>2, IdleRequest DEF SettingRequest
    <3> QED  BY <3>1, <3>3
  <2>2. /\ Settings!Quiet /\ sRequest' = [sRequest EXCEPT ![r] = q]
        /\ sTouched' = sTouched \cup DOMAIN u
        /\ UNCHANGED <<sPlane, sDisk, sTorn, sAmp, sDirector, sWant, sWrote>>
    BY <1>1 DEF Settings!Begin, Settings!Set, Settings!files, SettingsHypothesis
  <2> HIDE DEF q
  <2>3. Formed(q)  BY <1>1 DEF q
  <2> QED  BY <2>1, <2>2, <2>3, SaveBegins
<1>2. ASSUME NEW u \in Settings!PlainUpdates, Settings!Save(r, u) PROVE SettingsInv'
  <2>1. PICK S \in {{"port"}, {"rate", "port"}, {"port", "fog"}} : u \in [S -> 0..2]
    BY DEF Settings!PlainUpdates
  <2>2. S \in SUBSET Settings!Plain /\ u \in [S -> Numbers]  BY <2>1 DEF Numbers
  <2>3. u \in SettingUpdates  BY <2>2 DEF SettingUpdates
  <2> DEFINE at == IF sPlane = "amp" THEN "amp" ELSE "route"
             q == [Settings!Idle EXCEPT !.pc = at, !.kind = "save", !.updates = u]
  <2>4. q.pc = at /\ q.kind = "save" /\ q.updates = u  BY DEF Settings!Idle
  <2> HIDE DEF q
  <2>5. Formed(q)  BY <2>2, <2>4 DEF Formed, InFiles
  <2>6. Settings!Begin(r, "save", u, at)  BY <1>2 DEF Settings!Save
  <2> QED  BY <1>1, <2>3, <2>5, <2>6 DEF q
<1>3. ASSUME NEW lines \in Settings!RawLines, Settings!SaveRaw(r, lines) PROVE SettingsInv'
  <2>1. lines \in [{"+mod"} -> {<<>>, <<1>>, <<2, 1>>}]
    BY DEF Settings!RawLines, SettingsHypothesis
  <2>2. <<>> \in Seq(Numbers) /\ <<1>> \in Seq(Numbers) /\ <<2, 1>> \in Seq(Numbers)
    BY DEF Numbers
  <2>3. lines \in [{"+mod"} -> Seq(Numbers)]  BY <2>1, <2>2
  <2>4. lines \in [{Settings!Array} -> Seq(Numbers)]  BY <2>3
  <2>8. lines \in SettingUpdates  BY <2>4, UpdateForms
  <2> DEFINE q == [Settings!Idle EXCEPT !.pc = "route", !.kind = "raw", !.updates = lines]
  <2>5. q.pc = "route" /\ q.kind = "raw" /\ q.updates = lines  BY DEF Settings!Idle
  <2> HIDE DEF q
  <2>6. Formed(q)  BY <2>3, <2>5 DEF Formed, InFiles
  <2>7. Settings!Begin(r, "raw", lines, "route")  BY <1>3 DEF Settings!SaveRaw
  <2> QED  BY <1>1, <2>6, <2>7, <2>8 DEF q
<1>4. ASSUME NEW k \in Settings!DirectorKeys,
             Settings!EditDirector(r, [d \in {"grace", k} |-> 2])
      PROVE  SettingsInv'
  <2> DEFINE u == [d \in {"grace", k} |-> 2]
             q == [Settings!Idle EXCEPT !.pc = "director", !.kind = "director", !.updates = u]
  <2>1. {"grace", k} \in SUBSET Settings!DirectorKeys /\ u \in [{"grace", k} -> Numbers]
    BY DEF Numbers
  <2> HIDE DEF u
  <2>2. u \in SettingUpdates  BY <2>1, UpdateForms
  <2>3. DOMAIN u \subseteq Settings!DirectorKeys  BY <2>1
  <2>4. Settings!Begin(r, "director", u, "director")  BY <1>4 DEF Settings!EditDirector, u
  <2>5. q.pc = "director" /\ q.kind = "director" /\ q.updates = u  BY DEF Settings!Idle
  <2> HIDE DEF q
  <2>6. Formed(q)  BY <2>3, <2>5 DEF Formed, InFiles
  <2> QED  BY <1>1, <2>2, <2>4, <2>6 DEF q
<1> QED  BY <1>2, <1>3, <1>4

\* What a request that is under way is like.
LEMMA Under ==
    ASSUME SettingsInv, NEW r \in Saves
    PROVE  /\ sRequest[r] \in SettingRequest /\ Formed(sRequest[r])
           /\ DOMAIN sRequest[r].updates \subseteq AllKeys
           /\ DOMAIN sRequest[r].updates \subseteq sTouched
<1>1. sRequest[r] \in SettingRequest /\ Formed(sRequest[r])
  BY DEF SettingsInv, SettingsTypes
<1> QED  BY <1>1, UpdateKeys DEF SettingsInv, TouchedInv

LEMMA StepAmp ==
    ASSUME SettingsHypothesis, SettingsInv, NEW r \in Saves,
           Settings!SetConfig(r) \/ Settings!ApiFails(r) \/ Settings!ConfigSet(r)
    PROVE  SettingsInv'
<1> USE SettingKeys
<1> DEFINE q == sRequest[r]
<1>1. /\ q \in SettingRequest /\ Formed(q) /\ q.pc = "amp"
      /\ q.kind = "save" /\ sPlane = "amp"
      /\ DOMAIN q.updates \subseteq Settings!Plain
      /\ \A k \in DOMAIN q.updates : q.updates[k] \in Numbers
  <2>1. q \in SettingRequest /\ Formed(q)  BY Under
  <2>2. q.pc = "amp"
    BY DEF Settings!SetConfig, Settings!ApiFails, Settings!ConfigSet, Settings!At
  <2> QED  BY <2>1, <2>2 DEF Formed
<1>2. CASE Settings!SetConfig(r)
  <2> DEFINE v == q.updates["rate"]
             left == Settings!Restrict(q.updates, DOMAIN q.updates \ {"rate"})
             n == [q EXCEPT !.updates = left]
  <2>1. /\ "rate" \in DOMAIN q.updates
        /\ sAmp' = [sAmp EXCEPT !["rate"] = v]
        /\ sWant' = [sWant EXCEPT !["rate"] = {v}]
        /\ sRequest' = [sRequest EXCEPT ![r] = n]
        /\ UNCHANGED <<sPlane, sDisk, sTorn, sDirector, sWrote, sTouched>>
    BY <1>2 DEF Settings!SetConfig, Settings!Named, Settings!Set, Settings!files
  <2>2. /\ left = [k \in DOMAIN q.updates \ {"rate"} |-> q.updates[k]]
        /\ v \in Numbers
    BY <1>1, <2>1 DEF Settings!Restrict
  <2> DEFINE D == DOMAIN q.updates \ {"rate"}
  <2>3. D \in SUBSET Settings!Plain /\ left \in [D -> Numbers]  BY <1>1, <2>2
  <2> HIDE DEF D, left
  <2>4. left \in SettingUpdates  BY <2>3, UpdateForms
  <2>5. /\ n \in SettingRequest /\ n.pc = "amp" /\ n.kind = "save" /\ n.updates = left
    BY <1>1, <2>4 DEF SettingRequest
  <2>6. DOMAIN left = D /\ D \subseteq Settings!Plain /\ \A k \in D : left[k] \in Numbers
    BY <2>3
  <2>7. \A k \in D : left[k] = q.updates[k]  BY <2>2 DEF D
  <2> HIDE DEF n
  <2>8. Formed(n)  BY <1>1, <2>5, <2>6 DEF Formed, InFiles
  <2>9. \A s \in Saves \ {r} : sRequest'[s] = sRequest[s] /\ sRequest[s].pc = "idle"
    BY <1>1, <2>1 DEF SettingsInv, SettingsTypes, OneSave
  <2>10. sRequest'[r] = n  BY <2>1 DEF SettingsInv, SettingsTypes
  <2>11. SettingsTypes'
    <3>1. sAmp' \in [Settings!Curated -> Numbers]
      BY <2>1, <2>2 DEF SettingsInv, SettingsTypes
    <3>2. sWant' = [k \in AllKeys |-> sWant'[k]]
      BY <2>1 DEF SettingsInv, SettingsTypes
    <3>3. sRequest' \in [Saves -> SettingRequest] /\ \A s \in Saves : Formed(sRequest[s])'
      BY <2>1, <2>5, <2>8, OneSet DEF SettingsInv
    <3> QED  BY <2>1, <3>1, <3>2, <3>3 DEF SettingsInv, SettingsTypes
  <2>12. PlaceInv'
    <3>1. \A k \in Settings!Keys : PlaceOf(k)' = PlaceOf(k)
      BY <2>1 DEF PlaceOf, Settings!FileOf, Settings!GameFile
    <3> QED  BY <2>1, <3>1 DEF SettingsInv, PlaceInv
  <2>13. TouchedInv'
    <3>1. \A s \in Saves : DOMAIN sRequest'[s].updates \subseteq sTouched
      BY <2>5, <2>6, <2>9, <2>10 DEF D, SettingsInv, TouchedInv
    <3> QED  BY <2>1, <3>1 DEF SettingsInv, TouchedInv
  <2>14. OneSave'  BY <2>9, OneOnly
  <2>15. \A s \in Saves : sRequest'[s].pc \in {"idle", "amp"}  BY <2>5, <2>9, <2>10
  <2>16. ReadInv' /\ WroteInv'
    <3>1. ReadInv'  BY <2>15 DEF ReadInv
    <3>2. WroteInv'  BY <2>15 DEF WroteInv
    <3> QED  BY <3>1, <3>2
  <2>17. ASSUME NEW k \in AllKeys
         PROVE  \/ View(k)' \in sWant'[k]
                \/ k \in Settings!Changes(n) /\ View(k)' = n.updates[k]
    <3>1. CASE k = "rate"
      <4>1. View(k)' = v  BY <1>1, <2>1, <3>1 DEF View, SettingsInv, SettingsTypes
      <4>2. sWant'[k] = {v}  BY <2>1, <3>1 DEF SettingsInv, SettingsTypes
      <4> QED  BY <4>1, <4>2
    <3>2. CASE k # "rate"
      <4>1. View(k)' = View(k)
        BY <2>1, <3>2 DEF View, ValueIn, PlaceOf, Settings!FileOf, Settings!GameFile
      <4>2. sWant'[k] = sWant[k]  BY <2>1, <3>2 DEF SettingsInv, SettingsTypes
      <4>3. \/ View(k) \in sWant[k]
            \/ k \in Settings!Changes(q) /\ View(k) = q.updates[k]
        BY <1>1, OnlyOne DEF SettingsInv
      <4>4. k \in Settings!Changes(q) => k \in Settings!Changes(n) /\ n.updates[k] = q.updates[k]
        BY <2>5, <2>6, <2>7, <3>2 DEF D, Settings!Changes, Settings!Named
      <4> QED  BY <4>1, <4>2, <4>3, <4>4
    <3> QED  BY <3>1, <3>2
  <2>18. WantInv'  BY <2>10, <2>17 DEF WantInv
  <2> QED  BY <2>11, <2>12, <2>13, <2>14, <2>16, <2>18 DEF SettingsInv
<1>3. CASE Settings!ApiFails(r)
  <2>1. /\ Settings!Answer(r, FALSE)
        /\ UNCHANGED <<sPlane, sDisk, sTorn, sAmp, sDirector, sWrote, sTouched>>
    BY <1>3 DEF Settings!ApiFails, Settings!files
  <2> QED  BY <1>1, <2>1, AnsweredOnly
<1>4. CASE Settings!ConfigSet(r)
  <2>1. /\ "rate" \notin DOMAIN q.updates
        /\ IF DOMAIN q.updates = {} THEN sRequest' = [sRequest EXCEPT ![r] = Settings!Idle]
           ELSE sRequest' = [sRequest EXCEPT ![r] = [q EXCEPT !.pc = "route"]]
        /\ UNCHANGED <<sPlane, sDisk, sTorn, sAmp, sDirector, sWant, sWrote, sTouched>>
    BY <1>4 DEF Settings!ConfigSet, Settings!Named, Settings!Set, Settings!Goto, Settings!files
  <2>2. CASE DOMAIN q.updates = {}
    <3>1. \A k \in AllKeys : View(k) \in sWant[k]
      BY <1>1, <2>2, OnlyOne DEF SettingsInv, Settings!Changes, Settings!Named
    <3>2. \A k \in AllKeys : View(k)' = View(k)  BY <2>1, ViewKept
    <3>3. PlaceInv'  BY <2>1, ViewKept DEF SettingsInv
    <3>4. \A g \in Settings!Files, k \in Settings!Keys :
             /\ sDisk'[g].managed[k] # <<>> => k \in sTouched
             /\ k \in sTouched \/ sDisk'[g].hand[k] = sWrote[g][k]
      BY <2>1 DEF SettingsInv, TouchedInv
    <3>5. /\ sDisk' \in [Settings!Files -> File] /\ sTorn' = {}
          /\ sDirector' \in [Settings!DirectorKeys -> Numbers]
          /\ sWant' = [k \in AllKeys |-> sWant'[k]]
      BY <2>1 DEF SettingsInv, SettingsTypes
    <3> QED  BY <1>1, <2>1, <2>2, <3>1, <3>2, <3>3, <3>4, <3>5, SaveEnds
  <2>3. CASE DOMAIN q.updates # {}
    <3> DEFINE n == [q EXCEPT !.pc = "route"]
    <3>1. /\ n \in SettingRequest /\ n.pc = "route" /\ n.updates = q.updates
          /\ n.kind = "save"
      BY <1>1 DEF SettingRequest, InFiles
    <3>2. sRequest' = [sRequest EXCEPT ![r] = n]  BY <2>1, <2>3
    <3> HIDE DEF n
    <3>3. Formed(n)  BY <1>1, <2>1, <3>1 DEF Formed, InFiles
    <3> QED  BY <1>1, <2>1, <3>1, <3>2, <3>3, SaveMoves
  <2> QED  BY <2>2, <2>3
<1> QED  BY <1>2, <1>3, <1>4

LEMMA StepRoute ==
    ASSUME SettingsHypothesis, SettingsInv, NEW r \in Saves,
           Settings!Route(r) \/ Settings!ReadDirector(r)
    PROVE  SettingsInv'
<1> USE SettingKeys
<1> DEFINE q == sRequest[r]
<1>1. q \in SettingRequest /\ Formed(q)  BY Under
<1>2. CASE Settings!Route(r)
  <2> DEFINE n == [q EXCEPT !.pc = "read game", !.known = TRUE]
  <2>1. /\ q.pc = "route" /\ sRequest' = [sRequest EXCEPT ![r] = n]
        /\ UNCHANGED <<sPlane, sDisk, sTorn, sAmp, sDirector, sWant, sWrote, sTouched>>
    BY <1>2 DEF Settings!Route, Settings!At, Settings!Set, Settings!Fails, Settings!files,
                SettingsHypothesis
  <2>2. /\ n \in SettingRequest /\ n.pc = "read game" /\ n.updates = q.updates
        /\ n.kind = q.kind
    BY <1>1 DEF SettingRequest, InFiles
  <2>3. n.known  BY <1>1 DEF SettingRequest
  <2> HIDE DEF n
  <2>4. Formed(n)  BY <1>1, <2>1, <2>2, <2>3 DEF Formed, InFiles
  <2> QED  BY <2>1, <2>2, <2>4, SaveMoves
<1>3. CASE Settings!ReadDirector(r)
  <2> DEFINE n == [q EXCEPT !.pc = "write director"]
  <2>1. /\ q.pc = "director"
        /\ UNCHANGED <<sPlane, sDisk, sTorn, sAmp, sDirector, sWrote, sTouched>>
        /\ \/ sRequest' = [sRequest EXCEPT ![r] = n] /\ UNCHANGED sWant
           \/ Settings!Answer(r, FALSE)
    BY <1>3 DEF Settings!ReadDirector, Settings!At, Settings!Goto, Settings!Set, Settings!files
  <2>2. n \in SettingRequest /\ n.pc = "write director" /\ n.updates = q.updates /\ n.kind = q.kind
    BY <1>1 DEF SettingRequest
  <2> HIDE DEF n
  <2>3. Formed(n)  BY <1>1, <2>1, <2>2 DEF Formed, InFiles
  <2>4. CASE sRequest' = [sRequest EXCEPT ![r] = n] /\ UNCHANGED sWant
    BY <2>1, <2>2, <2>3, <2>4, SaveMoves
  <2>5. CASE Settings!Answer(r, FALSE)  BY <2>1, <2>5, AnsweredOnly
  <2> QED  BY <2>1, <2>4, <2>5
<1> QED  BY <1>2, <1>3

LEMMA InFileIs ==
    ASSUME NEW q \in SettingRequest, q.known, NEW f
    PROVE  Settings!InFile(q, f) <=> \E k \in DOMAIN q.updates : PlaceOf(k) = f
<1>1. q.known = TRUE  BY DEF SettingRequest
<1>2. DOMAIN Settings!Part(q, f) = {k \in DOMAIN q.updates : PlaceOf(k) = f}
  BY <1>1 DEF Settings!Part, Settings!Restrict, Settings!Named, PlaceOf
<1> QED  BY <1>2 DEF Settings!InFile

\* What a request that works on the files names has its place in one of two.
LEMMA TwoFiles ==
    ASSUME SettingsHypothesis, SettingsInv, NEW r \in Saves, sRequest[r].pc \in InFiles
    PROVE  /\ sRequest[r].kind \in {"save", "raw"}
           /\ DOMAIN sRequest[r].updates \subseteq Settings!Keys
           /\ Settings!Changes(sRequest[r]) = DOMAIN sRequest[r].updates
           /\ \A k \in DOMAIN sRequest[r].updates : PlaceOf(k) \in {"engine", Settings!GameFile}
<1>1. sRequest[r] \in SettingRequest /\ Formed(sRequest[r])  BY Under
<1>2. /\ sRequest[r].kind \in {"save", "raw"}
      /\ DOMAIN sRequest[r].updates \subseteq Settings!Keys
  BY <1>1, SettingKeys DEF Formed
<1>3. \A k \in Settings!Keys : PlaceOf(k) \in {"engine", Settings!GameFile}
  BY Homes, SettingKeys DEF SettingsInv
<1>4. Settings!Changes(sRequest[r]) = DOMAIN sRequest[r].updates  BY <1>1, <1>2, ChangesAre
<1> QED  BY <1>2, <1>3, <1>4

LEMMA StepReads ==
    ASSUME SettingsHypothesis, SettingsInv, NEW r \in Saves,
           Settings!ReadGame(r) \/ Settings!ReadEngine(r)
    PROVE  SettingsInv'
<1> USE SettingKeys
<1> DEFINE q == sRequest[r]
<1>1. q \in SettingRequest /\ Formed(q) /\ q.pc \in {"read game", "read engine"} /\ q.known
  <2>1. q \in SettingRequest /\ Formed(q)  BY Under
  <2>2. q.pc \in {"read game", "read engine"}
    BY DEF Settings!ReadGame, Settings!ReadEngine, Settings!Read, Settings!At
  <2> QED  BY <2>1, <2>2 DEF Formed, InFiles
<1>2. q.pc \in InFiles /\ sTorn = {} /\ Settings!GameFile \in Settings!Files
  BY <1>1, Homes DEF InFiles, SettingsInv, SettingsTypes
<1>3. \A f \in Settings!Files : sDisk[f] \in File  BY DEF SettingsInv, SettingsTypes
<1>4. CASE Settings!ReadGame(r)
  <2>1. /\ q.pc = "read game"
        /\ UNCHANGED <<sPlane, sDisk, sTorn, sAmp, sDirector, sWrote, sTouched>>
        /\ IF ~Settings!InFile(q, Settings!GameFile)
           THEN sRequest' = [sRequest EXCEPT ![r] = [q EXCEPT !.pc = "read engine"]] /\ UNCHANGED sWant
           ELSE /\ sRequest' = [sRequest EXCEPT ![r] =
                                   [q EXCEPT !.pc = "write game", !.read = sDisk[Settings!GameFile]]]
                /\ UNCHANGED sWant
    BY <1>2, <1>4 DEF Settings!ReadGame, Settings!Read, Settings!At, Settings!Goto, Settings!Set,
                Settings!Fails, Settings!files, SettingsHypothesis
  <2>2. CASE ~Settings!InFile(q, Settings!GameFile)
    <3> DEFINE n == [q EXCEPT !.pc = "read engine"]
    <3>1. /\ n \in SettingRequest /\ n.pc = "read engine" /\ n.updates = q.updates
          /\ n.kind = q.kind /\ n.known = q.known
      BY <1>1 DEF SettingRequest, InFiles
    <3>2. sRequest' = [sRequest EXCEPT ![r] = n] /\ UNCHANGED sWant  BY <2>1, <2>2
    <3> HIDE DEF n
    <3>3. Formed(n)  BY <1>1, <2>1, <3>1 DEF Formed, InFiles
    <3>4. \A k \in DOMAIN n.updates : PlaceOf(k) # Settings!GameFile
      BY <1>1, <2>2, <3>1, InFileIs
    <3> QED  BY <2>1, <3>1, <3>2, <3>3, <3>4, SaveMoves
  <2>3. CASE Settings!InFile(q, Settings!GameFile)
    <3> DEFINE n == [q EXCEPT !.pc = "write game", !.read = sDisk[Settings!GameFile]]
    <3>1. /\ n \in SettingRequest /\ n.pc = "write game" /\ n.updates = q.updates
          /\ n.kind = q.kind /\ n.known = q.known /\ n.read = sDisk[Settings!GameFile]
      BY <1>1, <1>2, <1>3 DEF SettingRequest, InFiles
    <3>2. sRequest' = [sRequest EXCEPT ![r] = n] /\ UNCHANGED sWant  BY <2>1, <2>3
    <3> HIDE DEF n
    <3>3. Formed(n)  BY <1>1, <2>1, <3>1 DEF Formed, InFiles
    <3>4. Settings!InFile(n, Settings!GameFile)  BY <1>1, <2>3, <3>1, InFileIs
    <3>5. Settings!GameFile # "engine"  BY DEF Settings!GameFile
    <3> QED  BY <2>1, <3>1, <3>2, <3>3, <3>4, <3>5, SaveMoves
  <2> QED  BY <2>2, <2>3
<1>5. CASE Settings!ReadEngine(r)
  <2>1. /\ q.pc = "read engine"
        /\ UNCHANGED <<sPlane, sDisk, sTorn, sAmp, sDirector, sWrote, sTouched>>
        /\ IF ~Settings!InFile(q, "engine") THEN Settings!Answer(r, TRUE)
           ELSE /\ sRequest' = [sRequest EXCEPT ![r] =
                                   [q EXCEPT !.pc = "write engine", !.read = sDisk["engine"]]]
                /\ UNCHANGED sWant
    BY <1>2, <1>5 DEF Settings!ReadEngine, Settings!Read, Settings!At, Settings!Goto,
                Settings!Set, Settings!Fails, Settings!files, SettingsHypothesis
  <2>2. \A k \in DOMAIN q.updates : PlaceOf(k) = Settings!GameFile => View(k) = q.updates[k]
    BY <2>1 DEF SettingsInv, WroteInv
  <2>3. CASE ~Settings!InFile(q, "engine")
    <3>1. \A k \in DOMAIN q.updates : PlaceOf(k) # "engine"  BY <1>1, <2>3, InFileIs
    <3>2. \A k \in Settings!Changes(q) : View(k) = q.updates[k]
      BY <1>2, <2>2, <3>1, TwoFiles
    <3> QED  BY <2>1, <2>3, <3>2, AnsweredOnly
  <2>4. CASE Settings!InFile(q, "engine")
    <3> DEFINE n == [q EXCEPT !.pc = "write engine", !.read = sDisk["engine"]]
    <3>1. /\ n \in SettingRequest /\ n.pc = "write engine" /\ n.updates = q.updates
          /\ n.kind = q.kind /\ n.known = q.known /\ n.read = sDisk["engine"]
      BY <1>1, <1>3 DEF SettingRequest, InFiles
    <3>2. sRequest' = [sRequest EXCEPT ![r] = n] /\ UNCHANGED sWant  BY <2>1, <2>4
    <3> HIDE DEF n
    <3>3. Formed(n)  BY <1>1, <2>1, <3>1 DEF Formed, InFiles
    <3>4. Settings!InFile(n, "engine")  BY <1>1, <2>4, <3>1, InFileIs
    <3> QED  BY <2>1, <2>2, <3>1, <3>2, <3>3, <3>4, SaveMoves
  <2> QED  BY <2>3, <2>4
<1> QED  BY <1>4, <1>5

LEMMA StepWrites ==
    ASSUME SettingsHypothesis, SettingsInv, NEW r \in Saves,
           Settings!WriteGame(r) \/ Settings!WriteEngine(r)
    PROVE  SettingsInv'
<1> USE SettingKeys
<1> DEFINE q == sRequest[r]
<1>1. q \in SettingRequest /\ Formed(q) /\ q.pc \in {"write game", "write engine"} /\ q.known
  <2>1. q \in SettingRequest /\ Formed(q)  BY Under
  <2>2. q.pc \in {"write game", "write engine"}
    BY DEF Settings!WriteGame, Settings!WriteEngine, Settings!At
  <2> QED  BY <2>1, <2>2 DEF Formed, InFiles
<1>2. q.pc \in InFiles /\ sTorn = {} /\ DOMAIN q.updates \subseteq sTouched
  BY <1>1, Under DEF InFiles, SettingsInv, SettingsTypes
<1>3. /\ SettingsTypes /\ PlaceInv /\ TouchedInv
      /\ Settings!Changes(q) = DOMAIN q.updates /\ DOMAIN q.updates \subseteq AllKeys
      /\ \A k \in DOMAIN q.updates : PlaceOf(k) \in {"engine", Settings!GameFile}
  BY <1>2, TwoFiles, Under DEF SettingsInv
<1>4. CASE Settings!WriteGame(r)
  <2> DEFINE f == Settings!GameFile
             n == [q EXCEPT !.pc = "read engine"]
  <2>1. /\ q.pc = "write game" /\ sTorn' = {}
        /\ sDisk' = [sDisk EXCEPT ![f] = Settings!New(q, f)]
        /\ sRequest' = [sRequest EXCEPT ![r] = n]
        /\ UNCHANGED <<sPlane, sAmp, sDirector, sWant, sWrote, sTouched>>
    BY <1>2, <1>4 DEF Settings!WriteGame, Settings!At, Settings!Goto, Settings!Set
  <2>2. q.read = sDisk[f] /\ Settings!InFile(q, f)  BY <2>1 DEF SettingsInv, ReadInv
  <2>3. /\ sDisk' \in [Settings!Files -> File] /\ PlaceInv'
        /\ \A g \in Settings!Files, k \in Settings!Keys :
             /\ sDisk'[g].managed[k] # <<>> => k \in sTouched
             /\ k \in sTouched \/ sDisk'[g].hand[k] = sWrote[g][k]
        /\ \A k \in AllKeys :
             View(k)' = IF k \in DOMAIN q.updates /\ PlaceOf(k) = f THEN q.updates[k] ELSE View(k)
    BY <1>1, <1>2, <1>3, <2>1, <2>2, FileWritten
  <2>4. /\ n \in SettingRequest /\ n.pc = "read engine" /\ n.updates = q.updates
        /\ n.kind = q.kind /\ n.known = q.known
    BY <1>1 DEF SettingRequest, InFiles
  <2> HIDE DEF n
  <2>5. Formed(n)  BY <1>1, <2>1, <2>4 DEF Formed, InFiles
  <2>6. \A s \in Saves \ {r} : sRequest'[s] = sRequest[s] /\ sRequest[s].pc = "idle"
    BY <2>1 DEF SettingsInv, SettingsTypes, OneSave
  <2>7. sRequest'[r] = n  BY <2>1 DEF SettingsInv, SettingsTypes
  <2>8. SettingsTypes'
    <3>1. sRequest' \in [Saves -> SettingRequest] /\ \A s \in Saves : Formed(sRequest[s])'
      BY <1>3, <2>1, <2>4, <2>5, OneSet
    <3> QED  BY <1>3, <2>1, <2>3, <3>1 DEF SettingsTypes
  <2>9. TouchedInv'
    <3>1. \A s \in Saves : DOMAIN sRequest'[s].updates \subseteq sTouched
      BY <1>3, <2>4, <2>6, <2>7 DEF TouchedInv
    <3> QED  BY <2>1, <2>3, <3>1 DEF TouchedInv
  <2>10. OneSave'  BY <2>6, OneOnly
  <2>11. \A s \in Saves : sRequest'[s].pc \in {"idle", "read engine"}  BY <2>4, <2>6, <2>7
  <2>12. ReadInv'  BY <2>11 DEF ReadInv
  <2>13. Settings!GameFile' = f /\ \A k \in AllKeys : PlaceOf(k)' = PlaceOf(k)
    BY <2>1 DEF Settings!GameFile, PlaceOf, Settings!FileOf
  <2>14. WroteInv'
    <3> SUFFICES ASSUME NEW s \in Saves, sRequest'[s].pc \in {"read engine", "write engine"},
                        NEW k \in DOMAIN sRequest'[s].updates, PlaceOf(k)' = Settings!GameFile'
                 PROVE  View(k)' = sRequest'[s].updates[k]
      BY DEF WroteInv
    <3>1. s = r  BY <2>6
    <3>2. k \in DOMAIN q.updates /\ k \in AllKeys  BY <1>3, <2>4, <2>7, <3>1
    <3> QED  BY <2>3, <2>4, <2>7, <2>13, <3>1, <3>2
  <2>15. ASSUME NEW k \in AllKeys
         PROVE  \/ View(k)' \in sWant'[k]
                \/ k \in Settings!Changes(n) /\ View(k)' = n.updates[k]
    <3>1. Settings!Changes(n) = DOMAIN q.updates
      BY <1>3, <2>4 DEF Settings!Changes, Settings!Named
    <3>2. \/ View(k) \in sWant[k]
          \/ k \in DOMAIN q.updates /\ View(k) = q.updates[k]
      BY <1>1, <1>3, OnlyOne DEF SettingsInv
    <3> QED  BY <2>1, <2>3, <2>4, <3>1, <3>2
  <2>16. WantInv'  BY <2>7, <2>15 DEF WantInv
  <2> QED  BY <2>3, <2>8, <2>9, <2>10, <2>12, <2>14, <2>16 DEF SettingsInv
<1>5. CASE Settings!WriteEngine(r)
  <2>1. /\ q.pc = "write engine" /\ sTorn' = {}
        /\ sDisk' = [sDisk EXCEPT !["engine"] = Settings!New(q, "engine")]
        /\ Settings!Answer(r, TRUE)
        /\ UNCHANGED <<sPlane, sAmp, sDirector, sWrote, sTouched>>
    BY <1>2, <1>5 DEF Settings!WriteEngine, Settings!At
  <2>2. q.read = sDisk["engine"] /\ Settings!InFile(q, "engine")
    BY <2>1 DEF SettingsInv, ReadInv
  <2>3. /\ sDisk' \in [Settings!Files -> File] /\ PlaceInv'
        /\ \A g \in Settings!Files, k \in Settings!Keys :
             /\ sDisk'[g].managed[k] # <<>> => k \in sTouched
             /\ k \in sTouched \/ sDisk'[g].hand[k] = sWrote[g][k]
        /\ \A k \in AllKeys :
             View(k)' = IF k \in DOMAIN q.updates /\ PlaceOf(k) = "engine" THEN q.updates[k]
                        ELSE View(k)
    BY <1>1, <1>2, <1>3, <2>1, <2>2, FileWritten
  <2>4. \A k \in DOMAIN q.updates : PlaceOf(k) = Settings!GameFile => View(k) = q.updates[k]
    BY <2>1 DEF SettingsInv, WroteInv
  <2>5. \A k \in DOMAIN q.updates : View(k)' = q.updates[k]
    BY <1>3, <2>3, <2>4
  <2>6. /\ sRequest' = [sRequest EXCEPT ![r] = Settings!Idle]
        /\ sWant' = [k \in AllKeys |-> sWant'[k]]
        /\ \A k \in AllKeys : View(k)' \in sWant'[k]
    <3>1. \A k \in AllKeys : \/ View(k)' = View(k)
                             \/ k \in Settings!Changes(q) /\ View(k)' = q.updates[k]
      BY <1>3, <2>3
    <3>2. \A k \in Settings!Changes(q) : View(k)' = q.updates[k]  BY <1>3, <2>5
    <3> QED  BY <1>1, <2>1, <3>1, <3>2, Answered
  <2>7. sAmp' = sAmp /\ sDirector' \in [Settings!DirectorKeys -> Numbers]
    BY <1>3, <2>1 DEF SettingsTypes
  <2> QED  BY <1>1, <2>1, <2>3, <2>6, <2>7, SaveEnds
<1> QED  BY <1>4, <1>5

LEMMA StepFails ==
    ASSUME SettingsHypothesis, SettingsInv, NEW r \in Saves,
           \/ Settings!WriteFails(r, "write game", Settings!GameFile)
           \/ Settings!WriteFails(r, "write engine", "engine")
    PROVE  SettingsInv'
<1>1. /\ sRequest[r].pc # "idle" /\ Settings!Answer(r, FALSE)
      /\ UNCHANGED <<sPlane, sDisk, sTorn, sAmp, sDirector, sWrote, sTouched>>
  BY DEF Settings!WriteFails, Settings!At, Settings!Fails, Settings!files, SettingsHypothesis
<1> QED  BY <1>1, AnsweredOnly

LEMMA StepDirector ==
    ASSUME SettingsHypothesis, SettingsInv, NEW r \in Saves, Settings!WriteDirector(r)
    PROVE  SettingsInv'
<1> USE SettingKeys
<1> DEFINE q == sRequest[r]
<1>1. q \in SettingRequest /\ Formed(q) /\ q.pc = "write director"
  BY Under DEF Settings!WriteDirector, Settings!At
<1>2. q.kind = "director" /\ DOMAIN q.updates \subseteq Settings!DirectorKeys
  BY <1>1 DEF Formed
<1>3. CASE sDirector' = Settings!DirectorEdits(q.updates) /\ Settings!Answer(r, TRUE)
  <2>1. UNCHANGED <<sPlane, sDisk, sTorn, sAmp, sWrote, sTouched>>
    BY DEF Settings!WriteDirector, Settings!files
  <2>2. sDirector' = [k \in Settings!DirectorKeys |->
                        IF k \in DOMAIN q.updates \ Settings!ReadOnly THEN q.updates[k]
                        ELSE sDirector[k]]
    BY <1>3 DEF Settings!DirectorEdits
  <2>3. Settings!Changes(q) = DOMAIN q.updates \ Settings!ReadOnly
    BY DEF Settings!Changes, Settings!Named
  <2>4. \A k \in AllKeys : View(k)' = IF k \in Settings!Changes(q) THEN q.updates[k] ELSE View(k)
    <3> SUFFICES ASSUME NEW k \in AllKeys
                 PROVE  View(k)' = IF k \in Settings!Changes(q) THEN q.updates[k] ELSE View(k)
      OBVIOUS
    <3>1. CASE k \in Settings!DirectorKeys  BY <2>2, <2>3, <3>1 DEF View
    <3>2. CASE k \notin Settings!DirectorKeys
      <4>1. k \notin Settings!Changes(q)  BY <1>2, <2>3, <3>2
      <4>2. View(k)' = View(k)
        BY <2>1, <3>2 DEF View, ValueIn, PlaceOf, Settings!FileOf, Settings!GameFile
      <4> QED  BY <4>1, <4>2
    <3> QED  BY <3>1, <3>2
  <2>5. Settings!Changes(q) \subseteq AllKeys  BY <1>2, <2>3 DEF AllKeys
  <2>6. /\ sRequest' = [sRequest EXCEPT ![r] = Settings!Idle]
        /\ sWant' = [k \in AllKeys |-> sWant'[k]]
        /\ \A k \in AllKeys : View(k)' \in sWant'[k]
    <3>1. \A k \in AllKeys : \/ View(k)' = View(k)
                             \/ k \in Settings!Changes(q) /\ View(k)' = q.updates[k]
      BY <2>4
    <3>2. \A k \in Settings!Changes(q) : View(k)' = q.updates[k]  BY <2>4, <2>5
    <3> QED  BY <1>1, <1>3, <3>1, <3>2, Answered
  <2>7. sDirector' \in [Settings!DirectorKeys -> Numbers]
    <3>1. \A k \in DOMAIN q.updates : q.updates[k] \in Numbers
      <4>1. q.updates \in SettingUpdates  BY <1>1 DEF SettingRequest
      <4>2. \/ \E S \in SUBSET Settings!Plain : q.updates \in [S -> Numbers]
            \/ q.updates \in [{Settings!Array} -> Seq(Numbers)]
            \/ \E S \in SUBSET Settings!DirectorKeys : q.updates \in [S -> Numbers]
        BY <4>1 DEF SettingUpdates
      <4>3. CASE q.updates \in [{Settings!Array} -> Seq(Numbers)]
        <5>1. Settings!Array \in DOMAIN q.updates  BY <4>3
        <5> QED  BY <1>2, <5>1
      <4> QED  BY <4>2, <4>3
    <3>2. sDirector \in [Settings!DirectorKeys -> Numbers]  BY DEF SettingsInv, SettingsTypes
    <3> QED  BY <2>2, <3>1, <3>2
  <2>8. PlaceInv'
    <3>1. \A k \in Settings!Keys : PlaceOf(k)' = PlaceOf(k)
      BY <2>1 DEF PlaceOf, Settings!FileOf, Settings!GameFile
    <3> QED  BY <2>1, <3>1 DEF SettingsInv, PlaceInv
  <2>9. /\ sDisk' \in [Settings!Files -> File] /\ sTorn' = {} /\ sAmp' = sAmp
        /\ \A g \in Settings!Files, k \in Settings!Keys :
              /\ sDisk'[g].managed[k] # <<>> => k \in sTouched
              /\ k \in sTouched \/ sDisk'[g].hand[k] = sWrote[g][k]
    BY <2>1 DEF SettingsInv, SettingsTypes, TouchedInv
  <2> QED  BY <1>1, <2>1, <2>6, <2>7, <2>8, <2>9, SaveEnds
<1>4. CASE UNCHANGED sDirector /\ Settings!Answer(r, FALSE)
  <2>1. UNCHANGED <<sPlane, sDisk, sTorn, sAmp, sDirector, sWrote, sTouched>>
    BY <1>4 DEF Settings!WriteDirector, Settings!files
  <2> QED  BY <1>1, <1>4, <2>1, AnsweredOnly
<1> QED  BY <1>3, <1>4 DEF Settings!WriteDirector

LEMMA StepHand ==
    ASSUME SettingsHypothesis, SettingsInv, NEW f \in Settings!Files, NEW k \in Settings!Keys,
           NEW v \in Numbers, Settings!HandEdit(f, k, v)
    PROVE  SettingsInv'
<1> USE SettingKeys
<1>1. /\ Settings!Quiet /\ f = PlaceOf(k) /\ k \in Settings!Plain
      /\ sDisk' = [sDisk EXCEPT ![f].hand[k] = v]
      /\ sWrote' = [sWrote EXCEPT ![f][k] = v]
      /\ UNCHANGED <<sPlane, sTorn, sAmp, sDirector, sRequest, sTouched>>
      /\ sWant' = [sWant EXCEPT ![k] = {Settings!Shown(k)'}]
  BY DEF Settings!HandEdit, SettingsHypothesis, PlaceOf
<1>2. /\ SettingsTypes /\ sDisk \in [Settings!Files -> File]
      /\ sWrote \in [Settings!Files -> [Settings!Keys -> Numbers]]
  BY DEF SettingsInv, SettingsTypes
<1> DEFINE y == [sDisk[f] EXCEPT !.hand[k] = v]
<1>3. /\ y \in File /\ y.managed = sDisk[f].managed
      /\ y.hand = [sDisk[f].hand EXCEPT ![k] = v]
  BY <1>2 DEF File, FileRecord
<1>4. sDisk' = [sDisk EXCEPT ![f] = y]  BY <1>1
<1>5. sDisk[f].hand \in [Settings!Keys -> Numbers]  BY <1>2 DEF File, FileRecord
<1> HIDE DEF y
<1>6. /\ sDisk' \in [Settings!Files -> File]
      /\ sDisk'[f] = y /\ \A g \in Settings!Files \ {f} : sDisk'[g] = sDisk[g]
      /\ y.hand[k] = v /\ \A x \in Settings!Keys \ {k} : y.hand[x] = sDisk[f].hand[x]
  BY <1>2, <1>3, <1>4, <1>5
<1>7. /\ sWrote' \in [Settings!Files -> [Settings!Keys -> Numbers]]
      /\ sWrote'[f][k] = v
      /\ \A g \in Settings!Files, x \in Settings!Keys :
            g # f \/ x # k => sWrote'[g][x] = sWrote[g][x]
  BY <1>1, <1>2
<1>8. \A r \in Saves : /\ sRequest'[r] = sRequest[r] /\ sRequest[r].pc = "idle"
                       /\ DOMAIN sRequest[r].updates = {}
  BY <1>1, Under DEF Settings!Quiet, Settings!At, Formed
<1>9. SettingsTypes'
  <2>1. \A r \in Saves : Formed(sRequest[r])'  BY <1>1, <1>2, FormsStay
  <2>2. sWant' = [x \in AllKeys |-> sWant'[x]]  BY <1>1, <1>2 DEF SettingsTypes
  <2> QED  BY <1>1, <1>2, <1>6, <1>7, <2>1, <2>2 DEF SettingsTypes
<1>10. Settings!GameFile' = Settings!GameFile /\ \A x \in AllKeys : PlaceOf(x)' = PlaceOf(x)
  BY <1>1 DEF Settings!GameFile, PlaceOf, Settings!FileOf
<1>11. PlaceInv'
  <2>1. \A x \in Settings!Keys : PlaceOf(x)' = PlaceOf(x)  BY <1>10 DEF AllKeys
  <2>2. "+mod" # k  BY <1>1
  <2>3. \A x \in Settings!Keys, g \in Settings!Files : g # PlaceOf(x) =>
           /\ sDisk'[g].managed[x] = <<>>
           /\ sDisk'[g].hand[x] = 0 \/ (x = "rate" /\ sPlane = "amp")
    BY <1>1, <1>3, <1>6 DEF SettingsInv, PlaceInv
  <2>4. \A g \in Settings!Files : sDisk'[g].hand["+mod"] = 0
    BY <1>6, <2>2 DEF SettingsInv, PlaceInv
  <2> QED  BY <1>1, <2>1, <2>3, <2>4 DEF PlaceInv
<1>12. TouchedInv'
  <2>1. \A g \in Settings!Files, x \in Settings!Keys :
           /\ sDisk'[g].managed[x] # <<>> => x \in sTouched
           /\ x \in sTouched \/ sDisk'[g].hand[x] = sWrote'[g][x]
    <3>1. \A g \in Settings!Files \ {f}, x \in Settings!Keys :
             /\ sDisk'[g].managed[x] # <<>> => x \in sTouched
             /\ x \in sTouched \/ sDisk'[g].hand[x] = sWrote'[g][x]
      BY <1>6, <1>7 DEF SettingsInv, TouchedInv
    <3>2. \A x \in Settings!Keys :
             /\ y.managed[x] # <<>> => x \in sTouched
             /\ x \in sTouched \/ y.hand[x] = sWrote'[f][x]
      BY <1>3, <1>6, <1>7 DEF SettingsInv, TouchedInv
    <3> QED  BY <1>6, <3>1, <3>2
  <2> QED  BY <1>1, <1>8, <2>1 DEF TouchedInv
<1>13. OneSave' /\ ReadInv' /\ WroteInv'
  <2>1. OneSave'  BY <1>8 DEF OneSave
  <2>2. ReadInv'  BY <1>8 DEF ReadInv
  <2>3. WroteInv'  BY <1>8 DEF WroteInv
  <2> QED  BY <2>1, <2>2, <2>3
<1>14. WantInv'
  <2> SUFFICES ASSUME NEW x \in AllKeys PROVE View(x)' \in sWant'[x]  BY DEF WantInv
  <2>1. CASE x = k
    <3>1. Settings!Shown(k)' = View(k)'
      <4>1. (SettingsHypothesis /\ SettingsTypes /\ PlaceInv => ShownInv)'  BY ShownIsView, PTL
      <4>2. SettingsHypothesis'  BY DEF SettingsHypothesis
      <4>3. ShownInv'  BY <1>9, <1>11, <4>1, <4>2
      <4> QED  BY <1>1, <4>3 DEF ShownInv
    <3>2. sWant'[k] = {Settings!Shown(k)'}  BY <1>1, <1>2, <2>1 DEF SettingsTypes
    <3> QED  BY <2>1, <3>1, <3>2
  <2>2. CASE x # k
    <3>1. View(x) \in sWant[x]  BY <1>1, QuietWant DEF SettingsInv
    <3>2. sWant'[x] = sWant[x]  BY <1>1, <1>2, <2>2 DEF SettingsTypes
    <3>3. View(x)' = View(x)
      <4>1. CASE x \in Settings!DirectorKeys  BY <1>1, <4>1 DEF View
      <4>2. CASE x = "+mod"  BY <1>3, <1>6, <1>10, <4>2, Homes, <1>2 DEF View
      <4>3. CASE x \in Settings!Plain
        <5>1. PlaceOf(x) \in Settings!Files  BY <1>2, <4>3, Homes
        <5>2. ValueIn(sDisk'[PlaceOf(x)], x) = ValueIn(sDisk[PlaceOf(x)], x)
          BY <1>3, <1>6, <2>2, <4>3, <5>1 DEF ValueIn
        <5>3. /\ View(x)' = (IF sPlane = "amp" /\ x = "rate" THEN sAmp["rate"]
                             ELSE ValueIn(sDisk'[PlaceOf(x)], x))
              /\ View(x) = (IF sPlane = "amp" /\ x = "rate" THEN sAmp["rate"]
                             ELSE ValueIn(sDisk[PlaceOf(x)], x))
          BY <1>1, <1>10, <4>3 DEF View, ValueIn
        <5> QED  BY <5>2, <5>3
      <4> QED  BY <4>1, <4>2, <4>3 DEF AllKeys
    <3> QED  BY <3>1, <3>2, <3>3
  <2> QED  BY <2>1, <2>2
<1> QED  BY <1>9, <1>11, <1>12, <1>13, <1>14 DEF SettingsInv

\* The files that AMP writes when it starts the game: the layers below the one that
\* dune-admin writes.
LEMMA StepRegenerate ==
    ASSUME SettingsHypothesis, SettingsInv, Settings!Regenerate
    PROVE  SettingsInv'
<1> USE SettingKeys
<1>1. /\ sPlane = "amp"
      /\ sDisk' = [f \in Settings!Files |->
                     IF f = "overrides" THEN sDisk[f]
                     ELSE [sDisk[f] EXCEPT !.hand["rate"] = IF f = "game" THEN sAmp["rate"] ELSE @]]
      /\ sWrote' = [sWrote EXCEPT !["game"]["rate"] = sAmp["rate"]]
      /\ UNCHANGED <<sPlane, sTorn, sAmp, sDirector, sRequest, sWant, sTouched>>
      /\ \A r \in Saves : sRequest[r].pc = "idle"
  BY DEF Settings!Regenerate, Settings!Fails, SettingsHypothesis, Settings!Quiet, Settings!At
<1>2. /\ SettingsTypes /\ sDisk \in [Settings!Files -> File] /\ sAmp["rate"] \in Numbers
      /\ sWrote \in [Settings!Files -> [Settings!Keys -> Numbers]]
  BY DEF SettingsInv, SettingsTypes
<1> DEFINE y == [sDisk["game"] EXCEPT !.hand["rate"] = sAmp["rate"]]
<1>3. \A f \in Settings!Files : sDisk[f] \in FileRecord /\ sDisk[f].hand \in [Settings!Keys -> Numbers]
  BY <1>2 DEF File, FileRecord
<1>4. /\ y \in File /\ y.managed = sDisk["game"].managed
      /\ y.hand = [sDisk["game"].hand EXCEPT !["rate"] = sAmp["rate"]]
  BY <1>2 DEF File, FileRecord
<1>5. sDisk' = [sDisk EXCEPT !["game"] = y]
  <2>1. [sDisk["engine"] EXCEPT !.hand["rate"] = @] = sDisk["engine"]
    BY <1>3 DEF FileRecord
  <2>2. \A f \in Settings!Files :
           sDisk'[f] = IF f = "overrides" THEN sDisk[f]
                       ELSE [sDisk[f] EXCEPT !.hand["rate"] = IF f = "game" THEN sAmp["rate"] ELSE @]
    BY <1>1
  <2>3. sDisk'["overrides"] = sDisk["overrides"]  BY <2>2
  <2>4. sDisk'["engine"] = sDisk["engine"]  BY <2>1, <2>2
  <2>5. sDisk'["game"] = y  BY <2>2
  <2>6. sDisk' = [f \in Settings!Files |-> sDisk'[f]]  BY <1>1
  <2>7. sDisk = [f \in Settings!Files |-> sDisk[f]]  BY <1>2
  <2> HIDE DEF y
  <2> QED  BY <1>2, <2>3, <2>4, <2>5, <2>6, <2>7
<1> HIDE DEF y
<1>6. /\ sDisk' \in [Settings!Files -> File]
      /\ sDisk'["game"] = y /\ \A g \in Settings!Files \ {"game"} : sDisk'[g] = sDisk[g]
      /\ y.hand["rate"] = sAmp["rate"]
      /\ \A x \in Settings!Keys \ {"rate"} : y.hand[x] = sDisk["game"].hand[x]
  BY <1>2, <1>3, <1>4, <1>5
<1>7. /\ sWrote' \in [Settings!Files -> [Settings!Keys -> Numbers]]
      /\ sWrote'["game"]["rate"] = sAmp["rate"]
      /\ \A g \in Settings!Files, x \in Settings!Keys :
            g # "game" \/ x # "rate" => sWrote'[g][x] = sWrote[g][x]
  BY <1>1, <1>2
<1>8. Settings!GameFile = "overrides" /\ Settings!GameFile' = "overrides"
  BY <1>1 DEF Settings!GameFile
<1>9. \A x \in AllKeys : PlaceOf(x)' = PlaceOf(x)
  BY <1>1 DEF PlaceOf, Settings!FileOf, Settings!GameFile
<1>10. SettingsTypes'
  <2>1. \A r \in Saves : Formed(sRequest[r])'  BY <1>1, <1>2, FormsStay
  <2> QED  BY <1>1, <1>2, <1>6, <1>7, <2>1 DEF SettingsTypes
<1>11. PlaceInv'
  <2>1. \A x \in Settings!Keys : PlaceOf(x)' = PlaceOf(x)  BY <1>9 DEF AllKeys
  <2>2. \A x \in Settings!Keys, g \in Settings!Files : g # PlaceOf(x) =>
           /\ sDisk'[g].managed[x] = <<>>
           /\ sDisk'[g].hand[x] = 0 \/ (x = "rate" /\ sPlane = "amp")
    BY <1>1, <1>4, <1>6 DEF SettingsInv, PlaceInv
  <2>3. \A g \in Settings!Files : sDisk'[g].hand["+mod"] = 0
    BY <1>6 DEF SettingsInv, PlaceInv
  <2> QED  BY <1>1, <2>1, <2>2, <2>3 DEF PlaceInv
<1>12. TouchedInv'
  <2>1. \A g \in Settings!Files \ {"game"}, x \in Settings!Keys :
           /\ sDisk'[g].managed[x] # <<>> => x \in sTouched
           /\ x \in sTouched \/ sDisk'[g].hand[x] = sWrote'[g][x]
    BY <1>6, <1>7 DEF SettingsInv, TouchedInv
  <2>2. \A x \in Settings!Keys :
           /\ y.managed[x] # <<>> => x \in sTouched
           /\ x \in sTouched \/ y.hand[x] = sWrote'["game"][x]
    BY <1>4, <1>6, <1>7 DEF SettingsInv, TouchedInv
  <2>3. \A g \in Settings!Files, x \in Settings!Keys :
           /\ sDisk'[g].managed[x] # <<>> => x \in sTouched
           /\ x \in sTouched \/ sDisk'[g].hand[x] = sWrote'[g][x]
    BY <1>6, <2>1, <2>2
  <2>4. \A r \in Saves : DOMAIN sRequest'[r].updates \subseteq sTouched  BY <1>1, Under
  <2> QED  BY <1>1, <2>3, <2>4 DEF TouchedInv
<1>13. OneSave' /\ ReadInv' /\ WroteInv'
  <2>1. OneSave'  BY <1>1 DEF OneSave
  <2>2. ReadInv'  BY <1>1 DEF ReadInv
  <2>3. WroteInv'  BY <1>1 DEF WroteInv
  <2> QED  BY <2>1, <2>2, <2>3
<1>14. WantInv'
  <2> SUFFICES ASSUME NEW x \in AllKeys PROVE View(x)' \in sWant'[x]  BY DEF WantInv
  <2>1. View(x) \in sWant[x]
    BY <1>1, QuietWant DEF SettingsInv, Settings!Quiet, Settings!At
  <2>2. View(x)' = View(x)
    <3>1. CASE x \in Settings!DirectorKeys  BY <1>1, <3>1 DEF View
    <3>2. CASE x = "+mod"  BY <1>6, <1>8, <3>2 DEF View
    <3>3. CASE x \in Settings!Plain
      <4>1. /\ View(x)' = (IF x = "rate" THEN sAmp["rate"] ELSE ValueIn(sDisk'[PlaceOf(x)], x))
            /\ View(x) = (IF x = "rate" THEN sAmp["rate"] ELSE ValueIn(sDisk[PlaceOf(x)], x))
        BY <1>1, <1>9, <3>3 DEF View, ValueIn
      <4>2. PlaceOf(x) \in Settings!Files \ {"game"}
        BY <1>2, <1>8, <3>3, Homes
      <4> QED  BY <1>6, <4>1, <4>2
    <3> QED  BY <3>1, <3>2, <3>3 DEF AllKeys
  <2> QED  BY <1>1, <2>1, <2>2
<1> QED  BY <1>10, <1>11, <1>12, <1>13, <1>14 DEF SettingsInv

LEMMA StepSettings ==
    SettingsHypothesis /\ SettingsInv /\ [Settings!Next]_(Settings!vars) => SettingsInv'
<1> SUFFICES ASSUME SettingsHypothesis, SettingsInv, [Settings!Next]_(Settings!vars)
             PROVE  SettingsInv'
  OBVIOUS
<1>1. CASE \E r \in Saves : Settings!Step(r)
  <2> SUFFICES ASSUME NEW r \in Saves, Settings!Step(r) PROVE SettingsInv'  BY <1>1
  <2> QED
    BY StepBegins, StepAmp, StepRoute, StepReads, StepWrites, StepFails, StepDirector
       DEF Settings!Step
<1>2. CASE \E f \in Settings!Files, k \in Settings!Keys, v \in {Settings!None} \cup Settings!Values :
              Settings!HandEdit(f, k, v)
  <2>1. PICK f \in Settings!Files, k \in Settings!Keys, v \in {Settings!None} \cup Settings!Values :
           Settings!HandEdit(f, k, v)
    BY <1>2
  <2>2. v \in Numbers  BY SettingKeys DEF Numbers
  <2> QED  BY <2>1, <2>2, StepHand
<1>3. CASE Settings!Regenerate  BY <1>3, StepRegenerate
<1>4. CASE Settings!Restart \/ UNCHANGED Settings!vars
  <2>1. UNCHANGED <<sPlane, sDisk, sTorn, sAmp, sDirector, sRequest, sWant, sWrote, sTouched>>
    BY <1>4 DEF Settings!Restart, Settings!vars, Settings!files
  <2>2. /\ \A k \in AllKeys : View(k)' = View(k) /\ PlaceOf(k)' = PlaceOf(k)
        /\ Settings!GameFile' = Settings!GameFile /\ PlaceInv'
    BY <2>1, ViewKept DEF SettingsInv
  <2>3. SettingsTypes'
    <3>1. \A r \in Saves : Formed(sRequest[r])'  BY <2>1, FormsStay DEF SettingsInv
    <3> QED  BY <2>1, <3>1 DEF SettingsInv, SettingsTypes
  <2>4. TouchedInv' /\ OneSave'  BY <2>1 DEF SettingsInv, TouchedInv, OneSave
  <2>5. ReadInv'
    BY <2>1, <2>2 DEF SettingsInv, ReadInv, Settings!InFile, Settings!Part, Settings!FileOf
  <2>6. WantInv'  BY <2>1, <2>2 DEF SettingsInv, WantInv
  <2>7. WroteInv'
    <3> SUFFICES ASSUME NEW r \in Saves, sRequest'[r].pc \in {"read engine", "write engine"},
                        NEW k \in DOMAIN sRequest'[r].updates, PlaceOf(k)' = Settings!GameFile'
                 PROVE  View(k)' = sRequest'[r].updates[k]
      BY DEF WroteInv
    <3>1. k \in AllKeys  BY <2>1, Under
    <3> QED  BY <2>1, <2>2, <3>1 DEF SettingsInv, WroteInv
  <2> QED  BY <2>2, <2>3, <2>4, <2>5, <2>6, <2>7 DEF SettingsInv
<1> QED  BY <1>1, <1>2, <1>3, <1>4 DEF Settings!Next

\* While saves, edits by hand and starts of the game take turns, the page shows of
\* every setting what was saved last, whichever file and whichever layer has it, a
\* save that failed left each setting as it was or as asked, and the operator's lines
\* stay (SettingsSound).
THEOREM SettingsAreSound == SettingsHypothesis => (PanelSpec => []SettingsSound)
<1> SUFFICES ASSUME SettingsHypothesis PROVE PanelSpec => []SettingsSound  OBVIOUS
<1> DEFINE Inv == part = "settings" => SettingsInv
<1>1. PanelInit => Inv  BY InitSettings DEF PanelInit
<1>2. Inv /\ [PanelNext]_<<part, vars, rvars, bvars, evars, tvars, cvars, svars, avars>> => Inv'
  <2> SUFFICES ASSUME Inv,
                      [PanelNext]_<<part, vars, rvars, bvars, evars, tvars, cvars, svars, avars>>,
                      part' = "settings"
               PROVE  SettingsInv'
    OBVIOUS
  <2>1. part = "settings" /\ [Settings!Next]_(Settings!vars)
    BY DEF PanelNext, svars, Settings!vars, Settings!files
  <2> QED  BY <2>1, StepSettings
<1>3. Inv => SettingsSound
  <2> SUFFICES ASSUME SettingsInv PROVE Settings!SettingsShown /\ Settings!HandKept
    BY DEF SettingsSound
  <2>1. ShownInv  BY ShownIsView DEF SettingsInv
  <2>2. \A k \in AllKeys : Settings!Underway(k) \/ View(k) \in sWant[k]
    BY DEF SettingsInv, WantInv, Settings!Underway, Settings!Changes, Settings!Named
  <2>3. Settings!SettingsShown
    BY <2>1, <2>2, SettingKeys DEF Settings!SettingsShown, ShownInv, AllKeys
  <2>4. Settings!HandKept  BY DEF SettingsInv, TouchedInv, Settings!HandKept
  <2> QED  BY <2>3, <2>4
<1> QED  BY <1>1, <1>2, <1>3, PTL DEF PanelSpec

-----------------------------------------------------------------------------
(* The registry: lists of servers                                          *)

\* Requests that may re-point the aliases take turns, and there is always a server.
RegistryHypothesis == ~Overlap /\ KeepOne /\ FirstServers > 0

Distinct(q) == \A i, j \in DOMAIN q : q[i] = q[j] => i = j
Has(q, s) == \E i \in DOMAIN q : q[i] = s
Rising(q) == \A i, j \in DOMAIN q : i < j => q[i] < q[j]

\* A rising list of the numbers in T, no longer than k.
Lists(q, k, T) == \E n \in 0..k : /\ q \in [1..n -> T]
                                  /\ Rising(q)
                                  /\ \A s \in T : Has(q, s)
Sorted(k, T) == \E q : Lists(q, k, T)

LEMMA RegistryBounds == Rooms \in Nat /\ Registry!Ids \subseteq Nat /\ 0 \notin Registry!Ids
BY PanelAssumption DEF Registry!Bounded, Registry!Ids

\* Induction by the least counterexample.
LEMMA LeastNat ==
    ASSUME NEW T, T \subseteq Nat, T # {}
    PROVE  \E x \in T : \A y \in T : x <= y
<1> DEFINE Smaller == OpToRel(<, Nat)
<1>1. IsWellFoundedOn(Smaller, Nat)  BY NatLessThanWellFounded
<1>2. \A x, y \in Nat : y < x => <<y, x>> \in Smaller  BY DEF OpToRel
<1> HIDE DEF Smaller
<1>3. PICK x \in T : \A y \in T : ~(<<y, x>> \in Smaller)  BY <1>1, WFMin
<1>4. ASSUME NEW y \in T  PROVE x <= y
  <2>1. ~(y < x)  BY <1>2, <1>3
  <2> QED  BY <2>1
<1> QED  BY <1>4

\* A set of numbers up to n can be listed in rising order.
LEMMA SortedExists ==
    ASSUME NEW n \in Nat, NEW T \in SUBSET (1..n)
    PROVE  Sorted(n, T)
<1> DEFINE Bad == {k \in Nat : \E U \in SUBSET (1..k) : ~Sorted(k, U)}
<1>1. ASSUME Bad # {}  PROVE FALSE
  <2>1. PICK k \in Bad : \A m \in Bad : k <= m  BY <1>1, LeastNat
  <2>2. PICK U \in SUBSET (1..k) : ~Sorted(k, U)  BY <2>1
  <2>3. CASE k = 0
    <3>1. U = {}  BY <2>2, <2>3
    <3> DEFINE q == [i \in 1..0 |-> 0]
    <3>2. q \in [1..0 -> U] /\ Rising(q)  BY DEF Rising
    <3>3. \A s \in U : Has(q, s)  BY <3>1
    <3>4. 0 \in 0..k  BY <2>3
    <3> HIDE DEF q
    <3> QED  BY <2>2, <3>2, <3>3, <3>4 DEF Sorted, Lists
  <2>4. CASE k > 0
    <3> DEFINE V == U \ {k}
    <3>1. k - 1 \in Nat /\ k - 1 \notin Bad  BY <2>1, <2>4
    <3>2. V \in SUBSET (1..(k - 1))  BY <2>2
    <3>3. Sorted(k - 1, V)  BY <3>1, <3>2
    <3>3a. PICK q : Lists(q, k - 1, V)  BY <3>3 DEF Sorted
    <3>4. PICK c \in 0..(k - 1) : /\ q \in [1..c -> V]
                                  /\ Rising(q)
                                  /\ \A s \in V : Has(q, s)
      BY <3>3a DEF Lists
    <3>5. c \in Nat /\ c \in 0..k /\ c + 1 \in 0..k  BY <3>1, <3>4
    <3>6. CASE k \notin U
      <4>1. V = U  BY <3>6
      <4> HIDE DEF V
      <4> QED  BY <2>2, <3>4, <3>5, <4>1 DEF Sorted, Lists
    <3>7. CASE k \in U
      <4>1. U = V \cup {k}  BY <3>7
      <4>2. \A v \in V : v < k  BY <2>1, <3>2
      <4> HIDE DEF V
      <4> DEFINE p == [i \in 1..(c + 1) |-> IF i = c + 1 THEN k ELSE q[i]]
      <4>3. \A i \in 1..(c + 1) : i # c + 1 => i \in 1..c /\ q[i] \in V /\ q[i] < k
        BY <3>4, <3>5, <4>2
      <4>4. p \in [1..(c + 1) -> U]  BY <4>1, <4>3
      <4>5. ASSUME NEW i \in DOMAIN p, NEW j \in DOMAIN p, i < j  PROVE p[i] < p[j]
        <5>1. i \in 1..(c + 1) /\ j \in 1..(c + 1) /\ i # c + 1  BY <3>5, <4>5
        <5>2. p[i] = q[i] /\ q[i] < k  BY <4>3, <5>1
        <5>3. CASE j = c + 1  BY <5>1, <5>2, <5>3
        <5>4. CASE j # c + 1
          <6>1. p[j] = q[j] /\ i \in DOMAIN q /\ j \in DOMAIN q  BY <3>4, <4>3, <5>1, <5>4
          <6> QED  BY <3>4, <4>5, <5>2, <6>1 DEF Rising
        <5> QED  BY <5>3, <5>4
      <4>6. Rising(p)  BY <4>5 DEF Rising
      <4>7. ASSUME NEW s \in U  PROVE Has(p, s)
        <5>1. CASE s = k
          <6>1. c + 1 \in DOMAIN p /\ p[c + 1] = k  BY <3>5
          <6> HIDE DEF p
          <6> QED  BY <5>1, <6>1 DEF Has
        <5>2. CASE s \in V
          <6>1. PICK i \in 1..c : q[i] = s  BY <3>4, <5>2 DEF Has
          <6>2. i \in DOMAIN p /\ p[i] = q[i]  BY <3>5
          <6> HIDE DEF p
          <6> QED  BY <6>1, <6>2 DEF Has
        <5> QED  BY <4>1, <5>1, <5>2
      <4> HIDE DEF p
      <4> QED  BY <2>2, <3>5, <4>4, <4>6, <4>7 DEF Sorted, Lists
    <3> QED  BY <3>6, <3>7
  <2> QED  BY <2>1, <2>3, <2>4
<1> QED  BY <1>1

Stored(table) == {s \in Registry!Ids : table[s].stored}

LEMMA ListedIs ==
    ASSUME NEW table
    PROVE  Lists(Registry!Listed(table), Rooms, Stored(table))
<1> DEFINE T == Stored(table)
           S == UNION {[1..n -> T] : n \in 0..Rooms}
           Good(p) == Registry!Rising(p) /\ Registry!Range(p) = T
           q == Registry!Listed(table)
<1>1. T \in SUBSET (1..Rooms) /\ Rooms \in Nat  BY RegistryBounds DEF Stored, Registry!Ids
<1>2. T = Registry!Kept(table)  BY DEF Registry!Kept, Stored
<1>3. q = CHOOSE p \in S : Good(p)  BY <1>2 DEF Registry!Listed
<1>3a. PICK p : Lists(p, Rooms, T)  BY <1>1, SortedExists DEF Sorted
<1>4. PICK m \in 0..Rooms : p \in [1..m -> T] /\ Rising(p) /\ \A s \in T : Has(p, s)
  BY <1>3a DEF Lists
<1>5. p \in S  BY <1>4
<1>6. Good(p)
  <2>1. \A i \in DOMAIN p : p[i] \in T  BY <1>4
  <2> QED  BY <1>4, <2>1 DEF Rising, Has, Registry!Rising, Registry!Range
<1> HIDE DEF Good
<1>7. q \in S /\ Good(q)
  <2> HIDE DEF S, q
  <2> QED  BY <1>3, <1>5, <1>6
<1>8. PICK n \in 0..Rooms : q \in [1..n -> T]  BY <1>7
<1>9. Rising(q) /\ \A s \in T : Has(q, s)
  BY <1>7 DEF Good, Rising, Has, Registry!Rising, Registry!Range
<1> QED  BY <1>8, <1>9 DEF Lists

LEMMA PlaceIs ==
    ASSUME NEW q, NEW s, Has(q, s)
    PROVE  Registry!Place(q, s) \in DOMAIN q /\ q[Registry!Place(q, s)] = s
BY DEF Has, Registry!Place

\* What a start makes of the rows (connectMultiServer).
Least(T) == CHOOSE s \in T : \A t \in T : s <= t
Chosen(table, m) == IF m \in Stored(table) THEN m ELSE Least(Stored(table))

StartedFrom(table, m, b) ==
    /\ b.context \in Seq(Registry!Context)
    /\ b.servers \in [Registry!Ids -> Nat]
    /\ b.order \in Seq(Registry!Ids) /\ Distinct(b.order)
    /\ \A s \in Registry!Ids : /\ Has(b.order, s) <=> table[s].stored
                               /\ b.servers[s] # 0 <=> table[s].stored
    /\ \A s \in Registry!Ids : table[s].stored =>
          b.servers[s] \in DOMAIN b.context /\ b.context[b.servers[s]].id = s
    /\ b.active = Chosen(table, m) /\ b.active \in Stored(table)
    /\ b.alias = b.servers[b.active]
    /\ \A c \in DOMAIN b.context :
          b.context[c].bot => b.context[c].enabled /\ b.servers[b.context[c].id] = c

LEMMA LeastIs ==
    ASSUME NEW T \in SUBSET Nat, T # {}, NEW s \in T, \A t \in T : s <= t
    PROVE  Least(T) = s
<1>1. Least(T) \in T /\ \A t \in T : Least(T) <= t  BY DEF Least
<1>2. Least(T) <= s /\ s <= Least(T)  BY <1>1
<1>3. Least(T) \in Nat /\ s \in Nat  BY <1>1
<1> HIDE DEF Least
<1> QED  BY <1>2, <1>3

LEMMA Booted ==
    ASSUME NEW table \in [Registry!Ids -> Registry!Rows], Stored(table) # {}, NEW m
    PROVE  StartedFrom(table, m, Registry!Boot(table, m))
<1> DEFINE T == Stored(table)
           q == Registry!Listed(table)
           b == Registry!Boot(table, m)
           head == IF q = <<>> THEN 0 ELSE q[1]
           act == IF m \in Registry!Range(q) THEN m ELSE head
           place(s) == Registry!Place(q, s)
<1>1. PICK n \in Nat : q \in [1..n -> T] /\ Rising(q) /\ \A s \in T : Has(q, s)
  BY ListedIs, RegistryBounds DEF Lists
<1>2. T \subseteq Registry!Ids /\ \A s \in Registry!Ids : s \in T <=> table[s].stored
  BY DEF Stored
<1>3. /\ b.context = [i \in DOMAIN q |-> Registry!Connected(q[i], table[q[i]].enabled)]
      /\ b.servers = [s \in Registry!Ids |-> IF table[s].stored THEN place(s) ELSE 0]
      /\ b.order = q
      /\ b.active = act
      /\ b.alias = IF act = 0 THEN 0 ELSE place(act)
  BY DEF Registry!Boot, Registry!None, Registry!NoServer
<1>4. Registry!Range(q) = {q[i] : i \in DOMAIN q}  BY DEF Registry!Range
<1> HIDE DEF q, b
<1>5. Registry!Range(q) = T  BY <1>1, <1>4 DEF Has
<1>6. DOMAIN q = 1..n /\ q \in Seq(Registry!Ids)
  <2>1. q \in [1..n -> Registry!Ids]  BY <1>1, <1>2
  <2> QED  BY <1>1, <2>1, SeqDef
<1>7. Distinct(q)
  <2> SUFFICES ASSUME NEW i \in DOMAIN q, NEW j \in DOMAIN q, q[i] = q[j]  PROVE i = j
    BY DEF Distinct
  <2>1. q[i] \in Nat /\ q[j] \in Nat  BY <1>1, <1>2, <1>6, RegistryBounds
  <2>2. ~(i < j) /\ ~(j < i)  BY <1>1, <2>1 DEF Rising
  <2> QED  BY <1>1, <1>6, <2>2
<1>8. \A s \in T : place(s) \in 1..n /\ q[place(s)] = s  BY <1>1, <1>6, PlaceIs
<1>9. \A i \in 1..n : q[i] \in T /\ place(q[i]) = i
  <2> SUFFICES ASSUME NEW i \in 1..n PROVE q[i] \in T /\ place(q[i]) = i  OBVIOUS
  <2>1. q[i] \in T  BY <1>1
  <2> QED  BY <1>6, <1>7, <1>8, <2>1 DEF Distinct
<1> DEFINE ctx(i) == Registry!Connected(q[i], table[q[i]].enabled)
<1>10. \A i \in 1..n : /\ ctx(i) \in Registry!Context /\ ctx(i).id = q[i]
                       /\ ctx(i).bot => ctx(i).enabled
  <2> SUFFICES ASSUME NEW i \in 1..n
               PROVE  /\ ctx(i) \in Registry!Context /\ ctx(i).id = q[i]
                      /\ ctx(i).bot => ctx(i).enabled
    OBVIOUS
  <2>1. q[i] \in Registry!Ids /\ table[q[i]] \in Registry!Rows  BY <1>2, <1>9
  <2>2. table[q[i]].enabled \in BOOLEAN  BY <2>1 DEF Registry!Rows
  <2> QED  BY <2>1, <2>2 DEF Registry!Connected, Registry!Context
<1> HIDE DEF ctx, place
<1>11. b.context = [i \in 1..n |-> ctx(i)]  BY <1>3, <1>6 DEF ctx
<1>12. b.context \in Seq(Registry!Context) /\ DOMAIN b.context = 1..n
  <2>1. b.context \in [1..n -> Registry!Context]  BY <1>10, <1>11
  <2> QED  BY <1>1, <2>1, SeqDef
<1>13. b.servers = [s \in Registry!Ids |-> IF table[s].stored THEN place(s) ELSE 0]
  BY <1>3 DEF place
<1>14. \A s \in T : b.servers[s] = place(s) /\ place(s) \in 1..n  BY <1>2, <1>8, <1>13
<1>15. b.servers \in [Registry!Ids -> Nat]
  <2>1. \A s \in Registry!Ids : (IF table[s].stored THEN place(s) ELSE 0) \in Nat
    BY <1>1, <1>2, <1>8
  <2> QED  BY <1>13, <2>1
<1>16. act \in T /\ act = Chosen(table, m)
  <2>1. n # 0  BY <1>1, <1>8
  <2>2. 1 \in DOMAIN q /\ q[1] \in T  BY <1>1, <1>6, <2>1
  <2>3. q # <<>>  BY <2>2
  <2>4. \A t \in T : q[1] <= t
    <3> SUFFICES ASSUME NEW t \in T PROVE q[1] <= t  OBVIOUS
    <3>1. place(t) \in 1..n /\ q[place(t)] = t  BY <1>8
    <3>2. q[1] \in Nat /\ t \in Nat  BY <1>2, <2>2, RegistryBounds
    <3>3. CASE place(t) = 1  BY <3>1, <3>2, <3>3
    <3>4. CASE place(t) # 1
      <4>1. 1 < place(t)  BY <3>1, <3>4
      <4>2. q[1] < t  BY <1>1, <1>6, <2>2, <3>1, <4>1 DEF Rising
      <4> QED  BY <3>2, <4>2
    <3> QED  BY <3>3, <3>4
  <2>5. T \in SUBSET Nat  BY <1>2, RegistryBounds
  <2>6. Least(T) = q[1]  BY <2>2, <2>4, <2>5, LeastIs
  <2>7. head = q[1]  BY <2>3
  <2> HIDE DEF T
  <2> QED  BY <1>5, <2>2, <2>6, <2>7 DEF Chosen, T
<1>17. act # 0  BY <1>2, <1>16, RegistryBounds
<1>18. b.alias = b.servers[b.active]  BY <1>3, <1>14, <1>16, <1>17 DEF place
<1>19. \A s \in Registry!Ids : /\ Has(b.order, s) <=> table[s].stored
                               /\ b.servers[s] # 0 <=> table[s].stored
  <2> SUFFICES ASSUME NEW s \in Registry!Ids
               PROVE  /\ Has(b.order, s) <=> table[s].stored
                      /\ b.servers[s] # 0 <=> table[s].stored
    OBVIOUS
  <2>1. Has(b.order, s) <=> s \in T  BY <1>1, <1>3 DEF Has
  <2>2. s \notin T => b.servers[s] = 0  BY <1>2, <1>13
  <2>3. s \in T => b.servers[s] # 0  BY <1>14
  <2> QED  BY <1>2, <2>1, <2>2, <2>3
<1>20. \A s \in Registry!Ids : table[s].stored =>
          b.servers[s] \in DOMAIN b.context /\ b.context[b.servers[s]].id = s
  <2> SUFFICES ASSUME NEW s \in T
               PROVE  b.servers[s] \in DOMAIN b.context /\ b.context[b.servers[s]].id = s
    BY <1>2
  <2>1. b.servers[s] \in 1..n /\ q[b.servers[s]] = s  BY <1>8, <1>14
  <2> QED  BY <1>10, <1>11, <1>12, <2>1
<1>21. \A c \in DOMAIN b.context :
          b.context[c].bot => b.context[c].enabled /\ b.servers[b.context[c].id] = c
  <2> SUFFICES ASSUME NEW c \in 1..n, b.context[c].bot
               PROVE  b.context[c].enabled /\ b.servers[b.context[c].id] = c
    BY <1>12
  <2>1. b.context[c] = ctx(c)  BY <1>11
  <2>2. ctx(c).id = q[c] /\ ctx(c).enabled  BY <1>10, <2>1
  <2>3. q[c] \in T /\ place(q[c]) = c  BY <1>9
  <2> QED  BY <1>14, <2>1, <2>2, <2>3
<1> QED
  BY <1>3, <1>6, <1>7, <1>12, <1>15, <1>16, <1>18, <1>19, <1>20, <1>21 DEF StartedFrom, b

\* A list without its i-th element.
LEMMA RemovedAt ==
    ASSUME NEW S, NEW q \in Seq(S), NEW i \in 1..Len(q)
    PROVE  LET p == Registry!Without(q, i)
           IN  /\ p \in Seq(S) /\ Len(p) = Len(q) - 1 /\ DOMAIN p = 1..(Len(q) - 1)
               /\ \A k \in 1..(Len(q) - 1) : p[k] = q[IF k < i THEN k ELSE k + 1]
<1> DEFINE p == Registry!Without(q, i)
           n == Len(q)
           front == SubSeq(q, 1, i - 1)
           back == SubSeq(q, i + 1, n)
<1>1. n \in Nat /\ DOMAIN q = 1..n /\ q \in [1..n -> S]  BY LenProperties
<1>2. i \in 1..n  OBVIOUS
<1>3. /\ front \in Seq(S) /\ Len(front) = i - 1
      /\ \A k \in 1..(i - 1) : front[k] = q[k]
  <2>1. \A k \in 1..(i - 1) : q[k] \in S  BY <1>1, <1>2
  <2>2. 1 \in Int /\ i - 1 \in Int  BY <1>2
  <2> QED  BY <1>2, <2>1, <2>2, SubSeqProperties
<1>4. /\ back \in Seq(S) /\ Len(back) = n - i
      /\ \A k \in 1..(n - i) : back[k] = q[i + k]
  <2>1. \A k \in (i + 1)..n : q[k] \in S  BY <1>1, <1>2
  <2>2. i + 1 \in Int /\ n \in Int /\ n - (i + 1) + 1 = n - i  BY <1>1, <1>2
  <2>3. /\ back \in Seq(S)
        /\ Len(back) = IF i + 1 <= n THEN n - (i + 1) + 1 ELSE 0
        /\ \A k \in 1..(n - (i + 1) + 1) : back[k] = q[(i + 1) + k - 1]
    BY <2>1, <2>2, SubSeqProperties
  <2>4. \A k \in 1..(n - i) : k \in 1..(n - (i + 1) + 1) /\ (i + 1) + k - 1 = i + k
    BY <1>1, <1>2
  <2>5. Len(back) = n - i
    <3> HIDE DEF n, back
    <3>1. CASE i + 1 <= n  BY <1>1, <1>2, <2>3, <3>1
    <3>2. CASE ~(i + 1 <= n)
      <4>1. Len(back) = 0  BY <2>3, <3>2
      <4>2. i = n  BY <1>1, <1>2, <3>2
      <4> QED  BY <1>1, <4>1, <4>2
    <3> QED  BY <3>1, <3>2
  <2>6. ASSUME NEW k \in 1..(n - i)  PROVE back[k] = q[i + k]  BY <2>3, <2>4
  <2> QED  BY <2>3, <2>5, <2>6
<1>5. p = front \o back  BY DEF Registry!Without
<1> HIDE DEF p, front, back
<1>6. /\ p \in Seq(S) /\ Len(p) = n - 1
      /\ \A k \in 1..(n - 1) : p[k] = IF k <= i - 1 THEN front[k] ELSE back[k - (i - 1)]
  <2> HIDE DEF n
  <2>1. (i - 1) + (n - i) = n - 1  BY <1>1, <1>2
  <2>2. front \in Seq(S) /\ Len(front) = i - 1 /\ back \in Seq(S) /\ Len(back) = n - i
    BY <1>3, <1>4
  <2>3. /\ p \in Seq(S) /\ Len(p) = Len(front) + Len(back)
        /\ \A k \in 1..(Len(front) + Len(back)) :
              p[k] = IF k <= Len(front) THEN front[k] ELSE back[k - Len(front)]
    BY <1>5, <2>2, ConcatProperties
  <2> QED  BY <2>1, <2>2, <2>3
<1>7. DOMAIN p = 1..(n - 1)  BY <1>6, LenProperties
<1>8. \A k \in 1..(n - 1) : p[k] = q[IF k < i THEN k ELSE k + 1]
  <2> SUFFICES ASSUME NEW k \in 1..(n - 1)  PROVE p[k] = q[IF k < i THEN k ELSE k + 1]
    OBVIOUS
  <2>1. CASE k < i  BY <1>1, <1>2, <1>3, <1>6, <2>1
  <2>2. CASE ~(k < i)
    <3>1. k - (i - 1) \in 1..(n - i) /\ i + (k - (i - 1)) = k + 1 /\ ~(k <= i - 1)
      BY <1>1, <1>2, <2>2
    <3> QED  BY <1>4, <1>6, <2>2, <3>1
  <2> QED  BY <2>1, <2>2
<1> QED  BY <1>6, <1>7, <1>8 DEF n, p

\* The order without one of its servers (Remove).
LEMMA Unlisted ==
    ASSUME NEW S, NEW q \in Seq(S), NEW s, Has(q, s), Distinct(q)
    PROVE  LET p == Registry!Without(q, Registry!Place(q, s))
           IN  /\ p \in Seq(S) /\ Distinct(p)
               /\ \A t : Has(p, t) <=> Has(q, t) /\ t # s
<1> DEFINE i == Registry!Place(q, s)
           p == Registry!Without(q, i)
           n == Len(q)
<1>1. n \in Nat /\ DOMAIN q = 1..n /\ q \in [1..n -> S]  BY LenProperties
<1>2. i \in 1..n /\ q[i] = s  BY <1>1, PlaceIs
<1> HIDE DEF i
<1>3. p \in Seq(S)  BY <1>2, RemovedAt
<1>4. DOMAIN p = 1..(n - 1)  BY <1>2, RemovedAt
<1>5. \A k \in 1..(n - 1) : p[k] = q[IF k < i THEN k ELSE k + 1]  BY <1>2, RemovedAt
<1> HIDE DEF p
<1>6. Distinct(p)
  <2> SUFFICES ASSUME NEW j \in 1..(n - 1), NEW k \in 1..(n - 1), p[j] = p[k]  PROVE j = k
    BY <1>4 DEF Distinct
  <2> DEFINE a == IF j < i THEN j ELSE j + 1
             b == IF k < i THEN k ELSE k + 1
  <2>1. a \in 1..n /\ b \in 1..n  BY <1>1, <1>2
  <2>2. q[a] = q[b]  BY <1>5
  <2>3. a = b  BY <1>1, <2>1, <2>2 DEF Distinct
  <2> QED  BY <1>1, <1>2, <2>3
<1>7. ASSUME NEW t  PROVE Has(p, t) <=> Has(q, t) /\ t # s
  <2>1. ASSUME Has(p, t)  PROVE Has(q, t) /\ t # s
    <3>1. PICK k \in 1..(n - 1) : p[k] = t  BY <1>4, <2>1 DEF Has
    <3> DEFINE b == IF k < i THEN k ELSE k + 1
    <3>2. b \in 1..n /\ b # i  BY <1>1, <1>2
    <3>3. q[b] = t  BY <1>5, <3>1
    <3>4. t # s  BY <1>1, <1>2, <3>2, <3>3 DEF Distinct
    <3> QED  BY <1>1, <3>2, <3>3, <3>4 DEF Has
  <2>2. ASSUME Has(q, t), t # s  PROVE Has(p, t)
    <3>1. PICK k \in 1..n : q[k] = t  BY <1>1, <2>2 DEF Has
    <3>2. k # i  BY <1>2, <2>2, <3>1
    <3> DEFINE j == IF k < i THEN k ELSE k - 1
    <3>3. j \in 1..(n - 1) /\ (IF j < i THEN j ELSE j + 1) = k  BY <1>1, <1>2, <3>2
    <3>4. p[j] = t  BY <1>5, <3>1, <3>3
    <3> QED  BY <1>4, <3>3, <3>4 DEF Has
  <2> QED  BY <2>1, <2>2
<1> QED  BY <1>3, <1>6, <1>7 DEF p, i

-----------------------------------------------------------------------------
(* The registry: the invariant                                             *)

RegistryKinds == {"none", "add", "edit", "reconnect", "activate", "delete"}
RegistryPlaces == {"connect", "register", "isactive", "alias", "read", "persist",
                   "proxies", "startbot", "remove", "row"}
RegistryRequest ==
    [pc : RegistryPlaces \cup {"idle"},
     kind : RegistryKinds, id : Nat, enabled : BOOLEAN, context : Nat]

\* Which requests come to which place.
KindAt(q) ==
    /\ q.pc # "idle" => q.id \in Registry!Ids
    /\ q.pc \in {"connect", "register"} => q.kind \in {"add", "edit", "reconnect"}
    /\ q.pc = "isactive" => q.kind \in {"edit", "reconnect"}
    /\ q.pc = "alias" => q.kind \in {"edit", "reconnect", "activate", "delete"}
    /\ q.pc \in {"read", "persist"} => q.kind \in {"activate", "delete"}
    /\ q.pc = "proxies" => q.kind \in {"reconnect", "activate", "delete"}
    /\ q.pc = "startbot" => q.kind \in {"add", "edit", "reconnect"}
    /\ q.pc \in {"remove", "row"} => q.kind = "delete"

RegistryTypes ==
    /\ rServers \in [Registry!Ids -> Nat]
    /\ rOrder \in Seq(Registry!Ids)
    /\ rActive \in Registry!Ids
    /\ rContext \in Seq(Registry!Context)
    /\ rRows \in [Registry!Ids -> Registry!Rows]
    /\ rMeta \in Registry!Ids \cup {0}
    /\ rRequest \in [Requests -> RegistryRequest]
    /\ \A r \in Requests : KindAt(rRequest[r])

\* Ids are given in rising order and never again.
RowsInv ==
    /\ \A s \in Registry!Ids : rRows[s].stored => rRows[s].used
    /\ \A s, t \in Registry!Ids : s < t /\ rRows[t].used => rRows[s].used
    /\ rMeta # 0 => rRows[rMeta].used

\* What is registered is listed once, stored, and has a context of its own.
LiveInv ==
    /\ Distinct(rOrder)
    /\ \A s \in Registry!Ids : Has(rOrder, s) <=> rServers[s] # 0
    /\ rServers[rActive] # 0
    /\ \A s \in Registry!Ids : rServers[s] # 0 =>
          /\ rServers[s] \in DOMAIN rContext
          /\ rContext[rServers[s]].id = s
          /\ rRows[s].stored

\* What a request relies on at its place.
RequestAt(q) ==
    /\ q.pc # "idle" => rRows[q.id].used
    /\ q.pc \in {"connect", "register"} /\ q.kind = "add" =>
          rServers[q.id] = 0 /\ rRows[q.id].stored
    /\ q.pc = "remove" \/ (q.pc \in {"connect", "register"} /\ q.kind # "add") =>
          rServers[q.id] # 0 /\ ~rContext[rServers[q.id]].bot
    /\ q.pc = "register" => q.context \in DOMAIN rContext /\ rContext[q.context].id = q.id
    /\ q.pc \in {"isactive", "startbot"} \/ (q.kind \in {"edit", "reconnect"} /\ q.pc \in {"alias", "proxies"})
          => q.context # 0 /\ rServers[q.id] = q.context
    /\ q.pc \in {"alias", "persist"} => q.context = rServers[rActive]
    /\ q.kind = "activate" /\ q.pc \in {"read", "alias", "persist"} => rActive = q.id
    /\ q.pc = "remove" => \E s \in Registry!Ids : s # q.id /\ rServers[s] # 0
    /\ q.pc = "row" => rServers[q.id] = 0

\* Requests under way have servers of their own, and all but one are additions.
Apart(p, q) ==
    p.pc # "idle" /\ q.pc # "idle" => p.id # q.id /\ (p.kind = "add" \/ q.kind = "add")

TurnsInv ==
    /\ \A r \in Requests : RequestAt(rRequest[r])
    /\ \A r, o \in Requests : r # o => Apart(rRequest[r], rRequest[o])

\* The aliases lag only while a request is on its way to set them.
Lagging(q) == \/ q.pc \in {"read", "row", "alias"}
              \/ q.pc = "isactive" /\ rActive = q.id
AliasInv == rAlias = rServers[rActive] \/ \E r \in Requests : Lagging(rRequest[r])

BotInv ==
    \A c \in DOMAIN rContext :
        rContext[c].bot => rContext[c].enabled /\ rServers[rContext[c].id] = c

\* So does the persisted choice.
Choosing(q) == q.pc \in {"read", "alias", "persist", "row"} /\ q.kind \in {"activate", "delete"}
MetaInv == rActive = Chosen(rRows, rMeta) \/ \E r \in Requests : Choosing(rRequest[r])

RegistryInv ==
    RegistryTypes /\ RowsInv /\ LiveInv /\ TurnsInv /\ AliasInv /\ BotInv /\ MetaInv

\* What a step may not do under a request that is not its own.
Leaves(q) ==
    q.pc # "idle" =>
    /\ rServers'[q.id] = rServers[q.id]
    /\ \A c \in DOMAIN rContext : c \in DOMAIN rContext' /\ rContext'[c].id = rContext[c].id
    /\ rServers[q.id] # 0 /\ ~rContext[rServers[q.id]].bot => ~rContext'[rServers[q.id]].bot
    /\ rRows[q.id].used => rRows'[q.id].used
    /\ rRows[q.id].stored => rRows'[q.id].stored
    /\ q.kind # "add" => /\ rActive' = rActive /\ rServers'[rActive] = rServers[rActive]
                         /\ \A s \in Registry!Ids : rServers[s] # 0 => rServers'[s] # 0

LEMMA Left ==
    ASSUME RegistryTypes, LiveInv, NEW q \in RegistryRequest, KindAt(q), RequestAt(q), Leaves(q)
    PROVE  RequestAt(q)'
<1>1. CASE q.pc = "idle"  BY <1>1 DEF RequestAt
<1>2. CASE q.pc # "idle"
  <2>1. q.id \in Registry!Ids  BY <1>2 DEF KindAt
  <2>2. rServers[q.id] # 0 => rServers[q.id] \in DOMAIN rContext  BY <2>1 DEF LiveInv
  <2>3. rServers'[q.id] = rServers[q.id]  BY <1>2 DEF Leaves
  <2>4. (q.pc # "idle" => rRows[q.id].used)'  BY <1>2 DEF RequestAt, Leaves
  <2>5. (q.pc \in {"connect", "register"} /\ q.kind = "add" =>
            rServers[q.id] = 0 /\ rRows[q.id].stored)'
    BY <1>2, <2>3 DEF RequestAt, Leaves
  <2>6. (q.pc = "remove" \/ (q.pc \in {"connect", "register"} /\ q.kind # "add") =>
            rServers[q.id] # 0 /\ ~rContext[rServers[q.id]].bot)'
    BY <1>2, <2>3 DEF RequestAt, Leaves
  <2>7. (q.pc = "register" => q.context \in DOMAIN rContext /\ rContext[q.context].id = q.id)'
    BY <1>2 DEF RequestAt, Leaves
  <2>8. (q.pc \in {"isactive", "startbot"} \/ (q.kind \in {"edit", "reconnect"} /\ q.pc \in {"alias", "proxies"})
            => q.context # 0 /\ rServers[q.id] = q.context)'
    BY <2>3 DEF RequestAt
  <2>9. (q.pc \in {"alias", "persist"} => q.context = rServers[rActive])'
    BY <1>2 DEF RequestAt, Leaves, KindAt
  <2>10. (q.kind = "activate" /\ q.pc \in {"read", "alias", "persist"} => rActive = q.id)'
    BY <1>2 DEF RequestAt, Leaves
  <2>11. (q.pc = "remove" => \E s \in Registry!Ids : s # q.id /\ rServers[s] # 0)'
    BY <1>2 DEF RequestAt, Leaves, KindAt
  <2>12. (q.pc = "row" => rServers[q.id] = 0)'  BY <2>3 DEF RequestAt
  <2> QED
    BY <2>4, <2>5, <2>6, <2>7, <2>8, <2>9, <2>10, <2>11, <2>12 DEF RequestAt
<1> QED  BY <1>1, <1>2

\* One request moves, the others rely on what they did.
LEMMA Turns ==
    ASSUME RegistryTypes, LiveInv, TurnsInv, NEW r \in Requests, NEW q \in RegistryRequest,
           KindAt(q), RequestAt(q)', rRequest' = [rRequest EXCEPT ![r] = q],
           \A o \in Requests : o # r => Leaves(rRequest[o]) /\ Apart(rRequest[o], q)
    PROVE  TurnsInv' /\ rRequest' \in [Requests -> RegistryRequest]
           /\ \A o \in Requests : KindAt(rRequest'[o])
<1>1. \A o \in Requests : rRequest[o] \in RegistryRequest /\ KindAt(rRequest[o])
  BY DEF RegistryTypes
<1>2. \A o \in Requests : rRequest'[o] = IF o = r THEN q ELSE rRequest[o]
  BY DEF RegistryTypes
<1>3. ASSUME NEW o \in Requests  PROVE RequestAt(rRequest[o])'
  <2>1. CASE o = r
    <3>1. rRequest'[o] = q  BY <1>2, <2>1
    <3> QED  BY <3>1 DEF RequestAt
  <2>2. CASE o # r
    <3> DEFINE x == rRequest[o]
    <3>1. x \in RegistryRequest /\ KindAt(x) /\ RequestAt(x) /\ Leaves(x)
      BY <1>1, <2>2 DEF TurnsInv
    <3>2. rRequest'[o] = x  BY <1>2, <2>2
    <3> HIDE DEF x
    <3> QED  BY <3>1, <3>2, Left DEF RequestAt
  <2> QED  BY <2>1, <2>2
<1>4. ASSUME NEW o \in Requests, NEW p \in Requests, o # p
      PROVE  Apart(rRequest'[o], rRequest'[p])
  <2>1. Apart(rRequest[o], rRequest[p])  BY <1>4 DEF TurnsInv
  <2>2. CASE o = r  BY <1>2, <1>4, <2>2 DEF Apart
  <2>3. CASE p = r  BY <1>2, <1>4, <2>3 DEF Apart
  <2>4. CASE o # r /\ p # r  BY <1>2, <2>1, <2>4
  <2> QED  BY <2>2, <2>3, <2>4
<1>5. TurnsInv'
  <2>1. (\A o \in Requests : RequestAt(rRequest[o]))'  BY <1>3
  <2>2. (\A o, p \in Requests : o # p => Apart(rRequest[o], rRequest[p]))'  BY <1>4 DEF Apart
  <2> QED  BY <2>1, <2>2 DEF TurnsInv
<1>6. rRequest' \in [Requests -> RegistryRequest]  BY DEF RegistryTypes
<1>7. \A o \in Requests : KindAt(rRequest'[o])  BY <1>1, <1>2
<1> QED  BY <1>5, <1>6, <1>7

\* The request goes on with its server, or is done.
Continues(r, q) ==
    /\ q \in RegistryRequest /\ KindAt(q)
    /\ rRequest' = [rRequest EXCEPT ![r] = q]
    /\ q.pc # "idle" => /\ rRequest[r].pc # "idle"
                        /\ q.id = rRequest[r].id /\ q.kind = rRequest[r].kind

LEMMA StillApart ==
    ASSUME RegistryInv, NEW r \in Requests, NEW q, Continues(r, q)
    PROVE  \A o \in Requests : o # r => Apart(rRequest[o], q)
BY DEF RegistryInv, TurnsInv, Continues, Apart

LEMMA LagsOn ==
    ASSUME RegistryInv, NEW r \in Requests, NEW q, rRequest' = [rRequest EXCEPT ![r] = q],
           rActive' = rActive,
           \/ rAlias' = rServers'[rActive]
           \/ /\ rAlias' = rAlias /\ rServers'[rActive] = rServers[rActive]
              /\ Lagging(rRequest[r]) => Lagging(q)
    PROVE  AliasInv'
<1>1. \A o \in Requests : rRequest'[o] = IF o = r THEN q ELSE rRequest[o]
  BY DEF RegistryInv, RegistryTypes
<1>2. CASE rAlias' = rServers'[rActive]  BY <1>2 DEF AliasInv
<1>3. CASE rAlias = rServers[rActive] /\ rAlias' = rAlias /\ rServers'[rActive] = rServers[rActive]
  BY <1>3 DEF AliasInv
<1>4. CASE /\ rAlias # rServers[rActive] /\ rServers'[rActive] = rServers[rActive]
           /\ Lagging(rRequest[r]) => Lagging(q)
  <2>1. PICK o \in Requests : Lagging(rRequest[o])  BY <1>4 DEF RegistryInv, AliasInv
  <2>2. Lagging(rRequest'[o])  BY <1>1, <1>4, <2>1
  <2>3. Lagging(rRequest[o])'  BY <2>2 DEF Lagging
  <2> QED  BY <2>3 DEF AliasInv
<1> QED  BY <1>2, <1>3, <1>4

LEMMA ChoosesOn ==
    ASSUME RegistryInv, NEW r \in Requests, NEW q, rRequest' = [rRequest EXCEPT ![r] = q],
           \/ rActive' = Chosen(rRows', rMeta')
           \/ /\ rActive' = rActive /\ rMeta' = rMeta
              /\ Chosen(rRows', rMeta) = Chosen(rRows, rMeta)
              /\ Choosing(rRequest[r]) => Choosing(q)
    PROVE  MetaInv'
<1>1. \A o \in Requests : rRequest'[o] = IF o = r THEN q ELSE rRequest[o]
  BY DEF RegistryInv, RegistryTypes
<1>2. CASE rActive' = Chosen(rRows', rMeta')
  <2>1. Chosen(rRows, rMeta)' = Chosen(rRows', rMeta')  BY DEF Chosen, Stored
  <2> QED  BY <1>2, <2>1 DEF MetaInv
<1>3. CASE /\ rActive' = rActive /\ rMeta' = rMeta
           /\ Chosen(rRows', rMeta) = Chosen(rRows, rMeta) /\ rActive = Chosen(rRows, rMeta)
  <2>1. Chosen(rRows, rMeta)' = Chosen(rRows', rMeta')  BY DEF Chosen, Stored
  <2> QED  BY <1>3, <2>1 DEF MetaInv
<1>4. CASE rActive # Chosen(rRows, rMeta) /\ (Choosing(rRequest[r]) => Choosing(q))
  <2>1. PICK o \in Requests : Choosing(rRequest[o])  BY <1>4 DEF RegistryInv, MetaInv
  <2>2. Choosing(rRequest'[o])  BY <1>1, <1>4, <2>1
  <2>3. Choosing(rRequest[o])'  BY <2>2 DEF Choosing
  <2> QED  BY <2>3 DEF MetaInv
<1> QED  BY <1>2, <1>3, <1>4

\* A step that leaves the registry, the contexts and the rows.
LEMMA Quiet ==
    ASSUME RegistryInv, NEW r \in Requests, NEW q, Continues(r, q), RequestAt(q),
           UNCHANGED <<rServers, rOrder, rActive, rContext, rRows>>,
           rMeta' \in Registry!Ids \cup {0}, rMeta' # 0 => rRows[rMeta'].used,
           \/ rAlias' = rServers[rActive]
           \/ rAlias' = rAlias /\ (Lagging(rRequest[r]) => Lagging(q)),
           \/ rActive = Chosen(rRows, rMeta')
           \/ rMeta' = rMeta /\ (Choosing(rRequest[r]) => Choosing(q))
    PROVE  RegistryInv'
<1>1. /\ RegistryTypes /\ RowsInv /\ LiveInv /\ TurnsInv /\ BotInv  BY DEF RegistryInv
<1>2. \A o \in Requests : o # r => Apart(rRequest[o], q)  BY StillApart
<1>3. \A o \in Requests : Leaves(rRequest[o])  BY DEF Leaves
<1>4. RequestAt(q)'  BY DEF RequestAt
<1>5. q \in RegistryRequest /\ KindAt(q) /\ rRequest' = [rRequest EXCEPT ![r] = q]
  BY DEF Continues
<1>6. /\ TurnsInv' /\ rRequest' \in [Requests -> RegistryRequest]
      /\ \A o \in Requests : KindAt(rRequest'[o])
  BY <1>1, <1>2, <1>3, <1>4, <1>5, Turns
<1>7. RegistryTypes'  BY <1>1, <1>6 DEF RegistryTypes, KindAt
<1>8. RowsInv'  BY <1>1 DEF RowsInv
<1>9. LiveInv'  BY <1>1 DEF LiveInv, Distinct, Has
<1>10. AliasInv'  BY <1>5, LagsOn
<1>11. MetaInv'  BY <1>5, ChoosesOn
<1>12. BotInv'  BY <1>1 DEF BotInv
<1> QED  BY <1>6, <1>7, <1>8, <1>9, <1>10, <1>11, <1>12 DEF RegistryInv

\* A step that changes contexts, and the toggle in a row.
LEMMA Contexts ==
    ASSUME RegistryInv, NEW r \in Requests, NEW q \in RegistryRequest, KindAt(q), RequestAt(q)',
           rRequest' = [rRequest EXCEPT ![r] = q],
           UNCHANGED <<rServers, rOrder, rActive, rAlias, rMeta>>,
           \A o \in Requests : o # r => Apart(rRequest[o], q),
           rContext' \in Seq(Registry!Context),
           rRows' \in [Registry!Ids -> Registry!Rows],
           \A s \in Registry!Ids : /\ rRows'[s].stored = rRows[s].stored
                                   /\ rRows'[s].used = rRows[s].used,
           \A c \in DOMAIN rContext : /\ c \in DOMAIN rContext'
                                      /\ rContext'[c].id = rContext[c].id,
           \A o \in Requests : o # r /\ rRequest[o].pc # "idle" =>
              LET c == rServers[rRequest[o].id]
              IN  c # 0 /\ ~rContext[c].bot => ~rContext'[c].bot,
           BotInv', Lagging(rRequest[r]) => Lagging(q), Choosing(rRequest[r]) => Choosing(q)
    PROVE  RegistryInv'
<1>1. /\ RegistryTypes /\ RowsInv /\ LiveInv /\ TurnsInv  BY DEF RegistryInv
<1>2. \A o \in Requests : rRequest[o].pc # "idle" => rRequest[o].id \in Registry!Ids
  BY <1>1 DEF RegistryTypes, KindAt
<1>3. \A o \in Requests : o # r => Leaves(rRequest[o])  BY <1>2 DEF Leaves
<1>4. /\ TurnsInv' /\ rRequest' \in [Requests -> RegistryRequest]
      /\ \A o \in Requests : KindAt(rRequest'[o])
  BY <1>1, <1>3, Turns
<1>5. RegistryTypes'  BY <1>1, <1>4 DEF RegistryTypes, KindAt
<1>6. RowsInv'  BY <1>1 DEF RowsInv, RegistryTypes
<1>7. LiveInv'  BY <1>1 DEF LiveInv, Distinct, Has
<1>8. Stored(rRows') = Stored(rRows)  BY DEF Stored
<1>9. AliasInv'  BY LagsOn
<1>10. MetaInv'  BY <1>8, ChoosesOn DEF Chosen
<1> QED  BY <1>4, <1>5, <1>6, <1>7, <1>9, <1>10 DEF RegistryInv

LEMMA ActiveIs == RegistryInv => Registry!ActiveContext = rServers[rActive]
BY RegistryBounds DEF RegistryInv, RegistryTypes, Registry!ActiveContext, Registry!NoServer

LEMMA ActiveServer ==
    RegistryInv => /\ rServers[rActive] \in DOMAIN rContext /\ rServers[rActive] # 0
                   /\ rContext[rServers[rActive]].id = rActive
                   /\ rRows[rActive].stored /\ rRows[rActive].used
                   /\ rActive = Chosen(rRows, rActive)
BY DEF RegistryInv, RegistryTypes, LiveInv, RowsInv, Chosen, Stored

LEMMA IdleIs == /\ Registry!Idle \in RegistryRequest /\ KindAt(Registry!Idle)
                /\ RequestAt(Registry!Idle) /\ Registry!Idle.pc = "idle"
BY DEF Registry!Idle, Registry!NoServer, Registry!None, RegistryRequest, RegistryPlaces, RegistryKinds, KindAt, RequestAt

\* The same request at another place.
LEMMA MovedRequest ==
    ASSUME RegistryInv, NEW r \in Requests, rRequest[r].pc # "idle",
           NEW p \in RegistryPlaces
    PROVE  LET q == [rRequest[r] EXCEPT !.pc = p]
           IN  /\ q \in RegistryRequest /\ q.pc = p /\ q.id = rRequest[r].id
               /\ q.kind = rRequest[r].kind /\ q.context = rRequest[r].context
               /\ q.id \in Registry!Ids
BY DEF RegistryInv, RegistryTypes, RegistryRequest, RegistryPlaces, KindAt

LEMMA StepIsActive ==
    ASSUME RegistryInv, NEW r \in Requests, Registry!IsActive(r)
    PROVE  RegistryInv'
<1>0. PICK at \in RegistryPlaces :
         at = IF rActive = rRequest[r].id THEN "alias" ELSE "startbot"
  BY DEF RegistryPlaces
<1> DEFINE q == [rRequest[r] EXCEPT !.pc = at]
<1>1. /\ rRequest[r].pc = "isactive" /\ rRequest' = [rRequest EXCEPT ![r] = q]
      /\ UNCHANGED <<rServers, rOrder, rActive, rContext, rAlias, rRows, rMeta>>
  BY <1>0 DEF Registry!IsActive, Registry!At, Registry!Goto, Registry!registry
<1>2. /\ q \in RegistryRequest /\ q.pc = at /\ q.id = rRequest[r].id
      /\ q.kind = rRequest[r].kind /\ q.context = rRequest[r].context
      /\ q.id \in Registry!Ids
  BY <1>1, MovedRequest
<1>3. KindAt(rRequest[r]) /\ RequestAt(rRequest[r])
  BY DEF RegistryInv, RegistryTypes, TurnsInv
<1>4. KindAt(q)  BY <1>0, <1>1, <1>2, <1>3 DEF KindAt
<1>5. RequestAt(q)  BY <1>0, <1>1, <1>2, <1>3 DEF RequestAt, KindAt
<1>6. Continues(r, q)  BY <1>0, <1>1, <1>2, <1>4 DEF Continues
<1>7. Lagging(rRequest[r]) => Lagging(q)  BY <1>0, <1>1, <1>2 DEF Lagging
<1>8. ~Choosing(rRequest[r])  BY <1>1 DEF Choosing
<1>9. rMeta \in Registry!Ids \cup {0} /\ (rMeta # 0 => rRows[rMeta].used)
  BY DEF RegistryInv, RegistryTypes, RowsInv
<1> HIDE DEF q
<1> QED  BY <1>1, <1>5, <1>6, <1>7, <1>8, <1>9, Quiet

LEMMA StepReadActive ==
    ASSUME RegistryInv, NEW r \in Requests, Registry!ReadActive(r)
    PROVE  RegistryInv'
<1> DEFINE q == [rRequest[r] EXCEPT !.pc = "alias", !.context = rServers[rActive]]
<1>1. /\ rRequest[r].pc = "read" /\ rRequest' = [rRequest EXCEPT ![r] = q]
      /\ UNCHANGED <<rServers, rOrder, rActive, rContext, rAlias, rRows, rMeta>>
  BY ActiveIs DEF Registry!ReadActive, Registry!At, Registry!registry
<1>2. rServers[rActive] \in Nat  BY DEF RegistryInv, RegistryTypes
<1>3. rRequest[r] \in RegistryRequest /\ KindAt(rRequest[r]) /\ RequestAt(rRequest[r])
  BY DEF RegistryInv, RegistryTypes, TurnsInv
<1>4. /\ q \in RegistryRequest /\ q.pc = "alias" /\ q.id = rRequest[r].id
      /\ q.kind = rRequest[r].kind /\ q.context = rServers[rActive]
  BY <1>2, <1>3 DEF RegistryRequest, RegistryPlaces
<1>5. KindAt(q)  BY <1>1, <1>3, <1>4 DEF KindAt
<1>6. RequestAt(q)  BY <1>1, <1>3, <1>4 DEF RequestAt, KindAt
<1>7. Continues(r, q)  BY <1>1, <1>4, <1>5 DEF Continues
<1>8. Lagging(q) /\ (Choosing(rRequest[r]) => Choosing(q))  BY <1>4 DEF Lagging, Choosing
<1>9. rMeta \in Registry!Ids \cup {0} /\ (rMeta # 0 => rRows[rMeta].used)
  BY DEF RegistryInv, RegistryTypes, RowsInv
<1> HIDE DEF q
<1> QED  BY <1>1, <1>6, <1>7, <1>8, <1>9, Quiet

LEMMA StepAlias ==
    ASSUME RegistryInv, NEW r \in Requests, Registry!Alias(r)
    PROVE  RegistryInv'
<1>0. PICK at : at = Registry!Goes(rRequest[r].kind)  OBVIOUS
<1> DEFINE q == [rRequest[r] EXCEPT !.pc = at]
<1>1. /\ rRequest[r].pc = "alias" /\ rRequest' = [rRequest EXCEPT ![r] = q]
      /\ rAlias' = rRequest[r].context
      /\ UNCHANGED <<rServers, rOrder, rActive, rContext, rRows, rMeta>>
  BY <1>0 DEF Registry!Alias, Registry!At, Registry!Goto, Registry!registry
<1>2. KindAt(rRequest[r]) /\ RequestAt(rRequest[r])
  BY DEF RegistryInv, RegistryTypes, TurnsInv
<1>3. /\ rRequest[r].kind \in {"edit", "reconnect", "activate", "delete"}
      /\ rRequest[r].context = rServers[rActive]
  BY <1>1, <1>2 DEF KindAt, RequestAt
<1>4. /\ rRequest[r].kind = "edit" => at = "startbot"
      /\ rRequest[r].kind = "reconnect" => at = "proxies"
      /\ rRequest[r].kind \in {"activate", "delete"} => at = "persist"
  BY <1>0 DEF Registry!Goes
<1>5. at \in RegistryPlaces  BY <1>3, <1>4 DEF RegistryPlaces
<1>6. /\ q \in RegistryRequest /\ q.pc = at /\ q.id = rRequest[r].id
      /\ q.kind = rRequest[r].kind /\ q.context = rRequest[r].context
      /\ q.id \in Registry!Ids
  BY <1>1, <1>5, MovedRequest
<1>7. KindAt(q)  BY <1>3, <1>4, <1>5, <1>6 DEF KindAt
<1>8. RequestAt(q)  BY <1>1, <1>2, <1>3, <1>4, <1>5, <1>6 DEF RequestAt, KindAt
<1>9. Continues(r, q)  BY <1>1, <1>6, <1>7 DEF Continues
<1>10. Choosing(rRequest[r]) => Choosing(q)  BY <1>3, <1>4, <1>6 DEF Choosing
<1>11. rMeta \in Registry!Ids \cup {0} /\ (rMeta # 0 => rRows[rMeta].used)
  BY DEF RegistryInv, RegistryTypes, RowsInv
<1> HIDE DEF q
<1> QED  BY <1>1, <1>3, <1>8, <1>9, <1>10, <1>11, Quiet

LEMMA StepPersist ==
    ASSUME RegistryInv, NEW r \in Requests, Registry!Persist(r)
    PROVE  RegistryInv'
<1> DEFINE q == [rRequest[r] EXCEPT !.pc = "proxies"]
<1>1. /\ rRequest[r].pc = "persist" /\ rRequest' = [rRequest EXCEPT ![r] = q]
      /\ rMeta' = IF rRequest[r].kind = "activate" THEN rRequest[r].id
                  ELSE IF rRequest[r].context = 0 THEN 0
                  ELSE rContext[rRequest[r].context].id
      /\ UNCHANGED <<rServers, rOrder, rActive, rContext, rAlias, rRows>>
  BY DEF Registry!Persist, Registry!At, Registry!Goto, Registry!registry, Registry!None,
         Registry!NoServer
<1>2. KindAt(rRequest[r]) /\ RequestAt(rRequest[r])
  BY DEF RegistryInv, RegistryTypes, TurnsInv
<1>3. /\ rRequest[r].kind \in {"activate", "delete"}
      /\ rRequest[r].context = rServers[rActive]
      /\ rRequest[r].kind = "activate" => rRequest[r].id = rActive
  BY <1>1, <1>2 DEF KindAt, RequestAt
<1>4. rMeta' = rActive  BY <1>1, <1>3, ActiveServer
<1>5. rActive \in Registry!Ids /\ rRows[rActive].used /\ rActive = Chosen(rRows, rMeta')
  BY <1>4, ActiveServer DEF RegistryInv, RegistryTypes
<1>6. /\ q \in RegistryRequest /\ q.pc = "proxies" /\ q.id = rRequest[r].id
      /\ q.kind = rRequest[r].kind /\ q.context = rRequest[r].context
      /\ q.id \in Registry!Ids
  BY <1>1, MovedRequest DEF RegistryPlaces
<1>7. KindAt(q)  BY <1>3, <1>6 DEF KindAt
<1>8. RequestAt(q)  BY <1>1, <1>2, <1>3, <1>6 DEF RequestAt
<1>9. Continues(r, q)  BY <1>1, <1>6, <1>7 DEF Continues
<1>10. ~Lagging(rRequest[r])  BY <1>1 DEF Lagging
<1> HIDE DEF q
<1> QED  BY <1>1, <1>4, <1>5, <1>8, <1>9, <1>10, Quiet

LEMMA StepProxies ==
    ASSUME RegistryInv, NEW r \in Requests, Registry!Proxies(r)
    PROVE  RegistryInv'
<1> DEFINE q == IF rRequest[r].kind = "reconnect" THEN [rRequest[r] EXCEPT !.pc = "startbot"]
                ELSE Registry!Idle
<1>1. /\ rRequest[r].pc = "proxies" /\ rRequest' = [rRequest EXCEPT ![r] = q]
      /\ UNCHANGED <<rServers, rOrder, rActive, rContext, rAlias, rRows, rMeta>>
  BY DEF Registry!Proxies, Registry!At, Registry!Goto, Registry!Done, Registry!registry
<1>2. KindAt(rRequest[r]) /\ RequestAt(rRequest[r])
  BY DEF RegistryInv, RegistryTypes, TurnsInv
<1>3. Continues(r, q) /\ RequestAt(q)
  <2>1. CASE rRequest[r].kind = "reconnect"
    <3>1. /\ q \in RegistryRequest /\ q.pc = "startbot" /\ q.id = rRequest[r].id
          /\ q.kind = rRequest[r].kind /\ q.context = rRequest[r].context
          /\ q.id \in Registry!Ids
      BY <1>1, <2>1, MovedRequest DEF RegistryPlaces
    <3>2. KindAt(q)  BY <2>1, <3>1 DEF KindAt
    <3>3. RequestAt(q)  BY <1>1, <1>2, <2>1, <3>1 DEF RequestAt
    <3> QED  BY <1>1, <3>1, <3>2, <3>3 DEF Continues
  <2>2. CASE rRequest[r].kind # "reconnect"
    <3>1. q = Registry!Idle  BY <2>2
    <3> QED  BY <1>1, <3>1, IdleIs DEF Continues
  <2> QED  BY <2>1, <2>2
<1>4. ~Lagging(rRequest[r]) /\ ~Choosing(rRequest[r])  BY <1>1 DEF Lagging, Choosing
<1>5. rMeta \in Registry!Ids \cup {0} /\ (rMeta # 0 => rRows[rMeta].used)
  BY DEF RegistryInv, RegistryTypes, RowsInv
<1> HIDE DEF q
<1> QED  BY <1>1, <1>3, <1>4, <1>5, Quiet

LEMMA StepStartBot ==
    ASSUME RegistryInv, NEW r \in Requests, Registry!StartBot(r)
    PROVE  RegistryInv'
<1> DEFINE c == rRequest[r].context
           q == Registry!Idle
<1>1. /\ rRequest[r].pc = "startbot" /\ rRequest' = [rRequest EXCEPT ![r] = q]
      /\ UNCHANGED <<rServers, rOrder, rActive, rAlias, rRows, rMeta>>
      /\ IF rContext[c].enabled /\ rContext[c].pool
         THEN rContext' = [rContext EXCEPT ![c].bot = TRUE]
         ELSE UNCHANGED rContext
  BY DEF Registry!StartBot, Registry!At, Registry!Done, Registry!registry
<1>2. q \in RegistryRequest /\ KindAt(q) /\ RequestAt(q) /\ RequestAt(q)' /\ q.pc = "idle"
  BY IdleIs DEF RequestAt
<1>3. Continues(r, q)  BY <1>1, <1>2 DEF Continues
<1>4. ~Lagging(rRequest[r]) /\ ~Choosing(rRequest[r])  BY <1>1 DEF Lagging, Choosing
<1>5. /\ rMeta \in Registry!Ids \cup {0} /\ (rMeta # 0 => rRows[rMeta].used)
      /\ rContext \in Seq(Registry!Context) /\ rRows \in [Registry!Ids -> Registry!Rows]
      /\ rRequest[r].id \in Registry!Ids
  BY <1>1 DEF RegistryInv, RegistryTypes, RowsInv, KindAt
<1>6. c # 0 /\ rServers[rRequest[r].id] = c
  BY <1>1 DEF RegistryInv, TurnsInv, RequestAt
<1>7. c \in DOMAIN rContext /\ rContext[c].id = rRequest[r].id
  BY <1>5, <1>6 DEF RegistryInv, LiveInv
<1>8. DOMAIN rContext = 1..Len(rContext) /\ Len(rContext) \in Nat
  BY <1>5, LenProperties
<1> HIDE DEF q, c
<1>9. CASE UNCHANGED rContext  BY <1>1, <1>2, <1>3, <1>4, <1>5, <1>9, Quiet
<1>10. CASE rContext' = [rContext EXCEPT ![c].bot = TRUE] /\ rContext[c].enabled
  <2> DEFINE d == [rContext[c] EXCEPT !.bot = TRUE]
  <2>1. rContext[c] \in Registry!Context  BY <1>5, <1>7, <1>8, ElementOfSeq
  <2>2. d \in Registry!Context /\ d.id = rRequest[r].id /\ d.enabled
    BY <1>7, <1>10, <2>1 DEF Registry!Context
  <2>3. rContext' = [rContext EXCEPT ![c] = d]  BY <1>10
  <2> HIDE DEF d
  <2>4. rContext' \in Seq(Registry!Context) /\ DOMAIN rContext' = DOMAIN rContext
    BY <1>5, <1>7, <1>8, <2>2, <2>3, ExceptSeq
  <2>5. \A e \in DOMAIN rContext : rContext'[e] = IF e = c THEN d ELSE rContext[e]
    BY <2>3
  <2>6. \A e \in DOMAIN rContext : /\ e \in DOMAIN rContext'
                                   /\ rContext'[e].id = rContext[e].id
    BY <1>7, <2>2, <2>4, <2>5
  <2>7. BotInv'
    <3>1. ASSUME NEW e \in DOMAIN rContext', rContext'[e].bot
          PROVE  rContext'[e].enabled /\ rServers'[rContext'[e].id] = e
      <4>1. CASE e = c  BY <1>1, <1>6, <1>7, <2>2, <2>5, <4>1
      <4>2. CASE e # c
        <5>1. rContext'[e] = rContext[e]  BY <2>4, <2>5, <4>2
        <5> QED  BY <1>1, <2>4, <3>1, <5>1 DEF RegistryInv, BotInv
      <4> QED  BY <4>1, <4>2
    <3> QED  BY <3>1 DEF BotInv
  <2>8. ASSUME NEW o \in Requests, o # r, rRequest[o].pc # "idle",
               rServers[rRequest[o].id] # 0, ~rContext[rServers[rRequest[o].id]].bot
        PROVE  ~rContext'[rServers[rRequest[o].id]].bot
    <3>1. rRequest[o].id \in Registry!Ids  BY <2>8 DEF RegistryInv, RegistryTypes, KindAt
    <3>2. rRequest[o].id # rRequest[r].id
      BY <1>1, <2>8 DEF RegistryInv, TurnsInv, Apart
    <3> DEFINE e == rServers[rRequest[o].id]
    <3>3. e \in DOMAIN rContext /\ rContext[e].id = rRequest[o].id
      BY <2>8, <3>1 DEF RegistryInv, LiveInv
    <3>4. e # c  BY <1>7, <3>2, <3>3
    <3> QED  BY <2>5, <2>8, <3>3, <3>4
  <2>9. \A o \in Requests : o # r => Apart(rRequest[o], q)  BY <1>3, StillApart
  <2> QED
    BY <1>1, <1>2, <1>4, <1>5, <2>4, <2>6, <2>7, <2>8, <2>9, Contexts
<1> QED  BY <1>1, <1>9, <1>10

LEMMA StepConnect ==
    ASSUME RegistryInv, NEW r \in Requests, Registry!Connect(r)
    PROVE  RegistryInv'
<1> DEFINE x == rRequest[r]
<1>1. x.pc = "connect" /\ UNCHANGED <<rServers, rOrder, rActive, rAlias, rRows, rMeta>>
  BY DEF Registry!Connect, Registry!At, Registry!registry
<1>2. x \in RegistryRequest /\ KindAt(x) /\ RequestAt(x)
  BY DEF RegistryInv, RegistryTypes, TurnsInv
<1>3. ~Lagging(x) /\ ~Choosing(x)  BY <1>1 DEF Lagging, Choosing
<1>4. /\ rMeta \in Registry!Ids \cup {0} /\ (rMeta # 0 => rRows[rMeta].used)
      /\ rContext \in Seq(Registry!Context) /\ rRows \in [Registry!Ids -> Registry!Rows]
      /\ x.id \in Registry!Ids /\ x.enabled \in BOOLEAN
  BY <1>1, <1>2 DEF RegistryInv, RegistryTypes, RowsInv, KindAt, RegistryRequest, RegistryPlaces
<1>5. CASE rRequest' = [rRequest EXCEPT ![r] = Registry!Idle] /\ UNCHANGED rContext
  <2>1. Continues(r, Registry!Idle)  BY <1>5, IdleIs DEF Continues
  <2> QED  BY <1>1, <1>3, <1>4, <1>5, <2>1, IdleIs, Quiet
<1>6. ASSUME NEW c \in Registry!Outcomes(x.id, x.enabled),
             rContext' = Append(rContext, c),
             rRequest' = [rRequest EXCEPT ![r].pc = "register", ![r].context = Registry!Fresh]
      PROVE  RegistryInv'
  <2> DEFINE n == Len(rContext)
  <2>0. PICK q : q = [x EXCEPT !.pc = "register", !.context = n + 1]  OBVIOUS
  <2>1. n \in Nat /\ DOMAIN rContext = 1..n  BY <1>4, LenProperties
  <2>2. c \in Registry!Context /\ c.id = x.id /\ ~c.bot
    BY <1>4 DEF Registry!Outcomes, Registry!Connected, Registry!Context
  <2>3. /\ rContext' \in Seq(Registry!Context) /\ Len(rContext') = n + 1
        /\ \A e \in 1..n : rContext'[e] = rContext[e]
        /\ rContext'[n + 1] = c
    BY <1>4, <1>6, <2>2, AppendProperties
  <2>4. DOMAIN rContext' = 1..(n + 1)  BY <2>3, LenProperties
  <2>5. /\ q \in RegistryRequest /\ q.pc = "register" /\ q.id = x.id /\ q.kind = x.kind
        /\ q.context = n + 1
    <3>1. "register" \in RegistryPlaces /\ n + 1 \in Nat  BY <2>1 DEF RegistryPlaces
    <3> HIDE DEF n
    <3> QED  BY <1>2, <2>0, <3>1 DEF RegistryRequest
  <2>6. rRequest' = [rRequest EXCEPT ![r] = q]  BY <1>6, <2>0 DEF Registry!Fresh
  <2>7. KindAt(q)  BY <1>1, <1>2, <2>5 DEF KindAt
  <2>8. x.kind # "add" => rServers[x.id] \in DOMAIN rContext /\ ~rContext[rServers[x.id]].bot
    BY <1>1, <1>2, <1>4 DEF RequestAt, RegistryInv, LiveInv
  <2>9. RequestAt(q)'
    <3>1. n + 1 \in DOMAIN rContext' /\ rContext'[n + 1].id = x.id  BY <2>1, <2>2, <2>3, <2>4
    <3>2. x.kind # "add" => rServers[x.id] # 0 /\ ~rContext'[rServers[x.id]].bot
      BY <2>1, <2>3, <2>8
    <3>3. rRows[x.id].used /\ (x.kind = "add" => rServers[x.id] = 0 /\ rRows[x.id].stored)
      BY <1>1, <1>2 DEF RequestAt
    <3> QED  BY <1>1, <2>5, <3>1, <3>2, <3>3 DEF RequestAt
  <2>10. Continues(r, q)  BY <1>1, <2>5, <2>6, <2>7 DEF Continues
  <2>11. BotInv'
    <3>1. ASSUME NEW e \in DOMAIN rContext', rContext'[e].bot
          PROVE  rContext'[e].enabled /\ rServers'[rContext'[e].id] = e
      <4>1. e \in 1..n  BY <2>1, <2>2, <2>3, <2>4, <3>1
      <4> QED  BY <1>1, <2>1, <2>3, <3>1, <4>1 DEF RegistryInv, BotInv
    <3> QED  BY <3>1 DEF BotInv
  <2>12. \A e \in DOMAIN rContext : e \in DOMAIN rContext' /\ rContext'[e].id = rContext[e].id
    BY <2>1, <2>3, <2>4
  <2>13. ASSUME NEW o \in Requests, o # r, rRequest[o].pc # "idle",
                rServers[rRequest[o].id] # 0, ~rContext[rServers[rRequest[o].id]].bot
         PROVE  ~rContext'[rServers[rRequest[o].id]].bot
    <3>1. rRequest[o].id \in Registry!Ids  BY <2>13 DEF RegistryInv, RegistryTypes, KindAt
    <3>2. rServers[rRequest[o].id] \in DOMAIN rContext
      BY <2>13, <3>1 DEF RegistryInv, LiveInv
    <3> QED  BY <2>1, <2>3, <2>13, <3>2
  <2>14. \A o \in Requests : o # r => Apart(rRequest[o], q)  BY <2>10, StillApart
  <2> QED
    BY <1>1, <1>3, <1>4, <2>3, <2>5, <2>6, <2>7, <2>9, <2>11, <2>12, <2>13, <2>14, Contexts
<1> QED  BY <1>5, <1>6 DEF Registry!Connect, Registry!Done

LEMMA StepRegisters ==
    ASSUME RegistryInv, NEW r \in Requests, Registry!Registers(r)
    PROVE  RegistryInv'
<1> DEFINE x == rRequest[r]
           s == x.id
           c == x.context
<1>0a. PICK at \in RegistryPlaces : at = IF x.kind = "add" THEN "startbot" ELSE "isactive"
  BY DEF RegistryPlaces
<1>0. PICK q : q = [x EXCEPT !.pc = at]  OBVIOUS
<1>1. /\ x.pc = "register" /\ rRequest' = [rRequest EXCEPT ![r] = q]
      /\ rServers' = [rServers EXCEPT ![s] = c]
      /\ IF rServers[s] # 0 THEN UNCHANGED <<rOrder, rActive>>
         ELSE /\ rOrder' = Append(rOrder, s)
              /\ rActive' = IF rActive = 0 THEN s ELSE rActive
      /\ UNCHANGED <<rContext, rAlias, rRows, rMeta>>
  BY <1>0a, <1>0 DEF Registry!Registers, Registry!Register, Registry!At, Registry!Goto, Registry!None,
         Registry!NoServer
<1>2. /\ RegistryTypes /\ RowsInv /\ LiveInv /\ TurnsInv /\ BotInv  BY DEF RegistryInv
<1>3. x \in RegistryRequest /\ KindAt(x) /\ RequestAt(x)
  BY <1>2 DEF RegistryTypes, TurnsInv
<1>4. /\ q \in RegistryRequest /\ q.pc = at /\ q.id = s /\ q.kind = x.kind /\ q.context = c
      /\ s \in Registry!Ids
  BY <1>0, <1>1, MovedRequest
<1>5. /\ x.kind \in {"add", "edit", "reconnect"}
      /\ c \in DOMAIN rContext /\ rContext[c].id = s
      /\ x.kind = "add" => rServers[s] = 0 /\ rRows[s].stored
      /\ x.kind # "add" => rServers[s] # 0 /\ ~rContext[rServers[s]].bot
      /\ rRows[s].used
  BY <1>1, <1>3 DEF KindAt, RequestAt
<1>6. c \in Nat /\ c # 0
  <2>1. DOMAIN rContext = 1..Len(rContext) /\ Len(rContext) \in Nat
    BY <1>2, LenProperties DEF RegistryTypes
  <2> QED  BY <1>5, <2>1
<1>7. rActive' = rActive /\ rActive \in Registry!Ids
  BY <1>1, <1>2, RegistryBounds DEF RegistryTypes
<1>8. rServers' \in [Registry!Ids -> Nat]
      /\ \A t \in Registry!Ids : rServers'[t] = IF t = s THEN c ELSE rServers[t]
  BY <1>1, <1>2, <1>4, <1>6 DEF RegistryTypes
<1>9. rRows[s].stored  BY <1>2, <1>4, <1>5 DEF LiveInv
<1> HIDE DEF c, s
<1>10. /\ rOrder' \in Seq(Registry!Ids) /\ Distinct(rOrder')
       /\ \A t \in Registry!Ids : Has(rOrder', t) <=> rServers'[t] # 0
  <2>1. rOrder \in Seq(Registry!Ids) /\ Distinct(rOrder)
        /\ \A t \in Registry!Ids : Has(rOrder, t) <=> rServers[t] # 0
    BY <1>2 DEF RegistryTypes, LiveInv
  <2>2. CASE rServers[s] # 0
    <3>1. rOrder' = rOrder  BY <1>1, <2>2
    <3> QED  BY <1>6, <1>8, <2>1, <2>2, <3>1
  <2>3. CASE rServers[s] = 0
    <3>1. rOrder' = Append(rOrder, s)  BY <1>1, <2>3
    <3> DEFINE n == Len(rOrder)
    <3>2. n \in Nat /\ DOMAIN rOrder = 1..n  BY <2>1, LenProperties
    <3>3. /\ rOrder' \in Seq(Registry!Ids) /\ Len(rOrder') = n + 1
          /\ \A i \in 1..n : rOrder'[i] = rOrder[i]
          /\ rOrder'[n + 1] = s
      BY <1>4, <2>1, <3>1, AppendProperties
    <3>4. DOMAIN rOrder' = 1..(n + 1)  BY <3>3, LenProperties
    <3>5. \A i \in 1..n : rOrder[i] # s  BY <1>4, <2>1, <2>3, <3>2 DEF Has
    <3> HIDE DEF n
    <3>6. Distinct(rOrder')
      <4> SUFFICES ASSUME NEW i \in 1..(n + 1), NEW j \in 1..(n + 1), rOrder'[i] = rOrder'[j]
                   PROVE  i = j
        BY <3>4 DEF Distinct
      <4>1. CASE i \in 1..n /\ j \in 1..n  BY <2>1, <3>2, <3>3, <4>1 DEF Distinct
      <4>2. CASE i = n + 1 /\ j \in 1..n  BY <3>3, <3>5, <4>2
      <4>3. CASE j = n + 1 /\ i \in 1..n  BY <3>3, <3>5, <4>3
      <4> QED  BY <3>2, <4>1, <4>2, <4>3
    <3>7. \A t \in Registry!Ids : Has(rOrder', t) <=> Has(rOrder, t) \/ t = s
      <4> SUFFICES ASSUME NEW t \in Registry!Ids
                   PROVE  Has(rOrder', t) <=> Has(rOrder, t) \/ t = s
        OBVIOUS
      <4>1. Has(rOrder', t) <=> \E i \in 1..(n + 1) : rOrder'[i] = t  BY <3>4 DEF Has
      <4>2. Has(rOrder, t) <=> \E i \in 1..n : rOrder[i] = t  BY <3>2 DEF Has
      <4>3. \A i \in 1..(n + 1) : i \in 1..n \/ i = n + 1  BY <3>2
      <4>4. n + 1 \in 1..(n + 1) /\ \A i \in 1..n : i \in 1..(n + 1)  BY <3>2
      <4> QED  BY <3>3, <4>1, <4>2, <4>3, <4>4
    <3> QED  BY <1>6, <1>8, <2>1, <3>3, <3>6, <3>7
  <2> QED  BY <2>2, <2>3
<1>11. LiveInv'
  <2>1. rServers'[rActive'] # 0  BY <1>2, <1>6, <1>7, <1>8 DEF LiveInv
  <2>2. \A t \in Registry!Ids : rServers'[t] # 0 =>
           /\ rServers'[t] \in DOMAIN rContext' /\ rContext'[rServers'[t]].id = t
           /\ rRows'[t].stored
    BY <1>1, <1>2, <1>5, <1>8, <1>9 DEF LiveInv
  <2>3. (Distinct(rOrder) /\ \A t \in Registry!Ids : Has(rOrder, t) <=> rServers[t] # 0)'
    BY <1>10 DEF Distinct, Has
  <2> QED  BY <2>1, <2>2, <2>3 DEF LiveInv
<1>12. KindAt(q)  BY <1>0a, <1>4, <1>5 DEF KindAt
<1>13. RequestAt(q)'
  <2>1. q.pc \in {"startbot", "isactive"}  BY <1>0a, <1>4
  <2>2. rServers'[q.id] = q.context /\ q.context # 0 /\ rRows'[q.id].used
    BY <1>1, <1>4, <1>5, <1>6, <1>8
  <2> QED  BY <2>1, <2>2 DEF RequestAt
<1>14. Continues(r, q)  BY <1>1, <1>4, <1>12 DEF Continues, s
<1>15. \A o \in Requests : o # r => Apart(rRequest[o], q)  BY <1>14, StillApart
<1>16. ASSUME NEW o \in Requests, o # r  PROVE Leaves(rRequest[o])
  <2> DEFINE y == rRequest[o]
  <2> SUFFICES ASSUME y.pc # "idle"  PROVE Leaves(y)  BY DEF Leaves
  <2>1. y.id \in Registry!Ids  BY <1>2 DEF RegistryTypes, KindAt
  <2>2. y.id # s /\ (y.kind = "add" \/ x.kind = "add")
    BY <1>1, <1>2, <1>16 DEF TurnsInv, Apart, s
  <2>3. rServers'[y.id] = rServers[y.id]  BY <1>8, <2>1, <2>2
  <2>4. y.kind # "add" => /\ rServers'[rActive] = rServers[rActive]
                          /\ \A t \in Registry!Ids : rServers[t] # 0 => rServers'[t] # 0
    <3>1. y.kind # "add" => rServers[s] = 0  BY <1>5, <2>2
    <3>2. rServers[rActive] # 0  BY <1>2 DEF LiveInv
    <3> QED  BY <1>7, <1>8, <3>1, <3>2
  <2> QED  BY <1>1, <1>7, <2>3, <2>4 DEF Leaves
<1>17. /\ TurnsInv' /\ rRequest' \in [Requests -> RegistryRequest]
       /\ \A o \in Requests : KindAt(rRequest'[o])
  BY <1>1, <1>2, <1>4, <1>12, <1>13, <1>15, <1>16, Turns
<1>18. RegistryTypes'  BY <1>1, <1>2, <1>7, <1>8, <1>10, <1>17 DEF RegistryTypes, KindAt
<1>19. RowsInv'  BY <1>1, <1>2 DEF RowsInv
<1>20. AliasInv'
  <2>1. CASE s = rActive
    <3>1. x.kind # "add"  BY <1>2, <1>5, <2>1 DEF LiveInv
    <3>2. rRequest'[r] = q  BY <1>1, <1>2 DEF RegistryTypes
    <3>3. Lagging(rRequest[r])'  BY <1>0a, <1>4, <1>7, <2>1, <3>1, <3>2 DEF Lagging
    <3> QED  BY <3>3 DEF AliasInv
  <2>2. CASE s # rActive
    <3>1. rServers'[rActive] = rServers[rActive]  BY <1>7, <1>8, <2>2
    <3>2. ~Lagging(rRequest[r])  BY <1>1 DEF Lagging
    <3> QED  BY <1>1, <1>7, <3>1, <3>2, LagsOn
  <2> QED  BY <2>1, <2>2
<1>21. MetaInv'
  <2>1. ~Choosing(rRequest[r])  BY <1>1 DEF Choosing
  <2> QED  BY <1>1, <1>7, <2>1, ChoosesOn
<1>22. BotInv'
  <2>1. ASSUME NEW e \in DOMAIN rContext, rContext[e].bot
        PROVE  rContext[e].enabled /\ rServers'[rContext[e].id] = e
    <3>1. rContext[e].enabled /\ rServers[rContext[e].id] = e  BY <1>2, <2>1 DEF BotInv
    <3>2. DOMAIN rContext = 1..Len(rContext) /\ rContext[e] \in Registry!Context
      BY <1>2, <2>1, LenProperties, ElementOfSeq DEF RegistryTypes
    <3>3. rContext[e].id \in Registry!Ids /\ e # 0  BY <2>1, <3>2 DEF Registry!Context
    <3>4. rContext[e].id # s  BY <1>5, <2>1, <3>1, <3>3
    <3> QED  BY <1>8, <3>1, <3>3, <3>4
  <2> QED  BY <1>1, <2>1 DEF BotInv
<1> QED  BY <1>11, <1>17, <1>18, <1>19, <1>20, <1>21, <1>22 DEF RegistryInv

\* The request that begins: it is the only one but for additions.
Begun(kind, s, p, e) ==
    [pc |-> p, kind |-> kind, id |-> s, enabled |-> e, context |-> 0]

LEMMA Beginning ==
    ASSUME RegistryInv, NEW r \in Requests, NEW s \in Registry!Ids, NEW e \in BOOLEAN,
           NEW kind \in RegistryKinds, NEW p, Registry!Begins(r, kind, s, p, e)
    PROVE  /\ rRequest[r].pc = "idle" /\ ~Lagging(rRequest[r]) /\ ~Choosing(rRequest[r])
           /\ rRequest' = [rRequest EXCEPT ![r] = Begun(kind, s, p, e)]
           /\ kind # "add" => Registry!Alone(s)
BY DEF Registry!Begins, Registry!At, Registry!None, Begun, Lagging, Choosing

LEMMA BeganAlone ==
    ASSUME RegistryHypothesis, RegistryInv, NEW s \in Registry!Ids, Registry!Alone(s)
    PROVE  /\ \A o \in Requests : rRequest[o].pc # "idle" =>
                 rRequest[o].kind = "add" /\ rRequest[o].id # s
           /\ rAlias = rServers[rActive] /\ rActive = Chosen(rRows, rMeta)
<1>1. \A o \in Requests : rRequest[o].pc # "idle" =>
         rRequest[o].kind = "add" /\ rRequest[o].id # s
  BY DEF RegistryHypothesis, Registry!Alone, Registry!Switching
<1>2. \A o \in Requests : rRequest[o].pc # "idle" => rRequest[o].pc \in {"connect", "register", "startbot"}
  BY <1>1 DEF RegistryInv, RegistryTypes, RegistryRequest, RegistryPlaces, KindAt
<1>3. \A o \in Requests : ~Lagging(rRequest[o]) /\ ~Choosing(rRequest[o])
  BY <1>2 DEF Lagging, Choosing
<1> QED  BY <1>1, <1>3 DEF RegistryInv, AliasInv, MetaInv

\* Edit, reconnect and delete stop the bot of the context they are about to replace.
LEMMA Stops ==
    ASSUME RegistryHypothesis, RegistryInv, NEW r \in Requests, NEW s \in Registry!Ids,
           NEW e \in BOOLEAN, NEW kind \in {"edit", "reconnect", "delete"}, NEW at,
           at = IF kind = "delete" THEN "remove" ELSE "connect",
           Registry!Begins(r, kind, s, at, e),
           rServers[s] # 0, Registry!StopBot(rServers[s]),
           kind = "delete" => \E t \in Registry!Ids : t # s /\ rServers[t] # 0,
           UNCHANGED <<rServers, rOrder, rActive, rAlias, rMeta>>,
           rRows' \in [Registry!Ids -> Registry!Rows],
           \A t \in Registry!Ids : /\ rRows'[t].stored = rRows[t].stored
                                   /\ rRows'[t].used = rRows[t].used
    PROVE  RegistryInv'
<1> DEFINE c == rServers[s]
           q == Begun(kind, s, at, e)
           n == Len(rContext)
<1>1. /\ RegistryTypes /\ RowsInv /\ LiveInv /\ TurnsInv /\ BotInv  BY DEF RegistryInv
<1>2. kind \in RegistryKinds /\ kind # "add"  BY DEF RegistryKinds
<1>3. /\ rRequest[r].pc = "idle" /\ ~Lagging(rRequest[r]) /\ ~Choosing(rRequest[r])
      /\ rRequest' = [rRequest EXCEPT ![r] = q]
      /\ Registry!Alone(s)
  BY <1>2, Beginning
<1>4. \A o \in Requests : rRequest[o].pc # "idle" =>
         rRequest[o].kind = "add" /\ rRequest[o].id # s
  BY <1>3, BeganAlone
<1>5. /\ q.pc = at /\ q.kind = kind /\ q.id = s /\ q.context = 0 /\ q \in RegistryRequest
  BY <1>2, RegistryBounds DEF Begun, RegistryRequest, RegistryPlaces
<1>6. KindAt(q)  BY <1>5 DEF KindAt
<1>7. /\ n \in Nat /\ DOMAIN rContext = 1..n /\ rContext \in Seq(Registry!Context)
      /\ c \in 1..n /\ rContext[c].id = s /\ rRows[s].used
  BY <1>1, LenProperties DEF RegistryTypes, LiveInv, RowsInv
<1> DEFINE d == [rContext[c] EXCEPT !.bot = FALSE]
<1>8. rContext' = [rContext EXCEPT ![c] = d]
  BY <1>7 DEF Registry!StopBot, Registry!None
<1>9. rContext[c] \in Registry!Context  BY <1>7, ElementOfSeq
<1>10. d \in Registry!Context /\ d.id = s /\ ~d.bot  BY <1>7, <1>9 DEF Registry!Context
<1> HIDE DEF d, c, q, n
<1>11. rContext' \in Seq(Registry!Context) /\ DOMAIN rContext' = 1..n
  <2>1. rContext' \in Seq(Registry!Context) /\ Len(rContext') = n
    BY <1>7, <1>8, <1>10, ExceptSeq DEF n
  <2> QED  BY <2>1, LenProperties
<1>12. \A i \in 1..n : rContext'[i] = IF i = c THEN d ELSE rContext[i]  BY <1>7, <1>8
<1>13. \A i \in DOMAIN rContext : i \in DOMAIN rContext' /\ rContext'[i].id = rContext[i].id
  BY <1>7, <1>10, <1>11, <1>12
<1>14. BotInv'
  <2>1. ASSUME NEW i \in DOMAIN rContext', rContext'[i].bot
        PROVE  rContext'[i].enabled /\ rServers'[rContext'[i].id] = i
    <3>1. rContext'[i] = rContext[i] /\ i \in DOMAIN rContext
      BY <1>7, <1>10, <1>11, <1>12, <2>1
    <3> QED  BY <1>1, <2>1, <3>1 DEF BotInv
  <2> QED  BY <2>1 DEF BotInv
<1>15. RequestAt(q)'
  <2>1. rServers'[s] = c /\ c # 0 /\ ~rContext'[c].bot  BY <1>7, <1>10, <1>12 DEF c
  <2>2. at = "remove" => \E t \in Registry!Ids : t # s /\ rServers'[t] # 0  OBVIOUS
  <2>3. rRows'[s].used  BY <1>7
  <2> QED  BY <1>2, <1>5, <2>1, <2>2, <2>3 DEF RequestAt
<1>16. \A o \in Requests : o # r => Apart(rRequest[o], q)  BY <1>4, <1>5 DEF Apart
<1>17. ASSUME NEW o \in Requests, o # r, rRequest[o].pc # "idle",
              rServers[rRequest[o].id] # 0, ~rContext[rServers[rRequest[o].id]].bot
       PROVE  ~rContext'[rServers[rRequest[o].id]].bot
  <2>1. rRequest[o].id \in Registry!Ids  BY <1>1, <1>17 DEF RegistryTypes, KindAt
  <2>2. rServers[rRequest[o].id] \in DOMAIN rContext  BY <1>1, <1>17, <2>1 DEF LiveInv
  <2> QED  BY <1>7, <1>10, <1>12, <1>17, <2>2
<1> QED
  BY <1>3, <1>5, <1>6, <1>11, <1>13, <1>14, <1>15, <1>16, <1>17, Contexts

LEMMA RowEdited ==
    ASSUME RegistryInv, NEW s \in Registry!Ids, NEW x \in Registry!Rows,
           rRows' = [rRows EXCEPT ![s] = x]
    PROVE  /\ rRows' \in [Registry!Ids -> Registry!Rows]
           /\ \A t \in Registry!Ids : rRows'[t] = IF t = s THEN x ELSE rRows[t]
BY DEF RegistryInv, RegistryTypes

LEMMA StepEdit ==
    ASSUME RegistryHypothesis, RegistryInv, NEW r \in Requests, NEW s \in Registry!Ids,
           Registry!Edit(r, s)
    PROVE  RegistryInv'
<1>1. PICK e \in BOOLEAN : /\ Registry!Begins(r, "edit", s, "connect", e)
                           /\ rRows' = [rRows EXCEPT ![s].enabled = e]
  BY DEF Registry!Edit
<1>2. /\ rServers[s] # 0 /\ Registry!StopBot(rServers[s])
      /\ UNCHANGED <<rServers, rOrder, rActive, rAlias, rMeta>>
  BY DEF Registry!Edit, Registry!registry, Registry!None
<1> DEFINE x == [rRows[s] EXCEPT !.enabled = e]
<1>3. rRows[s] \in Registry!Rows  BY DEF RegistryInv, RegistryTypes
<1>4. x \in Registry!Rows /\ x.stored = rRows[s].stored /\ x.used = rRows[s].used
  BY <1>3 DEF Registry!Rows
<1>5. rRows' = [rRows EXCEPT ![s] = x]  BY <1>1
<1> HIDE DEF x
<1>6. /\ rRows' \in [Registry!Ids -> Registry!Rows]
      /\ \A t \in Registry!Ids : /\ rRows'[t].stored = rRows[t].stored
                                 /\ rRows'[t].used = rRows[t].used
  BY <1>4, <1>5, RowEdited
<1>7. Registry!Begins(r, "edit", s, "connect", e)
  BY <1>1
<1> QED  BY <1>2, <1>6, <1>7, Stops

LEMMA StepReconnect ==
    ASSUME RegistryHypothesis, RegistryInv, NEW r \in Requests, NEW s \in Registry!Ids,
           Registry!Reconnect(r, s)
    PROVE  RegistryInv'
<1> DEFINE e == rContext[rServers[s]].enabled
<1>1. /\ rServers[s] # 0 /\ Registry!StopBot(rServers[s])
      /\ Registry!Begins(r, "reconnect", s, "connect", e)
      /\ UNCHANGED <<rServers, rOrder, rActive, rAlias, rRows, rMeta>>
  BY DEF Registry!Reconnect, Registry!registry, Registry!None
<1>2. e \in BOOLEAN
  <2>1. rServers[s] \in DOMAIN rContext /\ rContext \in Seq(Registry!Context)
    BY <1>1 DEF RegistryInv, LiveInv, RegistryTypes
  <2>2. rContext[rServers[s]] \in Registry!Context  BY <2>1, LenProperties, ElementOfSeq
  <2> QED  BY <2>2 DEF Registry!Context
<1>3. rRows' \in [Registry!Ids -> Registry!Rows]  BY <1>1 DEF RegistryInv, RegistryTypes
<1> HIDE DEF e
<1>4. Registry!Begins(r, "reconnect", s, "connect", e)
  BY <1>1
<1> QED  BY <1>1, <1>2, <1>3, <1>4, Stops

LEMMA StepDelete ==
    ASSUME RegistryHypothesis, RegistryInv, NEW r \in Requests, NEW s \in Registry!Ids,
           Registry!Delete(r, s)
    PROVE  RegistryInv'
<1>1. /\ rServers[s] # 0 /\ Registry!StopBot(rServers[s]) /\ Len(rOrder) > 1
      /\ Registry!Begins(r, "delete", s, "remove", FALSE)
      /\ UNCHANGED <<rServers, rOrder, rActive, rAlias, rRows, rMeta>>
  BY DEF Registry!Delete, Registry!registry, Registry!None, RegistryHypothesis
<1>2. rRows' \in [Registry!Ids -> Registry!Rows]  BY <1>1 DEF RegistryInv, RegistryTypes
<1>3. \E t \in Registry!Ids : t # s /\ rServers[t] # 0
  <2>1. /\ rOrder \in Seq(Registry!Ids) /\ Distinct(rOrder)
        /\ \A t \in Registry!Ids : Has(rOrder, t) <=> rServers[t] # 0
    BY DEF RegistryInv, RegistryTypes, LiveInv
  <2>2. DOMAIN rOrder = 1..Len(rOrder) /\ Len(rOrder) \in Nat  BY <2>1, LenProperties
  <2>3. 1 \in 1..Len(rOrder) /\ 2 \in 1..Len(rOrder)  BY <1>1, <2>2
  <2>4. rOrder[1] # rOrder[2]  BY <2>1, <2>2, <2>3 DEF Distinct
  <2>5. rOrder[1] \in Registry!Ids /\ rOrder[2] \in Registry!Ids
    BY <2>1, <2>3, ElementOfSeq
  <2>6. Has(rOrder, rOrder[1]) /\ Has(rOrder, rOrder[2])  BY <2>2, <2>3 DEF Has
  <2> QED  BY <2>1, <2>4, <2>5, <2>6
<1>4. Registry!Begins(r, "delete", s, "remove", FALSE)
  BY <1>1
<1> QED  BY <1>1, <1>2, <1>3, <1>4, Stops

LEMMA StepAdd ==
    ASSUME RegistryHypothesis, RegistryInv, NEW r \in Requests, NEW s \in Registry!Ids,
           Registry!Add(r, s)
    PROVE  RegistryInv'
<1>1. PICK e \in BOOLEAN :
         /\ Registry!Begins(r, "add", s, "connect", e)
         /\ rRows' = [rRows EXCEPT ![s] = [stored |-> TRUE, used |-> TRUE, enabled |-> e]]
  BY DEF Registry!Add
<1>2. /\ ~rRows[s].used /\ \A t \in 1..(s - 1) : rRows[t].used
      /\ UNCHANGED <<rServers, rOrder, rActive, rContext, rAlias, rMeta>>
  BY DEF Registry!Add, Registry!registry
<1> DEFINE q == Begun("add", s, "connect", e)
           x == [stored |-> TRUE, used |-> TRUE, enabled |-> e]
<1>3. /\ RegistryTypes /\ RowsInv /\ LiveInv /\ TurnsInv /\ BotInv  BY DEF RegistryInv
<1>4. "add" \in RegistryKinds  BY DEF RegistryKinds
<1>5. /\ rRequest[r].pc = "idle" /\ ~Lagging(rRequest[r]) /\ ~Choosing(rRequest[r])
      /\ rRequest' = [rRequest EXCEPT ![r] = q]
  BY <1>1, <1>4, Beginning
<1>6. /\ q.pc = "connect" /\ q.kind = "add" /\ q.id = s /\ q.context = 0
      /\ q \in RegistryRequest /\ KindAt(q)
  BY <1>4, RegistryBounds DEF Begun, RegistryRequest, RegistryPlaces, KindAt
<1>7. x \in Registry!Rows /\ x.stored /\ x.used  BY DEF Registry!Rows
<1>8. rRows' = [rRows EXCEPT ![s] = x]  BY <1>1
<1> HIDE DEF q, x
<1>9. /\ rRows' \in [Registry!Ids -> Registry!Rows]
      /\ \A t \in Registry!Ids : rRows'[t] = IF t = s THEN x ELSE rRows[t]
  BY <1>7, <1>8, RowEdited
<1>10. rServers[s] = 0 /\ ~rRows[s].stored  BY <1>2, <1>3 DEF LiveInv, RowsInv
<1>11. \A o \in Requests : rRequest[o].pc # "idle" => rRequest[o].id # s
  BY <1>2, <1>3 DEF TurnsInv, RequestAt
<1>12. \A o \in Requests : o # r => Apart(rRequest[o], q)  BY <1>6, <1>11 DEF Apart
<1>13. RequestAt(q)'  BY <1>2, <1>6, <1>7, <1>9, <1>10 DEF RequestAt
<1>14. ASSUME NEW o \in Requests, o # r  PROVE Leaves(rRequest[o])
  <2> DEFINE y == rRequest[o]
  <2> SUFFICES ASSUME y.pc # "idle"  PROVE Leaves(y)  BY DEF Leaves
  <2>1. y.id \in Registry!Ids  BY <1>3 DEF RegistryTypes, KindAt
  <2> QED  BY <1>2, <1>7, <1>9, <2>1 DEF Leaves
<1>15. /\ TurnsInv' /\ rRequest' \in [Requests -> RegistryRequest]
       /\ \A o \in Requests : KindAt(rRequest'[o])
  BY <1>3, <1>5, <1>6, <1>12, <1>13, <1>14, Turns
<1>16. RegistryTypes'  BY <1>2, <1>3, <1>9, <1>15 DEF RegistryTypes, KindAt
<1>17. \A t \in Registry!Ids : rRows[t].used => t < s
  <2> SUFFICES ASSUME NEW t \in Registry!Ids, rRows[t].used, ~(t < s)  PROVE FALSE  OBVIOUS
  <2>1. s \in Nat /\ t \in Nat  BY RegistryBounds
  <2>2. s < t \/ s = t  BY <2>1
  <2> QED  BY <1>2, <1>3, <2>2 DEF RowsInv
<1>18. \A t \in Registry!Ids : t < s => rRows[t].used
  <2> SUFFICES ASSUME NEW t \in Registry!Ids, t < s  PROVE t \in 1..(s - 1)  BY <1>2
  <2> QED  BY RegistryBounds DEF Registry!Ids
<1>19. RowsInv'
  <2>1. (\A t \in Registry!Ids : rRows[t].stored => rRows[t].used)'
    BY <1>3, <1>7, <1>9 DEF RowsInv
  <2>2. ASSUME NEW t \in Registry!Ids, NEW u \in Registry!Ids, t < u, rRows'[u].used
        PROVE  rRows'[t].used
    BY <1>3, <1>7, <1>9, <1>18, <2>2 DEF RowsInv
  <2>3. (rMeta # 0 => rRows[rMeta].used)'  BY <1>2, <1>3, <1>7, <1>9 DEF RowsInv, RegistryTypes
  <2> QED  BY <2>1, <2>2, <2>3 DEF RowsInv
<1>20. LiveInv'  BY <1>2, <1>3, <1>7, <1>9 DEF LiveInv, Distinct, Has
<1>21. AliasInv'  BY <1>2, <1>5, LagsOn
<1>22. Chosen(rRows', rMeta) = Chosen(rRows, rMeta)
  <2> DEFINE T == Stored(rRows)
             U == Stored(rRows')
  <2>1. U = T \cup {s}  BY <1>7, <1>9, <1>10 DEF Stored
  <2>2. rActive \in T  BY <1>3 DEF LiveInv, Stored, RegistryTypes
  <2>3. T \subseteq Registry!Ids /\ \A t \in T : t < s  BY <1>3, <1>17 DEF Stored, RowsInv
  <2>4. T \in SUBSET Nat /\ U \in SUBSET Nat /\ s \in Nat  BY <2>1, <2>3, RegistryBounds
  <2> HIDE DEF T, U
  <2>5. PICK m \in T : \A t \in T : m <= t  BY <2>2, <2>4, LeastNat
  <2>6. Least(T) = m  BY <2>4, <2>5, LeastIs
  <2>7. \A t \in U : m <= t  BY <2>1, <2>3, <2>4, <2>5
  <2>8. Least(U) = m  BY <2>1, <2>4, <2>5, <2>7, LeastIs
  <2>9. rMeta # s
    <3>1. rMeta = 0 \/ rRows[rMeta].used  BY <1>3 DEF RowsInv
    <3> QED  BY <1>2, <3>1, RegistryBounds
  <2> QED  BY <2>1, <2>6, <2>8, <2>9 DEF Chosen, T, U
<1>23. MetaInv'  BY <1>2, <1>5, <1>22, ChoosesOn
<1>24. BotInv'  BY <1>2, <1>3 DEF BotInv
<1> QED  BY <1>15, <1>16, <1>19, <1>20, <1>21, <1>23, <1>24 DEF RegistryInv

LEMMA StepActivate ==
    ASSUME RegistryHypothesis, RegistryInv, NEW r \in Requests, NEW s \in Registry!Ids,
           Registry!Activate(r, s)
    PROVE  RegistryInv'
<1>0. PICK e \in BOOLEAN : e = FALSE  OBVIOUS
<1> DEFINE q == Begun("activate", s, "read", e)
<1>1. /\ Registry!Begins(r, "activate", s, "read", e)
      /\ rServers[s] # 0 /\ rActive' = s
      /\ UNCHANGED <<rServers, rOrder, rContext, rAlias, rRows, rMeta>>
  BY <1>0 DEF Registry!Activate, Registry!SetActive, Registry!None
<1>2. /\ RegistryTypes /\ RowsInv /\ LiveInv /\ TurnsInv /\ BotInv  BY DEF RegistryInv
<1>3. "activate" \in RegistryKinds  BY DEF RegistryKinds
<1>4. /\ rRequest[r].pc = "idle" /\ rRequest' = [rRequest EXCEPT ![r] = q]
      /\ Registry!Alone(s)
  BY <1>1, <1>3, Beginning
<1>5. \A o \in Requests : rRequest[o].pc # "idle" =>
         rRequest[o].kind = "add" /\ rRequest[o].id # s
  BY <1>4, BeganAlone
<1>6. /\ q.pc = "read" /\ q.kind = "activate" /\ q.id = s /\ q.context = 0
      /\ q \in RegistryRequest /\ KindAt(q)
  BY <1>3, RegistryBounds DEF Begun, RegistryRequest, RegistryPlaces, KindAt
<1> HIDE DEF q
<1>7. RequestAt(q)'  BY <1>1, <1>2, <1>6 DEF RequestAt, LiveInv, RowsInv
<1>8. \A o \in Requests : o # r => Leaves(rRequest[o]) /\ Apart(rRequest[o], q)
  BY <1>1, <1>5, <1>6 DEF Leaves, Apart
<1>9. /\ TurnsInv' /\ rRequest' \in [Requests -> RegistryRequest]
      /\ \A o \in Requests : KindAt(rRequest'[o])
  BY <1>2, <1>4, <1>6, <1>7, <1>8, Turns
<1>10. RegistryTypes'  BY <1>1, <1>2, <1>9 DEF RegistryTypes, KindAt
<1>11. RowsInv'  BY <1>1, <1>2 DEF RowsInv
<1>12. LiveInv'  BY <1>1, <1>2 DEF LiveInv, Distinct, Has
<1>13. rRequest'[r] = q  BY <1>2, <1>4 DEF RegistryTypes
<1>14. Lagging(rRequest[r])' /\ Choosing(rRequest[r])'  BY <1>6, <1>13 DEF Lagging, Choosing
<1>15. AliasInv' /\ MetaInv'  BY <1>14 DEF AliasInv, MetaInv
<1>16. BotInv'  BY <1>1, <1>2 DEF BotInv
<1> QED  BY <1>9, <1>10, <1>11, <1>12, <1>15, <1>16 DEF RegistryInv

LEMMA StepRemove ==
    ASSUME RegistryInv, NEW r \in Requests, Registry!RemoveServer(r)
    PROVE  RegistryInv'
<1> DEFINE x == rRequest[r]
           s == x.id
<1>0. PICK q : q = [x EXCEPT !.pc = "row"]  OBVIOUS
<1>1. /\ RegistryTypes /\ RowsInv /\ LiveInv /\ TurnsInv /\ BotInv  BY DEF RegistryInv
<1>2. x.pc = "remove"  BY DEF Registry!RemoveServer, Registry!At
<1>3. x \in RegistryRequest /\ KindAt(x) /\ RequestAt(x)
  BY <1>1 DEF RegistryTypes, TurnsInv
<1>4. /\ rServers[s] # 0 /\ ~rContext[rServers[s]].bot /\ x.kind = "delete"
      /\ rRows[s].used /\ \E t \in Registry!Ids : t # s /\ rServers[t] # 0
  BY <1>2, <1>3 DEF RequestAt, KindAt
<1>5. /\ q \in RegistryRequest /\ q.pc = "row" /\ q.id = s /\ q.kind = x.kind
      /\ s \in Registry!Ids
  BY <1>0, <1>2, MovedRequest DEF RegistryPlaces
<1>6. /\ rRequest' = [rRequest EXCEPT ![r] = q]
      /\ rServers' = [rServers EXCEPT ![s] = 0]
      /\ rOrder' = Registry!Without(rOrder, Registry!Place(rOrder, s))
      /\ rActive' = IF rActive # s THEN rActive ELSE IF rOrder' = <<>> THEN 0 ELSE rOrder'[1]
      /\ UNCHANGED <<rContext, rAlias, rRows, rMeta>>
  BY <1>0, <1>4 DEF Registry!RemoveServer, Registry!Unregister, Registry!Goto, Registry!None,
     Registry!NoServer
<1> HIDE DEF s
<1>7. /\ rOrder \in Seq(Registry!Ids) /\ Distinct(rOrder)
      /\ \A t \in Registry!Ids : Has(rOrder, t) <=> rServers[t] # 0
  BY <1>1 DEF RegistryTypes, LiveInv
<1>8. /\ rServers' \in [Registry!Ids -> Nat]
      /\ \A t \in Registry!Ids : rServers'[t] = IF t = s THEN 0 ELSE rServers[t]
  BY <1>1, <1>5, <1>6 DEF RegistryTypes
<1>9. /\ rOrder' \in Seq(Registry!Ids) /\ Distinct(rOrder')
      /\ \A t : Has(rOrder', t) <=> Has(rOrder, t) /\ t # s
  BY <1>4, <1>5, <1>6, <1>7, Unlisted
<1>10. \A t \in Registry!Ids : Has(rOrder', t) <=> rServers'[t] # 0
  BY <1>7, <1>8, <1>9
<1>11. rActive' \in Registry!Ids /\ rServers'[rActive'] # 0
  <2>1. CASE rActive # s  BY <1>1, <1>6, <1>8, <2>1 DEF LiveInv, RegistryTypes
  <2>2. CASE rActive = s
    <3>1. PICK t \in Registry!Ids : t # s /\ rServers[t] # 0  BY <1>4
    <3>2. Has(rOrder', t)  BY <1>7, <1>9, <3>1
    <3>3. DOMAIN rOrder' = 1..Len(rOrder') /\ Len(rOrder') \in Nat  BY <1>9, LenProperties
    <3>4. 1 \in DOMAIN rOrder'  BY <3>2, <3>3 DEF Has
    <3>5. rOrder' # <<>>  BY <3>4
    <3>6. rActive' = rOrder'[1]  BY <1>6, <2>2, <3>5
    <3>7. rOrder'[1] \in Registry!Ids  BY <1>9, <3>3, <3>4, ElementOfSeq
    <3>8. Has(rOrder', rOrder'[1])  BY <3>4 DEF Has
    <3> QED  BY <1>10, <3>6, <3>7, <3>8
  <2> QED  BY <2>1, <2>2
<1>12. LiveInv'
  <2>1. (Distinct(rOrder) /\ \A t \in Registry!Ids : Has(rOrder, t) <=> rServers[t] # 0)'
    BY <1>9, <1>10 DEF Distinct, Has
  <2>2. \A t \in Registry!Ids : rServers'[t] # 0 =>
           /\ rServers'[t] \in DOMAIN rContext' /\ rContext'[rServers'[t]].id = t
           /\ rRows'[t].stored
    BY <1>1, <1>6, <1>8 DEF LiveInv
  <2> QED  BY <1>11, <2>1, <2>2 DEF LiveInv
<1>13. KindAt(q)  BY <1>4, <1>5 DEF KindAt
<1>14. RequestAt(q)'  BY <1>4, <1>5, <1>6, <1>8 DEF RequestAt
<1>15. Continues(r, q)  BY <1>2, <1>5, <1>6, <1>13 DEF Continues, s
<1>16. \A o \in Requests : o # r => Apart(rRequest[o], q)  BY <1>15, StillApart
<1>17. ASSUME NEW o \in Requests, o # r  PROVE Leaves(rRequest[o])
  <2> DEFINE y == rRequest[o]
  <2> SUFFICES ASSUME y.pc # "idle"  PROVE Leaves(y)  BY DEF Leaves
  <2>1. y.id \in Registry!Ids  BY <1>1 DEF RegistryTypes, KindAt
  <2>2. y.id # s /\ y.kind = "add"
    BY <1>2, <1>1, <1>4, <1>17 DEF TurnsInv, Apart, s
  <2>3. rServers'[y.id] = rServers[y.id]  BY <1>8, <2>1, <2>2
  <2> QED  BY <1>6, <2>2, <2>3 DEF Leaves
<1>18. /\ TurnsInv' /\ rRequest' \in [Requests -> RegistryRequest]
       /\ \A o \in Requests : KindAt(rRequest'[o])
  BY <1>1, <1>5, <1>6, <1>13, <1>14, <1>16, <1>17, Turns
<1>19. RegistryTypes'  BY <1>1, <1>6, <1>8, <1>9, <1>11, <1>18 DEF RegistryTypes, KindAt
<1>20. RowsInv'  BY <1>1, <1>6 DEF RowsInv
<1>21. rRequest'[r] = q  BY <1>1, <1>6 DEF RegistryTypes
<1>22. Lagging(rRequest[r])' /\ Choosing(rRequest[r])'
  BY <1>4, <1>5, <1>21 DEF Lagging, Choosing
<1>23. AliasInv' /\ MetaInv'  BY <1>22 DEF AliasInv, MetaInv
<1>24. BotInv'
  <2>1. ASSUME NEW e \in DOMAIN rContext, rContext[e].bot
        PROVE  rContext[e].enabled /\ rServers'[rContext[e].id] = e
    <3>1. rContext[e].enabled /\ rServers[rContext[e].id] = e  BY <1>1, <2>1 DEF BotInv
    <3>2. DOMAIN rContext = 1..Len(rContext) /\ rContext[e] \in Registry!Context
      BY <1>1, <2>1, LenProperties, ElementOfSeq DEF RegistryTypes
    <3>3. rContext[e].id \in Registry!Ids  BY <3>2 DEF Registry!Context
    <3>4. rContext[e].id # s  BY <1>4, <2>1, <3>1
    <3> QED  BY <1>8, <3>1, <3>3, <3>4
  <2> QED  BY <1>6, <2>1 DEF BotInv
<1> QED  BY <1>12, <1>18, <1>19, <1>20, <1>23, <1>24 DEF RegistryInv

LEMMA StepDeleteRow ==
    ASSUME RegistryInv, NEW r \in Requests, Registry!DeleteRow(r)
    PROVE  RegistryInv'
<1> DEFINE x == rRequest[r]
           s == x.id
           z == [rRows[s] EXCEPT !.stored = FALSE]
<1>0. PICK q : q = [x EXCEPT !.pc = "read"]  OBVIOUS
<1>1. /\ RegistryTypes /\ RowsInv /\ LiveInv /\ TurnsInv /\ BotInv  BY DEF RegistryInv
<1>2. /\ x.pc = "row" /\ rRequest' = [rRequest EXCEPT ![r] = q]
      /\ rRows' = [rRows EXCEPT ![s] = z] \/ UNCHANGED rRows
      /\ UNCHANGED <<rServers, rOrder, rActive, rContext, rAlias, rMeta>>
  BY <1>0 DEF Registry!DeleteRow, Registry!At, Registry!Goto, Registry!registry
<1>3. x \in RegistryRequest /\ KindAt(x) /\ RequestAt(x)
  BY <1>1 DEF RegistryTypes, TurnsInv
<1>4. rServers[s] = 0 /\ x.kind = "delete" /\ rRows[s].used
  BY <1>2, <1>3 DEF RequestAt, KindAt
<1>5. /\ q \in RegistryRequest /\ q.pc = "read" /\ q.id = s /\ q.kind = x.kind
      /\ s \in Registry!Ids
  BY <1>0, <1>2, MovedRequest DEF RegistryPlaces
<1>6. rRows[s] \in Registry!Rows  BY <1>1, <1>5 DEF RegistryTypes
<1>7. z \in Registry!Rows /\ ~z.stored /\ z.used  BY <1>4, <1>6 DEF Registry!Rows
<1> HIDE DEF s, z
<1>8. /\ rRows' \in [Registry!Ids -> Registry!Rows]
      /\ \A t \in Registry!Ids : /\ rRows'[t].used = rRows[t].used
                                 /\ rRows'[t].stored => rRows[t].stored
                                 /\ t # s => rRows'[t] = rRows[t]
  <2>1. CASE rRows' = [rRows EXCEPT ![s] = z]
    <3>1. /\ rRows' \in [Registry!Ids -> Registry!Rows]
          /\ \A t \in Registry!Ids : rRows'[t] = IF t = s THEN z ELSE rRows[t]
      BY <1>5, <1>7, <2>1, RowEdited
    <3>2. rRows[s].used = TRUE /\ z.used = TRUE
      BY <1>4, <1>6, <1>7 DEF Registry!Rows
    <3> QED  BY <1>7, <3>1, <3>2
  <2>2. CASE UNCHANGED rRows  BY <1>1, <2>2 DEF RegistryTypes
  <2> QED  BY <1>2, <2>1, <2>2
<1>9. KindAt(q)  BY <1>4, <1>5 DEF KindAt
<1>10. RequestAt(q)'  BY <1>4, <1>5, <1>8 DEF RequestAt
<1>11. Continues(r, q)  BY <1>2, <1>5, <1>9 DEF Continues, s
<1>12. \A o \in Requests : o # r => Apart(rRequest[o], q)  BY <1>11, StillApart
<1>13. ASSUME NEW o \in Requests, o # r  PROVE Leaves(rRequest[o])
  <2> DEFINE y == rRequest[o]
  <2> SUFFICES ASSUME y.pc # "idle"  PROVE Leaves(y)  BY DEF Leaves
  <2>1. y.id \in Registry!Ids  BY <1>1 DEF RegistryTypes, KindAt
  <2>2. y.id # s  BY <1>1, <1>2, <1>13 DEF TurnsInv, Apart, s
  <2>3. rRows'[y.id] = rRows[y.id]  BY <1>8, <2>1, <2>2
  <2> QED  BY <1>2, <2>3 DEF Leaves
<1>14. /\ TurnsInv' /\ rRequest' \in [Requests -> RegistryRequest]
       /\ \A o \in Requests : KindAt(rRequest'[o])
  BY <1>1, <1>2, <1>5, <1>9, <1>10, <1>12, <1>13, Turns
<1>15. RegistryTypes'  BY <1>1, <1>2, <1>8, <1>14 DEF RegistryTypes, KindAt
<1>16. RowsInv'  BY <1>1, <1>2, <1>8 DEF RowsInv, RegistryTypes
<1>17. LiveInv'
  <2>1. \A t \in Registry!Ids : rServers[t] # 0 => rRows'[t].stored
    BY <1>1, <1>4, <1>8 DEF LiveInv
  <2> QED  BY <1>1, <1>2, <2>1 DEF LiveInv, Distinct, Has
<1>18. rRequest'[r] = q  BY <1>1, <1>2 DEF RegistryTypes
<1>19. Lagging(rRequest[r])' /\ Choosing(rRequest[r])'
  BY <1>4, <1>5, <1>18 DEF Lagging, Choosing
<1>20. AliasInv' /\ MetaInv'  BY <1>19 DEF AliasInv, MetaInv
<1>21. BotInv'  BY <1>1, <1>2 DEF BotInv
<1> QED  BY <1>14, <1>15, <1>16, <1>17, <1>20, <1>21 DEF RegistryInv

\* What a start leaves: everything from the rows, and nobody at work.
JustStarted ==
    /\ RowsInv /\ rRows \in [Registry!Ids -> Registry!Rows] /\ rMeta \in Registry!Ids \cup {0}
    /\ Stored(rRows) # {}
    /\ LET b == Registry!Boot(rRows, rMeta)
       IN  /\ rServers = b.servers /\ rOrder = b.order /\ rActive = b.active
           /\ rContext = b.context /\ rAlias = b.alias
    /\ rRequest = [r \in Requests |-> Registry!Idle]

LEMMA StartedInv == JustStarted => RegistryInv
<1> SUFFICES ASSUME JustStarted PROVE RegistryInv  OBVIOUS
<1>1. StartedFrom(rRows, rMeta, Registry!Boot(rRows, rMeta))  BY Booted DEF JustStarted
<1>2. /\ rContext \in Seq(Registry!Context)
      /\ rServers \in [Registry!Ids -> Nat]
      /\ rOrder \in Seq(Registry!Ids) /\ Distinct(rOrder)
      /\ \A s \in Registry!Ids : /\ Has(rOrder, s) <=> rRows[s].stored
                                 /\ rServers[s] # 0 <=> rRows[s].stored
      /\ \A s \in Registry!Ids : rRows[s].stored =>
            rServers[s] \in DOMAIN rContext /\ rContext[rServers[s]].id = s
      /\ rActive = Chosen(rRows, rMeta) /\ rActive \in Stored(rRows)
      /\ rAlias = rServers[rActive]
      /\ \A c \in DOMAIN rContext :
            rContext[c].bot => rContext[c].enabled /\ rServers[rContext[c].id] = c
  BY <1>1 DEF StartedFrom, JustStarted
<1>3. /\ RowsInv /\ rRows \in [Registry!Ids -> Registry!Rows]
      /\ rMeta \in Registry!Ids \cup {0}
      /\ \A r \in Requests : rRequest[r] = Registry!Idle
      /\ rRequest \in [Requests -> RegistryRequest]
  BY IdleIs DEF JustStarted
<1>4. rActive \in Registry!Ids /\ rRows[rActive].stored  BY <1>2 DEF Stored
<1>5. RegistryTypes  BY <1>2, <1>3, <1>4, IdleIs DEF RegistryTypes
<1>6. LiveInv  BY <1>2, <1>4 DEF LiveInv
<1>7. TurnsInv  BY <1>3, IdleIs DEF TurnsInv, Apart
<1>8. AliasInv /\ MetaInv /\ BotInv  BY <1>2 DEF AliasInv, MetaInv, BotInv
<1> QED  BY <1>3, <1>5, <1>6, <1>7, <1>8 DEF RegistryInv

LEMMA StepCrash ==
    ASSUME RegistryInv, Registry!Crash
    PROVE  RegistryInv'
<1>1. /\ rRows' = rRows /\ rMeta' = rMeta
      /\ LET b == Registry!Boot(rRows, rMeta)
         IN  /\ rServers' = b.servers /\ rOrder' = b.order /\ rActive' = b.active
             /\ rContext' = b.context /\ rAlias' = b.alias
      /\ rRequest' = [r \in Requests |-> Registry!Idle]
  BY DEF Registry!Crash
<1>2. /\ RowsInv /\ rRows \in [Registry!Ids -> Registry!Rows]
      /\ rMeta \in Registry!Ids \cup {0} /\ Stored(rRows) # {}
  BY ActiveServer DEF RegistryInv, RegistryTypes, Stored
<1>3. RowsInv'  BY <1>1, <1>2 DEF RowsInv
<1>4. Stored(rRows)' = Stored(rRows)  BY <1>1 DEF Stored
<1>5. Registry!Boot(rRows, rMeta)' = Registry!Boot(rRows, rMeta)
  BY <1>1
<1>6. JustStarted'  BY <1>1, <1>2, <1>3, <1>4, <1>5 DEF JustStarted
<1>7. (JustStarted => RegistryInv)'  BY StartedInv, PTL
<1> QED  BY <1>6, <1>7

LEMMA InitRegistry == RegistryHypothesis /\ Registry!Init => RegistryInv
<1> SUFFICES ASSUME RegistryHypothesis, Registry!Init  PROVE RegistryInv  OBVIOUS
<1>1. FirstServers \in 1..Rooms /\ Rooms \in Nat
  BY PanelAssumption DEF Registry!Bounded, RegistryHypothesis
<1>2. rRows = [s \in Registry!Ids |-> [stored |-> s <= FirstServers, used |-> s <= FirstServers,
                                       enabled |-> TRUE]] /\ rMeta = 0
  BY DEF Registry!Init, Registry!FirstRows, Registry!NoServer
<1>3. \A s \in Registry!Ids : /\ rRows[s].stored = (s <= FirstServers)
                              /\ rRows[s].used = (s <= FirstServers)
  BY <1>2
<1>4. rRows \in [Registry!Ids -> Registry!Rows]  BY <1>2 DEF Registry!Rows
<1>5. RowsInv
  <2>1. \A s, t \in Registry!Ids : s < t /\ t <= FirstServers => s <= FirstServers
    BY <1>1, RegistryBounds
  <2> QED  BY <1>2, <1>3, <2>1 DEF RowsInv
<1>6. Stored(rRows) # {}
  <2>1. 1 \in Registry!Ids /\ 1 <= FirstServers  BY <1>1 DEF Registry!Ids
  <2> QED  BY <1>3, <2>1 DEF Stored
<1>7. LET b == Registry!Boot(rRows, rMeta)
      IN  /\ rServers = b.servers /\ rOrder = b.order /\ rActive = b.active
          /\ rContext = b.context /\ rAlias = b.alias
  BY DEF Registry!Init, Registry!Started, Registry!NoServer
<1>8. JustStarted  BY <1>2, <1>4, <1>5, <1>6, <1>7 DEF JustStarted, Registry!Init
<1> QED  BY <1>8, StartedInv

LEMMA StepRegistry ==
    RegistryHypothesis /\ RegistryInv /\ [Registry!Next]_(Registry!vars) => RegistryInv'
<1> SUFFICES ASSUME RegistryHypothesis, RegistryInv, [Registry!Next]_(Registry!vars)
             PROVE  RegistryInv'
  OBVIOUS
<1>1. ASSUME NEW r \in Requests, Registry!Steps(r)  PROVE RegistryInv'
  BY <1>1, StepConnect, StepRegisters, StepIsActive, StepReadActive, StepAlias, StepPersist,
     StepProxies, StepStartBot, StepRemove, StepDeleteRow
  DEF Registry!Steps
<1>2. ASSUME NEW r \in Requests, Registry!Asked(r)  PROVE RegistryInv'
  BY <1>2, StepAdd, StepEdit, StepReconnect, StepActivate, StepDelete DEF Registry!Asked
<1>3. CASE UNCHANGED Registry!vars
  BY <1>3 DEF Registry!vars, RegistryInv, RegistryTypes, RowsInv, LiveInv, TurnsInv, AliasInv,
     BotInv, MetaInv, KindAt, RequestAt, Apart, Lagging, Choosing, Chosen, Stored, Distinct, Has
<1> QED  BY <1>1, <1>2, <1>3, StepCrash DEF Registry!Next

LEMMA RegistryHolds == RegistryInv => RegistryInStep
<1> SUFFICES ASSUME RegistryInv PROVE RegistryInStep  OBVIOUS
<1>1. /\ RegistryTypes /\ RowsInv /\ LiveInv /\ TurnsInv /\ AliasInv /\ BotInv /\ MetaInv
  BY DEF RegistryInv
<1>2. Registry!AliasesFollowActive
  <2> SUFFICES ASSUME Registry!NoneSwitching  PROVE rAlias = rServers[rActive]
    BY ActiveIs DEF Registry!AliasesFollowActive
  <2>1. \A r \in Requests : rRequest[r].pc # "idle" => rRequest[r].kind = "add"
    BY DEF Registry!NoneSwitching, Registry!Switching
  <2>2. \A r \in Requests : ~Lagging(rRequest[r])
    BY <1>1, <2>1 DEF Lagging, RegistryTypes, KindAt
  <2> QED  BY <1>1, <2>2 DEF AliasInv
<1>3. Registry!OneBot  BY <1>1 DEF BotInv, Registry!OneBot, Registry!Bots
<1>4. Registry!RestartBringsBack
  <2> SUFFICES ASSUME Registry!AtRest
               PROVE  LET b == Registry!Boot(rRows, rMeta)
                      IN  Registry!Range(rOrder) \subseteq Registry!Range(b.order) /\ b.active = rActive
    BY DEF Registry!RestartBringsBack
  <2> DEFINE b == Registry!Boot(rRows, rMeta)
  <2>1. Stored(rRows) # {} /\ rRows \in [Registry!Ids -> Registry!Rows]
    BY <1>1, ActiveServer DEF Stored, RegistryTypes
  <2>2. StartedFrom(rRows, rMeta, b)  BY <2>1, Booted
  <2> HIDE DEF b
  <2>3. b.active = Chosen(rRows, rMeta)
        /\ \A s \in Registry!Ids : Has(b.order, s) <=> rRows[s].stored
    BY <2>2 DEF StartedFrom
  <2>4. rActive = Chosen(rRows, rMeta)
    BY <1>1 DEF MetaInv, Choosing, Registry!AtRest, Registry!At
  <2>5. ASSUME NEW i \in DOMAIN rOrder  PROVE \E j \in DOMAIN b.order : b.order[j] = rOrder[i]
    <3>1. rOrder[i] \in Registry!Ids
      BY <1>1, LenProperties, ElementOfSeq DEF RegistryTypes
    <3>2. Has(rOrder, rOrder[i])  BY DEF Has
    <3>3. rRows[rOrder[i]].stored  BY <1>1, <3>1, <3>2 DEF LiveInv
    <3> QED  BY <2>3, <3>1, <3>3 DEF Has
  <2> QED  BY <2>3, <2>4, <2>5 DEF Registry!Range, b
<1> QED  BY <1>2, <1>3, <1>4 DEF RegistryInStep

\* With a server there from the start and the last one kept, and requests that may
\* re-point the aliases taking turns beside any number of additions, crashes and
\* failing connections: between requests the aliases are the active server's, each
\* bot is that of a registered context, and a restart brings all of it back
\* (server_selector.go, connectMultiServer).
THEOREM RegistryIsInStep == RegistryHypothesis => (PanelSpec => []RegistryInStep)
<1> SUFFICES ASSUME RegistryHypothesis PROVE PanelSpec => []RegistryInStep  OBVIOUS
<1>1. PanelInit => RegistryInv  BY InitRegistry DEF PanelInit
<1>2. RegistryInv /\ [PanelNext]_<<part, vars, rvars, bvars, evars, tvars, cvars, svars, avars>>
      => RegistryInv'
  <2> SUFFICES ASSUME RegistryInv,
                      [PanelNext]_<<part, vars, rvars, bvars, evars, tvars, cvars, svars, avars>>
               PROVE  RegistryInv'
    OBVIOUS
  <2>1. [Registry!Next]_(Registry!vars)  BY DEF PanelNext, rvars, Registry!vars
  <2> QED  BY <2>1, StepRegistry
<1> QED  BY <1>1, <1>2, RegistryHolds, PTL DEF PanelSpec

-----------------------------------------------------------------------------
(* Commands: what is known of one under way                                *)

\* Nothing but an outage falls into a command, and a grant's new balance can be read.
GrantsHypothesis == "command" \notin CommandRaces /\ "balance" \notin CommandFaults
CommandsHypothesis == GrantsHypothesis /\ "player" \notin CommandEdits

LEMMA CommandBounds == /\ IsFiniteSet(Users) /\ IsFiniteSet(Accounts)
                       /\ \A a \in Accounts : a \in Nat /\ a # 0
BY PanelAssumption DEF Slash!Bounded, Slash!IsFiniteSet, IsFiniteSet

LEMMA OneOf == \A S : IsFiniteSet(S) /\ Slash!Cardinality(S) = 1 => \E a : S = {a}
<1>1. \A S : Slash!Cardinality(S) = Cardinality(S)
  BY DEF Slash!Cardinality, Cardinality
<1> QED  BY <1>1, FS_Singleton

LEMMA LeastOfOne == \A a \in Nat : Slash!Min({a}) = a
BY DEF Slash!Min

PlayerNames == Names \cup {Slash!NoName}
LinkGuilds == CommandGuilds \cup {Slash!NoGuild, CHOOSE g \in CommandGuilds : TRUE}
LinkChannels == CommandServers \cup CommandChannels \cup {Slash!NoOne}
ChannelLink == [guild : LinkGuilds, announce : LinkChannels, status : LinkChannels]
Registration == [account : Accounts \cup {Slash!NoOne}, name : PlayerNames]
CommandPcs == {"idle", "authorize", "link", "lookup", "act", "told"}
SlashCommand == [pc : CommandPcs, name : Commands \cup {"none"}, part : PlayerNames,
                 server : CommandServers \cup {Slash!NoOne}, guild : LinkGuilds,
                 target : Accounts \cup {Slash!NoOne}]
Amounts == [CommandServers -> [Accounts -> Int]]

CommandTypes ==
    /\ cLinks \in [CommandServers -> ChannelLink]
    /\ cNames \in [CommandServers -> [Accounts -> PlayerNames]]
    /\ cBalance \in Amounts /\ cCredited \in Amounts
    /\ cLink \in [Users -> [CommandServers -> Registration]]
    /\ cCommand \in [Users -> SlashCommand]
    /\ DOMAIN cShown = Users

\* A command under way is for the server whose channel it came from; a grant on its way
\* is for a user who may, and for the one character that was found.
CommandAt(u) ==
    LET c == cCommand[u]
    IN  /\ c.pc # "idle" => c.server \in CommandServers
                            /\ c.guild = cLinks[c.server].guild
        /\ c.pc \in {"lookup", "act"} /\ c.name = "give-currency" =>
             Slash!Authorized(u, c.name, cRoles[c.guild])
        /\ c.pc = "act" /\ c.name \in {"give-currency", "register"} =>
             Slash!Found(c.server, c.part) = {c.target}
        /\ c.pc = "link" => c.name \in Slash!SelfService
        /\ c.pc = "told" => c.target \in Accounts

\* What a user registered is found by its name, and a self-service command is about it.
RegisteredAt(u) ==
    LET c == cCommand[u]
        mine == cLink[u][c.server]
    IN  /\ \A s \in CommandServers :
             cLink[u][s].account # Slash!NoOne =>
               Slash!Found(s, cLink[u][s].name) = {cLink[u][s].account}
        /\ c.pc \in {"lookup", "act"} /\ c.name \in Slash!SelfService
           /\ mine.account # Slash!NoOne =>
             IF c.pc = "lookup" THEN c.part = mine.name ELSE c.target = mine.account

CommandsInv ==
    /\ CommandTypes
    /\ Slash!GrantsAnswered
    /\ \A u \in Users : CommandAt(u)
    /\ "player" \notin CommandEdits => Slash!ShowsMine /\ \A u \in Users : RegisteredAt(u)

Told(s, a) == {u \in Users : /\ Slash!At(u, "told") /\ cCommand[u].server = s
                             /\ cCommand[u].target = a}
AddsUp(s, a) == cBalance[s][a] = cCredited[s][a] + Cardinality(Told(s, a))

LEMMA AddsUpIs ==
    Slash!GrantsAnswered <=> \A s \in CommandServers, a \in Accounts : AddsUp(s, a)
<1>1. \A S : Slash!Cardinality(S) = Cardinality(S)
  BY DEF Slash!Cardinality, Cardinality
<1> QED  BY <1>1 DEF Slash!GrantsAnswered, AddsUp, Told

LEMMA ToldCount ==
    \A s, a : IsFiniteSet(Told(s, a)) /\ Cardinality(Told(s, a)) \in Nat
<1>1. \A s, a : Told(s, a) \subseteq Users  BY DEF Told
<1> QED  BY <1>1, CommandBounds, FS_Subset, FS_CardinalityType

LEMMA AddsUpLater == (Slash!GrantsAnswered <=> \A s \in CommandServers, a \in Accounts : AddsUp(s, a))'
BY AddsUpIs, PTL
LEMMA ToldCountLater == (\A s, a : IsFiniteSet(Told(s, a)) /\ Cardinality(Told(s, a)) \in Nat)'
BY ToldCount, PTL

\* A step that neither tells of a grant nor makes one leaves the books alone.
LEMMA StillAnswered ==
    ASSUME Slash!GrantsAnswered, CommandTypes, NEW u \in Users, NEW c,
           cBalance' = cBalance, cCredited' = cCredited,
           cCommand' = [cCommand EXCEPT ![u] = c],
           cCommand[u].pc # "told", c.pc # "told"
    PROVE  Slash!GrantsAnswered'
<1>1. \A s, a : Told(s, a)' = Told(s, a)  BY DEF Told, Slash!At, CommandTypes
<1>2. \A s \in CommandServers, a \in Accounts : AddsUp(s, a)'
  BY <1>1, AddsUpIs DEF AddsUp
<1> QED  BY <1>2, AddsUpLater

LEMMA Unmoved ==
    ASSUME Slash!GrantsAnswered, cBalance' = cBalance, cCredited' = cCredited,
           cCommand' = cCommand
    PROVE  Slash!GrantsAnswered'
BY DEF Slash!GrantsAnswered, Slash!At

LEMMA CommandIn ==
    ASSUME CommandTypes, NEW u \in Users
    PROVE  /\ cCommand[u] \in SlashCommand
           /\ Slash!Idle \in SlashCommand
           /\ Slash!NoCharacter \in Registration
BY DEF CommandTypes, SlashCommand, Slash!Idle, CommandPcs, PlayerNames, LinkGuilds,
       Registration, Slash!NoCharacter

LEMMA StillAllowed ==
    ASSUME cMember' = cMember, NEW u \in Users, NEW r, NEW c
    PROVE  Slash!Authorized(u, c, r)' = Slash!Authorized(u, c, r)
BY DEF Slash!Authorized, Slash!MemberTier

\* A step of a user's command that touches nothing else keeps the invariant if what is
\* known of the command is kept.
LEMMA CommandMoves ==
    ASSUME CommandsInv, NEW u \in Users, NEW c \in SlashCommand,
           UNCHANGED <<cLinks, cRoles, cNames, cMember, cLink, cBalance, cCredited, cShown>>,
           cCommand' = [cCommand EXCEPT ![u] = c],
           cCommand[u].pc # "told", c.pc # "told",
           CommandAt(u)',
           "player" \notin CommandEdits => RegisteredAt(u)'
    PROVE  CommandsInv'
<1>1. CommandTypes'  BY DEF CommandsInv, CommandTypes
<1>2. Slash!GrantsAnswered'  BY StillAnswered DEF CommandsInv
<1>3. ASSUME NEW v \in Users  PROVE CommandAt(v)'
  <2>1. CASE v = u  BY <2>1
  <2>2. CASE v # u
    <3>1. cCommand'[v] = cCommand[v]  BY <2>2 DEF CommandsInv, CommandTypes
    <3>2. CommandAt(v)  BY DEF CommandsInv
    <3> QED  BY <3>1, <3>2, StillAllowed DEF CommandAt, Slash!Found
  <2> QED  BY <2>1, <2>2
<1>4. ASSUME NEW v \in Users, "player" \notin CommandEdits  PROVE RegisteredAt(v)'
  <2>1. CASE v = u  BY <2>1, <1>4
  <2>2. CASE v # u
    <3>1. cCommand'[v] = cCommand[v]  BY <2>2 DEF CommandsInv, CommandTypes
    <3> QED  BY <3>1, <1>4 DEF CommandsInv, RegisteredAt, Slash!Found
  <2> QED  BY <2>1, <2>2
<1>5. "player" \notin CommandEdits => Slash!ShowsMine'
  BY DEF CommandsInv, Slash!ShowsMine
<1> QED  BY <1>1, <1>2, <1>3, <1>4, <1>5 DEF CommandsInv

LEMMA Replied ==
    ASSUME CommandsInv, NEW u \in Users,
           UNCHANGED <<cLinks, cRoles, cNames, cMember, cLink, cBalance, cCredited, cShown>>,
           Slash!Reply(u), cCommand[u].pc # "told"
    PROVE  CommandsInv'
<1>1. Slash!Idle \in SlashCommand /\ Slash!Idle.pc = "idle"
  BY CommandIn DEF CommandsInv, Slash!Idle
<1>2. cCommand' = [cCommand EXCEPT ![u] = Slash!Idle]  BY DEF Slash!Reply, Slash!Set
<1>3. cCommand'[u] = Slash!Idle  BY <1>2 DEF CommandsInv, CommandTypes
<1>4. CommandAt(u)'  BY <1>1, <1>3 DEF CommandAt
<1>5. "player" \notin CommandEdits => RegisteredAt(u)'
  BY <1>1, <1>3 DEF CommandsInv, RegisteredAt, Slash!Found
<1> QED  BY <1>1, <1>2, <1>4, <1>5, CommandMoves

LEMMA StepInvoke ==
    ASSUME CommandsInv, NEW u \in Users, NEW n \in Commands, NEW p \in PlayerNames,
           NEW ch \in CommandChannels, Slash!Invoke(u, n, p, ch)
    PROVE  CommandsInv'
<1>1. PICK s \in CommandServers :
        Slash!Set(u, [pc |-> "authorize", name |-> n, part |-> p, server |-> s,
                      guild |-> cLinks[s].guild, target |-> Slash!NoOne])
  BY DEF Slash!Invoke
<1>2. PICK c : c = [pc |-> "authorize", name |-> n, part |-> p, server |-> s,
                    guild |-> cLinks[s].guild, target |-> Slash!NoOne]
  OBVIOUS
<1>3. c \in SlashCommand
  BY <1>2 DEF SlashCommand, CommandPcs, CommandsInv, CommandTypes, ChannelLink
<1>4. cCommand' = [cCommand EXCEPT ![u] = c]  BY <1>1, <1>2 DEF Slash!Set
<1>5. cCommand[u].pc = "idle"  BY DEF Slash!Invoke, Slash!At
<1>6. cCommand'[u] = c /\ c.pc = "authorize"
  BY <1>2, <1>4 DEF CommandsInv, CommandTypes
<1>7. UNCHANGED <<cLinks, cRoles, cNames, cMember, cLink, cBalance, cCredited, cShown>>
  BY DEF Slash!Invoke, Slash!store, Slash!world
<1>8. CommandAt(u)'  BY <1>2, <1>6, <1>7 DEF CommandAt
<1>9. "player" \notin CommandEdits => RegisteredAt(u)'
  BY <1>6, <1>7 DEF CommandsInv, RegisteredAt, Slash!Found
<1> QED  BY <1>3, <1>4, <1>5, <1>6, <1>7, <1>8, <1>9, CommandMoves

LEMMA StepAuthorize ==
    ASSUME CommandsInv, NEW u \in Users, Slash!Authorize(u)
    PROVE  CommandsInv'
<1> DEFINE c == cCommand[u]
<1>1. UNCHANGED <<cLinks, cRoles, cNames, cMember, cLink, cBalance, cCredited, cShown>>
  BY DEF Slash!Authorize, Slash!store, Slash!world
<1>2. c.pc = "authorize"  BY DEF Slash!Authorize, Slash!At
<1>3. CASE Slash!Reply(u)  BY <1>1, <1>2, <1>3, Replied
<1>4. CASE ~Slash!Reply(u)
  <2>1. PICK dest \in CommandPcs :
          /\ cCommand' = [cCommand EXCEPT ![u] = [c EXCEPT !.pc = dest]]
          /\ Slash!Authorized(u, c.name, cRoles[c.guild])
          /\ dest \in {"lookup", "act"} => c.name \notin Slash!SelfService
          /\ dest = "act" => c.name \in {"unregister", "status"}
          /\ dest \in {"link", "lookup", "act"}
          /\ dest = "link" => c.name \in Slash!SelfService
    <3> DEFINE dest == CASE c.name = "unregister" -> "act"
                       [] c.name = "status" -> "act"
                       [] c.name \in Slash!SelfService -> "link"
                       [] OTHER -> "lookup"
    <3>1. Slash!Goto(u, dest) /\ Slash!Authorized(u, c.name, cRoles[c.guild])
      BY <1>4 DEF Slash!Authorize
    <3>2. dest \in CommandPcs /\ dest \in {"link", "lookup", "act"}
          /\ (dest = "act" => c.name \in {"unregister", "status"})
          /\ (dest \in {"lookup", "act"} => c.name \notin Slash!SelfService)
          /\ (dest = "link" => c.name \in Slash!SelfService)
      BY DEF CommandPcs, Slash!SelfService
    <3> HIDE DEF dest
    <3>3. cCommand' = [cCommand EXCEPT ![u] = [c EXCEPT !.pc = dest]]
      BY <3>1 DEF Slash!Goto, Slash!Set
    <3> QED  BY <3>1, <3>2, <3>3
  <2> PICK d : d = [c EXCEPT !.pc = dest]  OBVIOUS
  <2>2. d \in SlashCommand /\ cCommand'[u] = d /\ d.pc = dest
        /\ d.name = c.name /\ d.server = c.server /\ d.guild = c.guild
    BY <2>1, CommandIn DEF CommandsInv, CommandTypes, SlashCommand
  <2>3. CommandAt(u)'
    <3>1. CommandAt(u)  BY DEF CommandsInv
    <3> QED  BY <1>1, <1>2, <2>1, <2>2, <3>1, StillAllowed DEF CommandAt
  <2>4. "player" \notin CommandEdits => RegisteredAt(u)'
    BY <1>1, <2>1, <2>2 DEF CommandsInv, RegisteredAt, Slash!Found
  <2> QED  BY <1>1, <1>2, <2>1, <2>2, <2>3, <2>4, CommandMoves
<1> QED  BY <1>3, <1>4

LEMMA StepReadLink ==
    ASSUME CommandsInv, NEW u \in Users, Slash!ReadLink(u)
    PROVE  CommandsInv'
<1> DEFINE c == cCommand[u]
<1>1. UNCHANGED <<cLinks, cRoles, cNames, cMember, cLink, cBalance, cCredited, cShown>>
  BY DEF Slash!ReadLink, Slash!store, Slash!world
<1>2. c.pc = "link"  BY DEF Slash!ReadLink, Slash!At
<1>3. CASE Slash!Reply(u)  BY <1>1, <1>2, <1>3, Replied
<1>4. CASE ~Slash!Reply(u)
  <2>1. PICK d : /\ d = [c EXCEPT !.pc = "lookup", !.part = cLink[u][c.server].name]
                 /\ cCommand' = [cCommand EXCEPT ![u] = d]
    BY <1>4 DEF Slash!ReadLink, Slash!Set
  <2>2. CommandAt(u) /\ c \in SlashCommand  BY CommandIn DEF CommandsInv
  <2>3. c.server \in CommandServers  BY <1>2, <2>2 DEF CommandAt
  <2>4. cLink[u][c.server].name \in PlayerNames
    BY <2>3 DEF CommandsInv, CommandTypes, Registration
  <2>5. d \in SlashCommand /\ cCommand'[u] = d /\ d.pc = "lookup"
        /\ d.part = cLink[u][c.server].name
        /\ d.name = c.name /\ d.server = c.server /\ d.guild = c.guild
    BY <2>1, <2>2, <2>4 DEF CommandsInv, CommandTypes, SlashCommand, CommandPcs
  <2>6. c.name # "give-currency" /\ c.name \in Slash!SelfService
    BY <1>2, <2>2 DEF CommandAt, Slash!SelfService
  <2>7. CommandAt(u)'  BY <1>1, <1>2, <2>2, <2>5, <2>6 DEF CommandAt
  <2>8. "player" \notin CommandEdits => RegisteredAt(u)'
    BY <1>1, <2>5 DEF CommandsInv, RegisteredAt, Slash!Found
  <2> QED  BY <1>1, <1>2, <2>1, <2>5, <2>7, <2>8, CommandMoves
<1> QED  BY <1>3, <1>4


\* The character a command looks up: the first found, the only one for a grant or a
\* registration.
LEMMA ChosenIs ==
    ASSUME CommandsInv, NEW c \in SlashCommand, c.server \in CommandServers,
           NEW a, a = Slash!Chosen(c.name, Slash!Found(c.server, c.part)),
           a # Slash!NoOne, Slash!Found(c.server, c.part) # {}
    PROVE  /\ a \in Slash!Found(c.server, c.part)
           /\ c.name \notin Slash!SelfService => Slash!Found(c.server, c.part) = {a}
<1> DEFINE found == Slash!Found(c.server, c.part)
<1>1. found \subseteq Accounts /\ found \subseteq Nat /\ IsFiniteSet(found)
  <2>1. found \subseteq Accounts  BY DEF Slash!Found
  <2> QED  BY <2>1, CommandBounds, FS_Subset
<1>2. PICK b \in found : \A x \in found : b <= x
  <2>1. found # {}  OBVIOUS
  <2> HIDE DEF found
  <2> QED  BY <1>1, <2>1, LeastNat
<1>3. Slash!Min(found) = b
  <2>1. \A x \in found : (\A y \in found : x <= y) => x = b
    <3> HIDE DEF found
    <3> QED  BY <1>1, <1>2
  <2> QED  BY <1>2, <2>1 DEF Slash!Min
<1>4. a = b
  BY <1>3 DEF Slash!Chosen
<1>5. ASSUME c.name \notin Slash!SelfService  PROVE found = {a}
  <2>1. Slash!Cardinality(found) = 1  BY <1>5 DEF Slash!Chosen
  <2> QED  BY <1>1, <1>2, <1>4, <2>1, OneOf
<1> QED  BY <1>2, <1>4, <1>5

LEMMA StepLookup ==
    ASSUME CommandsInv, NEW u \in Users, Slash!Lookup(u)
    PROVE  CommandsInv'
<1> DEFINE c == cCommand[u]
           found == Slash!Found(c.server, c.part)
<1>1. UNCHANGED <<cLinks, cRoles, cNames, cMember, cLink, cBalance, cCredited, cShown>>
  BY DEF Slash!Lookup, Slash!store, Slash!world
<1>2. c.pc = "lookup"  BY DEF Slash!Lookup, Slash!At
<1>3. CASE Slash!Reply(u)  BY <1>1, <1>2, <1>3, Replied
<1>4. CASE ~Slash!Reply(u)
  <2> PICK a : a = Slash!Chosen(c.name, found)  OBVIOUS
  <2>1. found # {} /\ a # Slash!NoOne
        /\ Slash!Set(u, [c EXCEPT !.pc = "act", !.target = a, !.part = cNames[c.server][a]])
    BY <1>4 DEF Slash!Lookup
  <2> PICK d : d = [c EXCEPT !.pc = "act", !.target = a, !.part = cNames[c.server][a]]
    OBVIOUS
  <2>2. CommandAt(u) /\ c \in SlashCommand  BY CommandIn DEF CommandsInv
  <2>3. c.server \in CommandServers  BY <1>2, <2>2 DEF CommandAt
  <2>4. a \in found /\ (c.name \notin Slash!SelfService => found = {a})
    BY <2>1, <2>2, <2>3, ChosenIs
  <2>5. a \in Accounts /\ cNames[c.server][a] \in PlayerNames
    BY <2>3, <2>4 DEF Slash!Found, CommandsInv, CommandTypes
  <2>6. d \in SlashCommand /\ cCommand'[u] = d /\ d.pc = "act" /\ d.target = a
        /\ d.part = cNames[c.server][a]
        /\ d.name = c.name /\ d.server = c.server /\ d.guild = c.guild
    BY <2>1, <2>2, <2>5 DEF CommandsInv, CommandTypes, SlashCommand, CommandPcs, Slash!Set
  <2>7. cCommand' = [cCommand EXCEPT ![u] = d]  BY <2>1 DEF Slash!Set
  <2>8. CommandAt(u)'
    <3>1. d.name = "give-currency" => Slash!Authorized(u, d.name, cRoles[d.guild])
      BY <1>2, <2>2, <2>6 DEF CommandAt
    <3>2. ASSUME d.name \in {"give-currency", "register"}
          PROVE  Slash!Found(d.server, d.part) = {d.target}
      <4>1. found = {a}  BY <2>4, <2>6, <3>2 DEF Slash!SelfService
      <4>2. \A x \in Accounts : cNames[c.server][x] # Slash!NoName /\ c.part \subseteq cNames[c.server][x]
                                <=> x = a
        BY <2>5, <4>1 DEF Slash!Found
      <4>3. \A x \in Accounts : cNames[c.server][x] # Slash!NoName
                                /\ cNames[c.server][a] \subseteq cNames[c.server][x]
                                <=> x = a
        BY <2>5, <4>2
      <4> QED  BY <2>5, <2>6, <4>3 DEF Slash!Found
    <3>3. Slash!Found(d.server, d.part)' = Slash!Found(d.server, d.part)
      BY <1>1 DEF Slash!Found
    <3> QED  BY <1>1, <1>2, <2>2, <2>6, <3>1, <3>2, <3>3, StillAllowed DEF CommandAt
  <2>9. ASSUME "player" \notin CommandEdits  PROVE RegisteredAt(u)'
    <3>1. RegisteredAt(u)  BY <2>9 DEF CommandsInv
    <3>2. ASSUME c.name \in Slash!SelfService, cLink[u][c.server].account # Slash!NoOne
          PROVE  a = cLink[u][c.server].account
      BY <1>2, <2>3, <2>4, <3>1, <3>2 DEF RegisteredAt
    <3> QED  BY <1>1, <2>6, <3>1, <3>2 DEF RegisteredAt, Slash!Found
  <2> QED  BY <1>1, <1>2, <2>6, <2>7, <2>8, <2>9, CommandMoves
<1> QED  BY <1>3, <1>4

LEMMA StepReplies ==
    ASSUME CommandsInv, NEW u \in Users,
           \/ Slash!LookupFails(u) \/ Slash!Status(u) \/ Slash!DatabaseFails(u)
           \/ Slash!StoreFails(u)
    PROVE  CommandsInv'
BY Replied DEF Slash!LookupFails, Slash!Status, Slash!DatabaseFails, Slash!StoreFails,
   Slash!At, Slash!store, Slash!world

\* A grant that is made is told, or about to be.
LEMMA StepCredit ==
    ASSUME CommandsInv, NEW u \in Users, Slash!Credit(u)
    PROVE  CommandsInv'
<1> DEFINE c == cCommand[u]
<1> PICK d : d = [c EXCEPT !.pc = "told"]  OBVIOUS
<1>1. UNCHANGED <<cLinks, cRoles, cNames, cMember, cLink, cCredited, cShown>>
  BY DEF Slash!Credit, Slash!store, Slash!world
<1>2. /\ c.pc = "act" /\ c.name = "give-currency"
      /\ cCommand' = [cCommand EXCEPT ![u] = d]
      /\ cBalance' = [cBalance EXCEPT ![c.server][c.target] = @ + 1]
  BY DEF Slash!Credit, Slash!At, Slash!Goto, Slash!Set
<1>3. CommandAt(u) /\ c \in SlashCommand  BY CommandIn DEF CommandsInv
<1>4. c.server \in CommandServers /\ c.target \in Accounts
  <2>1. Slash!Found(c.server, c.part) = {c.target}  BY <1>2, <1>3 DEF CommandAt
  <2> QED  BY <1>2, <1>3, <2>1 DEF CommandAt, Slash!Found
<1>5. d \in SlashCommand /\ cCommand'[u] = d /\ d.pc = "told" /\ d.name = c.name
      /\ d.server = c.server /\ d.target = c.target /\ d.guild = c.guild
  BY <1>2, <1>3 DEF CommandsInv, CommandTypes, SlashCommand, CommandPcs
<1>6. \A v \in Users : v # u => cCommand'[v] = cCommand[v]
  BY <1>2 DEF CommandsInv, CommandTypes
<1>7. cBalance' \in Amounts
      /\ \A s \in CommandServers, a \in Accounts :
           cBalance'[s][a] = IF s = c.server /\ a = c.target THEN cBalance[s][a] + 1
                             ELSE cBalance[s][a]
  BY <1>2, <1>4 DEF CommandsInv, CommandTypes, Amounts
<1>8. CommandTypes'  BY <1>1, <1>2, <1>5, <1>7 DEF CommandsInv, CommandTypes
<1>9. ASSUME NEW s \in CommandServers, NEW a \in Accounts  PROVE AddsUp(s, a)'
  <2>1. AddsUp(s, a) /\ IsFiniteSet(Told(s, a)) /\ Cardinality(Told(s, a)) \in Nat
    BY AddsUpIs, ToldCount DEF CommandsInv
  <2>2. cBalance[s][a] \in Int /\ cCredited[s][a] \in Int
    BY DEF CommandsInv, CommandTypes, Amounts
  <2>3. CASE s = c.server /\ a = c.target
    <3>1. Told(s, a)' = Told(s, a) \cup {u}  BY <1>5, <1>6, <2>3 DEF Told, Slash!At
    <3>2. u \notin Told(s, a)  BY <1>2 DEF Told, Slash!At
    <3>3. Cardinality(Told(s, a)') = Cardinality(Told(s, a)) + 1
      BY <2>1, <3>1, <3>2, FS_AddElement
    <3> QED  BY <1>1, <1>7, <2>1, <2>2, <2>3, <3>3 DEF AddsUp
  <2>4. CASE ~(s = c.server /\ a = c.target)
    <3>1. Told(s, a)' = Told(s, a)  BY <1>2, <1>5, <1>6, <2>4 DEF Told, Slash!At
    <3> QED  BY <1>1, <1>7, <2>1, <2>4, <3>1 DEF AddsUp
  <2> QED  BY <2>3, <2>4
<1>10. ASSUME NEW v \in Users  PROVE CommandAt(v)'
  <2>1. CommandAt(v)  BY DEF CommandsInv
  <2>2. CASE v = u
    BY <1>1, <1>3, <1>4, <1>5, <2>2, <1>2 DEF CommandAt
  <2>3. CASE v # u
    BY <1>1, <1>6, <2>1, <2>3, StillAllowed DEF CommandAt, Slash!Found
  <2> QED  BY <2>2, <2>3
<1>11. ASSUME NEW v \in Users, "player" \notin CommandEdits  PROVE RegisteredAt(v)'
  <2>1. RegisteredAt(v)  BY <1>11 DEF CommandsInv
  <2> QED  BY <1>1, <1>5, <1>6, <2>1 DEF RegisteredAt, Slash!Found
<1>12. "player" \notin CommandEdits => Slash!ShowsMine'
  BY <1>1 DEF CommandsInv, Slash!ShowsMine
<1> QED  BY <1>8, <1>9, <1>10, <1>11, <1>12, AddsUpLater DEF CommandsInv

LEMMA StepTellCredit ==
    ASSUME CommandsInv, GrantsHypothesis, NEW u \in Users, Slash!TellCredit(u)
    PROVE  CommandsInv'
<1> DEFINE c == cCommand[u]
<1>1. UNCHANGED <<cLinks, cRoles, cNames, cMember, cLink, cBalance, cShown>>
  BY DEF Slash!TellCredit, Slash!store, Slash!world
<1>2. /\ c.pc = "told"
      /\ cCommand' = [cCommand EXCEPT ![u] = Slash!Idle]
      /\ cCredited' = [cCredited EXCEPT ![c.server][c.target] = @ + 1]
  BY DEF Slash!TellCredit, Slash!At, Slash!Reply, Slash!Set, Slash!Fails, GrantsHypothesis
<1>3. CommandAt(u) /\ Slash!Idle \in SlashCommand  BY CommandIn DEF CommandsInv
<1>4. c.server \in CommandServers /\ c.target \in Accounts
  BY <1>2, <1>3 DEF CommandAt
<1>5. cCommand'[u] = Slash!Idle /\ Slash!Idle.pc = "idle"
  BY <1>2 DEF CommandsInv, CommandTypes, Slash!Idle
<1>6. \A v \in Users : v # u => cCommand'[v] = cCommand[v]
  BY <1>2 DEF CommandsInv, CommandTypes
<1>7. cCredited' \in Amounts
      /\ \A s \in CommandServers, a \in Accounts :
           cCredited'[s][a] = IF s = c.server /\ a = c.target THEN cCredited[s][a] + 1
                              ELSE cCredited[s][a]
  BY <1>2, <1>4 DEF CommandsInv, CommandTypes, Amounts
<1>8. CommandTypes'  BY <1>1, <1>2, <1>3, <1>7 DEF CommandsInv, CommandTypes
<1>9. ASSUME NEW s \in CommandServers, NEW a \in Accounts  PROVE AddsUp(s, a)'
  <2>1. AddsUp(s, a) /\ IsFiniteSet(Told(s, a)) /\ Cardinality(Told(s, a)) \in Nat
    BY AddsUpIs, ToldCount DEF CommandsInv
  <2>2. cBalance[s][a] \in Int /\ cCredited[s][a] \in Int
    BY DEF CommandsInv, CommandTypes, Amounts
  <2>3. CASE s = c.server /\ a = c.target
    <3>1. Told(s, a)' = Told(s, a) \ {u}  BY <1>5, <1>6, <2>3 DEF Told, Slash!At
    <3>2. u \in Told(s, a)  BY <1>2, <2>3 DEF Told, Slash!At
    <3>3. Cardinality(Told(s, a)') = Cardinality(Told(s, a)) - 1
      BY <2>1, <3>1, <3>2, FS_RemoveElement
    <3> QED  BY <1>1, <1>7, <2>1, <2>2, <2>3, <3>3 DEF AddsUp
  <2>4. CASE ~(s = c.server /\ a = c.target)
    <3>1. Told(s, a)' = Told(s, a)  BY <1>2, <1>5, <1>6, <2>4 DEF Told, Slash!At
    <3> QED  BY <1>1, <1>7, <2>1, <2>4, <3>1 DEF AddsUp
  <2> QED  BY <2>3, <2>4
<1>10. ASSUME NEW v \in Users  PROVE CommandAt(v)'
  <2>1. CommandAt(v)  BY DEF CommandsInv
  <2>2. CASE v = u  BY <1>5, <2>2 DEF CommandAt
  <2>3. CASE v # u
    BY <1>1, <1>6, <2>1, <2>3, StillAllowed DEF CommandAt, Slash!Found
  <2> QED  BY <2>2, <2>3
<1>11. ASSUME NEW v \in Users, "player" \notin CommandEdits  PROVE RegisteredAt(v)'
  <2>1. RegisteredAt(v)  BY <1>11 DEF CommandsInv
  <2> QED  BY <1>1, <1>5, <1>6, <2>1 DEF RegisteredAt, Slash!Found
<1>12. "player" \notin CommandEdits => Slash!ShowsMine'
  BY <1>1 DEF CommandsInv, Slash!ShowsMine
<1> QED  BY <1>8, <1>9, <1>10, <1>11, <1>12, AddsUpLater DEF CommandsInv

LEMMA LinkChanges ==
    ASSUME CommandsInv, NEW u \in Users, NEW s \in CommandServers, NEW r \in Registration,
           UNCHANGED <<cLinks, cRoles, cNames, cMember, cBalance, cCredited, cShown>>,
           Slash!Reply(u), cCommand[u].pc # "told",
           cLink' = [cLink EXCEPT ![u][s] = r],
           r.account # Slash!NoOne => Slash!Found(s, r.name) = {r.account}
    PROVE  CommandsInv'
<1>1. Slash!Idle \in SlashCommand /\ Slash!Idle.pc = "idle"
  BY CommandIn DEF CommandsInv, Slash!Idle
<1>2. cCommand' = [cCommand EXCEPT ![u] = Slash!Idle]  BY DEF Slash!Reply, Slash!Set
<1>3. cCommand'[u] = Slash!Idle /\ \A v \in Users : v # u => cCommand'[v] = cCommand[v]
  BY <1>2 DEF CommandsInv, CommandTypes
<1>4. cLink' \in [Users -> [CommandServers -> Registration]]
      /\ (\A v \in Users : v # u => cLink'[v] = cLink[v])
      /\ \A t \in CommandServers : cLink'[u][t] = IF t = s THEN r ELSE cLink[u][t]
  BY DEF CommandsInv, CommandTypes
<1>5. CommandTypes'  BY <1>1, <1>2, <1>4 DEF CommandsInv, CommandTypes
<1>6. Slash!GrantsAnswered'  BY <1>1, <1>2, StillAnswered DEF CommandsInv
<1>7. ASSUME NEW v \in Users  PROVE CommandAt(v)'
  <2>1. CASE v = u  BY <1>1, <1>3, <2>1 DEF CommandAt
  <2>2. CASE v # u
    <3>1. CommandAt(v)  BY DEF CommandsInv
    <3> QED  BY <1>3, <2>2, <3>1, StillAllowed DEF CommandAt, Slash!Found
  <2> QED  BY <2>1, <2>2
<1>8. ASSUME NEW v \in Users, "player" \notin CommandEdits  PROVE RegisteredAt(v)'
  <2>1. RegisteredAt(v)  BY <1>8 DEF CommandsInv
  <2>2. CASE v = u
    BY <1>1, <1>3, <1>4, <2>1, <2>2 DEF RegisteredAt, Slash!Found
  <2>3. CASE v # u
    BY <1>3, <1>4, <2>1, <2>3 DEF RegisteredAt, Slash!Found
  <2> QED  BY <2>2, <2>3
<1>9. "player" \notin CommandEdits => Slash!ShowsMine'
  BY DEF CommandsInv, Slash!ShowsMine
<1> QED  BY <1>5, <1>6, <1>7, <1>8, <1>9 DEF CommandsInv

LEMMA StepRegisterLink ==
    ASSUME CommandsInv, NEW u \in Users, Slash!RegisterLink(u)
    PROVE  CommandsInv'
<1> PICK c : c = cCommand[u]  OBVIOUS
<1>1. /\ UNCHANGED <<cLinks, cRoles, cNames, cMember, cBalance, cCredited, cShown>>
      /\ c.pc = "act" /\ c.name = "register" /\ Slash!Reply(u)
      /\ cLink' = [cLink EXCEPT ![u][c.server] = [account |-> c.target, name |-> c.part]]
  BY DEF Slash!RegisterLink, Slash!At, Slash!world
<1>2. CommandAt(u) /\ c \in SlashCommand  BY CommandIn DEF CommandsInv
<1>3. c.server \in CommandServers /\ Slash!Found(c.server, c.part) = {c.target}
  BY <1>1, <1>2 DEF CommandAt
<1> PICK r : r = [account |-> c.target, name |-> c.part]  OBVIOUS
<1>4. r \in Registration /\ r.account = c.target /\ r.name = c.part
  BY <1>2 DEF SlashCommand, Registration
<1> QED  BY <1>1, <1>3, <1>4, LinkChanges

LEMMA StepUnregister ==
    ASSUME CommandsInv, NEW u \in Users, Slash!Unregister(u)
    PROVE  CommandsInv'
<1> PICK c : c = cCommand[u]  OBVIOUS
<1>1. /\ UNCHANGED <<cLinks, cRoles, cNames, cMember, cBalance, cCredited, cShown>>
      /\ c.pc = "act" /\ Slash!Reply(u)
      /\ cLink' = [cLink EXCEPT ![u][c.server] = Slash!NoCharacter]
  BY DEF Slash!Unregister, Slash!At, Slash!world
<1>2. CommandAt(u)  BY DEF CommandsInv
<1>3. c.server \in CommandServers  BY <1>1, <1>2 DEF CommandAt
<1>4. Slash!NoCharacter \in Registration /\ Slash!NoCharacter.account = Slash!NoOne
  BY CommandIn DEF CommandsInv, Slash!NoCharacter
<1> QED  BY <1>1, <1>3, <1>4, LinkChanges

LEMMA StepShowMine ==
    ASSUME CommandsInv, NEW u \in Users, Slash!ShowMine(u)
    PROVE  CommandsInv'
<1> PICK c : c = cCommand[u]  OBVIOUS
<1> PICK r : r = [server |-> c.server, account |-> c.target,
                  registered |-> cLink[u][c.server].account]
  OBVIOUS
<1>1. /\ UNCHANGED <<cLinks, cRoles, cNames, cMember, cLink, cBalance, cCredited>>
      /\ c.pc = "act" /\ c.name \in Slash!SelfService
      /\ cCommand' = [cCommand EXCEPT ![u] = Slash!Idle]
      /\ cShown' = [cShown EXCEPT ![u] = r]
  BY DEF Slash!ShowMine, Slash!At, Slash!store, Slash!world, Slash!Reply, Slash!Set
<1>2. cCommand'[u] = Slash!Idle /\ Slash!Idle.pc = "idle" /\ Slash!Idle \in SlashCommand
      /\ \A v \in Users : v # u => cCommand'[v] = cCommand[v]
  BY <1>1, CommandIn DEF CommandsInv, CommandTypes, Slash!Idle
<1>3. CommandTypes'  BY <1>1, <1>2 DEF CommandsInv, CommandTypes
<1>4. Slash!GrantsAnswered'  BY <1>1, <1>2, StillAnswered DEF CommandsInv
<1>5. ASSUME NEW v \in Users  PROVE CommandAt(v)'
  <2>1. CASE v = u  BY <1>2, <2>1 DEF CommandAt
  <2>2. CASE v # u
    <3>1. CommandAt(v)  BY DEF CommandsInv
    <3> QED  BY <1>1, <1>2, <2>2, <3>1, StillAllowed DEF CommandAt, Slash!Found
  <2> QED  BY <2>1, <2>2
<1>6. ASSUME NEW v \in Users, "player" \notin CommandEdits  PROVE RegisteredAt(v)'
  <2>1. RegisteredAt(v)  BY <1>6 DEF CommandsInv
  <2> QED  BY <1>1, <1>2, <2>1 DEF RegisteredAt, Slash!Found
<1>7. ASSUME "player" \notin CommandEdits  PROVE Slash!ShowsMine'
  <2>1. RegisteredAt(u) /\ Slash!ShowsMine  BY <1>7 DEF CommandsInv
  <2>2. r.registered # Slash!NoOne => r.account = r.registered
    BY <1>1, <2>1 DEF RegisteredAt
  <2>3. \A v \in Users : cShown'[v] = IF v = u THEN r ELSE cShown[v]
    BY <1>1 DEF CommandsInv, CommandTypes
  <2> QED  BY <2>1, <2>2, <2>3 DEF Slash!ShowsMine
<1> QED  BY <1>3, <1>4, <1>5, <1>6, <1>7 DEF CommandsInv

\* While no command is under way, whoever is registered stays findable.
LEMMA QuietChange ==
    ASSUME CommandsInv, CommandTypes',
           \A u \in Users : cCommand[u].pc = "idle",
           UNCHANGED <<cBalance, cCredited, cShown, cCommand>>,
           "player" \notin CommandEdits =>
             cNames' = cNames /\ \A u \in Users, s \in CommandServers :
                                   cLink'[u][s] \in {cLink[u][s], Slash!NoCharacter}
    PROVE  CommandsInv'
<1>1. Slash!GrantsAnswered'  BY Unmoved DEF CommandsInv
<1>2. ASSUME NEW v \in Users  PROVE CommandAt(v)'  BY DEF CommandAt
<1>3. ASSUME NEW v \in Users, "player" \notin CommandEdits  PROVE RegisteredAt(v)'
  <2>1. RegisteredAt(v)  BY <1>3 DEF CommandsInv
  <2>2. \A s \in CommandServers : cLink'[v][s].account # Slash!NoOne => cLink'[v][s] = cLink[v][s]
    BY <1>3 DEF Slash!NoCharacter
  <2> QED  BY <1>3, <2>1, <2>2 DEF RegisteredAt, Slash!Found
<1>4. "player" \notin CommandEdits => Slash!ShowsMine'
  BY DEF CommandsInv, Slash!ShowsMine
<1> QED  BY <1>1, <1>2, <1>3, <1>4 DEF CommandsInv

LEMMA EditQuiet ==
    ASSUME GrantsHypothesis, NEW e, e # "outage", Slash!Edit(e)
    PROVE  e \in CommandEdits /\ \A u \in Users : cCommand[u].pc = "idle"
BY DEF Slash!Edit, Slash!At, GrantsHypothesis

LEMMA StepChange ==
    ASSUME CommandsInv, GrantsHypothesis, Slash!Change
    PROVE  CommandsInv'
<1>1. ASSUME NEW s \in CommandServers, NEW g \in CommandGuilds, NEW ch \in CommandChannels,
             Slash!RelinkServer(s, g, ch)
      PROVE  CommandsInv'
  <2>1. \A u \in Users : cCommand[u].pc = "idle"
    BY <1>1, EditQuiet DEF Slash!RelinkServer
  <2>2. UNCHANGED <<cNames, cLink, cBalance, cCredited, cShown, cCommand>>
    BY <1>1 DEF Slash!RelinkServer, Slash!world
  <2>3. [guild |-> g, announce |-> ch, status |-> ch] \in ChannelLink
    BY DEF ChannelLink, LinkGuilds, LinkChannels
  <2>4. CommandTypes'
    BY <1>1, <2>2, <2>3 DEF Slash!RelinkServer, CommandsInv, CommandTypes
  <2> QED  BY <2>1, <2>2, <2>4, QuietChange
<1>2. ASSUME NEW s \in CommandServers, Slash!DropServer(s)  PROVE CommandsInv'
  <2>1. \A u \in Users : cCommand[u].pc = "idle"
    BY <1>2, EditQuiet DEF Slash!DropServer
  <2>2. /\ UNCHANGED <<cNames, cBalance, cCredited, cShown, cCommand>>
        /\ cLinks' = [cLinks EXCEPT ![s] = Slash!NoLink]
        /\ cLink' = [u \in Users |-> [cLink[u] EXCEPT ![s] = Slash!NoCharacter]]
    BY <1>2 DEF Slash!DropServer
  <2>3. Slash!NoLink \in ChannelLink
    BY DEF Slash!NoLink, ChannelLink, LinkGuilds, LinkChannels
  <2>4. Slash!NoCharacter \in Registration
    BY DEF Slash!NoCharacter, Registration, PlayerNames
  <2>5. CommandTypes'
    BY <2>2, <2>3, <2>4 DEF CommandsInv, CommandTypes
  <2>6. \A u \in Users, t \in CommandServers : cLink'[u][t] \in {cLink[u][t], Slash!NoCharacter}
    BY <2>2 DEF CommandsInv, CommandTypes
  <2> QED  BY <2>1, <2>2, <2>5, <2>6, QuietChange
<1>3. ASSUME NEW s \in CommandServers, Slash!Outage(s)  PROVE CommandsInv'
  <2>1. UNCHANGED <<cLinks, cRoles, cNames, cMember, cLink, cBalance, cCredited, cShown, cCommand>>
    BY <1>3 DEF Slash!Outage, Slash!store
  <2> QED  BY <2>1, Unmoved, StillAllowed
           DEF CommandsInv, CommandTypes, CommandAt, RegisteredAt, Slash!Found, Slash!ShowsMine
<1>4. ASSUME NEW g \in CommandGuilds, NEW e \in SUBSET Roles, Slash!SetRoles(g, e)
      PROVE  CommandsInv'
  <2>1. \A u \in Users : cCommand[u].pc = "idle"
    BY <1>4, EditQuiet DEF Slash!SetRoles
  <2>2. UNCHANGED <<cLinks, cNames, cLink, cBalance, cCredited, cShown, cCommand>>
    BY <1>4 DEF Slash!SetRoles, Slash!world
  <2> QED  BY <2>1, <2>2, QuietChange DEF CommandsInv, CommandTypes
<1>5. ASSUME NEW g \in CommandGuilds, Slash!DeleteGuild(g)  PROVE CommandsInv'
  <2>1. \A u \in Users : cCommand[u].pc = "idle"
    BY <1>5, EditQuiet DEF Slash!DeleteGuild
  <2>2. UNCHANGED <<cLinks, cNames, cLink, cBalance, cCredited, cShown, cCommand>>
    BY <1>5 DEF Slash!DeleteGuild, Slash!world
  <2> QED  BY <2>1, <2>2, QuietChange DEF CommandsInv, CommandTypes
<1>6. ASSUME NEW s \in CommandServers, NEW a \in Accounts, NEW n \in PlayerNames,
             Slash!ChangePlayer(s, a, n)
      PROVE  CommandsInv'
  <2>1. "player" \in CommandEdits /\ \A u \in Users : cCommand[u].pc = "idle"
    BY <1>6, EditQuiet DEF Slash!ChangePlayer
  <2>2. /\ UNCHANGED <<cLinks, cLink, cBalance, cCredited, cShown, cCommand>>
        /\ cNames' = [cNames EXCEPT ![s][a] = n]
    BY <1>6 DEF Slash!ChangePlayer, Slash!store
  <2>3. CommandTypes'  BY <2>2 DEF CommandsInv, CommandTypes
  <2> QED  BY <2>1, <2>2, <2>3, QuietChange
<1> QED  BY <1>1, <1>2, <1>3, <1>4, <1>5, <1>6 DEF Slash!Change, PlayerNames

LEMMA StepCommands ==
    ASSUME CommandsInv, GrantsHypothesis, [Slash!Next]_(Slash!vars)
    PROVE  CommandsInv'
<1>1. ASSUME \/ UNCHANGED Slash!vars
             \/ \E u \in Users, ch \in CommandChannels : Slash!NoServer(u, ch)
      PROVE  CommandsInv'
  <2>1. UNCHANGED <<cLinks, cRoles, cNames, cMember, cLink, cBalance, cCredited, cShown, cCommand>>
    BY <1>1 DEF Slash!vars, Slash!NoServer, Slash!store, Slash!world
  <2> QED  BY <2>1, Unmoved, StillAllowed
           DEF CommandsInv, CommandTypes, CommandAt, RegisteredAt, Slash!Found, Slash!ShowsMine
<1>2. ASSUME NEW u \in Users, Slash!Use(u)  PROVE CommandsInv'
  BY <1>1, <1>2, StepInvoke, StepAuthorize, StepReadLink, StepLookup, StepReplies, StepCredit,
     StepTellCredit, StepRegisterLink, StepUnregister, StepShowMine
  DEF Slash!Use, PlayerNames
<1> QED  BY <1>1, <1>2, StepChange DEF Slash!Next

LEMMA InitCommands == Slash!Init => CommandsInv
<1> SUFFICES ASSUME Slash!Init PROVE CommandsInv  OBVIOUS
<1>1. \A u \in Users : cCommand[u].pc = "idle"  BY DEF Slash!Init, Slash!Idle
<1>2. CommandTypes
  <2>1. Slash!Idle \in SlashCommand
    BY DEF SlashCommand, Slash!Idle, CommandPcs, PlayerNames, LinkGuilds
  <2>2. Slash!NoCharacter \in Registration
    BY DEF Slash!NoCharacter, Registration, PlayerNames
  <2>3. cLinks \in [CommandServers -> ChannelLink]
    BY DEF Slash!Init, ChannelLink, LinkGuilds, LinkChannels
  <2>4. cNames \in [CommandServers -> [Accounts -> PlayerNames]]
    BY DEF Slash!Init, Slash!Injection, PlayerNames
  <2>5. cBalance \in Amounts /\ cCredited \in Amounts  BY DEF Slash!Init, Amounts
  <2> QED  BY <2>1, <2>2, <2>3, <2>4, <2>5 DEF Slash!Init, CommandTypes
<1>3. Slash!GrantsAnswered
  <2>1. \A s, a : Told(s, a) = {}  BY <1>1 DEF Told, Slash!At
  <2>2. \A s \in CommandServers, a \in Accounts : AddsUp(s, a)
    <3>1. \A s \in CommandServers, a \in Accounts : cBalance[s][a] = 0 /\ cCredited[s][a] = 0
      BY DEF Slash!Init
    <3>2. Cardinality({}) = 0  BY FS_EmptySet
    <3> QED  BY <2>1, <3>1, <3>2 DEF AddsUp
  <2> QED  BY <2>2, AddsUpIs
<1>4. Slash!ShowsMine  BY DEF Slash!ShowsMine, Slash!Init
<1>5. ASSUME NEW u \in Users  PROVE CommandAt(u) /\ RegisteredAt(u)
  BY <1>1 DEF CommandAt, RegisteredAt, Slash!Init, Slash!NoCharacter
<1> QED  BY <1>2, <1>3, <1>4, <1>5 DEF CommandsInv

LEMMA JustifiedAt == CommandsInv => Slash!GrantsJustified
<1> SUFFICES ASSUME CommandsInv, NEW u \in Users, Slash!At(u, "act"),
                    cCommand[u].name = "give-currency"
             PROVE  LET c == cCommand[u]
                    IN  /\ c.guild = cLinks[c.server].guild
                        /\ \/ Slash!MemberTier(u, cRoles[c.guild]) >= Slash!tierEconomy
                           \/ Slash!Administrator \in cMember[u]
                        /\ Slash!Found(c.server, c.part) = {c.target}
  BY DEF Slash!GrantsJustified
<1>1. CommandAt(u)  BY DEF CommandsInv
<1>2. Slash!CommandTier("give-currency") = Slash!tierEconomy
  BY DEF Slash!CommandTier, Slash!SelfService
<1>3. Slash!Authorized(u, "give-currency", cRoles[cCommand[u].guild])
  BY <1>1 DEF CommandAt, Slash!At
<1> QED  BY <1>1, <1>2, <1>3 DEF CommandAt, Slash!At, Slash!Authorized

\* While only outages fall into a command, grants go to whom they should, by whom may,
\* and every one that went through is answered for: whatever is renamed, relinked or
\* removed between two commands (dispatchDiscordCommand, handleDiscordGiveCurrency).
THEOREM GrantsAreJustified ==
    GrantsHypothesis =>
      (PanelSpec => [](part = "commands" => Slash!GrantsAnswered /\ Slash!GrantsJustified))
<1> SUFFICES ASSUME GrantsHypothesis
             PROVE  PanelSpec => [](part = "commands" => Slash!GrantsAnswered /\ Slash!GrantsJustified)
  OBVIOUS
<1> DEFINE Inv == part = "commands" => CommandsInv
<1>1. PanelInit => Inv  BY InitCommands DEF PanelInit
<1>2. Inv /\ [PanelNext]_<<part, vars, rvars, bvars, evars, tvars, cvars, svars, avars>> => Inv'
  <2> SUFFICES ASSUME Inv,
                      [PanelNext]_<<part, vars, rvars, bvars, evars, tvars, cvars, svars, avars>>,
                      part' = "commands"
               PROVE  CommandsInv'
    OBVIOUS
  <2>1. part = "commands" /\ [Slash!Next]_(Slash!vars)
    BY DEF PanelNext, cvars, Slash!vars
  <2> QED  BY <2>1, StepCommands
<1>3. Inv => (part = "commands" => Slash!GrantsAnswered /\ Slash!GrantsJustified)
  BY JustifiedAt DEF CommandsInv
<1> QED  BY <1>1, <1>2, <1>3, PTL DEF PanelSpec

\* And as long as the game renames nobody, a self-service reply is about the character
\* its user registered on the channel's server (discordResolvePlayer): the name stored
\* with the registration finds that character and no other.
THEOREM CommandsAreSound == CommandsHypothesis => (PanelSpec => []CommandsSound)
<1> SUFFICES ASSUME CommandsHypothesis PROVE PanelSpec => []CommandsSound  OBVIOUS
<1> DEFINE Inv == part = "commands" => CommandsInv
<1>1. PanelInit => Inv  BY InitCommands DEF PanelInit
<1>2. Inv /\ [PanelNext]_<<part, vars, rvars, bvars, evars, tvars, cvars, svars, avars>> => Inv'
  <2> SUFFICES ASSUME Inv,
                      [PanelNext]_<<part, vars, rvars, bvars, evars, tvars, cvars, svars, avars>>,
                      part' = "commands"
               PROVE  CommandsInv'
    OBVIOUS
  <2>1. part = "commands" /\ [Slash!Next]_(Slash!vars)
    BY DEF PanelNext, cvars, Slash!vars
  <2> QED  BY <2>1, StepCommands DEF CommandsHypothesis
<1>3. Inv => CommandsSound
  BY JustifiedAt DEF CommandsInv, CommandsSound, CommandsHypothesis
<1> QED  BY <1>1, <1>2, <1>3, PTL DEF PanelSpec

-----------------------------------------------------------------------------
(* The bot: one session                                                    *)

\* Saves take turns, and applies; no guild is edited or applied while a bot connects,
\* and none begins to with an apply under way.  A save may meet older bots that
\* still connect or close.
BotHypothesis == BotRaces \cap {"saves", "connect", "applies"} = {}

BotSave == [pc : {"idle", "stop", "start", "hold"}, bot : Bot!Sessions \cup {0}]
BotSession == [pc : Bot!Connecting \cup Bot!Ended \cup {"live", "closing"},
               cancelled : BOOLEAN, list : SUBSET Guilds]
GuildApply == [pc : {"wait", "register", "clear"}, removed : SUBSET Guilds,
               list : SUBSET Guilds]

BotTypes ==
    /\ bSave \in [Operators -> BotSave]
    /\ bHeld \in Bot!Sessions \cup {0} /\ bPosted \in Bot!Sessions \cup {0}
    /\ bBot \in [Bot!Sessions -> BotSession]
    /\ bGuilds \in SUBSET Guilds
    /\ bStarted \in BOOLEAN
    /\ bApplies \in Seq(GuildApply)

Active(i) == bBot[i].pc \notin Bot!Ended
Posts(i) == bBot[i].pc \in {"live", "closing"}

\* One save at a time; a session nobody has told to close is the one the next save
\* would close, or will be once its save is through; a session that posts is not
\* closed; and one that is connected posts unless it was displaced.
LifeInv ==
    /\ \A o, p \in Operators : bSave[o].pc # "idle" /\ bSave[p].pc # "idle" => o = p
    /\ \A o \in Operators : bSave[o].pc \in {"start", "hold"} => bHeld = 0
    /\ \A i \in Bot!Sessions : Active(i) /\ ~bBot[i].cancelled =>
         /\ bStarted
         /\ \/ bHeld = i
            \/ \E o \in Operators : bSave[o].pc = "hold" /\ bSave[o].bot = i
    /\ \A i \in Bot!Sessions : bPosted = i => Posts(i)
    /\ \A i \in Bot!Sessions : bBot[i].pc = "live" => bPosted = i \/ i \in bDisplaced

LEMMA SessionsAre == 0 \notin Bot!Sessions
BY PanelAssumption DEF Bot!Bounded, Bot!Sessions

LEMMA IdleSave == Bot!Idle \in BotSave /\ Bot!Idle.pc = "idle"
BY DEF Bot!Idle, BotSave, Bot!None

LEMMA UnusedSession == Bot!Unused \in BotSession /\ Bot!Unused.pc \in Bot!Ended
BY DEF Bot!Unused, BotSession, Bot!Ended

\* A bot that moves on, stays the bot it was.
LEMMA StepLifeBot ==
    ASSUME BotTypes, LifeInv, NEW i \in Bot!Sessions, Bot!BotStep(i)
    PROVE  BotTypes' /\ LifeInv'
<1>1. UNCHANGED <<bSave, bHeld, bStarted, bGuilds, bApplies>>
  BY DEF Bot!BotStep, Bot!OpenFails, Bot!Open, Bot!ListGuilds, Bot!RegisterAll, Bot!Post,
         Bot!CloseSession, Bot!ClearPosted, Bot!settings
<1>2. PICK d \in BotSession :
        /\ bBot' = [bBot EXCEPT ![i] = d] /\ d.cancelled = bBot[i].cancelled
        /\ Active(i)
        /\ \/ /\ UNCHANGED <<bPosted, bDisplaced>> /\ d.pc # "live"
              /\ Posts(i) => d.pc = "closing"
           \/ Bot!SetSession(i, i) /\ d.pc = "live"
           \/ Bot!SetSession(i, 0) /\ d.pc = "closed"
  <2>1. bBot[i] \in BotSession  BY DEF BotTypes
  <2>2. CASE Bot!OpenFails(i)
    <3> PICK d : d = [bBot[i] EXCEPT !.pc = "failed"]  OBVIOUS
    <3>1. d \in BotSession /\ d.pc = "failed" /\ d.cancelled = bBot[i].cancelled
      BY <2>1 DEF BotSession, Bot!Ended
    <3> QED  BY <2>2, <3>1 DEF Bot!OpenFails, Bot!Goto, Active, Posts, Bot!Ended
  <2>3. CASE Bot!Open(i)
    <3> PICK d : d = [bBot[i] EXCEPT !.pc = IF bBot[i].cancelled THEN "closed" ELSE "open"]
      OBVIOUS
    <3>1. d \in BotSession /\ d.pc \in {"closed", "open"} /\ d.cancelled = bBot[i].cancelled
      BY <2>1 DEF BotSession, Bot!Ended, Bot!Connecting
    <3> QED  BY <2>3, <3>1 DEF Bot!Open, Bot!Goto, Active, Posts, Bot!Ended
  <2>4. CASE Bot!ListGuilds(i)
    <3> PICK d : d = [bBot[i] EXCEPT !.pc = "registering", !.list = bGuilds]  OBVIOUS
    <3>1. d \in BotSession /\ d.pc = "registering" /\ d.cancelled = bBot[i].cancelled
      BY <2>1 DEF BotSession, Bot!Connecting, BotTypes
    <3>2. bBot' = [bBot EXCEPT ![i] = d]
      BY <2>4 DEF Bot!ListGuilds, BotTypes
    <3> QED  BY <2>4, <3>1, <3>2 DEF Bot!ListGuilds, Active, Posts, Bot!Ended
  <2>5. CASE Bot!RegisterAll(i)
    <3> PICK d : d = [bBot[i] EXCEPT !.pc = "posting", !.list = {}]  OBVIOUS
    <3>1. d \in BotSession /\ d.pc = "posting" /\ d.cancelled = bBot[i].cancelled
      BY <2>1 DEF BotSession, Bot!Connecting
    <3>2. bBot' = [bBot EXCEPT ![i] = d]
      BY <2>5 DEF Bot!RegisterAll, BotTypes
    <3> QED  BY <2>5, <3>1, <3>2 DEF Bot!RegisterAll, Active, Posts, Bot!Ended
  <2>6. CASE Bot!Post(i)
    <3> PICK d : d = [bBot[i] EXCEPT !.pc = "live"]  OBVIOUS
    <3>1. d \in BotSession /\ d.pc = "live" /\ d.cancelled = bBot[i].cancelled
      BY <2>1 DEF BotSession
    <3> QED  BY <2>6, <3>1 DEF Bot!Post, Bot!Goto, Active, Posts, Bot!Ended
  <2>7. CASE Bot!CloseSession(i)
    <3> PICK d : d = [bBot[i] EXCEPT !.pc = "closing"]  OBVIOUS
    <3>1. d \in BotSession /\ d.pc = "closing" /\ d.cancelled = bBot[i].cancelled
      BY <2>1 DEF BotSession
    <3> QED  BY <2>7, <3>1 DEF Bot!CloseSession, Bot!Goto, Active, Posts, Bot!Ended
  <2>8. CASE Bot!ClearPosted(i)
    <3> PICK d : d = [bBot[i] EXCEPT !.pc = "closed"]  OBVIOUS
    <3>1. d \in BotSession /\ d.pc = "closed" /\ d.cancelled = bBot[i].cancelled
      BY <2>1 DEF BotSession, Bot!Ended
    <3> QED  BY <2>8, <3>1 DEF Bot!ClearPosted, Bot!Goto, Bot!None, Active, Bot!Ended
  <2> QED  BY <2>2, <2>3, <2>4, <2>5, <2>6, <2>7, <2>8 DEF Bot!BotStep
<1>3. \A j \in Bot!Sessions : bBot'[j] = IF j = i THEN d ELSE bBot[j]
  BY <1>2 DEF BotTypes
<1>4. BotTypes'  BY <1>1, <1>2 DEF BotTypes, Bot!SetSession
<1>5. \A j \in Bot!Sessions : Active(j)' => Active(j)
  BY <1>2, <1>3 DEF Active
<1>6. \A j \in Bot!Sessions : bPosted' = j => Posts(j)'
  <2> SUFFICES ASSUME NEW j \in Bot!Sessions, bPosted' = j  PROVE Posts(j)'
    OBVIOUS
  <2>1. CASE UNCHANGED <<bPosted, bDisplaced>> /\ (Posts(i) => d.pc = "closing")
    <3>1. Posts(j)  BY <2>1 DEF LifeInv
    <3> QED  BY <1>3, <2>1, <3>1 DEF Posts
  <2>2. CASE Bot!SetSession(i, i) /\ d.pc = "live"
    BY <1>3, <2>2 DEF Bot!SetSession, Posts
  <2>3. CASE Bot!SetSession(i, 0)  BY <2>3, SessionsAre DEF Bot!SetSession
  <2> QED  BY <1>2, <2>1, <2>2, <2>3
<1>7. \A j \in Bot!Sessions : bBot'[j].pc = "live" => bPosted' = j \/ j \in bDisplaced'
  <2> SUFFICES ASSUME NEW j \in Bot!Sessions, bBot'[j].pc = "live"
               PROVE  bPosted' = j \/ j \in bDisplaced'
    OBVIOUS
  <2>1. CASE UNCHANGED <<bPosted, bDisplaced>> /\ d.pc # "live"
    <3>1. bBot[j].pc = "live"  BY <1>3, <2>1
    <3> QED  BY <2>1, <3>1 DEF LifeInv
  <2>2. CASE Bot!SetSession(i, i)
    <3>1. j # i => bBot[j].pc = "live"  BY <1>3
    <3> QED  BY <2>2, <3>1, SessionsAre DEF LifeInv, Bot!SetSession, Bot!None
  <2>3. CASE Bot!SetSession(i, 0) /\ d.pc = "closed"
    <3>1. j # i /\ bBot[j].pc = "live"  BY <1>3, <2>3
    <3> QED  BY <2>3, <3>1, SessionsAre DEF LifeInv, Bot!SetSession, Bot!None
  <2> QED  BY <1>2, <2>1, <2>2, <2>3
<1> QED  BY <1>1, <1>2, <1>3, <1>4, <1>5, <1>6, <1>7 DEF LifeInv

LEMMA StepLifeSave ==
    ASSUME BotHypothesis, BotTypes, LifeInv, NEW o \in Operators, Bot!SaveStep(o)
    PROVE  BotTypes' /\ LifeInv'
<1> DEFINE q == bSave[o]
<1>1. ASSUME NEW e \in BOOLEAN, Bot!SaveConfig(o, e)  PROVE BotTypes' /\ LifeInv'
  <2>1. /\ UNCHANGED <<bGuilds, bHeld, bBot, bPosted, bApplies, bStarted, bDisplaced>>
        /\ \A p \in Operators : bSave[p].pc = "idle"
        /\ bSave' = [bSave EXCEPT ![o].pc = "stop"]
    BY <1>1 DEF Bot!SaveConfig, Bot!May, Bot!Alone, BotHypothesis
  <2>2. \A p \in Operators : bSave'[p].pc = IF p = o THEN "stop" ELSE "idle"
    BY <2>1 DEF BotTypes, BotSave
  <2>3. BotTypes'  BY <2>1 DEF BotTypes, BotSave
  <2> QED  BY <2>1, <2>2, <2>3 DEF LifeInv, Active, Posts
<1>2. CASE Bot!StopBot(o)
  <2>1. /\ UNCHANGED <<bGuilds, bPosted, bApplies, bStarted, bDisplaced>>
        /\ q.pc = "stop" /\ bHeld' = 0
        /\ bSave' = [bSave EXCEPT ![o].pc = "start"]
        /\ bBot' = IF bHeld = 0 THEN bBot ELSE [bBot EXCEPT ![bHeld].cancelled = TRUE]
    BY <1>2 DEF Bot!StopBot, Bot!None
  <2>2. \A p \in Operators : bSave'[p].pc = IF p = o THEN "start" ELSE "idle"
    <3>1. \A p \in Operators : p # o => bSave[p].pc = "idle"  BY <2>1 DEF LifeInv
    <3> QED  BY <2>1, <3>1 DEF BotTypes, BotSave
  <2>3. /\ \A i \in Bot!Sessions : bBot'[i].pc = bBot[i].pc
        /\ \A i \in Bot!Sessions : Active(i) => bBot'[i].cancelled
    <3>1. \A i \in Bot!Sessions : Active(i) /\ ~bBot[i].cancelled => bHeld = i
      BY <2>1 DEF LifeInv
    <3> QED  BY <2>1, <3>1, SessionsAre DEF BotTypes, BotSession
  <2>4. BotTypes'  BY <2>1 DEF BotTypes, BotSave, BotSession
  <2> QED  BY <2>1, <2>2, <2>3, <2>4 DEF LifeInv, Active, Posts
<1>3. CASE Bot!StartBot(o)
  <2>1. /\ UNCHANGED <<bGuilds, bHeld, bPosted, bApplies, bDisplaced>>
        /\ q.pc = "start" /\ bHeld = 0
    BY <1>3 DEF Bot!StartBot, LifeInv
  <2>2. \A p \in Operators : p # o => bSave[p].pc = "idle"  BY <2>1 DEF LifeInv
  <2>3. \A i \in Bot!Sessions : Active(i) => bBot[i].cancelled
    BY <2>1, <2>2, SessionsAre DEF LifeInv
  <2>4. CASE bSave' = [bSave EXCEPT ![o] = Bot!Idle] /\ bStarted' = FALSE /\ bBot' = bBot
    <3>1. BotTypes'  BY <2>1, <2>4, IdleSave DEF BotTypes
    <3>2. \A p \in Operators : bSave'[p].pc = "idle"  BY <2>2, <2>4, IdleSave DEF BotTypes
    <3> QED  BY <2>1, <2>3, <2>4, <3>1, <3>2 DEF LifeInv, Active, Posts
  <2>5. ASSUME NEW i \in Bot!Sessions, bBot[i].pc = "unused", bBot' = [bBot EXCEPT ![i].pc = "opening"],
               bSave' = [bSave EXCEPT ![o] = [pc |-> "hold", bot |-> i]], bStarted' = TRUE
        PROVE  BotTypes' /\ LifeInv'
    <3>1. BotTypes'  BY <2>1, <2>5 DEF BotTypes, BotSave, BotSession, Bot!Connecting
    <3>2. /\ bSave'[o].pc = "hold" /\ bSave'[o].bot = i
          /\ \A p \in Operators : p # o => bSave'[p].pc = "idle"
      BY <2>2, <2>5 DEF BotTypes
    <3>3. /\ bBot'[i].pc = "opening"
          /\ \A j \in Bot!Sessions : j # i => bBot'[j] = bBot[j]
      BY <2>5 DEF BotTypes, BotSession
    <3>4. \A j \in Bot!Sessions : Active(j)' /\ ~bBot'[j].cancelled => j = i
      BY <2>3, <3>3 DEF Active
    <3>5. \A j \in Bot!Sessions : /\ Posts(j) => Posts(j)'
                                  /\ bBot'[j].pc = "live" => bBot[j].pc = "live"
      BY <2>5, <3>3 DEF Posts
    <3> QED  BY <2>1, <2>5, <3>1, <3>2, <3>4, <3>5 DEF LifeInv
  <2> QED  BY <1>3, <2>4, <2>5 DEF Bot!StartBot
<1>4. CASE Bot!HoldBot(o)
  <2>1. /\ UNCHANGED <<bGuilds, bBot, bPosted, bApplies, bStarted, bDisplaced>>
        /\ q.pc = "hold" /\ bHeld = 0 /\ bHeld' = q.bot
        /\ bSave' = [bSave EXCEPT ![o] = Bot!Idle]
    BY <1>4 DEF Bot!HoldBot, LifeInv
  <2>2. \A p \in Operators : p # o => bSave[p].pc = "idle"  BY <2>1 DEF LifeInv
  <2>3. \A p \in Operators : bSave'[p].pc = "idle"  BY <2>1, <2>2, IdleSave DEF BotTypes
  <2>4. BotTypes'  BY <2>1, IdleSave DEF BotTypes, BotSave
  <2>5. \A i \in Bot!Sessions : Active(i) /\ ~bBot[i].cancelled => bHeld' = i
    BY <2>1, <2>2, SessionsAre DEF LifeInv
  <2> QED  BY <2>1, <2>3, <2>4, <2>5 DEF LifeInv, Active, Posts
<1>5. CASE Bot!Restart(o)
  <2>1. /\ UNCHANGED <<bGuilds, bStarted, bDisplaced>>
        /\ bHeld' = 0 /\ bPosted' = 0 /\ bApplies' = <<>>
        /\ bSave' = [[p \in Operators |-> Bot!Idle] EXCEPT ![o].pc = "stop"]
        /\ bBot' = [i \in Bot!Sessions |-> IF bBot[i].pc = "unused" THEN Bot!Unused
                                           ELSE [Bot!Unused EXCEPT !.pc = "closed"]]
    BY <1>5 DEF Bot!Restart, Bot!None
  <2>2. \A i \in Bot!Sessions : bBot'[i] \in BotSession /\ bBot'[i].pc \in Bot!Ended
    BY <2>1, UnusedSession DEF BotSession, Bot!Ended
  <2>3. \A p \in Operators : bSave'[p] \in BotSave /\ bSave'[p].pc = IF p = o THEN "stop" ELSE "idle"
    BY <2>1, IdleSave DEF BotSave
  <2>4. BotTypes'  BY <2>1, <2>2, <2>3 DEF BotTypes
  <2>5. \A i \in Bot!Sessions : ~Active(i)' /\ bBot'[i].pc # "live"
    BY <2>2 DEF Active, Bot!Ended
  <2> QED  BY <2>1, <2>3, <2>4, <2>5, SessionsAre DEF LifeInv
<1> QED  BY <1>1, <1>2, <1>3, <1>4, <1>5 DEF Bot!SaveStep

-----------------------------------------------------------------------------
(* The bot: the guilds with commands                                       *)

Connects(i) == bBot[i].pc \in Bot!Connecting
Unposted == bPosted = 0 /\ \A i \in Bot!Sessions : bBot[i].pc # "posting"
Brings(g) ==
    \/ Unposted
    \/ \E i \in Bot!Sessions : bBot[i].pc = "registering"
    \/ \E k \in DOMAIN bApplies :
         \/ bApplies[k].pc = "wait"
         \/ bApplies[k].pc = "register" /\ g \in bApplies[k].list
Clears(g) == \E k \in DOMAIN bApplies : g \in bApplies[k].removed

\* Only the first apply is under way; what it or a connecting bot has listed are the
\* present guilds but for those a later apply removes; and who is out of line is excused,
\* or about to be brought in line by a bot that connects or an apply.
GuildsInv ==
    /\ \A i \in Bot!Sessions : Connects(i) => bApplies = <<>>
    /\ \A i \in Bot!Sessions : bBot[i].pc = "registering" => bBot[i].list = bGuilds
    /\ \A k \in DOMAIN bApplies :
         /\ bApplies[k].pc # "wait" => k = 1
         /\ bApplies[k].pc # "register" => bApplies[k].list = {}
         /\ \A g \in bApplies[k].list : g \in bGuilds \/ Clears(g)
         /\ \A g \in bApplies[k].removed \cap bGuilds :
              \E j \in DOMAIN bApplies : j > k /\ bApplies[j].pc = "wait"
    /\ \A g \in bGuilds : g \in bRegistered \/ g \in bExcused \/ Brings(g)
    /\ \A g \in bRegistered : g \in bGuilds \/ g \in bExcused \/ Clears(g)

LEMMA StepGuildsSave ==
    ASSUME BotHypothesis, BotTypes, LifeInv, GuildsInv, NEW o \in Operators, Bot!SaveStep(o)
    PROVE  GuildsInv'
<1>1. ASSUME UNCHANGED <<bGuilds, bApplies, bRegistered, bExcused, bPosted>>,
             \A i \in Bot!Sessions : bBot'[i].pc = bBot[i].pc /\ bBot'[i].list = bBot[i].list
      PROVE  GuildsInv'
  BY <1>1 DEF GuildsInv, Connects, Unposted, Brings, Clears
<1>2. ASSUME \/ \E e \in BOOLEAN : Bot!SaveConfig(o, e)
             \/ Bot!StopBot(o) \/ Bot!HoldBot(o)
      PROVE  GuildsInv'
  <2>1. UNCHANGED <<bGuilds, bApplies, bRegistered, bExcused, bPosted>>
    BY <1>2 DEF Bot!SaveConfig, Bot!StopBot, Bot!HoldBot
  <2>2. bBot' = bBot \/ bBot' = [bBot EXCEPT ![bHeld].cancelled = TRUE]
    BY <1>2 DEF Bot!SaveConfig, Bot!StopBot, Bot!HoldBot
  <2> QED  BY <1>1, <2>1, <2>2 DEF BotTypes, BotSession
<1>3. CASE Bot!StartBot(o)
  <2>1. /\ UNCHANGED <<bGuilds, bApplies, bRegistered, bExcused, bPosted>>
        /\ bApplies = <<>>
        /\ \/ bBot' = bBot
           \/ \E i \in Bot!Sessions : bBot[i].pc = "unused" /\ bBot' = [bBot EXCEPT ![i].pc = "opening"]
    BY <1>3 DEF Bot!StartBot, Bot!May, BotHypothesis
  <2>2. \A i \in Bot!Sessions :
          \/ bBot'[i] = bBot[i]
          \/ bBot[i].pc = "unused" /\ bBot'[i].pc = "opening"
    BY <2>1 DEF BotTypes, BotSession
  <2>3. \A i \in Bot!Sessions : /\ bBot'[i].pc = "posting" <=> bBot[i].pc = "posting"
                                /\ bBot'[i].pc = "registering" <=> bBot[i].pc = "registering"
                                /\ bBot'[i].pc = "registering" => bBot'[i] = bBot[i]
    BY <2>2
  <2> QED  BY <2>1, <2>3 DEF GuildsInv, Brings, Unposted, Clears
<1>4. CASE Bot!Restart(o)
  <2>1. /\ UNCHANGED <<bGuilds, bRegistered>> /\ bApplies' = <<>> /\ bPosted' = 0
        /\ bExcused' = bExcused \cup UNION {bApplies[k].removed : k \in DOMAIN bApplies}
        /\ bBot' = [i \in Bot!Sessions |-> IF bBot[i].pc = "unused" THEN Bot!Unused
                                           ELSE [Bot!Unused EXCEPT !.pc = "closed"]]
    BY <1>4 DEF Bot!Restart, Bot!None
  <2>2. \A i \in Bot!Sessions : bBot'[i].pc \in Bot!Ended
    BY <2>1, UnusedSession DEF BotSession, Bot!Ended
  <2>3. \A i \in Bot!Sessions : ~Connects(i)' /\ bBot'[i].pc \notin {"posting", "registering"}
    BY <2>2 DEF Connects, Bot!Connecting, Bot!Ended
  <2>4. \A g \in bRegistered : g \in bGuilds \/ g \in bExcused'
    BY <2>1 DEF GuildsInv, Clears
  <2>5. bApplies' = <<>> /\ DOMAIN bApplies' = {}  BY <2>1
  <2> QED  BY <2>1, <2>3, <2>4, <2>5 DEF GuildsInv, Brings, Unposted
<1> QED  BY <1>2, <1>3, <1>4 DEF Bot!SaveStep

LEMMA StepGuildsBot ==
    ASSUME BotTypes, LifeInv, GuildsInv, NEW i \in Bot!Sessions, Bot!BotStep(i)
    PROVE  GuildsInv'
<1>1. UNCHANGED <<bGuilds, bApplies>>
  BY DEF Bot!BotStep, Bot!OpenFails, Bot!Open, Bot!ListGuilds, Bot!RegisterAll, Bot!Post,
         Bot!CloseSession, Bot!ClearPosted
<1>2. ASSUME \/ Bot!OpenFails(i) \/ Bot!Open(i) \/ Bot!CloseSession(i) \/ Bot!ClearPosted(i)
             \/ Bot!Post(i)
      PROVE  GuildsInv'
  <2>1. UNCHANGED <<bRegistered, bExcused>>
    BY <1>2 DEF Bot!OpenFails, Bot!Open, Bot!Post, Bot!CloseSession, Bot!ClearPosted
  <2>2. PICK there :
          /\ bBot' = [bBot EXCEPT ![i].pc = there]
          /\ there \notin {"registering", "posting"} /\ (there = "open" => Connects(i))
          /\ there \in Bot!Connecting => there = "open"
          /\ bBot[i].pc # "registering"
          /\ bPosted' \in {bPosted, 0} \/ bBot[i].pc = "posting"
    BY <1>2 DEF Bot!OpenFails, Bot!Open, Bot!Post, Bot!CloseSession, Bot!ClearPosted, Bot!Goto,
                Bot!SetSession, Bot!None, Connects, Bot!Connecting
  <2>3. bBot'[i].pc = there /\ \A j \in Bot!Sessions : j # i => bBot'[j] = bBot[j]
    BY <2>2 DEF BotTypes, BotSession
  <2>4. \A j \in Bot!Sessions : /\ Connects(j)' => Connects(j)
                                /\ bBot'[j].pc = "registering" => bBot'[j] = bBot[j]
                                /\ bBot[j].pc = "registering" => bBot'[j] = bBot[j]
    BY <2>2, <2>3 DEF Connects
  <2>5. Unposted => Unposted'  BY <2>2, <2>3 DEF Unposted
  <2> QED  BY <1>1, <2>1, <2>4, <2>5 DEF GuildsInv, Brings, Clears
<1>3. CASE Bot!ListGuilds(i)
  <2>1. UNCHANGED <<bRegistered, bExcused>> /\ Connects(i)
    BY <1>3 DEF Bot!ListGuilds, Connects, Bot!Connecting
  <2>2. /\ bBot'[i].pc = "registering" /\ bBot'[i].list = bGuilds
        /\ \A j \in Bot!Sessions : j # i => bBot'[j] = bBot[j]
    BY <1>3 DEF Bot!ListGuilds, BotTypes, BotSession
  <2>3. \A j \in Bot!Sessions : Connects(j)' => Connects(j)
    BY <2>1, <2>2 DEF Connects
  <2>4. \A g \in bGuilds : Brings(g)'  BY <2>2 DEF Brings
  <2> QED  BY <1>1, <2>1, <2>2, <2>3, <2>4 DEF GuildsInv, Clears
<1>4. CASE Bot!RegisterAll(i)
  <2> DEFINE listed == bBot[i].list
  <2>1. PICK missed \in Bot!Missed(listed) :
          /\ bRegistered' = bRegistered \cup (listed \ missed)
          /\ bExcused' = (bExcused \ listed) \cup missed
    BY <1>4 DEF Bot!RegisterAll, Bot!Tried
  <2>2. bBot[i].pc = "registering" /\ listed = bGuilds /\ Connects(i)
    BY <1>4 DEF Bot!RegisterAll, GuildsInv, Connects, Bot!Connecting
  <2>3. /\ bBot'[i].pc = "posting"
        /\ \A j \in Bot!Sessions : j # i => bBot'[j] = bBot[j]
    BY <1>4 DEF Bot!RegisterAll, BotTypes, BotSession
  <2>4. \A j \in Bot!Sessions : /\ Connects(j)' => Connects(j)
                                /\ bBot'[j].pc = "registering" => bBot'[j] = bBot[j]
    BY <2>2, <2>3 DEF Connects
  <2>5. \A g \in bGuilds : g \in bRegistered' \/ g \in bExcused'
    BY <2>1, <2>2
  <2>6. \A g \in bRegistered' : g \in bGuilds \/ g \in bExcused' \/ Clears(g)
    BY <2>1, <2>2 DEF GuildsInv
  <2> QED  BY <1>1, <2>4, <2>5, <2>6 DEF GuildsInv, Clears
<1> QED  BY <1>2, <1>3, <1>4 DEF Bot!BotStep

\* An edit of the guilds or of a link comes with an apply.
LEMMA Appended ==
    ASSUME BotHypothesis, BotTypes, GuildsInv, Bot!Editable, NEW gone \in SUBSET Guilds,
           Bot!Apply(gone), UNCHANGED <<bBot, bRegistered, bExcused>>,
           bGuilds' \cap gone = {},
           bGuilds \ bGuilds' \subseteq gone, bGuilds' \in SUBSET Guilds
    PROVE  bApplies' \in Seq(GuildApply) /\ GuildsInv'
<1> DEFINE n == Len(bApplies)
           new == [pc |-> "wait", removed |-> gone, list |-> {}]
<1>1. n \in Nat /\ DOMAIN bApplies = 1..n  BY LenProperties DEF BotTypes
<1>2. bApplies' = Append(bApplies, new)  BY DEF Bot!Apply
<1>3. new \in GuildApply  BY DEF GuildApply
<1>4. /\ bApplies' \in Seq(GuildApply) /\ DOMAIN bApplies' = 1..(n + 1)
      /\ bApplies'[n + 1] = new
      /\ \A k \in 1..n : bApplies'[k] = bApplies[k]
  <2>1. bApplies' \in Seq(GuildApply) /\ Len(bApplies') = n + 1
        /\ bApplies'[n + 1] = new
        /\ \A k \in 1..n : bApplies'[k] = bApplies[k]
    BY <1>2, <1>3, AppendProperties DEF BotTypes
  <2> QED  BY <2>1, LenProperties
<1> HIDE DEF n
<1>5. \A i \in Bot!Sessions : ~Connects(i)
  BY DEF Bot!Editable, Bot!May, BotHypothesis, Connects
<1>6. \A i \in Bot!Sessions : ~Connects(i)' /\ bBot'[i].pc # "registering"
  BY <1>5 DEF Connects, Bot!Connecting
<1>7. \A g : Clears(g) => Clears(g)'  BY <1>1, <1>4 DEF Clears
<1>8. \A g \in gone : Clears(g)'  BY <1>1, <1>4 DEF Clears
<1>9. \A g : Brings(g)'
  <2>1. n + 1 \in DOMAIN bApplies' /\ bApplies'[n + 1].pc = "wait"  BY <1>1, <1>4
  <2> QED  BY <2>1 DEF Brings
<1>10. ASSUME NEW k \in DOMAIN bApplies'
       PROVE  /\ bApplies'[k].pc # "wait" => k = 1
              /\ bApplies'[k].pc # "register" => bApplies'[k].list = {}
              /\ \A g \in bApplies'[k].list : g \in bGuilds' \/ Clears(g)'
              /\ \A g \in bApplies'[k].removed \cap bGuilds' :
                   \E j \in DOMAIN bApplies' : j > k /\ bApplies'[j].pc = "wait"
  <2>1. CASE k = n + 1  BY <1>4, <2>1
  <2>2. CASE k # n + 1
    <3>1. k \in 1..n /\ bApplies'[k] = bApplies[k]  BY <1>1, <1>4, <2>2
    <3>2. n + 1 \in DOMAIN bApplies' /\ bApplies'[n + 1].pc = "wait" /\ n + 1 > k
      BY <1>1, <1>4, <3>1
    <3>3. \A g \in bApplies[k].list : g \in bGuilds' \/ Clears(g)'
      BY <1>1, <1>7, <1>8, <3>1 DEF GuildsInv
    <3> QED  BY <1>1, <3>1, <3>2, <3>3 DEF GuildsInv
  <2> QED  BY <2>1, <2>2
<1>11. \A g \in bRegistered' : g \in bGuilds' \/ g \in bExcused' \/ Clears(g)'
  BY <1>7, <1>8 DEF GuildsInv
<1> QED  BY <1>4, <1>6, <1>9, <1>10, <1>11 DEF GuildsInv

\* The first apply is through.
LEMMA Dropped ==
    ASSUME BotTypes, GuildsInv, 1 \in DOMAIN bApplies, UNCHANGED bGuilds,
           bApplies' = Bot!Without(bApplies, 1)
    PROVE  /\ bApplies' \in Seq(GuildApply)
           /\ \A j \in DOMAIN bApplies :
                j > 1 => \E k \in DOMAIN bApplies' : bApplies'[k] = bApplies[j]
           /\ \A k \in DOMAIN bApplies' :
                /\ bApplies'[k].pc = "wait" /\ bApplies'[k].list = {}
                /\ \A g \in bApplies'[k].removed \cap bGuilds' :
                     \E j \in DOMAIN bApplies' : j > k /\ bApplies'[j].pc = "wait"
           /\ \A g : Clears(g) => g \in bApplies[1].removed \/ Clears(g)'
<1> DEFINE n == Len(bApplies)
<1>1. n \in Nat /\ DOMAIN bApplies = 1..n /\ 1 \in 1..n
  BY LenProperties DEF BotTypes
<1>2. bApplies' = Registry!Without(bApplies, 1)
  BY DEF Bot!Without, Registry!Without
<1>3. /\ bApplies' \in Seq(GuildApply) /\ DOMAIN bApplies' = 1..(n - 1)
      /\ \A k \in 1..(n - 1) : bApplies'[k] = bApplies[IF k < 1 THEN k ELSE k + 1]
  BY <1>1, <1>2, RemovedAt DEF BotTypes
<1> HIDE DEF n
<1>4. \A k \in 1..(n - 1) : bApplies'[k] = bApplies[k + 1]
  BY <1>3
<1>5. ASSUME NEW j \in DOMAIN bApplies, j > 1
      PROVE  j - 1 \in DOMAIN bApplies' /\ bApplies'[j - 1] = bApplies[j]
  <2>1. j - 1 \in 1..(n - 1) /\ (j - 1) + 1 = j  BY <1>1, <1>5
  <2> QED  BY <1>3, <1>4, <2>1
<1>6. ASSUME NEW k \in DOMAIN bApplies'
      PROVE  /\ bApplies'[k].pc = "wait" /\ bApplies'[k].list = {}
             /\ \A g \in bApplies'[k].removed \cap bGuilds' :
                  \E j \in DOMAIN bApplies' : j > k /\ bApplies'[j].pc = "wait"
  <2>1. k + 1 \in DOMAIN bApplies /\ k + 1 # 1 /\ bApplies'[k] = bApplies[k + 1] /\ k \in Int
    BY <1>1, <1>3, <1>4
  <2>2. bApplies[k + 1].pc = "wait" /\ bApplies[k + 1].list = {}
    BY <2>1 DEF GuildsInv
  <2>3. ASSUME NEW g \in bApplies[k + 1].removed \cap bGuilds
        PROVE  \E j \in DOMAIN bApplies' : j > k /\ bApplies'[j].pc = "wait"
    <3>1. PICK j \in DOMAIN bApplies : j > k + 1 /\ bApplies[j].pc = "wait"
      BY <2>1 DEF GuildsInv
    <3>2. j > 1 /\ j - 1 > k  BY <1>1, <1>3, <3>1
    <3> QED  BY <1>5, <3>1, <3>2
  <2> QED  BY <2>1, <2>2, <2>3
<1>7. ASSUME NEW g, Clears(g), g \notin bApplies[1].removed  PROVE Clears(g)'
  <2>1. PICK j \in DOMAIN bApplies : g \in bApplies[j].removed  BY <1>7 DEF Clears
  <2>2. j > 1  BY <1>1, <1>7, <2>1
  <2> QED  BY <1>5, <2>1, <2>2 DEF Clears
<1> QED  BY <1>3, <1>5, <1>6, <1>7

LEMMA StepSkipApply ==
    ASSUME BotHypothesis, BotTypes, LifeInv, GuildsInv, NEW k \in DOMAIN bApplies,
           Bot!SkipApply(k)
    PROVE  bApplies' \in Seq(GuildApply) /\ GuildsInv'
<1>1. /\ UNCHANGED <<bGuilds, bBot, bRegistered, bPosted>> /\ bPosted = 0
      /\ k = 1 /\ bApplies' = Bot!Without(bApplies, 1)
      /\ bExcused' = bExcused \cup (bApplies[1].removed \cap bRegistered)
  BY DEF Bot!SkipApply, Bot!Waiting, Bot!May, BotHypothesis, Bot!None
<1>2. bApplies # <<>>  BY EmptySeq
<1>3. \A i \in Bot!Sessions : ~Connects(i)  BY <1>2 DEF GuildsInv
<1>4. \A i \in Bot!Sessions : ~Connects(i)' /\ bBot'[i].pc \notin {"posting", "registering"}
  BY <1>1, <1>3 DEF Connects, Bot!Connecting
<1>5. bPosted' = 0  BY <1>1
<1>6. \A g \in bRegistered' : g \in bGuilds' \/ g \in bExcused' \/ Clears(g)'
  BY <1>1, Dropped DEF GuildsInv
<1>7. \A g : Brings(g)'  BY <1>4, <1>5 DEF Brings, Unposted
<1> QED  BY <1>1, <1>4, <1>6, <1>7, Dropped DEF GuildsInv

LEMMA StepBeginApply ==
    ASSUME BotHypothesis, BotTypes, GuildsInv, NEW k \in DOMAIN bApplies, Bot!BeginApply(k)
    PROVE  bApplies' \in Seq(GuildApply) /\ GuildsInv'
<1>1. /\ UNCHANGED <<bGuilds, bBot, bRegistered, bExcused>>
      /\ k = 1 /\ bApplies[1].pc = "wait"
      /\ bApplies' = [bApplies EXCEPT ![1].pc = "register", ![1].list = bGuilds]
  BY DEF Bot!BeginApply, Bot!Waiting, Bot!May, BotHypothesis
<1>2. bApplies' \in Seq(GuildApply) /\ DOMAIN bApplies' = DOMAIN bApplies
      /\ bApplies'[1].pc = "register" /\ bApplies'[1].list = bGuilds
      /\ \A j \in DOMAIN bApplies : /\ j # 1 => bApplies'[j] = bApplies[j]
                                    /\ bApplies'[j].removed = bApplies[j].removed
  <2> PICK a : a = [bApplies[1] EXCEPT !.pc = "register", !.list = bGuilds]  OBVIOUS
  <2>1. Len(bApplies) \in Nat /\ DOMAIN bApplies = 1..Len(bApplies) /\ 1 \in 1..Len(bApplies)
    BY <1>1, LenProperties DEF BotTypes
  <2>2. bApplies[1] \in GuildApply  BY <2>1, ElementOfSeq DEF BotTypes
  <2>3. a \in GuildApply /\ a.pc = "register" /\ a.list = bGuilds
        /\ a.removed = bApplies[1].removed
    BY <2>2 DEF GuildApply, BotTypes
  <2>4. bApplies' = [bApplies EXCEPT ![1] = a]  BY <1>1, <2>1
  <2>5. /\ bApplies' \in Seq(GuildApply) /\ Len(bApplies') = Len(bApplies)
        /\ \A j \in 1..Len(bApplies) : bApplies'[j] = IF j = 1 THEN a ELSE bApplies[j]
    BY <2>1, <2>3, <2>4, ExceptSeq DEF BotTypes
  <2>6. DOMAIN bApplies' = DOMAIN bApplies  BY <2>1, <2>5, LenProperties
  <2> QED  BY <2>1, <2>3, <2>5, <2>6
<1>3. bApplies # <<>>  BY EmptySeq
<1>4. \A i \in Bot!Sessions : ~Connects(i) /\ bBot[i].pc # "registering"
  BY <1>3 DEF GuildsInv, Connects, Bot!Connecting
<1>5. \A g : Clears(g) <=> Clears(g)'  BY <1>2 DEF Clears
<1>6. \A g \in bGuilds : Brings(g)'  BY <1>1, <1>2 DEF Brings
<1>7. ASSUME NEW j \in DOMAIN bApplies, NEW g \in bApplies[j].removed \cap bGuilds
      PROVE  \E l \in DOMAIN bApplies : l > j /\ bApplies'[l].pc = "wait"
  <2>1. PICK l \in DOMAIN bApplies : l > j /\ bApplies[l].pc = "wait"  BY DEF GuildsInv
  <2>2. l # 1  BY <2>1, LenProperties DEF BotTypes
  <2> QED  BY <1>2, <2>1, <2>2
<1>8. ASSUME NEW j \in DOMAIN bApplies
      PROVE  /\ bApplies'[j].pc # "wait" => j = 1
             /\ bApplies'[j].pc # "register" => bApplies'[j].list = {}
             /\ \A g \in bApplies'[j].list : g \in bGuilds \/ Clears(g)'
  BY <1>2, <1>5 DEF GuildsInv
<1> QED  BY <1>1, <1>2, <1>4, <1>5, <1>6, <1>7, <1>8 DEF GuildsInv, Connects

LEMMA StepRegisterApply ==
    ASSUME BotTypes, GuildsInv, NEW k \in DOMAIN bApplies, Bot!RegisterApply(k)
    PROVE  bApplies' \in Seq(GuildApply) /\ GuildsInv'
<1> DEFINE listed == bApplies[k].list
<1>1. PICK missed \in Bot!Missed(listed) :
        /\ bRegistered' = bRegistered \cup (listed \ missed)
        /\ bExcused' = (bExcused \ listed) \cup missed
  BY DEF Bot!RegisterApply, Bot!Tried
<1>2. /\ UNCHANGED <<bGuilds, bBot, bPosted>> /\ bApplies[k].pc = "register"
      /\ bApplies' = [bApplies EXCEPT ![k].pc = "clear", ![k].list = {}]
  BY DEF Bot!RegisterApply
<1>3. k = 1  BY <1>2 DEF GuildsInv
<1>4. bApplies' \in Seq(GuildApply) /\ DOMAIN bApplies' = DOMAIN bApplies
      /\ bApplies'[1].pc = "clear" /\ bApplies'[1].list = {}
      /\ \A j \in DOMAIN bApplies : /\ j # 1 => bApplies'[j] = bApplies[j]
                                    /\ bApplies'[j].removed = bApplies[j].removed
  <2> PICK a : a = [bApplies[1] EXCEPT !.pc = "clear", !.list = {}]  OBVIOUS
  <2>1. Len(bApplies) \in Nat /\ DOMAIN bApplies = 1..Len(bApplies) /\ 1 \in 1..Len(bApplies)
    BY <1>3, LenProperties DEF BotTypes
  <2>2. bApplies[1] \in GuildApply  BY <2>1, ElementOfSeq DEF BotTypes
  <2>3. a \in GuildApply /\ a.pc = "clear" /\ a.list = {} /\ a.removed = bApplies[1].removed
    BY <2>2 DEF GuildApply
  <2>4. bApplies' = [bApplies EXCEPT ![1] = a]  BY <1>2, <1>3, <2>1
  <2>5. /\ bApplies' \in Seq(GuildApply) /\ Len(bApplies') = Len(bApplies)
        /\ \A j \in 1..Len(bApplies) : bApplies'[j] = IF j = 1 THEN a ELSE bApplies[j]
    BY <2>1, <2>3, <2>4, ExceptSeq DEF BotTypes
  <2>6. DOMAIN bApplies' = DOMAIN bApplies  BY <2>1, <2>5, LenProperties
  <2> QED  BY <2>1, <2>3, <2>5, <2>6
<1>5. bApplies # <<>>  BY EmptySeq
<1>6. \A i \in Bot!Sessions : ~Connects(i) /\ bBot[i].pc # "registering"
  BY <1>5 DEF GuildsInv, Connects, Bot!Connecting
<1>7. \A g : Clears(g) <=> Clears(g)'  BY <1>4 DEF Clears
<1>8. ASSUME NEW j \in DOMAIN bApplies, NEW g \in bApplies[j].removed \cap bGuilds
      PROVE  \E l \in DOMAIN bApplies : l > j /\ bApplies'[l].pc = "wait"
  <2>1. PICK l \in DOMAIN bApplies : l > j /\ bApplies[l].pc = "wait"  BY DEF GuildsInv
  <2> QED  BY <1>2, <1>3, <1>4, <2>1
<1>9. ASSUME NEW j \in DOMAIN bApplies
      PROVE  /\ bApplies'[j].pc # "wait" => j = 1
             /\ bApplies'[j].list = {} \/ bApplies'[j].pc = "register"
             /\ \A g \in bApplies'[j].list : g \in bGuilds \/ Clears(g)'
  BY <1>4, <1>7 DEF GuildsInv
<1>10. ASSUME NEW g \in bGuilds, g \notin bRegistered'  PROVE g \in bExcused' \/ Brings(g)'
  <2>1. CASE g \in listed  BY <1>1, <1>10, <2>1
  <2>2. CASE g \notin listed
    <3>1. g \in bExcused \/ Brings(g)  BY <1>1, <1>10 DEF GuildsInv
    <3>2. Brings(g) => Brings(g)'
      BY <1>2, <1>3, <1>4, <1>6, <2>2 DEF Brings, Unposted
    <3> QED  BY <1>1, <2>2, <3>1, <3>2
  <2> QED  BY <2>1, <2>2
<1>11. ASSUME NEW g \in bRegistered', g \notin bGuilds  PROVE g \in bExcused' \/ Clears(g)'
  <2>1. CASE g \in listed  BY <1>7, <1>11, <2>1 DEF GuildsInv
  <2>2. CASE g \notin listed
    <3>1. g \in bRegistered  BY <1>1, <2>2
    <3> QED  BY <1>1, <1>7, <1>11, <2>2, <3>1 DEF GuildsInv
  <2> QED  BY <2>1, <2>2
<1> QED  BY <1>2, <1>4, <1>6, <1>8, <1>9, <1>10, <1>11 DEF GuildsInv, Connects

LEMMA StepClearRemoved ==
    ASSUME BotTypes, GuildsInv, NEW k \in DOMAIN bApplies, Bot!ClearRemoved(k)
    PROVE  bApplies' \in Seq(GuildApply) /\ GuildsInv'
<1> DEFINE gone == bApplies[k].removed
<1>1. PICK missed \in Bot!Missed(gone) :
        /\ bRegistered' = bRegistered \ (gone \ missed)
        /\ bExcused' = (bExcused \ gone) \cup missed
  BY DEF Bot!ClearRemoved, Bot!Tried
<1>2. /\ UNCHANGED <<bGuilds, bBot, bPosted>> /\ bApplies[k].pc = "clear"
      /\ bApplies' = Bot!Without(bApplies, k)
  BY DEF Bot!ClearRemoved
<1>3. k = 1  BY <1>2 DEF GuildsInv
<1>4. bApplies # <<>>  BY EmptySeq
<1>5. \A i \in Bot!Sessions : ~Connects(i) /\ bBot[i].pc # "registering"
  BY <1>4 DEF GuildsInv, Connects, Bot!Connecting
<1>6. /\ bApplies' \in Seq(GuildApply)
      /\ \A j \in DOMAIN bApplies :
           j > 1 => \E l \in DOMAIN bApplies' : bApplies'[l] = bApplies[j]
      /\ \A j \in DOMAIN bApplies' :
           /\ bApplies'[j].pc = "wait" /\ bApplies'[j].list = {}
           /\ \A g \in bApplies'[j].removed \cap bGuilds' :
                \E l \in DOMAIN bApplies' : l > j /\ bApplies'[l].pc = "wait"
      /\ \A g : Clears(g) => g \in bApplies[1].removed \/ Clears(g)'
  BY <1>2, <1>3, Dropped
<1>7. ASSUME NEW j \in DOMAIN bApplies, bApplies[j].pc = "wait"
      PROVE  \A g : Brings(g)'
  <2>1. j > 1
    BY <1>2, <1>3, <1>7, LenProperties DEF BotTypes
  <2> QED  BY <1>6, <1>7, <2>1 DEF Brings
<1>8. ASSUME NEW g \in bGuilds, g \notin bRegistered'  PROVE g \in bExcused' \/ Brings(g)'
  <2>1. CASE g \in gone
    <3>1. \E j \in DOMAIN bApplies : bApplies[j].pc = "wait"  BY <2>1 DEF GuildsInv
    <3> QED  BY <1>7, <3>1
  <2>2. CASE g \notin gone
    <3>1. g \in bExcused \/ Brings(g)  BY <1>1, <1>8, <2>2 DEF GuildsInv
    <3>2. \A j \in DOMAIN bApplies : bApplies[j].pc # "register"
      BY <1>2, <1>3 DEF GuildsInv
    <3>3. Brings(g) => Brings(g)'
      BY <1>2, <1>5, <1>7, <3>2 DEF Brings, Unposted
    <3> QED  BY <1>1, <2>2, <3>1, <3>3
  <2> QED  BY <2>1, <2>2
<1>9. ASSUME NEW g \in bRegistered', g \notin bGuilds  PROVE g \in bExcused' \/ Clears(g)'
  <2>1. g \in bRegistered  BY <1>1
  <2>2. CASE g \in gone  BY <1>1, <2>2
  <2>3. CASE g \notin gone  BY <1>1, <1>3, <1>6, <1>9, <2>1, <2>3 DEF GuildsInv
  <2> QED  BY <2>2, <2>3
<1> QED  BY <1>2, <1>5, <1>6, <1>8, <1>9 DEF GuildsInv, Connects

LEMMA StepGuilds ==
    ASSUME BotHypothesis, BotTypes, LifeInv, GuildsInv, Bot!GuildStep
    PROVE  BotTypes' /\ LifeInv' /\ GuildsInv'
<1>1. UNCHANGED <<bSave, bHeld, bStarted, bBot, bPosted, bDisplaced>>
  BY DEF Bot!GuildStep, Bot!UpsertGuild, Bot!DeleteGuild, Bot!LinkServer, Bot!SkipApply,
         Bot!BeginApply, Bot!RegisterApply, Bot!ClearRemoved, Bot!settings
<1>2. LifeInv'  BY <1>1 DEF LifeInv, Active, Posts
<1>3. ASSUME NEW g \in Guilds, Bot!UpsertGuild(g)
      PROVE  bGuilds' \in SUBSET Guilds /\ bApplies' \in Seq(GuildApply) /\ GuildsInv'
  <2>1. /\ bGuilds' = bGuilds \cup {g} /\ Bot!Apply({}) /\ Bot!Editable
        /\ UNCHANGED <<bRegistered, bExcused>>
    BY <1>3 DEF Bot!UpsertGuild
  <2>2. bGuilds' \in SUBSET Guilds  BY <2>1 DEF BotTypes
  <2>3. {} \in SUBSET Guilds /\ bGuilds' \cap {} = {} /\ bGuilds \ bGuilds' \subseteq {}
    BY <2>1
  <2> QED  BY <1>1, <2>1, <2>2, <2>3, Appended
<1>4. ASSUME NEW g \in Guilds, Bot!DeleteGuild(g)
      PROVE  bGuilds' \in SUBSET Guilds /\ bApplies' \in Seq(GuildApply) /\ GuildsInv'
  <2>1. /\ bGuilds' = bGuilds \ {g} /\ Bot!Apply({g}) /\ Bot!Editable
        /\ UNCHANGED <<bRegistered, bExcused>>
    BY <1>4 DEF Bot!DeleteGuild
  <2>2. bGuilds' \in SUBSET Guilds  BY <2>1 DEF BotTypes
  <2>3. {g} \in SUBSET Guilds /\ bGuilds' \cap {g} = {} /\ bGuilds \ bGuilds' \subseteq {g}
    BY <2>1
  <2> QED  BY <1>1, <2>1, <2>2, <2>3, Appended
<1>5. ASSUME NEW l \in BOOLEAN, Bot!LinkServer(l)
      PROVE  bGuilds' \in SUBSET Guilds /\ bApplies' \in Seq(GuildApply) /\ GuildsInv'
  <2>1. /\ bGuilds' = bGuilds /\ Bot!Apply({}) /\ Bot!Editable
        /\ UNCHANGED <<bRegistered, bExcused>>
    BY <1>5 DEF Bot!LinkServer
  <2>2. bGuilds' \in SUBSET Guilds  BY <2>1 DEF BotTypes
  <2>3. {} \in SUBSET Guilds /\ bGuilds' \cap {} = {} /\ bGuilds \ bGuilds' \subseteq {}
    BY <2>1
  <2> QED  BY <1>1, <2>1, <2>2, <2>3, Appended
<1>6. ASSUME NEW k \in DOMAIN bApplies,
             \/ Bot!SkipApply(k) \/ Bot!BeginApply(k) \/ Bot!RegisterApply(k)
             \/ Bot!ClearRemoved(k)
      PROVE  bGuilds' \in SUBSET Guilds /\ bApplies' \in Seq(GuildApply) /\ GuildsInv'
  <2>1. bGuilds' = bGuilds
    BY <1>6 DEF Bot!SkipApply, Bot!BeginApply, Bot!RegisterApply, Bot!ClearRemoved
  <2> QED  BY <1>6, <2>1, StepSkipApply, StepBeginApply, StepRegisterApply, StepClearRemoved
           DEF BotTypes
<1>7. bGuilds' \in SUBSET Guilds /\ bApplies' \in Seq(GuildApply) /\ GuildsInv'
  BY <1>3, <1>4, <1>5, <1>6 DEF Bot!GuildStep
<1> QED  BY <1>1, <1>2, <1>7 DEF BotTypes

LEMMA StepBot ==
    ASSUME BotHypothesis, BotTypes, LifeInv, GuildsInv, [Bot!Next]_(Bot!vars)
    PROVE  BotTypes' /\ LifeInv' /\ GuildsInv'
<1>1. CASE UNCHANGED Bot!vars
  <2>1. UNCHANGED <<bSave, bHeld, bBot, bPosted, bStarted, bGuilds, bApplies, bRegistered,
                    bExcused, bDisplaced>>
    BY <1>1 DEF Bot!vars
  <2> QED  BY <2>1 DEF BotTypes, LifeInv, GuildsInv, Active, Posts, Connects, Unposted, Brings,
                       Clears
<1>2. ASSUME NEW o \in Operators, Bot!SaveStep(o)
      PROVE  BotTypes' /\ LifeInv' /\ GuildsInv'
  BY <1>2, StepLifeSave, StepGuildsSave
<1>3. ASSUME NEW i \in Bot!Sessions, Bot!BotStep(i)
      PROVE  BotTypes' /\ LifeInv' /\ GuildsInv'
  BY <1>3, StepLifeBot, StepGuildsBot
<1> QED  BY <1>1, <1>2, <1>3, StepGuilds DEF Bot!Next

LEMMA InitBot == Bot!Init => BotTypes /\ LifeInv /\ GuildsInv
<1> SUFFICES ASSUME Bot!Init PROVE BotTypes /\ LifeInv /\ GuildsInv  OBVIOUS
<1>1. /\ \A o \in Operators : bSave[o] \in BotSave /\ bSave[o].pc = "idle"
      /\ \A i \in Bot!Sessions : bBot[i] \in BotSession /\ bBot[i].pc \in Bot!Ended
  BY IdleSave, UnusedSession DEF Bot!Init
<1>2. bApplies = <<>> /\ bApplies \in Seq(GuildApply) /\ DOMAIN bApplies = {}
  BY EmptySeq DEF Bot!Init
<1>3. BotTypes  BY <1>1, <1>2 DEF Bot!Init, Bot!None, BotTypes
<1>4. LifeInv
  BY <1>1, SessionsAre DEF Bot!Init, Bot!None, LifeInv, Active, Posts, Bot!Ended
<1>5. GuildsInv
  BY <1>1, <1>2 DEF Bot!Init, GuildsInv, Bot!Ended
<1> QED  BY <1>3, <1>4, <1>5

LEMMA BotHolds ==
    ASSUME BotTypes, LifeInv, GuildsInv
    PROVE  Bot!OneBotRuns /\ Bot!CommandsMatchGuilds
<1>1. ASSUME Bot!Settled
      PROVE  /\ \A o \in Operators : bSave[o].pc = "idle"
             /\ bApplies = <<>> /\ DOMAIN bApplies = {}
             /\ \A i \in Bot!Sessions : Active(i) => bBot[i].pc = "live" /\ ~bBot[i].cancelled
  BY <1>1 DEF Bot!Settled, Bot!Alone, Active
<1>2. Bot!OneBotRuns
  <2> DEFINE live == {i \in Bot!Sessions : bBot[i].pc = "live"}
  <2> SUFFICES ASSUME Bot!Settled
               PROVE  /\ bPosted # 0 => live = {bPosted}
                      /\ \A i \in live : i = bHeld /\ bStarted /\ (bPosted = i \/ i \in bDisplaced)
    BY DEF Bot!OneBotRuns, Bot!None
  <2>1. ASSUME NEW i \in live
        PROVE  i = bHeld /\ bStarted /\ (bPosted = i \/ i \in bDisplaced)
    <3>1. Active(i) /\ i \in Bot!Sessions  BY DEF Active, Bot!Ended
    <3>2. ~bBot[i].cancelled  BY <1>1, <3>1
    <3> QED  BY <1>1, <3>1, <3>2 DEF LifeInv
  <2>2. ASSUME bPosted # 0  PROVE live = {bPosted}
    <3>1. bPosted \in Bot!Sessions /\ Posts(bPosted)  BY <2>2 DEF BotTypes, LifeInv
    <3>2. bPosted \in live  BY <1>1, <3>1 DEF Posts, Active, Bot!Ended
    <3> QED  BY <2>1, <3>2
  <2> QED  BY <2>1, <2>2
<1>3. Bot!CommandsMatchGuilds
  <2> SUFFICES ASSUME Bot!Settled, bPosted # 0
               PROVE  (bRegistered \ bGuilds) \cup (bGuilds \ bRegistered) \subseteq bExcused
    BY DEF Bot!CommandsMatchGuilds, Bot!None
  <2>1. \A g : ~Clears(g)  BY <1>1 DEF Clears
  <2>2. \A j \in Bot!Sessions : bBot[j].pc # "registering"
    BY <1>1 DEF Active, Bot!Ended
  <2>3. \A g : ~Brings(g)  BY <1>1, <2>2 DEF Brings, Unposted
  <2> QED  BY <2>1, <2>3 DEF GuildsInv
<1> QED  BY <1>2, <1>3

\* However saves, restarts, failing connections and edits of the guilds follow one
\* another, and however long the bots of earlier saves connect and close beside the
\* later ones: when all is quiet no bot runs but that of the last save, it can post
\* unless an earlier one closed after it had connected, and while it can the guilds
\* with commands are the configured ones but for those nobody could bring in line
\* (applyDiscordConfig, discordConnect, discordShutdownWatcher and applyDiscordGuilds
\* of discord.go).
THEOREM BotIsSound == BotHypothesis => (PanelSpec => []BotSound)
<1> SUFFICES ASSUME BotHypothesis PROVE PanelSpec => []BotSound  OBVIOUS
<1> DEFINE Inv == BotTypes /\ LifeInv /\ GuildsInv
<1>1. PanelInit => Inv  BY InitBot DEF PanelInit
<1>2. Inv /\ [PanelNext]_<<part, vars, rvars, bvars, evars, tvars, cvars, svars, avars>> => Inv'
  <2> SUFFICES ASSUME Inv,
                      [PanelNext]_<<part, vars, rvars, bvars, evars, tvars, cvars, svars, avars>>
               PROVE  Inv'
    OBVIOUS
  <2>1. [Bot!Next]_(Bot!vars)  BY DEF PanelNext, bvars, Bot!vars
  <2> QED  BY <2>1, StepBot
<1>3. Inv => BotSound  BY BotHolds DEF BotSound
<1> QED  BY <1>1, <1>2, <1>3, PTL DEF PanelSpec

-----------------------------------------------------------------------------
(* Status embeds: the invariant                                            *)

\* Nothing restarts the loops under a tick or edits a link under a bot that connects, ids
\* of messages are loaded and saved, and no stop comes between a post and its save.
EmbedsHypothesis ==
    /\ StatusRaces \cap {"tick", "connect"} = {}
    /\ StatusFaults \cap {"load", "save", "crash"} = {}

EmbedLink == Embeds!Link \cup {Embeds!NoLink}

EmbedTypes ==
    /\ eRegistered \in SUBSET StatusServers
    /\ eLinks \in [StatusServers -> EmbedLink]
    /\ eSession \in {"off", "starting", "on"} /\ ePending \in BOOLEAN
    /\ eLoops \in Seq(Embeds!Loop)
    /\ eRunning \in [StatusServers -> 0..Len(eLoops)]
    /\ eMessages \in Seq(Embeds!Message)
    /\ eStored \in [StatusServers -> [Guilds -> 0..Len(eMessages)]]
    /\ \A l \in DOMAIN eLoops : eLoops[l].message \in 0..Len(eMessages)
    /\ eFailing \in [StatusServers -> BOOLEAN]
    /\ DOMAIN eTold = StatusServers

\* A loop that is not its server's own has been stopped and is at rest.
Runs(l) == eRunning[eLoops[l].server] = l
RunningInv ==
    /\ \A s \in StatusServers : eRunning[s] # 0 =>
         eLoops[eRunning[s]].server = s /\ s \in eRegistered
    /\ \A l \in DOMAIN eLoops : ~Runs(l) => eLoops[l].cancelled /\ eLoops[l].pc = "wait"

\* The loops are the ones the links ask for, or an edit has yet to be applied.
InLine ==
    /\ \A s \in StatusServers : eRunning[s] # 0 <=> s \in Embeds!Wanted
    /\ \A s \in Embeds!Wanted : eLoops[eRunning[s]].link = eLinks[s]
LinkInv ==
    /\ eSession # "off" => ePending \/ InLine
    /\ eSession = "starting" => ~ePending

\* One embed at most of a server in a guild can still be edited: the one whose id is
\* stored, or about to be.  A loop about to post has none it could edit.
Live(i, s, g) ==
    /\ eMessages[i].server = s /\ eMessages[i].guild = g
    /\ ~eMessages[i].deleted /\ ~eMessages[i].left
Saving(s, g) ==
    \E l \in DOMAIN eLoops : /\ eLoops[l].pc = "save" /\ eLoops[l].server = s
                             /\ eLoops[l].link.guild = g
PostAt(k) ==
    /\ k.pc \in {"edit", "send"} => k.message = eStored[k.server][k.link.guild]
    /\ k.pc = "send" => \A i \in DOMAIN eMessages :
         i = k.message => eMessages[i].channel # k.link.channel \/ eMessages[i].deleted
    /\ k.pc = "save" => \A i \in DOMAIN eMessages :
         Live(i, k.server, k.link.guild) => i = k.message
EmbedInv ==
    /\ \A l \in DOMAIN eLoops : PostAt(eLoops[l])
    /\ \A s \in StatusServers, g \in Guilds : \A i, j \in DOMAIN eMessages :
         Live(i, s, g) /\ Live(j, s, g) => i = j
    /\ \A s \in eRegistered, g \in Guilds : \A i \in DOMAIN eMessages :
         Live(i, s, g) => eStored[s][g] = i \/ Saving(s, g)

\* A loop's last failure is the one its log remembers, told for its channel.
ToldInv ==
    \A s \in StatusServers : eRunning[s] # 0 =>
      LET k == eLoops[eRunning[s]]
      IN  /\ k.failed <=> eFailing[s]
          /\ eFailing[s] => eTold[s] = {k.link.channel}

EmbedsInv == EmbedTypes /\ RunningInv /\ LinkInv /\ EmbedInv /\ ToldInv

LEMMA EmbedsAre ==
    ASSUME EmbedTypes
    PROVE  /\ Len(eLoops) \in Nat /\ DOMAIN eLoops = 1..Len(eLoops)
           /\ \A l \in DOMAIN eLoops : eLoops[l] \in Embeds!Loop
           /\ Len(eMessages) \in Nat /\ DOMAIN eMessages = 1..Len(eMessages)
           /\ \A i \in DOMAIN eMessages : eMessages[i] \in Embeds!Message
BY LenProperties, ElementOfSeq DEF EmbedTypes

LEMMA OneLoop ==
    ASSUME RunningInv, NEW l \in DOMAIN eLoops, NEW m \in DOMAIN eLoops,
           eLoops[l].pc # "wait", eLoops[m].pc # "wait", eLoops[l].server = eLoops[m].server
    PROVE  l = m
BY DEF RunningInv, Runs

-----------------------------------------------------------------------------
(* Status embeds: ticks                                                    *)

\* What a tick does to its loop leaves the loops and links in line.
LEMMA LoopMoves ==
    ASSUME EmbedsInv, NEW l \in DOMAIN eLoops, NEW d \in Embeds!Loop,
           eLoops' = [eLoops EXCEPT ![l] = d],
           d.server = eLoops[l].server, d.link = eLoops[l].link,
           d.cancelled = eLoops[l].cancelled,
           Runs(l), d.message \in 0..Len(eMessages'),
           UNCHANGED <<eRegistered, eLinks, eSession, ePending, eRunning>>,
           eMessages' \in Seq(Embeds!Message), Len(eMessages) <= Len(eMessages'),
           eStored' \in [StatusServers -> [Guilds -> 0..Len(eMessages')]],
           eFailing' \in [StatusServers -> BOOLEAN], DOMAIN eTold' = StatusServers
    PROVE  /\ EmbedTypes' /\ RunningInv' /\ LinkInv'
           /\ DOMAIN eLoops' = DOMAIN eLoops
           /\ \A m \in DOMAIN eLoops : eLoops'[m] = IF m = l THEN d ELSE eLoops[m]
<1>0. EmbedTypes  BY DEF EmbedsInv
<1>1. /\ Len(eLoops) \in Nat /\ DOMAIN eLoops = 1..Len(eLoops)
      /\ Len(eMessages) \in Nat
  BY <1>0, EmbedsAre
<1>2. /\ eLoops' \in Seq(Embeds!Loop) /\ Len(eLoops') = Len(eLoops)
      /\ \A m \in 1..Len(eLoops) : eLoops'[m] = IF m = l THEN d ELSE eLoops[m]
  BY <1>0, <1>1, ExceptSeq DEF EmbedTypes
<1>3. DOMAIN eLoops' = DOMAIN eLoops  BY <1>1, <1>2, LenProperties
<1>4. Len(eMessages') \in Nat  BY LenProperties
<1>5. \A m \in DOMAIN eLoops' : eLoops'[m].message \in 0..Len(eMessages')
  BY <1>0, <1>1, <1>2, <1>3, <1>4 DEF EmbedTypes
<1>6. EmbedTypes'  BY <1>0, <1>2, <1>5 DEF EmbedTypes
<1>7. \A m \in DOMAIN eLoops : eLoops'[m].server = eLoops[m].server
                               /\ eLoops'[m].link = eLoops[m].link
                               /\ eLoops'[m].cancelled = eLoops[m].cancelled
                               /\ (eLoops'[m].pc # eLoops[m].pc => Runs(m))
  BY <1>1, <1>2
<1>8. RunningInv'
  <2>1. \A m \in DOMAIN eLoops : Runs(m)' <=> Runs(m)  BY <1>7 DEF Runs
  <2>2. \A s \in StatusServers : eRunning[s] # 0 => eRunning[s] \in DOMAIN eLoops
    BY <1>0, <1>1 DEF EmbedTypes
  <2> QED  BY <1>3, <1>7, <2>1, <2>2 DEF EmbedsInv, RunningInv
<1>9. LinkInv'
  <2>1. \A s \in StatusServers : eRunning[s] # 0 => eRunning[s] \in DOMAIN eLoops
    BY <1>0, <1>1 DEF EmbedTypes
  <2>2. Embeds!Wanted' = Embeds!Wanted  BY DEF Embeds!Wanted
  <2>3. Embeds!Wanted \subseteq StatusServers  BY <1>0 DEF Embeds!Wanted, EmbedTypes
  <2>4. InLine => InLine'  BY <1>7, <2>1, <2>2, <2>3 DEF InLine
  <2> QED  BY <2>4 DEF EmbedsInv, LinkInv
<1> QED  BY <1>1, <1>2, <1>3, <1>6, <1>8, <1>9

\* The outcome of a tick is logged.
LEMMA Logged ==
    ASSUME EmbedsInv, NEW l \in DOMAIN eLoops, Runs(l), NEW bad \in BOOLEAN,
           Embeds!Log(l, bad),
           UNCHANGED <<eRegistered, eLinks, eSession, ePending, eRunning, eMessages>>,
           eStored' \in [StatusServers -> [Guilds -> 0..Len(eMessages)]]
    PROVE  /\ EmbedTypes' /\ RunningInv' /\ LinkInv' /\ ToldInv'
           /\ DOMAIN eLoops' = DOMAIN eLoops /\ eLoops'[l].pc = "wait"
           /\ \A m \in DOMAIN eLoops : m # l => eLoops'[m] = eLoops[m]
<1> PICK k : k = eLoops[l]  OBVIOUS
<1> PICK d : d = [k EXCEPT !.pc = "wait", !.message = 0, !.failed = bad]  OBVIOUS
<1>0. EmbedTypes  BY DEF EmbedsInv
<1>1. k \in Embeds!Loop /\ Len(eMessages) \in Nat /\ DOMAIN eLoops = 1..Len(eLoops)
  BY <1>0, EmbedsAre
<1>2. /\ d \in Embeds!Loop /\ d.pc = "wait" /\ d.message = 0 /\ d.failed = bad
      /\ d.server = k.server /\ d.link = k.link /\ d.cancelled = k.cancelled
      /\ k.server \in StatusServers
  BY <1>1 DEF Embeds!Loop
<1>3. /\ eLoops' = [eLoops EXCEPT ![l] = d]
      /\ eFailing' = [eFailing EXCEPT ![k.server] = bad]
      /\ eTold' = [eTold EXCEPT ![k.server] =
                     IF bad /\ ~eFailing[k.server] THEN {k.link.channel}
                     ELSE IF ~bad /\ eFailing[k.server] THEN {} ELSE @]
  BY DEF Embeds!Log, Embeds!Set, Embeds!None
<1>4. eFailing' \in [StatusServers -> BOOLEAN] /\ DOMAIN eTold' = StatusServers
  BY <1>0, <1>3 DEF EmbedTypes
<1>5. eMessages' \in Seq(Embeds!Message) /\ Len(eMessages) <= Len(eMessages')
      /\ d.message \in 0..Len(eMessages')
      /\ eStored' \in [StatusServers -> [Guilds -> 0..Len(eMessages')]]
  BY <1>0, <1>1, <1>2 DEF EmbedTypes
<1>6. /\ EmbedTypes' /\ RunningInv' /\ LinkInv'
      /\ DOMAIN eLoops' = DOMAIN eLoops
      /\ \A m \in DOMAIN eLoops : eLoops'[m] = IF m = l THEN d ELSE eLoops[m]
  BY <1>2, <1>3, <1>4, <1>5, LoopMoves
<1>7. ASSUME NEW s \in StatusServers, eRunning'[s] # 0
      PROVE  LET c == eLoops'[eRunning'[s]]
             IN  /\ c.failed <=> eFailing'[s]
                 /\ eFailing'[s] => eTold'[s] = {c.link.channel}
  <2>1. eRunning[s] \in DOMAIN eLoops /\ eLoops[eRunning[s]].server = s
    BY <1>0, <1>1, <1>7 DEF EmbedsInv, EmbedTypes, RunningInv
  <2>2. /\ eLoops[eRunning[s]].failed <=> eFailing[s]
        /\ eFailing[s] => eTold[s] = {eLoops[eRunning[s]].link.channel}
    BY <1>7 DEF EmbedsInv, ToldInv
  <2>3. CASE s = k.server
    <3>1. eRunning[s] = l  BY <2>3 DEF Runs
    <3>2. eLoops'[eRunning'[s]] = d /\ eFailing'[s] = bad
      BY <1>0, <1>3, <1>6, <2>1, <2>3, <3>1 DEF EmbedTypes
    <3>3. eTold'[s] = IF bad /\ ~eFailing[s] THEN {k.link.channel}
                      ELSE IF ~bad /\ eFailing[s] THEN {} ELSE eTold[s]
      BY <1>0, <1>3, <2>3 DEF EmbedTypes
    <3> QED  BY <1>2, <2>2, <3>1, <3>2, <3>3
  <2>4. CASE s # k.server
    <3>1. eRunning[s] # l  BY <2>1, <2>4
    <3>2. eLoops'[eRunning'[s]] = eLoops[eRunning[s]]
          /\ eFailing'[s] = eFailing[s] /\ eTold'[s] = eTold[s]
      BY <1>0, <1>3, <1>6, <2>1, <2>4, <3>1 DEF EmbedTypes
    <3> QED  BY <2>2, <3>2
  <2> QED  BY <2>3, <2>4
<1>8. ToldInv'  BY <1>7 DEF ToldInv
<1> QED  BY <1>2, <1>6, <1>8

\* A tick that neither posts nor ends.
LEMMA LoopGoes ==
    ASSUME EmbedsInv, NEW l \in DOMAIN eLoops, NEW d \in Embeds!Loop, Runs(l),
           eLoops' = [eLoops EXCEPT ![l] = d],
           d.server = eLoops[l].server, d.link = eLoops[l].link,
           d.cancelled = eLoops[l].cancelled, d.failed = eLoops[l].failed,
           d.message \in 0..Len(eMessages), eLoops[l].pc # "save", d.pc # "save", PostAt(d),
           UNCHANGED <<eRegistered, eLinks, eSession, ePending, eRunning, eStored,
                       eMessages, eFailing, eTold>>
    PROVE  EmbedsInv'
<1>0. EmbedTypes  BY DEF EmbedsInv
<1>1. /\ eMessages' \in Seq(Embeds!Message) /\ Len(eMessages) <= Len(eMessages')
      /\ d.message \in 0..Len(eMessages')
      /\ eStored' \in [StatusServers -> [Guilds -> 0..Len(eMessages')]]
      /\ eFailing' \in [StatusServers -> BOOLEAN] /\ DOMAIN eTold' = StatusServers
  BY <1>0, EmbedsAre DEF EmbedTypes
<1>2. /\ EmbedTypes' /\ RunningInv' /\ LinkInv'
      /\ DOMAIN eLoops' = DOMAIN eLoops
      /\ \A m \in DOMAIN eLoops : eLoops'[m] = IF m = l THEN d ELSE eLoops[m]
  BY <1>1, LoopMoves
<1>3. \A i, s, g : Live(i, s, g)' <=> Live(i, s, g)  BY DEF Live
<1>4. \A s, g : Saving(s, g)' <=> Saving(s, g)  BY <1>2 DEF Saving
<1>5. EmbedInv'
  <2>1. ASSUME NEW m \in DOMAIN eLoops  PROVE PostAt(eLoops[m])'
    <3>1. PostAt(eLoops'[m])  BY <1>2 DEF EmbedsInv, EmbedInv
    <3> QED  BY <1>3, <3>1 DEF PostAt
  <2>2. \A m \in DOMAIN eLoops' : PostAt(eLoops[m])'  BY <1>2, <2>1
  <2> QED  BY <1>3, <1>4, <2>2 DEF EmbedsInv, EmbedInv
<1>6. ToldInv'
  <2>1. \A s \in StatusServers : eRunning[s] # 0 => eRunning[s] \in DOMAIN eLoops
    BY <1>0, EmbedsAre DEF EmbedTypes
  <2>2. \A m \in DOMAIN eLoops : eLoops'[m].failed = eLoops[m].failed
                                 /\ eLoops'[m].link = eLoops[m].link
    BY <1>2
  <2> QED  BY <2>1, <2>2 DEF EmbedsInv, ToldInv
<1> QED  BY <1>2, <1>5, <1>6 DEF EmbedsInv

\* A loop that takes part in a tick is its server's own.
LEMMA TicksRun ==
    ASSUME EmbedsInv, NEW l \in DOMAIN eLoops,
           eLoops[l].pc # "wait" \/ ~eLoops[l].cancelled
    PROVE  /\ Runs(l) /\ eLoops[l].server \in StatusServers
           /\ eLoops[l].server \in eRegistered
<1>1. Runs(l)  BY DEF EmbedsInv, RunningInv
<1>2. eLoops[l].server \in StatusServers /\ l # 0
  BY EmbedsAre DEF EmbedsInv, Embeds!Loop
<1> QED  BY <1>1, <1>2 DEF Runs, EmbedsInv, RunningInv

LEMMA LoopIs ==
    ASSUME EmbedTypes, NEW l \in DOMAIN eLoops
    PROVE  LET k == eLoops[l]
           IN  /\ k \in Embeds!Loop /\ k.server \in StatusServers
               /\ k.link.guild \in Guilds /\ k.link.channel \in Channels
               /\ k.message \in 0..Len(eMessages) /\ k.pc \in {"wait", "edit", "send", "save"}
               /\ eStored[k.server][k.link.guild] \in 0..Len(eMessages)
<1> PICK k : k = eLoops[l]  OBVIOUS
<1>1. k \in Embeds!Loop  BY EmbedsAre
<1>2. /\ k.server \in StatusServers /\ k.link.guild \in Guilds /\ k.link.channel \in Channels
      /\ k.pc \in {"wait", "edit", "send", "save"}
  BY <1>1 DEF Embeds!Loop, Embeds!Link
<1> QED  BY <1>1, <1>2 DEF EmbedTypes

LEMMA StepBegin ==
    ASSUME EmbedsHypothesis, EmbedsInv, NEW l \in DOMAIN eLoops, Embeds!Begin(l)
    PROVE  EmbedsInv'
<1> PICK k : k = eLoops[l]  OBVIOUS
<1> DEFINE id == eStored[k.server][k.link.guild]
           mine == id # 0 /\ eMessages[id].channel = k.link.channel
           d == [k EXCEPT !.pc = IF mine THEN "edit" ELSE "send", !.message = id]
<1>0. EmbedTypes  BY DEF EmbedsInv
<1>1. eLoops' = [eLoops EXCEPT ![l] = d] /\ k.pc = "wait" /\ ~k.cancelled
  BY DEF Embeds!Begin, Embeds!Set, Embeds!At, Embeds!Fails, Embeds!May, Embeds!None,
         EmbedsHypothesis
<1>2. k \in Embeds!Loop /\ id \in 0..Len(eMessages)  BY <1>0, LoopIs
<1>3. /\ d \in Embeds!Loop /\ d.server = k.server /\ d.link = k.link
      /\ d.cancelled = k.cancelled /\ d.failed = k.failed /\ d.message = id
      /\ d.pc = IF mine THEN "edit" ELSE "send"
  <2>1. id \in Nat  BY <1>0, <1>2, EmbedsAre
  <2> HIDE DEF id
  <2> QED  BY <1>2, <2>1 DEF Embeds!Loop
<1>4. PostAt(d)
  <2>1. \A i \in DOMAIN eMessages : i # 0  BY <1>0, EmbedsAre
  <2> QED  BY <1>3, <2>1 DEF PostAt
<1>5. Runs(l)  BY <1>1, TicksRun
<1>6. UNCHANGED <<eRegistered, eLinks, eSession, ePending, eRunning, eStored,
                  eMessages, eFailing, eTold>>
  BY DEF Embeds!Begin
<1> HIDE DEF d, id
<1> QED  BY <1>1, <1>2, <1>3, <1>4, <1>5, <1>6, LoopGoes

LEMMA StepEditUnknown ==
    ASSUME EmbedsInv, NEW l \in DOMAIN eLoops, Embeds!EditUnknown(l)
    PROVE  EmbedsInv'
<1> PICK k : k = eLoops[l]  OBVIOUS
<1> DEFINE d == [k EXCEPT !.pc = "send"]
<1>0. EmbedTypes  BY DEF EmbedsInv
<1>1. /\ eLoops' = [eLoops EXCEPT ![l] = d] /\ k.pc = "edit"
      /\ eMessages[k.message].deleted
  BY DEF Embeds!EditUnknown, Embeds!Set, Embeds!At, Embeds!Exists
<1>2. k \in Embeds!Loop /\ k.message \in 0..Len(eMessages)  BY <1>0, LoopIs
<1>3. /\ d \in Embeds!Loop /\ d.server = k.server /\ d.link = k.link
      /\ d.cancelled = k.cancelled /\ d.failed = k.failed /\ d.message = k.message
      /\ d.pc = "send"
  BY <1>2 DEF Embeds!Loop
<1>4. PostAt(k)  BY DEF EmbedsInv, EmbedInv
<1>5. PostAt(d)  BY <1>1, <1>3, <1>4 DEF PostAt
<1>6. Runs(l)  BY <1>1, TicksRun
<1>7. UNCHANGED <<eRegistered, eLinks, eSession, ePending, eRunning, eStored,
                  eMessages, eFailing, eTold>>
  BY DEF Embeds!EditUnknown
<1> HIDE DEF d
<1> QED  BY <1>1, <1>2, <1>3, <1>5, <1>6, <1>7, LoopGoes

\* A tick that ends without anything posted or stored.
LEMMA Ends ==
    ASSUME EmbedsInv, NEW l \in DOMAIN eLoops, eLoops[l].pc \in {"edit", "send"},
           NEW bad \in BOOLEAN, Embeds!Log(l, bad),
           UNCHANGED <<eRegistered, eLinks, eSession, ePending, eRunning, eStored, eMessages>>
    PROVE  EmbedsInv'
<1>0. EmbedTypes  BY DEF EmbedsInv
<1>1. Runs(l)  BY TicksRun
<1>2. eStored' \in [StatusServers -> [Guilds -> 0..Len(eMessages)]]  BY <1>0 DEF EmbedTypes
<1>3. /\ EmbedTypes' /\ RunningInv' /\ LinkInv' /\ ToldInv'
      /\ DOMAIN eLoops' = DOMAIN eLoops /\ eLoops'[l].pc = "wait"
      /\ \A m \in DOMAIN eLoops : m # l => eLoops'[m] = eLoops[m]
  BY <1>1, <1>2, Logged
<1>4. \A i, s, g : Live(i, s, g)' <=> Live(i, s, g)  BY DEF Live
<1>5. \A s, g : Saving(s, g) => Saving(s, g)'  BY <1>3 DEF Saving
<1>6. ASSUME NEW m \in DOMAIN eLoops'  PROVE PostAt(eLoops[m])'
  <2>1. CASE m = l  BY <1>3, <2>1 DEF PostAt
  <2>2. CASE m # l
    <3>1. PostAt(eLoops[m]) /\ eLoops'[m] = eLoops[m]
      BY <1>3, <2>2 DEF EmbedsInv, EmbedInv
    <3> QED  BY <1>4, <3>1 DEF PostAt
  <2> QED  BY <2>1, <2>2
<1>7. EmbedInv'  BY <1>4, <1>5, <1>6 DEF EmbedsInv, EmbedInv
<1> QED  BY <1>3, <1>7 DEF EmbedsInv

LEMMA StepEnds ==
    ASSUME EmbedsInv, NEW l \in DOMAIN eLoops,
           Embeds!EditEmbed(l) \/ Embeds!EditRefused(l) \/ Embeds!SendFails(l)
    PROVE  EmbedsInv'
<1>1. /\ eLoops[l].pc \in {"edit", "send"}
      /\ Embeds!Log(l, TRUE) \/ Embeds!Log(l, FALSE)
      /\ UNCHANGED <<eRegistered, eLinks, eSession, ePending, eRunning, eStored, eMessages>>
  BY DEF Embeds!EditEmbed, Embeds!EditRefused, Embeds!SendFails, Embeds!At
<1> QED  BY <1>1, Ends

\* The row of a server with a loop is there, and nothing else fails a save.
LEMMA StepSaveFails ==
    ASSUME EmbedsHypothesis, EmbedsInv, NEW l \in DOMAIN eLoops
    PROVE  ~Embeds!SaveFails(l)
<1> SUFFICES ASSUME Embeds!SaveFails(l)  PROVE FALSE  OBVIOUS
<1>1. eLoops[l].pc = "save" /\ eLoops[l].server \notin eRegistered
  BY DEF Embeds!SaveFails, Embeds!At, Embeds!Fails, EmbedsHypothesis
<1> QED  BY <1>1, TicksRun

LEMMA StepSaveId ==
    ASSUME EmbedsInv, NEW l \in DOMAIN eLoops, Embeds!SaveId(l)
    PROVE  EmbedsInv'
<1> PICK k : k = eLoops[l]  OBVIOUS
<1> DEFINE t == k.server
           h == k.link.guild
<1>0. EmbedTypes  BY DEF EmbedsInv
<1>1. /\ k.pc = "save" /\ Embeds!Log(l, FALSE)
      /\ eStored' = [eStored EXCEPT ![t][h] = k.message]
      /\ UNCHANGED <<eRegistered, eLinks, eSession, ePending, eRunning, eMessages>>
  BY DEF Embeds!SaveId, Embeds!Save, Embeds!At
<1>2. Runs(l)  BY <1>1, TicksRun
<1>3. /\ t \in StatusServers /\ h \in Guilds /\ k.message \in 0..Len(eMessages)
      /\ eStored \in [StatusServers -> [Guilds -> 0..Len(eMessages)]]
  BY <1>0, LoopIs DEF EmbedTypes
<1>4. /\ eStored' \in [StatusServers -> [Guilds -> 0..Len(eMessages)]]
      /\ eStored'[t][h] = k.message
      /\ \A s \in StatusServers, g \in Guilds :
           s # t \/ g # h => eStored'[s][g] = eStored[s][g]
  <2> HIDE DEF t, h
  <2> QED  BY <1>1, <1>3
<1>5. /\ EmbedTypes' /\ RunningInv' /\ LinkInv' /\ ToldInv'
      /\ DOMAIN eLoops' = DOMAIN eLoops /\ eLoops'[l].pc = "wait"
      /\ \A m \in DOMAIN eLoops : m # l => eLoops'[m] = eLoops[m]
  BY <1>1, <1>2, <1>4, Logged
<1>6. \A i, s, g : Live(i, s, g)' <=> Live(i, s, g)  BY <1>1 DEF Live
<1>7. PostAt(k)  BY DEF EmbedsInv, EmbedInv
<1>8. ASSUME NEW m \in DOMAIN eLoops'  PROVE PostAt(eLoops[m])'
  <2>1. CASE eLoops'[m].pc = "wait"  BY <2>1 DEF PostAt
  <2>2. CASE eLoops'[m].pc # "wait"
    <3>1. m # l /\ eLoops'[m] = eLoops[m]  BY <1>5, <2>2
    <3>2. eLoops[m].server # t  BY <1>1, <1>5, <2>2, <3>1, OneLoop DEF EmbedsInv
    <3>3. eLoops[m].server \in StatusServers /\ eLoops[m].link.guild \in Guilds
      BY <1>0, <1>5, LoopIs
    <3>4. eStored'[eLoops[m].server][eLoops[m].link.guild]
          = eStored[eLoops[m].server][eLoops[m].link.guild]
      BY <1>4, <3>2, <3>3
    <3>5. PostAt(eLoops[m])  BY <1>5 DEF EmbedsInv, EmbedInv
    <3> QED  BY <1>1, <1>6, <3>1, <3>4, <3>5 DEF PostAt
  <2> QED  BY <2>1, <2>2
<1>9. ASSUME NEW s \in eRegistered, NEW g \in Guilds, NEW i \in DOMAIN eMessages,
             Live(i, s, g)
      PROVE  eStored'[s][g] = i \/ Saving(s, g)'
  <2>1. CASE s = t /\ g = h  BY <1>1, <1>4, <1>7, <1>9, <2>1 DEF PostAt
  <2>2. CASE ~(s = t /\ g = h)
    <3>1. s \in StatusServers  BY <1>0 DEF EmbedTypes
    <3>2. eStored'[s][g] = eStored[s][g]  BY <1>4, <2>2, <3>1
    <3>3. Saving(s, g) => Saving(s, g)'  BY <1>5, <2>2 DEF Saving
    <3> QED  BY <1>9, <3>2, <3>3 DEF EmbedsInv, EmbedInv
  <2> QED  BY <2>1, <2>2
<1>10. EmbedInv'  BY <1>1, <1>6, <1>8, <1>9 DEF EmbedsInv, EmbedInv
<1> QED  BY <1>5, <1>10 DEF EmbedsInv

\* What posting an embed makes of the messages.
LEMMA Posted ==
    ASSUME EmbedTypes, NEW l \in DOMAIN eLoops, Embeds!SendEmbed(l)
    PROVE  LET k == eLoops[l]
               n == Len(eMessages)
           IN  /\ eMessages' \in Seq(Embeds!Message) /\ Len(eMessages') = n + 1
               /\ DOMAIN eMessages' = 1..(n + 1)
               /\ \A i \in 1..n :
                    /\ eMessages'[i].server = eMessages[i].server
                    /\ eMessages'[i].guild = eMessages[i].guild
                    /\ eMessages'[i].channel = eMessages[i].channel
                    /\ eMessages'[i].deleted = eMessages[i].deleted
                    /\ eMessages[i].left => eMessages'[i].left
                    /\ i = k.message /\ eMessages[i].channel # k.link.channel =>
                         eMessages'[i].left
               /\ eMessages'[n + 1].server = k.server
               /\ eMessages'[n + 1].guild = k.link.guild
<1> PICK k : k = eLoops[l]  OBVIOUS
<1> DEFINE n == Len(eMessages)
           new == [server |-> k.server, guild |-> k.link.guild, channel |-> k.link.channel,
                   deleted |-> FALSE, left |-> FALSE]
           old(i) == IF i = k.message /\ eMessages[i].channel # k.link.channel
                     THEN [eMessages[i] EXCEPT !.left = TRUE] ELSE eMessages[i]
           left == [i \in DOMAIN eMessages |-> old(i)]
<1>1. /\ n \in Nat /\ DOMAIN eMessages = 1..n
      /\ \A i \in 1..n : eMessages[i] \in Embeds!Message
  BY EmbedsAre
<1>2. /\ k.server \in StatusServers /\ k.link.guild \in Guilds
      /\ k.link.channel \in Channels
  BY LoopIs
<1>3. new \in Embeds!Message  BY <1>2 DEF Embeds!Message
<1>4. ASSUME NEW i \in 1..n
      PROVE  /\ old(i) \in Embeds!Message
             /\ old(i).server = eMessages[i].server /\ old(i).guild = eMessages[i].guild
             /\ old(i).channel = eMessages[i].channel /\ old(i).deleted = eMessages[i].deleted
             /\ eMessages[i].left => old(i).left
             /\ i = k.message /\ eMessages[i].channel # k.link.channel => old(i).left
  <2>1. eMessages[i] \in Embeds!Message  BY <1>1
  <2> QED  BY <2>1 DEF Embeds!Message
<1>5. eMessages' = Append(left, new)
  <2>1. left = [i \in DOMAIN eMessages |->
                  IF i = k.message /\ eMessages[i].channel # k.link.channel
                  THEN [eMessages[i] EXCEPT !.left = TRUE] ELSE eMessages[i]]
    OBVIOUS
  <2> QED  BY <2>1 DEF Embeds!SendEmbed
<1> HIDE DEF n, new, old
<1>6. left \in Seq(Embeds!Message) /\ Len(left) = n
  <2>1. left \in [1..n -> Embeds!Message]  BY <1>1, <1>4
  <2> QED  BY <1>1, <2>1, IsASeq, LenProperties
<1> HIDE DEF left
<1>7. /\ eMessages' \in Seq(Embeds!Message) /\ Len(eMessages') = n + 1
      /\ \A i \in 1..n : eMessages'[i] = left[i]
      /\ eMessages'[n + 1] = new
  BY <1>3, <1>5, <1>6, AppendProperties
<1>8. DOMAIN eMessages' = 1..(n + 1)  BY <1>7, LenProperties
<1>9. \A i \in 1..n : left[i] = old(i)  BY <1>1 DEF left
<1>10. new.server = k.server /\ new.guild = k.link.guild  BY DEF new
<1> QED  BY <1>4, <1>7, <1>8, <1>9, <1>10 DEF n

LEMMA StepSendEmbed ==
    ASSUME EmbedsInv, NEW l \in DOMAIN eLoops, Embeds!SendEmbed(l)
    PROVE  EmbedsInv'
<1> PICK k : k = eLoops[l]  OBVIOUS
<1> PICK n : n = Len(eMessages)  OBVIOUS
<1> DEFINE t == k.server
           h == k.link.guild
           d == [k EXCEPT !.pc = "save", !.message = n + 1]
<1>0. EmbedTypes  BY DEF EmbedsInv
<1>1. /\ k.pc = "send" /\ eLoops' = [eLoops EXCEPT ![l] = d]
      /\ UNCHANGED <<eRegistered, eLinks, eSession, ePending, eRunning, eStored,
                     eFailing, eTold>>
  BY DEF Embeds!SendEmbed, Embeds!Set, Embeds!At
<1>2. Runs(l) /\ t \in eRegistered  BY <1>1, TicksRun
<1>3. /\ k \in Embeds!Loop /\ t \in StatusServers /\ h \in Guilds
      /\ k.message \in 0..n /\ n \in Nat /\ DOMAIN eMessages = 1..n
  BY <1>0, LoopIs, EmbedsAre
<1>4. /\ d \in Embeds!Loop /\ d.server = t /\ d.link = k.link /\ d.cancelled = k.cancelled
      /\ d.failed = k.failed /\ d.pc = "save" /\ d.message = n + 1
  <2>1. k \in Embeds!Loop /\ n + 1 \in Nat  BY <1>3
  <2> QED  BY <2>1 DEF Embeds!Loop
<1>5. /\ eMessages' \in Seq(Embeds!Message) /\ Len(eMessages') = n + 1
      /\ DOMAIN eMessages' = 1..(n + 1)
      /\ \A i \in 1..n :
           /\ eMessages'[i].server = eMessages[i].server
           /\ eMessages'[i].guild = eMessages[i].guild
           /\ eMessages'[i].channel = eMessages[i].channel
           /\ eMessages'[i].deleted = eMessages[i].deleted
           /\ eMessages[i].left => eMessages'[i].left
           /\ i = k.message /\ eMessages[i].channel # k.link.channel => eMessages'[i].left
      /\ eMessages'[n + 1].server = t /\ eMessages'[n + 1].guild = h
  BY <1>0, Posted
<1> HIDE DEF d
<1>6. /\ Len(eMessages) <= Len(eMessages') /\ d.message \in 0..Len(eMessages')
      /\ eStored' \in [StatusServers -> [Guilds -> 0..Len(eMessages')]]
      /\ eFailing' \in [StatusServers -> BOOLEAN] /\ DOMAIN eTold' = StatusServers
  <2>1. 0..n \subseteq 0..(n + 1)  BY <1>3
  <2>2. eStored \in [StatusServers -> [Guilds -> 0..(n + 1)]]
    BY <1>0, <2>1 DEF EmbedTypes
  <2> QED  BY <1>0, <1>1, <1>3, <1>4, <1>5, <2>2 DEF EmbedTypes
<1>7. /\ EmbedTypes' /\ RunningInv' /\ LinkInv'
      /\ DOMAIN eLoops' = DOMAIN eLoops
      /\ \A m \in DOMAIN eLoops : eLoops'[m] = IF m = l THEN d ELSE eLoops[m]
  BY <1>1, <1>2, <1>4, <1>5, <1>6, LoopMoves
<1>8. \A i \in 1..n : \A s, g : Live(i, s, g)' => Live(i, s, g)  BY <1>5 DEF Live
<1>9. \A s, g : Live(n + 1, s, g)' => s = t /\ g = h  BY <1>5 DEF Live
<1>10. ASSUME NEW i \in 1..n  PROVE ~Live(i, t, h)'
  <2> SUFFICES ASSUME Live(i, t, h)'  PROVE FALSE  OBVIOUS
  <2>1. Live(i, t, h) /\ ~eMessages'[i].left /\ ~eMessages'[i].deleted
    BY <1>8 DEF Live
  <2>2. ~Saving(t, h)
    BY <1>1, OneLoop DEF EmbedsInv, Saving
  <2>3. eStored[t][h] = i  BY <1>2, <1>3, <2>1, <2>2 DEF EmbedsInv, EmbedInv
  <2>4. k.message = i  BY <1>1, <2>3 DEF EmbedsInv, EmbedInv, PostAt
  <2>5. eMessages[i].channel # k.link.channel \/ eMessages[i].deleted
    BY <1>1, <1>3, <2>4 DEF EmbedsInv, EmbedInv, PostAt
  <2> QED  BY <1>5, <2>1, <2>4, <2>5
<1>11. \A i \in DOMAIN eMessages' : i \in 1..n \/ i = n + 1  BY <1>3, <1>5
<1>12. ASSUME NEW m \in DOMAIN eLoops'  PROVE PostAt(eLoops[m])'
  <2>1. CASE m = l
    <3>1. eLoops'[m] = d  BY <1>7, <2>1
    <3> QED  BY <1>4, <1>10, <1>11, <3>1 DEF PostAt
  <2>2. CASE m # l /\ eLoops'[m].pc = "wait"  BY <2>2 DEF PostAt
  <2>3. CASE m # l /\ eLoops'[m].pc # "wait"
    <3> PICK c : c = eLoops[m]  OBVIOUS
    <3>1. m \in DOMAIN eLoops /\ eLoops'[m] = c /\ c.pc # "wait"  BY <1>7, <2>3
    <3>2. c.server # t  BY <1>1, <2>3, <3>1, OneLoop DEF EmbedsInv
    <3>3. PostAt(c) /\ c.message \in 0..n
      BY <1>0, <3>1, LoopIs DEF EmbedsInv, EmbedInv
    <3>4. c.pc \in {"edit", "send"} => c.message = eStored'[c.server][c.link.guild]
      BY <1>1, <3>3 DEF PostAt
    <3>5. ASSUME c.pc = "send", NEW i \in DOMAIN eMessages', i = c.message
          PROVE  eMessages'[i].channel # c.link.channel \/ eMessages'[i].deleted
      <4>1. i \in 1..n  BY <1>3, <1>5, <3>3, <3>5
      <4> QED  BY <1>3, <1>5, <3>3, <3>5, <4>1 DEF PostAt
    <3>6. ASSUME c.pc = "save", NEW i \in DOMAIN eMessages',
                 Live(i, c.server, c.link.guild)'
          PROVE  i = c.message
      <4>1. i \in 1..n  BY <1>9, <1>11, <3>2, <3>6
      <4> QED  BY <1>3, <1>8, <3>3, <3>6, <4>1 DEF PostAt
    <3> QED  BY <3>1, <3>4, <3>5, <3>6 DEF PostAt
  <2> QED  BY <2>1, <2>2, <2>3
<1>13. ASSUME NEW s \in StatusServers, NEW g \in Guilds, NEW i \in DOMAIN eMessages',
              NEW j \in DOMAIN eMessages', Live(i, s, g)', Live(j, s, g)'
       PROVE  i = j
  <2>1. CASE s = t /\ g = h  BY <1>10, <1>11, <1>13, <2>1
  <2>2. CASE ~(s = t /\ g = h)
    <3>1. i \in 1..n /\ j \in 1..n  BY <1>9, <1>11, <1>13, <2>2
    <3> QED  BY <1>3, <1>8, <1>13, <3>1 DEF EmbedsInv, EmbedInv
  <2> QED  BY <2>1, <2>2
<1>14. ASSUME NEW s \in eRegistered', NEW g \in Guilds, NEW i \in DOMAIN eMessages',
              Live(i, s, g)'
       PROVE  eStored'[s][g] = i \/ Saving(s, g)'
  <2>1. CASE s = t /\ g = h
    <3>1. eLoops'[l] = d /\ l \in DOMAIN eLoops'  BY <1>7
    <3> QED  BY <1>4, <2>1, <3>1 DEF Saving
  <2>2. CASE ~(s = t /\ g = h)
    <3>1. i \in 1..n /\ Live(i, s, g)  BY <1>8, <1>9, <1>11, <1>14, <2>2
    <3>2. eStored[s][g] = i \/ Saving(s, g)
      BY <1>1, <1>3, <3>1 DEF EmbedsInv, EmbedInv
    <3>3. Saving(s, g) => Saving(s, g)'  BY <1>1, <1>7 DEF Saving
    <3> QED  BY <1>1, <3>2, <3>3
  <2> QED  BY <2>1, <2>2
<1>15. EmbedInv'  BY <1>12, <1>13, <1>14 DEF EmbedInv
<1>16. ToldInv'
  <2>1. \A s \in StatusServers : eRunning[s] # 0 => eRunning[s] \in DOMAIN eLoops
    BY <1>0, EmbedsAre DEF EmbedTypes
  <2>2. \A m \in DOMAIN eLoops : eLoops'[m].failed = eLoops[m].failed
                                 /\ eLoops'[m].link = eLoops[m].link
    BY <1>4, <1>7
  <2> QED  BY <1>1, <2>1, <2>2 DEF EmbedsInv, ToldInv
<1> QED  BY <1>7, <1>15, <1>16 DEF EmbedsInv

-----------------------------------------------------------------------------
(* Status embeds: the loops start afresh                                   *)

LEMMA EmbedCount == \A S : Embeds!Cardinality(S) = Cardinality(S)
BY DEF Embeds!Cardinality, Cardinality

\* The order in which the loops of the servers in S start.
StartOrder(S) == CHOOSE f \in Embeds!Orders(S) : TRUE

\* Finitely many servers can be put in an order, and every place of it is taken.
LEMMA OrderIs ==
    ASSUME NEW S, IsFiniteSet(S)
    PROVE  LET n == Cardinality(S)
               o == StartOrder(S)
           IN  /\ n \in Nat /\ o \in [S -> 1..n]
               /\ \A s, t \in S : o[s] = o[t] => s = t
               /\ \A i \in 1..n : \E t \in S : o[t] = i
<1> DEFINE n == Cardinality(S)
           o == StartOrder(S)
<1>1. n \in Nat  BY FS_CardinalityType
<1>2. IsFiniteSet(1..n) /\ Cardinality(1..n) = n
  <2> HIDE DEF n
  <2> QED  BY <1>1, FS_Interval
<1>3. Embeds!Orders(S) = {f \in [S -> 1..n] : \A s, t \in S : f[s] = f[t] => s = t}
  BY EmbedCount DEF Embeds!Orders
<1>4. \E f : f \in Bijection(S, 1..n)
  BY <1>2, FS_SameCardinalityBij DEF ExistsBijection
<1>5. \E f : f \in Embeds!Orders(S)
  BY <1>3, <1>4 DEF Bijection, Injection, IsInjective
<1>6. o \in Embeds!Orders(S)  BY <1>5 DEF StartOrder
<1> HIDE DEF n, o
<1>7. o \in Injection(S, 1..n)  BY <1>3, <1>6 DEF Injection, IsInjective
<1>8. o \in Surjection(S, 1..n)
  <2>1. Cardinality(S) = Cardinality(1..n)  BY <1>2 DEF n
  <2> QED  BY <1>2, <1>7, <2>1, FS_Injection
<1>9. \A i \in 1..n : \E t \in S : o[t] = i  BY <1>8 DEF Surjection
<1> QED  BY <1>1, <1>3, <1>6, <1>9 DEF n, o

\* Every loop waits; those of the servers in S are fresh, the others stopped.
Afresh(S) ==
    /\ eLoops \in Seq(Embeds!Loop)
    /\ eRunning \in [StatusServers -> 0..Len(eLoops)]
    /\ \A l \in DOMAIN eLoops : /\ eLoops[l].pc = "wait"
                                /\ eLoops[l].message \in 0..Len(eMessages)
                                /\ ~Runs(l) => eLoops[l].cancelled
    /\ \A s \in StatusServers : eRunning[s] # 0 <=> s \in S
    /\ \A s \in S : LET k == eLoops[eRunning[s]]
                    IN  k.server = s /\ k.link = eLinks[s] /\ k.failed = FALSE

LEMMA Restarted ==
    ASSUME EmbedTypes, NEW S \in SUBSET StatusServers, IsFiniteSet(S),
           \A s \in S : eLinks[s] \in Embeds!Link /\ eLinks'[s] = eLinks[s],
           UNCHANGED eMessages,
           NEW q \in Seq(Embeds!Loop), Len(q) = Len(eLoops),
           \A l \in DOMAIN q : q[l].cancelled /\ q[l].pc = "wait"
                               /\ q[l].message \in 0..Len(eMessages),
           eLoops' = q \o Embeds!Started(S, StartOrder(S)),
           eRunning' = [s \in StatusServers |->
                          IF s \in S
                          THEN Len(eLoops) + StartOrder(S)[s] ELSE 0]
    PROVE  Afresh(S)'
<1> PICK o : o = StartOrder(S)  OBVIOUS
<1> PICK n : n = Cardinality(S)  OBVIOUS
<1> PICK z : z = Len(eLoops)  OBVIOUS
<1> DEFINE at(i) == CHOOSE t \in S : o[t] = i
           new(i) == [server |-> at(i), link |-> eLinks[at(i)], cancelled |-> FALSE,
                      pc |-> "wait", message |-> 0, failed |-> FALSE]
           b == [i \in 1..n |-> new(i)]
<1>1. /\ n \in Nat /\ o \in [S -> 1..n]
      /\ \A s, t \in S : o[s] = o[t] => s = t
      /\ \A i \in 1..n : \E t \in S : o[t] = i
  BY OrderIs
<1>2. \A i \in 1..n : at(i) \in S /\ o[at(i)] = i  BY <1>1
<1>3. Embeds!Started(S, o) = b
  BY EmbedCount DEF Embeds!Started, Embeds!None
<1> HIDE DEF at
<1>4. \A i \in 1..n : new(i) \in Embeds!Loop  BY <1>2 DEF Embeds!Loop
<1>5. b \in Seq(Embeds!Loop) /\ Len(b) = n /\ \A i \in 1..n : b[i] = new(i)
  <2>1. b \in [1..n -> Embeds!Loop]  BY <1>4
  <2> QED  BY <1>1, <2>1, IsASeq, LenProperties
<1> HIDE DEF b
<1>6. z \in Nat /\ Len(q) = z /\ DOMAIN q = 1..z  BY EmbedsAre, LenProperties
<1>7. /\ eLoops' \in Seq(Embeds!Loop) /\ Len(eLoops') = z + n
      /\ \A i \in 1..(z + n) : eLoops'[i] = IF i <= z THEN q[i] ELSE b[i - z]
  <2>1. eLoops' = q \o b  BY <1>3
  <2>2. /\ q \o b \in Seq(Embeds!Loop) /\ Len(q \o b) = Len(q) + Len(b)
        /\ \A i \in 1..(Len(q) + Len(b)) :
             (q \o b)[i] = IF i <= Len(q) THEN q[i] ELSE b[i - Len(q)]
    BY <1>5, ConcatProperties
  <2> QED  BY <1>5, <1>6, <2>1, <2>2
<1>8. DOMAIN eLoops' = 1..(z + n)  BY <1>7, LenProperties
<1>9. \A s \in StatusServers : eRunning'[s] = IF s \in S THEN z + o[s] ELSE 0  OBVIOUS
<1>10. eRunning' \in [StatusServers -> 0..Len(eLoops')]
  <2>1. \A s \in S : z + o[s] \in 0..(z + n)  BY <1>1, <1>6
  <2>2. 0 \in 0..(z + n)  BY <1>1, <1>6
  <2> QED  BY <1>7, <2>1, <2>2
<1>11. ASSUME NEW i \in 1..n
       PROVE  eLoops'[z + i] = new(i)
  <2>1. z + i \in 1..(z + n) /\ ~(z + i <= z) /\ (z + i) - z = i  BY <1>1, <1>6
  <2> QED  BY <1>5, <1>7, <2>1
<1>12. ASSUME NEW l \in DOMAIN eLoops'
       PROVE  /\ eLoops'[l].pc = "wait"
              /\ eLoops'[l].message \in 0..Len(eMessages')
              /\ eRunning'[eLoops'[l].server] # l => eLoops'[l].cancelled
  <2>1. CASE l <= z
    <3>1. l \in DOMAIN q /\ eLoops'[l] = q[l]  BY <1>1, <1>6, <1>7, <1>8, <2>1
    <3> QED  BY <3>1
  <2>2. CASE ~(l <= z)
    <3> PICK i : i = l - z  OBVIOUS
    <3>1. i \in 1..n /\ l = z + i  BY <1>1, <1>6, <1>8, <2>2
    <3>2. eLoops'[l] = new(i)  BY <1>11, <3>1
    <3>3. eRunning'[at(i)] = l  BY <1>2, <1>9, <3>1
    <3>4. 0 \in 0..Len(eMessages')  BY EmbedsAre
    <3> QED  BY <3>2, <3>3, <3>4
  <2> QED  BY <2>1, <2>2
<1>13. \A s \in StatusServers : eRunning'[s] # 0 <=> s \in S
  <2>1. \A s \in S : z + o[s] # 0  BY <1>1, <1>6
  <2> QED  BY <1>9, <2>1
<1>14. ASSUME NEW s \in S
       PROVE  LET k == eLoops'[eRunning'[s]]
              IN  k.server = s /\ k.link = eLinks'[s] /\ k.failed = FALSE
  <2> PICK i : i = o[s]  OBVIOUS
  <2>1. i \in 1..n  BY <1>1
  <2>2. at(i) \in S /\ o[at(i)] = i  BY <1>2, <2>1
  <2>3. at(i) = s  BY <1>1, <2>2
  <2>4. eRunning'[s] = z + i  BY <1>9
  <2>5. eLoops'[eRunning'[s]] = new(i)  BY <1>11, <2>1, <2>4
  <2>6. new(i).server = s /\ new(i).link = eLinks[s] /\ new(i).failed = FALSE  BY <2>3
  <2> HIDE DEF new
  <2> QED  BY <2>5, <2>6
<1> QED  BY <1>7, <1>10, <1>12, <1>13, <1>14 DEF Afresh, Runs

LEMMA WantedIs ==
    ASSUME EmbedTypes
    PROVE  /\ Embeds!Wanted \in SUBSET StatusServers /\ IsFiniteSet(Embeds!Wanted)
           /\ Embeds!Wanted \subseteq eRegistered
           /\ \A s \in Embeds!Wanted : eLinks[s] \in Embeds!Link
<1>1. Embeds!Wanted \subseteq eRegistered /\ eRegistered \subseteq StatusServers
  BY DEF Embeds!Wanted, EmbedTypes
<1>2. IsFiniteSet(StatusServers)
  BY PanelAssumption DEF Embeds!Bounded, Embeds!IsFiniteSet, IsFiniteSet
<1>3. ASSUME NEW s \in Embeds!Wanted  PROVE eLinks[s] \in Embeds!Link
  <2>1. eLinks[s] \in EmbedLink /\ eLinks[s].status  BY <1>1 DEF Embeds!Wanted, EmbedTypes
  <2>2. Embeds!NoLink.status = FALSE  BY DEF Embeds!NoLink
  <2> QED  BY <2>1, <2>2 DEF EmbedLink
<1> QED  BY <1>1, <1>2, <1>3, FS_Subset

LEMMA RestartHolds ==
    ASSUME EmbedsInv, Afresh(Embeds!Wanted)', UNCHANGED <<eMessages, eTold>>,
           eRegistered' \subseteq eRegistered,
           eLinks' \in [StatusServers -> EmbedLink],
           eSession' \in {"off", "starting", "on"}, ePending' \in BOOLEAN,
           eSession' = "starting" => ~ePending',
           eStored' \in [StatusServers -> [Guilds -> 0..Len(eMessages)]],
           \A s \in eRegistered' : eStored'[s] = eStored[s],
           eFailing' \in [StatusServers -> BOOLEAN],
           \A s \in Embeds!Wanted' : ~eFailing'[s],
           \A l \in DOMAIN eLoops : eLoops[l].pc # "save"
    PROVE  EmbedsInv'
<1>0. EmbedTypes  BY DEF EmbedsInv
<1>1. EmbedTypes'  BY <1>0 DEF EmbedTypes, Afresh
<1>2. /\ \A s \in StatusServers : eRunning'[s] # 0 <=> s \in Embeds!Wanted'
      /\ \A s \in Embeds!Wanted' : /\ eLoops'[eRunning'[s]].server = s
                                   /\ eLoops'[eRunning'[s]].link = eLinks'[s]
                                   /\ eLoops'[eRunning'[s]].failed = FALSE
      /\ \A l \in DOMAIN eLoops' : /\ eLoops'[l].pc = "wait"
                                   /\ ~Runs(l)' => eLoops'[l].cancelled
  BY DEF Afresh
<1>3. Embeds!Wanted' \subseteq eRegistered'  BY DEF Embeds!Wanted
<1>4. RunningInv'  BY <1>2, <1>3 DEF RunningInv
<1>5. LinkInv'  BY <1>2 DEF LinkInv, InLine
<1>6. ToldInv'  BY <1>2 DEF ToldInv
<1>7. \A i, s, g : Live(i, s, g)' <=> Live(i, s, g)  BY DEF Live
<1>8. \A s, g : ~Saving(s, g)  BY DEF Saving
<1>9. \A l \in DOMAIN eLoops' : PostAt(eLoops[l])'  BY <1>2 DEF PostAt
<1>10. EmbedInv'  BY <1>7, <1>8, <1>9 DEF EmbedsInv, EmbedInv
<1> QED  BY <1>1, <1>4, <1>5, <1>6, <1>10 DEF EmbedsInv

\* The loops of before, stopped.
LEMMA StoppedAre ==
    ASSUME EmbedsInv, \A l \in DOMAIN eLoops : eLoops[l].pc = "wait"
    PROVE  /\ Embeds!Stopped \in Seq(Embeds!Loop) /\ Len(Embeds!Stopped) = Len(eLoops)
           /\ \A l \in DOMAIN Embeds!Stopped :
                /\ Embeds!Stopped[l].cancelled /\ Embeds!Stopped[l].pc = "wait"
                /\ Embeds!Stopped[l].message \in 0..Len(eMessages)
<1> PICK q : q = Embeds!Stopped  OBVIOUS
<1>0. EmbedTypes  BY DEF EmbedsInv
<1>1. /\ Len(eLoops) \in Nat /\ DOMAIN eLoops = 1..Len(eLoops)
      /\ \A l \in DOMAIN eLoops : eLoops[l] \in Embeds!Loop
  BY <1>0, EmbedsAre
<1>2. q = [l \in DOMAIN eLoops |->
             IF l \in Embeds!Running THEN [eLoops[l] EXCEPT !.cancelled = TRUE]
             ELSE eLoops[l]]
  BY DEF Embeds!Stopped
<1>3. ASSUME NEW l \in DOMAIN eLoops
      PROVE  /\ q[l] \in Embeds!Loop /\ q[l].cancelled /\ q[l].pc = "wait"
             /\ q[l].message \in 0..Len(eMessages)
  <2>1. eLoops[l] \in Embeds!Loop /\ eLoops[l].pc = "wait"
        /\ eLoops[l].message \in 0..Len(eMessages)
    BY <1>0, <1>1 DEF EmbedTypes
  <2>2. CASE l \in Embeds!Running
    <3>1. q[l] = [eLoops[l] EXCEPT !.cancelled = TRUE]  BY <1>2, <2>2
    <3> QED  BY <2>1, <3>1 DEF Embeds!Loop
  <2>3. CASE l \notin Embeds!Running
    <3>1. q[l] = eLoops[l]  BY <1>2, <2>3
    <3>2. eLoops[l].server \in StatusServers  BY <2>1 DEF Embeds!Loop
    <3>3. ~Runs(l)  BY <2>3, <3>2 DEF Embeds!Running, Runs
    <3> QED  BY <2>1, <3>1, <3>3 DEF EmbedsInv, RunningInv
  <2> QED  BY <2>2, <2>3
<1>4. q \in [1..Len(eLoops) -> Embeds!Loop]  BY <1>1, <1>2, <1>3
<1>5. q \in Seq(Embeds!Loop) /\ Len(q) = Len(eLoops)  BY <1>1, <1>4, IsASeq, LenProperties
<1>6. DOMAIN q = DOMAIN eLoops  BY <1>2
<1> QED  BY <1>3, <1>5, <1>6

LEMMA AllWait ==
    ASSUME EmbedsHypothesis, Embeds!Quiet
    PROVE  \A l \in DOMAIN eLoops : eLoops[l].pc = "wait"
BY DEF Embeds!Quiet, Embeds!May, Embeds!Ticking, EmbedsHypothesis

LEMMA Restarts ==
    ASSUME EmbedsHypothesis, EmbedsInv, Embeds!RestartLoops,
           UNCHANGED <<eRegistered, eLinks, eMessages>>
    PROVE  /\ Afresh(Embeds!Wanted)'
           /\ \A l \in DOMAIN eLoops : eLoops[l].pc # "save"
           /\ eFailing' \in [StatusServers -> BOOLEAN]
           /\ \A s \in Embeds!Wanted' : ~eFailing'[s]
<1> PICK w : w = Embeds!Wanted  OBVIOUS
<1>0. EmbedTypes  BY DEF EmbedsInv
<1>1. /\ w \in SUBSET StatusServers /\ IsFiniteSet(w)
      /\ \A s \in w : eLinks[s] \in Embeds!Link /\ eLinks'[s] = eLinks[s]
  BY <1>0, WantedIs
<1>2. /\ Embeds!Quiet
      /\ eLoops' = Embeds!Stopped \o Embeds!Started(w, StartOrder(w))
      /\ eRunning' = [s \in StatusServers |->
                        IF s \in w THEN Len(eLoops) + StartOrder(w)[s] ELSE 0]
      /\ Embeds!RearmLog(w)
  BY DEF Embeds!RestartLoops, Embeds!None, StartOrder
<1>3. \A l \in DOMAIN eLoops : eLoops[l].pc = "wait"  BY <1>2, AllWait
<1>4. Afresh(w)'  BY <1>0, <1>1, <1>2, <1>3, StoppedAre, Restarted
<1>5. Embeds!Wanted' = w  BY DEF Embeds!Wanted
<1>6. Afresh(Embeds!Wanted)'  BY <1>4, <1>5 DEF Afresh
<1>7. /\ eFailing' \in [StatusServers -> BOOLEAN]
      /\ \A s \in w : ~eFailing'[s]
  BY <1>1, <1>2 DEF Embeds!RearmLog
<1> QED  BY <1>3, <1>5, <1>6, <1>7

LEMMA StepSaveConfig ==
    ASSUME EmbedsHypothesis, EmbedsInv, NEW on \in BOOLEAN, Embeds!SaveConfig(on)
    PROVE  EmbedsInv'
<1>1. /\ ~ePending /\ Embeds!RestartLoops
      /\ eSession' \in {"starting", "off"}
      /\ UNCHANGED <<eRegistered, eLinks, ePending, eStored, eMessages, eTold>>
  BY DEF Embeds!SaveConfig
<1>2. EmbedTypes  BY DEF EmbedsInv
<1>3. /\ eLinks' \in [StatusServers -> EmbedLink] /\ ePending' \in BOOLEAN
      /\ eStored' \in [StatusServers -> [Guilds -> 0..Len(eMessages)]]
  BY <1>1, <1>2 DEF EmbedTypes
<1> QED  BY <1>1, <1>3, Restarts, RestartHolds

LEMMA StepApplyEdit ==
    ASSUME EmbedsHypothesis, EmbedsInv, Embeds!ApplyEdit
    PROVE  EmbedsInv'
<1>1. /\ ePending /\ ePending' = FALSE
      /\ IF eSession = "on" THEN Embeds!RestartLoops ELSE UNCHANGED <<eLoops, eRunning, eFailing>>
      /\ UNCHANGED <<eRegistered, eLinks, eSession, eStored, eMessages, eTold>>
  BY DEF Embeds!ApplyEdit
<1>2. EmbedTypes  BY DEF EmbedsInv
<1>3. CASE eSession = "on"
  <2>1. /\ eLinks' \in [StatusServers -> EmbedLink] /\ ePending' \in BOOLEAN
        /\ eStored' \in [StatusServers -> [Guilds -> 0..Len(eMessages)]]
    BY <1>1, <1>2 DEF EmbedTypes
  <2> QED  BY <1>1, <1>3, <2>1, Restarts, RestartHolds
<1>4. CASE eSession # "on"
  <2>1. eSession = "off"  BY <1>1, <1>2, <1>4 DEF EmbedTypes, EmbedsInv, LinkInv
  <2>2. UNCHANGED <<eRegistered, eLinks, eSession, eStored, eMessages, eTold,
                    eLoops, eRunning, eFailing>>
    BY <1>1, <1>4
  <2>3. EmbedTypes'  BY <1>1, <1>2, <2>2 DEF EmbedTypes
  <2>4. RunningInv'  BY <2>2 DEF EmbedsInv, RunningInv, Runs
  <2>5. LinkInv'  BY <2>1, <2>2 DEF LinkInv
  <2>6. EmbedInv'  BY <2>2 DEF EmbedsInv, EmbedInv, Live, Saving, PostAt
  <2>7. ToldInv'  BY <2>2 DEF EmbedsInv, ToldInv
  <2> QED  BY <2>3, <2>4, <2>5, <2>6, <2>7 DEF EmbedsInv
<1> QED  BY <1>3, <1>4

LEMMA StepBotConnects ==
    ASSUME EmbedsHypothesis, EmbedsInv, Embeds!BotConnects
    PROVE  EmbedsInv'
<1>1. /\ eSession = "starting" /\ eSession' = "on"
      /\ UNCHANGED <<eRegistered, eLinks, ePending, eLoops, eRunning, eStored, eMessages,
                     eFailing, eTold>>
  BY DEF Embeds!BotConnects
<1>2. EmbedTypes'  BY <1>1 DEF EmbedsInv, EmbedTypes
<1>3. RunningInv'  BY <1>1 DEF EmbedsInv, RunningInv, Runs
<1>4. LinkInv'  BY <1>1 DEF EmbedsInv, LinkInv, InLine, Embeds!Wanted
<1>5. EmbedInv'  BY <1>1 DEF EmbedsInv, EmbedInv, Live, Saving, PostAt
<1>6. ToldInv'  BY <1>1 DEF EmbedsInv, ToldInv
<1> QED  BY <1>2, <1>3, <1>4, <1>5, <1>6 DEF EmbedsInv

\* An edited link waits for its apply, and no bot connects meanwhile.
LEMMA StepEditLink ==
    ASSUME EmbedsHypothesis, EmbedsInv, NEW s \in StatusServers, NEW k \in Embeds!Link,
           Embeds!EditLink(s, k)
    PROVE  EmbedsInv'
<1>1. /\ eSession # "starting" /\ eLinks' = [eLinks EXCEPT ![s] = k] /\ ePending' = TRUE
      /\ UNCHANGED <<eRegistered, eSession, eLoops, eRunning, eStored, eMessages,
                     eFailing, eTold>>
  BY DEF Embeds!EditLink, Embeds!May, EmbedsHypothesis
<1>2. EmbedTypes'
  <2>1. eLinks' \in [StatusServers -> EmbedLink]  BY <1>1 DEF EmbedsInv, EmbedTypes, EmbedLink
  <2> QED  BY <1>1, <2>1 DEF EmbedsInv, EmbedTypes
<1>3. RunningInv'  BY <1>1 DEF EmbedsInv, RunningInv, Runs
<1>4. LinkInv'  BY <1>1 DEF LinkInv
<1>5. EmbedInv'  BY <1>1 DEF EmbedsInv, EmbedInv, Live, Saving, PostAt
<1>6. ToldInv'  BY <1>1 DEF EmbedsInv, ToldInv
<1> QED  BY <1>2, <1>3, <1>4, <1>5, <1>6 DEF EmbedsInv

LEMMA StepDeleteServer ==
    ASSUME EmbedsHypothesis, EmbedsInv, NEW s \in StatusServers, Embeds!DeleteServer(s)
    PROVE  EmbedsInv'
<1> PICK w : w = Embeds!Wanted \ {s}  OBVIOUS
<1>0. EmbedTypes  BY DEF EmbedsInv
<1>1. /\ Embeds!Quiet /\ eRegistered' = eRegistered \ {s}
      /\ eLinks' = [eLinks EXCEPT ![s] = Embeds!NoLink]
      /\ eStored' = [eStored EXCEPT ![s] = [g \in Guilds |-> 0]]
      /\ eLoops' = Embeds!Stopped \o Embeds!Started(w, StartOrder(w))
      /\ eRunning' = [t \in StatusServers |->
                        IF t \in w THEN Len(eLoops) + StartOrder(w)[t] ELSE 0]
      /\ Embeds!RearmLog(w)
      /\ UNCHANGED <<eSession, ePending, eMessages, eTold>>
  BY DEF Embeds!DeleteServer, Embeds!None, StartOrder
<1>2. /\ w \in SUBSET StatusServers /\ IsFiniteSet(w)
      /\ \A t \in w : eLinks[t] \in Embeds!Link /\ eLinks'[t] = eLinks[t]
  <2>1. w \in SUBSET Embeds!Wanted /\ s \notin w  OBVIOUS
  <2>2. IsFiniteSet(w)  BY <1>0, <2>1, WantedIs, FS_Subset
  <2> QED  BY <1>0, <1>1, <2>1, <2>2, WantedIs DEF EmbedTypes
<1>3. \A l \in DOMAIN eLoops : eLoops[l].pc = "wait"  BY <1>1, AllWait
<1>4. Afresh(w)'  BY <1>0, <1>1, <1>2, <1>3, StoppedAre, Restarted
<1>5. Embeds!Wanted' = w
  <2>1. \A t \in eRegistered' : t # s /\ eLinks'[t] = eLinks[t]
    BY <1>0, <1>1 DEF EmbedTypes
  <2> QED  BY <1>1, <2>1 DEF Embeds!Wanted
<1>6. Afresh(Embeds!Wanted)'  BY <1>4, <1>5 DEF Afresh
<1>7. /\ eFailing' \in [StatusServers -> BOOLEAN]
      /\ \A t \in Embeds!Wanted' : ~eFailing'[t]
  BY <1>1, <1>2, <1>5 DEF Embeds!RearmLog
<1>8. eLinks' \in [StatusServers -> EmbedLink]  BY <1>0, <1>1 DEF EmbedTypes, EmbedLink
<1>9. /\ eStored' \in [StatusServers -> [Guilds -> 0..Len(eMessages)]]
      /\ \A t \in eRegistered' : eStored'[t] = eStored[t]
  <2>1. [g \in Guilds |-> 0] \in [Guilds -> 0..Len(eMessages)]  BY <1>0, EmbedsAre
  <2> QED  BY <1>0, <1>1, <2>1 DEF EmbedTypes
<1>10. /\ eSession' \in {"off", "starting", "on"} /\ ePending' \in BOOLEAN
       /\ eSession' = "starting" => ~ePending'
  BY <1>0, <1>1 DEF EmbedTypes, EmbedsInv, LinkInv
<1> QED  BY <1>1, <1>3, <1>6, <1>7, <1>8, <1>9, <1>10, RestartHolds

LEMMA StepStop ==
    ASSUME EmbedsHypothesis, EmbedsInv, Embeds!Crash
    PROVE  EmbedsInv'
<1> PICK w : w = Embeds!Wanted  OBVIOUS
<1> DEFINE end(l) == [eLoops[l] EXCEPT !.cancelled = TRUE, !.pc = "wait", !.message = 0]
           q == [l \in DOMAIN eLoops |-> end(l)]
<1>0. EmbedTypes  BY DEF EmbedsInv
<1>1. /\ \A l \in DOMAIN eLoops : eLoops[l].pc # "save"
      /\ eLoops' = q \o Embeds!Started(w, StartOrder(w))
      /\ eRunning' = [t \in StatusServers |->
                        IF t \in w THEN Len(eLoops) + StartOrder(w)[t] ELSE 0]
      /\ eSession' = IF eSession = "off" THEN "off" ELSE "starting"
      /\ eFailing' = [t \in StatusServers |-> FALSE] /\ ePending' = FALSE
      /\ UNCHANGED <<eRegistered, eLinks, eStored, eMessages, eTold>>
  <2>1. \A l \in DOMAIN eLoops : eLoops[l].pc # "save"
    BY DEF Embeds!Crash, Embeds!Fails, Embeds!At, EmbedsHypothesis
  <2>2. eLoops' = q \o Embeds!Started(w, StartOrder(w))
    BY DEF Embeds!Crash, Embeds!None, StartOrder
  <2>3. eRunning' = [t \in StatusServers |->
                       IF t \in w THEN Len(eLoops) + StartOrder(w)[t] ELSE 0]
    <3>1. eRunning' = [t \in StatusServers |-> IF t \in Embeds!Wanted
                         THEN Len(eLoops) + StartOrder(Embeds!Wanted)[t] ELSE 0]
      BY Zenon DEF Embeds!Crash, Embeds!None, StartOrder
    <3> QED  BY <3>1
  <2>4. /\ eSession' = IF eSession = "off" THEN "off" ELSE "starting"
        /\ eFailing' = [t \in StatusServers |-> FALSE] /\ ePending' = FALSE
        /\ UNCHANGED <<eRegistered, eLinks, eStored, eMessages, eTold>>
    BY DEF Embeds!Crash
  <2> HIDE DEF q
  <2> QED  BY <2>1, <2>2, <2>3, <2>4
<1>2. /\ w \in SUBSET StatusServers /\ IsFiniteSet(w)
      /\ \A s \in w : eLinks[s] \in Embeds!Link /\ eLinks'[s] = eLinks[s]
  BY <1>0, <1>1, WantedIs
<1>3. /\ q \in Seq(Embeds!Loop) /\ Len(q) = Len(eLoops)
      /\ \A l \in DOMAIN q : q[l].cancelled /\ q[l].pc = "wait"
                             /\ q[l].message \in 0..Len(eMessages)
  <2> HIDE DEF end
  <2>1. /\ Len(eLoops) \in Nat /\ DOMAIN eLoops = 1..Len(eLoops) /\ Len(eMessages) \in Nat
        /\ \A l \in DOMAIN eLoops : eLoops[l] \in Embeds!Loop
    BY <1>0, EmbedsAre
  <2>2. ASSUME NEW l \in DOMAIN eLoops
        PROVE  end(l) \in Embeds!Loop /\ end(l).cancelled /\ end(l).pc = "wait"
               /\ end(l).message = 0
    <3>1. eLoops[l] \in Embeds!Loop  BY <2>1
    <3> QED  BY <3>1 DEF Embeds!Loop, end
  <2>3. q \in [1..Len(eLoops) -> Embeds!Loop] /\ DOMAIN q = 1..Len(eLoops)
        /\ \A l \in 1..Len(eLoops) : q[l] = end(l)
    BY <2>1, <2>2
  <2> HIDE DEF q
  <2>4. q \in Seq(Embeds!Loop) /\ Len(q) = Len(eLoops)  BY <2>1, <2>3, IsASeq, LenProperties
  <2>5. 0 \in 0..Len(eMessages)  BY <2>1
  <2> QED  BY <2>1, <2>2, <2>3, <2>4, <2>5
<1> HIDE DEF q
<1>4. Afresh(w)'  BY <1>0, <1>1, <1>2, <1>3, Restarted
<1>5. Embeds!Wanted' = w  BY <1>1 DEF Embeds!Wanted
<1>6. Afresh(Embeds!Wanted)'  BY <1>4, <1>5 DEF Afresh
<1>7. /\ eFailing' \in [StatusServers -> BOOLEAN]
      /\ \A t \in Embeds!Wanted' : ~eFailing'[t]
  BY <1>1, <1>2, <1>5
<1>8. /\ eLinks' \in [StatusServers -> EmbedLink] /\ ePending' \in BOOLEAN
      /\ eStored' \in [StatusServers -> [Guilds -> 0..Len(eMessages)]]
      /\ eSession' \in {"off", "starting", "on"}
  BY <1>0, <1>1 DEF EmbedTypes
<1> QED  BY <1>1, <1>6, <1>7, <1>8, RestartHolds

LEMMA StepDeleteMessage ==
    ASSUME EmbedsInv, NEW x \in DOMAIN eMessages, Embeds!DeleteMessage(x)
    PROVE  EmbedsInv'
<1>0. EmbedTypes  BY DEF EmbedsInv
<1>1. /\ eMessages' = [eMessages EXCEPT ![x].deleted = TRUE]
      /\ UNCHANGED <<eRegistered, eLinks, eSession, ePending, eLoops, eRunning, eStored,
                     eFailing, eTold>>
  BY DEF Embeds!DeleteMessage
<1> PICK m : m = [eMessages[x] EXCEPT !.deleted = TRUE]  OBVIOUS
<1>2. m \in Embeds!Message /\ m.deleted = TRUE /\ m.channel = eMessages[x].channel
  <2>1. eMessages[x] \in Embeds!Message  BY <1>0, EmbedsAre
  <2> QED  BY <2>1 DEF Embeds!Message
<1>3. eMessages' = [eMessages EXCEPT ![x] = m]  BY <1>1
<1>4. /\ eMessages' \in Seq(Embeds!Message) /\ Len(eMessages') = Len(eMessages)
      /\ DOMAIN eMessages' = DOMAIN eMessages
      /\ \A i \in DOMAIN eMessages : eMessages'[i] = IF i = x THEN m ELSE eMessages[i]
  <2>1. Len(eMessages) \in Nat /\ DOMAIN eMessages = 1..Len(eMessages)  BY <1>0, EmbedsAre
  <2>2. DOMAIN eMessages' = DOMAIN eMessages  BY <1>3
  <2> QED  BY <1>0, <1>2, <1>3, <2>1, <2>2, ExceptSeq DEF EmbedTypes
<1>5. \A i \in DOMAIN eMessages : \A s, g : Live(i, s, g)' => Live(i, s, g)
  BY <1>2, <1>4 DEF Live
<1>6. \A i \in DOMAIN eMessages : /\ eMessages'[i].channel = eMessages[i].channel
                                  /\ eMessages[i].deleted => eMessages'[i].deleted
  BY <1>2, <1>4
<1>7. EmbedTypes'  BY <1>0, <1>1, <1>4 DEF EmbedTypes
<1>8. RunningInv'  BY <1>1 DEF EmbedsInv, RunningInv, Runs
<1>9. LinkInv'  BY <1>1 DEF EmbedsInv, LinkInv, InLine, Embeds!Wanted
<1>10. ToldInv'  BY <1>1 DEF EmbedsInv, ToldInv
<1>11. ASSUME NEW l \in DOMAIN eLoops'  PROVE PostAt(eLoops[l])'
  <2>1. PostAt(eLoops[l])  BY <1>1 DEF EmbedsInv, EmbedInv
  <2> QED  BY <1>1, <1>4, <1>5, <1>6, <2>1 DEF PostAt
<1>12. \A s, g : Saving(s, g)' <=> Saving(s, g)  BY <1>1 DEF Saving
<1>13. EmbedInv'  BY <1>1, <1>4, <1>5, <1>11, <1>12 DEF EmbedsInv, EmbedInv
<1> QED  BY <1>7, <1>8, <1>9, <1>10, <1>13 DEF EmbedsInv

LEMMA StepEmbeds ==
    ASSUME EmbedsHypothesis, EmbedsInv, [Embeds!Next]_(Embeds!vars)
    PROVE  EmbedsInv'
<1>1. CASE UNCHANGED Embeds!vars
  <2>1. UNCHANGED <<eRegistered, eLinks, eSession, ePending, eLoops, eRunning, eStored,
                    eMessages, eFailing, eTold>>
    BY <1>1 DEF Embeds!vars
  <2>2. EmbedTypes'  BY <2>1 DEF EmbedsInv, EmbedTypes
  <2>3. RunningInv'  BY <2>1 DEF EmbedsInv, RunningInv, Runs
  <2>4. LinkInv'  BY <2>1 DEF EmbedsInv, LinkInv, InLine, Embeds!Wanted
  <2>5. EmbedInv'  BY <2>1 DEF EmbedsInv, EmbedInv, Live, Saving, PostAt
  <2>6. ToldInv'  BY <2>1 DEF EmbedsInv, ToldInv
  <2> QED  BY <2>2, <2>3, <2>4, <2>5, <2>6 DEF EmbedsInv
<1>2. ASSUME NEW l \in DOMAIN eLoops, Embeds!Tick(l)  PROVE EmbedsInv'
  BY <1>2, StepBegin, StepEnds, StepEditUnknown, StepSendEmbed, StepSaveId, StepSaveFails
  DEF Embeds!Tick
<1>3. CASE \E s \in StatusServers : \E k \in Embeds!Link : Embeds!EditLink(s, k)
  BY <1>3, StepEditLink
<1>4. CASE \E s \in StatusServers : Embeds!DeleteServer(s)  BY <1>4, StepDeleteServer
<1>5. CASE \E x \in DOMAIN eMessages : Embeds!DeleteMessage(x)  BY <1>5, StepDeleteMessage
<1>6. CASE \E on \in BOOLEAN : Embeds!SaveConfig(on)  BY <1>6, StepSaveConfig
<1> QED  BY <1>1, <1>2, <1>3, <1>4, <1>5, <1>6, StepBotConnects, StepApplyEdit, StepStop
         DEF Embeds!Next

LEMMA InitEmbeds == Embeds!Init => EmbedsInv
<1> SUFFICES ASSUME Embeds!Init PROVE EmbedsInv  OBVIOUS
<1>1. /\ eRegistered = StatusServers /\ eSession = "off" /\ ePending = FALSE
      /\ eLinks = [s \in StatusServers |-> Embeds!NoLink]
      /\ eLoops = <<>> /\ eMessages = <<>>
      /\ eRunning = [s \in StatusServers |-> 0]
      /\ eStored = [s \in StatusServers |-> [g \in Guilds |-> 0]]
      /\ eFailing = [s \in StatusServers |-> FALSE]
      /\ eTold = [s \in StatusServers |-> {}]
  BY DEF Embeds!Init, Embeds!None
<1>2. Len(eLoops) = 0 /\ Len(eMessages) = 0 /\ DOMAIN eLoops = {} /\ DOMAIN eMessages = {}
  BY <1>1, LenProperties
<1>3. 0 \in 0..0  OBVIOUS
<1>4. EmbedTypes
  <2>1. eLoops \in Seq(Embeds!Loop) /\ eMessages \in Seq(Embeds!Message)  BY <1>1
  <2>2. eRunning \in [StatusServers -> 0..Len(eLoops)]  BY <1>1, <1>2, <1>3
  <2>3. eStored \in [StatusServers -> [Guilds -> 0..Len(eMessages)]]  BY <1>1, <1>2, <1>3
  <2>4. eFailing \in [StatusServers -> BOOLEAN] /\ ePending \in BOOLEAN  BY <1>1
  <2>5. eLinks \in [StatusServers -> EmbedLink]  BY <1>1 DEF EmbedLink
  <2> QED  BY <1>1, <1>2, <2>1, <2>2, <2>3, <2>4, <2>5 DEF EmbedTypes
<1>5. RunningInv /\ LinkInv /\ ToldInv  BY <1>1, <1>2 DEF RunningInv, LinkInv, ToldInv
<1>6. EmbedInv  BY <1>1, <1>2 DEF EmbedInv
<1> QED  BY <1>4, <1>5, <1>6 DEF EmbedsInv

LEMMA EmbedsHold ==
    ASSUME EmbedsInv
    PROVE  Embeds!EmbedsSound
<1>0. EmbedTypes  BY DEF EmbedsInv
<1>1. Embeds!LoopsFollowLinks
  <2>1. \A l \in DOMAIN eLoops : l \notin Embeds!Running => ~Runs(l)
    BY <1>0, LoopIs DEF Embeds!Running, Runs
  <2>2. \A l \in DOMAIN eLoops : l \notin Embeds!Running => eLoops[l].pc = "wait"
    BY <2>1 DEF EmbedsInv, RunningInv
  <2>3. eSession = "on" /\ ~ePending => InLine  BY DEF EmbedsInv, LinkInv
  <2> QED  BY <2>2, <2>3 DEF Embeds!LoopsFollowLinks, Embeds!None, InLine
<1>2. Embeds!OneEmbed
  <2> SUFFICES ASSUME NEW s \in StatusServers, NEW g \in Guilds
               PROVE  Embeds!Cardinality({i \in DOMAIN eMessages :
                        /\ eMessages[i].server = s /\ eMessages[i].guild = g
                        /\ ~eMessages[i].deleted /\ ~eMessages[i].left}) <= 1
    BY DEF Embeds!OneEmbed
  <2> DEFINE live == {i \in DOMAIN eMessages :
                        /\ eMessages[i].server = s /\ eMessages[i].guild = g
                        /\ ~eMessages[i].deleted /\ ~eMessages[i].left}
  <2>1. \A i, j \in live : i = j  BY DEF EmbedsInv, EmbedInv, Live
  <2> HIDE DEF live
  <2>2. CASE live = {}  BY <2>2, EmbedCount, FS_EmptySet DEF live
  <2>3. ASSUME NEW i \in live  PROVE Embeds!Cardinality(live) <= 1
    <3>1. live = {i}  BY <2>1
    <3>2. Cardinality({i}) = 1  BY FS_Singleton
    <3> QED  BY <3>1, <3>2, EmbedCount
  <2> QED  BY <2>2, <2>3, EmbedCount, FS_EmptySet DEF live
<1>3. Embeds!FailureTold
  BY DEF Embeds!FailureTold, Embeds!None, EmbedsInv, ToldInv
<1> QED  BY <1>1, <1>2, <1>3 DEF Embeds!EmbedsSound

\* However ticks, failing calls of Discord, deleted embeds and restarts follow one another,
\* as long as nothing restarts the loops under a tick and no stop comes between a post and
\* its save: the loops are those the links ask for, a server has one embed in a guild that
\* can still be edited, and a loop that fails has told of it where it posts
\* (applyDiscordStatusLoops, postOrEditStatusEmbed and nextStatusLogAction of
\* discord_status.go).
THEOREM EmbedsAreSound == EmbedsHypothesis => (PanelSpec => []EmbedsSound)
<1> SUFFICES ASSUME EmbedsHypothesis PROVE PanelSpec => []EmbedsSound  OBVIOUS
<1>1. PanelInit => EmbedsInv  BY InitEmbeds DEF PanelInit
<1>2. EmbedsInv /\ [PanelNext]_<<part, vars, rvars, bvars, evars, tvars, cvars, svars, avars>>
        => EmbedsInv'
  <2> SUFFICES ASSUME EmbedsInv,
                      [PanelNext]_<<part, vars, rvars, bvars, evars, tvars, cvars, svars, avars>>
               PROVE  EmbedsInv'
    OBVIOUS
  <2>1. [Embeds!Next]_(Embeds!vars)  BY DEF PanelNext, evars, Embeds!vars
  <2> QED  BY <2>1, StepEmbeds
<1>3. EmbedsInv => EmbedsSound  BY EmbedsHold DEF EmbedsSound
<1> QED  BY <1>1, <1>2, <1>3, PTL DEF PanelSpec

\* The three together are all that the run checks of the panel's side of Discord: one bot
\* and the configured guilds' commands, one loop and one embed per linked server, and
\* grants that are justified and answered for (discord.go, discord_status.go,
\* handlers_discord.go).
THEOREM DiscordIsSound ==
    BotHypothesis /\ EmbedsHypothesis /\ CommandsHypothesis => (PanelSpec => []DiscordSound)
<1>1. BotSound /\ EmbedsSound /\ CommandsSound => DiscordSound  BY DEF DiscordSound
<1> QED  BY <1>1, BotIsSound, EmbedsAreSound, CommandsAreSound, PTL
=============================================================================
