--------------------------- MODULE ServerSettings ---------------------------
(***************************************************************************)
(* The settings of a game server (handlers_server_settings.go, and what    *)
(* control_amp.go and handlers_director.go add): the files UserGame.ini,   *)
(* UserEngine.ini and, under AMP, UserOverrides.ini.  In each, dune-admin  *)
(* owns a region between two markers; the lines above it belong to the     *)
(* operator.  A save reads a file, merges its keys into the region and     *)
(* writes the file back; under AMP the curated settings go to AMP's own    *)
(* configuration instead, from which it regenerates the files at a start.  *)
(*                                                                         *)
(* A file is, for every key, the value of the operator's line and the      *)
(* values of the managed lines, in order; 0 is "no such line", and, as the *)
(* value of a save, "clear this key".                                      *)
(***************************************************************************)
EXTENDS Integers, Sequences, Functions

CONSTANTS Requests,
          HandKeys,   \* the keys the operator writes by hand
          RawForms,   \* "shared": arrays share a section with plain settings;
                      \* "plain": the raw lines may name a plain setting
          Blank,      \* the curated setting's default is the empty string
          Races,      \* "saves": requests overlap; "hand": an edit by hand falls
                      \* into one; "elsewhere": it is made in another file
          Faults,     \* "read", "write", "tear", "api", "default", "clobber"
          MaxSaves, MaxHandEdits

\* What the constants have to be.
Bounded == MaxSaves \in Nat /\ MaxHandEdits \in Nat /\ Blank \in BOOLEAN

Values == 1..2
None == 0       \* no line; as an update: remove the key

VARIABLES plane,      \* the control plane: "amp" or another
          disk,       \* the INI files
          torn,       \* the files whose region has lost its end marker
          amp,        \* AMP's own configuration
          director,   \* director_config.ini
          cached,     \* defaultINICache holds DefaultEngine.ini
          request,    \* the saves under way
          saves, edits,
          want,       \* what each setting may be after what was answered so far
          wrote,      \* what the operator wrote by hand
          touched     \* the keys a save ever named

files == <<disk, torn>>
vars == <<plane, disk, torn, amp, director, cached, request, saves, edits, want,
          wrote, touched>>

\* One curated setting, one of its section that is not in the schema, one of a
\* section that DefaultEngine.ini declares, and an array of "+" lines.
Plain == {"rate", "port", "fog"}
Array == "+mod"
Keys == Plain \cup {Array}
Curated == {"rate"}
Section(k) == CASE k = "fog" -> "render"
                [] k = Array /\ "shared" \notin RawForms -> "mods"
                [] OTHER -> "pvp"

\* The director's file: a setting, a secret, and one in a read-only section.
DirectorKeys == {"grace", "password", "host"}
ReadOnly == {"password", "host"}

Files == {"game", "overrides", "engine"}
Empty == [hand |-> [k \in Keys |-> None], managed |-> [k \in Keys |-> <<>>]]

Idle == [pc |-> "idle", kind |-> "save", updates |-> <<>>, known |-> FALSE,
         read |-> Empty, answer |-> "none"]

-----------------------------------------------------------------------------
(* What the settings page shows.                                           *)

\* The last line of a key wins, and the managed region is the last.
Ending(v) == v[Len(v)]
FileValue(d, f, k) ==
    IF d[f].managed[k] # <<>> THEN Ending(d[f].managed[k]) ELSE d[f].hand[k]

\* The later of the layers engine, game, overrides that has the key.
Layered(d, k) ==
    LET defined == {f \in Files : FileValue(d, f, k) # None}
        top == IF "overrides" \in defined THEN "overrides"
               ELSE IF "game" \in defined THEN "game" ELSE "engine"
    IN  FileValue(d, top, k)

\* AMP's own value counts, but for an empty one.
Shown(k) ==
    IF k \in DirectorKeys THEN director[k]
    ELSE IF plane = "amp" /\ k \in Curated /\ ~(Blank /\ amp[k] = None) THEN amp[k]
    ELSE Layered(disk, k)

\* The lines of the array, as the raw view lists them.
Lines(f) == (IF disk[f].hand[Array] = None THEN <<>> ELSE <<disk[f].hand[Array]>>)
               \o disk[f].managed[Array]
Mods == Lines("engine") \o Lines("game") \o Lines("overrides")

-----------------------------------------------------------------------------
(* The files.                                                              *)

GameFile == IF plane = "amp" THEN "overrides" ELSE "game"

IsEngine(section, known) == section = "render" /\ known
FileOf(k, known) == IF IsEngine(Section(k), known) THEN "engine" ELSE GameFile

\* Only the first of several lines of a key is replaced or removed; the others
\* have a suffix.
Merge(lines, v) ==
    IF v = None THEN (IF lines = <<>> THEN <<>> ELSE Tail(lines))
    ELSE IF lines = <<>> THEN <<v>> ELSE [lines EXCEPT ![1] = v]

Owned(managed) == {k \in Keys : managed[k] # <<>>}
Cleared(u) == {k \in DOMAIN u : u[k] = None}
Strip(hand, keys) == [k \in Keys |-> IF k \in keys THEN None ELSE hand[k]]

Merged(file, u) ==
    [k \in Keys |-> IF k \in DOMAIN u THEN Merge(file.managed[k], u[k]) ELSE file.managed[k]]

\* Mutated form of ApplyUpdates: the operator's line of a cleared key stays.
LeaveCleared(file, u) ==
    LET merged == Merged(file, u)
    IN  [managed |-> merged, hand |-> Strip(file.hand, Owned(merged))]

\* The operator's lines of the keys that dune-admin owns now, and of those just
\* cleared, go; the others stay.
ApplyUpdates(file, u) ==
    LET merged == Merged(file, u)
    IN  [managed |-> merged, hand |-> Strip(file.hand, Owned(merged) \cup Cleared(u))]

\* A raw save replaces the managed lines of its whole section.
ApplyRaw(file, section, lines) ==
    LET merged == [k \in Keys |-> IF k \in DOMAIN lines THEN lines[k]
                                  ELSE IF Section(k) = section THEN <<>>
                                  ELSE file.managed[k]]
    IN  [managed |-> merged, hand |-> Strip(file.hand, Owned(merged))]

Init == /\ plane \in {"amp", "docker"}
        /\ disk = [f \in Files |-> Empty]
        /\ torn = {} /\ cached = FALSE
        /\ amp = [k \in Curated |-> None]
        /\ director = [k \in DirectorKeys |-> 1]
        /\ request = [r \in Requests |-> Idle]
        /\ saves = 0 /\ edits = 0
        /\ want = [k \in Keys \cup DirectorKeys |->
                     IF k = Array THEN {<<>>} ELSE IF k \in Plain THEN {None} ELSE {1}]
        /\ wrote = [f \in Files |-> Empty.hand]
        /\ touched = {}

-----------------------------------------------------------------------------
(* A save (handleUpdateServerSettings).                                    *)

At(r, pc) == request[r].pc = pc
Set(r, q) == request' = [request EXCEPT ![r] = q]
Goto(r, pc) == Set(r, [request[r] EXCEPT !.pc = pc])
Fails(f) == f \in Faults
Quiet == \A r \in Requests : At(r, "idle")
Named(q) == DOMAIN q.updates

\* What an accepted save makes of a setting.
Target(q, k) == IF q.kind = "raw" /\ k \in Plain THEN Ending(q.updates[k]) ELSE q.updates[k]
Changes(q) == Named(q) \ ReadOnly

Begin(r, kind, u, pc) ==
    /\ At(r, "idle") /\ saves < MaxSaves
    /\ "saves" \in Races \/ Quiet
    /\ saves' = saves + 1
    /\ Set(r, [Idle EXCEPT !.pc = pc, !.kind = kind, !.updates = u])
    /\ touched' = touched \cup DOMAIN u
    /\ UNCHANGED <<plane, files, amp, director, cached, edits, want, wrote>>

Save(r, u) == Begin(r, "save", u, IF plane = "amp" THEN "amp" ELSE "route")

\* The page offers the array's lines; "plain" ones are added by hand.
SaveRaw(r, lines) == Begin(r, "raw", lines, "route")

EditDirector(r, u) == plane = "amp" /\ Begin(r, "director", u, "director")

Answer(r, ok) ==
    LET q == request[r]
    IN  /\ Set(r, Idle)
        /\ want' = [k \in DOMAIN want |->
                      IF k \notin Changes(q) THEN want[k]
                      ELSE IF ok THEN {Target(q, k)} ELSE want[k] \cup {Target(q, k)}]

\* splitCuratedFromINI and writeServerSettings: the curated settings go to AMP
\* one by one, in any order, and a call that fails ends the save.
SetConfig(r) ==
    LET q == request[r]
        curated == Named(q) \cap Curated
    IN  /\ At(r, "amp") /\ curated # {}
        /\ \E k \in curated :
             /\ amp' = [amp EXCEPT ![k] = q.updates[k]]
             /\ want' = [want EXCEPT ![k] = {q.updates[k]}]
             /\ Set(r, [q EXCEPT !.updates = Restrict(@, DOMAIN @ \ {k})])
        /\ UNCHANGED <<plane, files, director, cached, saves, edits, wrote, touched>>

ApiFails(r) ==
    /\ At(r, "amp") /\ Named(request[r]) \cap Curated # {} /\ Fails("api")
    /\ Answer(r, FALSE)
    /\ UNCHANGED <<plane, files, amp, director, cached, saves, edits, wrote, touched>>

ConfigSet(r) ==
    /\ At(r, "amp") /\ Named(request[r]) \cap Curated = {}
    /\ IF Named(request[r]) = {} THEN Set(r, Idle) ELSE Goto(r, "route")
    /\ UNCHANGED <<plane, files, amp, director, cached, saves, edits, want, wrote, touched>>

\* Which file a section belongs to is known by DefaultEngine.ini, which is read
\* until it was found once.
Route(r) ==
    /\ At(r, "route")
    /\ \E known \in {TRUE} \cup (IF Fails("default") /\ ~cached THEN {FALSE} ELSE {}) :
         /\ cached' = known
         /\ Set(r, [request[r] EXCEPT !.pc = "read game", !.known = known])
    /\ UNCHANGED <<plane, files, amp, director, saves, edits, want, wrote, touched>>

Part(q, f) == Restrict(q.updates, {k \in Named(q) : FileOf(k, q.known) = f})
InFile(q, f) == DOMAIN Part(q, f) # {}

\* readINIContent: a file that cannot be read is an empty one.  A region with
\* no end is refused.
Read(r, pc, f, next, done) ==
    LET q == request[r]
    IN  /\ At(r, pc)
        /\ IF ~InFile(q, f) THEN done
           ELSE \/ /\ f \notin torn
                   /\ Set(r, [q EXCEPT !.pc = next, !.read = disk[f]])
                   /\ UNCHANGED want
                \/ /\ Fails("read")
                   /\ Set(r, [q EXCEPT !.pc = next, !.read = Empty])
                   /\ UNCHANGED want
                \/ f \in torn /\ Answer(r, FALSE)
        /\ UNCHANGED <<plane, files, amp, director, cached, saves, edits, wrote, touched>>

ReadGame(r) == Read(r, "read game", GameFile, "write game",
                    Goto(r, "read engine") /\ UNCHANGED want)
ReadEngine(r) == Read(r, "read engine", "engine", "write engine", Answer(r, TRUE))

New(q, f) ==
    IF q.kind = "save" THEN ApplyUpdates(q.read, Part(q, f))
    ELSE ApplyRaw(q.read, Section(CHOOSE k \in Named(q) : TRUE), Part(q, f))

WriteGame(r) ==
    /\ At(r, "write game")
    /\ disk' = [disk EXCEPT ![GameFile] = New(request[r], GameFile)]
    /\ torn' = torn \ {GameFile}
    /\ Goto(r, "read engine")
    /\ UNCHANGED <<plane, amp, director, cached, saves, edits, want, wrote, touched>>

WriteEngine(r) ==
    /\ At(r, "write engine")
    /\ disk' = [disk EXCEPT !["engine"] = New(request[r], "engine")]
    /\ torn' = torn \ {"engine"}
    /\ Answer(r, TRUE)
    /\ UNCHANGED <<plane, amp, director, cached, saves, edits, wrote, touched>>

\* A write that fails has changed nothing, or ("tear") has cut the file within
\* the managed region: the file is truncated before it is written.
WriteFails(r, pc, f) ==
    /\ At(r, pc)
    /\ \/ Fails("write") /\ UNCHANGED files
       \/ /\ Fails("tear")
          /\ torn' = torn \cup {f}
          /\ disk' = [disk EXCEPT ![f] = [New(request[r], f) EXCEPT !.managed = Empty.managed]]
    /\ Answer(r, FALSE)
    /\ UNCHANGED <<plane, amp, director, cached, saves, edits, wrote, touched>>

\* handleUpdateDirectorConfig, whose read and write may fail as a whole: a file
\* that cannot be read is not written.
ReadDirector(r) ==
    /\ At(r, "director")
    /\ \/ Goto(r, "write director") /\ UNCHANGED want
       \/ Fails("write") /\ Answer(r, FALSE)
    /\ UNCHANGED <<plane, files, amp, director, cached, saves, edits, wrote, touched>>

\* applyDirectorEdits: the lines of secrets and of read-only sections stay.
DirectorEdits(u) ==
    [k \in DirectorKeys |-> IF k \in DOMAIN u \ ReadOnly THEN u[k] ELSE director[k]]

WriteDirector(r) ==
    /\ At(r, "write director")
    /\ \/ director' = DirectorEdits(request[r].updates) /\ Answer(r, TRUE)
       \/ Fails("write") /\ UNCHANGED director /\ Answer(r, FALSE)
    /\ UNCHANGED <<plane, files, amp, cached, saves, edits, wrote, touched>>

-----------------------------------------------------------------------------
(* What happens beside the saves.                                          *)

\* The operator writes or removes a line above the region.
HandEdit(f, k, v) ==
    /\ k \in HandKeys /\ edits < MaxHandEdits /\ disk[f].hand[k] # v
    /\ "hand" \in Races \/ Quiet
    /\ "elsewhere" \in Races \/ f = FileOf(k, TRUE)
    /\ edits' = edits + 1
    /\ disk' = [disk EXCEPT ![f].hand[k] = v]
    /\ wrote' = [wrote EXCEPT ![f][k] = v]
    /\ UNCHANGED <<plane, torn, amp, director, cached, request, saves, touched>>
    /\ want' = [want EXCEPT ![k] = {IF k = Array THEN Mods' ELSE Shown(k)'}]

\* AMP starts the game and writes its configuration into the game's files; with
\* "clobber" they then hold nothing else.
Regenerate ==
    /\ plane = "amp"
    /\ "hand" \in Races \/ Quiet
    /\ disk' = [f \in Files |->
                  IF f = "overrides" THEN disk[f]
                  ELSE [(IF Fails("clobber") THEN Empty ELSE disk[f])
                          EXCEPT !.hand["rate"] = IF f = "game" THEN amp["rate"] ELSE @]]
    /\ wrote' = [wrote EXCEPT !["game"]["rate"] = amp["rate"]]
    /\ UNCHANGED <<plane, torn, amp, director, cached, request, saves, edits, want, touched>>

\* dune-admin starts anew: DefaultEngine.ini is to be found again.
Restart ==
    /\ Quiet /\ cached /\ cached' = FALSE
    /\ UNCHANGED <<plane, files, amp, director, request, saves, edits, want, wrote, touched>>

PlainUpdates == UNION {[S -> {None} \cup Values] : S \in {{"port"}, {"rate", "port"}, {"port", "fog"}}}
RawLines ==
    LET several == {<<>>, <<1>>, <<2, 1>>}
    IN  [{Array} -> several] \cup (IF "plain" \in RawForms THEN [{"port"} -> several \ {<<>>}] ELSE {})

Step(r) == \/ \E u \in PlainUpdates : Save(r, u)
           \/ \E lines \in RawLines : SaveRaw(r, lines)
           \/ \E k \in DirectorKeys : EditDirector(r, [d \in {"grace", k} |-> 2])
           \/ SetConfig(r) \/ ApiFails(r) \/ ConfigSet(r) \/ Route(r)
           \/ ReadGame(r) \/ WriteGame(r) \/ ReadEngine(r) \/ WriteEngine(r)
           \/ WriteFails(r, "write game", GameFile)
           \/ WriteFails(r, "write engine", "engine")
           \/ ReadDirector(r) \/ WriteDirector(r)

Next == \/ \E r \in Requests : Step(r)
        \/ \E f \in Files, k \in Keys, v \in {None} \cup Values : HandEdit(f, k, v)
        \/ Regenerate \/ Restart

Spec == Init /\ [][Next]_vars

-----------------------------------------------------------------------------
Underway(k) == \E r \in Requests : k \in Named(request[r])

\* The page shows what was last saved: an answered save is neither lost nor
\* undone by later ones, by another file or by a start of the game, and one
\* that failed left each of its settings as it was or as it was asked to be
\* (handleUpdateServerSettings, handleUpdateRawSection, applyDirectorEdits).
SettingsShown ==
    /\ \A k \in Plain \cup DirectorKeys : Underway(k) \/ Shown(k) \in want[k]
    /\ Underway(Array) \/ Mods \in want[Array]

\* What the operator wrote stays, but for the settings dune-admin was asked to
\* take over ("hand-edits above the BEGIN marker are preserved").
HandKept ==
    \A f \in Files, k \in Keys : k \in touched \/ disk[f].hand[k] = wrote[f][k]
=============================================================================
