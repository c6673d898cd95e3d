------------------------------- MODULE Journeys -------------------------------
(***************************************************************************)
(* The player's journeys, contracts and standing with a great house, as    *)
(* dune-admin completes, resets and sets them (db.go,                      *)
(* progression_presets.go, handlers_players.go), composed with the         *)
(* character's sheet of module Progress: a contract opens and strips skill *)
(* blocks there.                                                           *)
(*                                                                         *)
(* Journey nodes and the faction component are loaded by the game server   *)
(* at login and written back at logout; tags and the reputation table are  *)
(* shared.  The page reads the nodes through a cache.                      *)
(***************************************************************************)
EXTENDS Progress

CONSTANTS Nodes, Tags,
          Below(_),        \* a node and what lies under it
          TagsOf(_),       \* journey_node_tags
          ContractTags, ContractBlocks, \* of the one contract
          PresetNodes, PresetTags,      \* nodesForPreset, progressionUnlockTags
          VisionNodes,     \* DA_MQ_FindTheFremen and what lies under it
          TierTags,        \* Faction.<X>.Tier<N>
          TierRep,         \* one more than the tier's threshold
          RepCap

ASSUME JourneyAssumption ==
    /\ ContractTags \cup PresetTags \cup TierTags \subseteq Tags
    /\ ContractBlocks \subseteq Modules
    /\ PresetNodes \cup VisionNodes \subseteq Nodes
    /\ RepCap \in Nat /\ TierRep \in 0..RepCap

VARIABLES nodes,     \* journey_story_node: "none" without a row, "open" or "done"
          tags,      \* player_tags
          rep,       \* player_faction_reputation of the house
          component, \* what the controller's FactionPlayerComponent shows of it
          aligned,   \* player_faction names the house
          active,    \* the contract is an item the player carries
          vision,    \* SpiceVisionEnabledStatus
          world,     \* the game server's nodes and component while the player plays
          cache,     \* journeyCache: the write its nodes were read after, or None
          writes     \* how many statements of dune-admin changed the nodes

journey == <<nodes, tags, rep, component, aligned, active, vision, world, cache, writes>>
standing == <<rep, component, aligned>>

TagsUnder(n) == UNION {TagsOf(m) : m \in Below(n)}
AllTags == UNION {TagsOf(n) : n \in Nodes}

Init == /\ ProgressInit
        /\ nodes \in {[n \in Nodes |-> "none"], [n \in Nodes |-> "open"]}
        /\ tags = {} /\ rep = 0 /\ component = 0 /\ aligned = FALSE
        /\ active = FALSE /\ vision = FALSE
        /\ world = None
        /\ cache = None /\ writes = 0

\* Most requests look alike: what is left to do, and where to go on after the
\* tags (after) and the skill blocks (to) are written.
Job(pc, left, set, target, after) ==
    [nodes |-> left, tags |-> set, rep |-> target, pc |-> pc,
     left |-> ContractBlocks, after |-> after, node |-> None,
     to |-> IF pc = "addTags" THEN "dismiss" ELSE "invalidate"]
Starts(r, job) == /\ request' = [request EXCEPT ![r] = job]
                  /\ UNCHANGED <<sheets, tables, sent, history, journey>>
Elsewhere == UNCHANGED <<sheets, tables, sent, counts, history>>

-----------------------------------------------------------------------------
(* Journey nodes.                                                          *)

\* One node, or the nodes of a progression preset one after the other.
AskComplete(r) == \E left \in {{n} : n \in Nodes} \cup {PresetNodes} :
    MayAsk(r, "complete") /\ Starts(r, Job("next", left, {}, 0, "vision"))
AskReset(r) == \E n \in Nodes : MayAsk(r, "reset") /\ Starts(r, Job("reset", {n}, TagsUnder(n), 0, "idle"))
AskWipe(r) == MayAsk(r, "wipe") /\ Starts(r, Job("wipe", {}, AllTags, 0, "idle"))
AskUnlock(r) == \E kind \in {"unlock", "relock"} : MayAsk(r, kind) /\ Starts(r, Job(kind, {}, {}, 0, "idle"))

\* applyProgressionPresetNodes; the handler invalidates the cache at the end.
NextNode(r) ==
    /\ At(r, "next")
    /\ IF request[r].nodes = {} THEN Goes(r, "invalidate")
       ELSE \E n \in request[r].nodes : request' = [request EXCEPT ![r] =
                [@ EXCEPT !.pc = "complete", !.nodes = @ \ {n}, !.node = n, !.tags = TagsUnder(n)]]
    /\ Elsewhere /\ UNCHANGED journey

\* The rows that exist become complete; without any, the node alone gets one.
Complete(r) ==
    LET rows == {m \in Below(request[r].node) : nodes[m] # "none"} IN
    /\ At(r, "complete")
    /\ nodes' = [m \in Nodes |-> IF m \in rows THEN "done" ELSE nodes[m]]
    /\ writes' = IF rows = {} THEN writes ELSE writes + 1
    /\ Goes(r, IF rows = {} THEN "insertNode" ELSE "addTags")
    /\ Elsewhere /\ UNCHANGED <<tags, standing, active, vision, world, cache>>

\* The insert is refused when the row has appeared since.
InsertNode(r) ==
    LET n == request[r].node IN
    /\ At(r, "insertNode")
    /\ IF nodes[n] # "none" THEN Ends(r) /\ UNCHANGED <<nodes, writes>>
       ELSE nodes' = [nodes EXCEPT ![n] = "done"] /\ writes' = writes + 1 /\ Goes(r, "addTags")
    /\ Elsewhere /\ UNCHANGED <<tags, standing, active, vision, world, cache>>

\* maybeGrantSpiceVision.
GrantVision(r) ==
    /\ At(r, "vision")
    /\ vision' = (vision \/ request[r].node \in VisionNodes)
    /\ Goes(r, "next")
    /\ Elsewhere /\ UNCHANGED <<nodes, tags, standing, active, world, cache, writes>>

ResetNode(r) ==
    /\ At(r, "reset")
    /\ \E n \in request[r].nodes : nodes' = [m \in Nodes |->
           IF m \in Below(n) /\ nodes[m] = "done" THEN "open" ELSE nodes[m]]
    /\ writes' = writes + 1 /\ Goes(r, "removeTags")
    /\ Elsewhere /\ UNCHANGED <<tags, standing, active, vision, world, cache>>

WipeNodes(r) ==
    /\ At(r, "wipe")
    /\ nodes' = [n \in Nodes |-> "none"]
    /\ writes' = writes + 1 /\ Goes(r, "removeTags")
    /\ Elsewhere /\ UNCHANGED <<tags, standing, active, vision, world, cache>>

-----------------------------------------------------------------------------
(* Tags, and the reputation that a tier's tag brings.                      *)

\* Bug: only the node's own tags are added, not those under it.
AddedOwn(q) == IF q.node = None THEN q.tags ELSE TagsOf(q.node)
Added(q) == q.tags

\* applyTagsWithTierBump.
AddTags(r) ==
    LET q == request[r] IN
    /\ At(r, "addTags")
    /\ tags' = tags \cup Added(q)
    /\ request' = [request EXCEPT ![r] = IF Added(q) \cap TierTags = {}
           THEN [@ EXCEPT !.pc = q.after] ELSE [@ EXCEPT !.pc = "readRep", !.rep = TierRep]]
    /\ Elsewhere /\ UNCHANGED <<nodes, standing, active, vision, world, cache, writes>>

\* A bump never lowers the reputation; when nothing rises, nothing is synced.
BumpOrNot(r) ==
    /\ At(r, "readRep")
    /\ Goes(r, IF rep >= request[r].rep THEN request[r].after ELSE "setRep")
    /\ Elsewhere /\ UNCHANGED journey

RemoveTags(r) ==
    /\ At(r, "removeTags")
    /\ tags' = tags \ request[r].tags
    /\ Goes(r, IF request[r].after = "strip" THEN "stripBlocks" ELSE "invalidate")
    /\ Elsewhere /\ UNCHANGED <<nodes, standing, active, vision, world, cache, writes>>

-----------------------------------------------------------------------------
(* Contracts.                                                              *)

AskContract(r) ==
    \/ MayAsk(r, "contract") /\ Starts(r, Job("addTags", {}, ContractTags, 0, "grantBlocks"))
    \/ MayAsk(r, "reverse") /\ Starts(r, Job("removeTags", {}, ContractTags, 0, "strip"))

\* The other way round, GrantBlocks, is among the Steps of module Progress.
StripContract(r) == StripBlocks(r) /\ UNCHANGED journey

\* dismissActiveContracts.
Dismiss(r) ==
    /\ At(r, "dismiss")
    /\ active' = FALSE /\ Goes(r, "invalidate")
    /\ Elsewhere /\ UNCHANGED <<nodes, tags, standing, vision, world, cache, writes>>

-----------------------------------------------------------------------------
(* The great house.                                                        *)

AskRep(r) == \E delta \in {-1, 1, RepCap} :
    MayAsk(r, "rep") /\ Starts(r, Job("readDelta", {}, {}, delta, "idle"))
AskTier(r) == \E target \in {0, TierRep} :
    MayAsk(r, "tier") /\ Starts(r, Job("align", {}, {}, target, "idle"))

\* applyFactionRepDelta.
ReadDelta(r) ==
    /\ At(r, "readDelta")
    /\ request' = [request EXCEPT ![r] =
           [@ EXCEPT !.pc = "setRep", !.rep = Min({NotNegative(rep + @), RepCap})]]
    /\ Elsewhere /\ UNCHANGED journey

\* cmdSetFactionTier aligns the player first.
Align(r) ==
    /\ At(r, "align")
    /\ aligned' = TRUE /\ Goes(r, "setRep")
    /\ Elsewhere /\ UNCHANGED <<nodes, tags, rep, component, active, vision, world, cache, writes>>

SetRep(r) ==
    /\ At(r, "setRep")
    /\ rep' = request[r].rep /\ Goes(r, "readSync")
    /\ Elsewhere
    /\ UNCHANGED <<nodes, tags, component, aligned, active, vision, world, cache, writes>>

\* buildFactionDataArray.
Synced(table, shown) == table

\* syncFactionComponent reads the table, then rebuilds the component.
ReadSync(r) ==
    /\ At(r, "readSync")
    /\ request' = [request EXCEPT ![r] = [@ EXCEPT !.pc = "writeSync", !.rep = Synced(rep, component)]]
    /\ Elsewhere /\ UNCHANGED journey
WriteSync(r) ==
    /\ At(r, "writeSync")
    /\ component' = request[r].rep /\ Goes(r, request[r].after)
    /\ Elsewhere
    /\ UNCHANGED <<nodes, tags, rep, aligned, active, vision, world, cache, writes>>

-----------------------------------------------------------------------------
(* The unlock of a faction's story, in one transaction each way.           *)

\* applyProgressionUnlock; complete_journey_story_nodes_for_player refuses
\* while the player is online.
Unlock(r) ==
    /\ At(r, "unlock")
    /\ IF online THEN Ends(r) /\ UNCHANGED <<nodes, tags, standing, writes>>
       ELSE /\ nodes' = [n \in Nodes |-> IF n \in PresetNodes THEN "done" ELSE nodes[n]]
            /\ tags' = tags \cup PresetTags
            /\ rep' = TierRep /\ component' = Synced(rep', component) /\ aligned' = TRUE
            /\ writes' = writes + 1 /\ Goes(r, "invalidate")
    /\ Elsewhere /\ UNCHANGED <<active, vision, world, cache>>

Untagged == PresetTags \cup UNION {TagsUnder(n) : n \in PresetNodes}

\* applyProgressionReverse: reputation and alignment stay.
Relock(r) ==
    /\ At(r, "relock")
    /\ tags' = tags \ Untagged
    /\ nodes' = [n \in Nodes |->
           IF n \in PresetNodes /\ nodes[n] = "done" THEN "open" ELSE nodes[n]]
    /\ writes' = writes + 1 /\ Goes(r, "invalidate")
    /\ Elsewhere /\ UNCHANGED <<standing, active, vision, world, cache>>

-----------------------------------------------------------------------------
(* The cache of the journeys page.                                         *)

\* cmdFetchJourneyNodes: a hit is served; a miss queries and then stores.
AskFetch(r) == /\ cache = None
               /\ MayAsk(r, "fetch") /\ Starts(r, Job("query", {}, {}, 0, "idle"))
Query(r) ==
    /\ At(r, "query")
    /\ request' = [request EXCEPT ![r] = [@ EXCEPT !.pc = "store", !.rep = writes]]
    /\ Elsewhere /\ UNCHANGED journey
Store(r) ==
    /\ At(r, "store")
    /\ cache' = request[r].rep /\ Ends(r)
    /\ Elsewhere /\ UNCHANGED <<nodes, tags, standing, active, vision, world, writes>>

\* The end of journeyCacheTTL.
Expire == /\ cache # None /\ cache' = None
          /\ Elsewhere /\ UNCHANGED <<request, nodes, tags, standing, active, vision, world, writes>>

\* Bug: an entry outlives the change.
InvalidatedNothing == cache
Invalidated == None

\* invalidateAllJourneyCache, once the handler's command succeeded.
Invalidate(r) ==
    /\ At(r, "invalidate")
    /\ cache' = Invalidated /\ Ends(r)
    /\ Elsewhere /\ UNCHANGED <<nodes, tags, standing, active, vision, world, writes>>

-----------------------------------------------------------------------------
(* The player and the game server.                                         *)

LoadsWorld == /\ Login
              /\ world' = [nodes |-> nodes, component |-> component]
              /\ UNCHANGED <<nodes, tags, standing, active, vision, cache, writes>>
SavesWorld == /\ Logout
              /\ nodes' = world.nodes /\ component' = world.component /\ world' = None
              /\ UNCHANGED <<tags, rep, aligned, active, vision, cache, writes>>
PlaysOn == /\ Earn \/ Spend \/ BuyKeystone \/ Deliver
           /\ UNCHANGED journey

Acts == Plays /\ UNCHANGED <<sheets, tables, sent, request, history>>

\* A node is revealed, or completed with the tags that go with it.
Quest == \E n \in Nodes :
    /\ Acts /\ world.nodes[n] # "done"
    /\ world' = [world EXCEPT !.nodes[n] = IF @ = "none" THEN "open" ELSE "done"]
    /\ tags' = IF world.nodes[n] = "open" THEN tags \cup TagsOf(n) ELSE tags
    /\ UNCHANGED <<nodes, standing, active, vision, cache, writes>>

GainStanding ==
    /\ Acts /\ world.component < RepCap
    /\ world' = [world EXCEPT !.component = @ + 1] /\ rep' = world.component + 1
    /\ UNCHANGED <<nodes, tags, component, aligned, active, vision, cache, writes>>

TakeContract ==
    /\ Acts /\ ~active /\ ~(ContractTags \subseteq tags)
    /\ active' = TRUE
    /\ UNCHANGED <<nodes, tags, standing, vision, world, cache, writes>>

JourneySteps(r) ==
    \/ AskComplete(r) \/ AskReset(r) \/ AskWipe(r) \/ AskUnlock(r)
    \/ AskContract(r) \/ AskRep(r) \/ AskTier(r) \/ AskFetch(r)
    \/ NextNode(r) \/ Complete(r) \/ InsertNode(r) \/ GrantVision(r)
    \/ ResetNode(r) \/ WipeNodes(r)
    \/ AddTags(r) \/ BumpOrNot(r) \/ RemoveTags(r)
    \/ StripContract(r) \/ Dismiss(r)
    \/ ReadDelta(r) \/ Align(r) \/ SetRep(r) \/ ReadSync(r) \/ WriteSync(r)
    \/ Unlock(r) \/ Relock(r) \/ Query(r) \/ Store(r) \/ Invalidate(r)

Next ==
    \/ \E r \in Requests : JourneySteps(r) \/ (Steps(r) /\ UNCHANGED journey)
    \/ LoadsWorld \/ SavesWorld \/ PlaysOn
    \/ Quest \/ GainStanding \/ TakeContract \/ Expire

vars == <<sheets, tables, sent, request, counts, history, journey>>
Spec == Init /\ [][Next]_vars

-----------------------------------------------------------------------------
(* Properties.                                                             *)

Quests == IF online THEN world.nodes ELSE nodes
Shown == IF online THEN world.component ELSE component
States == [Nodes -> {"none", "open", "done"}]

\* The variables stay in their domains.
TypeOK ==
    /\ ProgressTypeOK
    /\ {nodes, Quests} \subseteq States /\ tags \subseteq Tags
    /\ {rep, component, Shown} \subseteq 0..RepCap
    /\ {aligned, active, vision} \subseteq BOOLEAN
    /\ writes \in Nat /\ cache \in {None} \cup 0..writes

\* "Without this the DB row is flipped but the player is missing the side effects
\* the game would have written": a completed node has its tags, and a contract
\* whose tags the player has is no longer on the list.
SideEffects ==
    Resting => /\ \A n \in Nodes : Quests[n] = "done" => TagsOf(n) \subseteq tags
               /\ ~(active /\ ContractTags \subseteq tags)

\* The rank the game shows, its component, is the reputation in the table, for
\* every way to change either.
ComponentMirrors == Resting => Shown = rep

\* "Never lowers existing rep": completing nodes and contracts leaves the
\* reputation at least where it was.
NeverLowered ==
    [][ \A r \in Requests :
          /\ At(r, "setRep") /\ request[r].after # "idle" /\ request'[r] # request[r]
          => rep' >= rep ]_<<rep, request>>

\* The page never shows nodes as they were before a finished change.
CacheFresh == Resting => cache \in {None, writes}

\* What a finished change leaves behind is whole: the side effects are there, and what
\* the game and the page show is what is stored.
JourneysSound == SideEffects /\ ComponentMirrors /\ CacheFresh

\* "Branches the player genuinely levelled beyond the admin grant are left
\* intact": no contract, completed or reversed, takes a spent point.
SpentKept ==
    [][ \A r \in Requests :
          /\ ~(online /\ ~online')
          /\ request[r].pc \in {"stripBlocks", "grantBlocks"} /\ request'[r] # request[r]
          => \A m \in Modules : sheet.spent[m] > 1 => sheet'.spent[m] = sheet.spent[m]
      ]_<<sheet, online, request>>

\* A switch of the starter class leaves nothing of the old one's first row, and
\* no contract takes a point the player spent.
SkillsHandled == SwitchClears /\ SpentKept


===============================================================================
