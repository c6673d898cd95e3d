------------------------------ MODULE JourneysMC ------------------------------
(***************************************************************************)
(* A small tree of journeys for TLC: a quest with one step and an errand,  *)
(* one contract that brings a tier's tag, and a preset.                    *)
(***************************************************************************)
EXTENDS Journeys

CONSTANTS quest, step, errand, \* nodes
          Sharing              \* "errand": it brings the step's tag as well
                               \* "preset": the preset lacks the step's tag

BelowMC(n) == IF n = quest THEN {quest, step} ELSE {n}
TagsOfMC(n) == CASE n = step -> {"Stepped"}
                 [] n = errand -> {"Ran"} \cup IF "errand" \in Sharing THEN {"Stepped"} ELSE {}
                 [] OTHER -> {}
NodesMC == {quest, step, errand}
TagsMC == {"Stepped", "Ran", "Contract", "Tier", "Unlocked"}
PresetTagsMC == {"Unlocked", "Tier"} \cup IF "preset" \in Sharing THEN {} ELSE {"Stepped"}
ContractBlocksMC == {<<j, "capstone">> : j \in Jobs}

===============================================================================
