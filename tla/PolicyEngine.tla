----------------------------- MODULE PolicyEngine -----------------------------
(***************************************************************************)
(* governance/lib/policy_engine.py: may an agent use a tool?  Tiers of     *)
(* tools come from state/tool-tiers.yaml (patterns are the sets they       *)
(* match; its list elevated_destructive is read by nobody, so those tools  *)
(* are in no set here), the tier of the task from conductor-state.json.    *)
(***************************************************************************)
EXTENDS Manifest

CONSTANTS Exempt, Elevated, Standard      \* tool-tiers.yaml

ASSUME TiersAssumption == Exempt \cup Elevated \cup Standard \subseteq Tool

\* load_conductor_tier: None counts as STANDARD, and only MAJOR decides anything.
ConductorTier == {"MINOR", "STANDARD", "MAJOR"}

\* _classify_tool: an unknown tool is elevated.
ClassifyTool(tool) ==
    IF tool \in Exempt THEN "exempt"
    ELSE IF tool \in Standard \ Elevated THEN "standard" ELSE "elevated"

Decided(action, gate) == [action |-> action, gate |-> gate]

\* evaluate, for a manifest, a tool and the task's tier.
PolicyDecision(manifest, tool, tier) ==
    IF ClassifyTool(tool) = "exempt" THEN Decided("allow", "none")
    ELSE IF tool \notin manifest.tools THEN Decided("deny", "permitted_tools")
    ELSE IF manifest.depth <= 0 THEN Decided("human_gate", "depth_exhausted")
    ELSE IF manifest.human THEN Decided("human_gate", "manifest_required")
    ELSE IF ClassifyTool(tool) = "elevated" /\ tier = "MAJOR"
         THEN Decided("human_gate", "tier_matrix")
    ELSE Decided("allow", "none")
===============================================================================
