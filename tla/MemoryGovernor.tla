---------------------------- MODULE MemoryGovernor ----------------------------
(***************************************************************************)
(* governance/lib/memory_governor.py: may an agent store content of a      *)
(* classification?  No hook calls it: the write path in use is the one of  *)
(* MemoryWrite.tla.                                                        *)
(***************************************************************************)
EXTENDS Manifest

Public       == 0
Internal     == 1
Confidential == 2
Restricted   == 3

\* _classify_content, of content that matches the patterns of some levels: the
\* highest counts.  public has no patterns that are looked at.
ClassifyContent(matches) ==
    IF Restricted \in matches THEN Restricted
    ELSE IF Confidential \in matches THEN Confidential
    ELSE IF Internal \in matches THEN Internal ELSE Public

\* classify_and_gate: what is confidential is stored, with a gate to review it by.
MemoryDecision(manifest, matches) ==
    LET level == ClassifyContent(matches)
    IN IF level > manifest.class THEN [action |-> "block", gate |-> "ceiling_exceeded"]
       ELSE IF level = Restricted THEN [action |-> "block", gate |-> "restricted_blocked"]
       ELSE IF level = Confidential THEN [action |-> "allow", gate |-> "confidential_queued"]
       ELSE [action |-> "allow", gate |-> "none"]
===============================================================================
