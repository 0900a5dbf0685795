------------------------------- MODULE Manifest -------------------------------
(***************************************************************************)
(* governance/lib/manifest.py: agent manifests and how the manifest of a   *)
(* delegated agent follows from its static manifest and its parent's.      *)
(* A manifest is reduced to the fields that decisions read; classification *)
(* levels are their indices in CLASSIFICATION_ORDER, a pattern list is the *)
(* set of what it matches, and the five fields of human attribution, which *)
(* travel together, are one anchor.                                        *)
(***************************************************************************)
EXTENDS Integers

CONSTANTS
    Agent,        \* agent ids
    Tool,         \* tool names
    Human,        \* human principals
    NoHuman,      \* attribution fields absent
    NoManifest    \* no manifest: None

TrustLevel     == 1..5
Classification == 0..3     \* public, internal, confidential, restricted

Manifest ==
    [trust    : TrustLevel,          \* trust_level
     class    : Classification,      \* data_classification
     tools    : SUBSET Tool,         \* permitted_tools
     targets  : SUBSET Agent,        \* permitted_delegations
     human    : BOOLEAN,             \* human_required
     depth    : Nat,                 \* max_autonomy_depth
     count    : Nat,                 \* max_delegation_count
     anchor   : Human \cup {NoHuman}]

\* What a ceiling enforced on an exhausted parent would give: one below zero.
\* The broker resolves the target before it looks at the parent's depth.
Resolved == [trust : TrustLevel, class : Classification, tools : SUBSET Tool,
             targets : SUBSET Agent, human : BOOLEAN, depth : Nat \cup {-1},
             count : Nat, anchor : Human \cup {NoHuman}]

\* The smaller of two numbers, and _min_classification.
Least(a, b) == IF a <= b THEN a ELSE b

\* _propagate_human_attribution: fields present in the parent are copied.  The fields
\* (human_user_id, the responsible person, the MFA proof) are copied one by one; here
\* they are one anchor, which a manifest has or has not.
Propagate(parent, own) == IF parent.anchor = NoHuman THEN own ELSE parent.anchor

\* Mutant: the requirement of a human stays behind.
EnforceParentCeilingUngated(static, parent) ==
    [static EXCEPT !.trust  = Least(@, parent.trust),
                   !.class  = Least(@, parent.class),
                   !.depth  = Least(@, parent.depth - 1),
                   !.anchor = Propagate(parent, @)]

EnforceParentCeiling(static, parent) ==
    [static EXCEPT !.trust  = Least(@, parent.trust),
                   !.class  = Least(@, parent.class),
                   !.depth  = Least(@, parent.depth - 1),
                   !.human  = @ \/ parent.human,
                   !.anchor = Propagate(parent, @)]

DeriveChildManifest(parent) ==
    [trust   |-> Least(parent.trust, 2),
     class   |-> parent.class,
     tools   |-> {},
     targets |-> {},
     human   |-> parent.trust <= 2,
     depth   |-> IF parent.depth >= 1 THEN parent.depth - 1 ELSE 0,
     count   |-> 0,
     anchor  |-> Propagate(parent, NoHuman)]

DefaultRestrictive ==
    [trust |-> 1, class |-> 0, tools |-> {}, targets |-> {}, human |-> TRUE,
     depth |-> 0, count |-> 0, anchor |-> NoHuman]

\* resolve_manifest, of a static manifest or NoManifest and a parent's or
\* NoManifest.
ResolveManifest(static, parent) ==
    IF static # NoManifest
    THEN IF parent # NoManifest THEN EnforceParentCeiling(static, parent) ELSE static
    ELSE IF parent # NoManifest THEN DeriveChildManifest(parent) ELSE DefaultRestrictive
===============================================================================
