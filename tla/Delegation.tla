------------------------------ MODULE Delegation ------------------------------
(***************************************************************************)
(* Delegation with the Task tool in one session: the PreToolUse hook       *)
(* (hooks/pre_tool_check.py) asks the trust broker, which counts earlier   *)
(* delegations in the audit log, registers the manifest of the target and  *)
(* records the delegation; the PostToolUse hook (post_task_cleanup.py)     *)
(* deregisters it when the task is over (governance/lib/trust_broker.py).  *)
(* A hook is a process; hooks of parallel tool calls interleave.  The      *)
(* registry file is locked for each single access, and the audit database  *)
(* for each single query or insert.                                        *)
(*                                                                         *)
(* A hook that finds no session id in state/session-state.json (another    *)
(* has truncated it, see GatePairing.tla) is blind: it asks no registry    *)
(* and counts nothing.  One that raises lets the call through.             *)
(***************************************************************************)
EXTENDS PolicyEngine, MemoryGovernor, FiniteSets

CONSTANTS
    Hook,             \* PreToolUse hook processes that may exist at once
    Conductor,        \* the agent the session starts with
    Unknown,          \* "unknown", whose static manifest is the fallback
    Static,           \* Static[a]: state/manifests/a.yaml, or NoManifest
    MaxRunning,       \* bound: running tasks of one agent
    MaxLevel,         \* bound: nesting of tasks
    MaxGranted,       \* bound: tasks one agent is let start, delegations recorded
    Overlap,          \* may hooks overlap?
    SameAgentTwice,   \* may an agent have two tasks (or delegate to itself)?
    Expiry,           \* may a task outlive TTL_SECONDS?
    MaxOutages,       \* bound: how often the audit database becomes unavailable
    Failures          \* may hooks be killed, time out or raise (and fail open)?

ASSUME AgentAssumption == {Conductor, Unknown} \subseteq Agent
ASSUME ManifestAssumption == NoManifest \notin Resolved /\ NoHuman \notin Human
ASSUME StaticAssumption == Static \in [Agent -> Manifest \cup {NoManifest}]
ASSUME TaskAssumption == "Task" \in Tool
ASSUME HookAssumption == IsFiniteSet(Hook) /\ Hook # {}
ASSUME BoundsAssumption == MaxRunning \in Nat \ {0} /\ {MaxLevel, MaxGranted, MaxOutages} \subseteq Nat
ASSUME SwitchAssumption ==
    {Overlap, SameAgentTwice, Expiry, Failures} \subseteq BOOLEAN

VARIABLES
    sid,        \* does session-state.json hold the session id?
    registry,   \* registry[a]: the manifest active for a, or NoManifest
    stale,      \* agents whose entry is older than TTL_SECONDS
    dbUp,       \* can the audit database be read and written?
    outages,    \* how many outages have begun
    issued,     \* issued[a]: a's allowed delegation_events in the database
    late,       \* late[a]: those still in the fallback buffer
    pc,         \* pc[h]: the next step of hook h
    source,     \* source[h]: the agent whose call h decides on
    target,     \* target[h]: the agent it delegates to
    seen,       \* seen[h]: did h read the session id?
    loaded,     \* loaded[h]: the source's manifest as h resolved it
    running,    \* running[a]: tasks of a that are running
    level,      \* level[a]: how deep the last task of a was nested, while one runs
    granted,    \* history: granted[a]: tasks a was let start
    astray      \* history: agents whose task, or one above it, was not registered

database == <<dbUp, outages>>
hooks == <<pc, source, target, seen, loaded>>
tasks == <<running, level, granted, astray>>
vars == <<sid, registry, stale, database, issued, late, hooks, tasks>>

TypeOK ==
    /\ sid \in BOOLEAN /\ seen \in [Hook -> BOOLEAN] /\ astray \subseteq Agent
    /\ registry \in [Agent -> Manifest \cup {NoManifest}]
    /\ stale \subseteq Agent
    /\ dbUp \in BOOLEAN /\ outages \in 0..MaxOutages
    /\ issued \in [Agent -> Nat] /\ late \in [Agent -> Nat] /\ granted \in [Agent -> Nat]
    /\ pc \in [Hook -> {"idle", "broker", "evaluate", "register", "emit"}]
    /\ source \in [Hook -> Agent] /\ target \in [Hook -> Agent]
    /\ loaded \in [Hook -> Manifest]
    /\ running \in [Agent -> Nat] /\ level \in [Agent -> Nat]

\* session_start.py: the conductor's static manifest, or the default one.
Top == ResolveManifest(Static[Conductor], NoManifest)

Init ==
    /\ sid = TRUE
    /\ registry = [a \in Agent |-> IF a = Conductor THEN Top ELSE NoManifest]
    /\ stale = {}
    /\ dbUp = TRUE /\ outages = 0
    /\ issued = [a \in Agent |-> 0] /\ late = [a \in Agent |-> 0]
    /\ pc = [h \in Hook |-> "idle"]
    /\ source = [h \in Hook |-> Conductor] /\ target = [h \in Hook |-> Conductor]
    /\ seen = [h \in Hook |-> FALSE]
    /\ loaded = [h \in Hook |-> DefaultRestrictive]
    /\ running = [a \in Agent |-> IF a = Conductor THEN 1 ELSE 0]
    /\ level = [a \in Agent |-> 0]
    /\ granted = [a \in Agent |-> 0]
    /\ astray = {}

Busy(h) == pc[h] # "idle"

\* The process exits.
Exit(h) ==
    /\ pc' = [pc EXCEPT ![h] = "idle"]
    /\ source' = [source EXCEPT ![h] = Conductor]
    /\ target' = [target EXCEPT ![h] = Conductor]
    /\ seen' = [seen EXCEPT ![h] = FALSE]
    /\ loaded' = [loaded EXCEPT ![h] = DefaultRestrictive]

-------------------------------------------------------------------------------
(* session-state.json *)

\* A hook that tracks or consumes a gate truncates the file before it writes it; if
\* hooks overlap or die, others find nothing there, or it stays empty
\* (GatePairingProofs!SessionKept: only then).
Cut ==
    /\ Overlap \/ Failures
    /\ sid /\ sid' = FALSE
    /\ UNCHANGED <<registry, stale, database, issued, late, hooks, tasks>>

\* The session id is written back by a hook that had read it.
WrittenBack ==
    /\ ~sid /\ sid' = TRUE
    /\ UNCHANGED <<registry, stale, database, issued, late, hooks, tasks>>

-------------------------------------------------------------------------------
(* pre_tool_check.py *)

\* The manifest a hook run for agent a goes by: the registered one, if it has read the
\* session id, or else the static one; one that permits no tool is replaced by that of
\* "unknown".
Effective(a, sees) ==
    LET own == IF sees /\ registry[a] # NoManifest THEN registry[a]
               ELSE ResolveManifest(Static[a], NoManifest)
    IN IF own.tools = {} THEN ResolveManifest(Static[Unknown], NoManifest) ELSE own

\* A running agent calls Task.
Load(h, a, t) ==
    /\ ~Busy(h) /\ running[a] > 0
    /\ Overlap \/ \A k \in Hook : ~Busy(k)
    /\ running[t] < MaxRunning /\ level[a] < MaxLevel
    /\ granted[a] < MaxGranted /\ issued[a] + late[a] <= MaxGranted
    /\ SameAgentTwice \/ (running[t] = 0 /\ \A k \in Hook : Busy(k) => target[k] # t)
    /\ pc' = [pc EXCEPT ![h] = "broker"]
    /\ source' = [source EXCEPT ![h] = a]
    /\ target' = [target EXCEPT ![h] = t]
    /\ seen' = [seen EXCEPT ![h] = sid]
    /\ loaded' = [loaded EXCEPT ![h] = Effective(a, sid)]
    /\ UNCHANGED <<sid, registry, stale, database, issued, late, tasks>>

\* A bus that is built with the database up replays the buffer, ...
Replayed ==
    /\ dbUp
    /\ issued' = [a \in Agent |-> issued[a] + late[a]]
    /\ late' = [a \in Agent |-> 0]

\* get_trust_broker builds the hook's bus; another process may have taken the buffer,
\* and the replay may fail.
BuildBroker(h) ==
    /\ pc[h] = "broker" /\ dbUp
    /\ Replayed \/ UNCHANGED <<issued, late>>
    /\ pc' = [pc EXCEPT ![h] = "evaluate"]
    /\ UNCHANGED <<sid, registry, stale, database, source, target, seen, loaded, tasks>>

\* The target's manifest under the source's ceiling.
Child(h) == ResolveManifest(Static[target[h]], loaded[h])

\* What query() counts: nothing, when the database cannot be read or no session is named.
Counted(h) == IF dbUp /\ seen[h] THEN issued[source[h]] ELSE 0

\* A static manifest names no session: only a source's manifest that has been given one
\* (or the default, which has the field) can be a parent in enforce_parent_ceiling.
HasSession(h) == seen[h] \/ (Static[Unknown] = NoManifest /\ loaded[h].tools = {})
Resolvable(h) == HasSession(h) \/ Static[target[h]] = NoManifest

\* Mutant: an exhausted depth is let through.
PermittedAnyDepth(h, count) ==
    /\ count < loaded[h].count
    /\ Child(h).class <= loaded[h].class
    /\ Child(h).trust <= loaded[h].trust
    /\ target[h] \in loaded[h].targets

\* Mutant: one delegation too many.
PermittedOneMore(h, count) ==
    /\ count <= loaded[h].count
    /\ loaded[h].depth > 0
    /\ Child(h).class <= loaded[h].class
    /\ Child(h).trust <= loaded[h].trust
    /\ target[h] \in loaded[h].targets

\* The checks of evaluate_delegation in its order: breadth, depth,
\* classification, trust, permitted targets.
Permitted(h, count) ==
    /\ count < loaded[h].count
    /\ loaded[h].depth > 0
    /\ Child(h).class <= loaded[h].class
    /\ Child(h).trust <= loaded[h].trust
    /\ target[h] \in loaded[h].targets

\* A denial or an escalation is emitted and blocks the call.
Evaluate(h) ==
    /\ pc[h] = "evaluate" /\ Resolvable(h)
    /\ IF Permitted(h, Counted(h))
       THEN pc' = [pc EXCEPT ![h] = "register"] /\ UNCHANGED <<source, target, seen, loaded>>
       ELSE Exit(h)
    /\ UNCHANGED <<sid, registry, stale, database, issued, late, tasks>>

\* register_active: the new entry goes in, under the session's key or, if the hook is
\* blind, under another that no hook asks for; and old entries are purged.
Entered(h, entry) ==
    /\ pc[h] = "register"
    /\ registry' = [a \in Agent |->
                       IF a = target[h] /\ seen[h] THEN entry
                       ELSE IF a \in stale THEN NoManifest ELSE registry[a]]
    /\ stale' = {}
    /\ pc' = [pc EXCEPT ![h] = "emit"]
    /\ UNCHANGED <<sid, database, issued, late, source, target, seen, loaded, tasks>>

\* Mutant: the entry is the static manifest.
RegisterStatic(h) == Entered(h, ResolveManifest(Static[target[h]], NoManifest))

Register(h) == Entered(h, Child(h))

\* The hook lets the call through.  The task is governed if its manifest is in the
\* registry, and was derived from that of a source that is governed.
StartTask(h) ==
    LET governed == pc[h] = "emit" /\ seen[h] /\ source[h] \notin astray
    IN /\ running' = [running EXCEPT ![target[h]] = @ + 1]
       /\ level' = [level EXCEPT ![target[h]] = level[source[h]] + 1]
       /\ granted' = [granted EXCEPT ![source[h]] = @ + 1]
       /\ astray' = IF governed THEN astray \ {target[h]} ELSE astray \cup {target[h]}

\* The delegation_event is recorded or buffered, a blind hook's for no session; then the
\* policy engine has its say.  A human gate lets the call through: there is no way to
\* answer it.
Emit(h) ==
    /\ pc[h] = "emit"
    /\ Exit(h)
    /\ IF ~seen[h] THEN UNCHANGED <<issued, late>>
       ELSE IF dbUp THEN issued' = [issued EXCEPT ![source[h]] = @ + 1] /\ UNCHANGED late
       ELSE late' = [late EXCEPT ![source[h]] = @ + 1] /\ UNCHANGED issued
    /\ \E tier \in ConductorTier :
          IF PolicyDecision(loaded[h], "Task", tier).action # "deny"
          THEN StartTask(h) ELSE UNCHANGED tasks
    /\ UNCHANGED <<sid, registry, stale, database>>

\* What raises by itself: the constructor of the bus while the database is away
\* (_ensure_schema), and the ceiling of a parent that names no session.
Raising(h) ==
    \/ pc[h] = "broker" /\ ~dbUp
    \/ pc[h] = "evaluate" /\ ~Resolvable(h)

\* "Fail-open on any exception", and the hook's timeout: the call goes through.
FailOpen(h) ==
    /\ Raising(h) \/ (Failures /\ Busy(h))
    /\ Exit(h)
    /\ StartTask(h)
    /\ UNCHANGED <<sid, registry, stale, database, issued, late>>

\* Another hook's bus replays the buffer.
Replay ==
    /\ \E a \in Agent : late[a] > 0
    /\ Replayed
    /\ UNCHANGED <<sid, registry, stale, database, hooks, tasks>>

DbFail ==
    /\ dbUp /\ outages < MaxOutages
    /\ dbUp' = FALSE /\ outages' = outages + 1
    /\ UNCHANGED <<sid, registry, stale, issued, late, hooks, tasks>>

DbRecover ==
    /\ ~dbUp /\ dbUp' = TRUE
    /\ UNCHANGED <<sid, registry, stale, outages, issued, late, hooks, tasks>>

-------------------------------------------------------------------------------
(* post_task_cleanup.py, and time. *)

\* A task of t ends, none of whose calls is pending, and deregister(t) is run for
\* it: the entry is t's, whichever of t's tasks it was registered for.  (Without a
\* session id deregister takes the entries of t in every session, this one's too.)
Finish(t) ==
    /\ t # Conductor /\ running[t] > 0
    /\ running[t] > 1 \/ \A h \in Hook : Busy(h) => source[h] # t
    /\ running' = [running EXCEPT ![t] = @ - 1]
    /\ \/ registry' = [registry EXCEPT ![t] = NoManifest] /\ stale' = stale \ {t}
       \/ Failures /\ UNCHANGED <<registry, stale>>
    /\ IF running[t] > 1 THEN UNCHANGED <<level, astray>>
       ELSE level' = [level EXCEPT ![t] = 0] /\ astray' = astray \ {t}
    /\ UNCHANGED <<sid, database, issued, late, hooks, granted>>

Expire(a) ==
    /\ Expiry /\ registry[a] # NoManifest /\ a \notin stale
    /\ stale' = stale \cup {a}
    /\ UNCHANGED <<sid, registry, database, issued, late, hooks, tasks>>

\* purge_stale, when another session starts.
Purge ==
    /\ stale # {}
    /\ registry' = [a \in Agent |-> IF a \in stale THEN NoManifest ELSE registry[a]]
    /\ stale' = {}
    /\ UNCHANGED <<sid, database, issued, late, hooks, tasks>>

Next ==
    \/ \E h \in Hook, a, t \in Agent : Load(h, a, t)
    \/ \E h \in Hook : \/ BuildBroker(h) \/ Evaluate(h) \/ Register(h) \/ Emit(h)
                       \/ FailOpen(h)
    \/ \E a \in Agent : Finish(a) \/ Expire(a)
    \/ Replay \/ Purge \/ DbFail \/ DbRecover \/ Cut \/ WrittenBack

Spec == Init /\ [][Next]_vars

-------------------------------------------------------------------------------
(* Properties. *)

\* Static manifests exist and permit tools: none of the fallbacks is needed.
AllKnown == \A a \in Agent : Static[a] # NoManifest /\ Static[a].tools # {}

\* The delegation count an agent is held to; a ceiling does not change it.
Limit(a) ==
    IF Static[a] # NoManifest /\ Static[a].tools # {} THEN Static[a].count
    ELSE IF Static[Unknown] # NoManifest THEN Static[Unknown].count ELSE 0

\* No source has more delegations recorded or buffered for a session than its
\* max_delegation_count ("the source may not exceed its `max_delegation_count` for the
\* session"): the breadth check together with the events it counts.
BreadthKept == \A a \in Agent : issued[a] + late[a] <= Limit(a)

\* As long as the database is up, hooks that all counted before any of them recorded
\* can overshoot the limit of what is recorded for the session by no more than the number
\* of other hooks, and never a limit of zero; hooks that do not overlap keep to it.
OvershootBounded ==
    outages = 0 => \A a \in Agent :
        issued[a] <= IF Limit(a) = 0 THEN 0 ELSE Limit(a) + Cardinality(Hook) - 1

\* The running agents whose own task, and every task above it, was started by a hook that
\* had read the session id and registered it.  The others go by their static manifests.
Governed == {a \in Agent : running[a] > 0} \ astray

\* What a governed agent goes by, whenever its hook reads the session id.
Governing(a) == Effective(a, TRUE)

\* No governed agent goes by a higher trust level or classification than the conductor's,
\* however long the chain of delegations to it ("enforced ceiling on what a delegated
\* agent may do").
CeilingKept ==
    \A a \in Governed :
        Governing(a).trust <= Top.trust /\ Governing(a).class <= Top.class

\* Nesting uses up the conductor's autonomy depth: what an agent has left and how
\* deep it is add up to no more than the conductor began with; so no chain of
\* governed tasks is longer than that (max_autonomy_depth).
DepthBudget ==
    \A a \in Governed :
        level[a] <= Top.depth /\ level[a] + Governing(a).depth <= Top.depth

\* Every governed agent acts for the human the conductor is anchored to ("attribution
\* flows down the delegation chain").
AttributionFlows ==
    \A a \in Governed : Top.anchor # NoHuman => Governing(a).anchor = Top.anchor

\* The three, which make up the ceiling a delegated agent inherits.  Hooks that overlap,
\* fail open or are blind, and outages, send agents astray; what they may not do is to
\* lift the ceiling of an agent that is governed.
CeilingInherited == CeilingKept /\ DepthBudget /\ AttributionFlows

\* A governed delegation launders no decision: a call the conductor would need a human for
\* is not simply allowed to an agent anywhere below it (PolicyEngine.evaluate), and
\* content the conductor may not store none of them may store (classify_and_gate).
\* The tools themselves a ceiling does not restrict.
GateInherited ==
    \A a \in Governed :
        /\ \A tool \in Tool, tier \in ConductorTier :
              PolicyDecision(Top, tool, tier).action = "human_gate" =>
                  PolicyDecision(Governing(a), tool, tier).action # "allow"
        /\ \A matches \in SUBSET Classification :
              MemoryDecision(Governing(a), matches).action = "allow" =>
                  MemoryDecision(Top, matches).action = "allow"

\* Nobody goes astray, and every hook reads the session id: so it is as long as hooks do
\* not overlap or fail and the database stays up.
NoneAstray == astray = {} /\ \A h \in Hook : Busy(h) => seen[h]

\* What the conductor is denied, an agent below it is denied too: not so, because the
\* permitted_tools of a static manifest stay as they are under a ceiling.
ToolsCapped ==
    \A a \in Governed : Governing(a).tools \subseteq Top.tools
===============================================================================
