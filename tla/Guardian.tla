-------------------------------- MODULE Guardian --------------------------------
(***************************************************************************)
(* governance/lib/security/guardian_agent.py: the guardian agents of some  *)
(* processes, acting on the credential of one session through the identity *)
(* lifecycle.  A hook process makes its guardian at the first use and      *)
(* loses it when it exits; what the guardian remembers (autonomy level,    *)
(* log of actions, lockdown) is in the object, what it does is in the      *)
(* store.  process_event is two steps when it acts: the decision, with the *)
(* load of the identity operation, and the end of that operation.          *)
(*                                                                         *)
(* Decisions are stored and operators notified without effect on anything  *)
(* here; that is left out.                                                 *)
(***************************************************************************)
EXTENDS IdentityLifecycle, Sequences, FiniteSets

CONSTANTS
    Guard,               \* actors that are processes with a guardian
    ConfigLevel,         \* autonomy_level of the configuration
    MassActionLimit,     \* MASS_ACTION_LIMIT
    MassActionWindow,    \* MASS_ACTION_WINDOW, in ticks
    MaxLog               \* bound: severe actions of one process within the window

Level == {"ADVISORY", "SEMI_AUTONOMOUS", "FULLY_AUTONOMOUS"}
Action == {"LOG_ONLY", "NOTIFY", "THROTTLE", "SUSPEND", "TERMINATE"}
Severe == {"SUSPEND", "TERMINATE"}

ASSUME GuardAssumption == Guard \subseteq Actor /\ ConfigLevel \in Level
ASSUME LimitAssumption == {MassActionLimit, MassActionWindow, MaxLog} \subseteq Nat \ {0}

-------------------------------------------------------------------------------
(* The decision matrix. *)

BaseScores ==
    [PROMPT_INJECTION     |-> 9, DATA_EXFILTRATION   |-> 9, PRIVILEGE_ESCALATION |-> 8,
     MEMORY_POISONING     |-> 7, TOOL_ABUSE          |-> 5, BEHAVIORAL_ANOMALY   |-> 3,
     CSS_THRESHOLD_BREACH |-> 4, CSS_CRITICAL_BREACH |-> 7, TUE_DEGRADED         |-> 3,
     MEMORY_QUARANTINE    |-> 4, UNKNOWN             |-> 5]

Severity == {"LOW", "MEDIUM", "HIGH", "CRITICAL"}

Threat == [type : DOMAIN BaseScores, severity : Severity,
           repeated : BOOLEAN, corroborated : BOOLEAN, failClosed : BOOLEAN]

Capped(score, more) == IF score + more > 10 THEN 10 ELSE score + more

\* compute_assessment_score
Score(threat) ==
    LET base     == BaseScores[threat.type]
        severe   == Capped(base, CASE threat.severity = "CRITICAL" -> 2
                                   [] threat.severity = "HIGH" -> 1
                                   [] OTHER -> 0)
        repeated == Capped(severe, IF threat.repeated THEN 1 ELSE 0)
        backed   == Capped(repeated, IF threat.corroborated THEN 2 ELSE 0)
    IN Capped(backed, IF threat.failClosed THEN 1 ELSE 0)

ScoreToAction(score) ==
    CASE score <= 2 -> "LOG_ONLY"
      [] score \in 3..4 -> "NOTIFY"
      [] score \in 5..6 -> "THROTTLE"
      [] score \in 7..8 -> "SUSPEND"
      [] OTHER -> "TERMINATE"

\* What the matrix may ask for.
Originals == {ScoreToAction(Score(threat)) : threat \in Threat}

\* Mutant: an advisory guardian may still throttle and suspend.
GateLenient(level, action) == IF level # "FULLY_AUTONOMOUS" /\ action = "TERMINATE"
                              THEN "SUSPEND" ELSE action

\* The autonomy level.
Gate(level, action) ==
    CASE level = "ADVISORY" /\ action \in {"THROTTLE"} \cup Severe -> "NOTIFY"
      [] level = "SEMI_AUTONOMOUS" /\ action = "TERMINATE" -> "SUSPEND"
      [] OTHER -> action

OperationOf == [THROTTLE |-> "throttle", SUSPEND |-> "suspend", TERMINATE |-> "revoke"]

-------------------------------------------------------------------------------
VARIABLES
    alive,     \* the processes that have a guardian now
    level,     \* autonomy_level
    actions,   \* _action_log: the ages of the entries in the window
    lockdown,  \* _global_lockdown
    lifted     \* history: an operator has lifted the lockdown since it was entered

guardVars == <<alive, level, actions, lockdown, lifted>>
allVars == <<vars, guardVars>>

GuardTypeOK ==
    /\ TypeOK
    /\ alive \subseteq Guard
    /\ level \in [Guard -> Level]
    /\ actions \in [Guard -> Seq(0..MassActionWindow - 1)]
    /\ lockdown \in [Guard -> BOOLEAN] /\ lifted \in [Guard -> BOOLEAN]

GuardInit ==
    /\ Init
    /\ alive = {}
    /\ level = [p \in Guard |-> ConfigLevel]
    /\ actions = [p \in Guard |-> <<>>]
    /\ lockdown = [p \in Guard |-> FALSE]
    /\ lifted = [p \in Guard |-> FALSE]

-------------------------------------------------------------------------------
(* A process gets a guardian, and takes it with it. *)

Start(p) ==
    /\ p \notin alive
    /\ alive' = alive \cup {p}
    /\ UNCHANGED <<vars, level, actions, lockdown, lifted>>

\* The hook is through, or is killed in the middle of an operation.
Exit(p) ==
    /\ p \in alive
    /\ IF op[p] = Idle THEN UNCHANGED vars ELSE Abort(p)
    /\ alive' = alive \ {p}
    /\ level' = [level EXCEPT ![p] = ConfigLevel]
    /\ actions' = [actions EXCEPT ![p] = <<>>]
    /\ lockdown' = [lockdown EXCEPT ![p] = FALSE]
    /\ lifted' = [lifted EXCEPT ![p] = FALSE]

\* Mutant: entries never leave the window.
AgedForever(log) == [i \in DOMAIN log |-> log[i] + 1]

\* The log a tick later: the oldest entries, which come first, leave the window.
\* (The code drops them at the next check, which is the log's only reader.)
Aged(log) ==
    LET left == Cardinality({i \in DOMAIN log : log[i] + 1 >= MassActionWindow})
    IN [i \in 1..(Len(log) - left) |-> log[i + left] + 1]

\* Time passes.
Tick ==
    /\ actions' = [p \in Guard |-> Aged(actions[p])]
    /\ UNCHANGED <<vars, alive, level, lockdown, lifted>>

-------------------------------------------------------------------------------
(* process_event. *)

\* Mutant: one more action before the lockdown.
RateLimitedLate(p) == Len(actions[p]) > MassActionLimit

\* _is_rate_limited
RateLimited(p) == Len(actions[p]) >= MassActionLimit

\* Gate by autonomy, by the lockdown, and by the rate of severe actions.
Judge(p, original) ==
    LET gated   == Gate(level[p], original)
        action  == IF lockdown[p] THEN "SUSPEND" ELSE gated
        limited == action \in Severe /\ RateLimited(p)
    IN [action   |-> action,
        lockdown |-> lockdown[p] \/ limited]

\* A suspension or revocation is entered in the log when the operation has returned,
\* whatever that answered.
Logged(p, name) ==
    actions' = [actions EXCEPT ![p] = IF name = "throttle" THEN @ ELSE Append(@, 0)]

\* The decision on an event, with the load of the operation it calls for.  known:
\* the event names a session.  (An event about the guardian itself is only logged.)
Decide(p) ==
    /\ p \in alive /\ MayBegin(p) /\ Len(actions[p]) < MaxLog
    /\ \E original \in Originals, known \in BOOLEAN :
           LET d == Judge(p, original) IN
           /\ lockdown' = [lockdown EXCEPT ![p] = d.lockdown]
           /\ lifted' = [lifted EXCEPT ![p] = @ /\ ~(d.action \in Severe /\ RateLimited(p))]
           /\ IF known /\ d.action \in DOMAIN OperationOf
              THEN /\ LoadFor(p, OperationOf[d.action], NoCred, TRUE)
                   /\ IF op'[p] = Idle THEN Logged(p, OperationOf[d.action]) ELSE UNCHANGED actions
                   /\ UNCHANGED armed
              ELSE UNCHANGED <<vars, actions>>
    /\ UNCHANGED <<alive, level>>

\* Mutant: a guardian revokes by writing the state itself.
CompleteForced(p) ==
    /\ op[p] # Idle
    /\ Persist(copy[p].id, [copy[p].payload EXCEPT !.state = "REVOKE"]) /\ Done(p)
    /\ Logged(p, op[p].name)
    /\ UNCHANGED <<armed, verified, answer, alive, level, lockdown, lifted>>

\* The identity operation writes and returns.
Complete(p) ==
    /\ Write(p)
    /\ Logged(p, op[p].name)
    /\ UNCHANGED <<alive, level, lockdown, lifted>>

\* The identity operation raises: caught, and not entered in the log.
Fail(p) ==
    /\ Abort(p)
    /\ UNCHANGED guardVars

-------------------------------------------------------------------------------
(* The operator; scoped: the manifest has required_scope. *)

SetAutonomyLevel(p, new, scoped) ==
    /\ p \in alive /\ op[p] = Idle
    /\ scoped /\ level' = [level EXCEPT ![p] = new]
    /\ UNCHANGED <<vars, alive, actions, lockdown, lifted>>

\* The log of actions is kept: the next severe one may enter the lockdown again.
LiftGlobalLockdown(p, scoped) ==
    /\ p \in alive /\ op[p] = Idle /\ lockdown[p]
    /\ scoped
    /\ lockdown' = [lockdown EXCEPT ![p] = FALSE]
    /\ lifted' = [lifted EXCEPT ![p] = TRUE]
    /\ UNCHANGED <<vars, alive, level, actions>>

-------------------------------------------------------------------------------
\* The other callers of the identity lifecycle: session tools and operators.
Other(a) ==
    /\ a \notin Guard
    /\ \/ Provision(a) \/ Begin(a) \/ TimerFires(a) \/ Write(a) \/ Abort(a) \/ TimerDies(a)
    /\ UNCHANGED guardVars

GuardNext ==
    \/ Tick
    \/ \E a \in Actor : Other(a)
    \/ \E p \in Guard : \/ Start(p) \/ Exit(p)
                        \/ Decide(p) \/ Complete(p) \/ Fail(p)
                        \/ \E new \in Level, scoped \in BOOLEAN : SetAutonomyLevel(p, new, scoped)
                        \/ \E scoped \in BOOLEAN : LiftGlobalLockdown(p, scoped)

GuardSpec == GuardInit /\ [][GuardNext]_allVars

-------------------------------------------------------------------------------
(* Properties. *)

\* More severe actions within a window than the limit put the process in lockdown,
\* and only an operator with the scope takes it out ("Mass action rate limit
\* exceeded — entering GLOBAL_LOCKDOWN. Human approval required to lift").
LockdownOnExcess ==
    \A p \in Guard : Len(actions[p]) > MassActionLimit => lockdown[p] \/ lifted[p]

\* An advisory guardian changes no credential unless it is in lockdown, and none but
\* a fully autonomous one revokes, lockdown or not.
AutonomyRespected ==
    [][\A p \in Guard : Complete(p) =>
           /\ level[p] = "ADVISORY" => lockdown[p]
           /\ (\E c \in Known : store'[c].state # store[c].state /\ store'[c].state = "REVOKE")
                  => level[p] = "FULLY_AUTONOMOUS"]_allVars

\* A suspension or termination decided on a monitored session restricts it, and no
\* act of a guardian gives a session a tool back.
GuardRestrains ==
    [][\A p \in Guard : Complete(p) =>
           /\ op[p].name \in {"suspend", "revoke"} /\ copy[p].payload.state = "MONITOR" =>
                  Load'.payload.state \in {"SUSPEND", "REVOKE"}
           /\ \A t \in Tool : ScopeAllows(t, Load'.payload) => ScopeAllows(t, Load.payload)]_allVars

\* Credentials are touched by the identity lifecycle's operations alone, so that
\* what holds of them holds with guardians as well.
ActsThroughIdentity == Spec
================================================================================
