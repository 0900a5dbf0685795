--------------------------- MODULE IdentityLifecycle ---------------------------
(***************************************************************************)
(* governance/lib/security/identity_lifecycle.py for one session: the      *)
(* credential state machine, kept in the Qdrant collection                 *)
(* agent_identity_sessions under the credential's id, and the operations   *)
(* on it.  Every operation loads the session's credential, decides on that *)
(* copy and upserts the whole copy: nothing locks the store in between, so *)
(* a load and the upsert after it are separate steps here.  An actor is a  *)
(* process with a manager of its own (a hook, the guardian in a hook, an   *)
(* operator's tool), the holder of the timers it has started.              *)
(*                                                                         *)
(* get_identity_session scrolls with limit 1, and Qdrant scrolls in the    *)
(* order of point ids: of several credentials of a session the lowest id   *)
(* is the one seen.  Ids are random, so a new id is any unused one.  The   *)
(* token is issued with the id and is identified with it.                  *)
(***************************************************************************)
EXTENDS Naturals

CONSTANTS
    Actor,         \* callers that may run an operation at the same time
    MaxCreds,      \* bound: credential ids
    Tool,          \* tool names
    ReadOnlyTool,  \* those a suspended session may use
    Scope,         \* the scope of the session's credentials
    Concurrent,    \* may two operations overlap?
    Failures       \* may a process die, or an upsert raise, in between?

ASSUME CredsAssumption == MaxCreds \in Nat \ {0}
ASSUME ToolAssumption == ReadOnlyTool \subseteq Tool /\ Scope \subseteq Tool
ASSUME SwitchAssumption == {Concurrent, Failures} \subseteq BOOLEAN

CredId == 1..MaxCreds
NoCred == 0            \* "no such credential"

VARIABLES
    store,     \* store[c]: the payload of point c ("absent": no point)
    op,        \* op[a]: the operation a has loaded for, with its arguments
    copy,      \* copy[a]: the credential a loaded
    armed,     \* the actors in whose process a rotation timer is pending
    verified,  \* history: credentials whose token and manifest were verified
    answer     \* history: the last operation that returned, and what it said

vars == <<store, op, copy, armed, verified, answer>>

ValidStates == {"PROVISION", "AUTHENTICATE", "AUTHORIZE", "MONITOR", "SUSPEND", "REVOKE"}

ValidTransitions ==
    [PROVISION    |-> {"AUTHENTICATE"},
     AUTHENTICATE |-> {"AUTHORIZE", "REVOKE"},
     AUTHORIZE    |-> {"MONITOR", "REVOKE"},
     MONITOR      |-> {"SUSPEND", "REVOKE"},
     SUSPEND      |-> {"MONITOR", "REVOKE"},
     REVOKE       |-> {}]

Payload == [state : ValidStates \cup {"absent"}, throttled : BOOLEAN,
            previous : CredId \cup {NoCred}]
Credential == [id : CredId \cup {NoCred}, payload : Payload]
Absent == [state |-> "absent", throttled |-> FALSE, previous |-> NoCred]
Nothing == [id |-> NoCred, payload |-> Absent]

Operations == {"authenticate", "authorize", "reload", "monitor", "rotate", "suspend",
               "unsuspend", "revoke", "throttle"}
Idle == [name |-> "idle", token |-> NoCred, ok |-> TRUE]
Pending == [name : Operations, token : CredId \cup {NoCred}, ok : BOOLEAN]

Known == {c \in CredId : store[c].state # "absent"}
Unused == CredId \ Known

\* _get_credential_by_session
Load == IF Known = {} THEN Nothing
        ELSE LET c == CHOOSE c \in Known : \A d \in Known : c <= d
             IN [id |-> c, payload |-> store[c]]

Answer(name, c, yes) == answer' =
    [op |-> name, cred |-> c, yes |-> yes]

TypeOK ==
    /\ store \in [CredId -> Payload]
    /\ op \in [Actor -> Pending \cup {Idle}]
    /\ copy \in [Actor -> Credential]
    /\ armed \subseteq Actor
    /\ verified \subseteq CredId
    /\ answer \in [op : Operations \cup {"none", "provision"},
                   cred : CredId \cup {NoCred}, yes : BOOLEAN]

Init ==
    /\ store = [c \in CredId |-> Absent]
    /\ op = [a \in Actor |-> Idle]
    /\ copy = [a \in Actor |-> Nothing]
    /\ armed = {}
    /\ verified = {}
    /\ answer = [op |-> "none", cred |-> NoCred, yes |-> FALSE]

-------------------------------------------------------------------------------
(* Loading: an operation reads the credential and checks its guard. *)

MayBegin(a) == op[a] = Idle /\ (Concurrent \/ \A b \in Actor : op[b] = Idle)

\* The states in which each operation goes on.
Proceeds(name, state) ==
    CASE name = "authenticate" -> state = "PROVISION"
      [] name = "authorize"    -> state = "AUTHENTICATE"
      [] name = "rotate"       -> state = "MONITOR"
      [] name = "suspend"      -> state \in {"MONITOR", "AUTHORIZE"}
      [] name = "unsuspend"    -> state = "SUSPEND"
      [] name \in {"revoke", "throttle"} -> state \in ValidStates \ {"REVOKE"}
      [] OTHER -> FALSE

\* A process that found Qdrant down when it first asked sees no credential.
Seen == {Load} \cup IF Failures THEN {Nothing} ELSE {}

\* Load, and either hold the copy for the write or return at once.
LoadFor(a, name, token, ok) ==
    /\ \E seen \in Seen :
           IF Proceeds(name, seen.payload.state)
           THEN /\ op' = [op EXCEPT ![a] = [name |-> name, token |-> token, ok |-> ok]]
                /\ copy' = [copy EXCEPT ![a] = seen]
                /\ UNCHANGED answer
           ELSE Answer(name, seen.id, FALSE) /\ UNCHANGED <<op, copy>>
    /\ UNCHANGED <<store, verified>>

\* The token presented may be any issued one or a wrong one; ok: the manifest
\* hash still matches (authenticate), the policy engine permits the whole scope
\* (authorize).
Begin(a) ==
    /\ MayBegin(a)
    /\ \/ \E token \in Known \cup {NoCred}, ok \in BOOLEAN :
              LoadFor(a, "authenticate", token, ok)
       \/ \E ok \in BOOLEAN : LoadFor(a, "authorize", NoCred, ok)
       \/ \E name \in {"suspend", "unsuspend", "revoke", "throttle"} :
              LoadFor(a, name, NoCred, TRUE)
    /\ UNCHANGED armed

\* _rotation_callback: the timer thread starts a rotation.  (The bound on ids
\* holds rotations back when all are used.)
TimerFires(a) ==
    /\ a \in armed /\ MayBegin(a) /\ Unused # {}
    /\ armed' = armed \ {a}
    /\ LoadFor(a, "rotate", NoCred, TRUE)

-------------------------------------------------------------------------------
(* Writing. *)

Persist(c, payload) == store' = [store EXCEPT ![c] = payload]

Done(a) == op' = [op EXCEPT ![a] = Idle] /\ copy' = [copy EXCEPT ![a] = Nothing]

\* Mutant: no validation of the transition.
TransitionUnchecked(a, to) ==
    Persist(copy[a].id, [copy[a].payload EXCEPT !.state = to])

\* _transition: validated against the state of the copy, not of the store; an
\* invalid one is only logged.
Transition(a, to) ==
    IF to \in ValidTransitions[copy[a].payload.state]
    THEN Persist(copy[a].id, [copy[a].payload EXCEPT !.state = to])
    ELSE UNCHANGED store

\* provision: a new point, whatever credentials the session already has; no
\* point, and the same answer, in a process that has found Qdrant down.
Provision(a) ==
    /\ MayBegin(a)
    /\ \E c \in Unused :
           /\ \/ Persist(c, [Absent EXCEPT !.state = "PROVISION"])
              \/ Failures /\ UNCHANGED store
           /\ Answer("provision", c, TRUE)
    /\ UNCHANGED <<op, copy, armed, verified>>

\* Mutant: the token is not compared.
AuthenticateAnyToken(a) ==
    /\ op[a].name = "authenticate"
    /\ Transition(a, "AUTHENTICATE")
    /\ verified' = IF op[a].token = copy[a].id THEN verified \cup {copy[a].id} ELSE verified
    /\ Answer("authenticate", copy[a].id, TRUE)
    /\ Done(a)
    /\ UNCHANGED armed

Authenticate(a) ==
    /\ op[a].name = "authenticate"
    /\ LET c == copy[a].id
           valid == op[a].token = c /\ op[a].ok
       IN /\ Transition(a, IF valid THEN "AUTHENTICATE" ELSE "REVOKE")
          /\ verified' = IF valid THEN verified \cup {c} ELSE verified
          /\ Answer("authenticate", c, valid)
    /\ Done(a)
    /\ UNCHANGED armed

\* First half of authorize: to AUTHORIZE and load again, or to REVOKE.
Authorize(a) ==
    /\ op[a].name = "authorize"
    /\ Transition(a, IF op[a].ok THEN "AUTHORIZE" ELSE "REVOKE")
    /\ IF op[a].ok
       THEN op' = [op EXCEPT ![a].name = "reload"] /\ UNCHANGED <<copy, answer>>
       ELSE Done(a) /\ Answer("authorize", copy[a].id, FALSE)
    /\ UNCHANGED <<armed, verified>>

\* Mutant: the state found by the second load does not matter.
ReloadUnchecked(a) ==
    /\ op[a].name = "reload"
    /\ Done(a)
    /\ Answer("authorize", Load.id, TRUE)
    /\ UNCHANGED <<store, armed, verified>>

\* Second half: the credential is loaded again, and moved on only if the load
\* still finds AUTHORIZE; authorize answers yes in any case.
Reload(a) ==
    /\ op[a].name = "reload"
    /\ IF Load.payload.state = "AUTHORIZE"
       THEN /\ op' = [op EXCEPT ![a].name = "monitor"]
            /\ copy' = [copy EXCEPT ![a] = Load]
            /\ UNCHANGED answer
       ELSE Done(a) /\ Answer("authorize", Load.id, TRUE)
    /\ UNCHANGED <<store, armed, verified>>

Monitor(a) ==
    /\ op[a].name = "monitor"
    /\ Transition(a, "MONITOR")
    /\ armed' = armed \cup {a}
    /\ Answer("authorize", copy[a].id, TRUE)
    /\ Done(a)
    /\ UNCHANGED verified

\* The copy is stored under a new id (with a new token); the old point stays.
Rotate(a) ==
    /\ op[a].name = "rotate"
    /\ \E c \in Unused :
           /\ Persist(c, [copy[a].payload EXCEPT !.previous = copy[a].id])
           /\ verified' = IF copy[a].id \in verified THEN verified \cup {c} ELSE verified
           /\ Answer("rotate", c, TRUE)
    /\ armed' = armed \cup {a}
    /\ Done(a)

\* Mutant: the state is set by another name, and not validated.
SuspendMisspelt(a) ==
    /\ op[a].name \in {"suspend", "unsuspend"}
    /\ Persist(copy[a].id, [copy[a].payload EXCEPT !.state =
                                IF op[a].name = "suspend" THEN "SUSPENDED" ELSE "MONITOR"])
    /\ Answer(op[a].name, copy[a].id, TRUE)
    /\ Done(a)
    /\ UNCHANGED <<armed, verified>>

\* suspend and unsuspend answer yes without looking whether the transition was
\* valid.
Suspend(a) ==
    /\ op[a].name \in {"suspend", "unsuspend"}
    /\ Transition(a, IF op[a].name = "suspend" THEN "SUSPEND" ELSE "MONITOR")
    /\ Answer(op[a].name, copy[a].id, TRUE)
    /\ Done(a)
    /\ UNCHANGED <<armed, verified>>

\* Only the timer of the revoking process is cancelled.
Revoke(a) ==
    /\ op[a].name = "revoke"
    /\ Transition(a, "REVOKE")
    /\ armed' = armed \ {a}
    /\ Answer("revoke", copy[a].id, TRUE)
    /\ Done(a)
    /\ UNCHANGED verified

\* Mutant: a throttled session is monitored again.
ThrottleActivates(a) ==
    /\ op[a].name = "throttle"
    /\ Persist(copy[a].id, [copy[a].payload EXCEPT !.throttled = TRUE, !.state = "MONITOR"])
    /\ Answer("throttle", copy[a].id, TRUE)
    /\ Done(a)
    /\ UNCHANGED <<armed, verified>>

\* The whole copy goes back with the new rate.
Throttle(a) ==
    /\ op[a].name = "throttle"
    /\ Persist(copy[a].id, [copy[a].payload EXCEPT !.throttled = TRUE])
    /\ Answer("throttle", copy[a].id, TRUE)
    /\ Done(a)
    /\ UNCHANGED <<armed, verified>>

\* The process dies, or the upsert raises: the copy is gone.
Abort(a) ==
    /\ Failures /\ op[a] # Idle
    /\ Done(a)
    /\ UNCHANGED <<store, armed, verified, answer>>

\* The process holding a timer exits (every hook does).
TimerDies(a) ==
    /\ Failures /\ a \in armed /\ armed' = armed \ {a}
    /\ UNCHANGED <<store, op, copy, verified, answer>>

Write(a) == \/ Authenticate(a) \/ Authorize(a) \/ Reload(a) \/ Monitor(a) \/ Rotate(a)
            \/ Suspend(a) \/ Revoke(a) \/ Throttle(a)

Next == \E a \in Actor : \/ Provision(a) \/ Begin(a) \/ TimerFires(a) \/ Write(a)
                         \/ Abort(a) \/ TimerDies(a)

Spec == Init /\ [][Next]_vars

\* An operation that has loaded goes on to its write.
FairSpec == Spec /\ \A a \in Actor : WF_vars(Write(a))

-------------------------------------------------------------------------------
(* validate_scope, on a credential that was found. *)

\* Mutant: a revoked credential is treated like any other.
ScopeAllowsRevoked(tool, payload) ==
    /\ payload.state = "SUSPEND" => tool \in ReadOnlyTool
    /\ tool \in Scope \/ Scope = {}

ScopeAllows(tool, payload) ==
    /\ payload.state # "REVOKE"
    /\ payload.state = "SUSPEND" => tool \in ReadOnlyTool
    /\ tool \in Scope \/ Scope = {}

-------------------------------------------------------------------------------
(* Properties. *)

Live == {"AUTHENTICATE", "AUTHORIZE", "MONITOR", "SUSPEND"}

\* A credential that has left PROVISION other than by revocation, or was rotated
\* from one that had, had its own token and manifest verified (authenticate); no
\* interleaving of stale copies gets around it.
VerifiedOnly ==
    \A c \in CredId : store[c].state \in Live \/ store[c].previous # NoCred => c \in verified

\* Every change of a stored credential's state is a transition of the table, and
\* so REVOKE is never left: operations that do not overlap cannot bring a revoked
\* credential back, whoever runs them and wherever they fail (VALID_TRANSITIONS,
\* _transition, _persist_credential).
TransitionsValid ==
    [][\A c \in Known : store'[c].state # store[c].state =>
           store'[c].state \in ValidTransitions[store[c].state]]_vars

\* REVOKE is terminal for the stored credential (test_revoke_is_terminal), also
\* when another operation has loaded it before.
RevokeTerminal ==
    [][\A c \in CredId : store[c].state = "REVOKE" => store'[c].state = "REVOKE"]_vars

\* A suspended or revoked session keeps to the read-only tools until a human
\* unsuspends it or a credential is provisioned anew: no rotation, throttling or
\* late authorization lifts the restriction (validate_scope).
RestrictedUntilCleared ==
    [][Load.payload.state \in {"SUSPEND", "REVOKE"} =>
           \/ \A t \in Tool \ ReadOnlyTool : ~ScopeAllows(t, Load'.payload)
           \/ \E a \in Actor : Provision(a) \/ (op[a].name = "unsuspend" /\ Suspend(a))]_vars

\* When authorize says yes the credential it speaks of is being monitored.
AuthorizedIsMonitored ==
    [][answer' # answer /\ answer'.op = "authorize" /\ answer'.yes =>
           store'[answer'.cred].state = "MONITOR"]_vars

\* A wrong token revokes the credential (test: "Invalid token should fail and
\* revoke").
BadTokenRevokes ==
    [][\A a \in Actor : Authenticate(a) /\ op[a].token # copy[a].id =>
           store'[copy[a].id].state = "REVOKE"]_vars

\* The credential a rotation replaces is revoked at last ("issue new credential,
\* revoke old within 60s").
SupersededRevoked ==
    \A c, d \in CredId : store[d].previous = c ~> store[c].state = "REVOKE"
===============================================================================
