------------------------------ MODULE ToolSecurity ------------------------------
(***************************************************************************)
(* The security hooks around one tool call: hooks/pre_tool_security.py     *)
(* scans the call with the detection engine and refuses it or lets it      *)
(* through, hooks/post_tool_security.py scans the response.  The scan      *)
(* reads the credential of the session twice, while operators and the      *)
(* guardians of other processes change it.  A threat is told from others   *)
(* by its severity, which decides whether it blocks; what a guardian does  *)
(* about it is restrict the session (module Guardian) or not.              *)
(*                                                                         *)
(* The hook's exceptions: those of the detectors are caught one by one and *)
(* become threats; of the others, the ones of storage and network let the  *)
(* call through and the rest refuse it; so does a process that dies or     *)
(* times out let it through.                                               *)
(***************************************************************************)
EXTENDS ThreatDetection

CONSTANTS NoSession,   \* no call is under way
          Failures     \* may anything but a detector fail?

ASSUME CallAssumption == NoSession \notin Session /\ Failures \in BOOLEAN

VARIABLES
    pc,           \* the next step of the hook
    caller,       \* the session whose call is scanned
    write,        \* is the tool outside READ_ONLY_TOOLS?
    cred,         \* the state of the session's credential
    threats,      \* the severities of the threats found
    given,        \* of these, the ones reported to the guardian
    restrained,   \* history: the credential forbade the call all through the scan
    failed,       \* history: the hook failed, elsewhere than in a detector or, of
                  \* the one that scans the response, in the guardian
    holds,        \* the kinds of findings that are there in the response
    flagged,      \* the kinds the hook has found
    untold,       \* of these, the ones the guardian could not be told of
    warned        \* the kinds the model was warned of

request == <<threats, given, restrained>>
response == <<holds, flagged, untold, warned>>
call == <<caller, write, cred, request, failed, response>>
secVars == <<engine, pc, call>>

\* "none": no credential, or none the hook can find, for want of a session id or of
\* Qdrant.  MONITOR stands for every state that forbids nothing by itself.
CredState == {"none", "MONITOR", "SUSPEND", "REVOKE"}

Scan == {"inject", "escalate", "scope", "exfiltrate", "abuse"}
Severity == {"CRITICAL", "HIGH", "MEDIUM"}

\* What the response of an external tool is scanned for, and the next step after.
Kind == {"SECONDARY_INJECTION", "SECRET_IN_RESPONSE", "PII_BULK"}
After(k) ==
    IF k = "SECONDARY_INJECTION" THEN "SECRET_IN_RESPONSE"
    ELSE IF k = "SECRET_IN_RESPONSE" THEN "PII_BULK" ELSE "warn"

SecTypeOK ==
    /\ EngineTypeOK
    /\ pc \in {"idle", "report", "refused", "allowed", "warn", "answered"} \cup Scan \cup Kind
    /\ caller \in Session \cup {NoSession} /\ (caller = NoSession <=> pc = "idle")
    /\ write \in BOOLEAN /\ cred \in CredState
    /\ given \subseteq threats /\ threats \subseteq Severity
    /\ restrained \in BOOLEAN /\ failed \in BOOLEAN
    /\ holds \subseteq Kind /\ flagged \subseteq Kind
    /\ untold \subseteq Kind /\ warned \subseteq Kind

NoCall ==
    /\ pc = "idle" /\ caller = NoSession
    /\ write = FALSE /\ cred = "none"
    /\ threats = {} /\ given = {} /\ restrained = FALSE /\ failed = FALSE
    /\ holds = {} /\ flagged = {} /\ untold = {} /\ warned = {}

SecInit == EngineInit /\ NoCall

\* What a credential in this state forbids whatever its scope.
Forbids(state) == state = "REVOKE" \/ (state = "SUSPEND" /\ write)

\* A guardian's restriction of the session, or none.
Restricted ==
    IF cred = "MONITOR" THEN {"MONITOR", "SUSPEND", "REVOKE"}
    ELSE IF cred = "SUSPEND" THEN {"SUSPEND", "REVOKE"}
    ELSE {cred}

-------------------------------------------------------------------------------
(* PreToolUse: the scan. *)

Begin(s) ==
    /\ pc = "idle" /\ Len(made[s]) < MaxMade
    /\ pc' = "inject" /\ caller' = s
    /\ write' \in BOOLEAN /\ cred' \in CredState
    /\ restrained' = (cred' = "REVOKE" \/ (cred' = "SUSPEND" /\ write'))
    /\ UNCHANGED <<engine, threats, given, failed, response>>

\* A detector is through: what it found, and, when it or the audit bus raised, a
\* synthetic critical threat (_fail_closed_threat).
Detected(found) ==
    /\ \/ threats' = threats \cup found
       \/ threats' = threats \cup found \cup {"CRITICAL"}
    /\ UNCHANGED <<caller, write, cred, given, restrained, failed, response>>

\* By signature or similarity.
ScanInjection ==
    /\ pc = "inject" /\ pc' = "escalate"
    /\ \E found \in {{}, {"CRITICAL"}} : Detected(found)
    /\ UNCHANGED engine

\* get_session_state: revoked, or suspended and no read-only tool.  When it raises,
\* the scope is not checked.
CheckState ==
    /\ pc = "escalate"
    /\ \/ ~Forbids(cred) /\ pc' = "scope" /\ UNCHANGED call
       \/ Forbids(cred) /\ pc' = "exfiltrate"
          /\ Detected(IF cred = "REVOKE" THEN {"CRITICAL"} ELSE {"HIGH"})
       \/ pc' = "exfiltrate" /\ Detected({"CRITICAL"})
    /\ UNCHANGED engine

\* validate_scope, which reads the credential anew.
CheckScope ==
    /\ pc = "scope" /\ pc' = "exfiltrate"
    /\ \E inScope \in BOOLEAN :
           Detected(IF cred # "none" /\ (Forbids(cred) \/ ~inScope) THEN {"CRITICAL"} ELSE {})
    /\ UNCHANGED engine

\* An outbound call that sends data to a host outside the allowlist.
ScanTraffic ==
    /\ pc = "exfiltrate" /\ pc' = "abuse"
    /\ \E found \in {{}, {"CRITICAL"}} : Detected(found)
    /\ UNCHANGED engine

\* Too many calls in the window; or else the same tool, not a read-only one, many
\* times in a row.
ScanAbuse ==
    /\ pc = "abuse" /\ pc' = "report"
    /\ Record(caller)
    /\ \E found \in IF Flooding(caller) THEN {{"HIGH"}}
                    ELSE IF Repeating(caller) /\ write THEN {{}, {"MEDIUM"}}
                    ELSE {{}} : Detected(found)

-------------------------------------------------------------------------------
(* PreToolUse: the answer. *)

\* Mutant: only critical threats block.
BlockingCritical(t) == t = "CRITICAL"

\* has_blocking_threat; every threat recommended to be blocked is critical or high.
Blocking(t) == t \in {"CRITICAL", "HIGH"}

\* guardian.process_event, for the threats of one severity.
Report(t) ==
    /\ pc = "report" /\ t \in threats \ given
    /\ given' = given \cup {t}
    /\ cred' \in Restricted
    /\ UNCHANGED <<engine, pc, caller, write, threats, restrained, failed, response>>

\* Mutant: the answer is given before the guardian is told of all.
AnswerEarly ==
    /\ pc = "report"
    /\ pc' = IF \E t \in threats : Blocking(t) THEN "refused" ELSE "allowed"
    /\ UNCHANGED <<engine, call>>

Answer ==
    /\ pc = "report" /\ given = threats
    /\ pc' = IF \E t \in threats : Blocking(t) THEN "refused" ELSE "allowed"
    /\ UNCHANGED <<engine, call>>

\* An exception outside the detectors: building the manifest and the engines, or in
\* the guardian, which may have acted by then.
Raise ==
    /\ Failures /\ pc \in {"inject", "report"} /\ (pc = "report" => given # threats)
    /\ pc' \in {"allowed", "refused"}
    /\ failed' = TRUE
    /\ cred' \in IF pc = "report" THEN Restricted ELSE {cred}
    /\ UNCHANGED <<engine, caller, write, request, response>>

\* The process is killed, or over its timeout.
Die ==
    /\ Failures /\ pc \in Scan \cup {"report"}
    /\ pc' = "allowed" /\ failed' = TRUE
    /\ UNCHANGED <<engine, caller, write, cred, request, response>>

-------------------------------------------------------------------------------
(* PostToolUse: post_tool_security.py, another process. *)

\* The tool has run; the response of an internal tool holds nothing to be found.
Respond ==
    /\ pc = "allowed" /\ pc' = "SECONDARY_INJECTION"
    /\ holds' \in SUBSET Kind
    /\ threats' = {} /\ given' = {} /\ restrained' = FALSE /\ failed' = FALSE
    /\ write' = FALSE
    /\ UNCHANGED <<engine, caller, cred, flagged, untold, warned>>

\* The scan for one kind: what is there is put down before the guardian hears of it.
ScanResponse(k) ==
    /\ pc = k /\ k \notin flagged
    /\ IF k \in holds THEN flagged' = flagged \cup {k} /\ UNCHANGED pc
       ELSE pc' = After(k) /\ UNCHANGED flagged
    /\ UNCHANGED <<engine, caller, write, cred, request, failed, holds, untold, warned>>

\* _emit_to_guardian: the guardian may restrict the session.
Dispatch(k) ==
    /\ pc = k /\ k \in flagged
    /\ pc' = After(k)
    /\ cred' \in Restricted
    /\ UNCHANGED <<engine, caller, write, request, failed, response>>

\* Mutant: what the guardian raises ends the hook.
DispatchRaises(k) ==
    /\ pc = k /\ k \in flagged
    /\ pc' = "answered"
    /\ untold' = untold \cup {k}
    /\ cred' \in Restricted
    /\ UNCHANGED <<engine, caller, write, request, failed, holds, flagged, warned>>

\* The guardian cannot be built, or raises, before or after it has acted: the error
\* is caught and the scan goes on.
DispatchFails(k) ==
    /\ pc = k /\ k \in flagged
    /\ pc' = After(k)
    /\ untold' = untold \cup {k}
    /\ cred' \in Restricted
    /\ UNCHANGED <<engine, caller, write, request, failed, holds, flagged, warned>>

\* The next turn is told of all that was found, and the hook is through.
Warn ==
    /\ pc = "warn" /\ pc' = "answered"
    /\ warned' = flagged
    /\ flagged' = {} /\ untold' = {}
    /\ UNCHANGED <<engine, caller, write, cred, request, failed, holds>>

\* An exception outside the dispatch, or the end of the process: no warning.
ResponseFails ==
    /\ Failures /\ pc \in Kind \cup {"warn"}
    /\ pc' = "answered" /\ failed' = TRUE
    /\ flagged' = {} /\ untold' = {}
    /\ UNCHANGED <<engine, caller, write, cred, request, holds, warned>>

\* The call is over; one that was let through may yet not have been made.
End ==
    /\ pc \in {"refused", "allowed", "answered"}
    /\ pc' = "idle" /\ caller' = NoSession
    /\ write' = FALSE /\ cred' = "none"
    /\ threats' = {} /\ given' = {} /\ restrained' = FALSE /\ failed' = FALSE
    /\ holds' = {} /\ flagged' = {} /\ untold' = {} /\ warned' = {}
    /\ UNCHANGED engine

-------------------------------------------------------------------------------
(* The rest of the world. *)

\* The identity lifecycle moves the credential along; a revocation is for good.
CredChanges ==
    /\ caller # NoSession
    /\ \/ cred = "MONITOR" /\ cred' \in {"SUSPEND", "REVOKE"}
       \/ cred = "SUSPEND" /\ cred' \in {"MONITOR", "REVOKE"}
    /\ restrained' = (restrained /\ (pc \notin Scan \/ Forbids(cred')))
    /\ UNCHANGED <<engine, pc, caller, write, threats, given, failed, response>>

\* Between calls, time passes, a session ends, or the next call has a new process.
Idle(action) == pc = "idle" /\ action /\ UNCHANGED <<pc, call>>

SecNext ==
    \/ \E s \in Session : Begin(s) \/ Idle(Cleanup(s))
    \/ ScanInjection \/ CheckState \/ CheckScope \/ ScanTraffic \/ ScanAbuse
    \/ \E t \in Severity : Report(t)
    \/ Answer \/ Raise \/ Die \/ End \/ CredChanges
    \/ Respond \/ Warn \/ ResponseFails
    \/ \E k \in Kind : ScanResponse(k) \/ Dispatch(k) \/ DispatchFails(k)
    \/ Idle(EngineTick) \/ Idle(EngineRestart)

SecSpec == SecInit /\ [][SecNext]_secVars

-------------------------------------------------------------------------------
(* Properties. *)

\* A call that the session's credential forbids, all the time it is scanned, is let
\* through by a failure of the hook only, whichever of its two readings of the
\* credential or of its detectors fail ("session_suspended_write_attempted").
RestrictedBlocked == pc = "allowed" /\ restrained => failed

\* Unless the hook failed, a call that is let through met no threat that blocks, and
\* the guardian has been told of every threat before the answer is given.
ThreatStops ==
    pc \in {"allowed", "refused"} /\ ~failed =>
        given = threats /\ (pc = "allowed" => \A t \in threats : ~Blocking(t))

\* Unless the hook failed, no session gets more than the threshold of calls through
\* in a window, in a process that never had more sessions than it tracks.
FloodStopped ==
    pc = "allowed" /\ ~failed /\ ~crowded =>
        Len(made[caller]) <= RateThreshold

\* The two: what is let through was found clean, alone and among the session's calls.
AllowedIsClean == ThreatStops /\ FloodStopped

\* The warning names every kind of finding the response holds, whatever becomes of
\* the reports about them: a guardian that raises at one neither hides that one nor
\* ends the scan for the next ("Best-effort: route findings to Guardian"); only an
\* exception from elsewhere, or the end of the process, is an excuse.
FindingsWarned == pc = "answered" /\ ~failed => warned = holds

\* "FAIL CLOSED: on any exception, this hook returns {"decision": "block"}."
FailsClosed == failed => pc # "allowed"
===============================================================================
