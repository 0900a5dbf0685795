------------------------------ MODULE GatePairing ------------------------------
(***************************************************************************)
(* A human gate opened by the PreToolUse hook of a tool call and the       *)
(* response that the PostToolUse hook of some later call pairs with it.    *)
(* The gate is recorded as a human_gate event (policy_engine.py,           *)
(* _emit_human_gate) and stashed in the one pending_gate slot of           *)
(* state/session-state.json (singletons.py); post_tool_metrics.py peeks,   *)
(* decides, consumes and records a human_gate_response event.              *)
(*                                                                         *)
(* session-state.json is neither locked nor replaced atomically:           *)
(* write_text truncates and then writes, and a reader in between finds     *)
(* nothing and goes on with {}.  A hook is a process; the hooks of         *)
(* parallel calls interleave.  A gate has the name of the call it is for.  *)
(***************************************************************************)
EXTENDS Naturals, FiniteSets

CONSTANTS
    Call,         \* tool calls
    Tool,         \* tool names
    ToolOf,       \* ToolOf[c]: the tool that call c is for
    NoGate,       \* no pending gate
    MaxSessions,  \* bound: how often SessionStart runs
    Parallel,     \* may a call (or a session) begin before another call has ended?
    Overlap,      \* may hook processes overlap?
    Drops,        \* may a call be refused after its hook, and so have no PostToolUse?
    Crashes       \* may a hook be killed?

ASSUME ToolAssumption == ToolOf \in [Call -> Tool]
ASSUME GateAssumption == NoGate \notin Call
ASSUME SessionAssumption == MaxSessions \in Nat \ {0}
ASSUME SwitchAssumption == {Parallel, Overlap, Drops, Crashes} \subseteq BOOLEAN

VARIABLES
    file,      \* what load_session_state finds
    session,   \* sessions started; the current one
    starting,  \* is a SessionStart hook between truncating and writing?
    pc,        \* pc[c]: where call c is
    state,     \* state[c]: the dict c's hook has loaded and is about to write
    peeked,    \* peeked[c]: the gate c's PostToolUse hook pairs with
    old,       \* gates opened more than ten minutes ago
    opened,    \* audit log: gates with a human_gate event
    responses  \* audit log: human_gate_response events

vars == <<file, session, starting, pc, state, peeked, old, opened, responses>>

NoSession == 0
State == [sid : 0..MaxSessions, gate : Call \cup {NoGate}]
Empty == [sid |-> NoSession, gate |-> NoGate]    \* {}

Response == [call : Call, gate : Call,
             action : {"approve", "approve_with_error", "redirect", "timeout"}]

\* Where a call is between its hooks, and in them.
Outside == {"new", "running", "done", "refused", "missed"}
PreHook == {"emit", "track", "cut", "write"}
PostHook == {"peek", "consume", "clear", "rewrite", "respond"}

TypeOK ==
    /\ file \in State /\ session \in 1..MaxSessions /\ starting \in BOOLEAN
    /\ pc \in [Call -> Outside \cup PreHook \cup PostHook]
    /\ state \in [Call -> State]
    /\ peeked \in [Call -> Call \cup {NoGate}]
    /\ old \subseteq Call /\ opened \subseteq Call
    /\ responses \subseteq Response

\* The session has been started (session_start.py).
Init ==
    /\ file = [sid |-> 1, gate |-> NoGate] /\ session = 1 /\ starting = FALSE
    /\ pc = [c \in Call |-> "new"]
    /\ state = [c \in Call |-> Empty]
    /\ peeked = [c \in Call |-> NoGate]
    /\ old = {} /\ opened = {} /\ responses = {}

Goto(c, l) == pc' = [pc EXCEPT ![c] = l]

NoHook == ~starting /\ \A d \in Call : pc[d] \in Outside
MayStart == Overlap \/ NoHook
NoCall == \A d \in Call : pc[d] \in {"new", "done", "refused", "missed"}

\* Every call so far has had a PostToolUse hook that looked for its gate.
NoneMissed == \A d \in Call : pc[d] \notin {"refused", "missed"}

-------------------------------------------------------------------------------
(* session-state.json *)

Truncate == file' = Empty

\* Another process may have written since the truncation; what the longer of the
\* two texts leaves behind the shorter one is taken to be no JSON, and to read as {}.
Write(new) == file' \in {new} \cup IF file = Empty THEN {} ELSE {Empty}

\* SessionStart: a new session id, and no pending gate.
Restart ==
    /\ session < MaxSessions /\ ~starting /\ MayStart
    /\ Parallel \/ NoCall
    /\ session' = session + 1 /\ starting' = TRUE
    /\ Truncate
    /\ UNCHANGED <<pc, state, peeked, old, opened, responses>>

RestartWrite ==
    /\ starting /\ starting' = FALSE
    /\ Write([sid |-> session, gate |-> NoGate])
    /\ UNCHANGED <<session, pc, state, peeked, old, opened, responses>>

-------------------------------------------------------------------------------
(* PreToolUse: pre_tool_check.py, when the verdict is a human gate (which the *)
(* hook turns into an allow) or an allow.                                     *)

Begin(c) ==
    /\ pc[c] = "new" /\ MayStart
    /\ Parallel \/ NoCall
    /\ Goto(c, "emit") \/ Goto(c, "running")
    /\ UNCHANGED <<file, session, starting, state, peeked, old, opened, responses>>

\* Mutant: the gate is tracked without having been recorded.
OpenGateUnrecorded(c) ==
    /\ pc[c] = "emit"
    /\ Goto(c, "track")
    /\ UNCHANGED <<file, session, starting, state, peeked, old, opened, responses>>

\* _emit_human_gate records the gate first.  (What emit does when the database is away,
\* and an event it cannot even buffer, are AuditBus.tla's.)
OpenGate(c) ==
    /\ pc[c] = "emit"
    /\ opened' = opened \cup {c}
    /\ Goto(c, "track")
    /\ UNCHANGED <<file, session, starting, state, peeked, old, responses>>

\* Mutant: the state is built anew instead of loaded.
TrackAnew(c) ==
    /\ pc[c] = "track"
    /\ state' = [state EXCEPT ![c] = [Empty EXCEPT !.gate = c]]
    /\ Goto(c, "cut")
    /\ UNCHANGED <<file, session, starting, peeked, old, opened, responses>>

\* Mutant: the gate's id and its tool's name are swapped.
TrackSwapped(c) ==
    /\ pc[c] = "track"
    /\ state' = [state EXCEPT ![c] = [file EXCEPT !.gate = ToolOf[c]]]
    /\ Goto(c, "cut")
    /\ UNCHANGED <<file, session, starting, peeked, old, opened, responses>>

\* track_pending_gate: load, put the gate in the slot, ...
Track(c) ==
    /\ pc[c] = "track"
    /\ state' = [state EXCEPT ![c] = [file EXCEPT !.gate = c]]
    /\ Goto(c, "cut")
    /\ UNCHANGED <<file, session, starting, peeked, old, opened, responses>>

\* ... write_session_state, here and in consume_pending_gate.
Cut(c) ==
    /\ pc[c] \in {"cut", "clear"}
    /\ Truncate
    /\ Goto(c, IF pc[c] = "cut" THEN "write" ELSE "rewrite")
    /\ UNCHANGED <<session, starting, state, peeked, old, opened, responses>>

WriteBack(c) ==
    /\ pc[c] \in {"write", "rewrite"}
    /\ Write(state[c])
    /\ state' = [state EXCEPT ![c] = Empty]
    /\ Goto(c, IF pc[c] = "write" THEN "running" ELSE "respond")
    /\ UNCHANGED <<session, starting, peeked, old, opened, responses>>

-------------------------------------------------------------------------------
(* PostToolUse: post_tool_metrics.py, _emit_outcome_signals. *)

End(c) ==
    /\ pc[c] = "running" /\ MayStart
    /\ Goto(c, "peek")
    /\ UNCHANGED <<file, session, starting, state, peeked, old, opened, responses>>

\* Before the peek main() builds the monitor, the guardian and the buses and records the
\* call's metrics; what they raise (a database that is away, a Qdrant that refuses the
\* baseline's id) is caught where an error of the peek itself would be, by "except: pass",
\* and the hook is over.
Miss(c) ==
    /\ pc[c] = "peek"
    /\ Goto(c, "missed")
    /\ UNCHANGED <<file, session, starting, state, peeked, old, opened, responses>>

\* Mutant: an old gate is left alone instead of being answered with a timeout.
PeekFresh(c) ==
    /\ pc[c] = "peek"
    /\ peeked' = [peeked EXCEPT ![c] = IF file.gate \in old THEN NoGate ELSE file.gate]
    /\ Goto(c, IF file.gate \in old \cup {NoGate} THEN "done" ELSE "consume")
    /\ UNCHANGED <<file, session, starting, state, old, opened, responses>>

Peek(c) ==
    /\ pc[c] = "peek"
    /\ peeked' = [peeked EXCEPT ![c] = file.gate]
    /\ Goto(c, IF file.gate = NoGate THEN "done" ELSE "consume")
    /\ UNCHANGED <<file, session, starting, state, old, opened, responses>>

\* Mutant: the slot is not cleared.
ConsumeKeeps(c) ==
    /\ pc[c] = "consume"
    /\ Goto(c, "respond")
    /\ UNCHANGED <<file, session, starting, state, peeked, old, opened, responses>>

\* consume_pending_gate loads again and pops what it finds now, whatever was
\* peeked; the result is not looked at.
Consume(c) ==
    /\ pc[c] = "consume"
    /\ IF file.gate = NoGate
       THEN Goto(c, "respond") /\ UNCHANGED state
       ELSE /\ Goto(c, "clear")
            /\ state' = [state EXCEPT ![c] = [file EXCEPT !.gate = NoGate]]
    /\ UNCHANGED <<file, session, starting, peeked, old, opened, responses>>

\* The action: an old gate timed out; the same tool ran, so the human approved;
\* or else they redirected.
Action(c, gate, failed) ==
    IF gate \in old THEN "timeout"
    ELSE IF ToolOf[c] # ToolOf[gate] THEN "redirect"
    ELSE IF failed THEN "approve_with_error" ELSE "approve"

Respond(c) ==
    /\ pc[c] = "respond"
    /\ \E failed \in BOOLEAN :
           responses' = responses \cup
               {[call |-> c, gate |-> peeked[c], action |-> Action(c, peeked[c], failed)]}
    /\ Goto(c, "done")
    /\ peeked' = [peeked EXCEPT ![c] = NoGate]
    /\ UNCHANGED <<file, session, starting, state, old, opened>>

-------------------------------------------------------------------------------

Age(g) ==
    /\ g \in opened \ old /\ old' = old \cup {g}
    /\ UNCHANGED <<file, session, starting, pc, state, peeked, opened, responses>>

\* A hook is killed: the call goes on without it (PreToolUse) or is over.
Crash(c) ==
    /\ Crashes /\ pc[c] \in PreHook \cup PostHook
    /\ Goto(c, IF pc[c] \in PreHook THEN "running" ELSE "done")
    /\ state' = [state EXCEPT ![c] = Empty]
    /\ peeked' = [peeked EXCEPT ![c] = NoGate]
    /\ UNCHANGED <<file, session, starting, old, opened, responses>>

\* Another hook or the human refuses the call: there is no PostToolUse.
Drop(c) ==
    /\ Drops /\ pc[c] = "running"
    /\ Goto(c, "refused")
    /\ UNCHANGED <<file, session, starting, state, peeked, old, opened, responses>>

Step(c) == \/ OpenGate(c) \/ Track(c) \/ Cut(c) \/ WriteBack(c) \/ End(c)
           \/ Peek(c) \/ Consume(c) \/ Respond(c)

Next == \/ \E c \in Call : Begin(c) \/ Step(c) \/ Age(c) \/ Miss(c) \/ Crash(c) \/ Drop(c)
        \/ Restart \/ RestartWrite

Spec == Init /\ [][Next]_vars

\* A call that has begun, and each hook of it, comes to its end, if only by a Miss.
FairSpec == Spec /\ WF_vars(RestartWrite) /\ \A c \in Call : WF_vars(Step(c))

-------------------------------------------------------------------------------
(* Properties. *)

Answered == {r.gate : r \in responses}

\* hitl_api.py, list_pending: gates without a response in the log.
ListPending == opened \ Answered

\* What is answered was opened: a response never precedes the human_gate event of
\* its gate, so list_pending loses no gate to a response nobody can place.
ResponseAfterGate == Answered \subseteq opened

\* A gate is answered at most once ("one-shot", consume_pending_gate).
AnsweredOnce ==
    \A r, s \in responses : r.gate = s.gate => r = s

\* Between hooks the file holds the session id SessionStart wrote last.
SessionIdKept == NoHook => file.sid = session

\* Between hooks the gate in the slot is open and unanswered.
SlotIsPending == NoHook /\ file.gate # NoGate => file.gate \in ListPending

\* Unless a call was refused or its PostToolUse hook missed the peek, every open gate is
\* the one in the slot, where the next response will find it ("Record an open human gate
\* so the matching response can be paired later", track_pending_gate): list_pending shows
\* no gate that nothing can answer any more.
OpenGateInSlot == NoHook /\ NoneMissed => \A g \in ListPending : file.gate = g

\* The two: the slot and the list of pending gates agree.
SlotHoldsOpenGate == SlotIsPending /\ OpenGateInSlot

\* An opened gate is answered at last, unless the very call it was opened for is refused
\* or has a PostToolUse hook that ends before its peek: no other call, and no restart of
\* the session, can take the answer away.
GateAnswered ==
    \A g \in Call : g \in opened ~> g \in Answered \/ pc[g] \in {"refused", "missed"}
===============================================================================
