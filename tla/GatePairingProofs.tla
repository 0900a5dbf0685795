--------------------------- MODULE GatePairingProofs ---------------------------
(***************************************************************************)
(* Theorems about GatePairing.tla for any calls and sessions.  However     *)
(* hooks overlap, crash and are refused: types, and that no response is    *)
(* recorded for a gate that was not recorded before.  For calls in         *)
(* sequence: one answer per gate, a session id that is kept, and a slot    *)
(* that agrees with the list of pending gates.                             *)
(***************************************************************************)
EXTENDS GatePairing, TLAPS

-------------------------------------------------------------------------------
(* ResponseAfterGate is not inductive: the gate a response is recorded for     *)
(* comes from what a hook peeked at, that from the file, and that from what    *)
(* another hook had loaded and changed.  All of them hold recorded gates only, *)
(* since _emit_human_gate records before it tracks.                            *)

\* Between its peek and its response a hook pairs with a gate.
Paired == \A c \in Call : pc[c] \in PostHook \ {"peek"} => peeked[c] \in Call

OpenOrNone == opened \cup {NoGate}

RecordedOnly ==
    /\ file.gate \in OpenOrNone
    /\ \A c \in Call : state[c].gate \in OpenOrNone /\ peeked[c] \in OpenOrNone
    /\ \A c \in Call : pc[c] = "track" => c \in opened
    /\ \A r \in responses : r.gate \in opened

GateInv == TypeOK /\ Paired /\ RecordedOnly

LEMMA EmptyState == Empty \in State /\ Empty.gate = NoGate
BY SessionAssumption DEF Empty, State, NoSession

\* Write gives the file the value written or leaves it empty.
LEMMA WriteFile ==
    ASSUME NEW new \in State, new.gate \in OpenOrNone, Write(new)
    PROVE  file' \in State /\ file'.gate \in OpenOrNone
BY EmptyState DEF Write, OpenOrNone

LEMMA GateInit == Init => GateInv
<1> SUFFICES ASSUME Init PROVE GateInv
  OBVIOUS
<1>1. 1 \in 1..MaxSessions /\ [sid |-> 1, gate |-> NoGate] \in State
  BY SessionAssumption DEF State
<1>2. TypeOK
  BY <1>1, EmptyState DEF Init, TypeOK, Outside
<1>3. Paired
  BY DEF Init, Paired, PostHook
<1>4. RecordedOnly
  BY EmptyState DEF Init, RecordedOnly, OpenOrNone
<1> QED BY <1>2, <1>3, <1>4 DEF GateInv

LEMMA GateNext == GateInv /\ [Next]_vars => GateInv'
<1> SUFFICES ASSUME GateInv, [Next]_vars PROVE GateInv'
  OBVIOUS
<1> USE DEF GateInv, TypeOK, Paired, RecordedOnly, OpenOrNone, Goto, Outside, PreHook, PostHook
<1>1. CASE Restart
  <2>1. session' \in 1..MaxSessions
    BY <1>1, SessionAssumption DEF Restart
  <2>2. file' = Empty
    BY <1>1 DEF Restart, Truncate
  <2> QED BY <1>1, <2>1, <2>2, EmptyState DEF Restart
<1>2. CASE RestartWrite
  <2>1. [sid |-> session, gate |-> NoGate] \in State
    BY SessionAssumption DEF State
  <2>2. file' \in State /\ file'.gate \in OpenOrNone
    BY <1>2, <2>1, WriteFile DEF RestartWrite
  <2> QED BY <1>2, <2>2 DEF RestartWrite
<1>3. ASSUME NEW c \in Call, Begin(c) \/ End(c) \/ Miss(c) \/ Drop(c) PROVE GateInv'
  BY <1>3 DEF Begin, End, Miss, Drop
<1>4. ASSUME NEW c \in Call, OpenGate(c) PROVE GateInv'
  BY <1>4 DEF OpenGate
<1>5. ASSUME NEW c \in Call, Track(c) PROVE GateInv'
  <2>1. [file EXCEPT !.gate = c] \in State /\ [file EXCEPT !.gate = c].gate = c
    BY DEF State
  <2>2. c \in opened
    BY <1>5 DEF Track
  <2> QED BY <1>5, <2>1, <2>2 DEF Track
<1>6. ASSUME NEW c \in Call, Cut(c) PROVE GateInv'
  <2>1. file' = Empty
    BY <1>6 DEF Cut, Truncate
  <2> QED BY <1>6, <2>1, EmptyState DEF Cut
<1>7. ASSUME NEW c \in Call, WriteBack(c) PROVE GateInv'
  <2>1. file' \in State /\ file'.gate \in OpenOrNone
    BY <1>7, WriteFile DEF WriteBack
  <2> QED BY <1>7, <2>1, EmptyState DEF WriteBack
<1>8. ASSUME NEW c \in Call, Peek(c) PROVE GateInv'
  <2>1. file.gate \in Call \cup {NoGate}
    BY DEF State
  <2> QED BY <1>8, <2>1 DEF Peek
<1>9. ASSUME NEW c \in Call, Consume(c) PROVE GateInv'
  <2>1. PICK cleared \in State : cleared = [file EXCEPT !.gate = NoGate] /\ cleared.gate = NoGate
    <3>1. [file EXCEPT !.gate = NoGate] \in State /\ [file EXCEPT !.gate = NoGate].gate = NoGate
      BY DEF State
    <3> QED BY <3>1
  <2>2. /\ UNCHANGED <<file, session, starting, peeked, old, opened, responses>>
        /\ pc[c] = "consume"
        /\ \/ pc' = [pc EXCEPT ![c] = "respond"] /\ state' = state
           \/ pc' = [pc EXCEPT ![c] = "clear"] /\ state' = [state EXCEPT ![c] = cleared]
    BY <1>9, <2>1 DEF Consume
  <2>3. TypeOK' /\ Paired'
    BY <2>2
  <2>4. RecordedOnly'
    BY <2>1, <2>2, ZenonT(30)
  <2> QED BY <2>3, <2>4
<1>10. ASSUME NEW c \in Call, Respond(c) PROVE GateInv'
  <2>1. peeked[c] \in Call /\ peeked[c] \in opened
    BY <1>10, GateAssumption DEF Respond
  <2>2. PICK failed \in BOOLEAN :
            responses' = responses \cup
               {[call |-> c, gate |-> peeked[c], action |-> Action(c, peeked[c], failed)]}
    BY <1>10 DEF Respond
  <2>3. Action(c, peeked[c], failed) \in {"approve", "approve_with_error", "redirect", "timeout"}
    BY DEF Action
  <2>4. responses' \subseteq Response /\ \A r \in responses' : r.gate \in opened
    BY <2>1, <2>2, <2>3 DEF Response
  <2> QED BY <1>10, <2>4 DEF Respond
<1>11. ASSUME NEW c \in Call, Age(c) PROVE GateInv'
  BY <1>11 DEF Age
<1>12. ASSUME NEW c \in Call, Crash(c) PROVE GateInv'
  BY <1>12, EmptyState DEF Crash
<1>13. CASE UNCHANGED vars
  BY <1>13 DEF vars
<1> QED
  BY <1>1, <1>2, <1>3, <1>4, <1>5, <1>6, <1>7, <1>8, <1>9, <1>10, <1>11, <1>12, <1>13
  DEF Next, Step

\* The session state, the hooks and the log keep their types under every fault.
THEOREM TypeCorrect == Spec => []TypeOK
<1>1. GateInv => TypeOK
  BY DEF GateInv
<1> QED BY GateInit, GateNext, <1>1, PTL DEF Spec

\* Whatever overlaps, dies or is refused, post_tool_metrics.py never records a
\* response whose human_gate event is not in the log yet.
THEOREM ResponseFollowsGate == Spec => []ResponseAfterGate
<1>1. GateInv => ResponseAfterGate
  BY DEF GateInv, RecordedOnly, ResponseAfterGate, Answered
<1> QED BY GateInit, GateNext, <1>1, PTL DEF Spec

-------------------------------------------------------------------------------
(* Hooks one at a time, of calls that may be parallel, and hooks may die: the  *)
(* invariant follows the one hook under way.                                   *)

OneHook ==
    /\ \A c, d \in Call : pc[c] \notin Outside /\ pc[d] \notin Outside => c = d
    /\ starting => \A c \in Call : pc[c] \in Outside

Cutting == starting \/ \E c \in Call : pc[c] \in {"write", "rewrite"}

\* The file is empty between a truncation and its write.  Unless a hook dies there, it
\* otherwise holds the id of the session, and so does what a hook is about to write.
FileWhole ==
    /\ Cutting => file = Empty
    /\ ~Cutting /\ ~Crashes => file.sid = session
    /\ \A c \in Call :
           /\ pc[c] \in {"cut", "write", "clear", "rewrite"} /\ ~Crashes => state[c].sid = session
           /\ pc[c] \in {"cut", "write"} => state[c].gate = c
           /\ pc[c] \in {"clear", "rewrite"} => state[c].gate = NoGate

\* The slot holds what the hook peeked at until it is cleared, ...
SlotPeeked ==
    \A c \in Call : /\ pc[c] \in {"consume", "clear"} => file.gate = peeked[c]
                    /\ pc[c] = "respond" => file.gate = NoGate

\* ... and neither the slot nor a hook holds an answered gate.
Unanswered ==
    /\ file.gate \notin Answered
    /\ \A c \in Call :
           /\ pc[c] \in PostHook \ {"peek"} => peeked[c] \notin Answered
           /\ pc[c] \in {"new", "emit"} => c \notin opened
           /\ pc[c] \in {"track", "cut", "write"} => c \notin Answered

HookInv == OneHook /\ FileWhole /\ SlotPeeked /\ Unanswered /\ AnsweredOnce

LEMMA HookInit == Init => HookInv
<1> SUFFICES ASSUME Init PROVE HookInv
  OBVIOUS
<1>1. ~Cutting /\ Answered = {}
  BY DEF Init, Cutting, Answered
<1>2. OneHook /\ FileWhole /\ SlotPeeked
  BY <1>1 DEF Init, OneHook, FileWhole, SlotPeeked, Outside
<1>3. Unanswered /\ AnsweredOnce
  BY <1>1 DEF Init, Unanswered, AnsweredOnce, PostHook
<1> QED BY <1>2, <1>3 DEF HookInv

\* While the hook of call c is under way, or begins, it is the only one.
LEMMA OnlyHook ==
    ASSUME HookInv, NEW c \in Call, pc[c] \notin Outside \/ NoHook
    PROVE  /\ ~starting
           /\ \A d \in Call : d # c => pc[d] \in Outside
           /\ Cutting <=> pc[c] \in {"write", "rewrite"}
<1>1. ~starting /\ \A d \in Call : d # c => pc[d] \in Outside
  BY DEF HookInv, OneHook, NoHook
<1> QED BY <1>1 DEF Cutting, Outside

LEMMA HookNext ==
    ASSUME ~Overlap, GateInv, HookInv, [Next]_vars
    PROVE  HookInv'
<1> USE DEF GateInv, TypeOK, Goto, Outside, PreHook, PostHook
<1>0. NoGate \notin Answered /\ Answered \subseteq opened
  BY GateAssumption DEF RecordedOnly, Answered
<1>1. CASE Restart
  <2>1. /\ NoHook /\ ~starting /\ starting' /\ file' = Empty
        /\ UNCHANGED <<pc, state, peeked, old, opened, responses>>
    BY <1>1 DEF Restart, Truncate, MayStart
  <2>2. \A c \in Call : pc[c] \in Outside
    BY <2>1 DEF NoHook
  <2>3. OneHook' /\ FileWhole' /\ SlotPeeked'
    BY <2>1, <2>2 DEF OneHook, FileWhole, SlotPeeked, Cutting
  <2>4. Unanswered'
    BY <2>1, <1>0, EmptyState DEF Unanswered, HookInv, Answered
  <2>5. AnsweredOnce'
    BY <2>1 DEF HookInv, AnsweredOnce
  <2> QED BY <2>3, <2>4, <2>5 DEF HookInv
<1>2. CASE RestartWrite
  <2>1. /\ starting /\ ~starting' /\ file' = [sid |-> session, gate |-> NoGate]
        /\ UNCHANGED <<session, pc, state, peeked, old, opened, responses>>
    BY <1>2 DEF RestartWrite, Write, HookInv, FileWhole, Cutting
  <2>2. \A c \in Call : pc[c] \in Outside
    BY <2>1 DEF HookInv, OneHook
  <2>3. OneHook' /\ FileWhole' /\ SlotPeeked'
    BY <2>1, <2>2 DEF OneHook, FileWhole, SlotPeeked, Cutting
  <2>4. Unanswered'
    BY <2>1, <1>0 DEF Unanswered, HookInv, Answered
  <2>5. AnsweredOnce'
    BY <2>1 DEF HookInv, AnsweredOnce
  <2> QED BY <2>3, <2>4, <2>5 DEF HookInv
<1>3. ASSUME NEW c \in Call, Begin(c) PROVE HookInv'
  <2>1. /\ NoHook /\ pc[c] = "new"
        /\ pc' = [pc EXCEPT ![c] = "emit"] \/ pc' = [pc EXCEPT ![c] = "running"]
        /\ UNCHANGED <<file, session, starting, state, peeked, old, opened, responses>>
    BY <1>3 DEF Begin, MayStart
  <2>2. ~starting /\ \A d \in Call : pc[d] \in Outside /\ (d # c => pc'[d] = pc[d])
    BY <2>1 DEF NoHook
  <2>3. pc'[c] \in {"emit", "running"}
    BY <2>1
  <2>4. OneHook'
    BY <2>1, <2>2 DEF OneHook
  <2>5. ~Cutting /\ ~Cutting'
    BY <2>1, <2>2, <2>3 DEF Cutting
  <2>6. FileWhole'
    BY <2>1, <2>2, <2>3, <2>5 DEF FileWhole, HookInv
  <2>7. SlotPeeked'
    BY <2>1, <2>2, <2>3 DEF SlotPeeked
  <2>8. Unanswered'
    BY <2>1, <2>2, <2>3 DEF Unanswered, HookInv, Answered
  <2>9. AnsweredOnce'
    BY <2>1 DEF HookInv, AnsweredOnce
  <2> QED BY <2>4, <2>6, <2>7, <2>8, <2>9 DEF HookInv
<1>4. ASSUME NEW c \in Call, Step(c) PROVE HookInv'
  <2>0. pc[c] \notin Outside \/ NoHook
    BY <1>4 DEF Step, OpenGate, Track, Cut, WriteBack, End, Peek, Consume, Respond, MayStart
  <2>1. session' = session /\ starting' = starting
    BY <1>4 DEF Step, OpenGate, Track, Cut, WriteBack, End, Peek, Consume, Respond
  <2>2. /\ ~starting
        /\ \A d \in Call : d # c => pc[d] \in Outside
        /\ Cutting <=> pc[c] \in {"write", "rewrite"}
    BY <2>0, OnlyHook
  <2>3. \A d \in Call : d # c => pc'[d] = pc[d]
    BY <1>4 DEF Step, OpenGate, Track, Cut, WriteBack, End, Peek, Consume, Respond
  <2>4. OneHook'
    BY <2>1, <2>2, <2>3 DEF OneHook
  <2>5. Cutting' <=> pc'[c] \in {"write", "rewrite"}
    BY <2>1, <2>2, <2>3 DEF Cutting
  \* What is left to show of each step.
  <2>6. SUFFICES FileWhole' /\ SlotPeeked' /\ Unanswered' /\ AnsweredOnce'
    BY <2>4 DEF HookInv
  <2> USE DEF HookInv
  <2>7. CASE OpenGate(c)
    <3>1. /\ pc[c] = "emit" /\ pc'[c] = "track" /\ opened' = opened \cup {c}
          /\ UNCHANGED <<file, session, starting, state, peeked, old, responses>>
      BY <2>7 DEF OpenGate
    <3>2. c \notin opened /\ Answered' = Answered
      BY <3>1 DEF Unanswered, Answered
    <3>3. FileWhole' /\ SlotPeeked' /\ AnsweredOnce'
      BY <2>2, <2>3, <2>5, <3>1 DEF FileWhole, SlotPeeked, AnsweredOnce
    <3>4. Unanswered'
      BY <1>0, <2>2, <2>3, <3>1, <3>2 DEF Unanswered
    <3> QED BY <3>3, <3>4
  <2>8. CASE Track(c)
    <3>1. /\ pc[c] = "track" /\ pc'[c] = "cut"
          /\ state' = [state EXCEPT ![c] = [file EXCEPT !.gate = c]]
          /\ UNCHANGED <<file, session, starting, peeked, old, opened, responses>>
      BY <2>8 DEF Track
    <3>2. ~Crashes => file.sid = session
      BY <2>2, <3>1 DEF FileWhole
    <3>3. state'[c].sid = file.sid /\ state'[c].gate = c
      BY <3>1 DEF State
    <3>4. FileWhole' /\ SlotPeeked' /\ AnsweredOnce'
      BY <2>2, <2>3, <2>5, <3>1, <3>2, <3>3 DEF FileWhole, SlotPeeked, AnsweredOnce
    <3>5. Unanswered'
      BY <2>2, <2>3, <3>1 DEF Unanswered, Answered
    <3> QED BY <3>4, <3>5
  <2>9. CASE Cut(c)
    <3>1. /\ file' = Empty
          /\ \/ pc[c] = "cut" /\ pc'[c] = "write"
             \/ pc[c] = "clear" /\ pc'[c] = "rewrite"
          /\ UNCHANGED <<session, starting, state, peeked, old, opened, responses>>
      BY <2>9 DEF Cut, Truncate
    <3>2. FileWhole' /\ SlotPeeked' /\ AnsweredOnce'
      BY <2>2, <2>3, <2>5, <3>1 DEF FileWhole, SlotPeeked, AnsweredOnce
    <3>3. Unanswered'
      BY <1>0, <2>2, <2>3, <3>1, EmptyState DEF Unanswered, Answered
    <3> QED BY <3>2, <3>3
  <2>10. CASE WriteBack(c)
    <3>1. /\ \/ pc[c] = "write" /\ pc'[c] = "running"
             \/ pc[c] = "rewrite" /\ pc'[c] = "respond"
          /\ state' = [state EXCEPT ![c] = Empty]
          /\ UNCHANGED <<session, starting, peeked, old, opened, responses>>
      BY <2>10 DEF WriteBack
    <3>2. file' = state[c]
      BY <2>2, <2>10, <3>1 DEF WriteBack, Write, FileWhole
    <3>3. /\ ~Crashes => file'.sid = session
          /\ \/ pc[c] = "write" /\ file'.gate = c
             \/ pc[c] = "rewrite" /\ file'.gate = NoGate
      BY <3>1, <3>2 DEF FileWhole
    <3>4. FileWhole' /\ SlotPeeked' /\ AnsweredOnce'
      BY <2>2, <2>3, <2>5, <3>1, <3>3 DEF FileWhole, SlotPeeked, AnsweredOnce
    <3>5. Unanswered'
      BY <1>0, <2>2, <2>3, <3>1, <3>3 DEF Unanswered, Answered
    <3> QED BY <3>4, <3>5
  <2>11. CASE End(c)
    <3>1. /\ pc[c] = "running" /\ pc'[c] = "peek"
          /\ UNCHANGED <<file, session, starting, state, peeked, old, opened, responses>>
      BY <2>11 DEF End
    <3>2. FileWhole' /\ SlotPeeked' /\ AnsweredOnce'
      BY <2>2, <2>3, <2>5, <3>1 DEF FileWhole, SlotPeeked, AnsweredOnce
    <3>3. Unanswered'
      BY <2>2, <2>3, <3>1 DEF Unanswered, Answered
    <3> QED BY <3>2, <3>3
  <2>12. CASE Peek(c)
    <3>1. /\ pc[c] = "peek" /\ peeked' = [peeked EXCEPT ![c] = file.gate]
          /\ pc'[c] \in {"done", "consume"}
          /\ UNCHANGED <<file, session, starting, state, old, opened, responses>>
      BY <2>12 DEF Peek
    <3>2. peeked'[c] = file.gate
      BY <3>1
    <3>3. FileWhole' /\ SlotPeeked' /\ AnsweredOnce'
      BY <2>2, <2>3, <2>5, <3>1, <3>2 DEF FileWhole, SlotPeeked, AnsweredOnce
    <3>4. Unanswered'
      BY <2>2, <2>3, <3>1, <3>2 DEF Unanswered, Answered
    <3> QED BY <3>3, <3>4
  <2>13. CASE Consume(c)
    <3>1. pc[c] = "consume" /\ file.gate = peeked[c] /\ peeked[c] # NoGate
      BY <2>13, GateAssumption DEF Consume, SlotPeeked, Paired
    <3>2. /\ pc'[c] = "clear"
          /\ state' = [state EXCEPT ![c] = [file EXCEPT !.gate = NoGate]]
          /\ UNCHANGED <<file, session, starting, peeked, old, opened, responses>>
      BY <2>13, <3>1 DEF Consume
    <3>3. ~Crashes => file.sid = session
      BY <2>2, <3>1 DEF FileWhole
    <3>4. state'[c].sid = file.sid /\ state'[c].gate = NoGate
      BY <3>2 DEF State
    <3>5. FileWhole' /\ SlotPeeked' /\ AnsweredOnce'
      BY <2>2, <2>3, <2>5, <3>1, <3>2, <3>3, <3>4 DEF FileWhole, SlotPeeked, AnsweredOnce
    <3>6. Unanswered'
      BY <2>2, <2>3, <3>1, <3>2 DEF Unanswered, Answered
    <3> QED BY <3>5, <3>6
  <2>14. CASE Respond(c)
    <3>1. /\ pc[c] = "respond" /\ pc'[c] = "done"
          /\ peeked' = [peeked EXCEPT ![c] = NoGate]
          /\ UNCHANGED <<file, session, starting, state, old, opened>>
      BY <2>14 DEF Respond
    <3>2. PICK r : r.gate = peeked[c] /\ responses' = responses \cup {r}
      BY <2>14 DEF Respond
    <3>3. Answered' = Answered \cup {peeked[c]}
      BY <3>2 DEF Answered
    <3>4. peeked[c] \notin Answered /\ file.gate = NoGate /\ peeked[c] # NoGate
      BY <3>1, GateAssumption DEF Unanswered, SlotPeeked, Paired
    <3>5. FileWhole' /\ SlotPeeked'
      BY <2>2, <2>3, <2>5, <3>1 DEF FileWhole, SlotPeeked
    <3>6. AnsweredOnce'
      BY <3>2, <3>4 DEF AnsweredOnce, Answered
    <3>7. Unanswered'
      <4>1. peeked[c] \in opened
        BY <3>4, <1>0 DEF RecordedOnly, OpenOrNone
      <4> QED BY <2>2, <2>3, <3>1, <3>3, <3>4, <4>1 DEF Unanswered
    <3> QED BY <3>5, <3>6, <3>7
  <2> QED BY <1>4, <2>7, <2>8, <2>9, <2>10, <2>11, <2>12, <2>13, <2>14 DEF Step
\* A hook that dies or misses its peek, or a call refused, leaves the file as it is.
<1>5. ASSUME NEW c \in Call, Crash(c) \/ Miss(c) \/ Drop(c) PROVE HookInv'
  <2>1. /\ pc'[c] \in {"running", "done", "refused", "missed"} /\ \A d \in Call : d # c => pc'[d] = pc[d]
        /\ UNCHANGED <<file, session, starting, old, opened, responses>>
        /\ \A d \in Call : d # c => state'[d] = state[d] /\ peeked'[d] = peeked[d]
    BY <1>5 DEF Crash, Miss, Drop
  <2>2. OneHook' /\ AnsweredOnce'
    BY <2>1 DEF HookInv, OneHook, AnsweredOnce
  <2>3. Cutting' => Cutting
    BY <2>1 DEF Cutting
  <2>4. ~Crashes => (Cutting <=> Cutting')
    BY <1>5, <2>1 DEF Cutting, Crash, Miss, Drop
  <2>5. FileWhole'
    BY <2>1, <2>3, <2>4 DEF FileWhole, HookInv
  <2>6. SlotPeeked' /\ Unanswered'
    BY <2>1 DEF HookInv, SlotPeeked, Unanswered, Answered
  <2> QED BY <2>2, <2>5, <2>6 DEF HookInv
<1>6. CASE UNCHANGED <<file, session, starting, pc, state, peeked, opened, responses>>
  BY <1>6 DEF HookInv, OneHook, FileWhole, Cutting, SlotPeeked, Unanswered, AnsweredOnce, Answered
<1> QED
  BY <1>1, <1>2, <1>3, <1>4, <1>5, <1>6 DEF Next, Age, vars

LEMMA HookSpec == ASSUME ~Overlap PROVE Spec => [](GateInv /\ HookInv)
<1>1. Init => GateInv /\ HookInv
  BY GateInit, HookInit
<1>2. GateInv /\ HookInv /\ [Next]_vars => (GateInv /\ HookInv)'
  BY GateNext, HookNext
<1> QED BY <1>1, <1>2, PTL DEF Spec

\* As long as hooks do not overlap, no gate is answered twice, however calls run in
\* parallel, how ever old the gate is, whichever calls are refused and wherever hooks die;
\* and what is in the slot between hooks is pending.
THEOREM NoGateAnsweredTwice ==
    ASSUME ~Overlap PROVE Spec => [](AnsweredOnce /\ SlotIsPending)
<1>1. GateInv /\ HookInv => AnsweredOnce /\ SlotIsPending
  BY DEF GateInv, RecordedOnly, OpenOrNone, HookInv, Unanswered, SlotIsPending, ListPending
<1> QED BY HookSpec, <1>1, PTL

\* If no hook dies either, the hooks of parallel calls keep the session id: between them
\* the file is whole.
THEOREM SessionKept ==
    ASSUME ~Overlap, ~Crashes PROVE Spec => []SessionIdKept
<1>1. HookInv => SessionIdKept
  BY DEF HookInv, SessionIdKept, FileWhole, Cutting, NoHook, Outside
<1> QED BY HookSpec, <1>1, PTL

-------------------------------------------------------------------------------
(* Calls in sequence: a call or a session begins only when the call before it  *)
(* has ended.                                                                  *)

Idle == {"new", "done", "refused", "missed"}

\* One call at a time.
OneCall == \A c, d \in Call : pc[c] \notin Idle /\ pc[d] \notin Idle => c = d

\* Where gate g is while call c is on its way.
HeldAt(g, c) ==
    \/ pc[c] \in {"track", "cut", "write"} /\ c = g
    \/ pc[c] \in {"running", "peek", "consume", "clear"} /\ file.gate = g
    \/ pc[c] \in {"rewrite", "respond"} /\ peeked[c] = g

\* Unless a call was refused or missed, the call under way holds the only pending gate.
PendingHeld == NoneMissed => \A g \in ListPending : \E c \in Call : HeldAt(g, c)

SerialInv == OneCall /\ PendingHeld

LEMMA SerialInit == Init => SerialInv
BY DEF Init, SerialInv, OneCall, PendingHeld, ListPending, Idle

\* Between calls nothing is pending, unless a call was refused or missed.
LEMMA NonePending ==
    ASSUME SerialInv, NoCall, NoneMissed
    PROVE  ListPending = {}
BY DEF SerialInv, PendingHeld, HeldAt, NoCall

LEMMA SerialNext ==
    ASSUME ~Parallel, ~Crashes, GateInv, HookInv, SerialInv, [Next]_vars
    PROVE  SerialInv'
<1> USE DEF GateInv, TypeOK, Goto, Idle
<1>1. CASE Restart
  <2>1. NoCall /\ UNCHANGED <<pc, opened, responses>>
    BY <1>1 DEF Restart
  <2>2. PendingHeld'
    BY <2>1, NonePending DEF PendingHeld, NoneMissed, ListPending, Answered
  <2> QED BY <2>1, <2>2 DEF SerialInv, OneCall
<1>2. CASE RestartWrite
  <2>1. starting /\ UNCHANGED <<pc, peeked, opened, responses>>
    BY <1>2 DEF RestartWrite
  <2>2. file.gate = NoGate
    BY <2>1, EmptyState DEF HookInv, FileWhole, Cutting
  <2>3. NoGate \notin ListPending
    BY GateAssumption DEF ListPending
  <2> QED BY <2>1, <2>2, <2>3 DEF SerialInv, OneCall, PendingHeld, NoneMissed, ListPending, Answered, HeldAt
<1>3. ASSUME NEW c \in Call, Begin(c) PROVE SerialInv'
  <2>1. /\ NoCall /\ pc[c] = "new" /\ UNCHANGED <<opened, responses>>
        /\ pc' = [pc EXCEPT ![c] = "emit"] \/ pc' = [pc EXCEPT ![c] = "running"]
    BY <1>3 DEF Begin
  <2>2. OneCall'
    BY <2>1 DEF OneCall, NoCall
  <2>3. NoneMissed' => NoneMissed
    BY <2>1 DEF NoneMissed
  <2>4. PendingHeld'
    BY <2>1, <2>3, NonePending DEF PendingHeld, ListPending, Answered
  <2> QED BY <2>2, <2>4 DEF SerialInv
<1>4. ASSUME NEW c \in Call, Step(c) \/ Miss(c) \/ Drop(c) PROVE SerialInv'
  <2>1. pc[c] \notin Idle
    BY <1>4 DEF Step, Miss, Drop, OpenGate, Track, Cut, WriteBack, End, Peek, Consume, Respond
  <2>2. /\ \A d \in Call : d # c => pc[d] \in Idle
        /\ NoneMissed => \A g \in ListPending : HeldAt(g, c)
    <3>1. \A d \in Call : d # c => pc[d] \in Idle
      BY <2>1 DEF SerialInv, OneCall
    <3> QED BY <3>1 DEF SerialInv, PendingHeld, HeldAt
  <2>3. \A d \in Call : d # c => pc'[d] = pc[d]
    BY <1>4 DEF Step, Miss, Drop, OpenGate, Track, Cut, WriteBack, End, Peek, Consume, Respond
  <2>4. OneCall'
    BY <2>2, <2>3 DEF OneCall
  <2>5. NoneMissed' => NoneMissed
    BY <2>1, <2>3 DEF NoneMissed
  <2>6. SUFFICES ASSUME NoneMissed', NEW g \in ListPending' PROVE HeldAt(g, c)'
    BY <2>4 DEF SerialInv, PendingHeld
  <2>7. g \in ListPending /\ g # NoGate => HeldAt(g, c)
    BY <2>2, <2>5, <2>6
  <2>8. g # NoGate
    <3>1. opened' \subseteq Call
      BY GateNext
    <3> QED BY GateAssumption, <2>6, <3>1 DEF ListPending
  <2>9. CASE OpenGate(c)
    BY <2>6, <2>7, <2>8, <2>9 DEF OpenGate, ListPending, Answered, HeldAt
  <2>10. CASE Track(c)
    BY <2>6, <2>7, <2>8, <2>10 DEF Track, ListPending, Answered, HeldAt
  <2>11. CASE Cut(c)
    <3>1. HeldAt(g, c)
      BY <2>6, <2>7, <2>8, <2>11 DEF Cut, ListPending, Answered
    <3> QED BY <2>11, <3>1 DEF Cut, HeldAt, HookInv, SlotPeeked
  <2>12. CASE WriteBack(c)
    <3>1. HeldAt(g, c) /\ file = Empty
      BY <2>6, <2>7, <2>8, <2>12 DEF WriteBack, ListPending, Answered, HookInv, FileWhole, Cutting
    <3>2. pc[c] = "write" => file' = state[c] /\ state[c].gate = c
      BY <2>12, <3>1 DEF WriteBack, Write, HookInv, FileWhole
    <3> QED BY <2>12, <3>1, <3>2 DEF WriteBack, HeldAt
  <2>13. CASE End(c)
    BY <2>6, <2>7, <2>8, <2>13 DEF End, ListPending, Answered, HeldAt
  <2>14. CASE Peek(c)
    BY <2>6, <2>7, <2>8, <2>14 DEF Peek, ListPending, Answered, HeldAt
  <2>15. CASE Consume(c)
    <3>1. HeldAt(g, c) /\ file.gate = peeked[c]
      BY <2>6, <2>7, <2>8, <2>15 DEF Consume, ListPending, Answered, HookInv, SlotPeeked
    <3> QED BY <2>8, <2>15, <3>1 DEF Consume, HeldAt
  <2>16. CASE Respond(c)
    <3>1. peeked[c] \in Answered' /\ Answered \subseteq Answered' /\ pc[c] = "respond" /\ opened' = opened
      BY <2>16 DEF Respond, Answered
    <3>2. HeldAt(g, c)
      BY <2>6, <2>7, <2>8, <3>1 DEF ListPending
    <3> QED BY <2>6, <3>1, <3>2 DEF HeldAt, ListPending
  <2>17. CASE Miss(c) \/ Drop(c)
    BY <2>6, <2>17 DEF Miss, Drop, NoneMissed
  <2> QED
    BY <1>4, <2>9, <2>10, <2>11, <2>12, <2>13, <2>14, <2>15, <2>16, <2>17 DEF Step
<1>5. CASE UNCHANGED <<file, pc, peeked, opened, responses>>
  BY <1>5 DEF SerialInv, OneCall, PendingHeld, HeldAt, ListPending, Answered, NoneMissed
<1> QED
  BY <1>1, <1>2, <1>3, <1>4, <1>5 DEF Next, Crash, Age, vars

\* In sequence and with no hook dying, the slot and the list of pending gates agree
\* between hooks: what is in the slot is pending, and, unless a call was refused or missed
\* its peek, all that is pending is in the slot.
THEOREM SerialSlotHoldsGate ==
    ASSUME ~Parallel, ~Overlap, ~Crashes PROVE Spec => []SlotHoldsOpenGate
<1>1. GateInv /\ HookInv /\ SerialInv /\ [Next]_vars => SerialInv'
  BY SerialNext
<1>2. GateInv /\ HookInv => SlotIsPending
  BY DEF GateInv, RecordedOnly, OpenOrNone, HookInv, Unanswered, SlotIsPending, ListPending
<1>3. SerialInv => OpenGateInSlot
  BY DEF SerialInv, PendingHeld, HeldAt, OpenGateInSlot, NoHook, Outside
<1>4. GateInv /\ HookInv /\ SerialInv => SlotHoldsOpenGate
  BY <1>2, <1>3 DEF SlotHoldsOpenGate
<1> QED BY <1>1, <1>4, HookSpec, SerialInit, PTL DEF Spec
================================================================================
