---------------------------- MODULE ThreatDetection ----------------------------
(***************************************************************************)
(* governance/lib/security/threat_detection.py: what a detection engine    *)
(* remembers from call to call.  The tool abuse detector keeps the calls   *)
(* of each session in a dictionary, and the sessions in the order they     *)
(* were entered, so as to evict the oldest when there are too many.  (The  *)
(* exfiltration detector keeps its volumes in the same way, but reports    *)
(* them only.)  Time is counted in ticks; a call is reduced to its age.    *)
(***************************************************************************)
EXTENDS Integers, Sequences, FiniteSets

CONSTANTS
    Session,         \* session ids
    MaxTracked,      \* MAX_TRACKED_SESSIONS
    RateThreshold,   \* DEFAULT_RATE_THRESHOLD; nothing sets another
    RepeatLength,    \* calls of one tool in a row that are unusual: 10
    WindowSize,      \* WINDOW_SIZE, in ticks
    MaxMade          \* bound: calls of one session within the window

ASSUME SessionAssumption == IsFiniteSet(Session) /\ Session # {}
ASSUME WindowAssumption ==
    {MaxTracked, RateThreshold, RepeatLength, WindowSize, MaxMade} \subseteq Nat \ {0}

VARIABLES
    order,    \* _session_order
    tracked,  \* the keys of _call_log
    calls,    \* _call_log: the ages of a session's calls within the window
    made,     \* history: those of all calls scanned since the engine was made
    met,      \* history: sessions that have called since then, and not ended
    crowded   \* history: they have been more than are tracked

engine == <<order, tracked, calls, made, met, crowded>>

Age == 0..WindowSize - 1

EngineTypeOK ==
    /\ order \in Seq(Session)
    /\ tracked \subseteq Session
    /\ calls \in [Session -> Seq(Age)] /\ made \in [Session -> Seq(Age)]
    /\ met \subseteq Session /\ crowded \in BOOLEAN

EngineInit ==
    /\ order = <<>> /\ tracked = {}
    /\ calls = [s \in Session |-> <<>>] /\ made = [s \in Session |-> <<>>]
    /\ met = {} /\ crowded = FALSE

Entries(list) == {list[i] : i \in DOMAIN list}

\* Mutant: a session is evicted when the list is full.
EvictEarly(list) ==
    IF Len(list) >= MaxTracked THEN SubSeq(list, Len(list) - MaxTracked + 2, Len(list)) ELSE list

\* _evict_oldest_sessions: what is left of the order.
EvictOldest(list) ==
    IF Len(list) > MaxTracked THEN SubSeq(list, Len(list) - MaxTracked + 1, Len(list)) ELSE list

\* The order as detect leaves it, for a call of session s.
Listed(s) == IF s \in tracked THEN order ELSE EvictOldest(Append(order, s))

\* The calls of s, this one included, that the detector judges it by.
Window(s) == Append(calls[s], 0)

\* rate_anomaly
Flooding(s) == Len(Window(s)) > RateThreshold

\* unusual_combination needs as many calls; whether they were of one tool is left open.
Repeating(s) == Len(Window(s)) >= RepeatLength

\* ToolAbuseDetector.detect, but for the verdict.
Record(s) ==
    /\ order' = Listed(s)
    /\ tracked' = (tracked \cap Entries(Listed(s))) \cup {s}
    /\ calls' = [t \in Session |-> IF t = s THEN Window(s)
                                   ELSE IF t \in Entries(Listed(s)) THEN calls[t] ELSE <<>>]
    /\ made' = [made EXCEPT ![s] = Append(@, 0)]
    /\ met' = met \cup {s}
    /\ crowded' = (crowded \/ Cardinality(met \cup {s}) > MaxTracked)

\* Mutant: old calls stay in the window.
OlderForever(list) == [i \in DOMAIN list |-> list[i] + 1]

\* The list a tick later: the oldest entries, which come first, leave the window.
\* (The code drops a session's old calls at its next call, which is their only reader.)
Older(list) ==
    LET left == Cardinality({i \in DOMAIN list : list[i] + 1 >= WindowSize})
    IN [i \in 1..(Len(list) - left) |-> list[i + left] + 1]

EngineTick ==
    /\ calls' = [s \in Session |-> Older(calls[s])]
    /\ made' = [s \in Session |-> Older(made[s])]
    /\ UNCHANGED <<order, tracked, met, crowded>>

\* The list without the first entry that is s, if any: list.remove.
Without(list, s) ==
    IF s \in Entries(list)
    THEN LET at == CHOOSE i \in DOMAIN list : list[i] = s /\ \A j \in 1..i - 1 : list[j] # s
         IN [i \in 1..Len(list) - 1 |-> list[IF i < at THEN i ELSE i + 1]]
    ELSE list

\* cleanup_session, of a session that has ended.
Cleanup(s) ==
    /\ s \in met
    /\ order' = Without(order, s)
    /\ tracked' = tracked \ {s} /\ met' = met \ {s}
    /\ calls' = [calls EXCEPT ![s] = <<>>] /\ made' = [made EXCEPT ![s] = <<>>]
    /\ UNCHANGED crowded

\* The process exits; the next one makes its own engine.
EngineRestart ==
    /\ order' = <<>> /\ tracked' = {} /\ met' = {} /\ crowded' = FALSE
    /\ calls' = [s \in Session |-> <<>>] /\ made' = [s \in Session |-> <<>>]

-------------------------------------------------------------------------------
(* Properties. *)

\* The end of a list.
IsLatest(short, long) ==
    /\ Len(short) <= Len(long)
    /\ short = SubSeq(long, Len(long) - Len(short) + 1, Len(long))

\* The dictionary and the order name the same sessions, at most MAX_TRACKED_SESSIONS
\* of them, so that nothing is kept for ever and every session can be evicted.
TrackingBounded ==
    /\ tracked = Entries(order) /\ Cardinality(tracked) = Len(order)
    /\ Len(order) <= MaxTracked
    /\ \A s \in Session : calls[s] # <<>> => s \in tracked

\* What a session is judged by is the latest of its calls in the window, and all of
\* them as long as the sessions were never more than are tracked: an eviction makes
\* a session look quieter than it is, and never busier.
WindowFaithful ==
    \A s \in Session :
        /\ IsLatest(calls[s], made[s])
        /\ ~crowded => calls[s] = made[s]

\* The two: what the engine remembers of a session is bounded, and true.
EngineFaithful == TrackingBounded /\ WindowFaithful
================================================================================
