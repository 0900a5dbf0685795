--------------------------- MODULE BehavioralMonitor ---------------------------
(***************************************************************************)
(* governance/lib/security/behavioral_monitor.py, as the PostToolUse hook  *)
(* (hooks/post_tool_metrics.py) uses it: the baseline of one agent in one  *)
(* metric, kept in Qdrant and updated by every tool call with Welford's    *)
(* algorithm.  Each hook is a process; it reads the baseline, writes it    *)
(* back as a whole with its sample added, and reads it again to judge the  *)
(* sample by it.                                                           *)
(*                                                                         *)
(* Values are integers.  A baseline of n samples is kept exactly: their    *)
(* sum, n times the mean, and their spread, n times m2, which is n times   *)
(* the sum of squares less the square of the sum; the standard deviation   *)
(* is the root of the spread, divided by n.  A deviation is n times the    *)
(* distance from the mean, so that z is deviation / root of spread.  The   *)
(* 95th percentile, which nothing reads but reports, is left out, and a    *)
(* hook that has found Qdrant unavailable does nothing here.               *)
(***************************************************************************)
EXTENDS Integers, FiniteSets, FiniteSetsExt

CONSTANTS
    Hook,          \* PostToolUse hook processes that may exist at once
    Value,         \* values of the metric
    MinSessions,   \* min_sessions
    SigmaTwice,    \* twice threshold_sigma
    NoBaseline,    \* no point in Qdrant: None
    MaxSamples,    \* bound: samples taken
    MaxLost,       \* bound: samples overwritten
    Overlap        \* may hooks overlap?

ASSUME MetricAssumption == Value \subseteq Int /\ IsFiniteSet(Value) /\ Value # {}
ASSUME ThresholdAssumption == {MinSessions, SigmaTwice} \subseteq Nat \ {0}
ASSUME MonitorBoundsAssumption == {MaxSamples, MaxLost} \subseteq Nat /\ Overlap \in BOOLEAN
ASSUME NoBaselineAssumption == NoBaseline \notin [count : Nat, sum : Int, spread : Int]

Baseline == [count : Nat \ {0}, sum : Int, spread : Int]

VARIABLES
    stored,     \* the baseline in Qdrant, or NoBaseline
    step,       \* step[h]: the next step of hook h
    value,      \* value[h]: its sample
    copy,       \* copy[h]: the baseline as h loaded it
    judgedBy,   \* judgedBy[h]: the baseline that made h's sample an anomaly
    kept,       \* history: kept[v]: samples of v that stored was made of
    basis,      \* history: basis[h]: those copy[h] was made of
    lost        \* history: lost[v]: samples of v stored once and overwritten

monitor == <<stored, step, value, copy, judgedBy, kept, basis, lost>>

NoValue == CHOOSE v \in Value : TRUE
Bag == [Value -> Nat]
Empty == [v \in Value |-> 0]
Size(bag) == MapThenSumSet(LAMBDA v : bag[v], Value)

MonitorTypeOK ==
    /\ stored \in Baseline \cup {NoBaseline}
    /\ step \in [Hook -> {"idle", "store", "check", "report"}]
    /\ value \in [Hook -> Value]
    /\ copy \in [Hook -> Baseline \cup {NoBaseline}]
    /\ judgedBy \in [Hook -> Baseline \cup {NoBaseline}]
    /\ kept \in Bag /\ basis \in [Hook -> Bag] /\ lost \in Bag

Init ==
    /\ stored = NoBaseline
    /\ step = [h \in Hook |-> "idle"]
    /\ value = [h \in Hook |-> NoValue]
    /\ copy = [h \in Hook |-> NoBaseline] /\ judgedBy = [h \in Hook |-> NoBaseline]
    /\ kept = Empty /\ basis = [h \in Hook |-> Empty] /\ lost = Empty

Busy(h) == step[h] # "idle"

\* The process exits.
Exit(h) ==
    /\ step' = [step EXCEPT ![h] = "idle"]
    /\ value' = [value EXCEPT ![h] = NoValue]
    /\ copy' = [copy EXCEPT ![h] = NoBaseline] /\ judgedBy' = [judgedBy EXCEPT ![h] = NoBaseline]
    /\ basis' = [basis EXCEPT ![h] = Empty]

-------------------------------------------------------------------------------
(* The algorithm. *)

Deviation(b, v) == b.count * v - b.sum

\* Mutant: both factors are distances from the old mean.
WelfordOldMean(b, v) ==
    [count  |-> b.count + 1,
     sum    |-> b.sum + v,
     spread |-> ((b.count + 1) * (b.count * b.spread + Deviation(b, v) * Deviation(b, v)))
                    \div (b.count * b.count)]

\* m2 grows by the product of the distances from the old mean and from the new one.
Welford(b, v) ==
    [count  |-> b.count + 1,
     sum    |-> b.sum + v,
     spread |-> ((b.count + 1) * b.spread + Deviation(b, v) * Deviation(b, v)) \div b.count]

\* Mutant: the first sample is not counted.
UpdatedUncounted(b, v) ==
    IF b = NoBaseline THEN [count |-> 0, sum |-> v, spread |-> 0] ELSE Welford(b, v)

Updated(b, v) == IF b = NoBaseline THEN [count |-> 1, sum |-> v, spread |-> 0] ELSE Welford(b, v)

\* |z| > sigma, for sigma = twice / 2.  (Where no value has differed from another, the
\* code puts a millionth for the standard deviation, and any distance is beyond it.)
Beyond(b, v, twice) == 4 * Deviation(b, v) * Deviation(b, v) > twice * twice * b.spread

Anomalous(b, v) == b # NoBaseline /\ b.count >= MinSessions /\ Beyond(b, v, SigmaTwice)

\* _z_to_severity
ZToSeverity(b, v) ==
    IF Beyond(b, v, 8) THEN "CRITICAL"
    ELSE IF Beyond(b, v, 6) THEN "HIGH"
    ELSE IF Beyond(b, v, 5) THEN "MEDIUM"
    ELSE "LOW"

-------------------------------------------------------------------------------
(* record_metric *)

\* A tool call ends, and its hook loads the baseline.
Load(h, v) ==
    /\ ~Busy(h) /\ Size(kept) + Size(lost) < MaxSamples
    /\ Overlap \/ \A g \in Hook : ~Busy(g)
    /\ step' = [step EXCEPT ![h] = "store"]
    /\ value' = [value EXCEPT ![h] = v]
    /\ copy' = [copy EXCEPT ![h] = stored] /\ basis' = [basis EXCEPT ![h] = kept]
    /\ UNCHANGED <<stored, judgedBy, kept, lost>>

\* The samples stored since the load are overwritten.  If the upsert raises (a server may
\* refuse the id "baseline-<agent>-<metric>", which is no UUID) the hook is through: Exit.
Store(h) ==
    /\ step[h] = "store"
    /\ stored' = Updated(copy[h], value[h])
    /\ kept' = [basis[h] EXCEPT ![value[h]] = @ + 1]
    /\ lost' = [v \in Value |-> lost[v] + kept[v] - basis[h][v]]
    /\ Size(lost') <= MaxLost
    /\ step' = [step EXCEPT ![h] = "check"]
    /\ UNCHANGED <<value, copy, judgedBy, basis>>

\* Mutant: the sample is judged by the baseline it was added to.
CheckBefore(h) ==
    /\ step[h] = "check"
    /\ IF Anomalous(copy[h], value[h])
       THEN /\ step' = [step EXCEPT ![h] = "report"]
            /\ judgedBy' = [judgedBy EXCEPT ![h] = copy[h]]
            /\ UNCHANGED <<value, copy, basis>>
       ELSE Exit(h)
    /\ UNCHANGED <<stored, kept, lost>>

\* check_anomaly
Check(h) ==
    /\ step[h] = "check"
    /\ IF Anomalous(stored, value[h])
       THEN /\ step' = [step EXCEPT ![h] = "report"]
            /\ judgedBy' = [judgedBy EXCEPT ![h] = stored]
            /\ UNCHANGED <<value, copy, basis>>
       ELSE Exit(h)
    /\ UNCHANGED <<stored, kept, lost>>

\* The anomaly is emitted and given to the guardian; or a store, an audit event or a
\* report raises, or the process dies, and the rest of the hook is skipped.
End(h) ==
    /\ Busy(h) /\ Exit(h)
    /\ UNCHANGED <<stored, kept, lost>>

Next ==
    \E h \in Hook : Store(h) \/ Check(h) \/ End(h) \/ \E v \in Value : Load(h, v)

Spec == Init /\ [][Next]_monitor

-------------------------------------------------------------------------------
(* Properties. *)

\* Count, sum and spread of a bag of samples, by their definitions.
Textbook(bag) ==
    LET n == Size(bag)
        sum == MapThenSumSet(LAMBDA v : bag[v] * v, Value)
    IN [count |-> n, sum |-> sum,
        spread |-> n * MapThenSumSet(LAMBDA v : bag[v] * v * v, Value) - sum * sum]

\* The stored baseline is exactly that of the samples not overwritten ("Welford's
\* online algorithm"), none of which is ever counted twice or made up; and samples
\* are overwritten only by hooks that overlap.
BaselineOfSamples ==
    /\ stored = IF kept = Empty THEN NoBaseline ELSE Textbook(kept)
    /\ ~Overlap => lost = Empty

\* A sample is judged by a baseline it is part of.  So, as long as none is overwritten,
\* it is never further from the mean than the root of the number of other samples in
\* standard deviations, however far off it is: 3 at the tenth sample, and nothing is
\* critical before the eighteenth.
OutlierCapped ==
    lost = Empty => \A h \in Hook : step[h] = "report" =>
        LET b == judgedBy[h] IN
        /\ Deviation(b, value[h]) * Deviation(b, value[h]) <= (b.count - 1) * b.spread
        /\ ZToSeverity(b, value[h]) = "CRITICAL" => b.count >= 18

\* No sample is overwritten ("Records tool usage metrics, updates baselines").
NothingOverwritten == lost = Empty
===============================================================================
