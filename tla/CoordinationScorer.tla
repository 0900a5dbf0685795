-------------------------- MODULE CoordinationScorer --------------------------
(***************************************************************************)
(* governance/lib/security/coordination_scorer.py: the scores of one agent *)
(* (tool utilization efficacy, of its last tool calls) and of one pair of  *)
(* agents (component synergy, of all their interactions).  Calls and       *)
(* interactions are in the memory of a process; scores go to Qdrant, where *)
(* those of other processes are found too.  No hook asks for a score.      *)
(*                                                                         *)
(* A score is a fraction, compared with its thresholds by multiplying out. *)
(* Of a stored utilization, only whether it is low is kept.                *)
(***************************************************************************)
EXTENDS Integers, Sequences, FiniteSets, FiniteSetsExt

CONSTANTS
    Call,          \* kinds of tool calls: outcome_class = "success", is_redundant, ...
    TueWindow,     \* TUE_WINDOW_SIZE
    CallsKept,     \* what record_tool_call keeps: 150
    LowInARow,     \* TUE_CONSECUTIVE_WINDOWS
    RecentLimit,   \* scores asked for: 5
    MaxScores,     \* bound: utilizations stored
    MaxMeetings    \* bound: interactions in one process

ASSUME ScorerAssumption ==
    {TueWindow, CallsKept, LowInARow, RecentLimit, MaxScores, MaxMeetings} \subseteq Nat \ {0}

ASSUME CallAssumption ==
    Call \subseteq [success : BOOLEAN, redundant : BOOLEAN, falsePositive : BOOLEAN]

\* quality: outcome_quality / max_outcome, in hundredths; copied: the outputs are
\* more than 85% alike.
Interaction == [quality : {0, 30, 100}, crossDomain : BOOLEAN, copied : BOOLEAN]

VARIABLES
    toolCalls,      \* _tool_calls of the agent
    lows,           \* which of its stored utilizations are low, in the order of time
    degraded,       \* was the last one found degraded?
    interactions,   \* _interactions of the pair, as a bag
    breach,         \* breach_level of the last synergy score
    blind           \* has this process found Qdrant unavailable?

scorer == <<toolCalls, lows, degraded, interactions, breach, blind>>

ScorerTypeOK ==
    /\ toolCalls \in Seq(Call) /\ Len(toolCalls) <= CallsKept
    /\ lows \in Seq(BOOLEAN) /\ degraded \in BOOLEAN /\ blind \in BOOLEAN
    /\ interactions \in [Interaction -> Nat]
    /\ breach \in {"", "threshold", "critical"}

NoInteractions == [i \in Interaction |-> 0]

ScorerInit ==
    /\ toolCalls = <<>> /\ lows = <<>> /\ degraded = FALSE
    /\ interactions = NoInteractions /\ breach = ""
    /\ blind = FALSE

-------------------------------------------------------------------------------
(* Tool utilization efficacy. *)

LastOf(list, n) == IF Len(list) <= n THEN list ELSE SubSeq(list, Len(list) - n + 1, Len(list))

RecordToolCall(c) ==
    /\ toolCalls' = LastOf(Append(toolCalls, c), CallsKept)
    /\ UNCHANGED <<lows, degraded, interactions, breach, blind>>

\* tue < 0.35, for the share of successes, that of calls not redundant, and that of
\* calls that are no false positives.
Low(window) ==
    LET n == Len(window)
        correct == Cardinality({i \in 1..n : window[i].success})
        needed  == Cardinality({i \in 1..n : ~window[i].redundant})
        precise == Cardinality({i \in 1..n : ~window[i].falsePositive})
    IN 100 * correct * needed * precise < 35 * n * n * n

\* What get_recent_scores may return: as many scores as asked for, whichever come
\* first by their ids, and these in the order of time.
Recent(scores) ==
    LET some == {chosen \in SUBSET (DOMAIN scores) :
                     Cardinality(chosen) = Min({RecentLimit, Len(scores)})}
        ordered(chosen) == [k \in 1..Cardinality(chosen) |->
            scores[CHOOSE i \in chosen : Cardinality({j \in chosen : j <= i}) = k]]
    IN {ordered(chosen) : chosen \in some}

\* The low ones at the end of a list.
LowAtEnd(list) ==
    Cardinality({i \in DOMAIN list : \A j \in i..Len(list) : list[j]})

\* Mutant: the current score is the one found in the store only.
ConsecutiveLowOnce(recent, current) == LowAtEnd(recent)

\* _check_consecutive_low_tue: the current score, which has been stored, and is among
\* the recent ones if they are not too many, is added to them.
ConsecutiveLow(recent, current) == LowAtEnd(Append(recent, current))

\* Nothing is scored or stored without a call.  A blind process stores nothing and
\* finds nothing.
ComputeTue ==
    /\ toolCalls # <<>> /\ Len(lows) < MaxScores
    /\ LET low == Low(LastOf(toolCalls, TueWindow)) IN
       /\ lows' = IF blind THEN lows ELSE Append(lows, low)
       /\ \E recent \in IF blind THEN {<<>>} ELSE Recent(lows') :
              degraded' = (ConsecutiveLow(recent, low) >= LowInARow)
    /\ UNCHANGED <<toolCalls, interactions, breach, blind>>

-------------------------------------------------------------------------------
(* Component synergy. *)

Meetings(bag, S) == MapThenSumSet(LAMBDA i : bag[i], S)

RecordInteraction(i) ==
    /\ Meetings(interactions, Interaction) < MaxMeetings
    /\ interactions' = [interactions EXCEPT ![i] = @ + 1]
    /\ UNCHANGED <<toolCalls, lows, degraded, breach, blind>>

\* Mutant: the penalty is for any copying.
ColludingEver(bag) == Meetings(bag, {i \in Interaction : i.copied}) > 0

\* _compute_collusion_penalty: more than 60% of the interactions.
Colluding(bag) ==
    100 * Meetings(bag, {i \in Interaction : i.copied}) > 60 * Meetings(bag, Interaction)

\* The score times the number of interactions, in two thousandths: the qualities,
\* half as much again across domains, less three tenths for collusion.
Synergy(bag) ==
    MapThenSumSet(LAMBDA i : bag[i] * i.quality * (IF i.crossDomain THEN 3 ELSE 2), Interaction)
        * (IF Colluding(bag) THEN 7 ELSE 10)

\* Below 0.2 and below 0.4; 1 without interactions.
BreachLevel(bag) ==
    LET n == Meetings(bag, Interaction) IN
    CASE Synergy(bag) < 400 * n -> "critical"
      [] Synergy(bag) \in 400 * n .. 800 * n - 1 -> "threshold"
      [] OTHER -> ""

\* The score is stored, and a breach reported.
ComputeCss ==
    /\ breach' = BreachLevel(interactions)
    /\ UNCHANGED <<toolCalls, lows, degraded, interactions, blind>>

-------------------------------------------------------------------------------
\* Another process, whose Qdrant is there or not.
ScorerRestart ==
    /\ toolCalls' = <<>> /\ interactions' = NoInteractions
    /\ degraded' = FALSE /\ breach' = ""
    /\ blind' \in BOOLEAN
    /\ UNCHANGED lows

UtilizationNext == ComputeTue \/ ScorerRestart \/ \E c \in Call : RecordToolCall(c)

SynergyNext == ComputeCss \/ ScorerRestart \/ \E i \in Interaction : RecordInteraction(i)

-------------------------------------------------------------------------------
(* Properties. *)

LowLast(k) == Len(lows') >= k /\ \A i \in Len(lows') - k + 1 .. Len(lows') : lows'[i]

\* As long as all scores are asked for, an agent is degraded by its second low
\* utilization in a row, since the current one counts twice, and by nothing else.
\* Afterwards it takes at least two low ones; and a process without Qdrant finds none.
DegradedAfterTwo ==
    [][ComputeTue =>
           /\ ~blind /\ Len(lows') <= RecentLimit => (degraded' <=> LowLast(2))
           /\ degraded' => ~blind /\ LowLast(1)
                           /\ Cardinality({i \in DOMAIN lows' : lows'[i]}) >= 2]_scorer

\* "<0.35 for 3 consecutive windows triggers re-evaluation."
DegradedAfterThree == [][ComputeTue /\ degraded' => LowLast(LowInARow)]_scorer

\* Below 0.4 by the quality of the outcomes alone, even with the greatest weight they
\* may have, a pair is in breach; and above it, it is in breach for copying only, in
\* more interactions than not.
BreachByQuality ==
    [][interactions # NoInteractions /\ ComputeCss =>
           LET n == Meetings(interactions, Interaction)
               copied == Meetings(interactions, {i \in Interaction : i.copied})
               quality == MapThenSumSet(LAMBDA i : interactions[i] * i.quality, Interaction)
           IN /\ 3 * quality < 80 * n => breach' # ""
              /\ quality >= 40 * n /\ 2 * copied <= n => breach' = ""]_scorer
===============================================================================
