------------------------------ MODULE MCTelemetry ------------------------------
(***************************************************************************)
(* The behavioral monitor and the coordination scorer for TLC.  They share *)
(* nothing, and neither do the scorer's two scores but the process, so one *)
(* of the three is explored at a time.                                     *)
(***************************************************************************)
EXTENDS BehavioralMonitor, CoordinationScorer

\* A success, a redundant one, and an error taken for a finding.
Calls == {[success |-> TRUE,  redundant |-> FALSE, falsePositive |-> FALSE],
          [success |-> TRUE,  redundant |-> TRUE,  falsePositive |-> FALSE],
          [success |-> FALSE, redundant |-> FALSE, falsePositive |-> TRUE]}

MonitorUntouched == stored = NoBaseline /\ \A h \in Hook : ~Busy(h)
TueUntouched == toolCalls = <<>> /\ lows = <<>>
CssUntouched == interactions = NoInteractions /\ breach = ""

TelemetryInit == Init /\ ScorerInit

TelemetryNext ==
    \/ TueUntouched /\ CssUntouched /\ ~blind /\ Next /\ UNCHANGED scorer
    \/ MonitorUntouched /\ CssUntouched /\ UtilizationNext /\ UNCHANGED monitor
    \/ MonitorUntouched /\ TueUntouched /\ SynergyNext /\ UNCHANGED monitor

\* The types of both (MonitorTypeOK and ScorerTypeOK).
TelemetryTypeOK == MonitorTypeOK /\ ScorerTypeOK

TelemetrySpec == TelemetryInit /\ [][TelemetryNext]_<<monitor, scorer>>
================================================================================
