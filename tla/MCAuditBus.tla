------------------------------ MODULE MCAuditBus ------------------------------
(***************************************************************************)
(* AuditBus for TLC.  Processes and events are interchangeable, which the  *)
(* runs that check only invariants use as symmetry.                        *)
(***************************************************************************)
EXTENDS AuditBus, TLC

Symmetry == Permutations(Proc) \cup Permutations(Event)
===============================================================================
