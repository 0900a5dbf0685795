---------------------------- MODULE MCGatePairing ----------------------------
(***************************************************************************)
(* GatePairing for TLC: three calls, two of them of the same tool.         *)
(***************************************************************************)
EXTENDS GatePairing

TwoTools == [c1 |-> "Bash", c2 |-> "Bash", c3 |-> "Edit"]
==============================================================================
