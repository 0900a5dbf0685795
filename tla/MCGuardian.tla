------------------------------- MODULE MCGuardian -------------------------------
(***************************************************************************)
(* Guardian for TLC.                                                       *)
(***************************************************************************)
EXTENDS Guardian, TLC
================================================================================
