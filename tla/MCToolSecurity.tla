---------------------------- MODULE MCToolSecurity ----------------------------
(***************************************************************************)
(* ToolSecurity for TLC: one more session than the engine tracks.          *)
(***************************************************************************)
EXTENDS ToolSecurity, TLC

Symmetry == Permutations(Session)
===============================================================================
