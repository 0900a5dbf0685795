----------------------------- MODULE MCMemoryWrite -----------------------------
(***************************************************************************)
(* MemoryWrite for TLC.                                                    *)
(***************************************************************************)
EXTENDS MemoryWrite, TLC

WriteSymmetry == Permutations(Write)
================================================================================
