-------------------------- MODULE MCIdentityLifecycle --------------------------
(***************************************************************************)
(* IdentityLifecycle for TLC; actors are interchangeable.                  *)
(***************************************************************************)
EXTENDS IdentityLifecycle, TLC

Symmetry == Permutations(Actor)
================================================================================
