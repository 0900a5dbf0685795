----------------------------- MODULE MCDelegation -----------------------------
(***************************************************************************)
(* Delegation for TLC: a conductor, held to a human, that may delegate to  *)
(* a coder and a tester, a coder that may delegate to a tester and to      *)
(* itself, and a ghost, without a static manifest, that the conductor may  *)
(* delegate to in one of the two sets of manifests.  The coder's static    *)
(* manifest is above the conductor's in every respect but some tools.      *)
(***************************************************************************)
EXTENDS Delegation, TLC

Known == [
    conductor |-> [trust |-> 4, class |-> 2, tools |-> {"Task", "Forget", "Deploy"},
                   targets |-> {"coder", "tester"}, human |-> TRUE,
                   depth |-> 2, count |-> 2, anchor |-> "alice"],
    coder     |-> [trust |-> 5, class |-> 3, tools |-> {"Task", "Edit", "Forget"},
                   targets |-> {"tester", "coder"}, human |-> FALSE,
                   depth |-> 3, count |-> 2, anchor |-> NoHuman],
    tester    |-> [trust |-> 3, class |-> 3, tools |-> {"Edit"},
                   targets |-> {"coder"}, human |-> TRUE,
                   depth |-> 3, count |-> 1, anchor |-> "bob"],
    unknown   |-> [trust |-> 3, class |-> 3, tools |-> {"Task", "Edit"},
                   targets |-> {"tester"}, human |-> FALSE,
                   depth |-> 4, count |-> 1, anchor |-> NoHuman]]

\* As Known, with a target that has no static manifest in the tester's place.
Ghost == [Known EXCEPT !.tester = NoManifest]

Symmetry == Permutations(Hook)
===============================================================================
