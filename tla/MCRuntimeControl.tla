-------------------------- MODULE MCRuntimeControl --------------------------
(***************************************************************************)
(* RuntimeControl and its refinement for TLC: interchangeable processes.   *)
(***************************************************************************)
EXTENDS RuntimeControlRefinement, TLC

Symmetry == Permutations(Commands) \cup Permutations(Reconcilers) \cup Permutations(Checks)
=============================================================================
