---------------------------- MODULE MCJobBridge -----------------------------
(* Model values and symmetry for the TLC runs of JobBridge. *)
EXTENDS JobBridge, TLC

Symmetry == Permutations(Jobs) \union Permutations(Processes) \union Permutations(Callers)
=============================================================================
