---------------------------- MODULE MCJobMemory -----------------------------
(* Symmetry for the TLC runs of JobMemory. *)
EXTENDS JobMemory, TLC

Symmetry == Permutations(Jobs) \union Permutations(Readers)
=============================================================================
