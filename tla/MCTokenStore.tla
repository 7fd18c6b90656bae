---------------------------- MODULE MCTokenStore ----------------------------
(* Symmetry for the TLC runs of TokenStore. *)
EXTENDS TokenStore, TLC

Symmetry == Permutations(Codes) \union Permutations(Pairs) \union Permutations(Requests)
=============================================================================
