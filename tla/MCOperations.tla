---------------------------- MODULE MCOperations ----------------------------
(* Operations on two sites, for TLC.                                       *)
EXTENDS Operations, TLC

Symmetry == Permutations(Sites) \cup Permutations(Clients) \cup Permutations(Keys)
=============================================================================
