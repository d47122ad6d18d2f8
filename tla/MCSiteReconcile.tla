--------------------------- MODULE MCSiteReconcile ---------------------------
(* SiteReconcile on small instances. *)
EXTENDS SiteReconcile, TLC

CONSTANTS r1, r2

OneRelation  == {r1}
TwoRelations == {r1, r2}

Symmetry == Permutations(Relations)
=============================================================================
