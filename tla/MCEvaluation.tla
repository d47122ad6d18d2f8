---- MODULE MCEvaluation ----
(* Instances of Evaluation for TLC. *)
EXTENDS Evaluation, TLC

CONSTANTS s1, s2

TwoProbes == [p \in Purposes |-> IF p = "health" THEN 2 ELSE 1]
OneProbe == [p \in Purposes |-> 1]
NumberedRuns == 1 .. 2
ThreeRuns == 1 .. 3
Symmetry == Permutations(Workers) \cup Permutations(Clients) \cup Permutations(Keys) \cup Permutations(Suppliers) \cup Permutations(Refs)
====
