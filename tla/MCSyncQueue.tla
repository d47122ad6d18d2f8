---------------------------- MODULE MCSyncQueue ----------------------------
(***************************************************************************)
(* Instances of the publication queue for TLC.  The workers and the parts  *)
(* of the gateway are interchangeable, so runs without liveness properties *)
(* use their permutations as symmetry.                                     *)
(***************************************************************************)
EXTENDS SyncQueue, TLC

Symmetry == Permutations(Workers) \cup Permutations(Parts)
=============================================================================
