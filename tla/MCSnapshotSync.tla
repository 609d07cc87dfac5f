--------------------------- MODULE MCSnapshotSync ---------------------------
(* Model-checking instance of SnapshotSync. *)
EXTENDS SnapshotSync, TLC

Symmetry == Permutations(Runs)
=============================================================================
