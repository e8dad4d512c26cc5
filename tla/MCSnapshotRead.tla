--------------------------- MODULE MCSnapshotRead ---------------------------
(* Instance of SnapshotRead for TLC. *)
EXTENDS SnapshotRead, TLC

Symmetry == Permutations(Writer)
=============================================================================
