-------------------------- MODULE MCCorrectionTrace --------------------------
(***************************************************************************)
(* Small instance of the correction log and its trace: four memories are     *)
(* enough for a chain of three with a fourth beside it, two keys for a        *)
(* reused key, two callers for every interleaving of the two lookups.         *)
(***************************************************************************)
EXTENDS CorrectionTrace, TLC

Symmetry ==
    Permutations(Mem) \cup Permutations(Tomb) \cup Permutations(Key) \cup Permutations(Client)
=============================================================================
