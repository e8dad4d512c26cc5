-------------------------- MODULE MCEmbeddingQueue --------------------------
(***************************************************************************)
(* Small instances of EmbeddingQueue. Models "a" and "b" make vectors of    *)
(* the same dimension, "c" of another one.                                  *)
(***************************************************************************)
EXTENDS EmbeddingQueue, TLC

OneModel == [x \in {"a"} |-> 3]
SameDim == [x \in {"a", "b"} |-> 3]
OtherDim == [x \in {"a", "c"} |-> IF x = "a" THEN 3 ELSE 4]

Symmetry == Permutations(Proc)
=============================================================================
