--------------------------- MODULE MCSessionChain ---------------------------
(***************************************************************************)
(* One host name that is ended and replayed, opaque ids for its successors *)
(* and stand-ins, three events for a corrected memory and a neighbour.      *)
(***************************************************************************)
EXTENDS SessionChain, TLC

Symmetry ==
    Permutations(Opaque) \cup Permutations(Event) \cup Permutations(Proc)
=============================================================================
