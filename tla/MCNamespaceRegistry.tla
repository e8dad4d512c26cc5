------------------------ MODULE MCNamespaceRegistry -------------------------
(***************************************************************************)
(* Two repositories that both infer label a: the second forks to c.  The    *)
(* first moves its checkout from p1 to p2; the second, which has no remote, *)
(* is whatever is found at p1, before the move the first one.               *)
(***************************************************************************)
EXTENDS NamespaceRegistry, TLC

CONSTANTS a, b, c, r1, p1, p2

Clone == [remote |-> r1, path |-> p1]
Moved == [remote |-> r1, path |-> p2]
Checkout == [remote |-> None, path |-> p1]

MCLabel == {a, b, c}
MCContext == {Clone, Moved, Checkout}
MCNamed == {Moved, Checkout}
MCLegacy == {<<a, b>>}
MCFork == [l \in MCLabel |-> [ctx \in MCContext |-> IF l = a /\ ctx = Checkout THEN c ELSE l]]
=============================================================================
