------------------------- MODULE MCNamespaceContent -------------------------
EXTENDS NamespaceContent, TLC

CONSTANTS p1, p2, n1, n2, m1, m2

MCProc == {p1, p2}
MCNs == {n1, n2}
MCMem == {m1, m2}
MCExcluded == {m2}
Symmetry == Permutations(MCProc) \cup Permutations(MCNs)
=============================================================================
