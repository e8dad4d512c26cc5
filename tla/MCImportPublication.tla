------------------------ MODULE MCImportPublication -------------------------
(***************************************************************************)
(* Another home exported n1 under label la before and after it purged m1     *)
(* from it, and n2 under the same label.  n3 is minted here, m2 observed.   *)
(***************************************************************************)
EXTENDS ImportPublication, TLC

CONSTANTS p1, p2, n1, n2, n3, la, lb, m1, m2

Before == [ns |-> n1, label |-> la, names |-> {la}, head |-> 0, mems |-> {<<m1, "open">>}]
After == [ns |-> n1, label |-> la, names |-> {la}, head |-> 1, mems |-> {}]
Rival == [ns |-> n2, label |-> la, names |-> {la}, head |-> 0, mems |-> {}]

MCProc == {p1, p2}
MCNs == {n1, n2, n3}
MCLocal == {n3}
MCLabel == {la, lb}
MCMem == {m1, m2}
MCLocalMem == {m2}
MCForeign == {Before, After, Rival}
Symmetry == Permutations(MCProc)
=============================================================================
