----------------------------- MODULE MemoryChain -----------------------------
(***************************************************************************)
(* What the correction log promises its readers: every memory stands in    *)
(* exactly one chain of versions, oldest first; only the newest version    *)
(* can be current; a correction appends or withdraws the newest version    *)
(* and nothing else; a purge leaves an anonymous gap where the memory      *)
(* stood and the rest of the chain as it was.                              *)
(***************************************************************************)
EXTENDS SequencesExt

CONSTANTS Mem,     \* memory identifiers
          Gap      \* what is shown in the place of a purged memory

VARIABLES chains,     \* sequences over Mem \cup {Gap}
          current,    \* memories that have not been superseded
          withdrawn,  \* newest versions that a correction retracted
          used        \* identifiers that have ever been given out

vars == <<chains, current, withdrawn, used>>

Init ==
    /\ chains = {} /\ current = {} /\ withdrawn = {} /\ used = {}

\* A new memory starts a chain; one observed with an end date is not current.
Observe(m, bounded) ==
    /\ m \in Mem \ used
    /\ chains' = chains \cup {<<m>>}
    /\ current' = IF bounded THEN current ELSE current \cup {m}
    /\ used' = used \cup {m}
    /\ UNCHANGED withdrawn

\* n becomes the newest version after the current memory m.
Replace(m, n) ==
    /\ m \in current
    /\ n \in Mem \ used
    /\ chains' = {IF Last(s) = m THEN Append(s, n) ELSE s : s \in chains}
    /\ current' = (current \ {m}) \cup {n}
    /\ used' = used \cup {n}
    /\ UNCHANGED withdrawn

\* The current memory m ends without a replacement.
Withdraw(m) ==
    /\ m \in current
    /\ current' = current \ {m}
    /\ withdrawn' = withdrawn \cup {m}
    /\ UNCHANGED <<chains, used>>

Members(s) == ToSet(s) \cap Mem

WithGap(s, m) == [i \in DOMAIN s |-> IF s[i] = m THEN Gap ELSE s[i]]

\* m leaves a gap; a chain of gaps alone is forgotten.
Erase(m) ==
    /\ \E s \in chains : m \in Members(s)
    /\ chains' = {s \in {WithGap(s, m) : s \in chains} : Members(s) # {}}
    /\ current' = current \ {m}
    /\ withdrawn' = withdrawn \ {m}
    /\ UNCHANGED used

Next ==
    \/ \E m \in Mem, bounded \in BOOLEAN : Observe(m, bounded)
    \/ \E m, n \in Mem : Replace(m, n)
    \/ \E m \in Mem : Withdraw(m) \/ Erase(m)

Spec == Init /\ [][Next]_vars
=============================================================================
