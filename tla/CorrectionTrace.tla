--------------------------- MODULE CorrectionTrace ---------------------------
(***************************************************************************)
(* Store.trace over the tables of CorrectionLineage, and the proof         *)
(* obligation it carries: what trace shows of every surviving memory is    *)
(* the abstract chain of MemoryChain.                                      *)
(***************************************************************************)
EXTENDS CorrectionLineage, Sequences

\* The text trace shows in the place of a purged memory, its ids left out.
Gap == "erased"

ASSUME GapIsNoMemory == Gap \notin Mem

\* correction_replacing and correction_targeting: one indexed lookup each.
Replacing(n) == {k \in corrections : k.repl = n}
Targeting(n) == {k \in corrections : k.target = n}
RowOf(ks) == CHOOSE k \in ks : TRUE

\* The walk to the oldest node, stopped by a node already seen.
Oldest[seen \in SUBSET Node] ==
    [n \in Node |->
        IF n \in seen \/ Replacing(n) = {}
        THEN n
        ELSE Oldest[seen \cup {n}][RowOf(Replacing(n)).target]]

\* The walk to the newest, stopped by a repeated node, a missing row or a retraction.
Newer[seen \in SUBSET Node] ==
    [n \in Node |->
        IF n \in seen \/ n \notin live \cup tombstones
        THEN <<>>
        ELSE <<n>> \o (IF Targeting(n) = {} \/ RowOf(Targeting(n)).repl = None
                       THEN <<>>
                       ELSE Newer[seen \cup {n}][RowOf(Targeting(n)).repl])]

\* Faulty variant: the walk starts at the memory asked for.
TraceForward(m) == Newer[{}][m]

Trace(m) == Newer[{}][Oldest[{}][m]]

\* Faulty variant: only a replacement that survives counts as superseding.
StatusByReplacement(m) ==
    IF \E k \in Targeting(m) : k.repl \in live THEN "superseded" ELSE "current"

\* The status trace gives a member.
Status(m) ==
    IF Targeting(m) # {} THEN "superseded"
    ELSE IF m \in closed THEN "legacy_unlinked" ELSE "current"

\* The corrections trace lists: the row out of every member it shows.
TracedCorrections(m) == UNION {Targeting(Trace(m)[i]) : i \in DOMAIN Trace(m)}

\* lineage_status of the memory that was asked for.
LineageStatus(m) ==
    IF TracedCorrections(m) # {} \/ Replacing(m) # {} THEN "linked"
    ELSE IF m \in closed THEN "legacy_unlinked" ELSE "standalone"

-----------------------------------------------------------------------------
(* recall_references_many: what a recall hit says of the same chain. *)

\* Faulty variant: the recursive arms leave the tombstones out.
LinkedMemories(n) ==
    IF n \in Tomb THEN {}
    ELSE ({k.repl : k \in Targeting(n)} \cup {k.target : k \in Replacing(n)}) \ {None}

\* The arms of the recursive query: the other end of every row at a node.
Linked(n) == ({k.repl : k \in Targeting(n)} \cup {k.target : k \in Replacing(n)}) \ {None}

\* WITH RECURSIVE ... UNION: the least set with the root that is closed under the arms.
Walk[s \in SUBSET Node] ==
    LET more == s \cup (UNION {Linked(n) : n \in s})
    IN  IF more = s THEN s ELSE Walk[more]

\* Every correction with an end in the walk.
ReferencedCorrections(m) == {k \in corrections : {k.target, k.repl} \cap Walk[{m}] # {}}

\* The status and the corrections named to whoever reads the hit.
Reference(m) ==
    LET edges == ReferencedCorrections(m)
        Says(status, ks) == [status |-> status, corrections |-> ks]
    IN  IF \E k \in edges : {k.target, k.repl} \cap Tomb # {} THEN Says("privacy_tombstone", {})
        ELSE IF edges # {} THEN Says("linked", edges)
        ELSE IF m \in closed THEN Says("legacy_unlinked", {})
        ELSE Says("standalone", {})

-----------------------------------------------------------------------------
Shown(s) == [i \in DOMAIN s |-> IF s[i] \in Mem THEN s[i] ELSE Gap]

Chains == INSTANCE MemoryChain WITH
    chains <- {Shown(Trace(m)) : m \in live},
    current <- {m \in live : Status(m) = "current"},
    withdrawn <- {m \in live : \E k \in Targeting(m) : k.repl = None},
    used <- live \cup erased

\* Corrections, retries and purges of any members in any order show a reader
\* the chains of MemoryChain and nothing else.
ImplementsMemoryChain == Chains!Spec

Positions(s, m) == {i \in DOMAIN s : s[i] = m}

\* trace gives one answer for a chain: asked of any surviving member it lists
\* that member once, and every other member gives the same list.
EveryMemberTracesTheChain ==
    \A m \in live :
        /\ Cardinality(Positions(Trace(m), m)) = 1
        /\ \A i \in DOMAIN Trace(m) :
              Trace(m)[i] \in live => Trace(Trace(m)[i]) = Trace(m)

\* A chain has at most one current memory and it is the newest node: a purge
\* of later versions never makes an older one current again.
OnlyTheNewestIsCurrent ==
    \A m \in live : Status(m) = "current" => m = Trace(m)[Len(Trace(m))]

\* A recall hit and a trace of the same memory tell one story, whatever was
\* purged in between: both see the same corrections, the hit names them only
\* when the trace has no gap, and a memory the trace calls linked is never
\* presented as one that stands alone.
ReferencesFollowTrace ==
    \A m \in live :
        LET gap == \E i \in DOMAIN Trace(m) : Trace(m)[i] \in Tomb
        IN  /\ ReferencedCorrections(m) = TracedCorrections(m)
            /\ Reference(m) =
                 IF gap THEN [status |-> "privacy_tombstone", corrections |-> {}]
                 ELSE [status |-> LineageStatus(m), corrections |-> TracedCorrections(m)]

\* trace gives one answer for a chain, its newest node is the only one that
\* can be current, and a recall hit says the same of it.
TraceIsOneChain ==
    EveryMemberTracesTheChain /\ OnlyTheNewestIsCurrent /\ ReferencesFollowTrace
=============================================================================
