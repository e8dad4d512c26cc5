---------------------------- MODULE AtomicImport ----------------------------
(***************************************************************************)
(* What docs/EXPORT_FORMAT.md promises of an import: a namespace appears    *)
(* with every record of one bundle or does not appear, a bundle is added to *)
(* an existing namespace whole or not at all and only while the privacy     *)
(* heads agree, and nothing an interrupted import left on disk shows.       *)
(***************************************************************************)
CONSTANTS Ns, Mem, None,
          Head0    \* the privacy head of a namespace nothing was purged from

VARIABLES db,      \* namespace |-> None or [mems, head]
          bundles  \* exports that exist somewhere

Ids(mems) == {x[1] : x \in mems}

\* No record of the one has other contents in the other.
Agree(s, t) == \A x \in s, y \in t : x[1] = y[1] => x = y

Publish(b) ==
    /\ db[b.ns] = None
    /\ db' = [db EXCEPT ![b.ns] = [mems |-> b.mems, head |-> b.head]]
    /\ UNCHANGED bundles

Extend(b) ==
    /\ db[b.ns] # None /\ db[b.ns].head = b.head /\ Agree(db[b.ns].mems, b.mems)
    /\ db' = [db EXCEPT ![b.ns].mems = @ \cup b.mems]
    /\ UNCHANGED bundles

Mint(ns) ==
    /\ db[ns] = None
    /\ db' = [db EXCEPT ![ns] = [mems |-> {}, head |-> Head0]]
    /\ UNCHANGED bundles

Observe(ns, m) ==
    /\ db[ns] # None /\ m \notin Ids(db[ns].mems)
    /\ db' = [db EXCEPT ![ns].mems = @ \cup {<<m, "open">>}]
    /\ UNCHANGED bundles

Supersede(ns, m) ==
    /\ db[ns] # None /\ <<m, "open">> \in db[ns].mems
    /\ db' = [db EXCEPT ![ns].mems = (@ \ {<<m, "open">>}) \cup {<<m, "closed">>}]
    /\ UNCHANGED bundles

Purge(ns, m) ==
    /\ db[ns] # None /\ m \in Ids(db[ns].mems)
    /\ db'[ns].head # db[ns].head
    /\ db' = [db EXCEPT ![ns] = [mems |-> {x \in @.mems : x[1] # m}, head |-> db'[ns].head]]
    /\ UNCHANGED bundles

Retire(ns) ==
    /\ db[ns] # None
    /\ db' = [db EXCEPT ![ns] = None]
    /\ UNCHANGED bundles

Export(ns) ==
    /\ db[ns] # None
    /\ \E b \in bundles' :
          /\ b.ns = ns /\ b.mems = db[ns].mems /\ b.head = db[ns].head
          /\ bundles' = bundles \cup {b}
    /\ UNCHANGED db

Init == db = [ns \in Ns |-> None]

Next ==
    \/ \E b \in bundles : Publish(b) \/ Extend(b)
    \/ \E ns \in Ns : Mint(ns) \/ Retire(ns) \/ Export(ns)
    \/ \E ns \in Ns, m \in Mem : Observe(ns, m) \/ Supersede(ns, m) \/ Purge(ns, m)

Spec == Init /\ [][Next]_<<db, bundles>>
=============================================================================
