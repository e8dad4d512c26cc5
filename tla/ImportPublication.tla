------------------------- MODULE ImportPublication --------------------------
(***************************************************************************)
(* Importing a bundle (portability.py): a new namespace is staged under a   *)
(* private name, linked to its label, registered and tidied up, one step at *)
(* a time, with an intent on disk that lets the next import undo or finish  *)
(* what a crash left; an existing namespace gets the missing rows in one    *)
(* transaction.  Around it run the operations it must tolerate: a fresh     *)
(* registration, a label migration, retirement, exports, and the writers of *)
(* a namespace, who take neither of the two file locks.                     *)
(*                                                                         *)
(* A file is known by its inode.  The memories of a file are pairs          *)
(* <<memory, "open" | "closed">>, which stand for whole rows: superseding a *)
(* memory changes its row.  names holds the aliases and the repository      *)
(* identities of a namespace.  A privacy head is a number, 0 before the     *)
(* first purge.                                                             *)
(***************************************************************************)
EXTENDS FiniteSets, Naturals, Sequences

CONSTANTS Proc,      \* processes that import or register
          Ns,        \* namespace ids
          Local,     \* those this home mints
          Label,     \* labels, each naming the file <label>.db
          Known,     \* labels and the identities of repositories
          Mem,       \* memory ids
          LocalMem,  \* those observed here
          Foreign,   \* bundles exported by another home
          MaxFile, MaxCrash, \* bounds on the files made and the crashes
          MaxAct,    \* bound on purges, label migrations, exports and retirements
          None

ASSUME LocalNames == Local \subseteq Ns /\ LocalMem \subseteq Mem /\ Label \subseteq Known
\* A head another home has rotated is 32 random bytes, as is one rotated here:
\* the numbers from 100 on are this home's.  Ids are random too.
ASSUME BundlesClosed ==
    /\ Foreign \subseteq [ns : Ns \ Local, label : Label, names : SUBSET Known, head : 0..99,
                         mems : SUBSET ((Mem \ LocalMem) \X {"open", "closed"})]
    /\ \A b \in Foreign : b.label \in b.names
ASSUME NoneIsNothing ==
    /\ None \notin Proc /\ None \notin Label /\ None \notin Nat
    /\ None \notin [label : Label, path : Label, names : SUBSET Known, inode : Nat]
    /\ None \notin [mems : SUBSET (Mem \X {"open", "closed"}), head : Nat]
ASSUME BoundsNat == {MaxFile, MaxCrash, MaxAct} \subseteq Nat

VARIABLES disk,    \* inode |-> contents of the database file
          target,  \* label |-> inode of <label>.db, or None
          temp,    \* inodes that have their private claim name
          side,    \* inodes whose claimed WAL/SHM/journal files exist
          intents, \* import-intents/*.json: [bundle, inode, links]
          reg,     \* namespace |-> None or its registry rows
          mig, cfg,\* holder of the migration and configuration locks, or None
          op,      \* process |-> what it is doing
          bundles, \* exports that exist
          hist     \* [erased, acts, crashes, minted, seen, intended, registered]

vars == <<disk, target, temp, side, intents, reg, mig, cfg, op, bundles, hist>>

Idle == [pc |-> "idle", bundle |-> None, inode |-> None, todo |-> {}, sel |-> None]
Inode == DOMAIN disk
Ids(mems) == {x[1] : x \in mems}
Db(ns) == disk[reg[ns].inode]

\* _preflight_record_state: no record of the bundle has another row here.
Agree(s, t) == \A x \in s, y \in t : x[1] = y[1] => x = y

\* A file nothing was written to: registration leaves its schema in the WAL of
\* the name it was claimed under, which goes with that name.
Blank == [schema |-> FALSE, mems |-> {}, head |-> 0, receipts |-> {}]

Init ==
    /\ disk = <<>> /\ target = [l \in Label |-> None] /\ temp = {} /\ side = {}
    /\ intents = {} /\ reg = [ns \in Ns |-> None] /\ mig = None /\ cfg = None
    /\ op = [p \in Proc |-> Idle] /\ bundles = Foreign
    /\ hist = [erased |-> {}, acts |-> 0, crashes |-> 0, minted |-> {}, seen |-> {},
               intended |-> {}, registered |-> {}]

\* Faulty variant of Release: the locks stay.
Keep(p) == UNCHANGED <<mig, cfg>>

\* The locks p holds are released with it.
Release(p) == mig' = (IF mig = p THEN None ELSE mig) /\ cfg' = (IF cfg = p THEN None ELSE cfg)
Done(p) == op' = [op EXCEPT ![p] = Idle] /\ Release(p)
Goto(p, pc) == op' = [op EXCEPT ![p].pc = pc]
At(p, pc) == op[p].pc = pc
Files == <<disk, target, temp, side>>
Locks == <<mig, cfg>>

NameOwner(n) == {ns \in Ns : reg[ns] # None /\ n \in reg[ns].names}
PathOwner(l) == {ns \in Ns : reg[ns] # None /\ reg[ns].path = l}

-----------------------------------------------------------------------------
(* Recovery of what earlier imports left. *)

\* _verify_staged_receipt
Receipt(i) == i.bundle \in disk[i.inode].receipts /\ disk[i.inode].head = i.bundle.head

Committed(i) == reg[i.bundle.ns] # None

\* _recover_one_import_intent, up to its first unlink.
Recoverable(i) ==
    LET b == i.bundle
    IN  /\ i.links = 1
        /\ target[b.label] \in {None, i.inode}
        /\ PathOwner(b.label) \subseteq {b.ns}
        /\ Committed(i) =>
              /\ <<reg[b.ns].label, reg[b.ns].path, reg[b.ns].inode>> = <<b.label, b.label, i.inode>>
              /\ target[b.label] = i.inode
              /\ Receipt(i)

\* Every import of a validated bundle first recovers all intents, under both
\* locks.  Validation reads nothing that is shared.
Start(p, b) ==
    /\ op[p] = Idle /\ mig = None /\ cfg = None
    /\ mig' = p /\ cfg' = p
    /\ op' = [op EXCEPT ![p] = [Idle EXCEPT !.pc = "recovering", !.bundle = b, !.todo = intents]]
    /\ UNCHANGED <<Files, intents, reg, bundles, hist>>

\* Faulty variant of Published: a namespace in the registry does not save its file.
NeverPublished(i) == FALSE

Published(i) == Committed(i)

RecoverTarget(p, i) ==
    /\ At(p, "recovering") /\ i \in op[p].todo /\ Recoverable(i)
    /\ ~Published(i) /\ target[i.bundle.label] # None
    /\ target' = [target EXCEPT ![i.bundle.label] = None]
    /\ UNCHANGED <<disk, temp, side, intents, reg, Locks, op, bundles, hist>>

RecoverRest(p, i) ==
    /\ At(p, "recovering") /\ i \in op[p].todo /\ Recoverable(i)
    /\ Published(i) \/ target[i.bundle.label] = None
    /\ temp' = temp \ {i.inode} /\ side' = side \ {i.inode}
    /\ intents' = intents \ {i}
    /\ op' = [op EXCEPT ![p].todo = @ \ {i}]
    /\ UNCHANGED <<disk, target, reg, Locks, bundles, hist>>

\* One intent that cannot be recovered fails the import.
RecoverRefused(p) ==
    /\ At(p, "recovering") /\ \E i \in op[p].todo : ~Recoverable(i)
    /\ Done(p)
    /\ UNCHANGED <<Files, intents, reg, bundles, hist>>

RecoverDone(p) ==
    /\ At(p, "recovering") /\ op[p].todo = {}
    /\ Goto(p, "look") /\ Release(p)
    /\ UNCHANGED <<Files, intents, reg, bundles, hist>>

-----------------------------------------------------------------------------
(* _registry_preflight, without a lock, and again under it. *)

Collides(b) == \E n \in b.names : NameOwner(n) \ {b.ns} # {}
SameIdentity(b) == reg[b.ns].label = b.label /\ reg[b.ns].names = b.names

Refused(b) == Collides(b) \/ (reg[b.ns] # None /\ ~SameIdentity(b))

Look(p) ==
    LET b == op[p].bundle
    IN  /\ At(p, "look")
        /\ op' = [op EXCEPT ![p] = IF Refused(b) THEN Idle
                                   ELSE [@ EXCEPT !.pc = IF reg[b.ns] = None THEN "publish" ELSE "read",
                                                  !.sel = reg[b.ns]]]
        /\ UNCHANGED <<Files, intents, reg, Locks, bundles, hist>>

-----------------------------------------------------------------------------
(* _publish_new_import, under both locks and the registry's write lock. *)

New == Cardinality(Inode) + 1

\* No collision, and nothing at the target.
Free(b) == reg[b.ns] = None /\ ~Collides(b) /\ target[b.label] = None

\* _claim_fresh_namespace_db...: a private name and its sidecars.
Claim(p) ==
    /\ At(p, "publish") /\ mig = None /\ cfg = None
    /\ \/ /\ Free(op[p].bundle) /\ New <= MaxFile
          /\ mig' = p /\ cfg' = p
          /\ disk' = Append(disk, Blank)
          /\ temp' = temp \cup {New} /\ side' = side \cup {New}
          /\ op' = [op EXCEPT ![p].pc = "claimed", ![p].inode = New]
       \/ /\ ~Free(op[p].bundle)
          /\ op' = [op EXCEPT ![p] = Idle]
          /\ UNCHANGED <<disk, temp, side, Locks>>
    /\ UNCHANGED <<target, intents, reg, bundles, hist>>

Intent(p, links) == [bundle |-> op[p].bundle, inode |-> op[p].inode, links |-> links]
OwnIntents(p) == {i \in intents : i.inode = op[p].inode}

\* _create_import_intent: written under a pending name, linked, then renamed
\* by dropping the pending name.
LinkIntent(p) ==
    /\ At(p, "claimed")
    /\ intents' = intents \cup {Intent(p, 2)}
    /\ hist' = [hist EXCEPT !.intended = @ \cup {op[p].inode}]
    /\ Goto(p, "intent-linked")
    /\ UNCHANGED <<Files, reg, Locks, bundles>>

NameIntent(p) ==
    /\ At(p, "intent-linked")
    /\ intents' = (intents \ OwnIntents(p)) \cup {Intent(p, 1)}
    /\ Goto(p, "intent-created")
    /\ UNCHANGED <<Files, reg, Locks, bundles, hist>>

\* The schema, every record, the head and the receipt, checkpointed into the
\* file while it still has its private name.
Stage(p) ==
    LET b == op[p].bundle
    IN  /\ At(p, "intent-created")
        /\ disk' = [disk EXCEPT ![op[p].inode] =
                      [schema |-> TRUE, mems |-> b.mems, head |-> b.head, receipts |-> {b}]]
        /\ Goto(p, "staged")
        /\ UNCHANGED <<target, temp, side, intents, reg, Locks, bundles, hist>>

Link(p) ==
    /\ At(p, "staged") /\ target[op[p].bundle.label] = None
    /\ target' = [target EXCEPT ![op[p].bundle.label] = op[p].inode]
    /\ Goto(p, "linked")
    /\ UNCHANGED <<disk, temp, side, intents, reg, Locks, bundles, hist>>

Name(p) ==
    /\ At(p, "linked")
    /\ temp' = temp \ {op[p].inode}
    /\ Goto(p, "named")
    /\ UNCHANGED <<disk, target, side, intents, reg, Locks, bundles, hist>>

Register(p) ==
    LET b == op[p].bundle
    IN  /\ At(p, "named")
        /\ reg' = [reg EXCEPT ![b.ns] = [label |-> b.label, path |-> b.label,
                                         names |-> b.names, inode |-> op[p].inode]]
        /\ Goto(p, "committed")
        /\ UNCHANGED <<Files, intents, Locks, bundles, hist>>

\* claim.close, then the intent.
CloseClaim(p) ==
    /\ At(p, "committed")
    /\ side' = side \ {op[p].inode}
    /\ Goto(p, "closed")
    /\ UNCHANGED <<disk, target, temp, intents, reg, Locks, bundles, hist>>

DropIntent(p) ==
    /\ op[p].pc \in {"closed", "withdrawn"}
    /\ intents' = intents \ OwnIntents(p)
    /\ Done(p)
    /\ UNCHANGED <<Files, reg, bundles, hist>>

\* The deadline, or any error before the commit: the registry rolls back, then
\* the claim's files go, its target if it was linked, and the intent last.
Fail(p) ==
    /\ op[p].pc \in {"claimed", "intent-created", "staged", "linked", "named"}
    /\ temp' = temp \ {op[p].inode} /\ side' = side \ {op[p].inode}
    /\ Goto(p, "failed")
    /\ UNCHANGED <<disk, target, intents, reg, Locks, bundles, hist>>

\* Faulty variant of Withdrawn: the linked target stays.
TargetStays(p) == target

Withdrawn(p) == [l \in Label |-> IF target[l] = op[p].inode THEN None ELSE target[l]]

Withdraw(p) ==
    /\ At(p, "failed")
    /\ target' = Withdrawn(p)
    /\ Goto(p, "withdrawn")
    /\ UNCHANGED <<disk, temp, side, intents, reg, Locks, bundles, hist>>

-----------------------------------------------------------------------------
(* _apply_existing_import, under the migration lock. *)

Fits(b) == Db(b.ns).schema /\ Db(b.ns).head = b.head /\ Agree(Db(b.ns).mems, b.mems)

\* An exact replay never hides a record that is gone.
ReplayHolds(b) == b \in Db(b.ns).receipts => b.mems \subseteq Db(b.ns).mems

Selected(p) == reg[op[p].bundle.ns] # None /\ ~Refused(op[p].bundle)
               /\ reg[op[p].bundle.ns].inode = op[p].sel.inode

\* Faulty variants of Acceptable: only the read-only preflight compares the
\* heads; the rows.
AcceptableOnce(p) == Selected(p) /\ Db(op[p].bundle.ns).schema /\ Agree(Db(op[p].bundle.ns).mems, op[p].bundle.mems)
AcceptableRows(p) == Selected(p) /\ Db(op[p].bundle.ns).schema /\ Db(op[p].bundle.ns).head = op[p].bundle.head

Acceptable(p) == Selected(p) /\ Fits(op[p].bundle) /\ ReplayHolds(op[p].bundle)

\* Everything is checked through a read-only handle first, which writes nothing.
Read(p) ==
    /\ At(p, "read") /\ mig = None
    /\ IF Selected(p) /\ Fits(op[p].bundle) /\ ReplayHolds(op[p].bundle)
       THEN mig' = p /\ Goto(p, "write") /\ UNCHANGED cfg
       ELSE Done(p)
    /\ UNCHANGED <<Files, intents, reg, bundles, hist>>

\* And again inside BEGIN IMMEDIATE, where the missing rows go in.
Write(p) ==
    LET b == op[p].bundle
        Merged(d) == [d EXCEPT !.mems = @ \cup b.mems, !.receipts = @ \cup {b}]
    IN  /\ At(p, "write")
        /\ disk' = IF Acceptable(p) THEN [disk EXCEPT ![reg[b.ns].inode] = Merged(@)] ELSE disk
        /\ Done(p)
        /\ UNCHANGED <<target, temp, side, intents, reg, bundles, hist>>

-----------------------------------------------------------------------------
(* A fresh registration holds the configuration lock and leaves no intent. *)

LinkFresh(p, l) ==
    /\ op[p] = Idle /\ cfg = None /\ New <= MaxFile
    /\ NameOwner(l) = {} /\ PathOwner(l) = {} /\ target[l] = None
    /\ cfg' = p
    /\ disk' = Append(disk, Blank)
    /\ target' = [target EXCEPT ![l] = New]
    /\ hist' = [hist EXCEPT !.registered = @ \cup {New}]
    /\ op' = [op EXCEPT ![p].pc = "fresh", ![p].inode = New, ![p].sel = l]
    /\ UNCHANGED <<temp, side, intents, reg, mig, bundles>>

CommitFresh(p, ns) ==
    /\ At(p, "fresh") /\ ns \in Local \ hist.minted
    /\ reg' = [reg EXCEPT ![ns] = [label |-> op[p].sel, path |-> op[p].sel,
                                   names |-> {op[p].sel}, inode |-> op[p].inode]]
    /\ hist' = [hist EXCEPT !.minted = @ \cup {ns}]
    /\ Done(p)
    /\ UNCHANGED <<Files, intents, bundles>>

\* Everything p holds in memory is gone, and its locks with the process.
Crash(p) ==
    /\ op[p] # Idle /\ hist.crashes < MaxCrash
    /\ hist' = [hist EXCEPT !.crashes = @ + 1]
    /\ Done(p)
    /\ UNCHANGED <<Files, intents, reg, bundles>>

-----------------------------------------------------------------------------
(* The rest of the program.  Writers of a namespace take no file lock. *)

Edit(ns, d) ==
    /\ disk' = [disk EXCEPT ![reg[ns].inode] = d]
    /\ UNCHANGED <<target, temp, side, intents, reg, Locks, op, bundles>>

Observe(ns, m) ==
    /\ reg[ns] # None /\ m \in LocalMem \ hist.seen
    /\ hist' = [hist EXCEPT !.seen = @ \cup {m}]
    /\ Edit(ns, [Db(ns) EXCEPT !.schema = TRUE, !.mems = @ \cup {<<m, "open">>}])

Supersede(ns, m) ==
    /\ reg[ns] # None /\ <<m, "open">> \in Db(ns).mems
    /\ Edit(ns, [Db(ns) EXCEPT !.mems = (@ \ {<<m, "open">>}) \cup {<<m, "closed">>}])
    /\ UNCHANGED hist

\* Faulty variant of NextHead: the purge leaves the head alone.
SameHead(ns) == Db(ns).head

\* A rotated head is 32 random bytes: no other home has it.
NextHead(ns) == 100 + hist.acts

Purge(ns, m) ==
    /\ reg[ns] # None /\ m \in Ids(Db(ns).mems) /\ hist.acts < MaxAct
    /\ hist' = [hist EXCEPT !.erased = @ \cup {<<ns, m>>}, !.acts = @ + 1]
    /\ Edit(ns, [Db(ns) EXCEPT !.mems = {x \in @ : x[1] # m}, !.head = NextHead(ns)])

Act == hist.acts < MaxAct /\ hist' = [hist EXCEPT !.acts = @ + 1]

\* change_namespace_label: a rename keeps the file and the old name.
Relabel(ns, l) ==
    /\ reg[ns] # None /\ mig = None
    /\ NameOwner(l) \subseteq {ns} /\ (target[l] = None \/ l = reg[ns].path)
    /\ reg' = [reg EXCEPT ![ns].label = l, ![ns].names = @ \cup {l}]
    /\ Act
    /\ UNCHANGED <<Files, intents, Locks, op, bundles>>

Export(ns) ==
    /\ reg[ns] # None /\ mig = None /\ Db(ns).schema
    /\ bundles' = bundles \cup {[ns |-> ns, label |-> reg[ns].label, names |-> reg[ns].names,
                                 head |-> Db(ns).head, mems |-> Db(ns).mems]}
    /\ Act
    /\ UNCHANGED <<Files, intents, reg, Locks, op>>

\* retire_namespace, whose own steps NamespaceContent has.  The operator gives
\* the namespace up: what was purged from it may come back with a bundle.
Retire(ns) ==
    /\ reg[ns] # None /\ mig = None /\ cfg = None /\ hist.acts < MaxAct
    /\ reg' = [reg EXCEPT ![ns] = None]
    /\ target' = [target EXCEPT ![reg[ns].path] = None]
    /\ hist' = [hist EXCEPT !.erased = {x \in @ : x[1] # ns}, !.acts = @ + 1]
    /\ UNCHANGED <<disk, temp, side, intents, Locks, op, bundles>>

Step(p) ==
    \/ \E b \in bundles : Start(p, b)
    \/ RecoverRefused(p) \/ RecoverDone(p) \/ Look(p)
    \/ \E i \in op[p].todo : RecoverTarget(p, i) \/ RecoverRest(p, i)
    \/ Claim(p) \/ LinkIntent(p) \/ NameIntent(p) \/ Stage(p) \/ Link(p) \/ Name(p) \/ Register(p)
    \/ CloseClaim(p) \/ DropIntent(p) \/ Fail(p) \/ Withdraw(p)
    \/ Read(p) \/ Write(p)
    \/ \E l \in Label : LinkFresh(p, l)
    \/ \E ns \in Local : CommitFresh(p, ns)
    \/ Crash(p)

Next ==
    \/ \E p \in Proc : Step(p)
    \/ \E ns \in Ns, m \in Mem : Observe(ns, m) \/ Supersede(ns, m) \/ Purge(ns, m)
    \/ \E ns \in Ns, l \in Label : Relabel(ns, l)
    \/ \E ns \in Ns : Export(ns) \/ Retire(ns)

Spec == Init /\ [][Next]_vars

-----------------------------------------------------------------------------
(* Properties *)

\* Shapes, and who holds what: a lock has a working holder.
TypeOK ==
    /\ \A l \in Label : target[l] \in Inode \cup {None}
    /\ temp \cup side \subseteq Inode
    /\ \A i \in intents : i.bundle \in bundles /\ i.inode \in Inode /\ i.links \in 1..2
    /\ \A ns \in Ns : reg[ns] # None => reg[ns].path \in Label /\ reg[ns].inode \in Inode
    /\ \A p \in {mig, cfg} \ {None} : op[p] # Idle
    /\ Foreign \subseteq bundles

\* A registered namespace has its own file, under the name the registry has,
\* and no name or file is shared: whatever imports, registrations and
\* recoveries of crashed imports raced for a label.
RegisteredHasItsFile ==
    \A ns \in Ns : reg[ns] # None =>
        /\ target[reg[ns].path] = reg[ns].inode
        /\ \A other \in Ns \ {ns} : reg[other] # None =>
              reg[other].inode # reg[ns].inode /\ reg[other].names \cap reg[ns].names = {}

\* MEMORY_CONTRACT.md: a bundle exported before a purge cannot bring the
\* purged memory back into the namespace it was purged from.
NoResurrection ==
    \A x \in hist.erased : reg[x[1]] # None => x[2] \notin Ids(Db(x[1]).mems)

\* From the moment its intent is on disk, whatever an import made either
\* belongs to a registered namespace or is named by an intent that the next
\* import will read: no step of publication, failure or recovery, and no
\* crash between two of them, leaves a file nobody owns.
NothingLeftBehind ==
    \A n \in hist.intended :
        \/ \E i \in intents : i.inode = n
        \/ /\ n \notin temp \cup side
           /\ \A l \in Label : target[l] = n => \E ns \in Ns : reg[ns] # None /\ reg[ns].inode = n

\* What a reader finds under the registered names.
Shown == [ns \in Ns |-> IF reg[ns] = None \/ target[reg[ns].path] # reg[ns].inode THEN None
                        ELSE [mems |-> Db(ns).mems, head |-> Db(ns).head]]

Promise == INSTANCE AtomicImport WITH Head0 <- 0, db <- Shown

\* Every step is one of the abstract store's: namespaces appear whole.
ImportIsAtomic == Promise!Spec

\* The intents of imports nobody runs any more.
Abandoned == {i \in intents : \A p \in Proc : op[p].inode # i.inode}

\* docs/EXPORT_FORMAT.md: a crash before, during, or immediately after registry
\* publication can be retried.  The intent of a published namespace never
\* stops the imports that come after it.
PublishedIsRecovered == \A i \in Abandoned : Committed(i) => Recoverable(i)

\* _claim_fresh_namespace_db: the database is initialized privately before it
\* gets its name.  A registered namespace has its tables.
RegisteredIsInitialized == \A ns \in Ns : reg[ns] # None => Db(ns).schema

\* Shapes, and what is registered has its own file.
RegistryIsBacked == TypeOK /\ RegisteredHasItsFile
=============================================================================
