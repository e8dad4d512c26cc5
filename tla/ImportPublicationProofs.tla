----------------------- MODULE ImportPublicationProofs -----------------------
(***************************************************************************)
(* Proofs about ImportPublication for every set of processes, namespaces,   *)
(* labels, memories and foreign bundles, and any bounds; and the proof that *)
(* it implements AtomicImport.                                              *)
(*                                                                         *)
(* The inductive invariant says whose each file is at every step of a       *)
(* publication: until the registry's commit the file an import works on is  *)
(* no namespace's, and its label and names are nobody's, because both locks *)
(* are held and everything that could take them takes one of the locks.     *)
(* What an import needs of a purge is in the heads: a head no bundle has    *)
(* yet is never lower than the counter the next one is made of, and a       *)
(* bundle that has a namespace's head holds nothing erased from it.         *)
(***************************************************************************)
EXTENDS ImportPublication, FiniteSetTheorems, SequenceTheorems, TLAPS

-----------------------------------------------------------------------------
(* Shapes.                                                                  *)

Memories == SUBSET (Mem \X {"open", "closed"})
Bundle == [ns : Ns, label : Label, names : SUBSET Known, head : Nat, mems : Memories]
File == [schema : BOOLEAN, mems : Memories, head : Nat, receipts : SUBSET Bundle]
Row == [label : Label, path : Label, names : SUBSET Known, inode : Nat]
IntentFile == [bundle : Bundle, inode : Nat, links : 1..2]

Open == {"claimed", "intent-linked", "intent-created", "staged", "linked", "named", "failed", "withdrawn"}
Publishing == Open \cup {"committed", "closed"}
Importing == {"recovering", "look", "publish", "read", "write"} \cup Publishing
Pcs == {"idle", "fresh"} \cup Importing

MigPcs == {"recovering", "write"} \cup Publishing
CfgPcs == {"recovering", "fresh"} \cup Publishing

Doing == [pc : Pcs, bundle : Bundle \cup {None}, inode : Nat \cup {None},
          todo : SUBSET IntentFile, sel : {None} \cup Label \cup Row]

History == [erased : SUBSET (Ns \X Mem), acts : Nat, crashes : Nat, minted : SUBSET Ns,
            seen : SUBSET Mem, intended : SUBSET Nat, registered : SUBSET Nat]

Typed ==
    /\ disk \in Seq(File)
    /\ target \in [Label -> Nat \cup {None}]
    /\ temp \subseteq Nat /\ side \subseteq Nat
    /\ intents \subseteq IntentFile
    /\ reg \in [Ns -> Row \cup {None}]
    /\ mig \in Proc \cup {None} /\ cfg \in Proc \cup {None}
    /\ op \in [Proc -> Doing]
    /\ bundles \subseteq Bundle
    /\ hist \in History

-----------------------------------------------------------------------------
(* The invariant.                                                           *)

LocksHeld ==
    \A p \in Proc : /\ mig = p <=> op[p].pc \in MigPcs
                    /\ cfg = p <=> op[p].pc \in CfgPcs

Registered(n) == \E ns \in Ns : reg[ns] # None /\ reg[ns].inode = n

\* What has a name: registered namespaces have their own, a file has one label
\* at most, and what is minted here is on record as minted.
RegistryHolds ==
    /\ RegisteredHasItsFile
    /\ \A ns \in Ns : reg[ns] # None => reg[ns].inode \in Inode
    /\ \A l \in Label : target[l] \in Inode \cup {None}
    /\ \A k, l \in Label : target[k] = target[l] /\ target[k] # None => k = l
    /\ \A ns \in Local : reg[ns] # None => ns \in hist.minted
    /\ Foreign \subseteq bundles
    /\ \A b \in bundles : b.ns \in Local => b.ns \in hist.minted

IntentsHold ==
    /\ temp \cup side \subseteq Inode /\ hist.intended \subseteq Inode
    /\ \A i \in intents : /\ i.bundle \in bundles /\ i.inode \in Inode
                          /\ \A l \in Label : target[l] = i.inode => l = i.bundle.label
    /\ NothingLeftBehind

\* A bundle that has a namespace's head holds no memory erased from it.
HeadsTellErasures ==
    \A x \in hist.erased, b \in bundles :
        reg[x[1]] # None /\ b.ns = x[1] /\ b.head = Db(x[1]).head => x[2] \notin Ids(b.mems)

\* Heads and observed memories of a file or a bundle are of the past.
OfThePast(d) == d.head < 100 + hist.acts /\ Ids(d.mems) \cap LocalMem \subseteq hist.seen

HeadsHold ==
    /\ \A n \in Inode : OfThePast(disk[n])
    /\ \A b \in bundles : OfThePast(b)
    /\ \A x \in hist.erased : reg[x[1]] # None /\ (x[2] \in LocalMem => x[2] \in hist.seen)
    /\ NoResurrection
    /\ HeadsTellErasures

\* What an import that holds both locks may rely on.
Publishes(p) ==
    /\ op[p].inode \in Inode
    /\ \A l \in Label : target[l] = op[p].inode => l = op[p].bundle.label
    /\ \A i \in intents : i.inode = op[p].inode => i.bundle = op[p].bundle
    /\ op[p].pc \in Open =>
          reg[op[p].bundle.ns] = None /\ ~Collides(op[p].bundle) /\ ~Registered(op[p].inode)
    /\ op[p].pc = "claimed" =>
          op[p].inode \notin hist.intended /\ \A i \in intents : i.inode # op[p].inode
    /\ op[p].pc \in {"claimed", "intent-linked", "intent-created", "staged", "withdrawn"} =>
          \A l \in Label : target[l] # op[p].inode
    /\ op[p].pc \in {"intent-linked", "intent-created", "staged"} =>
          \E i \in intents : i.inode = op[p].inode
    /\ op[p].pc \in {"linked", "named"} => target[op[p].bundle.label] = op[p].inode
    /\ op[p].pc \in {"staged", "linked", "named"} =>
          disk[op[p].inode].mems = op[p].bundle.mems /\ disk[op[p].inode].head = op[p].bundle.head
    /\ op[p].pc \in {"named", "committed", "closed", "failed", "withdrawn"} => op[p].inode \notin temp
    /\ op[p].pc \in {"closed", "failed", "withdrawn"} => op[p].inode \notin side
    /\ op[p].pc \in {"committed", "closed"} =>
          reg[op[p].bundle.ns] # None /\ reg[op[p].bundle.ns].inode = op[p].inode

\* What a registration may rely on between its two steps.
Registers(p) ==
    /\ op[p].sel \in Label /\ op[p].inode \in Inode
    /\ target[op[p].sel] = op[p].inode /\ ~Registered(op[p].inode)
    /\ disk[op[p].inode].mems = {} /\ disk[op[p].inode].head = 0
    /\ NameOwner(op[p].sel) = {}
    /\ op[p].inode \notin hist.intended /\ \A i \in intents : i.inode # op[p].inode

Stands(p) ==
    /\ op[p].pc \in Importing => op[p].bundle \in bundles
    /\ op[p].pc \in Publishing => Publishes(p)
    /\ op[p].pc = "fresh" => Registers(p)

ImportInv ==
    /\ Typed
    /\ LocksHeld
    /\ RegistryHolds
    /\ IntentsHold
    /\ HeadsHold
    /\ \A p \in Proc : Stands(p)

-----------------------------------------------------------------------------
(* Files.                                                                   *)

\* A new file has the next number.
LEMMA NewFile ==
    ASSUME disk \in Seq(File), disk' = Append(disk, Blank)
    PROVE  /\ disk' \in Seq(File) /\ New \in Nat /\ New \notin Inode /\ Inode' = Inode \cup {New}
           /\ Inode \subseteq Nat
           /\ disk'[New] = Blank /\ \A n \in Inode : disk'[n] = disk[n]
<1>1. Blank \in File
  BY DEF Blank, File, Memories
<1>2. Len(disk) \in Nat /\ Inode = 1..Len(disk)
  BY LenProperties DEF Inode
<1>3. Cardinality(Inode) = Len(disk)
  <2>1. 1 \in Int /\ Len(disk) \in Int
    BY <1>2
  <2>2. Cardinality(1..Len(disk)) = IF 1 > Len(disk) THEN 0 ELSE Len(disk) - 1 + 1
    BY <2>1, FS_Interval, Zenon
  <2>3. QED BY <1>2, <2>2
<1>4. New = Len(disk) + 1
  BY <1>3 DEF New
<1>5. /\ disk' \in Seq(File) /\ Len(disk') = Len(disk) + 1
      /\ \A i \in 1..Len(disk) : disk'[i] = disk[i]
      /\ disk'[Len(disk) + 1] = Blank
  BY <1>1, AppendProperties
<1>6. Inode' = 1..(Len(disk) + 1)
  BY <1>5, LenProperties DEF Inode
<1>7. QED BY <1>2, <1>4, <1>5, <1>6

\* A file that is written to stays where it is.
LEMMA EditedFile ==
    ASSUME disk \in Seq(File), NEW n \in Inode, NEW d \in File, disk' = [disk EXCEPT ![n] = d]
    PROVE  /\ disk' \in Seq(File) /\ Inode' = Inode
           /\ disk'[n] = d /\ \A k \in Inode \ {n} : disk'[k] = disk[k]
<1>1. Inode = 1..Len(disk)
  BY LenProperties DEF Inode
<1>2. /\ disk' \in Seq(File) /\ Len(disk') = Len(disk)
      /\ \A j \in 1..Len(disk) : disk'[j] = IF j = n THEN d ELSE disk[j]
  BY <1>1, ExceptSeq
<1>3. Inode' = 1..Len(disk)
  BY <1>2, LenProperties DEF Inode
<1>4. QED BY <1>1, <1>2, <1>3

\* Every inode is a number and names a file.
LEMMA InodesAreFiles ==
    ASSUME disk \in Seq(File)
    PROVE  Inode \subseteq Nat /\ \A n \in Inode : disk[n] \in File
<1>1. Inode = 1..Len(disk) /\ Len(disk) \in Nat
  BY LenProperties DEF Inode
<1>2. QED BY <1>1, ElementOfSeq

-----------------------------------------------------------------------------
(* Processes and locks.                                                     *)

\* Idle is what a process is between two operations.
LEMMA IdleIsTyped == Idle \in Doing /\ Idle.pc = "idle" /\ Idle.pc \notin MigPcs \cup CfgPcs \cup Importing
  BY DEF Idle, Doing, Pcs, MigPcs, CfgPcs, Importing, Publishing, Open

\* One process goes on, and takes or leaves locks nobody else has.
LEMMA Moves ==
    ASSUME Typed, LocksHeld, NEW p \in Proc, NEW o \in Doing, op' = [op EXCEPT ![p] = o],
           mig' = p <=> o.pc \in MigPcs, cfg' = p <=> o.pc \in CfgPcs,
           \A q \in Proc \ {p} : (mig' = q <=> mig = q) /\ (cfg' = q <=> cfg = q)
    PROVE  /\ op' \in [Proc -> Doing] /\ LocksHeld'
           /\ op'[p] = o /\ \A q \in Proc \ {p} : op'[q] = op[q]
  BY DEF Typed, LocksHeld

\* Done: the locks go with the operation, and others' stay.
LEMMA DoneReleases ==
    ASSUME Typed, LocksHeld, NEW p \in Proc, Done(p)
    PROVE  /\ op' \in [Proc -> Doing] /\ LocksHeld'
           /\ mig' \in Proc \cup {None} /\ cfg' \in Proc \cup {None}
           /\ op'[p] = Idle /\ \A q \in Proc \ {p} : op'[q] = op[q]
<1>1. /\ mig' \in Proc \cup {None} /\ cfg' \in Proc \cup {None}
      /\ mig' # p /\ cfg' # p
      /\ \A q \in Proc \ {p} : (mig' = q <=> mig = q) /\ (cfg' = q <=> cfg = q)
  BY NoneIsNothing DEF Done, Release, Typed
<1>2. op' = [op EXCEPT ![p] = Idle]
  BY DEF Done
<1>3. QED BY <1>1, <1>2, IdleIsTyped, Moves

\* Who holds the configuration lock works alone on registry, files and
\* intents; who holds the migration lock, among importers.
LEMMA OneWriter ==
    ASSUME Typed, LocksHeld
    PROVE  /\ \A p, q \in Proc : op[p].pc \in CfgPcs /\ op[q].pc \in CfgPcs => p = q
           /\ \A p, q \in Proc : op[p].pc \in MigPcs /\ op[q].pc \in MigPcs => p = q
           /\ cfg = None => \A q \in Proc : op[q].pc \notin CfgPcs
           /\ mig = None => \A q \in Proc : op[q].pc \notin MigPcs
  BY NoneIsNothing DEF Typed, LocksHeld

\* A process with no lock, or the migration lock alone, relies on its bundle.
LEMMA OutsideStands ==
    ASSUME NEW q \in Proc, Stands(q), op'[q] = op[q], op[q].pc \notin CfgPcs, bundles \subseteq bundles'
    PROVE  Stands(q)'
  BY DEF Stands, CfgPcs

\* And an idle one on nothing.
LEMMA IdleStands ==
    ASSUME NEW q \in Proc, op'[q] = Idle
    PROVE  Stands(q)'
  BY IdleIsTyped DEF Stands, CfgPcs, Importing

-----------------------------------------------------------------------------
(* What leaves registry, intents and heads as they were.                    *)

SameCounts ==
    /\ hist' \in History
    /\ hist'.erased = hist.erased /\ hist'.acts = hist.acts /\ hist'.seen = hist.seen

SameHistory == SameCounts /\ hist'.minted = hist.minted /\ hist'.intended = hist.intended

\* Registry and names stay.
LEMMA RegistryStays ==
    ASSUME RegistryHolds, Inode \subseteq Inode', UNCHANGED <<target, reg, bundles>>,
           hist'.minted = hist.minted
    PROVE  RegistryHolds'
  BY DEF RegistryHolds, RegisteredHasItsFile

\* No intent goes, no file is claimed or linked.
LEMMA IntentsStay ==
    ASSUME IntentsHold, Inode \subseteq Inode', UNCHANGED <<intents, target>>,
           temp' \subseteq temp, side' \subseteq side, bundles \subseteq bundles',
           hist'.intended = hist.intended, \A n : Registered(n) => Registered(n)'
    PROVE  IntentsHold'
  BY DEF IntentsHold, NothingLeftBehind, Registered

\* Steps that only move a process.
LEMMA NothingWritten ==
    ASSUME RegistryHolds, IntentsHold, HeadsHold, SameHistory,
           UNCHANGED <<disk, target, temp, side, intents, reg, bundles>>
    PROVE  RegistryHolds' /\ IntentsHold' /\ HeadsHold'
<1>1. Inode' = Inode
  BY DEF Inode
<1>2. RegistryHolds'
  BY <1>1, RegistryStays DEF SameHistory, SameCounts
<1>3. IntentsHold'
  BY <1>1, IntentsStay DEF SameHistory, SameCounts, Registered
<1>4. HeadsHold'
  BY <1>1 DEF HeadsHold, SameHistory, SameCounts, NoResurrection, HeadsTellErasures, OfThePast, Db
<1>5. QED BY <1>2, <1>3, <1>4

\* Steps that write no file a namespace has.
LEMMA HeadsStay ==
    ASSUME HeadsHold, UNCHANGED <<reg, bundles>>, SameCounts, RegistryHolds,
           \A n \in Inode : Registered(n) => disk'[n] = disk[n],
           \A n \in Inode' : OfThePast(disk'[n])
    PROVE  HeadsHold'
<1>1. \A ns \in Ns : reg[ns] # None => Db(ns)' = Db(ns)
  BY DEF Db, Registered, RegistryHolds
<1>2. \A b \in bundles : OfThePast(b)'
  BY DEF HeadsHold, OfThePast, SameCounts
<1>3. \A n \in Inode' : OfThePast(disk[n])'
  BY DEF OfThePast, SameCounts
<1>4. NoResurrection' /\ HeadsTellErasures'
  <2>1. hist.erased \subseteq Ns \X Mem
    BY DEF SameCounts, History
  <2>2. QED BY <1>1, <2>1 DEF HeadsHold, NoResurrection, HeadsTellErasures, SameCounts
<1>5. QED BY <1>2, <1>3, <1>4 DEF HeadsHold, SameCounts

\* Who has a name or a file depends on the registry alone.
LEMMA NamesStay ==
    ASSUME UNCHANGED reg
    PROVE  /\ \A n : (Registered(n)' <=> Registered(n)) /\ NameOwner(n)' = NameOwner(n)
           /\ \A b : Collides(b)' <=> Collides(b)
  BY DEF Registered, NameOwner, Collides

\* A process whose files and names nobody touches.
LEMMA StandsStill ==
    ASSUME NEW q \in Proc, Stands(q), op'[q] = op[q], SameHistory,
           UNCHANGED <<disk, target, temp, side, intents, reg, bundles>>
    PROVE  Stands(q)'
<1>1. Inode' = Inode /\ \A n : Registered(n)' <=> Registered(n)
  BY NamesStay DEF Inode
<1>2. \A n : NameOwner(n)' = NameOwner(n)
  BY NamesStay
<1>3. \A b : Collides(b)' <=> Collides(b)
  BY NamesStay
<1>4. Publishes(q) => Publishes(q)'
  BY <1>1, <1>3 DEF Publishes, SameHistory
<1>5. Registers(q) => Registers(q)'
  BY <1>1, <1>2 DEF Registers, SameHistory
<1>6. QED BY <1>4, <1>5 DEF Stands

-----------------------------------------------------------------------------
(* Steps that only move a process.                                          *)

\* An operation ends, well or badly, or the process with it.
LEMMA EndKeeps ==
    ASSUME ImportInv, NEW p \in Proc, Done(p), SameHistory,
           UNCHANGED <<disk, target, temp, side, intents, reg, bundles>>
    PROVE  ImportInv'
<1>1. Typed /\ LocksHeld /\ RegistryHolds /\ IntentsHold /\ HeadsHold /\ \A q \in Proc : Stands(q)
  BY DEF ImportInv
<1>2. /\ op' \in [Proc -> Doing] /\ LocksHeld'
      /\ mig' \in Proc \cup {None} /\ cfg' \in Proc \cup {None}
      /\ op'[p] = Idle /\ \A q \in Proc \ {p} : op'[q] = op[q]
  BY <1>1, DoneReleases
<1>3. RegistryHolds' /\ IntentsHold' /\ HeadsHold'
  BY <1>1, NothingWritten
<1>4. \A q \in Proc : Stands(q)'
  BY <1>1, <1>2, IdleStands, StandsStill
<1>5. Typed'
  BY <1>1, <1>2 DEF Typed, SameHistory, SameCounts
<1>6. QED BY <1>2, <1>3, <1>4, <1>5 DEF ImportInv

\* An operation goes on, outside or before what the configuration lock guards.
LEMMA MoveKeeps ==
    ASSUME ImportInv, NEW p \in Proc, NEW o \in Doing, op' = [op EXCEPT ![p] = o], SameHistory,
           mig' \in Proc \cup {None}, cfg' \in Proc \cup {None},
           mig' = p <=> o.pc \in MigPcs, cfg' = p <=> o.pc \in CfgPcs,
           \A q \in Proc \ {p} : (mig' = q <=> mig = q) /\ (cfg' = q <=> cfg = q),
           o.pc \in Importing => o.bundle \in bundles, o.pc \notin Publishing, o.pc # "fresh",
           UNCHANGED <<disk, target, temp, side, intents, reg, bundles>>
    PROVE  ImportInv'
<1>1. Typed /\ LocksHeld /\ RegistryHolds /\ IntentsHold /\ HeadsHold /\ \A q \in Proc : Stands(q)
  BY DEF ImportInv
<1>2. /\ op' \in [Proc -> Doing] /\ LocksHeld'
      /\ op'[p] = o /\ \A q \in Proc \ {p} : op'[q] = op[q]
  BY <1>1, Moves
<1>3. RegistryHolds' /\ IntentsHold' /\ HeadsHold'
  BY <1>1, NothingWritten
<1>4. \A q \in Proc \ {p} : Stands(q)'
  BY <1>1, <1>2, StandsStill
<1>5. Stands(p)'
  BY <1>2 DEF Stands
<1>6. Typed'
  BY <1>1, <1>2 DEF Typed, SameHistory, SameCounts
<1>7. QED BY <1>2, <1>3, <1>4, <1>5, <1>6 DEF ImportInv

\* Nothing happened to the history.
LEMMA HistoryStays ==
    ASSUME Typed, UNCHANGED hist
    PROVE  SameHistory
  BY DEF Typed, SameHistory, SameCounts

\* An import takes both locks.
LEMMA StartKeeps ==
    ASSUME ImportInv, NEW p \in Proc, NEW b \in bundles, Start(p, b)
    PROVE  ImportInv'
<1> DEFINE o == [Idle EXCEPT !.pc = "recovering", !.bundle = b, !.todo = intents]
<1>1. Typed /\ LocksHeld /\ b \in Bundle
  BY DEF ImportInv, Typed
<1>2. o \in Doing /\ o.pc = "recovering" /\ o.bundle = b
  BY <1>1 DEF Typed, Idle, Doing, Pcs, Importing
<1>3. op' = [op EXCEPT ![p] = o] /\ mig = None /\ cfg = None /\ mig' = p /\ cfg' = p
  BY DEF Start
<1>4. UNCHANGED <<disk, target, temp, side, intents, reg, bundles, hist>>
  BY DEF Start, Files
<1> HIDE DEF o
<1>5. SameHistory
  BY <1>1, <1>4, HistoryStays
<1>6. /\ o.pc \in MigPcs /\ o.pc \in CfgPcs /\ o.pc \notin Publishing /\ o.pc # "fresh"
  BY <1>2 DEF MigPcs, CfgPcs, Publishing, Open
<1>7. \A q \in Proc \ {p} : (mig' = q <=> mig = q) /\ (cfg' = q <=> cfg = q)
  BY <1>3, NoneIsNothing
<1>8. QED BY <1>2, <1>3, <1>4, <1>5, <1>6, <1>7, MoveKeeps

\* Recovery is refused, or an update is, or the process dies.
LEMMA StopKeeps ==
    ASSUME ImportInv, NEW p \in Proc, RecoverRefused(p) \/ Crash(p)
    PROVE  ImportInv'
<1>1. Done(p) /\ UNCHANGED <<disk, target, temp, side, intents, reg, bundles>>
  BY DEF RecoverRefused, Crash, Files
<1>2. SameHistory
  BY DEF RecoverRefused, Crash, ImportInv, Typed, History, SameHistory, SameCounts
<1>3. QED BY <1>1, <1>2, EndKeeps

\* Recovery is over.
LEMMA RecoverDoneKeeps ==
    ASSUME ImportInv, NEW p \in Proc, RecoverDone(p)
    PROVE  ImportInv'
<1> DEFINE o == [op[p] EXCEPT !.pc = "look"]
<1>1. Typed /\ LocksHeld /\ Stands(p) /\ op[p].pc = "recovering" /\ op[p] \in Doing
  BY DEF ImportInv, Typed, RecoverDone, At
<1>2. o \in Doing /\ o.pc = "look" /\ o.bundle = op[p].bundle
  BY <1>1 DEF Doing, Pcs, Importing
<1>3. op' = [op EXCEPT ![p] = o] /\ Release(p)
  BY <1>1 DEF RecoverDone, Goto, Typed
<1>4. UNCHANGED <<disk, target, temp, side, intents, reg, bundles, hist>>
  BY DEF RecoverDone, Files
<1> HIDE DEF o
<1>5. SameHistory
  BY <1>1, <1>4, HistoryStays
<1>6. /\ mig' \in Proc \cup {None} /\ cfg' \in Proc \cup {None} /\ mig' # p /\ cfg' # p
      /\ \A q \in Proc \ {p} : (mig' = q <=> mig = q) /\ (cfg' = q <=> cfg = q)
  BY <1>1, <1>3, NoneIsNothing DEF Release, Typed
<1>7. /\ o.pc \notin MigPcs /\ o.pc \notin CfgPcs /\ o.pc \notin Publishing /\ o.pc # "fresh"
  BY <1>2 DEF MigPcs, CfgPcs, Publishing, Open
<1>8. o.bundle \in bundles
  BY <1>1, <1>2 DEF Stands, Importing
<1>9. QED BY <1>2, <1>3, <1>4, <1>5, <1>6, <1>7, <1>8, MoveKeeps

\* The preflight without a lock.
LEMMA LookKeeps ==
    ASSUME ImportInv, NEW p \in Proc, Look(p)
    PROVE  ImportInv'
<1> DEFINE b == op[p].bundle
           o == IF Refused(b) THEN Idle
                ELSE [op[p] EXCEPT !.pc = IF reg[b.ns] = None THEN "publish" ELSE "read", !.sel = reg[b.ns]]
<1>1. Typed /\ LocksHeld /\ Stands(p) /\ op[p].pc = "look" /\ op[p] \in Doing
  BY DEF ImportInv, Typed, Look, At
<1>2. b \in bundles /\ b.ns \in Ns
  BY <1>1 DEF Stands, Importing, Typed, Bundle
<1>3. reg[b.ns] \in Row \cup {None}
  BY <1>1, <1>2 DEF Typed
<1>4. o \in Doing /\ o.pc \in {"idle", "publish", "read"} /\ (o.pc # "idle" => o.bundle = b)
  BY <1>1, <1>3, IdleIsTyped DEF Doing, Pcs, Importing
<1>5. op' = [op EXCEPT ![p] = o] /\ UNCHANGED <<mig, cfg>>
  BY <1>1 DEF Look, Locks, Typed
<1>6. UNCHANGED <<disk, target, temp, side, intents, reg, bundles, hist>>
  BY DEF Look, Files
<1> HIDE DEF o, b
<1>7. SameHistory
  BY <1>1, <1>6, HistoryStays
<1>8. /\ mig # p /\ cfg # p
  BY <1>1 DEF LocksHeld, MigPcs, CfgPcs, Publishing, Open
<1>9. /\ o.pc \notin MigPcs /\ o.pc \notin CfgPcs /\ o.pc \notin Publishing /\ o.pc # "fresh"
      /\ o.pc \in Importing => o.bundle \in bundles
  BY <1>2, <1>4 DEF MigPcs, CfgPcs, Publishing, Open, Importing
<1>10. mig' \in Proc \cup {None} /\ cfg' \in Proc \cup {None}
  BY <1>1, <1>5 DEF Typed
<1>11. QED BY <1>4, <1>5, <1>6, <1>7, <1>8, <1>9, <1>10, MoveKeeps

\* The read-only preflight of an update.
LEMMA ReadKeeps ==
    ASSUME ImportInv, NEW p \in Proc, Read(p)
    PROVE  ImportInv'
<1> DEFINE o == [op[p] EXCEPT !.pc = "write"]
<1>1. Typed /\ LocksHeld /\ Stands(p) /\ op[p].pc = "read" /\ mig = None /\ op[p] \in Doing
  BY DEF ImportInv, Typed, Read, At
<1>2. UNCHANGED <<disk, target, temp, side, intents, reg, bundles, hist>>
  BY DEF Read, Files
<1>3. SameHistory
  BY <1>1, <1>2, HistoryStays
<1>4. CASE Done(p)
  BY <1>2, <1>3, <1>4, EndKeeps
<1>5. CASE mig' = p /\ Goto(p, "write") /\ UNCHANGED cfg
  <2>1. o \in Doing /\ o.pc = "write" /\ o.bundle = op[p].bundle
    BY <1>1 DEF Doing, Pcs, Importing
  <2>2. op' = [op EXCEPT ![p] = o]
    BY <1>1, <1>5 DEF Goto, Typed
  <2> HIDE DEF o
  <2>3. o.bundle \in bundles /\ cfg # p
    BY <1>1, <2>1 DEF Stands, Importing, LocksHeld, CfgPcs, Publishing, Open
  <2>4. o.pc \in MigPcs /\ o.pc \notin CfgPcs /\ o.pc \notin Publishing /\ o.pc # "fresh"
    BY <2>1 DEF MigPcs, CfgPcs, Publishing, Open
  <2>5. /\ mig' \in Proc \cup {None} /\ cfg' \in Proc \cup {None}
        /\ \A q \in Proc \ {p} : (mig' = q <=> mig = q) /\ (cfg' = q <=> cfg = q)
    BY <1>1, <1>5, NoneIsNothing DEF Typed
  <2>6. QED BY <1>2, <1>3, <1>5, <2>1, <2>2, <2>3, <2>4, <2>5, MoveKeeps
<1>6. QED BY <1>4, <1>5 DEF Read

-----------------------------------------------------------------------------
(* Recovery.                                                                *)

\* Where labels lose files that no namespace has, registry and intents hold.
LEMMA UnlinkHolds ==
    ASSUME disk \in Seq(File), RegistryHolds, IntentsHold, target' \in [Label -> Nat \cup {None}],
           \A l \in Label : target'[l] \in {target[l], None},
           \A ns \in Ns : reg[ns] # None => target'[reg[ns].path] = target[reg[ns].path],
           UNCHANGED <<disk, temp, side, intents, reg, bundles, hist>>
    PROVE  RegistryHolds' /\ IntentsHold'
<1>1. Inode' = Inode
  BY DEF Inode
<1>2. \A l \in Label : target'[l] # None => target'[l] = target[l]
  OBVIOUS
<1>3. RegistryHolds'
  BY <1>1, <1>2 DEF RegistryHolds, RegisteredHasItsFile
<1>4. None \notin Inode
  BY InodesAreFiles, NoneIsNothing
<1>5. IntentsHold'
  <2>1. \A n \in Inode, l \in Label : target'[l] = n => target[l] = n
    BY <1>2, <1>4
  <2>2. NothingLeftBehind'
    BY <2>1 DEF IntentsHold, NothingLeftBehind
  <2>3. QED BY <1>1, <2>1, <2>2 DEF IntentsHold
<1>6. QED BY <1>3, <1>5

\* The label of an import that never registered its namespace.
LEMMA RecoverTargetKeeps ==
    ASSUME ImportInv, NEW p \in Proc, NEW i, RecoverTarget(p, i)
    PROVE  ImportInv'
<1> DEFINE l == i.bundle.label
<1>1. Typed /\ LocksHeld /\ RegistryHolds /\ IntentsHold /\ HeadsHold /\ \A q \in Proc : Stands(q)
  BY DEF ImportInv
<1>2. /\ op[p].pc = "recovering" /\ i \in op[p].todo /\ Recoverable(i)
      /\ reg[i.bundle.ns] = None /\ target' = [target EXCEPT ![l] = None]
      /\ UNCHANGED <<disk, temp, side, intents, reg, mig, cfg, op, bundles, hist>>
  BY DEF RecoverTarget, At, Published, Committed, Locks
<1>3. i \in IntentFile /\ l \in Label
  BY <1>1, <1>2 DEF Typed, Doing, IntentFile, Bundle
<1>4. \A ns \in Ns : reg[ns] # None => reg[ns].path # l
  BY <1>2 DEF Recoverable, PathOwner
<1>5. /\ target' \in [Label -> Nat \cup {None}]
      /\ \A k \in Label : target'[k] = IF k = l THEN None ELSE target[k]
  BY <1>1, <1>2, <1>3 DEF Typed
<1> HIDE DEF l
<1>6. \A ns \in Ns : reg[ns] # None => target'[reg[ns].path] = target[reg[ns].path]
  <2>1. \A ns \in Ns : reg[ns] # None => reg[ns].path \in Label
    BY <1>1 DEF Typed, Row
  <2>2. QED BY <1>4, <1>5, <2>1
<1>7. RegistryHolds' /\ IntentsHold'
  <2>1. \A k \in Label : target'[k] \in {target[k], None}
    BY <1>5
  <2>2. QED BY <1>1, <1>2, <1>5, <1>6, <2>1, UnlinkHolds DEF Typed
<1>8. SameHistory
  BY <1>1, <1>2, HistoryStays
<1>9. HeadsHold'
  <2>1. \A n \in Inode' : OfThePast(disk'[n])
    BY <1>1, <1>2 DEF HeadsHold, Inode
  <2>2. QED BY <1>1, <1>2, <1>8, <2>1, HeadsStay DEF SameHistory
<1>10. ASSUME NEW q \in Proc PROVE Stands(q)'
  <2>1. CASE q = p
    BY <1>1, <1>2, <2>1 DEF Stands, Publishing, Open
  <2>2. CASE q # p
    <3>1. op[p].pc \in CfgPcs
      BY <1>2 DEF CfgPcs
    <3>2. op[q].pc \notin CfgPcs
      BY <1>1, <2>2, <3>1, OneWriter
    <3>3. QED BY <1>1, <1>2, <3>2, OutsideStands
  <2>3. QED BY <2>1, <2>2
<1>11. LocksHeld' /\ Typed'
  BY <1>1, <1>2, <1>5 DEF LocksHeld, Typed
<1>12. QED BY <1>7, <1>9, <1>10, <1>11 DEF ImportInv

\* The rest of what an intent names, and the intent.
LEMMA RecoverRestKeeps ==
    ASSUME ImportInv, NEW p \in Proc, NEW i, RecoverRest(p, i)
    PROVE  ImportInv'
<1> DEFINE n == i.inode
           o == [op[p] EXCEPT !.todo = @ \ {i}]
<1>1. Typed /\ LocksHeld /\ RegistryHolds /\ IntentsHold /\ HeadsHold /\ \A q \in Proc : Stands(q)
  BY DEF ImportInv
<1>2. /\ op[p].pc = "recovering" /\ i \in op[p].todo /\ Recoverable(i)
      /\ reg[i.bundle.ns] # None \/ target[i.bundle.label] = None
      /\ temp' = temp \ {n} /\ side' = side \ {n} /\ intents' = intents \ {i}
      /\ UNCHANGED <<disk, target, reg, mig, cfg, bundles, hist>>
  BY DEF RecoverRest, At, Published, Committed, Locks
<1>3. op[p] \in Doing
  BY <1>1 DEF Typed
<1>4. i \in IntentFile /\ o \in Doing /\ o.pc = "recovering" /\ o.bundle = op[p].bundle
  BY <1>2, <1>3 DEF Doing
<1>5. op' = [op EXCEPT ![p] = o]
  BY <1>1 DEF RecoverRest, Typed
<1> HIDE DEF o
<1>6. op[p].pc \in MigPcs /\ op[p].pc \in CfgPcs
  BY <1>2 DEF MigPcs, CfgPcs
<1>7. /\ op' \in [Proc -> Doing] /\ LocksHeld'
      /\ op'[p] = o /\ \A q \in Proc \ {p} : op'[q] = op[q]
  BY <1>1, <1>2, <1>4, <1>5, <1>6, Moves DEF LocksHeld
<1>8. SameHistory
  BY <1>1, <1>2, HistoryStays
<1>9. Inode' = Inode
  BY <1>2 DEF Inode
<1>10. RegistryHolds'
  BY <1>1, <1>2, <1>9, RegistryStays
<1>11. HeadsHold'
  <2>1. \A k \in Inode' : OfThePast(disk'[k])
    BY <1>1, <1>2, <1>9 DEF HeadsHold
  <2>2. QED BY <1>1, <1>2, <1>8, <2>1, HeadsStay DEF SameHistory
<1>12. IntentsHold'
  <2>1. SUFFICES ASSUME i \in intents, NEW l \in Label, target[l] = n
                 PROVE  \E ns \in Ns : reg[ns] # None /\ reg[ns].inode = n
    <3>1. ASSUME i \notin intents PROVE intents' = intents
      BY <1>2, <3>1
    <3>2. QED BY <1>1, <1>2, <1>9, <3>1 DEF IntentsHold, NothingLeftBehind
  <2>2. l = i.bundle.label /\ i.bundle.ns \in Ns /\ target[l] # None
    BY <1>1, <1>4, <2>1, NoneIsNothing DEF IntentsHold, IntentFile, Bundle
  <2>3. QED BY <1>2, <2>1, <2>2 DEF Recoverable, Committed
<1>13. Stands(p)'
  BY <1>1, <1>2, <1>4, <1>7 DEF Stands, Publishing, Open, Importing
<1>14. \A q \in Proc \ {p} : Stands(q)'
  <2>1. \A q \in Proc \ {p} : op[q].pc \notin CfgPcs
    BY <1>1, <1>6, OneWriter
  <2>2. QED BY <1>1, <1>2, <1>7, <2>1, OutsideStands
<1>15. Typed'
  BY <1>1, <1>2, <1>7 DEF Typed
<1>16. QED BY <1>7, <1>10, <1>11, <1>12, <1>13, <1>14, <1>15 DEF ImportInv

-----------------------------------------------------------------------------
(* Publication.                                                             *)

\* A new file, for an import or a registration: nothing names it yet.
LEMMA NewFileHolds ==
    ASSUME Typed, RegistryHolds, HeadsHold, disk' = Append(disk, Blank),
           UNCHANGED <<reg, bundles>>, SameHistory
    PROVE  /\ disk' \in Seq(File) /\ New \in Nat /\ New \notin Inode /\ Inode' = Inode \cup {New}
           /\ Inode \subseteq Nat /\ disk'[New] = Blank /\ ~Registered(New)
           /\ \A l \in Label : target[l] # New
           /\ HeadsHold'
<1>1. /\ disk' \in Seq(File) /\ New \in Nat /\ New \notin Inode /\ Inode' = Inode \cup {New}
      /\ Inode \subseteq Nat /\ disk'[New] = Blank /\ \A n \in Inode : disk'[n] = disk[n]
  BY NewFile DEF Typed
<1>2. ~Registered(New) /\ \A l \in Label : target[l] # New
  BY <1>1, NoneIsNothing DEF RegistryHolds, Registered
<1>3. OfThePast(Blank)
  BY DEF OfThePast, Blank, Ids, Typed, History
<1>4. HeadsHold'
  <2>1. \A n \in Inode' : OfThePast(disk'[n])
    BY <1>1, <1>3 DEF HeadsHold
  <2>2. QED BY <1>1, <2>1, HeadsStay DEF SameHistory
<1>5. QED BY <1>1, <1>2, <1>4

\* The claim: both locks, and a file of its own.
LEMMA ClaimKeeps ==
    ASSUME ImportInv, NEW p \in Proc, Claim(p)
    PROVE  ImportInv'
<1> DEFINE b == op[p].bundle
           o == [op[p] EXCEPT !.pc = "claimed", !.inode = New]
<1>1. Typed /\ LocksHeld /\ RegistryHolds /\ IntentsHold /\ HeadsHold /\ \A q \in Proc : Stands(q)
  BY DEF ImportInv
<1>2. /\ op[p].pc = "publish" /\ mig = None /\ cfg = None /\ op[p] \in Doing
      /\ UNCHANGED <<target, intents, reg, bundles, hist>>
  BY <1>1 DEF Claim, At, Typed
<1>3. SameHistory
  BY <1>1, <1>2, HistoryStays
<1>4. CASE op' = [op EXCEPT ![p] = Idle] /\ UNCHANGED <<disk, temp, side, Locks>>
  <2>1. Done(p)
    BY <1>2, <1>4, NoneIsNothing DEF Done, Release, Locks
  <2>2. QED BY <1>2, <1>3, <1>4, <2>1, EndKeeps
<1>5. CASE /\ Free(op[p].bundle)
           /\ mig' = p /\ cfg' = p
           /\ disk' = Append(disk, Blank)
           /\ temp' = temp \cup {New} /\ side' = side \cup {New}
           /\ op' = [op EXCEPT ![p].pc = "claimed", ![p].inode = New]
  <2>1. /\ disk' \in Seq(File) /\ New \in Nat /\ New \notin Inode /\ Inode' = Inode \cup {New}
        /\ Inode \subseteq Nat /\ disk'[New] = Blank /\ ~Registered(New)
        /\ \A l \in Label : target[l] # New
        /\ HeadsHold'
    BY <1>1, <1>2, <1>3, <1>5, NewFileHolds
  <2>2. o \in Doing /\ o.pc = "claimed" /\ o.inode = New /\ o.bundle = b
    BY <1>2, <2>1 DEF Doing, Pcs, Importing, Publishing, Open
  <2>3. op' = [op EXCEPT ![p] = o]
    BY <1>1, <1>5 DEF Typed
  <2> HIDE DEF o
  <2>4. o.pc \in MigPcs /\ o.pc \in CfgPcs /\ o.pc \in Publishing /\ o.pc \in Open /\ o.pc # "fresh"
    BY <2>2 DEF MigPcs, CfgPcs, Publishing, Open
  <2>5. /\ op' \in [Proc -> Doing] /\ LocksHeld'
        /\ op'[p] = o /\ \A q \in Proc \ {p} : op'[q] = op[q]
    <3>1. \A q \in Proc \ {p} : (mig' = q <=> mig = q) /\ (cfg' = q <=> cfg = q)
      BY <1>2, <1>5, NoneIsNothing
    <3>2. QED BY <1>1, <1>5, <2>2, <2>3, <2>4, <3>1, Moves
  <2>6. RegistryHolds'
    BY <1>1, <1>2, <2>1, RegistryStays
  <2>7. IntentsHold'
    BY <1>1, <1>2, <1>5, <2>1 DEF IntentsHold, NothingLeftBehind
  <2>8. Stands(p)'
    <3>1. b \in bundles
      BY <1>1, <1>2 DEF Stands, Importing
    <3>2. reg[b.ns] = None /\ ~Collides(b)
      BY <1>5 DEF Free
    <3>3. PICK n : n = New
      OBVIOUS
    <3>4. PICK c : c = b
      OBVIOUS
    <3>5. ~Collides(c)' /\ ~Registered(n)'
      BY <1>2, <2>1, <3>2, <3>3, <3>4, NamesStay
    <3>6. n \notin hist.intended /\ \A i \in intents : i.inode # n
      BY <1>1, <2>1, <3>3 DEF IntentsHold
    <3>7. op'[p].pc = "claimed" /\ op'[p].inode = n /\ op'[p].bundle = c
      BY <2>2, <2>5, <3>3, <3>4
    <3> HIDE DEF b
    <3>8. Publishes(p)'
      BY <1>2, <2>1, <3>2, <3>3, <3>4, <3>5, <3>6, <3>7 DEF Publishes
    <3>9. QED BY <1>2, <2>2, <2>4, <2>5, <3>1, <3>8 DEF Stands, b
  <2>9. \A q \in Proc \ {p} : Stands(q)'
    BY <1>1, <1>2, <2>5, OneWriter, OutsideStands
  <2>10. Typed'
    BY <1>1, <1>2, <1>3, <1>5, <2>1, <2>5 DEF Typed
  <2>11. QED BY <2>1, <2>5, <2>6, <2>7, <2>8, <2>9, <2>10 DEF ImportInv
<1>6. QED BY <1>4, <1>5 DEF Claim

\* A publication goes on: what it works on stays, and nobody else is at work.
LEMMA GoesOn ==
    ASSUME ImportInv, NEW p \in Proc, op[p].pc \in Publishing, NEW x \in Publishing, Goto(p, x),
           UNCHANGED Locks, bundles' = bundles
    PROVE  /\ op' \in [Proc -> Doing] /\ LocksHeld'
           /\ mig' \in Proc \cup {None} /\ cfg' \in Proc \cup {None}
           /\ op'[p].pc = x /\ op'[p].inode = op[p].inode /\ op'[p].bundle = op[p].bundle
           /\ \A q \in Proc \ {p} : Stands(q)'
           /\ Publishes(p) /\ op[p].bundle \in bundles
           /\ x \notin {"fresh"}
<1> DEFINE o == [op[p] EXCEPT !.pc = x]
<1>1. Typed /\ LocksHeld /\ \A q \in Proc : Stands(q)
  BY DEF ImportInv
<1>2. o \in Doing /\ o.pc = x /\ o.inode = op[p].inode /\ o.bundle = op[p].bundle
  BY <1>1 DEF Typed, Doing, Pcs, Importing
<1>3. op' = [op EXCEPT ![p] = o]
  BY <1>1 DEF Goto, Typed
<1> HIDE DEF o
<1>4. /\ o.pc \in MigPcs /\ o.pc \in CfgPcs /\ op[p].pc \in MigPcs /\ op[p].pc \in CfgPcs
  BY <1>2 DEF MigPcs, CfgPcs
<1>5. UNCHANGED <<mig, cfg>> /\ mig' \in Proc \cup {None} /\ cfg' \in Proc \cup {None}
  BY <1>1 DEF Locks, Typed
<1>6. /\ op' \in [Proc -> Doing] /\ LocksHeld'
      /\ op'[p] = o /\ \A q \in Proc \ {p} : op'[q] = op[q]
  BY <1>1, <1>2, <1>3, <1>4, <1>5, Moves DEF LocksHeld
<1>7. \A q \in Proc \ {p} : Stands(q)'
  BY <1>1, <1>4, <1>6, OneWriter, OutsideStands
<1>8. Publishes(p) /\ op[p].bundle \in bundles /\ x # "fresh"
  BY <1>1 DEF Stands, Importing, Publishing, Open
<1>9. QED BY <1>2, <1>5, <1>6, <1>7, <1>8

\* The intent of an import.
LEMMA IntentIsTyped ==
    ASSUME Typed, NEW p \in Proc, op[p].inode \in Inode, op[p].bundle \in bundles, NEW x \in 1..2
    PROVE  /\ Intent(p, x) \in IntentFile
           /\ Intent(p, x).inode = op[p].inode /\ Intent(p, x).bundle = op[p].bundle
<1>1. op[p].inode \in Nat /\ op[p].bundle \in Bundle
  BY InodesAreFiles DEF Typed
<1>2. QED BY <1>1 DEF Intent, IntentFile

\* The intent appears, under two names.
LEMMA LinkIntentKeeps ==
    ASSUME ImportInv, NEW p \in Proc, LinkIntent(p)
    PROVE  ImportInv'
<1>1. Typed /\ LocksHeld /\ RegistryHolds /\ IntentsHold /\ HeadsHold /\ \A q \in Proc : Stands(q)
  BY DEF ImportInv
<1>2. /\ op[p].pc = "claimed" /\ Goto(p, "intent-linked")
      /\ intents' = intents \cup {Intent(p, 2)}
      /\ UNCHANGED <<disk, target, temp, side, reg, Locks, bundles>>
  BY DEF LinkIntent, At, Files
<1>3. op[p].pc \in Publishing /\ "intent-linked" \in Publishing
  BY <1>2 DEF Publishing, Open
<1>4. /\ op' \in [Proc -> Doing] /\ LocksHeld'
      /\ mig' \in Proc \cup {None} /\ cfg' \in Proc \cup {None}
      /\ op'[p].pc = "intent-linked" /\ op'[p].inode = op[p].inode /\ op'[p].bundle = op[p].bundle
      /\ \A q \in Proc \ {p} : Stands(q)'
      /\ Publishes(p) /\ op[p].bundle \in bundles
  BY <1>2, <1>3, GoesOn
<1>5. PICK n, b, i : n = op[p].inode /\ b = op[p].bundle /\ i = Intent(p, 2)
  OBVIOUS
<1>6. /\ n \in Inode /\ b \in bundles /\ i.inode = n /\ i.bundle = b /\ i \in IntentFile
  <2>1. op[p].inode \in Inode /\ op[p].bundle \in bundles
    BY <1>4 DEF Publishes
  <2>2. 2 \in 1..2
    OBVIOUS
  <2>3. QED BY <1>1, <1>5, <2>1, <2>2, IntentIsTyped
<1>7. /\ hist' \in History /\ hist'.erased = hist.erased /\ hist'.acts = hist.acts
      /\ hist'.seen = hist.seen /\ hist'.minted = hist.minted
      /\ hist'.intended = hist.intended \cup {n}
  <2>1. n \in Nat
    BY <1>6 DEF IntentFile
  <2>2. QED BY <1>1, <1>5, <2>1 DEF LinkIntent, Typed, History
<1>8. Inode' = Inode
  BY <1>2 DEF Inode
<1>9. RegistryHolds'
  BY <1>1, <1>2, <1>7, <1>8, RegistryStays
<1>10. HeadsHold'
  <2>1. SameCounts
    BY <1>7 DEF SameCounts
  <2>2. \A k \in Inode' : OfThePast(disk'[k])
    BY <1>1, <1>2, <1>8 DEF HeadsHold
  <2>3. QED BY <1>1, <1>2, <2>1, <2>2, HeadsStay
<1>11. /\ \A l \in Label : target[l] # n
       /\ \A j \in intents : j.inode # n
       /\ reg[b.ns] = None /\ ~Collides(b) /\ ~Registered(n)
  BY <1>2, <1>4, <1>5 DEF Publishes, Open
<1>12. intents' = intents \cup {i}
  BY <1>2, <1>5
<1>13. IntentsHold'
  <2>1. NothingLeftBehind'
    BY <1>1, <1>2, <1>6, <1>7, <1>12 DEF IntentsHold, NothingLeftBehind
  <2>2. QED BY <1>1, <1>2, <1>6, <1>7, <1>8, <1>11, <1>12, <2>1 DEF IntentsHold
<1>14. Stands(p)'
  <2>1. ~Collides(b)' /\ ~Registered(n)'
    BY <1>2, <1>11, NamesStay
  <2>2. op'[p].pc = "intent-linked" /\ op'[p].inode = n /\ op'[p].bundle = b
    BY <1>4, <1>5
  <2>3. Publishes(p)'
    BY <1>2, <1>6, <1>8, <1>11, <1>12, <2>1, <2>2 DEF Publishes
  <2>4. QED BY <1>2, <1>6, <2>2, <2>3 DEF Stands
<1>15. Typed'
  BY <1>1, <1>2, <1>4, <1>6, <1>7, <1>12 DEF Typed
<1>16. QED BY <1>4, <1>9, <1>10, <1>13, <1>14, <1>15 DEF ImportInv

\* The intent loses its pending name.
LEMMA NameIntentKeeps ==
    ASSUME ImportInv, NEW p \in Proc, NameIntent(p)
    PROVE  ImportInv'
<1>1. Typed /\ LocksHeld /\ RegistryHolds /\ IntentsHold /\ HeadsHold /\ \A q \in Proc : Stands(q)
  BY DEF ImportInv
<1>2. /\ op[p].pc = "intent-linked" /\ Goto(p, "intent-created")
      /\ intents' = (intents \ OwnIntents(p)) \cup {Intent(p, 1)}
      /\ UNCHANGED <<disk, target, temp, side, reg, Locks, bundles, hist>>
  BY DEF NameIntent, At, Files
<1>3. op[p].pc \in Publishing /\ "intent-created" \in Publishing
  BY <1>2 DEF Publishing, Open
<1>4. /\ op' \in [Proc -> Doing] /\ LocksHeld'
      /\ mig' \in Proc \cup {None} /\ cfg' \in Proc \cup {None}
      /\ op'[p].pc = "intent-created" /\ op'[p].inode = op[p].inode /\ op'[p].bundle = op[p].bundle
      /\ \A q \in Proc \ {p} : Stands(q)'
      /\ Publishes(p) /\ op[p].bundle \in bundles
  BY <1>2, <1>3, GoesOn
<1>5. PICK n, b, i : n = op[p].inode /\ b = op[p].bundle /\ i = Intent(p, 1)
  OBVIOUS
<1>6. /\ n \in Inode /\ b \in bundles /\ i.inode = n /\ i.bundle = b /\ i \in IntentFile
  <2>1. op[p].inode \in Inode /\ op[p].bundle \in bundles
    BY <1>4 DEF Publishes
  <2>2. 1 \in 1..2
    OBVIOUS
  <2>3. QED BY <1>1, <1>5, <2>1, <2>2, IntentIsTyped
<1>7. SameHistory
  BY <1>1, <1>2, HistoryStays
<1>8. Inode' = Inode
  BY <1>2 DEF Inode
<1>9. RegistryHolds'
  BY <1>1, <1>2, <1>8, RegistryStays
<1>10. HeadsHold'
  <2>1. \A k \in Inode' : OfThePast(disk'[k])
    BY <1>1, <1>2, <1>8 DEF HeadsHold
  <2>2. QED BY <1>1, <1>2, <1>7, <2>1, HeadsStay DEF SameHistory
<1>11. /\ \A l \in Label : target[l] # n
       /\ reg[b.ns] = None /\ ~Collides(b) /\ ~Registered(n)
  BY <1>2, <1>4, <1>5 DEF Publishes, Open
<1>12. \A j \in intents' : j = i \/ (j \in intents /\ j.inode # n)
  BY <1>2, <1>5 DEF OwnIntents
<1>13. i \in intents' /\ \A j \in intents : j.inode # n => j \in intents'
  BY <1>2, <1>5 DEF OwnIntents
<1>14. IntentsHold'
  <2>1. NothingLeftBehind'
    BY <1>1, <1>2, <1>6, <1>13 DEF IntentsHold, NothingLeftBehind
  <2>2. QED BY <1>1, <1>2, <1>6, <1>8, <1>11, <1>12, <2>1 DEF IntentsHold
<1>15. Stands(p)'
  <2>1. ~Collides(b)' /\ ~Registered(n)'
    BY <1>2, <1>11, NamesStay
  <2>2. op'[p].pc = "intent-created" /\ op'[p].inode = n /\ op'[p].bundle = b
    BY <1>4, <1>5
  <2>3. Publishes(p)'
    BY <1>2, <1>6, <1>8, <1>11, <1>12, <1>13, <2>1, <2>2 DEF Publishes
  <2>4. QED BY <1>2, <1>6, <2>2, <2>3 DEF Stands
<1>16. Typed'
  BY <1>1, <1>2, <1>4, <1>6, <1>12 DEF Typed
<1>17. QED BY <1>4, <1>9, <1>10, <1>14, <1>15, <1>16 DEF ImportInv

\* The records go into a file no namespace has.
LEMMA StageKeeps ==
    ASSUME ImportInv, NEW p \in Proc, Stage(p)
    PROVE  ImportInv'
<1>1. Typed /\ LocksHeld /\ RegistryHolds /\ IntentsHold /\ HeadsHold /\ \A q \in Proc : Stands(q)
  BY DEF ImportInv
<1>2. /\ op[p].pc = "intent-created" /\ Goto(p, "staged")
      /\ UNCHANGED <<target, temp, side, intents, reg, Locks, bundles, hist>>
  BY DEF Stage, At
<1>3. op[p].pc \in Publishing /\ "staged" \in Publishing
  BY <1>2 DEF Publishing, Open
<1>4. /\ op' \in [Proc -> Doing] /\ LocksHeld'
      /\ mig' \in Proc \cup {None} /\ cfg' \in Proc \cup {None}
      /\ op'[p].pc = "staged" /\ op'[p].inode = op[p].inode /\ op'[p].bundle = op[p].bundle
      /\ \A q \in Proc \ {p} : Stands(q)'
      /\ Publishes(p) /\ op[p].bundle \in bundles
  BY <1>2, <1>3, GoesOn
<1>5. PICK n, b : n = op[p].inode /\ b = op[p].bundle
  OBVIOUS
<1> DEFINE d == [schema |-> TRUE, mems |-> b.mems, head |-> b.head, receipts |-> {b}]
<1>6. n \in Inode /\ b \in bundles /\ b \in Bundle
  BY <1>1, <1>4, <1>5 DEF Publishes, Typed
<1>7. d \in File /\ d.mems = b.mems /\ d.head = b.head
  BY <1>6 DEF File, Bundle
<1>8. disk' = [disk EXCEPT ![n] = d]
  BY <1>5 DEF Stage
<1> HIDE DEF d
<1>9. /\ disk' \in Seq(File) /\ Inode' = Inode
      /\ disk'[n] = d /\ \A k \in Inode \ {n} : disk'[k] = disk[k]
  BY <1>1, <1>6, <1>7, <1>8, EditedFile DEF Typed
<1>10. SameHistory
  BY <1>1, <1>2, HistoryStays
<1>11. RegistryHolds'
  BY <1>1, <1>2, <1>9, RegistryStays
<1>12. IntentsHold'
  BY <1>1, <1>2, <1>9, NamesStay, IntentsStay
<1>13. /\ \A l \in Label : target[l] # n
       /\ reg[b.ns] = None /\ ~Collides(b) /\ ~Registered(n)
       /\ \E i \in intents : i.inode = n
       /\ \A i \in intents : i.inode = n => i.bundle = b
  BY <1>2, <1>4, <1>5 DEF Publishes, Open
<1>14. HeadsHold'
  <2>1. OfThePast(d)
    BY <1>1, <1>6, <1>7 DEF HeadsHold, OfThePast
  <2>2. \A k \in Inode' : OfThePast(disk'[k])
    BY <1>1, <1>9, <2>1 DEF HeadsHold
  <2>3. QED BY <1>1, <1>2, <1>9, <1>10, <1>13, <2>2, HeadsStay DEF SameHistory
<1>15. Stands(p)'
  <2>1. ~Collides(b)' /\ ~Registered(n)'
    BY <1>2, <1>13, NamesStay
  <2>2. op'[p].pc = "staged" /\ op'[p].inode = n /\ op'[p].bundle = b
    BY <1>4, <1>5
  <2>3. Publishes(p)'
    BY <1>2, <1>6, <1>7, <1>9, <1>13, <2>1, <2>2 DEF Publishes
  <2>4. QED BY <1>2, <1>6, <2>2, <2>3 DEF Stands
<1>16. Typed'
  BY <1>1, <1>2, <1>4, <1>9 DEF Typed
<1>17. QED BY <1>4, <1>11, <1>12, <1>14, <1>15, <1>16 DEF ImportInv

\* The label gets its file.
LEMMA LinkKeeps ==
    ASSUME ImportInv, NEW p \in Proc, Link(p)
    PROVE  ImportInv'
<1>1. Typed /\ LocksHeld /\ RegistryHolds /\ IntentsHold /\ HeadsHold /\ \A q \in Proc : Stands(q)
  BY DEF ImportInv
<1>2. /\ op[p].pc = "staged" /\ Goto(p, "linked") /\ target[op[p].bundle.label] = None
      /\ target' = [target EXCEPT ![op[p].bundle.label] = op[p].inode]
      /\ UNCHANGED <<disk, temp, side, intents, reg, Locks, bundles, hist>>
  BY DEF Link, At
<1>3. op[p].pc \in Publishing /\ "linked" \in Publishing
  BY <1>2 DEF Publishing, Open
<1>4. /\ op' \in [Proc -> Doing] /\ LocksHeld'
      /\ mig' \in Proc \cup {None} /\ cfg' \in Proc \cup {None}
      /\ op'[p].pc = "linked" /\ op'[p].inode = op[p].inode /\ op'[p].bundle = op[p].bundle
      /\ \A q \in Proc \ {p} : Stands(q)'
      /\ Publishes(p) /\ op[p].bundle \in bundles
  BY <1>2, <1>3, GoesOn
<1>5. PICK n, b, t : n = op[p].inode /\ b = op[p].bundle /\ t = op[p].bundle.label
  OBVIOUS
<1>6. n \in Inode /\ b \in bundles /\ t \in Label /\ n \in Nat /\ n # None /\ t = b.label
  <2>1. Inode \subseteq Nat /\ b \in Bundle
    BY <1>1, <1>4, <1>5, InodesAreFiles DEF Typed
  <2>2. QED BY <1>4, <1>5, <2>1, NoneIsNothing DEF Publishes, Bundle
<1>7. /\ target' \in [Label -> Nat \cup {None}]
      /\ target'[t] = n /\ target[t] = None /\ \A l \in Label \ {t} : target'[l] = target[l]
  BY <1>1, <1>2, <1>5, <1>6 DEF Typed
<1>8. /\ \A l \in Label : target[l] # n
      /\ reg[b.ns] = None /\ ~Collides(b) /\ ~Registered(n)
      /\ \E i \in intents : i.inode = n
      /\ \A i \in intents : i.inode = n => i.bundle = b
      /\ disk[n].mems = b.mems /\ disk[n].head = b.head
  BY <1>2, <1>4, <1>5 DEF Publishes, Open
<1>9. SameHistory /\ Inode' = Inode
  BY <1>1, <1>2, HistoryStays DEF Inode
<1>10. \A ns \in Ns : reg[ns] # None => reg[ns].path \in Label \ {t}
  <2>1. SUFFICES ASSUME NEW ns \in Ns, reg[ns] # None PROVE reg[ns].path \in Label \ {t}
    OBVIOUS
  <2>2. reg[ns].path \in Label /\ reg[ns].inode # None
    BY <1>1, <2>1, NoneIsNothing DEF Typed, Row
  <2>3. QED BY <1>1, <1>7, <2>1, <2>2 DEF RegistryHolds, RegisteredHasItsFile
<1>11. RegistryHolds'
  <2>1. RegisteredHasItsFile'
    BY <1>1, <1>2, <1>7, <1>10 DEF RegistryHolds, RegisteredHasItsFile
  <2>2. \A l \in Label : target'[l] \in Inode \cup {None}
    BY <1>1, <1>6, <1>7 DEF RegistryHolds
  <2>3. \A k, l \in Label : target'[k] = target'[l] /\ target'[k] # None => k = l
    BY <1>1, <1>7, <1>8 DEF RegistryHolds
  <2>4. QED BY <1>1, <1>2, <1>9, <2>1, <2>2, <2>3 DEF RegistryHolds
<1>12. IntentsHold'
  <2>1. \A i \in intents, l \in Label : target'[l] = i.inode => l = i.bundle.label
    BY <1>1, <1>6, <1>7, <1>8 DEF IntentsHold
  <2>2. NothingLeftBehind'
    BY <1>1, <1>2, <1>7, <1>8 DEF IntentsHold, NothingLeftBehind
  <2>3. QED BY <1>1, <1>2, <1>9, <2>1, <2>2 DEF IntentsHold
<1>13. HeadsHold'
  <2>1. \A k \in Inode' : OfThePast(disk'[k])
    BY <1>1, <1>2, <1>9 DEF HeadsHold
  <2>2. QED BY <1>1, <1>2, <1>9, <2>1, HeadsStay DEF SameHistory
<1>14. Stands(p)'
  <2>1. ~Collides(b)' /\ ~Registered(n)'
    BY <1>2, <1>8, NamesStay
  <2>2. op'[p].pc = "linked" /\ op'[p].inode = n /\ op'[p].bundle = b
    BY <1>4, <1>5
  <2>3. Publishes(p)'
    BY <1>2, <1>6, <1>7, <1>8, <1>9, <2>1, <2>2 DEF Publishes
  <2>4. QED BY <1>2, <1>6, <2>2, <2>3 DEF Stands
<1>15. Typed'
  BY <1>1, <1>2, <1>4, <1>7 DEF Typed
<1>16. QED BY <1>4, <1>11, <1>12, <1>13, <1>14, <1>15 DEF ImportInv

\* Steps of a publication that only take its own names away: the private name,
\* the claimed sidecars, or both when it fails.
LEMMA TidyKeeps ==
    ASSUME ImportInv, NEW p \in Proc, op[p].pc \in Publishing, NEW x \in Publishing, Goto(p, x),
           UNCHANGED <<disk, target, intents, reg, Locks, bundles, hist>>,
           temp' \in {temp, temp \ {op[p].inode}}, side' \in {side, side \ {op[p].inode}},
           x \in Open <=> op[p].pc \in Open,
           x \in {"named", "closed", "failed"},
           x = "named" => op[p].pc = "linked" /\ temp' = temp \ {op[p].inode},
           x = "closed" => op[p].pc = "committed" /\ side' = side \ {op[p].inode},
           x = "failed" => temp' = temp \ {op[p].inode} /\ side' = side \ {op[p].inode}
    PROVE  ImportInv'
<1>1. Typed /\ LocksHeld /\ RegistryHolds /\ IntentsHold /\ HeadsHold /\ \A q \in Proc : Stands(q)
  BY DEF ImportInv
<1>2. /\ op' \in [Proc -> Doing] /\ LocksHeld'
      /\ mig' \in Proc \cup {None} /\ cfg' \in Proc \cup {None}
      /\ op'[p].pc = x /\ op'[p].inode = op[p].inode /\ op'[p].bundle = op[p].bundle
      /\ \A q \in Proc \ {p} : Stands(q)'
      /\ Publishes(p) /\ op[p].bundle \in bundles
  BY GoesOn
<1>3. SameHistory /\ Inode' = Inode
  BY <1>1, HistoryStays DEF Inode
<1>4. RegistryHolds'
  BY <1>1, <1>3, RegistryStays
<1>5. temp' \subseteq temp /\ side' \subseteq side
  OBVIOUS
<1>6. IntentsHold'
  BY <1>1, <1>3, <1>5, NamesStay, IntentsStay
<1>7. HeadsHold'
  <2>1. \A k \in Inode' : OfThePast(disk'[k])
    BY <1>1, <1>3 DEF HeadsHold
  <2>2. QED BY <1>1, <1>3, <2>1, HeadsStay DEF SameHistory
<1>8. PICK n, b : n = op[p].inode /\ b = op[p].bundle
  OBVIOUS
<1>9. /\ n \in Inode
      /\ \A l \in Label : target[l] = n => l = b.label
      /\ \A i \in intents : i.inode = n => i.bundle = b
      /\ x \in Open => reg[b.ns] = None /\ ~Collides(b) /\ ~Registered(n)
      /\ x = "named" => target[b.label] = n /\ disk[n].mems = b.mems /\ disk[n].head = b.head
      /\ x = "closed" => reg[b.ns] # None /\ reg[b.ns].inode = n /\ n \notin temp
  BY <1>2, <1>8 DEF Publishes
<1>10. x \in Open => ~Collides(b)' /\ ~Registered(n)'
  BY <1>9, NamesStay
<1>11. op'[p].pc = x /\ op'[p].inode = n /\ op'[p].bundle = b
  BY <1>2, <1>8
<1>12. Publishes(p)'
  BY <1>3, <1>5, <1>8, <1>9, <1>10, <1>11 DEF Publishes
<1>13. Stands(p)'
  BY <1>2, <1>8, <1>11, <1>12 DEF Stands, Publishing, Open
<1>14. Typed'
  BY <1>1, <1>2, <1>5 DEF Typed
<1>15. QED BY <1>2, <1>4, <1>6, <1>7, <1>13, <1>14 DEF ImportInv

\* The file loses its private name; its sidecars go; an import fails.
LEMMA NameCloseFailKeeps ==
    ASSUME ImportInv, NEW p \in Proc, Name(p) \/ CloseClaim(p) \/ Fail(p)
    PROVE  ImportInv'
<1>1. CASE Name(p)
  BY <1>1, TidyKeeps DEF Name, At, Publishing, Open
<1>2. CASE CloseClaim(p)
  BY <1>2, TidyKeeps DEF CloseClaim, At, Publishing, Open
<1>3. CASE Fail(p)
  BY <1>3, TidyKeeps DEF Fail, Publishing, Open
<1>4. QED BY <1>1, <1>2, <1>3

\* The registry's commit: the namespace's names are nobody else's.
LEMMA RegisterKeeps ==
    ASSUME ImportInv, NEW p \in Proc, Register(p)
    PROVE  ImportInv'
<1>1. Typed /\ LocksHeld /\ RegistryHolds /\ IntentsHold /\ HeadsHold /\ \A q \in Proc : Stands(q)
  BY DEF ImportInv
<1>2. /\ op[p].pc = "named" /\ Goto(p, "committed")
      /\ UNCHANGED <<disk, target, temp, side, intents, Locks, bundles, hist>>
  BY DEF Register, At, Files
<1>3. op[p].pc \in Publishing /\ "committed" \in Publishing
  BY <1>2 DEF Publishing, Open
<1>4. /\ op' \in [Proc -> Doing] /\ LocksHeld'
      /\ mig' \in Proc \cup {None} /\ cfg' \in Proc \cup {None}
      /\ op'[p].pc = "committed" /\ op'[p].inode = op[p].inode /\ op'[p].bundle = op[p].bundle
      /\ \A q \in Proc \ {p} : Stands(q)'
      /\ Publishes(p) /\ op[p].bundle \in bundles
  BY <1>2, <1>3, GoesOn
<1>5. PICK n, b, r : /\ n = op[p].inode /\ b = op[p].bundle
                     /\ r = [label |-> b.label, path |-> b.label, names |-> b.names, inode |-> n]
  OBVIOUS
<1>6. n \in Inode /\ n \in Nat /\ b \in bundles /\ b \in Bundle /\ b.ns \in Ns
  <2>1. Inode \subseteq Nat /\ b \in Bundle
    BY <1>1, <1>4, <1>5, InodesAreFiles DEF Typed
  <2>2. QED BY <1>4, <1>5, <2>1 DEF Publishes, Bundle
<1>7. /\ r \in Row /\ r # None /\ r.path = b.label /\ r.names = b.names /\ r.inode = n
  BY <1>5, <1>6, NoneIsNothing DEF Row, Bundle
<1>8. reg' = [reg EXCEPT ![b.ns] = r]
  BY <1>5 DEF Register
<1>9. /\ \A l \in Label : target[l] = n => l = b.label
      /\ \A i \in intents : i.inode = n => i.bundle = b
      /\ reg[b.ns] = None /\ ~Collides(b) /\ ~Registered(n)
      /\ target[b.label] = n /\ n \notin temp
  BY <1>2, <1>4, <1>5 DEF Publishes, Open
<1>10. reg' \in [Ns -> Row \cup {None}] /\ reg'[b.ns] = r /\ \A ns \in Ns \ {b.ns} : reg'[ns] = reg[ns]
  BY <1>1, <1>6, <1>7, <1>8 DEF Typed
<1>11. Inode' = Inode
  BY <1>2 DEF Inode
<1>12. \A ns \in Ns \ {b.ns} : reg[ns] # None => reg[ns].inode # n /\ reg[ns].names \cap b.names = {}
  BY <1>9 DEF Registered, Collides, NameOwner
<1>13. RegistryHolds'
  <2>1. RegisteredHasItsFile'
    BY <1>1, <1>2, <1>7, <1>9, <1>10, <1>12 DEF RegistryHolds, RegisteredHasItsFile
  <2>2. \A ns \in Ns : reg'[ns] # None => reg'[ns].inode \in Inode
    BY <1>1, <1>6, <1>7, <1>10 DEF RegistryHolds
  <2>3. \A ns \in Local : reg'[ns] # None => ns \in hist.minted
    BY <1>1, <1>6, <1>10, LocalNames DEF RegistryHolds
  <2>4. QED BY <1>1, <1>2, <1>11, <2>1, <2>2, <2>3 DEF RegistryHolds
<1>14. \A k : Registered(k) => Registered(k)'
  BY <1>9, <1>10 DEF Registered
<1>15. IntentsHold'
  BY <1>1, <1>2, <1>11, <1>14, IntentsStay
<1>16. HeadsHold'
  <2>1. hist.erased \subseteq Ns \X Mem
    BY <1>1 DEF Typed, History
  <2>2. \A x \in hist.erased : x[1] \in Ns \ {b.ns}
    BY <1>1, <1>9, <2>1 DEF HeadsHold
  <2>3. \A ns \in Ns \ {b.ns} : Db(ns)' = Db(ns)
    BY <1>2, <1>10 DEF Db
  <2>4. NoResurrection' /\ HeadsTellErasures'
    BY <1>1, <1>2, <1>10, <2>2, <2>3 DEF HeadsHold, NoResurrection, HeadsTellErasures
  <2>5. QED BY <1>1, <1>2, <1>10, <1>11, <2>2, <2>4 DEF HeadsHold, OfThePast
<1>17. Stands(p)'
  <2>1. op'[p].pc = "committed" /\ op'[p].inode = n /\ op'[p].bundle = b
    BY <1>4, <1>5
  <2>2. Publishes(p)'
    BY <1>2, <1>6, <1>7, <1>9, <1>10, <1>11, <2>1 DEF Publishes, Open
  <2>3. QED BY <1>2, <1>6, <2>1, <2>2 DEF Stands
<1>18. Typed'
  BY <1>1, <1>2, <1>4, <1>10 DEF Typed
<1>19. QED BY <1>4, <1>13, <1>15, <1>16, <1>17, <1>18 DEF ImportInv

\* The intent goes last, once its file is a namespace's or gone.
LEMMA DropIntentKeeps ==
    ASSUME ImportInv, NEW p \in Proc, DropIntent(p)
    PROVE  ImportInv'
<1>1. Typed /\ LocksHeld /\ RegistryHolds /\ IntentsHold /\ HeadsHold /\ \A q \in Proc : Stands(q)
  BY DEF ImportInv
<1>2. /\ op[p].pc \in {"closed", "withdrawn"} /\ Done(p)
      /\ intents' = intents \ OwnIntents(p)
      /\ UNCHANGED <<disk, target, temp, side, reg, bundles, hist>>
  BY DEF DropIntent, Files
<1>3. op[p].pc \in CfgPcs /\ op[p].pc \in Publishing /\ (op[p].pc = "withdrawn" => op[p].pc \in Open)
  BY <1>2 DEF CfgPcs, Publishing, Open
<1>4. /\ op' \in [Proc -> Doing] /\ LocksHeld'
      /\ mig' \in Proc \cup {None} /\ cfg' \in Proc \cup {None}
      /\ op'[p] = Idle /\ \A q \in Proc \ {p} : op'[q] = op[q]
  BY <1>1, <1>2, DoneReleases
<1>5. PICK n, b : n = op[p].inode /\ b = op[p].bundle
  OBVIOUS
<1>6. /\ n \notin temp /\ n \notin side
      /\ \/ \A l \in Label : target[l] # n
         \/ b.ns \in Ns /\ reg[b.ns] # None /\ reg[b.ns].inode = n
  <2>1. Publishes(p) /\ op[p].bundle \in bundles
    BY <1>1, <1>3 DEF Stands, Importing
  <2>2. op[p].bundle.ns \in Ns
    BY <1>1, <2>1 DEF Typed, Bundle
  <2>3. QED BY <1>2, <1>5, <2>1, <2>2 DEF Publishes
<1>7. \A i \in intents : i.inode # n => i \in intents'
  BY <1>2, <1>5 DEF OwnIntents
<1>8. SameHistory /\ Inode' = Inode
  BY <1>1, <1>2, HistoryStays DEF Inode
<1>9. RegistryHolds'
  BY <1>1, <1>2, <1>8, RegistryStays
<1>10. HeadsHold'
  <2>1. \A k \in Inode' : OfThePast(disk'[k])
    BY <1>1, <1>2, <1>8 DEF HeadsHold
  <2>2. QED BY <1>1, <1>2, <1>8, <2>1, HeadsStay DEF SameHistory
<1>11. IntentsHold'
  <2>1. NothingLeftBehind'
    <3>1. SUFFICES ASSUME NEW k \in hist.intended, ~ \E i \in intents' : i.inode = k
                   PROVE  /\ k \notin temp \cup side
                          /\ \A l \in Label : target[l] = k => \E ns \in Ns : reg[ns] # None /\ reg[ns].inode = k
      BY <1>2 DEF NothingLeftBehind
    <3>2. CASE k = n
      BY <1>6, <3>2
    <3>3. CASE k # n
      BY <1>1, <1>7, <3>1, <3>3 DEF IntentsHold, NothingLeftBehind
    <3>4. QED BY <3>2, <3>3
  <2>2. QED BY <1>1, <1>2, <1>8, <2>1 DEF IntentsHold
<1>12. \A q \in Proc : Stands(q)'
  <2>1. \A q \in Proc \ {p} : op[q].pc \notin CfgPcs
    BY <1>1, <1>3, OneWriter
  <2>2. QED BY <1>1, <1>2, <1>4, <2>1, IdleStands, OutsideStands
<1>13. Typed'
  BY <1>1, <1>2, <1>4 DEF Typed
<1>14. QED BY <1>4, <1>9, <1>10, <1>11, <1>12, <1>13 DEF ImportInv

\* A failed import takes its label back.
LEMMA WithdrawKeeps ==
    ASSUME ImportInv, NEW p \in Proc, Withdraw(p)
    PROVE  ImportInv'
<1>1. Typed /\ LocksHeld /\ RegistryHolds /\ IntentsHold /\ HeadsHold /\ \A q \in Proc : Stands(q)
  BY DEF ImportInv
<1>2. /\ op[p].pc = "failed" /\ Goto(p, "withdrawn") /\ target' = Withdrawn(p)
      /\ UNCHANGED <<disk, temp, side, intents, reg, Locks, bundles, hist>>
  BY DEF Withdraw, At
<1>3. op[p].pc \in Publishing /\ "withdrawn" \in Publishing
  BY <1>2 DEF Publishing, Open
<1>4. /\ op' \in [Proc -> Doing] /\ LocksHeld'
      /\ mig' \in Proc \cup {None} /\ cfg' \in Proc \cup {None}
      /\ op'[p].pc = "withdrawn" /\ op'[p].inode = op[p].inode /\ op'[p].bundle = op[p].bundle
      /\ \A q \in Proc \ {p} : Stands(q)'
      /\ Publishes(p) /\ op[p].bundle \in bundles
  BY <1>2, <1>3, GoesOn
<1>5. PICK n, b : n = op[p].inode /\ b = op[p].bundle
  OBVIOUS
<1>6. /\ n \in Inode /\ n # None
      /\ \A i \in intents : i.inode = n => i.bundle = b
      /\ reg[b.ns] = None /\ ~Collides(b) /\ ~Registered(n) /\ n \notin temp /\ n \notin side
  <2>1. Inode \subseteq Nat
    BY <1>1, InodesAreFiles DEF Typed
  <2>2. QED BY <1>2, <1>4, <1>5, <2>1, NoneIsNothing DEF Publishes, Open
<1>7. /\ target' \in [Label -> Nat \cup {None}]
      /\ \A l \in Label : target'[l] = IF target[l] = n THEN None ELSE target[l]
  BY <1>1, <1>2, <1>5 DEF Withdrawn, Typed
<1>8. \A ns \in Ns : reg[ns] # None => target'[reg[ns].path] = target[reg[ns].path]
  <2>1. \A ns \in Ns : reg[ns] # None =>
           reg[ns].path \in Label /\ target[reg[ns].path] = reg[ns].inode /\ reg[ns].inode # n
    BY <1>1, <1>6 DEF Typed, Row, Registered, RegistryHolds, RegisteredHasItsFile
  <2>2. QED BY <1>7, <2>1
<1>9. RegistryHolds' /\ IntentsHold'
  <2>1. \A l \in Label : target'[l] \in {target[l], None}
    BY <1>7
  <2>2. QED BY <1>1, <1>2, <1>7, <1>8, <2>1, UnlinkHolds DEF Typed
<1>10. SameHistory /\ Inode' = Inode
  BY <1>1, <1>2, HistoryStays DEF Inode
<1>11. HeadsHold'
  <2>1. \A k \in Inode' : OfThePast(disk'[k])
    BY <1>1, <1>2, <1>10 DEF HeadsHold
  <2>2. QED BY <1>1, <1>2, <1>10, <2>1, HeadsStay DEF SameHistory
<1>12. Stands(p)'
  <2>1. ~Collides(b)' /\ ~Registered(n)'
    BY <1>2, <1>6, NamesStay
  <2>2. op'[p].pc = "withdrawn" /\ op'[p].inode = n /\ op'[p].bundle = b
    BY <1>4, <1>5
  <2>3. \A l \in Label : target'[l] # n
    BY <1>6, <1>7
  <2>4. Publishes(p)'
    BY <1>2, <1>6, <1>10, <2>1, <2>2, <2>3 DEF Publishes
  <2>5. QED BY <1>2, <1>4, <2>2, <2>4 DEF Stands
<1>13. Typed'
  BY <1>1, <1>2, <1>4, <1>7 DEF Typed
<1>14. QED BY <1>4, <1>9, <1>11, <1>12, <1>13 DEF ImportInv

-----------------------------------------------------------------------------
(* Registration, and the rest of the program.                               *)

\* A registration's file has its label from the start.
LEMMA LinkFreshKeeps ==
    ASSUME ImportInv, NEW p \in Proc, NEW l \in Label, LinkFresh(p, l)
    PROVE  ImportInv'
<1> DEFINE o == [op[p] EXCEPT !.pc = "fresh", !.inode = New, !.sel = l]
<1>1. Typed /\ LocksHeld /\ RegistryHolds /\ IntentsHold /\ HeadsHold /\ \A q \in Proc : Stands(q)
  BY DEF ImportInv
<1>2. /\ op[p] = Idle /\ cfg = None /\ cfg' = p /\ op[p] \in Doing
      /\ NameOwner(l) = {} /\ target[l] = None
      /\ disk' = Append(disk, Blank) /\ target' = [target EXCEPT ![l] = New]
      /\ UNCHANGED <<temp, side, intents, reg, mig, bundles>>
  BY <1>1 DEF LinkFresh, Typed
<1>3. New \in Nat
  BY <1>1, <1>2, NewFile DEF Typed
<1>4. SameHistory
  BY <1>1, <1>3 DEF LinkFresh, Typed, History, SameHistory, SameCounts
<1>5. /\ disk' \in Seq(File) /\ New \notin Inode /\ Inode' = Inode \cup {New}
      /\ Inode \subseteq Nat /\ disk'[New] = Blank /\ ~Registered(New)
      /\ \A k \in Label : target[k] # New
      /\ HeadsHold'
  BY <1>1, <1>2, <1>4, NewFileHolds
<1>6. o \in Doing /\ o.pc = "fresh" /\ o.inode = New /\ o.sel = l
  BY <1>2, <1>3 DEF Doing, Pcs
<1>7. op' = [op EXCEPT ![p] = o]
  BY <1>1 DEF LinkFresh, Typed
<1> HIDE DEF o
<1>8. o.pc \notin MigPcs /\ o.pc \in CfgPcs /\ op[p].pc \notin MigPcs
  BY <1>2, <1>6, IdleIsTyped DEF MigPcs, CfgPcs, Publishing, Open
<1>9. /\ op' \in [Proc -> Doing] /\ LocksHeld'
      /\ op'[p] = o /\ \A q \in Proc \ {p} : op'[q] = op[q]
  <2>1. \A q \in Proc \ {p} : cfg' = q <=> cfg = q
    BY <1>2, NoneIsNothing
  <2>2. mig' # p
    BY <1>1, <1>2, <1>8 DEF LocksHeld
  <2>3. QED BY <1>1, <1>2, <1>6, <1>7, <1>8, <2>1, <2>2, Moves
<1>10. PICK n : n = New
  OBVIOUS
<1>11. /\ n \in Nat /\ n \notin Inode /\ n # None /\ target' = [target EXCEPT ![l] = n]
       /\ Inode' = Inode \cup {n} /\ \A k \in Label : target[k] # n
  BY <1>2, <1>3, <1>5, <1>10, NoneIsNothing
<1>12. /\ target' \in [Label -> Nat \cup {None}]
       /\ target'[l] = n /\ \A k \in Label \ {l} : target'[k] = target[k]
  BY <1>1, <1>11 DEF Typed
<1>13. \A ns \in Ns : reg[ns] # None => reg[ns].path \in Label \ {l}
  <2>1. SUFFICES ASSUME NEW ns \in Ns, reg[ns] # None PROVE reg[ns].path \in Label \ {l}
    OBVIOUS
  <2>2. reg[ns].path \in Label /\ reg[ns].inode # None
    BY <1>1, <2>1, NoneIsNothing DEF Typed, Row
  <2>3. QED BY <1>1, <1>2, <2>1, <2>2 DEF RegistryHolds, RegisteredHasItsFile
<1>14. RegistryHolds'
  <2>1. RegisteredHasItsFile'
    BY <1>1, <1>2, <1>12, <1>13 DEF RegistryHolds, RegisteredHasItsFile
  <2>2. \A k \in Label : target'[k] \in Inode' \cup {None}
    BY <1>1, <1>11, <1>12 DEF RegistryHolds
  <2>3. \A j, k \in Label : target'[j] = target'[k] /\ target'[j] # None => j = k
    BY <1>1, <1>11, <1>12 DEF RegistryHolds
  <2>4. \A ns \in Ns : reg'[ns] # None => reg'[ns].inode \in Inode'
    BY <1>1, <1>2, <1>11 DEF RegistryHolds
  <2>5. QED BY <1>1, <1>2, <1>4, <2>1, <2>2, <2>3, <2>4 DEF RegistryHolds, SameHistory
<1>15. IntentsHold'
  <2>1. \A i \in intents, k \in Label : target'[k] = i.inode => k = i.bundle.label
    BY <1>1, <1>11, <1>12 DEF IntentsHold
  <2>2. NothingLeftBehind'
    BY <1>1, <1>2, <1>4, <1>11, <1>12 DEF IntentsHold, NothingLeftBehind, SameHistory
  <2>3. QED BY <1>1, <1>2, <1>4, <1>11, <2>1, <2>2 DEF IntentsHold, SameHistory
<1>16. Stands(p)'
  <2>1. ~Registered(n)' /\ NameOwner(l)' = {}
    BY <1>2, <1>5, <1>10, NamesStay
  <2>2. disk'[n].mems = {} /\ disk'[n].head = 0
    BY <1>5, <1>10 DEF Blank
  <2>3. op'[p].pc = "fresh" /\ op'[p].inode = n /\ op'[p].sel = l
    BY <1>6, <1>9, <1>10
  <2>4. n \notin hist'.intended /\ \A i \in intents' : i.inode # n
    BY <1>1, <1>2, <1>4, <1>11 DEF IntentsHold, SameHistory
  <2>5. Registers(p)'
    BY <1>11, <1>12, <2>1, <2>2, <2>3, <2>4 DEF Registers
  <2>6. QED BY <2>3, <2>5 DEF Stands, Importing, Publishing, Open
<1>17. \A q \in Proc \ {p} : Stands(q)'
  BY <1>1, <1>2, <1>9, OneWriter, OutsideStands
<1>18. Typed'
  BY <1>1, <1>2, <1>4, <1>5, <1>9, <1>12 DEF Typed, SameHistory, SameCounts
<1>19. QED BY <1>5, <1>9, <1>14, <1>15, <1>16, <1>17, <1>18 DEF ImportInv

\* The registry's commit of a registration: a namespace nobody else mints.
LEMMA CommitFreshKeeps ==
    ASSUME ImportInv, NEW p \in Proc, NEW ns \in Local, CommitFresh(p, ns)
    PROVE  ImportInv'
<1>1. Typed /\ LocksHeld /\ RegistryHolds /\ IntentsHold /\ HeadsHold /\ \A q \in Proc : Stands(q)
  BY DEF ImportInv
<1>2. /\ op[p].pc = "fresh" /\ ns \in Local \ hist.minted /\ Done(p)
      /\ UNCHANGED <<disk, target, temp, side, intents, bundles>>
  BY DEF CommitFresh, At, Files
<1>3. PICK n, l, r : /\ n = op[p].inode /\ l = op[p].sel
                     /\ r = [label |-> l, path |-> l, names |-> {l}, inode |-> n]
  OBVIOUS
<1>4. /\ l \in Label /\ n \in Inode /\ target[l] = n /\ ~Registered(n)
      /\ disk[n].mems = {} /\ disk[n].head = 0 /\ NameOwner(l) = {}
  BY <1>1, <1>2, <1>3 DEF Stands, Registers
<1>5. ns \in Ns /\ n \in Nat /\ l \in Known
  BY <1>1, <1>4, InodesAreFiles, LocalNames DEF Typed
<1>6. r \in Row /\ r # None /\ r.path = l /\ r.names = {l} /\ r.inode = n
  BY <1>3, <1>4, <1>5, NoneIsNothing DEF Row
<1>7. reg' = [reg EXCEPT ![ns] = r]
  BY <1>3 DEF CommitFresh
<1>8. reg' \in [Ns -> Row \cup {None}] /\ reg'[ns] = r /\ \A k \in Ns \ {ns} : reg'[k] = reg[k]
  BY <1>1, <1>5, <1>6, <1>7 DEF Typed
<1>9. reg[ns] = None /\ \A b \in bundles : b.ns # ns
  BY <1>1, <1>2 DEF RegistryHolds
<1>10. /\ hist' \in History /\ hist'.minted = hist.minted \cup {ns}
       /\ hist'.erased = hist.erased /\ hist'.acts = hist.acts
       /\ hist'.seen = hist.seen /\ hist'.intended = hist.intended
  BY <1>1, <1>5 DEF CommitFresh, Typed, History
<1>11. Inode' = Inode
  BY <1>2 DEF Inode
<1>12. \A k \in Ns \ {ns} : reg[k] # None => reg[k].inode # n /\ reg[k].names \cap {l} = {}
  BY <1>4 DEF Registered, NameOwner
<1>13. RegistryHolds'
  <2>1. RegisteredHasItsFile'
    BY <1>1, <1>2, <1>4, <1>6, <1>8, <1>12 DEF RegistryHolds, RegisteredHasItsFile
  <2>2. \A k \in Ns : reg'[k] # None => reg'[k].inode \in Inode
    BY <1>1, <1>4, <1>6, <1>8 DEF RegistryHolds
  <2>3. \A k \in Local : reg'[k] # None => k \in hist'.minted
    BY <1>1, <1>8, <1>10, LocalNames DEF RegistryHolds
  <2>4. \A b \in bundles : b.ns \in Local => b.ns \in hist'.minted
    BY <1>1, <1>10 DEF RegistryHolds
  <2>5. QED BY <1>1, <1>2, <1>11, <2>1, <2>2, <2>3, <2>4 DEF RegistryHolds
<1>14. \A k : Registered(k) => Registered(k)'
  BY <1>8, <1>9 DEF Registered
<1>15. IntentsHold'
  BY <1>1, <1>2, <1>10, <1>11, <1>14, IntentsStay
<1>16. HeadsHold'
  <2>1. hist.erased \subseteq Ns \X Mem
    BY <1>1 DEF Typed, History
  <2>2. \A x \in hist.erased : x[1] \in Ns \ {ns}
    BY <1>1, <1>9, <2>1 DEF HeadsHold
  <2>3. \A k \in Ns \ {ns} : Db(k)' = Db(k)
    BY <1>2, <1>8 DEF Db
  <2>4. NoResurrection' /\ HeadsTellErasures'
    BY <1>1, <1>2, <1>8, <1>10, <2>2, <2>3 DEF HeadsHold, NoResurrection, HeadsTellErasures
  <2>5. QED BY <1>1, <1>2, <1>8, <1>10, <1>11, <2>2, <2>4 DEF HeadsHold, OfThePast
<1>17. /\ op' \in [Proc -> Doing] /\ LocksHeld'
       /\ mig' \in Proc \cup {None} /\ cfg' \in Proc \cup {None}
       /\ op'[p] = Idle /\ \A q \in Proc \ {p} : op'[q] = op[q]
  BY <1>1, <1>2, DoneReleases
<1>18. \A q \in Proc : Stands(q)'
  <2>1. \A q \in Proc \ {p} : op[q].pc \notin CfgPcs
    BY <1>1, <1>2, OneWriter DEF CfgPcs
  <2>2. QED BY <1>1, <1>2, <1>17, <2>1, IdleStands, OutsideStands
<1>19. Typed'
  BY <1>1, <1>2, <1>8, <1>10, <1>17 DEF Typed
<1>20. QED BY <1>13, <1>15, <1>16, <1>17, <1>18, <1>19 DEF ImportInv

\* Writing a namespace's file disturbs no publication: its file has no name yet.
LEMMA EditHolds ==
    ASSUME Typed, RegistryHolds, IntentsHold, NEW ns \in Ns, reg[ns] # None, NEW d \in File,
           disk' = [disk EXCEPT ![reg[ns].inode] = d], hist' \in History,
           UNCHANGED <<target, temp, side, intents, reg, bundles>>,
           hist'.minted = hist.minted, hist'.intended = hist.intended
    PROVE  /\ disk' \in Seq(File) /\ Inode' = Inode /\ RegistryHolds' /\ IntentsHold'
           /\ disk'[reg[ns].inode] = d
           /\ \A n \in Inode \ {reg[ns].inode} : disk'[n] = disk[n]
           /\ Db(ns)' = d /\ \A k \in Ns \ {ns} : reg[k] # None => Db(k)' = Db(k)
           /\ \A q \in Proc : Stands(q) /\ op'[q] = op[q] => Stands(q)'
<1>1. PICK n : n = reg[ns].inode
  OBVIOUS
<1>2. n \in Inode /\ Registered(n)
  BY <1>1 DEF RegistryHolds, Registered
<1>3. /\ disk' \in Seq(File) /\ Inode' = Inode
      /\ disk'[n] = d /\ \A k \in Inode \ {n} : disk'[k] = disk[k]
  BY <1>1, <1>2, EditedFile DEF Typed
<1>4. RegistryHolds'
  BY <1>3, RegistryStays
<1>5. IntentsHold'
  BY <1>3, NamesStay, IntentsStay
<1>6. Db(ns)' = d /\ \A k \in Ns \ {ns} : reg[k] # None => Db(k)' = Db(k)
  BY <1>1, <1>3 DEF Db, RegistryHolds, RegisteredHasItsFile
<1>7. ASSUME NEW q \in Proc, Stands(q), op'[q] = op[q] PROVE Stands(q)'
  <2>1. \A k : (Registered(k)' <=> Registered(k)) /\ NameOwner(k)' = NameOwner(k)
    BY NamesStay
  <2>2. \A b : Collides(b)' <=> Collides(b)
    BY NamesStay
  <2>3. Publishes(q) => Publishes(q)'
    <3>1. ASSUME Publishes(q), op[q].pc \in {"staged", "linked", "named"}
          PROVE  disk'[op[q].inode] = disk[op[q].inode]
      BY <1>2, <1>3, <3>1 DEF Publishes, Open
    <3>2. QED BY <1>3, <1>7, <2>1, <2>2, <3>1 DEF Publishes
  <2>4. Registers(q) => Registers(q)'
    BY <1>2, <1>3, <1>7, <2>1 DEF Registers
  <2>5. QED BY <1>7, <2>3, <2>4 DEF Stands
<1>8. QED BY <1>1, <1>3, <1>4, <1>5, <1>6, <1>7

\* Heads hold where a file keeps its head and gets back nothing erased.
LEMMA HeadsEdit ==
    ASSUME HeadsHold, Typed, NEW ns \in Ns, reg[ns] # None, NEW d,
           hist'.erased = hist.erased, hist'.acts = hist.acts, hist.seen \subseteq hist'.seen,
           UNCHANGED <<reg, bundles>>, Inode' = Inode, reg[ns].inode \in Inode,
           disk'[reg[ns].inode] = d, \A n \in Inode \ {reg[ns].inode} : disk'[n] = disk[n],
           Db(ns)' = d, \A k \in Ns \ {ns} : reg[k] # None => Db(k)' = Db(k),
           d.head = Db(ns).head, Ids(d.mems) \cap LocalMem \subseteq hist'.seen,
           \A x \in hist.erased : x[1] = ns => x[2] \notin Ids(d.mems)
    PROVE  HeadsHold'
<1>1. hist.erased \subseteq Ns \X Mem
  BY DEF Typed, History
<1>2. NoResurrection' /\ HeadsTellErasures'
  BY <1>1 DEF HeadsHold, NoResurrection, HeadsTellErasures
<1>3. OfThePast(d)'
  BY DEF HeadsHold, OfThePast, Db
<1>4. \A n \in Inode \ {reg[ns].inode} : OfThePast(disk[n])'
  BY DEF HeadsHold, OfThePast
<1>5. \A b \in bundles : OfThePast(b)'
  BY DEF HeadsHold, OfThePast
<1>6. \A n \in Inode' : OfThePast(disk[n])'
  BY <1>3, <1>4
<1>7. QED BY <1>1, <1>2, <1>5, <1>6 DEF HeadsHold

\* A bundle with the namespace's head brings what it lacks, nothing erased.
LEMMA WriteKeeps ==
    ASSUME ImportInv, NEW p \in Proc, Write(p)
    PROVE  ImportInv'
<1>1. Typed /\ LocksHeld /\ RegistryHolds /\ IntentsHold /\ HeadsHold /\ \A q \in Proc : Stands(q)
  BY DEF ImportInv
<1>2. /\ op[p].pc = "write" /\ Done(p)
      /\ UNCHANGED <<target, temp, side, intents, reg, bundles, hist>>
  BY DEF Write, At
<1>3. SameHistory
  BY <1>1, <1>2, HistoryStays
<1>4. CASE disk' = disk
  BY <1>2, <1>3, <1>4, EndKeeps
<1>5. CASE Acceptable(p) /\ disk' # disk
  <2>1. PICK b, ns, d : /\ b = op[p].bundle /\ ns = b.ns
                        /\ d = [Db(ns) EXCEPT !.mems = @ \cup b.mems, !.receipts = @ \cup {b}]
    OBVIOUS
  <2>2. b \in bundles /\ b \in Bundle /\ ns \in Ns /\ reg[ns] # None /\ Db(ns).head = b.head
    <3>1. b \in bundles /\ b \in Bundle
      BY <1>1, <1>2, <2>1 DEF Stands, Importing, Typed
    <3>2. QED BY <1>5, <2>1, <3>1 DEF Acceptable, Selected, Fits, Bundle
  <2>3. reg[ns].inode \in Inode /\ Db(ns) \in File
    BY <1>1, <2>2, InodesAreFiles DEF RegistryHolds, Typed, Db
  <2>4. disk' = [disk EXCEPT ![reg[ns].inode] = d]
    BY <1>5, <2>1 DEF Write, Db
  <2>5. d \in File /\ d.head = Db(ns).head /\ d.mems = Db(ns).mems \cup b.mems
    BY <2>1, <2>2, <2>3 DEF File, Bundle, Memories
  <2>6. /\ disk' \in Seq(File) /\ Inode' = Inode /\ RegistryHolds' /\ IntentsHold'
        /\ disk'[reg[ns].inode] = d
        /\ \A n \in Inode \ {reg[ns].inode} : disk'[n] = disk[n]
        /\ Db(ns)' = d /\ \A k \in Ns \ {ns} : reg[k] # None => Db(k)' = Db(k)
        /\ \A q \in Proc : Stands(q) /\ op'[q] = op[q] => Stands(q)'
    BY <1>1, <1>2, <1>3, <2>2, <2>4, <2>5, EditHolds DEF SameHistory, SameCounts
  <2>7. Ids(d.mems) = Ids(Db(ns).mems) \cup Ids(b.mems)
    BY <2>5 DEF Ids
  <2>8. Ids(d.mems) \cap LocalMem \subseteq hist.seen
    BY <1>1, <2>2, <2>3, <2>7 DEF HeadsHold, OfThePast, Db
  <2>9. \A x \in hist.erased : x[1] = ns => x[2] \notin Ids(d.mems)
    BY <1>1, <2>1, <2>2, <2>7 DEF HeadsHold, NoResurrection, HeadsTellErasures
  <2>10. HeadsHold'
    BY <1>1, <1>2, <2>2, <2>3, <2>5, <2>6, <2>8, <2>9, HeadsEdit
  <2>11. /\ op' \in [Proc -> Doing] /\ LocksHeld'
         /\ mig' \in Proc \cup {None} /\ cfg' \in Proc \cup {None}
         /\ op'[p] = Idle /\ \A q \in Proc \ {p} : op'[q] = op[q]
    BY <1>1, <1>2, DoneReleases
  <2>12. \A q \in Proc : Stands(q)'
    BY <1>1, <2>6, <2>11, IdleStands
  <2>13. Typed'
    BY <1>1, <1>2, <2>6, <2>11 DEF Typed
  <2>14. QED BY <2>6, <2>10, <2>11, <2>12, <2>13 DEF ImportInv
<1>6. QED BY <1>4, <1>5 DEF Write

\* What every writer of a namespace leaves alone.
LEMMA EditKeeps ==
    ASSUME ImportInv, NEW ns \in Ns, reg[ns] # None, NEW d \in File, Edit(ns, d), hist' \in History,
           hist'.minted = hist.minted, hist'.intended = hist.intended
    PROVE  /\ HeadsHold' => ImportInv'
           /\ Inode' = Inode /\ reg[ns].inode \in Inode
           /\ disk'[reg[ns].inode] = d /\ \A n \in Inode \ {reg[ns].inode} : disk'[n] = disk[n]
           /\ Db(ns)' = d /\ \A k \in Ns \ {ns} : reg[k] # None => Db(k)' = Db(k)
<1>1. Typed /\ LocksHeld /\ RegistryHolds /\ IntentsHold /\ HeadsHold /\ \A q \in Proc : Stands(q)
  BY DEF ImportInv
<1>2. /\ disk' = [disk EXCEPT ![reg[ns].inode] = d]
      /\ UNCHANGED <<target, temp, side, intents, reg, mig, cfg, op, bundles>>
  BY DEF Edit, Locks
<1>3. /\ disk' \in Seq(File) /\ Inode' = Inode /\ RegistryHolds' /\ IntentsHold'
      /\ disk'[reg[ns].inode] = d
      /\ \A n \in Inode \ {reg[ns].inode} : disk'[n] = disk[n]
      /\ Db(ns)' = d /\ \A k \in Ns \ {ns} : reg[k] # None => Db(k)' = Db(k)
      /\ \A q \in Proc : Stands(q) /\ op'[q] = op[q] => Stands(q)'
  BY <1>1, <1>2, EditHolds
<1>4. LocksHeld' /\ \A q \in Proc : Stands(q)'
  BY <1>1, <1>2, <1>3 DEF LocksHeld
<1>5. Typed'
  BY <1>1, <1>2, <1>3 DEF Typed
<1>6. QED BY <1>1, <1>3, <1>4, <1>5 DEF ImportInv, RegistryHolds

\* A new memory has a new id.
LEMMA ObserveKeeps ==
    ASSUME ImportInv, NEW ns \in Ns, NEW m \in Mem, Observe(ns, m)
    PROVE  ImportInv'
<1>1. Typed /\ RegistryHolds /\ HeadsHold
  BY DEF ImportInv
<1>2. PICK d : d = [Db(ns) EXCEPT !.schema = TRUE, !.mems = @ \cup {<<m, "open">>}]
  OBVIOUS
<1>3. reg[ns] # None /\ m \in LocalMem \ hist.seen /\ Edit(ns, d)
  BY <1>2 DEF Observe
<1>4. /\ hist' \in History /\ hist'.erased = hist.erased /\ hist'.acts = hist.acts
      /\ hist'.seen = hist.seen \cup {m} /\ hist'.minted = hist.minted /\ hist'.intended = hist.intended
  BY <1>1 DEF Observe, Typed, History
<1>5. Db(ns) \in File
  BY <1>1, <1>3, InodesAreFiles DEF RegistryHolds, Typed, Db
<1>6. d \in File /\ d.head = Db(ns).head /\ d.mems = Db(ns).mems \cup {<<m, "open">>}
  <2>1. PICK x : x = <<m, "open">>
    OBVIOUS
  <2>2. x \in Mem \X {"open", "closed"}
    BY <2>1
  <2>3. d = [Db(ns) EXCEPT !.schema = TRUE, !.mems = Db(ns).mems \cup {x}]
    BY <1>2, <2>1
  <2>4. d \in File /\ d.head = Db(ns).head /\ d.mems = Db(ns).mems \cup {x}
    BY <1>5, <2>2, <2>3 DEF File, Memories
  <2>5. QED BY <2>1, <2>4
<1>7. /\ HeadsHold' => ImportInv'
      /\ Inode' = Inode /\ reg[ns].inode \in Inode
      /\ disk'[reg[ns].inode] = d /\ \A n \in Inode \ {reg[ns].inode} : disk'[n] = disk[n]
      /\ Db(ns)' = d /\ \A k \in Ns \ {ns} : reg[k] # None => Db(k)' = Db(k)
  BY <1>3, <1>4, <1>6, EditKeeps
<1>8. Ids(d.mems) = Ids(Db(ns).mems) \cup {m}
  <2>1. PICK s : s = Db(ns).mems
    OBVIOUS
  <2>2. d.mems = s \cup {<<m, "open">>}
    BY <1>6, <2>1
  <2>3. <<m, "open">>[1] = m
    OBVIOUS
  <2>4. Ids(d.mems) = Ids(s) \cup {m}
    BY <2>2, <2>3 DEF Ids
  <2>5. QED BY <2>1, <2>4
<1>9. Ids(d.mems) \cap LocalMem \subseteq hist'.seen
  BY <1>1, <1>4, <1>7, <1>8 DEF HeadsHold, OfThePast, Db
<1>10. \A x \in hist.erased : x[1] = ns => x[2] \notin Ids(d.mems)
  BY <1>1, <1>3, <1>8 DEF HeadsHold, NoResurrection
<1>11. HeadsHold'
  BY <1>1, <1>3, <1>4, <1>6, <1>7, <1>9, <1>10, HeadsEdit DEF Edit
<1>12. QED BY <1>7, <1>11

\* Superseding a memory changes its row.
LEMMA SupersedeKeeps ==
    ASSUME ImportInv, NEW ns \in Ns, NEW m \in Mem, Supersede(ns, m)
    PROVE  ImportInv'
<1>1. Typed /\ RegistryHolds /\ HeadsHold
  BY DEF ImportInv
<1>2. PICK d : d = [Db(ns) EXCEPT !.mems = (@ \ {<<m, "open">>}) \cup {<<m, "closed">>}]
  OBVIOUS
<1>3. reg[ns] # None /\ <<m, "open">> \in Db(ns).mems /\ Edit(ns, d) /\ UNCHANGED hist
  BY <1>2 DEF Supersede
<1>4. hist' \in History
  BY <1>1, <1>3 DEF Typed
<1>5. Db(ns) \in File
  BY <1>1, <1>3, InodesAreFiles DEF RegistryHolds, Typed, Db
<1>6. d \in File /\ d.head = Db(ns).head /\ d.mems = (Db(ns).mems \ {<<m, "open">>}) \cup {<<m, "closed">>}
  BY <1>2, <1>5 DEF File, Memories
<1>7. /\ HeadsHold' => ImportInv'
      /\ Inode' = Inode /\ reg[ns].inode \in Inode
      /\ disk'[reg[ns].inode] = d /\ \A n \in Inode \ {reg[ns].inode} : disk'[n] = disk[n]
      /\ Db(ns)' = d /\ \A k \in Ns \ {ns} : reg[k] # None => Db(k)' = Db(k)
  BY <1>3, <1>4, <1>6, EditKeeps
<1>8. Ids(d.mems) \subseteq Ids(Db(ns).mems)
  <2>1. m \in Ids(Db(ns).mems)
    BY <1>3 DEF Ids
  <2>2. QED BY <1>6, <2>1 DEF Ids
<1>9. Ids(d.mems) \cap LocalMem \subseteq hist.seen
  BY <1>1, <1>7, <1>8 DEF HeadsHold, OfThePast, Db
<1>10. \A x \in hist.erased : x[1] = ns => x[2] \notin Ids(d.mems)
  BY <1>1, <1>3, <1>8 DEF HeadsHold, NoResurrection
<1>11. HeadsHold'
  BY <1>1, <1>3, <1>6, <1>7, <1>9, <1>10, HeadsEdit DEF Edit
<1>12. QED BY <1>7, <1>11

\* A purge rotates the head: no bundle that exists has the new one.
LEMMA PurgeKeeps ==
    ASSUME ImportInv, NEW ns \in Ns, NEW m \in Mem, Purge(ns, m)
    PROVE  ImportInv'
<1>1. Typed /\ RegistryHolds /\ HeadsHold
  BY DEF ImportInv
<1>2. PICK d, h, x : /\ d = [Db(ns) EXCEPT !.mems = {y \in @ : y[1] # m}, !.head = h]
                     /\ h = NextHead(ns) /\ x = <<ns, m>>
  OBVIOUS
<1>3. reg[ns] # None /\ m \in Ids(Db(ns).mems) /\ Edit(ns, d)
  BY <1>2 DEF Purge
<1>4. /\ hist.acts \in Nat /\ h = 100 + hist.acts /\ h \in Nat
      /\ x \in Ns \X Mem /\ x[1] = ns /\ x[2] = m
  BY <1>1, <1>2 DEF Typed, History, NextHead
<1>5. /\ hist' \in History /\ hist'.erased = hist.erased \cup {x} /\ hist'.acts = hist.acts + 1
      /\ hist'.seen = hist.seen /\ hist'.minted = hist.minted /\ hist'.intended = hist.intended
  <2>1. PICK k, e : k = hist.acts + 1 /\ e = hist.erased \cup {x}
    OBVIOUS
  <2>2. hist \in History /\ k \in Nat /\ e \in SUBSET (Ns \X Mem)
    BY <1>1, <1>4, <2>1 DEF Typed, History
  <2>3. hist' = [hist EXCEPT !.erased = e, !.acts = k]
    BY <1>2, <2>1 DEF Purge
  <2>4. QED BY <2>1, <2>2, <2>3 DEF History
<1>6. Db(ns) \in File
  BY <1>1, <1>3, InodesAreFiles DEF RegistryHolds, Typed, Db
<1>7. d \in File /\ d.head = h /\ d.mems = {y \in Db(ns).mems : y[1] # m}
  BY <1>2, <1>4, <1>6 DEF File, Memories
<1>8. /\ HeadsHold' => ImportInv'
      /\ Inode' = Inode /\ reg[ns].inode \in Inode
      /\ disk'[reg[ns].inode] = d /\ \A n \in Inode \ {reg[ns].inode} : disk'[n] = disk[n]
      /\ Db(ns)' = d /\ \A k \in Ns \ {ns} : reg[k] # None => Db(k)' = Db(k)
  BY <1>3, <1>5, <1>7, EditKeeps
<1>9. Ids(d.mems) \subseteq Ids(Db(ns).mems) /\ m \notin Ids(d.mems)
  BY <1>7 DEF Ids
<1>10. UNCHANGED <<reg, bundles>>
  BY <1>3 DEF Edit
<1>11. hist.erased \subseteq Ns \X Mem
  BY <1>1 DEF Typed, History
<1>12. NoResurrection'
  BY <1>1, <1>4, <1>5, <1>8, <1>9, <1>10, <1>11 DEF HeadsHold, NoResurrection
<1>13. \A b \in bundles : b.head # h
  <2>1. bundles \subseteq Bundle
    BY <1>1 DEF Typed
  <2>2. QED BY <1>1, <1>4, <2>1 DEF HeadsHold, OfThePast, Bundle
<1>14. HeadsTellErasures'
  BY <1>1, <1>4, <1>5, <1>7, <1>8, <1>10, <1>11, <1>13 DEF HeadsHold, HeadsTellErasures
<1>15. \A b \in bundles : OfThePast(b)'
  <2>1. bundles \subseteq Bundle
    BY <1>1 DEF Typed
  <2>2. QED BY <1>1, <1>4, <1>5, <2>1 DEF HeadsHold, OfThePast, Bundle
<1>16. OfThePast(d)'
  <2>1. Ids(d.mems) \cap LocalMem \subseteq hist.seen
    BY <1>1, <1>8, <1>9 DEF HeadsHold, OfThePast, Db
  <2>2. QED BY <1>4, <1>5, <1>7, <2>1 DEF OfThePast
<1>17. \A n \in Inode \ {reg[ns].inode} : OfThePast(disk[n])'
  <2>1. SUFFICES ASSUME NEW n \in Inode \ {reg[ns].inode} PROVE OfThePast(disk[n])'
    OBVIOUS
  <2>2. disk'[n] = disk[n] /\ disk[n] \in File /\ OfThePast(disk[n])
    BY <1>1, <1>8, InodesAreFiles DEF Typed, HeadsHold
  <2>3. QED BY <1>4, <1>5, <2>2 DEF OfThePast, File
<1>18. \A n \in Inode' : OfThePast(disk[n])'
  BY <1>8, <1>16, <1>17
<1>19. \A y \in hist'.erased : reg[y[1]] # None /\ (y[2] \in LocalMem => y[2] \in hist.seen)
  BY <1>1, <1>3, <1>4, <1>5, <1>8 DEF HeadsHold, OfThePast, Db
<1>20. HeadsHold'
  BY <1>5, <1>10, <1>12, <1>14, <1>15, <1>18, <1>19 DEF HeadsHold
<1>21. QED BY <1>8, <1>20

\* One act more, and what was of the past still is.
LEMMA ActKeepsThePast ==
    ASSUME Typed, HeadsHold, Act
    PROVE  /\ hist' \in History /\ hist'.acts = hist.acts + 1 /\ hist'.erased = hist.erased
           /\ hist'.seen = hist.seen /\ hist'.minted = hist.minted /\ hist'.intended = hist.intended
           /\ \A d : d.head \in Nat /\ OfThePast(d) => d.head < 100 + hist'.acts
<1>1. hist.acts \in Nat
  BY DEF Typed, History
<1>2. /\ hist' \in History /\ hist'.acts = hist.acts + 1 /\ hist'.erased = hist.erased
      /\ hist'.seen = hist.seen /\ hist'.minted = hist.minted /\ hist'.intended = hist.intended
  <2>1. PICK k : k = hist.acts + 1
    OBVIOUS
  <2>2. hist \in History /\ k \in Nat
    BY <1>1, <2>1 DEF Typed
  <2>3. hist' = [hist EXCEPT !.acts = k]
    BY <2>1 DEF Act
  <2>4. QED BY <2>1, <2>2, <2>3 DEF History
<1>3. QED BY <1>1, <1>2 DEF OfThePast

\* A rename takes a name nobody has, and no registration is about to take.
LEMMA RelabelKeeps ==
    ASSUME ImportInv, NEW ns \in Ns, NEW l \in Label, Relabel(ns, l)
    PROVE  ImportInv'
<1>1. Typed /\ LocksHeld /\ RegistryHolds /\ IntentsHold /\ HeadsHold /\ \A q \in Proc : Stands(q)
  BY DEF ImportInv
<1>2. /\ reg[ns] # None /\ mig = None
      /\ NameOwner(l) \subseteq {ns} /\ (target[l] = None \/ l = reg[ns].path)
      /\ Act /\ UNCHANGED <<disk, target, temp, side, intents, mig, cfg, op, bundles>>
  BY DEF Relabel, Files, Locks
<1>3. PICK r : r = [reg[ns] EXCEPT !.label = l, !.names = @ \cup {l}]
  OBVIOUS
<1>4. reg[ns] \in Row /\ l \in Known
  BY <1>1, <1>2, LocalNames DEF Typed
<1>5. /\ r \in Row /\ r # None /\ r.path = reg[ns].path /\ r.inode = reg[ns].inode
      /\ r.names = reg[ns].names \cup {l}
  <2>1. None \notin Row
    BY NoneIsNothing DEF Row
  <2>2. PICK w, v : w = reg[ns] /\ v = w.names \cup {l}
    OBVIOUS
  <2>3. w \in Row /\ v \in SUBSET Known
    BY <1>4, <2>2 DEF Row
  <2>4. r = [w EXCEPT !.label = l, !.names = v]
    BY <1>3, <2>2
  <2>5. r \in Row /\ r.path = w.path /\ r.inode = w.inode /\ r.names = v
    BY <2>3, <2>4 DEF Row
  <2>6. QED BY <2>1, <2>2, <2>5
<1>6. reg' = [reg EXCEPT ![ns] = r]
  BY <1>1, <1>3 DEF Relabel, Typed
<1>7. reg' \in [Ns -> Row \cup {None}] /\ reg'[ns] = r /\ \A k \in Ns \ {ns} : reg'[k] = reg[k]
  BY <1>1, <1>5, <1>6 DEF Typed
<1>8. /\ hist' \in History /\ hist'.acts = hist.acts + 1 /\ hist'.erased = hist.erased
      /\ hist'.seen = hist.seen /\ hist'.minted = hist.minted /\ hist'.intended = hist.intended
      /\ \A d : d.head \in Nat /\ OfThePast(d) => d.head < 100 + hist'.acts
  BY <1>1, <1>2, ActKeepsThePast
<1>9. Inode' = Inode
  BY <1>2 DEF Inode
<1>10. \A k \in Ns : (reg'[k] # None <=> reg[k] # None) /\ (reg[k] # None => reg'[k].inode = reg[k].inode /\ reg'[k].path = reg[k].path)
  BY <1>2, <1>5, <1>7
<1>11. \A k : Registered(k)' <=> Registered(k)
  BY <1>10 DEF Registered
<1>12. RegistryHolds'
  <2>1. \A k \in Ns \ {ns} : reg[k] # None => l \notin reg[k].names
    BY <1>2 DEF NameOwner
  <2>2. RegisteredHasItsFile'
    <3>1. SUFFICES ASSUME NEW k \in Ns, reg[k] # None
                   PROVE  /\ target[reg[k].path] = reg[k].inode
                          /\ \A j \in Ns \ {k} : reg[j] # None =>
                                reg[j].inode # reg[k].inode /\ reg'[j].names \cap reg'[k].names = {}
      BY <1>2, <1>10 DEF RegisteredHasItsFile
    <3>2. ASSUME NEW j \in Ns \ {k}, reg[j] # None
          PROVE  reg[j].inode # reg[k].inode /\ reg[j].names \cap reg[k].names = {}
      BY <1>1, <3>1, <3>2 DEF RegistryHolds, RegisteredHasItsFile
    <3>3. ASSUME NEW j \in Ns \ {k}, reg[j] # None
          PROVE  reg'[j].names \cap reg'[k].names = {}
      BY <1>5, <1>7, <2>1, <3>1, <3>2, <3>3
    <3>4. target[reg[k].path] = reg[k].inode
      BY <1>1, <3>1 DEF RegistryHolds, RegisteredHasItsFile
    <3>5. QED BY <3>2, <3>3, <3>4
  <2>3. QED BY <1>1, <1>2, <1>8, <1>9, <1>10, <2>2, LocalNames DEF RegistryHolds
<1>13. IntentsHold'
  BY <1>1, <1>2, <1>8, <1>9, <1>11, IntentsStay
<1>14. HeadsHold'
  <2>1. \A k \in Ns : reg[k] # None => Db(k)' = Db(k)
    BY <1>2, <1>10 DEF Db
  <2>2. hist.erased \subseteq Ns \X Mem /\ bundles \subseteq Bundle
    BY <1>1 DEF Typed, History
  <2>3. NoResurrection' /\ HeadsTellErasures'
    BY <1>1, <1>2, <1>8, <1>10, <2>1, <2>2 DEF HeadsHold, NoResurrection, HeadsTellErasures
  <2>4. \A b \in bundles : OfThePast(b)'
    BY <1>1, <1>8, <2>2 DEF HeadsHold, OfThePast, Bundle
  <2>5. \A n \in Inode : OfThePast(disk[n])'
    <3>1. \A n \in Inode : disk[n] \in File
      BY <1>1, InodesAreFiles DEF Typed
    <3>2. QED BY <1>1, <1>2, <1>8, <3>1 DEF HeadsHold, OfThePast, File
  <2>6. QED BY <1>1, <1>2, <1>8, <1>9, <1>10, <2>2, <2>3, <2>4, <2>5 DEF HeadsHold
<1>15. ASSUME NEW q \in Proc PROVE Stands(q)'
  <2>1. op[q].pc \notin Publishing
    BY <1>1, <1>2, OneWriter DEF MigPcs
  <2>2. ASSUME op[q].pc = "fresh" PROVE Registers(q)'
    <3>1. Registers(q)
      BY <1>1, <2>2 DEF Stands
    <3>2. op[q].sel # l
      <4>1. SUFFICES ASSUME op[q].sel = l PROVE FALSE
        OBVIOUS
      <4>2. target[l] = op[q].inode /\ op[q].inode \in Nat
        BY <1>1, <3>1, <4>1, InodesAreFiles DEF Registers, Typed
      <4>3. target[reg[ns].path] = reg[ns].inode
        BY <1>1, <1>2 DEF RegistryHolds, RegisteredHasItsFile
      <4>4. op[q].inode = reg[ns].inode
        BY <1>2, <4>2, <4>3, NoneIsNothing
      <4>5. QED BY <1>2, <3>1, <4>4 DEF Registers, Registered
    <3>3. PICK s : s = op[q].sel
      OBVIOUS
    <3>4. NameOwner(s)' = {}
      BY <1>2, <1>5, <1>7, <3>1, <3>2, <3>3 DEF Registers, NameOwner
    <3>5. QED BY <1>2, <1>8, <1>9, <1>11, <3>1, <3>3, <3>4 DEF Registers
  <2>3. QED BY <1>1, <1>2, <2>1, <2>2 DEF Stands
<1>16. LocksHeld' /\ Typed'
  BY <1>1, <1>2, <1>7, <1>8 DEF LocksHeld, Typed
<1>17. QED BY <1>12, <1>13, <1>14, <1>15, <1>16 DEF ImportInv

\* An export has its namespace's head and what that holds, nothing erased.
LEMMA ExportKeeps ==
    ASSUME ImportInv, NEW ns \in Ns, Export(ns)
    PROVE  ImportInv'
<1>1. Typed /\ LocksHeld /\ RegistryHolds /\ IntentsHold /\ HeadsHold /\ \A q \in Proc : Stands(q)
  BY DEF ImportInv
<1>2. PICK b : b = [ns |-> ns, label |-> reg[ns].label, names |-> reg[ns].names,
                    head |-> Db(ns).head, mems |-> Db(ns).mems]
  OBVIOUS
<1>3. /\ reg[ns] # None /\ mig = None /\ Act /\ bundles' = bundles \cup {b}
      /\ UNCHANGED <<disk, target, temp, side, intents, reg, mig, cfg, op>>
  BY <1>2 DEF Export, Files, Locks
<1>4. reg[ns] \in Row /\ Db(ns) \in File /\ reg[ns].inode \in Inode
  BY <1>1, <1>3, InodesAreFiles DEF RegistryHolds, Typed, Db
<1>5. b \in Bundle /\ b.ns = ns /\ b.head = Db(ns).head /\ b.mems = Db(ns).mems
  BY <1>2, <1>4 DEF Bundle, Row, File
<1>6. /\ hist' \in History /\ hist'.acts = hist.acts + 1 /\ hist'.erased = hist.erased
      /\ hist'.seen = hist.seen /\ hist'.minted = hist.minted /\ hist'.intended = hist.intended
      /\ \A d : d.head \in Nat /\ OfThePast(d) => d.head < 100 + hist'.acts
  BY <1>1, <1>3, ActKeepsThePast
<1>7. Inode' = Inode /\ \A k : Registered(k)' <=> Registered(k)
  BY <1>3, NamesStay DEF Inode
<1>8. RegistryHolds'
  <2>1. RegisteredHasItsFile'
    BY <1>1, <1>3 DEF RegistryHolds, RegisteredHasItsFile
  <2>2. \A c \in bundles' : c.ns \in Local => c.ns \in hist.minted
    BY <1>1, <1>3, <1>5 DEF RegistryHolds
  <2>3. QED BY <1>1, <1>3, <1>6, <1>7, <2>1, <2>2 DEF RegistryHolds
<1>9. IntentsHold'
  BY <1>1, <1>3, <1>6, <1>7, IntentsStay
<1>10. HeadsHold'
  <2>1. Db(ns)' = Db(ns) /\ \A k \in Ns : Db(k)' = Db(k)
    BY <1>3 DEF Db
  <2>2. hist.erased \subseteq Ns \X Mem /\ bundles \subseteq Bundle
    BY <1>1 DEF Typed, History
  <2>3. NoResurrection'
    BY <1>1, <1>3, <1>6, <2>1, <2>2 DEF HeadsHold, NoResurrection
  <2>4. \A x \in hist.erased : x[1] = ns => x[2] \notin Ids(b.mems)
    BY <1>1, <1>3, <1>5 DEF HeadsHold, NoResurrection
  <2>5. HeadsTellErasures'
    BY <1>1, <1>3, <1>5, <1>6, <2>1, <2>2, <2>4 DEF HeadsHold, HeadsTellErasures
  <2>6. OfThePast(b)
    BY <1>1, <1>4, <1>5 DEF HeadsHold, OfThePast, Db
  <2>7. \A c \in bundles' : c \in Bundle /\ OfThePast(c)
    BY <1>1, <1>3, <1>5, <2>2, <2>6 DEF HeadsHold
  <2>8. \A c \in bundles' : (c.head < 100 + hist'.acts) /\ Ids(c.mems) \cap LocalMem \subseteq hist'.seen
    BY <1>6, <2>7 DEF OfThePast, Bundle
  <2>9. \A n \in Inode : OfThePast(disk[n])'
    <3>1. \A n \in Inode : disk[n] \in File
      BY <1>1, InodesAreFiles DEF Typed
    <3>2. QED BY <1>1, <1>3, <1>6, <3>1 DEF HeadsHold, OfThePast, File
  <2>10. \A c \in bundles' : OfThePast(c)'
    BY <2>8 DEF OfThePast
  <2>11. QED BY <1>1, <1>3, <1>6, <1>7, <2>3, <2>5, <2>9, <2>10 DEF HeadsHold
<1>11. ASSUME NEW q \in Proc PROVE Stands(q)'
  <2>1. op[q].pc \notin Publishing
    BY <1>1, <1>3, OneWriter DEF MigPcs
  <2>2. ASSUME op[q].pc = "fresh" PROVE Registers(q)'
    <3>1. Registers(q)
      BY <1>1, <2>2 DEF Stands
    <3>2. PICK s : s = op[q].sel
      OBVIOUS
    <3>3. NameOwner(s)' = NameOwner(s)
      BY <1>3, NamesStay
    <3>4. QED BY <1>3, <1>6, <1>7, <3>1, <3>2, <3>3 DEF Registers
  <2>3. QED BY <1>1, <1>3, <2>1, <2>2 DEF Stands
<1>12. LocksHeld' /\ Typed'
  BY <1>1, <1>3, <1>5, <1>6 DEF LocksHeld, Typed
<1>13. QED BY <1>8, <1>9, <1>10, <1>11, <1>12 DEF ImportInv

\* A retirement takes the label with the rows: no process is at work on either.
LEMMA RetireKeeps ==
    ASSUME ImportInv, NEW ns \in Ns, Retire(ns)
    PROVE  ImportInv'
<1>1. Typed /\ LocksHeld /\ RegistryHolds /\ IntentsHold /\ HeadsHold /\ \A q \in Proc : Stands(q)
  BY DEF ImportInv
<1>2. PICK t, n : t = reg[ns].path /\ n = reg[ns].inode
  OBVIOUS
<1>3. /\ reg[ns] # None /\ mig = None /\ cfg = None
      /\ reg' = [reg EXCEPT ![ns] = None] /\ target' = [target EXCEPT ![t] = None]
      /\ UNCHANGED <<disk, temp, side, intents, mig, cfg, op, bundles>>
  BY <1>2 DEF Retire, Locks
<1>4. t \in Label /\ n \in Inode /\ n # None /\ target[t] = n
  <2>1. reg[ns].path \in Label /\ reg[ns].inode \in Nat
    BY <1>1, <1>3 DEF Typed, Row
  <2>2. QED BY <1>1, <1>2, <1>3, <2>1, NoneIsNothing DEF RegistryHolds, RegisteredHasItsFile
<1>5. /\ reg' \in [Ns -> Row \cup {None}] /\ reg'[ns] = None /\ \A k \in Ns \ {ns} : reg'[k] = reg[k]
      /\ target' \in [Label -> Nat \cup {None}] /\ target'[t] = None
      /\ \A l \in Label \ {t} : target'[l] = target[l]
  BY <1>1, <1>3, <1>4 DEF Typed
<1>6. /\ hist' \in History /\ hist'.erased = {x \in hist.erased : x[1] # ns} /\ hist'.acts = hist.acts + 1
      /\ hist'.seen = hist.seen /\ hist'.minted = hist.minted /\ hist'.intended = hist.intended
  <2>1. PICK k, e : k = hist.acts + 1 /\ e = {x \in hist.erased : x[1] # ns}
    OBVIOUS
  <2>2. hist \in History /\ k \in Nat /\ e \in SUBSET (Ns \X Mem)
    BY <1>1, <2>1 DEF Typed, History
  <2>3. hist' = [hist EXCEPT !.erased = e, !.acts = k]
    BY <2>1 DEF Retire
  <2>4. QED BY <2>1, <2>2, <2>3 DEF History
<1>7. Inode' = Inode
  BY <1>3 DEF Inode
<1>8. \A k \in Ns \ {ns} : reg[k] # None => reg[k].path \in Label \ {t}
  <2>1. SUFFICES ASSUME NEW k \in Ns \ {ns}, reg[k] # None PROVE reg[k].path \in Label \ {t}
    OBVIOUS
  <2>2. reg[k].path \in Label
    BY <1>1, <2>1 DEF Typed, Row
  <2>3. target[reg[k].path] = reg[k].inode /\ reg[k].inode # n
    BY <1>1, <1>2, <1>3, <2>1 DEF RegistryHolds, RegisteredHasItsFile
  <2>4. QED BY <1>4, <2>2, <2>3
<1>9. RegistryHolds'
  <2>1. RegisteredHasItsFile'
    BY <1>1, <1>5, <1>8 DEF RegistryHolds, RegisteredHasItsFile
  <2>2. /\ \A l \in Label : target'[l] \in Inode \cup {None}
        /\ \A k, l \in Label : target'[k] = target'[l] /\ target'[k] # None => k = l
    BY <1>1, <1>5 DEF RegistryHolds
  <2>3. /\ \A k \in Ns : reg'[k] # None => reg'[k].inode \in Inode
        /\ \A k \in Local : reg'[k] # None => k \in hist.minted
    BY <1>1, <1>5, LocalNames DEF RegistryHolds
  <2>4. QED BY <1>1, <1>3, <1>6, <1>7, <2>1, <2>2, <2>3 DEF RegistryHolds
<1>10. IntentsHold'
  <2>1. \A k \in Inode, l \in Label : target'[l] = k => l # t /\ target[l] = k
    <3>1. None \notin Inode
      BY <1>1, InodesAreFiles, NoneIsNothing DEF Typed
    <3>2. QED BY <1>5, <3>1
  <2>2. NothingLeftBehind'
    <3>1. SUFFICES ASSUME NEW k \in hist.intended, ~ \E i \in intents : i.inode = k
                   PROVE  /\ k \notin temp \cup side
                          /\ \A l \in Label : target'[l] = k => \E j \in Ns : reg'[j] # None /\ reg'[j].inode = k
      BY <1>3, <1>6 DEF NothingLeftBehind
    <3>2. /\ k \in Inode /\ k \notin temp \cup side
          /\ \A l \in Label : target[l] = k => \E j \in Ns : reg[j] # None /\ reg[j].inode = k
      BY <1>1, <3>1 DEF IntentsHold, NothingLeftBehind
    <3>3. ASSUME NEW l \in Label, target'[l] = k
          PROVE  \E j \in Ns : reg'[j] # None /\ reg'[j].inode = k
      <4>1. l # t /\ target[l] = k
        BY <2>1, <3>2, <3>3
      <4>2. k # n
        BY <1>1, <1>4, <4>1 DEF RegistryHolds
      <4>3. PICK j \in Ns : reg[j] # None /\ reg[j].inode = k
        BY <3>2, <4>1
      <4>4. j # ns
        BY <1>2, <4>2, <4>3
      <4>5. QED BY <1>5, <4>3, <4>4
    <3>4. QED BY <3>2, <3>3
  <2>3. QED BY <1>1, <1>3, <1>6, <1>7, <2>1, <2>2 DEF IntentsHold
<1>11. HeadsHold'
  <2>1. \A k \in Ns \ {ns} : Db(k)' = Db(k)
    BY <1>3, <1>5 DEF Db
  <2>2. hist.erased \subseteq Ns \X Mem /\ bundles \subseteq Bundle /\ hist.acts \in Nat
    BY <1>1 DEF Typed, History
  <2>3. NoResurrection' /\ HeadsTellErasures'
    BY <1>1, <1>3, <1>5, <1>6, <2>1, <2>2 DEF HeadsHold, NoResurrection, HeadsTellErasures
  <2>4. \A b \in bundles : OfThePast(b)'
    BY <1>1, <1>6, <2>2 DEF HeadsHold, OfThePast, Bundle
  <2>5. \A k \in Inode : OfThePast(disk[k])'
    <3>1. \A k \in Inode : disk[k] \in File
      BY <1>1, InodesAreFiles DEF Typed
    <3>2. QED BY <1>1, <1>3, <1>6, <2>2, <3>1 DEF HeadsHold, OfThePast, File
  <2>6. \A x \in hist'.erased : reg'[x[1]] # None /\ (x[2] \in LocalMem => x[2] \in hist.seen)
    BY <1>1, <1>5, <1>6, <2>2 DEF HeadsHold
  <2>7. QED BY <1>3, <1>6, <1>7, <2>3, <2>4, <2>5, <2>6 DEF HeadsHold
<1>12. \A q \in Proc : Stands(q)'
  <2>1. \A q \in Proc : op[q].pc \notin CfgPcs
    BY <1>1, <1>3, OneWriter
  <2>2. QED BY <1>1, <1>3, <2>1, OutsideStands
<1>13. LocksHeld' /\ Typed'
  BY <1>1, <1>3, <1>5, <1>6 DEF LocksHeld, Typed
<1>14. QED BY <1>9, <1>10, <1>11, <1>12, <1>13 DEF ImportInv

-----------------------------------------------------------------------------
(* The theorems.                                                            *)

\* An empty home, and the bundles of others.
LEMMA InitHolds ==
    ASSUME Init
    PROVE  ImportInv
<1>1. /\ disk = <<>> /\ target = [l \in Label |-> None] /\ temp = {} /\ side = {}
      /\ intents = {} /\ reg = [ns \in Ns |-> None] /\ mig = None /\ cfg = None
      /\ op = [p \in Proc |-> Idle] /\ bundles = Foreign
      /\ hist = [erased |-> {}, acts |-> 0, crashes |-> 0, minted |-> {}, seen |-> {},
                 intended |-> {}, registered |-> {}]
  BY DEF Init
<1>2. hist \in History /\ hist.erased = {} /\ hist.acts = 0 /\ hist.intended = {} /\ hist.seen = {}
  BY <1>1 DEF History
<1>3. /\ Foreign \subseteq Bundle
      /\ \A b \in Foreign : b.ns \notin Local /\ b.head < 100 /\ Ids(b.mems) \cap LocalMem = {}
  <2>1. SUFFICES ASSUME NEW b \in Foreign
                 PROVE  b \in Bundle /\ b.ns \notin Local /\ b.head < 100 /\ Ids(b.mems) \cap LocalMem = {}
    OBVIOUS
  <2>2. /\ b \in [ns : Ns \ Local, label : Label, names : SUBSET Known, head : 0..99,
                  mems : SUBSET ((Mem \ LocalMem) \X {"open", "closed"})]
    BY BundlesClosed
  <2>3. b.mems \subseteq (Mem \ LocalMem) \X {"open", "closed"} /\ b.head \in 0..99
    BY <2>2
  <2>4. b.head \in Nat /\ b.head < 100 /\ b.mems \in Memories
    BY <2>3 DEF Memories
  <2>5. Ids(b.mems) \cap LocalMem = {}
    BY <2>3 DEF Ids
  <2>6. b \in Bundle
    BY <2>2, <2>4 DEF Bundle
  <2>7. QED BY <2>2, <2>4, <2>5, <2>6
<1>4. disk \in Seq(File) /\ Inode = {}
  BY <1>1 DEF Inode
<1>5. Typed
  BY <1>1, <1>2, <1>3, <1>4, IdleIsTyped DEF Typed
<1>6. LocksHeld
  BY <1>1, IdleIsTyped, NoneIsNothing DEF LocksHeld
<1>7. RegistryHolds
  BY <1>1, <1>3, LocalNames DEF RegistryHolds, RegisteredHasItsFile
<1>8. IntentsHold
  BY <1>1, <1>2 DEF IntentsHold, NothingLeftBehind
<1>9. HeadsHold
  BY <1>1, <1>2, <1>3, <1>4 DEF HeadsHold, NoResurrection, HeadsTellErasures, OfThePast
<1>10. \A p \in Proc : Stands(p)
  BY <1>1, IdleIsTyped DEF Stands, CfgPcs, Importing
<1>11. QED BY <1>5, <1>6, <1>7, <1>8, <1>9, <1>10 DEF ImportInv

\* Nothing happens.
LEMMA StutterKeeps ==
    ASSUME ImportInv, UNCHANGED vars
    PROVE  ImportInv'
<1>1. Typed /\ LocksHeld /\ RegistryHolds /\ IntentsHold /\ HeadsHold /\ \A q \in Proc : Stands(q)
  BY DEF ImportInv
<1>2. UNCHANGED <<disk, target, temp, side, intents, reg, mig, cfg, op, bundles, hist>>
  BY DEF vars
<1>3. SameHistory
  BY <1>1, <1>2, HistoryStays
<1>4. RegistryHolds' /\ IntentsHold' /\ HeadsHold'
  BY <1>1, <1>2, <1>3, NothingWritten
<1>5. \A q \in Proc : Stands(q)'
  BY <1>1, <1>2, <1>3, StandsStill
<1>6. Typed' /\ LocksHeld'
  BY <1>1, <1>2 DEF Typed, LocksHeld
<1>7. QED BY <1>4, <1>5, <1>6 DEF ImportInv

\* Every step of every process, and of what runs around them.
LEMMA StepKeeps ==
    ASSUME ImportInv, [Next]_vars
    PROVE  ImportInv'
<1>1. ASSUME NEW p \in Proc, Step(p) PROVE ImportInv'
  <2>1. CASE \E b \in bundles : Start(p, b)
    BY <2>1, <1>1, StartKeeps
  <2>2. CASE RecoverRefused(p) \/ Crash(p)
    BY <2>2, <1>1, StopKeeps
  <2>3. CASE RecoverDone(p)
    BY <2>3, <1>1, RecoverDoneKeeps
  <2>4. CASE Look(p)
    BY <2>4, <1>1, LookKeeps
  <2>5. CASE \E i \in op[p].todo : RecoverTarget(p, i) \/ RecoverRest(p, i)
    BY <2>5, <1>1, RecoverTargetKeeps, RecoverRestKeeps
  <2>6. CASE Claim(p)
    BY <2>6, <1>1, ClaimKeeps
  <2>7. CASE LinkIntent(p)
    BY <2>7, <1>1, LinkIntentKeeps
  <2>8. CASE NameIntent(p)
    BY <2>8, <1>1, NameIntentKeeps
  <2>9. CASE Stage(p)
    BY <2>9, <1>1, StageKeeps
  <2>10. CASE Link(p)
    BY <2>10, <1>1, LinkKeeps
  <2>11. CASE Name(p) \/ CloseClaim(p) \/ Fail(p)
    BY <2>11, <1>1, NameCloseFailKeeps
  <2>12. CASE Register(p)
    BY <2>12, <1>1, RegisterKeeps
  <2>13. CASE DropIntent(p)
    BY <2>13, <1>1, DropIntentKeeps
  <2>14. CASE Withdraw(p)
    BY <2>14, <1>1, WithdrawKeeps
  <2>15. CASE Read(p)
    BY <2>15, <1>1, ReadKeeps
  <2>16. CASE Write(p)
    BY <2>16, <1>1, WriteKeeps
  <2>17. CASE \E l \in Label : LinkFresh(p, l)
    BY <2>17, <1>1, LinkFreshKeeps
  <2>18. CASE \E ns \in Local : CommitFresh(p, ns)
    BY <2>18, <1>1, CommitFreshKeeps
  <2>19. QED
    BY <1>1, <2>1, <2>2, <2>3, <2>4, <2>5, <2>6, <2>7, <2>8, <2>9, <2>10, <2>11, <2>12, <2>13,
       <2>14, <2>15, <2>16, <2>17, <2>18 DEF Step
<1>2. ASSUME NEW ns \in Ns, NEW m \in Mem, Observe(ns, m) \/ Supersede(ns, m) \/ Purge(ns, m)
      PROVE  ImportInv'
  BY <1>2, ObserveKeeps, SupersedeKeeps, PurgeKeeps
<1>3. ASSUME NEW ns \in Ns, NEW l \in Label, Relabel(ns, l) PROVE ImportInv'
  BY <1>3, RelabelKeeps
<1>4. ASSUME NEW ns \in Ns, Export(ns) \/ Retire(ns) PROVE ImportInv'
  BY <1>4, ExportKeeps, RetireKeeps
<1>5. CASE UNCHANGED vars
  BY <1>5, StutterKeeps
<1>6. QED BY <1>1, <1>2, <1>3, <1>4, <1>5 DEF Next

\* The inductive invariant: whatever processes do and wherever they die, and
\* whatever else the program runs meanwhile.
THEOREM ImportInvariant == Spec => []ImportInv
<1>1. Init => ImportInv
  BY InitHolds
<1>2. ImportInv /\ [Next]_vars => ImportInv'
  BY StepKeeps
<1>3. QED BY <1>1, <1>2, PTL DEF Spec

\* A registered namespace has its own file under its name, and no name or file
\* is shared.
THEOREM RegistryStaysBacked == Spec => []RegistryIsBacked
<1>1. ImportInv => RegistryIsBacked
  <2>1. SUFFICES ASSUME ImportInv PROVE TypeOK /\ RegisteredHasItsFile
    BY DEF RegistryIsBacked
  <2>2. Typed /\ LocksHeld /\ RegistryHolds /\ IntentsHold
    BY <2>1 DEF ImportInv
  <2>3. \A i \in intents : i.bundle \in bundles /\ i.inode \in Inode /\ i.links \in 1..2
    BY <2>2 DEF Typed, IntentFile, IntentsHold
  <2>4. \A ns \in Ns : reg[ns] # None => reg[ns].path \in Label /\ reg[ns].inode \in Inode
    BY <2>2 DEF Typed, Row, RegistryHolds
  <2>5. \A p \in {mig, cfg} \ {None} : op[p] # Idle
    BY <2>2, IdleIsTyped DEF Typed, LocksHeld
  <2>6. QED BY <2>2, <2>3, <2>4, <2>5 DEF TypeOK, RegistryHolds, IntentsHold
<1>2. QED BY <1>1, ImportInvariant, PTL

\* A purge's effect stays: no import brings back what was purged before.
THEOREM PurgedStaysPurged == Spec => []NoResurrection
<1>1. ImportInv => NoResurrection
  BY DEF ImportInv, HeadsHold
<1>2. QED BY <1>1, ImportInvariant, PTL

\* Every file of an import is a namespace's, gone, or named by an intent.
THEOREM NothingIsLeftBehind == Spec => []NothingLeftBehind
<1>1. ImportInv => NothingLeftBehind
  BY DEF ImportInv, IntentsHold
<1>2. QED BY <1>1, ImportInvariant, PTL

-----------------------------------------------------------------------------
(* The refinement of AtomicImport.                                          *)

\* What a registered namespace's own file holds.
Seen(ns) == IF reg[ns] = None THEN None ELSE [mems |-> Db(ns).mems, head |-> Db(ns).head]

\* Readers find every registered namespace, before and after a step.
LEMMA ShownIsSeen ==
    ASSUME ImportInv, ImportInv'
    PROVE  /\ Shown = [ns \in Ns |-> Seen(ns)] /\ Shown' = [ns \in Ns |-> Seen(ns)']
           /\ \A ns \in Ns : reg[ns] # None => Seen(ns) # None
<1>1. RegistryHolds /\ RegistryHolds' /\ Typed
  BY DEF ImportInv
<1>2. \A ns \in Ns : reg[ns] # None => target[reg[ns].path] = reg[ns].inode
  BY <1>1 DEF RegistryHolds, RegisteredHasItsFile
<1>3. \A ns \in Ns : reg'[ns] # None => target'[reg'[ns].path] = reg'[ns].inode
  BY <1>1 DEF RegistryHolds, RegisteredHasItsFile
<1>4. Shown = [ns \in Ns |-> Seen(ns)]
  BY <1>2 DEF Shown, Seen
<1>5. Shown' = [ns \in Ns |-> Seen(ns)']
  BY <1>3 DEF Shown, Seen
<1>6. ASSUME NEW ns \in Ns, reg[ns] # None PROVE Seen(ns) # None
  <2>1. Db(ns) \in File
    BY <1>1, <1>6, InodesAreFiles DEF RegistryHolds, Typed, Db
  <2>2. Seen(ns) \in [mems : Memories, head : Nat]
    BY <1>6, <2>1 DEF Seen, File
  <2>3. QED BY <2>2, NoneIsNothing DEF Memories
<1>7. QED BY <1>4, <1>5, <1>6

\* Nothing readers find changes.
LEMMA ShownStays ==
    ASSUME ImportInv, ImportInv', bundles' = bundles, \A ns \in Ns : Seen(ns)' = Seen(ns)
    PROVE  UNCHANGED <<Shown, bundles>>
  BY ShownIsSeen

\* One namespace's contents change.
LEMMA ShownChanges ==
    ASSUME ImportInv, ImportInv', NEW ns \in Ns, NEW v, Seen(ns)' = v,
           \A k \in Ns \ {ns} : Seen(k)' = Seen(k)
    PROVE  Shown' = [Shown EXCEPT ![ns] = v] /\ Shown[ns] = Seen(ns) /\ Shown'[ns] = v
  BY ShownIsSeen

\* Where the registry and its namespaces' files stay, readers find the same.
LEMMA SeenStays ==
    ASSUME RegistryHolds, \A n \in Inode : Registered(n) => disk'[n] = disk[n], reg' = reg
    PROVE  \A ns \in Ns : Seen(ns)' = Seen(ns)
  BY DEF Seen, Db, Registered, RegistryHolds

\* An import's publication shows in one step, the registry's commit.
LEMMA RegisterPublishes ==
    ASSUME ImportInv, ImportInv', NEW p \in Proc, Register(p)
    PROVE  \E b \in bundles : Promise!Publish(b)
<1>1. Typed /\ Stands(p)
  BY DEF ImportInv
<1>2. PICK n, b : n = op[p].inode /\ b = op[p].bundle
  OBVIOUS
<1>3. op[p].pc = "named" /\ UNCHANGED <<disk, bundles>>
  BY DEF Register, At, Files
<1>4. b \in bundles /\ Publishes(p)
  BY <1>1, <1>2, <1>3 DEF Stands, Importing, Publishing, Open
<1>5. reg[b.ns] = None /\ disk[n].mems = b.mems /\ disk[n].head = b.head
  BY <1>2, <1>3, <1>4 DEF Publishes, Open
<1>6. b \in Bundle /\ b.ns \in Ns /\ n \in Nat
  BY <1>1, <1>2, <1>4, InodesAreFiles DEF Typed, Bundle, Publishes
<1>7. PICK r : r = [label |-> b.label, path |-> b.label, names |-> b.names, inode |-> n]
  OBVIOUS
<1>8. r \in Row /\ r # None /\ r.inode = n
  BY <1>6, <1>7, NoneIsNothing DEF Row, Bundle
<1>9. reg'[b.ns] = r /\ \A k \in Ns \ {b.ns} : reg'[k] = reg[k]
  BY <1>1, <1>2, <1>6, <1>7 DEF Register, Typed
<1>10. Seen(b.ns)' = [mems |-> b.mems, head |-> b.head] /\ Seen(b.ns) = None
  BY <1>3, <1>5, <1>8, <1>9 DEF Seen, Db
<1>11. \A k \in Ns \ {b.ns} : Seen(k)' = Seen(k)
  BY <1>3, <1>9 DEF Seen, Db
<1>12. /\ Shown' = [Shown EXCEPT ![b.ns] = [mems |-> b.mems, head |-> b.head]]
       /\ Shown[b.ns] = None
  BY <1>6, <1>10, <1>11, ShownChanges
<1>13. QED BY <1>3, <1>4, <1>12 DEF Promise!Publish

\* A registration shows in one step too, and empty.
LEMMA CommitMints ==
    ASSUME ImportInv, ImportInv', NEW p \in Proc, NEW ns \in Local, CommitFresh(p, ns)
    PROVE  Promise!Mint(ns)
<1>1. Typed /\ Stands(p) /\ RegistryHolds
  BY DEF ImportInv
<1>2. op[p].pc = "fresh" /\ UNCHANGED <<disk, bundles>> /\ ns \in Local \ hist.minted
  BY DEF CommitFresh, At, Files
<1>3. PICK n, r : /\ n = op[p].inode
                  /\ r = [label |-> op[p].sel, path |-> op[p].sel, names |-> {op[p].sel}, inode |-> n]
  OBVIOUS
<1>4. op[p].sel \in Label /\ n \in Nat /\ disk[n].mems = {} /\ disk[n].head = 0
  BY <1>1, <1>2, <1>3, InodesAreFiles DEF Stands, Registers, Typed
<1>5. ns \in Ns /\ reg[ns] = None /\ r # None /\ r.inode = n
  BY <1>1, <1>2, <1>3, <1>4, LocalNames, NoneIsNothing DEF RegistryHolds
<1>6. reg'[ns] = r /\ \A k \in Ns \ {ns} : reg'[k] = reg[k]
  BY <1>1, <1>3, <1>5 DEF CommitFresh, Typed
<1>7. Seen(ns)' = [mems |-> {}, head |-> 0] /\ Seen(ns) = None
  BY <1>2, <1>4, <1>5, <1>6 DEF Seen, Db
<1>8. \A k \in Ns \ {ns} : Seen(k)' = Seen(k)
  BY <1>2, <1>6 DEF Seen, Db
<1>9. Shown' = [Shown EXCEPT ![ns] = [mems |-> {}, head |-> 0]] /\ Shown[ns] = None
  BY <1>5, <1>7, <1>8, ShownChanges
<1>10. QED BY <1>2, <1>9 DEF Promise!Mint

\* A write shows in the namespace whose file it is, and nowhere else.
LEMMA EditShows ==
    ASSUME ImportInv, ImportInv', NEW ns \in Ns, reg[ns] # None, reg' = reg,
           NEW d \in File, disk' = [disk EXCEPT ![reg[ns].inode] = d]
    PROVE  /\ Shown[ns] = [mems |-> Db(ns).mems, head |-> Db(ns).head] /\ Shown[ns] # None
           /\ Shown' = [Shown EXCEPT ![ns] = [mems |-> d.mems, head |-> d.head]]
           /\ Shown'[ns] = [mems |-> d.mems, head |-> d.head]
<1>1. Typed /\ RegistryHolds
  BY DEF ImportInv
<1>2. PICK n : n = reg[ns].inode
  OBVIOUS
<1>3. n \in Inode /\ \A k \in Ns \ {ns} : reg[k] # None => reg[k].inode \in Inode \ {n}
  BY <1>1, <1>2 DEF RegistryHolds, RegisteredHasItsFile
<1>4. disk'[n] = d /\ \A k \in Inode \ {n} : disk'[k] = disk[k]
  BY <1>1, <1>2, <1>3, EditedFile DEF Typed
<1>5. Seen(ns)' = [mems |-> d.mems, head |-> d.head] /\ \A k \in Ns \ {ns} : Seen(k)' = Seen(k)
  BY <1>2, <1>3, <1>4 DEF Seen, Db
<1>6. Seen(ns) = [mems |-> Db(ns).mems, head |-> Db(ns).head] /\ Seen(ns) # None
  BY ShownIsSeen DEF Seen
<1>7. QED BY <1>5, <1>6, ShownChanges

\* An update shows whole or not at all.
LEMMA WriteExtends ==
    ASSUME ImportInv, ImportInv', NEW p \in Proc, Write(p)
    PROVE  (\E b \in bundles : Promise!Extend(b)) \/ UNCHANGED <<Shown, bundles>>
<1>1. Typed /\ RegistryHolds /\ Stands(p)
  BY DEF ImportInv
<1>2. op[p].pc = "write" /\ UNCHANGED <<reg, bundles>>
  BY DEF Write, At
<1>3. CASE disk' = disk
  BY <1>1, <1>2, <1>3, SeenStays, ShownStays
<1>4. CASE Acceptable(p) /\ disk' # disk
  <2>1. PICK b, ns, d : /\ b = op[p].bundle /\ ns = b.ns
                        /\ d = [Db(ns) EXCEPT !.mems = @ \cup b.mems, !.receipts = @ \cup {b}]
    OBVIOUS
  <2>2. /\ b \in bundles /\ b \in Bundle /\ ns \in Ns
        /\ reg[ns] # None /\ Db(ns).head = b.head /\ Agree(Db(ns).mems, b.mems)
    <3>1. b \in bundles /\ b \in Bundle
      BY <1>1, <1>2, <2>1 DEF Stands, Importing, Typed
    <3>2. QED BY <1>4, <2>1, <3>1 DEF Acceptable, Selected, Fits, Bundle
  <2>3. Db(ns) \in File
    BY <1>1, <2>2, InodesAreFiles DEF RegistryHolds, Typed, Db
  <2>4. disk' = [disk EXCEPT ![reg[ns].inode] = d]
    BY <1>4, <2>1 DEF Write, Db
  <2>5. d \in File /\ d.head = Db(ns).head /\ d.mems = Db(ns).mems \cup b.mems
    BY <2>1, <2>2, <2>3 DEF File, Bundle, Memories
  <2>6. PICK v, w : v = [mems |-> Db(ns).mems, head |-> Db(ns).head]
                    /\ w = [mems |-> d.mems, head |-> d.head]
    OBVIOUS
  <2>7. Shown[ns] = v /\ Shown[ns] # None /\ Shown' = [Shown EXCEPT ![ns] = w]
    BY <1>2, <2>2, <2>4, <2>5, <2>6, EditShows
  <2>8. w = [v EXCEPT !.mems = v.mems \cup b.mems] /\ v.head = b.head /\ v.mems = Db(ns).mems
    BY <2>2, <2>5, <2>6
  <2>9. Shown' = [Shown EXCEPT ![ns].mems = @ \cup b.mems]
    BY <2>7, <2>8
  <2>10. Promise!Extend(b)
    BY <1>2, <2>1, <2>2, <2>7, <2>8, <2>9 DEF Promise!Extend, Promise!Agree, Agree
  <2>11. QED BY <2>2, <2>10
<1>5. QED BY <1>3, <1>4 DEF Write

\* The writers of a namespace are the abstract store's.
LEMMA ObserveShows ==
    ASSUME ImportInv, ImportInv', NEW ns \in Ns, NEW m \in Mem, Observe(ns, m)
    PROVE  Promise!Observe(ns, m)
<1>1. Typed /\ RegistryHolds /\ HeadsHold
  BY DEF ImportInv
<1>2. PICK d, x : /\ d = [Db(ns) EXCEPT !.schema = TRUE, !.mems = @ \cup {<<m, "open">>}]
                  /\ x = <<m, "open">>
  OBVIOUS
<1>3. /\ reg[ns] # None /\ m \in LocalMem \ hist.seen /\ reg' = reg /\ bundles' = bundles
      /\ disk' = [disk EXCEPT ![reg[ns].inode] = d]
  BY <1>2 DEF Observe, Edit
<1>4. Db(ns) \in File
  BY <1>1, <1>3, InodesAreFiles DEF RegistryHolds, Typed, Db
<1>5. d \in File /\ d.head = Db(ns).head /\ d.mems = Db(ns).mems \cup {x}
  <2>1. x \in Mem \X {"open", "closed"}
    BY <1>2
  <2>2. d = [Db(ns) EXCEPT !.schema = TRUE, !.mems = Db(ns).mems \cup {x}]
    BY <1>2
  <2>3. QED BY <1>4, <2>1, <2>2 DEF File, Memories
<1>6. m \notin Ids(Db(ns).mems)
  BY <1>1, <1>3 DEF HeadsHold, OfThePast, RegistryHolds, Db
<1>7. PICK v, w : v = [mems |-> Db(ns).mems, head |-> Db(ns).head]
                  /\ w = [mems |-> d.mems, head |-> d.head]
  OBVIOUS
<1>8. Shown[ns] = v /\ Shown[ns] # None /\ Shown' = [Shown EXCEPT ![ns] = w]
  BY <1>3, <1>5, <1>7, EditShows
<1>9. w = [v EXCEPT !.mems = v.mems \cup {x}] /\ v.mems = Db(ns).mems
  BY <1>5, <1>7
<1>10. Shown' = [Shown EXCEPT ![ns].mems = @ \cup {x}]
  BY <1>8, <1>9
<1>11. QED BY <1>2, <1>3, <1>6, <1>8, <1>9, <1>10 DEF Promise!Observe, Promise!Ids, Ids

\* Closing a memory, likewise.
LEMMA SupersedeShows ==
    ASSUME ImportInv, ImportInv', NEW ns \in Ns, NEW m \in Mem, Supersede(ns, m)
    PROVE  Promise!Supersede(ns, m)
<1>1. Typed /\ RegistryHolds
  BY DEF ImportInv
<1>2. PICK d, x, y : /\ d = [Db(ns) EXCEPT !.mems = (@ \ {<<m, "open">>}) \cup {<<m, "closed">>}]
                     /\ x = <<m, "open">> /\ y = <<m, "closed">>
  OBVIOUS
<1>3. /\ reg[ns] # None /\ x \in Db(ns).mems /\ reg' = reg /\ bundles' = bundles
      /\ disk' = [disk EXCEPT ![reg[ns].inode] = d]
  BY <1>2 DEF Supersede, Edit
<1>4. Db(ns) \in File
  BY <1>1, <1>3, InodesAreFiles DEF RegistryHolds, Typed, Db
<1>5. d \in File /\ d.head = Db(ns).head /\ d.mems = (Db(ns).mems \ {x}) \cup {y}
  <2>1. y \in Mem \X {"open", "closed"}
    BY <1>2
  <2>2. d = [Db(ns) EXCEPT !.mems = (Db(ns).mems \ {x}) \cup {y}]
    BY <1>2
  <2>3. QED BY <1>4, <2>1, <2>2 DEF File, Memories
<1>6. PICK v, w : v = [mems |-> Db(ns).mems, head |-> Db(ns).head]
                  /\ w = [mems |-> d.mems, head |-> d.head]
  OBVIOUS
<1>7. Shown[ns] = v /\ Shown[ns] # None /\ Shown' = [Shown EXCEPT ![ns] = w]
  BY <1>3, <1>5, <1>6, EditShows
<1>8. w = [v EXCEPT !.mems = (v.mems \ {x}) \cup {y}] /\ v.mems = Db(ns).mems
  BY <1>5, <1>6
<1>9. Shown' = [Shown EXCEPT ![ns].mems = (@ \ {x}) \cup {y}]
  BY <1>7, <1>8
<1>10. QED BY <1>2, <1>3, <1>7, <1>8, <1>9 DEF Promise!Supersede

\* A purge takes one memory and gives the namespace another head.
LEMMA PurgeShows ==
    ASSUME ImportInv, ImportInv', NEW ns \in Ns, NEW m \in Mem, Purge(ns, m)
    PROVE  Promise!Purge(ns, m)
<1>1. Typed /\ RegistryHolds /\ HeadsHold
  BY DEF ImportInv
<1>2. PICK d, h : /\ d = [Db(ns) EXCEPT !.mems = {y \in @ : y[1] # m}, !.head = h]
                  /\ h = NextHead(ns)
  OBVIOUS
<1>3. /\ reg[ns] # None /\ m \in Ids(Db(ns).mems) /\ reg' = reg /\ bundles' = bundles
      /\ disk' = [disk EXCEPT ![reg[ns].inode] = d]
  BY <1>2 DEF Purge, Edit
<1>4. Db(ns) \in File
  BY <1>1, <1>3, InodesAreFiles DEF RegistryHolds, Typed, Db
<1>5. h \in Nat /\ h # Db(ns).head
  <2>1. hist.acts \in Nat /\ h = 100 + hist.acts
    BY <1>1, <1>2 DEF Typed, History, NextHead
  <2>2. Db(ns).head < 100 + hist.acts /\ Db(ns).head \in Nat
    BY <1>1, <1>3, <1>4 DEF HeadsHold, OfThePast, RegistryHolds, Db, File
  <2>3. QED BY <2>1, <2>2
<1>6. d \in File /\ d.head = h /\ d.mems = {y \in Db(ns).mems : y[1] # m}
  BY <1>2, <1>4, <1>5 DEF File, Memories
<1>7. PICK v, w : v = [mems |-> Db(ns).mems, head |-> Db(ns).head]
                  /\ w = [mems |-> d.mems, head |-> d.head]
  OBVIOUS
<1>8. Shown[ns] = v /\ Shown[ns] # None /\ Shown' = [Shown EXCEPT ![ns] = w] /\ Shown'[ns] = w
  BY <1>3, <1>6, <1>7, EditShows
<1>9. /\ v.mems = Db(ns).mems /\ v.head = Db(ns).head
      /\ w = [mems |-> {y \in v.mems : y[1] # m}, head |-> w.head] /\ w.head # v.head
  BY <1>5, <1>6, <1>7
<1>10. Shown' = [Shown EXCEPT ![ns] = [mems |-> {y \in @.mems : y[1] # m}, head |-> w.head]]
  BY <1>8, <1>9
<1>11. QED BY <1>3, <1>8, <1>9, <1>10 DEF Promise!Purge, Promise!Ids, Ids

\* An export is a bundle of what a namespace shows.
LEMMA ExportShows ==
    ASSUME ImportInv, ImportInv', NEW ns \in Ns, Export(ns)
    PROVE  Promise!Export(ns)
<1>1. PICK b : b = [ns |-> ns, label |-> reg[ns].label, names |-> reg[ns].names,
                    head |-> Db(ns).head, mems |-> Db(ns).mems]
  OBVIOUS
<1>2. /\ reg[ns] # None /\ bundles' = bundles \cup {b} /\ UNCHANGED <<disk, reg>>
      /\ b.ns = ns /\ b.mems = Db(ns).mems /\ b.head = Db(ns).head
  BY <1>1 DEF Export, Files
<1>3. \A k \in Ns : Seen(k)' = Seen(k)
  BY <1>2 DEF Seen, Db
<1>4. PICK v : v = [mems |-> Db(ns).mems, head |-> Db(ns).head]
  OBVIOUS
<1>5. Shown[ns] = v /\ Shown[ns] # None /\ Shown' = Shown
  BY <1>2, <1>3, <1>4, ShownIsSeen DEF Seen
<1>6. v.mems = Db(ns).mems /\ v.head = Db(ns).head
  BY <1>4
<1>7. QED BY <1>2, <1>5, <1>6 DEF Promise!Export

\* A retirement takes one namespace away.
LEMMA RetireShows ==
    ASSUME ImportInv, ImportInv', NEW ns \in Ns, Retire(ns)
    PROVE  Promise!Retire(ns)
<1>1. reg[ns] # None /\ reg' = [reg EXCEPT ![ns] = None] /\ UNCHANGED <<disk, bundles>>
  BY DEF Retire
<1>2. reg'[ns] = None /\ \A k \in Ns \ {ns} : reg'[k] = reg[k]
  BY <1>1 DEF ImportInv, Typed
<1>3. Seen(ns)' = None /\ \A k \in Ns \ {ns} : Seen(k)' = Seen(k)
  BY <1>1, <1>2 DEF Seen, Db
<1>4. Shown' = [Shown EXCEPT ![ns] = None] /\ Shown[ns] = Seen(ns) /\ Seen(ns) # None
  BY <1>1, <1>3, ShownChanges, ShownIsSeen
<1>5. QED BY <1>1, <1>4 DEF Promise!Retire

\* A rename shows nothing: the namespace keeps its file.
LEMMA RelabelShowsNothing ==
    ASSUME ImportInv, ImportInv', NEW ns \in Ns, NEW l \in Label, Relabel(ns, l)
    PROVE  UNCHANGED <<Shown, bundles>>
<1>1. PICK w, r : w = reg[ns] /\ r = [w EXCEPT !.label = l, !.names = @ \cup {l}]
  OBVIOUS
<1>2. w \in Row /\ reg[ns] # None /\ UNCHANGED <<disk, bundles>>
  BY <1>1 DEF ImportInv, Typed, Relabel, Files
<1>3. reg' = [reg EXCEPT ![ns] = r]
  BY <1>1 DEF Relabel, ImportInv, Typed
<1>4. r \in [label : Label, path : Label, names : SUBSET (Known \cup {l}), inode : Nat] /\ r.inode = w.inode
  BY <1>1, <1>2 DEF Row
<1>5. reg'[ns] = r /\ \A k \in Ns \ {ns} : reg'[k] = reg[k]
  BY <1>3 DEF ImportInv, Typed
<1>6. r # None
  <2>1. r \in Row
    BY <1>1, <1>2, <1>4, LocalNames DEF Row
  <2>2. QED BY <2>1, NoneIsNothing DEF Row
<1>7. \A k \in Ns : Seen(k)' = Seen(k)
  BY <1>1, <1>2, <1>4, <1>5, <1>6 DEF Seen, Db
<1>8. QED BY <1>2, <1>7, ShownStays

\* A new file, and one that is staged, are no namespace's.
LEMMA FilesInTheMakingShowNothing ==
    ASSUME ImportInv, ImportInv', NEW p \in Proc,
           Claim(p) \/ (\E l \in Label : LinkFresh(p, l)) \/ Stage(p)
    PROVE  UNCHANGED <<Shown, bundles>>
<1>1. Typed /\ RegistryHolds /\ Stands(p)
  BY DEF ImportInv
<1>2. reg' = reg /\ bundles' = bundles
  BY DEF Claim, LinkFresh, Stage
<1>3. CASE disk' = Append(disk, Blank)
  BY <1>1, <1>2, <1>3, NewFile, SeenStays, ShownStays DEF Typed
<1>4. CASE disk' = disk
  BY <1>1, <1>2, <1>4, SeenStays, ShownStays
<1>5. CASE Stage(p)
  <2>1. PICK n, d : /\ n = op[p].inode /\ disk' = [disk EXCEPT ![n] = d]
    BY <1>5 DEF Stage
  <2>2. ~Registered(n)
    BY <1>1, <1>5, <2>1 DEF Stage, At, Stands, Publishes, Publishing, Open
  <2>3. \A k \in Inode : Registered(k) => disk'[k] = disk[k]
    BY <2>1, <2>2 DEF Inode
  <2>4. QED BY <1>1, <1>2, <2>3, SeenStays, ShownStays
<1>6. QED BY <1>3, <1>4, <1>5 DEF Claim, LinkFresh

\* The steps of recovery, publication and failure in between show nothing.
LEMMA TheRestShowsNothing ==
    ASSUME ImportInv, ImportInv', UNCHANGED <<disk, reg, bundles>>
    PROVE  UNCHANGED <<Shown, bundles>>
<1>1. RegistryHolds
  BY DEF ImportInv
<1>2. QED BY <1>1, SeenStays, ShownStays

\* Every step is one of the abstract store's, or shows nothing.
LEMMA StepShows ==
    ASSUME ImportInv, ImportInv', [Next]_vars
    PROVE  [Promise!Next]_<<Shown, bundles>>
<1>1. ASSUME NEW p \in Proc, Step(p) PROVE [Promise!Next]_<<Shown, bundles>>
  <2>1. CASE Register(p)
    BY <2>1, RegisterPublishes DEF Promise!Next
  <2>2. CASE Write(p)
    BY <2>2, WriteExtends DEF Promise!Next
  <2>3. CASE \E ns \in Local : CommitFresh(p, ns)
    BY <2>3, CommitMints, LocalNames DEF Promise!Next
  <2>4. CASE Claim(p) \/ (\E l \in Label : LinkFresh(p, l)) \/ Stage(p)
    BY <2>4, FilesInTheMakingShowNothing
  <2>5. CASE \/ \E b \in bundles : Start(p, b)
             \/ RecoverRefused(p) \/ RecoverDone(p) \/ Look(p)
             \/ \E i \in op[p].todo : RecoverTarget(p, i) \/ RecoverRest(p, i)
    BY <2>5, TheRestShowsNothing
       DEF Start, RecoverRefused, RecoverDone, Look, RecoverTarget, RecoverRest, Files
  <2>6. CASE \/ LinkIntent(p) \/ NameIntent(p) \/ Link(p) \/ Name(p)
             \/ CloseClaim(p) \/ DropIntent(p) \/ Fail(p) \/ Withdraw(p) \/ Read(p) \/ Crash(p)
    BY <2>6, TheRestShowsNothing
       DEF LinkIntent, NameIntent, Link, Name, CloseClaim, DropIntent, Fail, Withdraw, Read, Crash, Files
  <2>7. QED BY <1>1, <2>1, <2>2, <2>3, <2>4, <2>5, <2>6 DEF Step
<1>2. ASSUME NEW ns \in Ns, NEW m \in Mem, Observe(ns, m) \/ Supersede(ns, m) \/ Purge(ns, m)
      PROVE  [Promise!Next]_<<Shown, bundles>>
  BY <1>2, ObserveShows, SupersedeShows, PurgeShows DEF Promise!Next
<1>3. ASSUME NEW ns \in Ns, NEW l \in Label, Relabel(ns, l)
      PROVE  [Promise!Next]_<<Shown, bundles>>
  BY <1>3, RelabelShowsNothing
<1>4. ASSUME NEW ns \in Ns, Export(ns) \/ Retire(ns)
      PROVE  [Promise!Next]_<<Shown, bundles>>
  BY <1>4, ExportShows, RetireShows DEF Promise!Next
<1>5. CASE UNCHANGED vars
  BY <1>5, TheRestShowsNothing DEF vars
<1>6. QED BY <1>1, <1>2, <1>3, <1>4, <1>5 DEF Next

\* docs/EXPORT_FORMAT.md's promise: with the registered names for its state,
\* the code's steps are those of a store in which namespaces appear whole.
THEOREM ImportRefines == Spec => ImportIsAtomic
<1>1. Init => Promise!Init
  BY DEF Init, Promise!Init, Shown
<1>2. ImportInv /\ ImportInv' /\ [Next]_vars => [Promise!Next]_<<Shown, bundles>>
  BY StepShows
<1>3. QED BY <1>1, <1>2, ImportInvariant, PTL DEF Spec, ImportIsAtomic, Promise!Spec
=============================================================================
