----------------------- MODULE NamespaceContentProofs ------------------------
(***************************************************************************)
(* Proofs about NamespaceContent for every set of processes, namespaces and *)
(* memories, any capture policy and any bounds.                             *)
(*                                                                         *)
(* Three things have to be said beside the properties.  The migration lock  *)
(* has one holder, so that what a holder read stays true of what only       *)
(* holders change: backups, exports and the registration of its namespaces. *)
(* Between retirement's last look and the removal of the file, every row of *)
(* the source is in the target too, or was written or purged since.  And    *)
(* during a sweep every backup that it has been at neither holds the memory *)
(* nor answers with the head of a bundle that does.                         *)
(* Corrections have an invariant of their own on top of it: every one would *)
(* still stand without the files that are gone, and without the one that a  *)
(* retirement is about to unlink.                                           *)
(***************************************************************************)
EXTENDS NamespaceContent, TLAPS

-----------------------------------------------------------------------------
(* Shapes.                                                                  *)

Row == [id : Mem, state : {"open", "closed"}, index : {"job", "vector", "out"}]
Content == [rows : SUBSET Row, head : Nat]
Backup == [id : Nat, of : Ns, rows : SUBSET Row, head : Nat, sound : BOOLEAN]
Bundle == [ids : SUBSET Mem, head : Nat, of : Ns]

Locked == {"merge", "deregister", "look", "unlink", "sweep"}
Retiring == {"deregister", "look", "unlink"}
Pcs == {"idle", "planned", "purged"} \cup Locked

Doing == [pc : Pcs, src : Ns \cup {None}, dst : Ns \cup {None}, seen : {None} \cup (Content \X Content),
          mem : Mem \cup {None}, todo : SUBSET (Content \cup Nat), left : SUBSET Nat]

History == [seen : SUBSET Mem, late : SUBSET Mem, closed : SUBSET Mem, purged : SUBSET (Ns \X Mem), clean : SUBSET Mem,
            exports : SUBSET Bundle, heads : Nat, files : Nat, faults : Nat]

Typed ==
    /\ live \in [Ns -> Content] /\ reg \subseteq Ns /\ gone \subseteq Ns
    /\ backups \subseteq Backup
    /\ mig \in Proc \cup {None}
    /\ op \in [Proc -> Doing]
    /\ hist \in History

-----------------------------------------------------------------------------
(* The invariant.                                                           *)

\* The migration lock is its holder's for as long as the holder needs it.
LockIsHeld == \A p \in Proc : mig = p <=> op[p].pc \in Locked

IdsUnique(d) == \A r, q \in d.rows : r.id = q.id => r = q

\* What may stand in a database: ids once, the policy kept, all of it observed.
Proper(d, seen) ==
    /\ IdsUnique(d)
    /\ \A r \in d.rows : r.index = "out" <=> r.id \in Excluded
    /\ Ids(d.rows) \subseteq seen

\* A bundle that still answers with a database's head was made of rows that
\* are all still there.
HeadsTellPurges ==
    /\ \A ns \in Ns : live[ns].head <= hist.heads
    /\ \A x \in hist.exports :
          /\ x.head <= hist.heads
          /\ x.head = live[x.of].head => x.ids \subseteq Ids(live[x.of].rows)

DatabasesHold ==
    /\ reg \cap gone = {}
    /\ \A ns \in Ns : Proper(live[ns], hist.seen)
    /\ HeadsTellPurges
    /\ hist.clean \subseteq hist.seen
    /\ NoRowLost

BackupsHold ==
    /\ \A b, c \in backups : b.id = c.id => b = c
    /\ \A b \in backups : b.id < hist.files /\ IdsUnique(b)
    /\ NoCopySurvives
    /\ RestoredBackupRefuses

WasPurged(m) == \E ns \in Ns : <<ns, m>> \in hist.purged

\* A row of a namespace about to be unlinked is in the target, or it came or
\* went after the last look.
Covered(s, t) ==
    \A m \in Ids(live[s].rows) :
        m \in Ids(live[t].rows) \/ (m \notin hist.clean /\ (m \in hist.late \/ WasPurged(m)))

\* A backup that neither holds m nor lets it back in.
Rid(b, m) ==
    /\ m \notin Ids(b.rows)
    /\ \A x \in hist.exports : m \in x.ids /\ b.of = x.of => b.head # x.head

\* What a process may rely on where it stands.
Stands(p) ==
    /\ op[p].pc \in {"planned", "merge"} \cup Retiring =>
          op[p].src \in Ns /\ op[p].dst \in Ns /\ op[p].src # op[p].dst
    /\ op[p].pc \in {"merge"} \cup Retiring => op[p].dst \in reg
    /\ op[p].pc = "merge" =>
          \E d \in op[p].todo : op[p].todo = {d} /\ d \in Content /\ Proper(d, hist.seen)
    /\ op[p].pc \in {"look", "unlink"} => op[p].src \notin reg
    /\ op[p].pc = "unlink" => Covered(op[p].src, op[p].dst)
    /\ op[p].pc \in {"purged", "sweep"} => op[p].mem \in hist.seen
    /\ op[p].pc = "purged" => op[p].left = {}
    /\ op[p].pc = "sweep" =>
          \A b \in backups : b.id \in op[p].todo \cup op[p].left \/ Rid(b, op[p].mem)

ContentInv ==
    /\ Typed
    /\ LockIsHeld
    /\ DatabasesHold
    /\ BackupsHold
    /\ \A p \in Proc : Stands(p)

-----------------------------------------------------------------------------
(* The lock and the processes.                                              *)

\* While one process is where the lock is needed, no other one is.
LEMMA OneHolder ==
    ASSUME Typed, LockIsHeld, NEW p \in Proc
    PROVE  /\ mig = None => \A q \in Proc : op[q].pc \notin Locked
           /\ op[p].pc \in Locked => mig = p /\ \A q \in Proc \ {p} : op[q].pc \notin Locked
  BY NoneIsNobody DEF LockIsHeld

\* An idle process holds nothing.
LEMMA IdleIsTyped == Idle \in Doing /\ Idle.pc \notin Locked
  BY DEF Idle, Doing, Pcs, Locked

\* Done: the lock goes with the operation, and another's stays.
LEMMA DoneReleases ==
    ASSUME Typed, LockIsHeld, NEW p \in Proc, Done(p)
    PROVE  /\ op' \in [Proc -> Doing] /\ mig' \in Proc \cup {None} /\ LockIsHeld'
           /\ op'[p] = Idle /\ \A q \in Proc \ {p} : op'[q] = op[q]
  BY IdleIsTyped, NoneIsNobody DEF Typed, LockIsHeld, Done

\* An operation goes on under the lock it takes or keeps.
LEMMA GoesOn ==
    ASSUME Typed, LockIsHeld, NEW p \in Proc, NEW o \in Doing, op' = [op EXCEPT ![p] = o],
           mig = None \/ mig = p, mig' = p, o.pc \in Locked
    PROVE  /\ op' \in [Proc -> Doing] /\ mig' \in Proc \cup {None} /\ LockIsHeld'
           /\ op'[p] = o /\ \A q \in Proc \ {p} : op'[q] = op[q]
  BY NoneIsNobody DEF Typed, LockIsHeld

\* A process without the lock relies on nothing others change.
LEMMA UnlockedStands ==
    ASSUME NEW q \in Proc, Stands(q), op'[q] = op[q], op[q].pc \notin Locked,
           hist.seen \subseteq hist'.seen
    PROVE  Stands(q)'
  BY DEF Stands, Locked, Retiring

\* Nor does an idle one.
LEMMA IdleStands ==
    ASSUME NEW q \in Proc, op'[q] = Idle
    PROVE  Stands(q)'
  BY DEF Stands, Idle, Retiring

-----------------------------------------------------------------------------
(* What leaves the databases, and the backups, as they were.                *)

\* Steps that write no database.
LEMMA DatabasesStay ==
    ASSUME Typed, DatabasesHold, UNCHANGED <<live, gone>>, reg' \subseteq reg,
           hist'.seen = hist.seen, hist'.late = hist.late, hist'.purged = hist.purged,
           hist'.exports = hist.exports, hist'.heads \in Nat, hist.heads <= hist'.heads,
           hist'.clean \subseteq hist.seen
    PROVE  DatabasesHold'
<1>1. HeadsTellPurges'
  BY DEF DatabasesHold, HeadsTellPurges, Typed, History, Bundle, Content
<1>2. NoRowLost'
  BY DEF DatabasesHold, NoRowLost, Alive
<1>3. QED BY <1>1, <1>2 DEF DatabasesHold

\* Steps of processes alone.
LEMMA NothingWritten ==
    ASSUME DatabasesHold, BackupsHold, UNCHANGED <<live, reg, gone, backups, hist>>
    PROVE  DatabasesHold' /\ BackupsHold'
  BY DEF DatabasesHold, HeadsTellPurges, NoRowLost, BackupsHold, NoCopySurvives,
         RestoredBackupRefuses, Alive

\* b is c as far as any reader of it can tell.
Same(b, c) == b.id = c.id /\ b.of = c.of /\ b.rows = c.rows /\ b.head = c.head

\* Steps after which every backup was there before, and no more is alive, or
\* clean, that was not.
LEMMA BackupsStay ==
    ASSUME BackupsHold, \A b \in backups' : \E c \in backups : Same(b, c),
           \A b, c \in backups' : b.id = c.id => b = c,
           hist.files <= hist'.files, Typed, hist'.files \in Nat,
           hist'.exports = hist.exports, hist'.clean \ Alive' \subseteq hist.clean \ Alive
    PROVE  BackupsHold'
<1>1. \A b \in backups' : b.id < hist'.files /\ IdsUnique(b)
  BY DEF BackupsHold, Same, IdsUnique, Typed, Backup, History
<1>2. NoCopySurvives'
  BY DEF BackupsHold, NoCopySurvives, Same
<1>3. RestoredBackupRefuses'
  BY DEF BackupsHold, RestoredBackupRefuses, Same
<1>4. QED BY <1>1, <1>2, <1>3 DEF BackupsHold

\* A backup of a registered database: what it holds is alive.
LEMMA NewBackupHolds ==
    ASSUME Typed, DatabasesHold, BackupsHold, NEW ns \in reg, Alive \subseteq Alive',
           backups' = backups \cup {NewBackup(hist.files, ns, live[ns])},
           hist'.files = hist.files + 1, hist'.exports = hist.exports, hist'.clean = hist.clean
    PROVE  BackupsHold' /\ backups' \subseteq Backup
<1> DEFINE n == NewBackup(hist.files, ns, live[ns])
<1>1. /\ n \in Backup /\ n.id = hist.files /\ n.of = ns /\ n.rows = live[ns].rows
      /\ n.head = live[ns].head
  BY DEF NewBackup, Typed, Content, Backup, History
<1> HIDE DEF n
<1>2. backups' = backups \cup {n}
  BY DEF n
<1>3. \A b, c \in backups' : b.id = c.id => b = c
  BY <1>1, <1>2 DEF BackupsHold, Typed, Backup, History
<1>4. \A b \in backups' : b.id < hist'.files /\ IdsUnique(b)
  BY <1>1, <1>2 DEF BackupsHold, DatabasesHold, Proper, IdsUnique, Typed, Backup, History
<1>5. Alive \subseteq Alive' /\ Ids(n.rows) \subseteq Alive
  <2>1. ns \in Ns \ gone
    BY DEF Typed, DatabasesHold
  <2>2. QED BY <1>1, <2>1 DEF Alive
<1>6. NoCopySurvives'
  BY <1>2, <1>5 DEF BackupsHold, NoCopySurvives
<1>7. RestoredBackupRefuses'
  <2>1. SUFFICES ASSUME NEW m \in hist.clean \ Alive, NEW x \in hist.exports, m \in x.ids, ns = x.of
                 PROVE  n.head # x.head
    BY <1>1, <1>2, <1>5 DEF BackupsHold, RestoredBackupRefuses
  <2>2. m \notin Ids(live[ns].rows)
    BY <1>1, <1>5, <2>1
  <2>3. QED BY <1>1, <2>1, <2>2 DEF DatabasesHold, HeadsTellPurges
<1>8. QED BY <1>1, <1>2, <1>3, <1>4, <1>6, <1>7 DEF BackupsHold, Typed

-----------------------------------------------------------------------------
(* Steps that write no database.                                            *)

\* The dry run.
LEMMA DryRunKeeps ==
    ASSUME ContentInv, NEW p \in Proc, NEW s \in Ns, NEW t \in Ns, DryRun(p, s, t)
    PROVE  ContentInv'
<1> DEFINE o == [Idle EXCEPT !.pc = "planned", !.src = s, !.dst = t, !.seen = <<live[s], live[t]>>]
<1>1. /\ o \in Doing /\ o.pc = "planned" /\ o.src = s /\ o.dst = t
  BY IdleIsTyped DEF ContentInv, Typed, Idle, Doing, Pcs
<1>2. op' = [op EXCEPT ![p] = o] /\ s # t /\ UNCHANGED <<live, reg, gone, backups, mig, hist>>
  BY DEF DryRun
<1> HIDE DEF o
<1>3. op' \in [Proc -> Doing] /\ op'[p] = o /\ \A q \in Proc \ {p} : op'[q] = op[q]
  BY <1>1, <1>2 DEF ContentInv, Typed
<1>4. Typed'
  BY <1>2, <1>3 DEF ContentInv, Typed
<1>5. op[p].pc \notin Locked /\ o.pc \notin Locked
  BY <1>1, IdleIsTyped DEF DryRun, Locked
<1>6. LockIsHeld'
  BY <1>2, <1>3, <1>5 DEF ContentInv, LockIsHeld
<1>7. DatabasesHold' /\ BackupsHold'
  BY <1>2, NothingWritten DEF ContentInv
<1>8. ASSUME NEW q \in Proc PROVE Stands(q)'
  <2>1. CASE q = p
    BY <1>1, <1>2, <1>3, <2>1 DEF Stands, Retiring
  <2>2. CASE q # p
    BY <1>2, <1>3, <2>2 DEF ContentInv, Stands, Covered, WasPurged, Rid
  <2>3. QED BY <2>1, <2>2
<1>9. QED BY <1>4, <1>6, <1>7, <1>8 DEF ContentInv

\* --apply: refused, or with the source's snapshot and backup.
LEMMA ApplyPlanKeeps ==
    ASSUME ContentInv, NEW p \in Proc, ApplyPlan(p)
    PROVE  ContentInv'
<1> DEFINE s == op[p].src
           t == op[p].dst
<1>1. /\ At(p, "planned") /\ mig = None /\ UNCHANGED <<live, reg, gone>>
      /\ s \in Ns /\ t \in Ns /\ s # t
  BY DEF ApplyPlan, ContentInv, Stands, At
<1>2. Typed /\ LockIsHeld /\ DatabasesHold /\ BackupsHold /\ \A q \in Proc : Stands(q)
  BY DEF ContentInv
<1>3. \A q \in Proc : op[q].pc \notin Locked
  BY <1>1, <1>2, OneHolder
<1>4. CASE Done(p) /\ UNCHANGED <<backups, hist>>
  <2>1. /\ op' \in [Proc -> Doing] /\ mig' \in Proc \cup {None} /\ LockIsHeld'
        /\ op'[p] = Idle /\ \A q \in Proc \ {p} : op'[q] = op[q]
    BY <1>2, <1>4, DoneReleases
  <2>2. DatabasesHold' /\ BackupsHold'
    <3>1. UNCHANGED <<live, reg, gone, backups, hist>>
      BY <1>1, <1>4
    <3>2. QED BY <1>2, <3>1, NothingWritten
  <2>3. \A q \in Proc : Stands(q)'
    BY <1>2, <1>3, <1>4, <2>1, IdleStands, UnlockedStands
  <2>4. Typed'
    BY <1>1, <1>2, <1>4, <2>1 DEF Typed
  <2>5. QED BY <2>1, <2>2, <2>3, <2>4 DEF ContentInv
<1>5. CASE /\ {s, t} \subseteq reg
           /\ backups' = backups \cup {NewBackup(hist.files, s, live[s])}
           /\ hist' = [hist EXCEPT !.files = @ + 1]
           /\ mig' = p
           /\ op' = [op EXCEPT ![p].pc = "merge", ![p].todo = {live[s]}, ![p].left = {hist.files}]
  <2> DEFINE o == [op[p] EXCEPT !.pc = "merge", !.todo = {live[s]}, !.left = {hist.files}]
  <2>1. /\ hist' \in History /\ hist'.seen = hist.seen /\ hist'.late = hist.late
        /\ hist'.purged = hist.purged /\ hist'.exports = hist.exports /\ hist'.clean = hist.clean
        /\ hist'.heads = hist.heads /\ hist'.files = hist.files + 1
    BY <1>2, <1>5 DEF Typed, History
  <2>2. /\ o \in Doing /\ o.pc = "merge" /\ o.src = s /\ o.dst = t /\ o.todo = {live[s]}
        /\ live[s] \in Content
    <3>1. live[s] \in Content /\ hist.files \in Nat /\ op[p] \in Doing
      BY <1>1, <1>2 DEF Typed, History
    <3>2. {live[s]} \in SUBSET (Content \cup Nat) /\ {hist.files} \in SUBSET Nat
      BY <3>1
    <3>3. QED BY <3>1, <3>2 DEF Doing, Pcs, Locked
  <2>3. op' = [op EXCEPT ![p] = o]
    BY <1>2, <1>5 DEF Typed
  <2> HIDE DEF o
  <2>4. o.pc \in Locked
    BY <2>2 DEF Locked
  <2>5. /\ op' \in [Proc -> Doing] /\ mig' \in Proc \cup {None} /\ LockIsHeld'
        /\ op'[p] = o /\ \A q \in Proc \ {p} : op'[q] = op[q]
    BY <1>1, <1>2, <1>5, <2>2, <2>3, <2>4, GoesOn
  <2>6. DatabasesHold'
    BY <1>1, <1>2, <2>1, DatabasesStay DEF DatabasesHold, Typed, History
  <2>7. BackupsHold' /\ backups' \subseteq Backup
    <3>1. Alive' = Alive
      BY <1>1 DEF Alive
    <3>2. QED BY <1>2, <1>5, <2>1, <3>1, NewBackupHolds
  <2>8. Stands(p)'
    <3>1. Proper(live[s], hist.seen)
      BY <1>1, <1>2 DEF DatabasesHold
    <3>2. QED BY <1>1, <1>5, <2>1, <2>2, <2>5, <3>1 DEF Stands, Retiring
  <2>9. \A q \in Proc \ {p} : Stands(q)'
    BY <1>2, <1>3, <2>1, <2>5, UnlockedStands
  <2>10. Typed'
    BY <1>1, <1>2, <2>1, <2>5, <2>7 DEF Typed
  <2>11. QED BY <2>5, <2>6, <2>7, <2>8, <2>9, <2>10 DEF ContentInv
<1>6. QED BY <1>4, <1>5 DEF ApplyPlan

\* retire's plan and backup.
LEMMA RetireBackupKeeps ==
    ASSUME ContentInv, NEW p \in Proc, NEW s \in Ns, NEW t \in Ns, RetireBackup(p, s, t)
    PROVE  ContentInv'
<1> DEFINE o == [Idle EXCEPT !.pc = "deregister", !.src = s, !.dst = t]
<1>1. o \in Doing /\ o.pc = "deregister" /\ o.src = s /\ o.dst = t
  BY DEF Idle, Doing, Pcs, Locked
<1>2. /\ mig = None /\ s # t /\ {s, t} \subseteq reg /\ UNCHANGED <<live, reg, gone>>
      /\ backups' = backups \cup {NewBackup(hist.files, s, live[s])}
      /\ mig' = p /\ op' = [op EXCEPT ![p] = o]
  BY DEF RetireBackup
<1> HIDE DEF o
<1>3. Typed /\ LockIsHeld /\ DatabasesHold /\ BackupsHold /\ \A q \in Proc : Stands(q)
  BY DEF ContentInv
<1>4. \A q \in Proc : op[q].pc \notin Locked
  BY <1>2, <1>3, OneHolder
<1>5. /\ hist' \in History /\ hist'.seen = hist.seen /\ hist'.late = hist.late
      /\ hist'.purged = hist.purged /\ hist'.exports = hist.exports /\ hist'.clean = hist.clean
      /\ hist'.heads = hist.heads /\ hist'.files = hist.files + 1
  BY <1>3 DEF RetireBackup, Typed, History
<1>6. /\ op' \in [Proc -> Doing] /\ mig' \in Proc \cup {None} /\ LockIsHeld'
      /\ op'[p] = o /\ \A q \in Proc \ {p} : op'[q] = op[q]
  <2>1. o.pc \in Locked
    BY <1>1 DEF Locked
  <2>2. QED BY <1>1, <1>2, <1>3, <2>1, GoesOn
<1>7. DatabasesHold'
  BY <1>2, <1>3, <1>5, DatabasesStay DEF DatabasesHold, Typed, History
<1>8. BackupsHold' /\ backups' \subseteq Backup
  <2>1. Alive' = Alive
    BY <1>2 DEF Alive
  <2>2. QED BY <1>2, <1>3, <1>5, <2>1, NewBackupHolds
<1>9. Stands(p)'
  BY <1>1, <1>2, <1>6 DEF Stands, Retiring
<1>10. \A q \in Proc \ {p} : Stands(q)'
  BY <1>3, <1>4, <1>5, <1>6, UnlockedStands
<1>11. Typed'
  BY <1>2, <1>3, <1>5, <1>6, <1>8 DEF Typed
<1>12. QED BY <1>6, <1>7, <1>8, <1>9, <1>10, <1>11 DEF ContentInv

\* The source leaves the registry.
LEMMA DeregisterKeeps ==
    ASSUME ContentInv, NEW p \in Proc, Deregister(p)
    PROVE  ContentInv'
<1> DEFINE o == [op[p] EXCEPT !.pc = "look"]
<1>1. Typed /\ LockIsHeld /\ DatabasesHold /\ BackupsHold /\ \A q \in Proc : Stands(q)
  BY DEF ContentInv
<1>2. /\ op[p].pc = "deregister" /\ op[p].pc \in Locked /\ reg' = reg \ {op[p].src}
      /\ UNCHANGED <<live, gone, backups, mig, hist>>
  BY DEF Deregister, At, Locked
<1>3. mig = p /\ \A q \in Proc \ {p} : op[q].pc \notin Locked
  BY <1>1, <1>2, OneHolder
<1>4. /\ op[p].src \in Ns /\ op[p].dst \in Ns /\ op[p].src # op[p].dst /\ op[p].dst \in reg
  BY <1>1, <1>2 DEF Stands, Retiring
<1>5. /\ o \in Doing /\ o.pc = "look" /\ o.pc \in Locked /\ o.src = op[p].src /\ o.dst = op[p].dst
  BY <1>1 DEF Typed, Doing, Pcs, Locked
<1>6. op' = [op EXCEPT ![p] = o]
  BY <1>1 DEF Deregister, Typed
<1> HIDE DEF o
<1>7. /\ op' \in [Proc -> Doing] /\ mig' \in Proc \cup {None} /\ LockIsHeld'
      /\ op'[p] = o /\ \A q \in Proc \ {p} : op'[q] = op[q]
  BY <1>1, <1>2, <1>3, <1>5, <1>6, GoesOn
<1>8. DatabasesHold'
  BY <1>1, <1>2, DatabasesStay DEF DatabasesHold, Typed, History
<1>9. BackupsHold'
  BY <1>1, <1>2 DEF BackupsHold, NoCopySurvives, RestoredBackupRefuses, Alive
<1>10. Stands(p)'
  BY <1>2, <1>4, <1>5, <1>7 DEF Stands, Retiring
<1>11. \A q \in Proc \ {p} : Stands(q)'
  BY <1>1, <1>2, <1>3, <1>7, UnlockedStands
<1>12. Typed'
  BY <1>1, <1>2, <1>7 DEF Typed
<1>13. QED BY <1>7, <1>8, <1>9, <1>10, <1>11, <1>12 DEF ContentInv

\* The last look: what it finds in the target stays there, or is purged.
LEMMA LookAgainKeeps ==
    ASSUME ContentInv, NEW p \in Proc, LookAgain(p)
    PROVE  ContentInv'
<1> DEFINE o == [op[p] EXCEPT !.pc = "unlink"]
<1>1. Typed /\ LockIsHeld /\ DatabasesHold /\ BackupsHold /\ \A q \in Proc : Stands(q)
  BY DEF ContentInv
<1>2. /\ op[p].pc = "look" /\ op[p].pc \in Locked /\ UNCHANGED <<live, reg, gone, backups, hist>>
  BY DEF LookAgain, At, Locked
<1>3. mig = p /\ \A q \in Proc \ {p} : op[q].pc \notin Locked
  BY <1>1, <1>2, OneHolder
<1>4. DatabasesHold' /\ BackupsHold'
  BY <1>1, <1>2, NothingWritten
<1>5. CASE Done(p)
  <2>1. /\ op' \in [Proc -> Doing] /\ mig' \in Proc \cup {None} /\ LockIsHeld'
        /\ op'[p] = Idle /\ \A q \in Proc \ {p} : op'[q] = op[q]
    BY <1>1, <1>5, DoneReleases
  <2>2. \A q \in Proc : Stands(q)'
    BY <1>1, <1>2, <1>3, <2>1, IdleStands, UnlockedStands
  <2>3. Typed'
    BY <1>1, <1>2, <2>1 DEF Typed
  <2>4. QED BY <1>4, <2>1, <2>2, <2>3 DEF ContentInv
<1>6. CASE ~Stranded(p) /\ op' = [op EXCEPT ![p].pc = "unlink"] /\ UNCHANGED mig
  <2>1. /\ o \in Doing /\ o.pc = "unlink" /\ o.pc \in Locked /\ o.src = op[p].src /\ o.dst = op[p].dst
    BY <1>1 DEF Typed, Doing, Pcs, Locked
  <2>2. op' = [op EXCEPT ![p] = o]
    BY <1>1, <1>6 DEF Typed
  <2> HIDE DEF o
  <2>3. /\ op' \in [Proc -> Doing] /\ mig' \in Proc \cup {None} /\ LockIsHeld'
        /\ op'[p] = o /\ \A q \in Proc \ {p} : op'[q] = op[q]
    BY <1>1, <1>3, <1>6, <2>1, <2>2, GoesOn
  <2>4. Covered(op[p].src, op[p].dst)
    BY <1>6 DEF Stranded, Drained, ToInsert, Covered, Ids
  <2>5. Stands(p)'
    BY <1>1, <1>2, <2>1, <2>3, <2>4 DEF Stands, Retiring, Covered, WasPurged
  <2>6. \A q \in Proc \ {p} : Stands(q)'
    BY <1>1, <1>2, <1>3, <2>3, UnlockedStands
  <2>7. Typed'
    BY <1>1, <1>2, <2>3 DEF Typed
  <2>8. QED BY <1>4, <2>3, <2>5, <2>6, <2>7 DEF ContentInv
<1>7. QED BY <1>5, <1>6 DEF LookAgain

\* The file goes: every row of it is in the target, or is not owed.
LEMMA UnlinkKeeps ==
    ASSUME ContentInv, NEW p \in Proc, Unlink(p)
    PROVE  ContentInv'
<1> DEFINE s == op[p].src
           t == op[p].dst
<1>1. Typed /\ LockIsHeld /\ DatabasesHold /\ BackupsHold /\ \A q \in Proc : Stands(q)
  BY DEF ContentInv
<1>2. /\ op[p].pc = "unlink" /\ op[p].pc \in Locked /\ gone' = gone \cup {s} /\ Done(p)
      /\ UNCHANGED <<live, reg, backups, hist>>
  BY DEF Unlink, At, Locked
<1>3. mig = p /\ \A q \in Proc \ {p} : op[q].pc \notin Locked
  BY <1>1, <1>2, OneHolder
<1>4. s \in Ns /\ t \in Ns /\ s # t /\ t \in reg /\ s \notin reg /\ Covered(s, t)
  BY <1>1, <1>2 DEF Stands, Retiring
<1>5. /\ op' \in [Proc -> Doing] /\ mig' \in Proc \cup {None} /\ LockIsHeld'
      /\ op'[p] = Idle /\ \A q \in Proc \ {p} : op'[q] = op[q]
  BY <1>1, <1>2, DoneReleases
<1> HIDE DEF s, t
<1>6. \A m \in Alive \ Alive' : m \notin hist.clean /\ (m \in hist.late \/ WasPurged(m))
  <2>1. SUFFICES ASSUME NEW m \in Alive \ Alive'
                 PROVE  m \notin hist.clean /\ (m \in hist.late \/ WasPurged(m))
    OBVIOUS
  <2>2. m \in Ids(live[s].rows) /\ m \notin Ids(live[t].rows)
    BY <1>1, <1>2, <1>4, <2>1 DEF Alive, DatabasesHold
  <2>3. QED BY <1>4, <2>2 DEF Covered
<1>7. DatabasesHold'
  <2>1. NoRowLost'
    BY <1>1, <1>2, <1>6 DEF DatabasesHold, NoRowLost, WasPurged
  <2>2. HeadsTellPurges'
    BY <1>1, <1>2 DEF DatabasesHold, HeadsTellPurges
  <2>3. QED BY <1>1, <1>2, <1>4, <2>1, <2>2 DEF DatabasesHold
<1>8. BackupsHold'
  BY <1>1, <1>2, <1>6 DEF BackupsHold, NoCopySurvives, RestoredBackupRefuses
<1>9. \A q \in Proc : Stands(q)'
  BY <1>1, <1>2, <1>3, <1>5, IdleStands, UnlockedStands
<1>10. Typed'
  BY <1>1, <1>2, <1>4, <1>5 DEF Typed
<1>11. QED BY <1>5, <1>7, <1>8, <1>9, <1>10 DEF ContentInv

-----------------------------------------------------------------------------
(* The sweep.                                                               *)

\* A backup without one memory, under a new head.
LEMMA ErasedBackup ==
    ASSUME NEW b \in Backup, NEW m, NEW h \in Nat
    PROVE  /\ Erase(b, m, h) \in Backup /\ Erase(b, m, h).head = h
           /\ Erase(b, m, h).rows = {r \in b.rows : r.id # m}
           /\ Erase(b, m, h).id = b.id /\ Erase(b, m, h).of = b.of
<1> DEFINE rows == {r \in b.rows : r.id # m}
<1>1. rows \in SUBSET Row
  BY DEF Backup
<1>2. Erase(b, m, h) = [b EXCEPT !.rows = rows, !.head = h]
  BY DEF Erase, Backup
<1> HIDE DEF rows
<1>3. /\ Erase(b, m, h) \in Backup /\ Erase(b, m, h).head = h /\ Erase(b, m, h).rows = rows
      /\ Erase(b, m, h).id = b.id /\ Erase(b, m, h).of = b.of
  BY <1>1, <1>2 DEF Backup
<1>4. QED BY <1>3 DEF rows

\* A database without one memory, under a new head.
LEMMA ErasedContent ==
    ASSUME NEW d \in Content, NEW m, NEW h \in Nat
    PROVE  /\ Erase(d, m, h) \in Content /\ Erase(d, m, h).head = h
           /\ Erase(d, m, h).rows = {r \in d.rows : r.id # m}
<1> DEFINE rows == {r \in d.rows : r.id # m}
<1>1. rows \in SUBSET Row
  BY DEF Content
<1>2. Erase(d, m, h) = [d EXCEPT !.rows = rows, !.head = h]
  BY DEF Erase, Content
<1> HIDE DEF rows
<1>3. Erase(d, m, h) \in Content /\ Erase(d, m, h).head = h /\ Erase(d, m, h).rows = rows
  BY <1>1, <1>2 DEF Content
<1>4. QED BY <1>3 DEF rows

\* The sweep starts with every backup still to be visited.
LEMMA SweepStartKeeps ==
    ASSUME ContentInv, NEW p \in Proc, SweepStart(p)
    PROVE  ContentInv'
<1> DEFINE o == [op[p] EXCEPT !.pc = "sweep", !.todo = {b.id : b \in backups}]
<1>1. Typed /\ LockIsHeld /\ DatabasesHold /\ BackupsHold /\ \A q \in Proc : Stands(q)
  BY DEF ContentInv
<1>2. /\ op[p].pc = "purged" /\ mig = None /\ mig' = p
      /\ UNCHANGED <<live, reg, gone, backups, hist>>
  BY DEF SweepStart, At
<1>3. \A q \in Proc : op[q].pc \notin Locked
  BY <1>1, <1>2, OneHolder
<1>4. /\ o \in Doing /\ o.pc = "sweep" /\ o.pc \in Locked /\ o.mem = op[p].mem
      /\ \A b \in backups : b.id \in o.todo
  <2>1. {b.id : b \in backups} \in SUBSET (Content \cup Nat)
    BY <1>1 DEF Typed, Backup
  <2>2. QED BY <1>1, <2>1 DEF Typed, Doing, Pcs, Locked
<1>5. op' = [op EXCEPT ![p] = o]
  BY <1>1 DEF SweepStart, Candidates, Typed
<1> HIDE DEF o
<1>6. /\ op' \in [Proc -> Doing] /\ mig' \in Proc \cup {None} /\ LockIsHeld'
      /\ op'[p] = o /\ \A q \in Proc \ {p} : op'[q] = op[q]
  BY <1>1, <1>2, <1>4, <1>5, GoesOn
<1>7. DatabasesHold' /\ BackupsHold'
  BY <1>1, <1>2, NothingWritten
<1>8. Stands(p)'
  BY <1>1, <1>2, <1>4, <1>6 DEF Stands, Retiring
<1>9. \A q \in Proc \ {p} : Stands(q)'
  BY <1>1, <1>2, <1>3, <1>6, UnlockedStands
<1>10. Typed'
  BY <1>1, <1>2, <1>6 DEF Typed
<1>11. QED BY <1>6, <1>7, <1>8, <1>9, <1>10 DEF ContentInv

\* One backup is rewritten under a new head, or reported.
LEMMA SweepOneKeeps ==
    ASSUME ContentInv, NEW p \in Proc, SweepOne(p)
    PROVE  ContentInv'
<1>1. Typed /\ LockIsHeld /\ DatabasesHold /\ BackupsHold /\ \A q \in Proc : Stands(q)
  BY DEF ContentInv
<1>2. PICK b \in backups :
        /\ At(p, "sweep") /\ b.id \in op[p].todo
        /\ op' = [op EXCEPT ![p].todo = @ \ {b.id}, ![p].left = IF b.sound THEN @ ELSE @ \cup {b.id}]
        /\ IF b.sound
           THEN /\ backups' = (backups \ {b}) \cup {Erase(b, op[p].mem, hist.heads + 1)}
                /\ hist' = [hist EXCEPT !.heads = @ + 1]
           ELSE UNCHANGED <<backups, hist>>
        /\ UNCHANGED <<live, reg, gone, mig>>
  BY DEF SweepOne
<1> DEFINE m == op[p].mem
           h == hist.heads + 1
           e == Erase(b, m, h)
           l == IF b.sound THEN op[p].left ELSE op[p].left \cup {b.id}
           o == [op[p] EXCEPT !.todo = @ \ {b.id}, !.left = l]
<1>3. /\ op[p].pc = "sweep" /\ op[p].pc \in Locked /\ b \in Backup /\ hist.heads \in Nat
      /\ op[p].left \in SUBSET Nat
  BY <1>1, <1>2 DEF At, Locked, Typed, History, Doing
<1>4. mig = p /\ \A q \in Proc \ {p} : op[q].pc \notin Locked
  BY <1>1, <1>3, OneHolder
<1>5. /\ o \in Doing /\ o.pc = "sweep" /\ o.pc \in Locked /\ o.mem = m
      /\ o.todo = op[p].todo \ {b.id} /\ o.left = l
  BY <1>1, <1>3 DEF Typed, Doing, Backup, Locked
<1>6. op' = [op EXCEPT ![p] = o]
  BY <1>1, <1>2 DEF Typed
<1>7. /\ e \in Backup /\ e.id = b.id /\ e.of = b.of /\ e.head = h
      /\ e.rows = {r \in b.rows : r.id # m}
  <2>1. h \in Nat
    BY <1>3
  <2> HIDE DEF m, h
  <2>2. QED BY <1>3, <2>1, ErasedBackup DEF e
<1> HIDE DEF o, e
<1>8. /\ op' \in [Proc -> Doing] /\ mig' \in Proc \cup {None} /\ LockIsHeld'
      /\ op'[p] = o /\ \A q \in Proc \ {p} : op'[q] = op[q]
  BY <1>1, <1>2, <1>4, <1>5, <1>6, GoesOn
<1>9. m \in hist.seen
  BY <1>1, <1>3 DEF Stands
<1>10. CASE ~b.sound
  <2>1. DatabasesHold' /\ BackupsHold'
    BY <1>1, <1>2, <1>10, NothingWritten
  <2>2. Stands(p)'
    BY <1>1, <1>2, <1>3, <1>5, <1>8, <1>10 DEF Stands, Retiring, Rid
  <2>3. \A q \in Proc \ {p} : Stands(q)'
    BY <1>1, <1>2, <1>4, <1>8, <1>10, UnlockedStands
  <2>4. Typed'
    BY <1>1, <1>2, <1>8, <1>10 DEF Typed
  <2>5. QED BY <1>8, <2>1, <2>2, <2>3, <2>4 DEF ContentInv
<1>11. CASE b.sound
  <2>1. backups' = (backups \ {b}) \cup {e}
    BY <1>2, <1>11 DEF e
  <2>2. /\ hist' \in History /\ hist'.seen = hist.seen /\ hist'.late = hist.late
        /\ hist'.purged = hist.purged /\ hist'.exports = hist.exports /\ hist'.clean = hist.clean
        /\ hist'.heads = h /\ hist'.files = hist.files
    BY <1>1, <1>2, <1>11 DEF Typed, History
  <2>3. Ids(e.rows) \subseteq Ids(b.rows) /\ m \notin Ids(e.rows)
    BY <1>7 DEF Ids
  <2>4. \A x \in hist.exports : e.head # x.head
    BY <1>1, <1>3, <1>7 DEF DatabasesHold, HeadsTellPurges, Typed, History, Bundle
  <2>5. \A c \in backups' : c = e \/ (c \in backups /\ c.id # b.id)
    BY <1>1, <2>1 DEF BackupsHold
  <2>6. DatabasesHold'
    BY <1>1, <1>2, <1>3, <2>2, DatabasesStay DEF DatabasesHold
  <2>7. BackupsHold'
    <3>1. \A c, d \in backups' : c.id = d.id => c = d
      BY <1>1, <1>7, <2>5 DEF BackupsHold
    <3>2. \A c \in backups' : c.id < hist'.files /\ IdsUnique(c)
      BY <1>1, <1>7, <2>2, <2>5 DEF BackupsHold, IdsUnique
    <3>3. Alive' = Alive
      BY <1>2 DEF Alive
    <3>4. NoCopySurvives'
      BY <1>1, <2>2, <2>3, <2>5, <3>3 DEF BackupsHold, NoCopySurvives
    <3>5. RestoredBackupRefuses'
      BY <1>1, <2>2, <2>4, <2>5, <3>3 DEF BackupsHold, RestoredBackupRefuses
    <3>6. QED BY <3>1, <3>2, <3>4, <3>5 DEF BackupsHold
  <2>8. Stands(p)'
    <3>1. \A c \in backups' : c.id \in o.todo \cup o.left \/ Rid(c, m)'
      <4>1. SUFFICES ASSUME NEW c \in backups' PROVE c.id \in o.todo \cup o.left \/ Rid(c, m)'
        OBVIOUS
      <4>2. CASE c = e
        BY <2>2, <2>3, <2>4, <4>2, <1>8, <1>5 DEF Rid
      <4>3. CASE c \in backups /\ c.id # b.id
        BY <1>1, <1>3, <1>5, <1>8, <1>11, <2>2, <4>3 DEF Stands, Rid
      <4>4. QED BY <2>5, <4>2, <4>3
    <3>2. QED BY <1>5, <1>8, <1>9, <2>2, <3>1 DEF Stands, Retiring
  <2>9. \A q \in Proc \ {p} : Stands(q)'
    BY <1>1, <1>4, <1>8, <2>2, UnlockedStands
  <2>10. Typed'
    BY <1>1, <1>2, <1>7, <1>8, <2>1, <2>2 DEF Typed
  <2>11. QED BY <1>8, <2>6, <2>7, <2>8, <2>9, <2>10 DEF ContentInv
<1>12. QED BY <1>10, <1>11

\* A sweep that left no backup out has been at all of them.
LEMMA SweepDoneKeeps ==
    ASSUME ContentInv, NEW p \in Proc, SweepDone(p)
    PROVE  ContentInv'
<1> DEFINE m == op[p].mem
<1>1. Typed /\ LockIsHeld /\ DatabasesHold /\ BackupsHold /\ \A q \in Proc : Stands(q)
  BY DEF ContentInv
<1>2. /\ op[p].pc = "sweep" /\ op[p].pc \in Locked /\ op[p].todo = {} /\ Done(p)
      /\ hist' = [hist EXCEPT !.clean = IF op[p].left = {} THEN @ \cup {m} ELSE @]
      /\ UNCHANGED <<live, reg, gone, backups>>
  BY DEF SweepDone, Unerased, At, Locked
<1>3. mig = p /\ \A q \in Proc \ {p} : op[q].pc \notin Locked
  BY <1>1, <1>2, OneHolder
<1>4. m \in hist.seen /\ \A b \in backups : b.id \in op[p].left \/ Rid(b, m)
  BY <1>1, <1>2 DEF Stands
<1>5. /\ op' \in [Proc -> Doing] /\ mig' \in Proc \cup {None} /\ LockIsHeld'
      /\ op'[p] = Idle /\ \A q \in Proc \ {p} : op'[q] = op[q]
  BY <1>1, <1>2, DoneReleases
<1> HIDE DEF m
<1>6. /\ hist' \in History /\ hist'.seen = hist.seen /\ hist'.late = hist.late
      /\ hist'.purged = hist.purged /\ hist'.exports = hist.exports
      /\ hist'.heads = hist.heads /\ hist'.files = hist.files
      /\ hist'.clean \subseteq hist.clean \cup {m}
      /\ m \in hist'.clean \ hist.clean => op[p].left = {}
  BY <1>1, <1>2, <1>4 DEF Typed, History
<1>7. DatabasesHold'
  BY <1>1, <1>2, <1>4, <1>6, DatabasesStay DEF DatabasesHold, Typed, History
<1>8. BackupsHold'
  <2>1. Alive' = Alive
    BY <1>2 DEF Alive
  <2>2. NoCopySurvives'
    BY <1>1, <1>2, <1>4, <1>6, <2>1 DEF BackupsHold, NoCopySurvives, Rid
  <2>3. RestoredBackupRefuses'
    BY <1>1, <1>2, <1>4, <1>6, <2>1 DEF BackupsHold, RestoredBackupRefuses, Rid
  <2>4. QED BY <1>1, <1>2, <1>6, <2>2, <2>3 DEF BackupsHold
<1>9. \A q \in Proc : Stands(q)'
  BY <1>1, <1>3, <1>5, <1>6, IdleStands, UnlockedStands
<1>10. Typed'
  BY <1>1, <1>2, <1>5, <1>6 DEF Typed
<1>11. QED BY <1>5, <1>7, <1>8, <1>9, <1>10 DEF ContentInv

-----------------------------------------------------------------------------
(* Steps that write a database.                                             *)

\* A database that gains rows and loses none.
Grows(ns, d) ==
    /\ ns \in Ns /\ d \in Content /\ live' = [live EXCEPT ![ns] = d]
    /\ d.head = live[ns].head /\ Ids(live[ns].rows) \subseteq Ids(d.rows)
    /\ Proper(d, hist'.seen)
    /\ UNCHANGED <<reg, gone>>
    /\ hist.seen \subseteq hist'.seen /\ hist.late \subseteq hist'.late
    /\ hist'.purged = hist.purged /\ hist'.exports = hist.exports
    /\ hist'.heads = hist.heads /\ hist'.clean = hist.clean
    /\ \A m \in hist'.seen \ hist.seen : m \in hist'.late \/ (ns \notin gone /\ m \in Ids(d.rows))

\* What such a step leaves true of the databases.
LEMMA GrowthHolds ==
    ASSUME Typed, DatabasesHold, NEW ns, NEW d, Grows(ns, d)
    PROVE  /\ DatabasesHold' /\ Alive \subseteq Alive' /\ live' \in [Ns -> Content]
           /\ \A n \in Ns : Ids(live[n].rows) \subseteq Ids(live'[n].rows)
           /\ live'[ns] = d /\ \A n \in Ns \ {ns} : live'[n] = live[n]
<1>1. /\ live' \in [Ns -> Content] /\ live'[ns] = d /\ \A n \in Ns \ {ns} : live'[n] = live[n]
  BY DEF Typed, Grows
<1>2. \A n \in Ns : live'[n].head = live[n].head /\ Ids(live[n].rows) \subseteq Ids(live'[n].rows)
  BY <1>1 DEF Grows
<1>3. Alive \subseteq Alive'
  BY <1>2 DEF Alive, Grows
<1>4. \A n \in Ns : Proper(live'[n], hist'.seen)
  BY <1>1 DEF DatabasesHold, Proper, Grows
<1>5. HeadsTellPurges'
  BY <1>2 DEF DatabasesHold, HeadsTellPurges, Grows, Typed, History, Bundle
<1>6. NoRowLost'
  <2>1. \A m \in hist'.seen \ hist.seen : m \in hist'.late \/ m \in Alive'
    BY <1>1 DEF Grows, Alive
  <2>2. QED BY <1>3, <2>1 DEF DatabasesHold, NoRowLost, Grows
<1>7. QED BY <1>1, <1>2, <1>3, <1>4, <1>5, <1>6 DEF DatabasesHold, Grows

\* A process whose own step it is not stands on as before, if nothing new
\* gets by a retirement that has looked.
LEMMA GrowthStands ==
    ASSUME ContentInv, NEW ns, NEW d, Grows(ns, d), NEW q \in Proc, op'[q] = op[q],
           backups' = backups,
           \A m \in Ids(d.rows) \ Ids(live[ns].rows) :
               m \notin hist.clean /\ (op[q].pc = "unlink" /\ op[q].src = ns => m \in hist'.late)
    PROVE  Stands(q)'
<1>1. Typed /\ DatabasesHold /\ Stands(q)
  BY DEF ContentInv
<1>2. /\ \A n \in Ns : Ids(live[n].rows) \subseteq Ids(live'[n].rows)
      /\ live'[ns] = d /\ \A n \in Ns \ {ns} : live'[n] = live[n]
  BY <1>1, GrowthHolds
<1>3. op[q].pc = "unlink" => Covered(op[q].src, op[q].dst)'
  <2>1. SUFFICES ASSUME op[q].pc = "unlink", NEW m \in Ids(live'[op[q].src].rows)
                 PROVE  \/ m \in Ids(live'[op[q].dst].rows)
                        \/ m \notin hist'.clean /\ (m \in hist'.late \/ WasPurged(m)')
    BY DEF Covered, Grows
  <2>2. op[q].src \in Ns /\ op[q].dst \in Ns /\ Covered(op[q].src, op[q].dst)
    BY <1>1, <2>1 DEF Stands, Retiring
  <2>3. CASE m \in Ids(live[op[q].src].rows)
    BY <1>2, <2>2, <2>3 DEF Covered, Grows, WasPurged
  <2>4. CASE m \notin Ids(live[op[q].src].rows)
    BY <1>2, <2>1, <2>2, <2>4 DEF Grows
  <2>5. QED BY <2>3, <2>4
<1>4. \A e : Proper(e, hist.seen) => Proper(e, hist'.seen)
  BY DEF Proper, Grows
<1>5. \A b, m : Rid(b, m)' <=> Rid(b, m)
  BY DEF Rid, Grows
<1>6. QED BY <1>1, <1>3, <1>4, <1>5 DEF Stands, Grows

\* A new memory, which no purge has heard of.
LEMMA ObserveKeeps ==
    ASSUME ContentInv, NEW ns \in Ns, NEW m \in Mem, Observe(ns, m)
    PROVE  ContentInv'
<1> DEFINE r == [id |-> m, state |-> "open", index |-> IF m \in Excluded THEN "out" ELSE "job"]
           d == [live[ns] EXCEPT !.rows = @ \cup {r}]
<1>1. Typed /\ LockIsHeld /\ DatabasesHold /\ BackupsHold /\ \A q \in Proc : Stands(q)
  BY DEF ContentInv
<1>2. r \in Row /\ r.id = m /\ (r.index = "out" <=> m \in Excluded)
  BY DEF Row
<1>3. /\ d \in Content /\ d.head = live[ns].head /\ d.rows = live[ns].rows \cup {r}
  BY <1>1, <1>2 DEF Typed, Content
<1>4. live' = [live EXCEPT ![ns] = d]
  BY <1>1 DEF Observe, Typed, Content
<1> HIDE DEF d, r
<1>5. Ids(d.rows) = Ids(live[ns].rows) \cup {m}
  BY <1>2, <1>3 DEF Ids
<1>6. m \notin hist.seen /\ UNCHANGED <<reg, gone, backups, mig, op>>
  BY DEF Observe
<1>7. /\ hist' \in History /\ hist'.seen = hist.seen \cup {m} /\ hist'.purged = hist.purged
      /\ hist'.exports = hist.exports /\ hist'.clean = hist.clean
      /\ hist'.heads = hist.heads /\ hist'.files = hist.files
      /\ hist'.late = IF ns \in gone \/ PastLastLook(ns) THEN hist.late \cup {m} ELSE hist.late
  BY <1>1 DEF Observe, Typed, History
<1>8. Proper(live[ns], hist.seen)
  BY <1>1 DEF DatabasesHold
<1>9. Proper(d, hist'.seen)
  <2>1. m \notin Ids(live[ns].rows)
    BY <1>6, <1>8 DEF Proper
  <2>2. IdsUnique(d)
    BY <1>2, <1>3, <1>8, <2>1 DEF Proper, IdsUnique, Ids
  <2>3. \A q \in d.rows : q.index = "out" <=> q.id \in Excluded
    BY <1>2, <1>3, <1>8 DEF Proper
  <2>4. QED BY <1>5, <1>7, <1>8, <2>2, <2>3 DEF Proper
<1>10. Grows(ns, d)
  BY <1>3, <1>4, <1>5, <1>6, <1>7, <1>9 DEF Grows
<1>11. DatabasesHold' /\ Alive \subseteq Alive' /\ live' \in [Ns -> Content]
  BY <1>1, <1>10, GrowthHolds
<1>12. BackupsHold'
  BY <1>1, <1>6, <1>7, <1>11 DEF BackupsHold, NoCopySurvives, RestoredBackupRefuses
<1>13. ASSUME NEW q \in Proc PROVE Stands(q)'
  <2>1. m \notin hist.clean
    BY <1>1, <1>6 DEF DatabasesHold
  <2>2. op[q].pc = "unlink" /\ op[q].src = ns => m \in hist'.late
    BY <1>7 DEF PastLastLook, At
  <2>3. QED BY <1>5, <1>6, <1>10, <2>1, <2>2, GrowthStands
<1>14. LockIsHeld' /\ Typed'
  BY <1>1, <1>6, <1>7, <1>11 DEF Typed, LockIsHeld
<1>15. QED BY <1>11, <1>12, <1>13, <1>14 DEF ContentInv

\* A row changes, and keeps its id and its policy.
LEMMA ChangeKeeps ==
    ASSUME ContentInv, NEW ns \in Ns, NEW r \in live[ns].rows, NEW s, Change(ns, r, s)
    PROVE  ContentInv'
<1> DEFINE d == [live[ns] EXCEPT !.rows = (@ \ {r}) \cup {s}]
<1>1. Typed /\ LockIsHeld /\ DatabasesHold /\ BackupsHold /\ \A q \in Proc : Stands(q)
  BY DEF ContentInv
<1>2. r \in Row /\ s \in Row /\ s.id = r.id /\ (s.index = "out" <=> r.index = "out")
  BY <1>1 DEF Change, Typed, Content, Row
<1>3. d \in Content /\ d.head = live[ns].head /\ d.rows = (live[ns].rows \ {r}) \cup {s}
  BY <1>1, <1>2 DEF Typed, Content
<1>4. live' = [live EXCEPT ![ns] = d]
  BY <1>1 DEF Change, Typed, Content
<1> HIDE DEF d
<1>5. Ids(d.rows) = Ids(live[ns].rows)
  BY <1>2, <1>3 DEF Ids
<1>6. /\ UNCHANGED <<reg, gone, backups, mig, op>>
      /\ hist' \in History /\ hist'.seen = hist.seen /\ hist'.late = hist.late
      /\ hist'.purged = hist.purged /\ hist'.exports = hist.exports /\ hist'.clean = hist.clean
      /\ hist'.heads = hist.heads /\ hist'.files = hist.files
  <2>1. PICK c : c = IF PastLastLook(ns) THEN hist.closed ELSE hist.closed \cup {r.id}
    OBVIOUS
  <2>2. c \subseteq Mem /\ hist \in History
    BY <1>1, <1>2, <2>1 DEF Typed, History, Row
  <2>3. hist' = [hist EXCEPT !.closed = c] \/ hist' = hist
    BY <2>1 DEF Change
  <2>4. QED BY <2>2, <2>3 DEF Change, History
<1>7. Proper(live[ns], hist.seen)
  BY <1>1 DEF DatabasesHold
<1>8. Proper(d, hist'.seen)
  <2>1. IdsUnique(d)
    BY <1>2, <1>3, <1>7 DEF Proper, IdsUnique
  <2>2. \A q \in d.rows : q.index = "out" <=> q.id \in Excluded
    BY <1>2, <1>3, <1>7 DEF Proper
  <2>3. QED BY <1>5, <1>6, <1>7, <2>1, <2>2 DEF Proper
<1>9. Grows(ns, d)
  BY <1>3, <1>4, <1>5, <1>6, <1>8 DEF Grows
<1>10. DatabasesHold' /\ Alive \subseteq Alive' /\ live' \in [Ns -> Content]
  BY <1>1, <1>9, GrowthHolds
<1>11. BackupsHold'
  BY <1>1, <1>6, <1>10 DEF BackupsHold, NoCopySurvives, RestoredBackupRefuses
<1>12. \A q \in Proc : Stands(q)'
  BY <1>5, <1>6, <1>9, GrowthStands
<1>13. LockIsHeld' /\ Typed'
  BY <1>1, <1>6, <1>10 DEF Typed, LockIsHeld
<1>14. QED BY <1>10, <1>11, <1>12, <1>13 DEF ContentInv

\* What a merge makes of its target: new ids only, each as the source had it.
LEMMA MergedIsProper ==
    ASSUME NEW s \in Content, NEW t \in Content, NEW seen, Proper(s, seen), Proper(t, seen)
    PROVE  /\ Merged(s, t) \in Content /\ Merged(s, t).head = t.head
           /\ t.rows \subseteq Merged(s, t).rows /\ Ids(t.rows) \subseteq Ids(Merged(s, t).rows)
           /\ Proper(Merged(s, t), seen)
<1> DEFINE new == {Requeued(r) : r \in ToInsert(s, t)}
           d == Merged(s, t)
<1>1. ASSUME NEW r \in s.rows
      PROVE  /\ Requeued(r) \in Row /\ Requeued(r).id = r.id
             /\ Requeued(r).index = "out" <=> r.index = "out"
  BY DEF Content, Row, Requeued
<1>2. \A n \in new : n \in Row /\ \E r \in s.rows : /\ n = Requeued(r) /\ n.id = r.id /\ r.id \notin Ids(t.rows)
                                                    /\ n.index = "out" <=> r.index = "out"
  BY <1>1 DEF ToInsert
<1>3. d = [t EXCEPT !.rows = t.rows \cup new]
  BY DEF Merged, Content
<1> HIDE DEF new
<1>4. d \in Content /\ d.head = t.head /\ d.rows = t.rows \cup new
  BY <1>2, <1>3 DEF Content
<1> HIDE DEF d
<1>5. Ids(d.rows) = Ids(t.rows) \cup Ids(new) /\ Ids(new) \subseteq Ids(s.rows)
  BY <1>2, <1>4 DEF Ids
<1>6. IdsUnique(d)
  <2>1. SUFFICES ASSUME NEW q \in d.rows, NEW r \in d.rows, q.id = r.id PROVE q = r
    BY DEF IdsUnique
  <2>2. CASE q \in t.rows /\ r \in t.rows
    BY <2>1, <2>2 DEF Proper, IdsUnique
  <2>3. CASE q \in new /\ r \in new
    BY <1>2, <2>1, <2>3 DEF Proper, IdsUnique
  <2>4. CASE (q \in t.rows /\ r \in new) \/ (q \in new /\ r \in t.rows)
    BY <1>2, <2>1, <2>4 DEF Ids
  <2>5. QED BY <1>4, <2>1, <2>2, <2>3, <2>4
<1>7. \A r \in d.rows : r.index = "out" <=> r.id \in Excluded
  BY <1>2, <1>4 DEF Proper
<1>8. Proper(d, seen)
  BY <1>5, <1>6, <1>7 DEF Proper
<1>9. QED BY <1>4, <1>5, <1>8 DEF d

\* The merge: under the write lock of its target, or refused.
LEMMA MergeKeeps ==
    ASSUME ContentInv, NEW p \in Proc, Merge(p)
    PROVE  ContentInv'
<1> DEFINE t == op[p].dst
<1>1. Typed /\ LockIsHeld /\ DatabasesHold /\ BackupsHold /\ \A q \in Proc : Stands(q)
  BY DEF ContentInv
<1>2. op[p].pc = "merge" /\ op[p].pc \in Locked /\ Done(p) /\ UNCHANGED <<reg, gone>>
  BY DEF Merge, At, Locked
<1>3. mig = p /\ \A q \in Proc \ {p} : op[q].pc \notin Locked
  BY <1>1, <1>2, OneHolder
<1>4. /\ op' \in [Proc -> Doing] /\ mig' \in Proc \cup {None} /\ LockIsHeld'
      /\ op'[p] = Idle /\ \A q \in Proc \ {p} : op'[q] = op[q]
  BY <1>1, <1>2, DoneReleases
<1>5. t \in reg /\ t \in Ns
  BY <1>1, <1>2 DEF Stands, Retiring
<1>6. PICK s \in op[p].todo : op[p].todo = {s} /\ s \in Content /\ Proper(s, hist.seen)
  BY <1>1, <1>2 DEF Stands
<1>7. (CHOOSE d \in op[p].todo : TRUE) = s
  BY <1>6
<1>8. CASE /\ backups' = {b \in backups : b.id \notin op[p].left}
           /\ UNCHANGED <<live, hist>>
  <2>1. DatabasesHold'
    BY <1>1, <1>2, <1>8, DatabasesStay DEF DatabasesHold, Typed, History
  <2>2. BackupsHold'
    <3>1. \A b \in backups' : \E c \in backups : Same(b, c)
      BY <1>8 DEF Same
    <3>2. \A b, c \in backups' : b.id = c.id => b = c
      BY <1>1, <1>8 DEF BackupsHold
    <3>3. Alive' = Alive
      BY <1>2, <1>8 DEF Alive
    <3>4. hist'.files \in Nat /\ hist.files <= hist'.files
      BY <1>1, <1>8 DEF Typed, History
    <3>5. QED BY <1>1, <1>8, <3>1, <3>2, <3>3, <3>4, BackupsStay
  <2>3. \A q \in Proc : Stands(q)'
    BY <1>1, <1>3, <1>4, <1>8, IdleStands, UnlockedStands
  <2>4. Typed'
    BY <1>1, <1>2, <1>4, <1>8 DEF Typed
  <2>5. QED BY <1>4, <1>8, <2>1, <2>2, <2>3, <2>4 DEF ContentInv
<1>9. CASE /\ live' = [live EXCEPT ![t] = Merged(s, live[t])]
           /\ backups' = backups \cup {NewBackup(hist.files, t, live[t])}
           /\ hist' = [hist EXCEPT !.files = @ + 1]
  <2>1. live[t] \in Content /\ Proper(live[t], hist.seen)
    BY <1>1, <1>5 DEF Typed, DatabasesHold
  <2>2. /\ hist' \in History /\ hist'.seen = hist.seen /\ hist'.late = hist.late
        /\ hist'.purged = hist.purged /\ hist'.exports = hist.exports /\ hist'.clean = hist.clean
        /\ hist'.heads = hist.heads /\ hist'.files = hist.files + 1
    BY <1>1, <1>9 DEF Typed, History
  <2> DEFINE d == Merged(s, live[t])
  <2>3. /\ d \in Content /\ d.head = live[t].head /\ live[t].rows \subseteq d.rows
        /\ Ids(live[t].rows) \subseteq Ids(d.rows) /\ Proper(d, hist'.seen)
    BY <1>6, <2>1, <2>2, MergedIsProper
  <2> HIDE DEF d
  <2>4. live' = [live EXCEPT ![t] = d]
    BY <1>9 DEF d
  <2>5. Grows(t, d)
    BY <1>2, <1>5, <2>2, <2>3, <2>4 DEF Grows
  <2>6. DatabasesHold' /\ Alive \subseteq Alive' /\ live' \in [Ns -> Content] /\ live'[t] = d
    BY <1>1, <2>5, GrowthHolds
  <2>7. BackupsHold' /\ backups' \subseteq Backup
    BY <1>1, <1>5, <1>9, <2>2, <2>6, NewBackupHolds
  <2>8. \A q \in Proc : Stands(q)'
    BY <1>1, <1>3, <1>4, <2>2, IdleStands, UnlockedStands
  <2>9. Typed'
    BY <1>1, <1>2, <1>4, <2>2, <2>6, <2>7 DEF Typed
  <2>10. QED BY <1>4, <2>6, <2>7, <2>8, <2>9 DEF ContentInv
<1>10. QED BY <1>7, <1>8, <1>9 DEF Merge

\* The row of a purge: no bundle answers with the new head.
LEMMA PurgeRowKeeps ==
    ASSUME ContentInv, NEW p \in Proc, NEW ns \in Ns, NEW m \in Mem, PurgeRow(p, ns, m)
    PROVE  ContentInv'
<1> DEFINE h == hist.heads + 1
           d == Erase(live[ns], m, h)
           o == [Idle EXCEPT !.pc = "purged", !.mem = m]
<1>1. Typed /\ LockIsHeld /\ DatabasesHold /\ BackupsHold /\ \A q \in Proc : Stands(q)
  BY DEF ContentInv
<1>2. h \in Nat /\ hist.heads \in Nat /\ hist.heads < h
  BY <1>1 DEF Typed, History
<1>3. /\ op[p] = Idle /\ m \in Ids(live[ns].rows) /\ live' = [live EXCEPT ![ns] = d]
      /\ op' = [op EXCEPT ![p] = o] /\ UNCHANGED <<reg, gone, backups, mig>>
  BY DEF PurgeRow
<1>4. /\ hist' \in History /\ hist'.seen = hist.seen /\ hist'.late = hist.late
      /\ hist'.purged = hist.purged \cup {<<ns, m>>} /\ hist'.exports = hist.exports
      /\ hist'.clean = hist.clean \ {m} /\ hist'.heads = h /\ hist'.files = hist.files
  <2>1. {<<ns, m>>} \in SUBSET (Ns \X Mem) /\ hist \in History
    BY <1>1 DEF Typed
  <2>2. hist.purged \cup {<<ns, m>>} \in SUBSET (Ns \X Mem)
    BY <2>1 DEF History
  <2>3. hist' = [hist EXCEPT !.purged = @ \cup {<<ns, m>>}, !.clean = @ \ {m}, !.heads = h]
    BY DEF PurgeRow
  <2> HIDE DEF h
  <2> DEFINE asked == hist.purged \cup {<<ns, m>>}
             tidy == hist.clean \ {m}
  <2>4. asked \in SUBSET (Ns \X Mem) /\ tidy \in SUBSET Mem
    BY <2>1, <2>2 DEF History
  <2>5. hist' = [hist EXCEPT !.purged = asked, !.clean = tidy, !.heads = h]
    BY <2>3
  <2> HIDE DEF asked, tidy
  <2>6. /\ hist' \in History /\ hist'.seen = hist.seen /\ hist'.late = hist.late
        /\ hist'.purged = asked /\ hist'.exports = hist.exports
        /\ hist'.clean = tidy /\ hist'.heads = h /\ hist'.files = hist.files
    BY <1>2, <2>1, <2>4, <2>5 DEF History
  <2>7. QED BY <2>6 DEF asked, tidy
<1>5. o \in Doing /\ o.pc = "purged" /\ o.mem = m /\ o.left = {}
  BY DEF Idle, Doing, Pcs
<1>6. live[ns] \in Content
  BY <1>1 DEF Typed
<1> HIDE DEF h, d, o
<1>7. d \in Content /\ d.head = h /\ d.rows = {r \in live[ns].rows : r.id # m}
  <2>1. h \in Nat
    BY <1>2
  <2>2. QED BY <1>6, <2>1, ErasedContent DEF d
<1>8. Ids(d.rows) = Ids(live[ns].rows) \ {m}
  BY <1>7 DEF Ids
<1>9. /\ live' \in [Ns -> Content] /\ live'[ns] = d /\ \A n \in Ns \ {ns} : live'[n] = live[n]
  BY <1>1, <1>3, <1>7 DEF Typed
<1>10. \A n \in Ns : /\ Ids(live'[n].rows) \subseteq Ids(live[n].rows)
                     /\ Ids(live[n].rows) \subseteq Ids(live'[n].rows) \cup {m}
  BY <1>8, <1>9
<1>11. Alive \subseteq Alive' \cup {m} /\ Alive' \subseteq Alive
  BY <1>3, <1>10 DEF Alive
<1>12. m \in hist.seen
  BY <1>1, <1>3 DEF DatabasesHold, Proper
<1>13. DatabasesHold'
  <2>1. \A n \in Ns : Proper(live'[n], hist'.seen)
    <3>1. Proper(live[ns], hist.seen)
      BY <1>1 DEF DatabasesHold
    <3>2. Proper(d, hist.seen)
      BY <1>7, <1>8, <3>1 DEF Proper, IdsUnique
    <3>3. QED BY <1>1, <1>4, <1>9, <3>2 DEF DatabasesHold
  <2>2. HeadsTellPurges'
    <3>1. \A n \in Ns : live'[n].head <= h
      BY <1>1, <1>2, <1>7, <1>9 DEF DatabasesHold, HeadsTellPurges, Typed, Content
    <3>2. ASSUME NEW x \in hist.exports
          PROVE  x.head <= h /\ (x.head = live'[x.of].head => x.ids \subseteq Ids(live'[x.of].rows))
      <4>1. x.head \in Nat /\ x.of \in Ns /\ x.head <= hist.heads
        BY <1>1 DEF DatabasesHold, HeadsTellPurges, Typed, History, Bundle
      <4>2. CASE x.of = ns
        BY <1>2, <1>7, <1>9, <4>1, <4>2
      <4>3. CASE x.of # ns
        BY <1>1, <1>2, <1>9, <4>1, <4>3 DEF DatabasesHold, HeadsTellPurges
      <4>4. QED BY <4>2, <4>3
    <3>3. QED BY <1>4, <3>1, <3>2 DEF HeadsTellPurges
  <2>3. NoRowLost'
    BY <1>1, <1>4, <1>11 DEF DatabasesHold, NoRowLost
  <2>4. QED BY <1>1, <1>3, <1>4, <2>1, <2>2, <2>3 DEF DatabasesHold
<1>14. BackupsHold'
  BY <1>1, <1>3, <1>4, <1>11 DEF BackupsHold, NoCopySurvives, RestoredBackupRefuses
<1>15. op' \in [Proc -> Doing] /\ op'[p] = o /\ \A q \in Proc \ {p} : op'[q] = op[q]
  BY <1>1, <1>3, <1>5 DEF Typed
<1>16. ASSUME NEW q \in Proc PROVE Stands(q)'
  <2>1. CASE q = p
    BY <1>4, <1>5, <1>12, <1>15, <2>1 DEF Stands, Retiring
  <2>2. CASE q # p
    <3>1. Stands(q) /\ op'[q] = op[q]
      BY <1>1, <1>15, <2>2
    <3>2. op[q].pc = "unlink" => Covered(op[q].src, op[q].dst)'
      <4>1. SUFFICES ASSUME op[q].pc = "unlink", NEW k \in Ids(live'[op[q].src].rows)
                     PROVE  \/ k \in Ids(live'[op[q].dst].rows)
                            \/ k \notin hist'.clean /\ (k \in hist'.late \/ WasPurged(k)')
        BY <3>1 DEF Covered
      <4>2. op[q].src \in Ns /\ op[q].dst \in Ns /\ Covered(op[q].src, op[q].dst)
        BY <3>1, <4>1 DEF Stands, Retiring
      <4>3. k \in Ids(live[op[q].src].rows)
        BY <1>10, <4>1, <4>2
      <4>4. CASE k = m
        BY <1>4, <4>4 DEF WasPurged
      <4>5. CASE k # m
        BY <1>4, <1>10, <4>2, <4>3, <4>5 DEF Covered, WasPurged
      <4>6. QED BY <4>4, <4>5
    <3>3. \A b, k : Rid(b, k)' <=> Rid(b, k)
      BY <1>4 DEF Rid
    <3>4. QED BY <1>3, <1>4, <3>1, <3>2, <3>3 DEF Stands
  <2>3. QED BY <2>1, <2>2
<1>17. LockIsHeld'
  BY <1>1, <1>3, <1>5, <1>15, IdleIsTyped DEF LockIsHeld, Locked
<1>18. Typed'
  BY <1>1, <1>3, <1>4, <1>9, <1>15 DEF Typed
<1>19. QED BY <1>13, <1>14, <1>16, <1>17, <1>18 DEF ContentInv

\* A bundle is made of rows that are there, under the head they have.
LEMMA ExportKeeps ==
    ASSUME ContentInv, NEW ns \in Ns, Export(ns)
    PROVE  ContentInv'
<1> DEFINE x == [ids |-> Ids(live[ns].rows), head |-> live[ns].head, of |-> ns]
<1>1. Typed /\ LockIsHeld /\ DatabasesHold /\ BackupsHold /\ \A q \in Proc : Stands(q)
  BY DEF ContentInv
<1>2. ns \in reg /\ mig = None /\ UNCHANGED <<live, reg, gone, backups, mig, op>>
  BY DEF Export
<1>3. /\ x \in Bundle /\ x.ids = Ids(live[ns].rows) /\ x.head = live[ns].head /\ x.of = ns
  BY <1>1 DEF Typed, Content, Bundle, Ids, Row
<1>4. /\ hist' = [hist EXCEPT !.exports = @ \cup {x}]
  BY DEF Export
<1> HIDE DEF x
<1>5. /\ hist' \in History /\ hist'.seen = hist.seen /\ hist'.late = hist.late
      /\ hist'.purged = hist.purged /\ hist'.exports = hist.exports \cup {x}
      /\ hist'.clean = hist.clean /\ hist'.heads = hist.heads /\ hist'.files = hist.files
  BY <1>1, <1>3, <1>4 DEF Typed, History
<1>6. \A q \in Proc : op[q].pc \notin Locked
  BY <1>1, <1>2, OneHolder
<1>7. Alive' = Alive /\ x.ids \subseteq Alive
  BY <1>1, <1>2, <1>3 DEF Alive, DatabasesHold
<1>8. DatabasesHold'
  <2>1. HeadsTellPurges'
    BY <1>1, <1>2, <1>3, <1>5 DEF DatabasesHold, HeadsTellPurges
  <2>2. QED BY <1>1, <1>2, <1>5, <1>7, <2>1 DEF DatabasesHold, NoRowLost
<1>9. BackupsHold'
  BY <1>1, <1>2, <1>5, <1>7 DEF BackupsHold, NoCopySurvives, RestoredBackupRefuses
<1>10. \A q \in Proc : Stands(q)'
  BY <1>1, <1>2, <1>5, <1>6, UnlockedStands
<1>11. LockIsHeld' /\ Typed'
  BY <1>1, <1>2, <1>5 DEF Typed, LockIsHeld
<1>12. QED BY <1>8, <1>9, <1>10, <1>11 DEF ContentInv

\* Where nothing a process relies on changes, it stands on.
LEMMA StandsStill ==
    ASSUME NEW q \in Proc, Stands(q), op'[q] = op[q], UNCHANGED <<live, reg>>,
           hist'.seen = hist.seen, hist'.late = hist.late, hist'.purged = hist.purged,
           hist'.clean = hist.clean, hist'.exports = hist.exports,
           \A b \in backups' : \E c \in backups : Same(b, c)
    PROVE  Stands(q)'
<1>1. \A s, t : Covered(s, t)' <=> Covered(s, t)
  BY DEF Covered, WasPurged
<1>2. \A b, c, m : Same(b, c) /\ Rid(c, m) => Rid(b, m)'
  BY DEF Same, Rid
<1>3. op[q].pc = "sweep" =>
        \A b \in backups' : b.id \in op[q].todo \cup op[q].left \/ Rid(b, op[q].mem)'
  BY <1>2 DEF Stands, Same
<1>4. QED BY <1>1, <1>3 DEF Stands

\* An operation ends anywhere: the lock goes, what it wrote stays.
LEMMA CrashKeeps ==
    ASSUME ContentInv, NEW p \in Proc, Crash(p)
    PROVE  ContentInv'
<1>1. Typed /\ LockIsHeld /\ DatabasesHold /\ BackupsHold /\ \A q \in Proc : Stands(q)
  BY DEF ContentInv
<1>2. Done(p) /\ UNCHANGED <<live, reg, gone, backups>>
  BY DEF Crash
<1>3. /\ hist' \in History /\ hist'.seen = hist.seen /\ hist'.late = hist.late
      /\ hist'.purged = hist.purged /\ hist'.exports = hist.exports
      /\ hist'.clean = hist.clean /\ hist'.heads = hist.heads /\ hist'.files = hist.files
  BY <1>1 DEF Crash, Typed, History
<1>4. /\ op' \in [Proc -> Doing] /\ mig' \in Proc \cup {None} /\ LockIsHeld'
      /\ op'[p] = Idle /\ \A q \in Proc \ {p} : op'[q] = op[q]
  BY <1>1, <1>2, DoneReleases
<1>5. \A b \in backups' : \E c \in backups : Same(b, c)
  BY <1>2 DEF Same
<1>6. DatabasesHold' /\ BackupsHold'
  <2>1. DatabasesHold'
    BY <1>1, <1>2, <1>3, DatabasesStay DEF DatabasesHold, Typed, History
  <2>2. BackupsHold'
    BY <1>1, <1>2, <1>3 DEF BackupsHold, NoCopySurvives, RestoredBackupRefuses, Alive
  <2>3. QED BY <2>1, <2>2
<1>7. \A q \in Proc : Stands(q)'
  BY <1>1, <1>2, <1>3, <1>4, <1>5, IdleStands, StandsStill
<1>8. Typed'
  BY <1>1, <1>2, <1>3, <1>4 DEF Typed
<1>9. QED BY <1>4, <1>6, <1>7, <1>8 DEF ContentInv

\* A backup that is no longer private is the same backup to a reader.
LEMMA SpoilKeeps ==
    ASSUME ContentInv, NEW b \in backups, Spoil(b)
    PROVE  ContentInv'
<1> DEFINE e == [b EXCEPT !.sound = FALSE]
<1>1. Typed /\ LockIsHeld /\ DatabasesHold /\ BackupsHold /\ \A q \in Proc : Stands(q)
  BY DEF ContentInv
<1>2. backups' = (backups \ {b}) \cup {e} /\ UNCHANGED <<live, reg, gone, mig, op>>
  BY DEF Spoil
<1>3. e \in Backup /\ Same(e, b)
  BY <1>1 DEF Typed, Backup, Same
<1> HIDE DEF e
<1>4. /\ hist' \in History /\ hist'.seen = hist.seen /\ hist'.late = hist.late
      /\ hist'.purged = hist.purged /\ hist'.exports = hist.exports
      /\ hist'.clean = hist.clean /\ hist'.heads = hist.heads /\ hist'.files = hist.files
  BY <1>1 DEF Spoil, Typed, History
<1>5. \A c \in backups' : \E d \in backups : Same(c, d)
  BY <1>2, <1>3 DEF Same
<1>6. \A c, d \in backups' : c.id = d.id => c = d
  BY <1>1, <1>2, <1>3 DEF BackupsHold, Same
<1>7. Alive' = Alive
  BY <1>2 DEF Alive
<1>8. DatabasesHold'
  BY <1>1, <1>2, <1>4, DatabasesStay DEF DatabasesHold, Typed, History
<1>9. BackupsHold'
  BY <1>1, <1>4, <1>5, <1>6, <1>7, BackupsStay DEF Typed, History
<1>10. \A q \in Proc : Stands(q)'
  BY <1>1, <1>2, <1>4, <1>5, StandsStill
<1>11. LockIsHeld' /\ Typed'
  BY <1>1, <1>2, <1>3, <1>4 DEF Typed, LockIsHeld
<1>12. QED BY <1>8, <1>9, <1>10, <1>11 DEF ContentInv

-----------------------------------------------------------------------------
(* The specification.                                                       *)

\* Empty databases, a whole registry and no backup.
LEMMA ContentStarts == Init => ContentInv
<1> SUFFICES ASSUME Init PROVE ContentInv
  OBVIOUS
<1>1. Typed
  <2>1. [rows |-> {}, head |-> 0] \in Content
    BY DEF Content
  <2>2. hist \in History
    BY DEF Init, History
  <2>3. QED BY <2>1, <2>2, IdleIsTyped DEF Init, Typed
<1>2. LockIsHeld
  BY NoneIsNobody, IdleIsTyped DEF Init, LockIsHeld
<1>3. \A ns \in Ns : live[ns].rows = {} /\ live[ns].head = 0
  BY DEF Init
<1>4. DatabasesHold
  <2>1. \A ns \in Ns : Proper(live[ns], hist.seen)
    BY <1>3 DEF Proper, IdsUnique, Ids
  <2>2. QED BY <1>3, <2>1 DEF Init, DatabasesHold, HeadsTellPurges, NoRowLost
<1>5. BackupsHold
  BY DEF Init, BackupsHold, NoCopySurvives, RestoredBackupRefuses
<1>6. \A p \in Proc : Stands(p)
  BY DEF Init, Stands, Idle, Retiring
<1>7. QED BY <1>1, <1>2, <1>4, <1>5, <1>6 DEF ContentInv

\* Steps of other specifications.
LEMMA StutterKeeps ==
    ASSUME ContentInv, UNCHANGED vars
    PROVE  ContentInv'
<1>1. Typed /\ LockIsHeld /\ DatabasesHold /\ BackupsHold /\ \A q \in Proc : Stands(q)
  BY DEF ContentInv
<1>2. UNCHANGED <<live, reg, gone, backups, mig, op, hist>>
  BY DEF vars
<1>3. DatabasesHold' /\ BackupsHold'
  BY <1>1, <1>2, NothingWritten
<1>4. \A b \in backups' : \E c \in backups : Same(b, c)
  BY <1>2 DEF Same
<1>5. \A q \in Proc : Stands(q)'
  BY <1>1, <1>2, <1>4, StandsStill
<1>6. LockIsHeld' /\ Typed'
  BY <1>1, <1>2 DEF Typed, LockIsHeld
<1>7. QED BY <1>3, <1>5, <1>6 DEF ContentInv

\* Every step of the specification, action by action.
LEMMA StepKeeps ==
    ASSUME ContentInv, [Next]_vars
    PROVE  ContentInv'
<1>1. CASE UNCHANGED vars
  BY <1>1, StutterKeeps
<1>2. ASSUME NEW ns \in Ns, NEW r \in live[ns].rows, NEW s, Change(ns, r, s) PROVE ContentInv'
  BY <1>2, ChangeKeeps
<1>3. ASSUME NEW p \in Proc, ApplyPlan(p) \/ Merge(p) \/ Deregister(p) \/ LookAgain(p) \/ Unlink(p)
      PROVE  ContentInv'
  BY <1>3, ApplyPlanKeeps, MergeKeeps, DeregisterKeeps, LookAgainKeeps, UnlinkKeeps
<1>4. ASSUME NEW p \in Proc, SweepStart(p) \/ SweepOne(p) \/ SweepDone(p) \/ Crash(p)
      PROVE  ContentInv'
  BY <1>4, SweepStartKeeps, SweepOneKeeps, SweepDoneKeeps, CrashKeeps
<1>5. QED BY <1>1, <1>2, <1>3, <1>4, ExportKeeps, ObserveKeeps, DryRunKeeps, RetireBackupKeeps,
             PurgeRowKeeps, SpoilKeeps DEF Next

-----------------------------------------------------------------------------
(* Corrections.                                                             *)

ClosedIn(ns, m) == \E r \in live[ns].rows : r.id = m /\ r.state = "closed"

\* Every correction still stands if these files go.
StandWithout(lost) == \A m \in hist.closed : WasPurged(m) \/ \E ns \in Ns \ lost : ClosedIn(ns, m)

\* So it is of the files that are gone, and of the one about to be unlinked.
CorrectionsHold ==
    /\ StandWithout(gone)
    /\ \A p \in Proc : op[p].pc = "unlink" => StandWithout(gone \cup {op[p].src})

\* What keeps a correction: its closed row stays, in the same database, or is
\* purged, and no new one is claimed of a database about to go.
LEMMA CorrectionsStand ==
    ASSUME NEW lost, StandWithout(lost),
           \A ns \in Ns, m \in Mem : ClosedIn(ns, m) => ClosedIn(ns, m)' \/ WasPurged(m)',
           hist.purged \subseteq hist'.purged, hist.closed \subseteq Mem,
           \A m \in hist'.closed \ hist.closed : \E ns \in Ns \ lost : ClosedIn(ns, m)'
    PROVE  /\ \A m \in hist'.closed : WasPurged(m)' \/ \E ns \in Ns \ lost : ClosedIn(ns, m)'
<1>1. SUFFICES ASSUME NEW m \in hist'.closed
               PROVE  WasPurged(m)' \/ \E ns \in Ns \ lost : ClosedIn(ns, m)'
  OBVIOUS
<1>2. CASE m \in hist.closed
  <2>1. WasPurged(m) => WasPurged(m)'
    BY DEF WasPurged
  <2>2. QED BY <1>2, <2>1 DEF StandWithout
<1>3. QED BY <1>2

\* Steps that write no database and close nothing, unlink nothing and come to
\* no unlinking.
LEMMA CorrectionsStay ==
    ASSUME CorrectionsHold, hist'.closed = hist.closed, hist'.purged = hist.purged, gone' = gone,
           \A ns \in Ns : live[ns].rows \subseteq live'[ns].rows,
           \A q \in Proc : op'[q].pc = "unlink" => op'[q] = op[q]
    PROVE  CorrectionsHold'
<1>1. \A ns \in Ns : \A m : ClosedIn(ns, m) => ClosedIn(ns, m)'
  BY DEF ClosedIn
<1>2. \A m : WasPurged(m) <=> WasPurged(m)'
  BY DEF WasPurged
<1>3. QED BY <1>1, <1>2 DEF CorrectionsHold, StandWithout

LEMMA ChangeCorrects ==
    ASSUME ContentInv, CorrectionsHold, NEW ns \in Ns, NEW r \in live[ns].rows, NEW s, Change(ns, r, s)
    PROVE  CorrectionsHold'
<1>1. Typed
  BY DEF ContentInv
<1>2. /\ r \in Row /\ s \in Row /\ s.id = r.id /\ (r.state = "closed" => s.state = "closed")
      /\ ns \notin gone /\ UNCHANGED <<gone, op>>
  BY <1>1 DEF Change, Typed, Content, Row
<1>3. /\ live'[ns].rows = (live[ns].rows \ {r}) \cup {s}
      /\ \A n \in Ns \ {ns} : live'[n] = live[n]
  BY <1>1 DEF Change, Typed, Content
<1>4. \A n \in Ns, m \in Mem : ClosedIn(n, m) => ClosedIn(n, m)'
  BY <1>2, <1>3 DEF ClosedIn
<1>5. /\ hist'.purged = hist.purged /\ hist.closed \subseteq Mem
      /\ \A m \in hist'.closed \ hist.closed : m = r.id /\ s.state = "closed" /\ ~PastLastLook(ns)
  <2>1. PICK c : c = IF PastLastLook(ns) THEN hist.closed ELSE hist.closed \cup {r.id}
    OBVIOUS
  <2>2. \/ hist' = [hist EXCEPT !.closed = c] /\ s = [r EXCEPT !.state = "closed"]
        \/ hist' = hist
    BY <2>1 DEF Change
  <2>3. s = [r EXCEPT !.state = "closed"] => s.state = "closed"
    BY <1>2 DEF Row
  <2>4. hist \in History
    BY <1>1 DEF Typed
  <2>5. QED BY <2>1, <2>2, <2>3, <2>4 DEF History
<1>6. \A m \in hist'.closed \ hist.closed : ClosedIn(ns, m)' /\ \A q \in Proc : op[q].pc = "unlink" => op[q].src # ns
  BY <1>2, <1>3, <1>5 DEF ClosedIn, PastLastLook, At
<1>7. StandWithout(gone)'
  BY <1>2, <1>4, <1>5, <1>6, CorrectionsStand DEF CorrectionsHold, StandWithout
<1>8. ASSUME NEW q \in Proc, op'[q].pc = "unlink" PROVE StandWithout(gone \cup {op[q].src})'
  <2>1. PICK lost : lost = gone \cup {op[q].src}
    OBVIOUS
  <2>2. StandWithout(lost) /\ lost' = lost
    BY <1>2, <1>8, <2>1 DEF CorrectionsHold
  <2>3. \A m \in hist'.closed \ hist.closed : \E n \in Ns \ lost : ClosedIn(n, m)'
    BY <1>2, <1>6, <1>8, <2>1
  <2>4. \A m \in hist'.closed : WasPurged(m)' \/ \E n \in Ns \ lost : ClosedIn(n, m)'
    BY <1>4, <1>5, <2>2, <2>3, CorrectionsStand
  <2>5. QED BY <1>2, <2>1, <2>4 DEF StandWithout
<1>9. QED BY <1>2, <1>7, <1>8 DEF CorrectionsHold

\* A row that is purged is excused wherever it was closed.
LEMMA PurgeCorrects ==
    ASSUME ContentInv, CorrectionsHold, NEW p \in Proc, NEW ns \in Ns, NEW m \in Mem, PurgeRow(p, ns, m)
    PROVE  CorrectionsHold'
<1>1. Typed /\ live[ns] \in Content
  BY DEF ContentInv, Typed
<1>2. /\ hist'.closed = hist.closed /\ hist'.purged = hist.purged \cup {<<ns, m>>} /\ gone' = gone
      /\ hist.closed \subseteq Mem
  BY <1>1 DEF PurgeRow, Typed, History
<1>3. \A q \in Proc : op'[q].pc = "unlink" => op'[q] = op[q]
  BY <1>1 DEF PurgeRow, Typed, Idle
<1>4. /\ \A n \in Ns \ {ns} : live'[n] = live[n]
      /\ \A r \in live[ns].rows : r.id # m => r \in live'[ns].rows
  BY <1>1 DEF PurgeRow, Erase, Typed, Content
<1>5. \A n \in Ns, k \in Mem : ClosedIn(n, k) => ClosedIn(n, k)' \/ WasPurged(k)'
  BY <1>2, <1>4 DEF ClosedIn, WasPurged
<1>6. \A lost : StandWithout(lost) =>
           \A k \in hist'.closed : WasPurged(k)' \/ \E n \in Ns \ lost : ClosedIn(n, k)'
  BY <1>2, <1>5, CorrectionsStand
<1>7. StandWithout(gone)'
  BY <1>2, <1>6 DEF CorrectionsHold, StandWithout
<1>8. ASSUME NEW q \in Proc, op'[q].pc = "unlink" PROVE StandWithout(gone \cup {op[q].src})'
  <2>1. PICK lost : lost = gone \cup {op[q].src}
    OBVIOUS
  <2>2. StandWithout(lost) /\ (gone' \cup {op'[q].src}) = lost
    BY <1>2, <1>3, <1>8, <2>1 DEF CorrectionsHold
  <2>3. QED BY <1>3, <1>6, <1>8, <2>1, <2>2 DEF StandWithout
<1>9. QED BY <1>3, <1>7, <1>8 DEF CorrectionsHold

\* The last look: a row of the source that is closed is closed in the target.
LEMMA LookCorrects ==
    ASSUME ContentInv, CorrectionsHold, NEW p \in Proc, LookAgain(p)
    PROVE  CorrectionsHold'
<1> DEFINE s == op[p].src
           t == op[p].dst
<1>1. Typed /\ DatabasesHold /\ Stands(p)
  BY DEF ContentInv
<1>2. op[p].pc = "look" /\ UNCHANGED <<live, reg, gone, backups, hist>>
  BY DEF LookAgain, At
<1>3. s \in Ns /\ t \in Ns /\ s # t /\ t \notin gone
  BY <1>1, <1>2 DEF Stands, Retiring, DatabasesHold
<1>4. CASE Done(p)
  <2>1. \A q \in Proc : op'[q].pc = "unlink" => op'[q] = op[q]
    BY <1>1, <1>4 DEF Done, Typed, Idle
  <2>2. QED BY <1>2, <2>1, CorrectionsStay
<1>5. CASE Drained(live[s], live[t]) /\ op' = [op EXCEPT ![p].pc = "unlink"]
  <2>1. \A m : ClosedIn(s, m) => ClosedIn(t, m)
    <3>1. SUFFICES ASSUME NEW r \in live[s].rows, r.state = "closed"
                   PROVE  \E q \in live[t].rows : q.id = r.id /\ q.state = "closed"
      BY DEF ClosedIn
    <3>2. PICK q \in live[t].rows : q.id = r.id
      BY <1>5 DEF Drained, ToInsert, Ids
    <3>3. QED BY <1>5, <3>1, <3>2 DEF Drained, Colliding
  <2> HIDE DEF s, t
  <2>2. StandWithout(gone \cup {s})
    BY <1>3, <2>1 DEF CorrectionsHold, StandWithout
  <2>3. op'[p].src = s /\ \A q \in Proc \ {p} : op'[q] = op[q]
    BY <1>1, <1>5 DEF Typed, Doing, s
  <2>4. \A lost : StandWithout(lost) <=> StandWithout(lost)'
    BY <1>2 DEF StandWithout, WasPurged, ClosedIn
  <2>5. QED BY <1>2, <2>2, <2>3, <2>4 DEF CorrectionsHold, StandWithout, WasPurged, ClosedIn
<1>6. QED BY <1>4, <1>5 DEF LookAgain, Stranded

LEMMA UnlinkCorrects ==
    ASSUME ContentInv, CorrectionsHold, NEW p \in Proc, Unlink(p)
    PROVE  CorrectionsHold'
<1>1. Typed /\ LockIsHeld /\ op[p].pc = "unlink" /\ op[p].pc \in Locked
  BY DEF ContentInv, Unlink, At, Locked
<1>2. gone' = gone \cup {op[p].src} /\ Done(p) /\ UNCHANGED <<live, hist>>
  BY DEF Unlink
<1>3. \A q \in Proc : op'[q].pc # "unlink"
  BY <1>1, <1>2, OneHolder DEF Done, Typed, Idle, Locked
<1>4. QED BY <1>1, <1>2, <1>3 DEF CorrectionsHold, StandWithout, WasPurged, ClosedIn

LEMMA MergeCorrects ==
    ASSUME ContentInv, CorrectionsHold, NEW p \in Proc, Merge(p)
    PROVE  CorrectionsHold'
<1>1. Typed /\ op[p].dst \in Ns
  BY DEF ContentInv, Merge, At, Stands
<1>2. hist'.closed = hist.closed /\ hist'.purged = hist.purged /\ gone' = gone
  BY <1>1 DEF Merge, Typed, History
<1>3. \A ns \in Ns : live[ns].rows \subseteq live'[ns].rows
  <2>1. PICK s : s = CHOOSE d \in op[p].todo : TRUE
    OBVIOUS
  <2>2. PICK new : new = {Requeued(r) : r \in ToInsert(s, live[op[p].dst])}
    OBVIOUS
  <2>3. live' = [live EXCEPT ![op[p].dst].rows = @ \cup new] \/ live' = live
    BY <2>1, <2>2 DEF Merge, Merged
  <2>4. QED BY <1>1, <2>3 DEF Typed, Content
<1>4. \A q \in Proc : op'[q].pc = "unlink" => op'[q] = op[q]
  BY <1>1 DEF Merge, Done, Typed, Idle
<1>5. QED BY <1>2, <1>3, <1>4, CorrectionsStay

LEMMA ObserveCorrects ==
    ASSUME ContentInv, CorrectionsHold, NEW ns \in Ns, NEW m \in Mem, Observe(ns, m)
    PROVE  CorrectionsHold'
<1>1. Typed
  BY DEF ContentInv
<1>2. /\ hist'.closed = hist.closed /\ hist'.purged = hist.purged /\ UNCHANGED <<gone, op>>
  BY <1>1 DEF Observe, Typed, History
<1>3. PICK r : r = [id |-> m, state |-> "open", index |-> IF m \in Excluded THEN "out" ELSE "job"]
  OBVIOUS
<1>4. live' = [live EXCEPT ![ns].rows = @ \cup {r}]
  BY <1>3 DEF Observe
<1>5. \A n \in Ns : live[n].rows \subseteq live'[n].rows
  BY <1>1, <1>4 DEF Typed, Content
<1>6. QED BY <1>2, <1>5, CorrectionsStay

\* All other steps leave the databases, the files and the histories alone.
LEMMA OthersCorrect ==
    ASSUME ContentInv, CorrectionsHold, UNCHANGED <<live, gone>>,
           hist'.closed = hist.closed, hist'.purged = hist.purged,
           \A q \in Proc : op'[q].pc = "unlink" => op'[q] = op[q]
    PROVE  CorrectionsHold'
  BY CorrectionsStay

LEMMA CorrectionsKeep ==
    ASSUME ContentInv, CorrectionsHold, [Next]_vars
    PROVE  CorrectionsHold'
<1>1. Typed /\ hist \in History /\ op \in [Proc -> Doing]
  BY DEF ContentInv, Typed
<1>2. CASE UNCHANGED vars
  BY <1>2, OthersCorrect DEF vars
<1>3. ASSUME NEW ns \in Ns, Export(ns) PROVE CorrectionsHold'
  BY <1>1, <1>3, OthersCorrect DEF Export, History
<1>4. ASSUME NEW ns \in Ns, NEW r \in live[ns].rows, NEW s, Change(ns, r, s) PROVE CorrectionsHold'
  BY <1>4, ChangeCorrects
<1>5. ASSUME NEW p \in Proc, NEW s \in Ns, NEW t \in Ns, DryRun(p, s, t) \/ RetireBackup(p, s, t)
      PROVE  CorrectionsHold'
  <2>1. \A q \in Proc : op'[q].pc = "unlink" => op'[q] = op[q]
    BY <1>1, <1>5 DEF DryRun, RetireBackup, Idle
  <2>2. hist'.closed = hist.closed /\ hist'.purged = hist.purged /\ UNCHANGED <<live, gone>>
    BY <1>1, <1>5 DEF DryRun, RetireBackup, History
  <2>3. QED BY <2>1, <2>2, OthersCorrect
<1>6. ASSUME NEW p \in Proc, ApplyPlan(p) \/ Deregister(p) \/ SweepStart(p) \/ SweepDone(p) \/ Crash(p)
      PROVE  CorrectionsHold'
  <2>1. \A q \in Proc : op'[q].pc = "unlink" => op'[q] = op[q]
    BY <1>1, <1>6 DEF ApplyPlan, Deregister, SweepStart, SweepDone, Crash, Done, Idle, Doing
  <2>2. hist'.closed = hist.closed /\ hist'.purged = hist.purged /\ UNCHANGED <<live, gone>>
    BY <1>1, <1>6 DEF ApplyPlan, Deregister, SweepStart, SweepDone, Crash, History
  <2>3. QED BY <2>1, <2>2, OthersCorrect
<1>7. ASSUME NEW p \in Proc, SweepOne(p) PROVE CorrectionsHold'
  <2>1. \A q \in Proc : op'[q].pc = "unlink" => op'[q] = op[q]
    BY <1>1, <1>7 DEF SweepOne, At, Doing
  <2>2. hist'.closed = hist.closed /\ hist'.purged = hist.purged /\ UNCHANGED <<live, gone>>
    BY <1>1, <1>7 DEF SweepOne, History
  <2>3. QED BY <2>1, <2>2, OthersCorrect
<1>8. ASSUME NEW b \in backups, Spoil(b) PROVE CorrectionsHold'
  BY <1>1, <1>8, OthersCorrect DEF Spoil, History
<1>9. QED BY <1>2, <1>3, <1>4, <1>5, <1>6, <1>7, <1>8, ObserveCorrects, PurgeCorrects, MergeCorrects,
             LookCorrects, UnlinkCorrects DEF Next

\* The invariant the properties follow from.
THEOREM ContentInvariant == Spec => []ContentInv
<1>1. Init => ContentInv
  BY ContentStarts
<1>2. ContentInv /\ [Next]_vars => ContentInv'
  BY StepKeeps
<1>3. QED BY <1>1, <1>2, PTL DEF Spec

\* Whatever reconciles, retirements, purges and crashes interleave, a memory
\* that was observed and not purged is in a database that has its file, or was
\* written after retirement's last look (_retire_namespace); and no copy puts
\* an excluded row into the index (_reconcile_requeue_embedding).
THEOREM ContentStaysKept == Spec => []ContentIsKept
<1>1. ContentInv => ContentIsKept
  <2> SUFFICES ASSUME ContentInv PROVE ContentIsKept
    OBVIOUS
  <2>1. Typed /\ LockIsHeld /\ DatabasesHold /\ BackupsHold
    BY DEF ContentInv
  <2>2. \A ns \in Ns : IdsUnique(live[ns]) /\ live[ns] \in Content
    BY <2>1 DEF DatabasesHold, Proper, Typed
  <2>3. \A b \in backups : IdsUnique(b) /\ b \in Backup
    BY <2>1 DEF BackupsHold, Typed
  <2>4. \A d \in {live[ns] : ns \in Ns} \cup backups :
          /\ \A r, q \in d.rows : r.id = q.id => r = q
          /\ \A r \in d.rows : r.state \in {"open", "closed"} /\ r.index \in {"job", "vector", "out"}
    BY <2>2, <2>3 DEF IdsUnique, Content, Backup, Row
  <2>5. mig # None => op[mig].pc \in Locked
    BY <2>1 DEF Typed, LockIsHeld
  <2>6. TypeOK
    BY <2>1, <2>4, <2>5 DEF TypeOK, BackupsHold, Locked
  <2>7. NoRowLost /\ PolicyIsKept
    BY <2>1 DEF DatabasesHold, Proper, PolicyIsKept
  <2>8. QED BY <2>6, <2>7 DEF ContentIsKept
<1>2. QED BY <1>1, ContentInvariant, PTL

\* A purge that reported no unerased backup left the memory in no backup and
\* no backup that answers with the head of a bundle that holds it, for every
\* number of backups and of purges that sweep them.
THEOREM ErasureIsWhole == Spec => []ErasureReachesBackups
<1>1. ContentInv => ErasureReachesBackups
  BY DEF ContentInv, BackupsHold, ErasureReachesBackups
<1>2. QED BY <1>1, ContentInvariant, PTL

\* Reconcile and retire undo no correction: whatever plans, snapshots and merges
\* were made while a memory was open, one that was closed before retirement's
\* last look and not purged is closed in a database that has its file
\* (_reconcile_diff, whose collisions keep the source of a retirement).
THEOREM CorrectionsStayMade == Spec => []CorrectionsSurvive
<1>1. Init => CorrectionsHold
  BY DEF Init, CorrectionsHold, StandWithout, Idle
<1>2. ContentInv /\ CorrectionsHold /\ [Next]_vars => CorrectionsHold'
  BY CorrectionsKeep
<1>3. CorrectionsHold => CorrectionsSurvive
  BY DEF CorrectionsHold, StandWithout, ClosedIn, WasPurged, CorrectionsSurvive
<1>4. QED BY <1>1, <1>2, <1>3, ContentInvariant, PTL DEF Spec
=============================================================================
