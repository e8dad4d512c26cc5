-------------------------- MODULE NamespaceContent --------------------------
(***************************************************************************)
(* Copies of a namespace's rows and what happens to all of them: reconcile  *)
(* merges one namespace into another, retire removes a merged namespace,    *)
(* both leave verified backups, and a purge must reach every backup as well *)
(* as the row.  Reconcile, retire and the purge's sweep hold the migration  *)
(* lock; the writers of a namespace do not, and one that opened a namespace *)
(* keeps its database open whatever becomes of the registration.            *)
(*                                                                         *)
(* A row is [id, state, index]: state stands for the row's other columns,   *)
(* index says whether it has a vector, a place in the queue, or was left    *)
(* out by the capture policy.  A digest of two namespaces is their          *)
(* contents.  Heads are numbers no two commits share.                       *)
(***************************************************************************)
EXTENDS FiniteSets, Naturals

CONSTANTS Proc,    \* processes that reconcile, retire or purge
          Ns,      \* namespaces
          Mem,     \* memory ids
          Excluded,\* those the capture policy keeps out of the index
          MaxBackup, MaxPurge, MaxExport, MaxFault, MaxPlan, \* bounds
          None

ASSUME ExcludedMems == Excluded \subseteq Mem
ASSUME NoneIsNobody == None \notin Proc
ASSUME BoundsNat == {MaxBackup, MaxPurge, MaxExport, MaxFault, MaxPlan} \subseteq Nat

VARIABLES live,    \* namespace |-> [rows, head] of its database file
          reg,     \* namespaces the registry has
          gone,    \* namespaces whose file was unlinked
          backups, \* [id, of, rows, head, sound]: files under backups/
          mig,     \* holder of the migration lock, or None
          op,      \* process |-> what it is doing
          hist     \* what was observed, purged, exported; counters

vars == <<live, reg, gone, backups, mig, op, hist>>

Ids(rows) == {r.id : r \in rows}
Idle == [pc |-> "idle", src |-> None, dst |-> None, seen |-> None, mem |-> None, todo |-> {}, left |-> {}]
At(p, pc) == op[p].pc = pc
\* Faulty variant of Done: the lock is not released.
DoneHolding(p) == op' = [op EXCEPT ![p] = Idle] /\ mig' = mig

Done(p) == op' = [op EXCEPT ![p] = Idle] /\ mig' = (IF mig = p THEN None ELSE mig)

Init ==
    /\ live = [ns \in Ns |-> [rows |-> {}, head |-> 0]]
    /\ reg = Ns /\ gone = {} /\ backups = {} /\ mig = None
    /\ op = [p \in Proc |-> Idle]
    /\ hist = [seen |-> {}, late |-> {}, closed |-> {}, purged |-> {}, clean |-> {}, exports |-> {},
               heads |-> 0, files |-> 0, faults |-> 0]

-----------------------------------------------------------------------------
(* Writers. *)

\* The last look at a namespace that is being retired is behind.
PastLastLook(ns) == \E p \in Proc : At(p, "unlink") /\ op[p].src = ns

\* Every namespace has been opened by a long-lived server; its connection
\* outlives the registration and even the file's name.
Observe(ns, m) ==
    /\ m \in Mem \ hist.seen
    /\ live' = [live EXCEPT ![ns].rows =
                  @ \cup {[id |-> m, state |-> "open", index |-> IF m \in Excluded THEN "out" ELSE "job"]}]
    /\ hist' = [hist EXCEPT !.seen = @ \cup {m},
                            !.late = IF ns \in gone \/ PastLastLook(ns) THEN @ \cup {m} ELSE @]
    /\ UNCHANGED <<reg, gone, backups, mig, op>>

\* A correction closes the row; a drain gives it its vector.
Change(ns, r, s) ==
    /\ ns \notin gone /\ r \in live[ns].rows
    /\ \/ /\ r.state = "open" /\ s = [r EXCEPT !.state = "closed"]
          /\ hist' = [hist EXCEPT !.closed = IF PastLastLook(ns) THEN @ ELSE @ \cup {r.id}]
       \/ r.index = "job" /\ s = [r EXCEPT !.index = "vector"] /\ UNCHANGED hist
    /\ live' = [live EXCEPT ![ns].rows = (@ \ {r}) \cup {s}]
    /\ UNCHANGED <<reg, gone, backups, mig, op>>

Export(ns) ==
    /\ ns \in reg /\ live[ns].rows # {} /\ mig = None /\ Cardinality(hist.exports) < MaxExport
    /\ hist' = [hist EXCEPT !.exports = @ \cup {[ids |-> Ids(live[ns].rows), head |-> live[ns].head, of |-> ns]}]
    /\ UNCHANGED <<live, reg, gone, backups, mig, op>>

-----------------------------------------------------------------------------
(* Merging: _diff_reconcile_table and what follows from it. *)

\* The source's rows the target has no row for.
ToInsert(s, t) == {r \in s.rows : r.id \notin Ids(t.rows)}

\* One id, different contents; the vector is not compared, the queue is.
Colliding(s, t) == \E r \in s.rows, q \in t.rows : r.id = q.id /\ r.state # q.state

\* Faulty variant of Requeued: every copied row is queued.
AllQueued(r) == [r EXCEPT !.index = "job"]

\* _reconcile_requeue_embedding: vectors are not copied, exclusions are.
Requeued(r) == [r EXCEPT !.index = IF r.index = "out" THEN "out" ELSE "job"]

Merged(s, t) == [t EXCEPT !.rows = @ \cup {Requeued(r) : r \in ToInsert(s, t)}]

NewBackup(id, ns, d) == [id |-> id, of |-> ns, rows |-> d.rows, head |-> d.head, sound |-> TRUE]

\* reconcile_namespaces without apply, and retire_namespace without: a digest
\* of everything in both.
DryRun(p, s, t) ==
    /\ op[p] = Idle /\ s # t /\ {s, t} \subseteq reg
    /\ Cardinality({q \in Proc : At(q, "planned")}) < MaxPlan
    /\ ~Colliding(live[s], live[t]) /\ ToInsert(live[s], live[t]) # {}
    /\ op' = [op EXCEPT ![p] = [Idle EXCEPT !.pc = "planned", !.src = s, !.dst = t,
                                            !.seen = <<live[s], live[t]>>]]
    /\ UNCHANGED <<live, reg, gone, backups, mig, hist>>

\* The contents the operator saw in the dry run.
Unchanged(p, s, t) == op[p].seen = <<s, t>>

\* --apply: the plan again, then the source's frozen snapshot and its backup.
ApplyPlan(p) ==
    LET s == op[p].src
    IN  /\ At(p, "planned") /\ mig = None
        /\ IF {s, op[p].dst} \subseteq reg /\ Unchanged(p, live[s], live[op[p].dst])
           THEN /\ hist.files < MaxBackup
                /\ backups' = backups \cup {NewBackup(hist.files, s, live[s])}
                /\ hist' = [hist EXCEPT !.files = @ + 1]
                /\ mig' = p
                /\ op' = [op EXCEPT ![p].pc = "merge", ![p].todo = {live[s]}, ![p].left = {hist.files}]
           ELSE Done(p) /\ UNCHANGED <<backups, hist>>
        /\ UNCHANGED <<live, reg, gone>>

\* The target inside BEGIN IMMEDIATE: its backup, the digest once more, the
\* rows.  Refused, both backups are discarded.
Merge(p) ==
    LET t == op[p].dst
        s == CHOOSE d \in op[p].todo : TRUE
    IN  /\ At(p, "merge") /\ hist.files < MaxBackup
        /\ IF Unchanged(p, s, live[t])
           THEN /\ live' = [live EXCEPT ![t] = Merged(s, @)]
                /\ backups' = backups \cup {NewBackup(hist.files, t, live[t])}
                /\ hist' = [hist EXCEPT !.files = @ + 1]
           ELSE /\ backups' = {b \in backups : b.id \notin op[p].left}
                /\ UNCHANGED <<live, hist>>
        /\ Done(p)
        /\ UNCHANGED <<reg, gone>>

-----------------------------------------------------------------------------
(* retire_namespace of s, which t holds every row of. *)

\* Faulty variant of Drained: every row is there, however it reads.
DrainedOfIds(s, t) == ToInsert(s, t) = {}

Drained(s, t) == ToInsert(s, t) = {} /\ ~Colliding(s, t)

\* The plan, and the backup, while the registry can still be rolled back.
RetireBackup(p, s, t) ==
    /\ op[p] = Idle /\ mig = None /\ s # t /\ {s, t} \subseteq reg
    /\ live[s].rows # {} /\ Drained(live[s], live[t]) /\ hist.files < MaxBackup
    /\ backups' = backups \cup {NewBackup(hist.files, s, live[s])}
    /\ hist' = [hist EXCEPT !.files = @ + 1]
    /\ mig' = p
    /\ op' = [op EXCEPT ![p] = [Idle EXCEPT !.pc = "deregister", !.src = s, !.dst = t]]
    /\ UNCHANGED <<live, reg, gone>>

Deregister(p) ==
    /\ At(p, "deregister")
    /\ reg' = reg \ {op[p].src}
    /\ op' = [op EXCEPT ![p].pc = "look"]
    /\ UNCHANGED <<live, gone, backups, mig, hist>>

\* Faulty variant of Stranded: drainage is not read again.
NeverStranded(p) == FALSE

Stranded(p) == ~Drained(live[op[p].src], live[op[p].dst])

\* The drainage read again: a row that raced the retirement keeps its file.
LookAgain(p) ==
    /\ At(p, "look")
    /\ IF Stranded(p) THEN Done(p) ELSE op' = [op EXCEPT ![p].pc = "unlink"] /\ UNCHANGED mig
    /\ UNCHANGED <<live, reg, gone, backups, hist>>

Unlink(p) ==
    /\ At(p, "unlink")
    /\ gone' = gone \cup {op[p].src}
    /\ Done(p)
    /\ UNCHANGED <<live, reg, backups, hist>>

-----------------------------------------------------------------------------
(* purge: the row, in its own transaction, then every backup. *)

Erase(d, m, h) == [d EXCEPT !.rows = {r \in @ : r.id # m}, !.head = h]

PurgeRow(p, ns, m) ==
    /\ op[p] = Idle /\ ns \in reg /\ m \in Ids(live[ns].rows) /\ Cardinality(hist.purged) < MaxPurge
    /\ live' = [live EXCEPT ![ns] = Erase(@, m, hist.heads + 1)]
    /\ hist' = [hist EXCEPT !.purged = @ \cup {<<ns, m>>}, !.clean = @ \ {m}, !.heads = @ + 1]
    /\ op' = [op EXCEPT ![p] = [Idle EXCEPT !.pc = "purged", !.mem = m]]
    /\ UNCHANGED <<reg, gone, backups, mig>>

\* Faulty variant of Candidates: only backups that hold the row are opened.
Holding(m) == {b \in backups : m \in Ids(b.rows)}

Candidates(m) == backups

SweepStart(p) ==
    /\ At(p, "purged") /\ mig = None
    /\ mig' = p
    /\ op' = [op EXCEPT ![p].pc = "sweep", ![p].todo = {b.id : b \in Candidates(op[p].mem)}]
    /\ UNCHANGED <<live, reg, gone, backups, hist>>

\* A file that is not the private copy haunt wrote is reported, not rewritten.
SweepOne(p) ==
    \E b \in backups :
        /\ At(p, "sweep") /\ b.id \in op[p].todo
        /\ \A c \in backups : c.id \in op[p].todo => b.id <= c.id
        /\ op' = [op EXCEPT ![p].todo = @ \ {b.id}, ![p].left = IF b.sound THEN @ ELSE @ \cup {b.id}]
        /\ IF b.sound
           THEN /\ backups' = (backups \ {b}) \cup {Erase(b, op[p].mem, hist.heads + 1)}
                /\ hist' = [hist EXCEPT !.heads = @ + 1]
           ELSE UNCHANGED <<backups, hist>>
        /\ UNCHANGED <<live, reg, gone, mig>>

\* Faulty variant of Unerased: what was declined is not reported.
NoneUnerased(p) == {}

\* backups_unerased
Unerased(p) == op[p].left

SweepDone(p) ==
    /\ At(p, "sweep") /\ op[p].todo = {}
    /\ hist' = [hist EXCEPT !.clean = IF Unerased(p) = {} THEN @ \cup {op[p].mem} ELSE @]
    /\ Done(p)
    /\ UNCHANGED <<live, reg, gone, backups>>

\* Somebody links a backup elsewhere or changes its mode.
Spoil(b) ==
    /\ b.sound /\ hist.faults < MaxFault
    /\ hist' = [hist EXCEPT !.faults = @ + 1]
    /\ backups' = (backups \ {b}) \cup {[b EXCEPT !.sound = FALSE]}
    /\ UNCHANGED <<live, reg, gone, mig, op>>

\* Also a failed backup, a busy database or a refusal between two steps.
Crash(p) ==
    /\ op[p] # Idle /\ hist.faults < MaxFault
    /\ hist' = [hist EXCEPT !.faults = @ + 1]
    /\ Done(p)
    /\ UNCHANGED <<live, reg, gone, backups>>

Next ==
    \/ \E ns \in Ns : Export(ns)
    \/ \E ns \in Ns, m \in Mem : Observe(ns, m)
    \/ \E ns \in Ns : \E r \in live[ns].rows :
         \E s \in {[r EXCEPT !.state = "closed"], [r EXCEPT !.index = "vector"]} : Change(ns, r, s)
    \/ \E p \in Proc, s, t \in Ns : DryRun(p, s, t) \/ RetireBackup(p, s, t)
    \/ \E p \in Proc, ns \in Ns, m \in Mem : PurgeRow(p, ns, m)
    \/ \E p \in Proc : \/ ApplyPlan(p) \/ Merge(p) \/ Deregister(p) \/ LookAgain(p) \/ Unlink(p)
                       \/ SweepStart(p) \/ SweepOne(p) \/ SweepDone(p) \/ Crash(p)
    \/ \E b \in backups : Spoil(b)

Spec == Init /\ [][Next]_vars

-----------------------------------------------------------------------------
(* Properties *)

\* Shapes; ids are unique in a database and backups are told apart; the holder
\* of the migration lock is at work.
TypeOK ==
    /\ \A d \in {live[ns] : ns \in Ns} \cup backups :
          /\ \A r, q \in d.rows : r.id = q.id => r = q
          /\ \A r \in d.rows : r.state \in {"open", "closed"} /\ r.index \in {"job", "vector", "out"}
    /\ \A b, c \in backups : b.id = c.id => b = c
    /\ mig # None => op[mig].pc \in {"merge", "deregister", "look", "unlink", "sweep"}

Alive == UNION {Ids(live[ns].rows) : ns \in Ns \ gone}

\* Reconcile and retire together lose no row: a memory that was observed and
\* not purged is in some database that still has its file, unless it was
\* written after retirement's last look.
NoRowLost ==
    \A m \in hist.seen \ hist.late : m \in Alive \/ \E ns \in Ns : <<ns, m>> \in hist.purged

\* The docstring of _retire_namespace: a write that raced it keeps its file.
RacingWriteKeepsItsFile ==
    \A m \in hist.seen : m \in Alive \/ \E ns \in Ns : <<ns, m>> \in hist.purged

\* No copy, however it was made, puts an excluded row into the index or drops
\* another one from it.
PolicyIsKept ==
    \A ns \in Ns : \A r \in live[ns].rows : r.index = "out" <=> r.id \in Excluded

\* Nor do they undo a correction: a memory that was closed, in whichever copy,
\* before retirement's last look at that copy and was not purged is closed in
\* some database that still has its file.  A plan may have been made, a snapshot
\* taken or a copy merged while the memory was open.
CorrectionsSurvive ==
    \A m \in hist.closed :
        \/ \E ns \in Ns \ gone : \E r \in live[ns].rows : r.id = m /\ r.state = "closed"
        \/ \E ns \in Ns : <<ns, m>> \in hist.purged

\* A purge that reported no unerased backup left no copy: the memory is in no
\* backup, unless some namespace still holds it.
NoCopySurvives ==
    \A m \in hist.clean \ Alive : \A b \in backups : m \notin Ids(b.rows)

\* Nor does a restored backup let it back in: no backup still answers with the
\* head of a bundle that holds the memory, whichever namespace it was made of.
RestoredBackupRefuses ==
    \A m \in hist.clean \ Alive : \A b \in backups, x \in hist.exports :
        m \in x.ids /\ b.of = x.of => b.head # x.head

\* Shapes, and no row of a namespace is lost to reconcile, retire or a crash,
\* nor its place in the index, or out of it, to a copy.
ContentIsKept == TypeOK /\ NoRowLost /\ PolicyIsKept

\* What a clean purge erased comes back neither from a backup file nor, the
\* backup restored, from a bundle.
ErasureReachesBackups == NoCopySurvives /\ RestoredBackupRefuses
=============================================================================
