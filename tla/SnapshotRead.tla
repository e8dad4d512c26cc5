---------------------------- MODULE SnapshotRead ----------------------------
(***************************************************************************)
(* The zero-write read of a database other processes are writing: hash the   *)
(* files, choose the immutable or the copying way, read, and compare the     *)
(* files with the hashes before the answer counts.  A page is visited in one  *)
(* step and a file page by page; item Pages + 1 is the log with its index.   *)
(* Equal contents stand for equal hashes, sizes, times and inodes.           *)
(***************************************************************************)
EXTENDS WriteAheadLog

CONSTANTS MaxTry,    \* attempts of a caller (3 to 32 in the code)
          Home       \* the writer in whose process the read runs, or Nobody

ASSUME ReadConstants == MaxTry \in Nat \ {0} /\ Home \in Writer \cup {Nobody}

VARIABLES read  \* [phase, next, held, snap, copy, try], history [seen, moved, cause]

vars == <<main, wal, shm, lock, conn, db, past, read>>

LogItem == Pages + 1
Working == {"hash", "direct", "copy", "close"}
Nothing == [main |-> [p \in Page |-> 0], wal |-> [file |-> "absent", frames |-> <<>>],
            shm |-> [there |-> FALSE, top |-> 0, done |-> 0]]
Idle == [phase |-> "idle", next |-> 1, held |-> {}, snap |-> Nothing, copy |-> Nothing, try |-> 0,
         seen |-> {}, moved |-> FALSE, cause |-> TRUE]

Init == WalInit /\ read = Idle

\* The guards hold the side files that are there and the absence of the others.
SideFiles == (IF wal.file = "absent" THEN {} ELSE {"wal"}) \cup (IF shm.there THEN {"shm"} ELSE {})
Held == read.held = SideFiles

Attempt(n, cause) == [Idle EXCEPT !.phase = "hash", !.try = n, !.cause = cause,
                                  !.held = SideFiles, !.seen = {Recovered}]

\* Faulty variant of Dropped: the read runs in the process of whoever writes.
DroppedOfWriter == Nobody

\* sqlite_storage_snapshot closes a descriptor of every file it hashed, and
\* with it the process lets go of its POSIX locks on that file.
Dropped == Unlocked(Home)

\* Faulty variant of Fail: the caller's last attempt counts as an answer.
FailAnswered ==
    read' = IF read.try < MaxTry THEN Attempt(read.try + 1, TRUE)
            ELSE [read EXCEPT !.phase = "answered"]

\* Errors with a marker are tried again by the caller.
Fail ==
    LET blamed == read.cause /\ (read.moved \/ Torn) IN
    read' = IF read.try < MaxTry THEN Attempt(read.try + 1, blamed)
            ELSE [Idle EXCEPT !.phase = "gaveup", !.cause = blamed]

Ask ==
    /\ read.phase \notin Working
    /\ read' = Attempt(1, TRUE)
    /\ UNCHANGED wvars

To(phase) == [read EXCEPT !.phase = phase, !.next = 1]
Advance(phase) == IF read.next = LogItem THEN To(phase) ELSE [read EXCEPT !.next = @ + 1]

\* Faulty variants of Active and Incomplete: the size is not looked at.
ActiveIfThere(w) == w.file # "absent"
IncompleteIfThere(w, there) == w.file # "absent" /\ ~there

Active(w) == w.file = "log"
Incomplete(w, there) == Active(w) /\ ~there

\* readonly_sqlite_mode: the hashes, then the way to read.
HashPage ==
    /\ read.phase = "hash" /\ read.next \in Page
    /\ read' = [read EXCEPT !.next = @ + 1, !.snap.main[read.next] = main[read.next]]
    /\ UNCHANGED wvars

HashLog ==
    /\ read.phase = "hash" /\ read.next = LogItem
    /\ IF Incomplete(wal, shm.there) \/ ~Held THEN Fail
       ELSE read' = [To(IF Active(wal) THEN "copy" ELSE "direct")
                     EXCEPT !.snap.wal = wal, !.snap.shm = shm]
    /\ lock' = Dropped
    /\ UNCHANGED <<main, wal, shm, conn, db, past>>

\* The immutable way: SQLite reads pages of the source and no log.
Direct ==
    /\ read.phase = "direct"
    /\ read' = [Advance("close") EXCEPT
                  !.copy.main = IF read.next \in Page THEN [@ EXCEPT ![read.next] = main[read.next]]
                                ELSE @]
    /\ UNCHANGED wvars

\* materialize_sqlite_shadow: the copy's log must hold a commit.
Materialized(copy) ==
    LET n == Committed(copy.wal.frames) IN
    IF n = 0 THEN [Idle EXCEPT !.phase = "refused", !.cause = read.cause /\ (read.moved \/ Torn)]
    ELSE [To("close") EXCEPT !.copy.main = Overlay(copy.main, copy.wal.frames, n)]

\* temporary_sqlite_shadow: what is copied has the hash that was taken, and the
\* names are held.  The comparisons repeated after it are this one again.
SameCopy(i) == IF i \in Page THEN main[i] = read.snap.main[i] ELSE wal = read.snap.wal /\ Held

CopyPageOut ==
    /\ read.phase = "copy" /\ read.next \in Page
    /\ IF SameCopy(read.next)
       THEN read' = [read EXCEPT !.next = @ + 1, !.copy.main[read.next] = main[read.next]]
       ELSE Fail
    /\ UNCHANGED wvars

CopyLogOut ==
    /\ read.phase = "copy" /\ read.next = LogItem
    /\ IF SameCopy(LogItem) THEN read' = Materialized([read.copy EXCEPT !.wal = wal]) ELSE Fail
    /\ lock' = Dropped
    /\ UNCHANGED <<main, wal, shm, conn, db, past>>

\* Faulty variant of Same: a checkpoint is taken to leave a read alone.
SameLog(i) == i = LogItem => wal = read.snap.wal /\ shm = read.snap.shm

\* The hashes of every file, the index included.
Same(i) == IF i \in Page THEN main[i] = read.snap.main[i]
           ELSE wal = read.snap.wal /\ shm = read.snap.shm

\* _close_with_storage_guards: an answer counts if nothing has drifted.
CloseRead ==
    /\ read.phase = "close"
    /\ IF Same(read.next) THEN read' = Advance("answered") ELSE Fail
    /\ lock' = IF read.next = LogItem THEN Dropped ELSE lock
    /\ UNCHANGED <<main, wal, shm, conn, db, past>>

ReaderStep == Ask \/ HashPage \/ HashLog \/ Direct \/ CopyPageOut \/ CopyLogOut \/ CloseRead

\* The read sees what the files amount to while it works.
Write(p) ==
    /\ WriterStep(p)
    /\ read' = IF read.phase \in Working
               THEN [read EXCEPT !.seen = @ \cup {Recovered'}, !.moved = @ \/ files' # files]
               ELSE read

Next == (\E p \in Writer : Write(p)) \/ ReaderStep
Spec == Init /\ [][Next]_vars
----------------------------------------------------------------------------
TypeOK ==
    /\ WalTypeOK
    /\ read.phase \in Working \cup {"idle", "answered", "gaveup", "refused"}
    /\ read.next \in 1 .. LogItem /\ read.try \in 0 .. MaxTry
    /\ read.snap.main \in [Page -> 0 .. MaxTxn] /\ read.copy.main \in [Page -> 0 .. MaxTxn]
    /\ read.seen \subseteq [Page -> 0 .. MaxTxn]

\* An answer is one state of the database, and one the files amounted to while
\* the read was at work: never pages of two commits, never half a checkpoint
\* with the log gone, never an older state than the read began with.
AnswersAreStates == read.phase = "answered" => read.copy.main \in read.seen

\* A read is refused only for a reason that was there: in each of its attempts
\* a file changed, or the log held no commit or had lost its index.
RefusalHasCause == read.phase \in {"gaveup", "refused"} => read.cause

\* The registry can be opened again after any crash: no interrupted
\* commit or close of a dead process keeps everybody out.
RegistryReopens == IsRegistry /\ (\A p \in Writer : ~Live(p)) => ~Torn

\* Shapes, and the storage the reads work on keeps every commit that returned,
\* whoever dies next.
StorageIsSound == TypeOK /\ Durable /\ RecoveryForgetsNothing
=============================================================================
