--------------------------- MODULE WriteAheadLog ---------------------------
(***************************************************************************)
(* The files of one haunt database as its writers leave them: the main      *)
(* file, the -wal log and the -shm index.  A writer opens and closes under   *)
(* the configuration lock of the store; what SQLite does in between (frames,  *)
(* commit, checkpoint, recovery) is external.  Any writer may die anywhere.  *)
(*                                                                         *)
(* A page holds the number of the transaction that wrote it.                *)
(***************************************************************************)
EXTENDS Naturals, Sequences, FiniteSets

CONSTANTS Writer,    \* processes with a writable connection
          Nobody,
          Pages,     \* pages of the main file: 1..Pages
          MaxTxn,    \* transactions begun
          MaxCrash,  \* processes killed
          IsRegistry \* every opener reads the file before it writes it

ASSUME WalConstants == /\ Nobody \notin Writer
                       /\ Pages \in Nat \ {0} /\ MaxTxn \in Nat /\ MaxCrash \in Nat
                       /\ IsRegistry \in BOOLEAN

Page == 1 .. Pages

VARIABLES main,  \* page |-> transaction
          wal,   \* [file, frames]: "absent", "empty" (claimed) or "log"
          shm,   \* [there, top, done]: frames published, frames copied to main
          lock,  \* the write lock, as the operating system holds it
          conn,  \* writer |-> [pc, at, left, txn]
          db,    \* history: the committed database
          past   \* history: transactions begun, processes killed

files == <<main, wal, shm>>
wvars == <<main, wal, shm, lock, conn, db, past>>

MaxOf(S) == IF S = {} THEN 0 ELSE CHOOSE x \in S : \A y \in S : y <= x

\* Frames up to the last commit mark: what recovery keeps.
Committed(frames) == MaxOf({k \in DOMAIN frames : frames[k].last})

\* The first n frames over the main file.
Overlay(m, frames, n) ==
    [p \in Page |->
        LET k == MaxOf({i \in DOMAIN frames : i <= n /\ frames[i].page = p})
        IN IF k = 0 THEN m[p] ELSE frames[k].txn]

\* What the files alone recover to.
Recovered == Overlay(main, wal.frames, Committed(wal.frames))

Closed == [pc |-> "closed", at |-> 0, left |-> {}, txn |-> 0]
Live(p) == conn[p].pc # "closed"
Alone(p) == \A q \in Writer \ {p} : ~Live(q)

\* A log that holds no commit, or whose index is gone.
Torn == wal.file = "log" /\ (Committed(wal.frames) = 0 \/ ~shm.there)

WalInit == /\ main = [p \in Page |-> 0]
           /\ wal = [file |-> "absent", frames |-> <<>>]
           /\ shm = [there |-> FALSE, top |-> 0, done |-> 0]
           /\ lock = Nobody
           /\ conn = [p \in Writer |-> Closed]
           /\ db = [p \in Page |-> 0]
           /\ past = [txns |-> 0, crashes |-> 0]

\* SQLiteSidecarGuard claims a missing name with an empty file.
Claimed(w) == IF w.file = "absent" THEN [w EXCEPT !.file = "empty"] ELSE w

\* The first connection recovers the index from the log.
Index(p) ==
    IF Alone(p) THEN [there |-> TRUE, top |-> Committed(wal.frames), done |-> 0] ELSE shm

\* Only close holds the configuration lock over more than one step.
ConfigurationFree == \A q \in Writer : conn[q].pc # "closing"

\* Faulty variant of Open: the configuration lock is not taken.
OpenUnlocked(p) ==
    /\ ~Live(p)
    /\ conn' = [conn EXCEPT ![p].pc = "open"]
    /\ wal' = Claimed(wal) /\ shm' = Index(p)
    /\ UNCHANGED <<main, lock, db, past>>

\* A writer opens under the configuration lock, missing side files claimed.
\* The registry is read first, and a torn log fails that read.
Open(p) ==
    /\ ~Live(p) /\ ConfigurationFree
    /\ IsRegistry => ~Torn
    /\ conn' = [conn EXCEPT ![p].pc = "open"]
    /\ wal' = Claimed(wal) /\ shm' = Index(p)
    /\ UNCHANGED <<main, lock, db, past>>

\* BEGIN IMMEDIATE: a log that is wholly in the main file starts over.
Begin(p) ==
    /\ conn[p].pc = "open" /\ lock = Nobody /\ past.txns < MaxTxn
    /\ LET fresh == shm.done = shm.top IN
       \E S \in SUBSET Page \ {{}} :
         /\ conn' = [conn EXCEPT ![p] =
                [pc |-> IF fresh THEN "fresh" ELSE "begun",
                 at |-> IF fresh THEN 0 ELSE shm.top, left |-> S, txn |-> past.txns + 1]]
         /\ shm' = IF fresh THEN [shm EXCEPT !.top = 0, !.done = 0] ELSE shm
    /\ lock' = p /\ past' = [past EXCEPT !.txns = @ + 1]
    /\ UNCHANGED <<main, wal, db>>

\* The header of a log that starts over: the old frames no longer count.
Header(p) ==
    /\ conn[p].pc = "fresh"
    /\ conn' = [conn EXCEPT ![p].pc = "begun"]
    /\ wal' = [file |-> "log", frames |-> <<>>]
    /\ UNCHANGED <<main, shm, lock, db, past>>

\* One frame, at the position this writer has reached.
Frame(p) ==
    /\ conn[p].pc = "begun"
    /\ \E g \in conn[p].left :
         LET c == conn[p] IN
         /\ wal' = [wal EXCEPT !.frames = Append(SubSeq(@, 1, c.at),
                [page |-> g, txn |-> c.txn, last |-> c.left = {g}])]
         /\ conn' = [conn EXCEPT ![p].at = @ + 1, ![p].left = @ \ {g},
                                 ![p].pc = IF c.left = {g} THEN "written" ELSE "begun"]
    /\ UNCHANGED <<main, shm, lock, db, past>>

\* The process lets go of the locks it holds on the files.
Unlocked(p) == IF lock = p THEN Nobody ELSE lock

\* The commit is published in the index and the lock let go.
Publish(p) ==
    /\ conn[p].pc = "written"
    /\ shm' = [shm EXCEPT !.top = conn[p].at]
    /\ db' = [g \in Page |-> IF \E k \in 1 .. conn[p].at :
                    wal.frames[k].txn = conn[p].txn /\ wal.frames[k].page = g
                 THEN conn[p].txn ELSE db[g]]
    /\ conn' = [conn EXCEPT ![p] = [Closed EXCEPT !.pc = "open"]]
    /\ lock' = Unlocked(p)
    /\ UNCHANGED <<main, wal, past>>

\* ROLLBACK: frames already in the log stay behind the last commit.
Rollback(p) ==
    /\ conn[p].pc \in {"fresh", "begun"}
    /\ conn' = [conn EXCEPT ![p] = [Closed EXCEPT !.pc = "open"]]
    /\ lock' = Unlocked(p)
    /\ UNCHANGED <<main, wal, shm, db, past>>

\* A checkpoint copies published pages one by one.
Newest == Overlay(main, wal.frames, shm.top)
CopyPage(p) ==
    /\ conn[p].pc = "open" /\ shm.done < shm.top
    /\ \E g \in Page : main[g] # Newest[g] /\ main' = [main EXCEPT ![g] = Newest[g]]
    /\ UNCHANGED <<wal, shm, lock, conn, db, past>>

Copied(p) ==
    /\ conn[p].pc = "open" /\ shm.done < shm.top /\ main = Newest
    /\ shm' = [shm EXCEPT !.done = shm.top]
    /\ UNCHANGED <<main, wal, lock, conn, db, past>>

\* close() under the configuration lock: the last connection checkpoints,
\* then removes the index, then the log.
Close(p) ==
    /\ conn[p].pc = "open" /\ ConfigurationFree
    /\ IF Alone(p)
       THEN /\ shm.done = shm.top
            /\ shm' = [there |-> FALSE, top |-> 0, done |-> 0]
            /\ conn' = [conn EXCEPT ![p].pc = "closing"]
       ELSE conn' = [conn EXCEPT ![p] = Closed] /\ UNCHANGED shm
    /\ UNCHANGED <<main, wal, lock, db, past>>

Unlink(p) ==
    /\ conn[p].pc = "closing"
    /\ wal' = [file |-> "absent", frames |-> <<>>]
    /\ conn' = [conn EXCEPT ![p] = Closed]
    /\ UNCHANGED <<main, shm, lock, db, past>>

\* A killed process leaves the files as they are.  With nobody else connected
\* the database is what they recover to.
Crash(p) ==
    /\ Live(p) /\ past.crashes < MaxCrash
    /\ conn' = [conn EXCEPT ![p] = Closed]
    /\ lock' = Unlocked(p)
    /\ db' = IF Alone(p) THEN Recovered ELSE db
    /\ past' = [past EXCEPT !.crashes = @ + 1]
    /\ UNCHANGED <<main, wal, shm>>

WriterStep(p) == \/ Open(p) \/ Begin(p) \/ Header(p) \/ Frame(p) \/ Publish(p) \/ Rollback(p)
                 \/ CopyPage(p) \/ Copied(p) \/ Close(p) \/ Unlink(p) \/ Crash(p)

Frames == [page : Page, txn : 1 .. MaxTxn, last : BOOLEAN]
WalTypeOK ==
    /\ main \in [Page -> 0 .. MaxTxn] /\ db \in [Page -> 0 .. MaxTxn]
    /\ wal.file \in {"absent", "empty", "log"}
    /\ \A k \in DOMAIN wal.frames : wal.frames[k] \in Frames
    /\ wal.file # "log" => wal.frames = <<>>
    /\ shm.done <= shm.top /\ shm.top <= Len(wal.frames)
    /\ lock \in Writer \cup {Nobody}

\* A commit that returned is in the files, whatever else was begun, killed,
\* checkpointed or closed since: connections find it through the index, the
\* main file has it before the log is removed, and with nobody connected
\* recovery of the log finds it.
Durable ==
    db = IF \E p \in Writer : conn[p].pc \notin {"closed", "closing"} THEN Newest
         ELSE IF \E p \in Writer : Live(p) THEN main
         ELSE Recovered

\* If every process died now, recovery would find no page as it was before its
\* last commit.
RecoveryForgetsNothing == \A g \in Page : db[g] <= Recovered[g]
=============================================================================
