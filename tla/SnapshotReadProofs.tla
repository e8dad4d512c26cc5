------------------------- MODULE SnapshotReadProofs -------------------------
(***************************************************************************)
(* Proofs about WriteAheadLog and SnapshotRead for every number of writers, *)
(* pages, transactions, crashes and attempts.                               *)
(*                                                                         *)
(* The writers first.  The files say what was committed through an order:   *)
(* transactions have rising numbers, frames are in that order, and a frame  *)
(* older than its page in the main file is followed by a newer one that was *)
(* published.  So recovery, which may read further than the index does,     *)
(* only ever finds a page as it was committed or later, and the main file   *)
(* only moves forward.                                                      *)
(*                                                                         *)
(* Then the read.  A page of the main file that has the hash it had before  *)
(* was not written in between, so the moment at which the log was hashed is *)
(* one at which all the hashed contents were there together.                *)
(***************************************************************************)
EXTENDS SnapshotRead, SequenceTheorems, FiniteSetTheorems, WellFoundedInduction, TLAPS

-----------------------------------------------------------------------------
(* Logs.                                                                    *)

\* The largest of some positions.
LEMMA MaxOfIs ==
    ASSUME NEW n \in Nat, NEW S \in SUBSET (1..n)
    PROVE  /\ MaxOf(S) \in 0..n
           /\ S = {} => MaxOf(S) = 0
           /\ S # {} => MaxOf(S) \in S /\ \A y \in S : y <= MaxOf(S)
<1>1. CASE S = {}
  BY <1>1 DEF MaxOf
<1>2. CASE S # {}
  <2>1. IsWellFoundedOn(StrictSubsetOrdering(1..n), SUBSET (1..n))
    <3>1. PICK I : I = 1..n
      OBVIOUS
    <3>2. IsFiniteSet(I)
      BY <3>1, FS_Interval
    <3>3. IsWellFoundedOn(StrictSubsetOrdering(I), FiniteSubsetsOf(I))
      BY FS_StrictSubsetOrderingWellFounded
    <3>4. FiniteSubsetsOf(I) = SUBSET I
      BY <3>2, FS_FiniteSubsetsOfFinite
    <3>5. QED BY <3>1, <3>3, <3>4, Zenon
  <2>2. PICK T : T = {k..n : k \in S}
    OBVIOUS
  <2>3. T \subseteq SUBSET (1..n) /\ T # {}
    <3>1. \A k \in S : k..n \in SUBSET (1..n)
      OBVIOUS
    <3>2. QED BY <1>2, <2>2, <3>1
  <2>4. PICK x \in T : \A y \in T : ~ (<<y, x>> \in StrictSubsetOrdering(1..n))
    <3>1. PICK R, U : R = StrictSubsetOrdering(1..n) /\ U = SUBSET (1..n)
      OBVIOUS
    <3>2. IsWellFoundedOn(R, U) /\ T \subseteq U
      BY <2>1, <2>3, <3>1
    <3>3. \E x \in T : \A y \in T : ~ (<<y, x>> \in R)
      BY <2>3, <3>2, WFMin
    <3>4. QED BY <3>1, <3>3
  <2>5. PICK k \in S : x = k..n
    BY <2>2, <2>4
  <2>6. ASSUME NEW y \in S PROVE y <= k
    <3>1. SUFFICES ASSUME k < y PROVE FALSE
      OBVIOUS
    <3>2. y..n \in T /\ k..n \in T
      BY <2>2
    <3>3. y..n \subseteq k..n /\ k \in k..n /\ k \notin y..n
      BY <3>1
    <3>4. <<y..n, k..n>> \in StrictSubsetOrdering(1..n)
      <4>1. y..n \in SUBSET (1..n) /\ k..n \in SUBSET (1..n) /\ y..n # k..n
        BY <2>3, <3>2, <3>3
      <4>2. QED BY <3>3, <4>1, Zenon DEF StrictSubsetOrdering
    <3>5. QED BY <2>4, <2>5, <3>2, <3>4
  <2>7. MaxOf(S) \in S /\ \A y \in S : y <= MaxOf(S)
    BY <1>2, <2>6 DEF MaxOf
  <2>8. S \subseteq 0..n
    OBVIOUS
  <2>9. QED BY <1>2, <2>7, <2>8
<1>3. QED BY <1>1, <1>2

Logs == Seq(Frames)
Contents == [Page -> 0..MaxTxn]

\* The positions of a log, and what is there.
LEMMA FramesAreTyped ==
    ASSUME NEW f \in Logs
    PROVE  /\ Len(f) \in Nat /\ DOMAIN f = 1..Len(f) /\ DOMAIN f \subseteq Nat \ {0}
           /\ \A k \in DOMAIN f : f[k] \in Frames /\ f[k].page \in Page /\ f[k].txn \in 1..MaxTxn /\ f[k].txn \in Nat
<1>1. Len(f) \in Nat /\ DOMAIN f = 1..Len(f) /\ \A k \in 1..Len(f) : f[k] \in Frames
  BY LenProperties, ElementOfSeq DEF Logs
<1>2. QED BY <1>1, WalConstants DEF Frames

\* The last commit mark.
LEMMA CommittedIs ==
    ASSUME NEW f \in Logs
    PROVE  /\ Committed(f) \in Nat /\ Committed(f) <= Len(f)
           /\ Committed(f) > 0 => Committed(f) \in DOMAIN f /\ f[Committed(f)].last
           /\ \A k \in DOMAIN f : f[k].last => k <= Committed(f)
<1>1. PICK S : S = {k \in DOMAIN f : f[k].last}
  OBVIOUS
<1>2. S \in SUBSET (1..Len(f)) /\ Len(f) \in Nat /\ DOMAIN f = 1..Len(f)
  BY <1>1, FramesAreTyped
<1>3. Committed(f) = MaxOf(S)
  BY <1>1 DEF Committed
<1>4. /\ MaxOf(S) \in 0..Len(f)
      /\ S = {} => MaxOf(S) = 0
      /\ S # {} => MaxOf(S) \in S /\ \A y \in S : y <= MaxOf(S)
  BY <1>2, MaxOfIs
<1>5. QED BY <1>1, <1>2, <1>3, <1>4

\* Frame k is the last of the first n that holds page g.
Lasts(f, n, g, k) ==
    /\ k \in DOMAIN f /\ k <= n /\ f[k].page = g
    /\ \A i \in DOMAIN f : i <= n /\ f[i].page = g => i <= k

Untouched(f, n, g) == \A i \in DOMAIN f : i <= n => f[i].page # g

\* A page read through the log is the last of its frames, or the main file's.
LEMMA OverlayUntouched ==
    ASSUME NEW m, NEW f \in Logs, NEW n \in Nat, NEW g \in Page, Untouched(f, n, g)
    PROVE  Overlay(m, f, n)[g] = m[g]
<1>1. PICK S : S = {i \in DOMAIN f : i <= n /\ f[i].page = g}
  OBVIOUS
<1>2. S \in SUBSET (1..Len(f)) /\ Len(f) \in Nat /\ DOMAIN f = 1..Len(f)
  BY <1>1, FramesAreTyped
<1>3. /\ S = {} => MaxOf(S) = 0
      /\ S # {} => MaxOf(S) \in S /\ \A y \in S : y <= MaxOf(S)
  BY <1>2, MaxOfIs
<1>4. Overlay(m, f, n)[g] = IF MaxOf(S) = 0 THEN m[g] ELSE f[MaxOf(S)].txn
  BY <1>1 DEF Overlay
<1>5. S = {}
  BY <1>1 DEF Untouched
<1>6. QED BY <1>3, <1>4, <1>5

LEMMA OverlayTouched ==
    ASSUME NEW m, NEW f \in Logs, NEW n \in Nat, NEW g \in Page, ~Untouched(f, n, g)
    PROVE  \E k \in DOMAIN f : Lasts(f, n, g, k) /\ Overlay(m, f, n)[g] = f[k].txn
<1>1. PICK S : S = {i \in DOMAIN f : i <= n /\ f[i].page = g}
  OBVIOUS
<1>2. S \in SUBSET (1..Len(f)) /\ Len(f) \in Nat /\ DOMAIN f = 1..Len(f)
  BY <1>1, FramesAreTyped
<1>3. /\ S = {} => MaxOf(S) = 0
      /\ S # {} => MaxOf(S) \in S /\ \A y \in S : y <= MaxOf(S)
  BY <1>2, MaxOfIs
<1>4. Overlay(m, f, n)[g] = IF MaxOf(S) = 0 THEN m[g] ELSE f[MaxOf(S)].txn
  BY <1>1 DEF Overlay
<1>5. S # {}
  BY <1>1 DEF Untouched
<1>6. PICK k : k = MaxOf(S)
  OBVIOUS
<1>7. k \in DOMAIN f /\ Lasts(f, n, g, k)
  BY <1>1, <1>3, <1>5, <1>6 DEF Lasts
<1>8. Overlay(m, f, n)[g] = f[k].txn
  BY <1>2, <1>4, <1>6, <1>7
<1>9. QED BY <1>7, <1>8

\* Only one frame is the last.
LEMMA OverlayLast ==
    ASSUME NEW m, NEW f \in Logs, NEW n \in Nat, NEW g \in Page, NEW k \in DOMAIN f,
           Lasts(f, n, g, k)
    PROVE  Overlay(m, f, n)[g] = f[k].txn
<1>1. ~Untouched(f, n, g)
  BY DEF Lasts, Untouched
<1>2. PICK i \in DOMAIN f : Lasts(f, n, g, i) /\ Overlay(m, f, n)[g] = f[i].txn
  BY <1>1, OverlayTouched
<1>3. i <= k /\ k <= i /\ i \in Nat /\ k \in Nat
  BY <1>2, FramesAreTyped DEF Lasts
<1>4. i = k
  BY <1>3
<1>5. QED BY <1>2, <1>4

LEMMA OverlayIsFunction ==
    ASSUME NEW m, NEW f, NEW n, NEW h \in [Page -> Nat], \A g \in Page : Overlay(m, f, n)[g] = h[g]
    PROVE  Overlay(m, f, n) = h
  BY DEF Overlay

\* What is read through a log holds transactions.
LEMMA OverlayIsTyped ==
    ASSUME NEW m \in Contents, NEW f \in Logs, NEW n \in Nat
    PROVE  Overlay(m, f, n) \in Contents
<1>1. ASSUME NEW g \in Page PROVE Overlay(m, f, n)[g] \in 0..MaxTxn
  <2>1. CASE Untouched(f, n, g)
    <3>1. Overlay(m, f, n)[g] = m[g]
      BY <2>1, OverlayUntouched
    <3>2. QED BY <3>1 DEF Contents
  <2>2. CASE ~Untouched(f, n, g)
    <3>1. PICK k \in DOMAIN f : Overlay(m, f, n)[g] = f[k].txn
      BY <2>2, OverlayTouched
    <3>2. f[k].txn \in 1..MaxTxn
      BY FramesAreTyped
    <3>3. QED BY <3>1, <3>2, WalConstants
  <2>3. QED BY <2>1, <2>2
<1>2. PICK o : o = Overlay(m, f, n)
  OBVIOUS
<1>3. o = [g \in Page |-> o[g]]
  BY <1>2 DEF Overlay
<1>4. QED BY <1>1, <1>2, <1>3 DEF Contents

\* Without frames the main file is all there is.
LEMMA OverlayOfNothing ==
    ASSUME NEW m \in Contents, NEW f \in Logs, NEW n \in Nat, n = 0 \/ f = <<>>
    PROVE  Overlay(m, f, n) = m
<1>1. ASSUME NEW g \in Page PROVE Overlay(m, f, n)[g] = m[g]
  <2>1. Untouched(f, n, g)
    BY FramesAreTyped DEF Untouched
  <2>2. QED BY <2>1, OverlayUntouched
<1>2. m \in [Page -> Nat]
  BY WalConstants DEF Contents
<1>3. QED BY <1>1, <1>2, OverlayIsFunction

-----------------------------------------------------------------------------
(* Logs in the order of their transactions.                                 *)

Sorted(f) == \A i, k \in DOMAIN f : i <= k => f[i].txn <= f[k].txn

\* A frame older than its page in the main file is followed, within the first
\* n, by one that is not.
Backed(m, f, n) ==
    \A g \in Page : \A k \in DOMAIN f :
        f[k].page = g /\ f[k].txn < m[g] =>
            \E j \in DOMAIN f : k < j /\ j <= n /\ f[j].page = g /\ m[g] <= f[j].txn

\* What is read through such a log is no older than the main file.
LEMMA OverlayForward ==
    ASSUME NEW m \in Contents, NEW f \in Logs, NEW n \in Nat, NEW g \in Page, Backed(m, f, n)
    PROVE  m[g] <= Overlay(m, f, n)[g]
<1>1. m[g] \in Nat
  BY WalConstants DEF Contents
<1>2. CASE Untouched(f, n, g)
  <2>1. Overlay(m, f, n)[g] = m[g]
    BY <1>2, OverlayUntouched
  <2>2. QED BY <1>1, <2>1
<1>3. CASE ~Untouched(f, n, g)
  <2>1. PICK k \in DOMAIN f : Lasts(f, n, g, k) /\ Overlay(m, f, n)[g] = f[k].txn
    BY <1>3, OverlayTouched
  <2>2. k \in Nat /\ f[k].txn \in Nat /\ DOMAIN f \subseteq Nat
    BY FramesAreTyped
  <2>3. ~(f[k].txn < m[g])
    <3>1. SUFFICES ASSUME f[k].txn < m[g] PROVE FALSE
      OBVIOUS
    <3>2. PICK j \in DOMAIN f : k < j /\ j <= n /\ f[j].page = g
      BY <2>1, <3>1 DEF Backed, Lasts
    <3>3. j <= k
      BY <2>1, <3>2 DEF Lasts
    <3>4. QED BY <2>2, <3>2, <3>3
  <2>4. QED BY <1>1, <2>1, <2>2, <2>3
<1>4. QED BY <1>2, <1>3

\* The further such a log is read, the newer is what is found.
LEMMA OverlayRises ==
    ASSUME NEW m \in Contents, NEW f \in Logs, NEW n \in Nat, NEW h \in Nat, n <= h,
           NEW g \in Page, Sorted(f), Backed(m, f, n)
    PROVE  Overlay(m, f, n)[g] <= Overlay(m, f, h)[g]
<1>1. m[g] \in Nat /\ DOMAIN f \subseteq Nat
  BY WalConstants, FramesAreTyped DEF Contents
<1>2. CASE Untouched(f, h, g)
  <2>1. Untouched(f, n, g)
    BY <1>1, <1>2 DEF Untouched
  <2>2. Overlay(m, f, n)[g] = m[g] /\ Overlay(m, f, h)[g] = m[g]
    BY <1>2, <2>1, OverlayUntouched
  <2>3. QED BY <1>1, <2>2
<1>3. CASE ~Untouched(f, h, g)
  <2>1. PICK k \in DOMAIN f : Lasts(f, h, g, k) /\ Overlay(m, f, h)[g] = f[k].txn
    BY <1>3, OverlayTouched
  <2>2. k \in Nat /\ f[k].txn \in Nat
    BY FramesAreTyped
  <2>3. CASE Untouched(f, n, g)
    <3>1. Overlay(m, f, n)[g] = m[g]
      BY <2>3, OverlayUntouched
    <3>2. ~(f[k].txn < m[g])
      BY <2>1, <2>3 DEF Backed, Untouched, Lasts
    <3>3. QED BY <1>1, <2>1, <2>2, <3>1, <3>2
  <2>4. CASE ~Untouched(f, n, g)
    <3>1. PICK i \in DOMAIN f : Lasts(f, n, g, i) /\ Overlay(m, f, n)[g] = f[i].txn
      BY <2>4, OverlayTouched
    <3>2. i <= h
      BY <1>1, <3>1 DEF Lasts
    <3>3. i <= k
      BY <2>1, <3>1, <3>2 DEF Lasts
    <3>4. f[i].txn <= f[k].txn
      BY <3>3 DEF Sorted
    <3>5. QED BY <2>1, <3>1, <3>4
  <2>5. QED BY <2>3, <2>4
<1>4. QED BY <1>2, <1>3

LEMMA BackedFurther ==
    ASSUME NEW m, NEW f \in Logs, NEW n \in Nat, NEW h \in Nat, n <= h, Backed(m, f, n)
    PROVE  Backed(m, f, h)
<1>1. DOMAIN f \subseteq Nat
  BY FramesAreTyped
<1>2. SUFFICES ASSUME NEW g \in Page, NEW k \in DOMAIN f, f[k].page = g, f[k].txn < m[g]
               PROVE  \E j \in DOMAIN f : k < j /\ j <= h /\ f[j].page = g /\ m[g] <= f[j].txn
  BY DEF Backed
<1>3. PICK j \in DOMAIN f : k < j /\ j <= n /\ f[j].page = g /\ m[g] <= f[j].txn
  BY <1>2 DEF Backed
<1>4. j <= h
  BY <1>1, <1>3
<1>5. QED BY <1>3, <1>4

\* Nothing is read that is newer than the files.
LEMMA OverlayBounded ==
    ASSUME NEW m \in Contents, NEW f \in Logs, NEW n \in Nat, NEW g \in Page, NEW t \in Nat,
           m[g] <= t, \A k \in DOMAIN f : k <= n => f[k].txn <= t
    PROVE  Overlay(m, f, n)[g] <= t
<1>1. CASE Untouched(f, n, g)
  <2>1. Overlay(m, f, n)[g] = m[g]
    BY <1>1, OverlayUntouched
  <2>2. QED BY <2>1
<1>2. CASE ~Untouched(f, n, g)
  <2>1. PICK k \in DOMAIN f : Lasts(f, n, g, k) /\ Overlay(m, f, n)[g] = f[k].txn
    BY <1>2, OverlayTouched
  <2>2. QED BY <2>1 DEF Lasts
<1>3. QED BY <1>1, <1>2

\* Only the frames that are read matter.
LEMMA OverlayAgrees ==
    ASSUME NEW m \in Contents, NEW f \in Logs, NEW e \in Logs, NEW n \in Nat
    PROVE  n <= Len(f) /\ n <= Len(e) /\ (\A k \in 1..n : e[k] = f[k]) =>
               Overlay(m, e, n) = Overlay(m, f, n)
<1>0. SUFFICES ASSUME n <= Len(f), n <= Len(e), \A k \in 1..n : e[k] = f[k]
               PROVE  Overlay(m, e, n) = Overlay(m, f, n)
  OBVIOUS
<1>1. PICK o : o = Overlay(m, f, n)
  OBVIOUS
<1>2. o \in Contents
  BY <1>1, OverlayIsTyped
<1>3. o \in [Page -> Nat]
  BY <1>2, WalConstants DEF Contents
<1>4. /\ DOMAIN f = 1..Len(f) /\ DOMAIN e = 1..Len(e) /\ Len(f) \in Nat /\ Len(e) \in Nat
  BY FramesAreTyped
<1>5. \A k : (k \in DOMAIN f /\ k <= n) <=> k \in 1..n
  BY <1>0, <1>4
<1>6. \A k : (k \in DOMAIN e /\ k <= n) <=> k \in 1..n
  BY <1>0, <1>4
<1>7. ASSUME NEW g \in Page PROVE Overlay(m, e, n)[g] = o[g]
  <2>1. CASE Untouched(f, n, g)
    <3>1. Untouched(e, n, g)
      BY <1>0, <1>5, <1>6, <2>1 DEF Untouched
    <3>2. Overlay(m, e, n)[g] = m[g]
      BY <3>1, OverlayUntouched
    <3>3. Overlay(m, f, n)[g] = m[g]
      BY <2>1, OverlayUntouched
    <3>4. QED BY <1>1, <3>2, <3>3
  <2>2. CASE ~Untouched(f, n, g)
    <3>1. PICK k \in DOMAIN f : Lasts(f, n, g, k) /\ Overlay(m, f, n)[g] = f[k].txn
      BY <2>2, OverlayTouched
    <3>2. k \in 1..n /\ k \in DOMAIN e
      BY <1>0, <1>5, <1>6, <3>1 DEF Lasts
    <3>3. Lasts(e, n, g, k)
      BY <1>0, <1>5, <1>6, <3>1, <3>2 DEF Lasts
    <3>4. Overlay(m, e, n)[g] = e[k].txn
      BY <3>2, <3>3, OverlayLast
    <3>5. QED BY <1>0, <1>1, <3>1, <3>2, <3>4
  <2>3. QED BY <2>1, <2>2
<1>8. Overlay(m, e, n) = o
  BY <1>3, <1>7, OverlayIsFunction
<1>9. QED BY <1>1, <1>8

\* Appending behind the first n frames.
LEMMA LogGrows ==
    ASSUME NEW f \in Logs, NEW n \in Nat, n <= Len(f), NEW r \in Frames
    PROVE  LET e == Append(SubSeq(f, 1, n), r) IN
           /\ e \in Logs /\ Len(e) = n + 1 /\ DOMAIN e = 1..(n + 1)
           /\ e[n + 1] = r
           /\ \A k \in 1..n : k \in DOMAIN f /\ e[k] = f[k]
<1>1. PICK s : s = SubSeq(f, 1, n)
  OBVIOUS
<1>2. f \in Seq(Frames) /\ Len(f) \in Nat /\ DOMAIN f = 1..Len(f)
  BY LenProperties DEF Logs
<1>3. s \in Seq(Frames) /\ Len(s) = n /\ \A k \in 1..n : s[k] = f[k]
  <2>1. CASE n = 0
    <3>1. s = <<>>
      BY <1>1, <1>2, <2>1
    <3>2. QED BY <2>1, <3>1
  <2>2. CASE n # 0
    <3>1. 1 \in 1..Len(f) /\ n \in 1..Len(f)
      BY <1>2, <2>2
    <3>2. QED BY <1>1, <1>2, <3>1
  <2>3. QED BY <2>1, <2>2
<1>4. PICK e : e = Append(s, r)
  OBVIOUS
<1>5. e \in Seq(Frames) /\ Len(e) = n + 1 /\ DOMAIN e = 1..(n + 1) /\ e[n + 1] = r
      /\ \A k \in 1..n : e[k] = s[k]
  BY <1>3, <1>4
<1>6. QED BY <1>1, <1>2, <1>3, <1>4, <1>5 DEF Logs

\* No log, no commit.
LEMMA EmptyLog ==
    /\ <<>> \in Logs /\ DOMAIN <<>> = {} /\ Len(<<>>) = 0 /\ Committed(<<>>) = 0
    /\ Sorted(<<>>) /\ \A m, n : Backed(m, <<>>, n)
<1>1. <<>> \in Logs /\ DOMAIN <<>> = {} /\ Len(<<>>) = 0
  BY DEF Logs
<1>2. Committed(<<>>) = 0
  BY <1>1, CommittedIs
<1>3. QED BY <1>1, <1>2 DEF Sorted, Backed

-----------------------------------------------------------------------------
(* The invariant of the writers.                                            *)

Steps == {"closed", "open", "fresh", "begun", "written", "closing"}
WriterTypeOK ==
    /\ main \in Contents /\ db \in Contents
    /\ wal \in [file : {"absent", "empty", "log"}, frames : Logs]
    /\ shm \in [there : BOOLEAN, top : Nat, done : Nat]
    /\ lock \in Writer \cup {Nobody}
    /\ conn \in [Writer -> [pc : Steps, at : Nat, left : SUBSET Page, txn : Nat]]
    /\ past \in [txns : 0..MaxTxn, crashes : Nat]

\* One writer is in a transaction, the one that has the lock.
Holding == {"fresh", "begun", "written"}
Locked == \A p \in Writer : lock = p <=> conn[p].pc \in Holding

\* What is read of the log: the frames of the index, or with none the commits.
Bound == IF shm.top = 0 THEN Committed(wal.frames) ELSE shm.top
Ordered == Sorted(wal.frames) /\ Backed(main, wal.frames, Bound)

Indexed == /\ shm.done <= shm.top /\ shm.top <= Len(wal.frames)
           /\ shm.top > 0 => wal.frames[shm.top].last

Numbered == /\ \A k \in DOMAIN wal.frames : wal.frames[k].txn <= past.txns
            /\ \A g \in Page : main[g] <= past.txns /\ db[g] <= past.txns

Emptied == wal.file # "log" => wal.frames = <<>>

\* What the connected read is what was committed, and a log that is wholly in
\* the main file is of no more use.
Connected == \E p \in Writer : conn[p].pc \notin {"closed", "closing"}
Current == Connected => db = Newest /\ (shm.done = shm.top => main = Newest)

\* Who removes the log is alone, and the main file has everything.
Closing == \A p \in Writer : conn[p].pc = "closing" => Alone(p) /\ db = main /\ shm.top = 0

Abandoned == (\A p \in Writer : ~Live(p)) => db = Recovered

\* A transaction is newer than everything that was committed, and its frames
\* follow those of the index.
Ahead(p) == /\ conn[p].txn = past.txns
            /\ \A g \in Page : main[g] < past.txns /\ db[g] < past.txns
            /\ \A k \in DOMAIN wal.frames : k <= shm.top => wal.frames[k].txn < past.txns
Placed(p) == /\ wal.file = "log" /\ shm.top <= conn[p].at /\ conn[p].at <= Len(wal.frames)
             /\ shm.top = 0 => conn[p].at = Len(wal.frames)
             /\ \A k \in DOMAIN wal.frames :
                   shm.top < k /\ k <= conn[p].at => wal.frames[k].txn = past.txns
Writing == \A p \in Writer : conn[p].pc \in Holding =>
             /\ Ahead(p)
             /\ conn[p].pc = "fresh" => conn[p].at = 0 /\ shm.top = 0
             /\ conn[p].pc # "fresh" => Placed(p)
             /\ conn[p].pc = "written" => shm.top < conn[p].at /\ wal.frames[conn[p].at].last

StorageInv == /\ WriterTypeOK /\ Locked /\ Ordered /\ Indexed /\ Numbered /\ Emptied
              /\ Current /\ Closing /\ Abandoned /\ Writing

LEMMA StorageInit == ASSUME Init PROVE StorageInv
<1>1. /\ main = [p \in Page |-> 0] /\ db = main /\ wal = [file |-> "absent", frames |-> <<>>]
      /\ shm = [there |-> FALSE, top |-> 0, done |-> 0] /\ lock = Nobody
      /\ conn = [p \in Writer |-> Closed] /\ past = [txns |-> 0, crashes |-> 0]
  BY DEF Init, WalInit
<1>2. \A p \in Writer : conn[p].pc = "closed" /\ p # Nobody
  BY <1>1, WalConstants DEF Closed
<1>3. WriterTypeOK
  <2>1. main \in Contents
    BY <1>1, WalConstants DEF Contents
  <2>2. conn \in [Writer -> [pc : Steps, at : Nat, left : SUBSET Page, txn : Nat]]
    <3>1. Closed \in [pc : Steps, at : Nat, left : SUBSET Page, txn : Nat]
      BY DEF Closed, Steps
    <3>2. QED BY <1>1, <3>1
  <2>3. past \in [txns : 0..MaxTxn, crashes : Nat]
    BY <1>1, WalConstants
  <2>4. wal \in [file : {"absent", "empty", "log"}, frames : Logs]
    BY <1>1, EmptyLog
  <2>5. QED BY <1>1, <2>1, <2>2, <2>3, <2>4 DEF WriterTypeOK
<1>4. wal.frames = <<>> /\ shm.top = 0 /\ shm.done = 0 /\ past.txns = 0 /\ lock = Nobody
  BY <1>1
<1>5. Ordered /\ Emptied
  BY <1>4, EmptyLog DEF Ordered, Emptied
<1>6. Numbered
  BY <1>1, <1>4, EmptyLog DEF Numbered
<1>7. Indexed
  BY <1>4, EmptyLog DEF Indexed
<1>8. Locked /\ Closing /\ Current /\ Writing
  BY <1>2, <1>4 DEF Locked, Closing, Current, Writing, Connected, Holding
<1>9. Abandoned
  BY <1>1, <1>3, <1>4, EmptyLog, OverlayOfNothing DEF Abandoned, Recovered, WriterTypeOK
<1>10. QED BY <1>3, <1>5, <1>6, <1>7, <1>8, <1>9 DEF StorageInv

\* What is read of a log that is in order.
LEMMA ReadsRise ==
    ASSUME StorageInv
    PROVE  /\ Committed(wal.frames) \in Nat /\ shm.top \in Nat /\ shm.done \in Nat /\ Bound \in Nat
           /\ shm.top <= Committed(wal.frames) /\ Bound <= Committed(wal.frames)
           /\ Committed(wal.frames) <= Len(wal.frames) /\ Len(wal.frames) \in Nat
           /\ Newest \in Contents /\ Recovered \in Contents
           /\ \A g \in Page : main[g] \in Nat /\ db[g] \in Nat
           /\ \A g \in Page : main[g] <= Recovered[g] /\ Newest[g] <= Recovered[g]
           /\ shm.top > 0 => \A g \in Page : main[g] <= Newest[g]
           /\ shm.top = 0 => Newest = main
           /\ wal.frames \in Logs /\ past.txns \in Nat
           /\ \A k \in DOMAIN wal.frames : k \in Nat \ {0} /\ wal.frames[k].txn \in Nat
<1>1. PICK f, m, n, c : f = wal.frames /\ m = main /\ n = shm.top /\ c = Committed(wal.frames)
  OBVIOUS
<1>2. f \in Logs /\ m \in Contents /\ n \in Nat /\ shm.done \in Nat
  BY <1>1 DEF StorageInv, WriterTypeOK
<1>3. c \in Nat /\ c <= Len(f) /\ (\A k \in DOMAIN f : f[k].last => k <= c)
  BY <1>1, <1>2, CommittedIs
<1>4. n <= c
  <2>1. n > 0 => n \in DOMAIN f /\ f[n].last
    <3>1. n <= Len(f) /\ (n > 0 => f[n].last)
      BY <1>1 DEF StorageInv, Indexed
    <3>2. QED BY <1>2, <3>1, FramesAreTyped
  <2>2. QED BY <1>2, <1>3, <2>1
<1>5. Sorted(f) /\ Backed(m, f, Bound) /\ Bound = IF n = 0 THEN c ELSE n
  BY <1>1 DEF StorageInv, Ordered, Bound
<1>6. Backed(m, f, c)
  <2>1. CASE n = 0
    BY <1>5, <2>1
  <2>2. CASE n # 0
    <3>1. Backed(m, f, n)
      BY <1>5, <2>2
    <3>2. QED BY <1>2, <1>3, <1>4, <3>1, BackedFurther
  <2>3. QED BY <2>1, <2>2
<1>7. Recovered = Overlay(m, f, c) /\ Newest = Overlay(m, f, n)
  BY <1>1 DEF Recovered, Newest
<1>8. Overlay(m, f, c) \in Contents /\ Overlay(m, f, n) \in Contents
  BY <1>2, <1>3, OverlayIsTyped
<1>9. n = 0 => Overlay(m, f, n) = m
  BY <1>2, OverlayOfNothing
<1>10. ASSUME NEW g \in Page PROVE m[g] <= Overlay(m, f, c)[g]
  BY <1>2, <1>3, <1>6, OverlayForward
<1>11. ASSUME NEW g \in Page, n > 0
       PROVE  m[g] <= Overlay(m, f, n)[g] /\ Overlay(m, f, n)[g] <= Overlay(m, f, c)[g]
  <2>1. Backed(m, f, n)
    BY <1>2, <1>5, <1>11
  <2>2. m[g] <= Overlay(m, f, n)[g]
    BY <1>2, <2>1, OverlayForward
  <2>3. Overlay(m, f, n)[g] <= Overlay(m, f, c)[g]
    BY <1>2, <1>3, <1>4, <1>5, <2>1, OverlayRises
  <2>4. QED BY <2>2, <2>3
<1>12. \A g \in Page : main[g] <= Recovered[g] /\ Newest[g] <= Recovered[g]
  <2>1. CASE n = 0
    BY <1>1, <1>7, <1>9, <1>10, <2>1
  <2>2. CASE n > 0
    BY <1>1, <1>7, <1>10, <1>11, <2>2
  <2>3. QED BY <1>2, <2>1, <2>2
<1>13. Bound \in Nat /\ Bound <= c
  BY <1>2, <1>3, <1>4, <1>5
<1>14. \A g \in Page : main[g] \in Nat /\ db[g] \in Nat
  BY WalConstants DEF StorageInv, WriterTypeOK, Contents
<1>15. past.txns \in Nat
  BY WalConstants DEF StorageInv, WriterTypeOK
<1>16. Len(f) \in Nat
  BY <1>2, FramesAreTyped
<1>17. shm.top > 0 => \A g \in Page : main[g] <= Newest[g]
  BY <1>1, <1>7, <1>11
<1>18. shm.top = 0 => Newest = main
  BY <1>1, <1>7, <1>9
<1>19. \A k \in DOMAIN f : k \in Nat \ {0} /\ f[k].txn \in Nat
  BY <1>2, FramesAreTyped
<1>20. QED BY <1>1, <1>2, <1>3, <1>4, <1>7, <1>8, <1>12, <1>13, <1>14, <1>15, <1>16, <1>17, <1>18, <1>19

-----------------------------------------------------------------------------
(* Every step of a writer keeps it.                                         *)

\* What a step says of the log when it leaves files and history alone.
LEMMA Quiet ==
    ASSUME StorageInv, main' = main, wal'.frames = wal.frames, shm'.top = shm.top,
           shm'.done = shm.done, db' = db, past'.txns = past.txns
    PROVE  /\ Ordered' /\ Indexed' /\ Numbered'
           /\ Newest' = Newest /\ Recovered' = Recovered
<1>1. Newest' = Newest /\ Recovered' = Recovered
  BY DEF Newest, Recovered
<1>2. Ordered'
  BY DEF StorageInv, Ordered, Bound
<1>3. Indexed'
  BY DEF StorageInv, Indexed
<1>4. Numbered'
  BY DEF StorageInv, Numbered
<1>5. QED BY <1>1, <1>2, <1>3, <1>4

\* Who is in a transaction is the only one.
LEMMA OneHolder ==
    ASSUME StorageInv, NEW p \in Writer, NEW q \in Writer, conn[p].pc \in Holding, conn[q].pc \in Holding
    PROVE  p = q
  BY DEF StorageInv, Locked

LEMMA NobodyHolds ==
    ASSUME StorageInv, lock = Nobody, NEW p \in Writer
    PROVE  conn[p].pc \notin Holding
  BY WalConstants DEF StorageInv, Locked

\* Who is open is not the only one to have closed.
LEMMA NobodyCloses ==
    ASSUME StorageInv, NEW p \in Writer, conn[p].pc \notin {"closed", "closing"}
    PROVE  Connected /\ \A q \in Writer : conn[q].pc # "closing"
<1>1. ASSUME NEW q \in Writer, conn[q].pc = "closing" PROVE FALSE
  <2>1. Alone(q)
    BY <1>1 DEF StorageInv, Closing
  <2>2. q # p
    BY <1>1
  <2>3. QED BY <2>1, <2>2 DEF Alone, Live
<1>2. QED BY <1>1 DEF Connected

LEMMA StepOfOpen == ASSUME StorageInv, NEW p \in Writer, Open(p) PROVE StorageInv'
<1>1. /\ conn[p].pc = "closed" /\ \A q \in Writer : conn[q].pc # "closing"
      /\ wal' = Claimed(wal) /\ shm' = Index(p)
      /\ main' = main /\ lock' = lock /\ db' = db /\ past' = past
  BY DEF Open, Live, ConfigurationFree
<1>2. wal'.frames = wal.frames /\ wal'.file \in {"absent", "empty", "log"}
      /\ (wal.file = "log" <=> wal'.file = "log")
      /\ wal' \in [file : {"absent", "empty", "log"}, frames : Logs]
  BY <1>1 DEF Claimed, StorageInv, WriterTypeOK
<1>3. conn' = [conn EXCEPT ![p].pc = "open"]
  BY DEF Open
<1>4. /\ conn' \in [Writer -> [pc : Steps, at : Nat, left : SUBSET Page, txn : Nat]]
      /\ conn'[p].pc = "open" /\ \A q \in Writer : q # p => conn'[q] = conn[q]
  BY <1>3 DEF StorageInv, WriterTypeOK, Steps
<1>5. shm' \in [there : BOOLEAN, top : Nat, done : Nat]
  BY <1>1, ReadsRise DEF Index, StorageInv, WriterTypeOK
<1>6. WriterTypeOK'
  BY <1>1, <1>2, <1>4, <1>5 DEF StorageInv, WriterTypeOK
<1>7. Locked'
  BY <1>1, <1>4 DEF StorageInv, Locked, Holding
<1>8. Emptied'
  BY <1>2 DEF StorageInv, Emptied
<1>9. Closing' /\ Abandoned'
  BY <1>1, <1>4 DEF Closing, Abandoned, Live
<1>10. CASE Alone(p)
  <2>1. \A q \in Writer : conn[q].pc = "closed"
    BY <1>1, <1>10 DEF Alone, Live
  <2>2. shm'.top = Committed(wal.frames) /\ shm'.done = 0
    BY <1>1, <1>10 DEF Index
  <2>3. db = Recovered
    BY <2>1 DEF StorageInv, Abandoned, Live
  <2>4. Newest' = Recovered
    BY <1>1, <1>2, <2>2 DEF Newest, Recovered
  <2>5. PICK f, m, n, h : f = wal.frames /\ m = main /\ n = Bound /\ h = Committed(wal.frames)
    OBVIOUS
  <2>6. f \in Logs /\ n \in Nat /\ h \in Nat /\ n <= h /\ Sorted(f) /\ Backed(m, f, n)
    BY <2>5, ReadsRise DEF StorageInv, Ordered
  <2>7. Backed(m, f, h)
    BY <2>6, BackedFurther
  <2>8. Bound' = h /\ main' = m /\ wal'.frames = f
    BY <1>1, <1>2, <2>2, <2>5 DEF Bound
  <2>9. Ordered'
    BY <2>6, <2>7, <2>8 DEF Ordered
  <2>10. h <= Len(f) /\ (h > 0 => f[h].last)
    BY <2>5, <2>6, CommittedIs
  <2>11. Indexed'
    BY <1>2, <2>2, <2>5, <2>6, <2>10 DEF Indexed
  <2>12. Numbered'
    BY <1>1, <1>2 DEF StorageInv, Numbered
  <2>13. h = 0 => Recovered = main
    <3>1. main \in Contents
      BY DEF StorageInv, WriterTypeOK
    <3>2. QED BY <2>5, <2>6, <3>1, OverlayOfNothing DEF Recovered
  <2>14. Current'
    BY <1>1, <2>2, <2>3, <2>4, <2>5, <2>13 DEF Current
  <2>15. Writing'
    <3>1. \A q \in Writer : conn'[q].pc \notin Holding
      BY <1>4, <2>1 DEF Holding
    <3>2. QED BY <3>1 DEF Writing
  <2>16. QED BY <1>6, <1>7, <1>8, <1>9, <2>9, <2>11, <2>12, <2>14, <2>15 DEF StorageInv
<1>11. CASE ~Alone(p)
  <2>1. shm' = shm
    BY <1>1, <1>11 DEF Index
  <2>2. Ordered' /\ Indexed' /\ Numbered' /\ Newest' = Newest
    BY <1>1, <1>2, <2>1, Quiet
  <2>3. PICK q \in Writer : q # p /\ conn[q].pc # "closed"
    BY <1>11 DEF Alone, Live
  <2>4. Connected
    BY <1>1, <2>3 DEF Connected
  <2>5. Current'
    BY <1>1, <2>1, <2>2, <2>4 DEF StorageInv, Current
  <2>6. Writing'
    <3>1. ASSUME NEW r \in Writer, conn'[r].pc \in Holding
          PROVE  r # p /\ conn'[r] = conn[r]
      BY <1>4, <3>1 DEF Holding
    <3>2. QED BY <1>1, <1>2, <2>1, <3>1 DEF StorageInv, Writing, Ahead, Placed
  <2>7. QED BY <1>6, <1>7, <1>8, <1>9, <2>2, <2>5, <2>6 DEF StorageInv
<1>12. QED BY <1>10, <1>11

LEMMA StepOfBegin == ASSUME StorageInv, NEW p \in Writer, Begin(p) PROVE StorageInv'
<1>1. PICK S \in SUBSET Page :
        conn' = [conn EXCEPT ![p] =
                [pc |-> IF shm.done = shm.top THEN "fresh" ELSE "begun",
                 at |-> IF shm.done = shm.top THEN 0 ELSE shm.top, left |-> S, txn |-> past.txns + 1]]
  BY DEF Begin
<1>2. /\ conn[p].pc = "open" /\ lock = Nobody /\ past.txns < MaxTxn
      /\ shm' = IF shm.done = shm.top THEN [shm EXCEPT !.top = 0, !.done = 0] ELSE shm
      /\ lock' = p /\ past' = [past EXCEPT !.txns = @ + 1]
      /\ main' = main /\ wal' = wal /\ db' = db
  BY DEF Begin
<1>3. /\ past'.txns = past.txns + 1 /\ past' \in [txns : 0..MaxTxn, crashes : Nat] /\ past.txns \in Nat
  BY <1>2, WalConstants DEF StorageInv, WriterTypeOK
<1>4. /\ conn' \in [Writer -> [pc : Steps, at : Nat, left : SUBSET Page, txn : Nat]]
      /\ conn'[p].pc = (IF shm.done = shm.top THEN "fresh" ELSE "begun")
      /\ conn'[p].at = (IF shm.done = shm.top THEN 0 ELSE shm.top)
      /\ conn'[p].txn = past.txns + 1
      /\ \A q \in Writer : q # p => conn'[q] = conn[q]
  <2>1. [pc |-> IF shm.done = shm.top THEN "fresh" ELSE "begun",
         at |-> IF shm.done = shm.top THEN 0 ELSE shm.top, left |-> S, txn |-> past.txns + 1]
          \in [pc : Steps, at : Nat, left : SUBSET Page, txn : Nat]
    BY <1>3 DEF StorageInv, WriterTypeOK, Steps
  <2>2. QED BY <1>1, <2>1 DEF StorageInv, WriterTypeOK
<1>5. shm' \in [there : BOOLEAN, top : Nat, done : Nat] /\ shm' = [there |-> shm.there, top |-> shm'.top, done |-> shm'.done]
  BY <1>2 DEF StorageInv, WriterTypeOK
<1>6. WriterTypeOK'
  BY <1>2, <1>3, <1>4, <1>5 DEF StorageInv, WriterTypeOK
<1>7. Connected /\ \A q \in Writer : conn[q].pc # "closing"
  BY <1>2, NobodyCloses
<1>8. \A q \in Writer : conn[q].pc \notin Holding
  BY <1>2, NobodyHolds
<1>9. Locked'
  BY <1>2, <1>4, <1>8 DEF Locked, Holding
<1>10. Emptied'
  BY <1>2 DEF StorageInv, Emptied
<1>11. conn'[p].pc \notin {"closed", "closing"} /\ conn'[p].pc \in Holding
  BY <1>4 DEF Holding
<1>12. Closing' /\ Abandoned'
  BY <1>4, <1>7, <1>11 DEF Closing, Abandoned, Live
<1>13. Numbered'
  BY <1>2, <1>3, ReadsRise DEF StorageInv, Numbered
<1>14. db = Newest /\ (shm.done = shm.top => main = Newest)
  BY <1>7 DEF StorageInv, Current
<1>15. Ahead(p)'
  BY <1>2, <1>3, <1>4, <1>13, ReadsRise DEF StorageInv, Numbered, Ahead
<1>16. \A q \in Writer : conn'[q].pc \in Holding => q = p
  BY <1>4, <1>8
<1>17. CASE shm.done = shm.top
  <2>1. shm'.top = 0 /\ shm'.done = 0
    BY <1>2, <1>17 DEF StorageInv, WriterTypeOK
  <2>2. main \in Contents /\ wal.frames \in Logs
    BY DEF StorageInv, WriterTypeOK
  <2>3. Newest' = main
    BY <1>2, <2>1, <2>2, OverlayOfNothing DEF Newest
  <2>4. Current'
    BY <1>2, <1>14, <1>17, <2>3 DEF Current
  <2>5. PICK f, m, n, h : f = wal.frames /\ m = main /\ n = Bound /\ h = Committed(wal.frames)
    OBVIOUS
  <2>6. f \in Logs /\ n \in Nat /\ h \in Nat /\ n <= h /\ Sorted(f) /\ Backed(m, f, n)
    BY <2>5, ReadsRise DEF StorageInv, Ordered
  <2>7. Backed(m, f, h)
    BY <2>6, BackedFurther
  <2>8. Bound' = h /\ main' = m /\ wal'.frames = f
    BY <1>2, <2>1, <2>5 DEF Bound
  <2>9. Ordered'
    BY <2>6, <2>7, <2>8 DEF Ordered
  <2>10. Indexed'
    BY <1>2, <2>1, ReadsRise DEF Indexed
  <2>11. Writing'
    <3>1. conn'[p].pc = "fresh" /\ conn'[p].at = 0
      BY <1>4, <1>17
    <3>2. QED BY <1>15, <1>16, <2>1, <3>1 DEF Writing
  <2>12. QED BY <1>6, <1>9, <1>10, <1>12, <1>13, <2>4, <2>9, <2>10, <2>11 DEF StorageInv
<1>18. CASE shm.done # shm.top
  <2>1. shm' = shm
    BY <1>2, <1>18
  <2>2. shm.top > 0
    BY <1>18, ReadsRise DEF StorageInv, Indexed
  <2>3. Ordered'
    BY <1>2, <2>1 DEF StorageInv, Ordered, Bound
  <2>4. Indexed'
    BY <1>2, <2>1 DEF StorageInv, Indexed
  <2>5. Newest' = Newest
    BY <1>2, <2>1 DEF Newest
  <2>6. Current'
    BY <1>2, <1>14, <2>1, <2>5 DEF Current
  <2>7. Placed(p)'
    <3>1. conn'[p].at = shm.top
      BY <1>4, <1>18
    <3>2. shm.top <= Len(wal.frames)
      BY DEF StorageInv, Indexed
    <3>3. wal.file = "log"
      <4>1. wal.frames # <<>>
        BY <2>2, <3>2, EmptyLog, ReadsRise
      <4>2. QED BY <4>1 DEF StorageInv, Emptied
    <3>4. \A k \in DOMAIN wal.frames : ~(shm.top < k /\ k <= shm.top)
      BY ReadsRise, FramesAreTyped
    <3>5. shm.top \in Nat /\ shm'.top # 0
      BY <2>1, <2>2, ReadsRise
    <3>6. QED BY <1>2, <2>1, <3>1, <3>2, <3>3, <3>4, <3>5 DEF Placed
  <2>8. Writing'
    <3>1. conn'[p].pc = "begun"
      BY <1>4, <1>18
    <3>2. QED BY <1>15, <1>16, <2>7, <3>1 DEF Writing
  <2>9. QED BY <1>6, <1>9, <1>10, <1>12, <1>13, <2>3, <2>4, <2>6, <2>8 DEF StorageInv
<1>19. QED BY <1>17, <1>18

LEMMA StepOfHeader == ASSUME StorageInv, NEW p \in Writer, Header(p) PROVE StorageInv'
<1>1. /\ conn[p].pc = "fresh" /\ conn' = [conn EXCEPT ![p].pc = "begun"]
      /\ wal' = [file |-> "log", frames |-> <<>>]
      /\ main' = main /\ shm' = shm /\ lock' = lock /\ db' = db /\ past' = past
  BY DEF Header
<1>2. wal'.file = "log" /\ wal'.frames = <<>>
  BY <1>1
<1>3. /\ conn' \in [Writer -> [pc : Steps, at : Nat, left : SUBSET Page, txn : Nat]]
      /\ conn'[p].pc = "begun" /\ conn'[p].at = conn[p].at /\ conn'[p].txn = conn[p].txn
      /\ \A q \in Writer : q # p => conn'[q] = conn[q]
  BY <1>1 DEF StorageInv, WriterTypeOK, Steps
<1>4. WriterTypeOK'
  BY <1>1, <1>3, EmptyLog DEF StorageInv, WriterTypeOK
<1>5. conn[p].pc \in Holding /\ conn'[p].pc \in Holding
  BY <1>1, <1>3 DEF Holding
<1>6. Locked'
  BY <1>1, <1>3, <1>5 DEF StorageInv, Locked
<1>7. Connected /\ \A q \in Writer : conn[q].pc # "closing"
  BY <1>1, NobodyCloses
<1>8. Closing' /\ Abandoned' /\ Emptied'
  BY <1>2, <1>3, <1>7 DEF Closing, Abandoned, Emptied, Live
<1>9. shm.top = 0 /\ conn[p].at = 0 /\ Ahead(p)
  BY <1>1, <1>5 DEF StorageInv, Writing
<1>10. shm.done = 0
  BY <1>9, ReadsRise DEF StorageInv, Indexed
<1>11. Newest = main /\ main \in Contents
  BY <1>9, ReadsRise DEF StorageInv, WriterTypeOK
<1>12. Newest' = main
  BY <1>1, <1>2, <1>9, <1>11, EmptyLog, OverlayOfNothing DEF Newest
<1>13. Current'
  BY <1>1, <1>7, <1>11, <1>12 DEF StorageInv, Current
<1>14. Ordered' /\ Indexed' /\ Numbered'
  <2>1. Ordered'
    BY <1>2, EmptyLog DEF Ordered
  <2>2. Indexed'
    BY <1>1, <1>2, <1>9, <1>10, EmptyLog DEF Indexed
  <2>3. Numbered'
    BY <1>1, <1>2, EmptyLog DEF StorageInv, Numbered
  <2>4. QED BY <2>1, <2>2, <2>3
<1>15. Ahead(p)' /\ Placed(p)'
  <2>1. Ahead(p)'
    BY <1>1, <1>2, <1>3, <1>9, EmptyLog DEF Ahead
  <2>2. Placed(p)'
    BY <1>1, <1>2, <1>3, <1>9, EmptyLog DEF Placed
  <2>3. QED BY <2>1, <2>2
<1>16. \A q \in Writer : conn'[q].pc \in Holding => q = p
  BY <1>3, <1>5, OneHolder
<1>17. Writing'
  BY <1>3, <1>15, <1>16 DEF Writing
<1>18. QED BY <1>4, <1>6, <1>8, <1>13, <1>14, <1>17 DEF StorageInv

LEMMA StepOfFrame == ASSUME StorageInv, NEW p \in Writer, Frame(p) PROVE StorageInv'
<1>1. PICK x \in conn[p].left :
        /\ wal' = [wal EXCEPT !.frames = Append(SubSeq(@, 1, conn[p].at),
                     [page |-> x, txn |-> conn[p].txn, last |-> conn[p].left = {x}])]
        /\ conn' = [conn EXCEPT ![p].at = @ + 1, ![p].left = @ \ {x},
                                ![p].pc = IF conn[p].left = {x} THEN "written" ELSE "begun"]
  BY DEF Frame
<1>2. /\ conn[p].pc = "begun" /\ main' = main /\ shm' = shm /\ lock' = lock /\ db' = db /\ past' = past
  BY DEF Frame
<1>3. PICK f, n, r, t : /\ f = wal.frames /\ n = conn[p].at /\ t = past.txns
                        /\ r = [page |-> x, txn |-> conn[p].txn, last |-> conn[p].left = {x}]
  OBVIOUS
<1>4. conn[p].pc \in Holding
  BY <1>2 DEF Holding
<1>5. Ahead(p) /\ Placed(p)
  BY <1>2, <1>4 DEF StorageInv, Writing
<1>6. f \in Logs /\ n \in Nat /\ t \in Nat /\ shm.top \in Nat /\ n <= Len(f) /\ shm.top <= n
  <2>1. n \in Nat
    BY <1>3 DEF StorageInv, WriterTypeOK
  <2>2. QED BY <1>3, <1>5, <2>1, ReadsRise DEF Placed
<1>7. x \in Page /\ conn[p].txn = t /\ t \in 1..MaxTxn
  <2>1. x \in Page
    BY <1>1 DEF StorageInv, WriterTypeOK
  <2>2. main[x] < t /\ main[x] \in Nat
    BY <1>3, <1>5, <2>1, ReadsRise DEF Ahead
  <2>3. t \in 0..MaxTxn
    BY <1>3 DEF StorageInv, WriterTypeOK
  <2>4. QED BY <1>3, <1>5, <2>1, <2>2, <2>3, WalConstants DEF Ahead
<1>8. r \in Frames /\ r.page = x /\ r.txn = t /\ (r.last <=> conn[p].left = {x})
  BY <1>3, <1>7 DEF Frames
<1>9. PICK e : e = Append(SubSeq(f, 1, n), r)
  OBVIOUS
<1>10. /\ e \in Logs /\ Len(e) = n + 1 /\ DOMAIN e = 1..(n + 1) /\ e[n + 1] = r
       /\ \A k \in 1..n : k \in DOMAIN f /\ e[k] = f[k]
  BY <1>6, <1>8, <1>9, LogGrows
<1>11. wal'.frames = e /\ wal'.file = wal.file /\ wal' \in [file : {"absent", "empty", "log"}, frames : Logs]
  BY <1>1, <1>3, <1>9, <1>10 DEF StorageInv, WriterTypeOK
<1>12. /\ conn' \in [Writer -> [pc : Steps, at : Nat, left : SUBSET Page, txn : Nat]]
       /\ conn'[p].pc = (IF conn[p].left = {x} THEN "written" ELSE "begun")
       /\ conn'[p].at = n + 1 /\ conn'[p].txn = conn[p].txn
       /\ \A q \in Writer : q # p => conn'[q] = conn[q]
  <2>1. PICK z, v, a : /\ z = (IF conn[p].left = {x} THEN "written" ELSE "begun")
                       /\ v = conn[p].left \ {x} /\ a = conn[p].at + 1
    OBVIOUS
  <2>2. conn \in [Writer -> [pc : Steps, at : Nat, left : SUBSET Page, txn : Nat]]
    BY DEF StorageInv, WriterTypeOK
  <2>3. z \in Steps /\ v \in SUBSET Page /\ a \in Nat /\ a = n + 1
    BY <1>3, <1>6, <2>1, <2>2 DEF Steps
  <2>4. conn' = [conn EXCEPT ![p].at = a, ![p].left = v, ![p].pc = z]
    BY <1>1, <2>1
  <2>5. QED BY <2>1, <2>2, <2>3, <2>4
<1>13. WriterTypeOK'
  BY <1>2, <1>11, <1>12 DEF StorageInv, WriterTypeOK
<1>14. conn'[p].pc \in Holding /\ conn'[p].pc \notin {"closed", "closing", "fresh"}
  BY <1>12 DEF Holding
<1>15. Locked'
  BY <1>2, <1>4, <1>12, <1>14 DEF StorageInv, Locked
<1>16. Connected /\ \A q \in Writer : conn[q].pc # "closing"
  BY <1>2, NobodyCloses
<1>17. Closing' /\ Abandoned'
  BY <1>12, <1>14, <1>16 DEF Closing, Abandoned, Live
<1>18. Emptied'
  BY <1>5, <1>11 DEF Emptied, Placed
<1>19. \A k \in DOMAIN e : k \in Nat /\ ((k <= n /\ k \in 1..n) \/ k = n + 1)
  BY <1>6, <1>10
<1>20. Newest' = Newest
  <2>1. main \in Contents
    BY DEF StorageInv, WriterTypeOK
  <2>2. PICK h, m : h = shm.top /\ m = main
    OBVIOUS
  <2>3. h <= Len(f) /\ h <= Len(e) /\ h \in Nat /\ \A k \in 1..h : e[k] = f[k]
    <3>1. Len(f) \in Nat
      BY <1>6, FramesAreTyped
    <3>2. QED BY <1>6, <1>10, <2>2, <3>1
  <2>4. Overlay(m, e, h) = Overlay(m, f, h)
    BY <1>6, <1>10, <2>1, <2>2, <2>3, OverlayAgrees
  <2>5. QED BY <1>2, <1>3, <1>11, <2>2, <2>4 DEF Newest
<1>21. Current'
  BY <1>2, <1>16, <1>20 DEF StorageInv, Current
<1>22. \A k \in DOMAIN f : f[k].txn \in Nat /\ k \in Nat /\ f[k].txn <= t
  BY <1>3, ReadsRise DEF StorageInv, Numbered
<1>23. Numbered'
  <2>1. \A k \in DOMAIN e : e[k].txn <= t
    BY <1>6, <1>8, <1>10, <1>19, <1>22
  <2>2. QED BY <1>2, <1>3, <1>11, <2>1 DEF StorageInv, Numbered
<1>24. Sorted(e)
  <2>1. SUFFICES ASSUME NEW i \in DOMAIN e, NEW k \in DOMAIN e, i <= k PROVE e[i].txn <= e[k].txn
    BY DEF Sorted
  <2>2. CASE k = n + 1
    BY <1>6, <1>8, <1>10, <1>19, <1>22, <2>2
  <2>3. CASE k \in 1..n
    <3>1. i \in 1..n
      BY <1>6, <1>19, <2>1, <2>3
    <3>2. f[i].txn <= f[k].txn
      BY <1>3, <1>10, <2>1, <2>3, <3>1 DEF StorageInv, Ordered, Sorted
    <3>3. QED BY <1>10, <2>3, <3>1, <3>2
  <2>4. QED BY <1>19, <2>2, <2>3
<1>25. Bound \in Nat /\ Bound <= n
  <2>1. CASE shm.top = 0
    <3>1. n = Len(f)
      BY <1>3, <1>5, <2>1 DEF Placed
    <3>2. QED BY <1>3, <2>1, <3>1, ReadsRise DEF Bound
  <2>2. CASE shm.top # 0
    BY <1>6, <2>2 DEF Bound
  <2>3. QED BY <2>1, <2>2
<1>26. Bound' \in Nat /\ Bound <= Bound'
  <2>1. CASE shm.top # 0
    BY <1>2, <1>6, <2>1 DEF Bound
  <2>2. CASE shm.top = 0
    <3>1. Bound' = Committed(e) /\ Bound = Committed(f)
      BY <1>2, <1>3, <1>11, <2>2 DEF Bound
    <3>2. Committed(f) > 0 => Committed(f) \in DOMAIN f /\ f[Committed(f)].last
      BY <1>6, CommittedIs
    <3>3. Committed(e) \in Nat /\ \A k \in DOMAIN e : e[k].last => k <= Committed(e)
      BY <1>10, CommittedIs
    <3>4. Committed(f) > 0 => Committed(f) \in DOMAIN e /\ e[Committed(f)].last
      BY <1>6, <1>10, <1>25, <3>1, <3>2
    <3>5. QED BY <1>25, <3>1, <3>3, <3>4
  <2>3. QED BY <2>1, <2>2
<1>27. Backed(main, e, Bound')
  <2>1. SUFFICES ASSUME NEW g \in Page, NEW k \in DOMAIN e, e[k].page = g, e[k].txn < main[g]
                 PROVE  \E j \in DOMAIN e : k < j /\ j <= Bound' /\ e[j].page = g /\ main[g] <= e[j].txn
    BY DEF Backed
  <2>2. main[g] < t /\ main[g] \in Nat
    BY <1>3, <1>5, ReadsRise DEF Ahead
  <2>3. k # n + 1
    BY <1>6, <1>8, <1>10, <2>1, <2>2
  <2>4. k \in 1..n
    BY <1>19, <2>3
  <2>5. k \in DOMAIN f /\ f[k].page = g /\ f[k].txn < main[g]
    BY <1>10, <2>1, <2>4
  <2>6. PICK j \in DOMAIN f : k < j /\ j <= Bound /\ f[j].page = g /\ main[g] <= f[j].txn
    BY <1>3, <2>5 DEF StorageInv, Ordered, Backed
  <2>7. j \in 1..n /\ j \in DOMAIN e /\ j <= Bound'
    <3>1. j \in Nat /\ k \in Nat
      BY <1>22, <2>5
    <3>2. QED BY <1>6, <1>10, <1>25, <1>26, <2>6, <3>1
  <2>8. QED BY <1>10, <2>6, <2>7
<1>28. Ordered'
  BY <1>2, <1>11, <1>24, <1>27 DEF Ordered
<1>29. Indexed'
  <2>1. shm.top <= n + 1
    BY <1>6
  <2>2. shm.top > 0 => e[shm.top].last
    BY <1>3, <1>6, <1>10 DEF StorageInv, Indexed
  <2>3. QED BY <1>2, <1>10, <1>11, <2>1, <2>2 DEF StorageInv, Indexed
<1>30. Ahead(p)'
  <2>1. \A k \in DOMAIN e : k <= shm.top => e[k].txn < t
    <3>1. ASSUME NEW k \in DOMAIN e, k <= shm.top PROVE k \in DOMAIN f /\ e[k] = f[k]
      BY <1>6, <1>10, <1>19, <3>1
    <3>2. QED BY <1>3, <1>5, <3>1 DEF Ahead
  <2>2. QED BY <1>2, <1>3, <1>5, <1>11, <1>12, <2>1 DEF Ahead
<1>31. Placed(p)'
  <2>1. \A k \in DOMAIN e : shm.top < k /\ k <= n + 1 => e[k].txn = t
    <3>1. ASSUME NEW k \in DOMAIN e, shm.top < k, k # n + 1 PROVE e[k].txn = t
      <4>1. k \in 1..n /\ k \in DOMAIN f /\ e[k] = f[k] /\ k <= n
        BY <1>10, <1>19, <3>1
      <4>2. f[k].txn = t
        BY <1>3, <1>5, <3>1, <4>1 DEF Placed
      <4>3. QED BY <4>1, <4>2
    <3>2. e[n + 1].txn = t
      BY <1>8, <1>10
    <3>3. QED BY <3>1, <3>2
  <2>2. shm.top <= n + 1 /\ n + 1 <= Len(e) /\ n + 1 = Len(e)
    BY <1>6, <1>10
  <2>3. wal.file = "log"
    BY <1>5 DEF Placed
  <2>4. QED BY <1>2, <1>3, <1>11, <1>12, <2>1, <2>2, <2>3 DEF Placed
<1>32. conn'[p].pc = "written" => shm'.top < conn'[p].at /\ wal'.frames[conn'[p].at].last
  <2>1. conn'[p].pc = "written" => conn[p].left = {x}
    BY <1>12
  <2>2. shm.top < n + 1
    BY <1>6
  <2>3. QED BY <1>2, <1>8, <1>10, <1>11, <1>12, <2>1, <2>2
<1>33. \A q \in Writer : conn'[q].pc \in Holding => q = p
  BY <1>4, <1>12, OneHolder
<1>34. Writing'
  BY <1>14, <1>30, <1>31, <1>32, <1>33 DEF Writing
<1>35. QED BY <1>13, <1>15, <1>17, <1>18, <1>21, <1>23, <1>28, <1>29, <1>34 DEF StorageInv

LEMMA StepOfPublish == ASSUME StorageInv, NEW p \in Writer, Publish(p) PROVE StorageInv'
<1>1. /\ conn[p].pc = "written" /\ shm' = [shm EXCEPT !.top = conn[p].at]
      /\ db' = [g \in Page |-> IF \E k \in 1 .. conn[p].at :
                       wal.frames[k].txn = conn[p].txn /\ wal.frames[k].page = g
                    THEN conn[p].txn ELSE db[g]]
      /\ conn' = [conn EXCEPT ![p] = [Closed EXCEPT !.pc = "open"]]
      /\ lock' = Unlocked(p) /\ main' = main /\ wal' = wal /\ past' = past
  BY DEF Publish
<1>2. conn[p].pc \in Holding
  BY <1>1 DEF Holding
<1>3. lock = p /\ lock' = Nobody
  BY <1>1, <1>2 DEF StorageInv, Locked, Unlocked
<1>4. PICK f, n, t, h, m, d : /\ f = wal.frames /\ n = conn[p].at /\ t = past.txns
                              /\ h = shm.top /\ m = main /\ d = db
  OBVIOUS
<1>5. Ahead(p) /\ Placed(p) /\ h < n /\ f[n].last
  BY <1>1, <1>2, <1>4 DEF StorageInv, Writing
<1>6. /\ f \in Logs /\ n \in Nat /\ t \in Nat /\ h \in Nat /\ n <= Len(f) /\ Len(f) \in Nat
      /\ m \in Contents /\ t \in 0..MaxTxn
  <2>1. n \in Nat /\ m \in Contents /\ t \in 0..MaxTxn
    BY <1>4 DEF StorageInv, WriterTypeOK
  <2>2. QED BY <1>4, <1>5, <2>1, ReadsRise DEF Placed
<1>7. conn[p].txn = t
  BY <1>4, <1>5 DEF Ahead
<1>8. shm' \in [there : BOOLEAN, top : Nat, done : Nat] /\ shm'.top = n /\ shm'.done = shm.done
  BY <1>1, <1>4, <1>6 DEF StorageInv, WriterTypeOK
<1>9. /\ conn' \in [Writer -> [pc : Steps, at : Nat, left : SUBSET Page, txn : Nat]]
      /\ conn'[p].pc = "open" /\ \A q \in Writer : q # p => conn'[q] = conn[q]
  <2>1. [Closed EXCEPT !.pc = "open"] \in [pc : Steps, at : Nat, left : SUBSET Page, txn : Nat]
        /\ [Closed EXCEPT !.pc = "open"].pc = "open"
    BY DEF Closed, Steps
  <2>2. PICK z : z = [Closed EXCEPT !.pc = "open"]
    OBVIOUS
  <2>3. QED BY <1>1, <2>1, <2>2 DEF StorageInv, WriterTypeOK
<1>10. \A k : k \in 1..n <=> k \in DOMAIN f /\ k <= n
  BY <1>6, FramesAreTyped
<1>11. db' = [g \in Page |-> IF \E k \in 1..n : f[k].txn = t /\ f[k].page = g THEN t ELSE d[g]]
  BY <1>1, <1>4, <1>7
<1>12. \A g \in Page : d[g] \in 0..MaxTxn /\ d[g] < t /\ m[g] < t /\ d[g] \in Nat
  BY <1>4, <1>5, ReadsRise DEF StorageInv, WriterTypeOK, Contents, Ahead
<1>13. db' \in Contents /\ \A g \in Page : db'[g] <= t
  BY <1>6, <1>11, <1>12 DEF Contents
<1>14. lock' \in Writer \cup {Nobody}
  BY <1>3
<1>15. WriterTypeOK'
  BY <1>1, <1>8, <1>9, <1>13, <1>14 DEF StorageInv, WriterTypeOK
<1>16. \A q \in Writer : conn'[q].pc \notin Holding
  BY <1>2, <1>9, OneHolder DEF Holding
<1>17. Locked'
  BY <1>3, <1>16, WalConstants DEF Locked
<1>18. Connected /\ \A q \in Writer : conn[q].pc # "closing"
  BY <1>1, NobodyCloses
<1>19. Closing' /\ Abandoned' /\ Writing'
  <2>1. Writing'
    BY <1>16 DEF Writing
  <2>2. QED BY <1>9, <1>18, <2>1 DEF Closing, Abandoned, Live
<1>20. Emptied'
  BY <1>1 DEF StorageInv, Emptied
<1>21. Numbered'
  BY <1>1, <1>4, <1>13 DEF StorageInv, Numbered
<1>22. Bound \in Nat /\ Bound <= n
  <2>1. CASE h = 0
    <3>1. n = Len(f)
      BY <1>4, <1>5, <2>1 DEF Placed
    <3>2. QED BY <1>4, <2>1, <3>1, ReadsRise DEF Bound
  <2>2. CASE h # 0
    BY <1>4, <1>5, <1>6, <2>2 DEF Bound
  <2>3. QED BY <2>1, <2>2
<1>23. Bound' = n
  BY <1>5, <1>6, <1>8 DEF Bound
<1>24. Ordered'
  <2>1. Sorted(f) /\ Backed(m, f, Bound)
    BY <1>4 DEF StorageInv, Ordered
  <2>2. Backed(m, f, n)
    BY <1>6, <1>22, <2>1, BackedFurther
  <2>3. QED BY <1>1, <1>4, <1>23, <2>1, <2>2 DEF Ordered
<1>25. Indexed'
  <2>1. shm.done <= n
    BY <1>4, <1>5, <1>6, ReadsRise DEF StorageInv, Indexed
  <2>2. QED BY <1>1, <1>4, <1>5, <1>6, <1>8, <2>1 DEF Indexed
<1>26. \A k \in DOMAIN f : k \in Nat /\ f[k].txn \in Nat /\ f[k].txn <= t
  BY <1>4, ReadsRise DEF StorageInv, Numbered
<1>27. d = Overlay(m, f, h)
  BY <1>4, <1>18 DEF StorageInv, Current, Newest
<1>typed. f \in Logs /\ n \in Nat /\ h \in Nat
  BY <1>6
<1>28. ASSUME NEW g \in Page PROVE Overlay(m, f, n)[g] = db'[g]
  <2>1. CASE \E k \in 1..n : f[k].txn = t /\ f[k].page = g
    <3>1. PICK k \in 1..n : f[k].txn = t /\ f[k].page = g
      BY <2>1
    <3>2. ~Untouched(f, n, g)
      <4>1. k \in DOMAIN f /\ k <= n /\ f[k].page = g
        BY <1>10, <3>1
      <4>2. QED BY <4>1 DEF Untouched
    <3>3. PICK j \in DOMAIN f : Lasts(f, n, g, j) /\ Overlay(m, f, n)[g] = f[j].txn
      BY <1>typed, <3>2, OverlayTouched
    <3>4. k <= j /\ k \in DOMAIN f
      BY <1>10, <3>1, <3>3 DEF Lasts
    <3>5. f[k].txn <= f[j].txn
      BY <1>4, <3>4 DEF StorageInv, Ordered, Sorted
    <3>6. f[j].txn = t
      BY <1>6, <1>26, <3>1, <3>5
    <3>7. db'[g] = t
      BY <1>11, <2>1
    <3>8. QED BY <3>3, <3>6, <3>7
  <2>2. CASE ~ \E k \in 1..n : f[k].txn = t /\ f[k].page = g
    <3>1. db'[g] = d[g]
      BY <1>11, <2>2
    <3>2. ASSUME NEW k \in DOMAIN f, k <= n, f[k].page = g PROVE k <= h
      <4>1. k \in 1..n
        BY <1>10, <3>2
      <4>2. f[k].txn # t
        BY <2>2, <3>2, <4>1
      <4>3. ~(h < k)
        BY <1>4, <1>5, <3>2, <4>2 DEF Placed
      <4>4. QED BY <1>6, <1>26, <4>3
    <3>3. CASE Untouched(f, h, g)
      <4>1. Untouched(f, n, g)
        BY <3>2, <3>3 DEF Untouched
      <4>2. Overlay(m, f, h)[g] = m[g]
        BY <1>typed, <3>3, OverlayUntouched
      <4>3. Overlay(m, f, n)[g] = m[g]
        BY <1>typed, <4>1, OverlayUntouched
      <4>4. QED BY <1>27, <3>1, <4>2, <4>3
    <3>4. CASE ~Untouched(f, h, g)
      <4>1. PICK j \in DOMAIN f : Lasts(f, h, g, j) /\ Overlay(m, f, h)[g] = f[j].txn
        BY <1>typed, <3>4, OverlayTouched
      <4>2. j <= n
        BY <1>5, <1>6, <1>26, <4>1 DEF Lasts
      <4>3. Lasts(f, n, g, j)
        BY <3>2, <4>1, <4>2 DEF Lasts
      <4>4. Overlay(m, f, n)[g] = f[j].txn
        BY <1>typed, <4>3, OverlayLast
      <4>5. QED BY <1>27, <3>1, <4>1, <4>4
    <3>5. QED BY <3>3, <3>4
  <2>3. QED BY <2>1, <2>2
<1>29. Newest' = db'
  <2>1. PICK o : o = db'
    OBVIOUS
  <2>2. o \in [Page -> Nat]
    BY <1>13, <2>1, WalConstants DEF Contents
  <2>3. \A g \in Page : Overlay(m, f, n)[g] = o[g]
    BY <1>28, <2>1
  <2>4. Overlay(m, f, n) = o
    BY <2>2, <2>3, OverlayIsFunction
  <2>5. QED BY <1>1, <1>4, <1>8, <2>1, <2>4 DEF Newest
<1>30. Current'
  <2>1. shm'.done # shm'.top
    BY <1>4, <1>5, <1>6, <1>8, ReadsRise DEF StorageInv, Indexed
  <2>2. QED BY <1>29, <2>1 DEF Current
<1>31. QED BY <1>15, <1>17, <1>19, <1>20, <1>21, <1>24, <1>25, <1>30 DEF StorageInv

LEMMA StepOfRollback == ASSUME StorageInv, NEW p \in Writer, Rollback(p) PROVE StorageInv'
<1>1. /\ conn[p].pc \in {"fresh", "begun"} /\ conn' = [conn EXCEPT ![p] = [Closed EXCEPT !.pc = "open"]]
      /\ lock' = Unlocked(p) /\ main' = main /\ wal' = wal /\ shm' = shm /\ db' = db /\ past' = past
  BY DEF Rollback
<1>2. conn[p].pc \in Holding
  BY <1>1 DEF Holding
<1>3. lock = p /\ lock' = Nobody
  BY <1>1, <1>2 DEF StorageInv, Locked, Unlocked
<1>4. /\ conn' \in [Writer -> [pc : Steps, at : Nat, left : SUBSET Page, txn : Nat]]
      /\ conn'[p].pc = "open" /\ \A q \in Writer : q # p => conn'[q] = conn[q]
  <2>1. [Closed EXCEPT !.pc = "open"] \in [pc : Steps, at : Nat, left : SUBSET Page, txn : Nat]
        /\ [Closed EXCEPT !.pc = "open"].pc = "open"
    BY DEF Closed, Steps
  <2>2. PICK z : z = [Closed EXCEPT !.pc = "open"]
    OBVIOUS
  <2>3. QED BY <1>1, <2>1, <2>2 DEF StorageInv, WriterTypeOK
<1>5. WriterTypeOK'
  BY <1>1, <1>3, <1>4 DEF StorageInv, WriterTypeOK
<1>6. \A q \in Writer : conn'[q].pc \notin Holding
  BY <1>2, <1>4, OneHolder DEF Holding
<1>7. Locked' /\ Writing'
  BY <1>3, <1>6, WalConstants DEF Locked, Writing
<1>8. Connected /\ \A q \in Writer : conn[q].pc # "closing"
  BY <1>1, NobodyCloses
<1>9. Closing' /\ Abandoned'
  BY <1>4, <1>8 DEF Closing, Abandoned, Live
<1>10. Ordered' /\ Indexed' /\ Numbered' /\ Newest' = Newest
  BY <1>1, Quiet
<1>11. Current'
  BY <1>1, <1>8, <1>10 DEF StorageInv, Current
<1>12. Emptied'
  BY <1>1 DEF StorageInv, Emptied
<1>13. QED BY <1>5, <1>7, <1>9, <1>10, <1>11, <1>12 DEF StorageInv

LEMMA StepOfCopyPage == ASSUME StorageInv, NEW p \in Writer, CopyPage(p)
                        PROVE  StorageInv' /\ \A g \in Page : main[g] <= main'[g]
<1>1. /\ conn[p].pc = "open" /\ shm.done < shm.top
      /\ wal' = wal /\ shm' = shm /\ lock' = lock /\ conn' = conn /\ db' = db /\ past' = past
  BY DEF CopyPage
<1>2. PICK x \in Page : main[x] # Newest[x] /\ main' = [main EXCEPT ![x] = Newest[x]]
  BY DEF CopyPage
<1>3. PICK f, n, t, m : f = wal.frames /\ n = shm.top /\ t = past.txns /\ m = main
  OBVIOUS
<1>4. f \in Logs /\ n \in Nat /\ t \in Nat /\ m \in Contents /\ n > 0
  BY <1>1, <1>3, ReadsRise DEF StorageInv, WriterTypeOK
<1>5. Newest = Overlay(m, f, n)
  BY <1>3 DEF Newest
<1>6. ~Untouched(f, n, x)
  <2>1. SUFFICES ASSUME Untouched(f, n, x) PROVE FALSE
    OBVIOUS
  <2>2. Overlay(m, f, n)[x] = m[x]
    BY <1>4, <2>1, OverlayUntouched
  <2>3. QED BY <1>2, <1>3, <1>5, <2>2
<1>7. PICK l \in DOMAIN f : Lasts(f, n, x, l) /\ Overlay(m, f, n)[x] = f[l].txn
  BY <1>4, <1>6, OverlayTouched
<1>8. \A k \in DOMAIN f : k \in Nat /\ f[k].txn \in Nat /\ f[k].txn <= t
  BY <1>3, ReadsRise DEF StorageInv, Numbered
<1>9. main' = [m EXCEPT ![x] = f[l].txn] /\ f[l].txn \in 0..MaxTxn
  <2>1. f[l].txn \in 1..MaxTxn
    BY <1>4, FramesAreTyped
  <2>2. QED BY <1>2, <1>3, <1>5, <1>7, <2>1, WalConstants
<1>10. main' \in Contents /\ main'[x] = f[l].txn /\ \A g \in Page : g # x => main'[g] = m[g]
  BY <1>4, <1>9 DEF Contents
<1>11. \A g \in Page : m[g] \in Nat /\ m[g] <= main'[g]
  BY <1>3, <1>4, <1>5, <1>7, <1>10, ReadsRise
<1>12. WriterTypeOK' /\ Locked' /\ Emptied'
  BY <1>1, <1>10 DEF StorageInv, WriterTypeOK, Locked, Emptied
<1>13. Connected /\ \A q \in Writer : conn[q].pc # "closing"
  BY <1>1, NobodyCloses
<1>14. Closing' /\ Abandoned'
  BY <1>1, <1>13 DEF Closing, Abandoned, Live
<1>15. Indexed'
  BY <1>1 DEF StorageInv, Indexed
<1>16. Numbered'
  BY <1>1, <1>3, <1>8, <1>10 DEF StorageInv, Numbered
<1>17. Ordered'
  <2>1. Bound' = n /\ Sorted(f) /\ Backed(m, f, n)
    BY <1>1, <1>3, <1>4 DEF StorageInv, Ordered, Bound
  <2>2. PICK o : o = main'
    OBVIOUS
  <2>3. Backed(o, f, n)
    <3>1. SUFFICES ASSUME NEW g \in Page, NEW k \in DOMAIN f, f[k].page = g, f[k].txn < o[g]
                   PROVE  \E j \in DOMAIN f : k < j /\ j <= n /\ f[j].page = g /\ o[g] <= f[j].txn
      BY DEF Backed
    <3>2. CASE g # x
      <4>1. o[g] = m[g]
        BY <1>10, <2>2, <3>2
      <4>2. QED BY <2>1, <3>1, <4>1 DEF Backed
    <3>3. CASE g = x
      <4>1. o[g] = f[l].txn
        BY <1>10, <2>2, <3>3
      <4>2. ~(l <= k)
        BY <1>8, <2>1, <3>1, <4>1 DEF Sorted
      <4>3. k < l /\ l <= n /\ f[l].page = g
        BY <1>7, <1>8, <3>3, <4>2 DEF Lasts
      <4>4. QED BY <1>8, <4>1, <4>3
    <3>4. QED BY <3>2, <3>3
  <2>4. QED BY <1>1, <1>3, <2>1, <2>2, <2>3 DEF Ordered
<1>18. Newest' = Newest
  <2>1. PICK o : o = main'
    OBVIOUS
  <2>2. Overlay(m, f, n) \in Contents
    BY <1>4, OverlayIsTyped
  <2>3. PICK v : v = Overlay(m, f, n)
    OBVIOUS
  <2>4. v \in [Page -> Nat]
    BY <2>2, <2>3, WalConstants DEF Contents
  <2>5. ASSUME NEW g \in Page PROVE Overlay(o, f, n)[g] = v[g]
    <3>1. CASE Untouched(f, n, g)
      <4>1. Overlay(m, f, n)[g] = m[g]
        BY <1>4, <3>1, OverlayUntouched
      <4>2. Overlay(o, f, n)[g] = o[g]
        BY <1>4, <3>1, OverlayUntouched
      <4>3. g # x
        BY <1>6, <3>1
      <4>4. QED BY <1>10, <2>1, <2>3, <4>1, <4>2, <4>3
    <3>2. CASE ~Untouched(f, n, g)
      <4>1. PICK j \in DOMAIN f : Lasts(f, n, g, j) /\ Overlay(m, f, n)[g] = f[j].txn
        BY <1>4, <3>2, OverlayTouched
      <4>2. Overlay(o, f, n)[g] = f[j].txn
        BY <1>4, <4>1, OverlayLast
      <4>3. QED BY <2>3, <4>1, <4>2
    <3>3. QED BY <3>1, <3>2
  <2>6. Overlay(o, f, n) = v
    BY <2>4, <2>5, OverlayIsFunction
  <2>7. QED BY <1>1, <1>3, <2>1, <2>3, <2>6 DEF Newest
<1>19. Current'
  <2>1. shm'.done # shm'.top
    BY <1>1, ReadsRise
  <2>2. QED BY <1>1, <1>13, <1>18, <2>1 DEF StorageInv, Current
<1>20. Writing'
  <2>1. SUFFICES ASSUME NEW q \in Writer, conn[q].pc \in Holding PROVE Ahead(q)'
    BY <1>1 DEF StorageInv, Writing, Placed
  <2>2. Ahead(q)
    BY <2>1 DEF StorageInv, Writing
  <2>3. f[l].txn < t
    BY <1>3, <1>7, <2>2 DEF Ahead, Lasts
  <2>4. QED BY <1>1, <1>3, <1>10, <2>2, <2>3 DEF Ahead
<1>21. StorageInv'
  BY <1>12, <1>14, <1>15, <1>16, <1>17, <1>19, <1>20 DEF StorageInv
<1>22. QED BY <1>3, <1>11, <1>21

LEMMA StepOfCopied == ASSUME StorageInv, NEW p \in Writer, Copied(p) PROVE StorageInv'
<1>1. /\ conn[p].pc = "open" /\ main = Newest /\ shm' = [shm EXCEPT !.done = shm.top]
      /\ main' = main /\ wal' = wal /\ lock' = lock /\ conn' = conn /\ db' = db /\ past' = past
  BY DEF Copied
<1>2. shm' \in [there : BOOLEAN, top : Nat, done : Nat] /\ shm'.top = shm.top /\ shm'.done = shm.top
  BY <1>1 DEF StorageInv, WriterTypeOK
<1>3. WriterTypeOK' /\ Locked' /\ Emptied'
  BY <1>1, <1>2 DEF StorageInv, WriterTypeOK, Locked, Emptied
<1>4. Ordered' /\ Numbered' /\ Newest' = Newest
  BY <1>1, <1>2 DEF StorageInv, Ordered, Bound, Numbered, Newest
<1>5. Indexed'
  BY <1>1, <1>2, ReadsRise DEF StorageInv, Indexed
<1>6. Connected /\ \A q \in Writer : conn[q].pc # "closing"
  BY <1>1, NobodyCloses
<1>7. Closing' /\ Abandoned'
  BY <1>1, <1>6 DEF Closing, Abandoned, Live
<1>8. Current'
  BY <1>1, <1>4, <1>6 DEF StorageInv, Current
<1>9. Writing'
  BY <1>1, <1>2 DEF StorageInv, Writing, Ahead, Placed
<1>10. QED BY <1>3, <1>4, <1>5, <1>7, <1>8, <1>9 DEF StorageInv

LEMMA StepOfClose == ASSUME StorageInv, NEW p \in Writer, Close(p) PROVE StorageInv'
<1>1. /\ conn[p].pc = "open" /\ \A q \in Writer : conn[q].pc # "closing"
      /\ main' = main /\ wal' = wal /\ lock' = lock /\ db' = db /\ past' = past
  BY DEF Close, ConfigurationFree
<1>2. Emptied' /\ Numbered'
  BY <1>1 DEF StorageInv, Emptied, Numbered
<1>3. conn[p].pc \notin Holding /\ Connected
  BY <1>1 DEF Holding, Connected
<1>4. CASE Alone(p)
  <2>1. /\ shm.done = shm.top /\ shm' = [there |-> FALSE, top |-> 0, done |-> 0]
        /\ conn' = [conn EXCEPT ![p].pc = "closing"]
    BY <1>4 DEF Close
  <2>2. /\ conn' \in [Writer -> [pc : Steps, at : Nat, left : SUBSET Page, txn : Nat]]
        /\ conn'[p].pc = "closing" /\ \A q \in Writer : q # p => conn'[q] = conn[q]
    BY <2>1 DEF StorageInv, WriterTypeOK, Steps
  <2>3. \A q \in Writer : q # p => conn[q].pc = "closed"
    BY <1>4 DEF Alone, Live
  <2>4. WriterTypeOK'
    BY <1>1, <2>1, <2>2 DEF StorageInv, WriterTypeOK
  <2>5. \A q \in Writer : conn[q].pc \notin Holding /\ conn'[q].pc \notin Holding
    BY <1>3, <2>2, <2>3 DEF Holding
  <2>6. Locked' /\ Writing'
    BY <1>1, <2>5 DEF StorageInv, Locked, Writing
  <2>7. shm'.top = 0 /\ shm'.done = 0
    BY <2>1
  <2>8. Indexed'
    BY <1>1, <2>7, ReadsRise DEF Indexed
  <2>9. db = main
    BY <1>3, <2>1 DEF StorageInv, Current
  <2>10. Closing'
    <3>1. Alone(p)'
      BY <2>2, <2>3 DEF Alone, Live
    <3>2. \A q \in Writer : conn'[q].pc = "closing" => q = p
      BY <2>2, <2>3
    <3>3. QED BY <1>1, <2>7, <2>9, <3>1, <3>2 DEF Closing
  <2>11. Current' /\ Abandoned'
    BY <2>2, <2>3 DEF Current, Connected, Abandoned, Live
  <2>12. PICK f, m, n, h : f = wal.frames /\ m = main /\ n = Bound /\ h = Committed(wal.frames)
    OBVIOUS
  <2>13. f \in Logs /\ n \in Nat /\ h \in Nat /\ n <= h /\ Sorted(f) /\ Backed(m, f, n)
    BY <2>12, ReadsRise DEF StorageInv, Ordered
  <2>14. Backed(m, f, h)
    BY <2>13, BackedFurther
  <2>15. Bound' = h
    BY <1>1, <2>7, <2>12 DEF Bound
  <2>16. Ordered'
    BY <1>1, <2>12, <2>13, <2>14, <2>15 DEF Ordered
  <2>17. QED BY <1>2, <2>4, <2>6, <2>8, <2>10, <2>11, <2>16 DEF StorageInv
<1>5. CASE ~Alone(p)
  <2>1. shm' = shm /\ conn' = [conn EXCEPT ![p] = Closed]
    BY <1>5 DEF Close
  <2>2. /\ conn' \in [Writer -> [pc : Steps, at : Nat, left : SUBSET Page, txn : Nat]]
        /\ conn'[p].pc = "closed" /\ \A q \in Writer : q # p => conn'[q] = conn[q]
    BY <2>1 DEF StorageInv, WriterTypeOK, Steps, Closed
  <2>3. WriterTypeOK'
    BY <1>1, <2>1, <2>2 DEF StorageInv, WriterTypeOK
  <2>4. Locked'
    BY <1>1, <1>3, <2>2 DEF StorageInv, Locked, Holding
  <2>5. Ordered' /\ Indexed' /\ Newest' = Newest
    BY <1>1, <2>1, Quiet
  <2>6. Current'
    BY <1>1, <1>3, <2>1, <2>5 DEF StorageInv, Current
  <2>7. PICK q \in Writer : q # p /\ conn[q].pc # "closed"
    BY <1>5 DEF Alone, Live
  <2>8. Closing' /\ Abandoned'
    BY <1>1, <2>2, <2>7 DEF Closing, Abandoned, Live
  <2>9. Writing'
    <3>1. ASSUME NEW r \in Writer, conn'[r].pc \in Holding
          PROVE  r # p /\ conn'[r] = conn[r]
      BY <2>2, <3>1 DEF Holding
    <3>2. QED BY <1>1, <2>1, <3>1 DEF StorageInv, Writing, Ahead, Placed
  <2>10. QED BY <1>2, <2>3, <2>4, <2>5, <2>6, <2>8, <2>9 DEF StorageInv
<1>6. QED BY <1>4, <1>5

LEMMA StepOfUnlink == ASSUME StorageInv, NEW p \in Writer, Unlink(p) PROVE StorageInv'
<1>1. /\ conn[p].pc = "closing" /\ wal' = [file |-> "absent", frames |-> <<>>]
      /\ conn' = [conn EXCEPT ![p] = Closed]
      /\ main' = main /\ shm' = shm /\ lock' = lock /\ db' = db /\ past' = past
  BY DEF Unlink
<1>2. Alone(p) /\ db = main /\ shm.top = 0
  BY <1>1 DEF StorageInv, Closing
<1>3. wal'.frames = <<>> /\ wal' \in [file : {"absent", "empty", "log"}, frames : Logs]
  BY <1>1, EmptyLog
<1>4. /\ conn' \in [Writer -> [pc : Steps, at : Nat, left : SUBSET Page, txn : Nat]]
      /\ conn'[p].pc = "closed" /\ \A q \in Writer : q # p => conn'[q] = conn[q]
  BY <1>1 DEF StorageInv, WriterTypeOK, Steps, Closed
<1>5. \A q \in Writer : conn'[q].pc = "closed" /\ conn[q].pc \notin Holding
  BY <1>1, <1>2, <1>4 DEF Alone, Live, Holding
<1>6. WriterTypeOK'
  BY <1>1, <1>3, <1>4 DEF StorageInv, WriterTypeOK
<1>7. Locked' /\ Writing' /\ Closing' /\ Current'
  BY <1>1, <1>5 DEF StorageInv, Locked, Writing, Closing, Current, Connected, Holding
<1>8. Ordered' /\ Emptied' /\ Numbered'
  BY <1>1, <1>3, EmptyLog DEF StorageInv, Ordered, Emptied, Numbered
<1>9. Indexed'
  BY <1>1, <1>2, <1>3, EmptyLog DEF StorageInv, Indexed
<1>10. Abandoned'
  <2>1. main \in Contents
    BY DEF StorageInv, WriterTypeOK
  <2>2. QED BY <1>1, <1>2, <1>3, <2>1, EmptyLog, OverlayOfNothing DEF Abandoned, Recovered
<1>11. QED BY <1>6, <1>7, <1>8, <1>9, <1>10 DEF StorageInv

LEMMA StepOfCrash == ASSUME StorageInv, NEW p \in Writer, Crash(p) PROVE StorageInv'
<1>1. /\ conn[p].pc # "closed" /\ conn' = [conn EXCEPT ![p] = Closed] /\ lock' = Unlocked(p)
      /\ db' = (IF Alone(p) THEN Recovered ELSE db)
      /\ past' = [past EXCEPT !.crashes = @ + 1]
      /\ main' = main /\ wal' = wal /\ shm' = shm
  BY DEF Crash, Live
<1>2. past'.txns = past.txns /\ past' \in [txns : 0..MaxTxn, crashes : Nat]
  BY <1>1 DEF StorageInv, WriterTypeOK
<1>3. /\ conn' \in [Writer -> [pc : Steps, at : Nat, left : SUBSET Page, txn : Nat]]
      /\ conn'[p].pc = "closed" /\ \A q \in Writer : q # p => conn'[q] = conn[q]
  BY <1>1 DEF StorageInv, WriterTypeOK, Steps, Closed
<1>4. lock' \in Writer \cup {Nobody} /\ db' \in Contents
  BY <1>1, ReadsRise DEF StorageInv, WriterTypeOK, Unlocked
<1>5. WriterTypeOK' /\ Emptied'
  BY <1>1, <1>2, <1>3, <1>4 DEF StorageInv, WriterTypeOK, Emptied
<1>6. Locked'
  <2>1. \A q \in Writer : q # Nobody
    BY WalConstants
  <2>2. QED BY <1>1, <1>3, <2>1 DEF StorageInv, Locked, Unlocked, Holding
<1>7. Ordered' /\ Indexed' /\ Newest' = Newest /\ Recovered' = Recovered
  BY <1>1 DEF StorageInv, Ordered, Bound, Indexed, Newest, Recovered
<1>8. CASE Alone(p)
  <2>1. \A q \in Writer : conn'[q].pc = "closed"
    BY <1>3, <1>8 DEF Alone, Live
  <2>2. Current' /\ Closing' /\ Writing' /\ Abandoned'
    BY <1>1, <1>7, <1>8, <2>1 DEF Current, Connected, Closing, Writing, Holding, Abandoned
  <2>3. ASSUME NEW g \in Page PROVE Recovered[g] <= past.txns
    <3>1. PICK f, m, t, c : f = wal.frames /\ m = main /\ t = past.txns /\ c = Committed(wal.frames)
      OBVIOUS
    <3>2. f \in Logs /\ m \in Contents /\ t \in Nat /\ c \in Nat
      BY <3>1, ReadsRise DEF StorageInv, WriterTypeOK
    <3>3. m[g] <= t /\ \A k \in DOMAIN f : k <= c => f[k].txn <= t
      BY <3>1 DEF StorageInv, Numbered
    <3>4. Overlay(m, f, c)[g] <= t
      BY <3>2, <3>3, OverlayBounded
    <3>5. QED BY <3>1, <3>4 DEF Recovered
  <2>4. Numbered'
    BY <1>1, <1>2, <1>8, <2>3 DEF StorageInv, Numbered
  <2>5. QED BY <1>5, <1>6, <1>7, <2>2, <2>4 DEF StorageInv
<1>9. CASE ~Alone(p)
  <2>1. PICK q \in Writer : q # p /\ conn[q].pc # "closed"
    BY <1>9 DEF Alone, Live
  <2>2. conn[p].pc # "closing" /\ conn[q].pc # "closing"
    <3>1. ~Alone(q)
      BY <1>1, <2>1 DEF Alone, Live
    <3>2. QED BY <1>9, <3>1 DEF StorageInv, Closing
  <2>3. Connected /\ \A r \in Writer : conn[r].pc # "closing"
    BY <2>1, <2>2, NobodyCloses
  <2>4. db' = db
    BY <1>1, <1>9
  <2>5. Numbered'
    BY <1>1, <1>2, <2>4 DEF StorageInv, Numbered
  <2>6. Current'
    BY <1>1, <1>7, <2>3, <2>4 DEF StorageInv, Current
  <2>7. Closing' /\ Abandoned'
    BY <1>3, <2>1, <2>3 DEF Closing, Abandoned, Live
  <2>8. Writing'
    <3>1. ASSUME NEW r \in Writer, conn'[r].pc \in Holding
          PROVE  r # p /\ conn'[r] = conn[r]
      BY <1>3, <3>1 DEF Holding
    <3>2. QED BY <1>1, <1>2, <2>4, <3>1 DEF StorageInv, Writing, Ahead, Placed
  <2>9. QED BY <1>5, <1>6, <1>7, <2>5, <2>6, <2>7, <2>8 DEF StorageInv
<1>10. QED BY <1>8, <1>9

\* The main file only moves forward.
LEMMA WriterStepKeeps ==
    ASSUME StorageInv, NEW p \in Writer, WriterStep(p)
    PROVE  StorageInv' /\ \A g \in Page : main[g] \in Nat /\ main[g] <= main'[g]
<1>1. \A g \in Page : main[g] \in Nat
  BY ReadsRise
<1>2. CASE CopyPage(p)
  BY <1>1, <1>2, StepOfCopyPage
<1>3. ASSUME main' = main PROVE \A g \in Page : main[g] <= main'[g]
  BY <1>1, <1>3
<1>4. CASE Open(p)
  BY <1>1, <1>3, <1>4, StepOfOpen DEF Open
<1>5. CASE Begin(p)
  BY <1>1, <1>3, <1>5, StepOfBegin DEF Begin
<1>6. CASE Header(p)
  BY <1>1, <1>3, <1>6, StepOfHeader DEF Header
<1>7. CASE Frame(p)
  BY <1>1, <1>3, <1>7, StepOfFrame DEF Frame
<1>8. CASE Publish(p)
  BY <1>1, <1>3, <1>8, StepOfPublish DEF Publish
<1>9. CASE Rollback(p)
  BY <1>1, <1>3, <1>9, StepOfRollback DEF Rollback
<1>10. CASE Copied(p)
  BY <1>1, <1>3, <1>10, StepOfCopied DEF Copied
<1>11. CASE Close(p)
  BY <1>1, <1>3, <1>11, StepOfClose DEF Close
<1>12. CASE Unlink(p)
  BY <1>1, <1>3, <1>12, StepOfUnlink DEF Unlink
<1>13. CASE Crash(p)
  BY <1>1, <1>3, <1>13, StepOfCrash DEF Crash
<1>14. QED BY <1>2, <1>4, <1>5, <1>6, <1>7, <1>8, <1>9, <1>10, <1>11, <1>12, <1>13 DEF WriterStep

\* What the invariant says of the storage.
LEMMA StorageInvMeans ==
    ASSUME StorageInv
    PROVE  WalTypeOK /\ Durable /\ RecoveryForgetsNothing
<1>1. WalTypeOK
  <2>1. main \in [Page -> 0 .. MaxTxn] /\ db \in [Page -> 0 .. MaxTxn]
    BY DEF StorageInv, WriterTypeOK, Contents
  <2>2. \A k \in DOMAIN wal.frames : wal.frames[k] \in Frames
    BY ReadsRise, FramesAreTyped
  <2>3. wal.file \in {"absent", "empty", "log"} /\ lock \in Writer \cup {Nobody}
    BY DEF StorageInv, WriterTypeOK
  <2>4. QED BY <2>1, <2>2, <2>3 DEF StorageInv, WalTypeOK, Emptied, Indexed
<1>2. CASE Connected
  <2>1. db = Newest
    BY <1>2 DEF StorageInv, Current
  <2>2. Durable
    BY <1>2, <2>1 DEF Durable, Connected
  <2>3. RecoveryForgetsNothing
    BY <2>1, ReadsRise DEF RecoveryForgetsNothing
  <2>4. QED BY <1>1, <2>2, <2>3
<1>3. CASE ~Connected /\ \E p \in Writer : Live(p)
  <2>1. PICK p \in Writer : conn[p].pc = "closing"
    BY <1>3 DEF Connected, Live
  <2>2. db = main
    BY <2>1 DEF StorageInv, Closing
  <2>3. Durable
    BY <1>3, <2>2 DEF Durable, Connected
  <2>4. RecoveryForgetsNothing
    BY <2>2, ReadsRise DEF RecoveryForgetsNothing
  <2>5. QED BY <1>1, <2>3, <2>4
<1>4. CASE ~Connected /\ \A p \in Writer : ~Live(p)
  <2>1. db = Recovered
    BY <1>4 DEF StorageInv, Abandoned
  <2>2. Durable
    BY <1>4, <2>1 DEF Durable, Connected
  <2>3. RecoveryForgetsNothing
    <3>1. \A g \in Page : db[g] \in Nat
      BY ReadsRise
    <3>2. QED BY <2>1, <3>1 DEF RecoveryForgetsNothing
  <2>4. QED BY <1>1, <2>2, <2>3
<1>5. QED BY <1>2, <1>3, <1>4

-----------------------------------------------------------------------------
(* The read.                                                                *)

FilesOK == [main : Contents,
            wal : [file : {"absent", "empty", "log"}, frames : Logs],
            shm : [there : BOOLEAN, top : Nat, done : Nat]]
ReadOK == [phase : Working \cup {"idle", "answered", "gaveup", "refused"}, next : 1..LogItem,
           held : SUBSET {"wal", "shm"}, snap : FilesOK, copy : FilesOK, try : 0..MaxTry,
           seen : SUBSET Contents, moved : BOOLEAN, cause : BOOLEAN]

\* What the hashed log makes of a main file.
Through(m) == Overlay(m, read.snap.wal.frames, Committed(read.snap.wal.frames))

\* m was the main file when the log was hashed: not older than the pages hashed
\* before, not newer than those of today.
Between(m) ==
    /\ \A g \in Page : read.snap.main[g] <= m[g] /\ m[g] <= main[g]
    /\ Through(m) \in read.seen
    /\ read.phase = "direct" =>
         /\ read.snap.wal.frames = <<>>
         /\ \A g \in Page : g < read.next =>
               m[g] <= read.copy.main[g] /\ read.copy.main[g] <= main[g]
    /\ read.phase = "copy" => \A g \in Page : g < read.next => read.copy.main[g] = read.snap.main[g]
    /\ read.phase = "close" => \A g \in Page :
         \/ g < read.next /\ read.copy.main[g] = Through(m)[g]
         \/ g >= read.next /\ read.copy.main[g] = Through(read.snap.main)[g]
         \/ /\ g >= read.next /\ read.snap.wal.frames = <<>>
            /\ m[g] <= read.copy.main[g] /\ read.copy.main[g] <= main[g]

\* Where the read is.
Reading ==
    /\ read.phase \in Working => Recovered \in read.seen
    /\ read.phase = "hash" => \A g \in Page : g < read.next => read.snap.main[g] <= main[g]
    /\ read.phase \in {"direct", "copy", "close"} => \E m \in Contents : Between(m)
    /\ AnswersAreStates

\* As long as no file moves, the hashes are those of the files.
Unmoved ==
    /\ read.held = SideFiles
    /\ IF read.phase = "hash" THEN \A g \in Page : g < read.next => read.snap.main[g] = main[g]
       ELSE read.snap.main = main /\ read.snap.wal = wal /\ read.snap.shm = shm
Blaming == /\ read.cause
           /\ read.phase \in Working /\ ~read.moved => Unmoved
           /\ read.phase = "copy" => read.snap.wal.file = "log"

ReadInv == StorageInv /\ read \in ReadOK /\ Reading /\ Blaming

LEMMA PagesBeforeLog ==
    /\ LogItem \in Nat /\ Page \subseteq Nat \ {0}
    /\ \A i \in 1..LogItem : i \in Nat /\ (i \in Page \/ i = LogItem) /\ (i # LogItem => i + 1 \in 1..LogItem)
    /\ \A g \in Page : g < LogItem /\ g # LogItem /\ g >= 1
    /\ 1 \in 1..LogItem
  BY WalConstants DEF LogItem, Page

LEMMA NothingIsFiles == Nothing \in FilesOK
<1>1. [p \in Page |-> 0] \in Contents
  BY WalConstants DEF Contents
<1>2. QED BY <1>1, EmptyLog DEF Nothing, FilesOK

LEMMA IdleIsRead ==
    Idle \in ReadOK /\ Idle.phase = "idle" /\ Idle.cause
<1>1. 0 \in 0..MaxTry
  BY ReadConstants
<1>2. QED BY <1>1, NothingIsFiles, PagesBeforeLog DEF Idle, ReadOK

LEMMA SideFilesTyped == SideFiles \in SUBSET {"wal", "shm"}
  BY DEF SideFiles

LEMMA ReadInit == ASSUME Init PROVE ReadInv
<1>1. StorageInv
  BY StorageInit
<1>2. read \in ReadOK /\ read.phase = "idle" /\ read.cause
  BY IdleIsRead DEF Init
<1>3. Reading /\ Blaming
  BY <1>2 DEF Reading, Blaming, AnswersAreStates, Working
<1>4. QED BY <1>1, <1>2, <1>3 DEF ReadInv

LEMMA NobodyWrites ==
    ASSUME StorageInv, main' = main, wal' = wal, shm' = shm, lock' = lock, conn' = conn, db' = db,
           past' = past
    PROVE  StorageInv' /\ Recovered' = Recovered /\ SideFiles' = SideFiles
<1>1. Recovered' = Recovered /\ SideFiles' = SideFiles /\ Newest' = Newest
  BY DEF Recovered, SideFiles, Newest
<1>2. WriterTypeOK' /\ Locked' /\ Indexed' /\ Numbered' /\ Emptied'
  BY DEF StorageInv, WriterTypeOK, Locked, Indexed, Numbered, Emptied
<1>3. Ordered'
  BY DEF StorageInv, Ordered, Bound
<1>4. Current' /\ Abandoned'
  BY <1>1 DEF StorageInv, Current, Connected, Abandoned, Live
<1>5. Closing'
  BY DEF StorageInv, Closing, Alone, Live
<1>6. Writing'
  BY DEF StorageInv, Writing, Ahead, Placed
<1>7. QED BY <1>1, <1>2, <1>3, <1>4, <1>5, <1>6 DEF StorageInv

LEMMA AttemptIs ==
    ASSUME StorageInv, NEW n \in 1..MaxTry, NEW c \in BOOLEAN
    PROVE  /\ Attempt(n, c) \in ReadOK /\ Attempt(n, c).phase = "hash" /\ Attempt(n, c).next = 1
           /\ Attempt(n, c).held = SideFiles /\ Attempt(n, c).seen = {Recovered}
           /\ Attempt(n, c).cause = c
<1>1. PICK h, r, d : h = SideFiles /\ r = {Recovered} /\ d = Idle
  OBVIOUS
<1>2. d \in ReadOK /\ d.next = 1
  BY <1>1, IdleIsRead DEF Idle
<1>3. n \in 0..MaxTry /\ h \in SUBSET {"wal", "shm"} /\ r \in SUBSET Contents
  BY <1>1, ReadConstants, ReadsRise, SideFilesTyped
<1>4. PICK a : a = [d EXCEPT !.phase = "hash", !.try = n, !.cause = c, !.held = h, !.seen = r]
  OBVIOUS
<1>5. Attempt(n, c) = a
  BY <1>1, <1>4 DEF Attempt
<1>6. /\ a \in ReadOK /\ a.phase = "hash" /\ a.next = 1 /\ a.held = h /\ a.seen = r /\ a.cause = c
  BY <1>2, <1>3, <1>4 DEF ReadOK, Working
<1>7. QED BY <1>1, <1>5, <1>6

\* A new attempt, with a reason for the failure of the last.
LEMMA Restarted ==
    ASSUME StorageInv, StorageInv', Recovered' = Recovered, SideFiles' = SideFiles,
           NEW n \in 1..MaxTry, read' = Attempt(n, TRUE)
    PROVE  ReadInv'
<1>1. /\ read' \in ReadOK /\ read'.phase = "hash" /\ read'.next = 1 /\ read'.held = SideFiles
      /\ read'.seen = {Recovered} /\ read'.cause = TRUE
  BY AttemptIs
<1>2. \A g \in Page : ~(g < 1)
  BY PagesBeforeLog
<1>3. Reading'
  BY <1>1, <1>2 DEF Reading, AnswersAreStates
<1>4. Blaming'
  BY <1>1, <1>2 DEF Blaming, Unmoved
<1>5. QED BY <1>1, <1>3, <1>4 DEF ReadInv

LEMMA Stopped ==
    ASSUME StorageInv', NEW z \in {"gaveup", "refused"}, read' = [Idle EXCEPT !.phase = z, !.cause = TRUE]
    PROVE  ReadInv'
<1>1. read' \in ReadOK /\ read'.phase = z /\ read'.cause = TRUE
  BY IdleIsRead DEF ReadOK
<1>2. Reading' /\ Blaming'
  BY <1>1 DEF Reading, Blaming, AnswersAreStates, Working
<1>3. QED BY <1>1, <1>2 DEF ReadInv

LEMMA FailKeeps ==
    ASSUME ReadInv, StorageInv', Recovered' = Recovered, SideFiles' = SideFiles,
           read.phase \in Working, read.moved \/ Torn, Fail
    PROVE  ReadInv'
<1>1. read \in ReadOK /\ StorageInv /\ read.cause = TRUE
  BY DEF ReadInv, ReadOK, Blaming
<1>2. CASE read.try < MaxTry
  <2>1. PICK n : n = read.try + 1
    OBVIOUS
  <2>2. n \in 1..MaxTry
    BY <1>1, <1>2, <2>1, ReadConstants DEF ReadOK
  <2>3. read' = Attempt(n, TRUE)
    BY <1>1, <1>2, <2>1 DEF Fail
  <2>4. QED BY <1>1, <2>2, <2>3, Restarted
<1>3. CASE ~(read.try < MaxTry)
  <2>1. read' = [Idle EXCEPT !.phase = "gaveup", !.cause = TRUE]
    BY <1>1, <1>3 DEF Fail
  <2>2. QED BY <2>1, Stopped
<1>4. QED BY <1>2, <1>3

LEMMA StepOfAsk == ASSUME ReadInv, Ask PROVE ReadInv'
<1>1. StorageInv' /\ Recovered' = Recovered /\ SideFiles' = SideFiles /\ StorageInv
  BY NobodyWrites DEF Ask, wvars, ReadInv
<1>2. 1 \in 1..MaxTry /\ read' = Attempt(1, TRUE)
  BY ReadConstants DEF Ask
<1>3. QED BY <1>1, <1>2, Restarted

LEMMA StepOfHashPage == ASSUME ReadInv, HashPage PROVE ReadInv'
<1>1. StorageInv' /\ Recovered' = Recovered /\ SideFiles' = SideFiles /\ StorageInv /\ main' = main
  BY NobodyWrites DEF HashPage, wvars, ReadInv
<1>2. PICK x : x = read.next
  OBVIOUS
<1>3. x \in Page /\ x + 1 \in 1..LogItem /\ x \in Nat /\ read.phase = "hash"
  BY <1>2, PagesBeforeLog DEF HashPage, ReadInv, ReadOK
<1>4. PICK v : v = main[x]
  OBVIOUS
<1>5. v \in 0..MaxTxn /\ v \in Nat /\ read \in ReadOK
  BY <1>1, <1>3, <1>4, WalConstants DEF StorageInv, WriterTypeOK, Contents, ReadInv
<1>6. read' = [read EXCEPT !.next = x + 1, !.snap.main[x] = v]
  BY <1>2, <1>4 DEF HashPage
<1>7. PICK m : m = [read.snap.main EXCEPT ![x] = v]
  OBVIOUS
<1>8. m \in Contents /\ m[x] = v /\ \A g \in Page : g # x => m[g] = read.snap.main[g]
  <2>1. read.snap.main \in Contents
    BY <1>5 DEF ReadOK, FilesOK
  <2>2. QED BY <1>3, <1>5, <1>7, <2>1 DEF Contents
<1>9. read' = [read EXCEPT !.next = x + 1, !.snap = [read.snap EXCEPT !.main = m]]
  BY <1>6, <1>7
<1>10. [read.snap EXCEPT !.main = m] \in FilesOK /\ [read.snap EXCEPT !.main = m].main = m
  BY <1>5, <1>8 DEF ReadOK, FilesOK
<1>11. /\ read' \in ReadOK /\ read'.phase = "hash" /\ read'.next = x + 1 /\ read'.snap.main = m
       /\ read'.seen = read.seen /\ read'.cause = read.cause /\ read'.moved = read.moved
       /\ read'.held = read.held
  <2>1. PICK s : s = [read.snap EXCEPT !.main = m]
    OBVIOUS
  <2>2. s \in FilesOK /\ s.main = m /\ read' = [read EXCEPT !.next = x + 1, !.snap = s]
    BY <1>9, <1>10, <2>1
  <2>3. QED BY <1>3, <1>5, <2>2 DEF ReadOK
<1>12. \A g \in Page : g < x + 1 => g < x \/ g = x
  BY <1>3, PagesBeforeLog
<1>13. Reading'
  <2>1. \A g \in Page : g < x + 1 => m[g] <= main[g]
    BY <1>2, <1>3, <1>4, <1>5, <1>8, <1>12 DEF ReadInv, Reading
  <2>2. QED BY <1>1, <1>3, <1>11, <2>1 DEF ReadInv, Reading, Working, AnswersAreStates
<1>14. Blaming'
  <2>1. ASSUME ~read.moved
        PROVE  read.held = SideFiles /\ \A g \in Page : g < x + 1 => m[g] = main[g]
    BY <1>2, <1>3, <1>4, <1>8, <1>12, <2>1 DEF ReadInv, Blaming, Unmoved, Working
  <2>2. QED BY <1>1, <1>11, <2>1 DEF ReadInv, Blaming, Unmoved
<1>15. QED BY <1>1, <1>11, <1>13, <1>14 DEF ReadInv

\* A process that does not write has no lock to lose.
LEMMA NothingDropped == ASSUME Home = Nobody, StorageInv PROVE Dropped = lock
  BY DEF Dropped, Unlocked

LEMMA StepOfHashLog == ASSUME Home = Nobody, ReadInv, HashLog PROVE ReadInv'
<1>1. read.phase = "hash" /\ read.next = LogItem /\ read \in ReadOK /\ StorageInv
  BY DEF HashLog, ReadInv
<1>2. lock' = lock /\ main' = main /\ wal' = wal /\ shm' = shm /\ conn' = conn /\ db' = db /\ past' = past
  BY <1>1, NothingDropped DEF HashLog
<1>3. StorageInv' /\ Recovered' = Recovered /\ SideFiles' = SideFiles
  BY <1>1, <1>2, NobodyWrites
<1>4. CASE Incomplete(wal, shm.there) \/ ~Held
  <2>1. Fail
    BY <1>4 DEF HashLog
  <2>2. read.moved \/ Torn
    BY <1>1, <1>4 DEF Incomplete, Active, Held, Torn, ReadInv, Blaming, Unmoved, Working
  <2>3. QED BY <1>1, <1>3, <2>1, <2>2, FailKeeps DEF Working
<1>5. CASE ~(Incomplete(wal, shm.there) \/ ~Held)
  <2>1. PICK z, s, m : /\ z = (IF Active(wal) THEN "copy" ELSE "direct") /\ m = main
                       /\ s = [read.snap EXCEPT !.wal = wal, !.shm = shm]
    OBVIOUS
  <2>2. s \in FilesOK /\ s.main = read.snap.main /\ s.wal = wal /\ s.shm = shm
    BY <1>1, <2>1 DEF ReadOK, FilesOK, StorageInv, WriterTypeOK
  <2>3. read' = [To(z) EXCEPT !.snap.wal = wal, !.snap.shm = shm]
    BY <1>5, <2>1 DEF HashLog
  <2>4. read' = [read EXCEPT !.phase = z, !.next = 1, !.snap = s]
    BY <1>1, <2>1, <2>3 DEF To, ReadOK
  <2>5. z \in {"copy", "direct"}
    BY <2>1
  <2>6. /\ read' \in ReadOK /\ read'.phase = z /\ read'.next = 1 /\ read'.snap = s
        /\ read'.seen = read.seen /\ read'.cause = read.cause /\ read'.moved = read.moved
        /\ read'.held = read.held /\ read'.copy = read.copy
    BY <1>1, <2>2, <2>4, <2>5, PagesBeforeLog DEF ReadOK, Working
  <2>7. \A g \in Page : ~(g < 1)
    BY PagesBeforeLog
  <2>8. m \in Contents /\ \A g \in Page : m[g] \in Nat /\ read.snap.main[g] <= m[g]
    BY <1>1, <2>1, PagesBeforeLog, ReadsRise DEF ReadInv, Reading, StorageInv, WriterTypeOK
  <2>9. Recovered \in read.seen /\ Recovered = Overlay(m, wal.frames, Committed(wal.frames))
    BY <1>1, <2>1 DEF ReadInv, Reading, Working, Recovered
  <2>10. z = "direct" => wal.frames = <<>>
    BY <2>1 DEF Active, ReadInv, StorageInv, Emptied
  <2>11. Between(m)'
    <3>1. Through(m)' \in read'.seen
      BY <2>2, <2>6, <2>9 DEF Through
    <3>2. \A g \in Page : m[g] <= main'[g]
      BY <1>2, <2>1, <2>8
    <3>3. QED BY <2>2, <2>5, <2>6, <2>7, <2>8, <2>10, <3>1, <3>2 DEF Between
  <2>12. Reading'
    BY <1>3, <2>5, <2>6, <2>8, <2>9, <2>11 DEF Reading, AnswersAreStates
  <2>13. Blaming'
    <3>1. ASSUME ~read.moved PROVE read.held = SideFiles /\ read.snap.main = main
      <4>1. \A g \in Page : read.snap.main[g] = main[g]
        BY <1>1, <3>1, PagesBeforeLog DEF ReadInv, Blaming, Unmoved, Working
      <4>2. read.snap.main \in Contents /\ main \in Contents
        BY <1>1 DEF ReadOK, FilesOK, StorageInv, WriterTypeOK
      <4>3. read.snap.main = main
        BY <4>1, <4>2 DEF Contents
      <4>4. QED BY <1>1, <3>1, <4>3 DEF ReadInv, Blaming, Unmoved, Working
    <3>2. z = "copy" => wal.file = "log"
      BY <2>1 DEF Active
    <3>3. read.cause
      BY DEF ReadInv, Blaming
    <3>4. QED BY <1>2, <1>3, <2>2, <2>5, <2>6, <3>1, <3>2, <3>3 DEF Blaming, Unmoved
  <2>14. QED BY <1>3, <2>6, <2>12, <2>13 DEF ReadInv
<1>6. QED BY <1>4, <1>5

\* What a page is once its hash is that of before.
LEMMA SameAgain ==
    ASSUME ReadInv, NEW m \in Contents, Between(m), NEW x \in Page, main[x] = read.snap.main[x]
    PROVE  m[x] = main[x]
<1>1. read.snap.main[x] <= m[x] /\ m[x] <= main[x]
  BY DEF Between
<1>2. m[x] \in Nat /\ main[x] \in Nat
  BY WalConstants DEF Contents, ReadInv, StorageInv, WriterTypeOK
<1>3. QED BY <1>1, <1>2

\* A read that goes on with what it has.
LEMMA GoesOn ==
    ASSUME ReadInv, main' = main, wal' = wal, shm' = shm, SideFiles' = SideFiles, read' \in ReadOK,
           read.phase \in {"direct", "copy", "close"}, read'.phase \in {read.phase, "close", "answered"},
           read'.snap = read.snap, read'.held = read.held, read'.moved = read.moved,
           read'.cause = read.cause
    PROVE  Blaming'
<1>1. read.cause /\ (read.phase = "copy" => read.snap.wal.file = "log")
  BY DEF ReadInv, Blaming
<1>2. ~read.moved => /\ read.held = SideFiles
                     /\ read.snap.main = main /\ read.snap.wal = wal /\ read.snap.shm = shm
  BY DEF ReadInv, Blaming, Unmoved, Working
<1>3. QED BY <1>1, <1>2 DEF Blaming, Unmoved

LEMMA StepOfDirect == ASSUME ReadInv, Direct PROVE ReadInv'
<1>1. read.phase = "direct" /\ read \in ReadOK /\ StorageInv
  BY DEF Direct, ReadInv
<1>2. main' = main /\ wal' = wal /\ shm' = shm /\ lock' = lock /\ conn' = conn /\ db' = db /\ past' = past
  BY DEF Direct, wvars
<1>3. StorageInv' /\ Recovered' = Recovered /\ SideFiles' = SideFiles
  BY <1>1, <1>2, NobodyWrites
<1>4. PICK m \in Contents : Between(m)
  BY <1>1 DEF ReadInv, Reading
<1>5. PICK x, c : /\ x = read.next
                  /\ c = IF x \in Page THEN [read.copy.main EXCEPT ![x] = main[x]] ELSE read.copy.main
  OBVIOUS
<1>6. x \in 1..LogItem /\ x \in Nat
  BY <1>1, <1>5, PagesBeforeLog DEF ReadOK
<1>7. c \in Contents /\ (x \in Page => c[x] = main[x]) /\ \A g \in Page : g # x => c[g] = read.copy.main[g]
  <2>1. read.copy.main \in Contents /\ main \in Contents
    BY <1>1 DEF ReadOK, FilesOK, StorageInv, WriterTypeOK
  <2>2. QED BY <1>5, <2>1 DEF Contents
<1>8. PICK s : s = [read.copy EXCEPT !.main = c]
  OBVIOUS
<1>9. s \in FilesOK /\ s.main = c
  BY <1>1, <1>7, <1>8 DEF ReadOK, FilesOK
<1>10. PICK z, n : /\ z = (IF x = LogItem THEN "close" ELSE "direct")
                   /\ n = (IF x = LogItem THEN 1 ELSE x + 1)
  OBVIOUS
<1>11. z \in {"direct", "close"} /\ n \in 1..LogItem /\ n \in Nat
  BY <1>6, <1>10, PagesBeforeLog
<1>12. read' = [read EXCEPT !.phase = z, !.next = n, !.copy = s]
  <2>1. read' = [Advance("close") EXCEPT
                  !.copy.main = IF read.next \in Page THEN [@ EXCEPT ![read.next] = main[read.next]] ELSE @]
    BY DEF Direct
  <2>2. PICK a : a = Advance("close")
    OBVIOUS
  <2>3. a = [read EXCEPT !.phase = z, !.next = n]
    BY <1>1, <1>5, <1>10, <2>2 DEF Advance, To, ReadOK
  <2>4. a.copy = read.copy
    BY <1>1, <2>3 DEF ReadOK
  <2>5. read' = [a EXCEPT !.copy = s]
    BY <1>1, <1>5, <1>8, <2>1, <2>2, <2>3, <2>4 DEF ReadOK
  <2>6. QED BY <1>1, <2>3, <2>5 DEF ReadOK
<1>13. /\ read' \in ReadOK /\ read'.phase = z /\ read'.next = n /\ read'.copy.main = c
       /\ read'.seen = read.seen /\ read'.cause = read.cause /\ read'.moved = read.moved
       /\ read'.held = read.held /\ read'.snap = read.snap
  BY <1>1, <1>9, <1>11, <1>12 DEF ReadOK, Working
<1>14. /\ \A g \in Page : read.snap.main[g] <= m[g] /\ m[g] <= main[g]
       /\ Through(m) \in read.seen /\ read.snap.wal.frames = <<>>
       /\ \A g \in Page : g < x => m[g] <= read.copy.main[g] /\ read.copy.main[g] <= main[g]
  BY <1>1, <1>4, <1>5 DEF Between
<1>15. \A g \in Page : main[g] \in Nat /\ g \in Nat
  BY <1>1, ReadsRise, PagesBeforeLog
<1>16. ASSUME NEW g \in Page, g < x \/ g = x PROVE m[g] <= c[g] /\ c[g] <= main[g]
  <2>1. CASE g = x
    BY <1>7, <1>14, <1>15, <2>1
  <2>2. CASE g # x
    BY <1>7, <1>14, <1>16, <2>2
  <2>3. QED BY <2>1, <2>2
<1>17. Through(m)' = Through(m)
  BY <1>13 DEF Through
<1>18. CASE x = LogItem
  <2>1. z = "close" /\ n = 1
    BY <1>10, <1>18
  <2>2. \A g \in Page : g >= 1 /\ m[g] <= c[g] /\ c[g] <= main[g]
    BY <1>16, <1>18, PagesBeforeLog
  <2>3. Between(m)'
    BY <1>2, <1>13, <1>14, <1>17, <2>1, <2>2 DEF Between
  <2>4. QED BY <1>1, <1>2, <1>3, <1>13, <2>1, <2>3, GoesOn DEF ReadInv, Reading, AnswersAreStates, Working
<1>19. CASE x # LogItem
  <2>1. z = "direct" /\ n = x + 1
    BY <1>10, <1>19
  <2>2. \A g \in Page : g < n => m[g] <= c[g] /\ c[g] <= main[g]
    <3>1. \A g \in Page : g < n => g < x \/ g = x
      BY <1>6, <1>15, <2>1
    <3>2. QED BY <1>16, <3>1
  <2>3. Between(m)'
    BY <1>2, <1>13, <1>14, <1>17, <2>1, <2>2 DEF Between
  <2>4. QED BY <1>1, <1>2, <1>3, <1>13, <2>1, <2>3, GoesOn DEF ReadInv, Reading, AnswersAreStates, Working
<1>20. QED BY <1>18, <1>19

LEMMA StepOfCopyPageOut == ASSUME ReadInv, CopyPageOut PROVE ReadInv'
<1>1. read.phase = "copy" /\ read \in ReadOK /\ StorageInv
  BY DEF CopyPageOut, ReadInv
<1>2. main' = main /\ wal' = wal /\ shm' = shm /\ lock' = lock /\ conn' = conn /\ db' = db /\ past' = past
  BY DEF CopyPageOut, wvars
<1>3. StorageInv' /\ Recovered' = Recovered /\ SideFiles' = SideFiles
  BY <1>1, <1>2, NobodyWrites
<1>4. PICK x : x = read.next
  OBVIOUS
<1>5. x \in Page /\ x \in Nat /\ x + 1 \in 1..LogItem
  BY <1>1, <1>4, PagesBeforeLog DEF CopyPageOut, ReadOK
<1>6. CASE main[x] # read.snap.main[x]
  <2>1. Fail
    BY <1>4, <1>5, <1>6 DEF CopyPageOut, SameCopy
  <2>2. read.moved
    BY <1>1, <1>6 DEF ReadInv, Blaming, Unmoved, Working
  <2>3. QED BY <1>1, <1>3, <2>1, <2>2, FailKeeps DEF Working
<1>7. CASE main[x] = read.snap.main[x]
  <2>1. PICK m \in Contents : Between(m)
    BY <1>1 DEF ReadInv, Reading
  <2>2. PICK c, v : v = main[x] /\ c = [read.copy.main EXCEPT ![x] = v]
    OBVIOUS
  <2>3. c \in Contents /\ c[x] = v /\ \A g \in Page : g # x => c[g] = read.copy.main[g]
    <3>1. read.copy.main \in Contents /\ main \in Contents
      BY <1>1 DEF ReadOK, FilesOK, StorageInv, WriterTypeOK
    <3>2. QED BY <1>5, <2>2, <3>1 DEF Contents
  <2>4. PICK s : s = [read.copy EXCEPT !.main = c]
    OBVIOUS
  <2>5. s \in FilesOK /\ s.main = c
    BY <1>1, <2>3, <2>4 DEF ReadOK, FilesOK
  <2>6. read' = [read EXCEPT !.next = x + 1, !.copy = s]
    <3>1. read' = [read EXCEPT !.next = x + 1, !.copy.main[x] = v]
      BY <1>4, <1>5, <1>7, <2>2 DEF CopyPageOut, SameCopy
    <3>2. QED BY <1>1, <2>2, <2>4, <3>1 DEF ReadOK, FilesOK
  <2>7. /\ read' \in ReadOK /\ read'.phase = "copy" /\ read'.next = x + 1 /\ read'.copy.main = c
        /\ read'.seen = read.seen /\ read'.cause = read.cause /\ read'.moved = read.moved
        /\ read'.held = read.held /\ read'.snap = read.snap
    BY <1>1, <1>5, <2>5, <2>6 DEF ReadOK
  <2>8. \A g \in Page : g < x + 1 => c[g] = read.snap.main[g]
    <3>1. \A g \in Page : g < x + 1 => g < x \/ g = x
      BY <1>5, PagesBeforeLog
    <3>2. \A g \in Page : g < x => read.copy.main[g] = read.snap.main[g]
      BY <1>1, <1>4, <2>1 DEF Between
    <3>3. QED BY <1>7, <2>2, <2>3, <3>1, <3>2
  <2>9. Through(m)' = Through(m)
    BY <2>7 DEF Through
  <2>10. Between(m)'
    BY <1>2, <2>1, <2>7, <2>8, <2>9 DEF Between
  <2>11. QED BY <1>1, <1>2, <1>3, <2>1, <2>7, <2>10, GoesOn DEF ReadInv, Reading, AnswersAreStates, Working
<1>8. QED BY <1>6, <1>7

LEMMA StepOfCopyLogOut == ASSUME Home = Nobody, ReadInv, CopyLogOut PROVE ReadInv'
<1>1. read.phase = "copy" /\ read.next = LogItem /\ read \in ReadOK /\ StorageInv
  BY DEF CopyLogOut, ReadInv
<1>2. lock' = lock /\ main' = main /\ wal' = wal /\ shm' = shm /\ conn' = conn /\ db' = db /\ past' = past
  BY <1>1, NothingDropped DEF CopyLogOut
<1>3. StorageInv' /\ Recovered' = Recovered /\ SideFiles' = SideFiles
  BY <1>1, <1>2, NobodyWrites
<1>4. SameCopy(LogItem) <=> wal = read.snap.wal /\ Held
  BY PagesBeforeLog DEF SameCopy
<1>5. CASE ~(wal = read.snap.wal /\ Held)
  <2>1. Fail
    BY <1>4, <1>5 DEF CopyLogOut
  <2>2. read.moved
    BY <1>1, <1>5 DEF ReadInv, Blaming, Unmoved, Working, Held
  <2>3. QED BY <1>1, <1>3, <2>1, <2>2, FailKeeps DEF Working
<1>6. CASE wal = read.snap.wal /\ Held
  <2>1. PICK c, n, f : /\ f = wal.frames /\ n = Committed(f)
                       /\ c = Overlay(read.copy.main, f, n)
    OBVIOUS
  <2>2. f \in Logs /\ n \in Nat
    BY <2>1, ReadsRise, <1>1
  <2>3. /\ [read.copy EXCEPT !.wal = wal].wal.frames = f
        /\ [read.copy EXCEPT !.wal = wal].main = read.copy.main
    BY <1>1, <2>1 DEF ReadOK, FilesOK
  <2>4. read' = Materialized([read.copy EXCEPT !.wal = wal])
    BY <1>4, <1>6 DEF CopyLogOut
  <2>5. CASE n = 0
    <3>1. Torn
      BY <1>1, <1>6, <2>1, <2>5 DEF Torn, ReadInv, Blaming
    <3>2. read.cause = TRUE
      BY <1>1 DEF ReadInv, Blaming, ReadOK
    <3>3. read' = [Idle EXCEPT !.phase = "refused", !.cause = TRUE]
      BY <2>1, <2>3, <2>4, <2>5, <3>1, <3>2 DEF Materialized
    <3>4. QED BY <1>3, <3>3, Stopped
  <2>6. CASE n # 0
    <3>1. PICK m \in Contents : Between(m)
      BY <1>1 DEF ReadInv, Reading
    <3>2. read.copy.main = read.snap.main /\ read.copy.main \in Contents
      <4>1. \A g \in Page : read.copy.main[g] = read.snap.main[g]
        BY <1>1, <3>1, PagesBeforeLog DEF Between
      <4>2. read.copy.main \in Contents /\ read.snap.main \in Contents
        BY <1>1 DEF ReadOK, FilesOK
      <4>3. QED BY <4>1, <4>2 DEF Contents
    <3>3. c \in Contents
      BY <2>1, <2>2, <3>2, OverlayIsTyped
    <3>4. PICK s : s = [read.copy EXCEPT !.main = c]
      OBVIOUS
    <3>5. s \in FilesOK /\ s.main = c
      BY <1>1, <3>3, <3>4 DEF ReadOK, FilesOK
    <3>6. read' = [To("close") EXCEPT !.copy.main = c]
      BY <2>1, <2>3, <2>4, <2>6 DEF Materialized
    <3>7. read' = [read EXCEPT !.phase = "close", !.next = 1, !.copy = s]
      BY <1>1, <3>4, <3>6 DEF To, ReadOK
    <3>8. /\ read' \in ReadOK /\ read'.phase = "close" /\ read'.next = 1 /\ read'.copy.main = c
          /\ read'.seen = read.seen /\ read'.cause = read.cause /\ read'.moved = read.moved
          /\ read'.held = read.held /\ read'.snap = read.snap
      BY <1>1, <3>5, <3>7, PagesBeforeLog DEF ReadOK, Working
    <3>9. Through(m)' = Through(m)
      BY <3>8 DEF Through
    <3>10. c = Through(read.snap.main) /\ Through(read.snap.main)' = Through(read.snap.main)
      BY <1>6, <2>1, <3>2, <3>8 DEF Through
    <3>11. \A g \in Page : g >= 1
      BY PagesBeforeLog
    <3>12. Between(m)'
      BY <1>2, <3>1, <3>8, <3>9, <3>10, <3>11 DEF Between
    <3>13. QED BY <1>1, <1>2, <1>3, <3>1, <3>8, <3>12, GoesOn DEF ReadInv, Reading, AnswersAreStates, Working
  <2>7. QED BY <2>5, <2>6
<1>7. QED BY <1>5, <1>6

\* Main files with the same page have it in common through any log.
LEMMA OverlayOfPage ==
    ASSUME NEW m \in Contents, NEW o \in Contents, NEW f \in Logs, NEW n \in Nat, NEW g \in Page,
           m[g] = o[g]
    PROVE  Overlay(m, f, n)[g] = Overlay(o, f, n)[g]
<1>1. CASE Untouched(f, n, g)
  <2>1. Overlay(m, f, n)[g] = m[g]
    BY <1>1, OverlayUntouched
  <2>2. Overlay(o, f, n)[g] = o[g]
    BY <1>1, OverlayUntouched
  <2>3. QED BY <2>1, <2>2
<1>2. CASE ~Untouched(f, n, g)
  <2>1. PICK k \in DOMAIN f : Lasts(f, n, g, k) /\ Overlay(m, f, n)[g] = f[k].txn
    BY <1>2, OverlayTouched
  <2>2. Overlay(o, f, n)[g] = f[k].txn
    BY <2>1, OverlayLast
  <2>3. QED BY <2>1, <2>2
<1>3. QED BY <1>1, <1>2

LEMMA StepOfCloseRead == ASSUME Home = Nobody, ReadInv, CloseRead PROVE ReadInv'
<1>1. read.phase = "close" /\ read \in ReadOK /\ StorageInv
  BY DEF CloseRead, ReadInv
<1>2. lock' = lock /\ main' = main /\ wal' = wal /\ shm' = shm /\ conn' = conn /\ db' = db /\ past' = past
  BY <1>1, NothingDropped DEF CloseRead
<1>3. StorageInv' /\ Recovered' = Recovered /\ SideFiles' = SideFiles
  BY <1>1, <1>2, NobodyWrites
<1>4. PICK x : x = read.next
  OBVIOUS
<1>5. x \in 1..LogItem /\ x \in Nat /\ (x \in Page \/ x = LogItem)
  BY <1>1, <1>4, PagesBeforeLog DEF ReadOK
<1>6. CASE ~Same(x)
  <2>1. Fail
    BY <1>4, <1>6 DEF CloseRead
  <2>2. read.moved
    BY <1>1, <1>6 DEF ReadInv, Blaming, Unmoved, Working, Same
  <2>3. QED BY <1>1, <1>3, <2>1, <2>2, FailKeeps DEF Working
<1>7. CASE Same(x)
  <2>1. PICK m \in Contents : Between(m)
    BY <1>1 DEF ReadInv, Reading
  <2>2. PICK z, n : /\ z = (IF x = LogItem THEN "answered" ELSE "close")
                    /\ n = (IF x = LogItem THEN 1 ELSE x + 1)
    OBVIOUS
  <2>3. z \in {"answered", "close"} /\ n \in 1..LogItem
    BY <1>5, <2>2, PagesBeforeLog
  <2>4. read' = [read EXCEPT !.phase = z, !.next = n]
    BY <1>1, <1>4, <1>7, <2>2 DEF CloseRead, Advance, To, ReadOK
  <2>5. /\ read' \in ReadOK /\ read'.phase = z /\ read'.next = n /\ read'.copy = read.copy
        /\ read'.seen = read.seen /\ read'.cause = read.cause /\ read'.moved = read.moved
        /\ read'.held = read.held /\ read'.snap = read.snap
    BY <1>1, <2>3, <2>4 DEF ReadOK, Working
  <2>6. PICK f, k : f = read.snap.wal.frames /\ k = Committed(f)
    OBVIOUS
  <2>7. f \in Logs /\ k \in Nat /\ read.snap.main \in Contents /\ read.copy.main \in Contents
    <3>1. f \in Logs /\ read.snap.main \in Contents /\ read.copy.main \in Contents
      BY <1>1, <2>6 DEF ReadOK, FilesOK
    <3>2. QED BY <2>6, <3>1, CommittedIs
  <2>8. Through(m) = Overlay(m, f, k) /\ Through(read.snap.main) = Overlay(read.snap.main, f, k)
    BY <2>6 DEF Through
  <2>9. ASSUME NEW g \in Page, g < x \/ g = x PROVE read.copy.main[g] = Through(m)[g]
    <3>1. CASE g < x
      <4>1. ~(g >= x)
        BY <1>5, <3>1, PagesBeforeLog
      <4>2. QED BY <1>1, <1>4, <2>1, <4>1 DEF Between
    <3>2. CASE g = x /\ ~(g < x)
      <4>1. main[g] = read.snap.main[g]
        BY <1>7, <3>2 DEF Same
      <4>2. m[g] = main[g]
        BY <2>1, <4>1, SameAgain
      <4>3. Overlay(m, f, k)[g] = Overlay(read.snap.main, f, k)[g]
        BY <2>7, <4>1, <4>2, OverlayOfPage
      <4>4. CASE read.copy.main[g] = Through(read.snap.main)[g]
        BY <2>8, <4>3, <4>4
      <4>5. CASE read.snap.wal.frames = <<>> /\ m[g] <= read.copy.main[g] /\ read.copy.main[g] <= main[g]
        <5>1. Overlay(m, f, k) = m
          BY <2>6, <2>7, <4>5, OverlayOfNothing
        <5>2. m[g] \in Nat /\ read.copy.main[g] \in Nat
          BY <2>7, WalConstants DEF Contents
        <5>3. QED BY <2>8, <4>2, <4>5, <5>1, <5>2
      <4>6. QED BY <1>1, <1>4, <2>1, <3>2, <4>4, <4>5 DEF Between
    <3>3. x \in Nat /\ g \in Nat
      BY <1>5, PagesBeforeLog
    <3>4. QED BY <2>9, <3>1, <3>2, <3>3
  <2>10. Through(m)' = Through(m) /\ Through(read.snap.main)' = Through(read.snap.main)
    BY <2>5 DEF Through
  <2>11. CASE x = LogItem
    <3>1. z = "answered"
      BY <2>2, <2>11
    <3>2. \A g \in Page : read.copy.main[g] = Through(m)[g]
      BY <2>9, <2>11, PagesBeforeLog
    <3>3. read.copy.main = Through(m)
      <4>1. Overlay(m, f, k) \in Contents
        BY <2>7, OverlayIsTyped
      <4>2. QED BY <2>7, <2>8, <3>2, <4>1 DEF Contents
    <3>4. Through(m) \in read.seen
      BY <2>1 DEF Between
    <3>5. Reading'
      BY <2>5, <3>1, <3>3, <3>4 DEF Reading, AnswersAreStates, Working
    <3>6. Blaming'
      BY <1>1, <1>2, <1>3, <2>5, <3>1, GoesOn
    <3>7. QED BY <1>3, <2>5, <3>5, <3>6 DEF ReadInv
  <2>12. CASE x # LogItem
    <3>1. z = "close" /\ n = x + 1
      BY <2>2, <2>12
    <3>2. ASSUME NEW g \in Page
          PROVE  \/ g < n /\ read.copy.main[g] = Through(m)[g]
                 \/ g >= n /\ read.copy.main[g] = Through(read.snap.main)[g]
                 \/ /\ g >= n /\ read.snap.wal.frames = <<>>
                    /\ m[g] <= read.copy.main[g] /\ read.copy.main[g] <= main[g]
      <4>1. (g < n <=> g < x \/ g = x) /\ (g >= n <=> g >= x /\ g # x) /\ (g < n \/ g >= n)
            /\ (g >= n => ~(g < x))
        BY <1>5, <3>1, PagesBeforeLog
      <4>2. CASE g < n
        BY <2>9, <4>1, <4>2
      <4>3. CASE g >= n
        BY <1>1, <1>4, <2>1, <4>1, <4>3 DEF Between
      <4>4. QED BY <4>1, <4>2, <4>3
    <3>3. Between(m)'
      BY <1>2, <2>1, <2>5, <2>10, <3>1, <3>2 DEF Between
    <3>4. Reading'
      BY <1>1, <1>3, <2>1, <2>5, <3>1, <3>3 DEF ReadInv, Reading, AnswersAreStates, Working
    <3>5. Blaming'
      BY <1>1, <1>2, <1>3, <2>5, <3>1, GoesOn
    <3>6. QED BY <1>3, <2>5, <3>4, <3>5 DEF ReadInv
  <2>13. QED BY <2>11, <2>12
<1>8. QED BY <1>6, <1>7

\* A writer's step is at most a page of the main file further.
LEMMA StepOfWrite == ASSUME ReadInv, NEW p \in Writer, Write(p) PROVE ReadInv'
<1>1. WriterStep(p) /\ StorageInv /\ read \in ReadOK
  BY DEF Write, ReadInv
<1>2. StorageInv' /\ \A g \in Page : main[g] \in Nat /\ main[g] <= main'[g]
  BY <1>1, WriterStepKeeps
<1>3. CASE read.phase \notin Working
  <2>1. read' = read
    BY <1>3 DEF Write
  <2>2. QED BY <1>1, <1>2, <1>3, <2>1 DEF ReadInv, Reading, Blaming, AnswersAreStates, Working
<1>4. CASE read.phase \in Working
  <2>1. PICK s, v : s = read.seen \cup {Recovered'} /\ v = (read.moved \/ files' # files)
    OBVIOUS
  <2>2. read' = [read EXCEPT !.seen = s, !.moved = v]
    BY <1>4, <2>1 DEF Write
  <2>3. Recovered' \in Contents
    <3>1. main' \in Contents /\ wal'.frames \in Logs
      BY <1>2 DEF StorageInv, WriterTypeOK
    <3>2. Committed(wal'.frames) \in Nat
      BY <3>1, CommittedIs
    <3>3. QED BY <3>1, <3>2, OverlayIsTyped DEF Recovered
  <2>4. s \in SUBSET Contents /\ v \in BOOLEAN
    BY <1>1, <2>1, <2>3 DEF ReadOK
  <2>5. /\ read' \in ReadOK /\ read'.phase = read.phase /\ read'.next = read.next
        /\ read'.snap = read.snap /\ read'.copy = read.copy /\ read'.held = read.held
        /\ read'.cause = read.cause /\ read'.seen = s /\ read'.moved = v
    BY <1>1, <2>2, <2>4 DEF ReadOK
  <2>6. \A g \in Page : main'[g] \in Nat /\ read.copy.main[g] \in Nat /\ read.snap.main[g] \in Nat
    <3>1. main' \in Contents /\ read.copy.main \in Contents /\ read.snap.main \in Contents
      BY <1>1, <1>2 DEF StorageInv, WriterTypeOK, ReadOK, FilesOK
    <3>2. QED BY <3>1, WalConstants DEF Contents
  <2>7. ASSUME NEW m \in Contents, Between(m) PROVE Between(m)'
    <3>1. \A g \in Page : m[g] \in Nat
      BY WalConstants DEF Contents
    <3>2. Through(m)' = Through(m) /\ Through(read.snap.main)' = Through(read.snap.main)
      BY <2>5 DEF Through
    <3>3. \A g \in Page : read.snap.main[g] <= m[g] /\ m[g] <= main'[g]
      BY <1>2, <2>6, <2>7, <3>1 DEF Between
    <3>4. \A g \in Page : read.copy.main[g] <= main[g] => read.copy.main[g] <= main'[g]
      BY <1>2, <2>6
    <3>5. Through(m) \in s
      BY <2>1, <2>7 DEF Between
    <3>6. QED BY <2>5, <2>7, <3>2, <3>3, <3>4, <3>5 DEF Between
  <2>8. Reading'
    <3>1. read.phase = "hash" => \A g \in Page : g < read.next => read.snap.main[g] <= main'[g]
      BY <1>1, <1>2, <2>6 DEF ReadInv, Reading
    <3>2. read.phase \in {"direct", "copy", "close"} => \E m \in Contents : Between(m)'
      BY <2>7 DEF ReadInv, Reading
    <3>3. Recovered' \in s
      BY <2>1
    <3>4. QED BY <1>4, <2>5, <3>1, <3>2, <3>3 DEF Reading, AnswersAreStates, Working
  <2>9. Blaming'
    <3>1. ASSUME ~v PROVE ~read.moved /\ main' = main /\ wal' = wal /\ shm' = shm /\ SideFiles' = SideFiles
      <4>1. ~read.moved /\ files' = files
        BY <2>1, <3>1
      <4>2. main' = main /\ wal' = wal /\ shm' = shm
        BY <4>1 DEF files
      <4>3. QED BY <4>1, <4>2 DEF SideFiles
    <3>2. QED BY <2>5, <3>1 DEF ReadInv, Blaming, Unmoved
  <2>10. QED BY <1>2, <2>5, <2>8, <2>9 DEF ReadInv
<1>5. QED BY <1>3, <1>4

-----------------------------------------------------------------------------
(* The theorems.                                                            *)

LEMMA NextKeepsReadInv == ASSUME Home = Nobody, ReadInv, [Next]_vars PROVE ReadInv'
<1>1. CASE UNCHANGED vars
  <2>1. main' = main /\ wal' = wal /\ shm' = shm /\ lock' = lock /\ conn' = conn /\ db' = db /\ past' = past
        /\ read' = read
    BY <1>1 DEF vars
  <2>2. StorageInv' /\ Recovered' = Recovered /\ SideFiles' = SideFiles
    BY <2>1, NobodyWrites DEF ReadInv
  <2>3. \A m : Between(m)' <=> Between(m)
    BY <2>1 DEF Between, Through
  <2>4. Reading'
    BY <2>1, <2>2, <2>3 DEF ReadInv, Reading, AnswersAreStates
  <2>5. Blaming'
    BY <2>1, <2>2 DEF ReadInv, Blaming, Unmoved
  <2>6. QED BY <2>1, <2>2, <2>4, <2>5 DEF ReadInv
<1>2. ASSUME NEW p \in Writer, Write(p) PROVE ReadInv'
  BY <1>2, StepOfWrite
<1>3. CASE ReaderStep
  BY <1>3, StepOfAsk, StepOfHashPage, StepOfHashLog, StepOfDirect, StepOfCopyPageOut, StepOfCopyLogOut,
     StepOfCloseRead DEF ReaderStep
<1>4. QED BY <1>1, <1>2, <1>3 DEF Next

LEMMA ReadInvHolds == ASSUME Home = Nobody PROVE Spec => []ReadInv
<1>1. Init => ReadInv
  BY ReadInit
<1>2. ReadInv /\ [Next]_vars => ReadInv'
  BY NextKeepsReadInv
<1>3. QED BY <1>1, <1>2, PTL DEF Spec

\* The storage is what the commits left, whoever reads, writes, copies or dies,
\* as long as no read runs in the process of a writer (whose locks it drops):
\* connections find every commit that returned, and so does recovery.
THEOREM StorageStaysSound == ASSUME Home = Nobody PROVE Spec => []StorageIsSound
<1>1. ASSUME ReadInv PROVE StorageIsSound
  <2>1. WalTypeOK /\ Durable /\ RecoveryForgetsNothing
    BY <1>1, StorageInvMeans DEF ReadInv
  <2>2. /\ read.phase \in Working \cup {"idle", "answered", "gaveup", "refused"}
        /\ read.next \in 1 .. LogItem /\ read.try \in 0 .. MaxTry
        /\ read.snap.main \in Contents /\ read.copy.main \in Contents /\ read.seen \subseteq Contents
    BY <1>1 DEF ReadInv, ReadOK, FilesOK
  <2>3. TypeOK
    BY <2>1, <2>2 DEF TypeOK, Contents
  <2>4. QED BY <2>1, <2>3 DEF StorageIsSound
<1>2. QED BY <1>1, ReadInvHolds, PTL

\* An answer is one committed state, and one the files amounted to while the
\* read was at work, whatever the writers did in between.
THEOREM AnswersStayStates == ASSUME Home = Nobody PROVE Spec => []AnswersAreStates
<1>1. ReadInv => AnswersAreStates
  BY DEF ReadInv, Reading
<1>2. QED BY <1>1, ReadInvHolds, PTL

\* Nobody is refused for nothing: each attempt met a file that moved, or a log
\* without a commit or without its index.
THEOREM RefusalsHaveCauses == ASSUME Home = Nobody PROVE Spec => []RefusalHasCause
<1>1. ReadInv => RefusalHasCause
  BY DEF ReadInv, Blaming, RefusalHasCause
<1>2. QED BY <1>1, ReadInvHolds, PTL
=============================================================================
