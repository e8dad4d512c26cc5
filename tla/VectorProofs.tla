---------------------------- MODULE VectorProofs ----------------------------
(***************************************************************************)
(* Proofs about the vector index: what fills it (EmbeddingQueue), what the   *)
(* vectors stand for (TailWindows), and what a search makes of them          *)
(* (Recall), for every value of the constants.                               *)
(*                                                                         *)
(* EmbeddingQueue.  The tables are one value, so what a transaction leaves   *)
(* of them is said once, as Sound, of a value d: the first lemmas show that  *)
(* every statement group the transactions are built from takes a sound value *)
(* to a sound one.  What a process read is written later, whatever ran in    *)
(* between, so the invariant says of the ids in hand only what no other      *)
(* process can undo: that they were observed, and not under the capture      *)
(* policy.  That they still exist is what the write has to find out itself.  *)
(*                                                                         *)
(* Recall.  A leg stops with every visible row, or with those of enough      *)
(* memories and none left out that is nearer.  Either way what is left out   *)
(* is crowded out: there are as many nearer memories as the list is long, so *)
(* its loss changes nothing.  That is what the merge needs of the legs, and  *)
(* what it keeps although it forgets most tails.                             *)
(***************************************************************************)
EXTENDS EmbeddingQueue, Recall, SequenceTheorems, FiniteSetTheorems, WellFoundedInduction, TLAPS

-----------------------------------------------------------------------------
(* Soundness of the tables.                                                 *)

Dims == {Dim[x] : x \in Model} \cup {0}

Tables ==
    [live : SUBSET Mem, kind : [Mem -> Kinds \cup {None}], job : [Mem -> Nat \cup {NoJob}],
     blob : [Mem -> Vector], vec : [Mem -> Vector], vecDim : Dims,
     spanRow : [Mem -> Vector], spanVec : [Mem -> Vector], spanDim : Dims,
     metaModel : Vector, metaDim : Dims]

\* Rows that may be written to the index: observed, and not excluded.
Admitted(d) == {m \in Mem : d.kind[m] \notin {None, "skipped"}}

\* Nothing derived stands for a row that was never observed or is excluded.
OnlyAdmitted(d) ==
    \A m \in Mem \ Admitted(d) :
        /\ d.blob[m] = None /\ d.vec[m] = None /\ d.spanRow[m] = None
        /\ d.job[m] = NoJob

Sound(d) ==
    /\ d \in Tables
    /\ d.live \subseteq Born(d)
    /\ \A m \in Mem : d.spanRow[m] # None => m \in d.live
    /\ \A m \in d.live : NeedsVector(d, m) => d.blob[m] # None \/ d.job[m] # NoJob
    /\ OnlyAdmitted(d)

\* Where a process holds no rows, where it has a model, and where it may be.
EmptyHanded == {"idle", "check", "re_select", "select", "insert"}
UsesModel == {"re_chunk", "re_spans", "ensure", "ensure_tails", "heads", "heads_anew", "spans"}
Label == EmptyHanded \cup UsesModel \cup {"re_drop", "re_drop_tails", "re_clear"}

\* The ids a process holds, and its model where it is going to use it.
HandsAreTyped ==
    /\ pc \in [Proc -> Label]
    /\ loaded \in [Proc -> Vector]
    /\ todo \in [Proc -> SUBSET Mem] /\ tails \in [Proc -> SUBSET Mem]
    /\ \A p \in Proc :
        /\ todo[p] \cup tails[p] \subseteq Admitted(db)
        /\ pc[p] \in EmptyHanded => todo[p] = {} /\ tails[p] = {}
        /\ pc[p] \in UsesModel => loaded[p] # None

QueueInv == Sound(db) /\ HandsAreTyped

-----------------------------------------------------------------------------
(* What the statement groups keep.                                          *)

\* The rows, the queue and the stored embeddings are the same.
Quiet(d, e) == e.live = d.live /\ e.kind = d.kind /\ e.job = d.job /\ e.blob = d.blob

\* Changes to the indexes alone, of admitted rows and with tails of live ones.
LEMMA QuietIsSound ==
    ASSUME NEW d, Sound(d), NEW e \in Tables, Quiet(d, e),
           \A m \in Mem : e.vec[m] # None => m \in Admitted(d),
           \A m \in Mem : e.spanRow[m] # None => m \in Admitted(d) /\ m \in d.live
    PROVE  Sound(e)
  BY DEF Sound, Quiet, OnlyAdmitted, Admitted, Born, NeedsVector, Tables

\* An admitted row has been observed.
LEMMA IndexedIsAdmitted ==
    ASSUME NEW d, Sound(d), NEW m \in Mem
    PROVE  /\ d.vec[m] # None => m \in Admitted(d)
           /\ d.spanRow[m] # None => m \in Admitted(d) /\ m \in d.live
  BY DEF Sound, OnlyAdmitted

\* An index that is not there holds no vectors.
LEMMA ClearedIsTyped == Cleared \in [Mem -> Vector] /\ \A m \in Mem : Cleared[m] = None
  BY DEF Cleared, Vector

\* DROP TABLE vec_memories.
LEMMA DropHeadsIsSound ==
    ASSUME NEW d, Sound(d)
    PROVE  /\ Sound(DropHeads(d)) /\ Quiet(d, DropHeads(d))
           /\ DropHeads(d).spanRow = d.spanRow /\ DropHeads(d).spanVec = d.spanVec
<1> DEFINE e == DropHeads(d)
<1>1. d \in Tables
  BY DEF Sound
<1>2. /\ Quiet(d, e) /\ e.spanRow = d.spanRow /\ e.spanVec = d.spanVec
      /\ e.vec = Cleared /\ e \in Tables
  BY <1>1, ClearedIsTyped DEF DropHeads, Tables, Dims, Quiet
<1> HIDE DEF e
<1>3. Sound(e)
  BY <1>2, ClearedIsTyped, IndexedIsAdmitted, QuietIsSound
<1>4. QED BY <1>2, <1>3 DEF e

\* DROP TABLE vec_memory_spans.
LEMMA DropTailsIsSound ==
    ASSUME NEW d, Sound(d)
    PROVE  Sound(DropTails(d)) /\ Quiet(d, DropTails(d)) /\ DropTails(d).spanRow = d.spanRow
<1> DEFINE e == DropTails(d)
<1>1. d \in Tables
  BY DEF Sound
<1>2. Quiet(d, e) /\ e.spanRow = d.spanRow /\ e.vec = d.vec /\ e \in Tables
  BY <1>1, ClearedIsTyped DEF DropTails, Tables, Dims, Quiet
<1> HIDE DEF e
<1>3. Sound(e)
  BY <1>2, IndexedIsAdmitted, QuietIsSound
<1>4. QED BY <1>2, <1>3 DEF e

\* DELETE FROM memory_spans.
LEMMA ForgetTailsIsSound ==
    ASSUME NEW d, Sound(d)
    PROVE  Sound(ForgetTails(d)) /\ Quiet(d, ForgetTails(d))
<1> DEFINE e == ForgetTails(d)
<1>1. d \in Tables
  BY DEF Sound
<1>2. Quiet(d, e) /\ e.spanRow = Cleared /\ e.vec = d.vec /\ e \in Tables
  BY <1>1, ClearedIsTyped DEF ForgetTails, Tables, Dims, Quiet
<1> HIDE DEF e
<1>3. Sound(e)
  BY <1>2, ClearedIsTyped, IndexedIsAdmitted, QuietIsSound
<1>4. QED BY <1>2, <1>3 DEF e

\* CREATE TABLE IF NOT EXISTS vec_memories.
LEMMA CreateHeadsIsSound ==
    ASSUME NEW d, Sound(d), NEW x \in Model
    PROVE  Sound(CreateHeads(d, Dim[x])) /\ Quiet(d, CreateHeads(d, Dim[x]))
<1> DEFINE e == CreateHeads(d, Dim[x])
<1>1. d \in Tables
  BY DEF Sound
<1>2. Dim[x] \in Dims
  BY DEF Dims
<1>3. Quiet(d, e) /\ e.spanRow = d.spanRow /\ e.vec = d.vec /\ e \in Tables
  BY <1>1, <1>2 DEF CreateHeads, Tables, Quiet
<1> HIDE DEF e
<1>4. Sound(e)
  BY <1>3, IndexedIsAdmitted, QuietIsSound
<1>5. QED BY <1>3, <1>4 DEF e

\* meta's embed_model and embed_dim.
LEMMA StampIsSound ==
    ASSUME NEW d, Sound(d), NEW x \in Model
    PROVE  /\ Sound([d EXCEPT !.metaModel = x, !.metaDim = Dim[x]])
           /\ Quiet(d, [d EXCEPT !.metaModel = x, !.metaDim = Dim[x]])
           /\ Sound([d EXCEPT !.metaDim = Dim[x]])
           /\ Quiet(d, [d EXCEPT !.metaDim = Dim[x]])
<1> DEFINE e == [d EXCEPT !.metaModel = x, !.metaDim = Dim[x]]
           f == [d EXCEPT !.metaDim = Dim[x]]
<1>1. d \in Tables
  BY DEF Sound
<1>2. Dim[x] \in Dims
  BY DEF Dims
<1>3. /\ Quiet(d, e) /\ e.spanRow = d.spanRow /\ e.vec = d.vec /\ e \in Tables
      /\ Quiet(d, f) /\ f.spanRow = d.spanRow /\ f.vec = d.vec /\ f \in Tables
  BY <1>1, <1>2 DEF Tables, Quiet, Vector
<1> HIDE DEF e, f
<1>4. Sound(e) /\ Sound(f)
  BY <1>3, IndexedIsAdmitted, QuietIsSound
<1>5. QED BY <1>3, <1>4 DEF e, f

\* Quiet changes add up.
LEMMA QuietAddsUp == \A d, e, f : Quiet(d, e) /\ Quiet(e, f) => Quiet(d, f)
  BY DEF Quiet

\* ensure_vec_table inside a transaction: it drops vectors, and never adds one.
LEMMA EnsureDropsOnly ==
    ASSUME NEW d \in Tables, NEW x \in Model
    PROVE  LET e == EnsureVecTable(d, Dim[x]) IN
           /\ e \in Tables /\ Quiet(d, e)
           /\ \A m \in Mem : /\ e.vec[m] # None => d.vec[m] # None
                             /\ e.spanRow[m] # None => d.spanRow[m] # None
<1> DEFINE e == EnsureVecTable(d, Dim[x])
           f == IF OtherDimension(d, Dim[x]) THEN ForgetTails(DropTails(DropHeads(d))) ELSE d
<1>1. /\ f \in Tables /\ Quiet(d, f)
      /\ f.vec = d.vec \/ f.vec = Cleared
      /\ f.spanRow = d.spanRow \/ f.spanRow = Cleared
  BY ClearedIsTyped DEF ForgetTails, DropTails, DropHeads, Tables, Dims, Quiet
<1>2. e = [CreateHeads(f, Dim[x]) EXCEPT !.metaDim = Dim[x]]
  BY DEF EnsureVecTable
<1> HIDE DEF f, e
<1>3. e \in Tables /\ Quiet(f, e) /\ e.vec = f.vec /\ e.spanRow = f.spanRow
  BY <1>1, <1>2 DEF CreateHeads, Tables, Dims, Quiet
<1>4. QED BY <1>1, <1>3, ClearedIsTyped DEF Quiet, e

\* ... and so leaves sound tables sound.
LEMMA EnsureIsSound ==
    ASSUME NEW d, Sound(d), NEW x \in Model
    PROVE  Sound(EnsureVecTable(d, Dim[x])) /\ Quiet(d, EnsureVecTable(d, Dim[x]))
<1> DEFINE e == EnsureVecTable(d, Dim[x])
<1>1. e \in Tables /\ Quiet(d, e) /\ \A m \in Mem : /\ e.vec[m] # None => d.vec[m] # None
                                                    /\ e.spanRow[m] # None => d.spanRow[m] # None
  BY EnsureDropsOnly DEF Sound
<1> HIDE DEF e
<1>2. Sound(e)
  BY <1>1, IndexedIsAdmitted, QuietIsSound
<1>3. QED BY <1>1, <1>2 DEF e

\* persist_memory_spans: whichever tails it stores, drops or refuses.
LEMMA PersistIsSound ==
    ASSUME NEW d, Sound(d), NEW ms \in SUBSET Mem, NEW x \in Model
    PROVE  Sound(PersistSpans(d, ms, x)) /\ Quiet(d, PersistSpans(d, ms, x))
<1> DEFINE sdim == IF d.spanDim = 0 /\ ms # {} THEN Dim[x] ELSE d.spanDim
           free == {m \in Mem : d.spanVec[m] = None \/ d.spanRow[m] # None}
           tried == TailRows(d, ms)
           put == IF sdim = Dim[x] THEN tried \cap free ELSE {}
           gone == tried \cup {m \in ms : d.spanRow[m] # None}
           rows == [m \in Mem |-> IF m \in put THEN x ELSE IF m \in ms THEN None ELSE d.spanRow[m]]
           vecs == [m \in Mem |-> IF m \in put THEN x ELSE IF m \in gone THEN None ELSE d.spanVec[m]]
           e == PersistSpans(d, ms, x)
<1>1. d \in Tables
  BY DEF Sound
<1>2. sdim \in Dims
  BY <1>1 DEF Tables, Dims
<1>3. put \subseteq TailRows(d, ms)
  OBVIOUS
<1>4. e = [d EXCEPT !.spanDim = sdim, !.spanRow = rows, !.spanVec = vecs]
  BY <1>1 DEF PersistSpans, Tables
<1> HIDE DEF put, gone, sdim, e
<1>5. rows \in [Mem -> Vector] /\ vecs \in [Mem -> Vector]
  BY <1>1 DEF Tables, Vector
<1>6. \A m \in Mem : rows[m] # None => m \in put \/ d.spanRow[m] # None
  OBVIOUS
<1> HIDE DEF rows, vecs
<1>7. Quiet(d, e) /\ e.spanRow = rows /\ e.vec = d.vec /\ e \in Tables
  BY <1>1, <1>2, <1>4, <1>5 DEF Tables, Quiet
<1>8. \A m \in put : m \in d.live /\ m \in Admitted(d)
  BY <1>1, <1>3 DEF TailRows, Tables, Admitted, Sound, Born
<1>9. Sound(e)
  BY <1>6, <1>7, <1>8, IndexedIsAdmitted, QuietIsSound
<1>10. QED BY <1>7, <1>9 DEF e

-----------------------------------------------------------------------------
(* What the write transactions keep.                                        *)

\* A row leaves the queue only with its memory or for the vector it stood for.
JobsLeave(d, e) ==
    \A m \in Mem : (d.job[m] # NoJob /\ e.job[m] = NoJob)
        => (m \in e.live => e.vec[m] # None /\ e.blob[m] # None)

\* An erased memory takes the tail its span row names along.
TailsGo(d, e) == \A m \in d.live \ e.live : d.spanRow[m] # None => e.spanVec[m] = None

\* What one transaction may make of the tables.
Follows(d, e) == Sound(e) /\ Admitted(d) \subseteq Admitted(e) /\ JobsLeave(d, e) /\ TailsGo(d, e)

\* A quiet change is one of them, alone or before another.
LEMMA QuietFollows ==
    ASSUME NEW d, NEW e, Sound(e), Quiet(d, e)
    PROVE  /\ Follows(d, e)
           /\ \A f : Follows(e, f) /\ f.live = d.live => Follows(d, f)
  BY DEF Follows, Quiet, Admitted, JobsLeave, TailsGo

\* The write transaction of process_embedding_jobs.
LEMMA WriteHeadsFollows ==
    ASSUME NEW d, Sound(d), NEW x \in Model, NEW batch \in SUBSET Admitted(d),
           NEW failed \in SUBSET batch
    PROVE  Follows(d, WriteHeads(d, batch, failed, x)) /\ WriteHeads(d, batch, failed, x).live = d.live
<1> DEFINE embedded == batch \ failed
           stored == IF d.vecDim = Dim[x] THEN embedded ELSE {}
           blobs == [m \in Mem |-> IF m \in embedded \cap d.live THEN x ELSE d.blob[m]]
           vecs == [m \in Mem |-> IF m \in stored THEN x
                                  ELSE IF m \in embedded THEN None ELSE d.vec[m]]
           jobs == JobsAfter(d, batch, stored)
           e == WriteHeads(d, batch, failed, x)
<1>1. d \in Tables /\ Dim[x] \in Dims /\ x # None
  BY ConstantsTyped DEF Sound, Dims
<1>2. stored \subseteq embedded /\ embedded \subseteq batch /\ batch \subseteq Admitted(d)
  OBVIOUS
<1>3. e = [d EXCEPT !.blob = blobs, !.vec = vecs, !.job = jobs, !.metaModel = x, !.metaDim = Dim[x]]
  BY <1>1 DEF WriteHeads, Tables
<1> HIDE DEF stored, embedded, e
<1>4. blobs \in [Mem -> Vector] /\ vecs \in [Mem -> Vector]
  BY <1>1 DEF Tables, Vector
<1>5. /\ jobs \in [Mem -> Nat \cup {NoJob}]
      /\ \A m \in Mem : jobs[m] = NoJob <=> m \in stored \/ d.job[m] = NoJob
  BY <1>1 DEF Tables, JobsAfter, NoJob
<1>6. \A m \in Mem :
          /\ m \in stored => vecs[m] # None
          /\ m \in embedded /\ m \in d.live => blobs[m] # None
          /\ blobs[m] # None => m \in embedded \/ d.blob[m] # None
          /\ d.blob[m] # None => blobs[m] # None
          /\ vecs[m] # None => m \in embedded \/ d.vec[m] # None
  BY <1>1, <1>2
<1> HIDE DEF blobs, vecs, jobs
<1>7. /\ e \in Tables /\ e.live = d.live /\ e.kind = d.kind /\ e.spanRow = d.spanRow
      /\ e.blob = blobs /\ e.vec = vecs /\ e.job = jobs
  BY <1>1, <1>3, <1>4, <1>5 DEF Tables, Vector
<1>8. Admitted(e) = Admitted(d)
  BY <1>7 DEF Admitted
<1>9. Sound(e)
  <2>1. e.live \subseteq Born(e) /\ \A m \in Mem : e.spanRow[m] # None => m \in e.live
    BY <1>7 DEF Sound, Born
  <2>2. \A m \in e.live : NeedsVector(e, m) => e.blob[m] # None \/ e.job[m] # NoJob
    <3>1. SUFFICES ASSUME NEW m \in d.live, NeedsVector(d, m)
                   PROVE  e.blob[m] # None \/ e.job[m] # NoJob
      BY <1>7 DEF NeedsVector
    <3>2. m \in Mem /\ (d.blob[m] # None \/ d.job[m] # NoJob)
      BY <1>1, <3>1 DEF Sound, Tables
    <3>3. QED BY <1>2, <1>5, <1>6, <1>7, <3>1, <3>2
  <2>3. OnlyAdmitted(e)
    <3>1. SUFFICES ASSUME NEW m \in Mem \ Admitted(d)
                   PROVE  e.blob[m] = None /\ e.vec[m] = None /\ e.spanRow[m] = None /\ e.job[m] = NoJob
      BY <1>8 DEF OnlyAdmitted
    <3>2. m \notin embedded /\ m \notin stored
      BY <1>2
    <3>3. d.blob[m] = None /\ d.vec[m] = None /\ d.spanRow[m] = None /\ d.job[m] = NoJob
      BY DEF Sound, OnlyAdmitted
    <3>4. QED BY <1>5, <1>6, <1>7, <3>2, <3>3
  <2>4. QED BY <1>7, <2>1, <2>2, <2>3 DEF Sound
<1>10. JobsLeave(d, e)
  BY <1>2, <1>5, <1>6, <1>7 DEF JobsLeave
<1>11. QED BY <1>7, <1>8, <1>9, <1>10 DEF Follows, TailsGo, e

\* The write transaction of one chunk of reembed.
LEMMA WriteChunkFollows ==
    ASSUME NEW d, Sound(d), NEW x \in Model, NEW chunk \in SUBSET Admitted(d)
    PROVE  Follows(d, WriteChunk(d, chunk, x))
<1> DEFINE rebuilt == Rebuilt(d, chunk, x)
           blobs == [m \in Mem |-> IF m \in chunk \cap d.live THEN x ELSE d.blob[m]]
           vecs == [m \in Mem |-> IF m \in rebuilt THEN x ELSE d.vec[m]]
           jobs == [m \in Mem |-> IF m \in rebuilt THEN NoJob ELSE d.job[m]]
           e == WriteChunk(d, chunk, x)
<1>1. d \in Tables /\ x # None
  BY ConstantsTyped DEF Sound
<1>2. rebuilt \subseteq chunk
  BY DEF Rebuilt
<1>3. e = [d EXCEPT !.blob = blobs, !.vec = vecs, !.job = jobs]
  BY <1>1 DEF WriteChunk, Tables
<1> HIDE DEF rebuilt, e
<1>4. /\ blobs \in [Mem -> Vector] /\ vecs \in [Mem -> Vector]
      /\ jobs \in [Mem -> Nat \cup {NoJob}]
  BY <1>1 DEF Tables, Vector
<1>5. \A m \in Mem :
          /\ m \in rebuilt => vecs[m] # None
          /\ m \in chunk /\ m \in d.live => blobs[m] # None
          /\ blobs[m] # None => m \in chunk \/ d.blob[m] # None
          /\ d.blob[m] # None => blobs[m] # None
          /\ vecs[m] # None => m \in chunk \/ d.vec[m] # None
          /\ jobs[m] = NoJob <=> m \in rebuilt \/ d.job[m] = NoJob
  BY <1>1, <1>2
<1> HIDE DEF blobs, vecs, jobs
<1>6. /\ e \in Tables /\ e.live = d.live /\ e.kind = d.kind /\ e.spanRow = d.spanRow
      /\ e.blob = blobs /\ e.vec = vecs /\ e.job = jobs
  BY <1>1, <1>3, <1>4 DEF Tables
<1>7. Admitted(e) = Admitted(d)
  BY <1>6 DEF Admitted
<1>8. Sound(e)
  <2>1. e.live \subseteq Born(e) /\ \A m \in Mem : e.spanRow[m] # None => m \in e.live
    BY <1>6 DEF Sound, Born
  <2>2. \A m \in e.live : NeedsVector(e, m) => e.blob[m] # None \/ e.job[m] # NoJob
    <3>1. SUFFICES ASSUME NEW m \in d.live, NeedsVector(d, m)
                   PROVE  e.blob[m] # None \/ e.job[m] # NoJob
      BY <1>6 DEF NeedsVector
    <3>2. m \in Mem /\ (d.blob[m] # None \/ d.job[m] # NoJob)
      BY <1>1, <3>1 DEF Sound, Tables
    <3>3. QED BY <1>2, <1>5, <1>6, <3>1, <3>2
  <2>3. OnlyAdmitted(e)
    <3>1. SUFFICES ASSUME NEW m \in Mem \ Admitted(d)
                   PROVE  e.blob[m] = None /\ e.vec[m] = None /\ e.spanRow[m] = None /\ e.job[m] = NoJob
      BY <1>7 DEF OnlyAdmitted
    <3>2. d.blob[m] = None /\ d.vec[m] = None /\ d.spanRow[m] = None /\ d.job[m] = NoJob
      BY DEF Sound, OnlyAdmitted
    <3>3. QED BY <1>5, <1>6, <3>2
  <2>4. QED BY <1>6, <2>1, <2>2, <2>3 DEF Sound
<1>9. JobsLeave(d, e)
  BY <1>2, <1>5, <1>6 DEF JobsLeave
<1>10. QED BY <1>6, <1>7, <1>8, <1>9 DEF Follows, TailsGo, e

\* reembed without a model: whatever loses its embedding is queued.
LEMMA RequeueFollows ==
    ASSUME NEW d, Sound(d)
    PROVE  Follows(d, Requeue(d))
<1> DEFINE jobs == [m \in Mem |-> IF m \in d.live /\ NeedsVector(d, m) /\ d.job[m] = NoJob
                                  THEN 0 ELSE d.job[m]]
           c == ForgetTails(d)
           e == Requeue(d)
<1>1. d \in Tables
  BY DEF Sound
<1>2. /\ c \in Tables /\ c.live = d.live /\ c.job = d.job /\ c.kind = d.kind /\ c.vec = d.vec
      /\ c.spanRow = Cleared
  BY <1>1, ForgetTailsIsSound DEF Sound, Quiet, ForgetTails, Tables
<1>3. e = [c EXCEPT !.blob = Cleared, !.job = jobs]
  BY <1>2 DEF Requeue, Tables
<1> HIDE DEF c, e
<1>4. /\ jobs \in [Mem -> Nat \cup {NoJob}]
      /\ \A m \in Mem : jobs[m] = NoJob <=>
                            d.job[m] = NoJob /\ ~(m \in d.live /\ NeedsVector(d, m))
  BY <1>1 DEF Tables, NoJob
<1> HIDE DEF jobs
<1>5. /\ e \in Tables /\ e.live = d.live /\ e.kind = d.kind /\ e.spanRow = Cleared
      /\ e.blob = Cleared /\ e.vec = d.vec /\ e.job = jobs
  BY <1>2, <1>3, <1>4, ClearedIsTyped DEF Tables
<1>6. Admitted(e) = Admitted(d)
  BY <1>5 DEF Admitted
<1>7. Sound(e)
  <2>1. e.live \subseteq Born(e) /\ \A m \in Mem : e.spanRow[m] # None => m \in e.live
    BY <1>5, ClearedIsTyped DEF Sound, Born
  <2>2. \A m \in e.live : NeedsVector(e, m) => e.blob[m] # None \/ e.job[m] # NoJob
    BY <1>1, <1>4, <1>5 DEF NeedsVector, Tables
  <2>3. OnlyAdmitted(e)
    <3>1. SUFFICES ASSUME NEW m \in Mem \ Admitted(d)
                   PROVE  e.blob[m] = None /\ e.vec[m] = None /\ e.spanRow[m] = None /\ e.job[m] = NoJob
      BY <1>6 DEF OnlyAdmitted
    <3>2. d.vec[m] = None /\ d.job[m] = NoJob
      BY DEF Sound, OnlyAdmitted
    <3>3. ~(m \in d.live /\ NeedsVector(d, m))
      BY DEF Sound, Born, Admitted, NeedsVector
    <3>4. QED BY <1>4, <1>5, <3>2, <3>3, ClearedIsTyped
  <2>4. QED BY <1>5, <2>1, <2>2, <2>3 DEF Sound
<1>8. JobsLeave(d, e)
  BY <1>4, <1>5 DEF JobsLeave
<1>9. QED BY <1>5, <1>6, <1>7, <1>8 DEF Follows, TailsGo, e

\* A purge of one memory.
LEMMA EraseFollows ==
    ASSUME NEW d, Sound(d), NEW m \in d.live
    PROVE  Follows(d, Erase(d, m))
<1> DEFINE e == Erase(d, m)
<1>1. d \in Tables /\ m \in Mem
  BY DEF Sound, Tables
<1>2. /\ e.live = d.live \ {m} /\ e.kind = d.kind
      /\ e.job = [d.job EXCEPT ![m] = NoJob]
      /\ e.blob = [d.blob EXCEPT ![m] = None]
      /\ e.vec = [d.vec EXCEPT ![m] = None]
      /\ e.spanRow = [d.spanRow EXCEPT ![m] = None]
      /\ d.spanRow[m] # None => e.spanVec[m] = None
  BY <1>1 DEF Erase, DropSpans, Tables
<1>3. e \in Tables
  BY <1>1 DEF Erase, DropSpans, Tables, Vector
<1> HIDE DEF e
<1>4. Admitted(e) = Admitted(d)
  BY <1>2 DEF Admitted
<1>5. \A k \in Mem \ {m} : /\ e.job[k] = d.job[k] /\ e.blob[k] = d.blob[k]
                           /\ e.vec[k] = d.vec[k] /\ e.spanRow[k] = d.spanRow[k]
  BY <1>1, <1>2 DEF Tables
<1>6. e.job[m] = NoJob /\ e.blob[m] = None /\ e.vec[m] = None /\ e.spanRow[m] = None
  BY <1>1, <1>2 DEF Tables
<1>7. Sound(e)
  <2>1. e.live \subseteq Born(e) /\ \A k \in Mem : e.spanRow[k] # None => k \in e.live
    BY <1>2, <1>5, <1>6 DEF Sound, Born
  <2>2. \A k \in e.live : NeedsVector(e, k) => e.blob[k] # None \/ e.job[k] # NoJob
    BY <1>1, <1>2, <1>5 DEF NeedsVector, Tables, Sound
  <2>3. OnlyAdmitted(e)
    BY <1>4, <1>5, <1>6 DEF Sound, OnlyAdmitted
  <2>4. QED BY <1>3, <2>1, <2>2, <2>3 DEF Sound
<1>8. JobsLeave(d, e)
  BY <1>2, <1>5 DEF JobsLeave
<1>9. TailsGo(d, e)
  BY <1>2 DEF TailsGo
<1>10. QED BY <1>4, <1>7, <1>8, <1>9 DEF Follows, e

\* The write transaction of observe for a row that is not there yet.
LEMMA InsertFollows ==
    ASSUME NEW d, Sound(d), NEW m \in Mem \ Born(d), NEW k \in Kinds, NEW x, NEW embed \in BOOLEAN,
           embed => x \in Model
    PROVE  Follows(d, InsertRow(d, m, k, x, embed))
<1> DEFINE row == [d EXCEPT !.live = @ \cup {m}, !.kind[m] = k]
           i == InsertRow(d, m, k, x, embed)
<1>1. d \in Tables /\ k # None /\ m \notin d.live /\ d.kind[m] = None /\ m \notin Admitted(d)
  BY ConstantsTyped DEF Sound, Born, Admitted
<1>2. /\ row \in Tables /\ row.live = d.live \cup {m} /\ row.kind = [d.kind EXCEPT ![m] = k]
      /\ row.job = d.job /\ row.blob = d.blob /\ row.vec = d.vec /\ row.spanRow = d.spanRow
  BY <1>1 DEF Tables
<1>3. d.job[m] = NoJob /\ d.blob[m] = None /\ d.vec[m] = None /\ d.spanRow[m] = None
  BY <1>1 DEF Sound, OnlyAdmitted
<1>4. /\ row.kind[m] = k /\ \A n \in Mem \ {m} : row.kind[n] = d.kind[n]
  BY <1>1, <1>2 DEF Tables
<1> HIDE DEF row
<1> DEFINE OnRow(e) ==
        /\ e \in Tables /\ e.live = row.live /\ e.kind = row.kind
        /\ \A n \in Mem \ {m} : /\ e.job[n] = d.job[n] /\ e.blob[n] = d.blob[n]
                                /\ e.vec[n] # None => d.vec[n] # None
                                /\ e.spanRow[n] # None => d.spanRow[n] # None
        /\ e.spanRow[m] = None
        /\ k = "skipped" => e.job[m] = NoJob /\ e.blob[m] = None /\ e.vec[m] = None
        /\ k \notin {"blank", "skipped"} => e.job[m] # NoJob \/ e.blob[m] # None
\* Whatever the branch, tables on which only the new row's columns differ.
<1>5. ASSUME NEW e, OnRow(e) PROVE Follows(d, e)
  <2>1. Admitted(d) \subseteq Admitted(e) /\ Admitted(e) \subseteq Admitted(d) \cup {m}
    BY <1>1, <1>4, <1>5 DEF Admitted
  <2>2. Born(d) \subseteq Born(e) /\ m \in Born(e)
    BY <1>1, <1>4, <1>5 DEF Born
  <2>3. e.live \subseteq Born(e) /\ \A n \in Mem : e.spanRow[n] # None => n \in e.live
    BY <1>2, <1>5, <2>2 DEF Sound
  <2>4. \A n \in e.live : NeedsVector(e, n) => e.blob[n] # None \/ e.job[n] # NoJob
    <3>1. SUFFICES ASSUME NEW n \in e.live, NeedsVector(e, n)
                   PROVE  e.blob[n] # None \/ e.job[n] # NoJob
      OBVIOUS
    <3>2. CASE n = m
      BY <1>4, <1>5, <3>1, <3>2 DEF NeedsVector
    <3>3. CASE n # m
      <4>1. n \in d.live /\ n \in Mem \ {m} /\ NeedsVector(d, n)
        BY <1>1, <1>2, <1>4, <1>5, <3>1, <3>3 DEF NeedsVector, Tables
      <4>2. QED BY <1>5, <4>1 DEF Sound
    <3>4. QED BY <3>2, <3>3
  <2>5. OnlyAdmitted(e)
    <3>1. SUFFICES ASSUME NEW n \in Mem \ Admitted(e)
                   PROVE  e.blob[n] = None /\ e.vec[n] = None /\ e.spanRow[n] = None /\ e.job[n] = NoJob
      BY DEF OnlyAdmitted
    <3>2. CASE n = m
      BY <1>1, <1>4, <1>5, <3>1, <3>2 DEF Admitted
    <3>3. CASE n # m
      BY <1>5, <2>1, <3>1, <3>3 DEF Sound, OnlyAdmitted
    <3>4. QED BY <3>2, <3>3
  <2>6. JobsLeave(d, e)
    BY <1>3, <1>5 DEF JobsLeave
  <2>7. TailsGo(d, e)
    BY <1>2, <1>5 DEF TailsGo
  <2>8. QED BY <1>5, <2>1, <2>3, <2>4, <2>5, <2>6, <2>7 DEF Sound, Follows
<1>6. CASE k \in {"blank", "skipped"}
  <2>1. i = row
    BY <1>6 DEF InsertRow, row
  <2>2. OnRow(row)
    BY <1>2, <1>3, <1>6
  <2>3. QED BY <1>5, <2>1, <2>2
<1>7. CASE k \notin {"blank", "skipped"} /\ ~embed
  <2>1. i = [row EXCEPT !.job[m] = 0]
    BY <1>7 DEF InsertRow, row
  <2>2. OnRow(i)
    BY <1>2, <1>3, <1>7, <2>1 DEF Tables, NoJob
  <2> HIDE DEF OnRow, i
  <2>3. QED BY <1>5, <2>2 DEF i
<1>8. CASE k \notin {"blank", "skipped"} /\ embed
  <2> DEFINE t == EnsureVecTable(row, Dim[x])
             e == [t EXCEPT !.metaModel = x, !.metaDim = Dim[x], !.blob[m] = x]
             indexed == [e EXCEPT !.vec[m] = IF e.vecDim = Dim[x] THEN x ELSE None]
  <2>1. i = PersistSpans(indexed, {m}, x)
    BY <1>8 DEF InsertRow, row
  <2>2. x \in Model /\ x # None /\ Dim[x] \in Dims
    BY <1>8, ConstantsTyped DEF Dims
  <2>3. /\ t \in Tables /\ Quiet(row, t)
        /\ \A n \in Mem : /\ t.vec[n] # None => row.vec[n] # None
                          /\ t.spanRow[n] # None => row.spanRow[n] # None
    BY <1>2, <2>2, EnsureDropsOnly
  <2> HIDE DEF t
  <2>4. /\ e \in Tables /\ e.live = t.live /\ e.kind = t.kind /\ e.job = t.job
        /\ e.blob = [t.blob EXCEPT ![m] = x] /\ e.vec = t.vec /\ e.spanRow = t.spanRow
    BY <2>2, <2>3 DEF Tables, Vector
  <2> HIDE DEF e
  <2>5. /\ indexed \in Tables /\ indexed.live = t.live /\ indexed.kind = t.kind /\ indexed.job = t.job
        /\ indexed.blob = e.blob /\ indexed.spanRow = t.spanRow
        /\ \A n \in Mem \ {m} : indexed.vec[n] = t.vec[n]
    BY <2>2, <2>4 DEF Tables, Vector
  <2> HIDE DEF indexed
  <2>6. e.blob[m] = x /\ \A n \in Mem \ {m} : e.blob[n] = t.blob[n]
    BY <2>3, <2>4 DEF Tables
  <2>7. OnRow(indexed)
    BY <1>2, <1>3, <1>8, <2>2, <2>3, <2>5, <2>6 DEF Quiet
  <2> HIDE DEF OnRow
  <2>8. Follows(d, indexed)
    BY <1>5, <2>7
  <2>9. Sound(i) /\ Quiet(indexed, i)
    BY <2>1, <2>2, <2>8, PersistIsSound DEF Follows
  <2> HIDE DEF i
  <2>10. JobsLeave(d, i)
    <3>1. \A n \in Mem : d.job[n] # NoJob => i.job[n] # NoJob
      BY <1>3, <2>5, <2>7, <2>9 DEF Quiet, OnRow
    <3>2. QED BY <3>1 DEF JobsLeave
  <2>11. TailsGo(d, i) /\ Admitted(d) \subseteq Admitted(i)
    BY <1>2, <2>7, <2>8, <2>9 DEF Quiet, OnRow, TailsGo, Follows, Admitted
  <2>12. QED BY <2>9, <2>10, <2>11 DEF Follows, i
<1>9. QED BY <1>6, <1>7, <1>8

-----------------------------------------------------------------------------
(* The steps.                                                               *)

\* What a step may do, to the tables and to what the processes hold.
Keeps == Follows(db, db') /\ HandsAreTyped'

\* Process p goes to l with rows t to write and tails u to store.
Moves(p, l, t, u) ==
    /\ pc' = [pc EXCEPT ![p] = l] /\ loaded' = loaded
    /\ todo' = [todo EXCEPT ![p] = t] /\ tails' = [tails EXCEPT ![p] = u]
    /\ l \in Label /\ t \subseteq Admitted(db) /\ u \subseteq Admitted(db)
    /\ l \in EmptyHanded => t = {} /\ u = {}
    /\ l \in UsesModel => loaded[p] # None

\* One process moves on with other rows in hand.
LEMMA HandsMove ==
    ASSUME QueueInv, Follows(db, db'), NEW p \in Proc, NEW l, NEW t, NEW u, Moves(p, l, t, u)
    PROVE  Keeps
<1>1. \A q \in Proc \ {p} : pc'[q] = pc[q] /\ todo'[q] = todo[q] /\ tails'[q] = tails[q]
  BY DEF QueueInv, HandsAreTyped, Moves
<1>2. pc'[p] = l /\ todo'[p] = t /\ tails'[p] = u
  BY DEF QueueInv, HandsAreTyped, Moves
<1>3. Admitted(db) \subseteq Mem
  BY DEF Admitted
<1>4. /\ pc' \in [Proc -> Label] /\ loaded' \in [Proc -> Vector]
      /\ todo' \in [Proc -> SUBSET Mem] /\ tails' \in [Proc -> SUBSET Mem]
  BY <1>3 DEF QueueInv, HandsAreTyped, Moves
<1>5. ASSUME NEW q \in Proc
      PROVE  /\ todo'[q] \cup tails'[q] \subseteq Admitted(db')
             /\ pc'[q] \in EmptyHanded => todo'[q] = {} /\ tails'[q] = {}
             /\ pc'[q] \in UsesModel => loaded'[q] # None
  <2>1. CASE q = p
    BY <1>2, <2>1 DEF Moves, Follows
  <2>2. CASE q # p
    BY <1>1, <2>2 DEF QueueInv, HandsAreTyped, Moves, Follows
  <2>3. QED BY <2>1, <2>2
<1>6. QED BY <1>4, <1>5 DEF HandsAreTyped, Keeps

\* No process moves.
LEMMA HandsStay ==
    ASSUME QueueInv, Admitted(db) \subseteq Admitted(db'), UNCHANGED <<pc, loaded, todo, tails>>
    PROVE  HandsAreTyped'
  BY DEF QueueInv, HandsAreTyped

\* What a process holds, where it stands.
LEMMA InHand ==
    ASSUME QueueInv, NEW p \in Proc
    PROVE  /\ Sound(db) /\ Follows(db, db)
           /\ todo[p] \in SUBSET Admitted(db) /\ tails[p] \in SUBSET Admitted(db)
           /\ todo = [todo EXCEPT ![p] = todo[p]] /\ tails = [tails EXCEPT ![p] = tails[p]]
           /\ pc[p] \in EmptyHanded => todo[p] = {} /\ tails[p] = {}
           /\ pc[p] \in UsesModel => loaded[p] \in Model
           /\ loaded[p] # None => loaded[p] \in Model
           /\ Admitted(db) \subseteq Mem
<1>1. Follows(db, db)
  BY QuietFollows DEF QueueInv, Quiet
<1>2. QED BY <1>1 DEF QueueInv, HandsAreTyped, Vector, Admitted

\* An operation that ends lets go of its rows.
LEMMA FinishKeeps ==
    ASSUME QueueInv, Follows(db, db'), loaded' = loaded, NEW p \in Proc, Finish(p)
    PROVE  Keeps
<1>1. Moves(p, "idle", {}, {})
  BY DEF Finish, Goto, Moves, Label, EmptyHanded, UsesModel
<1>2. QED BY <1>1, HandsMove

\* After a rebuild an operation ends or goes on to drain.
LEMMA AfterReembedKeeps ==
    ASSUME QueueInv, Follows(db, db'), loaded' = loaded, NEW p \in Proc, AfterReembed(p)
    PROVE  Keeps
<1>1. CASE op[p] = "reembed"
  BY <1>1, FinishKeeps DEF AfterReembed
<1>2. CASE op[p] # "reembed"
  <2>1. Moves(p, "select", {}, {})
    BY <1>2 DEF AfterReembed, Goto, Moves, Label, EmptyHanded, UsesModel
  <2>2. QED BY <2>1, HandsMove
<1>3. QED BY <1>1, <1>2

\* Wherever a process goes after a batch, it goes with empty hands.
LEMMA AfterBatchKeeps ==
    ASSUME QueueInv, Follows(db, db'), loaded' = loaded, NEW p \in Proc, NEW taken,
           AfterBatch(p, taken), todo' = [todo EXCEPT ![p] = {}], tails' = [tails EXCEPT ![p] = {}]
    PROVE  Keeps
<1>1. PICK l \in EmptyHanded : pc' = [pc EXCEPT ![p] = l]
  BY DEF AfterBatch, Goto, EmptyHanded
<1>2. Moves(p, l, {}, {})
  BY <1>1 DEF Moves, Label, EmptyHanded, UsesModel
<1>3. QED BY <1>2, HandsMove

\* The writes of callers that hold no rows.
LEMMA ObserveDeferredKeeps == ASSUME QueueInv, ObserveDeferred PROVE Keeps
<1>1. PICK m \in NextMem, k \in Kinds : db' = InsertRow(db, m, k, None, FALSE)
  BY DEF ObserveDeferred
<1>2. Follows(db, db')
  BY <1>1, InsertFollows DEF QueueInv, NextMem
<1>3. QED BY <1>2, HandsStay DEF ObserveDeferred, Keeps, Follows

\* The correction of a memory that is there: one row closes, one comes with its job.
LEMMA ContradictKeeps == ASSUME QueueInv, NEW p \in Proc, Contradict(p) PROVE Keeps
<1>1. PICK m \in NextMem, k \in Kinds \ {"poison", "skipped"} :
          db' = InsertRow(db, m, k, loaded[p], loaded[p] # None)
  BY DEF Contradict
<1>2. Follows(db, db')
  BY <1>1, InsertFollows, InHand DEF QueueInv, NextMem
<1>3. QED BY <1>2, HandsStay DEF Contradict, Keeps, Follows

\* The purge of a memory takes its row, its job and its vectors.
LEMMA PurgeKeeps == ASSUME QueueInv, NEW m \in Mem, Purge(m) PROVE Keeps
<1>1. Follows(db, db')
  BY EraseFollows DEF QueueInv, Purge
<1>2. QED BY <1>1, HandsStay DEF Purge, Keeps, Follows

\* An operation starts; bootstrap of the default namespace stamps its model.
LEMMA StartKeeps ==
    ASSUME QueueInv, NEW p \in Proc, NEW o, Start(p, o)
    PROVE  Keeps
<1>1. Follows(db, db')
  BY InHand, StampIsSound, QuietFollows DEF Start, QueueInv
<1>2. PICK l \in {"re_select", "check"} : pc' = [pc EXCEPT ![p] = l]
  BY DEF Start, Goto
<1>3. Moves(p, l, {}, {})
  BY <1>2, InHand DEF Start, Moves, Label, EmptyHanded, UsesModel
<1>4. QED BY <1>1, <1>3, HandsMove

\* reembed, statement by statement.
LEMMA ReembedKeeps ==
    ASSUME QueueInv, NEW p \in Proc,
           \/ Check(p) \/ ReSelect(p) \/ ReDrop(p) \/ ReDropTails(p) \/ ReClear(p)
           \/ ReChunk(p) \/ ReSpans(p) \/ ReFinish(p)
    PROVE  Keeps
<1> USE DEF Goto, Label, EmptyHanded, UsesModel
<1>1. CASE Check(p)
  <2>1. Follows(db, db')
    BY <1>1, InHand DEF Check
  <2>2. PICK l \in {"re_select", "select"} : pc' = [pc EXCEPT ![p] = l]
    BY <1>1 DEF Check
  <2>3. Moves(p, l, {}, {})
    BY <1>1, <2>2, InHand DEF Check, Moves
  <2>4. QED BY <2>1, <2>3, HandsMove
<1>2. CASE ReSelect(p)
  <2> DEFINE rows == {m \in db.live : db.kind[m] # "skipped"}
  <2>1. Follows(db, db') /\ rows \subseteq Admitted(db)
    BY <1>2, InHand DEF ReSelect, Sound, Admitted, Born
  <2>2. Moves(p, "re_drop", rows, {})
    BY <1>2, <2>1, InHand DEF ReSelect, Moves
  <2>3. QED BY <2>1, <2>2, HandsMove
<1>3. CASE ReDrop(p)
  <2>1. Follows(db, db')
    BY <1>3, InHand, DropHeadsIsSound, QuietFollows DEF ReDrop
  <2>2. Moves(p, "re_drop_tails", todo[p], tails[p])
    BY <1>3, InHand DEF ReDrop, Moves
  <2>3. QED BY <2>1, <2>2, HandsMove
<1>4. CASE ReDropTails(p)
  <2>1. Follows(db, db')
    BY <1>4, InHand, DropTailsIsSound, QuietFollows DEF ReDropTails
  <2>2. Moves(p, "re_clear", todo[p], tails[p])
    BY <1>4, InHand DEF ReDropTails, Moves
  <2>3. QED BY <2>1, <2>2, HandsMove
<1>5. CASE ReClear(p)
  <2>1. CASE loaded[p] = None
    BY <1>5, <2>1, InHand, RequeueFollows, AfterReembedKeeps DEF ReClear
  <2>2. CASE loaded[p] # None
    <3>1. Sound(ForgetTails(db)) /\ Quiet(db, ForgetTails(db))
      BY InHand, ForgetTailsIsSound
    <3>2. Sound(db') /\ Quiet(ForgetTails(db), db')
      BY <1>5, <2>2, <3>1, InHand, EnsureIsSound DEF ReClear
    <3>3. Follows(db, db')
      BY <3>1, <3>2, QuietAddsUp, QuietFollows
    <3>4. Moves(p, "re_chunk", todo[p], tails[p])
      BY <1>5, <2>2, InHand DEF ReClear, Moves
    <3>5. QED BY <3>3, <3>4, HandsMove
  <2>3. QED BY <2>1, <2>2
<1>6. CASE ReChunk(p)
  <2> DEFINE chunk == First(Chunk, todo[p])
             rebuilt == Rebuilt(db, chunk, loaded[p])
  <2>1. /\ chunk \in SUBSET Admitted(db) /\ rebuilt \subseteq Admitted(db)
        /\ loaded[p] \in Model /\ loaded[p] # None
    BY <1>6, InHand, ConstantsTyped DEF First, Rebuilt, ReChunk
  <2>2. CASE Finish(p) /\ UNCHANGED db
    BY <1>6, <2>2, InHand, FinishKeeps DEF ReChunk
  <2>3. CASE /\ db' = WriteChunk(db, chunk, loaded[p])
             /\ todo' = [todo EXCEPT ![p] = @ \ chunk]
             /\ tails' = [tails EXCEPT ![p] = rebuilt]
             /\ Goto(p, "re_spans")
    <3> HIDE DEF chunk, rebuilt
    <3>1. Follows(db, db')
      BY <2>1, <2>3, InHand, WriteChunkFollows
    <3>2. todo' = [todo EXCEPT ![p] = todo[p] \ chunk]
      BY <2>3, InHand DEF QueueInv, HandsAreTyped
    <3>3. Moves(p, "re_spans", todo[p] \ chunk, rebuilt)
      BY <1>6, <2>1, <2>3, <3>2, InHand DEF ReChunk, Moves
    <3>4. QED BY <3>1, <3>3, HandsMove
  <2>4. QED BY <1>6, <2>2, <2>3 DEF ReChunk
<1>7. CASE ReSpans(p)
  <2>1. /\ loaded[p] \in Model /\ loaded[p] # None
        /\ \A ms \in Prepared(p) : ms \in SUBSET Mem
    BY <1>7, InHand, ConstantsTyped DEF ReSpans, Prepared
  <2>2. Follows(db, db')
    BY <1>7, <2>1, InHand, PersistIsSound, QuietFollows DEF ReSpans
  <2>3. Moves(p, "re_chunk", todo[p], {})
    BY <1>7, <2>1, InHand DEF ReSpans, Moves
  <2>4. QED BY <2>2, <2>3, HandsMove
<1>8. CASE ReFinish(p)
  <2>1. loaded[p] \in Model
    BY <1>8, InHand DEF ReFinish
  <2>2. Follows(db, db')
    BY <1>8, <2>1, InHand, StampIsSound, QuietFollows DEF ReFinish
  <2>3. QED BY <1>8, <2>2, AfterReembedKeeps DEF ReFinish
<1>9. QED BY <1>1, <1>2, <1>3, <1>4, <1>5, <1>6, <1>7, <1>8

\* process_embedding_jobs and observe's own write, step by step.
LEMMA DrainKeeps ==
    ASSUME QueueInv, NEW p \in Proc,
           Select(p) \/ Ensure(p) \/ EnsureTails(p) \/ Heads(p) \/ Spans(p) \/ Insert(p)
    PROVE  Keeps
<1> USE DEF Goto, Label, EmptyHanded, UsesModel
<1>1. CASE Select(p)
  <2>1. Follows(db, db') /\ loaded' = loaded /\ todo[p] = {} /\ tails[p] = {}
    BY <1>1, InHand DEF Select
  <2>2. CASE AfterBatch(p, {}) /\ UNCHANGED todo
    BY <1>1, <2>1, <2>2, InHand, AfterBatchKeeps DEF Select
  <2>3. CASE /\ loaded[p] # None /\ pc' = [pc EXCEPT ![p] = "ensure"]
             /\ todo' = [todo EXCEPT ![p] = BatchOf(p)]
    <3>1. BatchOf(p) \subseteq Admitted(db)
      BY InHand DEF BatchOf, First, Drainable, Sound, Born, Admitted
    <3>2. Moves(p, "ensure", BatchOf(p), {})
      BY <1>1, <2>1, <2>3, <3>1, InHand DEF Select, Moves
    <3>3. QED BY <2>1, <3>2, HandsMove
  <2>4. QED BY <1>1, <2>2, <2>3 DEF Select
<1>2. CASE Ensure(p)
  <2>1. loaded[p] \in Model /\ loaded[p] # None
    BY <1>2, InHand, ConstantsTyped DEF Ensure
  <2>2. Follows(db, db')
    <3>1. Sound(DropHeads(db)) /\ Quiet(db, DropHeads(db))
      BY InHand, DropHeadsIsSound
    <3>2. Sound(CreateHeads(db, Dim[loaded[p]])) /\ Quiet(db, CreateHeads(db, Dim[loaded[p]]))
      BY <2>1, InHand, CreateHeadsIsSound
    <3>3. QED BY <1>2, <3>1, <3>2, QuietFollows DEF Ensure
  <2>3. Moves(p, "ensure_tails", todo[p], tails[p]) \/ Moves(p, "heads", todo[p], tails[p])
    BY <1>2, <2>1, InHand DEF Ensure, Moves
  <2>4. QED BY <2>2, <2>3, HandsMove
<1>3. CASE EnsureTails(p)
  <2>1. loaded[p] # None
    BY <1>3, InHand, ConstantsTyped DEF EnsureTails
  <2>2. Follows(db, db')
    BY <1>3, InHand, DropTailsIsSound, QuietFollows DEF EnsureTails
  <2>3. Moves(p, "heads_anew", todo[p], tails[p])
    BY <1>3, <2>1, InHand DEF EnsureTails, Moves
  <2>4. QED BY <2>2, <2>3, HandsMove
<1>4. CASE Heads(p)
  <2>1. loaded[p] \in Model /\ loaded[p] # None
    BY <1>4, InHand, ConstantsTyped DEF Heads
  <2>2. PICK failed \in Failures(todo[p]) :
           LET d == WriteHeads(Found(p), todo[p], failed, loaded[p]) IN
           /\ db' = d
           /\ tails' = [tails EXCEPT ![p] =
                           IF d.vecDim = Dim[loaded[p]] THEN todo[p] \ failed ELSE {}]
    BY <1>4 DEF Heads
  <2>3. failed \in SUBSET todo[p]
    BY DEF Failures
  <2>4. Sound(Found(p)) /\ Quiet(db, Found(p))
    <3>1. CASE pc[p] = "heads_anew"
      <4>1. Sound(ForgetTails(db)) /\ Quiet(db, ForgetTails(db))
        BY InHand, ForgetTailsIsSound
      <4>2. Sound(Found(p)) /\ Quiet(ForgetTails(db), Found(p))
        BY <2>1, <3>1, <4>1, CreateHeadsIsSound DEF Found
      <4>3. QED BY <4>1, <4>2, QuietAddsUp
    <3>2. CASE pc[p] # "heads_anew"
      BY <3>2, InHand DEF Found, Quiet
    <3>3. QED BY <3>1, <3>2
  <2>5. Admitted(Found(p)) = Admitted(db)
    BY <2>4 DEF Quiet, Admitted
  <2>6. Follows(Found(p), db') /\ db'.live = Found(p).live
    BY <2>1, <2>2, <2>3, <2>4, <2>5, InHand, WriteHeadsFollows
  <2>7. Follows(db, db')
    BY <2>4, <2>6, QuietFollows DEF Quiet
  <2>8. PICK u \in SUBSET todo[p] : tails' = [tails EXCEPT ![p] = u]
    BY <2>2
  <2>9. Moves(p, "spans", todo[p], u)
    BY <1>4, <2>1, <2>8, InHand DEF Heads, Moves
  <2>10. QED BY <2>7, <2>9, HandsMove
<1>5. CASE Spans(p)
  <2>1. /\ loaded[p] \in Model
        /\ \A ms \in Prepared(p) : ms \in SUBSET Mem
    BY <1>5, InHand DEF Spans, Prepared
  <2>2. Follows(db, db')
    BY <1>5, <2>1, InHand, PersistIsSound, QuietFollows DEF Spans
  <2>3. QED BY <1>5, <2>2, AfterBatchKeeps DEF Spans
<1>6. CASE Insert(p)
  <2>1. CASE UNCHANGED db
    BY <1>6, <2>1, InHand, FinishKeeps DEF Insert
  <2>2. ASSUME NEW m \in NextMem, NEW k \in Kinds,
               db' = InsertRow(db, m, k, loaded[p], loaded[p] # None)
        PROVE  Follows(db, db')
    <3>1. Sound(db) /\ m \in Mem \ Born(db) /\ (loaded[p] # None => loaded[p] \in Model)
      BY InHand DEF NextMem
    <3>2. QED BY <2>2, <3>1, InsertFollows
  <2>3. QED BY <1>6, <2>1, <2>2, FinishKeeps DEF Insert
<1>7. QED BY <1>1, <1>2, <1>3, <1>4, <1>5, <1>6

\* Nothing a caller, a drain, a rebuild, a purge or a crash does breaks the
\* invariant, takes a job without its vector or leaves a named tail behind.
LEMMA StepsKeep == QueueInv /\ [Next]_vars => QueueInv' /\ JobsLeave(db, db') /\ TailsGo(db, db')
<1>1. SUFFICES ASSUME QueueInv, [Next]_vars PROVE Keeps
  BY DEF Keeps, Follows, QueueInv
<1>2. CASE UNCHANGED vars
  <2>1. Follows(db, db')
    BY <1>1, <1>2, QuietFollows DEF vars, QueueInv, Quiet
  <2>2. QED BY <1>1, <1>2, <2>1, HandsStay DEF vars, Keeps, Follows
<1>3. CASE ObserveDeferred
  BY <1>1, <1>3, ObserveDeferredKeeps
<1>4. ASSUME NEW m \in Mem, Purge(m) PROVE Keeps
  BY <1>1, <1>4, PurgeKeeps
<1>5. ASSUME NEW p \in Proc, Contradict(p) PROVE Keeps
  BY <1>1, <1>5, ContradictKeeps
<1>6. ASSUME NEW p \in Proc, Crash(p) PROVE Keeps
  <2>1. Follows(db, db') /\ loaded' = loaded
    BY <1>1, <1>6, InHand DEF Crash
  <2>2. QED BY <1>1, <1>6, <2>1, FinishKeeps DEF Crash
<1>7. ASSUME NEW p \in Proc, Begin(p) PROVE Keeps
  BY <1>1, <1>7, StartKeeps DEF Begin
<1>8. ASSUME NEW p \in Proc, Step(p) PROVE Keeps
  BY <1>1, <1>8, ReembedKeeps, DrainKeeps DEF Step
<1>9. QED BY <1>1, <1>2, <1>3, <1>4, <1>5, <1>6, <1>7, <1>8 DEF Next

-----------------------------------------------------------------------------
(* The theorems.                                                            *)

\* The index and the queue of a namespace between any two steps of its
\* processes.
THEOREM QueueInvariant == Spec => []QueueInv
<1>1. Init => QueueInv
  <2>1. SUFFICES ASSUME Init PROVE QueueInv
    OBVIOUS
  <2>2. db \in Tables
    BY <2>1 DEF Init, EmptyDb, Tables, Vector, Dims
  <2>3. db.live = {} /\ \A m \in Mem : /\ db.spanRow[m] = None /\ db.blob[m] = None
                                       /\ db.vec[m] = None /\ db.job[m] = NoJob
    BY <2>1 DEF Init, EmptyDb
  <2>4. Sound(db)
    BY <2>2, <2>3 DEF Sound, OnlyAdmitted
  <2>5. HandsAreTyped
    BY <2>1 DEF Init, HandsAreTyped, Label, EmptyHanded, UsesModel
  <2>6. QED BY <2>4, <2>5 DEF QueueInv
<1>2. QueueInv /\ [Next]_vars => QueueInv'
  BY StepsKeep
<1>3. QED BY <1>1, <1>2, PTL DEF Spec

\* Rows, queue and index agree: no span row of a purged memory, text the
\* capture policy lets in has a vector or a job, text it keeps out has neither.
THEOREM IndexStaysWithRows == Spec => []IndexFollowsRows
<1>1. QueueInv => IndexFollowsRows
  <2>1. SUFFICES ASSUME QueueInv PROVE IndexFollowsRows
    OBVIOUS
  <2>2. TypeOK
    <3>1. /\ db.live \subseteq Mem
          /\ db.kind \in [Mem -> Kinds \cup {None}]
          /\ db.job \in [Mem -> Nat \cup {NoJob}]
          /\ {db.blob, db.vec, db.spanRow, db.spanVec} \subseteq [Mem -> Vector]
          /\ {db.vecDim, db.spanDim, db.metaDim} \subseteq {Dim[x] : x \in Model} \cup {0}
          /\ db.metaModel \in Vector
      BY <2>1 DEF QueueInv, Sound, Tables, Dims
    <3>2. Admitted(db) \subseteq Born(db)
      BY DEF Admitted, Born
    <3>3. \A p \in Proc :
            /\ pc[p] = "idle" => todo[p] = {} /\ tails[p] = {}
            /\ todo[p] \cup tails[p] \subseteq Born(db)
            /\ pc[p] \notin {"idle", "check", "re_select", "re_drop", "re_drop_tails", "re_clear",
                             "select", "insert"} => loaded[p] # None
      BY <2>1, <3>2 DEF QueueInv, HandsAreTyped, Label, EmptyHanded, UsesModel
    <3>4. QED BY <2>1, <3>1, <3>3 DEF TypeOK, QueueInv, HandsAreTyped
  <2>3. NoOrphanSpan /\ EmbeddedOrQueued
    BY <2>1 DEF QueueInv, Sound, NoOrphanSpan, EmbeddedOrQueued
  <2>4. ExcludedStaysOut
    BY <2>1 DEF QueueInv, Sound, OnlyAdmitted, Admitted, ExcludedStaysOut
  <2>5. QED BY <2>2, <2>3, <2>4 DEF IndexFollowsRows
<1>2. QED BY <1>1, QueueInvariant, PTL

\* Neither a drain nor a rebuild takes a row off the queue without leaving the
\* vector it stood for.
THEOREM JobsLeaveForVectors == Spec => JobsLeaveWithAVector
<1>1. QueueInv /\ [Next]_vars =>
        [\A m \in Mem : (db.job[m] # NoJob /\ db'.job[m] = NoJob)
          => (m \in db'.live => db'.vec[m] # None /\ db'.blob[m] # None)]_vars
  BY StepsKeep DEF JobsLeave
<1>2. QED BY <1>1, QueueInvariant, PTL DEF Spec, JobsLeaveWithAVector

\* A purge takes every tail vector that a row of the memory still names.
THEOREM PurgeTakesTails == Spec => PurgeTakesTheTail
<1>1. QueueInv /\ [Next]_vars =>
        [\A m \in db.live \ db'.live : db.spanRow[m] # None => db'.spanVec[m] = None]_vars
  BY StepsKeep DEF TailsGo
<1>2. QED BY <1>1, QueueInvariant, PTL DEF Spec, PurgeTakesTheTail

-----------------------------------------------------------------------------
(* The tail windows of a text, for every window size, overlap and cap.      *)

\* The least and the greatest of two numbers.
LEMMA OfTwo ==
    ASSUME NEW a \in Int, NEW b \in Int
    PROVE  /\ Min({a, b}) = IF a <= b THEN a ELSE b
           /\ Max({a, b}) = IF a <= b THEN b ELSE a
<1>1. Min({a, b}) = IF a <= b THEN a ELSE b
  <2> DEFINE P(x) == x \in {a, b} /\ \A y \in {a, b} : x =< y
  <2>1. P(IF a <= b THEN a ELSE b)
    OBVIOUS
  <2>2. \A x, y : P(x) /\ P(y) => x = y
    OBVIOUS
  <2>3. Min({a, b}) = CHOOSE x : P(x)
    BY DEF Min
  <2> HIDE DEF P
  <2>4. QED BY <2>1, <2>2, <2>3
<1>2. Max({a, b}) = IF a <= b THEN b ELSE a
  <2> DEFINE P(x) == x \in {a, b} /\ \A y \in {a, b} : x >= y
  <2>1. P(IF a <= b THEN b ELSE a)
    OBVIOUS
  <2>2. \A x, y : P(x) /\ P(y) => x = y
    OBVIOUS
  <2>3. Max({a, b}) = CHOOSE x : P(x)
    BY DEF Max
  <2> HIDE DEF P
  <2>4. QED BY <2>1, <2>2, <2>3
<1>3. QED BY <1>1, <1>2

\* The lesser of two numbers is one, and so is what is no less than one.
LEMMA OneOfTwo ==
    /\ \A a \in Nat, b \in Nat : Min({a, b}) \in Nat
    /\ \A a \in Nat, b \in Int : Max({a, b}) \in Nat
<1>1. ASSUME NEW a \in Nat, NEW b \in Nat PROVE Min({a, b}) \in Nat
  <2>1. Min({a, b}) = IF a <= b THEN a ELSE b
    BY OfTwo
  <2>2. QED BY <2>1
<1>2. ASSUME NEW a \in Nat, NEW b \in Int PROVE Max({a, b}) \in Nat
  <2>1. Max({a, b}) = IF a <= b THEN b ELSE a
    BY OfTwo
  <2>2. QED BY <2>1
<1>3. QED BY <1>1, <1>2

\* A set of numbers has a least one.
LEMMA LeastOne ==
    ASSUME NEW T, T \subseteq Nat, T # {}
    PROVE  \E x \in T : \A y \in T : x <= y
<1>1. IsWellFoundedOn(OpToRel(<, Nat), Nat)
  BY NatLessThanWellFounded, Zenon
<1>2. PICK x \in T : \A y \in T : ~(<<y, x>> \in OpToRel(<, Nat))
  BY <1>1, WFMin, Zenon
<1>3. \A y \in T : ~(y < x)
  BY <1>2 DEF OpToRel
<1>4. QED BY <1>3

\* Windows advance, and share at least twice the drift and at most half.
LEMMA StrideAdvances ==
    /\ Window \in Nat /\ Window >= 1 /\ Drift \in Nat /\ Sliver \in Nat /\ Sliver >= 1
    /\ MaxSpans \in Nat /\ MaxSpans >= 1 /\ Sliver + 2 * Drift <= Window + 1
    /\ Stride \in Nat /\ Stride >= 1 /\ Stride + 2 * Drift <= Window
<1>1. /\ Window \in Nat /\ Window >= 1 /\ Drift \in Nat /\ Sliver \in Nat /\ Sliver >= 1
      /\ MaxSpans \in Nat /\ MaxSpans >= 1 /\ Overlap \in Nat
      /\ 2 * Drift <= Back /\ Sliver + 2 * Drift <= Window + 1
  BY WindowConstants, DriftIsShared, SliverFitsWindow
<1>2. Window \div 2 \in Nat /\ 2 * (Window \div 2) <= Window
  BY <1>1
<1>3. Back \in Nat /\ 2 * Back <= Window
  <2>1. Back = IF Overlap <= Window \div 2 THEN Overlap ELSE Window \div 2
    BY <1>1, <1>2, OfTwo DEF Back
  <2>2. QED BY <1>1, <1>2, <2>1
<1>4. Window - Back \in Nat /\ Window - Back >= 1
  BY <1>1, <1>3
<1>5. Stride = Window - Back
  <2>1. Max({1, Window - Back}) = IF 1 <= Window - Back THEN Window - Back ELSE 1
    <3>1. 1 \in Int /\ Window - Back \in Int
      BY <1>4
    <3>2. QED BY <3>1, OfTwo
  <2>2. QED BY <1>4, <2>1 DEF Stride
<1>6. QED BY <1>1, <1>3, <1>4, <1>5

\* Both measures of a window are positive, and no stride leaves anything out.
LEMMA MeasureStands ==
    ASSUME NEW g \in {Tokens, Characters}
    PROVE  /\ g.width \in Nat /\ g.stride \in Nat /\ g.sliver \in Nat
           /\ g.width >= 1 /\ g.stride >= 1 /\ g.sliver >= 1
           /\ g.stride <= g.width
<1>1. CASE g = Tokens
  <2>1. g.width = Window /\ g.stride = Stride /\ g.sliver = Sliver
    BY <1>1 DEF Tokens
  <2>2. QED BY <2>1, StrideAdvances
<1>2. CASE g = Characters
  <2>1. /\ g.width = CharsPerToken * Window /\ g.stride = CharsPerToken * Stride
        /\ g.sliver = CharsPerToken * Sliver
    BY <1>2 DEF Characters
  <2>2. CharsPerToken \in Nat /\ CharsPerToken >= 1
    BY WindowConstants
  <2>3. ASSUME NEW k \in Nat, k >= 1 PROVE CharsPerToken * k \in Nat /\ CharsPerToken * k >= 1
    <3>1. PICK d \in Nat : CharsPerToken = 1 + d
      <4>1. CharsPerToken - 1 \in Nat /\ CharsPerToken = 1 + (CharsPerToken - 1)
        BY <2>2
      <4>2. QED BY <4>1
    <3>2. CharsPerToken * k = k + d * k /\ d * k \in Nat
      BY <3>1
    <3>3. QED BY <2>3, <3>2
  <2>4. CharsPerToken * Stride <= CharsPerToken * Window
    <3>1. PICK d \in Nat : Window = Stride + d
      <4>1. Window - Stride \in Nat /\ Window = Stride + (Window - Stride)
        BY StrideAdvances
      <4>2. QED BY <4>1
    <3>2. CharsPerToken * Window = CharsPerToken * Stride + CharsPerToken * d
      BY <2>2, <3>1, StrideAdvances
    <3>3. CharsPerToken * d \in Nat /\ CharsPerToken * Stride \in Nat
      BY <2>2, <3>1, StrideAdvances
    <3>4. QED BY <3>2, <3>3
  <2>5. QED BY <2>1, <2>3, <2>4, StrideAdvances
<1>3. QED BY <1>1, <1>2

\* Where a tokenizer tells where they are, windows are cut in tokens.
LEMMA TokenMeasure == /\ Tokens \in {Tokens, Characters}
                      /\ Tokens.width = Window /\ Tokens.stride = Stride /\ Tokens.sliver = Sliver
BY DEF Tokens

\* Where regular windows stand.
LEMMA RegularStands ==
    ASSUME NEW g \in {Tokens, Characters}, NEW n \in Nat, NEW i \in Nat
    PROVE  /\ i * g.stride \in Nat /\ i <= i * g.stride /\ (i + 1) * g.stride = i * g.stride + g.stride
           /\ Regular(g, n, i).lo = i * g.stride
           /\ Regular(g, n, i).hi = IF n <= i * g.stride + g.width THEN n ELSE i * g.stride + g.width
           /\ Regular(g, n, i).hi \in Nat
<1>1. /\ i * g.stride \in Nat /\ (i + 1) * g.stride = i * g.stride + g.stride
  <2>1. PICK s \in Nat : s = g.stride
    BY MeasureStands
  <2>2. i * s \in Nat /\ (i + 1) * s = i * s + s
    OBVIOUS
  <2>3. QED BY <2>1, <2>2
<1>2. i <= i * g.stride
  <2>1. PICK d \in Nat : g.stride = 1 + d
    <3>1. g.stride - 1 \in Nat /\ g.stride = 1 + (g.stride - 1)
      BY StrideAdvances, MeasureStands
    <3>2. QED BY <3>1
  <2>2. i * g.stride = i + i * d /\ i * d \in Nat
    BY <2>1
  <2>3. QED BY <2>2
<1>3. Regular(g, n, i).lo = i * g.stride /\ Regular(g, n, i).hi = Min({n, i * g.stride + g.width})
  BY DEF Regular
<1>4. i * g.stride + g.width \in Nat
  BY <1>1, StrideAdvances, MeasureStands
<1>5. Min({n, i * g.stride + g.width}) = IF n <= i * g.stride + g.width THEN n ELSE i * g.stride + g.width
  BY <1>4, OfTwo
<1>6. QED BY <1>1, <1>2, <1>3, <1>4, <1>5

\* The loop ends, at the cap or at the first window that leaves at most a sliver.
LEMMA LoopEnds ==
    ASSUME NEW g \in {Tokens, Characters}, NEW n \in Nat, n > g.width, MaxSpans > 1,
           NEW l, l = LastRegular(g, n)
    PROVE  /\ l \in 1..n /\ l <= MaxSpans - 1
           /\ l = MaxSpans - 1 \/ n - Regular(g, n, l).hi < g.sliver
           /\ \A j \in 1..(l - 1) : Regular(g, n, j).hi = j * g.stride + g.width
           /\ \A j \in 1..l : j * g.stride < n
<1> DEFINE Ends(i) == i = MaxSpans - 1 \/ n - Regular(g, n, i).hi < g.sliver
           T == {i \in Nat : i \in 1..n /\ Ends(i)}
<1>1. n \in 1..n /\ MaxSpans - 1 \in Nat /\ MaxSpans - 1 >= 1
  BY StrideAdvances, MeasureStands
<1>2. n \in T
  <2>1. /\ n <= n * g.stride /\ n * g.stride \in Nat
        /\ Regular(g, n, n).hi = IF n <= n * g.stride + g.width THEN n ELSE n * g.stride + g.width
    BY RegularStands
  <2>2. QED BY <1>1, <2>1, StrideAdvances, MeasureStands
<1>3. PICK i \in T : \A y \in T : i <= y
  <2>1. T \subseteq Nat /\ T # {}
    BY <1>2
  <2>2. QED BY <2>1, LeastOne
<1>4. i \in 1..n /\ Ends(i) /\ \A j \in 1..(i - 1) : ~Ends(j)
  <2> SUFFICES ASSUME NEW j \in 1..(i - 1), Ends(j) PROVE FALSE
    BY <1>3
  <2>1. j \in T /\ ~(i <= j)
    BY <1>1, <1>3
  <2>2. QED BY <1>3, <2>1
<1>5. \A j \in 1..n : n - Regular(g, n, j).hi \in Int
  <2> SUFFICES ASSUME NEW j \in 1..n PROVE n - Regular(g, n, j).hi \in Int
    OBVIOUS
  <2>1. j \in Nat /\ Regular(g, n, j).hi \in Nat
    <3>1. j \in Nat
      OBVIOUS
    <3>2. QED BY <3>1, RegularStands
  <2>2. QED BY <2>1
<1>6. l = CHOOSE x \in 1..n : /\ x = MaxSpans - 1 \/ n - Regular(g, n, x).hi < g.sliver
                              /\ \A j \in 1..x - 1 : j # MaxSpans - 1 /\ n - Regular(g, n, j).hi >= g.sliver
  BY DEF LastRegular
<1>7. /\ i = MaxSpans - 1 \/ n - Regular(g, n, i).hi < g.sliver
      /\ \A j \in 1..i - 1 : j # MaxSpans - 1 /\ n - Regular(g, n, j).hi >= g.sliver
  <2>1. \A j \in 1..(i - 1) : j \in 1..n
    BY <1>4
  <2>2. QED BY <1>4, <1>5, <2>1, StrideAdvances, MeasureStands
<1>8. /\ l \in 1..n
      /\ l = MaxSpans - 1 \/ n - Regular(g, n, l).hi < g.sliver
      /\ \A j \in 1..l - 1 : j # MaxSpans - 1 /\ n - Regular(g, n, j).hi >= g.sliver
  BY <1>4, <1>6, <1>7
<1>9. l <= MaxSpans - 1
  BY <1>1, <1>8
<1>10. \A j \in 1..(l - 1) : Regular(g, n, j).hi = j * g.stride + g.width /\ j * g.stride + g.width < n
  <2> SUFFICES ASSUME NEW j \in 1..(l - 1)
               PROVE  Regular(g, n, j).hi = j * g.stride + g.width /\ j * g.stride + g.width < n
    OBVIOUS
  <2>1. j \in Nat /\ n - Regular(g, n, j).hi >= g.sliver
    BY <1>8
  <2>2. /\ Regular(g, n, j).hi = IF n <= j * g.stride + g.width THEN n ELSE j * g.stride + g.width
        /\ j * g.stride \in Nat
    BY <2>1, RegularStands
  <2>3. QED BY <2>1, <2>2, StrideAdvances, MeasureStands
<1>11. ASSUME NEW j \in 1..l PROVE j * g.stride < n
  <2>1. CASE j = 1
    BY <2>1, StrideAdvances, MeasureStands
  <2>2. CASE j # 1
    <3>1. j - 1 \in 1..(l - 1) /\ j - 1 \in Nat /\ (j - 1) + 1 = j
      BY <1>8, <2>2
    <3>2. (j - 1) * g.stride + g.width < n
      BY <1>10, <3>1
    <3>3. ((j - 1) + 1) * g.stride = (j - 1) * g.stride + g.stride /\ (j - 1) * g.stride \in Nat
      BY <3>1, RegularStands
    <3>4. QED BY <3>1, <3>2, <3>3, StrideAdvances, MeasureStands
  <2>3. QED BY <2>1, <2>2
<1>12. QED BY <1>8, <1>9, <1>10, <1>11

\* The windows of a text longer than the embedder's: regular ones, each as
\* far after the last as the stride, and perhaps one more that ends with it.
LEMMA WindowsStand ==
    ASSUME NEW g \in {Tokens, Characters}, NEW n \in Nat, n > g.width, MaxSpans > 1,
           NEW l, l = LastRegular(g, n),
           NEW w, w = Windows(g, n)
    PROVE  /\ Len(w) \in {l, l + 1} /\ Len(w) <= MaxSpans - 1
           /\ w # <<>> /\ DOMAIN w = 1..Len(w)
           /\ \A i \in 1..l : w[i] = Regular(g, n, i)
           /\ Len(w) = l + 1 => /\ Regular(g, n, l).hi < n /\ n - Regular(g, n, l).hi < g.sliver
                                /\ w[l + 1] = [lo |-> n - g.width, hi |-> n]
           /\ Len(w) = l => l = MaxSpans - 1 \/ Regular(g, n, l).hi = n
<1>1. /\ l \in 1..n /\ l <= MaxSpans - 1
      /\ l = MaxSpans - 1 \/ n - Regular(g, n, l).hi < g.sliver
  BY LoopEnds
<1>2. Regular(g, n, l).hi \in Nat /\ Regular(g, n, l).hi <= n
  <2>1. l \in Nat
    BY <1>1
  <2>2. /\ Regular(g, n, l).hi \in Nat
        /\ Regular(g, n, l).hi = IF n <= l * g.stride + g.width THEN n ELSE l * g.stride + g.width
        /\ l * g.stride \in Nat
    BY <2>1, RegularStands
  <2>3. QED BY <2>2, StrideAdvances, MeasureStands
<1> DEFINE V == [lo : Int, hi : Int]
           r == [i \in 1..l |-> Regular(g, n, i)]
<1>3. r \in Seq(V) /\ Len(r) = l /\ \A i \in 1..l : r[i] = Regular(g, n, i)
  <2>1. ASSUME NEW i \in 1..l PROVE Regular(g, n, i) \in V
    <3>1. i \in Nat
      BY <1>1
    <3>2. Regular(g, n, i).lo = i * g.stride /\ i * g.stride \in Nat /\ Regular(g, n, i).hi \in Nat
      BY <3>1, RegularStands
    <3>3. QED BY <3>2 DEF Regular
  <2>2. r \in [1..l -> V] /\ \A i \in 1..l : r[i] = Regular(g, n, i)
    BY <2>1
  <2>3. l \in Nat
    BY <1>1
  <2> HIDE DEF r, V
  <2>4. r \in Seq(V) /\ Len(r) = l
    BY <2>2, <2>3
  <2>5. QED BY <2>2, <2>4
<1>4. w = r \o Anchored(g, n)
  <2>1. ~(n <= g.width \/ MaxSpans = 1)
    BY StrideAdvances, MeasureStands
  <2>2. QED BY <2>1 DEF Windows
<1> HIDE DEF r
<1>5. CASE Regular(g, n, l).hi < n /\ l < MaxSpans - 1
  <2>1. Max({0, n - g.width}) = n - g.width
    <3>1. n - g.width \in Int /\ 0 \in Int /\ 0 <= n - g.width
      BY StrideAdvances, MeasureStands
    <3>2. QED BY <3>1, OfTwo
  <2> DEFINE a == [lo |-> n - g.width, hi |-> n]
  <2>2. Anchored(g, n) = <<a>> /\ a \in V
    BY <1>5, <2>1, StrideAdvances, MeasureStands DEF Anchored
  <2> HIDE DEF a
  <2>3. <<a>> \in Seq(V) /\ Len(<<a>>) = 1 /\ <<a>>[1] = a
    BY <2>2
  <2>4. /\ w \in Seq(V) /\ Len(w) = l + 1
        /\ \A i \in 1..(l + 1) : w[i] = IF i <= l THEN r[i] ELSE <<a>>[i - l]
    BY <1>3, <1>4, <2>2, <2>3, ConcatProperties
  <2>5. w[l + 1] = a
    <3>1. l + 1 \in 1..(l + 1) /\ ~(l + 1 <= l) /\ (l + 1) - l = 1
      BY <1>1
    <3>2. QED BY <2>3, <2>4, <3>1
  <2>6. \A i \in 1..l : w[i] = Regular(g, n, i)
    BY <1>1, <1>3, <2>4
  <2>7. w # <<>> /\ DOMAIN w = 1..Len(w)
    BY <1>1, <2>4
  <2>8. QED BY <1>1, <1>5, <2>4, <2>5, <2>6, <2>7, StrideAdvances, MeasureStands DEF a
<1>6. CASE ~(Regular(g, n, l).hi < n /\ l < MaxSpans - 1)
  <2>1. Anchored(g, n) = <<>>
    BY <1>6 DEF Anchored
  <2>2. w = r
    BY <1>3, <1>4, <2>1, ConcatEmptySeq
  <2>3. w # <<>> /\ DOMAIN w = 1..Len(w)
    BY <1>1, <1>3, <2>2
  <2>4. l = MaxSpans - 1 \/ Regular(g, n, l).hi = n
    BY <1>1, <1>2, <1>6, StrideAdvances, MeasureStands
  <2>5. QED BY <1>1, <1>3, <2>2, <2>3, <2>4
<1>7. QED BY <1>5, <1>6

\* Where the windows a vector is computed from begin and end: the first
\* within the head's share, each before the last where the next one begins.
LEMMA WindowsMeet ==
    ASSUME NEW n \in Nat, n > Window, MaxSpans > 1, NEW w, w = Windows(Tokens, n)
    PROVE  /\ w # <<>> /\ Len(w) \in Nat /\ 1 <= Len(w) /\ Len(w) <= MaxSpans - 1
           /\ \A i \in 1..Len(w) : w[i] \in [lo : Nat, hi : Nat]
           /\ \A i \in 1..Len(w) : /\ w[i].lo \in Nat /\ w[i].hi \in Nat
                                   /\ w[i].lo < w[i].hi /\ w[i].hi <= n /\ w[i].hi <= w[i].lo + Window
                                   /\ Window <= w[i].hi
           /\ w[1].lo + 2 * Drift <= Window
           /\ \A i \in 1..(Len(w) - 1) : /\ w[i].hi = w[i].lo + Window
                                         /\ w[i + 1].lo + 2 * Drift <= w[i].hi
                                         /\ w[i].hi <= w[Len(w)].hi
           /\ Len(w) = MaxSpans - 1 \/ w[Len(w)].hi = n
<1> DEFINE l == LastRegular(Tokens, n)
<1>1. /\ l \in 1..n /\ l <= MaxSpans - 1
      /\ l = MaxSpans - 1 \/ n - Regular(Tokens, n, l).hi < Sliver
      /\ \A j \in 1..(l - 1) : Regular(Tokens, n, j).hi = j * Stride + Window
      /\ \A j \in 1..l : j * Stride < n
  BY LoopEnds, TokenMeasure
<1>2. /\ Len(w) \in {l, l + 1} /\ Len(w) <= MaxSpans - 1 /\ w # <<>>
      /\ \A i \in 1..l : w[i] = Regular(Tokens, n, i)
      /\ Len(w) = l + 1 => /\ Regular(Tokens, n, l).hi < n /\ n - Regular(Tokens, n, l).hi < Sliver
                           /\ w[l + 1] = [lo |-> n - Window, hi |-> n]
      /\ Len(w) = l => l = MaxSpans - 1 \/ Regular(Tokens, n, l).hi = n
  BY WindowsStand, TokenMeasure
<1>3. l \in Nat /\ 1 <= l
  BY <1>1
<1> HIDE DEF l
<1>4. \A i \in 1..l : /\ i * Stride \in Nat /\ (i + 1) * Stride = i * Stride + Stride
                      /\ w[i].lo = i * Stride
                      /\ w[i].hi = IF n <= i * Stride + Window THEN n ELSE i * Stride + Window
  <2> SUFFICES ASSUME NEW i \in 1..l
               PROVE  /\ i * Stride \in Nat /\ (i + 1) * Stride = i * Stride + Stride
                      /\ w[i].lo = i * Stride
                      /\ w[i].hi = IF n <= i * Stride + Window THEN n ELSE i * Stride + Window
    OBVIOUS
  <2>1. i \in Nat /\ w[i] = Regular(Tokens, n, i)
    BY <1>2, <1>3
  <2>2. /\ i * Stride \in Nat /\ (i + 1) * Stride = i * Stride + Stride
        /\ Regular(Tokens, n, i).lo = i * Stride
        /\ Regular(Tokens, n, i).hi = IF n <= i * Stride + Window THEN n ELSE i * Stride + Window
    BY <2>1, RegularStands, TokenMeasure
  <2>3. QED BY <2>1, <2>2
<1>5. Len(w) = l + 1 => w[l + 1].lo = n - Window /\ w[l + 1].hi = n
  BY <1>2
<1>6. \A i \in 1..Len(w) : /\ w[i].lo \in Nat /\ w[i].hi \in Nat
                           /\ w[i].lo < w[i].hi /\ w[i].hi <= n /\ w[i].hi <= w[i].lo + Window
                           /\ Window <= w[i].hi
  <2> SUFFICES ASSUME NEW i \in 1..Len(w)
               PROVE  /\ w[i].lo \in Nat /\ w[i].hi \in Nat
                      /\ w[i].lo < w[i].hi /\ w[i].hi <= n /\ w[i].hi <= w[i].lo + Window
                      /\ Window <= w[i].hi
    OBVIOUS
  <2>1. CASE i \in 1..l
    <3>1. i * Stride < n
      BY <1>1, <2>1
    <3>2. PICK v \in Nat : v = i * Stride
      BY <1>4, <2>1
    <3>3. w[i].lo = v /\ w[i].hi = IF n <= v + Window THEN n ELSE v + Window
      BY <1>4, <2>1, <3>2
    <3>4. v < n /\ Window \in Nat /\ Window >= 1
      BY <3>1, <3>2, StrideAdvances
    <3>5. w[i].hi \in Nat
      BY <3>3, <3>4
    <3>6. QED BY <3>3, <3>4, <3>5
  <2>2. CASE i \notin 1..l
    <3>1. Len(w) = l + 1 /\ i = l + 1
      BY <1>2, <1>3, <2>2
    <3>2. QED BY <1>5, <3>1, StrideAdvances
  <2>3. QED BY <2>1, <2>2
<1>7. w[1].lo + 2 * Drift <= Window
  <2>1. 1 \in 1..l /\ 1 * Stride = Stride
    BY <1>3, StrideAdvances
  <2>2. QED BY <1>4, <2>1, StrideAdvances
<1>8. ASSUME NEW i \in 1..(Len(w) - 1)
      PROVE  /\ w[i].hi = w[i].lo + Window
             /\ w[i + 1].lo + 2 * Drift <= w[i].hi
             /\ w[i].hi <= w[Len(w)].hi
  <2>1. i \in 1..l /\ i \in 1..Len(w) /\ Len(w) \in 1..Len(w)
    BY <1>2, <1>3
  <2>2. CASE i < l
    <3>1. i \in 1..(l - 1) /\ i + 1 \in 1..l
      BY <1>3, <2>1, <2>2
    <3>2. w[i].hi = i * Stride + Window /\ w[i].lo = i * Stride /\ i * Stride \in Nat
      BY <1>1, <1>2, <1>4, <2>1, <3>1 DEF l
    <3>3. w[i + 1].lo = i * Stride + Stride
      BY <1>4, <2>1, <3>1
    <3>4. CASE w[Len(w)].hi = n
      BY <1>6, <2>1, <3>2, <3>3, <3>4, StrideAdvances
    <3>5. CASE w[Len(w)].hi # n
      <4>1. Len(w) = l
        BY <1>2, <1>5, <3>5
      <4>2. w[Len(w)].hi = l * Stride + Window /\ l * Stride \in Nat
        <5>1. l \in 1..l
          BY <1>3
        <5>2. w[l].hi = (IF n <= l * Stride + Window THEN n ELSE l * Stride + Window) /\ l * Stride \in Nat
          BY <1>4, <5>1
        <5>3. QED BY <3>5, <4>1, <5>2
      <4>3. PICK d \in Nat : l = i + d
        <5>1. l - i \in Nat /\ l = i + (l - i)
          BY <1>3, <2>1, <2>2
        <5>2. QED BY <5>1
      <4>4. l * Stride = i * Stride + d * Stride /\ d * Stride \in Nat
        BY <2>1, <4>3, StrideAdvances
      <4>5. PICK a \in Nat, b \in Nat : a = i * Stride /\ b = d * Stride
        BY <3>2, <4>4
      <4>6. /\ w[i].lo = a /\ w[i].hi = a + Window /\ w[i + 1].lo = a + Stride
            /\ w[Len(w)].hi = a + b + Window
        BY <3>2, <3>3, <4>2, <4>4, <4>5
      <4>7. QED BY <4>6, StrideAdvances
    <3>6. QED BY <3>4, <3>5
  <2>3. CASE ~(i < l)
    <3>1. i = l /\ Len(w) = l + 1
      BY <1>2, <1>3, <2>1, <2>3
    <3>2. w[l] = Regular(Tokens, n, l) /\ Regular(Tokens, n, l).hi < n /\ n - Regular(Tokens, n, l).hi < Sliver
      BY <1>2, <2>1, <3>1
    <3>3. w[l].hi \in Nat /\ w[l].hi < n /\ n - w[l].hi < Sliver
      BY <1>6, <2>1, <3>1, <3>2
    <3>4. w[l].hi = w[l].lo + Window
      BY <1>4, <2>1, <3>1, <3>3
    <3>5. QED BY <1>5, <3>1, <3>3, <3>4, StrideAdvances
  <2>4. QED BY <2>2, <2>3
<1>9. Len(w) = MaxSpans - 1 \/ w[Len(w)].hi = n
  <2>1. CASE Len(w) = l
    <3>1. w[l] = Regular(Tokens, n, l)
      BY <1>2, <1>3
    <3>2. QED BY <1>2, <2>1, <3>1
  <2>2. CASE Len(w) = l + 1
    BY <1>5, <2>2
  <2>3. QED BY <1>2, <2>1, <2>2
<1>10. Len(w) \in Nat /\ 1 <= Len(w)
  BY <1>2, <1>3
<1>11. ASSUME NEW i \in 1..Len(w) PROVE w[i] \in [lo : Nat, hi : Nat]
  <2>1. w[i].lo \in Nat /\ w[i].hi \in Nat
    BY <1>6
  <2>2. w[i] = [lo |-> w[i].lo, hi |-> w[i].hi]
    <3>1. CASE i \in 1..l
      <4>1. PICK a, b : Regular(Tokens, n, i) = [lo |-> a, hi |-> b]
        BY Zenon DEF Regular
      <4>2. w[i] = [lo |-> a, hi |-> b]
        BY <1>2, <3>1, <4>1
      <4>3. QED BY <4>2
    <3>2. CASE i \notin 1..l
      <4>1. Len(w) = l + 1 /\ i = l + 1
        BY <1>2, <1>3, <3>2
      <4>2. QED BY <1>2, <4>1
    <3>3. QED BY <3>1, <3>2
  <2>3. QED BY <2>1, <2>2
<1>12. QED BY <1>2, <1>6, <1>7, <1>8, <1>9, <1>10, <1>11

\* What vectors are computed from: all of their windows but the drift, of which
\* the last window loses the front.
SeenWhole(w, drift) ==
    /\ \A i \in 1..(Len(w) - 1) : TokensSeen(w[i], drift, FALSE) = (w[i].lo + 1)..(w[i].hi - drift)
    /\ \E lo \in Nat : /\ TokensSeen(w[Len(w)], drift, TRUE) = (lo + 1)..w[Len(w)].hi
                       /\ lo < w[Len(w)].hi
                       /\ w[Len(w)].lo <= lo /\ lo <= w[Len(w)].lo + drift

\* What the vectors of a text longer than a window are computed from.
LEMMA SeenStands ==
    ASSUME NEW n \in Nat, n > Window, MaxSpans > 1, NEW w, w = Windows(Tokens, n),
           NEW drift \in 0..Drift
    PROVE  SeenWhole(w, drift)
<1>1. /\ Len(w) \in Nat /\ 1 <= Len(w)
      /\ \A i \in 1..Len(w) : /\ w[i].lo \in Nat /\ w[i].hi \in Nat
                              /\ w[i].lo < w[i].hi /\ w[i].hi <= n /\ w[i].hi <= w[i].lo + Window
      /\ \A i \in 1..(Len(w) - 1) : w[i].hi = w[i].lo + Window
      /\ \A i \in 1..Len(w) : w[i] \in [lo : Nat, hi : Nat]
  BY WindowsMeet
<1>2. drift \in Nat /\ drift <= Drift
  BY StrideAdvances
<1>4. ASSUME NEW i \in 1..(Len(w) - 1)
      PROVE  TokensSeen(w[i], drift, FALSE) = (w[i].lo + 1)..(w[i].hi - drift)
  <2>1. i \in 1..Len(w) /\ i # 0 /\ i # Len(w)
    BY <1>1
  <2>2. w[i].hi \in Nat /\ w[i].lo \in Nat /\ w[i].hi = w[i].lo + Window
    BY <1>1, <2>1
  <2>3. PICK b \in Nat : b = w[i].hi
    BY <2>2
  <2>4. w[i].lo + Window - drift = b - drift /\ b - drift \in Int
    BY <1>2, <2>2, <2>3, StrideAdvances
  <2>5. Min({b, b - drift}) = IF b <= b - drift THEN b ELSE b - drift
    BY <2>4, OfTwo
  <2>6. Min({b, b - drift}) = b - drift
    BY <1>2, <2>4, <2>5
  <2>7. TokensSeen(w[i], drift, FALSE) = (w[i].lo + 1)..Min({w[i].hi, w[i].lo + Window - drift})
    BY <2>1 DEF TokensSeen
  <2>8. QED BY <2>3, <2>4, <2>6, <2>7
<1>5. \E lo \in Nat : /\ TokensSeen(w[Len(w)], drift, TRUE) = (lo + 1)..w[Len(w)].hi
                      /\ lo < w[Len(w)].hi
                      /\ w[Len(w)].lo <= lo /\ lo <= w[Len(w)].lo + drift
  <2> DEFINE z == w[Len(w)]
             a == Min({z.hi - 1, z.hi + drift - Window})
             lo == Max({z.lo, a})
  <2>1. /\ z.lo \in Nat /\ z.hi \in Nat /\ z.lo < z.hi /\ z.hi <= z.lo + Window
    BY <1>1
  <2>2. TokensSeen(w[Len(w)], drift, TRUE) = (lo + 1)..z.hi
    <3>2. TokensSeen(w[Len(w)], drift, TRUE) = (Fitted(z, drift).lo + 1)..Fitted(z, drift).hi
      BY DEF TokensSeen
    <3>3. z \in [lo : Nat, hi : Nat]
      BY <1>1
    <3>4. Fitted(z, drift) = [z EXCEPT !.lo = lo]
      BY DEF Fitted
    <3> HIDE DEF z, lo
    <3>5. Fitted(z, drift).lo = lo /\ Fitted(z, drift).hi = z.hi
      BY <3>3, <3>4
    <3>6. QED BY <3>2, <3>5
  <2> HIDE DEF z
  <2>3. a = IF z.hi - 1 <= z.hi + drift - Window THEN z.hi - 1 ELSE z.hi + drift - Window
    <3>1. z.hi - 1 \in Int /\ z.hi + drift - Window \in Int
      BY <1>2, <2>1, StrideAdvances
    <3>2. QED BY <3>1, OfTwo
  <2>4. a \in Int /\ a <= z.hi - 1 /\ a <= z.hi + drift - Window
    BY <1>2, <2>1, <2>3, StrideAdvances
  <2>5. lo = IF z.lo <= a THEN a ELSE z.lo
    <3>1. z.lo \in Int
      BY <2>1
    <3>2. QED BY <2>4, <3>1, OfTwo
  <2> HIDE DEF a, lo
  <2>6. lo \in Nat /\ lo < z.hi /\ z.lo <= lo /\ lo <= z.lo + drift
    BY <1>2, <2>1, <2>4, <2>5, StrideAdvances
  <2>7. QED BY <2>2, <2>6 DEF z
<1>6. QED BY <1>4, <1>5 DEF SeenWhole

\* The tails of a text are fewer than its vectors, whatever they are cut in.
LEMMA WindowsCounted ==
    ASSUME NEW t, t.len \in Nat \ {0}, t.chars \in Nat
    PROVE  Len(Planned(t)) \in 0 .. MaxSpans - 1
<1> DEFINE g == Measure(t)
           n == Length(t)
           l == LastRegular(g, n)
<1>1. g \in {Tokens, Characters}
  BY DEF Measure
<1>2. n \in Nat
  <2>1. t.len * t.chars \in Nat
    OBVIOUS
  <2>2. QED BY <2>1 DEF Length
<1>3. g.width \in Nat /\ Planned(t) = Windows(g, n)
  BY <1>1, MeasureStands DEF Planned
<1>4. MaxSpans \in Nat /\ MaxSpans >= 1
  BY WindowConstants
<1> HIDE DEF g, n
<1>5. CASE n <= g.width \/ MaxSpans = 1
  <2>1. Planned(t) = <<>>
    BY <1>3, <1>5 DEF Windows
  <2>2. Len(<<>>) = 0
    OBVIOUS
  <2>3. QED BY <1>4, <2>1, <2>2
<1>6. CASE n > g.width /\ MaxSpans > 1
  <2>1. l \in 1..n
    BY <1>1, <1>2, <1>6, LoopEnds
  <2>2. Len(Planned(t)) \in {l, l + 1} /\ Len(Planned(t)) <= MaxSpans - 1
    BY <1>1, <1>2, <1>3, <1>6, WindowsStand
  <2> HIDE DEF l
  <2>3. QED BY <1>2, <1>4, <2>1, <2>2
<1>7. QED BY <1>2, <1>3, <1>4, <1>5, <1>6

\* Where a tokenizer tells where a text's tokens are, every token is in what some
\* vector is computed from, up to where the windows were cut off, and the mark says
\* whether they were: for every length, window, overlap and cap, also when a window
\* grows as it is tokenized again.  No vector is computed from nothing, and there
\* are at most MaxSpans.  Of windows cut in characters it says nothing: for them
\* the model refutes LeavesNoGap.
THEOREM TailIsCovered ==
    ASSUME NEW t, t.chars = 0, t.len \in Nat \ {0}, t.drift \in 0..Drift
    PROVE  /\ Covered(t) \in 1..t.len
           /\ Covered(t) = t.len <=> ~Truncated(t)
           /\ Len(Planned(t)) <= MaxSpans - 1
           /\ UNION {Seen(t, i) : i \in Vectors(t)} = 1..Covered(t)
           /\ \A i \in Vectors(t) : Seen(t, i) # {}
<1> DEFINE n == t.len
           drift == t.drift
           w == Planned(t)
<1>a. /\ n \in Nat /\ n >= 1 /\ drift \in Nat /\ drift <= Drift /\ drift \in 0..Drift
  BY StrideAdvances
<1>b. /\ Length(t) = n /\ Measure(t).width = Window /\ w = Windows(Tokens, n)
      /\ Truncated(t) <=> IF w = <<>> THEN n > Window ELSE Last(w).hi < n
      /\ Covered(t) = CASE Len(w) < MaxSpans - 1 \/ ~Truncated(t) -> n
                         [] w = <<>> /\ Truncated(t) -> Window
                         [] OTHER -> Last(w).hi
  <2>1. Length(t) = n /\ Measure(t) = Tokens
    BY DEF Length, Measure
  <2>2. w = Windows(Tokens, n)
    BY <2>1 DEF Planned
  <2>3. Truncated(t) <=> IF w = <<>> THEN n > Window ELSE Last(w).hi < n
    BY <2>1, TokenMeasure DEF Truncated
  <2>4. Covered(t) = CASE Len(w) < MaxSpans - 1 \/ ~Truncated(t) -> n
                       [] w = <<>> /\ Truncated(t) -> Window
                       [] OTHER -> Last(w).hi
    BY <2>1, TokenMeasure DEF Covered
  <2>5. QED BY <2>1, <2>2, <2>3, <2>4, TokenMeasure
<1>c. /\ Seen(t, 0) = 1..Min({n, Window})
      /\ \A i \in Nat : i # 0 => Seen(t, i) = TokensSeen(w[i], drift, i = Len(w))
  BY DEF Seen
<1>d. Vectors(t) = 0..Len(w)
  BY DEF Vectors
<1>e. w = Windows(Tokens, n)
  BY <1>b
<1>f. ASSUME Len(w) # 0 PROVE Seen(t, Len(w)) = TokensSeen(w[Len(w)], drift, TRUE)
  <2>1. Seen(t, Len(w)) = TokensSeen(w[Len(w)], drift, Len(w) = Len(w))
    BY <1>f, Zenon DEF Seen
  <2>2. QED BY <2>1, Zenon DEF TokensSeen
<1> HIDE DEF n, drift, w
<1>1. CASE n <= Window \/ MaxSpans = 1
  <2>1. w = <<>> /\ Len(w) = 0
    <3>1. w = <<>>
      BY <1>1, <1>b, TokenMeasure DEF Windows
    <3>2. Len(<<>>) = 0
      OBVIOUS
    <3>3. QED BY <3>1, <3>2
  <2>2. Truncated(t) <=> n > Window
    BY <1>b, <2>1
  <2> DEFINE share == IF n <= Window THEN n ELSE Window
  <2>3. share \in 1..n
    BY <1>a, StrideAdvances
  <2>4. Covered(t) = share
    <3>1. CASE n <= Window
      <4>1. ~(n > Window)
        BY <1>a, <3>1, StrideAdvances
      <4>2. QED BY <1>a, <1>b, <2>1, <2>2, <3>1, <4>1
    <3>2. CASE ~(n <= Window)
      <4>1. n > Window /\ MaxSpans - 1 = 0
        BY <1>1, <1>a, <3>2, StrideAdvances
      <4>2. ~(0 < MaxSpans - 1) /\ Truncated(t)
        BY <2>2, <4>1
      <4>3. QED BY <1>b, <2>1, <3>2, <4>1, <4>2
    <3>3. QED BY <3>1, <3>2
  <2>5. Vectors(t) = {0}
    BY <1>d, <2>1
  <2>6. Seen(t, 0) = 1..share
    <3>1. n \in Int /\ Window \in Int
      BY <1>a, StrideAdvances
    <3>2. Min({n, Window}) = share
      BY <3>1, OfTwo
    <3>3. Seen(t, 0) = 1..Min({n, Window})
      BY <1>c
    <3>4. QED BY <3>2, <3>3
  <2>7. Covered(t) = n <=> ~Truncated(t)
    BY <1>a, <2>2, <2>4, StrideAdvances
  <2> HIDE DEF share
  <2>8. UNION {Seen(t, i) : i \in Vectors(t)} = 1..Covered(t)
    BY <2>4, <2>5, <2>6
  <2>9. Len(w) <= MaxSpans - 1
    BY <2>1, StrideAdvances
  <2>10. \A i \in Vectors(t) : Seen(t, i) # {}
    BY <2>3, <2>5, <2>6
  <2>11. QED BY <2>3, <2>4, <2>7, <2>8, <2>9, <2>10 DEF n, w
<1>2. CASE ~(n <= Window \/ MaxSpans = 1)
  <2>1. n > Window /\ MaxSpans > 1 /\ n \in Nat
    BY <1>2, <1>a, StrideAdvances
  <2> DEFINE last == w[Len(w)]
  <2>2. /\ w # <<>> /\ Len(w) \in Nat /\ 1 <= Len(w) /\ Len(w) <= MaxSpans - 1
        /\ \A i \in 1..Len(w) : /\ w[i].lo \in Nat /\ w[i].hi \in Nat
                                /\ w[i].lo < w[i].hi /\ w[i].hi <= n /\ w[i].hi <= w[i].lo + Window
                                /\ Window <= w[i].hi
        /\ w[1].lo + 2 * Drift <= Window
        /\ \A i \in 1..(Len(w) - 1) : /\ w[i].hi = w[i].lo + Window
                                      /\ w[i + 1].lo + 2 * Drift <= w[i].hi
                                      /\ w[i].hi <= w[Len(w)].hi
        /\ Len(w) = MaxSpans - 1 \/ w[Len(w)].hi = n
    BY <1>e, <2>1, WindowsMeet
  <2>0. SeenWhole(w, drift)
    <3>1. drift \in 0..Drift
      BY <1>a
    <3>2. QED BY <1>e, <2>1, <3>1, SeenStands
  <2>3. PICK lo \in Nat : /\ Seen(t, Len(w)) = (lo + 1)..last.hi
                          /\ lo < last.hi
                          /\ last.lo <= lo /\ lo <= last.lo + drift
    <3>1. Seen(t, Len(w)) = TokensSeen(w[Len(w)], drift, TRUE)
      <4>1. Len(w) # 0
        BY <2>2
      <4>2. QED BY <1>f, <4>1
    <3>2. QED BY <2>0, <3>1 DEF last, SeenWhole
  <2>4. /\ Seen(t, 0) = 1..Window
        /\ \A i \in 1..(Len(w) - 1) : Seen(t, i) = (w[i].lo + 1)..(w[i].hi - drift)
    <3>1. Min({n, Window}) = Window
      <4>1. n \in Int /\ Window \in Int
        BY <1>a, StrideAdvances
      <4>2. QED BY <2>1, <4>1, OfTwo
    <3>2. \A i \in 1..(Len(w) - 1) : Seen(t, i) = TokensSeen(w[i], drift, FALSE)
      <4> SUFFICES ASSUME NEW i \in 1..(Len(w) - 1)
                   PROVE  Seen(t, i) = TokensSeen(w[i], drift, FALSE)
        OBVIOUS
      <4>1. i \in Nat /\ i # 0 /\ i # Len(w)
        BY <2>2
      <4>2. QED BY <1>c, <4>1
    <3>3. \A i \in 1..(Len(w) - 1) :
             TokensSeen(w[i], drift, FALSE) = (w[i].lo + 1)..(w[i].hi - drift)
      BY <2>0 DEF SeenWhole
    <3>4. QED BY <1>c, <3>1, <3>2, <3>3
  <2>5. Vectors(t) = 0..Len(w)
    BY <1>d
  <2>6. Last(w) = last
    BY DEF Last
  <2>7. Truncated(t) <=> last.hi < n
    BY <1>b, <2>2, <2>6
  <2>8. last.hi \in 1..n /\ Window <= last.hi
    <3>1. Len(w) \in 1..Len(w)
      BY <2>2
    <3>2. /\ last.lo \in Nat /\ last.hi \in Nat /\ last.lo < last.hi
          /\ last.hi <= n /\ Window <= last.hi
      BY <2>2, <3>1
    <3>3. QED BY <3>2
  <2>9. Covered(t) = last.hi
    <3>1. CASE Len(w) < MaxSpans - 1 \/ ~Truncated(t)
      <4>1. last.hi = n
        BY <1>a, <2>2, <2>7, <2>8, <3>1, StrideAdvances DEF last
      <4>2. Covered(t) = n
        BY <1>b, <2>2, <3>1
      <4>3. QED BY <4>1, <4>2
    <3>2. CASE ~(Len(w) < MaxSpans - 1 \/ ~Truncated(t))
      BY <1>b, <2>2, <2>6, <3>2
    <3>3. QED BY <3>1, <3>2
  <2> HIDE DEF last
  <2>10. drift \in Nat /\ drift <= Drift
    BY <1>a
  <2>11. ASSUME NEW i \in 0..Len(w)
         PROVE  Seen(t, i) # {} /\ Seen(t, i) \subseteq 1..last.hi
    <3>1. CASE i = 0
      <4>1. Seen(t, i) = 1..Window
        BY <2>4, <3>1
      <4>2. 1 \in 1..Window /\ \A at \in 1..Window : at \in 1..last.hi
        BY <2>8, StrideAdvances
      <4>3. QED BY <4>1, <4>2
    <3>2. CASE i \in 1..(Len(w) - 1)
      <4>1. /\ w[i].lo \in Nat /\ w[i].hi \in Nat /\ w[i].hi = w[i].lo + Window
            /\ w[i].hi <= last.hi
        <5>1. i \in 1..Len(w)
          BY <2>2, <3>2
        <5>2. QED BY <2>2, <3>2, <5>1 DEF last
      <4>2. w[i].lo + 1 <= w[i].hi - drift /\ w[i].hi - drift \in Int
        <5>1. drift + 1 <= Window /\ Window \in Nat
          BY <2>10, StrideAdvances
        <5>2. PICK start \in Nat : start = w[i].lo /\ w[i].hi = start + Window
          BY <4>1
        <5>3. QED BY <2>10, <5>1, <5>2
      <4>3. w[i].lo + 1 \in Seen(t, i)
        BY <2>4, <3>2, <4>1, <4>2
      <4>4. Seen(t, i) \subseteq 1..last.hi
        <5> SUFFICES ASSUME NEW at \in Seen(t, i) PROVE at \in 1..last.hi
          OBVIOUS
        <5>1. at \in (w[i].lo + 1)..(w[i].hi - drift)
          BY <2>4, <3>2
        <5>2. at \in Int /\ w[i].lo + 1 <= at /\ at <= w[i].hi - drift
          BY <4>1, <4>2, <5>1
        <5>3. last.hi \in Nat
          BY <2>8
        <5>4. QED BY <2>10, <4>1, <5>2, <5>3
      <4>5. QED BY <4>3, <4>4
    <3>3. CASE i = Len(w)
      BY <2>3, <2>8, <3>3
    <3>4. QED BY <2>2, <3>1, <3>2, <3>3
  <2>12. ASSUME NEW at \in 1..last.hi
         PROVE  \E i \in 0..Len(w) : at \in Seen(t, i)
    <3>1. CASE at <= Window
      BY <2>2, <2>4, <3>1, StrideAdvances
    <3>2. CASE ~(at <= Window)
      <4> DEFINE End(i) == IF i = Len(w) THEN last.hi ELSE w[i].hi - drift
                 T == {i \in Nat : i \in 1..Len(w) /\ at <= End(i)}
      <4>1. Len(w) \in T
        BY <2>2, <2>8
      <4>2. PICK i \in T : \A j \in T : i <= j
        <5>1. T \subseteq Nat /\ T # {}
          BY <4>1
        <5>2. QED BY <5>1, LeastOne
      <4>3. i \in 1..Len(w) /\ at <= End(i)
        BY <4>2
      <4>4. w[i].lo \in Nat /\ w[i].hi \in Nat
        BY <2>2, <4>3
      <4>5. w[i].lo + Drift < at
        <5>1. CASE i = 1
          BY <2>2, <3>2, <4>4, <5>1, StrideAdvances
        <5>2. CASE i # 1
          <6>1. i - 1 \in 1..(Len(w) - 1) /\ i - 1 \in Nat /\ i - 1 \in 1..Len(w)
            BY <2>2, <4>3, <5>2
          <6>2. i - 1 \notin T
            BY <4>2, <4>3
          <6>3. ~(at <= w[i - 1].hi - drift)
            <7>1. i - 1 # Len(w)
              BY <2>2, <6>1
            <7>2. QED BY <6>1, <6>2, <7>1
          <6>4. w[i].lo + 2 * Drift <= w[i - 1].hi /\ w[i - 1].hi \in Nat
            <7>1. (i - 1) + 1 = i
              BY <4>3
            <7>2. QED BY <2>2, <6>1, <7>1
          <6>5. PICK a \in Nat, b \in Nat : a = w[i].lo /\ b = w[i - 1].hi
            BY <4>4, <6>4
          <6>6. a + 2 * Drift <= b /\ ~(at <= b - drift)
            BY <6>3, <6>4, <6>5
          <6>7. drift <= Drift /\ drift \in Nat /\ Drift \in Nat /\ at \in Int
            <7>1. last.hi \in Int
              BY <2>8
            <7>2. QED BY <2>10, <7>1, StrideAdvances
          <6>8. a + Drift < at
            BY <6>6, <6>7
          <6>9. QED BY <6>5, <6>8
        <5>3. QED BY <5>1, <5>2
      <4>6. at \in Seen(t, i)
        <5>1. CASE i = Len(w)
          <6>1. lo + 1 <= at /\ at <= last.hi
            BY <2>3, <2>10, <4>4, <4>5, <5>1, StrideAdvances DEF last
          <6>2. QED BY <2>3, <2>8, <5>1, <6>1
        <5>2. CASE i # Len(w)
          <6>1. i \in 1..(Len(w) - 1) /\ at <= w[i].hi - drift
            BY <2>2, <4>3, <5>2
          <6>2. w[i].lo + 1 <= at
            BY <4>4, <4>5, StrideAdvances
          <6>3. QED BY <2>4, <2>10, <4>4, <6>1, <6>2
        <5>3. QED BY <5>1, <5>2
      <4>7. i \in 0..Len(w)
        BY <2>2, <4>3
      <4>8. QED BY <4>6, <4>7
    <3>3. QED BY <3>1, <3>2
  <2>13. UNION {Seen(t, i) : i \in 0..Len(w)} = 1..last.hi
    BY <2>11, <2>12
  <2>14. Covered(t) = n <=> ~Truncated(t)
    BY <1>a, <2>7, <2>8, <2>9
  <2>15. Len(w) <= MaxSpans - 1
    BY <2>2
  <2>16. QED BY <2>5, <2>8, <2>9, <2>11, <2>13, <2>14, <2>15 DEF n, w
<1>3. QED BY <1>1, <1>2

-----------------------------------------------------------------------------
(* Recall: rankings.                                                        *)

\* Sort keys are as many as the memories they rank, and no two are level.
LEMMA KeysAreTotal ==
    ASSUME NEW ms, ms \subseteq Memories, NEW f, NEW g, \A m \in ms : f[m] \in Int /\ g[m] \in Int
    PROVE  /\ IsFiniteSet(ms) /\ IsFiniteSet(SortKeys(ms, f, g))
           /\ Cardinality(SortKeys(ms, f, g)) = Cardinality(ms)
           /\ \A s \in SortKeys(ms, f, g) : s[3] \in ms /\ s = <<f[s[3]], g[s[3]], s[3]>>
           /\ \A s \in SortKeys(ms, f, g) : ~Before(s, s)
           /\ \A s, t \in SortKeys(ms, f, g) : s # t => Before(s, t) \/ Before(t, s)
           /\ \A s, t \in SortKeys(ms, f, g) : ~(Before(s, t) /\ Before(t, s))
           /\ \A s, t, u \in SortKeys(ms, f, g) : Before(s, t) /\ Before(t, u) => Before(s, u)
           /\ \A s, t \in SortKeys(ms, f, g) : Before(s, t) => f[s[3]] <= f[t[3]]
<1> DEFINE K == SortKeys(ms, f, g)
<1>1. IsFiniteSet(ms)
  BY MemoriesAreNumbered, FS_Subset
<1>2. \A s \in K : s[3] \in ms /\ s = <<f[s[3]], g[s[3]], s[3]>>
  BY DEF SortKeys
<1>3. IsFiniteSet(K) /\ Cardinality(K) = Cardinality(ms)
  <2> DEFINE h == [m \in ms |-> <<f[m], g[m], m>>]
  <2>1. h \in [ms -> K]
    BY DEF SortKeys
  <2>2. \A m, n \in ms : h[m] = h[n] => m = n
    OBVIOUS
  <2>3. \A s \in K : \E m \in ms : h[m] = s
    BY <1>2
  <2>4. h \in Bijection(ms, K)
    <3> HIDE DEF h, K
    <3> QED BY <2>1, <2>2, <2>3 DEF Bijection, Injection, Surjection, IsInjective
  <2>5. ExistsBijection(ms, K)
    BY <2>4 DEF ExistsBijection
  <2>6. QED BY <1>1, <2>5, FS_Bijection
<1>4. \A s \in K : s[1] \in Int /\ s[2] \in Int /\ s[3] \in Int /\ s[1] = f[s[3]] /\ s[2] = g[s[3]]
  <2> TAKE s \in K
  <2>1. PICK m \in ms : s = <<f[m], g[m], m>>
    BY DEF SortKeys
  <2>2. f[m] \in Int /\ g[m] \in Int /\ m \in Int
    BY MemoriesAreNumbered
  <2>3. s[1] = f[m] /\ s[2] = g[m] /\ s[3] = m
    BY <2>1
  <2>4. QED BY <2>2, <2>3
<1>5. \A s, t \in K : s # t => s[3] # t[3]
  BY <1>2
<1>6. \A s \in K : ~Before(s, s)
  BY <1>4 DEF Before
<1>7. \A s, t \in K : s # t => Before(s, t) \/ Before(t, s)
  BY <1>4, <1>5 DEF Before
<1>8. \A s, t \in K : ~(Before(s, t) /\ Before(t, s))
  BY <1>4 DEF Before
<1>9. \A s, t, u \in K : Before(s, t) /\ Before(t, u) => Before(s, u)
  BY <1>4 DEF Before
<1>10. \A s, t \in K : Before(s, t) => f[s[3]] <= f[t[3]]
  BY <1>4 DEF Before
<1>11. QED BY <1>1, <1>2, <1>3, <1>6, <1>7, <1>8, <1>9, <1>10

\* A sorted list has every memory once, in the order of what it is sorted by.
LEMMA SortedOrders ==
    ASSUME NEW ms, ms \subseteq Memories, NEW f, NEW g, \A m \in ms : f[m] \in Int /\ g[m] \in Int
    PROVE  LET list == Sorted(SortKeys(ms, f, g)) IN
           /\ list \in Seq(ms) /\ Len(list) = Cardinality(ms)
           /\ \A m \in ms : \E i \in 1 .. Cardinality(ms) : list[i] = m
           /\ \A i, j \in 1 .. Cardinality(ms) : i # j => list[i] # list[j]
           /\ \A i, j \in 1 .. Cardinality(ms) : i < j => f[list[i]] <= f[list[j]]
<1> DEFINE K == SortKeys(ms, f, g)
           list == Sorted(K)
           size == Cardinality(ms)
           ahead(s) == {t \in K : Before(t, s)}
           place == [s \in K |-> Cardinality(ahead(s))]
           at(i) == CHOOSE s \in K : Cardinality(ahead(s)) = i - 1
<1>1. /\ IsFiniteSet(K) /\ Cardinality(K) = size /\ size \in Nat
      /\ \A s \in K : s[3] \in ms /\ s = <<f[s[3]], g[s[3]], s[3]>>
      /\ \A s \in K : ~Before(s, s)
      /\ \A s, t \in K : s # t => Before(s, t) \/ Before(t, s)
      /\ \A s, t, u \in K : Before(s, t) /\ Before(t, u) => Before(s, u)
      /\ \A s, t \in K : Before(s, t) => f[s[3]] <= f[t[3]]
  BY KeysAreTotal, FS_CardinalityType
<1>2. \A m \in ms : \E s \in K : s[3] = m
  <2> TAKE m \in ms
  <2>1. <<f[m], g[m], m>> \in K /\ <<f[m], g[m], m>>[3] = m
    BY DEF SortKeys
  <2>2. QED BY <2>1
<1>3. \A s \in K : IsFiniteSet(ahead(s)) /\ Cardinality(ahead(s)) \in 0 .. size - 1
  <2> TAKE s \in K
  <2>1. ahead(s) \in SUBSET K /\ s \notin ahead(s)
    BY <1>1
  <2>2. IsFiniteSet(ahead(s)) /\ Cardinality(ahead(s)) <= size
    BY <1>1, <2>1, FS_Subset
  <2>3. Cardinality(ahead(s)) # size
    BY <1>1, <2>1, FS_Subset
  <2>4. QED BY <1>1, <2>2, <2>3, FS_CardinalityType
<1>4. \A s, t \in K : Before(s, t) => Cardinality(ahead(s)) < Cardinality(ahead(t))
  <2> SUFFICES ASSUME NEW s \in K, NEW t \in K, Before(s, t)
               PROVE  Cardinality(ahead(s)) < Cardinality(ahead(t))
    OBVIOUS
  <2>1. ahead(s) \in SUBSET ahead(t)
    BY <1>1
  <2>2. s \in ahead(t) /\ s \notin ahead(s)
    BY <1>1
  <2>3. Cardinality(ahead(s)) <= Cardinality(ahead(t)) /\ Cardinality(ahead(s)) # Cardinality(ahead(t))
    BY <1>3, <2>1, <2>2, FS_Subset
  <2> HIDE DEF ahead, K
  <2>4. Cardinality(ahead(s)) \in Int /\ Cardinality(ahead(t)) \in Int
    BY <1>1, <1>3
  <2>5. QED BY <2>3, <2>4
<1> HIDE DEF ahead, K
<1>5. \A s, t \in K : Cardinality(ahead(s)) = Cardinality(ahead(t)) => s = t
  <2> SUFFICES ASSUME NEW s \in K, NEW t \in K, s # t
               PROVE  Cardinality(ahead(s)) # Cardinality(ahead(t))
    OBVIOUS
  <2>1. Before(s, t) \/ Before(t, s)
    BY <1>1
  <2>2. Cardinality(ahead(s)) < Cardinality(ahead(t)) \/ Cardinality(ahead(t)) < Cardinality(ahead(s))
    BY <1>4, <2>1
  <2>3. Cardinality(ahead(s)) \in Int /\ Cardinality(ahead(t)) \in Int
    BY <1>1, <1>3
  <2>4. QED BY <2>2, <2>3
<1>6. place \in Injection(K, 0 .. size - 1)
  <2>1. place \in [K -> 0 .. size - 1]
    BY <1>3
  <2>2. \A s, t \in K : place[s] = place[t] => s = t
    BY <1>5
  <2>3. QED BY <2>1, <2>2 DEF Injection, IsInjective
<1>7. place \in Surjection(K, 0 .. size - 1)
  <2>1. size \in Nat
    BY <1>1
  <2> HIDE DEF size
  <2>2. IsFiniteSet(0 .. size - 1) /\ Cardinality(0 .. size - 1) = size
    BY <2>1, FS_Interval
  <2>3. Cardinality(K) = size
    BY <1>1 DEF size
  <2> HIDE DEF place
  <2>4. QED BY <1>6, <2>2, <2>3, FS_Injection
<1>8. \A i \in 1 .. size : at(i) \in K /\ Cardinality(ahead(at(i))) = i - 1
  <2> TAKE i \in 1 .. size
  <2>1. i - 1 \in 0 .. size - 1
    BY <1>1
  <2>2. \A k \in 0 .. size - 1 : \E s \in K : place[s] = k
    BY <1>7 DEF Surjection
  <2>3. PICK s \in K : place[s] = i - 1
    BY <2>1, <2>2
  <2>4. QED BY <2>3
<1> HIDE DEF at, place
<1>9. list = [i \in 1 .. size |-> at(i)[3]]
  <2>1. list = [i \in 1 .. Cardinality(K) |-> at(i)[3]]
    BY DEF Sorted, at, ahead
  <2>2. QED BY <1>1, <2>1
<1> HIDE DEF list
<1>10. \A i \in 1 .. size : at(i)[3] \in ms
  BY <1>1, <1>8
<1>11. list \in Seq(ms) /\ Len(list) = size
  <2>1. list \in [1 .. size -> ms]
    BY <1>9, <1>10
  <2>2. QED BY <1>1, <2>1
<1>12. \A m \in ms : \E i \in 1 .. size : list[i] = m
  <2> TAKE m \in ms
  <2>1. PICK s \in K : s[3] = m
    BY <1>2
  <2> DEFINE i == Cardinality(ahead(s)) + 1
  <2>2. i \in 1 .. size /\ Cardinality(ahead(s)) = i - 1
    BY <1>1, <1>3
  <2>3. at(i) = s
    BY <1>5, <1>8, <2>2
  <2>4. QED BY <1>9, <2>1, <2>2, <2>3
<1>13. \A i, j \in 1 .. size : i # j => list[i] # list[j]
  <2> SUFFICES ASSUME NEW i \in 1 .. size, NEW j \in 1 .. size, at(i)[3] = at(j)[3]
               PROVE  i = j
    BY <1>9
  <2>1. at(i) = at(j)
    BY <1>1, <1>8
  <2>2. QED BY <1>8, <2>1
<1>14. \A i, j \in 1 .. size : i < j => f[list[i]] <= f[list[j]]
  <2> SUFFICES ASSUME NEW i \in 1 .. size, NEW j \in 1 .. size, i < j
               PROVE  f[at(i)[3]] <= f[at(j)[3]]
    BY <1>9
  <2>1. at(i) \in K /\ at(j) \in K /\ at(i) # at(j) /\ ~Before(at(j), at(i))
    BY <1>4, <1>8
  <2>2. QED BY <1>1, <2>1
<1>15. QED BY <1>11, <1>12, <1>13, <1>14 DEF list, K

\* A ranking is sorted by what it is made of.
LEMMA RankingOrders ==
    ASSUME NEW ms, ms \subseteq Memories, NEW f, \A m \in ms : f[m] \in Int
    PROVE  LET list == Ranking(ms, f) IN
           /\ list \in Seq(ms) /\ Len(list) = Cardinality(ms)
           /\ \A m \in ms : \E i \in 1 .. Cardinality(ms) : list[i] = m
           /\ \A i, j \in 1 .. Cardinality(ms) : i # j => list[i] # list[j]
           /\ \A i, j \in 1 .. Cardinality(ms) : i < j => f[list[i]] <= f[list[j]]
<1>1. \A m \in ms : f[m] \in Int /\ Key[m] \in Int
  BY MemoriesAreNumbered
<1>2. QED BY <1>1, SortedOrders DEF Ranking

\* The first n of a ranking are n of its memories, if it has so many, and no
\* other ranks before one of them.
LEMMA TopRanksFirst ==
    ASSUME NEW ms, ms \subseteq Memories, NEW f, \A m \in ms : f[m] \in Int, NEW n \in Nat
    PROVE  LET top == Top(Ranking(ms, f), n) IN
           /\ top \in Seq(ms) /\ Len(top) = Min({n, Cardinality(ms)})
           /\ ToSet(top) \subseteq ms
           /\ IsFiniteSet(ToSet(top)) /\ Cardinality(ToSet(top)) = Len(top)
           /\ \A x \in ToSet(top), y \in ms \ ToSet(top) : f[x] <= f[y]
<1> DEFINE list == Ranking(ms, f)
           size == Cardinality(ms)
           top == Top(list, n)
           k == Min({n, size})
<1>1. /\ list \in Seq(ms) /\ Len(list) = size /\ size \in Nat
      /\ \A m \in ms : \E i \in 1 .. size : list[i] = m
      /\ \A i, j \in 1 .. size : i # j => list[i] # list[j]
      /\ \A i, j \in 1 .. size : i < j => f[list[i]] <= f[list[j]]
  <2>1. IsFiniteSet(ms)
    BY MemoriesAreNumbered, FS_Subset
  <2>2. QED BY <2>1, RankingOrders, FS_CardinalityType
<1>2. k \in 0 .. size
  BY <1>1, OfTwo
<1> HIDE DEF list, k
<1>3. top \in Seq(ms) /\ Len(top) = k /\ \A i \in 1 .. k : top[i] = list[i]
  <2>1. top = SubSeq(list, 1, k)
    BY <1>1 DEF Top, k
  <2>2. \A i \in 1 .. k : list[i] \in ms
    BY <1>1, <1>2
  <2>3. QED BY <1>2, <2>1, <2>2, SubSeqProperties
<1> HIDE DEF top
<1>4. DOMAIN top = 1 .. k
  BY <1>3
<1>5. ToSet(top) = {list[i] : i \in 1 .. k}
  BY <1>3, <1>4 DEF ToSet
<1>6. ToSet(top) \subseteq ms
  BY <1>1, <1>2, <1>5
<1>7. IsFiniteSet(ToSet(top)) /\ Cardinality(ToSet(top)) = k
  <2> DEFINE g == [i \in 1 .. k |-> list[i]]
  <2>1. g \in Bijection(1 .. k, ToSet(top))
    BY <1>1, <1>2, <1>5 DEF Bijection, Injection, Surjection, IsInjective
  <2>2. IsFiniteSet(1 .. k) /\ Cardinality(1 .. k) = k
    BY <1>2, FS_Interval
  <2>3. ExistsBijection(1 .. k, ToSet(top))
    BY <2>1 DEF ExistsBijection
  <2>4. QED BY <2>2, <2>3, FS_Bijection
<1>8. ASSUME NEW x \in ToSet(top), NEW y \in ms \ ToSet(top) PROVE f[x] <= f[y]
  <2>1. PICK i \in 1 .. k : list[i] = x
    BY <1>5
  <2>2. PICK j \in 1 .. size : list[j] = y
    BY <1>1
  <2>3. ~(j \in 1 .. k)
    BY <1>5, <2>2
  <2>4. i < j /\ i \in 1 .. size
    BY <1>1, <1>2, <2>3
  <2>5. QED BY <1>1, <2>1, <2>2, <2>4
<1>9. QED BY <1>3, <1>6, <1>7, <1>8 DEF top, k, list

-----------------------------------------------------------------------------
(* Recall: the rows of an index.                                            *)

\* The least of a set of numbers.
LEMMA MinIsLeast ==
    ASSUME NEW T, T \subseteq Nat, T # {}
    PROVE  Min(T) \in T /\ \A y \in T : Min(T) <= y
<1>1. PICK x \in T : \A y \in T : x <= y
  BY LeastOne
<1>2. QED BY <1>1 DEF Min

\* What a search can find of a text is what some vector of it is computed from.
LEMMA FindableIsSeen ==
    ASSUME NEW t, t.len \in Nat \ {0}, t.chars \in Nat, t.drift \in 0..Drift
    PROVE  Findable(t) = UNION {Seen(t, i) : i \in Vectors(t)}
<1>1. CASE t.chars = 0
  <2>1. Findable(t) = 1..Covered(t)
    BY <1>1 DEF Findable
  <2>2. QED BY <1>1, <2>1, TailIsCovered
<1>2. CASE t.chars # 0
  BY <1>2 DEF Findable
<1>3. QED BY <1>1, <1>2

\* Every vector of a memory that has any is a row of one of the two indexes,
\* and the nearest of them is where what the query asks for is.
LEMMA RowsAreVectors ==
    ASSUME corpus \in Corpora
    PROVE  /\ IsFiniteSet(Rows("head")) /\ IsFiniteSet(Rows("span"))
           /\ \A r \in Rows("head") \cup Rows("span") :
                 /\ r[1] \in Memories /\ Embedded(r[1]) /\ Dist(r) \in 0 .. Far
                 /\ Truth(r[1]) <= Dist(r)
                 /\ r = <<r[1], r[2]>> /\ r[2] \in Nat
           /\ \A r \in Rows("head") : r = <<r[1], 0>>
           /\ \A m \in Memories : Embedded(m) =>
                 /\ <<m, 0>> \in Rows("head")
                 /\ Truth(m) \in 0 .. Far
                 /\ \E r \in Rows("head") \cup Rows("span") : r[1] = m /\ Dist(r) = Truth(m)
<1> DEFINE Len1(m) == Len(Planned(corpus[m]))
<1>1. \A m \in Memories : Embedded(m) =>
         corpus[m].len \in Nat \ {0} /\ corpus[m].chars \in Nat /\ corpus[m].drift \in 0 .. Drift /\ corpus[m].near \in 0 .. Far
  BY CorporaTyped DEF Embedded
<1>2. \A m \in Memories : Embedded(m) => Len1(m) \in 0 .. MaxSpans - 1 /\ Vectors(corpus[m]) = 0 .. Len1(m)
  BY <1>1, WindowsCounted DEF Vectors
<1>3. MaxSpans \in Nat /\ MaxSpans >= 1
  BY WindowConstants
<1>4. Far \in Nat
  BY CorporaTyped
<1>5. \A m \in Memories, i \in 0 .. MaxSpans - 1 : Embedded(m) /\ i \in Vectors(corpus[m]) =>
         <<m, i>> \in Rows("head") \cup Rows("span")
  <2> SUFFICES ASSUME NEW m \in Memories, NEW i \in 0 .. MaxSpans - 1,
                      Embedded(m), i \in Vectors(corpus[m])
               PROVE  <<m, i>> \in Rows("head") \cup Rows("span")
    OBVIOUS
  <2>1. HasRow(<<m, i>>)
    BY DEF HasRow
  <2>2. CASE i = 0
    <3>1. <<m, i>> \in Index("head")
      BY <2>2 DEF Index
    <3>2. QED BY <2>1, <3>1 DEF Rows
  <2>3. CASE i # 0
    <3>1. i \in 1 .. MaxSpans - 1
      BY <1>3, <2>3
    <3>2. <<m, i>> \in Index("span")
      BY <3>1 DEF Index
    <3>3. QED BY <2>1, <3>2 DEF Rows
  <2>4. QED BY <2>2, <2>3
<1>6. \A m \in Memories : Embedded(m) => 0 \in Vectors(corpus[m]) /\ <<m, 0>> \in Rows("head")
  <2> SUFFICES ASSUME NEW m \in Memories, Embedded(m)
               PROVE  0 \in Vectors(corpus[m]) /\ <<m, 0>> \in Rows("head")
    OBVIOUS
  <2>1. 0 \in Vectors(corpus[m])
    BY <1>2, <1>3
  <2>2. HasRow(<<m, 0>>) /\ <<m, 0>> \in Index("head")
    BY <2>1 DEF HasRow, Index
  <2>3. QED BY <2>1, <2>2 DEF Rows
<1>7. ASSUME NEW leg \in {"head", "span"}, NEW r \in Rows(leg)
      PROVE  /\ r[1] \in Memories /\ Embedded(r[1]) /\ r = <<r[1], r[2]>>
             /\ r[2] \in Vectors(corpus[r[1]]) /\ r[2] \in 0 .. MaxSpans - 1
  <2>1. r \in Index(leg) /\ r[2] \in Vectors(corpus[r[1]])
    BY <1>7 DEF Rows, HasRow
  <2>2. PICK m \in Memories, i \in (IF leg = "head" THEN {0} ELSE 1 .. MaxSpans - 1) :
           Embedded(m) /\ r = <<m, i>>
    BY <2>1 DEF Index
  <2>3. r[1] = m /\ r[2] = i
    BY <2>2
  <2>4. i \in 0 .. MaxSpans - 1
    BY <1>3, <2>2
  <2>5. QED BY <2>1, <2>2, <2>3, <2>4
<1>8. IsFiniteSet(Rows("head")) /\ IsFiniteSet(Rows("span"))
  <2>1. IsFiniteSet(Memories \X (0 .. MaxSpans - 1))
    <3>1. 0 \in Int /\ MaxSpans - 1 \in Int
      BY <1>3
    <3>2. IsFiniteSet(0 .. MaxSpans - 1)
      BY <3>1, FS_Interval
    <3>3. IsFiniteSet(Memories)
      BY MemoriesAreNumbered
    <3>4. QED BY <3>2, <3>3, FS_Product
  <2>2. \A r \in Rows("head") : r \in Memories \X (0 .. MaxSpans - 1)
    BY <1>7
  <2>3. \A r \in Rows("span") : r \in Memories \X (0 .. MaxSpans - 1)
    BY <1>7
  <2>4. QED BY <2>1, <2>2, <2>3, FS_Subset
<1>9. \A m \in Memories : \A i \in Vectors(corpus[m]) : Embedded(m) =>
         /\ Dist(<<m, i>>) = IF corpus[m].at \in Seen(corpus[m], i)
                             THEN corpus[m].near ELSE Far
         /\ Dist(<<m, i>>) \in 0 .. Far
         /\ Truth(m) \in 0 .. Far
         /\ Truth(m) <= Dist(<<m, i>>)
  <2> SUFFICES ASSUME NEW m \in Memories, NEW i \in Vectors(corpus[m]), Embedded(m)
               PROVE  /\ Dist(<<m, i>>) = IF corpus[m].at \in Seen(corpus[m], i)
                                          THEN corpus[m].near ELSE Far
                      /\ Dist(<<m, i>>) \in 0 .. Far
                      /\ Truth(m) \in 0 .. Far
                      /\ Truth(m) <= Dist(<<m, i>>)
    OBVIOUS
  <2>1. Dist(<<m, i>>) = IF corpus[m].at \in Seen(corpus[m], i)
                         THEN corpus[m].near ELSE Far
    BY DEF Dist
  <2>2. Truth(m) = IF corpus[m].at \in Findable(corpus[m]) THEN corpus[m].near ELSE Far
    BY DEF Truth
  <2>3. corpus[m].near \in 0 .. Far
    BY <1>1
  <2>4. Findable(corpus[m]) = UNION {Seen(corpus[m], j) : j \in Vectors(corpus[m])}
    BY <1>1, FindableIsSeen
  <2>5. corpus[m].at \in Seen(corpus[m], i)
           => corpus[m].at \in Findable(corpus[m])
    BY <2>4
  <2>6. QED BY <1>4, <2>1, <2>2, <2>3, <2>5
<1>10. \A m \in Memories : Embedded(m) =>
          \E i \in Vectors(corpus[m]) : Dist(<<m, i>>) = Truth(m)
  <2> SUFFICES ASSUME NEW m \in Memories, Embedded(m)
               PROVE  \E i \in Vectors(corpus[m]) : Dist(<<m, i>>) = Truth(m)
    OBVIOUS
  <2>1. Findable(corpus[m]) = UNION {Seen(corpus[m], j) : j \in Vectors(corpus[m])}
    BY <1>1, FindableIsSeen
  <2>2. Truth(m) = IF corpus[m].at \in Findable(corpus[m]) THEN corpus[m].near ELSE Far
    BY DEF Truth
  <2>3. CASE corpus[m].at \in Findable(corpus[m])
    <3>1. PICK i \in Vectors(corpus[m]) : corpus[m].at \in Seen(corpus[m], i)
      BY <2>1, <2>3
    <3>2. QED BY <1>9, <2>2, <2>3, <3>1
  <2>4. CASE corpus[m].at \notin Findable(corpus[m])
    <3>1. 0 \in Vectors(corpus[m]) /\ corpus[m].at \notin Seen(corpus[m], 0)
      BY <1>6, <2>1, <2>4
    <3>2. QED BY <1>9, <2>2, <2>4, <3>1
  <2>5. QED BY <2>3, <2>4
<1>11. ASSUME NEW r \in Rows("head") \cup Rows("span")
       PROVE  /\ r[1] \in Memories /\ Embedded(r[1]) /\ Dist(r) \in 0 .. Far /\ Truth(r[1]) <= Dist(r)
              /\ r = <<r[1], r[2]>> /\ r[2] \in Nat
  <2>1. /\ r[1] \in Memories /\ Embedded(r[1]) /\ r = <<r[1], r[2]>>
        /\ r[2] \in Vectors(corpus[r[1]]) /\ r[2] \in 0 .. MaxSpans - 1
    BY <1>7
  <2>2. Dist(<<r[1], r[2]>>) \in 0 .. Far /\ Truth(r[1]) <= Dist(<<r[1], r[2]>>)
    BY <1>9, <2>1
  <2>3. r[2] \in Nat
    BY <1>3, <2>1
  <2>4. QED BY <2>1, <2>2, <2>3
<1>12. ASSUME NEW m \in Memories, Embedded(m)
       PROVE  /\ <<m, 0>> \in Rows("head") /\ Truth(m) \in 0 .. Far
              /\ \E r \in Rows("head") \cup Rows("span") : r[1] = m /\ Dist(r) = Truth(m)
  <2>1. PICK i \in Vectors(corpus[m]) : Dist(<<m, i>>) = Truth(m)
    BY <1>10, <1>12
  <2>2. i \in 0 .. MaxSpans - 1
    BY <1>2, <1>3, <1>12
  <2>3. <<m, i>> \in Rows("head") \cup Rows("span") /\ <<m, i>>[1] = m
    BY <1>5, <1>12, <2>2
  <2>4. QED BY <1>6, <1>9, <1>12, <2>1, <2>3
<1>13. ASSUME NEW r \in Rows("head") PROVE r = <<r[1], 0>>
  <2>1. PICK m \in Memories : r = <<m, 0>>
    BY DEF Rows, Index
  <2>2. QED BY <2>1
<1>14. QED BY <1>8, <1>11, <1>12, <1>13

\* How wide a first request is and how wide one may be are numbers.
LEMMA LimitsAreNumbers ==
    ASSUME NEW leg \in {"head", "span"}
    PROVE  Want(leg) \in Nat /\ Ceiling(leg) \in Nat
<1>1. {Candidates, VecMax, SpanMax} \subseteq Nat \ {0} /\ MaxSpans \in Nat \ {0}
  BY WidthsPositive, WindowConstants
<1>2. Ceiling(leg) \in Nat
  BY <1>1, OneOfTwo DEF Ceiling
<1>3. Candidates * MaxSpans \in Nat
  BY <1>1
<1>4. Max({Candidates, Candidates * MaxSpans}) \in Nat
  BY <1>1, <1>3, OneOfTwo
<1>5. QED BY <1>1, <1>2, <1>4, OneOfTwo DEF Want

\* vec0 returns as many rows as were asked for, if there are so many, and none
\* that is farther than one it leaves out.
LEMMA NearestRows ==
    ASSUME NEW rows, IsFiniteSet(rows), \A r \in rows : Dist(r) \in Nat,
           NEW n \in Nat, NEW got \in Nearest(rows, n)
    PROVE  /\ got \subseteq rows /\ IsFiniteSet(got)
           /\ Cardinality(got) = Min({n, Cardinality(rows)})
           /\ \A r \in got, q \in rows \ got : Dist(r) <= Dist(q)
<1> DEFINE upto(r) == {q \in rows : Dist(q) <= Dist(r)}
           nearer(r) == {q \in rows : Dist(q) < Dist(r)}
           inside == {r \in rows : Cardinality(upto(r)) <= n}
           edge == {r \in rows \ inside : Cardinality(nearer(r)) < n}
<1>1. PICK s \in kSubset(Min({n, Cardinality(rows)}) - Cardinality(inside), edge) : got = inside \cup s
  BY DEF Nearest
<1>2. s \subseteq edge /\ Cardinality(s) = Min({n, Cardinality(rows)}) - Cardinality(inside)
  BY <1>1 DEF kSubset
<1>3. inside \subseteq rows /\ edge \subseteq rows /\ inside \cap edge = {}
  OBVIOUS
<1>4. \A r \in rows : /\ upto(r) \subseteq rows /\ nearer(r) \subseteq rows
                      /\ Cardinality(upto(r)) \in Nat /\ Cardinality(nearer(r)) \in Nat
                      /\ IsFiniteSet(upto(r)) /\ IsFiniteSet(nearer(r))
  <2> TAKE r \in rows
  <2>1. upto(r) \in SUBSET rows /\ nearer(r) \in SUBSET rows
    OBVIOUS
  <2>2. QED BY <2>1, FS_Subset, FS_CardinalityType
<1>5. \A r, q \in rows : Dist(q) < Dist(r) => upto(q) \subseteq upto(r) /\ upto(q) \subseteq nearer(r)
  OBVIOUS
<1>6. \A r, q \in rows : Dist(q) < Dist(r) =>
         Cardinality(upto(q)) <= Cardinality(upto(r)) /\ Cardinality(upto(q)) <= Cardinality(nearer(r))
  <2> SUFFICES ASSUME NEW r \in rows, NEW q \in rows, Dist(q) < Dist(r)
               PROVE  /\ Cardinality(upto(q)) <= Cardinality(upto(r))
                      /\ Cardinality(upto(q)) <= Cardinality(nearer(r))
    OBVIOUS
  <2>1. upto(q) \in SUBSET upto(r) /\ upto(q) \in SUBSET nearer(r)
    BY <1>5
  <2>2. IsFiniteSet(upto(r)) /\ IsFiniteSet(nearer(r))
    BY <1>4
  <2> HIDE DEF upto, nearer
  <2>3. QED BY <2>1, <2>2, FS_Subset
<1>7. \A r \in inside : r \in rows /\ Cardinality(upto(r)) <= n
  OBVIOUS
<1>8. \A r \in edge : r \in rows /\ Cardinality(nearer(r)) < n
  OBVIOUS
<1>9. \A r \in rows : Cardinality(upto(r)) <= n => r \in inside
  OBVIOUS
<1> HIDE DEF upto, nearer, inside, edge
<1>10. got \subseteq rows
  BY <1>1, <1>2, <1>3
<1>11. IsFiniteSet(got) /\ Cardinality(got) = Min({n, Cardinality(rows)})
  <2>1. IsFiniteSet(inside) /\ IsFiniteSet(s)
    BY <1>2, <1>3, FS_Subset
  <2>2. inside \cap s = {}
    BY <1>2, <1>3
  <2>3. /\ IsFiniteSet(got)
        /\ Cardinality(got) = Cardinality(inside) + Cardinality(s) - Cardinality({})
    BY <1>1, <2>1, <2>2, FS_Union
  <2>4. Cardinality({}) = 0
    BY FS_EmptySet
  <2>5. Min({n, Cardinality(rows)}) \in Int
    BY FS_CardinalityType, OfTwo
  <2>6. Cardinality(inside) \in Nat
    BY <2>1, FS_CardinalityType
  <2>7. QED BY <1>2, <2>3, <2>4, <2>5, <2>6
<1>12. ASSUME NEW r \in got, NEW q \in rows \ got PROVE Dist(r) <= Dist(q)
  <2>1. r \in rows /\ q \in rows
    BY <1>10
  <2>2. SUFFICES ASSUME Dist(q) < Dist(r) PROVE FALSE
    BY <2>1
  <2>3. Cardinality(upto(q)) <= n
    <3>1. CASE r \in inside
      BY <1>4, <1>6, <1>7, <2>1, <2>2, <3>1
    <3>2. CASE r \in edge
      BY <1>4, <1>6, <1>8, <2>1, <2>2, <3>2
    <3>3. QED BY <1>1, <1>2, <3>1, <3>2
  <2>4. QED BY <1>1, <1>9, <2>1, <2>3
<1>13. QED BY <1>10, <1>11, <1>12

\* The distance of a memory is that of the nearest of its rows.
LEMMA BestIsLeast ==
    ASSUME corpus \in Corpora, NEW rows, rows \subseteq Rows("head") \cup Rows("span")
    PROVE  /\ Holders(rows) \subseteq Memories /\ IsFiniteSet(Holders(rows))
           /\ DOMAIN Best(rows) = Holders(rows)
           /\ \A m \in Holders(rows) : /\ Best(rows)[m] \in 0 .. Far
                                       /\ Truth(m) <= Best(rows)[m]
                                       /\ \E r \in rows : r[1] = m /\ Dist(r) = Best(rows)[m]
           /\ \A r \in rows : r[1] \in Holders(rows) /\ Best(rows)[r[1]] <= Dist(r)
<1>1. \A r \in rows : r[1] \in Memories /\ Dist(r) \in 0 .. Far /\ Truth(r[1]) <= Dist(r)
  BY RowsAreVectors
<1>2. Holders(rows) \subseteq Memories
  BY <1>1 DEF Holders
<1>3. IsFiniteSet(Holders(rows))
  BY <1>2, MemoriesAreNumbered, FS_Subset
<1>4. Far \in Nat
  BY CorporaTyped
<1> DEFINE dists(m) == {Dist(r) : r \in {q \in rows : q[1] = m}}
<1>5. \A m \in Holders(rows) : Best(rows)[m] = Min(dists(m))
  BY DEF Best
<1>6. \A m \in Holders(rows) : dists(m) \subseteq Nat /\ dists(m) # {}
  BY <1>1, <1>4 DEF Holders
<1>7. ASSUME NEW m \in Holders(rows)
      PROVE  /\ Best(rows)[m] \in 0 .. Far /\ Truth(m) <= Best(rows)[m]
             /\ \E r \in rows : r[1] = m /\ Dist(r) = Best(rows)[m]
             /\ \A r \in rows : r[1] = m => Best(rows)[m] <= Dist(r)
  <2>1. Min(dists(m)) \in dists(m) /\ \A d \in dists(m) : Min(dists(m)) <= d
    <3> HIDE DEF dists
    <3> QED BY <1>6, MinIsLeast
  <2>2. PICK r \in rows : r[1] = m /\ Dist(r) = Best(rows)[m]
    BY <1>5, <2>1
  <2>3. \A q \in rows : q[1] = m => Best(rows)[m] <= Dist(q)
    BY <1>5, <2>1
  <2>4. QED BY <1>1, <2>2, <2>3
<1>8. DOMAIN Best(rows) = Holders(rows)
  BY DEF Best
<1>9. \A r \in rows : r[1] \in Holders(rows)
  BY DEF Holders
<1>10. QED BY <1>2, <1>3, <1>7, <1>8, <1>9

\* What a leg has when it stops: visible rows of its index and, where the index
\* is no larger than the widest request, either all of them or rows of as many
\* memories as a recall takes and none nearer left out.
LegSound(leg, rows) ==
    /\ rows \subseteq Visible(Rows(leg))
    /\ Reached => \/ rows = Visible(Rows(leg))
                  \/ /\ Enough(rows)
                     /\ \A r \in rows, q \in Visible(Rows(leg)) \ rows : Dist(r) <= Dist(q)

\* A leg stops with such rows.
LEMMA LegStops ==
    ASSUME corpus \in Corpora, NEW leg \in {"head", "span"}, NEW n \in Nat,
           NEW got \in Nearest(Rows(leg), n),
           Enough(Visible(got)) \/ Cardinality(got) < n \/ n >= Ceiling(leg)
    PROVE  LegSound(leg, Visible(got))
<1>1. IsFiniteSet(Rows(leg)) /\ \A r \in Rows(leg) : Dist(r) \in Nat
  BY RowsAreVectors, CorporaTyped
<1>2. /\ got \subseteq Rows(leg) /\ Cardinality(got) = Min({n, Cardinality(Rows(leg))})
      /\ \A r \in got, q \in Rows(leg) \ got : Dist(r) <= Dist(q)
  BY <1>1, NearestRows
<1>3. Visible(got) \subseteq Visible(Rows(leg))
  BY <1>2 DEF Visible
<1>4. \A r \in Visible(got), q \in Visible(Rows(leg)) \ Visible(got) : Dist(r) <= Dist(q)
  BY <1>2 DEF Visible
<1>5. ASSUME Reached, ~Enough(Visible(got)) PROVE got = Rows(leg)
  <2>1. Cardinality(Rows(leg)) <= Ceiling(leg) /\ Cardinality(Rows(leg)) \in Nat
    BY <1>1, <1>5, FS_CardinalityType DEF Reached
  <2>2. Ceiling(leg) \in Nat
    BY LimitsAreNumbers
  <2>3. Cardinality(got) = IF n <= Cardinality(Rows(leg)) THEN n ELSE Cardinality(Rows(leg))
    BY <1>2, <2>1, OfTwo
  <2>4. Cardinality(got) = Cardinality(Rows(leg))
    BY <1>5, <2>1, <2>2, <2>3
  <2>5. QED BY <1>1, <1>2, <2>4, FS_Subset
<1>6. QED BY <1>3, <1>4, <1>5 DEF LegSound

-----------------------------------------------------------------------------
(* Recall: which rows suffice.                                              *)

\* So many memories lie at most so far that no other is wanted beyond.
Crowded(rows, d) ==
    \E ms \in SUBSET Holders(rows) : /\ Cardinality(ms) >= Candidates
                                     /\ \A m \in ms : Best(rows)[m] <= d

\* Rows that answer for every visible row of both indexes.
Suffices(rows) == \A q \in Visible(Persisted) : q \in rows \/ Crowded(rows, Dist(q))

\* A list of all the memories there are to find, or of the nearest Candidates.
Finds(near) ==
    /\ Len(near) = Min({Candidates, Cardinality(Wanted)})
    /\ \A m \in Wanted \ ToSet(near), n \in ToSet(near) : Truth(n) <= Truth(m)

\* The memories a request may find are those with a visible row.
LEMMA WantedHaveRows ==
    ASSUME corpus \in Corpora
    PROVE  /\ \A r \in Visible(Persisted) : r[1] \in Wanted
           /\ \A m \in Wanted : \E r \in Visible(Persisted) : r[1] = m /\ Dist(r) = Truth(m)
           /\ IsFiniteSet(Wanted) /\ Wanted \subseteq Memories
<1>1. \A r \in Visible(Persisted) : r[1] \in Wanted
  BY RowsAreVectors DEF Visible, Persisted, Wanted
<1>2. ASSUME NEW m \in Wanted PROVE \E r \in Visible(Persisted) : r[1] = m /\ Dist(r) = Truth(m)
  <2>1. m \in Memories /\ Embedded(m) /\ Eligible(m)
    BY DEF Wanted
  <2>2. PICK r \in Rows("head") \cup Rows("span") : r[1] = m /\ Dist(r) = Truth(m)
    BY <2>1, RowsAreVectors
  <2>3. r \in Visible(Persisted)
    BY <2>1, <2>2 DEF Visible, Persisted
  <2>4. QED BY <2>2, <2>3
<1>3. Wanted \in SUBSET Memories
  BY DEF Wanted
<1>4. QED BY <1>1, <1>2, <1>3, MemoriesAreNumbered, FS_Subset

\* The nearest memories with visible rows are what a request may find, and
\* if the rows suffice, all that it wants.
LEMMA RowsThatSuffice ==
    ASSUME corpus \in Corpora, NEW rows, rows \subseteq Visible(Persisted)
    PROVE  LET near == NearestHolders(rows) IN
           /\ near \in Seq(Memories) /\ ToSet(near) \subseteq Wanted \cap Holders(rows)
           /\ \A d \in Nat : Crowded(rows, d) => \A n \in ToSet(near) : Best(rows)[n] <= d
           /\ Suffices(rows) => Finds(near)
<1> DEFINE near == NearestHolders(rows)
           best == Best(rows)
           hs == Holders(rows)
<1>1. rows \subseteq Rows("head") \cup Rows("span")
  BY DEF Visible, Persisted
<1>2. /\ hs \subseteq Memories /\ IsFiniteSet(hs)
      /\ \A m \in hs : best[m] \in 0 .. Far /\ Truth(m) <= best[m]
      /\ \A r \in rows : r[1] \in hs /\ best[r[1]] <= Dist(r)
  BY <1>1, BestIsLeast
<1>3. hs \subseteq Wanted
  BY WantedHaveRows DEF Holders
<1>4. Candidates \in Nat /\ Candidates >= 1 /\ Far \in Nat
  BY WidthsPositive, CorporaTyped
<1>5. \A m \in hs : best[m] \in Int
  BY <1>2, <1>4
<1>6. /\ near \in Seq(hs) /\ Len(near) = Min({Candidates, Cardinality(hs)})
      /\ ToSet(near) \subseteq hs
      /\ IsFiniteSet(ToSet(near)) /\ Cardinality(ToSet(near)) = Len(near)
      /\ \A x \in ToSet(near), y \in hs \ ToSet(near) : best[x] <= best[y]
  <2> HIDE DEF best, hs
  <2>1. near = Top(Ranking(hs, best), Candidates)
    BY DEF NearestHolders, best, hs
  <2>2. hs \subseteq Memories
    BY <1>2
  <2> HIDE DEF near
  <2>3. QED BY <1>4, <1>5, <2>1, <2>2, TopRanksFirst
<1>7. near \in Seq(Memories) /\ ToSet(near) \subseteq Wanted
  <2>1. \A i \in 1 .. Len(near) : near[i] \in Memories
    BY <1>2, <1>6
  <2>2. near \in [1 .. Len(near) -> hs] /\ Len(near) \in Nat
    BY <1>6
  <2>3. near \in Seq(Memories)
    BY <2>1, <2>2
  <2>4. QED BY <1>3, <1>6, <2>3
<1>8. Cardinality(hs) \in Nat /\ Cardinality(Wanted) \in Nat /\ Cardinality(hs) <= Cardinality(Wanted)
  BY <1>2, <1>3, WantedHaveRows, FS_Subset, FS_CardinalityType
<1> HIDE DEF near, best, hs
<1>9. Len(near) = (IF Candidates <= Cardinality(hs) THEN Candidates ELSE Cardinality(hs))
  BY <1>4, <1>6, <1>8, OfTwo
<1>10. ASSUME NEW d \in Nat, Crowded(rows, d)
       PROVE  Candidates <= Cardinality(hs) /\ \A n \in ToSet(near) : best[n] <= d
  <2>1. PICK ms \in SUBSET hs : Cardinality(ms) >= Candidates /\ \A m \in ms : best[m] <= d
    BY <1>10 DEF Crowded, best, hs
  <2>2. IsFiniteSet(ms) /\ Cardinality(ms) <= Cardinality(hs) /\ Cardinality(ms) \in Nat
    BY <1>2, <2>1, FS_Subset, FS_CardinalityType
  <2>3. Candidates <= Cardinality(hs)
    BY <1>4, <1>8, <2>1, <2>2
  <2>4. Cardinality(ToSet(near)) = Candidates
    BY <1>6, <1>9, <2>3
  <2>5. ASSUME NEW n \in ToSet(near), ~(best[n] <= d) PROVE FALSE
    <3>1. n \in hs /\ best[n] \in Int
      BY <1>5, <1>6
    <3>2. \A m \in ms : m \in ToSet(near)
      <4>1. SUFFICES ASSUME NEW m \in ms, m \notin ToSet(near) PROVE FALSE
        OBVIOUS
      <4>2. best[n] <= best[m] /\ best[m] <= d /\ best[m] \in Int
        BY <1>5, <1>6, <2>1, <2>5, <4>1
      <4>3. QED BY <2>5, <3>1, <4>2
    <3>3. n \notin ms
      BY <2>1, <2>5
    <3>4. ms \in SUBSET (ToSet(near) \ {n})
      BY <3>2, <3>3
    <3>5. /\ IsFiniteSet(ToSet(near) \ {n})
          /\ Cardinality(ToSet(near) \ {n}) = Cardinality(ToSet(near)) - 1
      BY <1>6, <2>5, FS_RemoveElement
    <3>6. Cardinality(ms) <= Candidates - 1
      BY <2>4, <3>4, <3>5, FS_Subset
    <3>7. QED BY <1>4, <2>1, <2>2, <3>6
  <2>6. QED BY <2>3, <2>5
<1>11. ASSUME Suffices(rows) PROVE Finds(near)
  <2>1. Len(near) = Min({Candidates, Cardinality(Wanted)})
    <3>1. CASE \A q \in Visible(Persisted) : q \in rows
      <4>1. Wanted \subseteq hs
        BY <1>2, <3>1, WantedHaveRows
      <4>2. Wanted = hs
        BY <1>3, <4>1
      <4>3. QED BY <1>6, <4>2
    <3>2. CASE \E q \in Visible(Persisted) : q \notin rows
      <4>1. PICK q \in Visible(Persisted) : Crowded(rows, Dist(q))
        BY <1>11, <3>2 DEF Suffices
      <4>2. Dist(q) \in Nat
        BY <1>4, RowsAreVectors DEF Visible, Persisted
      <4>3. Candidates <= Cardinality(hs)
        BY <1>10, <4>1, <4>2
      <4>4. QED BY <1>4, <1>8, <1>9, <4>3, OfTwo
    <3>3. QED BY <3>1, <3>2
  <2>2. ASSUME NEW m \in Wanted \ ToSet(near), NEW n \in ToSet(near) PROVE Truth(n) <= Truth(m)
    <3>1. PICK q \in Visible(Persisted) : q[1] = m /\ Dist(q) = Truth(m)
      BY WantedHaveRows
    <3>2. /\ Dist(q) \in Nat /\ n \in hs /\ best[n] \in Nat /\ Truth(n) <= best[n]
          /\ Truth(n) \in Nat
      <4>1. Dist(q) \in Nat
        BY <1>4, RowsAreVectors DEF Visible, Persisted
      <4>2. n \in hs
        BY <1>6
      <4>3. n \in Memories /\ Embedded(n)
        BY <1>3, <4>2 DEF Wanted
      <4>4. Truth(n) \in 0 .. Far
        BY <4>3, RowsAreVectors
      <4>5. best[n] \in 0 .. Far /\ Truth(n) <= best[n]
        BY <1>2, <4>2
      <4>6. QED BY <1>4, <4>1, <4>2, <4>4, <4>5
    <3>3. best[n] <= Dist(q)
      <4>1. CASE q \in rows
        <5>1. m \in hs \ ToSet(near) /\ best[m] <= Dist(q) /\ best[m] \in Nat
          BY <1>2, <1>4, <2>2, <3>1, <4>1
        <5>2. best[n] <= best[m]
          BY <1>6, <5>1
        <5>3. QED BY <3>2, <5>1, <5>2
      <4>2. CASE Crowded(rows, Dist(q))
        BY <1>10, <3>2, <4>2
      <4>3. QED BY <1>11, <4>1, <4>2 DEF Suffices
    <3>4. QED BY <3>1, <3>2, <3>3
  <2>3. QED BY <2>1, <2>2 DEF Finds
<1>12. QED BY <1>6, <1>7, <1>10, <1>11 DEF near, best, hs

\* What the two legs stopped with suffices, although of the tails only the
\* nearest memories' are kept.
LEMMA MergedSuffice ==
    ASSUME corpus \in Corpora, LegSound("head", run.head), LegSound("span", run.span)
    PROVE  Merged \subseteq Visible(Persisted) /\ (Reached => Suffices(Merged))
<1> DEFINE heads == run.head
           spans == run.span
           best == Best(spans)
           hs == Holders(spans)
           kept == ToSet(Top(Ranking(hs, best), Candidates))
<1>1. BestSpans = {r \in spans : r[1] \in kept}
  <2>1. DOMAIN best = hs
    BY DEF Best
  <2>2. QED BY <2>1 DEF BestSpans
<1>2. heads \subseteq Visible(Rows("head")) /\ spans \subseteq Visible(Rows("span"))
  BY DEF LegSound
<1>3. Merged \subseteq Visible(Persisted)
  BY <1>1, <1>2 DEF Merged, Visible, Persisted
<1>4. /\ Merged \subseteq Rows("head") \cup Rows("span")
      /\ spans \subseteq Rows("head") \cup Rows("span")
      /\ heads \subseteq Rows("head") \cup Rows("span")
  BY <1>2, <1>3 DEF Visible, Persisted
<1>5. Candidates \in Nat /\ Candidates >= 1 /\ Far \in Nat
  BY WidthsPositive, CorporaTyped
<1>6. /\ hs \subseteq Memories /\ IsFiniteSet(hs)
      /\ \A m \in hs : /\ best[m] \in 0 .. Far
                       /\ \E r \in spans : r[1] = m /\ Dist(r) = best[m]
      /\ \A r \in spans : r[1] \in hs /\ best[r[1]] <= Dist(r)
  BY <1>4, BestIsLeast
<1>7. /\ Holders(Merged) \subseteq Memories
      /\ \A m \in Holders(Merged) : Best(Merged)[m] \in 0 .. Far
      /\ \A r \in Merged : r[1] \in Holders(Merged) /\ Best(Merged)[r[1]] <= Dist(r)
  BY <1>4, BestIsLeast
<1>8. \A r \in Rows("head") \cup Rows("span") : Dist(r) \in 0 .. Far
  BY RowsAreVectors
<1>9. \A m \in hs : best[m] \in Int
  BY <1>5, <1>6
<1>10. /\ kept \subseteq hs /\ IsFiniteSet(kept)
       /\ Cardinality(kept) = Min({Candidates, Cardinality(hs)})
       /\ \A x \in kept, y \in hs \ kept : best[x] <= best[y]
  <2> DEFINE top == Top(Ranking(hs, best), Candidates)
  <2> HIDE DEF best, hs
  <2>1. hs \subseteq Memories
    BY <1>6
  <2>2. /\ Len(top) = Min({Candidates, Cardinality(hs)})
        /\ ToSet(top) \subseteq hs
        /\ IsFiniteSet(ToSet(top)) /\ Cardinality(ToSet(top)) = Len(top)
        /\ \A x \in ToSet(top), y \in hs \ ToSet(top) : best[x] <= best[y]
    <3> HIDE DEF top
    <3>1. top = Top(Ranking(hs, best), Candidates)
      BY DEF top
    <3>2. QED BY <1>5, <1>9, <2>1, <3>1, TopRanksFirst
  <2>3. QED BY <2>2
<1>11. Cardinality(hs) \in Nat
  BY <1>6, FS_CardinalityType
<1> HIDE DEF heads, spans, best, hs, kept
<1>12. Cardinality(kept) = (IF Candidates <= Cardinality(hs) THEN Candidates ELSE Cardinality(hs))
  BY <1>5, <1>10, <1>11, OfTwo
<1>13. \A m \in kept : m \in Holders(Merged) /\ Best(Merged)[m] <= best[m]
  <2> TAKE m \in kept
  <2>1. PICK r \in spans : r[1] = m /\ Dist(r) = best[m]
    BY <1>6, <1>10
  <2>2. r \in Merged
    BY <1>1, <2>1 DEF Merged
  <2>3. QED BY <1>7, <2>1, <2>2
<1>14. \A r \in heads : r \in Merged
  BY DEF Merged, heads
<1>15. ASSUME NEW d \in Nat, Candidates <= Cardinality(hs), \A m \in kept : best[m] <= d
       PROVE  Crowded(Merged, d)
  <2>1. kept \in SUBSET Holders(Merged) /\ Cardinality(kept) >= Candidates
    BY <1>5, <1>12, <1>13, <1>15
  <2>2. \A m \in kept : Best(Merged)[m] <= d
    <3> TAKE m \in kept
    <3>1. Best(Merged)[m] \in Int /\ best[m] \in Int /\ Best(Merged)[m] <= best[m] /\ best[m] <= d
      BY <1>5, <1>7, <1>9, <1>10, <1>13, <1>15
    <3>2. QED BY <3>1
  <2>3. QED BY <2>1, <2>2 DEF Crowded
<1>16. ASSUME Reached, NEW q \in Visible(Rows("head")), q \notin Merged PROVE Crowded(Merged, Dist(q))
  <2>1. Enough(heads) /\ \A r \in heads : Dist(r) <= Dist(q)
    BY <1>14, <1>16 DEF LegSound, heads
  <2>2. {r[1] : r \in heads} \in SUBSET Holders(Merged)
    BY <1>14 DEF Holders
  <2>3. Cardinality({r[1] : r \in heads}) >= Candidates
    BY <2>1 DEF Enough
  <2>4. \A m \in {r[1] : r \in heads} : Best(Merged)[m] <= Dist(q)
    <3> TAKE m \in {r[1] : r \in heads}
    <3>1. PICK r \in heads : r[1] = m
      OBVIOUS
    <3>2. Best(Merged)[m] <= Dist(r) /\ Dist(r) <= Dist(q) /\ m \in Holders(Merged)
      BY <1>7, <1>14, <2>1, <3>1
    <3>3. q \in Rows("head") /\ r \in Rows("head") \cup Rows("span")
      BY <1>4, <1>14, <1>16 DEF Visible
    <3>4. Best(Merged)[m] \in Int /\ Dist(r) \in Int /\ Dist(q) \in Int
      BY <1>5, <1>7, <1>8, <3>2, <3>3
    <3>5. QED BY <3>2, <3>4
  <2>5. QED BY <2>2, <2>3, <2>4 DEF Crowded
<1>17. ASSUME Reached, NEW q \in Visible(Rows("span")), q \notin Merged PROVE Crowded(Merged, Dist(q))
  <2>1. q \in Rows("span") /\ Dist(q) \in Nat
    BY <1>5, <1>8, <1>17 DEF Visible
  <2>2. CASE q \in spans
    <3>1. q[1] \in hs /\ best[q[1]] <= Dist(q) /\ q[1] \notin kept
      BY <1>1, <1>6, <1>17, <2>2 DEF Merged
    <3>2. ~(Cardinality(kept) = Cardinality(hs))
      BY <1>6, <1>10, <3>1, FS_Subset
    <3>3. Candidates <= Cardinality(hs)
      BY <1>12, <3>2
    <3>4. \A m \in kept : best[m] <= Dist(q)
      <4> TAKE m \in kept
      <4>1. best[m] <= best[q[1]] /\ m \in hs
        BY <1>10, <3>1
      <4>2. best[m] \in Int /\ best[q[1]] \in Int
        BY <1>9, <3>1, <4>1
      <4>3. QED BY <2>1, <3>1, <4>1, <4>2
    <3>5. QED BY <1>15, <2>1, <3>3, <3>4
  <2>3. CASE q \notin spans
    <3>1. Enough(spans) /\ \A r \in spans : Dist(r) <= Dist(q)
      BY <1>17, <2>3 DEF LegSound, spans
    <3>2. Candidates <= Cardinality(hs)
      BY <1>5, <1>11, <3>1 DEF Enough, hs, Holders
    <3>3. \A m \in kept : best[m] <= Dist(q)
      BY <1>6, <1>10, <3>1
    <3>4. QED BY <1>15, <2>1, <3>2, <3>3
  <2>4. QED BY <2>2, <2>3
<1>18. Reached => Suffices(Merged)
  BY <1>16, <1>17 DEF Suffices, Visible, Persisted
<1>19. QED BY <1>3, <1>18

\* The search by meaning found what it should.
Good(near) ==
    /\ ToSet(near) \subseteq Wanted
    /\ Reached \/ ask.vectors = "persisted" => Finds(near)

\* What a leg has stays what it is while nothing is written and
\* the request is the same.
LEMMA LegsStand ==
    ASSUME UNCHANGED <<corpus, ask>>, NEW leg, NEW rows, LegSound(leg, rows)
    PROVE  LegSound(leg, rows)'
<1>1. Rows(leg)' = Rows(leg)
  BY DEF Rows, Index, HasRow, Embedded
<1>2. \A s : Visible(s)' = Visible(s)
  BY DEF Visible, Eligible
<1>3. Reached' = Reached
  BY DEF Reached, Rows, Index, HasRow, Embedded, Ceiling
<1>4. QED BY <1>1, <1>2, <1>3 DEF LegSound, Enough, Dist

LEMMA FindsStand ==
    ASSUME UNCHANGED <<corpus, ask>>, NEW list, Good(list)
    PROVE  Good(list)'
<1>1. Wanted' = Wanted
  BY DEF Wanted, Embedded, Eligible
<1>2. Reached' = Reached
  BY DEF Reached, Rows, Index, HasRow, Embedded, Ceiling
<1>3. \A m : Truth(m)' = Truth(m)
  BY DEF Truth
<1>4. QED BY <1>1, <1>2, <1>3 DEF Good, Finds

\* Each hit of a list names a window it was found by, and the nearest.
Named(vec) ==
    Reached =>
        \A i \in DOMAIN vec :
            LET m == vec[i][1]
                near == {n \in Wanted : Dist(<<n, 0>>) <= Truth(m)}
            IN /\ vec[i] \in Rows("head") \cup Rows("span")
               /\ Dist(vec[i]) = Truth(m)
               /\ vec[i][2] > 0 /\ m \in near => Cardinality(near) > Candidates

\* The window named is one of those the memory was found by at its distance,
\* the first of them.
LEMMA OriginStands ==
    ASSUME corpus \in Corpora, Merged \subseteq Visible(Persisted), NEW m \in Holders(Merged)
    PROVE  /\ <<m, Origin(m)>> \in Merged /\ Origin(m) \in Nat
           /\ Dist(<<m, Origin(m)>>) = Best(Merged)[m]
           /\ \A q \in Merged : q[1] = m /\ Dist(q) = Best(Merged)[m] => Origin(m) <= q[2]
<1> DEFINE ords == {r[2] : r \in {q \in Merged : q[1] = m /\ Dist(q) = Best(Merged)[m]}}
<1>1. Merged \subseteq Rows("head") \cup Rows("span")
  BY DEF Visible, Persisted
<1>2. \A r \in Merged : r = <<r[1], r[2]>> /\ r[2] \in Nat
  BY <1>1, RowsAreVectors
<1>3. \E r \in Merged : r[1] = m /\ Dist(r) = Best(Merged)[m]
  BY <1>1, BestIsLeast
<1>4. ords \subseteq Nat /\ ords # {}
  BY <1>2, <1>3
<1>5. Origin(m) = Min(ords)
  BY DEF Origin
<1>6. Origin(m) \in ords /\ \A y \in ords : Origin(m) <= y
  <2> HIDE DEF ords
  <2>1. QED BY <1>4, <1>5, MinIsLeast
<1>7. PICK r \in Merged : r[1] = m /\ Dist(r) = Best(Merged)[m] /\ r[2] = Origin(m)
  BY <1>6
<1>8. r = <<m, Origin(m)>>
  BY <1>2, <1>7
<1>9. \A q \in Merged : q[1] = m /\ Dist(q) = Best(Merged)[m] => q[2] \in ords
  OBVIOUS
<1>10. QED BY <1>4, <1>6, <1>7, <1>8, <1>9

\* What the merge names is named right.
LEMMA MergeNames ==
    ASSUME corpus \in Corpora, LegSound("head", run.head), LegSound("span", run.span),
           NEW near, near = NearestHolders(Merged),
           NEW window, window = [m \in Holders(Merged) |-> Origin(m)]
    PROVE  Named(VecHits(near, window))
<1> DEFINE best == Best(Merged)
<1>1. Merged \subseteq Visible(Persisted) /\ (Reached => Suffices(Merged))
  BY MergedSuffice
<1>2. /\ near \in Seq(Memories) /\ ToSet(near) \subseteq Wanted \cap Holders(Merged)
      /\ \A d \in Nat : Crowded(Merged, d) => \A n \in ToSet(near) : best[n] <= d
  BY <1>1, RowsThatSuffice
<1>3. Merged \subseteq Rows("head") \cup Rows("span")
  BY <1>1 DEF Visible, Persisted
<1>4. Far \in Nat /\ Candidates \in Nat
  BY CorporaTyped, WidthsPositive
<1>5. ASSUME Reached, NEW m \in ToSet(near)
      PROVE  best[m] = Truth(m) /\ Truth(m) \in Nat /\ m \in Memories /\ Embedded(m)
  <2>1. m \in Wanted /\ m \in Holders(Merged)
    BY <1>2
  <2>2. m \in Memories /\ Embedded(m)
    BY <2>1 DEF Wanted
  <2>3. Truth(m) \in 0 .. Far
    BY <2>2, RowsAreVectors
  <2>4. best[m] \in 0 .. Far /\ Truth(m) <= best[m]
    BY <1>3, <2>1, BestIsLeast
  <2>5. PICK q \in Visible(Persisted) : q[1] = m /\ Dist(q) = Truth(m)
    BY <2>1, WantedHaveRows
  <2>6. best[m] <= Truth(m)
    <3>1. CASE q \in Merged
      <4>1. \A r \in Merged : best[r[1]] <= Dist(r)
        BY <1>3, BestIsLeast
      <4>2. QED BY <2>5, <3>1, <4>1
    <3>2. CASE q \notin Merged
      <4>1. Crowded(Merged, Truth(m))
        BY <1>1, <1>5, <2>5, <3>2 DEF Suffices
      <4>2. QED BY <1>2, <1>4, <2>3, <4>1
    <3>3. QED BY <3>1, <3>2
  <2>7. QED BY <1>4, <2>2, <2>3, <2>4, <2>6
<1>6. ASSUME Reached, NEW m \in ToSet(near), Origin(m) > 0,
             m \in {n \in Wanted : Dist(<<n, 0>>) <= Truth(m)}
      PROVE  Cardinality({n \in Wanted : Dist(<<n, 0>>) <= Truth(m)}) > Candidates
  <2> DEFINE q == <<m, 0>>
             heads == run.head
             found == {r[1] : r \in heads}
             level == {n \in Wanted : Dist(<<n, 0>>) <= Truth(m)}
  <2>1. /\ best[m] = Truth(m) /\ Truth(m) \in Nat /\ m \in Memories /\ Embedded(m)
        /\ m \in Wanted /\ m \in Holders(Merged) /\ Dist(q) <= Truth(m)
    BY <1>2, <1>5, <1>6
  <2>2. q \in Visible(Rows("head"))
    BY <2>1, RowsAreVectors DEF Visible, Wanted
  <2>3. Dist(q) \in Nat
    BY <1>4, <2>2, RowsAreVectors DEF Visible
  <2>4. q \notin heads
    <3>1. SUFFICES ASSUME q \in heads PROVE FALSE
      OBVIOUS
    <3>2. q \in Merged
      BY <3>1 DEF Merged
    <3>3. best[m] <= Dist(q)
      BY <1>3, <3>2, BestIsLeast
    <3>4. Dist(q) = best[m]
      BY <2>1, <2>3, <3>3
    <3>5. Origin(m) <= 0 /\ Origin(m) \in Nat
      BY <1>1, <2>1, <3>2, <3>4, OriginStands
    <3>6. QED BY <1>6, <3>5
  <2>5. heads \subseteq Visible(Rows("head")) /\ Enough(heads) /\ \A r \in heads : Dist(r) <= Dist(q)
    BY <1>6, <2>2, <2>4 DEF LegSound
  <2>6. \A r \in heads : /\ r \in Rows("head") /\ r = <<r[1], 0>> /\ r[1] \in Wanted
                         /\ Dist(r) \in Nat
    <3> TAKE r \in heads
    <3>1. r \in Visible(Rows("head")) /\ r \in Visible(Persisted) /\ r \in Rows("head")
      BY <2>5 DEF Visible, Persisted
    <3>2. r[1] \in Wanted
      BY <3>1, WantedHaveRows
    <3>3. Dist(r) \in Nat /\ r = <<r[1], 0>>
      BY <1>4, <3>1, RowsAreVectors
    <3>4. QED BY <3>1, <3>2, <3>3
  <2>7. \A n \in found : n \in level /\ n # m
    <3> TAKE n \in found
    <3>1. PICK r \in heads : r[1] = n
      OBVIOUS
    <3>2. r = <<n, 0>> /\ n \in Wanted
      BY <2>6, <3>1
    <3>3. Dist(r) <= Truth(m)
      BY <2>1, <2>3, <2>5, <2>6
    <3>4. QED BY <2>4, <3>2, <3>3
  <2>8. Cardinality(found) >= Candidates
    BY <2>5 DEF Enough
  <2>9. IsFiniteSet(level) /\ m \in level
    <3>1. level \in SUBSET Wanted
      OBVIOUS
    <3>2. IsFiniteSet(Wanted)
      BY WantedHaveRows
    <3>3. QED BY <1>6, <3>1, <3>2, FS_Subset
  <2> HIDE DEF found, level
  <2>10. found \in SUBSET (level \ {m})
    BY <2>7
  <2>11. /\ IsFiniteSet(level \ {m}) /\ Cardinality(level \ {m}) = Cardinality(level) - 1
         /\ Cardinality(level) \in Nat
    BY <2>9, FS_RemoveElement, FS_CardinalityType
  <2>12. Cardinality(found) <= Cardinality(level) - 1 /\ Cardinality(found) \in Nat
    BY <2>10, <2>11, FS_Subset, FS_CardinalityType
  <2>13. Cardinality(level) > Candidates
    BY <1>4, <2>8, <2>11, <2>12
  <2>14. QED BY <2>13 DEF level
<1>7. ASSUME Reached, NEW i \in DOMAIN near
      PROVE  LET hit == VecHits(near, window)[i] IN
             /\ hit[1] \in ToSet(near) /\ hit[2] = Origin(hit[1])
             /\ hit \in Rows("head") \cup Rows("span") /\ Dist(hit) = Truth(hit[1])
  <2> DEFINE m == near[i]
  <2>1. m \in ToSet(near)
    BY DEF ToSet
  <2>2. m \in Holders(Merged)
    BY <1>2, <2>1
  <2>3. VecHits(near, window)[i] = <<m, Origin(m)>>
    BY <2>2 DEF VecHits
  <2>4. <<m, Origin(m)>> \in Merged /\ Dist(<<m, Origin(m)>>) = best[m]
    BY <1>1, <2>2, OriginStands
  <2>5. best[m] = Truth(m)
    BY <1>5, <1>7, <2>1
  <2> HIDE DEF m
  <2>6. <<m, Origin(m)>>[1] = m /\ <<m, Origin(m)>>[2] = Origin(m)
    OBVIOUS
  <2>7. QED BY <1>3, <2>1, <2>3, <2>4, <2>5, <2>6
<1>8. DOMAIN VecHits(near, window) = DOMAIN near
  BY DEF VecHits
<1>9. QED BY <1>6, <1>7, <1>8 DEF Named

LEMMA NamesStand ==
    ASSUME UNCHANGED <<corpus, ask>>, NEW vec, Named(vec)
    PROVE  Named(vec)'
<1>1. Wanted' = Wanted
  BY DEF Wanted, Embedded, Eligible
<1>2. Reached' = Reached
  BY DEF Reached, Rows, Index, HasRow, Embedded, Ceiling
<1>3. (\A m : Truth(m)' = Truth(m)) /\ \A r : Dist(r)' = Dist(r)
  BY DEF Truth, Dist
<1>4. Rows("head")' = Rows("head") /\ Rows("span")' = Rows("span")
  BY DEF Rows, Index, HasRow, Embedded
<1>5. QED BY <1>1, <1>2, <1>3, <1>4 DEF Named

LEMMA NamesAreSet ==
    ASSUME UNCHANGED <<corpus, ask>>, NEW vec, Named(vec), run'.vec = vec
    PROVE  Named(run.vec)'
<1>1. Named(vec)'
  BY NamesStand
<1>2. QED BY <1>1 DEF Named

-----------------------------------------------------------------------------
(* Recall: the invariant of a search.                                       *)

\* The inductive invariant of a search: what each leg has, once it is settled,
\* is sound, and from the merge on the list that was made of them is good.
SearchInv ==
    /\ corpus \in Corpora /\ ask \in Requests /\ DOMAIN run = DOMAIN Idle
    /\ run.phase \in {"idle", "page", "text"} => run.leg = "head"
    /\ run.phase = "page" => ask.strategy \in {"timeline", "union"}
    /\ run.phase \in {"near", "widen"} =>
          /\ ask.vectors = "native" /\ run.leg \in {"head", "span"}
          /\ run.leg = "span" => LegSound("head", run.head)
    /\ run.phase = "widen" => run.width \in Nat /\ run.seen \in Nat
    /\ run.phase = "merge" =>
          /\ ask.vectors = "native"
          /\ LegSound("head", run.head) /\ LegSound("span", run.span)
    /\ run.phase = "scan" => ask.vectors = "persisted"
    /\ run.phase \in {"fuse", "answer", "done"} /\ ask.strategy \in {"recall", "union"}
          /\ ask.vectors # "off" => Good(FoundNear)
    /\ run.phase \in {"fuse", "answer", "done"} /\ ask.strategy \in {"recall", "union"}
          /\ ask.vectors = "native" => Named(run.vec)

\* The parts of it that a step sets are those of the new run.
LEMMA HeadIsSet ==
    ASSUME UNCHANGED <<corpus, ask>>, NEW rows, LegSound("head", rows), run'.head = rows
    PROVE  LegSound("head", run.head)'
<1>1. LegSound("head", rows)'
  BY LegsStand
<1>2. QED BY <1>1 DEF LegSound, Enough

LEMMA SpanIsSet ==
    ASSUME UNCHANGED <<corpus, ask>>, NEW rows, LegSound("span", rows), run'.span = rows
    PROVE  LegSound("span", run.span)'
<1>1. LegSound("span", rows)'
  BY LegsStand
<1>2. QED BY <1>1 DEF LegSound, Enough

LEMMA ListIsSet ==
    ASSUME UNCHANGED <<corpus, ask>>, NEW list, Good(list), FoundNear' = list
    PROVE  Good(FoundNear)'
<1>1. Good(list)'
  BY FindsStand
<1>2. QED BY <1>1 DEF Good, Finds

\* The list a search hands on is the one its hits are numbered by.
LEMMA HitsNameTheList ==
    ASSUME NEW near, near \in Seq(Memories), NEW window, run'.vec = VecHits(near, window)
    PROVE  FoundNear' = near
<1>1. near = [i \in DOMAIN near |-> near[i]]
  OBVIOUS
<1>2. DOMAIN run'.vec = DOMAIN near /\ \A i \in DOMAIN near : run'.vec[i][1] = near[i]
  BY DEF VecHits
<1>3. FoundNear' = [i \in DOMAIN run'.vec |-> run'.vec[i][1]]
  BY DEF FoundNear
<1>4. QED BY <1>1, <1>2, <1>3

LEMMA VisibleAreCounted ==
    ASSUME corpus \in Corpora, NEW leg \in {"head", "span"}, NEW n \in Nat,
           NEW got \in Nearest(Rows(leg), n)
    PROVE  Cardinality(Visible(got)) \in Nat
<1>1. IsFiniteSet(Rows(leg)) /\ \A r \in Rows(leg) : Dist(r) \in Nat
  BY RowsAreVectors, CorporaTyped
<1>2. got \subseteq Rows(leg)
  BY <1>1, NearestRows
<1>3. Visible(got) \in SUBSET Rows(leg)
  BY <1>2 DEF Visible
<1>4. QED BY <1>1, <1>3, FS_Subset, FS_CardinalityType

LEMMA WiderIsNumber ==
    ASSUME NEW leg \in {"head", "span"}, run.leg = leg, run.width \in Nat, run.seen \in Nat
    PROVE  Wider \in Nat
<1>1. Growth \in Nat \ {0} /\ Want(leg) \in Nat /\ Ceiling(leg) \in Nat
  BY WidthsPositive, LimitsAreNumbers
<1>2. CASE run.seen = 0
  <2>1. run.width * Growth \in Nat
    BY <1>1
  <2>2. Wider = Min({Ceiling(leg), run.width * Growth})
    BY <1>2 DEF Wider
  <2>3. QED BY <1>1, <2>1, <2>2, OneOfTwo
<1>3. CASE run.seen # 0
  <2> DEFINE most == Want(leg) * run.width + run.seen - 1
             implied == 2 * (most \div run.seen)
  <2>1. most \in Nat
    <3>1. Want(leg) * run.width \in Nat
      BY <1>1
    <3>2. QED BY <1>3, <3>1
  <2>2. implied \in Int
    <3> HIDE DEF most
    <3>1. most \div run.seen \in Int
      BY <1>3, <2>1
    <3>2. QED BY <3>1
  <2>3. Wider = Min({Ceiling(leg), Max({run.width * 2, implied})})
    BY <1>3 DEF Wider
  <2> HIDE DEF implied
  <2>4. Max({run.width * 2, implied}) \in Nat
    <3>1. run.width * 2 \in Nat
      OBVIOUS
    <3>2. QED BY <2>2, <3>1, OneOfTwo
  <2>5. QED BY <1>1, <2>3, <2>4, OneOfTwo
<1>4. QED BY <1>2, <1>3

\* The fields of a run are always the same.
LEMMA FieldsStand ==
    DOMAIN Idle = {"phase", "leg", "width", "seen", "head", "span", "vec", "fts", "page", "merged",
                   "timeline", "hits", "out"}
BY DEF Idle

LEMMA AskSearches == ASSUME SearchInv, Ask PROVE SearchInv'
<1>1. /\ UNCHANGED <<corpus, ask>> /\ DOMAIN run = DOMAIN Idle
      /\ run.phase = "idle" /\ run.leg = "head"
      /\ ask.strategy \in {"recall", "timeline", "union", "events"}
  BY RequestsTyped DEF SearchInv, Ask
<1>2. /\ DOMAIN run' = DOMAIN Idle /\ run'.leg = "head"
      /\ run'.phase = CASE ask.strategy = "recall" -> "text"
                        [] ask.strategy \in {"timeline", "union"} -> "page"
                        [] ask.strategy = "events" -> "answer"
  BY <1>1, FieldsStand DEF Ask
<1>3. QED BY <1>1, <1>2 DEF SearchInv

LEMMA MatchSearches == ASSUME SearchInv, Match PROVE SearchInv'
<1>1. /\ UNCHANGED <<corpus, ask>> /\ DOMAIN run = DOMAIN Idle
      /\ run.phase = "text" /\ run.leg = "head"
      /\ ask.vectors \in {"off", "native", "persisted"}
  BY RequestsTyped DEF SearchInv, Match
<1>2. /\ DOMAIN run' = DOMAIN Idle /\ run'.leg = "head"
      /\ run'.phase = CASE ask.vectors = "off" -> "fuse"
                        [] ask.vectors = "native" -> "near"
                        [] ask.vectors = "persisted" -> "scan"
  BY <1>1, FieldsStand DEF Match
<1>3. QED BY <1>1, <1>2 DEF SearchInv

\* A leg that is settled hands on what it stopped with.
LEMMA SettledSearches ==
    ASSUME SearchInv, UNCHANGED <<corpus, ask>>, run.phase \in {"near", "widen"},
           NEW rows, LegSound(run.leg, rows), run' = Settled(rows)
    PROVE  SearchInv'
<1>1. /\ DOMAIN run = DOMAIN Idle /\ run.leg \in {"head", "span"} /\ ask.vectors = "native"
      /\ run.leg = "span" => LegSound("head", run.head)
  BY DEF SearchInv
<1>2. CASE run.leg = "head"
  <2>1. /\ DOMAIN run' = DOMAIN Idle /\ run'.phase = "near" /\ run'.leg = "span" /\ run'.head = rows
    BY <1>1, <1>2, FieldsStand DEF Settled
  <2>2. LegSound("head", run.head)'
    BY <1>2, <2>1, HeadIsSet
  <2>3. QED BY <1>1, <2>1, <2>2 DEF SearchInv
<1>3. CASE run.leg = "span"
  <2>1. /\ DOMAIN run' = DOMAIN Idle /\ run'.phase = "merge" /\ run'.span = rows
        /\ run'.head = run.head
    BY <1>1, <1>3, FieldsStand DEF Settled
  <2>2. LegSound("span", run.span)'
    BY <1>3, <2>1, SpanIsSet
  <2>3. PICK heads : heads = run.head
    OBVIOUS
  <2>4. LegSound("head", heads)
    BY <1>1, <1>3, <2>3
  <2>5. LegSound("head", run.head)'
    BY <2>1, <2>3, <2>4, HeadIsSet
  <2>6. QED BY <1>1, <2>1, <2>2, <2>5 DEF SearchInv
<1>4. QED BY <1>1, <1>2, <1>3

\* A leg that goes on remembers how wide it looked and how much it saw.
LEMMA WideningSearches ==
    ASSUME SearchInv, UNCHANGED <<corpus, ask>>, run.phase \in {"near", "widen"},
           DOMAIN run' = DOMAIN run, run'.phase = "widen", run'.leg = run.leg, run'.head = run.head,
           run'.width \in Nat, run'.seen \in Nat
    PROVE  SearchInv'
<1>1. /\ DOMAIN run = DOMAIN Idle /\ run.leg \in {"head", "span"} /\ ask.vectors = "native"
      /\ run.leg = "span" => LegSound("head", run.head)
  BY DEF SearchInv
<1>2. run.leg = "span" => LegSound("head", run.head)'
  <2>1. PICK heads : heads = run.head
    OBVIOUS
  <2>2. QED BY <1>1, <2>1, HeadIsSet
<1>3. QED BY <1>1, <1>2 DEF SearchInv

LEMMA SearchSearches == ASSUME SearchInv, Search PROVE SearchInv'
<1>1. /\ UNCHANGED <<corpus, ask>> /\ run.phase = "near" /\ corpus \in Corpora
      /\ DOMAIN run = DOMAIN Idle /\ run.leg \in {"head", "span"}
  BY DEF SearchInv, Search
<1>2. PICK leg \in {"head", "span"} : leg = run.leg
  BY <1>1
<1>3. PICK got \in Nearest(Rows(leg), Want(leg)) :
         run' = IF Enough(Visible(got)) \/ Want(leg) >= Ceiling(leg) THEN Settled(Visible(got))
                ELSE [run EXCEPT !.phase = "widen", !.width = Want(leg),
                                 !.seen = Cardinality(Visible(got))]
  BY <1>2 DEF Search
<1>4. PICK width \in Nat : width = Want(leg)
  <2>1. Want(leg) \in Nat
    BY LimitsAreNumbers
  <2>2. QED BY <2>1
<1>5. PICK rows : rows = Visible(got)
  OBVIOUS
<1>6. CASE Enough(Visible(got)) \/ Want(leg) >= Ceiling(leg)
  <2>1. LegSound(leg, Visible(got))
    BY <1>1, <1>3, <1>4, <1>6, LegStops
  <2>2. run' = Settled(rows) /\ LegSound(run.leg, rows)
    BY <1>2, <1>3, <1>5, <1>6, <2>1
  <2>3. QED BY <1>1, <2>2, SettledSearches
<1>7. CASE ~(Enough(Visible(got)) \/ Want(leg) >= Ceiling(leg))
  <2>1. run' = [run EXCEPT !.phase = "widen", !.width = width, !.seen = Cardinality(rows)]
    BY <1>3, <1>4, <1>5, <1>7
  <2>2. Cardinality(rows) \in Nat
    BY <1>1, <1>3, <1>4, <1>5, VisibleAreCounted
  <2>3. /\ DOMAIN run' = DOMAIN run /\ run'.phase = "widen" /\ run'.leg = run.leg
        /\ run'.head = run.head /\ run'.width = width /\ run'.seen = Cardinality(rows)
    BY <1>1, <2>1, FieldsStand
  <2>4. QED BY <1>1, <2>2, <2>3, WideningSearches
<1>8. QED BY <1>6, <1>7

LEMMA WidenSearches == ASSUME SearchInv, Widen PROVE SearchInv'
<1>1. /\ UNCHANGED <<corpus, ask>> /\ run.phase = "widen" /\ corpus \in Corpora
      /\ DOMAIN run = DOMAIN Idle /\ run.leg \in {"head", "span"}
      /\ run.width \in Nat /\ run.seen \in Nat
  BY DEF SearchInv, Widen
<1>2. PICK leg \in {"head", "span"} : leg = run.leg
  BY <1>1
<1>3. PICK width \in Nat : width = Wider
  BY <1>1, <1>2, WiderIsNumber
<1>4. PICK got \in Nearest(Rows(leg), width) :
         run' = IF Stop(got, width) THEN Settled(Visible(got))
                ELSE [run EXCEPT !.width = width, !.seen = Cardinality(Visible(got))]
  BY <1>2, <1>3 DEF Widen
<1>5. PICK rows : rows = Visible(got)
  OBVIOUS
<1>6. CASE Stop(got, width)
  <2>1. Enough(Visible(got)) \/ Cardinality(got) < width \/ width >= Ceiling(leg)
    <3>1. Enough(Visible(got)) \/ Cardinality(got) < width \/ width = Ceiling(leg)
      BY <1>2, <1>6 DEF Stop
    <3>2. QED BY <3>1
  <2>2. LegSound(leg, Visible(got))
    BY <1>1, <1>4, <2>1, LegStops
  <2>3. run' = Settled(rows) /\ LegSound(run.leg, rows)
    BY <1>2, <1>4, <1>5, <1>6, <2>2
  <2>4. QED BY <1>1, <2>3, SettledSearches
<1>7. CASE ~Stop(got, width)
  <2>1. run' = [run EXCEPT !.width = width, !.seen = Cardinality(rows)]
    BY <1>4, <1>5, <1>7
  <2>2. Cardinality(rows) \in Nat
    BY <1>1, <1>4, <1>5, VisibleAreCounted
  <2>3. /\ DOMAIN run' = DOMAIN run /\ run'.phase = "widen" /\ run'.leg = run.leg
        /\ run'.head = run.head /\ run'.width = width /\ run'.seen = Cardinality(rows)
    BY <1>1, <2>1, FieldsStand
  <2>4. QED BY <1>1, <2>2, <2>3, WideningSearches
<1>8. QED BY <1>6, <1>7

\* A search that made its list hands it to the fusion.
LEMMA ListedSearches ==
    ASSUME SearchInv, UNCHANGED <<corpus, ask>>, NEW near, near \in Seq(Memories), NEW window,
           run' = [run EXCEPT !.phase = "fuse", !.vec = VecHits(near, window)], Good(near),
           ask.vectors = "native" => Named(VecHits(near, window))
    PROVE  SearchInv'
<1>1. corpus \in Corpora /\ ask \in Requests /\ DOMAIN run = DOMAIN Idle
  BY DEF SearchInv
<1>2. DOMAIN run' = DOMAIN Idle /\ run'.phase = "fuse" /\ run'.vec = VecHits(near, window)
  BY <1>1, FieldsStand
<1>3. FoundNear' = near
  BY <1>2, HitsNameTheList
<1>4. Good(FoundNear)'
  BY <1>3, ListIsSet
<1>5. ask.vectors = "native" => Named(run.vec)'
  <2>1. PICK vec : vec = VecHits(near, window)
    OBVIOUS
  <2>2. QED BY <1>2, <2>1, NamesAreSet
<1>6. QED BY <1>1, <1>2, <1>4, <1>5 DEF SearchInv

LEMMA MergeSearches == ASSUME SearchInv, Merge PROVE SearchInv'
<1>1. /\ UNCHANGED <<corpus, ask>> /\ corpus \in Corpora /\ ask.vectors = "native"
      /\ LegSound("head", run.head) /\ LegSound("span", run.span)
  BY DEF SearchInv, Merge
<1>2. Merged \subseteq Visible(Persisted) /\ (Reached => Suffices(Merged))
  BY <1>1, MergedSuffice
<1>3. PICK near : near = NearestHolders(Merged)
  OBVIOUS
<1>4. /\ near \in Seq(Memories) /\ ToSet(near) \subseteq Wanted
      /\ Suffices(Merged) => Finds(near)
  BY <1>1, <1>2, <1>3, RowsThatSuffice
<1>5. Good(near)
  BY <1>1, <1>2, <1>4 DEF Good
<1>6. PICK window : window = [m \in Holders(Merged) |-> Origin(m)]
  OBVIOUS
<1>7. run' = [run EXCEPT !.phase = "fuse", !.vec = VecHits(near, window)]
  BY <1>3, <1>6 DEF Merge
<1>8. Named(VecHits(near, window))
  BY <1>1, <1>3, <1>6, MergeNames
<1>9. QED BY <1>1, <1>4, <1>5, <1>7, <1>8, ListedSearches

LEMMA ScanSearches == ASSUME SearchInv, Scan PROVE SearchInv'
<1>1. UNCHANGED <<corpus, ask>> /\ corpus \in Corpora /\ ask.vectors = "persisted"
  BY DEF SearchInv, Scan
<1>2. Suffices(Visible(Persisted))
  BY DEF Suffices
<1>3. PICK near : near = NearestHolders(Visible(Persisted))
  OBVIOUS
<1>4. near \in Seq(Memories) /\ ToSet(near) \subseteq Wanted /\ Finds(near)
  BY <1>1, <1>2, <1>3, RowsThatSuffice
<1>5. Good(near)
  BY <1>4 DEF Good
<1>6. PICK window : window = [m \in Memories |-> 0]
  OBVIOUS
<1>7. run' = [run EXCEPT !.phase = "fuse", !.vec = VecHits(near, window)]
  BY <1>3, <1>6 DEF Scan
<1>8. QED BY <1>1, <1>4, <1>5, <1>7, ListedSearches

\* After the fusion the list stands.
LEMMA ListStands ==
    ASSUME SearchInv, UNCHANGED <<corpus, ask>>, run.phase \in {"fuse", "answer", "done"},
           DOMAIN run' = DOMAIN run, run'.phase \in {"fuse", "answer", "done"}, run'.vec = run.vec
    PROVE  SearchInv'
<1>1. /\ corpus \in Corpora /\ ask \in Requests /\ DOMAIN run = DOMAIN Idle
      /\ ask.strategy \in {"recall", "union"} /\ ask.vectors # "off" => Good(FoundNear)
      /\ ask.strategy \in {"recall", "union"} /\ ask.vectors = "native" => Named(run.vec)
  BY DEF SearchInv
<1>2. Good(FoundNear) => Good(FoundNear)'
  <2>1. PICK list : list = FoundNear
    OBVIOUS
  <2>2. FoundNear' = list
    BY <2>1 DEF FoundNear
  <2>3. Good(FoundNear) => Good(list)
    BY <2>1
  <2>4. QED BY <2>2, <2>3, ListIsSet
<1>3. Named(run.vec) => Named(run.vec)'
  <2>1. PICK vec : vec = run.vec
    OBVIOUS
  <2>2. QED BY <2>1, NamesAreSet
<1>4. QED BY <1>1, <1>2, <1>3 DEF SearchInv

LEMMA FuseSearches == ASSUME SearchInv, Fuse PROVE SearchInv'
<1>1. UNCHANGED <<corpus, ask>> /\ run.phase = "fuse" /\ DOMAIN run = DOMAIN Idle
  BY DEF SearchInv, Fuse
<1>2. DOMAIN run' = DOMAIN run /\ run'.phase = "answer" /\ run'.vec = run.vec
  BY <1>1, FieldsStand DEF Fuse
<1>3. QED BY <1>1, <1>2, ListStands

LEMMA AnswerSearches == ASSUME SearchInv, Answer PROVE SearchInv'
<1>1. UNCHANGED <<corpus, ask>> /\ run.phase = "answer" /\ DOMAIN run = DOMAIN Idle
  BY DEF SearchInv, Answer
<1>2. DOMAIN run' = DOMAIN run /\ run'.phase = "done" /\ run'.vec = run.vec
  BY <1>1, FieldsStand DEF Answer
<1>3. QED BY <1>1, <1>2, ListStands

LEMMA PageSearches == ASSUME SearchInv, Page PROVE SearchInv'
<1>1. /\ UNCHANGED <<corpus, ask>> /\ run.phase = "page" /\ run.leg = "head"
      /\ ask.strategy \in {"timeline", "union"} /\ corpus \in Corpora /\ ask \in Requests
      /\ DOMAIN run = DOMAIN Idle
  BY DEF SearchInv, Page
<1>2. /\ DOMAIN run' = DOMAIN run /\ run'.leg = "head"
      /\ \/ run'.phase = "page"
         \/ run'.phase = IF ask.strategy = "union" THEN "text" ELSE "answer"
  BY <1>1, FieldsStand DEF Page
<1>3. QED BY <1>1, <1>2 DEF SearchInv

LEMMA AskAgainSearches == ASSUME SearchInv, AskAgain PROVE SearchInv'
<1>1. corpus' \in Corpora /\ ask' \in Requests /\ run' = Idle
  BY DEF SearchInv, AskAgain
<1>2. run'.phase = "idle" /\ run'.leg = "head" /\ DOMAIN run' = DOMAIN Idle
  BY <1>1 DEF Idle
<1>3. QED BY <1>1, <1>2 DEF SearchInv

LEMMA IdlingSearches == ASSUME SearchInv, UNCHANGED RecallVars PROVE SearchInv'
<1>1. UNCHANGED <<corpus, ask>> /\ run' = run
  BY DEF RecallVars
<1>2. CASE run.phase \in {"fuse", "answer", "done"}
  BY <1>1, <1>2, ListStands
<1>3. CASE run.phase \notin {"fuse", "answer", "done"}
  <2>1. LegSound("head", run.head) => LegSound("head", run.head)'
    <3>1. PICK rows : rows = run.head
      OBVIOUS
    <3>2. QED BY <1>1, <3>1, HeadIsSet
  <2>2. LegSound("span", run.span) => LegSound("span", run.span)'
    <3>1. PICK rows : rows = run.span
      OBVIOUS
    <3>2. QED BY <1>1, <3>1, SpanIsSet
  <2>3. QED BY <1>1, <1>3, <2>1, <2>2 DEF SearchInv
<1>4. QED BY <1>2, <1>3

\* Every recall keeps the invariant of its search.
THEOREM SearchInvariant == RecallSpec => []SearchInv
<1>1. RecallInit => SearchInv
  <2> SUFFICES ASSUME RecallInit PROVE SearchInv
    OBVIOUS
  <2>1. corpus \in Corpora /\ ask \in Requests /\ run = Idle
    BY DEF RecallInit
  <2>2. run.phase = "idle" /\ run.leg = "head"
    BY <2>1 DEF Idle
  <2>3. QED BY <2>1, <2>2 DEF SearchInv
<1>2. SearchInv /\ [RecallNext]_RecallVars => SearchInv'
  <2> SUFFICES ASSUME SearchInv, [RecallNext]_RecallVars PROVE SearchInv'
    OBVIOUS
  <2>1. CASE Ask
    BY <2>1, AskSearches
  <2>2. CASE Match
    BY <2>2, MatchSearches
  <2>3. CASE Search
    BY <2>3, SearchSearches
  <2>4. CASE Widen
    BY <2>4, WidenSearches
  <2>5. CASE Merge
    BY <2>5, MergeSearches
  <2>6. CASE Scan
    BY <2>6, ScanSearches
  <2>7. CASE Fuse
    BY <2>7, FuseSearches
  <2>8. CASE Page
    BY <2>8, PageSearches
  <2>9. CASE Answer
    BY <2>9, AnswerSearches
  <2>10. CASE AskAgain
    BY <2>10, AskAgainSearches
  <2>11. CASE UNCHANGED RecallVars
    BY <2>11, IdlingSearches
  <2>12. QED
    BY <2>1, <2>2, <2>3, <2>4, <2>5, <2>6, <2>7, <2>8, <2>9, <2>10, <2>11 DEF RecallNext
<1>3. QED BY <1>1, <1>2, PTL DEF RecallSpec

-----------------------------------------------------------------------------
(* Recall: the timeline.                                                    *)

\* A list is the newest current memories, as many as were asked for.
NewestOf(list) ==
    /\ Len(list) = Min({Asked, Cardinality(Current)})
    /\ ToSet(list) \subseteq Current
    /\ \A m \in Current \ ToSet(list), n \in ToSet(list) : Time[m] <= Time[n]

\* The current memories among the events read so far.
ReadSoFar(n) == {Events[i] : i \in 1 .. n} \cap Current

\* The inductive invariant of the timeline: the pages read are a beginning of
\* the events, what is merged is all that is current in them, and what was
\* handed on is the newest.
TimelineInv ==
    /\ ask \in Requests /\ DOMAIN run = DOMAIN Idle
    /\ run.phase = "idle" => run.page = 0 /\ run.merged = {}
    /\ run.phase = "page" =>
          /\ ask.strategy \in {"timeline", "union"}
          /\ run.page \in 0 .. Cardinality(Memories) /\ run.merged = ReadSoFar(run.page)
    /\ run.phase \in {"text", "near", "widen", "merge", "scan", "fuse"} => ask.strategy # "timeline"
    /\ run.phase \notin {"idle", "page"} /\ ask.strategy = "union" => NewestOf(run.timeline)
    /\ run.phase \notin {"idle", "page"} /\ ask.strategy = "timeline" => NewestOf(run.hits)

\* Events are all memories, the latest first.
LEMMA EventsOrder ==
    /\ IsFiniteSet(Memories) /\ Cardinality(Memories) \in Nat
    /\ Events \in Seq(Memories) /\ Len(Events) = Cardinality(Memories)
    /\ \A m \in Memories : \E i \in 1 .. Cardinality(Memories) : Events[i] = m
    /\ \A i, j \in 1 .. Cardinality(Memories) : i < j => Age[Events[i]] <= Age[Events[j]]
    /\ \A m \in Memories : Age[m] \in Int /\ Age[m] = -Time[m] /\ Time[m] \in Nat
<1>1. IsFiniteSet(Memories) /\ Memories \subseteq Nat /\ Time \in [Memories -> Nat]
  BY MemoriesAreNumbered
<1>2. \A m \in Memories : Age[m] \in Int /\ Age[m] = -Time[m] /\ Time[m] \in Nat
  BY <1>1 DEF Age
<1> DEFINE number == [x \in Memories |-> x]
<1>3. \A m \in Memories : Age[m] \in Int /\ number[m] \in Int
  BY <1>1, <1>2
<1>4. Events = Sorted(SortKeys(Memories, Age, number))
  BY DEF Events
<1> HIDE DEF number
<1>5. LET list == Sorted(SortKeys(Memories, Age, number)) IN
      /\ list \in Seq(Memories) /\ Len(list) = Cardinality(Memories)
      /\ \A m \in Memories : \E i \in 1 .. Cardinality(Memories) : list[i] = m
      /\ \A i, j \in 1 .. Cardinality(Memories) : i < j => Age[list[i]] <= Age[list[j]]
  <2>1. Memories \subseteq Memories
    OBVIOUS
  <2>2. QED BY <1>3, <2>1, SortedOrders
<1>6. QED BY <1>1, <1>2, <1>4, <1>5, FS_CardinalityType

\* How many are asked for is a number.
LEMMA AskedIsNumber == ASSUME ask \in Requests PROVE Asked \in Nat \ {0}
BY RequestsTyped, WidthsPositive DEF Asked

\* A page takes what was read further, as far as it goes.
LEMMA PageReads ==
    ASSUME ask \in Requests, NEW p \in 0 .. Cardinality(Memories)
    PROVE  LET rows == SubSeq(Events, p + 1, Min({p + Asked, Len(Events)})) IN
           /\ p + Len(rows) \in 0 .. Cardinality(Memories)
           /\ Len(rows) \in Nat
           /\ Len(rows) < Asked => p + Len(rows) = Cardinality(Memories)
           /\ ReadSoFar(p) \cup {m \in ToSet(rows) : corpus[m].kind # "superseded"}
                 = ReadSoFar(p + Len(rows))
<1> DEFINE size == Cardinality(Memories)
           last == Min({p + Asked, Len(Events)})
           rows == SubSeq(Events, p + 1, last)
<1>1. /\ size \in Nat /\ Events \in Seq(Memories) /\ Len(Events) = size
      /\ Asked \in Nat \ {0} /\ p \in Nat /\ p <= size
  BY EventsOrder, AskedIsNumber
<1> HIDE DEF size
<1>2. last = IF p + Asked <= size THEN p + Asked ELSE size
  BY <1>1, OfTwo
<1>3. last \in p .. size /\ (last < p + Asked => last = size)
  BY <1>1, <1>2
<1> HIDE DEF last
<1>4. Len(rows) = last - p /\ \A i \in 1 .. Len(rows) : rows[i] = Events[p + i]
  BY <1>1, <1>3, SubSeqProperties
<1>5. DOMAIN rows = 1 .. last - p
  <2>1. rows \in Seq(Memories)
    BY <1>1, <1>3, SubSeqProperties
  <2>2. QED BY <1>4, <2>1
<1> HIDE DEF rows
<1>6. ToSet(rows) = {Events[i] : i \in p + 1 .. last}
  <2>1. ASSUME NEW m \in ToSet(rows) PROVE m \in {Events[i] : i \in p + 1 .. last}
    <3>1. PICK i \in 1 .. last - p : m = rows[i]
      BY <1>5 DEF ToSet
    <3>2. p + i \in p + 1 .. last /\ m = Events[p + i]
      BY <1>1, <1>3, <1>4, <3>1
    <3>3. QED BY <3>2
  <2>2. ASSUME NEW i \in p + 1 .. last PROVE Events[i] \in ToSet(rows)
    <3>1. i - p \in 1 .. last - p /\ p + (i - p) = i
      BY <1>1, <1>3
    <3>2. rows[i - p] = Events[i]
      BY <1>4, <3>1
    <3>3. QED BY <1>5, <3>1, <3>2 DEF ToSet
  <2>3. QED BY <2>1, <2>2
<1>7. \A i \in p + 1 .. last : Events[i] \in Memories
  BY <1>1, <1>3
<1>8. 1 .. last = (1 .. p) \cup (p + 1 .. last)
  BY <1>1, <1>3
<1>9. ReadSoFar(p) \cup {m \in ToSet(rows) : corpus[m].kind # "superseded"} = ReadSoFar(last)
  BY <1>6, <1>7, <1>8 DEF ReadSoFar, Current
<1>10. p + Len(rows) = last
  BY <1>1, <1>3, <1>4
<1>11. /\ p + Len(rows) \in 0 .. size /\ Len(rows) \in Nat
       /\ Len(rows) < Asked => p + Len(rows) = size
  BY <1>1, <1>3, <1>4
<1>12. QED BY <1>9, <1>10, <1>11 DEF rows, last, size

\* When enough are merged, or nothing is left to read, the newest of what is
\* merged are the newest of all.
LEMMA FullIsEnough ==
    ASSUME ask \in Requests, NEW n \in 0 .. Cardinality(Memories),
           Cardinality(ReadSoFar(n)) >= Asked \/ n = Cardinality(Memories)
    PROVE  NewestOf(Newest(ReadSoFar(n)))
<1> DEFINE size == Cardinality(Memories)
           read == ReadSoFar(n)
           list == Newest(read)
<1>1. /\ IsFiniteSet(Memories) /\ size \in Nat /\ Events \in Seq(Memories) /\ Len(Events) = size
      /\ \A m \in Memories : \E i \in 1 .. size : Events[i] = m
      /\ \A i, j \in 1 .. size : i < j => Age[Events[i]] <= Age[Events[j]]
      /\ \A m \in Memories : Age[m] \in Int /\ Age[m] = -Time[m] /\ Time[m] \in Nat
      /\ Asked \in Nat
  BY EventsOrder, AskedIsNumber
<1>2. Current \in SUBSET Memories /\ read \in SUBSET Current
  BY DEF Current, ReadSoFar
<1>3. /\ IsFiniteSet(Current) /\ IsFiniteSet(read)
      /\ Cardinality(Current) \in Nat /\ Cardinality(read) \in Nat
      /\ Cardinality(read) <= Cardinality(Current)
  BY <1>1, <1>2, FS_Subset, FS_CardinalityType
<1>4. /\ Len(list) = Min({Asked, Cardinality(read)})
      /\ ToSet(list) \subseteq read
      /\ \A x \in ToSet(list), y \in read \ ToSet(list) : Age[x] <= Age[y]
  <2>1. read \subseteq Memories /\ \A m \in read : Age[m] \in Int
    BY <1>1, <1>2
  <2>2. list = Top(Ranking(read, Age), Asked)
    BY DEF Newest
  <2> HIDE DEF list, read
  <2>3. QED BY <1>1, <2>1, <2>2, TopRanksFirst
<1>5. \A m \in Current \ read, x \in read : Age[x] <= Age[m]
  <2> SUFFICES ASSUME NEW m \in Current \ read, NEW x \in read PROVE Age[x] <= Age[m]
    OBVIOUS
  <2>1. PICK i \in 1 .. n : x = Events[i]
    BY DEF ReadSoFar
  <2>2. PICK j \in 1 .. size : m = Events[j]
    BY <1>1, <1>2
  <2>3. j \notin 1 .. n
    BY <2>2 DEF ReadSoFar
  <2>4. i < j /\ i \in 1 .. size
    BY <1>1, <2>3
  <2>5. QED BY <1>1, <2>1, <2>2, <2>4
<1>6. n = size => read = Current
  BY <1>1, <1>2 DEF ReadSoFar
<1> HIDE DEF list, read, size
<1>7. Len(list) = Min({Asked, Cardinality(Current)})
  <2>1. CASE Cardinality(read) >= Asked
    <3>1. Min({Asked, Cardinality(read)}) = Asked
      BY <1>1, <1>3, <2>1, OfTwo
    <3>2. Min({Asked, Cardinality(Current)}) = Asked
      BY <1>1, <1>3, <2>1, OfTwo
    <3>3. QED BY <1>4, <3>1, <3>2
  <2>2. CASE n = size
    BY <1>4, <1>6, <2>2
  <2>3. QED BY <2>1, <2>2 DEF read, size
<1>8. \A m \in Current \ ToSet(list), x \in ToSet(list) : Time[m] <= Time[x]
  <2> SUFFICES ASSUME NEW m \in Current \ ToSet(list), NEW x \in ToSet(list)
               PROVE  Time[m] <= Time[x]
    OBVIOUS
  <2>1. Age[x] <= Age[m]
    BY <1>4, <1>5
  <2>2. m \in Memories /\ x \in Memories
    BY <1>2, <1>4
  <2>3. QED BY <1>1, <2>1, <2>2
<1>9. ToSet(list) \subseteq Current
  BY <1>2, <1>4
<1>10. NewestOf(list)
  BY <1>7, <1>8, <1>9 DEF NewestOf
<1>11. QED BY <1>10 DEF list, read

\* What is newest stays so while nothing is written and the request is the same.
LEMMA NewestStand ==
    ASSUME UNCHANGED <<corpus, ask>>, NEW list
    PROVE  NewestOf(list)' <=> NewestOf(list)
BY DEF NewestOf, Current, Asked

LEMMA TimelineIsSet ==
    ASSUME UNCHANGED <<corpus, ask>>, NEW list, NewestOf(list)
    PROVE  /\ run'.timeline = list => NewestOf(run.timeline)'
           /\ run'.hits = list => NewestOf(run.hits)'
<1>1. NewestOf(list)'
  BY NewestStand
<1>2. QED BY <1>1 DEF NewestOf

\* A step that leaves the timeline and the hits of a timeline alone keeps them.
LEMMA TimelineStands ==
    ASSUME TimelineInv, UNCHANGED <<corpus, ask>>, run.phase \notin {"idle", "page"},
           run'.phase \notin {"idle", "page"}, DOMAIN run' = DOMAIN run,
           run'.timeline = run.timeline, ask.strategy = "timeline" => run'.hits = run.hits,
           run'.phase \in {"text", "near", "widen", "merge", "scan", "fuse"} =>
              ask.strategy # "timeline"
    PROVE  TimelineInv'
<1>1. PICK shown, list : shown = run.timeline /\ list = run.hits
  OBVIOUS
<1>2. /\ ask \in Requests /\ DOMAIN run = DOMAIN Idle
      /\ ask.strategy = "union" => NewestOf(shown)
      /\ ask.strategy = "timeline" => NewestOf(list)
  BY <1>1 DEF TimelineInv
<1>3. /\ ask.strategy = "union" => NewestOf(run.timeline)'
      /\ ask.strategy = "timeline" => NewestOf(run.hits)'
  BY <1>1, <1>2, TimelineIsSet
<1>4. QED BY <1>2, <1>3 DEF TimelineInv

\* A search touches neither.
LEMMA SearchKeepsTimeline ==
    ASSUME TimelineInv, Match \/ Search \/ Widen \/ Merge \/ Scan
    PROVE  TimelineInv'
<1>1. /\ UNCHANGED <<corpus, ask>> /\ ask \in Requests /\ DOMAIN run = DOMAIN Idle
      /\ run.phase \in {"text", "near", "widen", "merge", "scan"} /\ ask.strategy # "timeline"
  BY DEF TimelineInv, Match, Search, Widen, Merge, Scan
<1>2. /\ DOMAIN run' = DOMAIN run /\ run'.timeline = run.timeline
      /\ run'.phase \in {"text", "near", "widen", "merge", "scan", "fuse"}
  <2>1. \A rows : LET after == Settled(rows) IN
           /\ DOMAIN after = DOMAIN run /\ after.timeline = run.timeline
           /\ after.phase \in {"near", "merge"}
    BY <1>1, FieldsStand DEF Settled
  <2>2. CASE Match
    <3>1. ask.vectors \in {"off", "native", "persisted"}
      BY <1>1, RequestsTyped
    <3>2. QED BY <1>1, <2>2, <3>1, FieldsStand DEF Match
  <2>3. CASE Search
    <3>1. PICK width, rows, seen :
             \/ run' = Settled(rows)
             \/ run' = [run EXCEPT !.phase = "widen", !.width = width, !.seen = seen]
      BY <2>3 DEF Search
    <3>2. QED BY <1>1, <2>1, <3>1, FieldsStand
  <2>4. CASE Widen
    <3>1. PICK width, rows, seen :
             \/ run' = Settled(rows)
             \/ run' = [run EXCEPT !.width = width, !.seen = seen]
      BY <2>4 DEF Widen
    <3>2. QED BY <1>1, <2>1, <3>1, FieldsStand
  <2>5. CASE Merge \/ Scan
    <3>1. PICK list : run' = [run EXCEPT !.phase = "fuse", !.vec = list]
      BY <2>5 DEF Merge, Scan
    <3>2. QED BY <1>1, <3>1, FieldsStand
  <2>6. QED BY <2>2, <2>3, <2>4, <2>5
<1>3. QED BY <1>1, <1>2, TimelineStands

\* The fusion sets the hits, of a union or of no timeline at all.
LEMMA FuseKeepsTimeline == ASSUME TimelineInv, Fuse PROVE TimelineInv'
<1>1. /\ UNCHANGED <<corpus, ask>> /\ DOMAIN run = DOMAIN Idle /\ run.phase = "fuse"
      /\ ask.strategy # "timeline"
  BY DEF TimelineInv, Fuse
<1>2. DOMAIN run' = DOMAIN run /\ run'.timeline = run.timeline /\ run'.phase = "answer"
  BY <1>1, FieldsStand DEF Fuse
<1>3. QED BY <1>1, <1>2, TimelineStands

LEMMA AnswerKeepsTimeline == ASSUME TimelineInv, Answer PROVE TimelineInv'
<1>1. UNCHANGED <<corpus, ask>> /\ DOMAIN run = DOMAIN Idle /\ run.phase = "answer"
  BY DEF TimelineInv, Answer
<1>2. /\ DOMAIN run' = DOMAIN run /\ run'.timeline = run.timeline /\ run'.hits = run.hits
      /\ run'.phase = "done"
  BY <1>1, FieldsStand DEF Answer
<1>3. QED BY <1>1, <1>2, TimelineStands

\* A timeline starts with nothing read and nothing merged.
LEMMA AskKeepsTimeline == ASSUME TimelineInv, Ask PROVE TimelineInv'
<1>1. /\ UNCHANGED <<corpus, ask>> /\ DOMAIN run = DOMAIN Idle /\ ask \in Requests
      /\ run.page = 0 /\ run.merged = {}
      /\ ask.strategy \in {"recall", "timeline", "union", "events"}
  BY RequestsTyped DEF TimelineInv, Ask
<1>2. /\ DOMAIN run' = DOMAIN Idle /\ run'.page = 0 /\ run'.merged = {}
      /\ run'.phase = CASE ask.strategy = "recall" -> "text"
                        [] ask.strategy \in {"timeline", "union"} -> "page"
                        [] ask.strategy = "events" -> "answer"
  BY <1>1, FieldsStand DEF Ask
<1>3. ReadSoFar(0)' = {}
  BY DEF ReadSoFar
<1>4. 0 \in 0 .. Cardinality(Memories)
  BY EventsOrder
<1>5. run'.phase = "page" => (run.merged = ReadSoFar(run.page))'
  BY <1>2 DEF ReadSoFar
<1>6. QED BY <1>1, <1>2, <1>4, <1>5 DEF TimelineInv

\* A page reads on, or hands on the newest of what was read.
LEMMA PageKeepsTimeline == ASSUME TimelineInv, Page PROVE TimelineInv'
<1>1. /\ UNCHANGED <<corpus, ask>> /\ DOMAIN run = DOMAIN Idle /\ ask \in Requests
      /\ run.phase = "page" /\ ask.strategy \in {"timeline", "union"}
      /\ run.page \in 0 .. Cardinality(Memories) /\ run.merged = ReadSoFar(run.page)
  BY DEF TimelineInv, Page
<1>2. PICK p \in 0 .. Cardinality(Memories) : p = run.page /\ run.merged = ReadSoFar(p)
  BY <1>1
<1>3. PICK rows : rows = SubSeq(Events, p + 1, Min({p + Asked, Len(Events)}))
  OBVIOUS
<1>4. PICK merged : merged = ReadSoFar(p) \cup {m \in ToSet(rows) : corpus[m].kind # "superseded"}
  OBVIOUS
<1>5. PICK next : next = p + Len(rows)
  OBVIOUS
<1>6. /\ next \in 0 .. Cardinality(Memories) /\ merged = ReadSoFar(next)
      /\ Len(rows) < Asked => next = Cardinality(Memories)
  BY <1>1, <1>3, <1>4, <1>5, PageReads
<1>7. PICK list : list = Newest(merged)
  OBVIOUS
<1>8. run' = IF ~Full(merged, rows)
             THEN [run EXCEPT !.merged = merged, !.page = next]
             ELSE [run EXCEPT !.merged = {}, !.page = 0, !.timeline = list,
                              !.hits = IF ask.strategy = "union" THEN <<>> ELSE list,
                              !.phase = IF ask.strategy = "union" THEN "text" ELSE "answer"]
  BY <1>1, <1>2, <1>3, <1>4, <1>5, <1>7 DEF Page
<1>9. CASE ~Full(merged, rows)
  <2>1. /\ DOMAIN run' = DOMAIN Idle /\ run'.phase = "page" /\ run'.page = next
        /\ run'.merged = merged
    BY <1>1, <1>8, <1>9, FieldsStand
  <2>2. ReadSoFar(next)' = ReadSoFar(next)
    BY <1>1 DEF ReadSoFar, Current
  <2>3. (run.merged = ReadSoFar(run.page))'
    BY <1>6, <2>1, <2>2 DEF ReadSoFar
  <2>4. QED BY <1>1, <1>6, <2>1, <2>3 DEF TimelineInv
<1>10. CASE Full(merged, rows)
  <2>1. /\ DOMAIN run' = DOMAIN Idle /\ run'.timeline = list
        /\ ask.strategy = "timeline" => run'.hits = list /\ run'.phase = "answer"
        /\ ask.strategy = "union" => run'.phase = "text"
    BY <1>1, <1>8, <1>10, FieldsStand
  <2>2. Cardinality(merged) >= Asked \/ next = Cardinality(Memories)
    BY <1>6, <1>10 DEF Full
  <2>3. NewestOf(list)
    BY <1>1, <1>6, <1>7, <2>2, FullIsEnough
  <2>4. /\ NewestOf(run.timeline)'
        /\ ask.strategy = "timeline" => NewestOf(run.hits)'
    BY <1>1, <2>1, <2>3, TimelineIsSet
  <2>5. QED BY <1>1, <2>1, <2>4 DEF TimelineInv
<1>11. QED BY <1>9, <1>10

LEMMA AskAgainKeepsTimeline == ASSUME TimelineInv, AskAgain PROVE TimelineInv'
<1>1. ask' \in Requests /\ run' = Idle
  BY DEF AskAgain
<1>2. run'.phase = "idle" /\ run'.page = 0 /\ run'.merged = {} /\ DOMAIN run' = DOMAIN Idle
  BY <1>1 DEF Idle
<1>3. QED BY <1>1, <1>2 DEF TimelineInv

LEMMA IdlingKeepsTimeline == ASSUME TimelineInv, UNCHANGED RecallVars PROVE TimelineInv'
BY DEF TimelineInv, RecallVars, NewestOf, ReadSoFar, Current, Asked

\* Every recall keeps the invariant of its timeline.
THEOREM TimelineInvariant == RecallSpec => []TimelineInv
<1>1. RecallInit => TimelineInv
  <2> SUFFICES ASSUME RecallInit PROVE TimelineInv
    OBVIOUS
  <2>1. ask \in Requests /\ run = Idle
    BY DEF RecallInit
  <2>2. run.phase = "idle" /\ run.page = 0 /\ run.merged = {}
    BY <2>1 DEF Idle
  <2>3. QED BY <2>1, <2>2 DEF TimelineInv
<1>2. TimelineInv /\ [RecallNext]_RecallVars => TimelineInv'
  <2> SUFFICES ASSUME TimelineInv, [RecallNext]_RecallVars PROVE TimelineInv'
    OBVIOUS
  <2>1. CASE Ask
    BY <2>1, AskKeepsTimeline
  <2>2. CASE Match \/ Search \/ Widen \/ Merge \/ Scan
    BY <2>2, SearchKeepsTimeline
  <2>3. CASE Fuse
    BY <2>3, FuseKeepsTimeline
  <2>4. CASE Page
    BY <2>4, PageKeepsTimeline
  <2>5. CASE Answer
    BY <2>5, AnswerKeepsTimeline
  <2>6. CASE AskAgain
    BY <2>6, AskAgainKeepsTimeline
  <2>7. CASE UNCHANGED RecallVars
    BY <2>7, IdlingKeepsTimeline
  <2>8. QED
    BY <2>1, <2>2, <2>3, <2>4, <2>5, <2>6, <2>7 DEF RecallNext
<1>3. QED BY <1>1, <1>2, PTL DEF RecallSpec

\* Each way of searching finds what there is to find: by meaning the nearest
\* memories a request may see, by time the newest current ones, each as many as
\* were asked for if there are so many, and each hit of the index names the
\* window it is near by.  For every snapshot, request, width and ceiling,
\* whatever the hidden rows, the windows of one memory and the order of rows at
\* one distance (_knn_eligible, _span_hits, _vec_hits, run_timeline).
THEOREM SearchesFindAll == RecallSpec => []SearchesAreComplete
<1>1. SearchInv => NearestAreFound
  BY DEF SearchInv, NearestAreFound, Answered, Good, Finds
<1>2. SearchInv => WindowIsNamed
  BY DEF SearchInv, WindowIsNamed, Answered, Named
<1>3. TimelineInv => TimelineIsNewest
  BY DEF TimelineInv, TimelineIsNewest, Answered, NewestOf
<1>4. SearchInv /\ TimelineInv => SearchesAreComplete
  BY <1>1, <1>2, <1>3 DEF SearchesAreComplete
<1>5. QED BY <1>4, SearchInvariant, TimelineInvariant, PTL
=============================================================================
