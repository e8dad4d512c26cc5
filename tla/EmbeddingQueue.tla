---------------------------- MODULE EmbeddingQueue ----------------------------
(***************************************************************************)
(* The vector index of one namespace and everything that writes it:        *)
(* observe, contradict, process_embedding_jobs, drain_embedding_queue,     *)
(* reembed, the stamp bootstrap puts on the default namespace, and purge.  *)
(*                                                                         *)
(* A process loads one embedding model, or none, for its life.  The model  *)
(* is slow, so the code reads what to embed, calls the model with no       *)
(* transaction open, and writes afterwards.  Each write transaction is one *)
(* step here, each statement that commits by itself another, and the steps *)
(* of other processes fall in between.                                     *)
(*                                                                         *)
(* A vector is represented by the model that made it.  The tables of the   *)
(* namespace are one record, db; the operators on it are the statements    *)
(* the code groups into a helper.                                          *)
(***************************************************************************)
EXTENDS FiniteSets, FiniteSetsExt, Integers

CONSTANTS MaxMem,       \* memories ever observed; an id is its place in insertion order
          Proc,         \* processes that open the namespace for writing
          Model,        \* embedding models
          Dim,          \* the dimension of each model's vectors
          Kinds,        \* what observe may be given, of AllKinds
          Ops,          \* the operations callers use, of AllOps
          Limit,        \* rows per call of process_embedding_jobs
          Chunk,        \* rows per chunk of reembed
          DrainBound,   \* HAUNT_EMBED_DRAIN_LIMIT
          MaxAttempts,  \* HAUNT_EMBED_MAX_ATTEMPTS
          Transient,    \* whether the model may also fail on good rows
          None          \* no model, no vector

AllKinds == {"short", "long", "blank", "poison", "skipped"}

AllOps == {"defer", "observe", "contradict", "maintain", "bootstrap",
           "bootstrap_default", "reembed", "purge", "crash"}

ASSUME ConstantsTyped ==
    /\ {MaxMem, Limit, Chunk, DrainBound, MaxAttempts} \subseteq Nat \ {0}
    /\ Dim \in [Model -> Nat \ {0}]
    /\ Kinds \subseteq AllKinds /\ Ops \subseteq AllOps
    /\ Transient \in BOOLEAN
    /\ None \notin Model \cup AllKinds

VARIABLES db,      \* the tables
          pc,      \* where each process is
          op,      \* the operation it performs
          loaded,  \* its model, None when none can be loaded
          todo,    \* the ids it has read and not yet written
          tails,   \* the ids whose head it wrote and whose spans it owes
          left     \* rows its drain loop may still take

vars == <<db, pc, op, loaded, todo, tails, left>>

Mem == 1..MaxMem
Vector == Model \cup {None}
NoJob == -1

-----------------------------------------------------------------------------
(* The tables. kind is the content a row was observed with; it outlives the *)
(* row because a process may still hold the text it read.                   *)

EmptyDb ==
    [live |-> {}, kind |-> [m \in Mem |-> None],
     job |-> [m \in Mem |-> NoJob],             \* embedding_jobs.attempts
     blob |-> [m \in Mem |-> None],             \* memories.embedding
     vec |-> [m \in Mem |-> None], vecDim |-> 0,      \* vec_memories, 0: no such table
     spanRow |-> [m \in Mem |-> None],          \* memory_spans
     spanVec |-> [m \in Mem |-> None], spanDim |-> 0, \* vec_memory_spans
     metaModel |-> None, metaDim |-> 0]         \* meta embed_model, embed_dim

Cleared == [m \in Mem |-> None]

Born(d) == {m \in Mem : d.kind[m] # None}

NeedsVector(d, m) == d.kind[m] \notin {"blank", "skipped"}

DropHeads(d) == [d EXCEPT !.vec = Cleared, !.vecDim = 0]
DropTails(d) == [d EXCEPT !.spanVec = Cleared, !.spanDim = 0]
ForgetTails(d) == [d EXCEPT !.spanRow = Cleared]
CreateHeads(d, dim) == [d EXCEPT !.vecDim = IF @ = 0 THEN dim ELSE @]

OtherDimension(d, dim) == d.metaDim \notin {0, dim}

\* ensure_vec_table inside a transaction: a dimension other than the recorded
\* one drops both indexes.
EnsureVecTable(d, dim) ==
    LET e == IF OtherDimension(d, dim) THEN ForgetTails(DropTails(DropHeads(d))) ELSE d
    IN  [CreateHeads(e, dim) EXCEPT !.metaDim = dim]

\* Faulty variant: the rows are deleted first, so that no vector is found.
DropSpanRowsFirst(d, m) == [d EXCEPT !.spanRow[m] = None]

\* _drop_memory_spans finds the span vectors through the span rows.
DropSpans(d, m) ==
    [d EXCEPT !.spanVec[m] = IF d.spanRow[m] = None THEN @ ELSE None,
              !.spanRow[m] = None]

\* Faulty variant: the span rows have no foreign key.
Tailed(d, ms) == {m \in ms : d.kind[m] = "long"}

\* The rows persist_memory_spans inserts: the foreign key refuses those of an
\* erased memory.
TailRows(d, ms) == {m \in ms : d.kind[m] = "long" /\ m \in d.live}

\* persist_memory_spans. A vector of another dimension, or under an id the
\* index still holds, is refused; the memory's tail is then dropped again.
PersistSpans(d, ms, model) ==
    LET sdim == IF d.spanDim = 0 /\ ms # {} THEN Dim[model] ELSE d.spanDim
        free == {m \in Mem : d.spanVec[m] = None \/ d.spanRow[m] # None}
        tried == TailRows(d, ms)
        put == IF sdim = Dim[model] THEN tried \cap free ELSE {}
        gone == tried \cup {m \in ms : d.spanRow[m] # None}
    IN  [d EXCEPT !.spanDim = sdim,
                  !.spanRow = [m \in Mem |-> IF m \in put THEN model
                                             ELSE IF m \in ms THEN None ELSE @[m]],
                  !.spanVec = [m \in Mem |-> IF m \in put THEN model
                                             ELSE IF m \in gone THEN None ELSE @[m]]]

\* Faulty variants: a failed row leaves the queue; a failure is not counted.
JobsDropped(d, batch, stored) == [m \in Mem |-> IF m \in batch THEN NoJob ELSE d.job[m]]
JobsUncounted(d, batch, stored) == [m \in Mem |-> IF m \in stored THEN NoJob ELSE d.job[m]]

\* A stored row leaves the queue, a failed one has its attempt counted.
JobsAfter(d, batch, stored) ==
    [m \in Mem |-> IF m \in stored THEN NoJob
                   ELSE IF m \in batch /\ d.job[m] # NoJob THEN d.job[m] + 1 ELSE d.job[m]]

\* The write transaction of process_embedding_jobs for a batch that was read
\* earlier; the model produced no vector for the rows in failed.
WriteHeads(d, batch, failed, model) ==
    LET embedded == batch \ failed
        stored == IF d.vecDim = Dim[model] THEN embedded ELSE {}
    IN  [d EXCEPT
          !.blob = [m \in Mem |-> IF m \in embedded \cap d.live THEN model ELSE @[m]],
          !.vec = [m \in Mem |-> IF m \in stored THEN model
                                 ELSE IF m \in embedded THEN None ELSE @[m]],
          !.job = JobsAfter(d, batch, stored),
          !.metaModel = model, !.metaDim = Dim[model]]

\* The write transaction of observe for a new row.
InsertRow(d, m, k, model, embed) ==
    LET row == [d EXCEPT !.live = @ \cup {m}, !.kind[m] = k]
        e == [EnsureVecTable(row, Dim[model]) EXCEPT
                !.metaModel = model, !.metaDim = Dim[model], !.blob[m] = model]
        indexed == [e EXCEPT !.vec[m] = IF e.vecDim = Dim[model] THEN model ELSE None]
    IN  IF k \in {"blank", "skipped"} THEN row
        ELSE IF embed THEN PersistSpans(indexed, {m}, model)
        ELSE [row EXCEPT !.job[m] = 0]

\* reembed inserts plainly: refused where a vector already stands.
Rebuilt(d, chunk, model) == {m \in chunk : d.vecDim = Dim[model] /\ d.vec[m] = None}

\* The write transaction of one chunk of reembed.
WriteChunk(d, chunk, model) ==
    LET rebuilt == Rebuilt(d, chunk, model)
    IN  [d EXCEPT
          !.blob = [m \in Mem |-> IF m \in chunk \cap d.live THEN model ELSE @[m]],
          !.vec = [m \in Mem |-> IF m \in rebuilt THEN model ELSE @[m]],
          !.job = [m \in Mem |-> IF m \in rebuilt THEN NoJob ELSE @[m]]]

\* Faulty variant: rows whose vector is being dropped are not queued.
RequeueUnembedded(d) ==
    [ForgetTails(d) EXCEPT
      !.blob = Cleared,
      !.job = [m \in Mem |-> IF m \in d.live /\ d.blob[m] = None /\ NeedsVector(d, m) /\ @[m] = NoJob
                             THEN 0 ELSE @[m]]]

\* reembed with no model: everything that can be embedded is queued again.
Requeue(d) ==
    [ForgetTails(d) EXCEPT
      !.blob = Cleared,
      !.job = [m \in Mem |-> IF m \in d.live /\ NeedsVector(d, m) /\ @[m] = NoJob
                             THEN 0 ELSE @[m]]]

\* The derived rows a purge deletes; the foreign key takes the job along.
Erase(d, m) ==
    [DropSpans(d, m) EXCEPT !.live = @ \ {m}, !.blob[m] = None, !.vec[m] = None,
                            !.job[m] = NoJob]

\* Jobs process_embedding_jobs may take, oldest first.
Drainable(d) == {m \in d.live : d.job[m] \in 0..(MaxAttempts - 1) /\ d.kind[m] # "skipped"}

First(n, s) == {m \in s : Cardinality({k \in s : k < m}) < n}

\* embeddings_stale: one sampled blob and the two meta values.
Stale(d, model) ==
    LET embedded == {m \in d.live : d.blob[m] # None} IN
    /\ model # None
    /\ \/ embedded # {} /\ Dim[d.blob[Min(embedded)]] # Dim[model]
       \/ d.metaDim \notin {0, Dim[model]}
       \/ d.metaModel \notin {None, model}

-----------------------------------------------------------------------------
Init ==
    /\ db = EmptyDb
    /\ pc = [p \in Proc |-> "idle"]
    /\ op = [p \in Proc |-> None]
    /\ loaded \in [Proc -> Vector]
    /\ todo = [p \in Proc |-> {}]
    /\ tails = [p \in Proc |-> {}]
    /\ left = [p \in Proc |-> 0]

Goto(p, label) == pc' = [pc EXCEPT ![p] = label]

\* Faulty variant: an operation ends with rows still in hand.
FinishHoldingRows(p) ==
    /\ Goto(p, "idle")
    /\ op' = [op EXCEPT ![p] = None]
    /\ left' = [left EXCEPT ![p] = 0]
    /\ UNCHANGED <<todo, tails>>

Finish(p) ==
    /\ Goto(p, "idle")
    /\ op' = [op EXCEPT ![p] = None]
    /\ todo' = [todo EXCEPT ![p] = {}]
    /\ tails' = [tails EXCEPT ![p] = {}]
    /\ left' = [left EXCEPT ![p] = 0]

\* The next memory id, while the instance has one.
NextMem == {m \in Mem : m \notin Born(db) /\ \A k \in Mem \ Born(db) : m <= k}

\* A hook writes: no model is loaded, the row is queued.
ObserveDeferred ==
    /\ "defer" \in Ops
    /\ \E m \in NextMem, k \in Kinds : db' = InsertRow(db, m, k, None, FALSE)
    /\ UNCHANGED <<pc, op, loaded, todo, tails, left>>

\* contradict with a replacement: observe(commit=False), which embeds and
\* writes at once. A row the model chokes on rolls everything back.
Contradict(p) ==
    /\ "contradict" \in Ops
    /\ pc[p] = "idle"
    /\ \E m \in NextMem, k \in Kinds \ {"poison", "skipped"} :
          db' = InsertRow(db, m, k, loaded[p], loaded[p] # None)
    /\ UNCHANGED <<pc, op, loaded, todo, tails, left>>

Purge(m) ==
    /\ "purge" \in Ops
    /\ m \in db.live
    /\ db' = Erase(db, m)
    /\ UNCHANGED <<pc, op, loaded, todo, tails, left>>

\* The process ends at any point, or an error ends its operation.
Crash(p) ==
    /\ "crash" \in Ops
    /\ pc[p] # "idle"
    /\ Finish(p)
    /\ UNCHANGED <<db, loaded>>

-----------------------------------------------------------------------------
Start(p, o) ==
    /\ o \in Ops
    /\ pc[p] = "idle"
    /\ op' = [op EXCEPT ![p] = o]
    /\ left' = [left EXCEPT ![p] = DrainBound]
    /\ Goto(p, IF o = "reembed" THEN "re_select" ELSE "check")
    /\ db' = IF o = "bootstrap_default" /\ loaded[p] # None
             THEN [db EXCEPT !.metaModel = loaded[p], !.metaDim = Dim[loaded[p]]]
             ELSE db
    /\ UNCHANGED <<loaded, todo, tails>>

Begin(p) ==
    \E o \in {"observe", "maintain", "bootstrap", "bootstrap_default", "reembed"} : Start(p, o)

\* ensure_current_embeddings.
Check(p) ==
    /\ pc[p] = "check"
    /\ Goto(p, IF Stale(db, loaded[p]) THEN "re_select" ELSE "select")
    /\ UNCHANGED <<db, op, loaded, todo, tails, left>>

AfterReembed(p) == IF op[p] = "reembed" THEN Finish(p)
                   ELSE /\ Goto(p, "select")
                        /\ todo' = [todo EXCEPT ![p] = {}]
                        /\ tails' = [tails EXCEPT ![p] = {}]
                        /\ UNCHANGED <<op, left>>

\* Faulty variant: the SELECT forgets the capture policy.
ReSelectAll(p) ==
    /\ pc[p] = "re_select"
    /\ todo' = [todo EXCEPT ![p] = db.live]
    /\ Goto(p, "re_drop")
    /\ UNCHANGED <<db, op, loaded, tails, left>>

\* reembed reads the ids it will rebuild ...
ReSelect(p) ==
    /\ pc[p] = "re_select"
    /\ todo' = [todo EXCEPT ![p] = {m \in db.live : db.kind[m] # "skipped"}]
    /\ Goto(p, "re_drop")
    /\ UNCHANGED <<db, op, loaded, tails, left>>

\* ... drops both indexes, each DROP TABLE committed by itself ...
ReDrop(p) ==
    /\ pc[p] = "re_drop"
    /\ db' = DropHeads(db)
    /\ Goto(p, "re_drop_tails")
    /\ UNCHANGED <<op, loaded, todo, tails, left>>

ReDropTails(p) ==
    /\ pc[p] = "re_drop_tails"
    /\ db' = DropTails(db)
    /\ Goto(p, "re_clear")
    /\ UNCHANGED <<op, loaded, todo, tails, left>>

\* ... deletes the span rows, without a model queues what can be embedded ...
ReClear(p) ==
    /\ pc[p] = "re_clear"
    /\ IF loaded[p] = None
       THEN /\ db' = Requeue(db)
            /\ AfterReembed(p)
       ELSE /\ db' = EnsureVecTable(ForgetTails(db), Dim[loaded[p]])
            /\ Goto(p, "re_chunk")
            /\ UNCHANGED <<op, todo, tails, left>>
    /\ UNCHANGED loaded

\* ... and fills them chunk by chunk; one row that raises ends it.
ReChunk(p) ==
    LET chunk == First(Chunk, todo[p]) IN
    /\ pc[p] = "re_chunk"
    /\ chunk # {}
    /\ \/ /\ \A m \in chunk : db.kind[m] # "poison"
          /\ db' = WriteChunk(db, chunk, loaded[p])
          /\ todo' = [todo EXCEPT ![p] = @ \ chunk]
          /\ tails' = [tails EXCEPT ![p] = Rebuilt(db, chunk, loaded[p])]
          /\ Goto(p, "re_spans")
          /\ UNCHANGED <<op, left>>
       \/ /\ Transient \/ \E m \in chunk : db.kind[m] = "poison"
          /\ Finish(p)
          /\ UNCHANGED db
    /\ UNCHANGED loaded

\* prepare_memory_spans embeds all tails in one call; when that fails only the
\* rows without a tail are handed to persist_memory_spans.
Prepared(p) ==
    {tails[p]} \cup (IF Transient THEN {{m \in tails[p] : db.kind[m] # "long"}} ELSE {})

ReSpans(p) ==
    /\ pc[p] = "re_spans"
    /\ \E ms \in Prepared(p) : db' = PersistSpans(db, ms, loaded[p])
    /\ tails' = [tails EXCEPT ![p] = {}]
    /\ Goto(p, "re_chunk")
    /\ UNCHANGED <<op, loaded, todo, left>>

ReFinish(p) ==
    /\ pc[p] = "re_chunk"
    /\ todo[p] = {}
    /\ db' = [db EXCEPT !.metaModel = loaded[p], !.metaDim = Dim[loaded[p]]]
    /\ AfterReembed(p)
    /\ UNCHANGED loaded

-----------------------------------------------------------------------------
Loops(p) == op[p] \in {"bootstrap", "bootstrap_default"}

\* Faulty variant: a call that took nothing is repeated.
AgainWhileLeft(p, taken) == Loops(p) /\ left[p] - Cardinality(taken) > 0

\* drain_embedding_queue calls process_embedding_jobs again.
Again(p, taken) == Loops(p) /\ taken # {} /\ left[p] - Cardinality(taken) > 0

\* Where an operation goes when its call of process_embedding_jobs is over;
\* the drain loop of bootstrap calls it again while it may take rows.
AfterBatch(p, taken) ==
    IF op[p] = "observe"
    THEN /\ Goto(p, "insert")
         /\ UNCHANGED <<op, left>>
    ELSE IF Again(p, taken)
    THEN /\ Goto(p, "select")
         /\ left' = [left EXCEPT ![p] = @ - Cardinality(taken)]
         /\ UNCHANGED op
    ELSE /\ Goto(p, "idle")
         /\ left' = [left EXCEPT ![p] = 0]
         /\ op' = [op EXCEPT ![p] = None]

\* The rows the SELECT of process_embedding_jobs returns to a process.
BatchOf(p) == First(IF Loops(p) /\ left[p] < Limit THEN left[p] ELSE Limit, Drainable(db))

\* process_embedding_jobs reads its batch; without rows or a model it is over.
Select(p) ==
    /\ pc[p] = "select"
    /\ IF BatchOf(p) = {} \/ loaded[p] = None
       THEN AfterBatch(p, {}) /\ UNCHANGED todo
       ELSE /\ Goto(p, "ensure")
            /\ todo' = [todo EXCEPT ![p] = BatchOf(p)]
            /\ UNCHANGED <<op, left>>
    /\ UNCHANGED <<db, loaded, tails>>

\* The rows the model gives no vector for, even asked one by one.
Failures(batch) ==
    {f \in SUBSET batch :
        /\ {m \in batch : db.kind[m] = "poison"} \subseteq f
        /\ Transient \/ \A m \in f : db.kind[m] = "poison"}

\* ensure_vec_table outside a transaction: what it drops or creates is committed.
Ensure(p) ==
    /\ pc[p] = "ensure"
    /\ IF OtherDimension(db, Dim[loaded[p]])
       THEN db' = DropHeads(db) /\ Goto(p, "ensure_tails")
       ELSE db' = CreateHeads(db, Dim[loaded[p]]) /\ Goto(p, "heads")
    /\ UNCHANGED <<op, loaded, todo, tails, left>>

EnsureTails(p) ==
    /\ pc[p] = "ensure_tails"
    /\ db' = DropTails(db)
    /\ Goto(p, "heads_anew")
    /\ UNCHANGED <<op, loaded, todo, tails, left>>

\* What the write transaction finds, the DELETE of all span rows included when
\* the indexes were dropped.
Found(p) ==
    IF pc[p] = "heads_anew" THEN CreateHeads(ForgetTails(db), Dim[loaded[p]]) ELSE db

Heads(p) ==
    /\ pc[p] \in {"heads", "heads_anew"}
    /\ \E failed \in Failures(todo[p]) :
          LET d == WriteHeads(Found(p), todo[p], failed, loaded[p]) IN
          /\ db' = d
          /\ tails' = [tails EXCEPT ![p] =
                          IF d.vecDim = Dim[loaded[p]] THEN todo[p] \ failed ELSE {}]
    /\ Goto(p, "spans")
    /\ UNCHANGED <<op, loaded, todo, left>>

Spans(p) ==
    /\ pc[p] = "spans"
    /\ \E ms \in Prepared(p) : db' = PersistSpans(db, ms, loaded[p])
    /\ tails' = [tails EXCEPT ![p] = {}]
    /\ todo' = [todo EXCEPT ![p] = {}]
    /\ AfterBatch(p, todo[p])
    /\ UNCHANGED loaded

\* observe's own row, after it has brought the index up to date.
Insert(p) ==
    /\ pc[p] = "insert"
    /\ \/ \E m \in NextMem, k \in Kinds :
            /\ k = "poison" => loaded[p] = None
            /\ db' = InsertRow(db, m, k, loaded[p], loaded[p] # None)
       \/ NextMem = {} /\ UNCHANGED db
    /\ Finish(p)
    /\ UNCHANGED loaded

Step(p) ==
    \/ Check(p) \/ ReSelect(p) \/ ReDrop(p) \/ ReDropTails(p) \/ ReClear(p)
    \/ ReChunk(p) \/ ReSpans(p) \/ ReFinish(p)
    \/ Select(p) \/ Ensure(p) \/ EnsureTails(p) \/ Heads(p) \/ Spans(p) \/ Insert(p)

Next ==
    \/ ObserveDeferred
    \/ \E m \in Mem : Purge(m)
    \/ \E p \in Proc : Contradict(p) \/ Crash(p) \/ Begin(p) \/ Step(p)

Spec == Init /\ [][Next]_vars

\* Every operation that was begun is carried on, and an operator keeps calling
\* haunt maintenance: nothing in the code does it for him.
FairSpec ==
    /\ Spec
    /\ \A p \in Proc : WF_vars(Step(p)) /\ WF_vars(Start(p, "maintain"))

-----------------------------------------------------------------------------
\* The tables and the processes keep their shape; a process holds rows only
\* while it is about to write them.
TypeOK ==
    /\ db.live \subseteq Mem
    /\ db.kind \in [Mem -> Kinds \cup {None}]
    /\ db.job \in [Mem -> Nat \cup {NoJob}]
    /\ {db.blob, db.vec, db.spanRow, db.spanVec} \subseteq [Mem -> Vector]
    /\ {db.vecDim, db.spanDim, db.metaDim} \subseteq {Dim[x] : x \in Model} \cup {0}
    /\ db.metaModel \in Vector
    /\ loaded \in [Proc -> Vector]
    /\ \A p \in Proc :
        /\ pc[p] = "idle" => todo[p] = {} /\ tails[p] = {}
        /\ todo[p] \cup tails[p] \subseteq Born(db)
        /\ pc[p] \notin {"idle", "check", "re_select", "re_drop", "re_drop_tails", "re_clear",
                       "select", "insert"} => loaded[p] # None

\* A span row belongs to a memory that exists: a batch read before a purge and
\* written after it brings none back, and no rebuild leaves one.
NoOrphanSpan == \A m \in Mem : db.spanRow[m] # None => m \in db.live

\* A purge takes every tail vector that a row of the memory still names, so
\* that none outlives it in the index.
PurgeTakesTheTail ==
    [][\A m \in db.live \ db'.live : db.spanRow[m] # None => db'.spanVec[m] = None]_vars

\* What _backfill_skip_embedding infers from: a row that holds text and is not
\* excluded by the capture policy has an embedding or a job.
EmbeddedOrQueued ==
    \A m \in db.live : NeedsVector(db, m) => db.blob[m] # None \/ db.job[m] # NoJob

\* A row the capture policy excluded is never indexed or queued, whatever
\* rebuilds and drains run over it.
ExcludedStaysOut ==
    \A m \in Mem : db.kind[m] = "skipped" =>
        /\ {db.blob[m], db.vec[m], db.spanRow[m]} = {None}
        /\ db.job[m] = NoJob

\* Neither a drain nor a rebuild removes a queue row without leaving the
\* vector it stood for; only a purge does.
JobsLeaveWithAVector ==
    [][\A m \in Mem : (db.job[m] # NoJob /\ db'.job[m] = NoJob)
          => (m \in db'.live => db'.vec[m] # None /\ db'.blob[m] # None)]_vars

\* Hard purge removes the vector embedding: no memory that is gone is left in
\* the index, and none comes back to it.
NoOrphanVector == \A m \in Mem : db.vec[m] # None => m \in db.live

\* There is a memory_spans row for every span vector, which is what lets purge
\* find them.
SpanVectorsHaveRows == \A m \in Mem : db.spanVec[m] # None => db.spanRow[m] # None

\* embeddings_stale is true when stored vectors do not match the loaded model.
MismatchIsStale ==
    \A p \in Proc :
        (pc[p] = "check" /\ loaded[p] # None
           /\ \E m \in db.live : db.vec[m] \notin {None, loaded[p]})
         => Stale(db, loaded[p])

\* A queued row that the model can embed leaves the queue once some caller has
\* the model: rows that fail for ever do not hold up those behind them.
GoodRowsAreDrained ==
    \A m \in Mem :
        (/\ db.job[m] \in 0..(MaxAttempts - 1) /\ db.kind[m] # "poison"
         /\ \E p \in Proc : loaded[p] # None) ~> (db.job[m] = NoJob)

\* Every operation comes to its end: the drain loop neither spins without a
\* model nor runs on for ever against writers and rows that fail.
OperationsEnd == \A p \in Proc : (pc[p] # "idle") ~> (pc[p] = "idle")

\* Rows, queue and index agree between any two steps of drains, rebuilds,
\* purges and crashes: shapes; no span row of a purged memory; text the policy
\* lets in has a vector or a job; text it keeps out has neither.
IndexFollowsRows == TypeOK /\ NoOrphanSpan /\ EmbeddedOrQueued /\ ExcludedStaysOut

\* Drains end, and rows that can be embedded leave the queue by then.
DrainsGetThrough == GoodRowsAreDrained /\ OperationsEnd
=============================================================================
