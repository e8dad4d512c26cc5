# TLA+ specifications of haunt

haunt keeps verbatim memories for AI agents, one SQLite file per namespace, with no
daemon: hooks, the command line, the MCP server and the dashboard are separate
processes that open the same files. What is hard about it is not a large distributed
protocol but what several processes do to one database and one directory when a slow
model call, a privacy purge, a retry or a crash falls between a read and the write that
relies on it.

The repository is in `src/`. Source paths below are relative to `src/src/haunt/`, those of
documents to `src/` and `src/docs/`; line numbers are those of `store.py` unless a file is named.

## 1. Inventory

| Component | State it keeps | Operations | Interacts with | What makes it correct | Module |
|---|---|---|---|---|---|
| Correction log (5703-6104, 9425-9601) | `memories.valid_to`, `corrections`, `lineage_tombstones` | contradict, purge | observe, sessions, trace | at most one effect per memory, retries replay, the chain is linear, nothing of a purged memory remains, gaps stay traceable | `CorrectionLineage` |
| Trace and recall references (8776-8921, 8923-9099) | none | trace, recall_references_many | correction log | one answer per chain, only the newest is current, a hit agrees with the trace | `CorrectionTrace` |
| Embedding queue and index (2152-2439, 7410-8260) | `embedding_jobs`, `memories.embedding`, `vec_memories`, `memory_spans`, `vec_memory_spans`, `meta.embed_*` | observe, process_embedding_jobs, drain, reembed, staleness check | model, purge, bootstrap, maintenance | embedded or queued, no tail of an erased row, poison rows do not starve others, operations end | `EmbeddingQueue` |
| Sessions (5565-5700, 7265-7408) | `sessions`, `meta.current_session`, `session_id` of events and corrections | ensure_session, end_session | observe, contradict, purge | what ended stays ended, the implicit session is open, erased ids are forgotten | `SessionChain` |
| Observe's idempotency (7410-7720) | `events.idempotency_key` | observe | the hooks' retries | one row per key, a reuse with other content is a conflict | `HookCapture` |
| Namespace registry (443-480, 1082-1343, 2442-4645, 6765-6926) | `registry.db`: identities, aliases, bindings, compatibility rows, migrations | register, touch, relabel, undo, retire alias, retire namespace | file names, every opener, every memory write (touch) | a label names one database, a binding's label resolves, repositories are not commingled, undo loses nothing | `NamespaceRegistry` |
| Reconciliation and retirement (4648-5487, 6461-6926) | rows of two namespaces, backups | reconcile, retire | registry, migration lock, purge | every row ends up in the target, once, and a correction made in any copy stays in force | `NamespaceContent` |
| Erasure of backups (6107-6440, 8628-8711) | backup files, the privacy head | purge's sweep | migration lock, imports | every copy is erased or named, no old bundle is let back in | `NamespaceContent` |
| Import (`portability.py` 1534-2490) | intent files, staged databases, receipts | import, recover | registry, migration and configuration locks, privacy head | all or nothing across crashes, nothing left behind | `ImportPublication` |
| Export (`portability.py` 392-707, 1305-1428) | none; bundles | export at a cut | corrections, sessions, tombstones, graph | closed under references, the past as it was, nothing lost | `ExportSelection` |
| Storage guards and locks (231-346, 564-780; `paths.py` 247-1001) | thread and file locks, claimed side files | open, close, zero-write read | every opener | a commit that returned stays, a read is one state | `WriteAheadLog`, `SnapshotRead` |
| Recall, planner (`recall.py`, `planner.py`) | none (read only) | recall, timeline, union, events | vector index, FTS | the nearest visible memories, deterministic order, no hidden rows | `Recall` |
| Budget, rerank, spans (`budget.py`, `rerank.py`, `spans.py`) | none (pure) | | recall, queue, dashboard, hooks | windows cover the tail, the payload fits and is whole | `TailWindows`, `RecallBudget` |
| Editor hooks, host installation (`hosts/`, `cursor_hook.py`, `claude_hook.py`) | the editors' configuration files | install, cursor-install, hook | editors, users, observe | what others keep beside haunt's entries is not lost, calls are stored once and as asked | `HostBinding`, `HookCapture`, `HostHooks` |
| Bootstrap, doctor (`bootstrap.py`, `doctor.py`) | | bootstrap, diagnose, repair | queue, hosts | healthy means that capture works | `HostBinding`, `EmbeddingQueue` |
| Surfaces: MCP, CLI, dashboard, desktop entry | configuration | argument checks, calls of `Store` | all | | where they order calls |
| Entity graph (`graph.py` 229-465; 8554-8626) | `entities`, `entity_mentions`, `relation_evidence`, `relations` | extract_and_store, remove_event_evidence, rebuild_graph | observe, purge, export | the aggregates are those of the events that are left | `EntityGraph` |
| Provenance, utilities | none | | observe | | none |
| Embedding backend, model manifest | downloaded models | load, embed | queue | external here | none |
| Evaluation harnesses | none | | | not part of the running program | none |

Components share tables and locks but few invariants, and each needs its own atomicity:
`contradict` holds `BEGIN IMMEDIATE` throughout and is one step, `observe` and
`end_session` read sessions before their transaction and are two, drain and rebuild call
the model between transactions and are many, publication of an import goes file
operation by file operation, and a zero-write read page by page. They are modelled
apart for that reason, and composed where one relies on the other: `trace` over the log,
the hook processes over the installed bindings, recall over the windows and the budget,
the zero-write reader over the log its writers leave.

The hard behaviours, each at its line, are the `hazards` of `PROJECT.json`. A few more
that no module covers:

* `paths.py:402` (`guard.close`) removes side files it finds empty; whether another process
  claimed the same name in between is decided by device and inode, which the models leave out.
* `paths.py:791`: a reader that is killed leaves its temporary copy of the database.
* `hosts/__init__.py:408`: two installs write through one temporary and one backup name.
* 8652: purge waits for the migration lock only after its commit; a reconcile that holds the lock may
  have copied the row (`NamespaceContent` has this order; the row is then a live one of another namespace).
* 7544: the model call of contradict's replacement is made with the write lock held.
* `planner.py`: a plan of strategy `recall` for a purely temporal query drops the `as_of` it parsed.

## 2. Modules

| Module | Role |
|---|---|
| `CorrectionLineage` | the correction log under concurrent callers and purges |
| `CorrectionLineageProofs` | the inductive invariants of the log and of its chains, the theorems, and the proof of the refinement |
| `CorrectionTrace` | extends it with `Store.trace`, `recall_references_many` and the refinement of `MemoryChain` |
| `MemoryChain` | abstract: chains of versions with gaps |
| `EmbeddingQueue` | the vector index, its queue and everything that writes them |
| `VectorProofs` | the inductive invariants of `EmbeddingQueue` and of `Recall`, their theorems, and that the windows of `TailWindows` cover the tail |
| `SessionChain` | sessions, successors and purge's stand-ins |
| `NamespaceRegistry` | labels, aliases, bindings and their reversible migrations |
| `NamespaceRegistryProofs` | its inductive invariant and the theorems |
| `NamespaceContent` | rows, backups, purges: reconcile, retire, sweep |
| `NamespaceContentProofs` | its inductive invariant and the theorems |
| `ImportPublication` | imports, their intents and recovery, beside what they race with |
| `ImportPublicationProofs` | its inductive invariant and the theorems, and that it implements `AtomicImport` |
| `AtomicImport` | abstract: a namespace appears whole, once, and not against its head |
| `EntityGraph` | operators: what a write, a purge and a rebuild make of the graph |
| `ExportSelection` | the rows of an export at a cut, over every history of rows and graph |
| `SessionExportProofs` | the inductive invariants of `SessionChain` and of `ExportSelection`, and their theorems |
| `WriteAheadLog` | the three files of a database as writers leave them |
| `SnapshotRead` | extends it with the zero-write reader |
| `SnapshotReadProofs` | the theorems of both |
| `TailWindows` | which tokens reach which vector |
| `RecallBudget` | what of a ranked list crosses a surface |
| `Recall` | extends both: one recall from the request to the answer |
| `HostBinding` | installation into the editors' files, doctor |
| `HookCapture` | one hook process per delivered event |
| `HostHooks` | extends both: events reach haunt through the bindings there are |
| `HostHooksProofs` | the theorems of all three |
| `MC*` | small instances: values, symmetry |

Where a definition is named "Faulty variant of X" it is X with a plausible mistake. The
runs use X; with the variant in its place the property beside it fails, which is how each
property was shown to depend on the code.

### CorrectionLineage

State: `live`, `closed` (`valid_to` set), `corrections`, `tombstones`, and `stamped`, the
memories whose event holds the origin of the correction that made them. A correction's
end is one member of `Mem \cup Tomb` where the code has two columns and a CHECK. `erased`
and `effects` are history. A caller goes idle → called → checked → answered: `PreCheck` is
the lookup before the lock (9473), and `ReplayLocked`, `RefuseMissing`, `RefuseSuperseded`
and `Supersede` are what can happen under it (9482-9598). `Leave` is the caller taking its
reply, losing it or crashing; any request may be sent again. `Purge` is
`_erase_memory_content` whole: tombstone, scrubbing of adjacent rows, sanitising of
replacement events, and the prune of components without a memory.

Texts and reasons are one constant, because only their equality matters; session
and time columns are left to `SessionChain` and `ExportSelection`.

### CorrectionTrace and MemoryChain

`MemoryChain` is the promise a reader relies on: a set of sequences; an observe starts one,
a replacement appends, a retraction ends, a purge leaves a gap, and a sequence of gaps is
forgotten. The refinement maps every live memory to what `trace` shows for it. The code
never stores a chain: it walks two indexes from the memory asked for. That the prune,
which deletes rows between tombstones, never cuts or shortens a surviving chain is what
the refinement checks.

`recall_references_many` reads the same tables another way, by a recursive query over both
ends of every row from each hit (`Walk`), and says less: a chain with a gap names no
correction. `ReferencesFollowTrace` shows that the two agree for every memory after any
corrections and purges. The order of the ids it returns, by `corrected_at`, is left out.

### EmbeddingQueue

A vector is represented by the model that made it, a row's tail spans by one entry, all
tables by one record `db`. Every write transaction is one action and every statement
that commits by itself another: Python's `sqlite3` opens a transaction before an INSERT,
UPDATE or DELETE but not before DDL, so reembed's two DROPs (`ReDrop`, `ReDropTails`) and
those of `ensure_vec_table` when a drain calls it (`Ensure`, `EnsureTails`) are seen by
others on their own, while the DELETE after them opens the transaction that the next commit
ends. A row's content is one of five kinds: `short`, `long` (has a tail), `blank`,
`skipped` (capture policy) and `poison` (the model always fails on it); with `Transient`
the model may fail on any row. A failing operation and a crashing process are the same
step, `Crash`, except where the code catches the failure. A process keeps its model for life.

sqlite-vec is taken as loaded. The creation of the span table is one step with the first
insert, and reembed's two `set_meta` calls are one step. Batch and chunk sizes, the drain
bound and the attempts cap are constants (`Limit`, `Chunk`, `DrainBound`, `MaxAttempts`).

### SessionChain

Sessions are named by a host or minted (`Opaque`). `Look` is `ensure_session` inside
observe before its first write, `Write` the transaction, refused when the primary or the
foreign key would (`Accepted`); `EndLook` and `End` split `end_session`; `Contradict` and
`Purge` are one step. `Purge` covers the tracking of touched sessions, the stand-in for
each that still has references, the rekeying of events, corrections, links and meta. When
the code picks the latest of several open successors the model allows any.

### NamespaceRegistry

State: `reg`, the four tables that describe namespaces (`namespace_identities`,
`namespace_aliases`, `repository_bindings`, and `namespaces`, the compatibility rows called
`legacy`), as one record because a migration stores and compares its rows as a whole;
`migration`; `files`, the labels whose database exists; `job`, who holds the migration lock
and what was planned; and `shared`, a history of the namespaces somebody named on purpose
for several repositories.

`Register` is one `_publish_namespace_...` transaction, for the label asked for or its
fork: `Reuse` a label that resolves, `Attach` a new label to the namespace the repository
is bound to, or `Mint` a namespace. Inference reads the registry earlier, so the label it
asks for is any label. `Touch` follows every committed memory write. `Begin` is a dry run's
digest presented with `--apply`, up to the backup; `CommitChange` and `CommitUndo` compare
the digest under the write lock and commit, `Abandon` is drift, a failed backup or a crash.
`RetireAlias` is one transaction; `RetireNamespace` deletes the rows and `FinishRetire` the
file, or not (`NamespaceContent` has the steps between).

`ver` counts commits and stands for three things at once that differ exactly when it does:
the digest of the registry's contents, the time stamps of rows, and ids from `new_id()`.
Labels stand for their normalized form; `Fork` for the digest that disambiguates a label. A
legacy registry enters as an initial state with two labels of one file.

### NamespaceContent

State: `live`, the rows and the privacy head of each namespace's file; `reg`, the registered
namespaces; `gone`, the unlinked files; `backups`; the migration lock; and what each process
is doing. A row is a memory with everything that goes with it; `state` stands for its
columns, `index` for its vector, its place in the queue, or its exclusion.

`DryRun` and `ApplyPlan` are reconcile without and with `--apply`, up to the source's frozen
backup; `Merge` is the target's `BEGIN IMMEDIATE`: its backup, the digest again, the rows,
or the removal of both backups. `RetireBackup`, `Deregister`, `LookAgain` and `Unlink` are
`_retire_namespace`, whose registry transaction and second look at the rows (6892-6917) come
before the unlink. `PurgeRow` is the purge's own commit, `SweepStart`, `SweepOne` and
`SweepDone` the sweep, oldest first, that rewrites every backup it may and reports the
others (`Unerased`). Writers take no lock and a long-lived server keeps its connection, so
`Observe` and `Change` (a correction, or a drain) write to a namespace that is being retired, or is gone. `Crash` is a kill, a
failed backup or a busy database, at any step; `Spoil` somebody linking a backup elsewhere.

A digest is compared by contents. Heads are numbers; every commit that rotates one has its own.

### ImportPublication and AtomicImport

A file is known by its inode; `target` maps `<label>.db`, `temp` and `side` hold the private
claim's names, `intents` the `import-intents/*.json` with their link count. Every file
operation of `_publish_new_import` is an action: `Claim`, `LinkIntent`, `NameIntent`,
`Stage`, `Link`, `Name`, `Register`, `CloseClaim`, `DropIntent`, and `Fail`, `Withdraw` when
it is given up. `Start` takes both locks and recovers: `RecoverTarget` and `RecoverRest` are
`_recover_one_import_intent`, and one intent that is not `Recoverable` refuses the import.
An existing namespace is read (`Read`), then read again and extended in one transaction
(`Write`). Around it: a fresh registration (`LinkFresh`, `CommitFresh`), relabelling,
retirement, exports, and the writers. `Crash` ends a process and releases its locks.

`AtomicImport` is the promise of `EXPORT_FORMAT.md`: a namespace appears with every
record of one bundle or not at all; a bundle is added whole, and only while the privacy heads
agree. The refinement shows a namespace as there when registry and directory agree on its
file, so every intermediate step must be a stutter.

A registration leaves its schema in the write-ahead log of its private name (`Blank`); a memory
stands for its whole row, `open` or `closed`.

### ExportSelection

One process and one database; what is hard is the data. `ObserveMemory`, `EndSession`,
`ContradictMemory` and `PurgeMemory` are transactions that read the clock one to three times, as the code does, so that
stamps of one transaction differ. A caller may observe a memory that is valid for ever, until a time to
come, or until one that is past already (`till`; 7428, 7506): such a memory is closed and no correction says so. `back` sets the wall clock back before the last reading of a correction. `Select` is
`_select_export_records` with its projections, `DefaultCut` is `_default_temporal_cut`,
`Importable` is `_validate_record_references` and the acyclic succession. `past` keeps the
readings of the commits, which are the cuts between two transactions; a purge starts it anew.

The graph is part of the database: `Written` calls `Extracted` (`extract_and_store`) with the event's
time, which the caller may set back or ahead (`Told`), `Erased` calls `Forgotten`
(`remove_event_evidence`), and `RebuildGraph` is `rebuild_graph`. `EntityGraph` has these as operators,
row by row as the code does it: `Refreshed` is `_refresh_relation` of some triples (`RelationOf` the row of one),
`Respanned` what is left of an entity. `GraphFollowsEvents` compares the result of any history with `Rebuilt`.

### WriteAheadLog and SnapshotRead

SQLite is external, and modelled from what haunt relies on: frames written one by one, a commit
mark, an index, checkpoints page by page, a log that starts over, the last close that removes
index and log, and recovery by the next to open. What haunt adds: openers and closers hold the
configuration lock (`ConfigurationFree`), missing side files are claimed empty (`Claimed`), and
the registry is read before it is written (`IsRegistry`). A page holds the number of the transaction
that wrote it, so two versions are equal exactly when nothing changed; hashes are compared as contents.

The reader hashes the files (`HashPage`, `HashLog`), chooses the immutable or the copying
way, reads (`Direct`) or copies (`CopyPageOut`, `CopyLogOut`) one page at a time, and
compares every hash before the answer counts (`CloseRead`). `Fail` is every error with a
marker the caller retries on, `MaxTry` times. `Home` is the writer in whose process the read
runs: closing a descriptor of a file releases the process's POSIX locks on it (`Dropped`).

### TailWindows, RecallBudget and Recall

`TailWindows` is `spans.plan` and what a vector is computed from: windows that share at most half,
the sliver rule, the window anchored at the end, the cap, and the fitting of the last window when
its text tokenises longer (`Drift`). A text with `chars = 0` has a tokenizer that tells where its tokens are, and its
windows are cut in `Tokens`. Any other has tokens of `chars` characters and windows cut in `Characters`, `CharsPerToken` for a
token, while its head is cut in tokens and no window is fitted; `CharactersSeen` are the tokens that are whole in such a
window and reach the vector. These may leave gaps (section 5), so what a search can find of such a text is what some vector
saw (`Findable`). `RecallBudget` is `apply_recall_budget` (snippets first,
then whole rows from the end, then the fields of the only row left), the dashboard's
round-robin, and the lines of a hook's block; sizes are numbers of characters.

`Recall` is one request over an unchanging snapshot: zero-write readers work on a copy or an
immutable file, and `SnapshotRead` says why that is one state. `Search` and `Widen` are
`_vec_hits` and `_span_hits`, `Merge` takes the best vector of a memory and names the window it is
from, `Scan` is the way without the extension, `Match` the text leg (any ranking), `Fuse` reciprocal
ranks with the optional diversity stage, `Page` the timeline, `Answer` the surface. vec0 returns
rows at one distance in no order (`Nearest`). A memory holds what the query asks for at one
token or nowhere, so that coverage of tails and completeness of the search are one question.
`AskAgain` is the next request; nothing is remembered between two.

Distances take two values besides `Far`; exact ties at the edge of an answer are settled by the code's
content hash (`Key`) and then by the id. Every sort is `Sorted` of keys, triples of which no two are equal
(`SortKeys`): at each place stands the memory whose key has that many before it, which says what a stable sort returns
without an algorithm. The properties compare distances and times, not ids.

### HostBinding, HookCapture and HostHooks

`HostBinding`: two hosts with two files each, `[ok, foreign, cmd, own, odd, snags]`. `Install`, `CursorInstall` and
`DoctorRepair` begin the same walk: `Preflight` of every adapter, then per host and part `Read`, `Replace`
(a file read some time ago is merged and replaced), `Plant`; `Killed` anywhere. Users add, garble, mend, copy, delete,
put settings of theirs into haunt's entry (`Tuned`: an MCP server's `env`, a hook's `timeout`), leave a value of another
shape where haunt expects an object or a list (`Misshapen`), or something in Claude's `settings.json` that doctor objects
to (`Snagged`); a temporary home disappears with its launchers (`DropHome`). `Merged` keeps what is beside haunt's
entries and a hook's settings, writes the MCP server anew, and replaces values of another shape (`cursor.py:73-80`,
108-120; `claude.py:81-89`, 131-143). `HostChecks` is what doctor adds up: the `Bindings` install writes, and the `Snags`. A home starts without bindings, or with those of a release that bound Claude's events to the
launcher Cursor uses.

`HookCapture`: one process per delivery. `Skipped` is what it leaves out, `KeyOf` is `hook_idempotency_key`,
`Lookup` and `Insert` are observe's two looks at the key around the INSERT, `Fail` is any error: the
hook answers `{}` and exits with 0. `HostHooks` composes them: `Fire` starts as many processes as the
file has live entries of the right launcher at that moment.

## 3. Runs

| Run | Instance | Distinct states | What it shows |
|---|---|---|---|
| `correction` | 4 memories, 3 tombstones, 2 keys, 2 callers | 330 thousand | the log's invariants, what callers are told, and that trace over it implements `MemoryChain` |
| `embedding_queue` | 2 memories, 2 processes, 2 models of different dimension, every failure | 5.6 million | index and queue through rebuild, drain, purge, crash |
| `embedding_drain` | 3 memories, 2 processes, 1 model, poison rows, fairness | 45 thousand | starvation and termination |
| `session_chain` | 1 host name, 2 minted ids, 3 events, 2 processes | 690 thousand | what survives stale lookups |
| `namespace_registry` | 3 labels, 2 repositories, one with 2 paths, one with a path alone, 4 commits, 2 migrations | 2.0 million | what labels, bindings and compatibility rows lead to, forks, undo |
| `namespace_content` | 2 namespaces, 2 memories, 2 processes, 3 backups, 1 purge, 1 export, 1 fault, 1 plan | 9.7 million | no row lost, none kept that was purged, no correction undone |
| `import_publication` | 3 namespaces, 2 labels, 2 memories, 3 bundles, 2 processes, 2 files, 2 acts, 1 crash | 2.2 million | atomic imports, recovery, privacy heads |
| `bundle` | 10 clock readings, 4 memories that name 2 entities, 4 sessions, 3 kinds of validity | 368 thousand | closure, history and completeness of exports at every cut, and the graph behind them |
| `snapshot_read` | 2 writers, 2 pages, 2 transactions, 1 crash, 2 attempts | 1.8 million | durability, and reads that are one state |
| `recall` | 5 memories of up to 12 tokens, windows of 4, at most 4 vectors each, 7 requests, a tokenizer or tokens of 1, 2, 3 or 5 characters | 1.5 million | completeness of each way of searching, and the answer |
| `host_hooks` | 2 homes, 2 events, 1 edit, 2 installs, 4 calls of which 2 are made, 1 failure | 3.2 million | files kept, doctor's verdict, capture |
| `lost_lock` | 2 writers, 2 pages, 2 transactions, the read in one writer's process | few | one disagreement with a comment, section 5 |

Most properties are named after what they say; some are conjunctions of named parts, so that one
look at the state answers one question:

| Property | Parts |
|---|---|
| `LineageIsSound` | `LineageIsLinear`, `SupersededOnce`, `TombstonesTraceable`, `OriginFollowsCorrection` |
| `RepliesAreTrue` | `OwnSuccessIsReplayed`, `RepliesAreCurrent` |
| `TraceIsOneChain` | `EveryMemberTracesTheChain`, `OnlyTheNewestIsCurrent`, `ReferencesFollowTrace` |
| `IndexFollowsRows` | `TypeOK`, `NoOrphanSpan`, `EmbeddedOrQueued`, `ExcludedStaysOut` |
| `DrainsGetThrough` | `GoodRowsAreDrained`, `OperationsEnd` (liveness) |
| `SessionsAreSound` | `TypeOK`, `CurrentIsOpen`, `SuccessionHasAnOrigin` |
| `RegistryResolves` | `TypeOK`, `LabelsResolve`, `BindingsResolve`, `SourcesResolve`, `LegacyProjected` |
| `RegistryIsBacked` | `TypeOK`, `RegisteredHasItsFile` |
| `ContentIsKept` | `TypeOK`, `NoRowLost`, `PolicyIsKept` |
| `ErasureReachesBackups` | `NoCopySurvives`, `RestoredBackupRefuses` |
| `BundlesAreWhole` | `ExportTypeOK`, `CommittedCutImports`, `NoReplacementAlone` |
| `StorageIsSound` | `TypeOK`, `Durable`, `RecoveryForgetsNothing` |
| `SearchesAreComplete` | `NearestAreFound`, `WindowIsNamed`, `TimelineIsNewest` |
| `AnswerIsTrue` | `HitsFillTheAnswer`, `PayloadIsWhole`, `BlockFits` |
| `FilesAreKept` | `TypeOK`, `RefusedWritesNothing`, `OthersAreKept` |
| `CapturedAsAsked` | `StoredOnce`, `ExcludedLeavesNothing` |

### Bounds

* `correction`: four memories are a chain of three and a neighbour, which is what scrubbing and
  pruning distinguish; three tombstones let a chain lose its middle and one end. Two keys are one
  that is reused and another. Two callers give every order of the two lookups, and since the locked
  part is atomic a third adds no new order around it. Fresh identifiers are never given out twice, so
  a run ends when they are used up; callers can still retry, hence no deadlock.
* `embedding_queue`, `embedding_drain`: two rows suffice for a batch with a neighbour (batch and chunk
  are 1, so that a rebuild of two rows has a window between its chunks), two models of different
  dimension for every drop and two processes for every pair of operations. Three rows in the fair run
  are poison ones before a good one.
* `session_chain`: two minted ids allow a successor and a stand-in, or two of either.
* `namespace_registry`: four commits are two registrations that race, a migration and its undo, or
  two migrations with a touch and a retirement between them, and from the legacy start, which needs
  no registration, one more of each. Two migrations let one record stand while another is undone. Both
  repositories infer label `a`; the second one's fork is `c`, so a fork can collide with a label in use.
  The first repository moves its checkout from `p1` to `p2` and the second, which has no remote, is found
  at `p1` afterwards: two bindings may share neither remote nor path, so this is how one that an undo brings
  back can meet one that was made since.
* `namespace_content`: two rows are one that moves and one that races it, one of them excluded by
  the policy. Three backups are both of a reconcile and that of a retirement, or any of them beside
  a sweep. One fault is a crash at any step or one spoilt backup, one plan that an operator
  still holds when the contents have changed.
* `import_publication`: the foreign bundles are one namespace before and after a purge, and a
  rival for its label. Two files are an import beside a fresh registration or another import, or a
  second attempt after a crash. Two acts are a purge and the export before it, or a relabel
  and a retirement.
* `bundle`: ten readings hold two corrections with their sessions and a third, or a chain that is purged
  and continued. Three texts give one triple, so that its evidence has a first, a latest and one between;
  two share an event time, one is ahead of the clock. A `valid_to` is not
given, is the third reading, which is ahead of the first memories and past for the later, or is ahead of all (`Until`).
The clock is the bound that ends the run.
* `snapshot_read`: two pages are the fewest that can be torn, two transactions the fewest of
  which one is lost under the other; the second attempt is the one after which a caller gives up.
* `recall`: lengths 3, 7, 8, 9 and 12 with windows of 4 that share 2 are: no tail, one window, a window
  exactly at the end, a sliver, and more than the cap. Three current candidates beside hidden and waiting
  ones make the first request of 2 too narrow; `VecMax` and `SpanMax` make the ceiling reachable. A memory of
  seven tokens with the answer at the third is found by head and tail at one distance. `CharsPerToken` is 3, the code's; texts
without a tokenizer have shorter tokens, equal ones and longer, so that their windows hold more tokens than the encoder takes,
as many, or fewer.
* `host_hooks`: two installs are one that is killed and its repair, or two homes one after the other.
  Two calls are a call and its retry, or two the host reports alike. One edit falls before, inside or
  after an install, and is any of those a user may make.

Runs that stop at a bound (all of `host_hooks`, `namespace_registry`, `namespace_content`, `import_publication`,
`bundle`) do not check for deadlock, because the bound would be one. In the others nobody is ever left waiting.

Symmetry is used for identifiers that are only compared, never in a run with liveness. The
queue's memories are ordered, so there only the processes are permuted.

### Fairness

`FairSpec` assumes that an operation once begun goes on, and that each process is given `haunt
maintenance` again and again. Nothing in haunt guarantees the second: there is no daemon and no
timer (7725-7729), so `GoodRowsAreDrained` says that the drain is enough when it is called,
not that it is called. `OperationsEnd` needs only the first. No other module claims liveness: a
lock wait in haunt ends in a time-out, and what happens then is an error to the caller, who may or may not ask again.

## 4. Proofs

Of the 40 properties that runs check, those of the correction log and its trace, sessions, registry, queue, content,
publication, export, graph, storage, hooks and the search are theorems, for every value of the constants. Each component proved has
an inductive invariant, which the initial states satisfy and every step keeps, and the properties
follow from it; TLC found each part of it to hold on the small instance first. The sections below
say what an invariant has beside the properties, because that is the argument.

| Module | Invariant | Properties proved |
|---|---|---|
| `CorrectionLineageProofs` | `LineageInv` | `TypeOK`, `LineageIsSound`, `NoErasedIdentifier`, `RepliesAreTrue`, `AppendOnly` |
| | `ChainInv` | `TraceIsOneChain`, `ImplementsMemoryChain` |
| `SessionExportProofs` | `SessionInv` | `SessionsAreSound`, `EndedStaysEnded`, `PurgeForgetsSessions` |
| | `ExportInv` | `BundlesAreWhole`, `LineageTellsWhatIsCurrent`, `BackupLosesNothing`, `GraphFollowsEvents`, `CutIsHistory` |
| `NamespaceRegistryProofs` | `RegistryInv` | `RegistryResolves`, `OneOwner`, `LabelsNeverRepoint`, `UndoLosesNothing` |
| `VectorProofs` | `QueueInv` | `IndexFollowsRows`, `JobsLeaveWithAVector`, `PurgeTakesTheTail` |
| | `SearchInv`, `TimelineInv` | `SearchesAreComplete` |
| `NamespaceContentProofs` | `ContentInv`, `CorrectionsHold` | `ContentIsKept`, `ErasureReachesBackups`, `CorrectionsSurvive` |
| `ImportPublicationProofs` | `ImportInv` | `RegistryIsBacked`, `NoResurrection`, `NothingLeftBehind`, `ImportIsAtomic` |
| `SnapshotReadProofs` | `ReadInv` | `StorageIsSound`, `AnswersAreStates`, `RefusalHasCause` |
| `HostHooksProofs` | `HooksInv` | `FilesAreKept`, `BoundMeansHealthy`, `CapturedAsAsked`, `NothingIsLost`, `SilenceIsReported` |

### What is assumed

The constants' assumptions are named, stand in the module that declares them, and hold in the runs. Most say
that bounds are numbers, that identifier sets do not overlap and that `None` and `Nil` are none of the values
they stand beside (`ConstantsDistinct`, `NoneIsNoStamp`, `NoneIsNobody`, `NoneIsNothing`, `NilIsNothing`,
`ConstantsTyped`, `GapIsNoMemory`). The others say something about haunt:

* `ForksAreLabels`: the label that disambiguates another is a label. `ContextsShaped`: a repository is known
  by its remote and path. `LegacyPairs`: a legacy pair is two labels.
* `LocalNames`, `BundlesClosed`: ids of namespaces and memories and privacy heads are random (`uuid4`, 32
  bytes), so a foreign bundle has none that this home makes, and it names its own label. `Known` are the labels anybody ever has, so that a bundle may bring new ones.
* `TextsAssumption`: a triple found in a text is between entities found in it (`graph.py:133-226`). `TimesAssumption`:
  a caller's event time is a time.
* `CallsAreOfHosts`: a host reports events it may run hooks for.
* `DriftIsShared` and `SliverFitsWindow`, which `TailIsCovered` needs and through it `SearchesFindAll` (a token of an
  embedded memory is in some vector, if a tokenizer cut its windows): the code's defaults meet them, its settings need not (section 5).
* `CorporaTyped`: a memory that has a vector has a text, and no distance is beyond `Far`. `MemoriesAreNumbered`,
  `WidthsPositive`, `RequestsTyped`: ids, hashes and times can be compared, and limits are at least 1 (`clamp_limit`,
  and the constants of `recall.py`).
* `Home = Nobody`, a hypothesis of the three theorems of `SnapshotReadProofs`: no read runs in a writer's own
  process. Run `lost_lock` is the other case, and there `Durable` fails.

### Correction log

`LineageInv` strengthens the checked invariants by four parts, none of which holds by itself:

* `TargetsAreClosed`: the target of a row, if it is still a memory, is closed, and `effects` counts
  it. So a memory that is current has no row, and a new row cannot collide with one.
* `ReplacementsAreLive`: a replacement is a memory that exists or a tombstone that stands.
* `KeyedRowsAreWhole`: a row with a key has its payload and its reply, and they say what the row
  says. A scrubbed row has neither. This is why a replay never names an erased memory and why a
  retry finds its own success.
* `EffectsMatchRows`: a memory that can still be superseded has had no effect.

`Supersede` uses the guards under the lock, `Purge` the lemmas about `Scrub`, the ends of scrubbed rows and
`Pruned`. That a pruned set has no erased-only component left is a lemma of its own: a component of what
is kept is a component of the whole.

### Chains and the trace

`ChainInv` adds to `LineageInv` that every memory and every tombstone stands in a chain (`IsChain`): a finite
sequence of nodes on record that rows lead along, no row into the first and none but a retraction out of the
last. Linearity makes the chain of a node the only one and a node's place in it too (`OneChain`); that it is finite is
what a cycle would break, and `contradict` never closes one because its replacement is a new id. The
hard step is the purge: its prune deletes rows, but of a chain with a node that stays it deletes none
(`ChainIsKept`: rows that meet are in one component, and that component has a memory), so the chain is as it was with the
tombstone in the memory's place (`PurgeGaps`).

`Oldest`, `Newer` and `Walk` are recursive functions. That their equations hold needs a solution, which a lemma exhibits:
for every set of nodes seen, the chain says how far a walk comes before it is stopped (`StopsBack`, `StopsOn`), and
the least set closed under the arms solves `Walk`. What the solution is on a chain then follows by least
counterexamples, with no induction theorem: `TraceIsChain` says that `Trace` of any node is its chain, `WalkReachesChain`
that the recall query's walk is the chain's nodes, and `RowsOfChain` that both read the same rows.

The refinement of `MemoryChain` has one lemma for each kind of step: `ObserveShows`, `RetractionShows`, `ReplacementShows`
and `PurgeShows` say which abstract step it is, `CallerShows` that everything else is a stutter. It needs `GapIsNoMemory`: what is
shown in the place of a purged memory is no memory's id.

### Sessions

A lookup and its write are two steps. `MintedIsNew` says of the id a process minted that no row, link or other
plan has it until the write, whatever ran in between; without it a write could close a cycle of successions.
Acyclicity is stated by an origin that every succession leads back to, `SuccessionHasAnOrigin`, so that no induction over paths
is needed: a stand-in takes the place of the session it replaces.

### Registry

The four tables are one value and `Sound` is said of a value, so lemmas about the operators (`Reuse`, `Attach`,
`Mint`, the changes, the undo) carry it. An undo puts old rows back; hence `HistoryIsWhole`: every record of a
migration is a sound piece of a registry, of a namespace that is still there, under labels that the namespace
kept. The proof showed one guard to be missing from the model: rows put back may break the unique indexes on
remote and path, in which case SQLite refuses and the transaction rolls back (`Restorable`). The dry run has
called that undo safe, for it compares rows with their record and nothing with the bindings made since.

### Queue

`Sound` is again said of the tables as one value. Of what a process read before the model call, `QueueInv` says only
what others cannot undo: the ids were observed and are not excluded. That they still exist is what the write
finds out itself, which is why `NoOrphanSpan` holds and `NoOrphanVector` (section 5) does not.

`TailIsCovered`, about `TailWindows`, holds for every length of a text whose tokens a tokenizer tells; windows cut in characters
have only their number proved (`WindowsCounted`). `LoopEnds` finds where the loop of `spans._windows`
stops (the least place where it may), `WindowsMeet` says that each window ends `2 * Drift` tokens or more after the next
begins, the anchored one included, and a token beyond the head lies in the first window that ends at or after it. The
three assumptions of the module are all used; what fails without the two that the code does not check is in section 5.

### Search

How wide a leg looked when it stopped depends on the density of hidden rows, the growth factor and the order vec0 chose
among equals. `SearchInv` forgets all that: a settled leg has all visible rows, or it has rows of `Candidates` memories
and none that it left out is nearer (`LegSound`), unless the index is larger than the ceiling. So of any row that was left
out there are as many memories at most as far as it as the list has places: it is `Crowded` out. Rows that hold every
visible row or crowd it out are enough to rank (`Suffices`, `RowsThatSuffice`): the list has the length it should, and a memory
that is not on it is no nearer than one that is, whatever its own nearest row was. `MergedSuffice` is the step to prove: the
merge keeps the tails of only the `Candidates` nearest memories of the span leg, and what it forgets is crowded out by those.
That a wanted memory has a row as near as its answer is `TailIsCovered` again, where a tokenizer cut the windows; where
none did, the answer is asked only of the tokens some vector saw (`FindableIsSeen`).

The proof of `WindowIsNamed` did not go through for the statement it once was, that a tail window is named only if it is nearer
than the head. When two memories tie, a full head leg may have left out a head that is as near as a tail, and then
the tail is named (`recall.py:829-841`); TLC found the case once the instance had it. The property now says what the
code does: the window named is as near as any, and a tail that is only as near as its head is named only where
more than `Candidates` heads are that near.

`TimelineInv`: what is merged after some pages is all that is current among the events read, and the events are in the order of time, so
when there are enough, or no events are left, nothing newer is missing.

Both need what a ranking is. `SortedOrders` says it of any keys of which no two are level: the number of keys before a key
is a different one for each, so counting them is a bijection, and `Sorted` has every memory once and in order.

### Content

`LockIsHeld`: one process at a time is where the migration lock is needed, so what it read of backups and
registrations stands. `Stands` has, for each step of an operation, what its earlier steps established: between
retirement's last look and the unlink every row of the source is in the target or was written or purged
since (`Covered`); during a sweep no backup that was dealt with holds the memory or answers with a head that
does. `CorrectionsHold`: every correction stands in a database other than the gone ones and the one a retirement is about to
unlink. A merge skips ids that the target has and a plan may be older than the correction, so what carries it is that
retirement lets a source go only with all its rows in the target as they are (`Drained`). `HeadsTellPurges` ties the two stores: a bundle with a database's present head holds nothing purged from it.

### Publication

`Stands` says at each step of a publication whose the file is: until the registry's commit it is nobody's, and
its label and names are nobody's, because both locks are held and whatever could take them takes one of the two.
From the staged file to the registry's commit an intent names the file, and a file that an intent names has the
label of its bundle or none (`IntentsHold`): recovery relies on that wherever the process died. `HeadsHold`: heads of this home are below the counter that
the next is made of, and a bundle that has a namespace's head holds nothing erased from it; so a bundle that is accepted
brings nothing back. For the refinement `AtomicImport`'s state is what the registered names show (`Shown`): one
lemma for each kind of step says that it shows nothing new, except the registry's commit and the update's.

### Export and graph

What makes a bundle whole is not only which rows there are but when they were written, so most of `ExportInv`
compares stamps (`Sound` says it of any database, clock and set of cuts, so that each change of the database has a lemma):

* `SessionsAreThere`: every cut of a commit that takes a memory or a correction takes its session. A session may be
  younger than its row, when a transaction reads the clock for the row first; only the cuts of commits are spared the gap.
* `CorrectionsClose`: a memory is closed by its correction or by the `valid_to` it was observed with, and by nothing else
  (`LineageTells`); a correction is younger than its target and than the correction that made it, and a commit's
  cut takes it with its replacement, although the replacement's own stamp may be the older one, when the clock was
  set back. That is why the selection asks for the correction of a replacement too (`FutureReplacements`).
* `SuccessionIsOlder`: a session's predecessor is older. A cut then keeps it, and a bundle's successions have no cycle
  because the oldest session of any set has no predecessor in it.
* `EndsAreThere`: every end of a correction is a row, each memory is corrected once and made by one correction, and a
  tombstone stands for some end.
* The graph is `GraphOf` the memories: a function of them, aggregates and all. `ExtractedAdds` and `ForgottenDrops` say that
  a write and a purge change it row by row to the `GraphOf` of the memories with one more or one fewer, whatever the event
  times; `RebuiltIsGraph` that the recursion of a rebuild, in whatever order the times give, comes to the same.

The purge is the hard step: scrubbing, prune, tombstones and stand-ins rename and remove rows while the stamps stay.
`RenamedIsSound` treats a renaming of sessions once for all; a purge starts `past` anew, so what it must keep is
closure, not history. For `CutIsHistory`, `OnlyAdds` says of the other transactions that they add rows later than the last
reading or made by a correction later than it, and close only what was open; `EarlierCutsStay` that this is enough.

### Storage

`StorageInv` rests on the order of transactions: frames stand in the log in the order they were committed,
a page's frame that is older than the main file's page is followed by a newer one that was published,
and the main file's pages only move forward. Recovery may read further than the index did, and this is why
that finds nothing but later commits (`RecoveryForgetsNothing`). For the read, `Reading` says that a page whose hash
is the same before and after was not written in between, so the moment the log was hashed is one at which
everything that was hashed was there together; `Blaming` that an attempt fails only after one of its causes.

### Hooks

Capture needs that rows are keyed as their call is (`KeyOf`), and that only processes past the first look insert.
Binding needs `Underway`, which ties what an install has written to where it is in its walk: nothing before the
preflight is over, the current host exactly when its second file is due; `Healthy`: the hosts an undisturbed install is done
with pass every check and the current one those of the files already replaced; and `Others`: what a
user put beside haunt's entries is also in the copy an install holds of it, unless the edit raced. `Merged` is proved to
keep `Beside`; of `Claimed` it is not, because that does not hold (section 5).
`HealthyHostsRun` is the lemma that composes the two halves: a content doctor implies a hook process for each event.

### Only model-checked

* `DrainsGetThrough`: liveness, for which there is no rule here.
* `AnswerIsTrue`: fusion weights, the diversity stage, the payload budget and the block are recursive functions and folds
  over sequences, and what those compute is induction over data.

## 5. Where code and documents disagree

`lost_lock`. The comment at 6650-6655 says that the target's backup is taken inside the write
transaction, so that no concurrent observe can land between backup and merge. After `BEGIN IMMEDIATE`
the same process opens the target with the zero-write reader (6662). That reader opens, hashes and closes the
files, and a process that closes any descriptor of a file gives up its POSIX locks on it. `Durable`
fails: a second writer begins beside the first, and a commit that returned is overwritten.

The modules state further sentences of the documentation that do not hold of the code. They have no run
of their own; each is refuted in seconds when it is made the only INVARIANT (`NothingIsClobbered`: the only PROPERTY) of the
configuration named.

| Statement | Configuration | Documented at | What happens |
|---|---|---|---|
| `EmbeddingQueue!NoOrphanVector` | `MCEmbeddingQueue` | `README.md:95` | a purge while a drain waits for the model leaves the erased memory's vector in `vec_memories`, which has no foreign key (7851) |
| `EmbeddingQueue!SpanVectorsHaveRows` | `MCEmbeddingQueue` | 2157-2161 | reembed's dropped span table and undeleted span rows are visible to a drain, which ends in span vectors that no row names (8175) |
| `EmbeddingQueue!MismatchIsStale` | `MCEmbeddingQueue` with `"bootstrap"` in `Ops` | `embeddings_stale` | bootstrap stamps the loaded model before it asks whether the stored vectors match it (`bootstrap.py:172`) |
| `SessionChain!LinksResolve` | `MCSessionChain` | 5565-5700 | a successor looked up before a purge and inserted after it links to the erased session |
| `NamespaceRegistry!UndoRefusesOnlyDrift` | `MCNamespaceRegistry` | `MEMORY_CONTRACT.md` section 5 | undo compares whole rows with the `updated_at` that every memory write refreshes, so one write makes it refuse (4380) |
| `NamespaceRegistry!CompatibilityRow` | `MCNamespaceRegistry` | `init_registry` | a rename to the label that is canonical already deletes the namespace's row of `namespaces` (4210) |
| `ImportPublication!PublishedIsRecovered` | `MCImportPublication` | `EXPORT_FORMAT.md:314-318`, `README.md:285-287` | a crash after the registry row, then a purge or relabel of the new namespace: its intent never fits again and every later import is refused (`portability.py:2061`) |
| `ImportPublication!RegisteredIsInitialized` | `MCImportPublication` | `_claim_fresh_namespace_db` | the schema stays in the log of the private name, which goes with that name; the first writer makes the tables (2913) |
| `NamespaceContent!RacingWriteKeepsItsFile` | `MCNamespaceContent` | 6776-6780 | a write after retirement's last look goes to an unlinked file (6915) |
| `ExportSelection!EveryCutImports` | `MCExportSelection` | `EXPORT_FORMAT.md:187-189` | a cut inside a retraction that opened a session keeps the correction and not the session (`portability.py:487-522`) |
| `SnapshotRead!RegistryReopens` | `MCSnapshotRead` with `IsRegistry = TRUE` | 980-996 | a crash in the first commit of a fresh log, or between the removals of index and log, makes the preflight read refuse the registry for ever |
| `HostBinding!NothingIsClobbered` | `MCHostHooks` | "Do not clobber others", `cursor.py:57`, 96 | a value of another shape where haunt's entries go is replaced without a word (`cursor.py:73-80`, 108-110; `claude.py:81-89`, 131-133), and the user's `env` and `args` of the haunt MCP server go with its old entry (`cursor.py:118-120`, `claude.py:141-143`) |
| `HostBinding!BoundIsHealthy` | `MCHostHooks` | `doctor_cmd`, which repairs what its checks find | a haunt MCP server in `settings.json` fails two checks (`claude.py:352-368`, `doctor.py:434-447`), a matcher group with `"hooks": null` makes the file "malformed" (`claude.py:291`, 320); neither install nor repair removes them |
| `Recall!FallbackLeavesNoGap` | `MCRecall` | `spans.py:54-57`, `embed.py:645-646` | without a tokenizer the head is cut in tokens, the tail in characters at 3 per token, and no window is fitted (`spans.py:269-295`): text of shorter tokens has tokens in no vector, short text no window at all, and neither is marked as cut |

Where a checked property excepts such a case, its comment says so: `NoRowLost` the write after
the last look, `CommittedCutImports` the cuts inside a transaction, `OthersAreKept` the edit between
an install's read and its replacement and what stands where haunt's own entries go, `BoundMeansHealthy` the snags,
`CorrectionsSurvive` the correction after the last look, and `NothingIsLost` calls the host reports alike: Cursor gives all
shell executions of one generation one `generation_id`, so the second, different one meets the first
one's key and is dropped (`cursor_hook.py:180`; `README.md:211`).

Assumptions the code does not enforce: `SliverFitsWindow` (with an effective window shorter than the smallest
tail, the window anchored at the end leaves tokens in no vector, `spans.py:162-167` against the
docstring 144-151) and `DriftIsShared` (with an overlap of 0, a window that tokenises longer is
cut by tokens its neighbour does not have).

Seen while reading, and stated nowhere: a `valid_to` declared in the future is exported as open
(`EXPORT_FORMAT.md:185-186`; `BackupLosesNothing` allows it). A namespace with a migration on
record cannot be retired, for the foreign key of `namespace_migrations` refuses the deletion that the dry run
called safe (6877; `RetireNamespace`). An undo whose dry run called it safe fails when a binding made since has the remote or the path
of one it would bring back (`Restorable`). A file kept by retirement because of a late write is not adopted again by
`register_namespace`, as 6776-6780 says, but refused as an unmapped file (`PathFree`, `Mint`). A crash
between the two links of an intent leaves one with two names, which recovery refuses (`portability.py:1966`).
A malformed Claude file is found only in its adapter's turn, when Cursor's is bound already (`hosts/__init__.py:433`).
An entity keeps the spelling last written through a purge of the memory that wrote it, until `rebuild_graph` (`graph.py:259-267`,
455-463; `README.md:95` speaks of graph rows). Equally near vectors at the edge of the widest request are cut in no order (`recall.py:793`).

## 6. Not modelled

Not modelled, and why:

* Text: formatting, redaction, the temporal grammar, query rewriting, the words of blocks, cards, rules and
  skills. No property here is about wording; sizes and identities stand for it.
* Scores: cross-encoder and BM25 are any ranking; distances are two values.
* The file system below its names: permissions, symbolic links, descriptor-relative opens, device checks.
* Label inference from paths and remotes with its cache (`paths.py:1238-1790`), and the projection of a legacy
  registry table when it opens. What inference asks for is any label; a projected registry is an initial state.
* Which entities a text names (`graph.py` 133-226), and how a name is spelt.
* `HAUNT_EMBED_SPANS=off`, with which a text has its head's vector alone; tokens of different lengths in one text.
* Matchers of Claude's hooks: an entry of haunt's runs for every tool, as install writes it. `MemoryTool` is a tool that
  `_is_memory_tool` recognises; by its name test (`cursor_hook.py:210-215`) a tool called `mcp__haunt__memory_recall` is none.
* Model downloads, the user interfaces, bundle text with its limits and digests, evaluation harnesses.
* `process crash` is a kill: what the operating system was given is kept. Power loss is not modelled.

The runs share a budget of time on a small machine, which is what bounds their instances.
