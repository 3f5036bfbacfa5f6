# aDaBt in TLA+

aDaBt is an embedded database that changes its own physical layout while it runs: indexes, caches,
column copies, record codecs and whole schemas are swapped under an interface that must go on giving
the same answers. This directory holds the formal side of that promise: TLA+ modules translated from
the Rust source, the TLC configurations that check them on small instances, and theorems that TLAPS
proves for every instance.

`PROJECT.json` is the machine-readable index: components, runs, mutants (for every checked property a
plausible mistake in the code that breaks it), the map from definitions to source lines, findings,
hazards and theorems. Paths below are relative to `src/crates/`.

- [The system](#the-system)
- [Modules and the code they model](#modules-and-the-code-they-model)
- [Runs: what each checks and shows](#runs-what-each-checks-and-shows)
- [Where the code does not do what it says](#where-the-code-does-not-do-what-it-says)
- [Bounds, fairness and environment](#bounds-fairness-and-environment)
- [Proofs](#proofs)
- [Not modelled](#not-modelled)
- [Plan](#plan)

## The system

| Component | State | Operations | Correct when |
|---|---|---|---|
| Version tracker (`adabt-storage/src/version.rs`) | write clock, multiset of open snapshots | `begin_write`, `open_snapshot` (reads the clock, *then* takes the lock), `close_snapshot`, `reclaim_horizon` | no version an open snapshot needs lies behind the horizon |
| Heap store (`heap.rs`) | per record a chain of stamped versions, free-space map, `retained` counter | insert, update, delete (tombstones), `get_at`/`scan_at`, `latest_write_ts`, `reclaim`, `vacuum` | a slot belongs to one version; snapshots never change; conflict stamps outlive the snapshots that need them |
| Slotted page (`page.rs`) | slot array, payload area | insert, update, delete, compact, read again | a slot keeps its payload until its holder changes it |
| Page file and buffer pool (`pager.rs`) | frames, clock, read-ahead, the heap file | hit, miss, eviction, growth, resizing, checkpoint, truncation | no change is lost between frame and file; the pool keeps to its size |
| Write-ahead log (`wal.rs`) | segments of frames, `next_lsn`, unsynced tail | `append`, `commit` by policy, `sync`, rotation, `entries_from`, `discard_below`, archive | what was acknowledged survives; nothing recovery needs is discarded |
| Directory cache, catalog (`directory.rs`, `metadata.rs`) | stamped snapshot of the directory; names, ids, schemas, counters, `through_lsn` | written by checkpoints, read by `open` | a cache is an optimisation: with or without it the same store comes back |
| Recovery, backup, restore (`HeapStore::recover`, `open_at`, `backup_to`, `restore_from`) | whole directories | five recovery passes; copying, supplying segments, opening at a moment | the store comes back as its user was told it is |
| Schema changes (`HeapStore::alter_schema`, `codec.rs`) | a hidden staging collection; cells decoded under a newer schema | in place, or copy beside and flip with one log entry | every stored record reads back; the flip is the only moment at which anything changes |
| Transactions (`adabt-engine/src/transaction.rs`, `database.rs`) | snapshot, buffered writes, read set | statements, `commit`, `abort` | first committer wins; serializable under `Strict`; all or nothing |
| Unique constraints (`unique.rs`, `database.rs`) | declared fields, an index each | declare, check on every write path, rebuild at open | no two records share a value, whoever wrote them |
| Derived structures (`caches.rs`, `matview.rs`, `column.rs`, `direct.rs`) | copies stamped with epochs, or kept by hooks | built, maintained, invalidated | no reader ever sees one that is stale |
| Planner and executor (`adabt-exec`, `adabt-index`) | indexes, cached plans | choice of an access path, operators | a plan answers what a scan of the rows answers |
| Expressions, SQL, values (`adabt-ir`, `adabt-core/src/value.rs`) | none | evaluate, compile, fold, store, parse, compare, hash, compute | every use made of a condition agrees with evaluating it |
| Sharding (`sharded.rs`) | databases behind one mutex each, a journal | routing by id, auto ids, broadcasts, fan-out and merge, `commit_coordinated`, `recover_coordinated` | answers are the unsharded ones; cross-shard writes are all-or-nothing across a crash |
| Optimizer (`adabt-opt`, `optimizations.rs`) | active decisions, records, pins, cooldowns | propose, apply, disable, retract | a change can always be taken back; nothing load-bearing goes |
| Experiments (`experiment.rs`, `shadow.rs`) | live trials, hidden candidates | shadow, canary, promote, revert | nobody else sees a candidate, composite indexes excepted; promotion is earned |
| Telemetry (`adabt-telemetry`) | counters per shard, histogram, sketch | record, snapshot, decay | measurements mean what the optimizer reads into them |
| Server, client (`adabt-server`) | connections, threads, roles | accept, authorise, dispatch, reply, drain | replies tell the truth, privileges are earned, shutdown ends |
| CLI, FFI, testkit, benchmarks | | thin shells and test tools | not modelled |

**How they interact.** A `Database` is used by one thread at a time (`&mut self`, or the shard's mutex),
so calls on one store do not interleave. Six things do:

1. snapshots are objects *outside* the store: any thread may drop one at any moment, and every shard of a
   `ShardedDatabase` stamps and snapshots on one shared tracker;
2. open transactions: their statements and commits interleave freely with each other and with direct calls;
3. the disk: pages are written back when the pool needs a frame, whatever call is running, and a crash
   cuts any call anywhere;
4. threads of a sharded database: broadcasts and single-record writes do not take the coordinator's mutex;
5. experiments and optimizer cycles, which run between any two queries, and monitors that walk the
   telemetry's shards while queries are counted;
6. connection threads of the server, its accept loop and its shutdown.

These are where tests are weakest, and what the modules below are about. The hazards of `PROJECT.json`
name the line each of them bites at and the properties that would notice.

## Modules and the code they model

```
SnapshotStore          abstract: a map, and snapshots that are copies of it
   ^        ^-- Transactions <-- TransactionsProofs   transaction.rs, database.rs, unique.rs
   |
VersionedHeap          heap.rs, version.rs    (refines SnapshotStore)
   ^   ^-- HeapVacuum               heap.rs: vacuum, relocate
   |          ^-- VersionedHeapProofs   (theorems of both)
   ^-- CrashRecovery                heap.rs: log, checkpoint, recover; pager.rs, directory.rs
          ^-- CrashRecoveryProofs   (uses lemmas of VersionedHeapProofs)

LogStore               abstract: one log, cut at its end or discarded from its start
   ^-- LogSegments <-- DurabilityProofs    wal.rs    (refines LogStore)
Restore <-- DurabilityProofs        superblock.rs, metadata.rs, derived.rs; backups, opening at a moment

Values <-- Expressions              value.rs; expr.rs, vm.rs, exprcodec.rs

BufferPool, SlottedPage <-- PagesProofs     pager.rs; page.rs
Coordinator <-- CoordinatorProofs   sharded.rs: coordinated writes
Service <-- ServiceProofs           adabt-server

Experiments, Telemetry <-- TuningProofs   experiment.rs, shadow.rs; adabt-telemetry

CatalogRecovery  RecordCodec  Sharding  QueryPaths  Sql
DerivedStructures  Optimizer
```

**SnapshotStore** is the promise: `data` maps records to values, `snap[r]` is the copy a reader took,
`written[r]` the records written since. `Write`, `Take`, `Drop` are its only operations. `Transactions` is
built on it, `VersionedHeap` implements it.

**VersionedHeap** keeps what the code keeps: `directory` (chains, oldest version first, tombstones without a
location), `slots` (the pages), `offered` (pages the free-space map knows), `retained`, and the tracker's
`next`, `opening`, `open`. `lastWrite` is a history variable. `apply_put`, `apply_delete` and `Reclaim` are
whole handlers, including the reclamation a write triggers. Which page with room the free-space map offers
is left open, so every placement policy is covered; the slot inside the page is the first dead one, as in
`Page::insert`. Opening a snapshot is two steps because the code reads the clock before it takes the lock:
for a reader of this store the two are shielded from the store's own calls by its borrow or mutex
(`StoreFree`), for a reader of another shard (`Foreign`) they are not.

**HeapVacuum** adds the loop of `vacuum` step by step: reclaim, look at the last page, truncate it or move
its occupants into holes, repeat. The store is busy meanwhile; the tracker is not. `cut` remembers that a
truncation took a page some chain still named.

**BufferPool** has the file, what of it was fsynced, the frames, the clock with its hand, read-ahead and the
call in progress. A page's content is a version number. A call that needs room evicts one victim per step,
a flush writes one page per step, and a crash may come between any two; `latest` is the history of changes.

**SlottedPage** is one page byte by byte, with payloads as marks: where they lie, what a compaction moves,
and whether the page that was written is accepted when it is read. `Packed` is the loop of `compact`: where the
payloads below a slot end once they are packed.

**CrashRecovery** adds the disk to the heap: `disk` is the heap file, `log` the entries, `synced` how many an
fsync has covered, `through` the catalog's `through_lsn`, `cache` the directory cache. `WriteBack` may happen
at any time. A checkpoint is four steps. A crash keeps the file, the cache and a prefix of the log with
everything synced; `Open` loads the cache or scans the pages, `Replay` applies one entry at a time and may be
cut off by another crash.

**LogSegments** is the log as files: frames that may be torn, segments that are sealed, rotated, discarded and
archived, three durability policies, writes that fail. `segs` is the writer's list of segments as the set of their
first lsns, the highest of which is the active one; a file of that name that is not in the list is one the writer
has let go of. `read_all` is the log as one sequence, for **LogStore**, the log it stands for.

**Restore** is about directories as wholes: superblock, catalog, pages, log, derived cache and constraint file,
and the calls that open, checkpoint, copy and restore them, or open them at a moment. `want` and `past` are
what the last user was told. **CatalogRecovery** is about collections, ids and schemas: `alter_schema` in place
or by a staging copy, and `recover` as the composition of its passes in the order the code runs them.

**Transactions** has a state per transaction, its buffered writes and read set, the constraint with its
definition, its index in memory and on disk, batches, and direct calls. `commit` checks everything, then
applies one write per step, so that a crash or a refusal can fall between two. `seen` (everything a
transaction has learnt) and `lapsed` (a constraint has been without its index) are history.

**RecordCodec** writes records to cells and reads them back under the schema of the moment, in full, by peeking,
and through the direct array; it also freezes a collection into the schema its rows suggest (`infer.rs`) and reads
the schema back from the catalog at an open (`catalog.rs`). **Sharding** has the shards' rows and counters, broadcasts of one step per shard,
restarts, and queries pushed down and merged. **Coordinator** has the journal file, the queue of an apply in
progress, the shards as one map, and other threads' writes; `landed`, `latest`, `raced`, `torn` are history.

**QueryPaths** has rows, indexes, columns and cached plans, and compares every answer with a scan.
**Expressions** runs the compiled machine one instruction per step beside the tree it came from. **Sql** is the
parser over tokens, with a token dropped or doubled. **Values** is pure: order, hash, arithmetic, rescaling.

**DerivedStructures** is one collection with its hash index, direct array, columns, view and result cache, each
told of writes by its own hook. **Optimizer** has policies, workloads, cooldowns, pins, one definition for what each
built-in optimization proposes, and the records by which decisions are taken back. **Experiments** has the phases of trials and
who sees their candidates: single-field indexes (plain, partial, covering), composite indexes and column stores, which
`plan_context` asks the mask about, composites excepted (`Asked`, `Visible`); any other change tried is a switch.
Reads by record id, and with them the direct arrays, are left out.

**Telemetry** takes one lock per step. **Service** has one thread per connection, the accept loop, the clients and
the shutdown.

The modules whose names begin with `MC` only serve TLC: they give instances to the constants and put
modules together for a run.

## Runs: what each checks and shows

A passing run checks several modules over one variable `part`: each behaviour follows one module, and the
others rest in an initial state or are left out (hold empty sets). The state spaces therefore add up and do not
multiply, and a module's properties, prefixed with `part = ...`, are checked on exactly its own behaviours.

| Run (module, cfg) | Parts | Distinct states |
|---|---|---|
| `versioned_heap` (`MCVersionedHeap`) | VersionedHeap, BufferPool, SlottedPage | 1,076,716 |
| `recovery` (`MCDurability`, `Durability.cfg`) | CrashRecovery, LogSegments, Restore | 1,777,451 |
| `transactions` (`MCWritePaths`, `WritePaths.cfg`) | Transactions, RecordCodec, Sharding | 629,834 |
| `query_paths` (`MCReadPaths`, `ReadPaths.cfg`) | QueryPaths, Sql, Expressions, Values | 381,532 |
| `structures` (`MCStructures`, `Structures.cfg`) | CatalogRecovery, Optimizer, DerivedStructures | 2,248,294 |
| `tuning` (`MCTuning`, `Tuning.cfg`) | Experiments, Telemetry | 551,428 |
| `progress` (`MCProgress`, `Progress.cfg`) | Service, Coordinator, HeapVacuum | 622,201 |

What the properties of each run show (a property named `...Invariant` is a conjunction, named part by part):

- **`versioned_heap`.** `SlotsOwned`: live slots are exactly those chains name, each once. `SnapshotsAreStable` and
  `SnapshotSeesCommitted`: a snapshot reads the state it was taken in, whatever writes, reclamations and other
  shards do. `ConflictStampsSurvive`: `latest_write_ts` misses no write made after an open snapshot, although a
  pruned tombstone forgets its stamp. `RetainedCoversSuperseded`: the reclamation counter never undercounts.
  `ImplementsSnapshotStore`: all of it refines the abstract store. `PoolInvariant` (`PoolTypeOK`, `NoChangeIsLost`,
  `RoomIsKept`) and `CheckpointHolds`: no change is lost between frame and file, the pool keeps to its size, what
  a checkpoint covered no crash takes back. `PageInvariant` (`PageTypeOK`, `PayloadsReadBack`, `PageReadsAgain`,
  `CompactionReclaims`): slots keep their payloads through reuse and compaction.
- **`recovery`.** `ContentsMatchLog`: with any write-back order and two crashes the store comes back as its log says
  (no checkpoint, or no record written twice). `CrashInvariant` (`RTypeOK`, `HeapLagsLog`, `LossBounded`): what a
  crash may leave of log and heap. `LogInvariant` (`LogTypeOK`, `AcknowledgedEntriesSurvive`, `ArchiveIsComplete`,
  `GroupLossBounded`) and `ImplementsLog`: segments are one log that loses nothing acknowledged. `RestoreInvariant`
  (`RestoreTypeOK`, `IndexMatchesRows`, `WholeDirectoriesOpen`) and `OpensAreExact` (`ShowsWhatWasTold`, `StopsExactly`).
- **`transactions`.** `NoLostUpdate`; `CommitsAreSerializable`: what a transaction has learnt still holds when its commit
  is accepted, predicate phantoms aside (`docs/limitations.md` excludes them). `ConstraintInvariant` (`TTypeOK`,
  `IndexMatchesData`, `UniqueHolds`): uniqueness through transactions, batches, direct writes and a crash inside any
  of them. `CodecInvariant` (`RecordsReadBack`, `RowsFitSchema`, `PeekMatchesDecode`, `ArrayMatchesRows`,
  `InferenceIsConservative`: freezing rejects no row and takes no field).
  `ShardingInvariant` (`EveryRowHasItsOwner`, `CreateReachesEveryShard`, `AnswersMatchUnsharded`) and `AutoIdsAreNew`.
- **`query_paths`.** `PathsInvariant` (`AnswersMatchScan`, `JoinsMatchScan`, `IndexesMatchRows`, `PlansNameLiveStructures`),
  `SqlInvariant` (`PlanShape`, `AcceptedAsTyped`, `ConditionsBindAsWritten`, `AnswersLikeSql`), `EvaluationInvariant`:
  `ExpressionInvariant` (`StacksBalance`, `CompiledAgrees`, `ReferencedFieldsSuffice`, `ConstraintsAreImplied`,
  `ConditionsComeBack`, `PatternsMatchByCutting`) and `ValuesInvariant` (`ExactValuesAreOrdered`, `EqualWholesHashAlike`, `ExactArithmeticIsExact`, `RescalingKeepsTheNumber`).
- **`structures`.** `RestartsAreExact`: a crash anywhere in a migration, drop or checkpoint is recovered from exactly
  when the replayed log describes one incarnation of each collection, and ids are not handed out again.
  `OptimizerInvariant` (`SwitchesMatchConfig`, `OptimizerIndexesAreRecorded`, `UnusedIndexesGo`, `PlansAreUndone`), `CyclesAreCautious`
  (`SparesLoadBearing`, `HeedsEvidence`). `DerivedInvariant` (`StructuresMatchRows`,
  `AnswersAreCurrent`, `VerifyIsExact`: `Database::verify` is silent on what is reached and sees one entry lost).
- **`tuning`.** `TrialInvariant` (`OneExperimentPerQuery`, `CandidatesStayHidden`, `PromotionIsEarned`,
  `CanaryShareIsExact`), `TrialsEndCleanly` (`RemovesReverted`, `ExperimentsEnd`). `CandidatesStayHidden` speaks of the
  candidates whose kind the planner asks the mask about; composite indexes are on trial in the same run and stay
  visible to everyone, as in the code (see `CompositesStayHidden` below). `CountsAreTrue`
  (`EqualityWithinTotal`, `SnapshotsLieBetween`, `TouchesAreNotLost`), `TelemetryInvariant` (`TelemetryTypeOK`,
  `PercentilesAreClose`), `CountsReachZero`.
- **`progress`.** `ServiceInvariant` (`CapHolds`, `RepliesTellTheTruth`), `PrivilegesAreEarned`, `WaitsEnd`
  (`ShutdownEnds`, `CallsEnd`). `CoordinatorInvariant` (`JournalCoversQueue`, `AtomicUnlessTorn`,
  `ReplayKeepsLaterWrites`), `RecoveryFinishes`. `VacuumIsInvisible` (`ChangesNoRecord`, `KeepsSnapshots`, `VTypeOK`):
  while records move and pages go, `get` and every open snapshot read what they read before. `VacuumTerminates`.

Several of these carry a condition. Each condition excludes the histories in which the property was
seen to fail, and so names a way in which the code falls short of a claim it makes; the next section lists them.

Violation runs, one property each, quoting what the code's own comments promise:

| Run | Property | What happens |
|---|---|---|
| `heap_vacuum_readers` | `LiveRecordsReadable` | `vacuum` looks at newest versions only, truncates a page older versions live on; the file grows again, a later reclaim frees the stale location, and the slot of a live record dies with it. |
| `recovery_scan` | `ScanIsTheDefinition` | A page written back before a slot's freeing is scanned after a crash and files a deleted or superseded record again. |
| `txn_duplicates` | `CommitAllOrNothing` | A write set that puts one value under two records passes the check and is refused after its first write. |
| `catalog_flip_then_write` | `RecoveryIsExact` | Rows written after a migration's flip are replayed (pass 3) into the collection that the flip (pass 4) then replaces. |
| `coordinator_torn` | `CoordinatedAtomic` | A torn journal is replayed up to the first entry it cannot decode. |

Every property of a passing run has a mutant: an operator such as `Unwritten` or `sync_nothing`, written just
before the definition it replaces, that changes it the way a plausible bug would, and under which TLC finds
the property violated.

## Where the code does not do what it says

Besides the five runs above, the following were met while modelling. Those with a name are definitions of the
module named, stating what a doc or comment claims; TLC finds each violated when it is checked.

*Conditions of passing properties.*

- `ContentsMatchLog` needs "no checkpoint, or no rewrite", for the cache as well as for the scan: after the
  checkpoint a slot the cache names may be freed, reused and written back (`directory.rs:26` says otherwise).
- `HeapLagsLog` needs `Strict`: `evict_one` (`pager.rs:343`) does not sync the log, so under `GroupCommit` a page
  can reach the file before its entry (`wal.rs:3`).
- `CommitAllOrNothing` says nothing of a crash: entries of a commit, like those of a batch, are logged one by one
  without a completion mark (`database.rs:1163`, `database.rs:1271`).
- `UniqueHolds` needs an index that has stood since the declaration: `invalidate_after_schema_change`
  (`database.rs:1989`) drops it, and a missing index is read as no conflict (`database.rs:1821`).
- `RestartsAreExact` excludes a name dropped and created again within the replayed log (`heap.rs:579`) and an
  `AdoptMigration` at `through_lsn` itself (`wal.rs:858`); for the id counter it needs a checkpoint that completed.
- `ReplayKeepsLaterWrites` excludes records another thread wrote between their coordinated write and the
  removal of the journal (`sharded.rs:298`); `RecoveryFinishes` excludes journals with a record the schema
  refuses (`sharded.rs:299`); a journal of one to three bytes makes `open` fail (`sharded.rs:255`).
- `retained` only ever errs upwards: tombstones that are dropped are never subtracted (`heap.rs:1717`).

*Storage.* `EveryAcknowledgedEntrySurvives` (LogSegments): a failed write leaves bytes behind which later, acknowledged
entries are not found. `DeclarationsSurvive` (Restore): a clustering field is saved and never read back
(`heap.rs:144`, `643`). `RestoreStopsAtTarget` (Restore): pages written after the target are not taken back
(`tests/backup.rs:287`). `SuppliedLogIsReplayed` (Restore): a checkpoint among supplied segments hides what it covers
(`heap.rs:566`). `DroppedDeclarationsReplayAsNothing` (DerivedStructures): after a dropped collection that had an index
the next open fails (`heap.rs:1928`, `550`). `EditsDecodeInPlace` (RecordCodec): two in-place schema edits move or
re-expose stored fields (`codec.rs:671`, `737`). A damaged constraint file is read as no constraints
(`unique.rs:117`); `place_keyed` can overflow (`heap.rs:1014`); a `u64` beyond `i64::MAX` wraps in a signed slot (`codec.rs:540`),
which inference gives a field of mixed integers (`infer.rs:91`).

*Answers.* In QueryPaths: `PlansServeTheirShape` (a partial index chosen for one literal serves another of the same
shape, `planner.rs:879`), `CoveringKeepsOrder` (`exec.rs:648`), `EveryTotalHasARow` (`exec.rs:1318`). A B-tree range whose ends
cross panics (`adabt-index/src/lib.rs:500`). In DerivedStructures: `SumsDoNotDependOnTheAccessPath` (`matview.rs:18`) and
`ViewsFollowTheLayout` (`database.rs:1981`); a view's sum is not `None` once its last number has left (`matview.rs:225`).
`FiltersAgree` (RecordCodec): undeclared fields are decoded and not peeked (`codec.rs:1014`). `EveryAnswerIsSqls` (Sql):
ordering by a column that is not selected does nothing (`sql.rs:392`). In MCValues: `EveryOrderIsTransitive`
(`value.rs:278`) and `HashFollowsEquality`. `EveryAnswerMatchesUnsharded` (Sharding): a filter above a cut is pushed down
(`sharded.rs:432`).

*Tuning.* In Optimizer: `LoadBearingIndexesStay` (the manual driver and schema changes drop a unique constraint's index,
`driver.rs:41`) and `BuiltWithinCeiling`. In Experiments: `PromotionReachesPlans`, `RevertLeavesNothingNew`,
`PromotedCandidateExists` (`retire_experiment`; a build that failed can be promoted; a switch is not taken back), `CompositesStayHidden`
(`database.rs:2032`: the mask applies to everything the planner can see. It does not: `plan_context` passes composite
indexes on unasked, `database.rs:2140`, and `composite_for` prefers them, so a composite index on trial serves its own
baseline and every other query; its canary then compares the index with itself). Likewise a compiled identity lookup
and `get` read a direct array on trial without asking the mask (`database.rs:2455`, `3518`; not modelled). `EndedWorkloadsAreForgotten`
(Telemetry): `decay` skips two of the tables (`collector.rs:388`).

*Server.* In Service: `AuthIsNeverDispatched` (`server.rs:570`: authenticating twice panics the thread) and
`NoThreadOutlivesServe` (`server.rs:49`: not when the drain times out).

## Bounds, fairness and environment

Bounds are constants of the modules (`Max...`, capacities, group and segment sizes) and appear as guards.

- *Two records* suffice for aliasing and for commits that are cut in the middle; two values tell an old version
  from a new one; `SlotsPerPage = 2` makes pages that are partly live. *Four writes* (`MaxStamp = 5`) allow write,
  snapshot, overwrite, delete, reuse; `RetentionLimit` is below that, so writes trigger reclamation themselves.
- *The pool* has one or two frames over three pages: every load evicts, a read-ahead of two pages fills it, and a
  resident page lies inside a run that is read. The inductive invariant of its proof was checked separately
  with two changes per page. *The page* has seven cells: two payloads and their slots fill it.
- *Recovery* has two crashes, so that recovery itself is cut off; `GroupSize` (`SyncGroup` of the log) is 2 where the code has 32, as only
  `>=` matters. *The log* has segments of three frames, six lsns, two checkpoints, one crash and one failed
  write. *Directories*: two of them, three opens, one copy.
- *Transactions* run in mixes, one for scans under `Strict` and one for the constraint with schema changes, drops
  and batches. *Sharding* has two shards and ids up to four, so residue classes are reused.
- *Schemas, plans, statements, expressions and values* are enumerated in the MC modules: each operator, each
  index kind, each conversion occurs.
- *Telemetry* has two threads; words of four bits, so that counters and histogram saturate. *Trials*: two at once
  out of four whose scopes partly meet, a composite index among them. *Service*: two clients against a cap of one,
  three calls. With that cap two connection threads never overlap in TLC's runs: what holds of several at once is
  covered by the theorems of ServiceProofs alone, which are for any cap.
- *Coordinator*: two transactions of up to two writes, a refused value, one direct write, two crashes.

Fairness, none of it strong:

- `VacuumTerminates`: weak fairness of the steps of a vacuum that has begun. It holds the store and waits for nobody.
- `RecoveryFinishes`: weak fairness of writing, applying and removing the journal. The coordinator takes shard
  locks one at a time, and a shard's holder never waits for the coordinator. That a record is refused is taken to depend on the record (the
  schema); a unique constraint of a shard can refuse one because of other rows and stop a replay too, which is not modelled.
- `WaitsEnd`: weak fairness of the accept loop, the shutdown, each connection's thread and each client's noticing
  that its connection is closed; these are threads of the operating system. Clients need not ever send anything.
- `ExperimentsEnd`: weak fairness of advancing trials, which `optimize` calls do. Traffic is not assumed.
- `CountsReachZero`: decays keep starting and keep completing, which the optimizer's interval gives.

No safety property depends on fairness. `CHECK_DEADLOCK FALSE` stands where a bounded workload simply ends.

Errors of the device outside the log are assumed away; only the log's writes fail in the models (`wal.rs`). Three places rely on that: `evict_one` takes a frame out of the pool before `write_page`
can fail (`pager.rs:345`), so the change in it would be lost; `write_journal` truncates the journal before it writes the
new one (`sharded.rs:282`), and an error without a crash would leave a prefix behind a running coordinator; and a
`reclaim` of the heap stops half-way only for a location past the end of the file (`reclaim` of VersionedHeap; a vacuum's truncation can leave one).

The file system is assumed to keep `rename` and `unlink` durable and in order with the fsyncs around them; a
single page write is atomic (the code checksums pages and reports a torn one as corruption).

## Proofs

TLAPS checks the following for every value of the constants, from the assumptions named in the modules
(`ConstantsAssumption`, `MarkersAssumption`, `RecoveryAssumption`, `PoolAssumption`, `TransactionsAssumption`,
`LogAssumption`, `PageAssumption`, `CoordinatorAssumption`, `ServiceAssumption`, `RestoreAssumption`, `NothingAssumption`, and of Experiments `GlobalAssumption`,
`TrialsAssumption`, `StepsAssumption`, `SamplesAssumption`, of Telemetry `TelemetryAssumption`; TLC evaluates each in the runs).

| Theorem | Statement |
|---|---|
| `VersionedHeapProofs!TypeCorrect` | `Spec => []TypeOK` |
| `VersionedHeapProofs!SlotOwnership` | `Spec => []SlotsOwned` |
| `VersionedHeapProofs!ConflictDetection` | `Spec => []ConflictStampsSurvive` |
| `VersionedHeapProofs!SnapshotReadsCommitted` | `Spec => []SnapshotSeesCommitted` |
| `VersionedHeapProofs!SnapshotStability` | `Spec => SnapshotsAreStable` |
| `VersionedHeapProofs!Refinement` | `Spec => ImplementsSnapshotStore` |
| `VersionedHeapProofs!ReclamationIsDue` | `Spec => []RetainedCoversSuperseded` |
| `VersionedHeapProofs!VacuumInductive` | `VSpec => []VacuumIInv` |
| `VersionedHeapProofs!VacuumUnnoticed` | `VSpec => VacuumIsInvisible` |
| `PagesProofs!PageInductive` | `PageSpec => []PageIInv` |
| `PagesProofs!PagesKeepTheirPayloads` | `PageSpec => []PageInvariant` |
| `CrashRecoveryProofs!CrashesAreBounded` | `RSpec => []CrashInvariant` |
| `CrashRecoveryProofs!RecoveryInvariance` | `RSpec => []CInv` |
| `CrashRecoveryProofs!ContentsAreLogged` | `RSpec => []ContentsMatchLog` |
| `PagesProofs!PoolIsTrue` | `PoolSpec => []PoolInvariant` |
| `PagesProofs!CheckpointsHold` | `PoolSpec => CheckpointHolds` |
| `DurabilityProofs!LogInductive` | `LogSpec => []LogIInv` |
| `DurabilityProofs!LogKeepsWhatItAcknowledged` | `LogSpec => []LogInvariant` |
| `DurabilityProofs!RestoreInductive` | `RestoreSpec => []RestoreIInv` |
| `DurabilityProofs!RestoreIsTrue` | `RestoreSpec => []RestoreInvariant` |
| `DurabilityProofs!OpensExactly` | `RestoreSpec => OpensAreExact` |
| `TransactionsProofs!ConstraintsHold` | `TSpec => []ConstraintInvariant` |
| `TransactionsProofs!FirstCommitterWins` | `TSpec => NoLostUpdate` |
| `TransactionsProofs!StrictIsSerializable` | `TSpec => CommitsAreSerializable` |
| `TuningProofs!TrialsInductive` | `ExperimentsSpec => []TrialIInv` |
| `TuningProofs!TrialsAreSound` | `ExperimentsSpec => []TrialInvariant` |
| `TuningProofs!RevertsRemove` | `ExperimentsSpec => [][RemovesReverted]_xvars` |
| `TuningProofs!MeterInductive` | `TelemetryAssumption => (TelemetrySpec => []MeterIInv)` |
| `TuningProofs!MeasurementsAreTrue` | `TelemetryAssumption => (TelemetrySpec => []CountsAreTrue)` |
| `CoordinatorProofs!CoordinatorIsTrue` | `CoordinatorSpec => []CoordinatorInvariant` |
| `ServiceProofs!ServiceIsTrue` | `ServiceSpec => []ServiceInvariant` |
| `ServiceProofs!EarnedPrivileges` | `ServiceSpec => []PrivilegesAreEarned` |

None of these invariants is inductive. Each rests on one that is, and that theorems of its own state (`Invariance` of the
proof modules, `PoolInvariance`, `CrashInvariance`, `LogInductive`, `PageInductive`, `TrialsInductive`, `MeterInductive`, `VacuumInductive`, `RestoreInductive`, `RecoveryInvariance`). What these inductive invariants say:

**The heap.** `IInv` is `TrackerInv /\ HeapInv`. *TrackerInv*: whatever snapshot is open or being opened is below the
clock. *HeapTyped*: types, and no page past the end of the file is offered. *HeapOwned*: the parts of `SlotsOwned`.
*Stamped*: stamps are below the clock and the newest is `lastWrite`, unless the record's entry is gone.
*ReadersServed*: an entry that is gone, or starts with a tombstone, is older than every open snapshot; this is
the part that says pruning forgets nothing a reader can ask for. `NextStep` shows that a step keeps `IInv` and
either leaves the heap alone or happens in a free store and changes nothing a reader sees, with one lemma per
action over lemmas about the operators: what `reclaim_to` keeps, that neither appending above a snapshot nor
cutting below the horizon changes what it sees, that the horizon is below every snapshot the store can collide
with. A write is composed of `Placed`, `PushStage` and `MaybeReclaimStage`, on heap values rather than primed
variables, because a write and the reclamation it triggers are one step.

**The refinement.** The mapping shows the abstract store the newest values (`DataNow`), what each reader would read
(`SnapNow`) and what it would believe written (`WrittenNow`). A put or a delete is a `Write`, an opening a `Take`, a
closing a `Drop`, everything else a stutter: `KeepsLive` says that a step leaves the slots other chains name
alone, `OneNewer` that a write adds one version of one record. The counter of superseded versions covers the
set `Behind` of positions behind the newest (`Covers`); a write adds one element, a reclamation takes away at
least what it subtracts.

**The vacuum.** `VacuumIInv` is `IInv` until a page is cut off that a chain still names, and from then on `HeapShape`: types,
and nothing past the end of the file, which is also all a recovery can rely on. A vacuum that moves a record writes
the value that is there already (`MoveKeepsAll`, over the lemmas of `put`), and a page that no chain names is
empty, so cutting it changes no slot (`CutUnnamed`). The step that does cut a named page still changes no record
(`CutKeepsAll`), as no newest version lies there; what it does to versions a snapshot still needs, and what comes of
that later, is the run `heap_vacuum_readers`.

**The page.** `PageIInv` is `RoomOK` (the slot array ends before the payloads begin, which take no less room than packed), `PlacesOK` (live payloads lie
between the free space and the end of the page), `ApartOK` (no two live payloads share a byte: what makes writing one
leave the others alone), `ContentsOK` and `ArrayOK` (what the bytes of payloads and of the slot array are) and
`CompactedOK` (after a compaction the payloads are packed). Offset, length and slot count are any numbers. The hard
step is `compact`: where the payload of a slot goes depends on all the live slots below it, so `Packed`
is a recursive function of the slot number. That it exists and satisfies its equation, that it does not grow, that the
places it gives are apart (`PackedApart`) and that the payloads never need more room packed than where they lie are
proved by taking a least slot that fails. The last of these needs what the payloads hold to shrink or grow with each call
as much as the free space does (`PackedChanges`). `PlacingKeeps` is shared by insert and by the update that moves.

**Crashes.** `RInv` cannot contain `IInv`: after a recovery from an older directory a chain may name a slot that is
another record's, so the heap is only *Shaped* (the `HeapShape` of the vacuum, and a file of the same shape), and
`PutKeepsShape`, `DeleteKeepsShape` and `ReclaimKeepsShape` show again, from that much less, that calls and replays keep it so; they add to the
slots at most the payload they were given. *Logging* and *Staged*: a checkpoint's entry covers only what lies before
it; catalog, replay and the end of a cut log never pass what is stable. *Exposed*: what a crash would take now.
*Described*: under `Strict` whatever is in a page or in the file is in the log, because a call logs first
(`CallStep`) and a replay writes what it reads there (`ReplayStep`).

`CInv` is what recovery goes by, where `ContentsMatchLog` speaks at all (`Regular`: under `Strict`, without a checkpoint
or without a rewrite). `Sound`: a chain of the directory names live slots of its own record, each once; other slots may
hold what an older recovery left behind. `Answered`: a record touched by the log answers with the last entry
that touched it, during a replay of those read so far. `Pinned`: a record the last checkpoint covers is in the file, where the
directory says it is. `Trusted`: a cache that matches names those places and no other. `Covering`: a
checkpoint covers all that precedes its entry, no cache is ahead of log or file, no replay starts before the last checkpoint.
The file is the hard part: pages are written back in any order, so a scan may find any version of a record. Without a
checkpoint the replay reads the log from its first entry and overwrites whatever was found; without rewrites there is one
version to find. Records no entry touched have nothing in the file, by *Described*. A crash in between keeps `Pinned`,
`Trusted` and `Covering`, which are all the next recovery needs (`CrashAgrees`). That the answers are what
the log says, `LoggedContents`, is a recursive function of the log: `ByLast`, which looks only for the last entry that
touches a record, satisfies the same equation (`ByLastNext`), and two functions that do have no first place to differ
(`ContentsByLast`).

**The buffer pool.** `PoolInv` is `FileInv`, `FrameInv`, `ClockInv` and `CallInv`: the file lags the changes and what was
fsynced lags the file; a frame shows its page's last change and is dirty if the file has not got it; the
clock tracks every resident page, once; a call in progress asks for pages the file has, for no more than the
pool holds, and a page being allocated is unchanged. It holds for any capacity, burst and file. The lemmas under
it say what touching many pages (`TouchMany`), passing the hand (`VictimFound`) and taking out an entry (`WithoutOne`)
do to a clock. That the clock always has a victim (`SomethingToEvict`) is a counting argument: a crowded pool has a
resident page, as a burst fits into it. `CheckpointsHold` rests on `CleanFile`: without dirty frames the file is
`latest`.

**The log in segments.** `LogIInv` ties the files to the writer's list (`SegmentsOK`), the lsns to what is in them
(`FilesOK`, `NumbersOK`, `HistoryOK`), and says, until a write has failed, that every segment but the last is whole and ends
below the next (`OrderOK`) and that the log goes on past whatever a checkpoint claims (`CheckpointOK`). The heart is
`TrustOK`: a trusted entry is *Kept*, synced in a segment after whose first lsn no later segment makes a reader
skip it, or *Retired*, covered by the checkpoint on disk, in the archive, and below a segment that is still there.
Retired and not merely discarded, because a crash must not hand its lsn out again. An entry passes from Kept to
Retired only in `discard_one`, from a segment that `discard_below` chose by its successor; `TrustedLsns` is what
that choice needs of a checkpoint in progress. After a failed write only `TrustOK` and the types remain, which is
why `trusted` stops growing there and `EveryAcknowledgedEntrySurvives` is false. `GroupOK` bounds the unsynced ops of the
active file by `pending`; the counting lemma under it is `UnsyncedAtMost`.

**Directories.** `RestoreIInv` says of every directory that its files are `Sensible` (the catalog lies inside the log, a
checkpoint's entry covers what precedes it) and its cache `ExactCache`: never ahead of the log, and if it is the
directory's own and of this moment, then the log ends in a checkpoint whose catalog stands and the index in the cache
is the pages. Nothing is then replayed over them (`NothingReplayed`), which is why a stamp of identity, lsn and count is
enough to adopt an index. Of a sound directory it says `Retained`: the log starts no later than the catalog, each entry
made the rows after it from the rows before it (`Replays`), index declarations are in the catalog or the log, and a row
is in the pages unless a write of it lies above both the catalog and the last checkpoint (`Covered`). Opening at a
moment recovers each row as its last write or as what the pages hold (`RowRecovered`); that no other write lies
between (`NoPutNoChange`) makes these the rows of the moment, by taking a least entry that fails. Of the open database it
says `Serves`, stage by stage of a checkpoint, and `CopyOf` of a copy under way. A step of the open database on its
own directory is an instance of `OwnStep`, one that logs an entry of `LoggedStep`, one that writes another
directory of `OtherStep`. Supplied segments carry on a copy's history because two logs that begin alike have pasts
that begin alike (`SamePast`), and only if no checkpoint is among them (`SuppliedKept`): that is `foreign`, and the finding
`SuppliedLogIsReplayed`.

**Transactions.** `TInv` adds to the types: *Snapshots*, an open snapshot shows every record not written since as it is
now; *Learnt*, what a transaction knows of a record it has read, has written over, or found absent by a scan;
*Applying*, one call applies its writes at a time, and no others than its own; *Fitting*, a batch on its way to the
data still fits them, each record absent and each value free, also within the batch; *Backed*, a constraint that
has not lapsed has its index. `Fitting` is what a crash in the middle of a batch needs: any part of a batch that
fits can be added (`Adding`). The two action properties follow from `Snapshots` and `Learnt` at the one step that
makes a transaction commit (`Accepting`).

**The coordinator.** `IInv` ties the journal to the queue (`Journaled`, `BeingWritten`, `BeingApplied`), every entry to
what its transaction wants (`Wanted`, `Closed`), and what has landed to what was promised (`Promises`, `Converged`).
The atomicity argument is `Promises`: as soon as one write of a transaction has landed, either all of them have
landed or all are in the journal. Crash, torn journals included, is one of the actions proved.

**Experiments.** `TrialIInv` is `TrialsTyped`, `ScopesApart` (no two running experiments have a query in common),
`MaskIsExact` (the mask names all that can be masked of what a running experiment of one collection has built, composite
indexes included, and each entry what the experiment that set it builds), `EvidenceIsFresh` (the samples of a phase are the queries served in it, unless a trial
failed, which counts the one before again and makes `assess` abort) and `PhasesProved` (each phase an experiment has passed
was left with enough evidence of its own, and none is promoted after a divergence). A column store that is already
masked is not recorded again, so with two experiments on it the mask would go with the first; `ScopesApart` is why
there never are two (`RecordedIsExact`).
`VisitMoves` lists how a visit of `advance_experiments` can end: the experiment stays, is taken back, or is `Continued`
into the next phase; `VisitEvidence` and `VisitKeepsIt` follow its cases. `TrialsAreSound` concludes from the mask only for the kinds in `Asked`: that an entry
is in the mask hides nothing from a planner that does not ask. `RevertsRemove` holds of every way to end in
a revert, composite indexes included: by verdict, by hand, by a build that fails. The share of a canary is arithmetic: the floor `n*p \div Hundred`
moves by 0 or 1 with each query (`DivSteps`) and by `p` over `Hundred` of them (`DivShifts`), so the queries taken are
counted by its moves (`SharesAreExact`, by taking a least number of queries that fails).

**Telemetry.** `MeterIInv` says of every shard and of every walk's sum that it is `Truthful` (`Pins`: no more literals than
filters; `Covers`: no cell of a record's rows below its touches), of a call under way that its events are `Events` (only an
event of a filter counts filters, and always both of its counters or the one that must not lag), and of a snapshot that met
no forgetting that it is `Between`: of the shards behind it it has no more than they hold now, and with what the others hold
now no less than all held when it began. A query that is recorded in a shard behind or before the walk keeps both, since
sums of parts of the shards grow with the shards (`SubtotalsGrow`); the walk itself moves a shard from one side to
the other (`WalksGather`). Decay keeps the order of two counters (`ScaleKeepsOrder`), halving that of a cell and its
touches (`HalvedCovers`), merging both. `PercentilesAreClose` and the type of `latency.min` are about powers of two,
of which the provers know nothing, and stay with TLC (`TelemetryInvariant`).

**The server.** `Typed`, `Staged`, `Queued` and `Counts` speak of the server's own state; `Exchange(c)` of one connection:
one call is on its way (`OneCall`), replies tell what was applied (`Truth`), and what was allowed had been earned by
an earlier request of the same connection (`Earned`). An action disturbs the exchange of one connection only.

Only model-checked: all liveness (`VacuumTerminates`, `RecoveryFinishes`, `WaitsEnd`, `ExperimentsEnd`,
`CountsReachZero`: fairness and `ENABLED` are beyond the prover). The operators of Sql, Expressions and Sharding,
which are recursive, and what recursive functions over data compute (encoding a record, adding
up a column) for every input: that is induction over data. `ImplementsLog`, whose mapping flattens the segments
into one sequence by a fold. The invariants of the other modules, whose state is
finite by construction of the instance or for which no proof has been written yet: see the plan.

## Not modelled

- Byte encodings (log frames, journal entries, superblock, compression, varints) other than by what they can lose;
  page checksums.
- Node layout of the indexes; keyed placement and recompression of the heap; sorting, grouping and batching inside
  the executor beyond what order and totals tell; two-phase aggregates of a sharded query; the SQL lexer; text
  and blobs inside values other than by rank.
- The controller's scores and cost estimates, which only order candidates; export formats of telemetry; TLS.
- Core vocabulary, CLI, FFI, testkit and benchmarks: types, thin shells and tools for tests.

## Plan

Every subsystem of the table above is modelled. What could come next is proof: `DerivedInvariant` and
`OptimizerInvariant`.
