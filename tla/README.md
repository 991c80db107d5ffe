# GenesisBlockDB: a TLA+ verification project

GenesisBlockDB is an embedded graph and vector database in Rust. One process owns a
directory; a client calls it in process (N-API, FFI, JNI), over HTTP (`router.rs`) or
through the `genesisrag17-worker`. Its own logic is almost all in `src/src/lib.rs`
(36 000 lines); this project models it from there. `L:n` below is line `n` of that file.

## 1. Inventory

| Part | State it keeps | Operations | What is hard | What makes it correct |
|---|---|---|---|---|
| **Journal and writer thread** L:5636-5974, 16411-16580, 31133-31415 | `wal/active.gwal`, `journal/{J,B}*.gseg`, `next_seq`, `poisoned` | append, seal, fold | the thread acknowledges before it seals; every file step can crash or fail | an acknowledged frame survives; the frontier covers the journal |
| **Snapshot and recovery** L:16205-17037, 27099-27532, 28918-29336, 31506-31935 | `state.json` and its components, memory, `logical_clock`, `commit_sequence`, `recovery_required` | `save_state`, `compact`, open | snapshot, base and active file may be of different ages; replay twice | recovery gives back what clients were told, no more and no less |
| **Graph mutations** L:22399-22587, 25572-25729 | `nodes`, `edges`, `tombstones` | `add_node`, `retract_node`, `supersede_node`, `add_edge`, … | append first, memory second; two-frame supersede | memory, journal and projection agree |
| **Replication** L:2612-2680, 19357-19660, 25731-26082, 26414-26764, 29720-30002 | `sync_cursors`, `pending_sync_requests`, `peers`, Merkle root | heartbeat, pull, delta, `reconcile_state` | UDP loses, duplicates and reorders; receipts; folds move the horizon | cursors never skip an event; replicas converge; last writer wins |
| **Consensus on MASTER events** L:18513-19310, 21874-22376 | `pending_proposals`, commit ledger (prepare, completion) | propose, accept, `sign_vote`, `submit_vote`, recovery of pending commits | votes raced by restarts; a crash between the WAL frame and its receipt | a proposal commits at most once and only with a quorum |
| **Schema-6 transactions and revisions** L:8878-9058, 18169-18390 | revision heads, `txn_frontier` | `commit_transaction_typed` | expected-revision checks against concurrent peers | a revision chain has no fork |
| **SQLite projection** L:14119-14990 | `projection.db` | apply event, rebuild on open | applied after the frame; lags after a crash | the projection is a function of the journal |
| **Generations, leases, access policy** L:6154-6533, 9869-9996 | `published_generation`, `owner_token`, `fencing_epoch`, `access_policy` | publish, pin, revoke, validate, replace the policy | writes, compactions, revocations and new processes between a check and a read | reads under an accepted lease repeat; a refused lease stays refused |
| **Vector collections and deferred indexing** L:5101-5560, 10584-10694, 16582-16650, 29341-29695 | arena, metadata, HNSW graph, bounded index queue, `index_pending` | stage, enqueue, index, flush, compact, rehydrate | the queue is full while `commit_lock` is held; compaction renumbers what is queued | every point of the index is the row of its arena id; a flush means complete |
| **Schema-6 migration** L:6583-7780, 11594-11826, 27966-28105, 28237-28490 | marker `schema6_migration.json`, upgrade fields of `state.json`, chunk, commit, receipt and activation frames, rows in the projection | dry run, migrate, resume | four durable places, a crash between any two; later folds and saves rewrite the evidence | what was approved is what is migrated; a ready database proves it and opens |
| **Backup and restore** L:28491-28917 | backup manifest | backup, restore | source moves while it is copied | a restored database is a consistent cut |
| **HQL 1 and HQL 2** `src/src/query/**` | none | parse, bind, lower, execute | budgets | pure functions of a snapshot |
| **HTTP router, API errors, bindings** `router.rs`, `api_error.rs`, `ffi.rs`, `jni.rs`, `napi_compat.rs`, `main.rs` | handles | request to call | handle lifetime | a thin layer over the calls above |
| **RAG worker** `genesisrag17-worker/src/worker.mjs` | session, queue | request handling | retries, timeouts | a request is answered once |
| **Workflow guard** `scripts/workflow-guard/*.mjs` | run store | transitions | concurrent writers of a file | an illegal transition is refused |
| **Studio, dashboard, MCP, SDKs, mobile wrappers** | user interface | | | not part of the database's logic |

How they interact. Every public mutation takes `commit_lock`, checks `recovery_required`,
sends its event to the writer thread (`append_wal_event`), waits for the sequence number,
updates the projection and memory, and returns. Checkpoints do the same with a fold.
The gossip thread calls `reconcile_state`, which takes the same lock. The index thread
only reads what the lock's holder staged. A crash loses memory, never a synced file.

## 2. Modules

### Journal.tla (with MCJournal.tla, JournalProofs.tla, JournalRecoveryProofs.tla)

The durable core: journal files, writer thread, snapshot, crash and recovery.

A record is one of `live`, `closed` (superseded), `dead` (retracted, in the tombstone
registry) and `absent`, with the logical clock of the event that put it there. Payloads,
signatures, edges, vectors and byte layout are left out: a frame is
`[seq, key, st, clock]`, a torn tail is one bit, a header is `none`, `partial` or `ok`.

| Variables | In the code |
|---|---|
| `segs`, `active`, `snap` | `journal/*.gseg`, `wal/active.gwal`, `state.json` with its components |
| `mem`, `logical_clock`, `commit_sequence`, `recovery_required` | the `Storage` fields (`nodes` and `tombstones` in one map) |
| `next_seq`, `wpc` | the writer thread's counter and where it is in its loop |
| `pc`, `cur`, `job` | the call that holds `commit_lock`, its event, and what asked for the checkpoint |
| `phase`, `cursor`, `done` | open: down, refused, replaying, ready |
| `aged` | the world's clock: which retractions are past `TOMBSTONE_RETENTION_SECS` |
| `was`, `want`, `unsure` | history variables: memory at the last stop, what clients were told, what they were not told the outcome of |

Each call is several actions, because a crash may come between any two of them and
because the writer thread goes on after it has answered: `AddNode`/`RetractNode`/
`SupersedeNode`, `WriterAppend`, `Apply` (and `SupersedeNext` for the second frame);
`SealWrite`, `ResetTruncate`, `ResetHeader`; `Compact`/`SaveState`, `FoldWriteBase`,
`FoldRemove`, `FoldRemoved`, the same reset, then `SnapshotSwap`, `SnapshotPublish`.
`Crash` may leave a frame or a header missing, torn or whole. `OpenWithSnapshot` and
`OpenWithoutSnapshot` are the two recovery sources, `ReplayFrame` one frame of the
replay in the order of `scan_journal`. Each I/O step has a failing twin, switched on by
the constant `Faults`, so that a run can say which failures it is about.

The writer's micro-batch is one frame: `commit_lock` is held until the acknowledgement,
so no second append is ever in its channel. The size threshold of a seal is a
nondeterministic choice after each append. Poisoning needs no state: after a failed
append `recovery_required` keeps every call, checkpoints included, from the thread.
`budget(N)` retention is at each checkpoint one of the two profiles modelled.

Every open first runs `preflight_journal`, which reads the segments and the active file as
they are, before any of the truncations that repair what a crash left. It rejects an active
file with content and no whole header (`Unreadable`); with `Schema = 6`, the schema of new
databases, `preflight_schema6_activation` also rejects sequence numbers that do not rise from
file to file and a second activation record (`Misplaced`). `OpenRefused` is an open that ends
there, for good, because nothing rewrites the files.

### Gossip.tla (with MCGossip.tla, GossipProofs.tla)

Anti-entropy between replicas: `start_gossip_manager`, `sync_delta`, `reconcile_state`.
Appending is one step here (Journal has its inside), and so is answering a pull.

| Variables | In the code |
|---|---|
| `node`, `time`, `head` | `nodes` and `tombstones`, `logical_clock`, the schema-6 revision heads |
| `frames`, `frontier`, `horizon` | the journal as `sync_delta` reads it, `stable_frontier`, `history_horizon` |
| `cursors`, `pending` | the gossip task's `sync_cursors` and `pending_sync_requests` |
| `net` | `PullState` and `PushDelta` datagrams in flight |
| `rx` | the batch `reconcile_state` works on, which holds `commit_lock` |
| `faults` | bound on what the network and the processes do wrong |

| Actions | In the code |
|---|---|
| `AddNode`, `RetractNode`, `Fold` | local mutations; a checkpoint that folds, after which all base frames share one sequence number |
| `RequestPull`, `RetryPull` | the heartbeat handler: a digest that differs, no request or one past its retry interval |
| `AnswerPull`, `RefusePull` | the pull handler: whole sequence groups are packed while the events fit the datagram, then every collection definition is added and the total compared with the limit; `BeyondHorizon` and `BootstrapRequired` answers are only logged by their receiver |
| `ReceiveDelta` | the receipt is compared with the outstanding request; a delta without one is reconciled, but moves no cursor |
| `ReconcileSkip`, `ReconcileApply`, `ReconcileTransaction`, `ReconcileConflict`, `ReconcileDone` | one event of the batch each, then the cursor |
| `Lose`, a kept datagram in `Take`, `PendingExpires`, `PeerExpires`, `Restart` | loss, duplication, `prune_gossip_state`, a restart that empties the maps |

A heartbeat is compared with the sender's present state; one that is late is a fault.
With `Schema = 5` an event merges by last writer wins; with `Schema = 6` it is a
transaction of one record that names the revision it replaces. Sizes are numbers:
`NodeBytes` and `RetractBytes` of an event, `DefinitionBytes` of all definitions together,
`DeltaBytes` of a datagram (55 000 in the code), and `Large`, the records whose node event
no datagram can carry. `LookedAt` are the frames `sync_delta` reaches before its first group
that does not fit, so one oversized event there fails the whole delta (`ExceedsDatagram`).
Left out: signatures, the filtering of control and mixed batches, the sweep of old
tombstones, other schemas' messages, limits on the number of peers. `Schema = 6` is modelled under full retention only, because
the revision checkpoint of a fold is not modelled (`ConstantsAssumption` says so).

### Consensus.tla and Decision.tla (with MCConsensus.tla, ConsensusProofs.tla)

Consensus on MASTER events: `propose_consensus`, `accept_consensus_proposal`,
`sign_vote`, `submit_vote`, the two ledgers and the recovery at open. `Decision` is the
abstract specification: under one proposal id at most one event is ever decided.

| Variables | In the code |
|---|---|
| `voteLog`, `voteLines` | `consensus-votes.jsonl`: its records and its number of lines, which differ when one record is written twice |
| `commitLog`, `commitLines` | `consensus-commits.jsonl`: prepare and completion receipts |
| `frames` | the events whose signed frame `proposal_has_durable_commit` finds in the journal |
| `locks`, `receipts`, `proposals` | `consensus_vote_locks`, `consensus_commit_receipts`, `pending_proposals` |
| `votePoisoned`, `commitPoisoned`, `recovery_required` | the flags after a failed write |
| `job` | where `submit_vote` is: quorum reached, prepared, framed |
| `ballots`, `logged`, `appended`, `twice` | history: signatures given out, events ever in the journal, commits, repeated commits |

`Propose`, `Import`, `SignVote`, `SubmitVote` and `SubmitToCommitted` are the calls. The
commit inside `submit_vote` is three durable steps (`Prepare`, `AppendFrame`, `Complete`),
each with its refusal and its failure; `Crash` may come between any two. `Open`, `Recover`
and `OpenDone` load the ledgers and close interrupted commits whose frame is in the
journal. `Reconcile` and `Fold` are what replication and checkpoints do to that journal.
A failed write may leave its record in the file, with or without the memory knowing.

An envelope is any pair of an id and a signed event, and a vote any signature that
`sign_vote` returned, delivered anywhere, any number of times. The expiry of proposals
is a nondeterministic pruning wherever the code prunes. Left out: changes of the roster,
authority roles, byte limits, the content of events.

### Migration.tla (with MCMigration.tla, MigrationProofs.tla)

The offline migration of schema 5 to schema 6, `migrate_schema5_to6`, together with the
ordinary handles that use the database before and after it.

| Variables | In the code |
|---|---|
| `log`, `last`, `synced` | the journal's frames (ordinary mutations without content, chunks, commit, generation receipts, activation), `journal_max_seq`, and whether the projection has the journal's fingerprint |
| `marker` | `schema6_migration.json`: absent, created and not yet written (`Torn`), or a manifest |
| `state` | `state.json`: schema, upgrade state, migration id, proof, frontier, generation, and whether its components have their digests |
| `proj`, `projFile` | the rows of `hql2_schema6_migrations` and `_chunks`, and whether `projection.sqlite` has the digest `state.json` gives |
| `pc`, `who`, `version`, `act`, `gen`, `at` | the one handle: its step, the manifest it runs with, `storage_schema_version`, `schema6_activation`, `published_generation`, `commit_seq` |
| `approved` | the source frontier of each manifest whose dry run was made |
| `budget`, `crashes`, `late`, `refused` | bounds, and two history variables: a process stopped where the evidence was half written; a call with the marker's manifest was refused |

A migration is a sequence of durable steps, one action each: `MarkerCreate`, `MarkerWrite`,
`CutOver`, `Checkpoint`, per chunk `AppendChunk` and `ApplyChunk`, `AppendCommit`,
`ApplyCommit`, `Checkpoint`, `PublishReceipt`, `InstallActivation`, `WriteReady`,
`CheckAuthority`, `RemoveMarker`, `Close`. `Crash` may come after any, `StepFails` is a step
that returns an error and a handle that is dropped. `MigrateResume`, `ResumeFails` and
`ResumeInvalid` are the three outcomes of calling again. `OpenOrdinary`, `Write`,
`PublishGeneration`, `Fold`, `Swap`, `PublishState`, `Close` and `DryRun` are an ordinary
handle's operations. The recovery of an open is one step (`Recovered`, `Rebuilt`): its
result on the migration's rows, in particular that `projection_replay_wal` has no case for
migration frames, so that a projection which is rebuilt has none of these rows. The rest of
the tail is replayed frame by frame over the rows that are left: `RowsBy(q)` are the rows up
to frame q, `ChunkGap` a chunk whose predecessors have no row by then, which is refused
("migration chunk gap"); a refused frame sets `recovery_required` and the replay goes on
(`ReplayFails`, `Replayed`).
The digest of a snapshot is known by its frontier. Left out: the content of the manifest
and the identity of edges, and the crash windows inside one fold (those are Journal's).

### Serving.tla (with MCServing.tla, ServingProofs.tla)

What a running database does with vectors and leases: staging, the bounded index queue and
its thread, `flush_index`, compaction, rebuild, generations, leases.

| Variables | In the code |
|---|---|
| `seq`, `live`, `acl`, `gen` | `commit_sequence`, `nodes`, the access policy's revision, `published_generation` |
| `rows`, `center` | the collection's metadata and arena; `bq_center`, by number |
| `hnsw` | the points of the index, each with the vector and the center it was coded with |
| `queue`, `pending`, `job`, `acked` | `index_tx`, `index_pending`, the job in the thread's hands, answered flushes |
| `op`, `goal`, `todo`, `staged` | the call that holds `commit_lock` |
| `other`, `waiting`, `flushes` | the binding's `flush_index`, which does not hold it; a `validate_index_coverage` that passed `ensure_readable` and waits for it; the bound on both |
| `owner`, `epoch`, `leases`, `poisoned` | `owner_token`, `fencing_epoch`, leases given out, `recovery_required` |

`AddVectors`, `Stage`, `Count`, `Send` are a write (`add_node`, `add_vector`, `execute_batch`);
`IndexTake`, `IndexInsert`, `IndexCount`, `IndexAcknowledge` the thread; `Begin`, `FlushSend`,
`FlushReturns` a call that flushes first, and then `Compact` and `Rebuild`, `Rebuild`, `Query`
or `Publish` (`PublishFails` is each of its error exits); `PinPublished`, `RevokeLease`, `Expire`, `ReplaceAccessPolicy` leases; `Crash`,
`Replay`, `Opened` a new process. `Opened` may find the rows of a snapshot with an older
center, or only the rows of a folded journal. Compaction is two actions, because the index
thread could run between the new arena and the new index. One collection; distances, levels
and what a policy grants are left out, and so is the filtering by TTL and valid time against
the wall clock.

`validate_index_coverage` looks at `recovery_required` before it takes `commit_lock` and not
again. `ArriveCoverage` is the check, `BeginCoverage` the lock: in between a batch may fail
while it stages and poison the handle, with a row that was never queued. The reader then
finds `Coverage = "FAILED"`, and `FlushedIsComplete` says what is left: in a readable handle a
flush makes the coverage READY, and READY is never said of an index that misses a vector.

## 3. Runs

| Run | Bounds | Question | Result |
|---|---|---|---|
| `journal_frontier` | 2 records, 3 frames, 3 clock values | default retention, schema 6, crashes everywhere, every fault but failed snapshots and those under *Limits*: is a confirmed write ever lost, a deleted record ever back, the snapshot or the horizon ever behind, a checkpoint ever incomplete? | holds, 4.8 million states |
| `journal_full` | 1 record, 3 frames | full retention, schema 5, failed appends, headers and snapshots, torn headers: is a write lost, does the frontier cover the journal, does every call return? | holds, under fairness, 605 000 states |
| `journal_refused` | 1 record, 2 frames, no fault, schema 6 | the format's promise that every crash window "merely re-applies frames the snapshot already covers" | violated in six steps: a crash between a seal's segment and its truncation, and preflight refuses every later open |
| `gossip_safety` | 2 replicas, 2 records, 1 fault, sizes 2/2/1 in datagrams of 3 | schema 5 with folds: does a record go back, a cursor recede, a cursor pass an event its replica has not seen? | holds, 706 000 states |
| `gossip_converges` | 2 replicas, 2 records, one of them large, 2 clock values, 1 fault, sizes 2/1/1 in datagrams of 3 | full retention: do replicas that stop writing converge, unless a delta is refused for its size? | holds under fairness, 351 000 states |
| `gossip_revisions` | 2 replicas, 2 records, one of them large, 1 fault | schema 6: does a batch that failed in the middle move the cursor? | holds, 353 000 states |
| `gossip_reapply` | 1 fault, schema 6 | the comment "Every path that must NOT resurrect a tombstoned node … LWW-gates" | violated: a transaction delivered twice removes a newer tombstone |
| `consensus_agreement` | 3 members, 1 id, 2 events, no failed write | is one event decided, with a majority, and appended once, whatever is delivered, folded or restarted? | holds, 765 000 states |
| `consensus_ledgers` | 2 members, 2 ids, 3 records a ledger, 1 failed write | with full ledgers and a failing write anywhere: do votes stay bound, files loadable, receipts true? | holds, 285 000 states |
| `migration` | 2 manifests, 2 chunks, 2 frames of ordinary handles, 3 crashes or failed steps, 14 frames | is what is migrated what was approved, does a ready database keep its proof through every fold, generation and save and open again, does a repeated call complete, unless chunks are missing (`ChunkGap`)? | holds, under fairness, 961 000 states |
| `migration_resume` | the same | the decision record: "It must be idempotent and crash-resumable" | violated: a crash after the commit's row and before the next checkpoint; the chunks are replayed against a committed row and refused |
| `serving` | 2 nodes, a queue of 1, 3 frames, 1 lease, 1 of each administrative step | does an insertion ever land on another row, is a flush complete, the lag honest, a leased read repeatable, a dead lease dead, and does every call return? | holds, under fairness, 761 000 states |

Why these bounds. Journal: a fold that keeps one record and drops another is the smallest
interesting one; three frames let a segment, a base and an active frame exist together;
three clock values let a record be put, retracted and put again. Crashes, seals, folds and
reopens are not bounded. Gossip: all of the protocol is between one requester and one
peer; two records give a base group of two frames that a datagram of one event cannot
carry, and next to an event that fits one that is too large; a retraction smaller than a node
lets a pair of events be packed that leaves no room for the definitions; two clock values a tie and a write after a retraction; one fault is enough for every
mutant and for every finding; `MaxSeq` is never reached in the liveness runs, so that the
bound does not stop a replica. Consensus: three members are the smallest roster in which
two different majorities exist, two members the smallest even one; a ledger of three
records has room for one commit (prepare and completion) but not for a second one; restarts are not bounded.
Migration: two manifests let one be approved and overtaken by the other; two chunks let a
call stop between them; three crashes are the fewest that reach a gap between chunks; 14 frames are more
than one uninterrupted migration with two ordinary frames needs, so that calls repeated
after refusals, which append receipts for ever, are all that the bound cuts (deadlock is
not checked there for that reason). Serving: with a queue of one slot a batch, a flush of a
call and a flush without the lock compete for it; two rows of two nodes are enough for a
renumbering that moves a row; the bound on administrative steps covers one new center, one
revocation, one reopening and one stray flush or waiting coverage call (they share the
bound), each with any interleaving.
Replicas are numbers, because their order breaks ties of clocks, so only records are
interchangeable (symmetry); in Consensus members, ids and events all are. The liveness runs use no
symmetry.

Fairness. Journal's `FairSpec`: weak fairness of `ClientStep` and of `WriterStep`. The
caller is a running thread that holds the lock and the writer thread loops on a channel
that has a message for it; neither waits on a third party. Nothing is assumed of clients
starting calls, of crashes or of reopening. Gossip's `FairSpec`: each replica's gossip task
keeps running (its `tokio` loop), its heartbeat timer keeps firing, and a datagram that is
not lost is handled. Faults are bounded, so "a request that is repeated often enough is
answered" is all that is assumed of the network. Deadlock is not checked in the
Gossip runs: replicas that hold the same graph send heartbeats that change nothing, and
with a bounded number of writes that is where they come to rest. Migration's `FairSpec`: a
migration call that runs goes on and drops its handle, and the operator calls again after
an interruption (`WF_vars(Resume)`); `MigrationCompletes` claims nothing once a process
stopped with the evidence half written (`late`), or while a chunk gap keeps the database
down. Serving's `FairSpec`: the index thread
loops on its channel, the call that holds `commit_lock` is a running thread, and the
binding's flush returns when it is answered. A call waiting for a slot in the queue needs
no strong fairness, because flushes without the lock are bounded and nobody else sends.
A coverage call that waits for the lock is not assumed to get it.

### Limits of the passing runs

Some behaviours are in the models but outside the passing runs, because the property they
would break is known to be broken there. Each can be seen with the constants given.

- `NoResurrection` is stated for journals without a stale segment. `journal_fold` removes
  older segments one by one after its base is durable; a crash in between, or a removal
  error that is ignored, leaves an older segment that the next replay applies. If a record's
  put is in it, and its retraction was only in the active file and is past its retention
  window, the record is back, against the comment at L:31370 ("A crash at any point leaves a
  journal that fully recovers live state"). One record, three frames, `frontier_only`, no
  fault: leave out `NoResurrection`'s condition on stale segments and its
  `was[k]` alternative.
- `header_io`: the header of a fresh active file cannot be written, the handle is restored
  all the same, and later frames are acknowledged in a headerless file. In both schemas the
  next open refuses that file, so `NoLostWrite`, which speaks of databases that open, holds,
  while everything acknowledged is out of reach, against the writer thread's rule of no false
  durability acknowledgement (L:16463).
- `torn_header`: a crash inside that write. The database is refused from then on, like the
  cases of `journal_refused`.
- `fold_truncate_io` (a fold that failed after it removed segments is taken for one that did
  nothing) breaks `NoLostWrite` in schema 5 with four frames. `overlap_io` (the open-time
  rewrite of the active file fails) breaks `ClockIsFresh`.
- `Convergence` is claimed for schema 5 under full retention. With `frontier_only` (two
  replicas, one record, no fault) it fails: a checkpoint moves the horizon past a live
  cursor, the `BeyondHorizon` answer is only logged, and the requester repeats itself for
  ever, against the comment at L:26725 ("wire-defined but not triggered in practice"). In
  schema 6 two transactions from the same revision exclude each other for ever. It also
  exempts a backlog that `sync_delta` refuses for its size (`Blocked`): an event no datagram
  can carry, or events packed so tightly that the definitions put before them exceed the
  limit. The cursor stays, so the same delta is refused again, against the comment at
  L:26646 ("the next heartbeat round pulls the remainder until the roots stop differing");
  `p6_peer_authority_tests.rs:1238` asserts the refusal. With the roots alone (`Root(p) =
  Root(q)` for `Converged`) one record fails with sizes 2/1/1/3 and holds with 2/2/1/5.
- `MigrationCompletes` exempts a chunk gap. A process stops after the first chunk's frame; the
  resumed one saves that chunk's row at a checkpoint and stops after the next chunk's frame;
  a third rebuilds the projection, without rows, and stops before its checkpoint. The tail
  then starts with the second chunk, and every later resume is refused (L:7547), against the
  decision record `migration_resume` quotes. Two interruptions do not reach it.
- `AppendedOnce` is claimed without failed writes. With one (one member, one id): the
  completion receipt cannot be written, a checkpoint folds the signed frame, and the next
  vote finds a pending receipt without a frame and appends the event again, against the
  header of `tests/consensus_commit_tests.rs` ("exactly once").
- `ReadyOpens` excludes a process that stopped late. A migrated database whose process ends
  between the removal of the marker and the save of its `Drop`, or any later crash after
  which the projection is rebuilt, has lost the migration's rows, and
  `validate_schema6_migration_authority` refuses every later open. A marker that was created
  and not written shuts out ordinary handles and the migration alike.
- `LeaseIsRepeatable` is about current-view searches. Under `frontier_only` a compaction
  drops retired rows that a read of the past (`tx_as_of`) could still ask for. And a lease
  without `as_of` filters TTL and valid time by the wall clock, which Serving does not have.
- `sign_vote` may return an error although its lock is durable (only the sync of the
  directory failed); after a restart the same call returns the signature. `NoEquivocation`
  and `CommitNeedsMajority` hold all the same.

## 4. Proofs

All theorems hold for every value of the constants that the `ASSUME` of the component's
module admits (`ConstantsAssumption`, `MigrationAssumption`, `ServingAssumption`) and under the hypotheses named
below. Every safety property of a passing run has its theorem; each inductive invariant was
checked with TLC on small instances before it was proved. Steps that leave a conjunct's
variables alone are handled once, every other action has its own lemma.

**JournalProofs**, for every set of records, every bound and every set of faults:

- `TypeCorrect`: `Spec => []TypeOK`, with the inductive `TypeInv` (which adds what the two
  program counters imply of each other and of `next_seq`);
- `FrontierCoversAlways` and `SnapshotNeverAhead`, from `SeqInv`: a segment's frames lie in
  its range (`SegmentInv`), `next_seq` and `commit_sequence` against the files in each phase
  (`CounterInv`), what a seal or fold in progress has already covered (`CoverInv`), and that
  the journal reaches the snapshot's frontier (`ReachInv`). `SnapshotNotAhead` alone is not
  inductive: removing a segment or truncating the file keeps it only because the segment or
  base just written reaches as far;
- `HorizonMonotone`: `Spec => HorizonNeverRecedes`;
- `ClockAlwaysFresh`: `Spec => []ClockIsFresh` if the open-time rewrite of the active file
  does not fail (`"overlap_io" \notin Faults`); with a failed rewrite frames that replay skips
  stay on disk with clocks that nobody read. `ClockInv` adds the clocks of a loadable snapshot and,
  during a replay, the split into frames already applied and frames still to come.

**JournalRecoveryProofs**, for every set of records, every bound and both retention
profiles, under `Schema = 6` and `"overlap_io" \notin Faults`; all other faults may happen,
any number of times:

- `NoWriteIsEverLost`: `Spec => []NoLostWrite`;
- `NothingIsResurrected`: `Spec => []NoResurrection`;
- `CheckpointsAreComplete`: `Spec => []CheckpointIsComplete`.

None of the three is inductive, because each speaks of memory, and a crash leaves only
files. `Outcome(k, c)` is what the files together say of a record: its last frame behind the
newest base, else that base. `RecoveryInv` relates to it what clients were told (`WantInv`),
memory (`MemInv`), memory before the last stop (`WasInv`) and a snapshot that a recovery could
start from (`SnapInv`), with two exceptions: the last frame of a call that failed or was cut
off (`Hanging`), and sealed frames that an interrupted fold left (`Leftover`).
`FileInv`, `UnsureInv` and `OrderInv` say what file names, pending calls and clocks
guarantee meanwhile, `ReplayInv` what memory is half-way through a replay: the preflight
rejects what it cannot order (`Misplaced`), so replay meets the frames in the order of their
sequence numbers, and a record is what the last one made of it. Most steps leave every
outcome alone; appending, sealing, writing a base, removing, truncating, the snapshot and
the replay are treated one by one. The hypotheses are needed: schema 5
has no check of the order, and a fold that fails to truncate loses a write there (*Limits*); a failed rewrite at open leaves frames on disk that replay
skipped.

**GossipProofs**, for any number of replicas, records and faults and any sizes of events and
datagrams:

- `GossipTypeCorrect`;
- `LwwNeverRegresses`: schema 5 implies `NoRegression`. `ClockInv` is needed: a record's
  clock is not past its replica's `logical_clock`, so a local write is newer than what it
  replaces. The hypothesis on the schema is needed too (`gossip_reapply`);
- `CursorsNeverRecede`, from `RequestInv`: the cursor of an outstanding request is the
  present cursor, so a receipt that passes can only move it forward;
- `CursorsCover`, in both schemas. `CursorCovers` is not inductive: `CoverInv` says the same
  of every request in flight, of every delta (a frame of the sender up to the delta's end is
  in it or has been seen by the requester) and of the batch being reconciled (what is no
  longer to do has been seen).

**ConsensusProofs**, for any roster, any limits and any number of failed writes, as one
chain of invariants:

- `ConsensusTypeCorrect`, and `MemoryInv`: memory is part of what the files hold;
- `VotesAreBound`, from `VoteInv`: a signature that was given out, and every lock a
  member keeps of another's vote, is in the voter's own ledger, and a ledger has one record
  for a pair of proposal and voter, even after a write that failed half way;
- `CommitsHaveMajority`, from `MajorityInv`, which adds the commits under way: by `VoteInv`
  the approvals that `submit_vote` counted are in their owners' ledgers;
- `DecidesOnce`: `Spec => ImplementsDecision`. Two majorities of one roster meet (by the
  library's facts on the cardinality of unions), the common member's ledger has one
  record, so the events are the same; this is the step-simulation of `Decision`;
- `ReceiptsAreTrue`, from `LogInv`, and `HeldFramesStaySingle`, from `JobInv` and `HeldInv`;
- `LedgersAlwaysLoad`, from `LinesInv`: lines are counted against records, prepared commits
  against the slots reserved for their completion;
- `CommitsAppendOnce`: `Spec => []AppendedOnce`, if `Retention = "full"` or `MaxFaults = 0`
  (crashes and restarts are not failed writes). With full retention what was appended stays
  in the journal (`KeptInv`), and `JobInv` does the rest. Without failed writes `OnceInv`
  says that an appended event has a receipt of its own, stays in the journal until its
  completion is recorded, and is completed before the process takes another call, a fold in
  particular; the completion cannot be refused, because by `LinesInv` its slot was kept.
  *Limits* shows that one of the two hypotheses is needed.

**MigrationProofs**, for any number of manifests, chunks, frames, ordinary writes, crashes
and failed steps, without a further hypothesis:

- `TypesHold`: `Spec => []TypeOK`;
- `ReadyIsAlwaysProven`: `Spec => []ReadyIsProven`;
- `OnlyTheApprovedIsMigrated`: `Spec => []SourceIsApproved`;
- `ReadyAlwaysOpens`: `Spec => []ReadyOpens`;
- `ReadyStaysReady`: `Spec => ReadyIsFinal`.

They follow from one invariant, `MigrationInv` (theorem `MigrationInvariant`). `ControlInv` and
`CallInv` say what the step of a process implies of marker, memory and `state.json`;
`FreshInv` that without a marker nothing has happened; `MarkedLogInv` that behind the approved
frontier of the marker's manifest there is only its own evidence and receipts, with the
commit behind all chunks, which is what makes `SourceIsApproved` survive refused calls of
other manifests; `MarkedStateInv` and `ReadyInv` what `state.json`, the activation and the
rows agree on from the end of a migration on, and what a clean close has saved, which is
what the next open compares. Most of the work is in the recovery of an open, the fold
and the save, which recompute these from each other; `RowsByKeeps` says
where the rows of a replay with gaps come from.

**ServingProofs**, for every set of nodes, queue capacity, retention and bound:

- `IndexAlwaysAgrees`: `Spec => []IndexAgrees`. The property alone is not inductive: a queued
  insertion has no point yet. `PointInv` says that the points and the insertions still to
  come are together the rows, in the codes of the present center; `FlowInv` that a flush is
  answered only behind everything queued before it, and that arena ids are distinct and not
  above the number of rows, which a renumbering keeps (facts on cardinality of the library);
- `FlushesAreComplete`: `Spec => []FlushedIsComplete`, from these and `LagInv` below: a flush
  leaves nothing pending, and an index that has every arena id has every row;
- `DeadLeasesStayDead`: `Spec => LeaseStaysDead`, from `LeaseInv`: a lease is never ahead of
  the owner, epoch, policy, frontier and generation it is compared with;
- `LeasesAreRepeatable`: `Spec => []LeaseIsRepeatable`, from all of these and `PublishedInv`:
  while a generation is still the frontier nothing is staged, replayed or indexed;
- `LagIsAlwaysHonest`: `Spec => []LagIsHonest`. `index_pending` is a number, what it stands for a
  set: `LagInv` says that it is the cardinality of the insertions that were counted and are not
  counted as done (`Due`), and that queue, thread and call never hold the same one;
- `TypeAlwaysOK`: `Spec => []TypeOK`, with `KindInv` and, for the consecutive arena ids, the
  same facts on cardinality.

What only TLC checks: the liveness properties `CallsReturn` (Journal and Serving), `Convergence`
and `MigrationCompletes`, which are out of the prover's reach, and `NoLostWrite` in schema 5
(`journal_full`), outside the hypotheses of its theorem.

## 5. Plan

Done: Journal with schema-6 preflight, Gossip, Consensus with Decision, Migration, Serving, and
the proofs of all their safety properties.
Next, in this order:

1. An abstract store (what clients were told, what may still become of an unconfirmed call),
   with Journal shown to implement it, model-checked and then proved from `RecoveryInv`.
2. `NoWriteIsEverLost` for schema 5 without truncation faults: preflight does not check
   sequence numbers there, so the order of replay has to come from the files' names.
3. **Projection** (L:13971-14990) and **Transactions** (L:8878-9058, 18169-18390): a transaction
   of several records is applied as one; its id is idempotent.
4. **Backup** (L:28491-28917): the cut a backup takes against the writer thread's seal.
5. **RAG worker** publication (pointer, outbox, receipt) and the **workflow guard**'s run lock.
6. The batch and cursor invariants of Gossip restated over several hops, with the sweep of old
   tombstones.

Not modelled, and not planned: HQL parsing, planning and execution (pure functions of one
snapshot), HNSW and arena arithmetic (floating point and random levels), the HTTP layer,
language bindings and user interfaces.
