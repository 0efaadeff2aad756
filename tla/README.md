# TLA+ verification of blob-indexer-api

The program indexes EIP-4844 blob transactions of one or more Ethereum networks
into PostgreSQL and serves them over REST, WebSocket and MCP. This directory
holds TLA+ models of its core, the TLC configurations that check them on small
instances, and TLAPS proofs of the properties that matter most.

Paths below are relative to the repository. `indexer.go` without a directory is
`internal/indexer/indexer.go`, and so on for the other files of that package;
`ws_*.go`, `queries.go` and `chart_handlers.go` are in `internal/api`.

    tlc -workers 2 -config BlockIndexer_follower.cfg MCBlockIndexer
    tlapm BlockIndexer_proofs.tla

`PROJECT.json` maps every definition to the lines it models, lists the runs, the
mutants that show each property can fail, the hazards and the theorems.

## 1. Inventory

`cmd/indexer` runs one `Indexer` per network; `cmd/api` serves the database;
`cmd/migrate` changes the schema. Indexer and API are separate processes that
share only PostgreSQL (tables, triggers and LISTEN/NOTIFY). Within an indexer the
goroutines share in-memory maps under small mutexes, three channels
(`blockTaskCh`, `processCh` and the node's subscription channels), and
`dbWriteMu`, which serialises every transaction that rewrites block or pending
rows. Network calls are made outside that lock. Within the API each network has
a poller, all of them share one hub, and the handlers share response caches.

| Component | State | Operations | Hard part | Correct when |
|---|---|---|---|---|
| **Block indexing core** (`indexer.go`, `commit_order.go`) | `indexed_blocks`, `last_indexed_block`, `backfill_active`/`backfill_cursor`, the reorg-recovery marker; `blockTaskCh`, `inFlight`, `failedBlocks`, `lastIndexedBlock`, `reorgEpoch`, `reorgResetBlock`/`Through` | walker tick, head subscription, worker pool (fetch, wait for predecessors, parent check, fork scan, rewind, insert, watermark), gap scanner, start, crash | a rewind races fetches, inserts, watermark writes and the coverage scan; the process dies between any two writes | no block the walker passed is lost; no stale fetch is committed after a rewind; every hole a rewind opened is found again, also after a crash; the rows converge to the node's branch |
| **Pending pool** (`indexer.go`) | `mempool_blobs`, the first-seen times in `blobs`, `blob_replacements`; `processCh` | announced hash → fetch → store; poll of the pending template; liveness refresh; TTL sweep; promotion and eviction by the block path | each producer asks the node first and takes the lock later | a transaction is pending or confirmed, not both; one row per nonce; a live row is not swept; a dead row goes |
| **Candidate snapshots** (`builders.go`, `commit_order.go`) | `blob_inclusion_candidates`, the aggregates in `block_builders` | snapshot at commit of a recent block, carry-over at reprocess, repair, prunes | depends on commit order and on what the prunes have already removed | a builder is not blamed for a transaction a block below had settled; aggregates are those of the detail |
| **Reindex requests** (`indexer.go`) | `block_reindex_requests`, heartbeat | claim, delete range, re-queue, wait, complete or fail | stale heartbeat, two pods, crash between delete and re-queue | a deleted range is re-queued or its request stays open or failed |
| **Builder backfill, priority-fee backfill, streak rebuild** (`builder_backfill.go`, `priority_fees.go`, `records.go`) | floor, watermark, fingerprint in metadata | windows newest first or oldest first, batches, chunks | incomplete windows; rewind between fetch and write; changed definitions and a crash | nothing beyond a checkpoint lacks what the walk fills |
| **Chart rollups** (the triggers of the 20 migrations in `internal/db/migrations`, `internal/db/fine_rollups.go`) | `blob_chart_rollups`, `block_metrics_rollups`, `blob_user_stats`, `network_blob_stats` | statement triggers, fine backfill, repair of coarse buckets, prune | row images in upserts, a tier that fills up while it is read, a repair outside the write lock | rolled-up numbers are those of the raw rows, but for what section 6 lists |
| **Chart and window reads** (`queries.go`, `chart_handlers.go`) | none | tier and bucket choice, probe, query | the probe and the query are two statements | every tier tells the same numbers |
| **Response caches** (`handlers.go`, `router.go`, `queries.go`) | entry per key with its expiry, one computation per key | lookup, join, lead, store, drop | a computation that started before a drop ends after it | answers no staler than their time to live; no answer older than one already out |
| **WebSocket hub and clients** (`ws_hub.go`, `ws_client.go`, `ws_handler.go`) | client set, admission slots, four channels | admit, register, unregister, broadcast, snapshot, drain | full channels, late registration | slots are returned, channels closed once, nobody waits for ever |
| **WebSocket poller** (`ws_poller.go`) | last head, seen set, last pending set | notification, trailing scan, pending poll | rewinds, dropped notifications, failed reads | every committed block near the head is announced, history is not |
| **Blob schedule** | learned future forks | learn, reconcile | two writers of idempotent rows | the config is the one the node announces |
| **Ethereum client** (`internal/ethereum`) | shared 429 backoff, subscriptions | call, back off, resubscribe | concurrent 429 answers | the backoff is bounded and shared |
| **API rate limiter** | buckets by visitor | allow, evict | eviction at the cap | a visitor is limited while tracked |
| **Routing and formatting; MCP; attribution; configuration** | static tables | read-only | — | — |
| **Migrations** (`internal/db/migrate_recovery.go`) | schema version and dirty flag | plan, force, step | crash inside a migration | a re-run reaches the target |

Interactions that matter to the models:

* walker, head follower, gap scanner and reindexer → `blockTaskCh` → workers;
* worker → walker: `reorgResetBlock`/`reorgResetThrough` (in memory) and the
  marker (in the database) after a rewind;
* gap scanner → walker: the same signal, once, for a marker of an earlier process;
* block path → pending pool and candidates: promotion, eviction and snapshot in
  the block's transaction; rewinds and reindexes bump the epoch the walks check;
* block path → rollups: triggers in the same transaction;
* commits → poller: `pg_notify`, and the poller's trailing scan; poller → caches
  (drop), then → hub (broadcast) → clients → caches (the herd of refetches).

The hazards in `PROJECT.json` follow this table, each at its line.

## 2. Modules

| Module | Models | Lines |
|---|---|---|
| `IndexStore` | what the core promises of its table and its marker, in three actions | abstract specification |
| `BlockIndexer` | walker, follower, workers, gap scanner, node, start and crash | `indexer.go`, `commit_order.go`, `db.go` |
| `PendingPool` | the pending tables and their four writers | `indexer.go` |
| `CandidateSnapshot` | snapshots, their repair and the prunes, over a node, its pool and a clock | `builders.go`, `commit_order.go`, `indexer.go` |
| `ReindexRequests` | pods that claim, delete, queue and close | `indexer.go`, `internal/db` |
| `HistoryWalks` | the three walks over history, with what live indexing does to them | `builder_backfill.go`, `priority_fees.go`, `records.go` |
| `ChartRollups`, `ChartReads` | the aggregate tables; the reads over them, composed by `EXTENDS` | migrations, `internal/db`, `queries.go`, `chart_handlers.go`, `builders_queries.go` |
| `Endpoints` | which statements each REST endpoint makes and of which part of the database; no state, used by `ApiCache` | the handlers of `internal/api` |
| `ApiCache` | response caches, shared computations, the poller's drops | `blob_handlers.go`, `handlers.go`, `router.go`, `entity_handlers.go` |
| `WsHub` | connections, hub, pumps, snapshots, shutdown | `ws_hub.go`, `ws_client.go`, `ws_handler.go` |
| `WsPoller` | what drives the broadcasts | `ws_poller.go` |
| `MC<module>` | the instance a run checks | — |
| `<module>_proofs` | theorems about a module, `WebSocket_proofs` about `WsHub` and `WsPoller`, `ReadSide_proofs` about `ApiCache`, `ChartRollups` and `ChartReads`; `Numbers` has the facts about minima, multiples and sums they share | — |

Throughout, an action is one stretch of code between two points where another
goroutine, the node or the database can intervene: a section under `dbWriteMu`
or a transaction is one action, a read before it is an action of its own, and
so is each statement of a handler. Variables marked ghost or observation are
read by no guard.

### 2.1 BlockIndexer

One action is one stretch of code between two points where another goroutine,
the node or the database can intervene. A section under `dbWriteMu` that ends in
a commit is one action, a read before it is an action of its own.

| Variable | Code |
|---|---|
| `branch`, `head`, `header` | the node (external): the branch it follows, its head, the latest header it announced |
| `indexed` | `indexed_blocks`: the hash stored for each height, `NoRow` for none |
| `following` | the number `handleNewBlockSubscription` is blocked on in `enqueueBlock`, 0 for none |
| `watermark` | metadata `last_indexed_block` |
| `marker` | metadata recovery range, as a set of heights |
| `backfill` | metadata `backfill_active`, `backfill_cursor` |
| `lastIndexed`, `epoch` | `lastIndexedBlock`, `reorgEpoch` |
| `reset`, `signaled` | `reorgResetBlock..reorgResetThrough`; whether this process raised it before |
| `queue`, `failed` | `blockTaskCh`, `failedBlocks` |
| `walker` | `runBlockIndexer`: position, numbers still to send, phase, the head it read |
| `worker[w]` | one `blockProcessingWorker`: step, height, fetched branch, sampled epoch, fork candidate, attempt |
| `scanner` | `retryFailedBlocks` and `completeReorgRecoveryIfCovered` |
| `crashes`, `faults`, `switches` | budgets, in no code |
| `owed`, `worker[w].stale`, `walker.base` | observations: rows deleted and not re-inserted; a rewind passed since the fetch; where the walker began |

| Action | Code |
|---|---|
| `StartIndexer` | `determineStartBlock`, `backfillResumeBlock`, `seedStartupGapRecovery`, the load of the marker |
| `FollowHead`, `SendHead` | the header branch of `handleNewBlockSubscription`: the comparison with the in-memory watermark, and the send, which waits for room |
| `ConsumeReorgReset`, `StartBatch`, `SendTask`, `CheckBackfillCoverage`, `SettleBackfill` | one tick of `runBlockIndexer` in its order |
| `TakeTask`, `Fetch`, `AwaitPredecessors`, `CheckForReorg`, `ScanForFork`, `Rewind`, `InsertBlockData`, `RaiseWatermark`, `PersistWatermark` | `blockProcessingWorker`, `processBlock`, `checkForReorg`, `handleReorg`, `insertBlockData`, `updateLastIndexedBlock` |
| `WorkerFault`, `Retry` | any of their calls failing, or a panic (recovered, not retried); the end of the back-off, where the next attempt samples the epoch |
| `WalkerFault`, `ScannerFault` | the head cannot be read; marker, coverage or delete fail: the round ends |
| `StartScan`, `RetryFailedBlock`, `SampleEpoch`, `ReadMarker`, `CheckMarkerCoverage`, `ClearMarker` | one round of the gap scanner |
| `NewHead`, `SwitchBranch`, `Crash` | the node, and the end of the process |

A block's hash is the branch it belongs to, or `Trunk` below every fork; its
parent's hash is then known, which is all the parent check looks at. The
columns of the rows other than the hash are left out.

### 2.2 IndexStore

`rows` and `debt`. `Insert` writes one row; `Rewind` deletes every row above a
fork and adds at least those heights to the debt; `WriteOff` clears the debt,
and only when every height of it has a row. That is the contract a restart
relies on: a missing height is never forgotten while the marker owes it.
`BlockIndexer` implements it with `rows <- indexed, debt <- marker`. The step
that makes this worth stating is `ClearMarker`: the coverage it relies on was
read outside the lock by an earlier action.

### 2.3 PendingPool

`pool`, `sent`, `chain`, `tip` are the node (external). `pending` and `age` are
`mempool_blobs` and its `last_seen`, the age counted in polling intervals;
`rows[h]` is the confirmed transaction of block h with the first-seen time kept
or not; `replaced` is `blob_replacements`; `hashes` is `processCh`.

| Action | Code |
|---|---|
| `FetchPending`, `StoreFetched` | `processPendingTransaction` of a subscription worker, `insertPendingBlobs` |
| `PollTemplate`, `StorePolled`, `ListTracked`, `CheckTracked`, `RefreshLiveness`, `PollerFault` | `processPendingTransactions`, `refreshPendingBlobLiveness` |
| `Sweep` | `cleanupStalePendingBlobs` |
| `FetchBlock`, `CommitBlock`, `Rewind` | the block path on these tables |
| `Submit`, `Mine`, `Reorg`, `Tick`, `Restart` | the node, the clock, the process |

A block holds at most one blob transaction and a transaction one blob: the
statements treat the members of a block independently. `BlockIndexer` has the
order of the block path; here any block of the node's chain may be taken, which
allows more than the program does and so is sound for the safety properties.

### 2.4 CandidateSnapshot

A small node (`chain`, `tip`, `pool`, `sent`) and a clock in slots; `gone[t]`
says how long ago t left the node's pool, so that a stored answer of the node may
be late by a bounded time. `pending`, `age`, `unseen` are `mempool_blobs` with
its first-seen and last-seen times, `builders` and `candidates` the two tables of
the snapshot.

| Action | Code |
|---|---|
| `Observe`, `RefreshLiveness` | the writers of the pending table, as far as the snapshot depends on them |
| `Commit` | `processBlock` and `insertBlockData`: promotion, eviction, `candidateSnapshotDue`, `predecessorsCommitted`, `selectPendingCandidates`, `upsertBlockBuilder` |
| `Rewind` | `handleReorg` on these tables |
| `RepairTick`, `SweepPending`, `PruneLog`, `PruneDetail` | one tick of the maintenance loop, a statement apiece, each of which may fail: the repair, the sweep of the pending table and, if the repair succeeded, the prune of the replacement log and that of the detail, each with its own retention |
| `Submit`, `Mine`, `Reorg`, `Slot` | the node and the clock |

Blocks commit in any order: the wait for predecessors is bounded and may always
give up, and `BlockIndexer` has its detail.

### 2.5 ReindexRequests

`status`, `claimer`, `stale` are the requests table, `scanner[p]` one pod's
`processReindexRequests`, `queue[p]` and `fetch[p]` its channel and its worker,
`epoch[p]` its `reorgEpoch`. `ClaimerOf` is `reindexRequestClaimer`: the network
and the version, so that pods of one version share an identity.

| Action | Code |
|---|---|
| `Claim`, `Heartbeat`, `GoStale` | the claim statement with its staleness, the heartbeat, time |
| `DeleteRange`, `QueueBlock`, `QueueDone`, `CountMissing` | `Reindex` and the wait for the rows |
| `Complete`, `Fail` | the closing statements, which check the claimer |
| `Fetch`, `Insert` | a worker, with the epoch fence |
| `Crash` | the end of a pod |

### 2.6 HistoryWalks

`rows`, `filled` are the blocks and the column or row the walk fills (the branch
of the builder row, whether there is a fee, the definition a streak is of);
`mark` and `claimed` the checkpoint in metadata, `walk` the goroutine. One
behaviour has one of the three walks.

| Action | Code |
|---|---|
| `ReadBounds`, `ReadFloor`, `ReadWatermark`, `ReadDefinitions`, `ReadMark`, `Claim` | the start of a walk |
| `List`, `BeginBatch`, `Fetch`, `Write`, `Recheck`, `Advance` | a window: the missing blocks, fetched and written in batches, the second look, the checkpoint |
| `Recompute` | a chunk of the streak rebuild |
| `IndexLive`, `Rewind`, `DeleteRange`, `SwitchBranch`, `ChangeDefinitions`, `Crash` | the rest of the program and the node |

### 2.7 ChartRollups and ChartReads

`stored` is `blobs` and `block_metrics` by height; `blobRollups` and
`metricRollups` hold a value per bucket; `userStats` and `networkStats` are the
totals; `phase`, `todo`, `refreshing`, `cutoff` the maintenance loop. Time is
counted in minutes, the fine bucket. `IndexBlock` and `DeleteBlocks` carry the
triggers, in the transaction that changes the rows, row images included;
`BackfillChunk` and `BackfillEnds` fill the fine tier, `HealSelect` and
`HealWrite` are the two statements of the repair of coarse buckets,
`PruneBlobRollups` and `PruneMetricRollups` the prunes.
A sender's total follows the triggers statement by statement: signed deltas that
stop at zero, the recount of an attributed sender who is among the rows before an
upsert and not among those after (`Cleared`, `000016:102-103`), and then the insert
trigger, which adds the inserted rows to either.
`ChartReads` adds `Probe` (the choice of the source, for every range and
granularity the handlers accept) and `Answered` (the query). The queries are
written twice, on raw rows and on rollups, as in the code, and the properties
compare them.

### 2.8 ApiCache

The database is a version number for confirmed data and one for the pool; an
answer is the version each of its statements saw, in the order of `Endpoints`. `Ask`,
`Hit`, `Join`, `Lead` are a request to a cached endpoint; `Direct` and `DirectEnds` the
statements a handler makes for itself, `DirectFails` one that fails; `Read`, `Fail`,
`Store`, `Return`, `ReturnError` the shared computation, which outlives its caller and
has a timeout of its own; `Notice` and `Broadcast` the poller, which drops caches and
then tells the clients. An entity or builder nobody knows yet (`FirstSeen`) is answered
404: `Given` ends the request there, and `Keepable` keeps such an error out of the cache
while an empty list of addresses is kept.

### 2.9 WsHub

`total`, `perIP` are the admission slots, `others` those of connections that stay;
`handler[c]` is the HTTP handler of a client, `reader[c]` its read pump,
`conn[c]` its connection and with it the write pump, `snapshot[c]` the goroutine
of its snapshot; `registerCh`, `unregisterCh`, `broadcastCh`, `directCh` are the
hub's channels and `sending[c]` the messages in the client's own; `clients` is the
set the hub owns. `Admit`, `Upgrade`, `Register`, `RegisterAtStop` are the handler.
`HubRegister`, `HubUnregister`, `HubBroadcast`,
`HubDirect` are the cases of its select, taken in any order; `HubStops`,
`DrainRegister`, `DrainEnds` the shutdown.

### 2.10 WsPoller

`rows` holds which commit of a height is stored; `notices` the notifications
under way; `head`, `seen`, `baselined` are `chainBroadcastState`; `lastPending`
is `lastPendingTxs`; `shown` and `view` say what clients were told. `Notice`,
`Reconnected`, `Tick`, `ReadRows`, `BroadcastsEnd`, `PollHashes`, `PollRows` are the
goroutine, a query apiece. `broadcastBlock` is three steps: `MarkBlock` (the mark, the
head, the check for clients), `ReadBlock` (the metrics) and `SendBlock` (blobs, builder
and the event). A commit or rewind in between does not stop the event: it
tells of the metrics it read, with blobs and a builder that may be the next block's, and
the block that replaces the row gives notice itself.

## 3. Runs

Every run explores its instance to the end. `CHECK_DEADLOCK FALSE` in all but
tiers: the node's chain, the requests or the clients are bounded, and an instance
that has dealt with all of them has nothing left to do.

* **follower** — subscription and walker feed two workers through a channel of
  one; one branch switch, to a branch that may be one block shorter:
  `MarkerCoversOwed`, `NoStaleInsert`, and `ImplementsStore`. This
  is the run in which the marker is cleared while a rewind is under way.
* **crash** — no subscription, one crash between any two steps, one branch
  switch, one retry, and a startup scan of a single height, so that it hides
  nothing: `CrashRecoverable`, `SettledPhaseCovered`.
* **faults** — start at LATEST-1, one failed call anywhere (a worker's call, a
  rewind that fails after lowering the watermark, a metadata write, either
  startup read, the walker's or the scanner's), one crash, one branch switch, one retry: `NoLostBlock`.
* **liveness** — `FairSpec`, live blocks wait for two predecessors: `Coverage`,
  `Convergence`, `MarkerCleared`. It also shows that waiting for predecessors in a
  pool with a bounded channel does not lock the pool up.
* **races** — both observers, poller, sweep and block path through a reorg, a
  restart and one failed call: `PendingExcludesConfirmed`,
  `OnePendingPerNonce`, `ObservationKept`, `LiveNeverSwept`, `DeadRowsLeave`,
  `LiveRowsShown`.
* **gate** — a transaction and its fee bump, three heights committed in any order,
  one sibling, blocks processed again and statements of the maintenance loop that fail
  any number of times: `SnapshotFacedPool`,
  `AggregatesMatchDetail`, `NoRowAgesOutUnrepaired`, `RepairFindsAll`.
* **rollout** — two pods of two versions, two overlapping requests, one crash, one
  stall, one failed statement: `NoPurgedData`, `ClosedByClaimer`,
  `NothingLostSilently`, `RequestsClose`.
* **resume** — each walk over four heights in windows of two: `CheckpointsTrue`,
  `BuilderOfStoredBlock`, `StreaksUpToWatermark`, `LeftOnlySkipped`.
* **tiers** — every read over every tier, through the arrival of the fine tier, a
  sibling, a rewind, a restart and the prune: `ShortReadsExact`,
  `UnaskedReadsExact`, `TotalsExact`.
* **herd** — two callers, every shape of endpoint, one commit:
  `StalenessBounded`, `RefetchSeesBlock`, `AnswersNeverGoBack`.
* **sockets** — two clients and others behind one address, every channel of one
  slot, a shutdown: `SlotsPaired`, `ChannelsClosedOnce`,
  `GoneClientsForgotten`, `EverybodyReturns`.
* **events** — the poller through any two of a rewind, an outage, a failed query
  and the coming or going of clients: `HistoryNotReplayed`, `NearBlocksShown`,
  `NoGhostPending`.

The type invariants of `BlockIndexer`, `PendingPool`, `ReindexRequests` and
`HistoryWalks` are proved (section 5) and in no run.

### Bounds, and why they are enough

| Bound | Value | Why |
|---|---|---|
| `MaxHeight` (core) | 3 or 4 | a fork point, a rewound block, one above it; 4 where a phase must end between two batches |
| `Workers` | 2 | every hazard listed is between two workers, or one and the walker or scanner |
| `QueueCap` | 1 | makes every sender block |
| `BatchSize` | 2 | a batch that spans more than one send and less than the chain |
| `MaxBlockRetries` | 0 or 1 | a failure that is tracked at once, and one that is retried with a new epoch |
| `MaxReorgDepth` | 3 | at least the fork's depth, as 64 is to real reorgs; a deeper reorg than the limit leaves stale rows by configuration |
| `StartupGapScanBlocks` | 1 or 2 | below the chain's length, as 10000 is below a real one |
| `MaxSwitches`, `MaxCrashes`, `MaxFaults` | 0 or 1 | each hazard needs one; two would multiply the states beyond what a run can explore |
| `TTL` (pool) | 4 | see below |
| `MaxBlocks`, `MaxReorgs` (pool) | 1 | one confirmation, taken back once |
| gate: heights 0..2, `MaxSlots` 4, `Retention` and `LogRetention` 1 | | a block, its predecessor and one below the liveness window; time for a repair and a prune of the same block; repeats and failures need no bound |
| rollout: ranges {1, 2} and {2} | | a shared block and one that is not |
| resume: `Window` 2, `Batch` 1, heights 1..4, `ForkPoint` 2 | | two windows of two batches, one of which a switch of branch touches; two changes and two faults, since a checkpoint goes wrong by one of each |
| tiers: `Five` 2, `Hour` 4, `SixHours` 8, `Day` 16, `Week` 32, `Month` 48, `PointLimit` 12, `Retention` 17, `Chunk` 9, `Clock` {25, 37}, one sibling, rewind or delete, one restart | | the real ratios shrunk, each bucket a proper multiple of the next, the retention a little more than a day as in the code; the clock stands where the fine tier arrives and is filled, and where it is pruned |
| herd: `MaxTime` 2, `Ttl` 1 and 2, `Timeout` 1, `MaxAsks` 3, four questions, `FirstSeen` 1 | | a question per shape of endpoint, one of an entity unknown before the first commit; an entry that expires during a computation, one asked before, during and after |
| sockets: `MaxOthers` 2, limits 2, `MaxViewers` 1 | | both limits are reached, by others and by the two; the run with blocks has one viewer |
| events: `Window` 2, `ScanLimit` 3, heights 1..3 | | a block at the edge of the window; the scan limit above the window as 64 is above 32 |

The theorems of section 5 hold for every value of the bounds of their modules.

`TTL = 4` is a result and not a convenience. A row misses the refresh that began
just before it was stored, and a refresh is a round old when it is written, so
`LiveNeverSwept` needs a TTL of three intervals plus one for each failed call: it
is violated at 3 with one fault and at 2 with none. The defaults, 30 minutes and
30 seconds (`internal/config/config.go:288-289`), are sixty intervals.

## 4. Fairness

`BlockIndexer!Fairness`: weak fairness of each goroutine (walker, scanner, each
worker, the follower) and of the restart; strong fairness of the channel
operations `SendHead`, `SendTask`, `RetryFailedBlock`, `TakeTask`, since a Go channel serves
blocked senders and receivers in the order they came; weak fairness of `NewHead`,
since the chain grows. Branch switches, crashes and faults owe nothing.

`SlowPredecessors` is FALSE in the liveness run: `predecessorWait` outlasts a
predecessor a worker is processing. That is the assumption the comment at
`indexer.go:1638` makes; with TRUE `Convergence` fails (section 6).

Within the liveness run the final head itself may be of a stale branch, because
only the next block exposes it and the bound leaves that one out; `Convergence`
is stated to allow for it.

`PendingPool!Fairness`: weak fairness of the clock, the poller, the sweep and each
observer. Nothing is asked of the node or the block path.

`ReindexRequests!FairSpec`: weak fairness of each pod's scanner and worker, and of
time (`GoStale` of a request whose pod is gone). Crashes, faults and the stall of
a live pod's heartbeat owe nothing.

`WsHub!FairHubSpec`: weak fairness of each case of the hub's select, since Go picks
among the ready ones at random and each is ready until taken; strong fairness of
a client's `Register` and `SendSnapshot`, which wait for room in a channel others
fill; weak fairness of its writer, its snapshot goroutine and of the poller's
ticks. Clients owe nothing: they may never leave and never read.

`WsPoller!FairSpec`: weak fairness of what the goroutine has begun; strong
fairness of `Notice` and `Tick`, the cases of its select. Commits, reconnects and
clients owe nothing.

The other modules state no liveness.

## 5. Proofs

### BlockIndexer_proofs

| Theorem | Property |
|---|---|
| `TypeCorrect` | `TypeOK` |
| `Invariance` | `IInv`, the inductive invariant |
| `MarkerCovers` | `MarkerCoversOwed` |
| `StaleNeverInserted` | `NoStaleInsert` |
| `Refinement` | `ImplementsStore` |
| `NothingDropped` | `NoLostBlock` |
| `PhasesEndCovered` | `SettledPhaseCovered`, if the node's head never drops |
| `CrashesRecoverable`, `CrashesRecoverableWithoutFaults` | `CrashRecoverable`, see below |

The first six assume `SizesAssumption` and `HashAssumption` only: any number of
heights, workers, branches, retries, switches, crashes and faults, any channel
capacity, with and without a subscription.

`IInv` is the conjunction of

* `TypeOK`;
* `WalkerInv`: the walker is sending exactly when it has something to send;
* `WorkerInv`: a worker that fetched before a rewind has sampled an older epoch;
* `ScannerInv`: the scanner's epoch is not ahead, and while it equals the
  current one the range it read is still the marker, and before the clear every
  height of it has a row;
* `OwedInv`: what is owed lies in the marker and has no row;
* `StoppedInv`: a stopped process has idle workers and an idle scanner.

`MarkerCoversOwed` is not inductive by itself: `ClearMarker` empties the marker
on the strength of a coverage that was read outside the lock. `ScannerInv` is
the reason this is right. Rows disappear only in `Rewind`, every `Rewind` bumps the
epoch, and the clear compares it under the lock; so when the epochs are equal
nothing was deleted since the scan and the owed set is empty.

`StaleNeverInserted` rests on `WorkerInv` in the same way: a worker marked stale
has an older epoch and `InsertBlockData` refuses it.

`Refinement` maps each action: `InsertBlockData` to `Insert` or a stutter,
`Rewind` to `Rewind`, `ClearMarker` to `WriteOff` or a stutter, every other action
to a stutter.

`NothingDropped` uses a second invariant on top of `IInv`: every height from the
walker's start has a row, or is in the channel, in `failedBlocks`, in the reset
signal, in the walker's hands or in a worker's that has not committed, or lies
above the walker, or in the marker.
Each action moves a height from one of these places to another; the case that
needs the marker is disagreement 4 of section 6.

`PhasesEndCovered` adds `PhaseInv`: a phase hands out nothing above the node's
head, and once its coverage was checked the range stays in rows or in the marker
until the write that ends it. The hypothesis is `~HeadMayDrop`, the very case of
disagreement 3.

`CrashesRecoverable` adds `ReachInv`, over all heights the tables or the process
have come across: outside a phase on record everything below any of them is
stored or recorded. Its hypotheses are the two ways in which this is false in the
code, and two that say which configuration is meant:

* `~Websocket` and `~HeadMayDrop`: disagreements 2 and 3;
* the write that opens a phase does not fail (`PhaseRecorded`): the code only logs
  that failure. Every other call may fail any number of times, which is more than
  the run allows; `CrashesRecoverableWithoutFaults` has `MaxFaults = 0` in its place,
  as the run has;
* `~LatestStart`, since a start at the head owes nothing below it;
* `StartBlock` or the startup scan above zero, without which block 0 is looked
  for by nobody.

### PendingPool_proofs

| Theorem | Property |
|---|---|
| `PoolInvariance` | `PoolInv`, the three table invariants together |
| `PoolTypeCorrect` | `TypeOK` |
| `NeverPendingAndConfirmed` | `PendingExcludesConfirmed` |
| `OnePerNonce` | `OnePendingPerNonce` |
| `ObservationsKept` | `ObservationKept` |
| `HeldRowsSeenOften` | `SweepInv` |
| `HeldRowsNeverSwept` | `LiveNeverSwept`, if `TTL >= 3 + MaxFaults` |

For any set of transactions, nonces, observers, blocks, and any TTL. The
invariants are inductive together: each writer reads the tables under the lock
it writes them, so what it learned from the node earlier does not matter.
The lemmas `StorePendingSafe` and `StoreBlockSafe` say so once for the two
statements, and every writer cites one of them.

`SweepInv` bounds the age of a row the node has held without a break: one interval
if this interval's round has not begun, one more unless the round under way is
going to miss the row, and one for each failed call so far. The hypothesis of
`HeldRowsNeverSwept` is the bound of section 3, which is sharp; the defaults leave
room for 57 failures in a row.

### ReindexRequests_proofs

`ReindexTypeCorrect` (`TypeOK`), `PurgedNeverBack` (`NoPurgedData`) and
`OnlyClaimerCloses` (`ClosedByClaimer`), for any pods, versions, blocks, requests
and ranges. `NoPurgedData` needs the invariant that a worker marked as having
fetched before a delete of its pod has an older epoch: `Insert` compares the
two. `ClosedByClaimer` follows from the statements alone.

### HistoryWalks_proofs

| Theorem | Property |
|---|---|
| `WalksTypeCorrect` | the types of all variables |
| `WalksInv` | `IInv`, the inductive invariant |
| `FloorsTrue` | `CheckpointsTrue` |
| `BuildersMatch` | `BuilderOfStoredBlock` |
| `WatermarkTrue` | `StreaksUpToWatermark` |
| `NothingElseLeft` | `LeftOnlySkipped` |

From `WalkSizes` alone: any window, batch, history, number of faults and changes.
`IInv` is the conjunction of

* `TypeInv`;
* `PositionInv`: where the walk stands relative to its bounds and checkpoint;
* `CheckInv`: what the walk has already looked at and found complete still is,
  unless it has noted otherwise, and the checkpoint is true;
* `LeftInv`: what lies behind the walk lacks nothing but what it skipped;
* `BuilderInv`: what lacks a builder is of the branch history began with, since
  live indexing writes block and builder together, and what the walk lists and
  fetches is of that branch, since the hash is compared;
* `StreakInv`: while the stored fingerprint is that of the database, everything
  behind the walk is rebuilt; before the claim nothing below its start is older.

`CheckpointsTrue` is not inductive by itself: the checkpoint moves on the strength
of a recheck that an earlier step made, and rows appear in between. They appear
filled, since live indexing writes block and builder together; that is what
`CheckInv` carries from the recheck to the advance. TLC checked `IInv` on the
instance of the run resume before it was proved.

### WebSocket_proofs

Of the hub: `HubInvariance`, `SlotsArePaired` (`SlotsPaired`) and `NeverClosedTwice`
(`ChannelsClosedOnce`), for any finite set of connections, any addresses, limits
and capacities. The strengthening is `ApartInv`: a client is with its handler, in
the register channel, or in the hub's set, once and at one place only, and its
channel is open until the hub removes it. Counting slots then is counting a set
that each action changes by the clients it moves.

Of the poller: `HistoryStaysQuiet` (`HistoryNotReplayed`), for any window, scan limit
and chain. The rows the API found are either marked as seen or at least a window
below the head: the baseline marks the newest `Window` rows, and if a row is not
among them, `Window` rows stand above it, so it is that far below the head. Marks
are dropped only below the window, and the head never falls.

### CandidateSnapshot_proofs

| Theorem | Property | Hypotheses |
|---|---|---|
| `AggregatesAlwaysMatch` | `AggregatesMatchDetail` | none |
| `GateInvariance` | `GateInv` | none |
| `SnapshotsFacePool` | `SnapshotFacedPool` | `Window <= TTL` |
| `NothingAgesOutUnrepaired` | `NoRowAgesOutUnrepaired` | `MaxCommitLag <= Retention + 1` |
| `RepairFindsEverything` | `RepairFindsAll` | `Window + MaxCommitLag <= TTL`, `MaxCommitLag <= LogRetention`, `BidsBound` |

For any transactions, senders and nonces, any chain, number of reorgs, repeats and
failed statements.

`AggregatesMatchDetail` needs that the detail of a block is of one slot, so that a
prune takes all of it or nothing, and that a block with detail has taken its
snapshot, so that no second one mixes with it.

`GateInv` relates the five things the gate and the repair rely on, none of which
sees the others' whole history:

* `ChainInv`: slots grow with the height, and only the tip is replaced, in its slot;
* `RowInv`: a row is of a block the chain has or had, and a block of the chain
  without one is recent;
* `LogInv`: the log replaces a transaction by one of its sender and nonce;
* `PendingInv`: unless a write was late, the pending table holds nothing the rows
  settled;
* `AgeInv`: what a block settled has left the pool, and its row has not been seen
  since, give or take a slot, as long as no reorg brought it back;
* `CandidateInv`: a candidate is of a transaction and, by its slot, of a block of
  the chain.

`SnapshotsFacePool` then is an argument by cases on where the transaction was settled:
within the window the gate saw the block committed, and the commit promoted or
removed the row; below the window the row has not been seen for that long, and
the snapshot leaves it out. `RepairFindsEverything` follows the log: `FoundInv` says that
from each candidate a path of replacements leads to the block that settled its
nonce, or, while that block is not indexed, to a row still pending; each action
keeps the path or makes it one longer, and no path is longer than there are bids.
`OneInv` (no nonce is settled twice), `GoneInv` (a replaced row is gone) and `TickInv`
(what a repair leaves for the prune of its tick is recent) go with it.

The hypotheses are about times and counts that the code has by orders of
magnitude: the window is two refreshes, four minutes with the default reconcile
interval (`builders.go:311`, `indexer.go:107`); `mempool_ttl` is 30 minutes;
`candidate_retention` and `blobReplacementRetention` (`indexer.go:96`) are a week; a block commits within minutes of its slot. `BidsBound` is the 32 of the
recursive query (`db.go:485`): with more bids for one nonce than that the repair does
miss the candidate, which is what the limit of the query accepts.

### ReadSide_proofs

| Theorem | Property |
|---|---|
| `ApiInvariance` | `ApiTypes`, `LengthInv`, `SinceInv` |
| `StalenessIsBounded` | `StalenessBounded` |
| `RefetchesSeeBlocks` | `RefetchSeesBlock` |
| `AnswersAdvance` | `AnswersNeverGoBack` |
| `TotalsAreExact` | `TotalsExact`, with the drift of 19 in section 6 stated |
| `ShortReadsAreExact` | `ShortReadsExact` |
| `UnaskedReadsAreExact` | `UnaskedReadsExact` |

The first four are about `ApiCache`, from `ApiTimes` alone (`ApiQuestions` only says that the
questions are of known endpoints): any callers, questions, lifetimes and timeout,
any number of commits and requests. The properties are about steps; each has an
invariant that says what a step finds:

* `LengthInv`: a stored answer has one version per query, a running one at most;
* `SinceInv`: what is cached was current at some moment after its expiry less lifetime and
  timeout, what is computed after the computation began; a computation that
  stored its answer returns within its timeout, since the clock waits for it;
* `ToldInv`: the poller tells no more than it has dropped caches for, and what is
  cached or computed shows all it noticed, unless it was under way then;
* `OrderInv`: a computation runs only while nothing fresh is cached for its key, and what
  it stored is what is cached; everything that was ever answered for a key is
  no newer than either, and than the database.

`AnswersNeverGoBack` is the one that needs them all. It is not enough that a computation
starts after what is out: an answer that is out may come from the cache, from the
computation under way or, of an entity listing, from a first part that the caller
took earlier, and `Behind` relates each of them to the other two.

`TotalsAreExact` is about `ChartRollups` and `ChartReads`, from `RollupSizes`: finitely many
heights and senders, blocks of any content. It says that the network's total is exact;
that a sender's is never less than the rows; that it is exact but for the senders in
`padded`, whom one upsert moved from an index it overwrote to one it added, all of
them attributed; and that while there is none, the senders add up to the network.
That the clamp at zero never bites follows from the lower bound. `TotalsInv` says the totals as
cardinalities of sets of rows, where the triggers' deltas can be compared with what a
statement inserts, overwrites and trims (`DeltasAddUp`). A sum over blocks or senders
is a fold, a recursive function; `SumOfParts` shows without induction that the
number of rows united solves its recursion and, by a smallest
counterexample, that nothing else does.

`ShortReadsAreExact` and `UnaskedReadsAreExact` say for any blocks, senders, sizes and
clock that each tier tells what the raw rows would. They need two more invariants
and an argument about buckets:

* `RollupInv` says of each key what its row is worth (`BlobOK`, `CoarseOK`, `FineOK`): a coarse
  row is exact unless an upsert counted twice or a repair wrote from an old SELECT;
  its fees are right, or 0 and still to be repaired; a fine row of the retention is
  exact where buckets have been filled, and missing or exact below; rows below
  are there only if a row came late. The two tables differ: a row of a metric that is
  there is exact even below what has been filled, one of blobs need not be, which is why
  coverage is asked of the metrics (`CoverageIsFilled`);
* `ProbedInv`: a read between its probe and its query starts within the retention and
  not below what has been filled, on a multiple of its bucket; the backfill only lowers
  what has been filled (`ReachedFalls`), and the clock waits for the read;
* `BucketsPart`: the buckets of one size part the blocks of a range that starts and
  ends on a multiple of it. Every point, series and leaderboard entry is then a
  sum of cardinalities of disjoint sets of rows, and `SumsTo` and `SpreadSum` add it up to the
  cardinality the raw query counts.

Beyond the sizes being positive and dividing one another they assume that the fine
retention is no shorter than a day (`FineChartRollupRetention` is two), so that a
24 h chart can be served from fine rows whole, that the clock visits finitely many minutes, and that a chart has fewer points than
a week has minutes (`maxChartPointLimit` is 1000, `chart_handlers.go:38`), so that no 7 d
chart is in minutes.

### Only model-checked

`NothingLostSilently`, `RequestsClose` and every other liveness property: liveness
under fairness and `ENABLED` are beyond the prover. Every invariant and every action
property of the runs is proved.
No module with a theorem declares a `RECURSIVE` operator.

## 6. Where code and comments disagree

Found while modelling. Each can be seen again by naming the property in the
module's cfg with the constants given; none is in a run, since the runs check
what holds.

Indexing core (`BlockIndexer`):

1. `WatermarkIsIndexed`, `indexer.go:1147` — `updateLastIndexedBlock` persists a
   block a rewind has deleted after the commit, which the comment at 1097 sets out
   to exclude. follower with `PredecessorSpan` 2, `Websocket` FALSE, `HeadMayDrop`
   TRUE.
2. `CrashRecoverable`, `indexer.go:1413` — with the subscription up, the follower
   commits the head before the walker recorded its phase; the window of
   `seedStartupGapRecovery` (1179, "crash fallout sits close to the watermark") is
   then not near the gap. crash with `Websocket` TRUE, `StartupGapScanBlocks` 1,
   `PredecessorSpan` 2.
3. `SettledPhaseCovered`, `indexer.go:1338` — phase coverage is checked up to the
   node's head of this tick, not to the last block handed out (comment at 1333).
   crash with `HeadMayDrop` TRUE, `PredecessorSpan` 2.
4. `NoLostBlockWithoutRestart`, `indexer.go:1129` — a late success deletes the
   failure record of a newer attempt (1165). follower with `Websocket` FALSE,
   `PredecessorSpan` 2, `MaxFaults` 1.
5. `Convergence`, `indexer.go:1830` — a missing parent lets a block through when
   the wait expired (comment at 1638), and no later check looks at the pair again.
   liveness with `SlowPredecessors` TRUE.

In 1 and 4 the marker still covers the range, which is why `CrashRecoverable` and
`NoLostBlock` hold in their runs.

Pending pool:

6. `DeadNeverShown`, `indexer.go:3020` — the tombstone that should stop a dead
   transaction (3009) is written only for a stored row. races without reorg,
   fault and restart, as is 7.
7. `LiveNeverReplaced`, `indexer.go:3052` — the order of two observers' stores is
   not the order of the pool (3014).

Candidates:

8. `SnapshotOfStoredBlock` — when a sibling of the same height is processed without a
   rewind, the first snapshot is kept; the comment of `upsertBlockBuilder` says
   a reorg's replacement starts without one.
9. `RepairFindsSuperseded` — a row of a transaction that was stored as pending
   after its nonce was settled is never found by the repair, since no
   replacement was recorded (comment of `repairIncludedCandidates`).
10. `predecessorsCommitted` takes the earliest row for the beginning of what is
    indexed. At a fresh start, or after a rewind that empties the table, the first
    block to commit has no predecessors to miss, whatever is still in flight; this
    is the premise `0 \in Stored` of `SnapshotFacedPool`.

Reindex: `indexer.go:3156` deletes without looking at the claim. A pod that
stalls and is overtaken may delete the range once more after its successor
completed the request, and if it then dies nothing brings the range back
(`NothingLostSilently` without its `stalls` premise). Of two overlapping requests
of which one fails, the other waits for ever (3336).

WebSocket:

11. `NoGapAfterSnapshot` — `ws_handler.go:103-107` says a block broadcast while the
    snapshot is built is delivered too. `sendBlockSnapshot` reads the blocks first
    and then waits for the registration: a block broadcast in between is in neither.
12. `ws_hub.go:67-68` says that every admission is paired with one release. It is not
    when the unregister channel is full (`ws_client.go:70-73`) or when the hub takes
    the unregistration before the registration: the client stays in the set until a
    broadcast finds its channel full. A client that wants no events stays for good,
    and one that registers after the drain is never released; `SlotsPaired` counts
    these with the clients the hub knows, and `GoneClientsForgotten` states what
    remains true.
13. `NoBlockStranded` (`ws_poller.go:37-40`) — a block behind the trailing window is
    never broadcast when its notification was lost or nobody listened.
14. `ReplacementShown` (`ws_poller.go:113-116`, 377-378) — a height stays marked as
    seen when a reorg replaces its row, so that the replacement is broadcast only
    if its notification arrives.

Charts and caches:

15. `SumsExact` (`queries.go` near 1050, `chart_handlers.go:1788-1795`) — one upsert
    that updates some blobs of a block and inserts others fires two triggers: the update
    trigger sums the bucket up again, the new rows included, and the insert trigger
    adds them once more. `Damaged` names the buckets.
16. `RepairHarmless` (`internal/db/fine_rollups.go:205-213`) — the repair of coarse
    buckets selects and writes in two statements outside the write lock; a block that
    commits in between is overwritten.
17. `MinIsSound` (`queries.go:948-950`) — the probe asks for the earliest fine bucket
    only; with an aborted backfill there may be a hole behind it. tiers with
    `TimeOf` <<1, 4>>.
18. `HerdSeesBlock` (`ws_poller.go:49-58`) — a computation that started before the
    caches were dropped is joined by callers after the broadcast, and stores its
    answer. `RefetchSeesBlock` excludes exactly those.
19. `TotalsNeverDrift` (`000004_write_path_costs.up.sql:102`: "exact for
    blob_count/total_cost_wei even when a row's from_address changes") — one upsert that
    overwrites a row of an attributed sender by another's and inserts a row of the same
    sender at a further index: the update trigger recounts the sender from the raw rows
    (`000016_fee_only_update_triggers.up.sql:102-103`, `126-127`), the inserted row
    included, and the insert trigger (`000001_init.up.sql:498-520`) adds it again.
    Block <<1>> overwritten by <<2, 1>>, sender 1 attributed, gives sender 1 two blobs
    instead of one in `blob_user_stats`; the shares of the leaderboard of all time then
    add up to more than the network. tiers as it is. It lasts until the sender is
    recounted for another reason.

## 7. Abstractions, and what is not modelled

In BlockIndexer:

* the node announces one header at a time and only the latest is kept: the
  follower may miss one, as a resubscription does;
* the numbers a sender is blocked on count as in flight for the walker only;
* time: the retry clock of a failed block, the ticker of the scanner and
  `nextCompletionCheck` are left to the scheduler; `predecessorWait` may expire at
  any moment unless `SlowPredecessors` is FALSE;
* `Rewind` is one action: the code stores `lastIndexed` before the commit
  (`indexer.go:1981`, `1993`) and bumps the epoch after it (`2000`), all under
  `dbWriteMu`. The inserts, deletes and the clear of the marker compare the epoch under
  the same lock; an attempt that begins or the
  scanner's sample, outside it, can only see the older epoch, and is refused later.
  `lastIndexed` is compared outside it by the follower, which then sends a number once more,
  and by a worker that raises it: what is raised between the store and the commit is as
  if raised after the rewind, but that the rewind may overwrite its record, like a
  metadata write that failed;
* an empty `StartBlock` (`indexer.go:888-895`), with which the indexer goes on from the
  stored watermark or from 0: the same as `StartBlock` 0 once a watermark is there;
* a failed `updateBackfillStatus` is only logged by the code, so a crash after one
  may lose the resume cursor: `CrashRecoverable` is checked without faults, and
  proved with all of them but this one;
* the context cancelled at `Stop`: a crash subsumes it.

In PendingPool: `cleanupLegacyPendingBlobs`; the transactions of a block are one.

In CandidateSnapshot: fees and blob space as reasons, the builder's label and
payload columns; a block is fetched and stored in one action, `BlockIndexer` has
the fence between the two. The statements of one tick of the maintenance loop fall into
one slot: the loop is short against a slot, and a tick that lasts longer only moves the
sweep and the prunes to a time at which they take less.

In ReindexRequests: pods of one version share their identity, as in the code; the
walker and the rewinds of the same process, whose ranges lie elsewhere.

In HistoryWalks: the epoch is sampled after the listing, so that a builder row may
be written for a height that was just deleted, and the live upsert overwrites it;
the fee walk checks neither hash nor epoch, as in the code. Left out: the migration
of the streak table between the bounds and the claim, two pods that share a
watermark, pods of an older release, and the relabelling of builders when the
registry changes. An unreadable fee watermark makes the walk begin anew.

In ChartRollups and ChartReads: medians, percentiles and records; attribution is
fixed; one indexer writes; the timestamp of a height is fixed, so that a sibling falls into
the bucket of the block it replaces; rolling windows have the lengths the dashboards
ask for, not any length a caller may give; `ChartRequests` has the range `all` for
every chart, while `GetBlobMarketChart` refuses it (`chart_handlers.go:336-339`), which asks more
of the model than of the code.

In ApiCache: the copies of browsers and of the edge; the five-minute cache of
`chainConfigForNetwork`; the second lookup under the lock is merged into `Hit`.
That the pressure answer's base fee is dropped only by the pool is in the
model. A second attempt of `GetBlockByNumber` is counted as made, whether or not it is. The
list of networks and the health probes ask nothing of the data modelled.

In WsPoller: the events of stats and users, which tell of no block; the second attempt at
the builder's row and the first are one query that may fail.

Not modelled:

* the API rate limiter: a bounded map of library buckets under one mutex;
* the Ethereum client's backoff and resubscription: calls are delayed, none is
  lost; a failed call is a fault of each model that makes one;
* the blob schedule: idempotent upserts of forks that change once in months;
* migrations and dirty-schema recovery: one process under an advisory lock, one
  decision from the schema version;
* routing, formatting and headers, MCP, attribution, configuration, bootstrap:
  read-only SQL, static tables and wiring.

## 8. Plan

Done: all modules of section 2, their runs and proofs.

Next, in order of what depends on the order of events most:

1. Proofs of what `NothingLostSilently` rests on (what is deleted and has no row is
   claimed, queued or in a worker).
2. `RateLimiter` and `RpcBackoff`: buckets and their eviction at the cap; the shared
   429 deadline with concurrent answers.
3. `BlobSchedule`: learned forks and their withdrawal.
4. `planDirtyRecovery` as a pure operator checked against a reference definition.
