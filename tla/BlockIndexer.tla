---------------------------- MODULE BlockIndexer ----------------------------
(***************************************************************************)
(* The block indexing core of one network: internal/indexer/indexer.go.    *)
(*                                                                         *)
(* A pool of workers takes block numbers from one channel, fetches each    *)
(* block from the node, checks its parent hash against the stored one, and *)
(* commits it.  The numbers come from the polling walker, the WebSocket    *)
(* head follower and the gap scanner.  The node may switch branch at any   *)
(* time; a parent mismatch rewinds the store to the fork point, bumps the  *)
(* epoch that fences fetches in flight, persists a recovery marker and     *)
(* signals the walker.  The process may crash between any two steps.       *)
(*                                                                         *)
(* One action is one stretch of code between two points where another      *)
(* goroutine, the node or the database can intervene.  A section under     *)
(* dbWriteMu that ends in a commit is one action.                          *)
(***************************************************************************)
EXTENDS Integers, Sequences, FiniteSets, FiniteSetsExt, Functions

CONSTANTS
  MaxHeight,            \* bound: highest block the node ever has
  FirstHead,            \* the node's head when the process first starts
  Branches,             \* the branches the node can follow
  ForkAt,               \* ForkAt[b]: the first height branch b owns
  Trunk,                \* the hash of every block below a branch's ForkAt
  NoRow,                \* no row in indexed_blocks, no fetched block
  Workers,              \* block processing workers
  LatestStart,          \* start_block: LATEST (TRUE) or a number (FALSE)
  StartBlock,           \* the number, when LatestStart is FALSE
  StartOffset,          \* k of start_block: LATEST-k, when LatestStart is TRUE
  BatchSize,            \* indexer.batch_size
  QueueCap,             \* capacity of blockTaskCh
  MaxBlockRetries,      \* indexer.max_block_retries
  MaxReorgDepth,        \* indexer.max_reorg_depth
  StartupGapScanBlocks, \* indexer.startup_gap_scan_blocks
  PredecessorSpan,      \* candidateSnapshotPredecessors; 0: no block is live
  Websocket,            \* the head subscription is up
  SlowPredecessors,     \* a block a worker holds may outlast predecessorWait
  HeadMayDrop,          \* the adopted branch may be shorter than the old one
  MaxSwitches,          \* bound: branch switches of the node
  MaxCrashes,           \* bound: crashes of the process
  MaxFaults             \* bound: failed database or RPC calls

ASSUME SizesAssumption ==
  /\ MaxHeight \in Nat \ {0}
  /\ StartBlock \in 0..MaxHeight /\ FirstHead \in 1..MaxHeight
  /\ BatchSize \in Nat \ {0}
  /\ {StartOffset, QueueCap, MaxBlockRetries, MaxReorgDepth, StartupGapScanBlocks,
      PredecessorSpan, MaxSwitches, MaxCrashes, MaxFaults} \subseteq Nat
  /\ {LatestStart, Websocket, SlowPredecessors, HeadMayDrop} \subseteq BOOLEAN

ASSUME HashAssumption ==
  /\ ForkAt \in [Branches -> Nat \ {0}]
  /\ Trunk \notin Branches
  /\ NoRow \notin Branches \cup {Trunk}

VARIABLES
  \* the node, the header its subscription delivers and the one being queued
  branch, head, header, following, switches,
  \* the database
  indexed, watermark, marker, backfill,
  \* the process
  running, lastIndexed, epoch, signaled, reset, queue, failed,
  walker, worker, scanner,
  \* budgets
  crashes, faults,
  \* observation: the heights whose row a rewind deleted and nobody re-inserted
  owed

nodeVars == <<branch, head, header, following, switches>>
storeVars == <<indexed, watermark, marker, backfill, owed>>
signalVars == <<lastIndexed, epoch, signaled, reset>>
taskVars == <<queue, failed>>
budgetVars == <<running, crashes, faults>>
vars == <<nodeVars, storeVars, signalVars, taskVars, budgetVars,
          walker, worker, scanner>>

Heights == 0..MaxHeight
Hashes == Branches \cup {Trunk}

\* The hash of block h of branch b; a block carries its parent's hash, which
\* is HashAt(b, h - 1).
HashAt(b, h) == IF h < ForkAt[b] THEN Trunk ELSE b

\* The heights between the lowest and the highest of S.
Hull(S) == {h \in Heights : \E a, b \in S : a <= h /\ h <= b}

Rows == {h \in Heights : indexed[h] # NoRow}
Covered(from, through) == from..through \subseteq Rows
\* GetFirstUnindexedBlock: the first gap of the range, or one past its end.
FirstUnindexed(from, through) == Min(((from..through) \ Rows) \cup {through + 1})

Queued == Range(queue)
\* stale only observes: a rewind committed since the block was fetched.
Idle == [pc |-> "idle", height |-> 0, on |-> NoRow, stale |-> FALSE,
         epoch |-> 0, fork |-> 0, attempt |-> 0]
Held == {worker[w].height : w \in {v \in Workers : worker[v].pc # "idle"}}
\* The keys of the inFlight map: queued, being sent, or with a worker.
InFlight ==
  Queued \cup Held \cup ({following} \ {0}) \cup (IF walker.todo = {} THEN {} ELSE {Min(walker.todo)})

StoppedWalker == [pc |-> "tick", cur |-> 0, todo |-> {},
                  phase |-> FALSE, start |-> 0, latest |-> 0, base |-> 0]
StoppedScanner == [pc |-> "idle", todo |-> {}, epoch |-> 0, range |-> {}]

Init ==
  /\ branch \in Branches /\ head = FirstHead /\ header = 0 /\ following = 0 /\ switches = 0
  /\ indexed = [h \in Heights |-> NoRow] /\ watermark = 0 /\ marker = {}
  /\ backfill = [active |-> FALSE, cursor |-> 0]
  /\ running = FALSE /\ lastIndexed = 0 /\ epoch = 0 /\ signaled = FALSE /\ reset = {}
  /\ queue = <<>> /\ failed = {}
  /\ walker = StoppedWalker /\ scanner = StoppedScanner
  /\ worker = [w \in Workers |-> Idle]
  /\ crashes = 0 /\ faults = 0
  /\ owed = {}
-----------------------------------------------------------------------------
(* The node.                                                                *)

\* A block is added to the branch the node follows.
NewHead ==
  /\ head < MaxHeight
  /\ head' = head + 1 /\ header' = head + 1
  /\ UNCHANGED <<branch, following, switches, storeVars, signalVars, taskVars, budgetVars,
                 walker, worker, scanner>>

\* The node adopts another branch, no higher than the old one; blocks follow
\* it, so the switch never ends at MaxHeight.
SwitchBranch ==
  /\ switches < MaxSwitches
  /\ \E b \in Branches \ {branch}, n \in {head} \cup (IF HeadMayDrop THEN {head - 1} ELSE {}) :
       /\ 0 < n /\ n < MaxHeight
       /\ branch' = b /\ head' = n /\ header' = n
  /\ switches' = switches + 1
  /\ UNCHANGED <<following, storeVars, signalVars, taskVars, budgetVars, walker, worker, scanner>>
-----------------------------------------------------------------------------
(* Start and crash.                                                         *)

\* resolveConfiguredStartBlock: the head is asked for at every start.
ConfiguredStart ==
  IF LatestStart THEN (IF StartOffset > head THEN 0 ELSE head - StartOffset) ELSE StartBlock

\* determineStartBlock with backfillResumeBlock.
ResumeBlock ==
  IF watermark = 0 THEN ConfiguredStart
  ELSE IF backfill.active
         THEN IF backfill.cursor < ConfiguredStart
                THEN ConfiguredStart
                ELSE FirstUnindexed(ConfiguredStart, backfill.cursor)
         ELSE Max({watermark + 1, ConfiguredStart})

\* seedStartupGapRecovery: gaps in the window below the watermark, not below
\* the configured start, or the earliest row when the start is LATEST.
StartupGaps ==
  {h \in Heights \ Rows :
     /\ h <= watermark /\ watermark < h + StartupGapScanBlocks
     /\ IF LatestStart THEN \E r \in Rows : r <= h ELSE StartBlock <= h}

\* Start.  Both recovery scans are best effort: a failed read skips them.
StartIndexer ==
  /\ ~running /\ running' = TRUE
  /\ lastIndexed' = watermark /\ epoch' = 0
  /\ walker' = [StoppedWalker EXCEPT !.cur = ResumeBlock, !.base = ResumeBlock]
  /\ \E gapsRead, markerRead \in BOOLEAN :
       /\ faults' = faults + (IF gapsRead /\ markerRead THEN 0 ELSE 1)
       /\ faults' <= MaxFaults
       /\ failed' = IF gapsRead /\ 0 < watermark /\ watermark < ResumeBlock
                      THEN StartupGaps ELSE {}
       /\ reset' = IF markerRead THEN marker ELSE {}
       /\ signaled' = (markerRead /\ marker # {})
  /\ UNCHANGED <<nodeVars, storeVars, queue, worker, scanner, crashes>>

\* The process dies: what is not in the database is gone.
Crash ==
  /\ running /\ crashes < MaxCrashes
  /\ running' = FALSE /\ crashes' = crashes + 1
  /\ lastIndexed' = 0 /\ epoch' = 0 /\ signaled' = FALSE /\ reset' = {}
  /\ queue' = <<>> /\ failed' = {}
  /\ walker' = StoppedWalker /\ scanner' = StoppedScanner
  /\ worker' = [w \in Workers |-> Idle] /\ following' = 0
  /\ UNCHANGED <<branch, head, header, switches, storeVars, faults>>
-----------------------------------------------------------------------------
(* The head follower: handleNewBlockSubscription.                           *)

\* A header goes on only when it is above the in-memory watermark.
FollowHead ==
  /\ running /\ Websocket /\ header # 0 /\ following = 0
  /\ following' = IF lastIndexed < header THEN header ELSE 0
  /\ header' = 0
  /\ UNCHANGED <<branch, head, switches, storeVars, signalVars, taskVars, budgetVars,
                 walker, worker, scanner>>

\* enqueueBlock: the send waits for room, whatever happens to the watermark.
SendHead ==
  /\ running /\ Websocket /\ following # 0 /\ Len(queue) < QueueCap
  /\ queue' = Append(queue, following) /\ following' = 0
  /\ UNCHANGED <<branch, head, header, switches, storeVars, signalVars, failed, budgetVars,
                 walker, worker, scanner>>
-----------------------------------------------------------------------------
(* The walker: runBlockIndexer.  todo holds the numbers of the batch (or of *)
(* the reorg range) it still has to send; the code sends them in order.     *)

\* A reorg signal at or below the walker's position rewinds it; one above it
\* is re-queued directly.
ConsumeReorgReset ==
  /\ running /\ walker.pc = "tick" /\ reset # {}
  /\ reset' = {}
  /\ walker' = IF Min(reset) <= walker.cur
                 THEN [walker EXCEPT !.pc = "poll", !.cur = Min(reset)]
                 ELSE [walker EXCEPT !.pc = "requeue", !.todo = reset]
  /\ UNCHANGED <<nodeVars, storeVars, lastIndexed, epoch, signaled, taskVars, budgetVars,
                 worker, scanner>>

\* A metadata write of the walker; a failed one is only logged.
WriteBackfill(state) ==
  \/ backfill' = state /\ UNCHANGED faults
  \/ faults < MaxFaults /\ faults' = faults + 1 /\ UNCHANGED backfill

\* The walker reads the node's head; below it, it records the phase and its
\* cursor and starts a batch.
StartBatch ==
  /\ running /\ walker.cur <= head
  /\ walker.pc = "poll" \/ (walker.pc = "tick" /\ reset = {})
  /\ LET end == Min({walker.cur + BatchSize - 1, head})
     IN /\ WriteBackfill([active |-> TRUE, cursor |-> end])
        /\ walker' = [walker EXCEPT
             !.pc = "batch", !.cur = end + 1, !.todo = walker.cur..end, !.phase = TRUE,
             !.start = IF walker.phase THEN walker.start ELSE walker.cur]
  /\ UNCHANGED <<nodeVars, indexed, watermark, marker, owed, signalVars, taskVars,
                 running, crashes, worker, scanner>>

\* blockTaskCh <- BlockTask: the send waits for room.  After a re-queue the
\* walker goes on to poll, after a batch it waits for the next tick.
SendTask ==
  /\ running /\ walker.pc \in {"batch", "requeue"} /\ Len(queue) < QueueCap
  /\ LET rest == walker.todo \ {Min(walker.todo)}
         done == IF walker.pc = "batch" THEN "tick" ELSE "poll"
     IN walker' = [walker EXCEPT !.todo = rest, !.pc = IF rest = {} THEN done ELSE @]
  /\ queue' = Append(queue, Min(walker.todo))
  /\ UNCHANGED <<nodeVars, storeVars, signalVars, failed, budgetVars, worker, scanner>>

\* Mutant: the phase ends as soon as the last block is handed out.
CheckBackfillCoverageSkipped ==
  /\ running /\ head < walker.cur
  /\ walker.pc = "poll" \/ (walker.pc = "tick" /\ reset = {} /\ walker.phase)
  /\ walker' = IF walker.phase THEN [walker EXCEPT !.pc = "settle", !.latest = head]
                ELSE [walker EXCEPT !.pc = "tick"]
  /\ UNCHANGED <<nodeVars, storeVars, signalVars, taskVars, budgetVars, worker, scanner>>

\* Caught up: the phase is over only once its whole range is indexed.
CheckBackfillCoverage ==
  /\ running /\ head < walker.cur
  /\ walker.pc = "poll" \/ (walker.pc = "tick" /\ reset = {} /\ walker.phase)
  /\ walker' = IF walker.phase /\ Covered(walker.start, head)
                 THEN [walker EXCEPT !.pc = "settle", !.latest = head]
                 ELSE [walker EXCEPT !.pc = "tick"]
  /\ UNCHANGED <<nodeVars, storeVars, signalVars, taskVars, budgetVars, worker, scanner>>

\* The write that ends the phase, a statement of its own after the read.
SettleBackfill ==
  /\ running /\ walker.pc = "settle"
  /\ WriteBackfill([active |-> FALSE, cursor |-> walker.latest])
  /\ walker' = [walker EXCEPT !.pc = "tick", !.phase = FALSE, !.start = 0, !.latest = 0]
  /\ UNCHANGED <<nodeVars, indexed, watermark, marker, owed, signalVars, taskVars,
                 running, crashes, worker, scanner>>
\* The read of the node's head fails: the tick is over, its signal consumed.
WalkerFault ==
  /\ running /\ walker.pc = "poll" /\ faults < MaxFaults
  /\ faults' = faults + 1
  /\ walker' = [walker EXCEPT !.pc = "tick"]
  /\ UNCHANGED <<nodeVars, storeVars, signalVars, taskVars, running, crashes, worker, scanner>>
-----------------------------------------------------------------------------
(* The workers: blockProcessingWorker, processBlock, checkForReorg,         *)
(* handleReorg, insertBlockData, updateLastIndexedBlock.                    *)

At(w, pc) == running /\ worker[w].pc = pc

\* Mutant: a block out of retries is dropped.
GiveUpOrRetryDropped(w) ==
  worker' = [worker EXCEPT ![w] = Idle] /\ UNCHANGED failed

\* The block is left to the gap scanner.
GiveUp(w) ==
  /\ worker' = [worker EXCEPT ![w] = Idle]
  /\ failed' = failed \cup {worker[w].height}

\* An attempt failed: try again after a back-off while retries are left.
GiveUpOrRetry(w) ==
  IF worker[w].attempt < MaxBlockRetries
    THEN /\ worker' = [worker EXCEPT ![w] = [Idle EXCEPT !.pc = "backoff",
               !.height = worker[w].height, !.attempt = worker[w].attempt + 1]]
         /\ UNCHANGED failed
    ELSE GiveUp(w)

\* A worker takes a number from the channel and samples the epoch.
TakeTask(w) ==
  /\ At(w, "idle") /\ queue # <<>>
  /\ worker' = [worker EXCEPT ![w] =
       [Idle EXCEPT !.pc = "sampled", !.height = Head(queue), !.epoch = epoch]]
  /\ queue' = Tail(queue)
  /\ UNCHANGED <<nodeVars, storeVars, signalVars, failed, budgetVars, walker, scanner>>

\* The back-off is over: the new attempt samples the epoch again.
Retry(w) ==
  /\ At(w, "backoff")
  /\ worker' = [worker EXCEPT ![w] = [Idle EXCEPT !.pc = "sampled",
       !.height = worker[w].height, !.epoch = epoch, !.attempt = worker[w].attempt]]
  /\ UNCHANGED <<nodeVars, storeVars, signalVars, taskVars, budgetVars, walker, scanner>>

\* GetBlockByNumber: the block of the branch the node follows now, or an
\* error above its head.  Only a live block waits for its predecessors.
Fetch(w) ==
  /\ At(w, "sampled")
  /\ IF worker[w].height <= head
       THEN /\ worker' = [worker EXCEPT ![w].on = branch,
                    ![w].pc = IF PredecessorSpan = 0 THEN "ready" ELSE "fetched"]
            /\ UNCHANGED failed
       ELSE GiveUpOrRetry(w)
  /\ UNCHANGED <<nodeVars, storeVars, signalVars, queue, budgetVars, walker, scanner>>

\* awaitPredecessors: wait for the blocks in flight just below, at most
\* predecessorWait.  Unless SlowPredecessors, the wait outlasts any block a
\* worker holds and only ends early when those left are still in the channel.
AwaitPredecessors(w) ==
  /\ At(w, "fetched")
  /\ LET below == (worker[w].height - PredecessorSpan)..(worker[w].height - 1)
     IN \/ below \cap InFlight = {}
        \/ SlowPredecessors
        \/ below \cap Held = {}
  /\ worker' = [worker EXCEPT ![w].pc = "ready"]
  /\ UNCHANGED <<nodeVars, storeVars, signalVars, taskVars, budgetVars, walker, scanner>>

\* The fork scan stops at block 0 and after MaxReorgDepth blocks.
ScanOver(from, fork) == fork = 0 \/ from - 1 - fork >= MaxReorgDepth

\* Mutant: a parent hash that differs is not a reorg.
CheckForReorgBlind(w) ==
  /\ At(w, "ready")
  /\ worker' = [worker EXCEPT ![w].pc = "checked"]
  /\ UNCHANGED <<nodeVars, storeVars, signalVars, taskVars, budgetVars, walker, scanner>>

\* checkForReorg: a missing parent row lets the block through unchecked.
CheckForReorg(w) ==
  LET h == worker[w].height
      parent == IF h = 0 THEN NoRow ELSE indexed[h - 1]
  IN /\ At(w, "ready")
     /\ worker' =
          IF parent \in {NoRow, HashAt(worker[w].on, h - 1)}
            THEN [worker EXCEPT ![w].pc = "checked"]
            ELSE [worker EXCEPT ![w].fork = h - 1,
                    ![w].pc = IF ScanOver(h, h - 1) THEN "rewind" ELSE "scan"]
     /\ UNCHANGED <<nodeVars, storeVars, signalVars, taskVars, budgetVars, walker, scanner>>

\* One round of handleReorg's walk back: the node's block at the candidate
\* against the stored hash, outside dbWriteMu.
ScanForFork(w) ==
  LET f == worker[w].fork
  IN /\ At(w, "scan")
     /\ IF head < f
          THEN GiveUpOrRetry(w)
          ELSE /\ worker' =
                    IF indexed[f] \in {NoRow, HashAt(branch, f)}
                      THEN [worker EXCEPT ![w].pc = "rewind"]
                      ELSE [worker EXCEPT ![w].fork = f - 1,
                              ![w].pc = IF ScanOver(worker[w].height, f - 1)
                                          THEN "rewind" ELSE "scan"]
               /\ UNCHANGED failed
     /\ UNCHANGED <<nodeVars, storeVars, signalVars, queue, budgetVars, walker, scanner>>

\* What a rewind to fork invalidates: up to the highest row, and at least the
\* block that exposed it.
Invalidated(fork, from) == (fork + 1)..Max(Rows \cup {fork, from})

\* signalReorgReset: a signal not consumed yet is widened.
Raise(range) == IF reset = {} THEN range ELSE Hull(reset \cup range)

\* Mutant: the walker is not told.
RewindUnsignaled(w) ==
  LET fork == worker[w].fork
      merged == Hull(marker \cup Invalidated(fork, worker[w].height))
  IN /\ At(w, "rewind")
     /\ indexed' = [h \in Heights |-> IF fork < h THEN NoRow ELSE indexed[h]]
     /\ owed' = owed \cup {h \in Rows : fork < h}
     /\ marker' = merged /\ watermark' = fork /\ lastIndexed' = fork
     /\ epoch' = epoch + 1 /\ signaled' = TRUE
     /\ worker' = [worker EXCEPT ![w] = Idle]
     /\ UNCHANGED <<nodeVars, backfill, reset, taskVars, budgetVars, walker, scanner>>

\* handleReorg's transaction and what follows it under dbWriteMu.  The first
\* signal of the process covers the whole marker.
Rewind(w) ==
  LET fork == worker[w].fork
      range == Invalidated(fork, worker[w].height)
      merged == Hull(marker \cup range)
  IN /\ At(w, "rewind")
     /\ indexed' = [h \in Heights |-> IF fork < h THEN NoRow ELSE indexed[h]]
     /\ owed' = owed \cup {h \in Rows : fork < h}
     /\ marker' = merged
     /\ watermark' = fork /\ lastIndexed' = fork
     /\ epoch' = epoch + 1
     /\ reset' = Raise(IF signaled THEN range ELSE merged)
     /\ signaled' = TRUE
     /\ worker' = [v \in Workers |-> IF v = w THEN Idle
                     ELSE [worker[v] EXCEPT !.stale = (worker[v].on # NoRow)]]
     /\ UNCHANGED <<nodeVars, backfill, taskVars, budgetVars, walker, scanner>>

\* Mutant: the block is committed whatever the epoch.
InsertBlockDataUnfenced(w) ==
  LET h == worker[w].height
  IN /\ At(w, "checked")
     /\ indexed' = [indexed EXCEPT ![h] = HashAt(worker[w].on, h)]
     /\ owed' = owed \ {h}
     /\ worker' = [worker EXCEPT ![w].pc = "committed"]
     /\ UNCHANGED <<nodeVars, watermark, marker, backfill, signalVars, taskVars, budgetVars,
                    walker, scanner>>

\* insertBlockData: refused when a rewind committed since the epoch was read.
InsertBlockData(w) ==
  LET h == worker[w].height
  IN /\ At(w, "checked")
     /\ IF worker[w].epoch = epoch
          THEN /\ indexed' = [indexed EXCEPT ![h] = HashAt(worker[w].on, h)]
               /\ owed' = owed \ {h}
               /\ worker' = [worker EXCEPT ![w].pc = "committed"]
               /\ UNCHANGED failed
          ELSE GiveUpOrRetry(w) /\ UNCHANGED <<indexed, owed>>
     /\ UNCHANGED <<nodeVars, watermark, marker, backfill, signalVars, queue, budgetVars,
                    walker, scanner>>

\* The block is no longer failed; the in-memory watermark is raised to it.
RaiseWatermark(w) ==
  LET h == worker[w].height
  IN /\ At(w, "committed")
     /\ failed' = failed \ {h}
     /\ IF lastIndexed < h
          THEN lastIndexed' = h /\ worker' = [worker EXCEPT ![w].pc = "raised"]
          ELSE worker' = [worker EXCEPT ![w] = Idle] /\ UNCHANGED lastIndexed
     /\ UNCHANGED <<nodeVars, storeVars, epoch, signaled, reset, queue, budgetVars,
                    walker, scanner>>

\* The watermark is persisted only if it is still the value just raised; a
\* failed write is only logged.
PersistWatermark(w) ==
  /\ At(w, "raised")
  /\ \/ lastIndexed = worker[w].height /\ watermark' = lastIndexed /\ UNCHANGED faults
     \/ lastIndexed = worker[w].height /\ UNCHANGED watermark
        /\ faults < MaxFaults /\ faults' = faults + 1
     \/ lastIndexed # worker[w].height /\ UNCHANGED <<watermark, faults>>
  /\ worker' = [worker EXCEPT ![w] = Idle]
  /\ UNCHANGED <<nodeVars, indexed, marker, backfill, owed, signalVars, taskVars, running,
                 crashes, walker, scanner>>

\* A database or RPC call of the attempt fails, or the attempt panics, which is
\* not retried.  A rewind that fails late has already lowered the in-memory
\* watermark.
WorkerFault(w) ==
  /\ running /\ faults < MaxFaults
  /\ worker[w].pc \in {"sampled", "ready", "scan", "rewind", "checked"}
  /\ faults' = faults + 1
  /\ GiveUpOrRetry(w) \/ GiveUp(w)
  /\ lastIndexed' \in {lastIndexed} \cup
       (IF worker[w].pc = "rewind" THEN {worker[w].fork} ELSE {})
  /\ UNCHANGED <<nodeVars, storeVars, epoch, signaled, reset, queue, running, crashes,
                 walker, scanner>>
-----------------------------------------------------------------------------
(* The gap scanner: retryFailedBlocks, completeReorgRecoveryIfCovered.      *)

\* A scan copies the failed blocks; past its retry budget a block waits
\* longer, and is still retried.
StartScan ==
  /\ running /\ scanner.pc = "idle" /\ (failed # {} \/ marker # {})
  /\ scanner' = [scanner EXCEPT !.pc = "retry", !.todo = failed]
  /\ UNCHANGED <<nodeVars, storeVars, signalVars, taskVars, budgetVars, walker, worker>>

\* The copy is re-queued in no particular order.
RetryFailedBlock ==
  /\ running /\ scanner.pc = "retry" /\ Len(queue) < QueueCap
  /\ \E h \in scanner.todo :
       /\ queue' = Append(queue, h)
       /\ scanner' = [scanner EXCEPT !.todo = @ \ {h}]
  /\ UNCHANGED <<nodeVars, storeVars, signalVars, failed, budgetVars, walker, worker>>

\* Mutant: the epoch is sampled only once in the life of the process.
SampleEpochOnce ==
  /\ running /\ scanner.pc = "retry" /\ scanner.todo = {}
  /\ scanner' = [scanner EXCEPT !.pc = "marker", !.epoch = 0]
  /\ UNCHANGED <<nodeVars, storeVars, signalVars, taskVars, budgetVars, walker, worker>>

\* The epoch is sampled before the marker is read.
SampleEpoch ==
  /\ running /\ scanner.pc = "retry" /\ scanner.todo = {}
  /\ scanner' = [scanner EXCEPT !.pc = "marker", !.epoch = epoch]
  /\ UNCHANGED <<nodeVars, storeVars, signalVars, taskVars, budgetVars, walker, worker>>

ReadMarker ==
  /\ running /\ scanner.pc = "marker"
  /\ scanner' = IF marker = {} THEN StoppedScanner
                ELSE [scanner EXCEPT !.pc = "coverage", !.range = marker]
  /\ UNCHANGED <<nodeVars, storeVars, signalVars, taskVars, budgetVars, walker, worker>>

\* The coverage scan runs outside dbWriteMu.  A gap in a marker this process
\* never signaled raises the signal once.
CheckMarkerCoverage ==
  /\ running /\ scanner.pc = "coverage"
  /\ LET gap == ~(scanner.range \subseteq Rows)
     IN /\ scanner' = IF gap THEN StoppedScanner ELSE [scanner EXCEPT !.pc = "clear"]
        /\ signaled' = (signaled \/ gap)
        /\ reset' = IF gap /\ ~signaled THEN Raise(scanner.range) ELSE reset
  /\ UNCHANGED <<nodeVars, storeVars, lastIndexed, epoch, taskVars, budgetVars, walker, worker>>

\* Mutant: the marker goes although a rewind committed meanwhile.
ClearMarkerUnfenced ==
  /\ running /\ scanner.pc = "clear"
  /\ marker' = {} /\ scanner' = StoppedScanner
  /\ UNCHANGED <<nodeVars, indexed, watermark, backfill, owed, signalVars, taskVars, budgetVars,
                 walker, worker>>

\* Under dbWriteMu: the marker goes only if no rewind committed meanwhile.
ClearMarker ==
  /\ running /\ scanner.pc = "clear"
  /\ marker' = IF scanner.epoch = epoch THEN {} ELSE marker
  /\ scanner' = StoppedScanner
  /\ UNCHANGED <<nodeVars, indexed, watermark, backfill, owed, signalVars, taskVars, budgetVars,
                 walker, worker>>

\* The marker or its coverage cannot be read, or the delete fails: the marker
\* stays and the next scan tries again.
ScannerFault ==
  /\ running /\ scanner.pc \in {"marker", "coverage", "clear"} /\ faults < MaxFaults
  /\ faults' = faults + 1
  /\ scanner' = StoppedScanner
  /\ UNCHANGED <<nodeVars, storeVars, signalVars, taskVars, running, crashes, walker, worker>>
-----------------------------------------------------------------------------
NodeNext == NewHead \/ SwitchBranch
WalkerNext ==
  \/ ConsumeReorgReset \/ StartBatch \/ SendTask
  \/ CheckBackfillCoverage \/ SettleBackfill
WorkerNext(w) ==
  \/ TakeTask(w) \/ Retry(w) \/ Fetch(w) \/ AwaitPredecessors(w) \/ CheckForReorg(w)
  \/ ScanForFork(w) \/ Rewind(w) \/ InsertBlockData(w)
  \/ RaiseWatermark(w) \/ PersistWatermark(w)
ScannerNext ==
  \/ StartScan \/ RetryFailedBlock \/ SampleEpoch
  \/ ReadMarker \/ CheckMarkerCoverage \/ ClearMarker

Next ==
  \/ NodeNext \/ StartIndexer \/ Crash \/ FollowHead \/ SendHead \/ WalkerNext \/ ScannerNext
  \/ WalkerFault \/ ScannerFault
  \/ \E w \in Workers : WorkerNext(w) \/ WorkerFault(w)

Spec == Init /\ [][Next]_vars

\* The goroutines keep running while the process does, and the node keeps
\* adding blocks.  Branch switches, crashes and faults owe nothing.
Fairness ==
  /\ WF_vars(NewHead) /\ WF_vars(StartIndexer) /\ WF_vars(FollowHead)
  /\ SF_vars(SendHead) /\ SF_vars(SendTask) /\ SF_vars(RetryFailedBlock)
  /\ WF_vars(WalkerNext) /\ WF_vars(ScannerNext)
  /\ \A w \in Workers : SF_vars(TakeTask(w)) /\ WF_vars(WorkerNext(w))
FairSpec == Spec /\ Fairness
-----------------------------------------------------------------------------
(* Properties.                                                              *)

WorkerPcs == {"idle", "backoff", "sampled", "fetched", "ready", "scan", "rewind",
              "checked", "committed", "raised"}

WalkerType ==
  [pc : {"tick", "poll", "batch", "requeue", "settle"}, cur : 0..(MaxHeight + 1),
   todo : SUBSET Heights, phase : BOOLEAN, start : Heights, latest : Heights,
   base : 0..(MaxHeight + 1)]
WorkerType ==
  [pc : WorkerPcs, height : Heights, on : Branches \cup {NoRow}, stale : BOOLEAN,
   epoch : Nat, fork : Heights, attempt : 0..MaxBlockRetries]
ScannerType ==
  [pc : {"idle", "retry", "marker", "coverage", "clear"}, todo : SUBSET Heights,
   epoch : Nat, range : SUBSET Heights]

NodeTypes ==
  /\ branch \in Branches /\ head \in Heights \ {0} /\ header \in Heights /\ following \in Heights
  /\ switches \in 0..MaxSwitches
StoreTypes ==
  /\ indexed \in [Heights -> Hashes \cup {NoRow}] /\ watermark \in Heights
  /\ marker \in SUBSET Heights /\ owed \in SUBSET Heights
  /\ backfill \in [active : BOOLEAN, cursor : Heights]
SignalTypes ==
  /\ lastIndexed \in Heights /\ epoch \in Nat
  /\ signaled \in BOOLEAN /\ reset \in SUBSET Heights
TaskTypes == queue \in Seq(Heights) /\ Len(queue) <= QueueCap /\ failed \in SUBSET Heights
BudgetTypes == running \in BOOLEAN /\ crashes \in 0..MaxCrashes /\ faults \in 0..MaxFaults

\* The type of every variable; the channel never holds more than its capacity.
TypeOK ==
  /\ NodeTypes /\ StoreTypes /\ SignalTypes /\ TaskTypes /\ BudgetTypes
  /\ walker \in WalkerType /\ worker \in [Workers -> WorkerType] /\ scanner \in ScannerType

\* The recovery marker outlives every hole a rewind opened: a deleted row that
\* nobody has re-inserted lies in the persisted range, although the coverage
\* scan that clears the marker runs outside dbWriteMu.
MarkerCoversOwed == owed \subseteq marker

\* Somebody in the process still has to deliver h.
Owned(h) ==
  \/ h \in Queued \cup failed \cup reset \cup walker.todo
  \/ walker.cur <= h
  \/ \E w \in Workers : worker[w].height = h /\ worker[w].pc \notin {"idle", "committed", "raised"}

\* No height the walker has passed is dropped: without a row it is still on
\* its way, or the marker brings it back at the next start.
NoLostBlock ==
  running => \A h \in Heights \ Rows :
    walker.base <= h => Owned(h) \/ h \in marker

\* Not so (README 6): trackFailedBlock and the gap scanner, without a restart: a
\* height without a row is always on its way in the process that walked it.
NoLostBlockWithoutRestart ==
  running => \A h \in Heights \ Rows : walker.base <= h => Owned(h)

\* A rewind fences every fetch that preceded it: no block fetched before the
\* latest rewind is committed after it.
NoStaleInsert ==
  [][\A w \in Workers :
       worker[w].pc = "checked" /\ worker'[w].pc = "committed" => ~worker[w].stale]_vars

\* After a crash at any moment, every height from the configured start up to
\* the persisted watermark without a row is found again: by the marker, by
\* the coverage-verified resume of an active phase, or by the startup scan.
CrashRecoverable ==
  \A h \in StartBlock..watermark :
    h \in Rows \cup marker \/ backfill.active \/ watermark < h + StartupGapScanBlocks

\* The table and the marker behave as IndexStore promises, the marker being
\* its debt: no interleaving of a rewind with the scanner's clear, which checks
\* coverage outside dbWriteMu, writes off a height that is still missing.
Store == INSTANCE IndexStore WITH rows <- indexed, debt <- marker
ImplementsStore == Store!Spec

\* Ending the phase gives up its resume cursor, so every height the phase has
\* handed out must by then have a row or lie in the marker.
SettledPhaseCovered ==
  [][backfill.active /\ ~backfill'.active =>
       walker.start..(walker.cur - 1) \subseteq Rows \cup marker]_vars

\* Not so (README 6): the persisted watermark never moves to a block without row.
WatermarkIsIndexed ==
  [][watermark < watermark' => watermark' \in Rows]_vars

\* Once the node stops switching branch, a final head whose row is of its
\* branch stands on rows of its branch.  (A stale row at the head itself is
\* exposed by the next block, which the bound leaves out.)
Canonical == \A h \in StartBlock..MaxHeight : indexed[h] = HashAt(branch, h)
Convergence == <>[](indexed[MaxHeight] = HashAt(branch, MaxHeight) => Canonical)

\* Every block from the configured start is indexed in the end.
Coverage == <>[](StartBlock..MaxHeight \subseteq Rows)

\* A marker does not stay for ever.
MarkerCleared == []<>(marker = {})
=============================================================================
