-------------------------- MODULE CandidateSnapshot --------------------------
(***************************************************************************)
(* Inclusion candidates of one network: internal/indexer/builders.go,      *)
(* commit_order.go and the maintenance loop of indexer.go.                 *)
(*                                                                         *)
(* A block that commits while it is recent stores, with its builder, the   *)
(* pending transactions it left behind, each with the reason why it was    *)
(* not included, and their aggregates.  That is only true of the pool the  *)
(* builder faced when every block just below has already promoted its      *)
(* transactions.  Blocks commit in any order: awaitPredecessors is a       *)
(* bounded wait and may always give up.  The maintenance loop repairs      *)
(* rows that slipped past the gate and prunes old detail; BlockIndexer has *)
(* the order of the commits, PendingPool the pending table.                *)
(*                                                                         *)
(* Time is counted in slots.  A block holds at most one blob transaction.  *)
(***************************************************************************)
EXTENDS Integers, FiniteSets, FiniteSetsExt

CONSTANTS
  Txs,            \* blob transactions
  From,           \* From[t]: the sender of t
  Nonce,          \* Nonce[t]: the nonce of t
  Fee,            \* Fee[t]: what t bids
  NoTx,           \* a block without a blob transaction, a row not replaced
  NoBlock,        \* no row for a height
  Fresh,          \* nothing is indexed when the run begins
  Window,         \* candidateLivenessWindow, in slots
  MinAge,         \* indexer.candidate_min_age
  MaxLag,         \* indexer.candidate_snapshot_max_lag
  TTL,            \* indexer.mempool_ttl
  ChainDepth,     \* how far the repair follows the replacement log
  Retention,      \* indexer.candidate_retention
  LogRetention,   \* blobReplacementRetention
  MaxDelay,       \* bound: slots from a node's answer to the write it causes
  MaxCommitLag,   \* bound: slots until a block is committed, or replaced
  MaxHeight,      \* bound: highest block
  MaxSlots,       \* bound: slots
  MaxReorgs       \* bound: replaced tips

\* A row of block_builders, as far as the snapshot is concerned.
BuilderRows == [snapshot : BOOLEAN, pending : Nat, skipped : Nat]

\* A row of indexed_blocks: its blob transaction and the branch it is on.
BlockRows == [tx : Txs \cup {NoTx}, on : Nat]

ASSUME CandidateSizes ==
  /\ {Window, MinAge, MaxLag, TTL, Retention, LogRetention, ChainDepth, MaxDelay, MaxCommitLag, MaxHeight,
      MaxSlots, MaxReorgs} \subseteq Nat
  /\ IsFiniteSet(Txs) /\ NoTx \notin Txs /\ NoBlock \notin BuilderRows \cup BlockRows /\ Fresh \in BOOLEAN

VARIABLES
  \* the node; gone[t]: slots since t left the pool
  clock, chain, tip, pool, sent, gone, reorgs,
  \* mempool_blobs; age[t], unseen[t]: slots since first seen and since last_seen
  pending, age, unseen,
  \* blob_replacements, indexed_blocks with blobs, block_builders,
  \* blob_inclusion_candidates
  replaced, rows, builders, candidates,
  \* the maintenance loop: a tick under way, its repair, its next statement
  maintenance,
  \* observation: a write of the pending table came more than the one slot of
  \* jitter after the answer, or for a nonce the tables had already settled
  late

nodeVars == <<clock, chain, tip, pool, sent, gone, reorgs>>
pendingVars == <<pending, age, unseen>>
blockVars == <<rows, builders, candidates>>
vars == <<nodeVars, pendingVars, replaced, blockVars, maintenance, late>>

Heights == 0..MaxHeight
Rivals(t) ==
  IF t = NoTx THEN {} ELSE {u \in Txs \ {t} : From[u] = From[t] /\ Nonce[u] = Nonce[t]}
Settles(t) == IF t = NoTx THEN {} ELSE {t} \cup Rivals(t)
Mined == {chain[h].tx : h \in 0..tip}
Stored == {h \in Heights : rows[h] # NoBlock}
Confirmed == {rows[h].tx : h \in Stored}
Replaced == {t \in Txs : replaced[t].by # NoTx}

Genesis == [tx |-> NoTx, on |-> 0, slot |-> 0]
NotReplaced == [by |-> NoTx, age |-> 0]
NoSnapshot == [snapshot |-> FALSE, pending |-> 0, skipped |-> 0]
IdleLoop == [due |-> FALSE, repaired |-> FALSE, next |-> "sweep"]

Init ==
  /\ clock = 0 /\ chain = [h \in Heights |-> Genesis] /\ tip = 0 /\ reorgs = 0
  /\ pool = {} /\ sent = {} /\ gone = [t \in Txs |-> 0]
  /\ pending = {} /\ age = [t \in Txs |-> 0] /\ unseen = [t \in Txs |-> 0]
  /\ replaced = [t \in Txs |-> NotReplaced]
  /\ rows = [h \in Heights |-> IF h = 0 /\ ~Fresh THEN [tx |-> NoTx, on |-> 0] ELSE NoBlock]
  /\ builders = [h \in Heights |-> IF h = 0 /\ ~Fresh THEN NoSnapshot ELSE NoBlock]
  /\ candidates = {}
  /\ maintenance = IdleLoop
  /\ late = FALSE
-----------------------------------------------------------------------------
(* The node.                                                                *)

\* A transaction enters the pool, in place of a lower bid with its nonce.
Submit(t) ==
  /\ t \notin sent /\ Mined \cap Settles(t) = {}
  /\ \A u \in Rivals(t) : u \in sent => Fee[u] < Fee[t]
  /\ sent' = sent \cup {t} /\ pool' = (pool \ Rivals(t)) \cup {t}
  /\ gone' = [u \in Txs |-> IF u \in pool \cap Rivals(t) THEN 0 ELSE gone[u]]
  /\ UNCHANGED <<clock, chain, tip, reorgs, pendingVars, replaced, blockVars,
                 maintenance, late>>

Includable(mined) == {NoTx} \cup {t \in pool : mined \cap Settles(t) = {}}

\* A block in a slot of its own, with a transaction of the pool or none.
Mine ==
  /\ tip < MaxHeight /\ chain[tip].slot < clock
  /\ \E t \in Includable(Mined) :
       /\ chain' = [chain EXCEPT ![tip + 1] = [tx |-> t, on |-> reorgs, slot |-> clock]]
       /\ pool' = pool \ Settles(t)
       /\ gone' = [u \in Txs |-> IF u \in pool \cap Settles(t) THEN 0 ELSE gone[u]]
  /\ tip' = tip + 1
  /\ UNCHANGED <<clock, sent, reorgs, pendingVars, replaced, blockVars,
                 maintenance, late>>

\* The tip is soon replaced by a sibling; what only the old one held is pending
\* again.
Reorg ==
  /\ 0 < tip /\ reorgs < MaxReorgs /\ reorgs' = reorgs + 1
  /\ clock - chain[tip].slot < MaxCommitLag
  /\ LET old == chain[tip].tx
         kept == {chain[h].tx : h \in 0..(tip - 1)}
     IN \E t \in Includable(kept) \cup {old} :
          /\ chain' = [chain EXCEPT ![tip] = [tx |-> t, on |-> reorgs + 1, slot |-> chain[tip].slot]]
          /\ pool' = (pool \cup ({old} \ {NoTx})) \ Settles(t)
          /\ gone' = [u \in Txs |-> IF u \in Settles(t) \cap pool \/ u = old THEN 0 ELSE gone[u]]
  /\ UNCHANGED <<clock, tip, sent, pendingVars, replaced, blockVars, maintenance,
                 late>>

Indexed(h) == rows[h] # NoBlock /\ rows[h].on = chain[h].on
OneMore(count, bound) == IF count < bound THEN count + 1 ELSE count

\* A slot goes by, if no block is overdue, the old block 0 aside, and no tick of
\* the maintenance loop is under way: a tick is short against the retention.
Slot ==
  /\ clock < MaxSlots /\ clock' = clock + 1 /\ ~maintenance.due
  /\ \A h \in 1..tip : Indexed(h) \/ clock - chain[h].slot < MaxCommitLag
  /\ gone' = [t \in Txs |-> IF t \in sent \ pool THEN OneMore(gone[t], MaxDelay + 1) ELSE 0]
  /\ unseen' = [t \in Txs |-> IF t \in pending THEN OneMore(unseen[t], TTL + 1) ELSE 0]
  /\ age' = [t \in Txs |-> IF t \in pending THEN OneMore(age[t], MinAge + MaxLag) ELSE 0]
  /\ replaced' = [t \in Txs |-> IF t \in Replaced
                    THEN [replaced[t] EXCEPT !.age = OneMore(@, LogRetention + 1)] ELSE NotReplaced]
  /\ UNCHANGED <<chain, tip, pool, sent, reorgs, pending, blockVars, maintenance, late>>
-----------------------------------------------------------------------------
(* The pending table, as far as the snapshot depends on it.                 *)

\* The node said t is pending, at most MaxDelay slots ago.
SaidPending(t) == t \in sent /\ (t \in pool \/ gone[t] <= MaxDelay)
TooLate(t) == t \notin pool /\ 1 < gone[t]

\* The times of the rows that stay.
Keep(S) ==
  /\ age' = [t \in Txs |-> IF t \in S THEN age[t] ELSE 0]
  /\ unseen' = [t \in Txs |-> IF t \in S THEN unseen[t] ELSE 0]

\* A new pending row; the row it replaces is recorded and leaves.
Observe(t) ==
  /\ SaidPending(t) /\ t \notin pending \cup Confirmed \cup Replaced
  /\ pending' = (pending \ Rivals(t)) \cup {t}
  /\ age' = [u \in Txs |-> IF u \in Settles(t) THEN 0 ELSE age[u]]
  /\ unseen' = [u \in Txs |-> IF u \in Settles(t) THEN 0 ELSE unseen[u]]
  /\ replaced' = [u \in Txs |-> IF u \in pending \cap Rivals(t)
                                  THEN [by |-> t, age |-> 0] ELSE replaced[u]]
  /\ late' = (late \/ TooLate(t) \/ Rivals(t) \cap Confirmed # {})
  /\ UNCHANGED <<nodeVars, blockVars, maintenance>>

\* refreshPendingBlobLiveness: the rows the node said it knows are seen now.
RefreshLiveness ==
  /\ \E S \in SUBSET {t \in pending \ pool : SaidPending(t)} :
       LET live == (pending \cap pool) \cup S
       IN /\ \E t \in live : unseen[t] # 0
          /\ unseen' = [t \in Txs |-> IF t \in live THEN 0 ELSE unseen[t]]
          /\ late' = (late \/ \E t \in S : TooLate(t))
  /\ UNCHANGED <<nodeVars, pending, age, replaced, blockVars, maintenance>>
-----------------------------------------------------------------------------
(* The snapshot.                                                            *)

\* selectPendingCandidates: the rows the block left behind, still reported.
LivePool(left) == {t \in left : unseen[t] <= Window}

\* candidateReason, where the bid covers the fees and the block has room.
Reason(t, live, slot) ==
  IF age[t] < clock - slot + MinAge THEN "too_recent"
  ELSE IF \E u \in live : From[u] = From[t] /\ Nonce[u] < Nonce[t] THEN "nonce_gap"
  ELSE "eligible"

Classified(h, slot, live) ==
  {[height |-> h, tx |-> t, slot |-> slot, reason |-> Reason(t, live, slot)] : t \in live}

\* candidateAggregates.
Aggregates(S) ==
  [snapshot |-> TRUE, pending |-> Cardinality(S),
   skipped |-> Cardinality({c \in S : c.reason = "eligible"})]

DetailOf(h) == {c \in candidates : c.height = h}

\* candidateSnapshotDue.
Due(slot) == MaxLag # 0 /\ clock - slot <= MaxLag /\ slot - clock <= MaxLag

\* candidateSnapshotPredecessors: the liveness window, and one slot of jitter.
Predecessors == Window + 1

\* Mutant: any committed block below will do.
PredecessorsCommittedSome(h) == \E g \in Stored : g < h

\* Every block of the window below h is committed; the window begins no lower
\* than the earliest row, and is empty when there is none.
PredecessorsCommitted(h) ==
  LET from == Max({0, h - Predecessors} \cup (IF Stored = {} THEN {} ELSE {Min(Stored)}))
  IN Stored = {} \/ from..(h - 1) \subseteq Stored

\* Mutant: a second pass takes a second snapshot.
SnapshotTakenForgotten(h) == FALSE

\* blockHasCandidateSnapshot: the first snapshot of a block wins.
SnapshotTaken(h) == builders[h] # NoBlock /\ builders[h].snapshot

\* insertBlockData, the tables of the snapshot included.
StoreBlock(b) ==
  LET evicted == pending \cap Rivals(b.tx)
      left == pending \ Settles(b.tx)
      detail == Classified(b.height, b.slot, LivePool(left))
      taken == SnapshotTaken(b.height)
      takes == Due(b.slot) /\ ~taken /\ PredecessorsCommitted(b.height)
      stored == builders[b.height]
  IN /\ pending' = left
     /\ replaced' = [u \in Txs |->
          IF u \in evicted THEN [by |-> b.tx, age |-> Min({clock - b.slot, LogRetention + 1})]
                           ELSE replaced[u]]
     /\ candidates' = IF takes
          THEN {c \in candidates : \A d \in detail : <<c.height, c.tx>> # <<d.height, d.tx>>}
                 \cup detail
          ELSE candidates
     /\ builders' = [builders EXCEPT ![b.height] =
          IF stored # NoBlock /\ stored.snapshot THEN stored
          ELSE IF takes THEN Aggregates(detail) ELSE NoSnapshot]
     /\ rows' = [rows EXCEPT ![b.height] = [tx |-> b.tx, on |-> b.on]]
     /\ Keep(left)
-----------------------------------------------------------------------------
(* The block path: processBlock, checkForReorg, handleReorg.  A block is     *)
(* fetched and stored in one action: a fetch that a rewind overtook is       *)
(* discarded, and BlockIndexer has that fence.                               *)

Block(h) ==
  [height |-> h, tx |-> chain[h].tx, slot |-> chain[h].slot, on |-> chain[h].on]

ParentStale(h) == 0 < h /\ h - 1 \in Stored /\ ~Indexed(h - 1)

\* A worker processes a block that is missing, or once more one that is not.
Commit ==
  /\ \E h \in 0..tip :
       /\ ~ParentStale(h)
       /\ StoreBlock(Block(h))
  /\ UNCHANGED <<nodeVars, maintenance, late>>

\* The rows above the fork point go, with their builders and candidates.
Rewind ==
  /\ \E h \in 0..tip :
       /\ ParentStale(h)
       /\ LET fork == Max({0} \cup {g \in 0..(h - 1) : g \notin Stored \/ Indexed(g)})
          IN /\ rows' = [g \in Heights |-> IF fork < g THEN NoBlock ELSE rows[g]]
             /\ builders' = [g \in Heights |-> IF fork < g THEN NoBlock ELSE builders[g]]
             /\ candidates' = {c \in candidates : c.height <= fork}
  /\ UNCHANGED <<nodeVars, pendingVars, replaced, maintenance, late>>
-----------------------------------------------------------------------------
(* Maintenance: repairIncludedCandidates, runMempoolCleanup.                *)

\* Mutant: only the transaction itself is looked up.
EndsOfNone(t) == {t}

\* The log leads from t to u in n replacements.
Leads(t, n, u) ==
  \E chainOf \in [0..n -> Txs] :
    /\ chainOf[0] = t /\ chainOf[n] = u
    /\ \A i \in 1..n : replaced[chainOf[i - 1]].by = chainOf[i]

\* The transaction and those that replaced it, as far as the log is followed.
EndsOf(t) == {u \in Txs : \E n \in 0..ChainDepth : Leads(t, n, u)}

\* RepairIncludedBlobInclusionCandidates: a row is impossible when a block
\* below already held its transaction, or the one that replaced it.
Impossible ==
  {c \in candidates : \E g \in Stored : g < c.height /\ rows[g].tx \in EndsOf(c.tx)}

\* The rows go, and their blocks are summed up again.
RepairIncluded ==
  LET blocks == {c.height : c \in Impossible}
      kept == candidates \ Impossible
  IN /\ candidates' = kept
     /\ builders' = [h \in Heights |->
          IF h \in blocks /\ builders[h] # NoBlock /\ builders[h].snapshot
            THEN Aggregates({c \in kept : c.height = h}) ELSE builders[h]]

\* A tick of the maintenance loop begins with the repair; so does a start of the
\* process.  Any statement of it may fail, which is logged, and the loop goes on.
RepairTick ==
  /\ ~maintenance.due
  /\ \/ /\ RepairIncluded
        /\ maintenance' = [IdleLoop EXCEPT !.due = TRUE, !.repaired = TRUE]
     \/ /\ UNCHANGED <<candidates, builders>>
        /\ maintenance' = [IdleLoop EXCEPT !.due = TRUE]
  /\ UNCHANGED <<nodeVars, pendingVars, replaced, rows, late>>

Unswept == {t \in pending : unseen[t] <= TTL}

GoOn(statement) == maintenance' = [maintenance EXCEPT !.next = statement]

\* Mutant: a tick that failed to repair prunes all the same.
SweepPendingUnchecked ==
  /\ maintenance.due /\ maintenance.next = "sweep" /\ GoOn("log")
  /\ \/ pending' = Unswept /\ Keep(Unswept)
     \/ UNCHANGED pendingVars
  /\ UNCHANGED <<nodeVars, replaced, blockVars, late>>

\* cleanupStalePendingBlobs: the sweep of the pending table; a tick that did not
\* repair ends with it.
SweepPending ==
  /\ maintenance.due /\ maintenance.next = "sweep"
  /\ IF maintenance.repaired THEN GoOn("log") ELSE maintenance' = IdleLoop
  /\ \/ pending' = Unswept /\ Keep(Unswept)
     \/ UNCHANGED pendingVars
  /\ UNCHANGED <<nodeVars, replaced, blockVars, late>>

\* pruneStaleBlobReplacements: of the log of replacements.
PruneLog ==
  /\ maintenance.due /\ maintenance.next = "log" /\ GoOn("detail")
  /\ \/ replaced' = [t \in Txs |-> IF LogRetention < replaced[t].age
                           THEN NotReplaced ELSE replaced[t]]
     \/ UNCHANGED replaced
  /\ UNCHANGED <<nodeVars, pendingVars, blockVars, late>>

\* pruneStaleCandidates: of the detail; the aggregates stay.
PruneDetail ==
  /\ maintenance.due /\ maintenance.next = "detail" /\ maintenance' = IdleLoop
  /\ \/ candidates' = {c \in candidates : clock - c.slot <= Retention}
     \/ UNCHANGED candidates
  /\ UNCHANGED <<nodeVars, pendingVars, replaced, rows, builders, late>>
-----------------------------------------------------------------------------
NodeNext == Mine \/ Reorg \/ Slot \/ \E t \in Txs : Submit(t)
PendingNext == RefreshLiveness \/ \E t \in Txs : Observe(t)
BlockNext == Commit \/ Rewind
MaintenanceNext == RepairTick \/ SweepPending \/ PruneLog \/ PruneDetail

Next == NodeNext \/ PendingNext \/ BlockNext \/ MaintenanceNext

Spec == Init /\ [][Next]_vars

-----------------------------------------------------------------------------
(* Properties.                                                              *)

\* On the node's chain, a block below c's already settled its nonce.
Settled(c) == \E g \in 0..(c.height - 1) : c.tx \in Settles(chain[g].tx)

\* The gate of the snapshot (predecessorsCommitted): once the first block of the
\* network is indexed, as long as no write of the pending table is late and no
\* branch is switched, a block never blames its builder for a transaction that a
\* block below had included or superseded, in whatever order they commit.
SnapshotFacedPool ==
  [][0 \in Stored /\ ~late' /\ reorgs' = 0 =>
       \A c \in candidates' \ candidates : ~Settled(c)]_vars

\* As long as its detail is there, a block's permanent aggregates are those of
\* its detail, through reprocessing, repairs, rewinds and prunes.
AggregatesMatchDetail ==
  \A h \in Heights : DetailOf(h) # {} =>
    builders[h] # NoBlock /\ builders[h] = Aggregates(DetailOf(h))

\* The prune of the detail takes no row the repair could have removed: its
\* block would count it for good.
NoRowAgesOutUnrepaired ==
  [][PruneDetail /\ ~late => (candidates \ candidates') \cap Impossible = {}]_vars

\* After a repair with every block of the chain indexed, no builder is blamed
\* for a transaction whose nonce a block below settled: the rows, the log of
\* replacements and the pending table still held what it takes to find them.
CaughtUp == \A h \in 0..tip : Indexed(h)
RepairFindsAll ==
  [][RepairTick /\ maintenance'.repaired /\ CaughtUp /\ ~late =>
       \A c \in candidates' : ~Settled(c)]_vars

\* Not so (README 6): the same of a pending row that was stored late, what the comment of
\* repairIncludedCandidates says of superseded transactions.
RepairFindsSuperseded ==
  [][RepairTick /\ maintenance'.repaired /\ CaughtUp => \A c \in candidates' : ~Settled(c)]_vars

\* Not so (README 6): upsertBlockBuilder says a reorg's replacement block starts
\* without a snapshot: every snapshot is of the block its row names.
SnapshotOfStoredBlock ==
  \A c \in candidates : c.height \in Stored => c.tx # rows[c.height].tx
=============================================================================
