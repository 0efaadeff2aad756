----------------------------- MODULE PendingPool -----------------------------
(***************************************************************************)
(* The pending side of one network: the tables mempool_blobs, blobs and    *)
(* blob_replacements, internal/indexer/indexer.go.                         *)
(*                                                                         *)
(* Three producers race on the tables.  Observer workers turn announced    *)
(* hashes into pending rows; the poller stores the node's pending template *)
(* and then refreshes the rows the node still knows; the block path        *)
(* promotes a row to a confirmed one, and evicts the rows it replaces.     *)
(* Each of them asks the node first and takes dbWriteMu later.  A sweep    *)
(* removes the rows the node stopped reporting.                            *)
(*                                                                         *)
(* A block holds at most one blob transaction here, a transaction one      *)
(* blob: the statements treat the members of a block independently.        *)
(***************************************************************************)
EXTENDS Integers, Sequences, FiniteSets

CONSTANTS
  Txs,         \* blob transactions, by hash
  SlotOf,      \* SlotOf[t]: the sender and nonce of t
  Priced,      \* those the node's pending template shows
  NoTx,        \* a block without a blob transaction
  NoBlock,     \* no row for a height, no block in flight
  Observers,   \* pending transaction workers
  QueueCap,    \* capacity of processCh
  TTL,         \* mempool_ttl, in polling intervals
  MaxBlocks,   \* bound: highest block
  MaxReorgs,   \* bound: replaced tips
  MaxFaults,   \* bound: failed RPC calls
  MaxCrashes   \* bound: restarts of the process

ASSUME TxsAssumption == Priced \subseteq Txs /\ NoTx \notin Txs
ASSUME PoolBounds ==
  /\ TTL \in Nat \ {0}
  /\ {QueueCap, MaxBlocks, MaxReorgs, MaxFaults, MaxCrashes} \subseteq Nat

VARIABLES
  \* the node; returned: those a reorg put back
  pool, sent, chain, tip, reorgs, returned,
  \* the tables; age: polling intervals since last_seen
  pending, age, rows, replaced,
  \* the process; polled: a round ended in this interval
  hashes, observer, poller, polled, block,
  \* budgets
  faults, crashes

nodeVars == <<pool, sent, chain, tip, reorgs, returned>>
poolVars == <<pending, age, replaced>>
taskVars == <<hashes, observer>>
pollVars == <<poller, polled>>
budgetVars == <<faults, crashes>>
vars == <<nodeVars, poolVars, rows, taskVars, pollVars, block, budgetVars>>

Heights == 1..MaxBlocks
Rivals(t) == {u \in Txs \ {t} : SlotOf[u] = SlotOf[t]}
Mined == {chain[h].tx : h \in 1..tip}
Stored == {h \in Heights : rows[h] # NoBlock}
Confirmed == {rows[h].tx : h \in Stored}
Replaced == {t \in Txs : replaced[t] # NoTx}

IdleObserver == [pc |-> "idle", tx |-> NoTx]
IdlePoller == [pc |-> "idle", todo |-> {}, live |-> {}]

Init ==
  /\ pool = {} /\ sent = {} /\ tip = 0 /\ reorgs = 0 /\ returned = {}
  /\ chain = [h \in Heights |-> [tx |-> NoTx, on |-> 0]]
  /\ pending = {} /\ age = [t \in Txs |-> 0]
  /\ rows = [h \in Heights |-> NoBlock] /\ replaced = [t \in Txs |-> NoTx]
  /\ hashes = <<>> /\ observer = [w \in Observers |-> IdleObserver]
  /\ poller = IdlePoller /\ polled = FALSE /\ block = NoBlock
  /\ faults = 0 /\ crashes = 0
-----------------------------------------------------------------------------
(* The node.                                                                *)

\* A transaction enters the pool, in place of the one with its sender and
\* nonce; its hash is announced, and dropped when processCh is full.
Submit(t) ==
  /\ t \notin sent /\ Mined \cap ({t} \cup Rivals(t)) = {}
  /\ sent' = sent \cup {t} /\ pool' = (pool \ Rivals(t)) \cup {t}
  /\ hashes' = IF Len(hashes) < QueueCap THEN Append(hashes, t) ELSE hashes
  /\ UNCHANGED <<chain, tip, reorgs, returned, poolVars, rows, observer, pollVars, block,
                 budgetVars>>

\* The blob transactions a builder can include on top of the mined ones.
Includable(mined) ==
  {NoTx} \cup {t \in sent : mined \cap ({t} \cup Rivals(t)) = {}}

\* A block: the builder may prefer a transaction the pool has replaced.
Mine ==
  /\ tip < MaxBlocks /\ tip' = tip + 1
  /\ \E t \in Includable(Mined) :
       /\ chain' = [chain EXCEPT ![tip + 1] = [tx |-> t, on |-> reorgs]]
       /\ pool' = IF t = NoTx THEN pool ELSE pool \ ({t} \cup Rivals(t))
  /\ UNCHANGED <<sent, reorgs, returned, poolVars, rows, taskVars, pollVars, block, budgetVars>>

\* The tip is replaced by a sibling; its transaction is pending again unless
\* the sibling settles its nonce.
Reorg ==
  /\ 0 < tip /\ reorgs < MaxReorgs /\ reorgs' = reorgs + 1
  /\ LET old == chain[tip].tx
         kept == {chain[h].tx : h \in 1..(tip - 1)}
     IN \E t \in Includable(kept) :
          LET back == {old} \ ({t, NoTx} \cup (IF t = NoTx THEN {} ELSE Rivals(t)))
          IN /\ chain' = [chain EXCEPT ![tip] = [tx |-> t, on |-> reorgs + 1]]
             /\ pool' = (pool \ (IF t = NoTx THEN {} ELSE {t} \cup Rivals(t))) \cup back
             /\ returned' = returned \cup back
  /\ UNCHANGED <<sent, tip, poolVars, rows, taskVars, pollVars, block, budgetVars>>

\* A polling interval goes by; a round of the poller ends in each.
Tick ==
  /\ polled /\ polled' = FALSE
  /\ age' = [t \in Txs |-> IF t \in pending /\ age[t] < TTL THEN age[t] + 1 ELSE age[t]]
  /\ UNCHANGED <<nodeVars, pending, replaced, rows, taskVars, poller, block, budgetVars>>
-----------------------------------------------------------------------------
(* Writing the tables; every one of these holds dbWriteMu.                  *)

\* The pending rows of gone leave the table, replaced by t.
Supersede(gone, t) ==
  replaced' = [u \in Txs |-> IF u \in gone THEN t ELSE replaced[u]]

\* Mutant: the rows of the transaction this one replaces stay.
StorePendingBeside(t) ==
  IF t \in Confirmed \cup Replaced
    THEN UNCHANGED <<poolVars, rows>>
    ELSE /\ pending' = pending \cup {t} /\ age' = [age EXCEPT ![t] = 0]
         /\ UNCHANGED <<rows, replaced>>

\* Mutant: the confirmed rows are not consulted.
StorePendingUnchecked(t) ==
  LET gone == pending \cap Rivals(t)
  IN IF t \in Replaced
       THEN UNCHANGED <<poolVars, rows>>
       ELSE /\ pending' = (pending \ gone) \cup {t}
            /\ age' = [u \in Txs |-> IF u \in gone \cup {t} THEN 0 ELSE age[u]]
            /\ Supersede(gone, t)
            /\ UNCHANGED rows

\* insertPendingBlobs: a transaction already confirmed or replaced only leaves
\* its first-seen time on the confirmed row.
StorePending(t) ==
  LET gone == pending \cap Rivals(t)
  IN IF t \in Confirmed \cup Replaced
       THEN /\ rows' = [h \in Heights |-> IF h \in Stored /\ rows[h].tx = t
                          THEN [rows[h] EXCEPT !.seen = TRUE] ELSE rows[h]]
            /\ UNCHANGED poolVars
       ELSE /\ pending' = (pending \ gone) \cup {t}
            /\ age' = [u \in Txs |-> IF u \in gone \cup {t} THEN 0 ELSE age[u]]
            /\ Supersede(gone, t)
            /\ UNCHANGED rows

\* Mutant: a reprocess overwrites the first-seen time.
StoreBlockForgetful(h, t, on) ==
  LET gone == IF t = NoTx THEN {} ELSE pending \cap Rivals(t)
  IN /\ pending' = pending \ (gone \cup {t})
     /\ age' = [u \in Txs |-> IF u \in gone \cup {t} THEN 0 ELSE age[u]]
     /\ Supersede(gone, t)
     /\ rows' = [rows EXCEPT ![h] = [tx |-> t, on |-> on, seen |-> t \in pending]]

\* insertBlockData: the transaction of block h is promoted, and the pending
\* rows of the ones it replaced are evicted.
StoreBlock(h, t, on) ==
  LET gone == IF t = NoTx THEN {} ELSE pending \cap Rivals(t)
      kept == h \in Stored /\ rows[h].tx = t /\ rows[h].seen
  IN /\ pending' = pending \ (gone \cup {t})
     /\ age' = [u \in Txs |-> IF u \in gone \cup {t} THEN 0 ELSE age[u]]
     /\ Supersede(gone, t)
     /\ rows' = [rows EXCEPT ![h] = [tx |-> t, on |-> on, seen |-> t \in pending \/ kept]]
-----------------------------------------------------------------------------
(* The observer workers: handlePendingTransactionSubscription,              *)
(* processPendingTransaction.                                               *)

\* GetTransactionByHash: a transaction that is pending no more is skipped, and
\* so is one whose calls, or whose store, fail.
FetchPending(w) ==
  /\ observer[w].pc = "idle" /\ hashes # <<>> /\ hashes' = Tail(hashes)
  /\ \/ /\ observer' = IF Head(hashes) \in pool
                         THEN [observer EXCEPT ![w] = [pc |-> "fetched", tx |-> Head(hashes)]]
                         ELSE observer
        /\ UNCHANGED faults
     \/ /\ faults < MaxFaults /\ faults' = faults + 1 /\ UNCHANGED observer
  /\ UNCHANGED <<nodeVars, poolVars, rows, pollVars, block, crashes>>

StoreFetched(w) ==
  /\ observer[w].pc = "fetched"
  /\ StorePending(observer[w].tx)
  /\ observer' = [observer EXCEPT ![w] = IdleObserver]
  /\ UNCHANGED <<nodeVars, hashes, pollVars, block, budgetVars>>
-----------------------------------------------------------------------------
(* The poller: runMempoolReconciler, or runMempoolIndexer when there is no  *)
(* subscription; processPendingTransactions, refreshPendingBlobLiveness.    *)

\* Mutant: only what is tracked already is polled.
PollTemplateTracked ==
  /\ poller.pc = "idle"
  /\ poller' = [poller EXCEPT !.pc = "store", !.todo = pool \cap Priced \cap pending]
  /\ UNCHANGED <<nodeVars, poolVars, rows, taskVars, polled, block, budgetVars>>

\* The node's pending template.
PollTemplate ==
  /\ poller.pc = "idle"
  /\ poller' = [poller EXCEPT !.pc = "store", !.todo = pool \cap Priced]
  /\ UNCHANGED <<nodeVars, poolVars, rows, taskVars, polled, block, budgetVars>>

StorePolled ==
  /\ poller.pc = "store"
  /\ \E t \in poller.todo :
       StorePending(t) /\ poller' = [poller EXCEPT !.todo = @ \ {t}]
  /\ UNCHANGED <<nodeVars, taskVars, polled, block, budgetVars>>

\* The tracked hashes, from the table.
ListTracked ==
  /\ poller.pc = "store" /\ poller.todo = {}
  /\ poller' = [pc |-> "check", todo |-> pending, live |-> {}]
  /\ UNCHANGED <<nodeVars, poolVars, rows, taskVars, polled, block, budgetVars>>

\* One GetTransactionByHash of the round.
CheckTracked ==
  /\ poller.pc = "check"
  /\ \E t \in poller.todo :
       poller' = [poller EXCEPT !.todo = @ \ {t}, !.live = @ \cup ({t} \cap pool)]
  /\ UNCHANGED <<nodeVars, poolVars, rows, taskVars, polled, block, budgetVars>>

\* A call of the round fails: a transaction goes without its store or its
\* check, the template is not read, or the round ends without its refresh.
PollerFault ==
  /\ faults < MaxFaults /\ faults' = faults + 1
  /\ \/ /\ \E t \in poller.todo : poller' = [poller EXCEPT !.todo = @ \ {t}]
        /\ UNCHANGED polled
     \/ /\ poller.pc = "idle" /\ poller' = [poller EXCEPT !.pc = "store"]
        /\ UNCHANGED polled
     \/ /\ poller.pc # "idle" /\ poller.todo = {}
        /\ poller' = IdlePoller /\ polled' = TRUE
  /\ UNCHANGED <<nodeVars, poolVars, rows, taskVars, block, crashes>>

\* Mutant: the refresh writes nothing.
RefreshLivenessNever ==
  /\ poller.pc = "check" /\ poller.todo = {}
  /\ poller' = IdlePoller /\ polled' = TRUE
  /\ UNCHANGED <<nodeVars, poolVars, rows, taskVars, block, budgetVars>>

\* Mutant: every listed row is refreshed, whatever the node said.
RefreshLivenessAll ==
  /\ poller.pc = "check" /\ poller.todo = {}
  /\ age' = [t \in Txs |-> 0]
  /\ poller' = IdlePoller /\ polled' = TRUE
  /\ UNCHANGED <<nodeVars, pending, replaced, rows, taskVars, block, budgetVars>>

\* The rows the node still knew are seen now, if they are still there.
RefreshLiveness ==
  /\ poller.pc = "check" /\ poller.todo = {}
  /\ age' = [t \in Txs |-> IF t \in poller.live THEN 0 ELSE age[t]]
  /\ poller' = IdlePoller /\ polled' = TRUE
  /\ UNCHANGED <<nodeVars, pending, replaced, rows, taskVars, block, budgetVars>>

\* cleanupStalePendingBlobs.
Sweep ==
  /\ \E t \in pending : age[t] = TTL
  /\ pending' = {t \in pending : age[t] < TTL}
  /\ age' = [t \in Txs |-> IF age[t] = TTL THEN 0 ELSE age[t]]
  /\ UNCHANGED <<nodeVars, replaced, rows, taskVars, pollVars, block, budgetVars>>
-----------------------------------------------------------------------------
(* The block path, as far as these tables see it.  BlockIndexer has the     *)
(* order of its steps; here a worker may take any block of the chain.       *)

FetchBlock ==
  /\ block = NoBlock
  /\ \E h \in 1..tip : block' = [height |-> h, tx |-> chain[h].tx, on |-> chain[h].on]
  /\ UNCHANGED <<nodeVars, poolVars, rows, taskVars, pollVars, budgetVars>>

CommitBlock ==
  /\ block # NoBlock /\ block' = NoBlock
  /\ StoreBlock(block.height, block.tx, block.on)
  /\ UNCHANGED <<nodeVars, taskVars, pollVars, budgetVars>>

\* handleReorg: the rows from a stale block up are deleted and the block in
\* flight is fenced off.  mempool_blobs and blob_replacements stay.
Rewind ==
  /\ \E h \in Stored :
       /\ rows[h].on # chain[h].on
       /\ rows' = [g \in Heights |-> IF h <= g THEN NoBlock ELSE rows[g]]
  /\ block' = NoBlock
  /\ UNCHANGED <<nodeVars, poolVars, taskVars, pollVars, budgetVars>>

\* The process restarts; the tables stay.
Restart ==
  /\ crashes < MaxCrashes /\ crashes' = crashes + 1
  /\ hashes' = <<>> /\ observer' = [w \in Observers |-> IdleObserver]
  /\ poller' = IdlePoller /\ block' = NoBlock
  /\ UNCHANGED <<nodeVars, poolVars, rows, polled, faults>>
-----------------------------------------------------------------------------
NodeNext == Mine \/ Reorg \/ \E t \in Txs : Submit(t)
ObserverNext(w) == FetchPending(w) \/ StoreFetched(w)
PollerNext == PollTemplate \/ StorePolled \/ ListTracked \/ CheckTracked \/ RefreshLiveness
BlockNext == FetchBlock \/ CommitBlock \/ Rewind

Next ==
  \/ NodeNext \/ Tick \/ PollerNext \/ PollerFault \/ Sweep \/ BlockNext \/ Restart
  \/ \E w \in Observers : ObserverNext(w)

Spec == Init /\ [][Next]_vars

\* The loops of the process go on; nothing is asked of the node.
Fairness ==
  /\ WF_vars(Tick) /\ WF_vars(PollerNext) /\ WF_vars(Sweep)
  /\ \A w \in Observers : WF_vars(ObserverNext(w))
FairSpec == Spec /\ Fairness
-----------------------------------------------------------------------------
(* Properties.                                                              *)

ChainType == [tx : Txs \cup {NoTx}, on : 0..MaxReorgs]
RowType == [tx : Txs \cup {NoTx}, on : 0..MaxReorgs, seen : BOOLEAN]
BlockType == [height : Heights, tx : Txs \cup {NoTx}, on : 0..MaxReorgs]

\* A row is not the absence of one.
ASSUME NoBlockAssumption == NoBlock \notin RowType

NodeTypes ==
  /\ pool \in SUBSET Txs /\ sent \in SUBSET Txs /\ returned \in SUBSET Txs
  /\ chain \in [Heights -> ChainType] /\ tip \in 0..MaxBlocks /\ reorgs \in 0..MaxReorgs
TableTypes ==
  /\ pending \in SUBSET Txs /\ age \in [Txs -> 0..TTL]
  /\ rows \in [Heights -> RowType \cup {NoBlock}]
  /\ replaced \in [Txs -> Txs \cup {NoTx}]
ProcessTypes ==
  /\ hashes \in Seq(Txs) /\ Len(hashes) <= QueueCap
  /\ observer \in [Observers -> {IdleObserver} \cup [pc : {"fetched"}, tx : Txs]]
  /\ poller \in [pc : {"idle", "store", "check"}, todo : SUBSET Txs, live : SUBSET Txs]
  /\ polled \in BOOLEAN /\ block \in BlockType \cup {NoBlock}
PoolBudgetTypes == faults \in 0..MaxFaults /\ crashes \in 0..MaxCrashes

\* The type of every variable; the hash queue never exceeds its capacity.
TypeOK == NodeTypes /\ TableTypes /\ ProcessTypes /\ PoolBudgetTypes

\* A transaction is shown pending or confirmed, never both, although whoever
\* stores it asked the node before a block could confirm it.
PendingExcludesConfirmed == pending \cap Confirmed = {}

\* At most one pending transaction per sender and nonce, and never one that is
\* on record as replaced.
OnePendingPerNonce ==
  \A t \in pending : Rivals(t) \cap pending = {} /\ t \notin Replaced

\* A first-seen time outlives promotion and every reprocess of the block.
ObservationKept ==
  [][\A h \in Heights : rows'[h] # NoBlock /\ rows'[h].tx \in Txs =>
       LET t == rows'[h].tx
       IN t \in pending \/ (h \in Stored /\ rows[h].tx = t /\ rows[h].seen) => rows'[h].seen]_vars

\* The sweep takes no row of a transaction that has been pending all along:
\* TTL outlasts a refresh that just missed the row and one failed call.
LiveNeverSwept ==
  [][\A t \in pending \ pending' :
       t \in pool \ returned => t \in Confirmed' \cup Replaced']_vars

\* A row of a transaction the node gave up on goes in the end.
DeadRowsLeave == \A t \in Txs : t \in pending \ pool ~> t \notin pending \ pool

\* A pending transaction of the template is shown in the end, whatever the
\* subscription dropped, unless it is on record as replaced or confirmed.
LiveRowsShown == <>[](pool \cap Priced \subseteq pending \cup Replaced \cup Confirmed)

\* Not so (README 6): the eviction record is the tombstone of a dead transaction: once a rival is
\* confirmed, a late store does not bring it back.
DeadNeverShown == \A t \in pending : Rivals(t) \cap Confirmed = {}

\* Not so (README 6): suppression by a tombstone never hides a transaction the node still holds.
LiveNeverReplaced == pool \cap Replaced = {}
=============================================================================
