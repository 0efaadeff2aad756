-------------------------- MODULE PendingPool_proofs --------------------------
(***************************************************************************)
(* Proofs about PendingPool, for any transactions, workers and bounds.     *)
(*                                                                         *)
(* PoolInv is inductive as it stands: what keeps the tables apart is that  *)
(* every statement reads them under the lock it writes them under.  The    *)
(* two lemmas about StorePending and StoreBlock are the only places where  *)
(* a table changes for the pending side; the rest is frame.                *)
(***************************************************************************)
EXTENDS PendingPool, TLAPS

PoolInv == TypeOK /\ PendingExcludesConfirmed /\ OnePendingPerNonce

\* Appending below the capacity keeps the queue's type.
LEMMA HashesGrow ==
  ASSUME hashes \in Seq(Txs), Len(hashes) <= QueueCap, NEW t \in Txs
  PROVE  LET next == IF Len(hashes) < QueueCap THEN Append(hashes, t) ELSE hashes
         IN next \in Seq(Txs) /\ Len(next) <= QueueCap
<1>1. QueueCap \in Nat
  BY PoolBounds
<1>2. CASE Len(hashes) < QueueCap
  <2>1. Append(hashes, t) \in Seq(Txs) /\ Len(Append(hashes, t)) = Len(hashes) + 1
    OBVIOUS
  <2>2. Len(hashes) \in Nat
    OBVIOUS
  <2> QED BY <1>1, <1>2, <2>1, <2>2
<1>3. CASE ~(Len(hashes) < QueueCap)
  BY <1>3
<1> QED BY <1>2, <1>3

\* insertPendingBlobs keeps the tables typed and apart.
LEMMA StorePendingSafe ==
  ASSUME TableTypes, PendingExcludesConfirmed, OnePendingPerNonce,
         NEW t \in Txs, StorePending(t)
  PROVE  TableTypes' /\ PendingExcludesConfirmed' /\ OnePendingPerNonce'
<1>0. TTL \in Nat /\ 0 \in 0..TTL
  BY PoolBounds
<1>1. CASE t \in Confirmed \cup Replaced
  <2>1. /\ rows' = [h \in Heights |-> IF h \in Stored /\ rows[h].tx = t
                      THEN [rows[h] EXCEPT !.seen = TRUE] ELSE rows[h]]
        /\ UNCHANGED poolVars
    BY <1>1 DEF StorePending
  <2>2. ASSUME NEW h \in Heights
        PROVE  /\ rows'[h] \in RowType \cup {NoBlock}
               /\ rows'[h] # NoBlock => rows[h] # NoBlock /\ rows'[h].tx = rows[h].tx
    <3>1. CASE h \in Stored /\ rows[h].tx = t
      <4>1. rows[h] \in RowType /\ rows[h] # NoBlock
        BY <3>1 DEF TableTypes, Stored
      <4>2. rows'[h] = [rows[h] EXCEPT !.seen = TRUE]
        BY <2>1, <3>1
      <4> QED BY <4>1, <4>2 DEF RowType
    <3>2. CASE ~(h \in Stored /\ rows[h].tx = t)
      BY <2>1, <3>2 DEF TableTypes
    <3> QED BY <3>1, <3>2
  <2>3. /\ rows' \in [Heights -> RowType \cup {NoBlock}]
        /\ \A h \in Heights : rows'[h] # NoBlock => rows[h] # NoBlock /\ rows'[h].tx = rows[h].tx
    BY <2>1, <2>2
  <2>4. Confirmed' \subseteq Confirmed
    BY <2>3 DEF Confirmed, Stored
  <2>5. PendingExcludesConfirmed'
    BY <2>1, <2>4 DEF PendingExcludesConfirmed, poolVars
  <2>6. OnePendingPerNonce'
    BY <2>1 DEF OnePendingPerNonce, Replaced, Rivals, poolVars
  <2> QED BY <2>1, <2>3, <2>5, <2>6 DEF TableTypes, poolVars
<1>2. CASE t \notin Confirmed \cup Replaced
  <2> DEFINE gone == pending \cap Rivals(t)
  <2>1. /\ pending' = (pending \ gone) \cup {t}
        /\ age' = [u \in Txs |-> IF u \in gone \cup {t} THEN 0 ELSE age[u]]
        /\ replaced' = [u \in Txs |-> IF u \in gone THEN t ELSE replaced[u]]
        /\ rows' = rows
    BY <1>2 DEF StorePending, Supersede
  <2>2. TableTypes'
    BY <1>0, <2>1 DEF TableTypes
  <2>3. PendingExcludesConfirmed'
    BY <1>2, <2>1 DEF PendingExcludesConfirmed, Confirmed, Stored
  <2>4. \A u \in Txs : u \in Replaced' => u \in Replaced \/ u \in gone
    BY <2>1 DEF Replaced
  <2>5. t \notin gone
    BY DEF Rivals
  <2>6. OnePendingPerNonce'
    <3>1. ASSUME NEW u \in pending' PROVE u \notin Replaced'
      BY <1>2, <2>1, <2>4, <2>5 DEF OnePendingPerNonce, TableTypes
    <3>2. ASSUME NEW u \in pending' PROVE Rivals(u) \cap pending' = {}
      BY <2>1 DEF OnePendingPerNonce, Rivals, TableTypes
    <3> QED BY <3>1, <3>2 DEF OnePendingPerNonce, Rivals
  <2> QED BY <2>2, <2>3, <2>6
<1> QED BY <1>1, <1>2

\* insertBlockData keeps the tables typed and apart.
LEMMA StoreBlockSafe ==
  ASSUME TableTypes, PendingExcludesConfirmed, OnePendingPerNonce,
         NEW h \in Heights, NEW t \in Txs \cup {NoTx}, NEW on \in 0..MaxReorgs,
         StoreBlock(h, t, on)
  PROVE  TableTypes' /\ PendingExcludesConfirmed' /\ OnePendingPerNonce'
<1> DEFINE gone == IF t = NoTx THEN {} ELSE pending \cap Rivals(t)
           row == [tx |-> t, on |-> on,
                   seen |-> t \in pending \/ (h \in Stored /\ rows[h].tx = t /\ rows[h].seen)]
<1>0. TTL \in Nat /\ 0 \in 0..TTL
  BY PoolBounds
<1>1. /\ pending' = pending \ (gone \cup {t})
      /\ age' = [u \in Txs |-> IF u \in gone \cup {t} THEN 0 ELSE age[u]]
      /\ replaced' = [u \in Txs |-> IF u \in gone THEN t ELSE replaced[u]]
      /\ rows' = [rows EXCEPT ![h] = row]
  BY DEF StoreBlock, Supersede
<1>2. row \in RowType
  <2>1. (t \in pending \/ (h \in Stored /\ rows[h].tx = t /\ rows[h].seen)) \in BOOLEAN
    BY DEF TableTypes, RowType, Stored
  <2> QED BY <2>1 DEF RowType
<1>3. TableTypes'
  <2>1. rows' \in [Heights -> RowType \cup {NoBlock}]
    BY <1>1, <1>2 DEF TableTypes
  <2>2. pending' \in SUBSET Txs /\ age' \in [Txs -> 0..TTL]
    BY <1>0, <1>1 DEF TableTypes
  <2>3. replaced' \in [Txs -> Txs \cup {NoTx}]
    BY <1>1 DEF TableTypes
  <2> QED BY <2>1, <2>2, <2>3 DEF TableTypes
<1>4. Confirmed' \subseteq Confirmed \cup {t}
  <2>1. \A g \in Heights : g # h => rows'[g] = rows[g]
    BY <1>1 DEF TableTypes
  <2>2. rows'[h].tx = t
    BY <1>1 DEF TableTypes
  <2> QED BY <2>1, <2>2 DEF Confirmed, Stored
<1>5. PendingExcludesConfirmed'
  BY <1>1, <1>4 DEF PendingExcludesConfirmed
<1>6. OnePendingPerNonce'
  <2>1. ASSUME NEW u \in pending' PROVE u \notin Replaced'
    BY <1>1 DEF OnePendingPerNonce, Replaced, TableTypes
  <2>2. ASSUME NEW u \in pending' PROVE Rivals(u) \cap pending' = {}
    BY <1>1 DEF OnePendingPerNonce, Rivals
  <2> QED BY <2>1, <2>2 DEF OnePendingPerNonce, Rivals
<1> QED BY <1>3, <1>5, <1>6

\* The three parts only read the tables.
LEMMA TablesFrame ==
  ASSUME PendingExcludesConfirmed, OnePendingPerNonce, UNCHANGED <<pending, replaced, rows>>
  PROVE  PendingExcludesConfirmed' /\ OnePendingPerNonce'
BY DEF PendingExcludesConfirmed, OnePendingPerNonce, Confirmed, Stored, Replaced, Rivals

LEMMA InitPool == Init => PoolInv
<1> SUFFICES ASSUME Init PROVE PoolInv
  OBVIOUS
<1>1. /\ TTL \in Nat \ {0} /\ QueueCap \in Nat /\ MaxBlocks \in Nat /\ MaxReorgs \in Nat
      /\ MaxFaults \in Nat /\ MaxCrashes \in Nat
  BY PoolBounds
<1>2. NodeTypes
  BY <1>1 DEF Init, NodeTypes, ChainType
<1>3. TableTypes
  BY <1>1 DEF Init, TableTypes
<1>4. ProcessTypes
  <2>1. hashes \in Seq(Txs) /\ Len(hashes) <= QueueCap
    BY <1>1 DEF Init
  <2>2. observer \in [Observers -> {IdleObserver} \cup [pc : {"fetched"}, tx : Txs]]
    BY DEF Init
  <2>3. polled \in BOOLEAN /\ block \in BlockType \cup {NoBlock}
    BY DEF Init
  <2>4. poller \in [pc : {"idle", "store", "check"}, todo : SUBSET Txs, live : SUBSET Txs]
    BY DEF Init, IdlePoller
  <2> QED BY <2>1, <2>2, <2>3, <2>4 DEF ProcessTypes
<1>5. PoolBudgetTypes
  BY <1>1 DEF Init, PoolBudgetTypes
<1>6. PendingExcludesConfirmed /\ OnePendingPerNonce
  <2>1. pending = {}
    BY DEF Init
  <2> QED BY <2>1 DEF PendingExcludesConfirmed, OnePendingPerNonce
<1> QED BY <1>2, <1>3, <1>4, <1>5, <1>6 DEF PoolInv, TypeOK

\* The node only touches its own variables and the announced hashes.
LEMMA NodeStep == PoolInv /\ NodeNext => PoolInv'
<1> SUFFICES ASSUME PoolInv, NodeNext PROVE PoolInv'
  OBVIOUS
<1>0. MaxBlocks \in Nat /\ MaxReorgs \in Nat
  BY PoolBounds
<1>1. CASE \E t \in Txs : Submit(t)
  <2>1. PICK t \in Txs : Submit(t)
    BY <1>1
  <2>2. NodeTypes'
    BY <2>1 DEF PoolInv, TypeOK, NodeTypes, Submit
  <2>3. hashes' \in Seq(Txs) /\ Len(hashes') <= QueueCap
    BY <2>1, HashesGrow DEF PoolInv, TypeOK, ProcessTypes, Submit
  <2>4. ProcessTypes'
    BY <2>1, <2>3 DEF PoolInv, TypeOK, ProcessTypes, Submit, pollVars
  <2> QED BY <2>1, <2>2, <2>4, TablesFrame
          DEF PoolInv, TypeOK, TableTypes, PoolBudgetTypes, Submit, poolVars, budgetVars
<1>2. CASE Mine
  <2>1. PICK t \in Includable(Mined) :
          /\ chain' = [chain EXCEPT ![tip + 1] = [tx |-> t, on |-> reorgs]]
          /\ pool' = IF t = NoTx THEN pool ELSE pool \ ({t} \cup Rivals(t))
    BY <1>2 DEF Mine
  <2>2. t \in Txs \cup {NoTx}
    BY DEF Includable, PoolInv, TypeOK, NodeTypes
  <2>3. [tx |-> t, on |-> reorgs] \in ChainType
    BY <2>2 DEF PoolInv, TypeOK, NodeTypes, ChainType
  <2>4. tip' \in 0..MaxBlocks
    BY <1>0, <1>2 DEF Mine, PoolInv, TypeOK, NodeTypes
  <2>5. chain' \in [Heights -> ChainType]
    BY <2>1, <2>3 DEF PoolInv, TypeOK, NodeTypes
  <2>6. NodeTypes'
    BY <1>2, <2>1, <2>4, <2>5 DEF Mine, PoolInv, TypeOK, NodeTypes
  <2> QED BY <1>2, <2>6, TablesFrame
          DEF Mine, PoolInv, TypeOK, TableTypes, ProcessTypes, PoolBudgetTypes,
              poolVars, taskVars, pollVars, budgetVars
<1>3. CASE Reorg
  <2> DEFINE kept == {chain[h].tx : h \in 1..(tip - 1)}
             old == chain[tip].tx
             back(t) == {old} \ ({t, NoTx} \cup (IF t = NoTx THEN {} ELSE Rivals(t)))
  <2>1. PICK t \in Includable(kept) :
          /\ chain' = [chain EXCEPT ![tip] = [tx |-> t, on |-> reorgs + 1]]
          /\ pool' = (pool \ (IF t = NoTx THEN {} ELSE {t} \cup Rivals(t))) \cup back(t)
          /\ returned' = returned \cup back(t)
    BY <1>3 DEF Reorg
  <2>2. t \in Txs \cup {NoTx}
    BY DEF Includable, PoolInv, TypeOK, NodeTypes
  <2>3. reorgs' \in 0..MaxReorgs /\ reorgs' = reorgs + 1
    BY <1>0, <1>3 DEF Reorg, PoolInv, TypeOK, NodeTypes
  <2>4. [tx |-> t, on |-> reorgs + 1] \in ChainType
    BY <2>2, <2>3 DEF ChainType
  <2>5. old \in Txs \cup {NoTx}
    <3>1. tip \in Heights
      BY <1>0, <1>3 DEF Reorg, PoolInv, TypeOK, NodeTypes, Heights
    <3> QED BY <3>1 DEF PoolInv, TypeOK, NodeTypes, ChainType
  <2>6. back(t) \in SUBSET Txs
    BY <2>5
  <2>7. chain' \in [Heights -> ChainType]
    BY <2>1, <2>4 DEF PoolInv, TypeOK, NodeTypes
  <2>8. NodeTypes'
    BY <1>3, <2>1, <2>3, <2>6, <2>7 DEF Reorg, PoolInv, TypeOK, NodeTypes
  <2> QED BY <1>3, <2>8, TablesFrame
          DEF Reorg, PoolInv, TypeOK, TableTypes, ProcessTypes, PoolBudgetTypes,
              poolVars, taskVars, pollVars, budgetVars
<1> QED BY <1>1, <1>2, <1>3 DEF NodeNext

\* An observer that fetched a hash stores it.
LEMMA ObserverStep ==
  ASSUME PoolInv, NEW w \in Observers, ObserverNext(w)
  PROVE  PoolInv'
<1>0. MaxFaults \in Nat
  BY PoolBounds
<1>1. CASE FetchPending(w)
  <2>1. /\ hashes # <<>> /\ hashes \in Seq(Txs) /\ Len(hashes) <= QueueCap
        /\ QueueCap \in Nat
    BY <1>1, PoolBounds DEF FetchPending, PoolInv, TypeOK, ProcessTypes
  <2>2. Head(hashes) \in Txs /\ Tail(hashes) \in Seq(Txs) /\ Len(Tail(hashes)) = Len(hashes) - 1
    BY <2>1
  <2>3. Len(Tail(hashes)) <= QueueCap
    BY <2>1, <2>2
  <2>4. observer' \in [Observers -> {IdleObserver} \cup [pc : {"fetched"}, tx : Txs]]
    BY <1>1, <2>2 DEF FetchPending, PoolInv, TypeOK, ProcessTypes
  <2>5. ProcessTypes'
    BY <1>1, <2>2, <2>3, <2>4 DEF FetchPending, PoolInv, TypeOK, ProcessTypes, pollVars
  <2>6. faults' \in 0..MaxFaults
    <3>1. CASE UNCHANGED faults
      BY <3>1 DEF PoolInv, TypeOK, PoolBudgetTypes
    <3>2. CASE faults < MaxFaults /\ faults' = faults + 1
      BY <1>0, <3>2 DEF PoolInv, TypeOK, PoolBudgetTypes
    <3> QED BY <1>1, <3>1, <3>2 DEF FetchPending
  <2>7. PoolBudgetTypes'
    BY <1>1, <2>6 DEF FetchPending, PoolInv, TypeOK, PoolBudgetTypes
  <2> QED BY <1>1, <2>5, <2>7, TablesFrame
          DEF FetchPending, PoolInv, TypeOK, NodeTypes, TableTypes, nodeVars, poolVars
<1>2. CASE StoreFetched(w)
  <2>1. observer[w].tx \in Txs
    BY <1>2 DEF StoreFetched, PoolInv, TypeOK, ProcessTypes, IdleObserver
  <2>2. TableTypes' /\ PendingExcludesConfirmed' /\ OnePendingPerNonce'
    BY <1>2, <2>1, StorePendingSafe DEF StoreFetched, PoolInv, TypeOK
  <2>3. ProcessTypes'
    BY <1>2 DEF StoreFetched, PoolInv, TypeOK, ProcessTypes, pollVars
  <2> QED BY <1>2, <2>2, <2>3
          DEF StoreFetched, PoolInv, TypeOK, NodeTypes, PoolBudgetTypes, nodeVars, budgetVars
<1> QED BY <1>1, <1>2 DEF ObserverNext

\* A round of the poller, with or without a failed call.
LEMMA PollerStep == PoolInv /\ (PollerNext \/ PollerFault) => PoolInv'
<1> SUFFICES ASSUME PoolInv, PollerNext \/ PollerFault PROVE PoolInv'
  OBVIOUS
<1>0. MaxFaults \in Nat /\ TTL \in Nat /\ 0 \in 0..TTL
  BY PoolBounds
<1>1. CASE PollTemplate \/ ListTracked \/ CheckTracked
  <2>1. ProcessTypes'
    <3>1. CASE PollTemplate
      BY <3>1 DEF PollTemplate, PoolInv, TypeOK, NodeTypes, ProcessTypes, taskVars
    <3>2. CASE ListTracked
      BY <3>2 DEF ListTracked, PoolInv, TypeOK, TableTypes, ProcessTypes, taskVars
    <3>3. CASE CheckTracked
      <4>1. PICK t \in poller.todo :
              poller' = [poller EXCEPT !.todo = @ \ {t}, !.live = @ \cup ({t} \cap pool)]
        BY <3>3 DEF CheckTracked
      <4>2. t \in Txs
        BY <4>1 DEF PoolInv, TypeOK, ProcessTypes
      <4>3. poller' \in [pc : {"idle", "store", "check"}, todo : SUBSET Txs, live : SUBSET Txs]
        BY <4>1, <4>2 DEF PoolInv, TypeOK, ProcessTypes
      <4> QED BY <3>3, <4>3 DEF CheckTracked, PoolInv, TypeOK, ProcessTypes, taskVars
    <3> QED BY <1>1, <3>1, <3>2, <3>3
  <2>2. UNCHANGED <<nodeVars, poolVars, rows, budgetVars>>
    BY <1>1 DEF PollTemplate, ListTracked, CheckTracked
  <2> QED BY <2>1, <2>2, TablesFrame
          DEF PoolInv, TypeOK, NodeTypes, TableTypes, PoolBudgetTypes,
              nodeVars, poolVars, budgetVars
<1>2. CASE StorePolled
  <2>1. PICK t \in poller.todo : StorePending(t) /\ poller' = [poller EXCEPT !.todo = @ \ {t}]
    BY <1>2 DEF StorePolled
  <2>2. t \in Txs
    BY <2>1 DEF PoolInv, TypeOK, ProcessTypes
  <2>3. TableTypes' /\ PendingExcludesConfirmed' /\ OnePendingPerNonce'
    BY <2>1, <2>2, StorePendingSafe DEF PoolInv, TypeOK
  <2>4. ProcessTypes'
    BY <1>2, <2>1 DEF StorePolled, PoolInv, TypeOK, ProcessTypes, taskVars
  <2> QED BY <1>2, <2>3, <2>4
          DEF StorePolled, PoolInv, TypeOK, NodeTypes, PoolBudgetTypes, nodeVars, budgetVars
<1>3. CASE RefreshLiveness
  <2>1. ProcessTypes'
    BY <1>3 DEF RefreshLiveness, PoolInv, TypeOK, ProcessTypes, IdlePoller, taskVars
  <2>2. TableTypes'
    BY <1>0, <1>3 DEF RefreshLiveness, PoolInv, TypeOK, TableTypes
  <2> QED BY <1>3, <2>1, <2>2, TablesFrame
          DEF RefreshLiveness, PoolInv, TypeOK, NodeTypes, PoolBudgetTypes, nodeVars, budgetVars
<1>4. CASE PollerFault
  <2>1. ProcessTypes'
    <3>1. poller' \in [pc : {"idle", "store", "check"}, todo : SUBSET Txs, live : SUBSET Txs]
      BY <1>4 DEF PollerFault, PoolInv, TypeOK, ProcessTypes, IdlePoller
    <3>2. polled' \in BOOLEAN
      BY <1>4 DEF PollerFault, PoolInv, TypeOK, ProcessTypes
    <3> QED BY <1>4, <3>1, <3>2 DEF PollerFault, PoolInv, TypeOK, ProcessTypes, taskVars
  <2>2. PoolBudgetTypes'
    BY <1>0, <1>4 DEF PollerFault, PoolInv, TypeOK, PoolBudgetTypes
  <2> QED BY <1>4, <2>1, <2>2, TablesFrame
          DEF PollerFault, PoolInv, TypeOK, NodeTypes, TableTypes, nodeVars, poolVars
<1> QED BY <1>1, <1>2, <1>3, <1>4 DEF PollerNext

\* An interval goes by, and the sweep takes what has aged out.
LEMMA AgeStep == PoolInv /\ (Tick \/ Sweep) => PoolInv'
<1> SUFFICES ASSUME PoolInv, Tick \/ Sweep PROVE PoolInv'
  OBVIOUS
<1>0. TTL \in Nat /\ 0 \in 0..TTL
  BY PoolBounds
<1>1. CASE Tick
  <2>1. \A t \in Txs : age[t] \in 0..TTL
    BY DEF PoolInv, TypeOK, TableTypes
  <2>2. \A t \in Txs : age[t] < TTL => age[t] + 1 \in 0..TTL
    BY <1>0, <2>1
  <2>3. TableTypes'
    BY <1>1, <2>1, <2>2 DEF Tick, PoolInv, TypeOK, TableTypes
  <2> QED BY <1>1, <2>3, TablesFrame
          DEF Tick, PoolInv, TypeOK, NodeTypes, ProcessTypes, PoolBudgetTypes,
              nodeVars, taskVars, budgetVars
<1>2. CASE Sweep
  <2>1. TableTypes'
    BY <1>0, <1>2 DEF Sweep, PoolInv, TypeOK, TableTypes
  <2>2. pending' \subseteq pending /\ UNCHANGED <<rows, replaced>>
    BY <1>2 DEF Sweep
  <2>3. PendingExcludesConfirmed' /\ OnePendingPerNonce'
    BY <2>2 DEF PoolInv, PendingExcludesConfirmed, OnePendingPerNonce, Confirmed, Stored,
                Replaced, Rivals
  <2> QED BY <1>2, <2>1, <2>3
          DEF Sweep, PoolInv, TypeOK, NodeTypes, ProcessTypes, PoolBudgetTypes,
              nodeVars, taskVars, pollVars, budgetVars
<1> QED BY <1>1, <1>2

\* A rewind leaves every surviving row as it was.
LEMMA RewindRows ==
  ASSUME Rewind
  PROVE  \A h \in Heights : rows'[h] # NoBlock => rows'[h] = rows[h]
BY DEF Rewind

\* The block path commits a row or deletes some.
LEMMA BlockStep == PoolInv /\ BlockNext => PoolInv'
<1> SUFFICES ASSUME PoolInv, BlockNext PROVE PoolInv'
  OBVIOUS
<1>1. CASE FetchBlock
  <2>1. PICK h \in 1..tip : block' = [height |-> h, tx |-> chain[h].tx, on |-> chain[h].on]
    BY <1>1 DEF FetchBlock
  <2>2. h \in Heights
    BY <2>1, PoolBounds DEF Heights, PoolInv, TypeOK, NodeTypes
  <2>3. block' \in BlockType
    BY <2>1, <2>2 DEF PoolInv, TypeOK, NodeTypes, ChainType, BlockType
  <2>4. ProcessTypes'
    BY <1>1, <2>3 DEF FetchBlock, PoolInv, TypeOK, ProcessTypes, taskVars, pollVars
  <2> QED BY <1>1, <2>4, TablesFrame
          DEF FetchBlock, PoolInv, TypeOK, NodeTypes, TableTypes, PoolBudgetTypes,
              nodeVars, poolVars, budgetVars
<1>2. CASE CommitBlock
  <2>1. block \in BlockType
    BY <1>2 DEF CommitBlock, PoolInv, TypeOK, ProcessTypes
  <2>2. /\ block.height \in Heights /\ block.tx \in Txs \cup {NoTx}
        /\ block.on \in 0..MaxReorgs
    BY <2>1 DEF BlockType
  <2>3. TableTypes' /\ PendingExcludesConfirmed' /\ OnePendingPerNonce'
    BY <1>2, <2>2, StoreBlockSafe DEF CommitBlock, PoolInv, TypeOK
  <2> QED BY <1>2, <2>3
          DEF CommitBlock, PoolInv, TypeOK, NodeTypes, ProcessTypes, PoolBudgetTypes,
              nodeVars, taskVars, pollVars, budgetVars
<1>3. CASE Rewind
  <2>1. TableTypes'
    BY <1>3 DEF Rewind, PoolInv, TypeOK, TableTypes, poolVars
  <2>2. Confirmed' \subseteq Confirmed
    BY <1>3, RewindRows DEF Confirmed, Stored
  <2>3. PendingExcludesConfirmed' /\ OnePendingPerNonce'
    BY <1>3, <2>2 DEF Rewind, PoolInv, PendingExcludesConfirmed, OnePendingPerNonce,
                      Replaced, Rivals, poolVars
  <2> QED BY <1>3, <2>1, <2>3
          DEF Rewind, PoolInv, TypeOK, NodeTypes, ProcessTypes, PoolBudgetTypes,
              nodeVars, taskVars, pollVars, budgetVars
<1> QED BY <1>1, <1>2, <1>3 DEF BlockNext

\* A restart forgets what was in flight.
LEMMA RestartStep == PoolInv /\ Restart => PoolInv'
<1> SUFFICES ASSUME PoolInv, Restart PROVE PoolInv'
  OBVIOUS
<1>0. MaxCrashes \in Nat /\ QueueCap \in Nat
  BY PoolBounds
<1>1. ProcessTypes'
  <2>1. hashes' \in Seq(Txs) /\ Len(hashes') <= QueueCap
    BY <1>0 DEF Restart
  <2> QED BY <2>1 DEF Restart, PoolInv, TypeOK, ProcessTypes, IdlePoller
<1>2. PoolBudgetTypes'
  BY <1>0 DEF Restart, PoolInv, TypeOK, PoolBudgetTypes
<1> QED BY <1>1, <1>2, TablesFrame
        DEF Restart, PoolInv, TypeOK, NodeTypes, TableTypes, nodeVars, poolVars

LEMMA PoolStep == PoolInv /\ [Next]_vars => PoolInv'
<1> SUFFICES ASSUME PoolInv, [Next]_vars PROVE PoolInv'
  OBVIOUS
<1>1. CASE UNCHANGED vars
  BY <1>1, TablesFrame
  DEF vars, PoolInv, TypeOK, NodeTypes, TableTypes, ProcessTypes, PoolBudgetTypes,
      nodeVars, poolVars, taskVars, pollVars, budgetVars
<1>2. CASE \E w \in Observers : ObserverNext(w)
  BY <1>2, ObserverStep
<1> QED BY <1>1, <1>2, NodeStep, PollerStep, AgeStep, BlockStep, RestartStep DEF Next

\* The tables stay typed and apart, whatever the order of the producers.
THEOREM PoolInvariance == Spec => []PoolInv
<1> QED BY InitPool, PoolStep, PTL DEF Spec

\* Every variable keeps its type, and the hash queue its capacity.
THEOREM PoolTypeCorrect == Spec => []TypeOK
<1>1. PoolInv => TypeOK
  BY DEF PoolInv
<1> QED BY <1>1, PoolInvariance, PTL

\* No interleaving of insertPendingBlobs, insertBlockData and handleReorg
\* leaves a transaction both pending and confirmed.
THEOREM NeverPendingAndConfirmed == Spec => []PendingExcludesConfirmed
<1>1. PoolInv => PendingExcludesConfirmed
  BY DEF PoolInv
<1> QED BY <1>1, PoolInvariance, PTL

\* At most one pending transaction per sender and nonce.
THEOREM OnePerNonce == Spec => []OnePendingPerNonce
<1>1. PoolInv => OnePendingPerNonce
  BY DEF PoolInv
<1> QED BY <1>1, PoolInvariance, PTL

\* What ObservationKept asks of a step.
KeepsSeen ==
  \A h \in Heights : rows'[h] # NoBlock /\ rows'[h].tx \in Txs =>
    LET t == rows'[h].tx
    IN t \in pending \/ (h \in Stored /\ rows[h].tx = t /\ rows[h].seen) => rows'[h].seen

\* A row that stays, or only gains its first-seen time, keeps it.
LEMMA RowKeepsSeen ==
  ASSUME PoolInv, NEW h \in Heights, rows'[h] # NoBlock, rows'[h] = rows[h],
         rows[h].tx \in pending \/ rows[h].seen
  PROVE  rows'[h].seen
BY DEF PoolInv, PendingExcludesConfirmed, Confirmed, Stored

LEMMA StorePendingKeepsSeen ==
  ASSUME PoolInv, NEW t \in Txs, StorePending(t)
  PROVE  KeepsSeen
<1>1. CASE t \in Confirmed \cup Replaced
  <2>1. rows' = [h \in Heights |-> IF h \in Stored /\ rows[h].tx = t
                   THEN [rows[h] EXCEPT !.seen = TRUE] ELSE rows[h]]
    BY <1>1 DEF StorePending
  <2>2. ASSUME NEW h \in Heights, rows'[h] # NoBlock, rows'[h].tx \in Txs,
               rows'[h].tx \in pending \/ (h \in Stored /\ rows[h].tx = rows'[h].tx /\ rows[h].seen)
        PROVE  rows'[h].seen
    <3>1. CASE h \in Stored /\ rows[h].tx = t
      BY <2>1, <3>1 DEF PoolInv, TypeOK, TableTypes, RowType, Stored
    <3>2. CASE ~(h \in Stored /\ rows[h].tx = t)
      <4>1. rows'[h] = rows[h]
        BY <2>1, <3>2
      <4> QED BY <2>2, <4>1, RowKeepsSeen
    <3> QED BY <3>1, <3>2
  <2> QED BY <2>2 DEF KeepsSeen
<1>2. CASE t \notin Confirmed \cup Replaced
  <2>1. rows' = rows
    BY <1>2 DEF StorePending
  <2> QED BY <2>1, RowKeepsSeen DEF KeepsSeen
<1> QED BY <1>1, <1>2

LEMMA StoreBlockKeepsSeen ==
  ASSUME PoolInv, NEW b \in Heights, NEW t, NEW on, StoreBlock(b, t, on)
  PROVE  KeepsSeen
<1> DEFINE kept == b \in Stored /\ rows[b].tx = t /\ rows[b].seen
<1>1. rows' = [rows EXCEPT ![b] = [tx |-> t, on |-> on, seen |-> t \in pending \/ kept]]
  BY DEF StoreBlock
<1>2. rows \in [Heights -> RowType \cup {NoBlock}]
  BY DEF PoolInv, TypeOK, TableTypes
<1>3. ASSUME NEW h \in Heights, rows'[h] # NoBlock, rows'[h].tx \in Txs,
             rows'[h].tx \in pending \/ (h \in Stored /\ rows[h].tx = rows'[h].tx /\ rows[h].seen)
      PROVE  rows'[h].seen
  <2>1. CASE h = b
    <3>1. rows'[b].tx = t /\ rows'[b].seen = (t \in pending \/ kept)
      BY <1>1, <1>2
    <3> QED BY <1>3, <2>1, <3>1
  <2>2. CASE h # b
    <3>1. rows'[h] = rows[h]
      BY <1>1, <1>2, <2>2
    <3> QED BY <1>3, <3>1, RowKeepsSeen
  <2> QED BY <2>1, <2>2
<1> QED BY <1>3 DEF KeepsSeen

\* Promotion, a reprocess of the block and a late store all keep a first-seen
\* time that was on record.
THEOREM ObservationsKept == Spec => ObservationKept
<1>1. PoolInv /\ [Next]_vars => KeepsSeen \/ UNCHANGED vars
  <2> SUFFICES ASSUME PoolInv, Next PROVE KeepsSeen
    OBVIOUS
  <2>1. CASE \E w \in Observers : StoreFetched(w)
    <3>1. PICK w \in Observers : StoreFetched(w)
      BY <2>1
    <3>2. observer[w].tx \in Txs
      BY <3>1 DEF StoreFetched, PoolInv, TypeOK, ProcessTypes, IdleObserver
    <3> QED BY <3>1, <3>2, StorePendingKeepsSeen DEF StoreFetched
  <2>2. CASE StorePolled
    <3>1. PICK t \in poller.todo : StorePending(t)
      BY <2>2 DEF StorePolled
    <3>2. t \in Txs
      BY <3>1 DEF PoolInv, TypeOK, ProcessTypes
    <3> QED BY <3>1, <3>2, StorePendingKeepsSeen
  <2>3. CASE CommitBlock
    <3>1. block.height \in Heights
      BY <2>3 DEF CommitBlock, PoolInv, TypeOK, ProcessTypes, BlockType
    <3> QED BY <2>3, <3>1, StoreBlockKeepsSeen DEF CommitBlock
  <2>4. CASE Rewind
    <3>1. \A h \in Heights : rows'[h] # NoBlock => rows'[h] = rows[h]
      BY <2>4, RewindRows
    <3> QED BY <3>1, RowKeepsSeen DEF KeepsSeen
  <2>5. CASE UNCHANGED rows
    BY <2>5, RowKeepsSeen DEF KeepsSeen
  <2>6. NodeNext \/ Tick \/ Sweep \/ FetchBlock \/ Restart \/ PollerFault => UNCHANGED rows
    BY DEF NodeNext, Mine, Reorg, Submit, Tick, Sweep, FetchBlock, Restart, PollerFault
  <2>7. PollTemplate \/ ListTracked \/ CheckTracked \/ RefreshLiveness => UNCHANGED rows
    BY DEF PollTemplate, ListTracked, CheckTracked, RefreshLiveness
  <2>8. (\E w \in Observers : FetchPending(w)) => UNCHANGED rows
    BY DEF FetchPending
  <2> QED BY <2>1, <2>2, <2>3, <2>4, <2>5, <2>6, <2>7, <2>8
          DEF Next, PollerNext, BlockNext, ObserverNext
<1>2. (KeepsSeen \/ UNCHANGED vars) => [KeepsSeen]_vars
  OBVIOUS
<1> QED BY <1>1, <1>2, PoolInvariance, PTL DEF Spec, ObservationKept, KeepsSeen
-----------------------------------------------------------------------------
(* The sweep.  A pending row ages by one in each interval, and a round ends *)
(* in each.  SeenOften is what a row of a transaction the node holds can    *)
(* age to: it is at most the failed calls, plus one when a round is on its  *)
(* way to the row, plus one when the interval still waits for its round.    *)

\* Whatever the process holds was submitted once.
OnlySent ==
  /\ pool \cup pending \cup poller.todo \subseteq sent
  /\ \A h \in Heights : chain[h].tx \in sent \cup {NoTx}
  /\ \A w \in Observers : observer[w].pc = "fetched" => observer[w].tx \in sent

\* Those the node has held without a break since they were submitted.
Held == pool \ returned

\* The refresh under way is not going to see t: it came after ListTracked, or
\* its check failed.
Missed(t) == poller.pc = "check" /\ t \notin poller.todo \cup poller.live

AgeBound(t) == faults + (IF Missed(t) THEN 0 ELSE 1) + (IF polled THEN 0 ELSE 1)
SeenOften == \A t \in pending \cap Held : age[t] <= AgeBound(t)

SweepInv == PoolInv /\ OnlySent /\ SeenOften

LEMMA InitSweep == Init => OnlySent /\ SeenOften
<1> SUFFICES ASSUME Init PROVE OnlySent /\ SeenOften
  OBVIOUS
<1>1. OnlySent
  BY DEF Init, OnlySent, IdlePoller, IdleObserver
<1>2. SeenOften
  BY DEF Init, SeenOften
<1> QED BY <1>1, <1>2

\* insertPendingBlobs adds at most the transaction it was given, seen now.
LEMMA StorePendingAges ==
  ASSUME TableTypes, NEW t \in Txs, StorePending(t)
  PROVE  /\ pending' \subseteq pending \cup {t}
         /\ \A u \in pending' : age'[u] = 0 \/ (u \in pending /\ age'[u] = age[u])
         /\ pending \ pending' \subseteq Replaced'
<1>1. CASE t \in Confirmed \cup Replaced
  BY <1>1 DEF StorePending, poolVars
<1>2. CASE t \notin Confirmed \cup Replaced
  <2> DEFINE gone == pending \cap Rivals(t)
  <2>1. /\ pending' = (pending \ gone) \cup {t}
        /\ age' = [u \in Txs |-> IF u \in gone \cup {t} THEN 0 ELSE age[u]]
        /\ replaced' = [u \in Txs |-> IF u \in gone THEN t ELSE replaced[u]]
    BY <1>2 DEF StorePending, Supersede
  <2>2. pending \subseteq Txs /\ t # NoTx
    BY TxsAssumption DEF TableTypes
  <2>3. gone \subseteq Replaced'
    BY <2>1, <2>2 DEF Replaced
  <2> QED BY <2>1, <2>2, <2>3
<1> QED BY <1>1, <1>2

\* insertBlockData takes rows away: one to be confirmed, the others replaced.
LEMMA StoreBlockAges ==
  ASSUME TableTypes, NEW h \in Heights, NEW t \in Txs \cup {NoTx}, NEW on \in 0..MaxReorgs,
         StoreBlock(h, t, on)
  PROVE  /\ pending' \subseteq pending
         /\ \A u \in pending' : age'[u] = age[u]
         /\ pending \ pending' \subseteq Confirmed' \cup Replaced'
<1> DEFINE gone == IF t = NoTx THEN {} ELSE pending \cap Rivals(t)
           row == [tx |-> t, on |-> on,
                   seen |-> t \in pending \/ (h \in Stored /\ rows[h].tx = t /\ rows[h].seen)]
<1>1. /\ pending' = pending \ (gone \cup {t})
      /\ age' = [u \in Txs |-> IF u \in gone \cup {t} THEN 0 ELSE age[u]]
      /\ replaced' = [u \in Txs |-> IF u \in gone THEN t ELSE replaced[u]]
      /\ rows' = [rows EXCEPT ![h] = row]
  BY DEF StoreBlock, Supersede
<1>2. pending \subseteq Txs
  BY DEF TableTypes
<1>3. gone \subseteq Replaced'
  BY <1>1, <1>2 DEF Replaced
<1>4. t \in Confirmed'
  <2>1. (t \in pending \/ (h \in Stored /\ rows[h].tx = t /\ rows[h].seen)) \in BOOLEAN
    BY DEF TableTypes, RowType, Stored
  <2>2. row \in RowType
    BY <2>1 DEF RowType
  <2>3. rows'[h] = row /\ rows'[h].tx = t
    BY <1>1 DEF TableTypes
  <2>4. rows'[h] # NoBlock
    BY <2>2, <2>3, NoBlockAssumption
  <2> QED BY <2>3, <2>4 DEF Confirmed, Stored
<1> QED BY <1>1, <1>2, <1>3, <1>4

\* What the node adds to its pool is new to the process, or was returned.
LEMMA NodeHolds ==
  ASSUME PoolInv, OnlySent, NodeNext
  PROVE  OnlySent' /\ pending \cap Held' \subseteq Held
<1>0. MaxBlocks \in Nat
  BY PoolBounds
<1>1. CASE \E t \in Txs : Submit(t)
  <2>1. PICK t \in Txs : Submit(t)
    BY <1>1
  <2>2. OnlySent'
    BY <2>1 DEF Submit, OnlySent, PoolInv, TypeOK, NodeTypes, ProcessTypes, pollVars, poolVars
  <2> QED BY <2>1, <2>2 DEF Submit, OnlySent, Held
<1>2. CASE Mine
  <2>1. PICK t \in Includable(Mined) :
          /\ chain' = [chain EXCEPT ![tip + 1] = [tx |-> t, on |-> reorgs]]
          /\ pool' = IF t = NoTx THEN pool ELSE pool \ ({t} \cup Rivals(t))
    BY <1>2 DEF Mine
  <2>2. t \in sent \cup {NoTx}
    BY DEF Includable
  <2>3. \A h \in Heights : chain'[h].tx \in {t, chain[h].tx}
    BY <2>1 DEF PoolInv, TypeOK, NodeTypes
  <2>4. OnlySent'
    BY <1>2, <2>1, <2>2, <2>3 DEF Mine, OnlySent, taskVars, pollVars, poolVars
  <2> QED BY <1>2, <2>1, <2>4 DEF Mine, Held
<1>3. CASE Reorg
  <2> DEFINE kept == {chain[h].tx : h \in 1..(tip - 1)}
             old == chain[tip].tx
             back(t) == {old} \ ({t, NoTx} \cup (IF t = NoTx THEN {} ELSE Rivals(t)))
  <2>1. PICK t \in Includable(kept) :
          /\ chain' = [chain EXCEPT ![tip] = [tx |-> t, on |-> reorgs + 1]]
          /\ pool' = (pool \ (IF t = NoTx THEN {} ELSE {t} \cup Rivals(t))) \cup back(t)
          /\ returned' = returned \cup back(t)
    BY <1>3 DEF Reorg
  <2>2. t \in sent \cup {NoTx}
    BY DEF Includable
  <2>3. \A h \in Heights : chain'[h].tx \in {t, chain[h].tx}
    BY <2>1 DEF PoolInv, TypeOK, NodeTypes
  <2>4. old \in sent \cup {NoTx}
    <3>1. tip \in Heights
      BY <1>0, <1>3 DEF Reorg, PoolInv, TypeOK, NodeTypes, Heights
    <3> QED BY <3>1 DEF OnlySent
  <2>5. back(t) \subseteq sent
    BY <2>4
  <2>6. OnlySent'
    BY <1>3, <2>1, <2>2, <2>3, <2>5 DEF Reorg, OnlySent, taskVars, pollVars, poolVars
  <2> QED BY <2>1, <2>6 DEF Held
<1> QED BY <1>1, <1>2, <1>3 DEF NodeNext

\* The bound is a number.
LEMMA BoundType ==
  ASSUME PoolInv, NEW t
  PROVE  AgeBound(t) \in Nat /\ faults \in Nat /\ polled \in BOOLEAN
BY PoolBounds DEF PoolInv, TypeOK, ProcessTypes, PoolBudgetTypes, AgeBound, Missed

LEMMA AgeType ==
  ASSUME PoolInv, NEW t \in pending
  PROVE  t \in Txs /\ age[t] \in 0..TTL /\ age[t] \in Nat
BY PoolBounds DEF PoolInv, TypeOK, TableTypes

\* A step that seats no new row, renews or keeps the ages, and takes nothing
\* from the bound, leaves the rows as fresh as they were.
LEMMA SeenFrame ==
  ASSUME PoolInv, PoolInv', SeenOften,
         \A t \in pending' \cap Held' :
            \/ age'[t] = 0
            \/ t \in pending \cap Held /\ age'[t] = age[t] /\ AgeBound(t) <= AgeBound(t)'
  PROVE  SeenOften'
<1> SUFFICES ASSUME NEW t \in pending' \cap Held' PROVE age'[t] <= AgeBound(t)'
  BY DEF SeenOften
<1>1. AgeBound(t) \in Nat /\ AgeBound(t)' \in Nat
  <2>1. faults' \in Nat /\ polled' \in BOOLEAN
    BY PoolBounds DEF PoolInv, TypeOK, PoolBudgetTypes, ProcessTypes
  <2>2. AgeBound(t)' \in Nat
    BY <2>1 DEF AgeBound, Missed
  <2> QED BY <2>2, BoundType
<1>2. CASE age'[t] = 0
  BY <1>1, <1>2
<1>3. CASE t \in pending \cap Held /\ age'[t] = age[t] /\ AgeBound(t) <= AgeBound(t)'
  <2>1. age[t] \in Nat
    BY <1>3, AgeType
  <2> QED BY <1>1, <1>3, <2>1 DEF SeenOften
<1> QED BY <1>2, <1>3

\* The node's steps leave the ages of the rows, and the round, alone.
LEMMA NodeSweep == SweepInv /\ NodeNext => OnlySent' /\ SeenOften'
<1> SUFFICES ASSUME SweepInv, NodeNext PROVE OnlySent' /\ SeenOften'
  OBVIOUS
<1>1. PoolInv' /\ OnlySent' /\ pending \cap Held' \subseteq Held
  BY NodeStep, NodeHolds DEF SweepInv
<1>2. UNCHANGED <<pending, age, poller, polled, faults>>
  BY DEF NodeNext, Submit, Mine, Reorg, poolVars, pollVars, budgetVars
<1>3. ASSUME NEW t PROVE AgeBound(t) = AgeBound(t)'
  BY <1>2 DEF AgeBound, Missed
<1>4. ASSUME NEW t PROVE AgeBound(t) <= AgeBound(t)'
  BY <1>3, BoundType DEF SweepInv
<1> QED BY <1>1, <1>2, <1>4, SeenFrame DEF SweepInv

\* An observer asks the node about a hash and stores what it has then.
LEMMA ObserverSweep ==
  ASSUME SweepInv, NEW w \in Observers, ObserverNext(w)
  PROVE  OnlySent' /\ SeenOften'
<1>0. PoolInv'
  BY ObserverStep DEF SweepInv
<1>1. CASE FetchPending(w)
  <2>1. OnlySent'
    BY <1>1 DEF FetchPending, SweepInv, OnlySent, PoolInv, TypeOK, ProcessTypes,
                nodeVars, poolVars, pollVars
  <2>2. UNCHANGED <<pool, returned, pending, age, poller, polled>>
    BY <1>1 DEF FetchPending, nodeVars, poolVars, pollVars
  <2>3. faults \in Nat /\ faults' \in Nat /\ faults <= faults'
    BY <1>0, <1>1, PoolBounds DEF FetchPending, SweepInv, PoolInv, TypeOK, PoolBudgetTypes
  <2>4. ASSUME NEW t PROVE AgeBound(t) <= AgeBound(t)'
    <3>1. Missed(t)' = Missed(t) /\ polled' = polled
      BY <2>2 DEF Missed
    <3>2. AgeBound(t)' = AgeBound(t) + (faults' - faults)
      BY <2>3, <3>1, BoundType DEF AgeBound, SweepInv
    <3> QED BY <2>3, <3>2, BoundType DEF SweepInv
  <2> QED BY <1>0, <2>1, <2>2, <2>4, SeenFrame DEF SweepInv, Held
<1>2. CASE StoreFetched(w)
  <2>1. observer[w].tx \in Txs /\ observer[w].tx \in sent
    BY <1>2 DEF StoreFetched, SweepInv, OnlySent, PoolInv, TypeOK, ProcessTypes, IdleObserver
  <2>2. /\ pending' \subseteq pending \cup {observer[w].tx}
        /\ \A u \in pending' : age'[u] = 0 \/ (u \in pending /\ age'[u] = age[u])
    BY <1>2, <2>1, StorePendingAges DEF StoreFetched, SweepInv, PoolInv, TypeOK
  <2>3. UNCHANGED <<pool, sent, chain, returned, poller, polled, faults>>
    BY <1>2 DEF StoreFetched, nodeVars, pollVars, budgetVars
  <2>4. OnlySent'
    <3>1. \A v \in Observers : observer'[v] \in {observer[v], IdleObserver}
      BY <1>2 DEF StoreFetched, SweepInv, PoolInv, TypeOK, ProcessTypes
    <3> QED BY <2>1, <2>2, <2>3, <3>1 DEF SweepInv, OnlySent, IdleObserver
  <2>5. ASSUME NEW t PROVE AgeBound(t) = AgeBound(t)'
    BY <2>3 DEF AgeBound, Missed
  <2>6. ASSUME NEW t PROVE AgeBound(t) <= AgeBound(t)'
    BY <2>5, BoundType DEF SweepInv
  <2> QED BY <1>0, <2>2, <2>3, <2>4, <2>6, SeenFrame DEF SweepInv, Held
<1> QED BY <1>1, <1>2 DEF ObserverNext

\* A round: what is listed is on its way to be seen, and the refresh only
\* misses what it does not list.  A failed call is one more in the bound.
LEMMA PollerSweep == SweepInv /\ (PollerNext \/ PollerFault) => OnlySent' /\ SeenOften'
<1> SUFFICES ASSUME SweepInv, PollerNext \/ PollerFault PROVE OnlySent' /\ SeenOften'
  OBVIOUS
<1>0. /\ PoolInv /\ PoolInv' /\ OnlySent /\ SeenOften
      /\ faults \in Nat /\ polled \in BOOLEAN
      /\ poller \in [pc : {"idle", "store", "check"}, todo : SUBSET Txs, live : SUBSET Txs]
  BY PollerStep, BoundType DEF SweepInv, PoolInv, TypeOK, ProcessTypes
<1>1. CASE PollTemplate \/ ListTracked \/ CheckTracked
  <2>1. UNCHANGED <<pool, sent, chain, returned, pending, age, observer, polled, faults>>
    BY <1>1 DEF PollTemplate, ListTracked, CheckTracked, nodeVars, poolVars, taskVars, budgetVars
  <2>2. poller'.todo \subseteq sent
    <3>1. CASE PollTemplate
      BY <1>0, <3>1 DEF PollTemplate, OnlySent
    <3>2. CASE ListTracked
      BY <1>0, <3>2 DEF ListTracked, OnlySent
    <3>3. CASE CheckTracked
      BY <1>0, <3>3 DEF CheckTracked, OnlySent
    <3> QED BY <1>1, <3>1, <3>2, <3>3
  <2>3. OnlySent'
    BY <1>0, <2>1, <2>2 DEF OnlySent
  <2>4. ASSUME NEW t \in pending \cap pool, Missed(t)' PROVE Missed(t)
    <3>1. CASE PollTemplate
      BY <1>0, <2>4, <3>1 DEF PollTemplate, Missed
    <3>2. CASE ListTracked
      BY <1>0, <2>4, <3>2 DEF ListTracked, Missed
    <3>3. CASE CheckTracked
      BY <1>0, <2>4, <3>3 DEF CheckTracked, Missed
    <3> QED BY <1>1, <3>1, <3>2, <3>3
  <2>5. ASSUME NEW t \in pending \cap pool PROVE AgeBound(t) <= AgeBound(t)'
    BY <1>0, <2>1, <2>4 DEF AgeBound
  <2> QED BY <1>0, <2>1, <2>3, <2>5, SeenFrame DEF Held
<1>2. CASE StorePolled
  <2>1. PICK t \in poller.todo : StorePending(t) /\ poller' = [poller EXCEPT !.todo = @ \ {t}]
    BY <1>2 DEF StorePolled
  <2>2. t \in Txs /\ t \in sent
    BY <1>0, <2>1 DEF OnlySent
  <2>3. /\ pending' \subseteq pending \cup {t}
        /\ \A u \in pending' : age'[u] = 0 \/ (u \in pending /\ age'[u] = age[u])
    BY <1>0, <2>1, <2>2, StorePendingAges DEF PoolInv, TypeOK
  <2>4. UNCHANGED <<pool, sent, chain, returned, observer, polled, faults>>
    BY <1>2 DEF StorePolled, nodeVars, taskVars, budgetVars
  <2>5. poller.pc = "store" /\ poller'.pc = "store" /\ poller'.todo \subseteq poller.todo
    BY <1>0, <1>2, <2>1 DEF StorePolled
  <2>6. OnlySent'
    BY <1>0, <2>2, <2>3, <2>4, <2>5 DEF OnlySent
  <2>7. ASSUME NEW u PROVE AgeBound(u) <= AgeBound(u)'
    BY <1>0, <2>4, <2>5 DEF AgeBound, Missed
  <2> QED BY <1>0, <2>3, <2>4, <2>6, <2>7, SeenFrame DEF Held
<1>3. CASE RefreshLiveness
  <2>1. /\ poller.pc = "check" /\ poller.todo = {} /\ poller' = IdlePoller /\ polled' = TRUE
        /\ age' = [t \in Txs |-> IF t \in poller.live THEN 0 ELSE age[t]]
        /\ UNCHANGED <<pool, sent, chain, returned, pending, observer, faults>>
    BY <1>3 DEF RefreshLiveness, nodeVars, taskVars, budgetVars
  <2>2. OnlySent'
    BY <1>0, <2>1 DEF OnlySent, IdlePoller
  <2>3. ASSUME NEW t \in pending \cap Held, age'[t] # 0
        PROVE  age'[t] = age[t] /\ AgeBound(t) <= AgeBound(t)'
    <3>1. t \in Txs
      BY <1>0, AgeType
    <3>2. Missed(t) /\ age'[t] = age[t]
      BY <2>1, <2>3, <3>1 DEF Missed
    <3> QED BY <1>0, <2>1, <3>2 DEF AgeBound, Missed, IdlePoller
  <2> QED BY <1>0, <2>1, <2>2, <2>3, SeenFrame DEF Held
<1>4. CASE PollerFault
  <2>1. /\ faults' = faults + 1
        /\ UNCHANGED <<pool, sent, chain, returned, pending, age, observer>>
    BY <1>4 DEF PollerFault, nodeVars, poolVars, taskVars
  <2>2. poller'.todo \subseteq poller.todo
    BY <1>0, <1>4 DEF PollerFault, IdlePoller
  <2>3. OnlySent'
    BY <1>0, <2>1, <2>2 DEF OnlySent
  <2>4. polled' = polled \/ (polled' = TRUE /\ poller'.pc = "idle")
    BY <1>0, <1>4 DEF PollerFault, IdlePoller
  <2>5. ASSUME NEW t PROVE AgeBound(t) <= AgeBound(t)'
    BY <1>0, <2>1, <2>4 DEF AgeBound, Missed
  <2> QED BY <1>0, <2>1, <2>3, <2>5, SeenFrame DEF Held
<1> QED BY <1>1, <1>2, <1>3, <1>4 DEF PollerNext

\* An interval that had its round adds one to the ages and one to the bound.
LEMMA AgeSweep == SweepInv /\ (Tick \/ Sweep) => OnlySent' /\ SeenOften'
<1> SUFFICES ASSUME SweepInv, Tick \/ Sweep PROVE OnlySent' /\ SeenOften'
  OBVIOUS
<1>0. PoolInv /\ PoolInv' /\ OnlySent /\ SeenOften /\ faults \in Nat
  BY AgeStep, BoundType DEF SweepInv
<1>1. CASE Tick
  <2>1. /\ polled /\ ~polled'
        /\ age' = [t \in Txs |-> IF t \in pending /\ age[t] < TTL THEN age[t] + 1 ELSE age[t]]
        /\ UNCHANGED <<pool, sent, chain, returned, pending, observer, poller, faults>>
    BY <1>1 DEF Tick, nodeVars, taskVars, budgetVars
  <2>2. OnlySent'
    BY <1>0, <2>1 DEF OnlySent
  <2>3. ASSUME NEW t \in pending' \cap Held' PROVE age'[t] <= AgeBound(t)'
    <3>1. t \in pending \cap Held /\ t \in Txs /\ age[t] \in Nat
      BY <1>0, <2>1, AgeType DEF Held
    <3>2. age'[t] <= age[t] + 1
      BY <2>1, <3>1
    <3>3. age'[t] \in Nat
      BY <2>1, <3>1
    <3>4. age[t] <= AgeBound(t) /\ AgeBound(t) \in Nat
      BY <1>0, <3>1, BoundType DEF SeenOften
    <3>5. AgeBound(t)' = AgeBound(t) + 1
      BY <1>0, <2>1 DEF AgeBound, Missed
    <3> QED BY <3>1, <3>2, <3>3, <3>4, <3>5
  <2> QED BY <2>2, <2>3 DEF SeenOften
<1>2. CASE Sweep
  <2>1. /\ pending' = {t \in pending : age[t] < TTL}
        /\ age' = [t \in Txs |-> IF age[t] = TTL THEN 0 ELSE age[t]]
        /\ UNCHANGED <<pool, sent, chain, returned, observer, poller, polled, faults>>
    BY <1>2 DEF Sweep, nodeVars, taskVars, pollVars, budgetVars
  <2>2. OnlySent'
    BY <1>0, <2>1 DEF OnlySent
  <2>3. \A t \in pending' : t \in pending /\ (age'[t] = 0 \/ age'[t] = age[t])
    BY <1>0, <2>1, AgeType
  <2>4. ASSUME NEW t PROVE AgeBound(t) <= AgeBound(t)'
    BY <1>0, <2>1 DEF AgeBound, Missed
  <2> QED BY <1>0, <2>1, <2>2, <2>3, <2>4, SeenFrame DEF Held
<1> QED BY <1>1, <1>2

\* The block path only takes rows away, and a restart the round under way.
LEMMA BlockSweep == SweepInv /\ (BlockNext \/ Restart) => OnlySent' /\ SeenOften'
<1> SUFFICES ASSUME SweepInv, BlockNext \/ Restart PROVE OnlySent' /\ SeenOften'
  OBVIOUS
<1>0. PoolInv /\ PoolInv' /\ OnlySent /\ SeenOften /\ faults \in Nat
  BY BlockStep, RestartStep, BoundType DEF SweepInv
<1>1. UNCHANGED <<pool, sent, chain, returned, polled, faults>>
  BY DEF BlockNext, FetchBlock, CommitBlock, Rewind, Restart, nodeVars, pollVars, budgetVars
<1>2. pending' \subseteq pending /\ \A t \in pending' : age'[t] = age[t]
  <2>1. CASE CommitBlock
    <3>1. /\ block.height \in Heights /\ block.tx \in Txs \cup {NoTx}
          /\ block.on \in 0..MaxReorgs
      BY <1>0, <2>1 DEF CommitBlock, PoolInv, TypeOK, ProcessTypes, BlockType
    <3> QED BY <1>0, <2>1, <3>1, StoreBlockAges DEF CommitBlock, PoolInv, TypeOK
  <2>2. CASE FetchBlock \/ Rewind \/ Restart
    BY <2>2 DEF FetchBlock, Rewind, Restart, poolVars
  <2> QED BY <2>1, <2>2 DEF BlockNext
<1>3. poller' \in {poller, IdlePoller} /\ \A w \in Observers : observer'[w] \in {observer[w], IdleObserver}
  BY DEF BlockNext, FetchBlock, CommitBlock, Rewind, Restart, taskVars, pollVars
<1>4. OnlySent'
  BY <1>0, <1>1, <1>2, <1>3 DEF OnlySent, IdlePoller, IdleObserver
<1>5. ASSUME NEW t PROVE AgeBound(t) <= AgeBound(t)'
  BY <1>0, <1>1, <1>3 DEF AgeBound, Missed, IdlePoller
<1> QED BY <1>0, <1>1, <1>2, <1>4, <1>5, SeenFrame DEF Held

LEMMA SweepStep == SweepInv /\ [Next]_vars => SweepInv'
<1> SUFFICES ASSUME SweepInv, [Next]_vars PROVE OnlySent' /\ SeenOften'
  BY PoolStep DEF SweepInv
<1>1. CASE UNCHANGED vars
  BY <1>1 DEF vars, nodeVars, poolVars, taskVars, pollVars, budgetVars,
              SweepInv, OnlySent, SeenOften, Held, AgeBound, Missed
<1>2. CASE \E w \in Observers : ObserverNext(w)
  BY <1>2, ObserverSweep
<1> QED BY <1>1, <1>2, NodeSweep, PollerSweep, AgeSweep, BlockSweep DEF Next

\* However the rounds, the intervals and the producers interleave, a row of a
\* transaction the node has held since it was submitted stays within its bound.
THEOREM HeldRowsSeenOften == Spec => []SweepInv
<1>1. Init => SweepInv
  BY InitPool, InitSweep DEF SweepInv
<1> QED BY <1>1, SweepStep, PTL DEF Spec

\* What LiveNeverSwept asks of a step.
TakesNoHeldRow ==
  \A t \in pending \ pending' : t \in pool \ returned => t \in Confirmed' \cup Replaced'

\* mempool_ttl of three polling intervals, and one more for each failed call,
\* is enough: cleanupStalePendingBlobs never takes a held row.
THEOREM HeldRowsNeverSwept ==
  ASSUME TTL >= 3 + MaxFaults
  PROVE  Spec => LiveNeverSwept
<1>1. SweepInv /\ [Next]_vars => TakesNoHeldRow \/ UNCHANGED vars
  <2> SUFFICES ASSUME SweepInv, Next PROVE TakesNoHeldRow
    OBVIOUS
  <2>0. PoolInv /\ OnlySent /\ SeenOften /\ TableTypes
    BY DEF SweepInv, PoolInv, TypeOK
  <2>1. CASE \E w \in Observers : StoreFetched(w)
    <3>1. PICK w \in Observers : StoreFetched(w)
      BY <2>1
    <3>2. observer[w].tx \in Txs
      BY <2>0, <3>1 DEF StoreFetched, PoolInv, TypeOK, ProcessTypes, IdleObserver
    <3> QED BY <2>0, <3>1, <3>2, StorePendingAges DEF StoreFetched, TakesNoHeldRow
  <2>2. CASE StorePolled
    <3>1. PICK t \in poller.todo : StorePending(t)
      BY <2>2 DEF StorePolled
    <3>2. t \in Txs
      BY <2>0, <3>1 DEF PoolInv, TypeOK, ProcessTypes
    <3> QED BY <2>0, <3>1, <3>2, StorePendingAges DEF TakesNoHeldRow
  <2>3. CASE CommitBlock
    <3>1. /\ block.height \in Heights /\ block.tx \in Txs \cup {NoTx}
          /\ block.on \in 0..MaxReorgs
      BY <2>0, <2>3 DEF CommitBlock, PoolInv, TypeOK, ProcessTypes, BlockType
    <3> QED BY <2>0, <2>3, <3>1, StoreBlockAges DEF CommitBlock, TakesNoHeldRow
  <2>4. CASE Sweep
    <3>1. ASSUME NEW t \in pending \cap Held PROVE age[t] < TTL
      <4>1. age[t] \in Nat /\ age[t] <= AgeBound(t)
        BY <2>0, AgeType DEF SeenOften
      <4>2. faults \in Nat /\ faults <= MaxFaults /\ MaxFaults \in Nat /\ TTL \in Nat
        BY <2>0, PoolBounds DEF PoolInv, TypeOK, PoolBudgetTypes
      <4>3. AgeBound(t) <= faults + 2 /\ AgeBound(t) \in Nat
        BY <4>2 DEF AgeBound
      <4> QED BY <4>1, <4>2, <4>3
    <3> QED BY <2>4, <3>1 DEF Sweep, TakesNoHeldRow, Held
  <2>5. CASE UNCHANGED pending
    BY <2>5 DEF TakesNoHeldRow
  <2>6. NodeNext \/ Tick \/ FetchBlock \/ Rewind \/ Restart \/ PollerFault => UNCHANGED pending
    BY DEF NodeNext, Mine, Reorg, Submit, Tick, FetchBlock, Rewind, Restart, PollerFault, poolVars
  <2>7. PollTemplate \/ ListTracked \/ CheckTracked \/ RefreshLiveness => UNCHANGED pending
    BY DEF PollTemplate, ListTracked, CheckTracked, RefreshLiveness, poolVars
  <2>8. (\E w \in Observers : FetchPending(w)) => UNCHANGED pending
    BY DEF FetchPending, poolVars
  <2> QED BY <2>1, <2>2, <2>3, <2>4, <2>5, <2>6, <2>7, <2>8
          DEF Next, PollerNext, BlockNext, ObserverNext
<1>2. (TakesNoHeldRow \/ UNCHANGED vars) => [TakesNoHeldRow]_vars
  OBVIOUS
<1> QED BY <1>1, <1>2, HeldRowsSeenOften, PTL DEF Spec, LiveNeverSwept, TakesNoHeldRow
=============================================================================
