------------------------ MODULE BlockIndexer_proofs ------------------------
(***************************************************************************)
(* Proofs about BlockIndexer, for every value of its constants.            *)
(***************************************************************************)
EXTENDS BlockIndexer, Numbers, SequenceTheorems, TLAPS

-----------------------------------------------------------------------------
(* Facts about the operators of the model.                                  *)

\* A rewind to fork invalidates every row above it and the block that exposed
\* it, and heights only.
LEMMA InvalidatedRange ==
  ASSUME TypeOK, NEW fork \in Heights, NEW from \in Heights, fork < from
  PROVE  /\ Invalidated(fork, from) \subseteq Heights
         /\ from \in Invalidated(fork, from)
         /\ \A h \in Rows : fork < h => h \in Invalidated(fork, from)
<1> DEFINE S == Rows \cup {fork, from}
<1>1. MaxHeight \in Nat
  BY SizesAssumption
<1>2. S \in SUBSET (0..MaxHeight) /\ S # {}
  BY DEF Rows, Heights
<1>3. Max(S) \in S /\ \A y \in S : y <= Max(S)
  BY <1>1, <1>2, MaxOfHeights
<1>4. Invalidated(fork, from) = (fork + 1)..Max(S)
  BY DEF Invalidated
<1> HIDE DEF S
<1>5. Max(S) \in 0..MaxHeight
  BY <1>2, <1>3
<1>6. Invalidated(fork, from) \subseteq Heights
  BY <1>1, <1>4, <1>5 DEF Heights
<1>7. \A h \in S : fork < h => h \in (fork + 1)..Max(S)
  BY <1>1, <1>2, <1>3, <1>5 DEF Heights
<1> QED BY <1>4, <1>6, <1>7 DEF S

\* The hull of a set of heights contains it.
LEMMA HullContains ==
  ASSUME NEW S \in SUBSET Heights
  PROVE  S \subseteq Hull(S) /\ Hull(S) \subseteq Heights
<1>1. \A h \in S : h <= h
  BY SizesAssumption DEF Heights
<1> QED BY <1>1 DEF Hull

\* What the queue holds after a send and after a receive.
LEMMA QueueRange ==
  ASSUME NEW s \in Seq(Heights)
  PROVE  /\ \A x \in Heights : /\ Append(s, x) \in Seq(Heights)
                               /\ Len(Append(s, x)) = Len(s) + 1
                               /\ Range(Append(s, x)) = Range(s) \cup {x}
         /\ s # <<>> => /\ Head(s) \in Heights /\ Tail(s) \in Seq(Heights)
                        /\ Len(Tail(s)) = Len(s) - 1
                        /\ Range(s) = {Head(s)} \cup Range(Tail(s))
<1>1. ASSUME NEW x \in Heights
      PROVE  /\ Append(s, x) \in Seq(Heights) /\ Len(Append(s, x)) = Len(s) + 1
             /\ Range(Append(s, x)) = Range(s) \cup {x}
  <2>1. /\ Append(s, x) \in Seq(Heights) /\ Len(Append(s, x)) = Len(s) + 1
        /\ \A i \in 1..Len(s) : Append(s, x)[i] = s[i]
        /\ Append(s, x)[Len(s) + 1] = x
    OBVIOUS
  <2>2. DOMAIN Append(s, x) = (DOMAIN s) \cup {Len(s) + 1} /\ DOMAIN s = 1..Len(s)
    BY <2>1
  <2> QED BY <2>1, <2>2 DEF Range
<1>2. ASSUME s # <<>>
      PROVE  /\ Head(s) \in Heights /\ Tail(s) \in Seq(Heights) /\ Len(Tail(s)) = Len(s) - 1
             /\ Range(s) = {Head(s)} \cup Range(Tail(s))
  <2>1. /\ Len(s) \in Nat \ {0} /\ Head(s) = s[1]
        /\ Tail(s) \in Seq(Heights) /\ Len(Tail(s)) = Len(s) - 1
        /\ \A i \in 1..(Len(s) - 1) : Tail(s)[i] = s[i + 1]
    BY <1>2
  <2>2. DOMAIN s = 1..Len(s) /\ DOMAIN Tail(s) = 1..(Len(s) - 1)
    BY <2>1
  <2>3. \A i \in 2..Len(s) : i - 1 \in 1..(Len(s) - 1) /\ s[i] = Tail(s)[i - 1]
    BY <2>1
  <2>4. \A i \in 1..(Len(s) - 1) : i + 1 \in 1..Len(s)
    BY <2>1
  <2>5. \A i \in 1..Len(s) : i = 1 \/ i \in 2..Len(s)
    BY <2>1
  <2>6. Range(s) \subseteq {Head(s)} \cup Range(Tail(s))
    <3>1. SUFFICES ASSUME NEW i \in 1..Len(s)
                   PROVE  s[i] \in {Head(s)} \cup Range(Tail(s))
      BY <2>2 DEF Range
    <3>2. CASE i = 1
      BY <2>1, <3>2
    <3>3. CASE i \in 2..Len(s)
      <4>1. Tail(s)[i - 1] \in Range(Tail(s))
        BY <2>2, <2>3, <3>3 DEF Range
      <4> QED BY <2>3, <3>3, <4>1
    <3> QED BY <2>5, <3>2, <3>3
  <2>7. Range(Tail(s)) \subseteq Range(s)
    BY <2>1, <2>2, <2>4 DEF Range
  <2>8. Head(s) \in Range(s) /\ Head(s) \in Heights
    BY <2>1, <2>2 DEF Range
  <2> QED BY <2>1, <2>6, <2>7, <2>8
<1> QED BY <1>1, <1>2

-----------------------------------------------------------------------------
(* The inductive invariant.                                                 *)

\* The walker sends exactly while it has numbers left.
WalkerInv == walker.pc \in {"batch", "requeue"} <=> walker.todo # {}

\* A worker past the fetch holds a block; a fork scan looks below the block
\* that exposed the reorg and stops at 0; a committed block that lost its row
\* is owed; a fetch that a rewind overtook carries an older epoch.
WorkerOK(w) ==
  /\ worker[w].pc \in {"fetched", "ready", "scan", "rewind", "checked"} => worker[w].on \in Branches
  /\ worker[w].pc = "scan" => 0 < worker[w].fork
  /\ worker[w].pc \in {"scan", "rewind"} => worker[w].fork < worker[w].height
  /\ worker[w].pc \in {"committed", "raised"} => worker[w].height \in Rows \cup owed
  /\ worker[w].epoch <= epoch
  /\ worker[w].stale => worker[w].epoch < epoch
WorkerInv == \A w \in Workers : WorkerOK(w)

\* A scan whose epoch is current works on the marker as it is, and past the
\* coverage check on a marker all of whose heights have rows.
ScannerInv ==
  /\ scanner.epoch <= epoch
  /\ scanner.pc = "coverage" /\ scanner.epoch = epoch => scanner.range = marker
  /\ scanner.pc = "clear" /\ scanner.epoch = epoch => marker \subseteq Rows

\* What is owed has no row and is in the marker.
OwedInv == owed \subseteq marker /\ owed \cap Rows = {}

\* A process that is down has no worker and no scan under way.
StoppedInv ==
  ~running => scanner = StoppedScanner /\ worker = [w \in Workers |-> Idle]

IInv == TypeOK /\ WalkerInv /\ WorkerInv /\ ScannerInv /\ OwedInv /\ StoppedInv

-----------------------------------------------------------------------------
(* Types.                                                                   *)

LEMMA BoundsAreNat ==
  /\ MaxFaults \in Nat /\ MaxCrashes \in Nat /\ MaxSwitches \in Nat /\ QueueCap \in Nat
  /\ MaxBlockRetries \in Nat /\ MaxHeight \in Nat
BY SizesAssumption

\* The variables an action leaves alone keep their types.
LEMMA TypeFrame ==
  ASSUME TypeOK
  PROVE  /\ UNCHANGED nodeVars => NodeTypes'
         /\ UNCHANGED storeVars => StoreTypes'
         /\ UNCHANGED signalVars => SignalTypes'
         /\ UNCHANGED taskVars => TaskTypes'
         /\ UNCHANGED budgetVars => BudgetTypes'
         /\ UNCHANGED walker => walker' \in WalkerType
         /\ UNCHANGED worker => worker' \in [Workers -> WorkerType]'
         /\ UNCHANGED scanner => scanner' \in ScannerType
BY DEF TypeOK, NodeTypes, StoreTypes, SignalTypes, TaskTypes, BudgetTypes,
       nodeVars, storeVars, signalVars, taskVars, budgetVars

\* The initial states have the types.
LEMMA TypeInit == Init => TypeOK
<1> SUFFICES ASSUME Init PROVE TypeOK
  OBVIOUS
<1>1. 0 \in Heights /\ FirstHead \in Heights \ {0} /\ {} \in SUBSET Heights /\ <<>> \in Seq(Heights)
      /\ 0 \in 0..MaxSwitches /\ 0 \in 0..MaxCrashes /\ 0 \in 0..MaxFaults
      /\ 0 \in 0..(MaxHeight + 1) /\ 0 \in 0..MaxBlockRetries /\ QueueCap \in Nat
  BY SizesAssumption DEF Heights
<1>2. NodeTypes /\ StoreTypes
  BY <1>1 DEF Init, NodeTypes, StoreTypes
<1>3. SignalTypes /\ TaskTypes /\ BudgetTypes
  BY <1>1 DEF Init, SignalTypes, TaskTypes, BudgetTypes
<1>4. walker \in WalkerType /\ scanner \in ScannerType /\ worker \in [Workers -> WorkerType]
  BY <1>1 DEF Init, WalkerType, ScannerType, WorkerType, StoppedWalker, StoppedScanner, Idle, WorkerPcs
<1> QED BY <1>2, <1>3, <1>4 DEF TypeOK

LEMMA NodeTypeStep ==
  ASSUME TypeOK
  PROVE  /\ NewHead => TypeOK'
         /\ SwitchBranch => TypeOK'
         /\ FollowHead => TypeOK'
         /\ SendHead => TypeOK'
<1> USE SizesAssumption
<1>1. ASSUME NewHead PROVE TypeOK'
  <2>1. NodeTypes'
    BY <1>1 DEF NewHead, TypeOK, NodeTypes, Heights
  <2> QED BY <1>1, <2>1, TypeFrame DEF NewHead, TypeOK
<1>2. ASSUME SwitchBranch PROVE TypeOK'
  <2>1. NodeTypes'
    BY <1>2 DEF SwitchBranch, TypeOK, NodeTypes, Heights
  <2> QED BY <1>2, <2>1, TypeFrame DEF SwitchBranch, TypeOK
<1>3. ASSUME FollowHead PROVE TypeOK'
  <2>1. NodeTypes'
    BY <1>3 DEF FollowHead, TypeOK, NodeTypes, Heights
  <2> QED BY <1>3, <2>1, TypeFrame DEF FollowHead, TypeOK
<1>4. ASSUME SendHead PROVE TypeOK'
  <2>1. NodeTypes'
    BY <1>4 DEF SendHead, TypeOK, NodeTypes, Heights
  <2>2. TaskTypes'
    <3>1. /\ following \in Heights /\ queue \in Seq(Heights) /\ failed \in SUBSET Heights
          /\ Len(queue) \in Nat /\ Len(queue) <= QueueCap /\ QueueCap \in Nat
      BY SizesAssumption DEF TypeOK, NodeTypes, TaskTypes
    <3>2. queue' = Append(queue, following) /\ Len(queue) < QueueCap /\ UNCHANGED failed
      BY <1>4 DEF SendHead
    <3> QED BY <3>1, <3>2, QueueRange DEF TaskTypes
  <2> QED BY <1>4, <2>1, <2>2, TypeFrame DEF SendHead, TypeOK
<1> QED BY <1>1, <1>2, <1>3, <1>4

\* A start resumes at a height, or one past the last.
LEMMA ResumeBlockRange ==
  ASSUME TypeOK
  PROVE  ResumeBlock \in 0..(MaxHeight + 1)
<1>1. /\ head \in 0..MaxHeight /\ watermark \in 0..MaxHeight /\ backfill.cursor \in 0..MaxHeight
      /\ StartBlock \in 0..MaxHeight /\ MaxHeight \in Nat /\ StartOffset \in Nat
  BY SizesAssumption DEF TypeOK, NodeTypes, StoreTypes, Heights
<1>2. ConfiguredStart \in 0..MaxHeight
  BY <1>1 DEF ConfiguredStart
<1>3. FirstUnindexed(ConfiguredStart, backfill.cursor) \in 0..(MaxHeight + 1)
  <2> DEFINE G == ((ConfiguredStart..backfill.cursor) \ Rows) \cup {backfill.cursor + 1}
  <2>1. G \in SUBSET (0..(MaxHeight + 1)) /\ G # {}
    BY <1>1, <1>2
  <2>2. G \in SUBSET Nat
    BY <2>1
  <2> HIDE DEF G
  <2>3. Min(G) \in G
    BY <2>1, <2>2, MinOfHeights
  <2> QED BY <2>1, <2>3 DEF FirstUnindexed, G
<1>4. Max({watermark + 1, ConfiguredStart}) \in 0..(MaxHeight + 1)
  <2>1. {watermark + 1, ConfiguredStart} \in SUBSET (0..(MaxHeight + 1)) /\ MaxHeight + 1 \in Nat
    BY <1>1, <1>2
  <2>2. {watermark + 1, ConfiguredStart} # {}
    OBVIOUS
  <2> QED BY <2>1, <2>2, MaxOfHeights
<1>5. 0..MaxHeight \subseteq 0..(MaxHeight + 1)
  BY <1>1
<1> QED BY <1>2, <1>3, <1>4, <1>5 DEF ResumeBlock

LEMMA StoppedTypes ==
  /\ StoppedWalker \in WalkerType /\ StoppedScanner \in ScannerType
  /\ [w \in Workers |-> Idle] \in [Workers -> WorkerType] /\ Idle \in WorkerType
<1>1. 0 \in Heights /\ 0 \in 0..(MaxHeight + 1) /\ 0 \in 0..MaxBlockRetries
  BY SizesAssumption DEF Heights
<1> QED BY <1>1 DEF StoppedWalker, StoppedScanner, Idle, WalkerType, ScannerType, WorkerType, WorkerPcs

LEMMA StartTypeStep ==
  ASSUME TypeOK
  PROVE  /\ StartIndexer => TypeOK'
         /\ Crash => TypeOK'
<1>1. ASSUME StartIndexer PROVE TypeOK'
  <2>1. SignalTypes' /\ TaskTypes'
    <3>1. /\ marker \in SUBSET Heights /\ watermark \in Heights /\ StartupGaps \in SUBSET Heights
          /\ {} \in SUBSET Heights /\ 0 \in Nat /\ TaskTypes
      BY DEF TypeOK, StoreTypes, StartupGaps
    <3>2. /\ lastIndexed' = watermark /\ epoch' = 0 /\ UNCHANGED queue
          /\ failed' \in {StartupGaps, {}} /\ reset' \in {marker, {}} /\ signaled' \in BOOLEAN
      BY <1>1 DEF StartIndexer
    <3> QED BY <3>1, <3>2 DEF SignalTypes, TaskTypes
  <2>2. walker' \in WalkerType
    BY <1>1, ResumeBlockRange, StoppedTypes DEF StartIndexer, WalkerType
  <2>3. BudgetTypes'
    BY <1>1, SizesAssumption DEF StartIndexer, TypeOK, BudgetTypes
  <2> QED BY <1>1, <2>1, <2>2, <2>3, TypeFrame DEF StartIndexer, TypeOK
<1>2. ASSUME Crash PROVE TypeOK'
  <2>1. SignalTypes' /\ TaskTypes'
    <3>1. 0 \in Heights /\ <<>> \in Seq(Heights) /\ Len(<<>>) <= QueueCap
      BY SizesAssumption DEF Heights
    <3> QED BY <1>2, <3>1 DEF Crash, SignalTypes, TaskTypes
  <2>2. BudgetTypes'
    <3>1. /\ MaxCrashes \in Nat /\ crashes \in 0..MaxCrashes /\ faults \in 0..MaxFaults
          /\ crashes < MaxCrashes /\ crashes' = crashes + 1 /\ faults' = faults /\ running' = FALSE
      BY <1>2, BoundsAreNat DEF Crash, TypeOK, BudgetTypes
    <3>2. crashes' \in 0..MaxCrashes
      BY <3>1
    <3> QED BY <3>1, <3>2 DEF BudgetTypes
  <2>3. NodeTypes'
    BY <1>2, SizesAssumption DEF Crash, TypeOK, NodeTypes, Heights
  <2> QED BY <1>2, <2>1, <2>2, <2>3, TypeFrame, StoppedTypes DEF Crash, TypeOK
<1> QED BY <1>1, <1>2

\* The end of a batch is a height between the walker and the head.
LEMMA BatchEnd ==
  ASSUME TypeOK, walker.cur <= head
  PROVE  LET end == Min({walker.cur + BatchSize - 1, head})
         IN  end \in Heights /\ walker.cur <= end /\ end <= head
<1>1. walker.cur \in Nat /\ head \in 0..MaxHeight /\ BatchSize \in Nat \ {0} /\ MaxHeight \in Nat
  BY SizesAssumption DEF TypeOK, NodeTypes, WalkerType, Heights
<1>2. walker.cur + BatchSize - 1 \in Nat /\ walker.cur <= walker.cur + BatchSize - 1 /\ head \in Nat
  BY <1>1
<1>3. Min({walker.cur + BatchSize - 1, head}) \in {walker.cur + BatchSize - 1, head}
      /\ Min({walker.cur + BatchSize - 1, head}) <= head
  <2>1. walker.cur + BatchSize - 1 \in Int /\ head \in Int
    BY <1>2
  <2> QED BY <2>1, MinOfTwo
<1> QED BY <1>1, <1>2, <1>3 DEF Heights

LEMMA WriteBackfillTypes ==
  ASSUME TypeOK, NEW state \in [active : BOOLEAN, cursor : Heights], WriteBackfill(state)
  PROVE  backfill' \in [active : BOOLEAN, cursor : Heights] /\ faults' \in 0..MaxFaults
<1>1. /\ MaxFaults \in Nat /\ faults \in 0..MaxFaults
      /\ backfill \in [active : BOOLEAN, cursor : Heights]
  BY BoundsAreNat DEF TypeOK, StoreTypes, BudgetTypes
<1>2. CASE backfill' = state /\ UNCHANGED faults
  BY <1>1, <1>2
<1>3. CASE faults < MaxFaults /\ faults' = faults + 1 /\ UNCHANGED backfill
  BY <1>1, <1>3
<1> QED BY <1>2, <1>3 DEF WriteBackfill

LEMMA WalkerTypeStep ==
  ASSUME TypeOK, WalkerInv
  PROVE  /\ ConsumeReorgReset => TypeOK'
         /\ StartBatch => TypeOK'
         /\ SendTask => TypeOK'
         /\ CheckBackfillCoverage => TypeOK'
         /\ SettleBackfill => TypeOK'
<1>1. ASSUME ConsumeReorgReset PROVE TypeOK'
  <2>1. reset \in SUBSET Heights /\ Min(reset) \in 0..(MaxHeight + 1)
    BY <1>1, SizesAssumption, MinOfHeights
    DEF ConsumeReorgReset, TypeOK, SignalTypes, Heights
  <2>2. walker' \in WalkerType
    BY <1>1, <2>1 DEF ConsumeReorgReset, TypeOK, WalkerType
  <2>3. SignalTypes'
    BY <1>1 DEF ConsumeReorgReset, TypeOK, SignalTypes
  <2> QED BY <1>1, <2>2, <2>3, TypeFrame DEF ConsumeReorgReset, TypeOK
<1>2. ASSUME StartBatch PROVE TypeOK'
  <2> DEFINE end == Min({walker.cur + BatchSize - 1, head})
  <2>1. end \in Heights /\ walker.cur <= end /\ end <= head
    BY <1>2, BatchEnd DEF StartBatch
  <2>2. /\ WriteBackfill([active |-> TRUE, cursor |-> end])
        /\ walker' = [walker EXCEPT
             !.pc = "batch", !.cur = end + 1, !.todo = walker.cur..end, !.phase = TRUE,
             !.start = IF walker.phase THEN walker.start ELSE walker.cur]
    BY <1>2 DEF StartBatch
  <2> HIDE DEF end
  <2>3. end + 1 \in 0..(MaxHeight + 1) /\ walker.cur..end \in SUBSET Heights /\ walker.cur \in Heights
    BY <2>1, SizesAssumption DEF TypeOK, NodeTypes, WalkerType, Heights
  <2>4. walker' \in WalkerType
    BY <2>2, <2>3 DEF TypeOK, WalkerType
  <2>5. backfill' \in [active : BOOLEAN, cursor : Heights] /\ faults' \in 0..MaxFaults
    <3>1. [active |-> TRUE, cursor |-> end] \in [active : BOOLEAN, cursor : Heights]
      BY <2>1
    <3> QED BY <2>2, <3>1, WriteBackfillTypes
  <2>6. StoreTypes' /\ BudgetTypes'
    BY <1>2, <2>5 DEF StartBatch, TypeOK, StoreTypes, BudgetTypes
  <2> QED BY <1>2, <2>4, <2>6, TypeFrame DEF StartBatch, TypeOK
<1>3. ASSUME SendTask PROVE TypeOK'
  <2>1. walker.todo \in SUBSET Heights /\ walker.todo # {}
    BY <1>3 DEF SendTask, TypeOK, WalkerInv, WalkerType
  <2>2. Min(walker.todo) \in Heights
    BY <2>1, SizesAssumption, MinOfHeights DEF Heights
  <2>3. walker' \in WalkerType
    BY <1>3, <2>1 DEF SendTask, TypeOK, WalkerType
  <2>4. TaskTypes'
    BY <1>3, <2>2, SizesAssumption, QueueRange DEF SendTask, TypeOK, TaskTypes
  <2> QED BY <1>3, <2>3, <2>4, TypeFrame DEF SendTask, TypeOK
<1>4. ASSUME CheckBackfillCoverage PROVE TypeOK'
  <2>1. walker' \in WalkerType
    BY <1>4 DEF CheckBackfillCoverage, TypeOK, NodeTypes, WalkerType
  <2> QED BY <1>4, <2>1, TypeFrame DEF CheckBackfillCoverage, TypeOK
<1>5. ASSUME SettleBackfill PROVE TypeOK'
  <2>1. walker.latest \in Heights /\ 0 \in Heights
    BY SizesAssumption DEF TypeOK, WalkerType, Heights
  <2>2. walker' \in WalkerType
    BY <1>5, <2>1 DEF SettleBackfill, TypeOK, WalkerType
  <2>3. backfill' \in [active : BOOLEAN, cursor : Heights] /\ faults' \in 0..MaxFaults
    <3>1. [active |-> FALSE, cursor |-> walker.latest] \in [active : BOOLEAN, cursor : Heights]
      BY <2>1
    <3> QED BY <1>5, <3>1, WriteBackfillTypes DEF SettleBackfill
  <2>4. StoreTypes' /\ BudgetTypes'
    BY <1>5, <2>3 DEF SettleBackfill, TypeOK, StoreTypes, BudgetTypes
  <2> QED BY <1>5, <2>2, <2>4, TypeFrame DEF SettleBackfill, TypeOK
<1> QED BY <1>1, <1>2, <1>3, <1>4, <1>5

\* What giving an attempt up leaves behind.
LEMMA GiveUpTypes ==
  ASSUME TypeOK, NEW w \in Workers, GiveUpOrRetry(w) \/ GiveUp(w)
  PROVE  worker' \in [Workers -> WorkerType] /\ failed' \in SUBSET Heights
<1>1. /\ worker \in [Workers -> WorkerType] /\ failed \in SUBSET Heights /\ epoch \in Nat
      /\ worker[w].height \in Heights /\ worker[w].attempt \in 0..MaxBlockRetries
      /\ MaxBlockRetries \in Nat /\ Idle \in WorkerType
  BY BoundsAreNat, StoppedTypes DEF TypeOK, SignalTypes, TaskTypes, WorkerType
<1>2. CASE ~GiveUp(w)
  <2>1. worker[w].attempt + 1 \in 0..MaxBlockRetries
    <3>1. worker[w].attempt < MaxBlockRetries
      BY <1>2 DEF GiveUpOrRetry
    <3> QED BY <1>1, <3>1
  <2>2. [Idle EXCEPT !.pc = "backoff", !.height = worker[w].height,
                     !.attempt = worker[w].attempt + 1] \in WorkerType
    BY <1>1, <2>1 DEF WorkerType, WorkerPcs
  <2> QED BY <1>1, <1>2, <2>2 DEF GiveUpOrRetry
<1>3. CASE GiveUp(w)
  BY <1>1, <1>3 DEF GiveUp
<1> QED BY <1>2, <1>3

\* A worker whose program counter moves keeps its type.
LEMMA MovedTypes ==
  ASSUME TypeOK, NEW w \in Workers, NEW p \in WorkerPcs
  PROVE  [worker EXCEPT ![w].pc = p] \in [Workers -> WorkerType]
BY DEF TypeOK, WorkerType

\* The hash a worker writes is one of the node's.
LEMMA FetchedHash ==
  ASSUME NEW b \in Branches, NEW h \in Heights
  PROVE  HashAt(b, h) \in Hashes /\ HashAt(b, h) # NoRow
BY HashAssumption DEF HashAt, Hashes

LEMMA WorkerTypeStep ==
  ASSUME TypeOK, WorkerInv, NEW w \in Workers
  PROVE  /\ TakeTask(w) => TypeOK'
         /\ Retry(w) => TypeOK'
         /\ Fetch(w) => TypeOK'
         /\ AwaitPredecessors(w) => TypeOK'
         /\ CheckForReorg(w) => TypeOK'
         /\ ScanForFork(w) => TypeOK'
         /\ Rewind(w) => TypeOK'
         /\ InsertBlockData(w) => TypeOK'
         /\ RaiseWatermark(w) => TypeOK'
         /\ PersistWatermark(w) => TypeOK'
         /\ WorkerFault(w) => TypeOK'
<1>0. /\ worker \in [Workers -> WorkerType] /\ worker[w] \in WorkerType /\ Idle \in WorkerType
      /\ worker[w].height \in Heights /\ worker[w].fork \in Heights /\ epoch \in Nat
      /\ queue \in Seq(Heights) /\ failed \in SUBSET Heights /\ branch \in Branches
  BY StoppedTypes DEF TypeOK, NodeTypes, SignalTypes, TaskTypes, WorkerType
<1>1. ASSUME TakeTask(w) PROVE TypeOK'
  <2>1. /\ Head(queue) \in Heights /\ Tail(queue) \in Seq(Heights)
        /\ Len(queue) \in Nat /\ Len(Tail(queue)) = Len(queue) - 1
    BY <1>0, <1>1, QueueRange DEF TakeTask
  <2>2. TaskTypes'
    BY <1>0, <1>1, <2>1, BoundsAreNat DEF TakeTask, TypeOK, TaskTypes
  <2>3. [Idle EXCEPT !.pc = "sampled", !.height = Head(queue), !.epoch = epoch] \in WorkerType
    BY <1>0, <2>1 DEF WorkerType, WorkerPcs
  <2>4. worker' \in [Workers -> WorkerType]
    BY <1>0, <1>1, <2>3 DEF TakeTask
  <2> QED BY <1>1, <2>2, <2>4, TypeFrame DEF TakeTask, TypeOK
<1>12. ASSUME Retry(w) PROVE TypeOK'
  <2>1. worker' \in [Workers -> WorkerType]
    BY <1>0, <1>12 DEF Retry, WorkerType, WorkerPcs
  <2> QED BY <1>12, <2>1, TypeFrame DEF Retry, TypeOK
<1>2. ASSUME Fetch(w) PROVE TypeOK'
  <2>1. worker' \in [Workers -> WorkerType] /\ failed' \in SUBSET Heights
    <3>1. CASE worker[w].height <= head
      <4>1. /\ worker' = [worker EXCEPT ![w].on = branch,
                  ![w].pc = IF PredecessorSpan = 0 THEN "ready" ELSE "fetched"]
            /\ failed' = failed
        BY <1>2, <3>1 DEF Fetch
      <4> DEFINE r == [worker[w] EXCEPT !.on = branch,
                         !.pc = IF PredecessorSpan = 0 THEN "ready" ELSE "fetched"]
      <4>2. worker[w] \in WorkerType /\ branch \in Branches
        BY <1>0
      <4>3. r \in WorkerType
        BY <4>2 DEF WorkerType, WorkerPcs
      <4>4. worker' = [worker EXCEPT ![w] = r]
        BY <4>1
      <4> HIDE DEF r
      <4> QED BY <1>0, <4>1, <4>3, <4>4
    <3>2. CASE ~(worker[w].height <= head)
      BY <1>2, <3>2, GiveUpTypes DEF Fetch
    <3> QED BY <3>1, <3>2
  <2>2. TaskTypes'
    BY <1>2, <2>1 DEF Fetch, TypeOK, TaskTypes
  <2> QED BY <1>2, <2>1, <2>2, TypeFrame DEF Fetch, TypeOK
<1>3. ASSUME AwaitPredecessors(w) PROVE TypeOK'
  <2>1. worker' \in [Workers -> WorkerType]
    BY <1>3, MovedTypes DEF AwaitPredecessors, WorkerPcs
  <2> QED BY <1>3, <2>1, TypeFrame DEF AwaitPredecessors, TypeOK
<1>4. ASSUME CheckForReorg(w) PROVE TypeOK'
  <2> DEFINE h == worker[w].height
             parent == IF h = 0 THEN NoRow ELSE indexed[h - 1]
             p == IF ScanOver(h, h - 1) THEN "rewind" ELSE "scan"
  <2>1. worker' = IF parent \in {NoRow, HashAt(worker[w].on, h - 1)}
                    THEN [worker EXCEPT ![w].pc = "checked"]
                    ELSE [worker EXCEPT ![w].fork = h - 1, ![w].pc = p]
    BY <1>4 DEF CheckForReorg
  <2>2. CASE parent \in {NoRow, HashAt(worker[w].on, h - 1)}
    <3>1. worker' \in [Workers -> WorkerType]
      BY <2>1, <2>2, MovedTypes DEF WorkerPcs
    <3> QED BY <1>4, <3>1, TypeFrame DEF CheckForReorg, TypeOK
  <2>3. CASE parent \notin {NoRow, HashAt(worker[w].on, h - 1)}
    <3>1. h - 1 \in Heights
      BY <1>0, <2>3, BoundsAreNat DEF Heights
    <3>2. worker' \in [Workers -> WorkerType]
      BY <1>0, <2>1, <2>3, <3>1 DEF WorkerType, WorkerPcs
    <3> QED BY <1>4, <3>2, TypeFrame DEF CheckForReorg, TypeOK
  <2> QED BY <2>2, <2>3
<1>5. ASSUME ScanForFork(w) PROVE TypeOK'
  <2> DEFINE f == worker[w].fork
             p == IF ScanOver(worker[w].height, f - 1) THEN "rewind" ELSE "scan"
  <2>1. f \in Heights /\ f - 1 \in Heights
    <3>1. 0 < f
      BY <1>5 DEF ScanForFork, At, WorkerInv, WorkerOK
    <3> QED BY <1>0, <3>1, BoundsAreNat DEF Heights
  <2>2. worker' \in [Workers -> WorkerType] /\ failed' \in SUBSET Heights
    <3>1. CASE head < f
      BY <1>5, <3>1, GiveUpTypes DEF ScanForFork
    <3>2. CASE ~(head < f)
      <4>1. /\ UNCHANGED failed
            /\ \/ worker' = [worker EXCEPT ![w].pc = "rewind"]
               \/ worker' = [worker EXCEPT ![w].fork = f - 1, ![w].pc = p]
        BY <1>5, <3>2 DEF ScanForFork
      <4>2. CASE worker' = [worker EXCEPT ![w].pc = "rewind"]
        BY <1>0, <4>1, <4>2, MovedTypes DEF WorkerPcs
      <4>3. CASE worker' = [worker EXCEPT ![w].fork = f - 1, ![w].pc = p]
        <5>1. p \in WorkerPcs
          BY DEF WorkerPcs
        <5> QED BY <1>0, <2>1, <4>1, <4>3, <5>1 DEF WorkerType
      <4> QED BY <4>1, <4>2, <4>3
    <3> QED BY <3>1, <3>2
  <2>3. TaskTypes'
    BY <1>5, <2>2 DEF ScanForFork, TypeOK, TaskTypes
  <2> QED BY <1>5, <2>2, <2>3, TypeFrame DEF ScanForFork, TypeOK
<1>6. ASSUME Rewind(w) PROVE TypeOK'
  <2> DEFINE fork == worker[w].fork
             range == Invalidated(fork, worker[w].height)
             merged == Hull(marker \cup range)
  <2>1. /\ indexed' = [h \in Heights |-> IF fork < h THEN NoRow ELSE indexed[h]]
        /\ owed' = owed \cup {h \in Rows : fork < h}
        /\ marker' = merged /\ watermark' = fork /\ lastIndexed' = fork /\ epoch' = epoch + 1
        /\ reset' = Raise(IF signaled THEN range ELSE merged) /\ signaled' = TRUE
        /\ worker' = [v \in Workers |-> IF v = w THEN Idle
                        ELSE [worker[v] EXCEPT !.stale = (worker[v].on # NoRow)]]
        /\ UNCHANGED <<nodeVars, backfill, taskVars, budgetVars, walker, scanner>>
    BY <1>6 DEF Rewind
  <2>2. merged \in SUBSET Heights /\ range \in SUBSET Heights
    <3>1. fork < worker[w].height
      BY <1>6 DEF Rewind, At, WorkerInv, WorkerOK
    <3> QED BY <1>0, <3>1, InvalidatedRange DEF Hull
  <2>3. Raise(IF signaled THEN range ELSE merged) \in SUBSET Heights
    BY <2>2 DEF Raise, Hull
  <2> HIDE DEF range, merged
  <2>4. StoreTypes'
    BY <1>0, <2>1, <2>2 DEF TypeOK, StoreTypes, Rows
  <2>5. SignalTypes'
    BY <1>0, <2>1, <2>3 DEF SignalTypes
  <2>6. worker' \in [Workers -> WorkerType]
    BY <1>0, <2>1 DEF WorkerType
  <2> QED BY <2>1, <2>4, <2>5, <2>6, TypeFrame DEF TypeOK
<1>7. ASSUME InsertBlockData(w) PROVE TypeOK'
  <2>0. /\ NodeTypes' /\ SignalTypes' /\ BudgetTypes'
        /\ walker' \in WalkerType /\ scanner' \in ScannerType
    <3>1. UNCHANGED <<nodeVars, signalVars, budgetVars, walker, scanner>>
      BY <1>7 DEF InsertBlockData
    <3> QED BY <3>1, TypeFrame
  <2>1. HashAt(worker[w].on, worker[w].height) \in Hashes
    BY <1>0, <1>7, FetchedHash DEF InsertBlockData, At, WorkerInv, WorkerOK
  <2>2. CASE worker[w].epoch = epoch
    <3>1. StoreTypes' /\ TaskTypes'
      <4>1. StoreTypes'
        BY <1>7, <2>1, <2>2 DEF InsertBlockData, TypeOK, StoreTypes
      <4>2. TaskTypes'
        BY <1>7, <2>2 DEF InsertBlockData, TypeOK, TaskTypes
      <4> QED BY <4>1, <4>2
    <3>2. worker' \in [Workers -> WorkerType]
      <4>1. worker' = [worker EXCEPT ![w].pc = "committed"]
        BY <1>7, <2>2 DEF InsertBlockData
      <4>2. "committed" \in WorkerPcs
        BY DEF WorkerPcs
      <4> QED BY <4>1, <4>2, MovedTypes
    <3> QED BY <2>0, <3>1, <3>2 DEF TypeOK
  <2>3. CASE worker[w].epoch # epoch
    <3>1. GiveUpOrRetry(w) /\ UNCHANGED <<indexed, owed>>
      BY <1>7, <2>3 DEF InsertBlockData
    <3>2. StoreTypes' /\ TaskTypes'
      <4>1. StoreTypes'
        BY <1>7, <3>1 DEF InsertBlockData, TypeOK, StoreTypes
      <4>2. TaskTypes'
        BY <1>7, <3>1, GiveUpTypes DEF InsertBlockData, TypeOK, TaskTypes
      <4> QED BY <4>1, <4>2
    <3>3. worker' \in [Workers -> WorkerType]
      BY <3>1, GiveUpTypes
    <3> QED BY <2>0, <3>2, <3>3 DEF TypeOK
  <2> QED BY <2>2, <2>3
<1>8. ASSUME RaiseWatermark(w) PROVE TypeOK'
  <2>1. worker' \in [Workers -> WorkerType]
    <3>1. CASE lastIndexed < worker[w].height
      <4>1. worker' = [worker EXCEPT ![w].pc = "raised"]
        BY <1>8, <3>1 DEF RaiseWatermark
      <4>2. "raised" \in WorkerPcs
        BY DEF WorkerPcs
      <4> QED BY <4>1, <4>2, MovedTypes
    <3>2. CASE ~(lastIndexed < worker[w].height)
      BY <1>0, <1>8, <3>2 DEF RaiseWatermark
    <3> QED BY <3>1, <3>2
  <2>2. SignalTypes' /\ TaskTypes'
    BY <1>0, <1>8 DEF RaiseWatermark, TypeOK, SignalTypes, TaskTypes
  <2> QED BY <1>8, <2>1, <2>2, TypeFrame DEF RaiseWatermark, TypeOK
<1>9. ASSUME PersistWatermark(w) PROVE TypeOK'
  <2>1. StoreTypes' /\ worker' \in [Workers -> WorkerType]
    BY <1>0, <1>9 DEF PersistWatermark, TypeOK, StoreTypes, SignalTypes
  <2>2. faults' \in 0..MaxFaults
    <3>1. MaxFaults \in Nat /\ faults \in 0..MaxFaults
      BY BoundsAreNat DEF TypeOK, BudgetTypes
    <3>2. CASE UNCHANGED faults
      BY <3>1, <3>2
    <3>3. CASE faults < MaxFaults /\ faults' = faults + 1
      BY <3>1, <3>3
    <3> QED BY <1>9, <3>2, <3>3 DEF PersistWatermark
  <2>3. BudgetTypes'
    BY <1>9, <2>2 DEF PersistWatermark, TypeOK, BudgetTypes
  <2> QED BY <1>9, <2>1, <2>3, TypeFrame DEF PersistWatermark, TypeOK
<1>10. ASSUME WorkerFault(w) PROVE TypeOK'
  <2>1. worker' \in [Workers -> WorkerType] /\ failed' \in SUBSET Heights
    BY <1>10, GiveUpTypes DEF WorkerFault
  <2>2. SignalTypes' /\ TaskTypes'
    BY <1>0, <1>10, <2>1 DEF WorkerFault, TypeOK, SignalTypes, TaskTypes
  <2>3. BudgetTypes'
    <3>1. /\ MaxFaults \in Nat /\ faults \in 0..MaxFaults /\ faults < MaxFaults
          /\ faults' = faults + 1 /\ UNCHANGED <<running, crashes>>
      BY <1>10, BoundsAreNat DEF WorkerFault, TypeOK, BudgetTypes
    <3>2. faults' \in 0..MaxFaults
      BY <3>1
    <3> QED BY <3>1, <3>2 DEF TypeOK, BudgetTypes
  <2> QED BY <1>10, <2>1, <2>2, <2>3, TypeFrame DEF WorkerFault, TypeOK
<1> QED BY <1>1, <1>2, <1>3, <1>4, <1>5, <1>6, <1>7, <1>8, <1>9, <1>10, <1>12

LEMMA ScannerTypeStep ==
  ASSUME TypeOK
  PROVE  /\ StartScan => TypeOK'
         /\ RetryFailedBlock => TypeOK'
         /\ SampleEpoch => TypeOK'
         /\ ReadMarker => TypeOK'
         /\ CheckMarkerCoverage => TypeOK'
         /\ ClearMarker => TypeOK'
<1>0. /\ scanner \in ScannerType /\ failed \in SUBSET Heights /\ epoch \in Nat
      /\ marker \in SUBSET Heights /\ StoppedScanner \in ScannerType
  BY StoppedTypes DEF TypeOK, TaskTypes, SignalTypes, StoreTypes
<1>1. ASSUME StartScan PROVE TypeOK'
  <2>1. scanner' \in ScannerType
    BY <1>0, <1>1 DEF StartScan, ScannerType
  <2> QED BY <1>1, <2>1, TypeFrame DEF StartScan, TypeOK
<1>2. ASSUME RetryFailedBlock PROVE TypeOK'
  <2>1. PICK h \in scanner.todo :
          queue' = Append(queue, h) /\ scanner' = [scanner EXCEPT !.todo = @ \ {h}]
    BY <1>2 DEF RetryFailedBlock
  <2>2. h \in Heights /\ scanner' \in ScannerType
    BY <1>0, <2>1 DEF ScannerType
  <2>3. TaskTypes'
    BY <1>2, <2>1, <2>2, BoundsAreNat, QueueRange DEF RetryFailedBlock, TypeOK, TaskTypes
  <2> QED BY <1>2, <2>2, <2>3, TypeFrame DEF RetryFailedBlock, TypeOK
<1>3. ASSUME SampleEpoch PROVE TypeOK'
  <2>1. scanner' \in ScannerType
    BY <1>0, <1>3 DEF SampleEpoch, ScannerType
  <2> QED BY <1>3, <2>1, TypeFrame DEF SampleEpoch, TypeOK
<1>4. ASSUME ReadMarker PROVE TypeOK'
  <2>1. scanner' \in ScannerType
    BY <1>0, <1>4 DEF ReadMarker, ScannerType
  <2> QED BY <1>4, <2>1, TypeFrame DEF ReadMarker, TypeOK
<1>5. ASSUME CheckMarkerCoverage PROVE TypeOK'
  <2>1. scanner' \in ScannerType
    BY <1>0, <1>5 DEF CheckMarkerCoverage, ScannerType
  <2>2. SignalTypes'
    BY <1>0, <1>5 DEF CheckMarkerCoverage, TypeOK, SignalTypes, ScannerType, Raise, Hull
  <2> QED BY <1>5, <2>1, <2>2, TypeFrame DEF CheckMarkerCoverage, TypeOK
<1>6. ASSUME ClearMarker PROVE TypeOK'
  <2>1. StoreTypes'
    BY <1>6 DEF ClearMarker, TypeOK, StoreTypes
  <2> QED BY <1>0, <1>6, <2>1, TypeFrame DEF ClearMarker, TypeOK
<1> QED BY <1>1, <1>2, <1>3, <1>4, <1>5, <1>6

-----------------------------------------------------------------------------
(* The invariant is inductive.                                              *)

LEMMA InvInit == Init => IInv
<1> SUFFICES ASSUME Init PROVE IInv
  OBVIOUS
<1>1. TypeOK
  BY TypeInit
<1>2. WalkerInv /\ ScannerInv /\ OwedInv /\ StoppedInv
  BY DEF Init, WalkerInv, ScannerInv, OwedInv, StoppedInv, StoppedWalker, StoppedScanner
<1>3. WorkerInv
  BY DEF Init, WorkerInv, WorkerOK, Idle
<1> QED BY <1>1, <1>2, <1>3 DEF IInv

\* The parts of the invariant that an action cannot disturb.
LEMMA InvFrame ==
  ASSUME IInv
  PROVE  /\ UNCHANGED walker => WalkerInv'
         /\ UNCHANGED <<worker, indexed, owed, epoch>> => WorkerInv'
         /\ UNCHANGED <<scanner, indexed, marker, epoch>> => ScannerInv'
         /\ UNCHANGED <<indexed, marker, owed>> => OwedInv'
         /\ UNCHANGED <<running, scanner, worker>> => StoppedInv'
         /\ running' => StoppedInv'
<1>1. UNCHANGED <<worker, indexed, owed, epoch>> => WorkerInv'
  BY DEF IInv, WorkerInv, WorkerOK, Rows
<1> QED BY <1>1 DEF IInv, WalkerInv, ScannerInv, OwedInv, StoppedInv, Rows

LEMMA NodeInvStep ==
  ASSUME IInv
  PROVE  /\ NewHead => IInv'
         /\ SwitchBranch => IInv'
         /\ FollowHead => IInv'
         /\ SendHead => IInv'
<1>0. TypeOK
  BY DEF IInv
<1>1. ASSUME NewHead PROVE IInv'
  BY <1>0, <1>1, NodeTypeStep, InvFrame DEF NewHead, IInv, storeVars, signalVars, budgetVars
<1>2. ASSUME SwitchBranch PROVE IInv'
  BY <1>0, <1>2, NodeTypeStep, InvFrame DEF SwitchBranch, IInv, storeVars, signalVars, budgetVars
<1>3. ASSUME FollowHead PROVE IInv'
  BY <1>0, <1>3, NodeTypeStep, InvFrame DEF FollowHead, IInv, storeVars, signalVars, budgetVars
<1>4. ASSUME SendHead PROVE IInv'
  BY <1>0, <1>4, NodeTypeStep, InvFrame DEF SendHead, IInv, storeVars, signalVars, budgetVars
<1> QED BY <1>1, <1>2, <1>3, <1>4

LEMMA StartInvStep ==
  ASSUME IInv
  PROVE  /\ StartIndexer => IInv'
         /\ Crash => IInv'
<1>0. TypeOK
  BY DEF IInv
<1>1. ASSUME StartIndexer PROVE IInv'
  <2>1. /\ scanner = StoppedScanner /\ worker = [w \in Workers |-> Idle] /\ running' = TRUE
        /\ epoch' = 0 /\ UNCHANGED <<worker, scanner>>
        /\ walker' = [StoppedWalker EXCEPT !.cur = ResumeBlock, !.base = ResumeBlock]
    BY <1>1 DEF StartIndexer, IInv, StoppedInv
  <2>2. WalkerInv'
    BY <2>1 DEF WalkerInv, StoppedWalker
  <2>3. WorkerInv'
    BY <2>1 DEF WorkerInv, WorkerOK, Idle
  <2>4. ScannerInv'
    BY <2>1 DEF ScannerInv, StoppedScanner
  <2>5. OwedInv' /\ StoppedInv'
    BY <1>1, <2>1, InvFrame DEF StartIndexer, storeVars
  <2> QED BY <1>0, <1>1, <2>2, <2>3, <2>4, <2>5, StartTypeStep DEF IInv
<1>2. ASSUME Crash PROVE IInv'
  <2>1. /\ scanner' = StoppedScanner /\ worker' = [w \in Workers |-> Idle]
        /\ walker' = StoppedWalker /\ epoch' = 0 /\ UNCHANGED storeVars
    BY <1>2 DEF Crash
  <2>2. WalkerInv' /\ StoppedInv'
    BY <2>1 DEF WalkerInv, StoppedInv, StoppedWalker
  <2>3. WorkerInv'
    BY <2>1 DEF WorkerInv, WorkerOK, Idle
  <2>4. ScannerInv'
    BY <2>1 DEF ScannerInv, StoppedScanner
  <2>5. OwedInv'
    BY <2>1, InvFrame DEF storeVars
  <2> QED BY <1>0, <1>2, <2>2, <2>3, <2>4, <2>5, StartTypeStep DEF IInv
<1> QED BY <1>1, <1>2

LEMMA WalkerInvStep ==
  ASSUME IInv
  PROVE  WalkerNext => IInv'
<1>0. TypeOK /\ WalkerInv
  BY DEF IInv
<1>a. ASSUME TypeOK', WalkerInv', UNCHANGED <<indexed, marker, owed, epoch, running, worker, scanner>>
      PROVE  IInv'
  BY <1>a, InvFrame DEF IInv
<1>1. ASSUME ConsumeReorgReset PROVE IInv'
  <2>1. WalkerInv'
    BY <1>0, <1>1 DEF ConsumeReorgReset, WalkerInv, TypeOK, WalkerType
  <2> QED BY <1>0, <1>1, <1>a, <2>1, WalkerTypeStep DEF ConsumeReorgReset, storeVars, budgetVars
<1>2. ASSUME StartBatch PROVE IInv'
  <2> DEFINE end == Min({walker.cur + BatchSize - 1, head})
  <2>1. end \in Heights /\ walker.cur <= end /\ walker.cur \in Nat
    BY <1>0, <1>2, BatchEnd, BoundsAreNat DEF StartBatch, TypeOK, WalkerType
  <2>2. walker'.pc = "batch" /\ walker'.todo = walker.cur..end
    BY <1>0, <1>2 DEF StartBatch, TypeOK, WalkerType
  <2> HIDE DEF end
  <2>3. walker.cur \in walker.cur..end
    BY <2>1 DEF Heights
  <2>4. WalkerInv'
    BY <2>2, <2>3 DEF WalkerInv
  <2> QED BY <1>0, <1>2, <1>a, <2>4, WalkerTypeStep DEF StartBatch, signalVars
<1>3. ASSUME SendTask PROVE IInv'
  <2>1. WalkerInv'
    BY <1>0, <1>3 DEF SendTask, WalkerInv, TypeOK, WalkerType
  <2> QED BY <1>0, <1>3, <1>a, <2>1, WalkerTypeStep DEF SendTask, storeVars, signalVars, budgetVars
<1>4. ASSUME CheckBackfillCoverage PROVE IInv'
  <2>1. WalkerInv'
    BY <1>0, <1>4 DEF CheckBackfillCoverage, WalkerInv, TypeOK, WalkerType
  <2> QED BY <1>0, <1>4, <1>a, <2>1, WalkerTypeStep
          DEF CheckBackfillCoverage, storeVars, signalVars, budgetVars
<1>5. ASSUME SettleBackfill PROVE IInv'
  <2>1. WalkerInv'
    BY <1>0, <1>5 DEF SettleBackfill, WalkerInv, TypeOK, WalkerType
  <2> QED BY <1>0, <1>5, <1>a, <2>1, WalkerTypeStep DEF SettleBackfill, signalVars
<1> QED BY <1>1, <1>2, <1>3, <1>4, <1>5 DEF WalkerNext

LEMMA ScannerInvStep ==
  ASSUME IInv
  PROVE  ScannerNext => IInv'
<1>0. TypeOK /\ scanner \in ScannerType /\ ScannerInv /\ epoch \in Nat
  BY DEF IInv, TypeOK, SignalTypes
<1>a. ASSUME TypeOK', ScannerInv', running, UNCHANGED <<indexed, marker, owed, epoch, running, walker, worker>>
      PROVE  IInv'
  BY <1>a, InvFrame DEF IInv
<1>1. ASSUME StartScan PROVE IInv'
  <2>1. ScannerInv'
    BY <1>0, <1>1 DEF StartScan, ScannerInv, ScannerType, signalVars
  <2> QED BY <1>0, <1>1, <1>a, <2>1, ScannerTypeStep DEF StartScan, storeVars, signalVars, budgetVars
<1>2. ASSUME RetryFailedBlock PROVE IInv'
  <2>1. ScannerInv'
    BY <1>0, <1>2 DEF RetryFailedBlock, ScannerInv, ScannerType, signalVars
  <2> QED BY <1>0, <1>2, <1>a, <2>1, ScannerTypeStep
          DEF RetryFailedBlock, storeVars, signalVars, budgetVars
<1>3. ASSUME SampleEpoch PROVE IInv'
  <2>1. ScannerInv'
    BY <1>0, <1>3 DEF SampleEpoch, ScannerInv, ScannerType, signalVars
  <2> QED BY <1>0, <1>3, <1>a, <2>1, ScannerTypeStep
          DEF SampleEpoch, storeVars, signalVars, budgetVars
<1>4. ASSUME ReadMarker PROVE IInv'
  <2>1. ScannerInv'
    BY <1>0, <1>4 DEF ReadMarker, ScannerInv, ScannerType, StoppedScanner, storeVars, signalVars
  <2> QED BY <1>0, <1>4, <1>a, <2>1, ScannerTypeStep
          DEF ReadMarker, storeVars, signalVars, budgetVars
<1>5. ASSUME CheckMarkerCoverage PROVE IInv'
  <2>1. ScannerInv'
    <3>1. CASE scanner.range \subseteq Rows
      BY <1>0, <1>5, <3>1
      DEF CheckMarkerCoverage, ScannerInv, ScannerType, Rows, storeVars
    <3>2. CASE ~(scanner.range \subseteq Rows)
      BY <1>0, <1>5, <3>2 DEF CheckMarkerCoverage, ScannerInv, StoppedScanner
    <3> QED BY <3>1, <3>2
  <2> QED BY <1>0, <1>5, <1>a, <2>1, ScannerTypeStep
          DEF CheckMarkerCoverage, storeVars, budgetVars
<1>6. ASSUME ClearMarker PROVE IInv'
  <2>1. ScannerInv'
    BY <1>0, <1>6 DEF ClearMarker, ScannerInv, StoppedScanner, signalVars
  <2>2. OwedInv'
    BY <1>0, <1>6 DEF ClearMarker, IInv, ScannerInv, OwedInv, Rows
  <2>3. WalkerInv' /\ WorkerInv' /\ StoppedInv'
    BY <1>6, InvFrame DEF ClearMarker, signalVars, budgetVars
  <2> QED BY <1>0, <1>6, <2>1, <2>2, <2>3, ScannerTypeStep DEF IInv
<1> QED BY <1>1, <1>2, <1>3, <1>4, <1>5, <1>6 DEF ScannerNext

\* A step of one worker that leaves the epoch alone and takes no row away from
\* a block that is not owed.
LEMMA WorkerUpdate ==
  ASSUME IInv, NEW w \in Workers, WorkerOK(w)', UNCHANGED epoch,
         \A v \in Workers \ {w} : worker'[v] = worker[v],
         Rows \cup owed \subseteq (Rows \cup owed)'
  PROVE  WorkerInv'
BY DEF IInv, WorkerInv, WorkerOK

\* A worker that gives up holds nothing, or a number and no epoch yet.
LEMMA GiveUpOK ==
  ASSUME TypeOK, NEW w \in Workers, GiveUpOrRetry(w) \/ GiveUp(w), UNCHANGED epoch
  PROVE  WorkerOK(w)' /\ \A v \in Workers \ {w} : worker'[v] = worker[v]
<1>1. worker \in [Workers -> WorkerType] /\ epoch \in Nat
  BY DEF TypeOK, SignalTypes
<1>2. CASE ~GiveUp(w)
  <2>1. worker' = [worker EXCEPT ![w] = [Idle EXCEPT !.pc = "backoff",
          !.height = worker[w].height, !.attempt = worker[w].attempt + 1]]
    BY <1>2 DEF GiveUpOrRetry
  <2>2. worker'[w].pc = "backoff" /\ worker'[w].epoch = 0 /\ worker'[w].stale = FALSE
    BY <1>1, <2>1 DEF Idle
  <2>3. \A v \in Workers \ {w} : worker'[v] = worker[v]
    BY <1>1, <2>1
  <2> QED BY <1>1, <2>2, <2>3 DEF WorkerOK
<1>3. CASE GiveUp(w)
  <2>1. worker' = [worker EXCEPT ![w] = Idle]
    BY <1>3 DEF GiveUp
  <2>2. worker'[w] = Idle /\ \A v \in Workers \ {w} : worker'[v] = worker[v]
    BY <1>1, <2>1
  <2> QED BY <1>1, <2>2 DEF WorkerOK, Idle
<1> QED BY <1>2, <1>3

LEMMA WorkerInvStep ==
  ASSUME IInv, NEW w \in Workers
  PROVE  WorkerNext(w) \/ WorkerFault(w) => IInv'
<1>0. /\ TypeOK /\ WorkerInv /\ WorkerOK(w) /\ epoch \in Nat
      /\ worker \in [Workers -> WorkerType] /\ worker[w] \in WorkerType
      /\ worker[w].height \in Heights /\ worker[w].fork \in Heights
  BY DEF IInv, WorkerInv, TypeOK, SignalTypes, WorkerType
\* Steps that leave the database and the epoch alone.
<1>a. ASSUME TypeOK', WorkerOK(w)', \A v \in Workers \ {w} : worker'[v] = worker[v], running,
             UNCHANGED <<indexed, marker, owed, epoch, running, walker, scanner>>
      PROVE  IInv'
  <2>1. WorkerInv'
    BY <1>a, WorkerUpdate DEF Rows
  <2> QED BY <1>a, <2>1, InvFrame DEF IInv
<1>1. ASSUME TakeTask(w) PROVE IInv'
  <2>1. WorkerOK(w)' /\ \A v \in Workers \ {w} : worker'[v] = worker[v]
    BY <1>0, <1>1 DEF TakeTask, WorkerOK, Idle, signalVars
  <2> QED BY <1>0, <1>1, <1>a, <2>1, WorkerTypeStep
          DEF TakeTask, At, storeVars, signalVars, budgetVars
<1>12. ASSUME Retry(w) PROVE IInv'
  <2>1. WorkerOK(w)' /\ \A v \in Workers \ {w} : worker'[v] = worker[v]
    <3>1. /\ worker'[w].pc = "sampled" /\ worker'[w].epoch = epoch /\ UNCHANGED epoch
          /\ ~worker'[w].stale /\ \A v \in Workers \ {w} : worker'[v] = worker[v]
      BY <1>0, <1>12 DEF Retry, Idle, WorkerType, signalVars
    <3> QED BY <1>0, <3>1 DEF WorkerOK
  <2> QED BY <1>0, <1>12, <1>a, <2>1, WorkerTypeStep
          DEF Retry, At, storeVars, signalVars, budgetVars
<1>2. ASSUME Fetch(w) PROVE IInv'
  <2>1. UNCHANGED epoch /\ branch \in Branches
    BY <1>0, <1>2 DEF Fetch, signalVars, TypeOK, NodeTypes
  <2>2. WorkerOK(w)' /\ \A v \in Workers \ {w} : worker'[v] = worker[v]
    <3>1. CASE worker[w].height <= head
      BY <1>0, <1>2, <2>1, <3>1 DEF Fetch, WorkerOK, WorkerType
    <3>2. CASE ~(worker[w].height <= head)
      BY <1>0, <1>2, <2>1, <3>2, GiveUpOK DEF Fetch
    <3> QED BY <3>1, <3>2
  <2> QED BY <1>0, <1>2, <1>a, <2>2, WorkerTypeStep
          DEF Fetch, At, storeVars, signalVars, budgetVars
<1>3. ASSUME AwaitPredecessors(w) PROVE IInv'
  <2>1. WorkerOK(w)' /\ \A v \in Workers \ {w} : worker'[v] = worker[v]
    BY <1>0, <1>3 DEF AwaitPredecessors, At, WorkerOK, WorkerType, signalVars
  <2> QED BY <1>0, <1>3, <1>a, <2>1, WorkerTypeStep
          DEF AwaitPredecessors, At, storeVars, signalVars, budgetVars
<1>4. ASSUME CheckForReorg(w) PROVE IInv'
  <2> DEFINE h == worker[w].height
             parent == IF h = 0 THEN NoRow ELSE indexed[h - 1]
             p == IF ScanOver(h, h - 1) THEN "rewind" ELSE "scan"
  <2>1. /\ worker' = IF parent \in {NoRow, HashAt(worker[w].on, h - 1)}
                       THEN [worker EXCEPT ![w].pc = "checked"]
                       ELSE [worker EXCEPT ![w].fork = h - 1, ![w].pc = p]
        /\ UNCHANGED epoch /\ worker[w].pc = "ready" /\ worker[w].on \in Branches
    BY <1>0, <1>4 DEF CheckForReorg, At, WorkerOK, signalVars
  <2>2. CASE parent \in {NoRow, HashAt(worker[w].on, h - 1)}
    <3>1. WorkerOK(w)' /\ \A v \in Workers \ {w} : worker'[v] = worker[v]
      BY <1>0, <2>1, <2>2 DEF WorkerOK, WorkerType
    <3> QED BY <1>0, <1>4, <1>a, <3>1, WorkerTypeStep
            DEF CheckForReorg, At, storeVars, signalVars, budgetVars
  <2>3. CASE parent \notin {NoRow, HashAt(worker[w].on, h - 1)}
    <3>1. h - 1 \in Heights /\ h - 1 < h /\ (p = "scan" => 0 < h - 1) /\ p \in {"scan", "rewind"}
      BY <1>0, <2>3, BoundsAreNat DEF Heights, ScanOver
    <3>2. /\ worker'[w] = [worker[w] EXCEPT !.fork = h - 1, !.pc = p]
          /\ \A v \in Workers \ {w} : worker'[v] = worker[v]
      BY <1>0, <2>1, <2>3
    <3>3. /\ worker'[w].fork = h - 1 /\ worker'[w].pc = p /\ worker'[w].on = worker[w].on
          /\ worker'[w].height = h /\ worker'[w].epoch = worker[w].epoch
          /\ worker'[w].stale = worker[w].stale
      BY <1>0, <3>2 DEF WorkerType
    <3>4. WorkerOK(w)'
      BY <1>0, <2>1, <3>1, <3>3 DEF WorkerOK
    <3> QED BY <1>0, <1>4, <1>a, <3>2, <3>4, WorkerTypeStep
            DEF CheckForReorg, At, storeVars, signalVars, budgetVars
  <2> QED BY <2>2, <2>3
<1>5. ASSUME ScanForFork(w) PROVE IInv'
  <2> DEFINE f == worker[w].fork
             p == IF ScanOver(worker[w].height, f - 1) THEN "rewind" ELSE "scan"
  <2>1. /\ worker[w].pc = "scan" /\ worker[w].on \in Branches /\ UNCHANGED epoch
        /\ 0 < f /\ f < worker[w].height
    BY <1>0, <1>5 DEF ScanForFork, At, WorkerOK, signalVars
  <2>2. WorkerOK(w)' /\ \A v \in Workers \ {w} : worker'[v] = worker[v]
    <3>1. CASE head < f
      BY <1>0, <1>5, <2>1, <3>1, GiveUpOK DEF ScanForFork
    <3>2. CASE ~(head < f)
      <4>1. \/ worker' = [worker EXCEPT ![w].pc = "rewind"]
            \/ worker' = [worker EXCEPT ![w].fork = f - 1, ![w].pc = p]
        BY <1>5, <3>2 DEF ScanForFork
      <4>2. CASE worker' = [worker EXCEPT ![w].pc = "rewind"]
        BY <1>0, <2>1, <4>2 DEF WorkerOK, WorkerType
      <4>3. CASE worker' = [worker EXCEPT ![w].fork = f - 1, ![w].pc = p]
        <5>1. f - 1 < worker[w].height /\ (p = "scan" => 0 < f - 1) /\ p \in {"scan", "rewind"}
          BY <1>0, <2>1, BoundsAreNat DEF Heights, ScanOver
        <5>2. /\ worker'[w] = [worker[w] EXCEPT !.fork = f - 1, !.pc = p]
              /\ \A v \in Workers \ {w} : worker'[v] = worker[v]
          BY <1>0, <4>3
        <5>3. /\ worker'[w].fork = f - 1 /\ worker'[w].pc = p /\ worker'[w].on = worker[w].on
              /\ worker'[w].height = worker[w].height /\ worker'[w].epoch = worker[w].epoch
              /\ worker'[w].stale = worker[w].stale
          BY <1>0, <5>2 DEF WorkerType
        <5> QED BY <1>0, <2>1, <5>1, <5>2, <5>3 DEF WorkerOK
      <4> QED BY <4>1, <4>2, <4>3
    <3> QED BY <3>1, <3>2
  <2> QED BY <1>0, <1>5, <1>a, <2>2, WorkerTypeStep
          DEF ScanForFork, At, storeVars, signalVars, budgetVars
<1>6. ASSUME Rewind(w) PROVE IInv'
  <2> DEFINE fork == worker[w].fork
             range == Invalidated(fork, worker[w].height)
             merged == Hull(marker \cup range)
  <2>1. /\ indexed' = [h \in Heights |-> IF fork < h THEN NoRow ELSE indexed[h]]
        /\ owed' = owed \cup {h \in Rows : fork < h}
        /\ marker' = merged /\ epoch' = epoch + 1
        /\ worker' = [v \in Workers |-> IF v = w THEN Idle
                        ELSE [worker[v] EXCEPT !.stale = (worker[v].on # NoRow)]]
        /\ UNCHANGED <<running, walker, scanner>> /\ running /\ fork < worker[w].height
    BY <1>0, <1>6 DEF Rewind, At, WorkerOK, budgetVars
  <2>2. /\ marker \cup range \subseteq merged
        /\ \A h \in Rows : fork < h => h \in range
    BY <1>0, <2>1, InvalidatedRange, HullContains DEF TypeOK, StoreTypes
  <2> HIDE DEF fork, range, merged
  <2>3. Rows' = {h \in Rows : ~(fork < h)}
    BY <2>1 DEF Rows
  <2>4. OwedInv'
    BY <2>1, <2>2, <2>3 DEF IInv, OwedInv
  <2>5. ScannerInv'
    BY <1>0, <2>1 DEF IInv, ScannerInv, TypeOK, ScannerType
  <2>6. WorkerInv'
    <3>1. SUFFICES ASSUME NEW v \in Workers PROVE WorkerOK(v)'
      BY DEF WorkerInv
    <3>2. CASE v = w
      BY <1>0, <2>1, <3>2 DEF WorkerOK, Idle
    <3>3. CASE v # w
      <4>1. worker[v] \in WorkerType /\ WorkerOK(v)
        BY <1>0 DEF WorkerInv
      <4>2. worker'[v] = [worker[v] EXCEPT !.stale = (worker[v].on # NoRow)]
        BY <2>1, <3>3
      <4>3. /\ worker'[v].pc = worker[v].pc /\ worker'[v].on = worker[v].on
            /\ worker'[v].height = worker[v].height /\ worker'[v].fork = worker[v].fork
            /\ worker'[v].epoch = worker[v].epoch
        BY <4>1, <4>2 DEF WorkerType
      <4>4. worker[v].epoch < epoch' /\ worker'[v].epoch <= epoch'
        BY <1>0, <2>1, <4>1, <4>3 DEF WorkerOK, WorkerType
      <4>5. Rows \cup owed \subseteq (Rows \cup owed)'
        BY <2>1, <2>3
      <4> QED BY <4>1, <4>3, <4>4, <4>5 DEF WorkerOK
    <3> QED BY <3>2, <3>3
  <2>7. WalkerInv' /\ StoppedInv'
    BY <2>1, InvFrame
  <2> QED BY <1>0, <1>6, <2>4, <2>5, <2>6, <2>7, WorkerTypeStep DEF IInv
<1>7. ASSUME InsertBlockData(w) PROVE IInv'
  <2> DEFINE h == worker[w].height
  <2>1. UNCHANGED <<epoch, marker, running, walker, scanner>> /\ running
    BY <1>7 DEF InsertBlockData, At, signalVars, budgetVars
  <2>2. CASE worker[w].epoch # epoch
    <3>1. GiveUpOrRetry(w) /\ UNCHANGED <<indexed, owed>>
      BY <1>7, <2>2 DEF InsertBlockData
    <3> QED BY <1>0, <1>7, <1>a, <2>1, <3>1, GiveUpOK, WorkerTypeStep
  <2>3. CASE worker[w].epoch = epoch
    <3>1. /\ indexed' = [indexed EXCEPT ![h] = HashAt(worker[w].on, h)]
          /\ owed' = owed \ {h} /\ worker' = [worker EXCEPT ![w].pc = "committed"]
      BY <1>7, <2>3 DEF InsertBlockData
    <3>2. HashAt(worker[w].on, h) # NoRow
      BY <1>0, <1>7, FetchedHash DEF InsertBlockData, At, WorkerOK
    <3>3. Rows' = Rows \cup {h}
      BY <1>0, <3>1, <3>2 DEF TypeOK, StoreTypes, Rows
    <3>4. OwedInv'
      BY <2>1, <3>1, <3>3 DEF IInv, OwedInv
    <3>5. ScannerInv'
      BY <2>1, <3>3 DEF IInv, ScannerInv
    <3>6. /\ worker'[w].pc = "committed" /\ worker'[w].height = h
          /\ worker'[w].epoch = worker[w].epoch /\ worker'[w].stale = worker[w].stale
          /\ \A v \in Workers \ {w} : worker'[v] = worker[v]
      BY <1>0, <3>1 DEF WorkerType
    <3>7. WorkerOK(w)'
      BY <1>0, <2>1, <3>3, <3>6 DEF WorkerOK
    <3>8. WorkerInv'
      BY <2>1, <3>1, <3>3, <3>6, <3>7, WorkerUpdate
    <3>9. WalkerInv' /\ StoppedInv'
      BY <2>1, InvFrame
    <3> QED BY <1>0, <1>7, <3>4, <3>5, <3>8, <3>9, WorkerTypeStep DEF IInv
  <2> QED BY <2>2, <2>3
<1>8. ASSUME RaiseWatermark(w) PROVE IInv'
  <2>1. WorkerOK(w)' /\ \A v \in Workers \ {w} : worker'[v] = worker[v]
    <3>1. CASE lastIndexed < worker[w].height
      <4>1. worker' = [worker EXCEPT ![w].pc = "raised"] /\ UNCHANGED <<epoch, indexed, owed>>
            /\ worker[w].pc = "committed"
        BY <1>8, <3>1 DEF RaiseWatermark, At, storeVars
      <4> QED BY <1>0, <4>1 DEF WorkerOK, WorkerType, Rows
    <3>2. CASE ~(lastIndexed < worker[w].height)
      BY <1>0, <1>8, <3>2 DEF RaiseWatermark, WorkerOK, Idle
    <3> QED BY <3>1, <3>2
  <2> QED BY <1>0, <1>8, <1>a, <2>1, WorkerTypeStep DEF RaiseWatermark, At, storeVars, budgetVars
<1>9. ASSUME PersistWatermark(w) PROVE IInv'
  <2>1. WorkerOK(w)' /\ \A v \in Workers \ {w} : worker'[v] = worker[v]
    BY <1>0, <1>9 DEF PersistWatermark, WorkerOK, Idle, signalVars
  <2> QED BY <1>0, <1>9, <1>a, <2>1, WorkerTypeStep DEF PersistWatermark, At, signalVars, budgetVars
<1>10. ASSUME WorkerFault(w) PROVE IInv'
  <2>1. WorkerOK(w)' /\ \A v \in Workers \ {w} : worker'[v] = worker[v]
    BY <1>0, <1>10, GiveUpOK DEF WorkerFault
  <2> QED BY <1>0, <1>10, <1>a, <2>1, WorkerTypeStep DEF WorkerFault, storeVars
<1> QED BY <1>1, <1>2, <1>3, <1>4, <1>5, <1>6, <1>7, <1>8, <1>9, <1>10, <1>12 DEF WorkerNext

\* A failed call of the walker or of the scanner ends its round and touches
\* nothing else.
LEMMA LoopFaultStep ==
  ASSUME IInv, WalkerFault \/ ScannerFault
  PROVE  /\ IInv'
         /\ UNCHANGED <<storeVars, signalVars, taskVars, running, worker>>
         /\ walker'.cur = walker.cur /\ walker'.todo = walker.todo
         /\ walker'.base = walker.base
<1>0. /\ TypeOK /\ WalkerInv /\ ScannerInv /\ walker \in WalkerType
      /\ StoppedScanner \in ScannerType /\ epoch \in Nat
  BY StoppedTypes DEF IInv, TypeOK, SignalTypes
<1>1. /\ UNCHANGED <<nodeVars, storeVars, signalVars, taskVars, running, crashes, worker>>
      /\ running /\ faults < MaxFaults /\ faults' = faults + 1
  BY DEF WalkerFault, ScannerFault
<1>2. BudgetTypes'
  <2>1. MaxFaults \in Nat /\ faults \in 0..MaxFaults
    BY <1>0, BoundsAreNat DEF TypeOK, BudgetTypes
  <2>2. faults' \in 0..MaxFaults
    BY <1>1, <2>1
  <2> QED BY <1>0, <1>1, <2>2 DEF TypeOK, BudgetTypes
<1>3. /\ walker' \in WalkerType /\ WalkerInv'
      /\ walker'.cur = walker.cur /\ walker'.todo = walker.todo /\ walker'.base = walker.base
  BY <1>0 DEF WalkerFault, ScannerFault, WalkerType, WalkerInv
<1>4. scanner' \in ScannerType /\ ScannerInv'
  <2>1. CASE WalkerFault
    BY <1>0, <1>1, <2>1, InvFrame, TypeFrame DEF WalkerFault, storeVars, signalVars
  <2>2. CASE ScannerFault
    BY <1>0, <1>1, <2>2 DEF ScannerFault, ScannerInv, StoppedScanner, signalVars
  <2> QED BY <2>1, <2>2
<1>5. TypeOK'
  BY <1>0, <1>1, <1>2, <1>3, <1>4, TypeFrame DEF TypeOK
<1>6. WorkerInv' /\ OwedInv' /\ StoppedInv'
  BY <1>1, InvFrame DEF storeVars, signalVars
<1> QED BY <1>1, <1>3, <1>4, <1>5, <1>6 DEF IInv

LEMMA InvStep == IInv /\ [Next]_vars => IInv'
<1> SUFFICES ASSUME IInv, [Next]_vars PROVE IInv'
  OBVIOUS
<1>1. CASE Next
  BY <1>1, NodeInvStep, StartInvStep, WalkerInvStep, ScannerInvStep, WorkerInvStep, LoopFaultStep
  DEF Next, NodeNext
<1>2. CASE UNCHANGED vars
  <2>1. UNCHANGED <<nodeVars, storeVars, signalVars, taskVars, budgetVars, walker, worker, scanner>>
    BY <1>2 DEF vars
  <2>2. TypeOK'
    BY <2>1, TypeFrame DEF IInv, TypeOK
  <2> QED BY <2>1, <2>2, InvFrame DEF IInv, storeVars, signalVars, budgetVars
<1> QED BY <1>1, <1>2

-----------------------------------------------------------------------------
(* Theorems.                                                                *)

\* IInv holds in every reachable state.
THEOREM Invariance == Spec => []IInv
<1>1. Init => IInv
  BY InvInit
<1>2. IInv /\ [Next]_vars => IInv'
  BY InvStep
<1> QED BY <1>1, <1>2, PTL DEF Spec

\* Every variable keeps its type and the task channel its capacity, whatever
\* the node, the workers, the walker and the scanner do.
THEOREM TypeCorrect == Spec => []TypeOK
<1>1. IInv => TypeOK
  BY DEF IInv
<1> QED BY <1>1, Invariance, PTL

\* completeReorgRecoveryIfCovered never loses a hole: what handleReorg deleted
\* and nobody re-inserted stays inside the persisted marker.
THEOREM MarkerCovers == Spec => []MarkerCoversOwed
<1>1. IInv => MarkerCoversOwed
  BY DEF IInv, OwedInv, MarkerCoversOwed
<1> QED BY <1>1, Invariance, PTL

\* A worker that gives up is free, or waiting for its next attempt.
LEMMA GiveUpPc ==
  ASSUME TypeOK, NEW w \in Workers, GiveUpOrRetry(w) \/ GiveUp(w)
  PROVE  worker'[w].pc \in {"idle", "backoff"}
<1>1. worker \in [Workers -> WorkerType]
  BY DEF TypeOK
<1>2. CASE ~GiveUp(w)
  <2>1. worker'[w] = [Idle EXCEPT !.pc = "backoff",
          !.height = worker[w].height, !.attempt = worker[w].attempt + 1]
    BY <1>1, <1>2 DEF GiveUpOrRetry
  <2> QED BY <2>1 DEF Idle
<1>3. CASE GiveUp(w)
  <2>1. worker'[w] = Idle
    BY <1>1, <1>3 DEF GiveUp
  <2> QED BY <2>1 DEF Idle
<1> QED BY <1>2, <1>3

\* A worker's step moves no other worker on.
LEMMA OthersKeepPc ==
  ASSUME TypeOK, NEW v \in Workers, NEW w \in Workers, v # w,
         WorkerNext(v) \/ WorkerFault(v)
  PROVE  worker'[w].pc = worker[w].pc
<1>0. worker \in [Workers -> WorkerType]
  BY DEF TypeOK
<1>1. GiveUpOrRetry(v) \/ GiveUp(v) => worker'[w] = worker[w]
  BY <1>0 DEF GiveUpOrRetry, GiveUp
<1>2. CASE TakeTask(v) \/ Retry(v) \/ Fetch(v) \/ AwaitPredecessors(v)
  BY <1>0, <1>1, <1>2 DEF TakeTask, Retry, Fetch, AwaitPredecessors
<1>3. CASE CheckForReorg(v) \/ ScanForFork(v)
  BY <1>0, <1>1, <1>3 DEF CheckForReorg, ScanForFork
<1>4. CASE Rewind(v)
  <2>1. worker'[w] = [worker[w] EXCEPT !.stale = (worker[w].on # NoRow)]
    BY <1>4 DEF Rewind
  <2> QED BY <1>0, <2>1 DEF WorkerType
<1>5. CASE InsertBlockData(v)
  BY <1>0, <1>1, <1>5 DEF InsertBlockData
<1>6. CASE RaiseWatermark(v) \/ PersistWatermark(v) \/ WorkerFault(v)
  BY <1>0, <1>1, <1>6 DEF RaiseWatermark, PersistWatermark, WorkerFault
<1> QED BY <1>2, <1>3, <1>4, <1>5, <1>6 DEF WorkerNext

\* Only insertBlockData takes a worker from checked to committed.
LEMMA OnlyInsertCommits ==
  ASSUME TypeOK, [Next]_vars, NEW w \in Workers,
         worker[w].pc = "checked", worker'[w].pc = "committed"
  PROVE  InsertBlockData(w)
<1>0. worker \in [Workers -> WorkerType]
  BY DEF TypeOK
<1>1. CASE UNCHANGED worker
  BY <1>1
<1>2. CASE Crash
  BY <1>2 DEF Crash, Idle
<1>3. CASE NodeNext \/ StartIndexer \/ FollowHead \/ SendHead \/ WalkerFault \/ ScannerFault
  <2>1. UNCHANGED worker
    BY <1>3 DEF NodeNext, NewHead, SwitchBranch, StartIndexer, FollowHead, SendHead, WalkerFault, ScannerFault
  <2> QED BY <1>1, <2>1
<1>4. CASE WalkerNext \/ ScannerNext
  <2>1. UNCHANGED worker
    BY <1>4 DEF WalkerNext, ConsumeReorgReset, StartBatch, SendTask, CheckBackfillCoverage,
                SettleBackfill, ScannerNext, StartScan, RetryFailedBlock, SampleEpoch,
                ReadMarker, CheckMarkerCoverage, ClearMarker
  <2> QED BY <1>1, <2>1
<1>5. ASSUME NEW v \in Workers, WorkerNext(v) \/ WorkerFault(v)
      PROVE  InsertBlockData(w)
  <2>1. v = w
    BY <1>0, <1>5, OthersKeepPc
  <2>2. ~WorkerFault(w)
    BY GiveUpPc DEF WorkerFault
  <2> QED BY <1>5, <2>1, <2>2
          DEF WorkerNext, At, TakeTask, Retry, Fetch, AwaitPredecessors, CheckForReorg, ScanForFork,
              Rewind, RaiseWatermark, PersistWatermark
<1>6. CASE UNCHANGED vars
  BY <1>1, <1>6 DEF vars
<1> QED BY <1>2, <1>3, <1>4, <1>5, <1>6 DEF Next

\* insertBlockData's epoch check fences every fetch a rewind overtook: no such
\* block is committed, however late its worker gets to it.
THEOREM StaleNeverInserted == Spec => NoStaleInsert
<1>1. ASSUME IInv, [Next]_vars, NEW w \in Workers,
             worker[w].pc = "checked", worker'[w].pc = "committed"
      PROVE  ~worker[w].stale
  <2>1. TypeOK /\ WorkerOK(w) /\ epoch \in Nat
    BY <1>1 DEF IInv, WorkerInv, TypeOK, SignalTypes
  <2>2. InsertBlockData(w)
    BY <1>1, <2>1, OnlyInsertCommits
  <2>3. worker[w].epoch = epoch
    <3>1. SUFFICES ASSUME worker[w].epoch # epoch PROVE FALSE
      OBVIOUS
    <3>2. GiveUpOrRetry(w)
      BY <2>2, <3>1 DEF InsertBlockData
    <3>3. worker'[w].pc \in {"idle", "backoff"}
      BY <2>1, <3>2, GiveUpPc
    <3> QED BY <1>1, <3>3
  <2> QED BY <2>1, <2>3 DEF WorkerOK
<1>2. IInv /\ [Next]_vars =>
        [\A w \in Workers :
           worker[w].pc = "checked" /\ worker'[w].pc = "committed" => ~worker[w].stale]_vars
  BY <1>1
<1> QED BY <1>2, Invariance, PTL DEF Spec, NoStaleInsert

\* The initial table and marker are those of IndexStore.
LEMMA StoreInit == Init => Store!Init
BY DEF Init, Store!Init

\* Every step of the core is a step of IndexStore or leaves table and marker
\* alone.
LEMMA StoreStep == IInv /\ [Next]_vars => [Store!Next]_<<indexed, marker>>
<1> SUFFICES ASSUME IInv, [Next]_vars PROVE [Store!Next]_<<indexed, marker>>
  OBVIOUS
<1>0. TypeOK /\ WorkerInv /\ ScannerInv /\ marker \in SUBSET Heights
      /\ Store!Present = Rows
  BY DEF IInv, TypeOK, StoreTypes, Store!Present, Rows
<1>1. CASE NodeNext \/ StartIndexer \/ Crash \/ FollowHead \/ SendHead \/ WalkerFault \/ ScannerFault
  BY <1>1 DEF NodeNext, NewHead, SwitchBranch, StartIndexer, Crash, FollowHead, SendHead,
              WalkerFault, ScannerFault, storeVars
<1>2. CASE WalkerNext
  BY <1>2 DEF WalkerNext, ConsumeReorgReset, StartBatch, SendTask, CheckBackfillCoverage,
              SettleBackfill, storeVars
<1>3. CASE ScannerNext
  <2>1. CASE ClearMarker
    <3>1. CASE scanner.epoch = epoch
      BY <1>0, <2>1, <3>1 DEF ClearMarker, ScannerInv, Store!Next, Store!WriteOff
    <3>2. CASE scanner.epoch # epoch
      BY <2>1, <3>2 DEF ClearMarker
    <3> QED BY <3>1, <3>2
  <2>2. CASE ~ClearMarker
    BY <1>3, <2>2 DEF ScannerNext, StartScan, RetryFailedBlock, SampleEpoch, ReadMarker,
                      CheckMarkerCoverage, storeVars
  <2> QED BY <2>1, <2>2
<1>4. ASSUME NEW w \in Workers, WorkerNext(w) \/ WorkerFault(w)
      PROVE  [Store!Next]_<<indexed, marker>>
  <2>0. worker[w].height \in Heights /\ worker[w].fork \in Heights /\ WorkerOK(w)
    BY <1>0 DEF TypeOK, WorkerType, WorkerInv
  <2>1. CASE Rewind(w)
    <3> DEFINE fork == worker[w].fork
               range == Invalidated(fork, worker[w].height)
               merged == Hull(marker \cup range)
    <3>1. /\ indexed' = [h \in Heights |-> IF fork < h THEN NoRow ELSE indexed[h]]
          /\ marker' = merged /\ fork < worker[w].height
      BY <2>0, <2>1 DEF Rewind, At, WorkerOK
    <3>2. merged \in SUBSET Heights /\ marker \cup range \subseteq merged
          /\ \A h \in Rows : fork < h => h \in range
      BY <1>0, <2>0, <3>1, InvalidatedRange, HullContains
    <3> HIDE DEF range, merged
    <3>3. marker \cup {h \in Store!Present : fork < h} \subseteq merged
      BY <1>0, <3>2
    <3> QED BY <2>0, <3>1, <3>2, <3>3 DEF Store!Next, Store!Rewind
  <2>2. CASE InsertBlockData(w)
    <3>1. marker' = marker
      BY <2>2 DEF InsertBlockData
    <3>2. CASE worker[w].epoch = epoch
      <4>1. indexed' = [indexed EXCEPT ![worker[w].height] = HashAt(worker[w].on, worker[w].height)]
        BY <2>2, <3>2 DEF InsertBlockData
      <4>2. HashAt(worker[w].on, worker[w].height) \in Hashes
        BY <2>0, <2>2, FetchedHash DEF InsertBlockData, At, WorkerOK
      <4> QED BY <2>0, <3>1, <4>1, <4>2 DEF Store!Next, Store!Insert
    <3>3. CASE worker[w].epoch # epoch
      BY <2>2, <3>1, <3>3 DEF InsertBlockData
    <3> QED BY <3>2, <3>3
  <2>3. CASE ~Rewind(w) /\ ~InsertBlockData(w)
    BY <1>4, <2>3 DEF WorkerNext, TakeTask, Retry, Fetch, AwaitPredecessors, CheckForReorg,
                      ScanForFork, RaiseWatermark, PersistWatermark, WorkerFault, storeVars
  <2> QED BY <2>1, <2>2, <2>3
<1>5. CASE UNCHANGED vars
  BY <1>5 DEF vars, storeVars
<1> QED BY <1>1, <1>2, <1>3, <1>4, <1>5 DEF Next

\* The detailed core implements the abstract store: handleReorg's marker is a
\* debt that is written off only when all of it is back.
THEOREM Refinement == Spec => ImplementsStore
<1>1. Spec => Store!Init
  BY StoreInit DEF Spec
<1>2. IInv /\ [Next]_vars => [Store!Next]_<<indexed, marker>>
  BY StoreStep
<1> QED BY <1>1, <1>2, StoreInit, Invariance, PTL DEF Spec, ImplementsStore, Store!Spec

-----------------------------------------------------------------------------
(* No height is dropped.                                                    *)

\* A worker that still has to deliver h.
Works(w, h) == worker[w].height = h /\ worker[w].pc \notin {"idle", "committed", "raised"}
\* The lists that carry numbers.
Listed == Range(queue) \cup failed \cup reset \cup walker.todo
Safe(h) ==
  h \in Rows \cup marker \cup Listed \/ walker.cur <= h \/ \E w \in Workers : Works(w, h)
SafeInv == running => \A h \in Heights : walker.base <= h => Safe(h)

LEMMA SafeIsNoLostBlock == SafeInv => NoLostBlock
BY DEF SafeInv, Safe, Works, Listed, NoLostBlock, Owned, Queued

\* Nothing that carries a height moves.
LEMMA SafeFrame ==
  ASSUME NEW h, Safe(h), UNCHANGED <<indexed, marker, taskVars, reset, walker, worker>>
  PROVE  Safe(h)'
BY DEF Safe, Works, Listed, Rows, taskVars

LEMMA SafeWalkerStep ==
  ASSUME IInv, SafeInv, NEW h \in Heights, walker.base <= h
  PROVE  WalkerNext => Safe(h)' /\ walker'.base = walker.base
<1>0. TypeOK /\ WalkerInv /\ walker \in WalkerType /\ walker.cur \in Nat /\ h \in Nat
  BY BoundsAreNat DEF IInv, TypeOK, WalkerType, Heights
<1>1. ASSUME ConsumeReorgReset PROVE Safe(h)' /\ walker'.base = walker.base
  <2>1. Safe(h) /\ UNCHANGED <<indexed, marker, worker, queue, failed>>
    BY <1>1 DEF ConsumeReorgReset, SafeInv, storeVars, taskVars
  <2>2. walker.todo = {}
    BY <1>0, <1>1 DEF ConsumeReorgReset, WalkerInv, WalkerType
  <2>3. reset \in SUBSET Nat /\ reset # {} /\ Min(reset) \in Nat /\ \A y \in reset : Min(reset) <= y
    BY <1>0, <1>1, MinOfHeights, BoundsAreNat
    DEF ConsumeReorgReset, TypeOK, SignalTypes, Heights
  <2>4. CASE Min(reset) <= walker.cur
    <3>1. walker' = [walker EXCEPT !.pc = "poll", !.cur = Min(reset)]
      BY <1>1, <2>4 DEF ConsumeReorgReset
    <3>2. walker'.cur = Min(reset) /\ walker'.base = walker.base
      BY <1>0, <3>1 DEF WalkerType
    <3>3. h \in reset \/ walker.cur <= h => walker'.cur <= h
      BY <1>0, <2>3, <2>4, <3>2
    <3> QED BY <2>1, <2>2, <3>2, <3>3 DEF Safe, Listed, Works, Rows
  <2>5. CASE ~(Min(reset) <= walker.cur)
    <3>1. walker' = [walker EXCEPT !.pc = "requeue", !.todo = reset]
      BY <1>1, <2>5 DEF ConsumeReorgReset
    <3>2. walker'.cur = walker.cur /\ walker'.todo = reset /\ walker'.base = walker.base
      BY <1>0, <3>1 DEF WalkerType
    <3> QED BY <2>1, <2>2, <3>2 DEF Safe, Listed, Works, Rows
  <2> QED BY <2>4, <2>5
<1>2. ASSUME StartBatch PROVE Safe(h)' /\ walker'.base = walker.base
  <2> DEFINE end == Min({walker.cur + BatchSize - 1, head})
  <2>1. Safe(h) /\ UNCHANGED <<indexed, marker, worker, queue, failed, reset>>
    BY <1>2 DEF StartBatch, SafeInv, signalVars, taskVars
  <2>2. walker.todo = {}
    BY <1>0, <1>2 DEF StartBatch, WalkerInv, WalkerType
  <2>3. end \in Heights
    BY <1>0, <1>2, BatchEnd DEF StartBatch
  <2>4. walker'.cur = end + 1 /\ walker'.todo = walker.cur..end /\ walker'.base = walker.base
    BY <1>0, <1>2 DEF StartBatch, WalkerType
  <2> HIDE DEF end
  <2>5. walker.cur <= h => h \in walker'.todo \/ walker'.cur <= h
    BY <1>0, <2>3, <2>4, BoundsAreNat DEF Heights
  <2> QED BY <2>1, <2>2, <2>4, <2>5 DEF Safe, Listed, Works, Rows
<1>3. ASSUME SendTask PROVE Safe(h)' /\ walker'.base = walker.base
  <2> DEFINE n == Min(walker.todo)
  <2>1. Safe(h) /\ UNCHANGED <<indexed, marker, worker, failed, reset>>
    BY <1>3 DEF SendTask, SafeInv, signalVars, storeVars
  <2>2. walker.todo \in SUBSET Heights /\ walker.todo # {}
    BY <1>0, <1>3 DEF SendTask, WalkerInv, WalkerType
  <2>3. n \in Heights
    BY <2>2, MinOfHeights, BoundsAreNat DEF Heights
  <2>4. queue' = Append(queue, n) /\ queue \in Seq(Heights)
    BY <1>0, <1>3 DEF SendTask, TypeOK, TaskTypes
  <2>5. /\ walker'.cur = walker.cur /\ walker'.todo = walker.todo \ {n}
        /\ walker'.base = walker.base
    BY <1>0, <1>3 DEF SendTask, WalkerType
  <2> HIDE DEF n
  <2>6. Range(queue') = Range(queue) \cup {n}
    BY <2>3, <2>4, QueueRange
  <2> QED BY <2>1, <2>5, <2>6 DEF Safe, Listed, Works, Rows
<1>4. ASSUME CheckBackfillCoverage \/ SettleBackfill PROVE Safe(h)' /\ walker'.base = walker.base
  <2>1. Safe(h) /\ UNCHANGED <<indexed, marker, worker, queue, failed, reset>>
    BY <1>4 DEF CheckBackfillCoverage, SettleBackfill, SafeInv, signalVars, storeVars, taskVars
  <2>2. /\ walker'.cur = walker.cur /\ walker'.todo = walker.todo
        /\ walker'.base = walker.base
    BY <1>0, <1>4 DEF CheckBackfillCoverage, SettleBackfill, WalkerType
  <2> QED BY <2>1, <2>2 DEF Safe, Listed, Works, Rows
<1> QED BY <1>1, <1>2, <1>3, <1>4 DEF WalkerNext

LEMMA SafeScannerStep ==
  ASSUME IInv, SafeInv, NEW h \in Heights, walker.base <= h
  PROVE  ScannerNext => Safe(h)'
<1>1. CASE RetryFailedBlock
  <2>1. Safe(h) /\ UNCHANGED <<indexed, marker, worker, failed, reset, walker>>
    BY <1>1 DEF RetryFailedBlock, SafeInv, signalVars, storeVars
  <2>2. PICK g \in scanner.todo : queue' = Append(queue, g)
    BY <1>1 DEF RetryFailedBlock
  <2>3. g \in Heights /\ queue \in Seq(Heights)
    BY <2>2 DEF IInv, TypeOK, ScannerType, TaskTypes
  <2>4. Range(queue') = Range(queue) \cup {g}
    BY <2>2, <2>3, QueueRange
  <2> QED BY <2>1, <2>4 DEF Safe, Listed, Works, Rows
<1>2. CASE ClearMarker
  <2>1. Safe(h) /\ UNCHANGED <<indexed, worker, queue, failed, reset, walker>>
    BY <1>2 DEF ClearMarker, SafeInv, signalVars, taskVars
  <2>2. marker \subseteq Rows \cup marker'
    BY <1>2 DEF ClearMarker, IInv, ScannerInv
  <2> QED BY <2>1, <2>2 DEF Safe, Listed, Works, Rows
<1>3. CASE CheckMarkerCoverage
  <2>1. Safe(h) /\ UNCHANGED <<indexed, marker, worker, queue, failed, walker>>
    BY <1>3 DEF CheckMarkerCoverage, SafeInv, storeVars, taskVars
  <2>2. reset \subseteq reset'
    <3>1. reset \in SUBSET Heights /\ scanner.range \in SUBSET Heights
      BY DEF IInv, TypeOK, SignalTypes, ScannerType
    <3>2. reset \subseteq Raise(scanner.range)
      BY <3>1, HullContains DEF Raise
    <3> QED BY <1>3, <3>2 DEF CheckMarkerCoverage
  <2> QED BY <2>1, <2>2 DEF Safe, Listed, Works, Rows
<1>4. CASE StartScan \/ SampleEpoch \/ ReadMarker
  BY <1>4, SafeFrame DEF StartScan, SampleEpoch, ReadMarker, SafeInv, storeVars, signalVars
<1> QED BY <1>1, <1>2, <1>3, <1>4 DEF ScannerNext

\* A worker that gives up keeps its number or hands it to the gap scanner.
LEMMA SafeGiveUp ==
  ASSUME TypeOK, NEW w \in Workers, NEW h, Safe(h), GiveUpOrRetry(w) \/ GiveUp(w),
         UNCHANGED <<indexed, marker, queue, reset, walker>>
  PROVE  Safe(h)'
<1>1. worker \in [Workers -> WorkerType]
  BY DEF TypeOK
<1>2. CASE ~GiveUp(w)
  <2>1. /\ worker' = [worker EXCEPT ![w] = [Idle EXCEPT !.pc = "backoff",
             !.height = worker[w].height, !.attempt = worker[w].attempt + 1]]
        /\ failed' = failed
    BY <1>2 DEF GiveUpOrRetry
  <2>2. worker'[w].pc = "backoff" /\ worker'[w].height = worker[w].height
    BY <1>1, <2>1 DEF Idle
  <2>3. \A v \in Workers \ {w} : worker'[v] = worker[v]
    BY <1>1, <2>1
  <2> QED BY <2>1, <2>2, <2>3 DEF Safe, Listed, Works, Rows
<1>3. CASE GiveUp(w)
  <2>1. worker' = [worker EXCEPT ![w] = Idle] /\ failed' = failed \cup {worker[w].height}
    BY <1>3 DEF GiveUp
  <2>2. \A v \in Workers \ {w} : worker'[v] = worker[v]
    BY <1>1, <2>1
  <2> QED BY <2>1, <2>2 DEF Safe, Listed, Works, Rows
<1> QED BY <1>2, <1>3

\* A worker that goes on with its block.
LEMMA SafeMove ==
  ASSUME NEW w \in Workers, NEW h, Safe(h),
         UNCHANGED <<indexed, marker, queue, failed, reset, walker>>,
         worker'[w].height = worker[w].height,
         worker'[w].pc \notin {"idle", "committed", "raised"},
         \A v \in Workers \ {w} : worker'[v] = worker[v]
  PROVE  Safe(h)'
BY DEF Safe, Listed, Works, Rows

LEMMA SafeWorkerStep ==
  ASSUME IInv, SafeInv, NEW h \in Heights, walker.base <= h, NEW w \in Workers
  PROVE  WorkerNext(w) \/ WorkerFault(w) => Safe(h)'
<1>0. /\ TypeOK /\ WorkerOK(w) /\ worker \in [Workers -> WorkerType] /\ worker[w] \in WorkerType
      /\ worker[w].height \in Heights /\ worker[w].fork \in Heights
  BY DEF IInv, WorkerInv, TypeOK, WorkerType
<1>1. CASE TakeTask(w)
  <2>1. Safe(h) /\ UNCHANGED <<indexed, marker, failed, reset, walker>> /\ worker[w].pc = "idle"
    BY <1>1 DEF TakeTask, At, SafeInv, storeVars, signalVars
  <2>2. Range(queue) = {Head(queue)} \cup Range(Tail(queue)) /\ queue' = Tail(queue)
    BY <1>0, <1>1, QueueRange DEF TakeTask, TypeOK, TaskTypes
  <2>3. /\ worker'[w].pc = "sampled" /\ worker'[w].height = Head(queue)
        /\ \A v \in Workers \ {w} : worker'[v] = worker[v]
    BY <1>0, <1>1 DEF TakeTask, Idle
  <2> QED BY <2>1, <2>2, <2>3 DEF Safe, Listed, Works, Rows
<1>11. CASE Retry(w)
  <2>1. Safe(h) /\ UNCHANGED <<indexed, marker, queue, failed, reset, walker>>
    BY <1>11 DEF Retry, At, SafeInv, storeVars, signalVars, taskVars
  <2>2. /\ worker'[w].pc = "sampled" /\ worker'[w].height = worker[w].height
        /\ \A v \in Workers \ {w} : worker'[v] = worker[v]
    BY <1>0, <1>11 DEF Retry, WorkerType
  <2> QED BY <2>1, <2>2, SafeMove
<1>2. CASE Fetch(w)
  <2>1. Safe(h) /\ UNCHANGED <<indexed, marker, queue, reset, walker>>
    BY <1>2 DEF Fetch, At, SafeInv, storeVars, signalVars
  <2>2. CASE worker[w].height <= head
    <3>1. UNCHANGED failed /\ worker' = [worker EXCEPT ![w].on = branch,
            ![w].pc = IF PredecessorSpan = 0 THEN "ready" ELSE "fetched"]
      BY <1>2, <2>2 DEF Fetch
    <3>2. /\ worker'[w].height = worker[w].height /\ worker'[w].pc \in {"ready", "fetched"}
          /\ \A v \in Workers \ {w} : worker'[v] = worker[v]
      BY <1>0, <3>1 DEF WorkerType
    <3> QED BY <2>1, <3>1, <3>2, SafeMove
  <2>3. CASE ~(worker[w].height <= head)
    BY <1>0, <1>2, <2>1, <2>3, SafeGiveUp DEF Fetch
  <2> QED BY <2>2, <2>3
<1>3. CASE AwaitPredecessors(w)
  <2>1. Safe(h) /\ UNCHANGED <<indexed, marker, queue, failed, reset, walker>>
    BY <1>3 DEF AwaitPredecessors, At, SafeInv, storeVars, signalVars, taskVars
  <2>2. /\ worker'[w].height = worker[w].height /\ worker'[w].pc = "ready"
        /\ \A v \in Workers \ {w} : worker'[v] = worker[v]
    BY <1>0, <1>3 DEF AwaitPredecessors, WorkerType
  <2> QED BY <2>1, <2>2, SafeMove
<1>4. CASE CheckForReorg(w)
  <2>1. Safe(h) /\ UNCHANGED <<indexed, marker, queue, failed, reset, walker>>
    BY <1>4 DEF CheckForReorg, At, SafeInv, storeVars, signalVars, taskVars
  <2>2. /\ worker'[w].height = worker[w].height
        /\ worker'[w].pc \in {"checked", "scan", "rewind"}
        /\ \A v \in Workers \ {w} : worker'[v] = worker[v]
    BY <1>0, <1>4 DEF CheckForReorg, WorkerType
  <2> QED BY <2>1, <2>2, SafeMove
<1>5. CASE ScanForFork(w)
  <2>1. Safe(h) /\ UNCHANGED <<indexed, marker, queue, reset, walker>>
    BY <1>5 DEF ScanForFork, At, SafeInv, storeVars, signalVars
  <2>2. CASE head < worker[w].fork
    BY <1>0, <1>5, <2>1, <2>2, SafeGiveUp DEF ScanForFork
  <2>3. CASE ~(head < worker[w].fork)
    <3>1. UNCHANGED failed
      BY <1>5, <2>3 DEF ScanForFork
    <3>2. /\ worker'[w].height = worker[w].height /\ worker'[w].pc \in {"scan", "rewind"}
          /\ \A v \in Workers \ {w} : worker'[v] = worker[v]
      BY <1>0, <1>5, <2>3 DEF ScanForFork, WorkerType
    <3> QED BY <2>1, <3>1, <3>2, SafeMove
  <2> QED BY <2>2, <2>3
<1>6. CASE Rewind(w)
  <2> DEFINE fork == worker[w].fork
             range == Invalidated(fork, worker[w].height)
             merged == Hull(marker \cup range)
  <2>1. /\ indexed' = [g \in Heights |-> IF fork < g THEN NoRow ELSE indexed[g]]
        /\ marker' = merged /\ reset' = Raise(IF signaled THEN range ELSE merged)
        /\ worker' = [v \in Workers |-> IF v = w THEN Idle
                        ELSE [worker[v] EXCEPT !.stale = (worker[v].on # NoRow)]]
        /\ UNCHANGED <<queue, failed, walker>> /\ Safe(h) /\ fork < worker[w].height
    BY <1>0, <1>6 DEF Rewind, At, WorkerOK, SafeInv, taskVars
  <2>2. /\ marker \cup range \subseteq merged /\ range \in SUBSET Heights /\ merged \in SUBSET Heights
        /\ worker[w].height \in range /\ \A g \in Rows : fork < g => g \in range
    BY <1>0, <2>1, InvalidatedRange, HullContains DEF TypeOK, StoreTypes
  <2>3. reset \subseteq reset'
    <3>1. reset \in SUBSET Heights
      BY <1>0 DEF TypeOK, SignalTypes
    <3> QED BY <2>1, <2>2, <3>1, HullContains DEF Raise
  <2> HIDE DEF range, merged
  <2>4. h \in Rows => h \in Rows' \cup marker'
    BY <2>1, <2>2 DEF Rows
  <2>5. \A v \in Workers \ {w} : worker'[v].pc = worker[v].pc /\ worker'[v].height = worker[v].height
    BY <1>0, <2>1 DEF WorkerType
  <2>6. h = worker[w].height => h \in marker'
    BY <2>1, <2>2
  <2> QED BY <2>1, <2>2, <2>3, <2>4, <2>5, <2>6 DEF Safe, Listed, Works
<1>7. CASE InsertBlockData(w)
  <2>1. Safe(h) /\ UNCHANGED <<marker, queue, reset, walker>> /\ worker[w].on \in Branches
    BY <1>0, <1>7 DEF InsertBlockData, At, WorkerOK, SafeInv, signalVars
  <2>2. CASE worker[w].epoch = epoch
    <3>1. /\ indexed' = [indexed EXCEPT ![worker[w].height] = HashAt(worker[w].on, worker[w].height)]
          /\ worker' = [worker EXCEPT ![w].pc = "committed"] /\ UNCHANGED failed
      BY <1>7, <2>2 DEF InsertBlockData
    <3>2. Rows \cup {worker[w].height} \subseteq Rows'
      <4>1. HashAt(worker[w].on, worker[w].height) # NoRow
        BY <1>0, <2>1, FetchedHash
      <4>2. indexed \in [Heights -> Hashes \cup {NoRow}]
        BY <1>0 DEF TypeOK, StoreTypes
      <4> QED BY <1>0, <3>1, <4>1, <4>2 DEF Rows
    <3>3. \A v \in Workers \ {w} : worker'[v] = worker[v]
      BY <1>0, <3>1
    <3> QED BY <2>1, <3>1, <3>2, <3>3 DEF Safe, Listed, Works
  <2>3. CASE worker[w].epoch # epoch
    BY <1>0, <1>7, <2>1, <2>3, SafeGiveUp DEF InsertBlockData
  <2> QED BY <2>2, <2>3
<1>8. CASE RaiseWatermark(w)
  <2>1. /\ Safe(h) /\ UNCHANGED <<indexed, marker, queue, reset, walker>>
        /\ worker[w].pc = "committed" /\ failed' = failed \ {worker[w].height}
        /\ \A v \in Workers \ {w} : worker'[v] = worker[v]
    BY <1>0, <1>8 DEF RaiseWatermark, At, SafeInv, storeVars
  <2>2. worker[w].height \in Rows \cup marker
    BY <1>0, <2>1 DEF WorkerOK, IInv, OwedInv
  <2> QED BY <2>1, <2>2 DEF Safe, Listed, Works, Rows
<1>9. CASE PersistWatermark(w)
  <2>1. /\ Safe(h) /\ UNCHANGED <<indexed, marker, queue, failed, reset, walker>>
        /\ worker[w].pc = "raised" /\ \A v \in Workers \ {w} : worker'[v] = worker[v]
    BY <1>0, <1>9 DEF PersistWatermark, At, SafeInv, signalVars, taskVars
  <2> QED BY <2>1 DEF Safe, Listed, Works, Rows
<1>10. CASE WorkerFault(w)
  <2>1. Safe(h) /\ UNCHANGED <<indexed, marker, queue, reset, walker>>
    BY <1>10 DEF WorkerFault, SafeInv, storeVars
  <2> QED BY <1>0, <1>10, <2>1, SafeGiveUp DEF WorkerFault
<1> QED BY <1>1, <1>2, <1>3, <1>4, <1>5, <1>6, <1>7, <1>8, <1>9, <1>10, <1>11 DEF WorkerNext

\* The other steps neither move the walker's base nor stop the process.
LEMMA BaseKept ==
  ASSUME [Next]_vars, ~StartIndexer, ~Crash, ~WalkerNext, ~WalkerFault, ~ScannerFault
  PROVE  UNCHANGED <<running, walker>>
<1>1. CASE NodeNext \/ FollowHead \/ SendHead
  BY <1>1 DEF NodeNext, NewHead, SwitchBranch, FollowHead, SendHead, budgetVars
<1>2. CASE ScannerNext
  BY <1>2 DEF ScannerNext, StartScan, RetryFailedBlock, SampleEpoch, ReadMarker,
              CheckMarkerCoverage, ClearMarker, budgetVars
<1>3. ASSUME NEW w \in Workers, WorkerNext(w) \/ WorkerFault(w)
      PROVE  UNCHANGED <<running, walker>>
  BY <1>3 DEF WorkerNext, TakeTask, Retry, Fetch, AwaitPredecessors, CheckForReorg, ScanForFork, Rewind,
              InsertBlockData, RaiseWatermark, PersistWatermark, WorkerFault, budgetVars
<1>4. CASE UNCHANGED vars
  BY <1>4 DEF vars, budgetVars
<1> QED BY <1>1, <1>2, <1>3, <1>4 DEF Next

LEMMA SafeStep == IInv /\ SafeInv /\ [Next]_vars => SafeInv'
<1> SUFFICES ASSUME IInv, SafeInv, [Next]_vars PROVE SafeInv'
  OBVIOUS
<1>1. CASE StartIndexer
  <2>1. walker' = [StoppedWalker EXCEPT !.cur = ResumeBlock, !.base = ResumeBlock]
    BY <1>1 DEF StartIndexer
  <2>2. walker'.cur = walker'.base
    BY <2>1 DEF StoppedWalker
  <2> QED BY <2>2 DEF SafeInv, Safe
<1>2. CASE Crash
  BY <1>2 DEF Crash, SafeInv
<1>3. CASE WalkerNext
  <2>1. UNCHANGED running /\ running
    BY <1>3 DEF WalkerNext, ConsumeReorgReset, StartBatch, SendTask, CheckBackfillCoverage,
                SettleBackfill, budgetVars
  <2>2. UNCHANGED Heights
    BY DEF Heights
  <2>3. walker'.base = walker.base
    <3>1. walker \in WalkerType
      BY DEF IInv, TypeOK
    <3> QED BY <1>3, <3>1 DEF WalkerNext, ConsumeReorgReset, StartBatch, SendTask,
                              CheckBackfillCoverage, SettleBackfill, WalkerType
  <2> QED BY <1>3, <2>1, <2>3, SafeWalkerStep DEF SafeInv
<1>4. CASE WalkerFault \/ ScannerFault
  <2>1. Heights' = Heights
    BY DEF Heights
  <2>2. UNCHANGED <<indexed, marker, queue, failed, reset, running, worker>>
        /\ walker'.cur = walker.cur /\ walker'.todo = walker.todo /\ walker'.base = walker.base
    BY <1>4, LoopFaultStep DEF storeVars, signalVars, taskVars
  <2> QED BY <2>1, <2>2 DEF SafeInv, Safe, Listed, Works, Rows
<1>5. CASE ~StartIndexer /\ ~Crash /\ ~WalkerNext /\ ~WalkerFault /\ ~ScannerFault
  <2>1. UNCHANGED <<running, walker>>
    BY <1>5, BaseKept
  <2>2. SUFFICES ASSUME running, NEW h \in Heights, walker.base <= h PROVE Safe(h)'
    BY <2>1 DEF SafeInv
  <2>3. Safe(h)
    BY <2>2 DEF SafeInv
  <2>4. CASE NewHead \/ SwitchBranch \/ UNCHANGED vars
    BY <2>3, <2>4, SafeFrame DEF NewHead, SwitchBranch, vars, storeVars, signalVars
  <2>5. CASE FollowHead
    BY <2>3, <2>5, SafeFrame DEF FollowHead, storeVars, signalVars
  <2>8. CASE SendHead
    <3>1. queue \in Seq(Heights) /\ following \in Heights
      BY DEF IInv, TypeOK, TaskTypes, NodeTypes
    <3>2. Range(queue) \subseteq Range(queue')
      <4>1. queue' = Append(queue, following)
        BY <2>8 DEF SendHead
      <4>2. Range(Append(queue, following)) = Range(queue) \cup {following}
        BY <3>1, QueueRange
      <4> QED BY <4>1, <4>2
    <3>3. UNCHANGED <<indexed, marker, failed, reset, walker, worker>>
      BY <2>8 DEF SendHead, storeVars, signalVars
    <3> QED BY <2>3, <3>2, <3>3 DEF Safe, Listed, Works, Rows
  <2>6. CASE ScannerNext
    BY <2>2, <2>6, SafeScannerStep
  <2>7. ASSUME NEW w \in Workers, WorkerNext(w) \/ WorkerFault(w) PROVE Safe(h)'
    BY <2>2, <2>7, SafeWorkerStep
  <2> QED BY <1>5, <2>4, <2>5, <2>6, <2>7, <2>8 DEF Next, NodeNext
<1> QED BY <1>1, <1>2, <1>3, <1>4, <1>5

\* No interleaving of failures, give-ups, rewinds and scans drops a height the
\* walker has passed: it has a row, is on its way, or is in the marker.
THEOREM NothingDropped == Spec => []NoLostBlock
<1>1. Init => SafeInv
  BY DEF Init, SafeInv
<1>2. IInv /\ SafeInv /\ [Next]_vars => SafeInv'
  BY SafeStep
<1>3. Spec => []SafeInv
  BY <1>1, <1>2, Invariance, PTL DEF Spec
<1> QED BY <1>3, SafeIsNoLostBlock, PTL

-----------------------------------------------------------------------------
(* The end of a phase, and what a crash leaves behind.                      *)

\* Every height of the range has a row or lies in the marker.
Kept(from, through) == from..through \subseteq Rows \cup marker

\* The phase hands out nothing above the node's head; once its coverage was
\* checked, its range stays kept until the write that ends it.
PhaseInv ==
  /\ walker.phase => walker.cur <= head + 1
  /\ walker.pc = "settle" => /\ walker.phase /\ walker.cur <= walker.latest + 1
                             /\ Kept(walker.start, walker.latest)

\* No step writes off a height that has no row: what is kept stays kept.
LEMMA KeptGrows == IInv /\ [Next]_vars => Rows \cup marker \subseteq Rows' \cup marker'
<1> SUFFICES ASSUME IInv, [Next]_vars PROVE Rows \cup marker \subseteq Rows' \cup marker'
  OBVIOUS
<1>0. /\ indexed \in [Heights -> Hashes \cup {NoRow}] /\ NoRow \notin Hashes
      /\ Store!Present = Rows
  BY HashAssumption DEF IInv, TypeOK, StoreTypes, Hashes, Store!Present, Rows
<1>1. CASE Store!Insert
  BY <1>0, <1>1 DEF Store!Insert, Rows
<1>2. CASE Store!Rewind
  BY <1>0, <1>2 DEF Store!Rewind, Rows
<1>3. CASE Store!WriteOff
  BY <1>0, <1>3 DEF Store!WriteOff, Rows
<1>4. CASE UNCHANGED <<indexed, marker>>
  BY <1>4 DEF Rows
<1> QED BY <1>1, <1>2, <1>3, <1>4, StoreStep DEF Store!Next

LEMMA KeptStays ==
  ASSUME IInv, [Next]_vars, NEW from, NEW through, Kept(from, through)
  PROVE  Kept(from, through)'
BY KeptGrows DEF Kept

\* Unless the adopted branch may be shorter, the node's head never drops.
LEMMA HeadKept ==
  ASSUME TypeOK, [Next]_vars, ~HeadMayDrop
  PROVE  head \in Nat /\ head' \in Nat /\ head <= head'
<1>1. head \in Nat
  BY SizesAssumption DEF TypeOK, NodeTypes, Heights
<1>2. CASE NewHead
  BY <1>1, <1>2 DEF NewHead
<1>3. CASE SwitchBranch
  BY <1>1, <1>3 DEF SwitchBranch
<1>4. CASE UNCHANGED nodeVars
  BY <1>1, <1>4 DEF nodeVars
<1>5. CASE FollowHead \/ SendHead \/ Crash
  BY <1>1, <1>5 DEF FollowHead, SendHead, Crash
<1>6. StartIndexer \/ WalkerFault \/ ScannerFault => UNCHANGED nodeVars
  BY DEF StartIndexer, WalkerFault, ScannerFault
<1>7. WalkerNext => UNCHANGED nodeVars
  BY DEF WalkerNext, ConsumeReorgReset, StartBatch, SendTask, CheckBackfillCoverage, SettleBackfill
<1>8. ScannerNext => UNCHANGED nodeVars
  BY DEF ScannerNext, StartScan, RetryFailedBlock, SampleEpoch, ReadMarker, CheckMarkerCoverage,
         ClearMarker
<1>9. (\E w \in Workers : WorkerNext(w) \/ WorkerFault(w)) => UNCHANGED nodeVars
  BY DEF WorkerNext, TakeTask, Retry, Fetch, AwaitPredecessors, CheckForReorg, ScanForFork, Rewind,
         InsertBlockData, RaiseWatermark, PersistWatermark, WorkerFault
<1>10. UNCHANGED vars => UNCHANGED nodeVars
  BY DEF vars
<1> QED BY <1>2, <1>3, <1>4, <1>5, <1>6, <1>7, <1>8, <1>9, <1>10 DEF Next, NodeNext

\* What the walker's own steps do to its phase, its position and its range.
LEMMA WalkerMoves ==
  ASSUME IInv
  PROVE  /\ ConsumeReorgReset => /\ walker'.phase = walker.phase /\ walker'.start = walker.start
                                 /\ walker'.pc \in {"poll", "requeue"}
                                 /\ walker'.cur \in Nat /\ walker'.cur <= walker.cur
         /\ StartBatch => /\ walker'.phase /\ walker'.pc = "batch"
                          /\ walker'.cur \in Nat /\ walker'.cur <= head + 1
                          /\ walker'.start = IF walker.phase THEN walker.start ELSE walker.cur
                          /\ walker'.todo \subseteq {h \in Heights : h <= head}
         /\ SendTask => /\ walker'.phase = walker.phase /\ walker'.start = walker.start
                        /\ walker'.cur = walker.cur /\ walker'.pc # "settle"
         /\ CheckBackfillCoverage =>
              /\ walker'.phase = walker.phase /\ walker'.start = walker.start
              /\ walker'.cur = walker.cur
              /\ walker'.pc \in {"tick", "settle"}
              /\ walker'.pc = "settle" =>
                   walker.phase /\ Covered(walker.start, head) /\ walker'.latest = head
         /\ SettleBackfill => /\ walker'.phase = FALSE /\ walker'.pc = "tick"
                              /\ walker'.cur = walker.cur
         /\ WalkerFault => /\ walker'.phase = walker.phase /\ walker'.start = walker.start
                           /\ walker'.cur = walker.cur /\ walker'.pc = "tick"
<1>0. TypeOK /\ walker \in WalkerType /\ walker.cur \in Nat /\ head \in Nat
  BY SizesAssumption, BoundsAreNat DEF IInv, TypeOK, NodeTypes, WalkerType, Heights
<1>1. ASSUME ConsumeReorgReset
      PROVE  /\ walker'.phase = walker.phase /\ walker'.start = walker.start
             /\ walker'.pc \in {"poll", "requeue"}
             /\ walker'.cur \in Nat /\ walker'.cur <= walker.cur
  <2>1. reset \in SUBSET Nat /\ reset # {} /\ Min(reset) \in Nat
    BY <1>0, <1>1, MinOfHeights, BoundsAreNat
    DEF ConsumeReorgReset, TypeOK, SignalTypes, Heights
  <2> QED BY <1>0, <1>1, <2>1 DEF ConsumeReorgReset, WalkerType
<1>2. ASSUME StartBatch
      PROVE  /\ walker'.phase /\ walker'.pc = "batch"
             /\ walker'.cur \in Nat /\ walker'.cur <= head + 1
             /\ walker'.start = IF walker.phase THEN walker.start ELSE walker.cur
             /\ walker'.todo \subseteq {h \in Heights : h <= head}
  <2> DEFINE end == Min({walker.cur + BatchSize - 1, head})
  <2>1. end \in Heights /\ end \in Nat /\ end <= head /\ MaxHeight \in Nat
    BY <1>0, <1>2, BatchEnd, BoundsAreNat DEF StartBatch, Heights
  <2>2. walker' = [walker EXCEPT
          !.pc = "batch", !.cur = end + 1, !.todo = walker.cur..end, !.phase = TRUE,
          !.start = IF walker.phase THEN walker.start ELSE walker.cur]
    BY <1>2 DEF StartBatch
  <2> HIDE DEF end
  <2>3. walker.cur..end \subseteq {h \in Heights : h <= head}
    BY <1>0, <2>1 DEF Heights
  <2> QED BY <1>0, <2>1, <2>2, <2>3 DEF WalkerType
<1>3. ASSUME SendTask
      PROVE  /\ walker'.phase = walker.phase /\ walker'.start = walker.start
             /\ walker'.cur = walker.cur /\ walker'.pc # "settle"
  BY <1>0, <1>3 DEF SendTask, WalkerType
<1>4. ASSUME CheckBackfillCoverage
      PROVE  /\ walker'.phase = walker.phase /\ walker'.start = walker.start
             /\ walker'.cur = walker.cur
             /\ walker'.pc \in {"tick", "settle"}
             /\ walker'.pc = "settle" =>
                  walker.phase /\ Covered(walker.start, head) /\ walker'.latest = head
  BY <1>0, <1>4 DEF CheckBackfillCoverage, WalkerType
<1>5. ASSUME SettleBackfill
      PROVE  walker'.phase = FALSE /\ walker'.pc = "tick" /\ walker'.cur = walker.cur
  BY <1>0, <1>5 DEF SettleBackfill, WalkerType
<1>6. ASSUME WalkerFault
      PROVE  /\ walker'.phase = walker.phase /\ walker'.start = walker.start
             /\ walker'.cur = walker.cur /\ walker'.pc = "tick"
  BY <1>0, <1>6 DEF WalkerFault, WalkerType
<1> QED BY <1>1, <1>2, <1>3, <1>4, <1>5, <1>6

\* A walker that a start or a crash leaves behind.
LEMMA WalkerAtRest ==
  ASSUME IInv, StartIndexer \/ Crash
  PROVE  walker'.phase = FALSE /\ walker'.pc = "tick" /\ walker'.todo = {}
<1>1. CASE StartIndexer
  <2>1. walker' = [StoppedWalker EXCEPT !.cur = ResumeBlock, !.base = ResumeBlock]
    BY <1>1 DEF StartIndexer
  <2> QED BY <2>1 DEF StoppedWalker
<1>2. CASE Crash
  BY <1>2 DEF Crash, StoppedWalker
<1> QED BY <1>1, <1>2

LEMMA ScannerFaultFrame == ScannerFault => UNCHANGED walker
BY DEF ScannerFault

LEMMA PhaseStep ==
  ASSUME IInv, PhaseInv, ~HeadMayDrop, [Next]_vars
  PROVE  PhaseInv'
<1>0. /\ head \in Nat /\ head' \in Nat /\ head <= head' /\ walker \in WalkerType
      /\ walker.cur \in Nat
  BY HeadKept, BoundsAreNat DEF IInv, TypeOK, WalkerType
<1>1. CASE StartIndexer \/ Crash
  BY <1>1, WalkerAtRest DEF PhaseInv
<1>2. CASE ConsumeReorgReset \/ StartBatch \/ SendTask \/ SettleBackfill \/ WalkerFault
  <2>1. /\ walker'.pc # "settle" /\ walker'.cur \in Nat
        /\ walker'.phase => walker'.cur <= head + 1
    <3>1. CASE ConsumeReorgReset
      BY <1>0, <3>1, WalkerMoves DEF PhaseInv
    <3>2. CASE StartBatch
      BY <1>0, <3>2, WalkerMoves
    <3>3. CASE SendTask \/ SettleBackfill \/ WalkerFault
      BY <1>0, <3>3, WalkerMoves DEF PhaseInv
    <3> QED BY <1>2, <3>1, <3>2, <3>3
  <2> QED BY <1>0, <2>1 DEF PhaseInv
<1>3. CASE CheckBackfillCoverage
  <2>1. /\ walker'.phase = walker.phase /\ walker'.cur = walker.cur
        /\ walker'.start = walker.start
        /\ walker'.pc = "settle" =>
             walker.phase /\ Covered(walker.start, head) /\ walker'.latest = head
    BY <1>3, WalkerMoves
  <2>2. ASSUME walker'.pc = "settle"
        PROVE  walker'.start..walker'.latest \subseteq Rows' \cup marker'
    BY <2>1, <2>2, KeptGrows DEF Covered
  <2>3. walker'.pc = "settle" => walker'.cur <= walker'.latest + 1 /\ walker'.phase
    BY <1>0, <2>1 DEF PhaseInv
  <2>4. walker'.phase => walker'.cur <= head' + 1
    BY <1>0, <2>1 DEF PhaseInv
  <2> QED BY <2>2, <2>3, <2>4 DEF PhaseInv, Kept
<1>4. CASE UNCHANGED walker
  BY <1>0, <1>4, KeptGrows DEF PhaseInv, Kept
<1> QED BY <1>1, <1>2, <1>3, <1>4, BaseKept, ScannerFaultFrame DEF WalkerNext

\* What SettledPhaseCovered asks of a step.
EndsCovered ==
  backfill.active /\ ~backfill'.active =>
    walker.start..(walker.cur - 1) \subseteq Rows \cup marker

\* Only SettleBackfill ends a phase.
LEMMA OnlySettleEnds ==
  ASSUME IInv, [Next]_vars, backfill.active, ~backfill'.active
  PROVE  SettleBackfill
<1>1. CASE StartBatch
  <2>1. backfill'.active
    BY <1>1 DEF StartBatch, WriteBackfill
  <2> QED BY <2>1
<1>2. CASE ~StartBatch /\ ~SettleBackfill
  <2>1. UNCHANGED backfill
    <3>1. NodeNext \/ StartIndexer \/ Crash \/ FollowHead \/ SendHead \/ WalkerFault \/ ScannerFault
            => UNCHANGED backfill
      BY DEF NodeNext, NewHead, SwitchBranch, StartIndexer, Crash, FollowHead, SendHead, WalkerFault,
             ScannerFault, storeVars
    <3>2. ConsumeReorgReset \/ SendTask \/ CheckBackfillCoverage => UNCHANGED backfill
      BY DEF ConsumeReorgReset, SendTask, CheckBackfillCoverage, storeVars
    <3>3. ScannerNext => UNCHANGED backfill
      BY DEF ScannerNext, StartScan, RetryFailedBlock, SampleEpoch, ReadMarker,
             CheckMarkerCoverage, ClearMarker, storeVars
    <3>4. (\E w \in Workers : WorkerNext(w) \/ WorkerFault(w)) => UNCHANGED backfill
      BY DEF WorkerNext, TakeTask, Retry, Fetch, AwaitPredecessors, CheckForReorg, ScanForFork, Rewind,
             InsertBlockData, RaiseWatermark, PersistWatermark, WorkerFault, storeVars
    <3>5. UNCHANGED vars => UNCHANGED backfill
      BY DEF vars, storeVars
    <3> QED BY <1>2, <3>1, <3>2, <3>3, <3>4, <3>5 DEF Next, WalkerNext
  <2> QED BY <2>1
<1> QED BY <1>1, <1>2

\* Unless the node's head may drop, a phase ends on a range that is all in rows
\* or in the marker, whatever a rewind did between the check and the write and
\* whatever calls failed.
THEOREM PhasesEndCovered == ASSUME ~HeadMayDrop PROVE Spec => SettledPhaseCovered
<1>1. Init => PhaseInv
  BY DEF Init, StoppedWalker, PhaseInv
<1>2. IInv /\ PhaseInv /\ [Next]_vars => PhaseInv'
  BY PhaseStep
<1>3. IInv /\ PhaseInv /\ [Next]_vars => [EndsCovered]_vars
  <2> SUFFICES ASSUME IInv, PhaseInv, [Next]_vars, backfill.active, ~backfill'.active
               PROVE  walker.start..(walker.cur - 1) \subseteq Rows \cup marker
    BY DEF EndsCovered
  <2>1. walker.pc = "settle"
    BY OnlySettleEnds DEF SettleBackfill
  <2>2. /\ walker.cur \in Nat /\ walker.latest \in Nat /\ walker.start \in Nat
        /\ walker.cur <= walker.latest + 1 /\ Kept(walker.start, walker.latest)
    BY <2>1, BoundsAreNat DEF IInv, TypeOK, WalkerType, Heights, PhaseInv
  <2>3. walker.start..(walker.cur - 1) \subseteq walker.start..walker.latest
    BY <2>2
  <2> QED BY <2>2, <2>3 DEF Kept
<1> QED BY <1>1, <1>2, <1>3, Invariance, PTL DEF Spec, SettledPhaseCovered, EndsCovered

\* Every height that the tables or the process have come across.
Known ==
  Rows \cup marker \cup reset \cup failed \cup Range(queue) \cup walker.todo
    \cup {worker[w].height : w \in Workers} \cup scanner.todo \cup scanner.range
    \cup {lastIndexed, watermark}

Under(h) == \E g \in Known : h <= g

\* Heights are handed out below the node's head, and below the head of the
\* coverage check once it is made.  What the walker is past was kept when its
\* phase began, or ended.  Outside a phase on record everything below a known
\* height is kept: a start that finds no phase resumes above the watermark.
ReachInv ==
  /\ \A h \in Known : h <= head /\ (walker.pc = "settle" => h <= walker.latest)
  /\ Kept(StartBlock, (IF walker.phase THEN walker.start ELSE walker.cur) - 1)
  /\ walker.pc = "settle" => Kept(StartBlock, walker.latest)
  /\ ~backfill.active => \A h \in Known : h = 0 \/ Kept(StartBlock, h)

LEMMA KnownHeights ==
  ASSUME IInv
  PROVE  /\ Known \subseteq Heights /\ Heights \subseteq Nat /\ \A h \in Known : Under(h)
         /\ Under(0) /\ \A g \in Heights, h \in Heights : h <= g /\ Under(g) => Under(h)
<1>1. Heights \subseteq Nat
  BY BoundsAreNat DEF Heights
<1>2. Range(queue) \subseteq Heights
  BY DEF IInv, TypeOK, TaskTypes, Range
<1>3. \A w \in Workers : worker[w].height \in Heights
  BY DEF IInv, TypeOK, WorkerType
<1>4. Known \subseteq Heights
  BY <1>2, <1>3
  DEF Known, Rows, IInv, TypeOK, StoreTypes, SignalTypes, TaskTypes, WalkerType, ScannerType
<1>5. lastIndexed \in Known
  BY DEF Known
<1> QED BY <1>1, <1>4, <1>5 DEF Under

\* Hulls and rewound ranges reach no higher than what they are made of.
LEMMA HullUnder ==
  ASSUME IInv, NEW S \in SUBSET Heights, \A h \in S : Under(h)
  PROVE  \A h \in Hull(S) : Under(h)
BY KnownHeights DEF Hull

LEMMA InvalidatedUnder ==
  ASSUME IInv, NEW fork \in Heights, NEW from \in Heights, fork < from, Under(from)
  PROVE  \A h \in Invalidated(fork, from) : Under(h)
<1> DEFINE S == Rows \cup {fork, from}
<1>1. MaxHeight \in Nat
  BY SizesAssumption
<1>2. S \in SUBSET (0..MaxHeight) /\ S # {}
  BY DEF Rows, Heights
<1>3. Max(S) \in S
  BY <1>1, <1>2, MaxOfHeights
<1>4. Under(Max(S))
  <2>1. \A h \in Rows : Under(h)
    BY KnownHeights DEF Known
  <2>2. Under(fork)
    BY KnownHeights DEF Heights
  <2> QED BY <1>3, <2>1, <2>2
<1>5. Invalidated(fork, from) = (fork + 1)..Max(S)
  BY DEF Invalidated
<1> HIDE DEF S
<1>6. Max(S) \in Heights /\ Invalidated(fork, from) \subseteq Heights
  BY <1>2, <1>3, InvalidatedRange DEF Heights, IInv
<1>7. \A h \in Invalidated(fork, from) : h <= Max(S)
  BY <1>1, <1>5, <1>6 DEF Heights
<1> QED BY <1>4, <1>6, <1>7, KnownHeights

\* The parts of Known one by one.
LEMMA KnownParts ==
  ASSUME IInv,
         \A h \in Rows' \cup marker' : Under(h),
         \A h \in reset' \cup failed' \cup Range(queue') : Under(h),
         \A h \in walker'.todo : Under(h),
         \A w \in Workers : Under(worker'[w].height),
         \A h \in scanner'.todo \cup scanner'.range : Under(h),
         Under(lastIndexed'), Under(watermark')
  PROVE  \A h \in Known' : Under(h)
BY DEF Known

\* What a worker's step keeps, and the part of Known it may add to.
LEMMA KnownUnder ==
  ASSUME IInv
  PROVE  /\ \A h \in Rows \cup marker : Under(h)
         /\ \A h \in reset \cup failed \cup Range(queue) : Under(h)
         /\ \A h \in walker.todo : Under(h)
         /\ \A w \in Workers : Under(worker[w].height)
         /\ \A h \in scanner.todo \cup scanner.range : Under(h)
         /\ Under(lastIndexed) /\ Under(watermark)
BY KnownHeights DEF Known

\* Giving an attempt up keeps the worker's number, or hands it over.
LEMMA GiveUpUnder ==
  ASSUME IInv, NEW w \in Workers, GiveUpOrRetry(w) \/ GiveUp(w)
  PROVE  /\ \A v \in Workers : Under(worker'[v].height)
         /\ \A h \in failed' : Under(h)
<1>1. worker \in [Workers -> WorkerType]
  BY DEF IInv, TypeOK
<1>2. \A v \in Workers : worker'[v].height \in {0, worker[v].height}
  <2>1. CASE ~GiveUp(w)
    <3> DEFINE again == [Idle EXCEPT !.pc = "backoff", !.height = worker[w].height,
                                     !.attempt = worker[w].attempt + 1]
    <3>1. worker' = [worker EXCEPT ![w] = again]
      BY <2>1 DEF GiveUpOrRetry
    <3>2. again.height = worker[w].height
      BY DEF Idle
    <3> HIDE DEF again
    <3> QED BY <1>1, <3>1, <3>2
  <2>2. CASE GiveUp(w)
    BY <1>1, <2>2 DEF GiveUp, Idle
  <2> QED BY <2>1, <2>2
<1>3. failed' \subseteq failed \cup {worker[w].height}
  BY DEF GiveUpOrRetry, GiveUp
<1> QED BY <1>2, <1>3, KnownUnder, KnownHeights

LEMMA WorkerKnown ==
  ASSUME IInv, NEW w \in Workers, WorkerNext(w) \/ WorkerFault(w)
  PROVE  \A h \in Known' : Under(h)
<1>0. /\ TypeOK /\ WorkerOK(w) /\ worker \in [Workers -> WorkerType] /\ worker[w] \in WorkerType
      /\ worker[w].height \in Heights /\ worker[w].fork \in Heights
      /\ Under(worker[w].height) /\ Under(0)
      /\ reset \in SUBSET Heights /\ marker \in SUBSET Heights
  BY KnownUnder, KnownHeights DEF IInv, WorkerInv, TypeOK, WorkerType, SignalTypes, StoreTypes
<1>a. \A v \in Workers : Under(worker[v].height)
  BY KnownUnder
\* Steps that move one worker and nothing else that carries a height.
<1>b. ASSUME \A v \in Workers : worker'[v].height \in {worker[v].height, 0},
             UNCHANGED <<indexed, marker, reset, failed, queue, walker, scanner,
                         lastIndexed, watermark>>
      PROVE  \A h \in Known' : Under(h)
  BY <1>0, <1>b, KnownUnder, KnownParts DEF Rows
<1>c. ASSUME GiveUpOrRetry(w) \/ GiveUp(w), UNCHANGED <<indexed, marker, reset, queue, walker,
             scanner, watermark>>, Under(lastIndexed')
      PROVE  \A h \in Known' : Under(h)
  BY <1>c, GiveUpUnder, KnownUnder, KnownParts DEF Rows
<1>1. CASE TakeTask(w)
  <2>1. queue \in Seq(Heights)
    BY <1>0 DEF TypeOK, TaskTypes
  <2>2. Range(queue) = {Head(queue)} \cup Range(Tail(queue)) /\ queue' = Tail(queue)
    BY <1>1, <2>1, QueueRange DEF TakeTask
  <2>3. \A v \in Workers : worker'[v].height \in {worker[v].height, Head(queue)}
    BY <1>0, <1>1 DEF TakeTask, Idle
  <2>4. UNCHANGED <<indexed, marker, reset, failed, walker, scanner, lastIndexed, watermark>>
    BY <1>1 DEF TakeTask, storeVars, signalVars
  <2>5. \A v \in Workers : Under(worker'[v].height)
    BY <1>a, <2>2, <2>3, KnownUnder
  <2> QED BY <2>2, <2>4, <2>5, KnownUnder, KnownParts DEF Rows
<1>12. CASE Retry(w)
  BY <1>0, <1>12, <1>b DEF Retry, storeVars, signalVars, taskVars
<1>2. CASE Fetch(w)
  <2>1. UNCHANGED <<indexed, marker, reset, queue, walker, scanner, lastIndexed, watermark>>
    BY <1>2 DEF Fetch, storeVars, signalVars
  <2>2. CASE worker[w].height <= head
    <3>1. \A v \in Workers : worker'[v].height = worker[v].height
      BY <1>0, <1>2, <2>2 DEF Fetch, WorkerType
    <3> QED BY <1>2, <1>b, <2>1, <2>2, <3>1 DEF Fetch
  <2>3. CASE ~(worker[w].height <= head)
    BY <1>2, <1>c, <2>1, <2>3, KnownUnder DEF Fetch
  <2> QED BY <2>2, <2>3
<1>3. CASE AwaitPredecessors(w) \/ CheckForReorg(w)
  <2>1. UNCHANGED <<indexed, marker, reset, failed, queue, walker, scanner, lastIndexed, watermark>>
    BY <1>3 DEF AwaitPredecessors, CheckForReorg, storeVars, signalVars, taskVars
  <2>2. \A v \in Workers : worker'[v].height = worker[v].height
    <3>1. CASE AwaitPredecessors(w)
      BY <1>0, <3>1 DEF AwaitPredecessors, WorkerType
    <3>2. CASE CheckForReorg(w)
      BY <1>0, <3>2 DEF CheckForReorg, WorkerType
    <3> QED BY <1>3, <3>1, <3>2
  <2> QED BY <1>b, <2>1, <2>2
<1>4. CASE ScanForFork(w)
  <2>1. UNCHANGED <<indexed, marker, reset, queue, walker, scanner, lastIndexed, watermark>>
    BY <1>4 DEF ScanForFork, storeVars, signalVars
  <2>2. CASE head < worker[w].fork
    BY <1>4, <1>c, <2>1, <2>2, KnownUnder DEF ScanForFork
  <2>3. CASE ~(head < worker[w].fork)
    <3>1. \A v \in Workers : worker'[v].height = worker[v].height
      BY <1>0, <1>4, <2>3 DEF ScanForFork, WorkerType
    <3> QED BY <1>4, <1>b, <2>1, <2>3, <3>1 DEF ScanForFork
  <2> QED BY <2>2, <2>3
<1>5. CASE Rewind(w)
  <2> DEFINE fork == worker[w].fork
             range == Invalidated(fork, worker[w].height)
             merged == Hull(marker \cup range)
  <2>1. /\ indexed' = [g \in Heights |-> IF fork < g THEN NoRow ELSE indexed[g]]
        /\ marker' = merged /\ reset' = Raise(IF signaled THEN range ELSE merged)
        /\ worker' = [v \in Workers |-> IF v = w THEN Idle
                        ELSE [worker[v] EXCEPT !.stale = (worker[v].on # NoRow)]]
        /\ watermark' = fork /\ lastIndexed' = fork
        /\ UNCHANGED <<queue, failed, walker, scanner>> /\ fork < worker[w].height
    BY <1>0, <1>5 DEF Rewind, At, WorkerOK, taskVars
  <2>2. range \in SUBSET Heights /\ \A h \in range : Under(h)
    BY <1>0, <2>1, InvalidatedRange, InvalidatedUnder DEF IInv
  <2>3. merged \in SUBSET Heights /\ \A h \in merged : Under(h)
    <3> HIDE DEF range
    <3>1. marker \cup range \in SUBSET Heights /\ \A h \in marker \cup range : Under(h)
      BY <1>0, <2>2, KnownUnder
    <3> QED BY <3>1, HullContains, HullUnder
  <2>4. \A h \in reset' : Under(h)
    <3> DEFINE raised == IF signaled THEN range ELSE merged
    <3>1. raised \in SUBSET Heights /\ \A h \in raised : Under(h)
      BY <2>2, <2>3
    <3> HIDE DEF raised, range, merged
    <3>2. reset \cup raised \in SUBSET Heights /\ \A h \in reset \cup raised : Under(h)
      BY <1>0, <3>1, KnownUnder
    <3>3. reset' \in {raised, Hull(reset \cup raised)}
      BY <2>1 DEF Raise, raised
    <3> QED BY <3>1, <3>2, <3>3, HullUnder
  <2> HIDE DEF range, merged
  <2>5. Under(fork)
    BY <1>0, <2>1, KnownHeights
  <2>6. \A v \in Workers : worker'[v].height \in {worker[v].height, 0}
    BY <1>0, <2>1 DEF WorkerType, Idle
  <2>7. Rows' \subseteq Rows
    BY <2>1 DEF Rows
  <2>8. \A v \in Workers : Under(worker'[v].height)
    BY <1>0, <1>a, <2>6
  <2> QED BY <2>1, <2>3, <2>4, <2>5, <2>7, <2>8, KnownUnder, KnownParts
<1>6. CASE InsertBlockData(w)
  <2>1. UNCHANGED <<marker, reset, queue, walker, scanner, lastIndexed, watermark>>
    BY <1>6 DEF InsertBlockData, signalVars
  <2>2. CASE worker[w].epoch = epoch
    <3>1. /\ indexed' = [indexed EXCEPT ![worker[w].height] = HashAt(worker[w].on, worker[w].height)]
          /\ worker' = [worker EXCEPT ![w].pc = "committed"] /\ UNCHANGED failed
      BY <1>6, <2>2 DEF InsertBlockData
    <3>2. Rows' \subseteq Rows \cup {worker[w].height}
      BY <1>0, <3>1 DEF Rows, TypeOK, StoreTypes
    <3>3. \A v \in Workers : worker'[v].height = worker[v].height
      BY <1>0, <3>1 DEF WorkerType
    <3> QED BY <1>0, <2>1, <3>1, <3>2, <3>3, KnownUnder, KnownParts
  <2>3. CASE worker[w].epoch # epoch
    BY <1>6, <1>c, <2>1, <2>3, KnownUnder DEF InsertBlockData
  <2> QED BY <2>2, <2>3
<1>7. CASE RaiseWatermark(w)
  <2>1. UNCHANGED <<indexed, marker, reset, queue, walker, scanner, watermark>>
    BY <1>7 DEF RaiseWatermark, storeVars
  <2>2. failed' \subseteq failed /\ lastIndexed' \in {lastIndexed, worker[w].height}
    BY <1>7 DEF RaiseWatermark
  <2>3. \A v \in Workers : worker'[v].height \in {worker[v].height, 0}
    BY <1>0, <1>7 DEF RaiseWatermark, WorkerType, Idle
  <2>4. \A v \in Workers : Under(worker'[v].height)
    BY <1>0, <1>a, <2>3
  <2> QED BY <1>0, <2>1, <2>2, <2>4, KnownUnder, KnownParts DEF Rows
<1>8. CASE PersistWatermark(w)
  <2>1. UNCHANGED <<indexed, marker, reset, failed, queue, walker, scanner, lastIndexed>>
    BY <1>8 DEF PersistWatermark, signalVars, taskVars
  <2>2. watermark' \in {watermark, lastIndexed}
    BY <1>8 DEF PersistWatermark
  <2>3. \A v \in Workers : worker'[v].height \in {worker[v].height, 0}
    BY <1>0, <1>8 DEF PersistWatermark, WorkerType, Idle
  <2>4. \A v \in Workers : Under(worker'[v].height)
    BY <1>0, <1>a, <2>3
  <2> QED BY <1>0, <2>1, <2>2, <2>4, KnownUnder, KnownParts DEF Rows
<1>9. CASE WorkerFault(w)
  <2>1. UNCHANGED <<indexed, marker, reset, queue, walker, scanner, watermark>>
    BY <1>9 DEF WorkerFault, storeVars
  <2>2. Under(lastIndexed')
    <3>1. lastIndexed' = lastIndexed \/ (worker[w].pc = "rewind" /\ lastIndexed' = worker[w].fork)
      BY <1>9 DEF WorkerFault
    <3>2. worker[w].pc = "rewind" => worker[w].fork < worker[w].height
      BY <1>0 DEF WorkerOK
    <3>3. worker[w].pc = "rewind" => Under(worker[w].fork)
      BY <1>0, <3>2, KnownHeights
    <3> QED BY <3>1, <3>3, KnownUnder
  <2> QED BY <1>9, <1>c, <2>1, <2>2 DEF WorkerFault
<1> QED BY <1>1, <1>2, <1>3, <1>4, <1>5, <1>6, <1>7, <1>8, <1>9, <1>12 DEF WorkerNext

LEMMA ScannerKnown ==
  ASSUME IInv, ScannerNext \/ ScannerFault
  PROVE  \A h \in Known' : Under(h)
<1>0. /\ TypeOK /\ scanner \in ScannerType /\ scanner.todo \in SUBSET Heights
      /\ scanner.range \in SUBSET Heights /\ reset \in SUBSET Heights
  BY DEF IInv, TypeOK, ScannerType, SignalTypes
<1>1. UNCHANGED <<indexed, failed, walker, worker, lastIndexed, watermark>>
  BY DEF ScannerNext, StartScan, RetryFailedBlock, SampleEpoch, ReadMarker, CheckMarkerCoverage,
         ClearMarker, ScannerFault, storeVars, signalVars, taskVars
<1>2. marker' \in {marker, {}}
  BY DEF ScannerNext, StartScan, RetryFailedBlock, SampleEpoch, ReadMarker, CheckMarkerCoverage,
         ClearMarker, ScannerFault, storeVars
<1>3. \A h \in Range(queue') : Under(h)
  <2>1. CASE RetryFailedBlock
    <3>1. PICK g \in scanner.todo : queue' = Append(queue, g)
      BY <2>1 DEF RetryFailedBlock
    <3>2. Range(queue') = Range(queue) \cup {g}
      BY <1>0, <3>1, QueueRange DEF TypeOK, TaskTypes
    <3> QED BY <3>1, <3>2, KnownUnder
  <2>2. CASE ~RetryFailedBlock
    <3>1. UNCHANGED queue
      BY <2>2 DEF ScannerNext, StartScan, SampleEpoch, ReadMarker, CheckMarkerCoverage,
                  ClearMarker, ScannerFault, taskVars
    <3> QED BY <3>1, KnownUnder
  <2> QED BY <2>1, <2>2
<1>4. \A h \in reset' : Under(h)
  <2>1. reset' \in {reset, Raise(scanner.range)}
    BY DEF ScannerNext, StartScan, RetryFailedBlock, SampleEpoch, ReadMarker, CheckMarkerCoverage,
           ClearMarker, ScannerFault, signalVars
  <2>2. \A h \in Raise(scanner.range) : Under(h)
    <3>1. reset \cup scanner.range \in SUBSET Heights /\ \A h \in reset \cup scanner.range : Under(h)
      BY <1>0, KnownUnder
    <3> QED BY <3>1, HullUnder DEF Raise
  <2> QED BY <2>1, <2>2, KnownUnder
<1>5. /\ scanner'.todo \subseteq scanner.todo \cup failed
      /\ scanner'.range \subseteq scanner.range \cup marker
  <2>1. CASE scanner' = StoppedScanner
    BY <2>1 DEF StoppedScanner
  <2>2. CASE StartScan
    BY <1>0, <2>2 DEF StartScan, ScannerType
  <2>3. CASE RetryFailedBlock
    BY <1>0, <2>3 DEF RetryFailedBlock, ScannerType
  <2>4. CASE SampleEpoch
    BY <1>0, <2>4 DEF SampleEpoch, ScannerType
  <2>5. CASE scanner' = [scanner EXCEPT !.pc = "coverage", !.range = marker]
    BY <1>0, <2>5 DEF ScannerType
  <2>6. CASE scanner' = [scanner EXCEPT !.pc = "clear"]
    BY <1>0, <2>6 DEF ScannerType
  <2>7. ReadMarker => scanner' \in {StoppedScanner, [scanner EXCEPT !.pc = "coverage", !.range = marker]}
    BY DEF ReadMarker
  <2>8. CheckMarkerCoverage => scanner' \in {StoppedScanner, [scanner EXCEPT !.pc = "clear"]}
    BY DEF CheckMarkerCoverage
  <2>9. ClearMarker \/ ScannerFault => scanner' = StoppedScanner
    BY DEF ClearMarker, ScannerFault
  <2> QED BY <2>1, <2>2, <2>3, <2>4, <2>5, <2>6, <2>7, <2>8, <2>9 DEF ScannerNext
<1> QED BY <1>1, <1>2, <1>3, <1>4, <1>5, KnownUnder, KnownParts DEF Rows

\* A start learns nothing that the tables did not hold, a crash nothing at all.
LEMMA StartKnown ==
  ASSUME IInv, StartIndexer \/ Crash
  PROVE  \A h \in Known' : Under(h)
<1>0. /\ watermark \in Heights /\ Heights \subseteq Nat /\ Under(0)
      /\ worker \in [Workers -> WorkerType] /\ StartupGaps \subseteq Heights
  BY KnownHeights DEF IInv, TypeOK, StoreTypes, StartupGaps
<1>1. walker'.todo = {}
  BY WalkerAtRest
<1>2. CASE StartIndexer
  <2>1. \A h \in StartupGaps : Under(h)
    <3>1. \A h \in StartupGaps : h <= watermark
      BY DEF StartupGaps
    <3> QED BY <1>0, <3>1, KnownUnder, KnownHeights
  <2>2. /\ failed' \in {StartupGaps, {}} /\ reset' \in {marker, {}} /\ lastIndexed' = watermark
        /\ UNCHANGED <<indexed, marker, watermark, queue, worker, scanner>>
    BY <1>2 DEF StartIndexer, storeVars
  <2> QED BY <1>1, <2>1, <2>2, KnownUnder, KnownParts DEF Rows
<1>3. CASE Crash
  <2>1. /\ failed' = {} /\ reset' = {} /\ lastIndexed' = 0 /\ queue' = <<>>
        /\ scanner' = StoppedScanner /\ worker' = [w \in Workers |-> Idle]
        /\ UNCHANGED <<indexed, marker, watermark>>
    BY <1>3 DEF Crash, storeVars
  <2>2. scanner'.todo = {} /\ scanner'.range = {} /\ Range(queue') = {}
        /\ \A w \in Workers : worker'[w].height = 0
    BY <2>1 DEF StoppedScanner, Idle, Range
  <2> QED BY <1>0, <1>1, <2>1, <2>2, KnownUnder, KnownParts DEF Rows
<1> QED BY <1>2, <1>3

\* The walker only adds heights when it starts a batch.
LEMMA WalkerKnown ==
  ASSUME IInv, WalkerNext \/ WalkerFault
  PROVE  \A h \in Known' : Under(h) \/ (StartBatch /\ h \in Heights /\ h <= head)
<1>0. /\ TypeOK /\ WalkerInv /\ walker \in WalkerType /\ walker.todo \in SUBSET Heights
      /\ queue \in Seq(Heights)
  BY DEF IInv, TypeOK, WalkerType, TaskTypes
<1>1. UNCHANGED <<indexed, marker, failed, worker, scanner, lastIndexed, watermark>>
  BY DEF WalkerNext, ConsumeReorgReset, StartBatch, SendTask, CheckBackfillCoverage,
         SettleBackfill, WalkerFault, storeVars, signalVars, taskVars
<1>2. reset' \in {reset, {}}
  BY DEF WalkerNext, ConsumeReorgReset, StartBatch, SendTask, CheckBackfillCoverage,
         SettleBackfill, WalkerFault, signalVars
<1>3. \A h \in Range(queue') : Under(h)
  <2>1. CASE SendTask
    <3> DEFINE n == Min(walker.todo)
    <3>1. walker.todo # {}
      BY <1>0, <2>1 DEF SendTask, WalkerInv
    <3>2. n \in walker.todo
      BY <1>0, <3>1, MinOfHeights, BoundsAreNat DEF Heights
    <3>3. Range(queue') = Range(queue) \cup {n}
      BY <1>0, <2>1, <3>2, QueueRange DEF SendTask
    <3> QED BY <3>2, <3>3, KnownUnder
  <2>2. CASE ~SendTask
    <3>1. UNCHANGED queue
      BY <2>2 DEF WalkerNext, ConsumeReorgReset, StartBatch, CheckBackfillCoverage,
                  SettleBackfill, WalkerFault, taskVars
    <3> QED BY <3>1, KnownUnder
  <2> QED BY <2>1, <2>2
<1>4. ~StartBatch => walker'.todo \subseteq walker.todo \cup reset
  <2>1. CASE ConsumeReorgReset
    <3>1. CASE Min(reset) <= walker.cur
      BY <1>0, <2>1, <3>1 DEF ConsumeReorgReset, WalkerType
    <3>2. CASE ~(Min(reset) <= walker.cur)
      BY <1>0, <2>1, <3>2 DEF ConsumeReorgReset, WalkerType
    <3> QED BY <3>1, <3>2
  <2>2. CASE SendTask
    BY <1>0, <2>2 DEF SendTask, WalkerType
  <2>3. CASE CheckBackfillCoverage
    BY <1>0, <2>3 DEF CheckBackfillCoverage, WalkerType
  <2>4. CASE SettleBackfill \/ WalkerFault
    BY <1>0, <2>4 DEF SettleBackfill, WalkerFault, WalkerType
  <2> QED BY <2>1, <2>2, <2>3, <2>4 DEF WalkerNext
<1>5. StartBatch => walker'.todo \subseteq {h \in Heights : h <= head}
  BY WalkerMoves
<1>6. \A h \in walker'.todo : Under(h) \/ (StartBatch /\ h \in Heights /\ h <= head)
  BY <1>4, <1>5, KnownUnder
<1> QED BY <1>1, <1>2, <1>3, <1>6, KnownUnder DEF Known, Rows

\* Without the head subscription, a step comes across no new height unless it
\* starts a batch, below the node's head.
LEMMA KnownStep ==
  ASSUME IInv, [Next]_vars, ~Websocket
  PROVE  \A h \in Known' : Under(h) \/ (StartBatch /\ h \in Heights /\ h <= head)
<1>1. CASE NodeNext \/ UNCHANGED vars
  <2>1. UNCHANGED <<indexed, marker, reset, failed, queue, walker, worker, scanner,
                    lastIndexed, watermark>>
    BY <1>1 DEF NodeNext, NewHead, SwitchBranch, vars, storeVars, signalVars, taskVars
  <2> QED BY <2>1, KnownUnder, KnownParts DEF Rows
<1>2. CASE FollowHead \/ SendHead
  BY <1>2 DEF FollowHead, SendHead
<1> QED BY <1>1, <1>2, StartKnown, WalkerKnown, ScannerKnown, WorkerKnown DEF Next

\* A start resumes above what it knows to be kept.
LEMMA ResumeKept ==
  ASSUME IInv, ~LatestStart,
         ~backfill.active => watermark = 0 \/ Kept(StartBlock, watermark)
  PROVE  Kept(StartBlock, ResumeBlock - 1)
<1>0. /\ StartBlock \in Nat /\ watermark \in Nat /\ backfill.cursor \in Nat
      /\ ConfiguredStart = StartBlock
  BY SizesAssumption, BoundsAreNat DEF IInv, TypeOK, StoreTypes, Heights, ConfiguredStart
<1>1. CASE ResumeBlock = StartBlock
  BY <1>0, <1>1 DEF Kept
<1>2. CASE watermark # 0 /\ backfill.active /\ ~(backfill.cursor < StartBlock)
  <2> DEFINE G == ((StartBlock..backfill.cursor) \ Rows) \cup {backfill.cursor + 1}
  <2>1. ResumeBlock = Min(G)
    BY <1>0, <1>2 DEF ResumeBlock, FirstUnindexed
  <2>2. G \in SUBSET Nat /\ G # {}
    BY <1>0
  <2>3. Min(G) \in G /\ \A y \in G : Min(G) <= y
    BY <2>2, MinOfHeights
  <2>4. ASSUME NEW h \in StartBlock..(Min(G) - 1) PROVE h \in Rows
    <3>1. Min(G) \in Nat /\ Min(G) <= backfill.cursor + 1
      BY <2>2, <2>3
    <3>2. h \in StartBlock..backfill.cursor /\ h < Min(G) /\ h \in Nat
      BY <1>0, <3>1
    <3>3. h \notin G
      BY <2>3, <3>1, <3>2
    <3> QED BY <3>2, <3>3
  <2> QED BY <2>1, <2>4 DEF Kept
<1>3. CASE watermark # 0 /\ ~backfill.active
  <2>1. ResumeBlock = Max({watermark + 1, StartBlock})
    BY <1>0, <1>3 DEF ResumeBlock
  <2>2. ResumeBlock \in {watermark + 1, StartBlock}
    <3>1. watermark + 1 \in Int /\ StartBlock \in Int
      BY <1>0
    <3> QED BY <2>1, <3>1, MaxOfTwo
  <2>3. ResumeBlock = watermark + 1 => Kept(StartBlock, ResumeBlock - 1)
    BY <1>0, <1>3
  <2> QED BY <1>1, <2>2, <2>3
<1> QED BY <1>0, <1>1, <1>2, <1>3 DEF ResumeBlock

\* What the recovery of a crash needs of the write that opens a phase: that it
\* does not fail.
PhaseRecorded == StartBatch => backfill'.active

\* A range that ends lower is kept as well.
LEMMA KeptBelow ==
  ASSUME NEW a \in Nat, NEW b \in Int, NEW c \in Int, b <= c, Kept(a, c)
  PROVE  Kept(a, b)
BY DEF Kept

LEMMA ReachStep ==
  ASSUME IInv, PhaseInv, ReachInv, [Next]_vars, PhaseRecorded,
         ~LatestStart, ~Websocket, ~HeadMayDrop
  PROVE  ReachInv'
<1>0. /\ StartBlock \in Nat /\ Heights \subseteq Nat /\ Known \subseteq Heights
      /\ head \in Nat /\ head' \in Nat /\ head <= head'
      /\ walker \in WalkerType /\ walker.cur \in Nat /\ walker.start \in Nat
      /\ walker.latest \in Nat
  BY KnownHeights, HeadKept, BoundsAreNat, SizesAssumption DEF IInv, TypeOK, WalkerType, Heights
<1>p. IInv' /\ Known' \subseteq Heights
  <2>1. IInv'
    BY InvStep
  <2>2. Range(queue') \subseteq Heights
    BY <2>1 DEF IInv, TypeOK, TaskTypes, Range
  <2>3. \A w \in Workers : worker'[w].height \in Heights
    BY <2>1 DEF IInv, TypeOK, WorkerType
  <2> QED BY <2>1, <2>2, <2>3
          DEF Known, Rows, IInv, TypeOK, StoreTypes, SignalTypes, TaskTypes, WalkerType, ScannerType
<1>k. \A a, b : Kept(a, b) => a..b \subseteq Rows' \cup marker'
  BY KeptGrows DEF Kept
\* The first part: nothing is known above the head, nor above the checked one.
<1>1. \A h \in Known' : h <= head'
  <2> TAKE h \in Known'
  <2>1. h \in Nat
    BY <1>0, <1>p
  <2>2. CASE Under(h)
    BY <1>0, <2>1, <2>2 DEF Under, ReachInv
  <2>3. CASE h <= head
    BY <1>0, <2>1, <2>3
  <2> QED BY <2>2, <2>3, KnownStep
<1>2. CASE walker'.pc = "settle"
  <2>1. CheckBackfillCoverage \/ UNCHANGED walker
    BY <1>2, WalkerAtRest, WalkerMoves, BaseKept, ScannerFaultFrame DEF WalkerNext
  <2>2. CASE CheckBackfillCoverage
    <3>1. /\ walker'.latest = head /\ walker.phase /\ Covered(walker.start, head)
          /\ walker'.phase = walker.phase /\ walker'.start = walker.start
      BY <1>2, <2>2, WalkerMoves
    <3>2. UNCHANGED <<head, indexed, marker, backfill>>
      BY <2>2 DEF CheckBackfillCoverage, nodeVars, storeVars
    <3>3. StartBlock..head \subseteq Rows \cup marker
      <4>1. Kept(StartBlock, walker.start - 1)
        BY <3>1 DEF ReachInv
      <4>2. \A h \in StartBlock..head : h \in StartBlock..(walker.start - 1) \/ h \in walker.start..head
        BY <1>0
      <4> QED BY <3>1, <4>1, <4>2 DEF Kept, Covered
    <3>4. \A h \in Known' : h <= walker'.latest
      BY <1>1, <3>1, <3>2
    <3>5. StartBlock..(walker'.start - 1) \subseteq Rows' \cup marker'
      BY <1>k, <3>1 DEF ReachInv
    <3>6. StartBlock..walker'.latest \subseteq Rows' \cup marker'
      BY <3>1, <3>2, <3>3 DEF Rows
    <3>7. ASSUME NEW h \in Known' PROVE StartBlock..h \subseteq Rows' \cup marker'
      <4>1. h \in Nat /\ h <= head
        BY <1>0, <1>p, <3>1, <3>4, <3>7
      <4>2. StartBlock..h \subseteq StartBlock..head
        BY <1>0, <4>1
      <4> QED BY <3>1, <3>6, <4>2
    <3> QED BY <1>1, <3>1, <3>4, <3>5, <3>6, <3>7 DEF ReachInv, Kept
  <2>3. CASE UNCHANGED walker /\ ~CheckBackfillCoverage
    <3>1. walker.pc = "settle" /\ walker.phase
      BY <1>2, <2>3 DEF PhaseInv
    <3>2. ~StartBatch
      BY <2>3, <3>1, WalkerMoves
    <3>3. \A h \in Known' : h <= walker'.latest
      <4> TAKE h \in Known'
      <4>1. PICK g \in Known : h <= g
        BY <3>2, KnownStep DEF Under
      <4>2. g <= walker.latest /\ g \in Nat /\ h \in Nat
        BY <1>0, <1>p, <3>1 DEF ReachInv
      <4> QED BY <1>0, <2>3, <4>1, <4>2
    <3>4. StartBlock..walker'.latest \subseteq Rows' \cup marker'
      BY <1>k, <2>3, <3>1 DEF ReachInv
    <3>5. StartBlock..(walker'.start - 1) \subseteq Rows' \cup marker'
      BY <1>k, <2>3, <3>1 DEF ReachInv
    <3>6. ASSUME NEW h \in Known' PROVE StartBlock..h \subseteq Rows' \cup marker'
      <4>1. h \in Nat /\ h <= walker.latest
        BY <1>0, <1>p, <2>3, <3>3, <3>6
      <4>2. StartBlock..h \subseteq StartBlock..walker.latest
        BY <1>0, <4>1
      <4> QED BY <2>3, <3>4, <4>2
    <3> QED BY <1>1, <2>3, <3>1, <3>3, <3>4, <3>5, <3>6 DEF ReachInv, Kept
  <2> QED BY <2>1, <2>2, <2>3
\* The other parts, when no coverage check is waiting for its write.
<1>3. CASE walker'.pc # "settle"
  <2>1. StartBlock..((IF walker'.phase THEN walker'.start ELSE walker'.cur) - 1)
          \subseteq Rows' \cup marker'
    <3>1. CASE StartIndexer
      <4>1. walker' = [StoppedWalker EXCEPT !.cur = ResumeBlock, !.base = ResumeBlock]
        BY <3>1 DEF StartIndexer
      <4>2. walker'.phase = FALSE /\ walker'.cur = ResumeBlock
        BY <4>1 DEF StoppedWalker
      <4>3. ~backfill.active => watermark = 0 \/ Kept(StartBlock, watermark)
        BY DEF ReachInv, Known
      <4> QED BY <1>k, <4>2, <4>3, ResumeKept
    <3>2. CASE Crash
      <4>1. walker'.phase = FALSE /\ walker'.cur = 0
        BY <3>2 DEF Crash, StoppedWalker
      <4> QED BY <1>0, <4>1
    <3>3. CASE ConsumeReorgReset
      <4>1. /\ walker'.phase = walker.phase /\ walker'.start = walker.start
            /\ walker'.cur \in Nat /\ walker'.cur <= walker.cur
        BY <3>3, WalkerMoves
      <4>2. CASE walker.phase
        BY <1>k, <4>1, <4>2 DEF ReachInv
      <4>3. CASE ~walker.phase
        <5>1. Kept(StartBlock, walker.cur - 1)
          BY <4>3 DEF ReachInv
        <5>2. Kept(StartBlock, walker'.cur - 1)
          BY <1>0, <4>1, <5>1, KeptBelow
        <5> QED BY <1>k, <4>1, <4>3, <5>2
      <4> QED BY <4>2, <4>3
    <3>4. CASE StartBatch
      <4>1. walker'.phase /\ walker'.start = IF walker.phase THEN walker.start ELSE walker.cur
        BY <3>4, WalkerMoves
      <4> QED BY <1>k, <4>1 DEF ReachInv
    <3>5. CASE SendTask \/ CheckBackfillCoverage \/ WalkerFault \/ UNCHANGED walker
      <4>1. walker'.phase = walker.phase /\ walker'.start = walker.start /\ walker'.cur = walker.cur
        BY <3>5, WalkerMoves
      <4> QED BY <1>k, <4>1 DEF ReachInv
    <3>6. CASE SettleBackfill
      <4>1. walker'.phase = FALSE /\ walker'.cur = walker.cur /\ walker.pc = "settle"
        BY <3>6, WalkerMoves DEF SettleBackfill
      <4>2. walker.cur <= walker.latest + 1 /\ Kept(StartBlock, walker.latest)
        BY <4>1 DEF PhaseInv, ReachInv
      <4>3. Kept(StartBlock, walker.cur - 1)
        BY <1>0, <4>2, KeptBelow
      <4> QED BY <1>k, <4>1, <4>3
    <3> QED BY <3>1, <3>2, <3>3, <3>4, <3>5, <3>6, BaseKept, ScannerFaultFrame DEF WalkerNext
  <2>2. ASSUME ~backfill'.active, NEW h \in Known'
        PROVE  h = 0 \/ StartBlock..h \subseteq Rows' \cup marker'
    <3>1. ~StartBatch /\ Under(h)
      BY <2>2, KnownStep DEF PhaseRecorded
    <3>2. PICK g \in Known : h <= g
      BY <3>1 DEF Under
    <3>3. h \in Nat /\ g \in Nat
      BY <1>0, <1>p, <2>2
    <3>4. CASE backfill.active
      <4>1. walker.pc = "settle"
        BY <2>2, <3>4, OnlySettleEnds DEF SettleBackfill
      <4>2. g <= walker.latest /\ Kept(StartBlock, walker.latest)
        BY <4>1 DEF ReachInv
      <4>3. Kept(StartBlock, h)
        BY <1>0, <3>2, <3>3, <4>2, KeptBelow
      <4> QED BY <1>k, <4>3
    <3>5. CASE ~backfill.active
      <4>1. g = 0 \/ Kept(StartBlock, g)
        BY <3>5 DEF ReachInv
      <4>2. h = 0 \/ Kept(StartBlock, h)
        BY <1>0, <3>2, <3>3, <4>1, KeptBelow
      <4> QED BY <1>k, <4>2
    <3> QED BY <3>4, <3>5
  <2> QED BY <1>1, <1>3, <2>1, <2>2 DEF ReachInv, Kept
<1> QED BY <1>2, <1>3

LEMMA ReachInit == Init => ReachInv
<1> SUFFICES ASSUME Init PROVE ReachInv
  OBVIOUS
<1>1. Known = {0} \cup {worker[w].height : w \in Workers}
  BY DEF Init, Known, Rows, Range, StoppedWalker, StoppedScanner
<1>2. Known \subseteq {0}
  BY <1>1 DEF Init, Idle
<1>3. head \in Nat /\ StartBlock \in Nat /\ StartBlock..(0 - 1) = {}
  BY SizesAssumption DEF Init
<1> QED BY <1>2, <1>3 DEF Init, ReachInv, StoppedWalker, Kept

LEMMA ReachIsRecoverable ==
  ASSUME IInv, ReachInv, 0 < StartBlock \/ 0 < StartupGapScanBlocks
  PROVE  CrashRecoverable
<1>0. StartBlock \in Nat /\ watermark \in Nat /\ StartupGapScanBlocks \in Nat /\ watermark \in Known
  BY SizesAssumption, BoundsAreNat DEF IInv, TypeOK, StoreTypes, Heights, Known
<1> SUFFICES ASSUME NEW h \in StartBlock..watermark, ~backfill.active
             PROVE  h \in Rows \cup marker \/ watermark < h + StartupGapScanBlocks
  BY DEF CrashRecoverable
<1>1. CASE watermark = 0
  BY <1>0, <1>1
<1>2. CASE Kept(StartBlock, watermark)
  BY <1>2 DEF Kept
<1> QED BY <1>0, <1>1, <1>2 DEF ReachInv

\* After a crash at any moment, the next start finds again every height below
\* the persisted watermark that has no row, for any number of crashes, reorgs
\* and failed calls, if only the write that opens a phase is never the call
\* that fails, heads arrive by polling and the node's head does not drop.
THEOREM CrashesRecoverable ==
  ASSUME ~LatestStart, ~Websocket, ~HeadMayDrop, 0 < StartBlock \/ 0 < StartupGapScanBlocks
  PROVE  Spec /\ [][PhaseRecorded]_vars => []CrashRecoverable
<1>1. Init => PhaseInv /\ ReachInv
  BY ReachInit DEF Init, StoppedWalker, PhaseInv
<1>2. IInv /\ PhaseInv /\ ReachInv /\ [Next]_vars /\ [PhaseRecorded]_vars => PhaseInv' /\ ReachInv'
  <2> SUFFICES ASSUME IInv, PhaseInv, ReachInv, [Next]_vars, [PhaseRecorded]_vars
               PROVE  PhaseInv' /\ ReachInv'
    OBVIOUS
  <2>1. CASE PhaseRecorded
    BY <2>1, PhaseStep, ReachStep
  <2>2. CASE UNCHANGED vars
    <3>1. ~StartBatch
      <4> SUFFICES ASSUME StartBatch PROVE FALSE
        OBVIOUS
      <4>1. walker'.pc = "batch"
        BY WalkerMoves
      <4> QED BY <2>2, <4>1 DEF StartBatch, vars
    <3> QED BY <3>1, PhaseStep, ReachStep DEF PhaseRecorded
  <2> QED BY <2>1, <2>2
<1>3. IInv /\ ReachInv => CrashRecoverable
  BY ReachIsRecoverable
<1> QED BY <1>1, <1>2, <1>3, Invariance, PTL DEF Spec

\* With no failed call at all, as in the run, nothing is left to assume of the
\* write.
THEOREM CrashesRecoverableWithoutFaults ==
  ASSUME MaxFaults = 0,
         ~LatestStart, ~Websocket, ~HeadMayDrop, 0 < StartBlock \/ 0 < StartupGapScanBlocks
  PROVE  Spec => []CrashRecoverable
<1>1. IInv /\ [Next]_vars => [PhaseRecorded]_vars
  <2> SUFFICES ASSUME IInv, StartBatch PROVE backfill'.active
    BY DEF PhaseRecorded
  <2>1. ~(faults < MaxFaults)
    BY DEF IInv, TypeOK, BudgetTypes
  <2> QED BY <2>1 DEF StartBatch, WriteBackfill
<1>2. Spec => [][PhaseRecorded]_vars
  BY <1>1, Invariance, PTL DEF Spec
<1> QED BY <1>2, CrashesRecoverable
=============================================================================
