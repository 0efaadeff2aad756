------------------------ MODULE CandidateSnapshot_proofs ------------------------
(***************************************************************************)
(* Proofs about CandidateSnapshot, for any transactions, windows and       *)
(* retention, and any number of reorgs, repeats and failures.             *)
(***************************************************************************)
EXTENDS CandidateSnapshot, Numbers, FiniteSetTheorems, FunctionTheorems

SnapshotTypes ==
  /\ tip \in Heights /\ pending \in SUBSET Txs
  /\ builders \in [Heights -> BuilderRows \cup {NoBlock}]

\* The detail of a block is of one snapshot: it is finite and of one slot, so
\* the prune takes all of it or nothing.
DetailInv ==
  /\ \A h \in Heights : IsFiniteSet(DetailOf(h))
  /\ \A c, d \in candidates : c.height = d.height => c.slot = d.slot

SnapshotInv == SnapshotTypes /\ DetailInv /\ AggregatesMatchDetail
-----------------------------------------------------------------------------
(* Sets of candidates.                                                      *)

LEMMA AggregatesAre ==
  ASSUME NEW S, IsFiniteSet(S)
  PROVE  Aggregates(S) \in BuilderRows /\ Aggregates(S).snapshot = TRUE /\ Aggregates(S) # NoBlock
<1>1. IsFiniteSet({c \in S : c.reason = "eligible"})
  BY FS_Subset
<1>2. Cardinality(S) \in Nat /\ Cardinality({c \in S : c.reason = "eligible"}) \in Nat
  BY <1>1, FS_CardinalityType
<1>3. Aggregates(S) \in BuilderRows
  BY <1>2 DEF Aggregates, BuilderRows
<1>4. Aggregates(S).snapshot = TRUE
  BY DEF Aggregates
<1> QED BY <1>3, <1>4, CandidateSizes

LEMMA ClassifiedAre ==
  ASSUME NEW h, NEW slot, NEW live \in SUBSET Txs
  PROVE  /\ IsFiniteSet(Classified(h, slot, live))
         /\ \A c \in Classified(h, slot, live) : c.height = h /\ c.slot = slot
<1> DEFINE row(t) == [height |-> h, tx |-> t, slot |-> slot, reason |-> Reason(t, live, slot)]
           f == [t \in live |-> row(t)]
           S == {row(t) : t \in live}
<1>1. IsFiniteSet(live)
  BY CandidateSizes, FS_Subset
<1>2. \A t \in live : row(t) \in S
  OBVIOUS
<1>3. \A c \in S : \E t \in live : c = row(t)
  OBVIOUS
<1>4. \A c \in S : c.height = h /\ c.slot = slot
  OBVIOUS
<1>5. Classified(h, slot, live) = S
  BY DEF Classified
<1> HIDE DEF row, S
<1>6. f \in Surjection(live, S)
  BY <1>2, <1>3 DEF Surjection
<1> HIDE DEF f
<1>7. IsFiniteSet(S)
  BY <1>1, <1>6, FS_Surjection
<1> QED BY <1>4, <1>5, <1>7

\* A block with detail took its snapshot.
LEMMA DetailMeansTaken ==
  ASSUME SnapshotInv, NEW h \in Heights, DetailOf(h) # {}
  PROVE  SnapshotTaken(h)
<1>1. IsFiniteSet(DetailOf(h)) /\ builders[h] = Aggregates(DetailOf(h))
  BY DEF SnapshotInv, DetailInv, AggregatesMatchDetail
<1> QED BY <1>1, AggregatesAre DEF SnapshotTaken

\* Fewer rows, where each height keeps all of its own or none, and its builder
\* if it keeps some.
LEMMA RowsLeave ==
  ASSUME SnapshotInv, SnapshotTypes', candidates' \subseteq candidates,
         \A h \in Heights : DetailOf(h)' # {} => DetailOf(h)' = DetailOf(h) /\ builders'[h] = builders[h]
  PROVE  SnapshotInv'
<1>1. \A h \in Heights : IsFiniteSet(DetailOf(h)')
  BY FS_EmptySet DEF SnapshotInv, DetailInv
<1>2. \A c, d \in candidates' : c.height = d.height => c.slot = d.slot
  BY DEF SnapshotInv, DetailInv
<1>3. \A h \in Heights : DetailOf(h)' # {} =>
        builders'[h] # NoBlock /\ builders'[h] = Aggregates(DetailOf(h)')
  BY DEF SnapshotInv, AggregatesMatchDetail
<1>4. AggregatesMatchDetail'
  BY <1>3 DEF AggregatesMatchDetail, Aggregates
<1> QED BY <1>1, <1>2, <1>4 DEF SnapshotInv, DetailInv

LEMMA Elsewhere ==
  ASSUME SnapshotInv, SnapshotTypes', candidates' = candidates, builders' = builders
  PROVE  SnapshotInv'
<1> QED BY RowsLeave DEF DetailOf
-----------------------------------------------------------------------------
LEMMA InitSnapshots == Init => SnapshotInv
<1> SUFFICES ASSUME Init PROVE SnapshotInv
  OBVIOUS
<1>1. NoSnapshot \in BuilderRows
  BY DEF NoSnapshot, BuilderRows
<1>2. tip = 0 /\ 0 \in Heights
  BY CandidateSizes DEF Init, Heights
<1>3. builders \in [Heights -> BuilderRows \cup {NoBlock}] /\ pending = {} /\ candidates = {}
  BY <1>1 DEF Init
<1>4. \A h \in Heights : DetailOf(h) = {}
  BY <1>3 DEF DetailOf
<1>5. DetailInv /\ AggregatesMatchDetail
  BY <1>3, <1>4, FS_EmptySet DEF DetailInv, AggregatesMatchDetail
<1> QED BY <1>2, <1>3, <1>5 DEF SnapshotInv, SnapshotTypes

LEMMA TakeSnapshot ==
  ASSUME SnapshotInv, NEW h \in Heights, NEW slot, NEW live \in SUBSET Txs, ~SnapshotTaken(h),
         SnapshotTypes',
         candidates' = {c \in candidates : \A d \in Classified(h, slot, live) :
                          <<c.height, c.tx>> # <<d.height, d.tx>>} \cup Classified(h, slot, live),
         builders' = [builders EXCEPT ![h] = Aggregates(Classified(h, slot, live))]
  PROVE  SnapshotInv'
<1> DEFINE detail == Classified(h, slot, live)
<1>1. IsFiniteSet(detail) /\ \A c \in detail : c.height = h /\ c.slot = slot
  BY ClassifiedAre
<1>2. DetailOf(h) = {}
  BY DetailMeansTaken
<1>3. \A c \in candidates : c.height # h
  BY <1>2 DEF DetailOf
<1>4. candidates' = candidates \cup detail
  <2>1. \A c \in candidates : \A d \in detail : <<c.height, c.tx>> # <<d.height, d.tx>>
    BY <1>1, <1>3
  <2>2. candidates' = {c \in candidates : \A d \in detail : <<c.height, c.tx>> # <<d.height, d.tx>>} \cup detail
    OBVIOUS
  <2> HIDE DEF detail
  <2> QED BY <2>1, <2>2
<1>5. builders' = [builders EXCEPT ![h] = Aggregates(detail)] /\ builders \in [Heights -> BuilderRows \cup {NoBlock}]
  BY DEF SnapshotInv, SnapshotTypes
<1> HIDE DEF detail
<1>6. DetailOf(h)' = detail
  BY <1>1, <1>3, <1>4 DEF DetailOf
<1>7. \A g \in Heights \ {h} : DetailOf(g)' = DetailOf(g) /\ builders'[g] = builders[g]
  <2> TAKE g \in Heights \ {h}
  <2>1. DetailOf(g)' = DetailOf(g)
    BY <1>1, <1>4 DEF DetailOf
  <2>2. builders'[g] = builders[g]
    BY <1>5
  <2> QED BY <2>1, <2>2
<1>8. builders'[h] = Aggregates(detail) /\ builders'[h] # NoBlock
  <2>1. builders'[h] = Aggregates(detail)
    BY <1>5
  <2> QED BY <1>1, <2>1, AggregatesAre
<1>9. \A g \in Heights : IsFiniteSet(DetailOf(g)')
  BY <1>1, <1>6, <1>7 DEF SnapshotInv, DetailInv
<1>10. \A c, d \in candidates' : c.height = d.height => c.slot = d.slot
  BY <1>1, <1>3, <1>4 DEF SnapshotInv, DetailInv
<1>11. \A g \in Heights : DetailOf(g)' # {} =>
         builders'[g] # NoBlock /\ builders'[g] = Aggregates(DetailOf(g)')
  BY <1>6, <1>7, <1>8 DEF SnapshotInv, AggregatesMatchDetail
<1>12. AggregatesMatchDetail'
  BY <1>11 DEF AggregatesMatchDetail, Aggregates
<1> QED BY <1>9, <1>10, <1>12 DEF SnapshotInv, DetailInv

LEMMA CommitStep == ASSUME SnapshotInv, Commit PROVE SnapshotInv'
<1>1. PICK h \in 0..tip : StoreBlock(Block(h))
  BY DEF Commit
<1>2. h \in Heights
  BY <1>1, CandidateSizes DEF SnapshotInv, SnapshotTypes, Heights
<1> DEFINE b == Block(h)
           left == pending \ Settles(b.tx)
           detail == Classified(h, b.slot, LivePool(left))
           takes == Due(b.slot) /\ ~SnapshotTaken(h) /\ PredecessorsCommitted(h)
<1>3. b.height = h
  BY DEF Block
<1>4. LivePool(left) \in SUBSET Txs /\ left \in SUBSET Txs
  BY DEF SnapshotInv, SnapshotTypes, LivePool
<1>5. /\ pending' = left /\ tip' = tip
      /\ candidates' = IF takes
           THEN {c \in candidates : \A d \in detail : <<c.height, c.tx>> # <<d.height, d.tx>>} \cup detail
           ELSE candidates
      /\ builders' = [builders EXCEPT ![h] =
           IF builders[h] # NoBlock /\ builders[h].snapshot THEN builders[h]
           ELSE IF takes THEN Aggregates(detail) ELSE NoSnapshot]
  <2>1. tip' = tip
    BY DEF Commit, nodeVars
  <2> HIDE DEF b
  <2>2. StoreBlock(b) /\ b.height = h
    BY <1>1, <1>3 DEF b
  <2>3. pending' = left
    BY <2>2 DEF StoreBlock
  <2>4. candidates' = IF takes
          THEN {c \in candidates : \A d \in detail : <<c.height, c.tx>> # <<d.height, d.tx>>} \cup detail
          ELSE candidates
    BY <2>2 DEF StoreBlock
  <2>5. builders' = [builders EXCEPT ![h] =
          IF builders[h] # NoBlock /\ builders[h].snapshot THEN builders[h]
          ELSE IF takes THEN Aggregates(detail) ELSE NoSnapshot]
    BY <2>2 DEF StoreBlock
  <2> QED BY <2>1, <2>3, <2>4, <2>5
<1>6. IsFiniteSet(detail)
  BY <1>4, ClassifiedAre
<1>7. NoSnapshot \in BuilderRows /\ Aggregates(detail) \in BuilderRows
  BY <1>6, AggregatesAre DEF NoSnapshot, BuilderRows
<1> HIDE DEF b, left, detail, takes
<1>8. SnapshotTypes'
  BY <1>2, <1>4, <1>5, <1>7 DEF SnapshotInv, SnapshotTypes
<1>9. CASE takes
  <2>1. ~SnapshotTaken(h)
    BY <1>9 DEF takes
  <2>2. builders' = [builders EXCEPT ![h] = Aggregates(detail)]
    BY <1>5, <1>9, <2>1 DEF SnapshotTaken
  <2>3. candidates' = {c \in candidates : \A d \in detail : <<c.height, c.tx>> # <<d.height, d.tx>>} \cup detail
    BY <1>5, <1>9
  <2> QED BY <1>2, <1>4, <1>8, <2>1, <2>2, <2>3, TakeSnapshot DEF detail
<1>10. CASE ~takes
  <2>1. candidates' = candidates
    BY <1>5, <1>10
  <2>2. \A g \in Heights : DetailOf(g)' = DetailOf(g)
    BY <2>1 DEF DetailOf
  <2>3. DetailOf(h) # {} => builders' = [builders EXCEPT ![h] = builders[h]]
    BY <1>2, <1>5, DetailMeansTaken DEF SnapshotTaken
  <2>4. \A g \in Heights : DetailOf(g) # {} => builders'[g] = builders[g]
    BY <1>2, <1>5, <2>3 DEF SnapshotInv, SnapshotTypes
  <2> QED BY <1>8, <2>1, <2>2, <2>4, RowsLeave
<1> QED BY <1>9, <1>10

LEMMA RewindStep == ASSUME SnapshotInv, Rewind PROVE SnapshotInv'
<1>1. PICK fork : /\ builders' = [g \in Heights |-> IF fork < g THEN NoBlock ELSE builders[g]]
                  /\ candidates' = {c \in candidates : c.height <= fork}
                  /\ fork \in Int
  <2>1. PICK h \in 0..tip :
          LET fork == Max({0} \cup {g \in 0..(h - 1) : g \notin Stored \/ Indexed(g)})
          IN /\ builders' = [g \in Heights |-> IF fork < g THEN NoBlock ELSE builders[g]]
             /\ candidates' = {c \in candidates : c.height <= fork}
    BY DEF Rewind
  <2> DEFINE S == {0} \cup {g \in 0..(h - 1) : g \notin Stored \/ Indexed(g)}
  <2>2. S \in SUBSET (0..MaxHeight) /\ S # {}
    <3>1. MaxHeight \in Nat /\ tip \in 0..MaxHeight
      BY CandidateSizes DEF SnapshotInv, SnapshotTypes, Heights
    <3>2. \A g \in 0..(h - 1) : g \in 0..MaxHeight
      BY <3>1
    <3>3. 0 \in 0..MaxHeight
      BY <3>1
    <3> QED BY <3>2, <3>3
  <2> HIDE DEF S
  <2>3. Max(S) \in Int
    <3>1. MaxHeight \in Nat
      BY CandidateSizes
    <3>2. Max(S) \in S
      BY <2>2, <3>1, MaxOfHeights
    <3>3. Max(S) \in 0..MaxHeight
      BY <2>2, <3>2, Zenon
    <3> QED BY <3>1, <3>3
  <2> QED BY <2>1, <2>3 DEF S
<1>2. UNCHANGED <<tip, pending>>
  BY DEF Rewind, nodeVars, pendingVars
<1>3. SnapshotTypes'
  BY <1>1, <1>2 DEF SnapshotInv, SnapshotTypes
<1>4. ASSUME NEW h \in Heights, DetailOf(h)' # {}
      PROVE  DetailOf(h)' = DetailOf(h) /\ builders'[h] = builders[h]
  <2>1. h <= fork
    BY <1>1, <1>4 DEF DetailOf
  <2>2. h \in Int /\ ~(fork < h)
    BY <1>1, <2>1, CandidateSizes DEF Heights
  <2> QED BY <1>1, <2>1, <2>2 DEF DetailOf
<1> QED BY <1>1, <1>3, <1>4, RowsLeave
-----------------------------------------------------------------------------
(* Maintenance.                                                             *)

LEMMA RepairStep == ASSUME SnapshotInv, RepairTick PROVE SnapshotInv'
<1>1. UNCHANGED <<tip, pending>>
  BY DEF RepairTick, nodeVars, pendingVars
<1>2. CASE UNCHANGED <<candidates, builders>>
  BY <1>1, <1>2, Elsewhere DEF SnapshotInv, SnapshotTypes
<1>3. CASE RepairIncluded
  <2> DEFINE blocks == {c.height : c \in Impossible}
             kept == candidates \ Impossible
             of(h) == {c \in kept : c.height = h}
  <2>1. /\ candidates' = kept
        /\ builders' = [h \in Heights |->
             IF h \in blocks /\ builders[h] # NoBlock /\ builders[h].snapshot
               THEN Aggregates(of(h)) ELSE builders[h]]
    BY <1>3 DEF RepairIncluded
  <2>2. ASSUME NEW h \in Heights
        PROVE  DetailOf(h)' = of(h) /\ of(h) \subseteq DetailOf(h) /\ IsFiniteSet(of(h))
    <3>1. DetailOf(h)' = of(h) /\ of(h) \in SUBSET DetailOf(h)
      BY <2>1 DEF DetailOf
    <3> HIDE DEF of
    <3> QED BY <3>1, FS_Subset DEF SnapshotInv, DetailInv
  <2>3. ASSUME NEW h \in Heights, h \notin blocks PROVE of(h) = DetailOf(h)
    BY <2>3 DEF DetailOf
  <2>4. candidates' \subseteq candidates
    BY <2>1
  <2> HIDE DEF blocks, kept, of
  <2>5. builders' \in [Heights -> BuilderRows \cup {NoBlock}]
    BY <2>1, <2>2, AggregatesAre DEF SnapshotInv, SnapshotTypes
  <2>6. SnapshotTypes'
    BY <1>1, <2>5 DEF SnapshotInv, SnapshotTypes
  <2>7. ASSUME NEW h \in Heights, of(h) # {}
        PROVE  builders'[h] # NoBlock /\ builders'[h] = Aggregates(of(h))
    <3>1. DetailOf(h) # {}
      BY <2>2, <2>7
    <3>2. SnapshotTaken(h) /\ builders[h] = Aggregates(DetailOf(h))
      BY <3>1, DetailMeansTaken DEF SnapshotInv, AggregatesMatchDetail
    <3>3. builders'[h] = Aggregates(of(h))
      BY <2>1, <2>3, <3>2 DEF SnapshotTaken
    <3> QED BY <2>2, <3>3, AggregatesAre
  <2>8. \A h \in Heights : DetailOf(h)' # {} =>
          builders'[h] # NoBlock /\ builders'[h] = Aggregates(DetailOf(h)')
    BY <2>2, <2>7
  <2>9. AggregatesMatchDetail'
    BY <2>8 DEF AggregatesMatchDetail, Aggregates
  <2>10. DetailInv'
    BY <2>2, <2>4 DEF SnapshotInv, DetailInv
  <2> QED BY <2>6, <2>9, <2>10 DEF SnapshotInv
<1> QED BY <1>2, <1>3 DEF RepairTick

\* A statement of a tick of the maintenance loop after the repair.
PruneTick == SweepPending \/ PruneLog \/ PruneDetail

LEMMA PruneStep == ASSUME SnapshotInv, PruneTick PROVE SnapshotInv'
<1>1. UNCHANGED <<tip, builders>> /\ pending' \subseteq pending
  BY DEF PruneTick, SweepPending, PruneLog, PruneDetail, nodeVars, pendingVars, blockVars, Unswept
<1>2. SnapshotTypes'
  BY <1>1 DEF SnapshotInv, SnapshotTypes
<1>3. candidates' = candidates \/ candidates' = {c \in candidates : clock - c.slot <= Retention}
  BY DEF PruneTick, SweepPending, PruneLog, PruneDetail, blockVars
<1>4. ASSUME candidates' = {c \in candidates : clock - c.slot <= Retention},
             NEW h \in Heights, DetailOf(h)' # {}
      PROVE  DetailOf(h)' = DetailOf(h)
  <2>1. PICK c \in candidates : c.height = h /\ clock - c.slot <= Retention
    BY <1>4 DEF DetailOf
  <2>2. \A d \in DetailOf(h) : d.slot = c.slot
    BY <2>1 DEF DetailOf, SnapshotInv, DetailInv
  <2> QED BY <1>4, <2>1, <2>2 DEF DetailOf
<1>5. CASE candidates' = candidates
  BY <1>1, <1>2, <1>5, Elsewhere
<1>6. CASE candidates' = {c \in candidates : clock - c.slot <= Retention}
  BY <1>1, <1>2, <1>4, <1>6, RowsLeave
<1> QED BY <1>3, <1>5, <1>6
-----------------------------------------------------------------------------
LEMMA StepSnapshots == SnapshotInv /\ [Next]_vars => SnapshotInv'
<1> SUFFICES ASSUME SnapshotInv, [Next]_vars PROVE SnapshotInv'
  OBVIOUS
<1>1. CASE NodeNext \/ PendingNext \/ UNCHANGED vars
  <2>1. candidates' = candidates /\ builders' = builders
    BY <1>1 DEF NodeNext, PendingNext, Mine, Reorg, Slot, Submit, RefreshLiveness, Observe, vars, blockVars
  <2>2. tip' \in Heights
    <3>1. tip' = tip \/ (tip < MaxHeight /\ tip' = tip + 1)
      BY <1>1 DEF NodeNext, PendingNext, Mine, Reorg, Slot, Submit, RefreshLiveness, Observe, vars, nodeVars
    <3> QED BY <3>1, CandidateSizes DEF SnapshotInv, SnapshotTypes, Heights
  <2>3. pending' \in SUBSET Txs
    BY <1>1 DEF NodeNext, PendingNext, Mine, Reorg, Slot, Submit, RefreshLiveness, Observe, vars,
       pendingVars, SnapshotInv, SnapshotTypes
  <2>4. SnapshotTypes'
    BY <2>1, <2>2, <2>3 DEF SnapshotInv, SnapshotTypes
  <2> QED BY <2>1, <2>4, Elsewhere
<1>2. CASE SweepPending \/ PruneLog \/ PruneDetail
  <2>1. PruneTick
    BY <1>2 DEF PruneTick
  <2> QED BY <2>1, PruneStep
<1> QED BY <1>1, <1>2, CommitStep, RewindStep, RepairStep DEF Next, BlockNext, MaintenanceNext

\* A block's permanent aggregates are those of its detail as long as that is
\* there: a repair removes rows and sums up again, a prune takes the detail as a
\* whole, and no second snapshot mixes with the first (upsertBlockBuilder,
\* blockHasCandidateSnapshot, RepairIncludedBlobInclusionCandidates).
THEOREM AggregatesAlwaysMatch == Spec => []AggregatesMatchDetail
<1>1. SnapshotInv => AggregatesMatchDetail
  BY DEF SnapshotInv
<1> QED BY <1>1, InitSnapshots, StepSnapshots, PTL DEF Spec

-----------------------------------------------------------------------------
(* The gate and the repair.                                                 *)

\* Only a tick that repaired goes on to the prunes.
MaintenanceType ==
  {m \in [due : BOOLEAN, repaired : BOOLEAN, next : {"sweep", "log", "detail"}] :
     m.next # "sweep" => m.repaired}

GateTypes ==
  /\ clock \in Nat /\ reorgs \in Nat /\ late \in BOOLEAN
  /\ pool \in SUBSET Txs /\ sent \in SUBSET Txs
  /\ chain \in [Heights -> [tx : Txs \cup {NoTx}, on : Nat, slot : Nat]]
  /\ gone \in [Txs -> Nat] /\ unseen \in [Txs -> Nat]
  /\ rows \in [Heights -> BlockRows \cup {NoBlock}]
  /\ replaced \in [Txs -> [by : Txs \cup {NoTx}, age : Nat]]
  /\ maintenance \in MaintenanceType

\* Slots grow with the height, and only the tip is ever replaced, in its slot.
ChainInv ==
  /\ chain[0].tx = NoTx /\ chain[0].on = 0
  /\ \A h \in 0..tip : chain[h].slot <= clock /\ chain[h].on <= reorgs
  /\ \A g, h \in 0..tip : g < h => chain[g].slot < chain[h].slot

\* A row is of a block the chain has or had; a block of the chain that has none
\* is recent.
RowInv ==
  /\ \A h \in Stored : /\ h <= tip /\ rows[h].on <= reorgs
                       /\ rows[h].on = chain[h].on => rows[h].tx = chain[h].tx
  /\ 0 \in Stored => Indexed(0)
  /\ \A h \in 1..tip : Indexed(h) \/ clock - chain[h].slot <= MaxCommitLag

\* The log replaces a transaction by one of its sender and nonce.
LogInv == \A t \in Txs : replaced[t].by \in Rivals(t) \cup {NoTx}

\* Unless a write was late, the pending table has nothing the rows settled.
PendingInv == ~late => \A g \in Stored : pending \cap Settles(rows[g].tx) = {}

\* What a block settled has left the pool; how long ago, its times tell.
SettledLong(t, slots) ==
  /\ t \notin pool
  /\ t \in sent => gone[t] >= slots \/ gone[t] > MaxDelay
  /\ ~late /\ t \in pending => unseen[t] >= slots - 1 \/ unseen[t] > TTL

AgeInv ==
  reorgs = 0 => \A g \in 0..tip : \A t \in Settles(chain[g].tx) :
                  SettledLong(t, clock - chain[g].slot)

\* A candidate is of a transaction and of a block of the chain, by its slot.
CandidateInv ==
  \A c \in candidates : /\ c.tx \in Txs /\ c.height \in 0..tip
                        /\ c.slot = chain[c.height].slot

\* Between the repair and the prune of a tick no old row becomes impossible.
RepairedInv ==
  maintenance.due /\ maintenance.repaired /\ ~late =>
    \A c \in Impossible : clock - c.slot <= Retention

GateInv == GateTypes /\ ChainInv /\ RowInv /\ LogInv /\ PendingInv /\ AgeInv /\ CandidateInv
-----------------------------------------------------------------------------
(* A statement of a tick ends it or goes on to the next one.                *)

LEMMA PruneGoesOn ==
  ASSUME maintenance \in MaintenanceType, PruneTick
  PROVE  /\ maintenance' \in MaintenanceType /\ maintenance.due
         /\ maintenance'.due => maintenance.repaired /\ UNCHANGED candidates
<1>1. maintenance.due /\ (maintenance' = IdleLoop \/ maintenance.repaired)
  BY DEF PruneTick, SweepPending, PruneLog, PruneDetail, MaintenanceType
<1>2. CASE maintenance' = IdleLoop
  BY <1>1, <1>2 DEF IdleLoop, MaintenanceType
<1>3. CASE SweepPending /\ maintenance.repaired /\ GoOn("log")
  BY <1>3 DEF SweepPending, GoOn, MaintenanceType, blockVars
<1>4. CASE PruneLog
  BY <1>4 DEF PruneLog, GoOn, MaintenanceType, blockVars
<1> QED BY <1>2, <1>3, <1>4 DEF PruneTick, SweepPending, PruneDetail
-----------------------------------------------------------------------------
(* Senders and nonces.                                                      *)

\* Of two transactions one settles, each settles the other.
LEMMA SettledAlike ==
  ASSUME NEW t \in Txs \cup {NoTx}, NEW u \in Settles(t), NEW v \in Settles(t)
  PROVE  u \in Txs /\ u \in Settles(v) /\ t \in Settles(u) /\ u \in Settles(u)
<1>1. t \in Txs /\ NoTx \notin Txs
  BY CandidateSizes DEF Settles
<1> QED BY <1>1 DEF Settles, Rivals

LEMMA RivalsAre ==
  ASSUME NEW t \in Txs \cup {NoTx}, NEW u \in Rivals(t)
  PROVE  t \in Txs /\ u \in Txs /\ u # t /\ t \in Rivals(u) /\ u \in Settles(t)
<1>1. t \in Txs /\ NoTx \notin Txs
  BY CandidateSizes DEF Rivals
<1> QED BY <1>1 DEF Settles, Rivals

\* What takes the place of t in the log, directly or not, has its nonce.
LEMMA ChainSettles ==
  ASSUME NEW log, \A u \in Txs : log[u].by \in Rivals(u) \cup {NoTx},
         NEW t \in Txs, NEW n \in Nat, NEW c \in [0..n -> Txs], c[0] = t,
         \A i \in 1..n : log[c[i - 1]].by = c[i]
  PROVE  \A i \in 0..n : c[i] \in Settles(t)
<1> DEFINE bad == {i \in 0..n : c[i] \notin Settles(t)}
           m == Min(bad)
<1> SUFFICES ASSUME bad # {} PROVE FALSE
  OBVIOUS
<1>1. m \in bad /\ \A i \in bad : m <= i
  <2>1. bad \in SUBSET Nat
    OBVIOUS
  <2> HIDE DEF bad
  <2> QED BY <2>1, MinOfHeights
<1>2. m \in 0..n /\ c[m] \notin Settles(t)
  BY <1>1
<1>3. m # 0
  BY <1>2, CandidateSizes DEF Settles
<1>4. m - 1 \in 0..n /\ ~(m <= m - 1)
  <2>1. \A i \in 0..n : i # 0 => i - 1 \in 0..n /\ ~(i <= i - 1)
    OBVIOUS
  <2> HIDE DEF m
  <2> QED BY <1>2, <1>3, <2>1
<1>5. c[m - 1] \in Settles(t)
  BY <1>1, <1>4
<1>6. log[c[m - 1]].by = c[m] /\ c[m] \in Txs /\ c[m - 1] \in Txs
  BY <1>2, <1>3, <1>4
<1>7. c[m] \in Rivals(c[m - 1])
  BY <1>6, CandidateSizes
<1>8. c[m] \in Settles(t)
  BY <1>5, <1>6, <1>7, CandidateSizes DEF Settles, Rivals
<1> QED BY <1>2, <1>8

LEMMA EndsSettle ==
  ASSUME LogInv, NEW t \in Txs, NEW u \in EndsOf(t)
  PROVE  u \in Settles(t)
<1>1. PICK n \in 0..ChainDepth : Leads(t, n, u)
  BY DEF EndsOf
<1>2. n \in Nat /\ n \in 0..n /\ ChainDepth \in Nat
  BY CandidateSizes
<1>3. PICK c \in [0..n -> Txs] : c[0] = t /\ c[n] = u /\ \A i \in 1..n : replaced[c[i - 1]].by = c[i]
  BY <1>1 DEF Leads
<1> QED BY <1>2, <1>3, ChainSettles DEF LogInv

\* A replacement of rows E by b is no news about a transaction whose end it is
\* not: what leads to x leads there without E, or x settles a row of E.
LEMMA LogGrows ==
  ASSUME LogInv, LogInv', NEW E \in SUBSET Txs, NEW t \in Txs, NEW x,
         \A u \in Txs \ E : replaced'[u].by = replaced[u].by,
         x \in EndsOf(t)'
  PROVE  x \in EndsOf(t) \/ \E u \in E : x \in Settles(u)
<1>1. PICK n \in 0..ChainDepth : Leads(t, n, x)'
  BY DEF EndsOf
<1>2. n \in Nat /\ n \in 0..n /\ ChainDepth \in Nat
  BY CandidateSizes
<1>3. PICK c \in [0..n -> Txs] :
        c[0] = t /\ c[n] = x /\ \A i \in 1..n : replaced'[c[i - 1]].by = c[i]
  BY <1>1 DEF Leads
<1>4. CASE \E i \in 1..n : c[i - 1] \in E
  <2>1. PICK i \in 1..n : c[i - 1] \in E
    BY <1>4
  <2>2. \A j \in 0..n : c[j] \in Settles(t)
    <3>1. \A u \in Txs : replaced'[u].by \in Rivals(u) \cup {NoTx}
      BY DEF LogInv
    <3> QED BY <1>2, <1>3, <3>1, ChainSettles
  <2>3. i - 1 \in 0..n
    BY <1>2, <2>1
  <2>4. c[n] \in Settles(c[i - 1])
    BY <1>2, <2>2, <2>3, SettledAlike
  <2> QED BY <1>3, <2>1, <2>4
<1>5. CASE \A i \in 1..n : c[i - 1] \notin E
  <2>1. \A i \in 1..n : c[i - 1] \in Txs
    BY <1>2, <1>3
  <2>2. \A i \in 1..n : replaced[c[i - 1]].by = c[i]
    BY <1>3, <1>5, <2>1
  <2>3. Leads(t, n, x)
    BY <1>3, <2>2 DEF Leads
  <2> QED BY <1>2, <1>3, <2>3 DEF EndsOf
<1> QED BY <1>4, <1>5
-----------------------------------------------------------------------------
(* The node's chain.                                                        *)

LEMMA HeightsAre ==
  ASSUME SnapshotTypes
  PROVE  /\ MaxHeight \in Nat /\ Heights = 0..MaxHeight /\ tip \in Nat /\ 0 \in 0..tip
         /\ 0..tip \subseteq Heights /\ \A h \in 0..tip : h \in Nat /\ h <= tip
<1> QED BY CandidateSizes DEF SnapshotTypes, Heights

LEMMA MinedTypes ==
  ASSUME SnapshotInv, GateTypes, Mine
  PROVE  /\ tip + 1 \in Heights /\ tip' = tip + 1 /\ tip \in Nat /\ clock' = clock /\ reorgs' = reorgs
         /\ \E t \in Includable(Mined) :
              /\ chain' = [chain EXCEPT ![tip + 1] = [tx |-> t, on |-> reorgs, slot |-> clock]]
              /\ pool' = pool \ Settles(t) /\ t \in Txs \cup {NoTx}
              /\ gone' = [u \in Txs |-> IF u \in pool \cap Settles(t) THEN 0 ELSE gone[u]]
<1>1. tip + 1 \in Heights
  BY CandidateSizes DEF Mine, SnapshotInv, SnapshotTypes, Heights
<1>2. \A t \in Includable(Mined) : t \in Txs \cup {NoTx}
  BY DEF Includable, GateTypes
<1> QED BY <1>1, <1>2, HeightsAre DEF Mine, SnapshotInv

LEMMA ReorgTypes ==
  ASSUME SnapshotInv, GateTypes, Reorg
  PROVE  /\ tip \in 1..tip /\ tip' = tip /\ clock' = clock /\ reorgs' = reorgs + 1
         /\ clock - chain[tip].slot < MaxCommitLag
         /\ \E t \in Txs \cup {NoTx} :
              /\ chain' = [chain EXCEPT ![tip] = [tx |-> t, on |-> reorgs + 1, slot |-> chain[tip].slot]]
              /\ pool' = (pool \cup ({chain[tip].tx} \ {NoTx})) \ Settles(t)
              /\ gone' = [u \in Txs |-> IF u \in Settles(t) \cap pool \/ u = chain[tip].tx THEN 0 ELSE gone[u]]
<1> DEFINE kept == {chain[h].tx : h \in 0..(tip - 1)}
<1>1. chain[tip].tx \in Txs \cup {NoTx}
  BY DEF GateTypes, SnapshotInv, SnapshotTypes
<1>2. \A t \in Includable(kept) : t \in Txs \cup {NoTx}
  BY DEF Includable, GateTypes
<1>3. PICK t \in Includable(kept) \cup {chain[tip].tx} :
        /\ chain' = [chain EXCEPT ![tip] = [tx |-> t, on |-> reorgs + 1, slot |-> chain[tip].slot]]
        /\ pool' = (pool \cup ({chain[tip].tx} \ {NoTx})) \ Settles(t)
        /\ gone' = [u \in Txs |-> IF u \in Settles(t) \cap pool \/ u = chain[tip].tx THEN 0 ELSE gone[u]]
  BY DEF Reorg
<1>4. t \in Txs \cup {NoTx}
  BY <1>1, <1>2, <1>3
<1> HIDE DEF kept
<1>5. tip \in Nat
  BY HeightsAre DEF SnapshotInv
<1>6. 0 < tip /\ tip' = tip /\ clock' = clock /\ reorgs' = reorgs + 1 /\ clock - chain[tip].slot < MaxCommitLag
  BY DEF Reorg
<1>7. tip \in 1..tip
  BY <1>5, <1>6
<1> QED BY <1>3, <1>4, <1>6, <1>7

\* The blocks of the chain keep their slots; a block keeps its contents unless
\* it is the tip that a reorg replaces.
LEMMA SlotsKept ==
  ASSUME SnapshotInv, GateTypes, Mine \/ Reorg
  PROVE  /\ clock' = clock /\ 0..tip \subseteq 0..tip' /\ tip' \in Nat
         /\ chain' \in [Heights -> [tx : Txs \cup {NoTx}, on : Nat, slot : Nat]]
         /\ \A h \in 0..tip : chain'[h].slot = chain[h].slot
         /\ \A h \in 0..tip : chain'[h] = chain[h] \/ (Reorg /\ h = tip /\ chain'[h].on = reorgs + 1)
<1>0. /\ tip \in Nat /\ clock \in Nat /\ reorgs \in Nat /\ 0..tip \subseteq Heights
      /\ chain \in [Heights -> [tx : Txs \cup {NoTx}, on : Nat, slot : Nat]]
  BY HeightsAre DEF GateTypes, SnapshotInv
<1>1. CASE Mine
  <2>1. PICK t \in Txs \cup {NoTx} :
          chain' = [chain EXCEPT ![tip + 1] = [tx |-> t, on |-> reorgs, slot |-> clock]]
    BY <1>1, MinedTypes
  <2>2. \A h \in 0..tip : h # tip + 1
    BY <1>0
  <2> QED BY <1>0, <1>1, <2>1, <2>2, MinedTypes
<1>2. CASE Reorg
  <2>1. PICK t \in Txs \cup {NoTx} :
          chain' = [chain EXCEPT ![tip] = [tx |-> t, on |-> reorgs + 1, slot |-> chain[tip].slot]]
    BY <1>2, ReorgTypes
  <2>2. tip \in Heights /\ chain[tip].slot \in Nat
    BY <1>0
  <2> QED BY <1>0, <1>2, <2>1, <2>2, ReorgTypes
<1> QED BY <1>1, <1>2

LEMMA ChainStep == ASSUME SnapshotInv, GateTypes, ChainInv, [Next]_vars PROVE ChainInv'
<1>0. /\ tip \in Nat /\ clock \in Nat /\ reorgs \in Nat /\ 0..tip \subseteq Heights /\ 0 \in 0..tip
      /\ chain \in [Heights -> [tx : Txs \cup {NoTx}, on : Nat, slot : Nat]]
  BY HeightsAre DEF GateTypes, SnapshotInv
<1>1. CASE Mine
  <2>1. PICK t \in Txs \cup {NoTx} :
          chain' = [chain EXCEPT ![tip + 1] = [tx |-> t, on |-> reorgs, slot |-> clock]]
    BY <1>1, MinedTypes
  <2>2. tip' = tip + 1 /\ clock' = clock /\ reorgs' = reorgs /\ tip + 1 \in Heights /\ chain[tip].slot < clock
    BY <1>1, MinedTypes DEF Mine
  <2>3. \A h \in 0..tip : chain'[h] = chain[h]
    BY <1>0, <2>1
  <2>4. chain'[tip + 1].slot = clock /\ chain'[tip + 1].on = reorgs
    BY <1>0, <2>1, <2>2
  <2>5. \A h \in 0..tip' : h \in 0..tip \/ h = tip + 1
    BY <1>0, <2>2
  <2>6. \A h \in 0..tip : chain[h].slot < clock
    <3> TAKE h \in 0..tip
    <3>1. h = tip \/ h < tip
      BY <1>0
    <3>2. h < tip => chain[h].slot < chain[tip].slot
      BY <1>0 DEF ChainInv
    <3> QED BY <1>0, <2>2, <3>1, <3>2
  <2>7. \A h \in 0..tip' : chain'[h].slot <= clock' /\ chain'[h].on <= reorgs'
    BY <1>0, <2>2, <2>3, <2>4, <2>5 DEF ChainInv
  <2>8. \A g, h \in 0..tip' : g < h => chain'[g].slot < chain'[h].slot
    <3> TAKE g, h \in 0..tip'
    <3>1. CASE h \in 0..tip
      BY <1>0, <2>3, <2>5, <3>1 DEF ChainInv
    <3>2. CASE h = tip + 1
      BY <1>0, <2>3, <2>4, <2>5, <2>6, <3>2
    <3> QED BY <2>5, <3>1, <3>2
  <2> QED BY <1>0, <2>3, <2>7, <2>8 DEF ChainInv
<1>2. CASE Reorg
  <2>1. tip' = tip /\ clock' = clock /\ reorgs' = reorgs + 1 /\ tip \in 1..tip
    BY <1>2, ReorgTypes
  <2>2. /\ \A h \in 0..tip : chain'[h].slot = chain[h].slot
        /\ \A h \in 0..tip : chain'[h] = chain[h] \/ (h = tip /\ chain'[h].on = reorgs + 1)
    BY <1>2, SlotsKept
  <2>3. chain'[0] = chain[0]
    BY <1>0, <2>1, <2>2
  <2>4. \A h \in 0..tip : chain'[h].on <= reorgs + 1
    <3> TAKE h \in 0..tip
    <3>1. chain[h].on \in Nat /\ chain[h].on <= reorgs
      BY <1>0 DEF ChainInv
    <3> QED BY <1>0, <2>2, <3>1
  <2> QED BY <2>1, <2>2, <2>3, <2>4 DEF ChainInv
<1>3. CASE Slot
  <2>1. clock' = clock + 1 /\ UNCHANGED <<chain, tip, reorgs>>
    BY <1>3 DEF Slot
  <2>2. \A h \in 0..tip : chain[h].slot \in Nat /\ chain[h].slot <= clock
    BY <1>0 DEF ChainInv
  <2> QED BY <1>0, <2>1, <2>2 DEF ChainInv
<1>4. CASE ~Mine /\ ~Reorg /\ ~Slot
  <2>1. UNCHANGED <<chain, tip, reorgs, clock>>
    BY <1>4 DEF Next, NodeNext, PendingNext, BlockNext, MaintenanceNext, Submit, RefreshLiveness,
       Observe, Commit, Rewind, RepairTick, SweepPending,
       PruneLog, PruneDetail, vars, nodeVars
  <2> QED BY <2>1 DEF ChainInv
<1> QED BY <1>1, <1>2, <1>3, <1>4

\* So the slots of two blocks are at least as far apart as their heights.
LEMMA SlotsApart ==
  ASSUME SnapshotInv, GateTypes, ChainInv, NEW g \in 0..tip, NEW h \in 0..tip, g <= h
  PROVE  chain[h].slot - chain[g].slot >= h - g
<1> DEFINE bad == {i \in g..h : ~(chain[i].slot - chain[g].slot >= i - g)}
           m == Min(bad)
<1>0. /\ tip \in Nat /\ g \in Nat /\ h \in Nat /\ g..h \subseteq 0..tip
      /\ \A i \in 0..tip : chain[i].slot \in Nat
  <2>1. tip \in Nat /\ 0..tip \subseteq Heights
    BY HeightsAre DEF SnapshotInv
  <2>2. g \in Nat /\ h \in Nat /\ g..h \subseteq 0..tip
    BY <2>1
  <2>3. \A i \in 0..tip : chain[i].slot \in Nat
    BY <2>1 DEF GateTypes
  <2> QED BY <2>1, <2>2, <2>3
<1> SUFFICES ASSUME bad # {} PROVE FALSE
  BY <1>0
<1>1. m \in bad /\ \A i \in bad : m <= i
  <2>1. bad \in SUBSET Nat
    BY <1>0
  <2> HIDE DEF bad
  <2> QED BY <2>1, MinOfHeights
<1>2. m \in g..h /\ ~(chain[m].slot - chain[g].slot >= m - g)
  BY <1>1
<1>3. m # g
  BY <1>0, <1>2
<1>4. m - 1 \in g..h /\ ~(m <= m - 1) /\ m - 1 < m
  BY <1>0, <1>2, <1>3
<1>5. chain[m - 1].slot - chain[g].slot >= (m - 1) - g
  BY <1>1, <1>4
<1>6. chain[m - 1].slot < chain[m].slot
  BY <1>0, <1>2, <1>4 DEF ChainInv
<1>7. m \in 0..tip /\ m - 1 \in 0..tip
  BY <1>0, <1>2, <1>4
<1> HIDE DEF m, bad
<1> QED BY <1>0, <1>2, <1>5, <1>6, <1>7
-----------------------------------------------------------------------------
(* The rows, the log and the candidates.                                    *)

\* What storing the block of height h does, but for the snapshot.
LEMMA CommitIs ==
  ASSUME SnapshotInv, GateTypes, Commit
  PROVE  \E h \in 0..tip :
           LET t == chain[h].tx
           IN /\ ~ParentStale(h) /\ t \in Txs \cup {NoTx} /\ h \in Heights
              /\ pending' = pending \ Settles(t)
              /\ \A u \in Txs \ (pending \cap Rivals(t)) : replaced'[u] = replaced[u]
              /\ \A u \in pending \cap Rivals(t) :
                   replaced'[u] = [by |-> t, age |-> Min({clock - chain[h].slot, LogRetention + 1})]
              /\ replaced' \in [Txs -> {replaced'[u] : u \in Txs}]
              /\ rows' = [rows EXCEPT ![h] = [tx |-> t, on |-> chain[h].on]]
              /\ unseen' = [u \in Txs |-> IF u \in pending' THEN unseen[u] ELSE 0]
              /\ \A c \in candidates' \ candidates :
                   /\ c.height = h /\ c.tx \in pending' /\ c.slot = chain[h].slot
                   /\ unseen[c.tx] <= Window /\ PredecessorsCommitted(h)
<1>1. PICK h \in 0..tip : ~ParentStale(h) /\ StoreBlock(Block(h))
  BY DEF Commit
<1> DEFINE t == chain[h].tx
           left == pending \ Settles(t)
<1>2. h \in Heights /\ t \in Txs \cup {NoTx}
  BY HeightsAre DEF SnapshotInv, GateTypes
<1>3. pending' = left
  BY <1>1 DEF StoreBlock, Block
<1>4. replaced' = [u \in Txs |-> IF u \in pending \cap Rivals(t)
                     THEN [by |-> t, age |-> Min({clock - chain[h].slot, LogRetention + 1})]
                     ELSE replaced[u]]
  BY <1>1 DEF StoreBlock, Block
<1>5. rows' = [rows EXCEPT ![h] = [tx |-> t, on |-> chain[h].on]]
  BY <1>1 DEF StoreBlock, Block
<1>6. unseen' = [u \in Txs |-> IF u \in pending' THEN unseen[u] ELSE 0]
  BY <1>1 DEF StoreBlock, Block, Keep
<1>7. \A c \in candidates' \ candidates :
        /\ c.height = h /\ c.tx \in pending' /\ c.slot = chain[h].slot
        /\ unseen[c.tx] <= Window /\ PredecessorsCommitted(h)
  <2> DEFINE detail == Classified(h, chain[h].slot, LivePool(left))
  <2>1. \A c \in candidates' \ candidates : c \in detail /\ PredecessorsCommitted(h)
    BY <1>1 DEF StoreBlock, Block
  <2>2. \A c \in detail : c.height = h /\ c.tx \in LivePool(left) /\ c.slot = chain[h].slot
    BY DEF Classified
  <2>3. \A u \in LivePool(left) : u \in left /\ unseen[u] <= Window
    BY DEF LivePool
  <2> HIDE DEF detail, left
  <2> QED BY <1>3, <2>1, <2>2, <2>3
<1>8. pending \in SUBSET Txs
  BY DEF SnapshotInv, SnapshotTypes
<1> QED BY <1>1, <1>2, <1>3, <1>4, <1>5, <1>6, <1>7, <1>8

LEMMA RewindIs ==
  ASSUME SnapshotInv, GateTypes, RowInv, ChainInv, Rewind
  PROVE  \E fork \in 0..tip :
           /\ rows' = [g \in Heights |-> IF fork < g THEN NoBlock ELSE rows[g]]
           /\ candidates' = {c \in candidates : c.height <= fork}
           /\ \A g \in 1..tip : fork < g => clock - chain[g].slot <= MaxCommitLag
<1>1. PICK h \in 0..tip :
        /\ ParentStale(h)
        /\ LET fork == Max({0} \cup {g \in 0..(h - 1) : g \notin Stored \/ Indexed(g)})
           IN /\ rows' = [g \in Heights |-> IF fork < g THEN NoBlock ELSE rows[g]]
              /\ candidates' = {c \in candidates : c.height <= fork}
  BY DEF Rewind
<1> DEFINE S == {0} \cup {g \in 0..(h - 1) : g \notin Stored \/ Indexed(g)}
           fork == Max(S)
<1>2. /\ tip \in Nat /\ h \in Nat /\ 0 < h /\ h <= tip /\ h - 1 \in 0..tip
      /\ h - 1 \in Stored /\ ~Indexed(h - 1)
  <2>1. tip \in Nat
    BY HeightsAre DEF SnapshotInv
  <2> QED BY <1>1, <2>1 DEF ParentStale
<1>3. fork \in S /\ \A g \in S : g <= fork
  <2>1. S \in SUBSET (0..tip) /\ S # {}
    BY <1>2
  <2> HIDE DEF S
  <2> QED BY <1>2, <2>1, MaxOfHeights
<1>4. fork \in 0..(h - 1)
  <2>1. S \subseteq 0..(h - 1)
    BY <1>2
  <2> HIDE DEF S, fork
  <2> QED BY <1>3, <2>1
<1>5. fork # h - 1
  <2>1. SUFFICES ASSUME fork = h - 1 PROVE FALSE
    OBVIOUS
  <2>2. fork = 0
    BY <1>2, <1>3, <2>1
  <2>3. 0 \in Stored /\ ~Indexed(0)
    BY <1>2, <2>1, <2>2
  <2> QED BY <2>3 DEF RowInv
<1>6. fork + 1 \in 1..tip /\ fork + 1 \in 0..(h - 1) /\ fork + 1 \notin S
  BY <1>2, <1>3, <1>4, <1>5
<1>7. ~Indexed(fork + 1)
  BY <1>6
<1>8. clock - chain[fork + 1].slot <= MaxCommitLag
  BY <1>6, <1>7 DEF RowInv
<1>9. ASSUME NEW g \in 1..tip, fork < g PROVE clock - chain[g].slot <= MaxCommitLag
  <2>1. g \in 0..tip /\ fork + 1 \in 0..tip /\ fork \in Nat /\ g \in Nat /\ fork + 1 <= g
    BY <1>2, <1>4, <1>6, <1>9
  <2> HIDE DEF fork
  <2>2. chain[g].slot - chain[fork + 1].slot >= g - (fork + 1)
    BY <2>1, SlotsApart
  <2>3. chain[g].slot \in Nat /\ chain[fork + 1].slot \in Nat /\ clock \in Nat /\ MaxCommitLag \in Nat
    BY <2>1, HeightsAre, CandidateSizes DEF GateTypes, SnapshotInv
  <2> QED BY <1>8, <2>1, <2>2, <2>3
<1>10. fork \in 0..tip
  BY <1>2, <1>4
<1> QED BY <1>1, <1>9, <1>10

LEMMA TypesStep == ASSUME SnapshotInv, GateTypes, ChainInv, [Next]_vars PROVE GateTypes'
<1>0. /\ clock \in Nat /\ tip \in Nat /\ reorgs \in Nat /\ late \in BOOLEAN
      /\ pending \in SUBSET Txs /\ pool \in SUBSET Txs /\ sent \in SUBSET Txs
      /\ gone \in [Txs -> Nat] /\ unseen \in [Txs -> Nat]
      /\ rows \in [Heights -> BlockRows \cup {NoBlock}]
      /\ replaced \in [Txs -> [by : Txs \cup {NoTx}, age : Nat]]
      /\ maintenance \in MaintenanceType
      /\ MaxDelay \in Nat /\ TTL \in Nat /\ {Retention, LogRetention} \subseteq Nat
  BY HeightsAre, CandidateSizes DEF GateTypes, SnapshotInv, SnapshotTypes
<1>1. CASE Mine
  <2>1. chain' \in [Heights -> [tx : Txs \cup {NoTx}, on : Nat, slot : Nat]]
    BY <1>1, SlotsKept
  <2>2. pool' \in SUBSET Txs /\ gone' \in [Txs -> Nat]
    <3>1. PICK t : /\ pool' = pool \ Settles(t)
                   /\ gone' = [u \in Txs |-> IF u \in pool \cap Settles(t) THEN 0 ELSE gone[u]]
      BY <1>1, MinedTypes
    <3> QED BY <1>0, <3>1
  <2>3. UNCHANGED <<clock, sent, reorgs, unseen, rows, replaced, maintenance, late>>
    BY <1>1 DEF Mine, pendingVars, blockVars
  <2> QED BY <2>1, <2>2, <2>3 DEF GateTypes
<1>2. CASE Reorg
  <2>1. chain' \in [Heights -> [tx : Txs \cup {NoTx}, on : Nat, slot : Nat]]
    BY <1>2, SlotsKept
  <2>2. pool' \in SUBSET Txs /\ gone' \in [Txs -> Nat] /\ reorgs' \in Nat
    <3>1. chain[tip].tx \in Txs \cup {NoTx}
      BY HeightsAre DEF GateTypes, SnapshotInv
    <3> QED BY <1>0, <1>2, <3>1, ReorgTypes
  <2>3. UNCHANGED <<clock, sent, unseen, rows, replaced, maintenance, late>>
    BY <1>2 DEF Reorg, pendingVars, blockVars
  <2> QED BY <2>1, <2>2, <2>3 DEF GateTypes
<1>3. CASE Slot
  <2>1. /\ clock' \in Nat /\ gone' \in [Txs -> Nat] /\ unseen' \in [Txs -> Nat]
    BY <1>0, <1>3 DEF Slot, OneMore
  <2>2. replaced' \in [Txs -> [by : Txs \cup {NoTx}, age : Nat]]
    <3>1. NotReplaced \in [by : Txs \cup {NoTx}, age : Nat]
      BY DEF NotReplaced
    <3>2. ASSUME NEW t \in Txs
          PROVE  [replaced[t] EXCEPT !.age = OneMore(@, LogRetention + 1)] \in [by : Txs \cup {NoTx}, age : Nat]
      BY <1>0 DEF OneMore
    <3> QED BY <1>3, <3>1, <3>2 DEF Slot
  <2>3. UNCHANGED <<chain, pool, sent, reorgs, rows, maintenance, late>>
    BY <1>3 DEF Slot, blockVars
  <2> QED BY <2>1, <2>2, <2>3 DEF GateTypes
<1>4. ASSUME NEW t \in Txs, Submit(t) PROVE GateTypes'
  <2>1. pool' \in SUBSET Txs /\ sent' \in SUBSET Txs /\ gone' \in [Txs -> Nat]
    BY <1>0, <1>4 DEF Submit
  <2>2. UNCHANGED <<chain, clock, reorgs, unseen, rows, replaced, maintenance, late>>
    BY <1>4 DEF Submit, pendingVars, blockVars
  <2> QED BY <2>1, <2>2 DEF GateTypes
<1>5. ASSUME NEW t \in Txs, Observe(t) PROVE GateTypes'
  <2>1. unseen' \in [Txs -> Nat] /\ late' \in BOOLEAN
    BY <1>0, <1>5 DEF Observe, TooLate
  <2>2. replaced' \in [Txs -> [by : Txs \cup {NoTx}, age : Nat]]
    BY <1>0, <1>5 DEF Observe
  <2>3. UNCHANGED <<chain, clock, pool, sent, gone, reorgs, rows, maintenance>>
    BY <1>5 DEF Observe, nodeVars, blockVars
  <2> QED BY <2>1, <2>2, <2>3 DEF GateTypes
<1>6. CASE RefreshLiveness
  <2>1. unseen' \in [Txs -> Nat] /\ late' \in BOOLEAN
    BY <1>0, <1>6 DEF RefreshLiveness, TooLate
  <2>2. UNCHANGED <<chain, clock, pool, sent, gone, reorgs, rows, maintenance, replaced>>
    BY <1>6 DEF RefreshLiveness, nodeVars, blockVars
  <2> QED BY <2>1, <2>2 DEF GateTypes
<1>7. CASE Commit
  <2>1. PICK h \in 0..tip :
          LET t == chain[h].tx
          IN /\ t \in Txs \cup {NoTx} /\ h \in Heights
             /\ \A u \in Txs \ (pending \cap Rivals(t)) : replaced'[u] = replaced[u]
             /\ \A u \in pending \cap Rivals(t) :
                  replaced'[u] = [by |-> t, age |-> Min({clock - chain[h].slot, LogRetention + 1})]
             /\ replaced' \in [Txs -> {replaced'[u] : u \in Txs}]
             /\ rows' = [rows EXCEPT ![h] = [tx |-> t, on |-> chain[h].on]]
             /\ unseen' = [u \in Txs |-> IF u \in pending' THEN unseen[u] ELSE 0]
    BY <1>7, CommitIs
  <2> DEFINE t == chain[h].tx
             log == [by |-> t, age |-> Min({clock - chain[h].slot, LogRetention + 1})]
  <2>2. chain[h].slot \in Nat /\ chain[h].slot <= clock /\ chain[h].on \in Nat
    BY <2>1 DEF GateTypes, ChainInv
  <2>3. log \in [by : Txs \cup {NoTx}, age : Nat]
    <3>1. clock - chain[h].slot \in Nat /\ LogRetention + 1 \in Nat
      BY <1>0, <2>2
    <3>2. \A x, y \in Nat : Min({x, y}) \in Nat
      <4> TAKE x, y \in Nat
      <4>1. x \in Int /\ y \in Int
        OBVIOUS
      <4> QED BY <4>1, MinOfTwo
    <3> QED BY <2>1, <3>1, <3>2
  <2>4. replaced' \in [Txs -> [by : Txs \cup {NoTx}, age : Nat]]
    <3>1. \A u \in Txs : replaced'[u] \in [by : Txs \cup {NoTx}, age : Nat]
      BY <1>0, <2>1, <2>3
    <3> QED BY <2>1, <3>1
  <2>5. rows' \in [Heights -> BlockRows \cup {NoBlock}]
    BY <1>0, <2>1, <2>2 DEF BlockRows
  <2>6. UNCHANGED <<chain, clock, pool, sent, gone, reorgs, maintenance, late>>
    BY <1>7 DEF Commit, nodeVars
  <2> QED BY <1>0, <2>1, <2>4, <2>5, <2>6 DEF GateTypes
<1>8. CASE Rewind
  <2>1. PICK fork : rows' = [g \in Heights |-> IF fork < g THEN NoBlock ELSE rows[g]]
    BY <1>8 DEF Rewind
  <2>2. rows' \in [Heights -> BlockRows \cup {NoBlock}]
    BY <1>0, <2>1
  <2>3. UNCHANGED <<chain, clock, pool, sent, gone, reorgs, maintenance, replaced, unseen, late>>
    BY <1>8 DEF Rewind, nodeVars, pendingVars
  <2> QED BY <2>2, <2>3 DEF GateTypes
<1>9. CASE RepairTick
  <2>1. maintenance' \in {[IdleLoop EXCEPT !.due = TRUE, !.repaired = TRUE],
                            [IdleLoop EXCEPT !.due = TRUE]}
    BY <1>9, Zenon DEF RepairTick
  <2>2. UNCHANGED <<chain, clock, pool, sent, gone, reorgs, rows, replaced, unseen, late>>
    BY <1>9 DEF RepairTick, nodeVars, pendingVars
  <2>3. maintenance' \in MaintenanceType
    <3>1. /\ [IdleLoop EXCEPT !.due = TRUE, !.repaired = TRUE] \in MaintenanceType
          /\ [IdleLoop EXCEPT !.due = TRUE] \in MaintenanceType
      BY DEF IdleLoop, MaintenanceType
    <3> QED BY <2>1, <3>1, Zenon
  <2> QED BY <2>2, <2>3 DEF GateTypes
<1>10. CASE PruneTick
  <2>1. unseen' \in [Txs -> Nat]
    BY <1>0, <1>10 DEF PruneTick, SweepPending, PruneLog, PruneDetail, pendingVars, Keep
  <2>2. replaced' \in [Txs -> [by : Txs \cup {NoTx}, age : Nat]]
    BY <1>0, <1>10 DEF PruneTick, SweepPending, PruneLog, PruneDetail, NotReplaced
  <2>3. UNCHANGED <<chain, clock, pool, sent, gone, reorgs, rows, late>>
    BY <1>10 DEF PruneTick, SweepPending, PruneLog, PruneDetail, nodeVars, blockVars
  <2>4. maintenance' \in MaintenanceType
    BY <1>0, <1>10, PruneGoesOn
  <2> QED BY <2>1, <2>2, <2>3, <2>4 DEF GateTypes
<1>11. CASE UNCHANGED vars
  BY <1>11 DEF GateTypes, vars, nodeVars, pendingVars, blockVars
<1> QED BY <1>1, <1>2, <1>3, <1>4, <1>5, <1>6, <1>7, <1>8, <1>9, <1>10, <1>11
        DEF Next, NodeNext, PendingNext, BlockNext, MaintenanceNext, PruneTick

LEMMA CandidatesStep ==
  ASSUME SnapshotInv, GateTypes, ChainInv, RowInv, CandidateInv, [Next]_vars
  PROVE  CandidateInv'
<1>0. tip \in Nat
  BY HeightsAre DEF SnapshotInv
<1>1. CASE Mine \/ Reorg
  <2>1. candidates' = candidates
    BY <1>1 DEF Mine, Reorg, blockVars
  <2> QED BY <1>1, <2>1, SlotsKept DEF CandidateInv
<1>2. CASE Commit
  <2>1. UNCHANGED <<chain, tip>>
    BY <1>2 DEF Commit, nodeVars
  <2>2. PICK h \in 0..tip : /\ pending' = pending \ Settles(chain[h].tx)
                            /\ \A c \in candidates' \ candidates :
                                 c.height = h /\ c.tx \in pending' /\ c.slot = chain[h].slot
    BY <1>2, CommitIs
  <2>3. pending' \subseteq Txs
    BY <2>2 DEF SnapshotInv, SnapshotTypes
  <2> QED BY <2>1, <2>2, <2>3 DEF CandidateInv
<1>3. CASE Rewind
  <2>1. UNCHANGED <<chain, tip>> /\ candidates' \subseteq candidates
    BY <1>3, RewindIs DEF Rewind, nodeVars
  <2> QED BY <2>1 DEF CandidateInv
<1>4. CASE ~Mine /\ ~Reorg /\ ~Commit /\ ~Rewind
  <2>1. UNCHANGED <<chain, tip>>
    BY <1>4 DEF Next, NodeNext, PendingNext, BlockNext, MaintenanceNext, Submit, RefreshLiveness,
       Observe, Slot, RepairTick, SweepPending, PruneLog, PruneDetail, vars, nodeVars
  <2>2. candidates' \subseteq candidates
    BY <1>4 DEF Next, NodeNext, PendingNext, BlockNext, MaintenanceNext, Submit, RefreshLiveness,
       Observe, Slot, RepairTick, RepairIncluded, SweepPending, PruneLog, PruneDetail, vars, blockVars
  <2> QED BY <2>1, <2>2 DEF CandidateInv
<1> QED BY <1>1, <1>2, <1>3, <1>4

LEMMA LogStep == ASSUME SnapshotInv, GateTypes, LogInv, [Next]_vars PROVE LogInv'
<1>0. pending \in SUBSET Txs /\ \A t \in Txs : Rivals(t)' = Rivals(t)
  BY DEF Rivals, SnapshotInv, SnapshotTypes
<1>1. ASSUME NEW t \in Txs, Observe(t) PROVE LogInv'
  <2>1. replaced' = [u \in Txs |-> IF u \in pending \cap Rivals(t)
                                     THEN [by |-> t, age |-> 0] ELSE replaced[u]]
    BY <1>1 DEF Observe
  <2>2. \A u \in Rivals(t) : t \in Rivals(u)
    BY <1>1, RivalsAre
  <2> QED BY <1>0, <2>1, <2>2 DEF LogInv
<1>2. CASE Commit
  <2>1. PICK h \in 0..tip :
          /\ chain[h].tx \in Txs \cup {NoTx}
          /\ \A u \in Txs \ (pending \cap Rivals(chain[h].tx)) : replaced'[u] = replaced[u]
          /\ \A u \in pending \cap Rivals(chain[h].tx) :
               replaced'[u] = [by |-> chain[h].tx, age |-> Min({clock - chain[h].slot, LogRetention + 1})]
    BY <1>2, CommitIs
  <2>2. \A u \in Rivals(chain[h].tx) : chain[h].tx \in Rivals(u)
    BY <2>1, RivalsAre
  <2> QED BY <1>0, <2>1, <2>2 DEF LogInv
<1>3. CASE Slot
  <2>1. \A u \in Txs : replaced'[u].by = replaced[u].by \/ replaced'[u].by = NoTx
    BY <1>3 DEF Slot, GateTypes, Replaced, NotReplaced
  <2> QED BY <1>0, <2>1 DEF LogInv
<1>4. CASE PruneTick
  <2>1. \A u \in Txs : replaced'[u].by = replaced[u].by \/ replaced'[u].by = NoTx
    BY <1>4 DEF PruneTick, SweepPending, PruneLog, PruneDetail, GateTypes, NotReplaced
  <2> QED BY <1>0, <2>1 DEF LogInv
<1>5. CASE UNCHANGED replaced
  BY <1>0, <1>5 DEF LogInv
<1> QED BY <1>1, <1>2, <1>3, <1>4, <1>5 DEF Next, NodeNext, PendingNext, BlockNext, MaintenanceNext,
     Mine, Reorg, Submit, RefreshLiveness, Rewind, RepairTick, PruneTick, vars

\* Only a block that was not indexed, and is recent, changes the rows.
LEMMA RowsStep ==
  ASSUME SnapshotInv, GateTypes, ChainInv, RowInv, [Next]_vars
  PROVE  RowInv'
<1>0. /\ tip \in Nat /\ clock \in Nat /\ reorgs \in Nat /\ 0 \in 0..tip /\ 0..tip \subseteq Heights
      /\ chain \in [Heights -> [tx : Txs \cup {NoTx}, on : Nat, slot : Nat]] /\ MaxCommitLag \in Nat
      /\ rows \in [Heights -> BlockRows \cup {NoBlock}]
      /\ Heights \subseteq Nat
  BY HeightsAre, CandidateSizes DEF GateTypes, SnapshotInv
<1>1. CASE Mine
  <2>1. UNCHANGED <<rows, clock>> /\ reorgs' = reorgs /\ tip' = tip + 1 /\ tip + 1 \in Heights
    BY <1>1, MinedTypes DEF Mine, blockVars
  <2>2. PICK t : chain' = [chain EXCEPT ![tip + 1] = [tx |-> t, on |-> reorgs, slot |-> clock]]
    BY <1>1, MinedTypes
  <2>3. \A h \in 0..tip : chain'[h] = chain[h]
    BY <1>0, <2>2
  <2>4. chain'[tip + 1].slot = clock
    BY <1>0, <2>1, <2>2
  <2>5. \A h \in 0..tip : Indexed(h)' = Indexed(h)
    BY <2>1, <2>3 DEF Indexed
  <2>6. Stored' = Stored /\ \A h \in Stored : h \in 0..tip
    BY <1>0, <2>1 DEF Stored, RowInv
  <2>7. \A h \in Stored' : /\ h <= tip' /\ rows'[h].on <= reorgs'
                           /\ rows'[h].on = chain'[h].on => rows'[h].tx = chain'[h].tx
    BY <1>0, <2>1, <2>3, <2>6 DEF RowInv
  <2>8. 0 \in Stored' => Indexed(0)'
    BY <1>0, <2>5, <2>6 DEF RowInv
  <2>9. \A h \in 1..tip' : Indexed(h)' \/ clock' - chain'[h].slot <= MaxCommitLag
    <3> TAKE h \in 1..tip'
    <3>1. h \in 1..tip \/ h = tip + 1
      BY <1>0, <2>1
    <3>2. h \in 1..tip => h \in 0..tip
      BY <1>0
    <3> QED BY <1>0, <2>1, <2>3, <2>4, <2>5, <3>1, <3>2 DEF RowInv
  <2> QED BY <2>7, <2>8, <2>9 DEF RowInv
<1>2. CASE Reorg
  <2>1. /\ UNCHANGED <<rows, clock>> /\ reorgs' = reorgs + 1 /\ tip' = tip /\ tip \in 1..tip
        /\ clock - chain[tip].slot < MaxCommitLag
    BY <1>2, ReorgTypes DEF Reorg, blockVars
  <2>2. /\ \A h \in 0..tip : chain'[h].slot = chain[h].slot
        /\ \A h \in 0..tip : chain'[h] = chain[h] \/ (h = tip /\ chain'[h].on = reorgs + 1)
    BY <1>2, SlotsKept
  <2>3. Stored' = Stored /\ \A h \in Stored : h \in 0..tip /\ rows[h].on \in Nat /\ rows[h].on <= reorgs
    BY <1>0, <2>1 DEF Stored, RowInv, BlockRows
  <2>4. \A h \in Stored' : /\ h <= tip' /\ rows'[h].on <= reorgs'
                           /\ rows'[h].on = chain'[h].on => rows'[h].tx = chain'[h].tx
    BY <1>0, <2>1, <2>2, <2>3 DEF RowInv
  <2>5. 0 \in Stored' => Indexed(0)'
    BY <1>0, <2>1, <2>2, <2>3 DEF RowInv, Indexed
  <2>6. \A h \in 1..tip' : Indexed(h)' \/ clock' - chain'[h].slot <= MaxCommitLag
    <3> TAKE h \in 1..tip'
    <3>1. h \in 0..tip /\ h \in 1..tip /\ chain[h].slot \in Nat
      BY <1>0, <2>1
    <3>2. CASE h = tip
      BY <1>0, <2>1, <2>2, <3>1, <3>2
    <3>3. CASE h # tip
      BY <1>0, <2>1, <2>2, <3>1, <3>3 DEF RowInv, Indexed
    <3> QED BY <3>2, <3>3
  <2> QED BY <2>4, <2>5, <2>6 DEF RowInv
<1>3. CASE Slot
  <2>1. UNCHANGED <<rows, chain, tip, reorgs>> /\ clock' = clock + 1
        /\ \A h \in 1..tip : Indexed(h) \/ clock - chain[h].slot < MaxCommitLag
    BY <1>3 DEF Slot, blockVars
  <2>2. \A h \in 1..tip : chain[h].slot \in Nat
    BY <1>0
  <2>3. \A h \in 1..tip : Indexed(h) \/ clock' - chain[h].slot <= MaxCommitLag
    BY <1>0, <2>1, <2>2
  <2> QED BY <2>1, <2>3 DEF RowInv, Stored, Indexed
<1>4. CASE Commit
  <2>1. UNCHANGED <<chain, tip, reorgs, clock>>
    BY <1>4 DEF Commit, nodeVars
  <2>2. PICK h \in 0..tip : rows' = [rows EXCEPT ![h] = [tx |-> chain[h].tx, on |-> chain[h].on]]
    BY <1>4, CommitIs
  <2>3. /\ rows'[h].tx = chain[h].tx /\ rows'[h].on = chain[h].on /\ chain[h].on <= reorgs
        /\ \A g \in Heights \ {h} : rows'[g] = rows[g]
    BY <1>0, <2>2 DEF ChainInv
  <2>4. Stored' \subseteq Stored \cup {h}
    BY <1>0, <2>3 DEF Stored
  <2>5. \A g \in Heights : Indexed(g) => Indexed(g)'
    <3> TAKE g \in Heights
    <3>1. CASE g # h
      BY <2>1, <2>3, <3>1 DEF Indexed
    <3>2. CASE g = h
      <4>1. SUFFICES ASSUME Indexed(h) PROVE Indexed(h)'
        BY <3>2
      <4>2. h \in Stored /\ rows[h].on = chain[h].on /\ rows[h].tx = chain[h].tx
        BY <1>0, <4>1 DEF Indexed, Stored, RowInv
      <4>3. rows[h] = [tx |-> chain[h].tx, on |-> chain[h].on]
        BY <1>0, <4>1, <4>2 DEF Indexed, BlockRows
      <4> QED BY <1>0, <2>1, <2>2, <4>1, <4>3 DEF Indexed
    <3> QED BY <3>1, <3>2
  <2>6. \A g \in Stored' : /\ g <= tip' /\ rows'[g].on <= reorgs'
                           /\ rows'[g].on = chain'[g].on => rows'[g].tx = chain'[g].tx
    <3> TAKE g \in Stored'
    <3>1. CASE g = h
      BY <1>0, <2>1, <2>3, <3>1
    <3>2. CASE g # h
      BY <1>0, <2>1, <2>3, <2>4, <3>2 DEF RowInv, Stored
    <3> QED BY <3>1, <3>2
  <2>7. 0 \in Stored' => Indexed(0)'
    <3>1. SUFFICES ASSUME 0 \in Stored' PROVE Indexed(0)'
      OBVIOUS
    <3>2. CASE h = 0
      BY <2>1, <2>3, <3>1, <3>2 DEF Indexed, Stored
    <3>3. CASE h # 0
      BY <1>0, <2>4, <2>5, <3>1, <3>3 DEF RowInv
    <3> QED BY <3>2, <3>3
  <2>8. \A g \in 1..tip' : Indexed(g)' \/ clock' - chain'[g].slot <= MaxCommitLag
    <3>1. 1..tip \subseteq Heights
      BY <1>0
    <3> QED BY <2>1, <2>5, <3>1 DEF RowInv
  <2> QED BY <2>6, <2>7, <2>8 DEF RowInv
<1>5. CASE Rewind
  <2>1. UNCHANGED <<chain, tip, reorgs, clock>>
    BY <1>5 DEF Rewind, nodeVars
  <2>2. PICK fork \in 0..tip :
          /\ rows' = [g \in Heights |-> IF fork < g THEN NoBlock ELSE rows[g]]
          /\ \A g \in 1..tip : fork < g => clock - chain[g].slot <= MaxCommitLag
    BY <1>5, RewindIs
  <2>3. /\ \A g \in Heights : ~(fork < g) => rows'[g] = rows[g]
        /\ \A g \in Stored' : g \in Stored /\ rows'[g] = rows[g] /\ ~(fork < g)
    BY <2>2 DEF Stored
  <2>4. \A g \in Stored' : /\ g <= tip' /\ rows'[g].on <= reorgs'
                           /\ rows'[g].on = chain'[g].on => rows'[g].tx = chain'[g].tx
    BY <2>1, <2>3 DEF RowInv
  <2>5. 0 \in Stored' => Indexed(0)'
    BY <2>1, <2>3 DEF RowInv, Indexed
  <2>6. \A g \in 1..tip' : Indexed(g)' \/ clock' - chain'[g].slot <= MaxCommitLag
    <3> TAKE g \in 1..tip'
    <3>1. g \in Heights /\ g \in 1..tip
      BY <1>0, <2>1
    <3>2. CASE fork < g
      BY <2>1, <2>2, <3>1, <3>2
    <3>3. CASE ~(fork < g)
      BY <2>1, <2>3, <3>1, <3>3 DEF RowInv, Indexed
    <3> QED BY <3>2, <3>3
  <2> QED BY <2>4, <2>5, <2>6 DEF RowInv
<1>6. CASE UNCHANGED <<chain, tip, reorgs, clock, rows>>
  BY <1>6 DEF RowInv, Stored, Indexed
<1> QED BY <1>1, <1>2, <1>3, <1>4, <1>5, <1>6 DEF Next, NodeNext, PendingNext, BlockNext, MaintenanceNext,
     Submit, RefreshLiveness, Observe, RepairTick, SweepPending, PruneLog, PruneDetail, vars, nodeVars,
     blockVars
-----------------------------------------------------------------------------
(* The pending table.                                                       *)

LEMMA PendingStep ==
  ASSUME SnapshotInv, GateTypes, GateTypes', PendingInv, [Next]_vars
  PROVE  PendingInv'
<1>0. /\ pending \in SUBSET Txs /\ late \in BOOLEAN /\ late' \in BOOLEAN
      /\ rows \in [Heights -> BlockRows \cup {NoBlock}]
      /\ \A b \in Txs : Settles(b)' = Settles(b)
  BY DEF SnapshotInv, SnapshotTypes, GateTypes, Settles, Rivals
<1>1. ASSUME NEW t \in Txs, Observe(t) PROVE PendingInv'
  <2>1. /\ UNCHANGED rows /\ pending' = (pending \ Rivals(t)) \cup {t}
        /\ t \notin Confirmed
        /\ ~late' => ~late /\ Rivals(t) \cap Confirmed = {}
    BY <1>1 DEF Observe, blockVars
  <2>2. \A g \in Stored : rows[g].tx \in Confirmed
    BY DEF Confirmed
  <2>3. ASSUME ~late', NEW g \in Stored, t \in Settles(rows[g].tx) PROVE FALSE
    <3>1. rows[g].tx \in Txs \cup {NoTx}
      BY <1>0, <2>3 DEF Stored, BlockRows
    <3>2. rows[g].tx \in Settles(t) /\ t \in Txs
      BY <2>3, <3>1, SettledAlike
    <3> QED BY <2>1, <2>2, <2>3, <3>2 DEF Settles
  <2>4. Stored' = Stored
    BY <2>1 DEF Stored
  <2> QED BY <2>1, <2>3, <2>4 DEF PendingInv, Settles, Rivals
<1>2. CASE Commit
  <2>1. PICK h \in 0..tip :
          /\ h \in Heights /\ pending' = pending \ Settles(chain[h].tx)
          /\ rows' = [rows EXCEPT ![h] = [tx |-> chain[h].tx, on |-> chain[h].on]]
    BY <1>2, CommitIs
  <2>2. late' = late
    BY <1>2 DEF Commit
  <2>3. \A g \in Stored' : g = h \/ (g \in Stored /\ rows'[g] = rows[g])
    BY <1>0, <2>1 DEF Stored
  <2>4. rows'[h].tx = chain[h].tx
    BY <1>0, <2>1
  <2>5. ASSUME ~late, NEW g \in Stored' PROVE pending' \cap Settles(rows'[g].tx) = {}
    <3>1. CASE g = h
      BY <2>1, <2>4, <3>1
    <3>2. CASE g # h
      BY <2>1, <2>3, <2>5, <3>2 DEF PendingInv
    <3> QED BY <3>1, <3>2
  <2> QED BY <2>2, <2>5 DEF PendingInv, Settles, Rivals
<1>3. CASE Rewind
  <2>1. PICK fork : rows' = [g \in Heights |-> IF fork < g THEN NoBlock ELSE rows[g]]
    BY <1>3 DEF Rewind
  <2>2. \A g \in Stored' : g \in Stored /\ rows'[g] = rows[g]
    BY <2>1 DEF Stored
  <2>3. UNCHANGED <<pending, late>>
    BY <1>3 DEF Rewind, pendingVars
  <2> QED BY <2>2, <2>3 DEF PendingInv, Settles, Rivals
<1>4. CASE UNCHANGED rows /\ pending' \subseteq pending /\ (late => late')
  <2>1. Stored' = Stored
    BY <1>4 DEF Stored
  <2> QED BY <1>4, <2>1 DEF PendingInv, Settles, Rivals
<1>5. CASE ~Commit /\ ~Rewind /\ ~(\E t \in Txs : Observe(t))
  <2>1. UNCHANGED rows
    BY <1>5 DEF Next, NodeNext, PendingNext, BlockNext, MaintenanceNext, Mine, Reorg, Slot, Submit,
       RefreshLiveness, RepairTick, SweepPending, PruneLog, PruneDetail, vars, blockVars
  <2>2. pending' \subseteq pending
    BY <1>5 DEF Next, NodeNext, PendingNext, BlockNext, MaintenanceNext, Mine, Reorg, Slot, Submit,
       RefreshLiveness, RepairTick, SweepPending, PruneLog, PruneDetail, Unswept, vars, pendingVars
  <2>3. late => late'
    BY <1>5 DEF Next, NodeNext, PendingNext, BlockNext, MaintenanceNext, Mine, Reorg, Slot, Submit,
       RefreshLiveness, RepairTick, SweepPending, PruneLog, PruneDetail, vars
  <2> QED BY <1>4, <2>1, <2>2, <2>3
<1> QED BY <1>1, <1>2, <1>3, <1>5

\* A transaction that a block of the chain settled does not come back to the
\* pool, and its row is no fresher than the block, give or take a slot.
LEMMA AgeStep ==
  ASSUME SnapshotInv, GateTypes, GateTypes', ChainInv, AgeInv, [Next]_vars
  PROVE  AgeInv'
<1>0. /\ clock \in Nat /\ tip \in Nat /\ reorgs \in Nat /\ late \in BOOLEAN /\ late' \in BOOLEAN
      /\ pending \in SUBSET Txs /\ MaxDelay \in Nat /\ TTL \in Nat /\ 0..tip \subseteq Heights
      /\ \A t : Settles(t)' = Settles(t)
      /\ gone \in [Txs -> Nat] /\ unseen \in [Txs -> Nat] /\ reorgs' \in Nat
  BY HeightsAre, CandidateSizes DEF GateTypes, SnapshotInv, SnapshotTypes, Settles, Rivals
<1>a. \A g \in 0..tip : chain[g].tx \in Txs \cup {NoTx} /\ chain[g].slot \in Nat /\ Settles(chain[g].tx) \subseteq Txs
  BY <1>0 DEF GateTypes, Settles, Rivals
<1>1. CASE Mine
  <2>1. /\ UNCHANGED <<unseen, pending, sent, late>> /\ clock' = clock
        /\ reorgs' = reorgs /\ tip' = tip + 1 /\ tip + 1 \in Heights
    BY <1>1, MinedTypes DEF Mine, pendingVars
  <2>2. PICK t \in Txs \cup {NoTx} :
          /\ chain' = [chain EXCEPT ![tip + 1] = [tx |-> t, on |-> reorgs, slot |-> clock]]
          /\ pool' = pool \ Settles(t)
          /\ gone' = [u \in Txs |-> IF u \in pool \cap Settles(t) THEN 0 ELSE gone[u]]
    BY <1>1, MinedTypes
  <2>3. /\ \A h \in 0..tip : chain'[h] = chain[h]
        /\ chain'[tip + 1].tx = t /\ chain'[tip + 1].slot = clock
    BY <1>0, <2>1, <2>2 DEF GateTypes
  <2>4. SUFFICES ASSUME reorgs = 0, NEW g \in 0..tip', NEW u \in Settles(chain'[g].tx)
                 PROVE  SettledLong(u, clock - chain[g].slot)'
    BY <1>0, <2>1 DEF AgeInv
  <2>5. CASE g \in 0..tip
    <3>1. SettledLong(u, clock - chain[g].slot) /\ u \in Txs
      BY <1>a, <2>3, <2>4, <2>5 DEF AgeInv
    <3> QED BY <2>1, <2>2, <2>3, <2>5, <3>1 DEF SettledLong
  <2>6. CASE g = tip + 1
    <3>1. u \in Settles(t) /\ u \in Txs
      BY <2>3, <2>4, <2>6 DEF Settles, Rivals
    <3>2. clock' - chain'[g].slot = 0 /\ u \notin pool'
      BY <1>0, <2>1, <2>2, <2>3, <2>6, <3>1
    <3>3. gone'[u] \in Nat /\ unseen'[u] \in Nat
      BY <3>1 DEF GateTypes
    <3> QED BY <3>2, <3>3 DEF SettledLong
  <2>7. g \in 0..tip \/ g = tip + 1
    BY <1>0, <2>1
  <2> QED BY <2>5, <2>6, <2>7
<1>2. CASE Reorg
  <2>1. reorgs' # 0
    BY <1>0, <1>2 DEF Reorg
  <2> QED BY <2>1 DEF AgeInv
<1>3. CASE ~Mine /\ ~Reorg
  <2>1. UNCHANGED <<chain, tip, reorgs>>
    BY <1>3 DEF Next, NodeNext, PendingNext, BlockNext, MaintenanceNext, Submit, RefreshLiveness,
       Observe, Slot, Commit, Rewind, RepairTick, SweepPending,
       PruneLog, PruneDetail, vars, nodeVars
  <2>2. SUFFICES ASSUME reorgs = 0, NEW g \in 0..tip, NEW u \in Settles(chain[g].tx)
                 PROVE  SettledLong(u, clock - chain[g].slot)'
    BY <1>0, <2>1 DEF AgeInv
  <2>3. /\ SettledLong(u, clock - chain[g].slot) /\ u \in Txs /\ chain[g].slot \in Nat
        /\ chain[g].slot <= clock
    BY <1>a, <2>2 DEF AgeInv, ChainInv
  <2>4. gone[u] \in Nat /\ unseen[u] \in Nat
    BY <1>0, <2>3
  <2>5. CASE Slot
    <3>1. /\ clock' = clock + 1 /\ UNCHANGED <<pool, sent, pending, late>>
          /\ gone'[u] = (IF u \in sent \ pool THEN OneMore(gone[u], MaxDelay + 1) ELSE 0)
          /\ unseen'[u] = (IF u \in pending THEN OneMore(unseen[u], TTL + 1) ELSE 0)
      BY <2>3, <2>5 DEF Slot
    <3>2. u \notin pool'
      BY <2>3, <3>1 DEF SettledLong
    <3>3. u \in sent => gone'[u] >= clock' - chain[g].slot \/ gone'[u] > MaxDelay
      <4> SUFFICES ASSUME u \in sent
                   PROVE  gone'[u] >= clock' - chain[g].slot \/ gone'[u] > MaxDelay
        OBVIOUS
      <4>1. gone[u] >= clock - chain[g].slot \/ gone[u] > MaxDelay
        BY <2>3 DEF SettledLong
      <4>2. gone'[u] = IF gone[u] < MaxDelay + 1 THEN gone[u] + 1 ELSE gone[u]
        BY <3>1, <3>2 DEF OneMore
      <4> QED BY <1>0, <2>3, <2>4, <3>1, <4>1, <4>2
    <3>4. ~late /\ u \in pending => unseen'[u] >= clock' - chain[g].slot - 1 \/ unseen'[u] > TTL
      <4> SUFFICES ASSUME ~late, u \in pending
                   PROVE  unseen'[u] >= clock' - chain[g].slot - 1 \/ unseen'[u] > TTL
        OBVIOUS
      <4>1. unseen[u] >= clock - chain[g].slot - 1 \/ unseen[u] > TTL
        BY <2>3 DEF SettledLong
      <4>2. unseen'[u] = IF unseen[u] < TTL + 1 THEN unseen[u] + 1 ELSE unseen[u]
        BY <3>1 DEF OneMore
      <4> QED BY <1>0, <2>3, <2>4, <3>1, <4>1, <4>2
    <3> QED BY <2>1, <3>1, <3>2, <3>3, <3>4 DEF SettledLong
  <2>6. ASSUME NEW t \in Txs, Submit(t) PROVE SettledLong(u, clock - chain[g].slot)'
    <3>1. /\ Mined \cap Settles(t) = {} /\ UNCHANGED <<clock, pending, unseen, late>>
          /\ sent' = sent \cup {t} /\ pool' = (pool \ Rivals(t)) \cup {t}
          /\ gone' = [v \in Txs |-> IF v \in pool \cap Rivals(t) THEN 0 ELSE gone[v]]
      BY <2>6 DEF Submit, pendingVars
    <3>2. u # t
      <4>1. chain[g].tx \in Mined
        BY <2>2 DEF Mined
      <4>2. chain[g].tx \in Settles(u)
        BY <1>a, <2>2, SettledAlike
      <4> QED BY <3>1, <4>1, <4>2
    <3> QED BY <2>1, <2>3, <3>1, <3>2 DEF SettledLong
  <2>7. ASSUME UNCHANGED <<clock, pool, sent, gone>>, late => late',
               u \in pending' => u \in pending /\ unseen'[u] = unseen[u]
        PROVE  SettledLong(u, clock - chain[g].slot)'
    BY <2>1, <2>3, <2>7 DEF SettledLong
  \* A row that is new, or said to be seen, is of a transaction that left the
  \* pool a slot ago at most.
  <2>8. ASSUME UNCHANGED <<clock, pool, sent, gone>>, SaidPending(u), ~late' => ~TooLate(u)
        PROVE  SettledLong(u, clock - chain[g].slot)'
    <3>1. u \notin pool /\ u \in sent /\ gone[u] <= MaxDelay
      BY <2>3, <2>8 DEF SaidPending, SettledLong
    <3>2. gone[u] >= clock - chain[g].slot
      BY <1>0, <2>3, <2>4, <3>1 DEF SettledLong
    <3>3. ~late' => gone[u] <= 1
      BY <2>4, <2>8, <3>1 DEF TooLate
    <3>4. unseen'[u] \in Nat
      BY <2>3 DEF GateTypes
    <3>5. ~late' => unseen'[u] >= clock - chain[g].slot - 1
      BY <1>0, <2>3, <2>4, <3>2, <3>3, <3>4
    <3> QED BY <2>1, <2>8, <3>1, <3>2, <3>5 DEF SettledLong
  <2>9. ASSUME NEW t \in Txs, Observe(t) PROVE SettledLong(u, clock - chain[g].slot)'
    <3>1. /\ SaidPending(t) /\ pending' = (pending \ Rivals(t)) \cup {t}
          /\ unseen' = [v \in Txs |-> IF v \in Settles(t) THEN 0 ELSE unseen[v]]
          /\ UNCHANGED <<clock, pool, sent, gone>>
          /\ late => late'
          /\ ~late' => ~TooLate(t)
      BY <2>9 DEF Observe, nodeVars
    <3>2. CASE u = t
      BY <1>0, <2>8, <3>1, <3>2
    <3>3. CASE u # t
      <4>1. u \in pending' => u \in pending /\ u \notin Settles(t)
        BY <3>1, <3>3 DEF Settles
      <4> QED BY <1>0, <2>3, <2>7, <3>1, <4>1
    <3> QED BY <3>2, <3>3
  <2>10. CASE RefreshLiveness
    <3>1. PICK S \in SUBSET {t \in pending \ pool : SaidPending(t)} :
            /\ unseen' = [t \in Txs |-> IF t \in (pending \cap pool) \cup S THEN 0 ELSE unseen[t]]
            /\ late' = (late \/ \E t \in S : TooLate(t))
      BY <2>10 DEF RefreshLiveness
    <3>2. UNCHANGED <<clock, pool, sent, gone, pending>>
      BY <2>10 DEF RefreshLiveness, nodeVars
    <3>3. CASE u \in S
      BY <2>8, <3>1, <3>2, <3>3
    <3>4. CASE u \notin S
      <4>1. u \notin pool
        BY <2>3 DEF SettledLong
      <4>2. unseen'[u] = unseen[u]
        BY <2>3, <3>1, <3>4, <4>1
      <4> QED BY <2>7, <3>1, <3>2, <4>2
    <3> QED BY <3>3, <3>4
  <2>11. CASE Commit
    <3>1. UNCHANGED <<clock, pool, sent, gone, late>>
      BY <2>11 DEF Commit, nodeVars
    <3>2. pending' \subseteq pending /\ unseen' = [v \in Txs |-> IF v \in pending' THEN unseen[v] ELSE 0]
      BY <2>11, CommitIs
    <3> QED BY <2>3, <2>7, <3>1, <3>2
  <2>13. CASE UNCHANGED <<clock, pool, sent, gone, late, pending, unseen>>
    BY <2>7, <2>13
  <2>12. CASE PruneTick
    <3>1. UNCHANGED <<clock, pool, sent, gone, late>>
      BY <2>12 DEF PruneTick, SweepPending, PruneLog, PruneDetail, nodeVars
    <3>2. CASE pending' = Unswept /\ Keep(Unswept)
      <4>1. /\ pending' \subseteq pending
            /\ unseen' = [v \in Txs |-> IF v \in pending' THEN unseen[v] ELSE 0]
        BY <3>2 DEF Keep, Unswept
      <4> QED BY <2>3, <2>7, <3>1, <4>1
    <3>3. CASE UNCHANGED pendingVars
      BY <2>13, <3>1, <3>3 DEF pendingVars
    <3> QED BY <2>12, <3>2, <3>3 DEF PruneTick, SweepPending, PruneLog, PruneDetail
  <2> QED BY <1>3, <2>5, <2>6, <2>9, <2>10, <2>11, <2>12, <2>13
          DEF Next, NodeNext, PendingNext, BlockNext, MaintenanceNext, PruneTick, Rewind, RepairTick,
              vars, nodeVars, pendingVars
<1> QED BY <1>1, <1>2, <1>3
-----------------------------------------------------------------------------
(* The repair and the prune.                                                *)

LEMMA EndsSettleNext ==
  ASSUME LogInv', NEW t \in Txs, NEW u \in EndsOf(t)'
  PROVE  u \in Settles(t)
<1>1. PICK n \in 0..ChainDepth : Leads(t, n, u)'
  BY DEF EndsOf
<1>2. n \in Nat /\ n \in 0..n /\ ChainDepth \in Nat
  BY CandidateSizes
<1>3. PICK c \in [0..n -> Txs] : c[0] = t /\ c[n] = u /\ \A i \in 1..n : replaced'[c[i - 1]].by = c[i]
  BY <1>1 DEF Leads
<1>4. \A v \in Txs : replaced'[v].by \in Rivals(v) \cup {NoTx}
  BY DEF LogInv, Rivals
<1> QED BY <1>2, <1>3, <1>4, ChainSettles

\* Above a recent block all blocks are recent.
LEMMA RecentAbove ==
  ASSUME SnapshotInv, GateTypes, ChainInv, MaxCommitLag <= Retention + 1,
         NEW g \in 0..tip, NEW h \in 0..tip, g < h, clock - chain[g].slot <= MaxCommitLag
  PROVE  clock - chain[h].slot <= Retention
<1>1. chain[g].slot \in Nat /\ chain[h].slot \in Nat /\ clock \in Nat
  BY HeightsAre DEF GateTypes, SnapshotInv
<1>2. chain[g].slot < chain[h].slot
  BY DEF ChainInv
<1> QED BY <1>1, <1>2, CandidateSizes

\* While nothing that was settled is pending, a step that stores recent blocks,
\* or records that pending rows were replaced, makes no old row impossible.
LEMMA ImpossibleOnlyRecent ==
  ASSUME SnapshotInv, GateInv, CandidateInv', PendingInv', LogInv', RepairedInv,
         MaxCommitLag <= Retention + 1, UNCHANGED <<clock, chain, tip, maintenance>>, ~late' => ~late,
         NEW E \in SUBSET pending, \A u \in Txs \ E : replaced'[u].by = replaced[u].by,
         \A c \in candidates' \ candidates : c.tx \in pending',
         \A g \in Heights : \/ rows'[g] \in {rows[g], NoBlock}
                            \/ rows'[g].tx = NoTx
                            \/ (g \in 0..tip /\ clock - chain[g].slot <= MaxCommitLag)
  PROVE  RepairedInv'
<1> SUFFICES ASSUME maintenance.due, maintenance.repaired, ~late', NEW c \in Impossible'
             PROVE  clock - c.slot <= Retention
  BY DEF RepairedInv
<1> DEFINE x(g) == rows'[g].tx
<1>0. pending \in SUBSET Txs /\ ~late /\ NoTx \notin Txs
  BY CandidateSizes DEF SnapshotInv, SnapshotTypes
<1>1. PICK g \in Stored' : g < c.height /\ x(g) \in EndsOf(c.tx)'
  BY DEF Impossible
<1>2. /\ c \in candidates' /\ c.tx \in Txs /\ c.height \in 0..tip /\ c.slot = chain[c.height].slot
      /\ g \in Heights /\ x(g) \in Txs /\ rows'[g] # NoBlock
  <2>1. c \in candidates'
    BY DEF Impossible
  <2>2. x(g) \in Txs
    BY <1>1 DEF EndsOf
  <2> QED BY <1>1, <2>1, <2>2 DEF CandidateInv, Stored
<1>3. c.tx \in Settles(x(g))
  <2>1. x(g) \in Settles(c.tx)
    BY <1>1, <1>2, EndsSettleNext
  <2>2. c.tx \in Settles(c.tx)
    BY <1>2, CandidateSizes DEF Settles
  <2> QED BY <1>2, <2>1, <2>2, SettledAlike
<1>4. CASE c \notin candidates
  <2>1. c.tx \in pending'
    BY <1>2, <1>4
  <2>2. pending' \cap Settles(x(g)) = {}
    BY <1>1 DEF PendingInv, Settles, Rivals
  <2> QED BY <1>3, <2>1, <2>2
<1>5. CASE c \in candidates /\ rows'[g] = rows[g]
  <2>1. g \in Stored /\ rows[g].tx = x(g)
    BY <1>2, <1>5 DEF Stored
  <2>2. CASE x(g) \in EndsOf(c.tx)
    <3>1. c \in Impossible
      BY <1>1, <1>5, <2>1, <2>2 DEF Impossible
    <3> QED BY <1>0, <3>1 DEF RepairedInv
  <2>3. CASE \E u \in E : x(g) \in Settles(u)
    <3>1. PICK u \in E : x(g) \in Settles(u)
      BY <2>3
    <3>2. u \in Txs /\ u \in Settles(u)
      BY <1>0, CandidateSizes DEF Settles
    <3>3. u \in Settles(x(g))
      BY <3>1, <3>2, SettledAlike
    <3>4. pending \cap Settles(rows[g].tx) = {}
      BY <1>0, <2>1 DEF PendingInv, GateInv
    <3> QED BY <2>1, <3>3, <3>4
  <2>4. x(g) \in EndsOf(c.tx) \/ \E u \in E : x(g) \in Settles(u)
    <3>1. E \in SUBSET Txs /\ LogInv
      BY <1>0 DEF GateInv
    <3> QED BY <1>1, <1>2, <3>1, LogGrows
  <2> QED BY <2>2, <2>3, <2>4
<1>6. CASE g \in 0..tip /\ clock - chain[g].slot <= MaxCommitLag
  BY <1>1, <1>2, <1>6, RecentAbove DEF GateInv
<1>7. rows'[g] = rows[g] \/ (g \in 0..tip /\ clock - chain[g].slot <= MaxCommitLag)
  BY <1>0, <1>2
<1> QED BY <1>4, <1>5, <1>6, <1>7

LEMMA RepairedStep ==
  ASSUME SnapshotInv, GateInv, GateTypes', CandidateInv', PendingInv', LogInv', RepairedInv,
         MaxCommitLag <= Retention + 1, [Next]_vars
  PROVE  RepairedInv'
<1>0. late \in BOOLEAN /\ late' \in BOOLEAN /\ maintenance \in MaintenanceType
  BY DEF GateInv, GateTypes
<1>1. ASSUME NEW t \in Txs, Observe(t) PROVE RepairedInv'
  <2> DEFINE E == pending \cap Rivals(t)
  <2>1. /\ UNCHANGED <<clock, chain, tip, maintenance, rows, candidates>>
        /\ ~late' => ~late
    BY <1>0, <1>1 DEF Observe, nodeVars, blockVars
  <2>2. \A u \in Txs \ E : replaced'[u].by = replaced[u].by
    BY <1>1 DEF Observe
  <2>3. E \in SUBSET pending /\ \A g \in Heights : rows'[g] \in {rows[g], NoBlock}
    BY <2>1
  <2>4. \A c \in candidates' \ candidates : c.tx \in pending'
    BY <2>1
  <2> HIDE DEF E
  <2> QED BY <2>1, <2>2, <2>3, <2>4, ImpossibleOnlyRecent
<1>2. CASE Commit
  <2>1. PICK h \in 0..tip :
          /\ h \in Heights
          /\ \A u \in Txs \ (pending \cap Rivals(chain[h].tx)) : replaced'[u] = replaced[u]
          /\ rows' = [rows EXCEPT ![h] = [tx |-> chain[h].tx, on |-> chain[h].on]]
          /\ \A c \in candidates' \ candidates : c.tx \in pending'
    BY <1>2, CommitIs DEF GateInv
  <2> DEFINE E == pending \cap Rivals(chain[h].tx)
  <2>2. /\ UNCHANGED <<clock, chain, tip, maintenance>> /\ late' = late
        /\ rows \in [Heights -> BlockRows \cup {NoBlock}]
    BY <1>2 DEF Commit, nodeVars, GateInv, GateTypes
  <2>3. \A u \in Txs \ E : replaced'[u].by = replaced[u].by
    BY <2>1
  <2>4. ASSUME NEW g \in Heights
        PROVE  \/ rows'[g] \in {rows[g], NoBlock}
                            \/ rows'[g].tx = NoTx
               \/ (g \in 0..tip /\ clock - chain[g].slot <= MaxCommitLag)
    <3>1. CASE g # h
      BY <2>1, <2>2, <3>1
    <3>2. CASE g = h /\ h = 0
      BY <2>1, <2>2, <3>2 DEF GateInv, ChainInv
    <3>3. CASE g = h /\ h # 0 /\ ~Indexed(h)
      <4>1. h \in 1..tip
        BY <3>3, HeightsAre DEF SnapshotInv
      <4> QED BY <3>3, <4>1 DEF GateInv, RowInv
    <3>4. CASE g = h /\ Indexed(h)
      <4>1. h \in Stored /\ rows[h] \in [tx : Txs \cup {NoTx}, on : Nat] /\ rows[h].on = chain[h].on
        BY <2>1, <2>2, <3>4 DEF Indexed, Stored, BlockRows
      <4>2. rows[h].tx = chain[h].tx
        BY <4>1 DEF GateInv, RowInv
      <4>3. rows[h] = [tx |-> chain[h].tx, on |-> chain[h].on]
        BY <4>1, <4>2
      <4> QED BY <2>1, <2>2, <3>4, <4>3
    <3> QED BY <3>1, <3>2, <3>3, <3>4
  <2>5. E \in SUBSET pending
    OBVIOUS
  <2> HIDE DEF E
  <2> QED BY <2>1, <2>2, <2>3, <2>4, <2>5, ImpossibleOnlyRecent
<1>3. CASE Rewind
  <2>1. PICK fork : /\ rows' = [g \in Heights |-> IF fork < g THEN NoBlock ELSE rows[g]]
                    /\ candidates' = {c \in candidates : c.height <= fork}
    BY <1>3 DEF Rewind
  <2>2. UNCHANGED <<clock, chain, tip, maintenance, replaced, late>>
    BY <1>3 DEF Rewind, nodeVars
  <2>3. \A g \in Heights : rows'[g] \in {rows[g], NoBlock}
    BY <2>1
  <2>4. \A c \in candidates' \ candidates : c.tx \in pending'
    BY <2>1
  <2>5. \A u \in Txs \ {} : replaced'[u].by = replaced[u].by
    BY <2>2
  <2>6. {} \in SUBSET pending
    OBVIOUS
  <2> QED BY <2>2, <2>3, <2>4, <2>5, <2>6, ImpossibleOnlyRecent
<1>4. CASE RepairTick
  <2>1. CASE RepairIncluded
    <3>1. UNCHANGED <<rows, replaced>> /\ candidates' = candidates \ Impossible
      BY <1>4, <2>1 DEF RepairTick, RepairIncluded
    <3>2. \A t : EndsOf(t)' = EndsOf(t)
      BY <3>1 DEF EndsOf, Leads
    <3>3. Impossible' = {}
      BY <3>1, <3>2 DEF Impossible, Stored
    <3> QED BY <3>3 DEF RepairedInv
  <2>2. CASE maintenance' = [IdleLoop EXCEPT !.due = TRUE]
    BY <2>2 DEF RepairedInv, IdleLoop
  <2> QED BY <1>4, <2>1, <2>2 DEF RepairTick
<1>5. CASE Slot
  <2>1. ~maintenance'.due
    BY <1>5 DEF Slot
  <2> QED BY <2>1 DEF RepairedInv
\* The prune of the log leads no further.
<1>8. CASE PruneTick
  <2>1. UNCHANGED <<clock, rows, late>>
    BY <1>8 DEF PruneTick, SweepPending, PruneLog, PruneDetail, nodeVars, blockVars
  <2>2. /\ maintenance.due
        /\ maintenance'.due => maintenance.repaired /\ UNCHANGED candidates
    BY <1>0, <1>8, PruneGoesOn
  <2>3. ASSUME NEW u \in Txs PROVE replaced'[u].by \in {replaced[u].by, NoTx}
    BY <1>8 DEF PruneTick, SweepPending, PruneLog, PruneDetail, NotReplaced, GateInv, GateTypes
  <2>4. \A t : EndsOf(t)' \subseteq EndsOf(t)
    <3>1. ASSUME NEW t, NEW u, NEW n \in 0..ChainDepth, Leads(t, n, u)' PROVE Leads(t, n, u)
      <4>1. PICK p \in [0..n -> Txs] : p[0] = t /\ p[n] = u /\ \A i \in 1..n : replaced'[p[i - 1]].by = p[i]
        BY <3>1 DEF Leads
      <4>2. \A i \in 1..n : p[i] \in Txs /\ p[i - 1] \in Txs /\ p[i] # NoTx
        BY CandidateSizes
      <4>3. \A i \in 1..n : replaced[p[i - 1]].by = p[i]
        BY <2>3, <4>1, <4>2
      <4> QED BY <4>1, <4>3 DEF Leads
    <3> QED BY <3>1 DEF EndsOf
  <2>5. UNCHANGED candidates => Impossible' \subseteq Impossible
    BY <2>1, <2>4 DEF Impossible, Stored
  <2> QED BY <2>1, <2>2, <2>5 DEF RepairedInv
<1>6. CASE UNCHANGED <<rows, replaced, candidates, clock, maintenance>> /\ (~late' => ~late)
  <2>1. \A t : EndsOf(t)' = EndsOf(t)
    BY <1>6 DEF EndsOf, Leads
  <2>2. Impossible' = Impossible
    BY <1>6, <2>1 DEF Impossible, Stored
  <2> QED BY <1>6, <2>2 DEF RepairedInv
<1>7. CASE (NodeNext /\ ~Slot) \/ RefreshLiveness \/ UNCHANGED vars
  <2>1. UNCHANGED <<rows, replaced, candidates, maintenance, clock>>
    BY <1>7 DEF NodeNext, Mine, Reorg, Submit, RefreshLiveness, vars, nodeVars, blockVars
  <2>2. ~late' => ~late
    BY <1>0, <1>7 DEF NodeNext, Mine, Reorg, Submit, RefreshLiveness, vars
  <2> QED BY <1>6, <2>1, <2>2
<1> QED BY <1>1, <1>2, <1>3, <1>4, <1>5, <1>7, <1>8
        DEF Next, PendingNext, BlockNext, MaintenanceNext, PruneTick
-----------------------------------------------------------------------------
LEMMA InitGate == Init => GateInv /\ RepairedInv
<1> SUFFICES ASSUME Init PROVE GateInv /\ RepairedInv
  OBVIOUS
<1>1. /\ tip = 0 /\ clock = 0 /\ reorgs = 0 /\ pool = {} /\ sent = {} /\ pending = {}
      /\ candidates = {} /\ late = FALSE /\ 0 \in Heights
  BY CandidateSizes DEF Init, Heights
<1>2. chain = [h \in Heights |-> [tx |-> NoTx, on |-> 0, slot |-> 0]]
  BY DEF Init, Genesis
<1>3. GateTypes
  <2>1. [tx |-> NoTx, on |-> 0] \in [tx : Txs \cup {NoTx}, on : Nat]
    OBVIOUS
  <2>2. rows \in [Heights -> BlockRows \cup {NoBlock}]
    BY <2>1 DEF Init, BlockRows
  <2>3. replaced \in [Txs -> [by : Txs \cup {NoTx}, age : Nat]]
    BY DEF Init, NotReplaced
  <2>4. maintenance \in MaintenanceType
    BY DEF Init, IdleLoop, MaintenanceType
  <2>5. gone \in [Txs -> Nat] /\ unseen \in [Txs -> Nat]
    BY DEF Init
  <2> QED BY <1>1, <1>2, <2>2, <2>3, <2>4, <2>5 DEF GateTypes
<1>4. ChainInv
  BY <1>1, <1>2 DEF ChainInv
<1>5. RowInv
  <2>1. \A h \in Stored : h = 0 /\ rows[h] = [tx |-> NoTx, on |-> 0]
    BY <1>1 DEF Init, Stored
  <2>2. \A h \in Stored : /\ h <= tip /\ rows[h].on <= reorgs
                          /\ rows[h].on = chain[h].on => rows[h].tx = chain[h].tx
    BY <1>1, <1>2, <2>1
  <2>3. 0 \in Stored => Indexed(0)
    BY <1>1, <1>2, <2>1 DEF Indexed, Stored
  <2> QED BY <1>1, <2>2, <2>3 DEF RowInv
<1>6. LogInv
  BY DEF Init, LogInv, NotReplaced
<1>7. PendingInv /\ CandidateInv
  BY <1>1 DEF PendingInv, CandidateInv
<1>8. AgeInv
  <2>1. \A g \in 0..tip : chain[g].tx = NoTx
    BY <1>1, <1>2
  <2> QED BY <2>1 DEF AgeInv, Settles
<1>9. RepairedInv
  BY <1>1 DEF RepairedInv, Impossible
<1> QED BY <1>3, <1>4, <1>5, <1>6, <1>7, <1>8, <1>9 DEF GateInv

LEMMA StepGate == SnapshotInv /\ GateInv /\ [Next]_vars => GateInv'
<1> SUFFICES ASSUME SnapshotInv, GateInv, [Next]_vars PROVE GateInv'
  OBVIOUS
<1>0. GateTypes /\ ChainInv /\ RowInv /\ LogInv /\ PendingInv /\ AgeInv /\ CandidateInv
  BY DEF GateInv
<1>1. GateTypes'
  BY <1>0, TypesStep
<1> QED BY <1>0, <1>1, ChainStep, RowsStep, LogStep, PendingStep, AgeStep, CandidatesStep DEF GateInv

\* What the node's chain, the rows, the pending table, the log of replacements
\* and the candidates have to do with each other, in every reachable state.
THEOREM GateInvariance == Spec => [](SnapshotInv /\ GateInv)
<1>1. Init => SnapshotInv /\ GateInv
  BY InitSnapshots, InitGate
<1>2. SnapshotInv /\ GateInv /\ [Next]_vars => SnapshotInv' /\ GateInv'
  BY StepSnapshots, StepGate
<1> QED BY <1>1, <1>2, PTL DEF Spec

\* With every block of the window below committed, and the window no longer
\* than a row lives, a snapshot holds nothing that a block below settled: a
\* settled row within the window was promoted, one below it has not been seen
\* for the window (predecessorsCommitted, candidateLivenessWindow).
THEOREM SnapshotsFacePool ==
  ASSUME Window <= TTL
  PROVE  Spec => SnapshotFacedPool
<1>1. SnapshotInv /\ GateInv /\ [Next]_vars =>
        (0 \in Stored /\ ~late' /\ reorgs' = 0 => \A c \in candidates' \ candidates : ~Settled(c))
  <2> SUFFICES ASSUME SnapshotInv, GateInv, [Next]_vars, 0 \in Stored, ~late', reorgs' = 0,
                      NEW c \in candidates' \ candidates, Settled(c)
               PROVE  FALSE
    OBVIOUS
  <2>0. /\ tip \in Nat /\ clock \in Nat /\ reorgs \in Nat /\ 0..tip \subseteq Heights
        /\ Window \in Nat /\ TTL \in Nat /\ MaxHeight \in Nat /\ Heights = 0..MaxHeight
        /\ chain \in [Heights -> [tx : Txs \cup {NoTx}, on : Nat, slot : Nat]]
        /\ rows \in [Heights -> BlockRows \cup {NoBlock}]
        /\ pending \in SUBSET Txs /\ unseen \in [Txs -> Nat]
    BY HeightsAre, CandidateSizes DEF GateInv, GateTypes, SnapshotInv, SnapshotTypes
  <2>1. Commit
    BY DEF Next, NodeNext, PendingNext, BlockNext, MaintenanceNext, Mine, Reorg, Slot, Submit,
       RefreshLiveness, Observe, Rewind, RepairTick, RepairIncluded, SweepPending, PruneLog, PruneDetail, vars, blockVars
  <2>2. UNCHANGED <<clock, chain, tip, reorgs, late>>
    BY <2>1 DEF Commit, nodeVars
  <2>3. PICK h \in 0..tip :
          /\ pending' = pending \ Settles(chain[h].tx)
          /\ c.height = h /\ c.tx \in pending' /\ c.slot = chain[h].slot
          /\ unseen[c.tx] <= Window /\ PredecessorsCommitted(h)
    BY <2>1, CommitIs DEF GateInv
  <2>4. PICK g \in 0..(h - 1) : c.tx \in Settles(chain[g].tx)
    BY <2>3 DEF Settled
  <2>5. /\ g \in 0..tip /\ g \in Nat /\ h \in Nat /\ g < h /\ c.tx \in pending /\ c.tx \in Txs
        /\ chain[g].slot \in Nat /\ chain[h].slot \in Nat /\ unseen[c.tx] \in Nat
    <3>1. g \in 0..tip /\ g \in Nat /\ h \in Nat /\ g < h
      BY <2>0
    <3>2. c.tx \in pending /\ c.tx \in Txs
      BY <2>0, <2>3
    <3>3. chain[g] \in [tx : Txs \cup {NoTx}, on : Nat, slot : Nat]
      BY <2>0, <3>1
    <3>4. chain[h] \in [tx : Txs \cup {NoTx}, on : Nat, slot : Nat]
      BY <2>0
    <3> QED BY <2>0, <3>1, <3>2, <3>3, <3>4
  <2>6. CASE g \in Stored
    <3>1. rows[g].on = chain[g].on
      <4>1. rows[g].on \in Nat /\ rows[g].on <= 0 /\ chain[g].on \in Nat /\ chain[g].on <= 0
        BY <2>0, <2>2, <2>5, <2>6 DEF GateInv, RowInv, ChainInv, Stored, BlockRows
      <4> QED BY <4>1
    <3>2. rows[g].tx = chain[g].tx
      BY <2>6, <3>1 DEF GateInv, RowInv
    <3> QED BY <2>2, <2>4, <2>5, <2>6, <3>2 DEF GateInv, PendingInv
  <2>7. CASE g \notin Stored
    <3>1. Min(Stored) = 0
      <4>1. Stored \in SUBSET Nat
        BY <2>0 DEF Stored
      <4>2. Min(Stored) \in Nat /\ Min(Stored) <= 0
        BY <4>1, MinOfHeights
      <4> QED BY <4>2
    <3> DEFINE from == Max({0, h - Predecessors})
    <3>2. from..(h - 1) \subseteq Stored
      <4>1. {0, h - Predecessors} \cup {0} = {0, h - Predecessors}
        OBVIOUS
      <4> QED BY <2>3, <3>1, <4>1 DEF PredecessorsCommitted
    <3>3. from \in {0, h - (Window + 1)}
      <4>1. h - (Window + 1) \in Int
        BY <2>0, <2>5
      <4>2. \A x \in Int : Max({0, x}) \in {0, x}
        <5> TAKE x \in Int
        <5>1. 0 \in Int
          OBVIOUS
        <5> QED BY <5>1, MaxOfTwo
      <4> QED BY <4>1, <4>2 DEF Predecessors
    <3> HIDE DEF from
    <3>4. g < h - (Window + 1)
      BY <2>0, <2>5, <2>7, <3>2, <3>3
    <3>5. chain[h].slot - chain[g].slot >= h - g /\ chain[h].slot <= clock
      BY <2>3, <2>5, SlotsApart DEF GateInv, ChainInv
    <3>6. unseen[c.tx] >= clock - chain[g].slot - 1 \/ unseen[c.tx] > TTL
      <4>1. SettledLong(c.tx, clock - chain[g].slot)
        BY <2>2, <2>4, <2>5 DEF GateInv, AgeInv
      <4> QED BY <2>2, <2>5, <4>1 DEF SettledLong
    <3>7. clock - chain[g].slot >= Window + 2
      <4>1. h - g >= Window + 2
        BY <2>0, <2>5, <3>4
      <4> DEFINE x == chain[h].slot
                 y == chain[g].slot
      <4>2. x \in Nat /\ y \in Nat /\ x - y >= h - g /\ x <= clock
        BY <2>5, <3>5
      <4> HIDE DEF x, y
      <4>3. clock - y >= Window + 2
        BY <2>0, <2>5, <4>1, <4>2
      <4> QED BY <4>3 DEF y
    <3>8. unseen[c.tx] >= Window + 1 \/ unseen[c.tx] > TTL
      <4> DEFINE x == unseen[c.tx]
                 y == clock - chain[g].slot
      <4>1. /\ x \in Nat /\ y \in Int /\ Window \in Nat
            /\ x >= y - 1 \/ x > TTL
            /\ y >= Window + 2
        BY <2>0, <2>5, <3>6, <3>7
      <4> HIDE DEF x, y
      <4>2. x >= Window + 1 \/ x > TTL
        BY <4>1
      <4> QED BY <4>2 DEF x
    <3> QED BY <2>0, <2>3, <2>5, <3>8
  <2> QED BY <2>6, <2>7
<1> QED BY <1>1, GateInvariance, PTL DEF Spec, SnapshotFacedPool

\* The prune of a tick takes no row that the repair of the same tick could have
\* removed: what turns impossible in between is of a recent block, which the
\* retention spares (runMempoolCleanup, pruneStaleCandidates).
THEOREM NothingAgesOutUnrepaired ==
  ASSUME MaxCommitLag <= Retention + 1
  PROVE  Spec => NoRowAgesOutUnrepaired
<1>1. SnapshotInv /\ GateInv /\ SnapshotInv' /\ GateInv' /\ RepairedInv /\ [Next]_vars => RepairedInv'
  BY RepairedStep DEF GateInv
<1>2. Spec => []RepairedInv
  BY <1>1, InitGate, GateInvariance, PTL DEF Spec
<1>3. SnapshotInv /\ GateInv /\ RepairedInv =>
        (PruneDetail /\ ~late => (candidates \ candidates') \cap Impossible = {})
  <2> SUFFICES ASSUME SnapshotInv, GateInv, RepairedInv, PruneDetail, ~late,
                      NEW c \in candidates \ candidates', c \in Impossible
               PROVE  FALSE
    OBVIOUS
  <2>1. maintenance.due /\ maintenance.repaired /\ ~(clock - c.slot <= Retention)
    BY DEF PruneDetail, GateInv, GateTypes, MaintenanceType
  <2> QED BY <2>1 DEF RepairedInv
<1> QED BY <1>2, <1>3, GateInvariance, PTL DEF NoRowAgesOutUnrepaired
-----------------------------------------------------------------------------
(* What the repair finds.                                                   *)

\* No nonce is settled by two blocks of the chain.
OneInv == \A g, h \in 0..tip : g # h => Settles(chain[g].tx) \cap Settles(chain[h].tx) = {}

\* A row that was replaced is gone.
GoneInv == pending \cap Replaced = {}

\* The log leads from candidate c to the block g that settled its nonce, or, as
\* long as g is not indexed, to a pending row; all of this happened since g.
Tracked(c, g, n, p) ==
  /\ p[0] = c.tx /\ \A i, j \in 0..n : p[i] = p[j] => i = j
  /\ \A i \in 1..n : /\ replaced[p[i - 1]].by = p[i]
                     /\ replaced[p[i - 1]].age <= clock - chain[g].slot
  /\ IF Indexed(g) THEN p[n] = chain[g].tx
     ELSE p[n] \in pending /\ unseen[p[n]] <= Window + clock - chain[g].slot

SettledBy(c, g) == g < c.height /\ c.tx \in Settles(chain[g].tx)

FoundInv ==
  ~late => \A c \in candidates : \A g \in 0..tip :
    SettledBy(c, g) => \E n \in 0..ChainDepth : \E p \in [0..n -> Txs] : Tracked(c, g, n, p)

\* Between the repair and the prune of a tick, what the repair did not find is
\* recent.
TickInv ==
  maintenance.due /\ maintenance.repaired /\ ~late =>
    \A c \in candidates : \A g \in 0..tip : SettledBy(c, g) => clock - chain[g].slot <= MaxCommitLag

\* No nonce is bid for by more transactions than the repair follows.
BidsBound == \A t \in Txs : Cardinality(Rivals(t)) <= ChainDepth

LEMMA OneStep ==
  ASSUME SnapshotInv, GateTypes, OneInv, [Next]_vars
  PROVE  OneInv'
<1>0. /\ tip \in Nat /\ 0..tip \subseteq Heights /\ \A b : Settles(b)' = Settles(b)
      /\ chain \in [Heights -> [tx : Txs \cup {NoTx}, on : Nat, slot : Nat]]
  BY HeightsAre DEF SnapshotInv, GateTypes, Settles, Rivals
\* Two blocks settle the same nonce only if one settles the other's transaction.
<1>a. ASSUME NEW b \in Txs \cup {NoTx}, NEW d \in Txs \cup {NoTx}, Settles(b) \cap Settles(d) # {}
      PROVE  b \in Settles(d) /\ d \in Settles(b)
  <2>1. PICK u \in Settles(b) : u \in Settles(d)
    BY <1>a
  <2>2. b \in Settles(u) /\ d \in Settles(u) /\ u \in Txs
    BY <1>a, <2>1, SettledAlike
  <2> QED BY <2>2, SettledAlike
<1>1. CASE Mine
  <2>1. PICK t \in Includable(Mined) :
          chain' = [chain EXCEPT ![tip + 1] = [tx |-> t, on |-> reorgs, slot |-> clock]]
    BY <1>1 DEF Mine
  <2>2. t \in Txs \cup {NoTx} /\ (t = NoTx \/ Mined \cap Settles(t) = {}) /\ NoTx \notin Txs
    BY <2>1, CandidateSizes DEF Includable, GateTypes
  <2>3. /\ tip' = tip + 1 /\ \A h \in 0..tip : chain'[h] = chain[h]
        /\ chain'[tip + 1].tx = t /\ \A h \in 0..tip' : h \in 0..tip \/ h = tip + 1
    BY <1>0, <1>1, <2>1, MinedTypes
  <2>4. \A h \in 0..tip : Settles(chain[h].tx) \cap Settles(t) = {}
    <3> SUFFICES ASSUME NEW h \in 0..tip, Settles(chain[h].tx) \cap Settles(t) # {} PROVE FALSE
      OBVIOUS
    <3>1. chain[h].tx \in Txs \cup {NoTx} /\ chain[h].tx \in Mined
      BY <1>0 DEF Mined
    <3>2. t # NoTx
      BY DEF Settles
    <3> QED BY <1>a, <2>2, <3>1, <3>2
  <2>5. ASSUME NEW g \in 0..tip', NEW h \in 0..tip', g # h
        PROVE  Settles(chain'[g].tx) \cap Settles(chain'[h].tx) = {}
    <3>1. CASE g \in 0..tip /\ h \in 0..tip
      BY <2>3, <2>5, <3>1 DEF OneInv
    <3>2. CASE g \in 0..tip /\ h = tip + 1
      BY <2>3, <2>4, <3>2
    <3>3. CASE g = tip + 1 /\ h \in 0..tip
      BY <2>3, <2>4, <3>3
    <3> QED BY <2>3, <2>5, <3>1, <3>2, <3>3
  <2> QED BY <1>0, <2>5 DEF OneInv
<1>2. CASE Reorg
  <2> DEFINE kept == {chain[h].tx : h \in 0..(tip - 1)}
  <2>1. PICK t \in Includable(kept) \cup {chain[tip].tx} :
          chain' = [chain EXCEPT ![tip] = [tx |-> t, on |-> reorgs + 1, slot |-> chain[tip].slot]]
    BY <1>2 DEF Reorg
  <2>2. /\ t \in Txs \cup {NoTx} /\ NoTx \notin Txs
        /\ t = NoTx \/ kept \cap Settles(t) = {} \/ t = chain[tip].tx
    <3>1. chain[tip].tx \in Txs \cup {NoTx}
      BY DEF GateTypes, SnapshotInv, SnapshotTypes
    <3> QED BY <2>1, <3>1, CandidateSizes DEF Includable, GateTypes
  <2>3. /\ tip' = tip /\ \A h \in 0..tip : h # tip => chain'[h] = chain[h] /\ chain[h].tx \in kept
        /\ chain'[tip].tx = t
    <3>1. tip' = tip /\ tip \in 0..tip /\ tip \in Heights
      BY <1>0, <1>2, ReorgTypes
    <3>2. \A h \in 0..tip : h # tip => h \in 0..(tip - 1)
      BY <1>0
    <3>3. chain'[tip].tx = t /\ \A h \in 0..tip : h # tip => chain'[h] = chain[h]
      BY <1>0, <2>1, <3>1
    <3> QED BY <3>1, <3>2, <3>3
  <2> HIDE DEF kept
  <2>4. \A h \in 0..tip : h # tip => Settles(chain[h].tx) \cap Settles(t) = {}
    <3> SUFFICES ASSUME NEW h \in 0..tip, h # tip, Settles(chain[h].tx) \cap Settles(t) # {} PROVE FALSE
      OBVIOUS
    <3>1. chain[h].tx \in Txs \cup {NoTx} /\ chain[h].tx \in kept /\ tip \in 0..tip
      BY <1>0, <2>3
    <3>2. t # NoTx
      BY DEF Settles
    <3>3. t # chain[tip].tx
      BY <3>1 DEF OneInv
    <3> QED BY <1>a, <2>2, <3>1, <3>2, <3>3
  <2>5. ASSUME NEW g \in 0..tip, NEW h \in 0..tip, g # h
        PROVE  Settles(chain'[g].tx) \cap Settles(chain'[h].tx) = {}
    <3>1. CASE g # tip /\ h # tip
      BY <2>3, <2>5, <3>1 DEF OneInv
    <3>2. CASE h = tip
      BY <2>3, <2>4, <2>5, <3>2
    <3>3. CASE g = tip
      BY <2>3, <2>4, <2>5, <3>3
    <3> QED BY <3>1, <3>2, <3>3
  <2> QED BY <1>0, <2>3, <2>5 DEF OneInv
<1>3. CASE ~Mine /\ ~Reorg
  <2>1. UNCHANGED <<chain, tip>>
    BY <1>3 DEF Next, NodeNext, PendingNext, BlockNext, MaintenanceNext, Submit, RefreshLiveness,
       Observe, Slot, Commit, Rewind, RepairTick, SweepPending,
       PruneLog, PruneDetail, vars, nodeVars
  <2> QED BY <1>0, <2>1 DEF OneInv
<1> QED BY <1>1, <1>2, <1>3

LEMMA GoneStep ==
  ASSUME SnapshotInv, GateTypes, GoneInv, [Next]_vars
  PROVE  GoneInv'
<1>0. pending \in SUBSET Txs
  BY DEF SnapshotInv, SnapshotTypes
<1>1. ASSUME NEW t \in Txs, Observe(t) PROVE GoneInv'
  <2>1. /\ t \notin Replaced /\ t \notin pending /\ pending' = (pending \ Rivals(t)) \cup {t}
        /\ replaced' = [u \in Txs |-> IF u \in pending \cap Rivals(t)
                                        THEN [by |-> t, age |-> 0] ELSE replaced[u]]
    BY <1>1 DEF Observe
  <2>2. Replaced' \subseteq Replaced \cup (pending \cap Rivals(t))
    BY <2>1 DEF Replaced
  <2>3. t \notin Replaced'
    BY <2>1, <2>2
  <2> QED BY <2>1, <2>2, <2>3 DEF GoneInv
<1>2. CASE Commit
  <2>1. PICK h \in 0..tip :
          /\ chain[h].tx \in Txs \cup {NoTx} /\ pending' = pending \ Settles(chain[h].tx)
          /\ \A u \in Txs \ (pending \cap Rivals(chain[h].tx)) : replaced'[u] = replaced[u]
    BY <1>2, CommitIs
  <2>2. Replaced' \subseteq Replaced \cup (pending \cap Rivals(chain[h].tx))
    BY <2>1 DEF Replaced
  <2>3. Rivals(chain[h].tx) \subseteq Settles(chain[h].tx)
    BY <2>1, RivalsAre
  <2> QED BY <2>1, <2>2, <2>3 DEF GoneInv
<1>3. CASE Replaced' \subseteq Replaced /\ pending' \subseteq pending
  BY <1>3 DEF GoneInv
<1>4. CASE ~Commit /\ ~(\E t \in Txs : Observe(t))
  <2>1. pending' \subseteq pending
    BY <1>4 DEF Next, NodeNext, PendingNext, BlockNext, MaintenanceNext, Mine, Reorg, Slot, Submit,
       RefreshLiveness, Rewind, RepairTick, SweepPending, PruneLog, PruneDetail, Unswept, vars, pendingVars
  <2>2. CASE Slot
    <3>1. \A u \in Txs : u \in Replaced' => u \in Replaced
      BY <2>2 DEF Slot, Replaced, NotReplaced
    <3> QED BY <1>3, <2>1, <3>1 DEF Replaced
  <2>3. CASE PruneTick
    <3>1. \A u \in Txs : u \in Replaced' => u \in Replaced
      BY <2>3 DEF PruneTick, SweepPending, PruneLog, PruneDetail, Replaced, NotReplaced
    <3> QED BY <1>3, <2>1, <3>1 DEF Replaced
  <2>4. CASE UNCHANGED replaced
    <3>1. Replaced' = Replaced
      BY <2>4 DEF Replaced
    <3> QED BY <1>3, <2>1, <3>1
  <2> QED BY <1>4, <2>2, <2>3, <2>4 DEF Next, NodeNext, PendingNext, BlockNext, MaintenanceNext,
       Mine, Reorg, Submit, RefreshLiveness, Rewind, RepairTick, PruneTick, vars
<1> QED BY <1>1, <1>2, <1>4

\* Path q goes one step further than p, to v, and nowhere twice.
Prolongs(q, n, p, v) ==
  /\ \A i \in 0..n : q[i] = p[i]
  /\ q[n + 1] = v
  /\ \A i, j \in 0..(n + 1) : q[i] = q[j] => i = j

\* A path of distinct replacements is no longer than there are bids.
LEMMA Longer ==
  ASSUME BidsBound, NEW t \in Txs, NEW n \in Nat, NEW p \in [0..n -> Txs],
         \A i \in 0..n : p[i] \in Settles(t), \A i, j \in 0..n : p[i] = p[j] => i = j,
         NEW v \in Settles(t), \A i \in 0..n : p[i] # v
  PROVE  n + 1 \in 0..ChainDepth /\ \E q \in [0..(n + 1) -> Txs] : Prolongs(q, n, p, v)
<1> DEFINE q == [i \in 0..(n + 1) |-> IF i \in 0..n THEN p[i] ELSE v]
<1>1. Settles(t) \subseteq Txs /\ IsFiniteSet(Rivals(t)) /\ ChainDepth \in Nat
  <2>1. Rivals(t) \in SUBSET Txs
    BY CandidateSizes DEF Rivals
  <2> QED BY <2>1, CandidateSizes, FS_Subset DEF Settles
<1>2. \A i \in 0..(n + 1) : i \in 0..n \/ (i = n + 1 /\ i \notin 0..n)
  OBVIOUS
<1>3. /\ q \in [0..(n + 1) -> Settles(t)] /\ q[n + 1] = v /\ \A i \in 0..n : q[i] = p[i]
  <2>1. n + 1 \in 0..(n + 1) /\ \A i \in 0..n : i \in 0..(n + 1)
    OBVIOUS
  <2> QED BY <1>2, <2>1
<1> HIDE DEF q
<1>4. \A i, j \in 0..(n + 1) : q[i] = q[j] => i = j
  <2> TAKE i, j \in 0..(n + 1)
  <2>1. CASE i \in 0..n /\ j \in 0..n
    BY <1>3, <2>1
  <2>2. CASE i = n + 1 /\ j \in 0..n
    BY <1>3, <2>2
  <2>3. CASE i \in 0..n /\ j = n + 1
    BY <1>3, <2>3
  <2> QED BY <1>2, <2>1, <2>2, <2>3
<1>5. q \in Injection(0..(n + 1), Settles(t))
  BY <1>3, <1>4 DEF Injection, IsInjective
<1>6. /\ IsFiniteSet(Settles(t)) /\ Cardinality(Settles(t)) <= ChainDepth + 1
  <2>1. Settles(t) = Rivals(t) \cup {t} /\ t \notin Rivals(t)
    BY CandidateSizes DEF Settles, Rivals
  <2>2. Cardinality(Rivals(t)) \in Nat /\ Cardinality(Rivals(t)) <= ChainDepth
    BY <1>1, FS_CardinalityType DEF BidsBound
  <2>3. IsFiniteSet(Settles(t)) /\ Cardinality(Settles(t)) = Cardinality(Rivals(t)) + 1
    BY <1>1, <2>1, FS_AddElement
  <2> QED BY <1>1, <2>2, <2>3
<1>7. Cardinality(0..(n + 1)) = n + 2
  <2>1. 0 \in Int /\ n + 1 \in Int /\ ~(0 > n + 1)
    OBVIOUS
  <2>2. Cardinality(0..(n + 1)) = (n + 1) - 0 + 1
    BY <2>1, FS_Interval
  <2> QED BY <2>2
<1>8. n + 2 <= Cardinality(Settles(t)) /\ Cardinality(Settles(t)) \in Nat
  BY <1>5, <1>6, <1>7, FS_Injection, FS_CardinalityType
<1>9. n + 1 \in 0..ChainDepth
  BY <1>1, <1>6, <1>8
<1>10. Prolongs(q, n, p, v) /\ q \in [0..(n + 1) -> Txs]
  BY <1>1, <1>3, <1>4 DEF Prolongs
<1> QED BY <1>9, <1>10

LEMMA TrackedSettles ==
  ASSUME LogInv, NEW c, c.tx \in Txs, NEW g, NEW n \in Nat, NEW p \in [0..n -> Txs], Tracked(c, g, n, p)
  PROVE  /\ \A i \in 0..n : p[i] \in Settles(c.tx)
         /\ \A i \in 1..n : p[i - 1] \in Replaced
<1>1. /\ p[0] = c.tx /\ \A i \in 1..n : replaced[p[i - 1]].by = p[i]
  BY DEF Tracked
<1>2. \A i \in 0..n : p[i] \in Settles(c.tx)
  BY <1>1, ChainSettles DEF LogInv
<1>3. \A i \in 1..n : p[i - 1] \in Txs /\ p[i] \in Txs
  OBVIOUS
<1> QED BY <1>1, <1>2, <1>3, CandidateSizes DEF Replaced

\* A step that spares the log, and the row at the end of the path as long as it
\* is needed, leaves the path as it is.
LEMMA StillTracked ==
  ASSUME LogInv, NEW c, c.tx \in Txs, NEW g, NEW n \in Nat, NEW p \in [0..n -> Txs], Tracked(c, g, n, p),
         chain'[g] = chain[g], Indexed(g)' = Indexed(g),
         \A t \in Replaced : /\ replaced'[t].by = replaced[t].by
                             /\ replaced[t].age <= clock - chain[g].slot =>
                                  replaced'[t].age <= clock' - chain[g].slot,
         ~Indexed(g) /\ p[n] \in pending /\ unseen[p[n]] <= Window + clock - chain[g].slot =>
           p[n] \in pending' /\ unseen'[p[n]] <= Window + clock' - chain[g].slot
  PROVE  Tracked(c, g, n, p)'
<1>1. \A i \in 1..n : p[i - 1] \in Replaced
  BY TrackedSettles
<1>2. \A i \in 1..n : /\ replaced'[p[i - 1]].by = p[i]
                      /\ replaced'[p[i - 1]].age <= clock' - chain[g].slot
  BY <1>1 DEF Tracked
<1>3. IF Indexed(g)' THEN p[n] = chain[g].tx
      ELSE p[n] \in pending' /\ unseen'[p[n]] <= Window + clock' - chain[g].slot
  BY DEF Tracked
<1> QED BY <1>2, <1>3 DEF Tracked

LEMMA CommitIndexes ==
  ASSUME SnapshotInv, GateInv, Commit, NEW h \in 0..tip,
         rows' = [rows EXCEPT ![h] = [tx |-> chain[h].tx, on |-> chain[h].on]]
  PROVE  /\ Indexed(h)' /\ \A g \in 0..tip : g # h => Indexed(g)' = Indexed(g)
<1>0. /\ 0..tip \subseteq Heights /\ rows \in [Heights -> BlockRows \cup {NoBlock}]
      /\ chain \in [Heights -> [tx : Txs \cup {NoTx}, on : Nat, slot : Nat]]
  BY HeightsAre DEF GateInv, GateTypes, SnapshotInv
<1>1. chain' = chain
  BY DEF Commit, nodeVars
<1>2. [tx |-> chain[h].tx, on |-> chain[h].on] \in BlockRows
  BY <1>0 DEF BlockRows
<1>3. rows'[h] = [tx |-> chain[h].tx, on |-> chain[h].on] /\ rows'[h] # NoBlock
  BY <1>0, <1>2, CandidateSizes
<1>4. \A g \in 0..tip : g # h => rows'[g] = rows[g]
  BY <1>0
<1> QED BY <1>1, <1>3, <1>4 DEF Indexed

\* A block that is not indexed and settled something is recent.
LEMMA UnindexedRecent ==
  ASSUME SnapshotInv, GateInv, NEW c, NEW g \in 0..tip, SettledBy(c, g), ~Indexed(g)
  PROVE  clock - chain[g].slot <= MaxCommitLag
<1>1. g # 0
  BY DEF GateInv, ChainInv, SettledBy, Settles
<1>2. g \in 1..tip
  BY <1>1, HeightsAre DEF SnapshotInv
<1> QED BY <1>2 DEF GateInv, RowInv

\* What the log leads to a block of the chain that is indexed, is impossible.
LEMMA TrackedIsImpossible ==
  ASSUME SnapshotInv, GateInv, NEW c \in candidates, NEW g \in 0..tip, SettledBy(c, g), Indexed(g),
         NEW n \in 0..ChainDepth, NEW p \in [0..n -> Txs], Tracked(c, g, n, p)
  PROVE  c \in Impossible
<1>1. g \in Stored /\ rows[g].tx = chain[g].tx
  BY HeightsAre DEF Indexed, Stored, GateInv, RowInv, SnapshotInv
<1>2. n \in 0..n /\ p[n] = chain[g].tx
  BY CandidateSizes DEF Tracked
<1>3. Leads(c.tx, n, p[n]) /\ p[n] \in Txs
  BY <1>2 DEF Leads, Tracked
<1>4. rows[g].tx \in EndsOf(c.tx)
  BY <1>1, <1>2, <1>3 DEF EndsOf
<1> QED BY <1>1, <1>4 DEF Impossible, SettledBy

LEMMA TickStep ==
  ASSUME SnapshotInv, GateInv, FoundInv, TickInv, GateTypes', [Next]_vars
  PROVE  TickInv'
<1>0. late \in BOOLEAN /\ late' \in BOOLEAN /\ maintenance \in MaintenanceType
      /\ \A b : Settles(b)' = Settles(b)
  BY DEF GateInv, GateTypes, Settles, Rivals
<1>1. CASE RepairTick
  <2>1. UNCHANGED <<clock, chain, tip, rows, replaced, late>>
    BY <1>1 DEF RepairTick, nodeVars
  <2> SUFFICES ASSUME maintenance'.repaired, ~late, NEW c \in candidates', NEW g \in 0..tip, SettledBy(c, g)
               PROVE  clock - chain[g].slot <= MaxCommitLag
    BY <1>0, <2>1 DEF TickInv, SettledBy
  <2>2. candidates' = candidates \ Impossible
    BY <1>1 DEF RepairTick, RepairIncluded, IdleLoop
  <2>3. PICK n \in 0..ChainDepth : \E p \in [0..n -> Txs] : Tracked(c, g, n, p)
    BY <2>2 DEF FoundInv
  <2>4. ~Indexed(g)
    BY <2>2, <2>3, TrackedIsImpossible
  <2> QED BY <2>4, UnindexedRecent
<1>2. CASE Commit
  <2>1. UNCHANGED <<clock, chain, tip, maintenance, late>>
    BY <1>2 DEF Commit, nodeVars
  <2>2. PICK h \in 0..tip : /\ chain[h].tx \in Txs \cup {NoTx}
                            /\ \A c \in candidates' \ candidates : c.height = h /\ c.tx \in pending'
                            /\ pending' = pending \ Settles(chain[h].tx)
    BY <1>2, CommitIs DEF GateInv
  <2> SUFFICES ASSUME maintenance.due, maintenance.repaired, ~late,
                      NEW c \in candidates', NEW g \in 0..tip, SettledBy(c, g)
               PROVE  clock - chain[g].slot <= MaxCommitLag
    BY <1>0, <2>1 DEF TickInv, SettledBy
  <2>3. CASE c \in candidates
    BY <2>3 DEF TickInv
  <2>4. CASE c \notin candidates
    <3>1. c.tx \in pending
      BY <2>2, <2>4
    <3>2. ~Indexed(g)
      <4> SUFFICES ASSUME Indexed(g) PROVE FALSE
        OBVIOUS
      <4>1. g \in Stored /\ rows[g].tx = chain[g].tx
        BY HeightsAre DEF Indexed, Stored, GateInv, RowInv, SnapshotInv
      <4> QED BY <3>1, <4>1 DEF GateInv, PendingInv, SettledBy
    <3> QED BY <3>2, UnindexedRecent
  <2> QED BY <2>3, <2>4
<1>3. CASE Mine \/ Reorg
  <2>1. UNCHANGED <<candidates, maintenance, late>> /\ clock' = clock
    BY <1>3 DEF Mine, Reorg, blockVars
  <2> SUFFICES ASSUME maintenance.due, maintenance.repaired, ~late,
                      NEW c \in candidates, NEW g \in 0..tip', SettledBy(c, g)'
               PROVE  clock - chain'[g].slot <= MaxCommitLag
    BY <1>0, <2>1 DEF TickInv, SettledBy
  <2>2. c.height \in 0..tip /\ g < c.height
    BY DEF GateInv, CandidateInv, SettledBy
  <2>3. g \in 0..tip /\ g # tip
    BY <1>3, <2>2, HeightsAre, SlotsKept DEF SnapshotInv, GateInv
  <2>4. chain'[g] = chain[g]
    BY <1>3, <2>3, SlotsKept DEF GateInv
  <2>5. SettledBy(c, g)
    BY <1>0, <2>2, <2>4 DEF SettledBy
  <2> QED BY <2>1, <2>3, <2>4, <2>5 DEF TickInv
<1>4. CASE Slot
  <2>1. ~maintenance'.due
    BY <1>4 DEF Slot
  <2> QED BY <2>1 DEF TickInv
<1>7. CASE PruneTick
  <2>1. UNCHANGED <<clock, chain, tip, late>>
    BY <1>7 DEF PruneTick, SweepPending, PruneLog, PruneDetail, nodeVars
  <2>2. /\ maintenance.due
        /\ maintenance'.due => maintenance.repaired /\ UNCHANGED candidates
    BY <1>0, <1>7, PruneGoesOn
  <2> QED BY <1>0, <2>1, <2>2 DEF TickInv, SettledBy
<1>5. CASE Rewind
  <2>1. UNCHANGED <<clock, chain, tip, maintenance, late>>
    BY <1>5 DEF Rewind, nodeVars
  <2>2. candidates' \subseteq candidates
    BY <1>5 DEF Rewind
  <2> QED BY <1>0, <2>1, <2>2 DEF TickInv, SettledBy
<1>6. CASE UNCHANGED vars \/ RefreshLiveness \/ (\E t \in Txs : Observe(t) \/ Submit(t))
  <2>1. UNCHANGED <<clock, chain, tip, maintenance, candidates>>
    BY <1>6 DEF RefreshLiveness, Observe, Submit, vars, nodeVars, blockVars
  <2>2. ~late' => ~late
    BY <1>0, <1>6 DEF RefreshLiveness, Observe, Submit, vars
  <2> QED BY <1>0, <2>1, <2>2 DEF TickInv, SettledBy
<1> QED BY <1>1, <1>2, <1>3, <1>4, <1>5, <1>6, <1>7
        DEF Next, NodeNext, PendingNext, BlockNext, MaintenanceNext, PruneTick

\* A block that commits is one more step of the log for the rows it settled, and
\* leaves the others alone; what it snapshots was pending.
LEMMA FoundCommit ==
  ASSUME SnapshotInv, GateInv, OneInv, GoneInv, FoundInv, Commit, late \in BOOLEAN, BidsBound
  PROVE  FoundInv'
<1>0. /\ \A b : Settles(b)' = Settles(b)
      /\ pending \in SUBSET Txs /\ unseen \in [Txs -> Nat] /\ clock \in Nat /\ tip \in Nat
      /\ replaced \in [Txs -> [by : Txs \cup {NoTx}, age : Nat]] /\ LogInv
      /\ {Window, LogRetention, ChainDepth} \subseteq Nat /\ NoTx \notin Txs
  BY HeightsAre, CandidateSizes DEF GateInv, GateTypes, SnapshotInv, SnapshotTypes, Settles, Rivals
<1>1. \A g \in 0..tip : /\ chain[g].slot \in Nat /\ chain[g].slot <= clock
                        /\ chain[g].tx \in Txs \cup {NoTx}
  BY HeightsAre DEF GateInv, GateTypes, ChainInv, SnapshotInv
<1>2. UNCHANGED <<clock, chain, tip, late>>
  BY DEF Commit, nodeVars
<1>3. PICK h \in 0..tip :
        /\ pending' = pending \ Settles(chain[h].tx)
        /\ \A u \in Txs \ (pending \cap Rivals(chain[h].tx)) : replaced'[u] = replaced[u]
        /\ \A u \in pending \cap Rivals(chain[h].tx) :
             replaced'[u] = [by |-> chain[h].tx, age |-> Min({clock - chain[h].slot, LogRetention + 1})]
        /\ rows' = [rows EXCEPT ![h] = [tx |-> chain[h].tx, on |-> chain[h].on]]
        /\ unseen' = [u \in Txs |-> IF u \in pending' THEN unseen[u] ELSE 0]
        /\ \A c \in candidates' \ candidates : c.height = h /\ c.tx \in pending' /\ unseen[c.tx] <= Window
  BY CommitIs DEF GateInv
<1>4. Indexed(h)' /\ \A g \in 0..tip : g # h => Indexed(g)' = Indexed(g)
  BY <1>3, CommitIndexes
<1>5. \A t \in Replaced : replaced'[t] = replaced[t]
  BY <1>3 DEF Replaced, GoneInv
<1> SUFFICES ASSUME ~late, NEW c \in candidates', NEW g \in 0..tip, SettledBy(c, g)
             PROVE  \E m \in 0..ChainDepth : \E q \in [0..m -> Txs] : Tracked(c, g, m, q)'
  BY <1>0, <1>2 DEF FoundInv, SettledBy
\* A new candidate is pending itself, and then the block that settled it is not
\* indexed.
<1>6. CASE c \notin candidates
  <2>1. c.height = h /\ c.tx \in pending' /\ c.tx \in pending /\ unseen[c.tx] <= Window /\ g < h
    BY <1>3, <1>6 DEF SettledBy
  <2>2. ~Indexed(g)
    <3> SUFFICES ASSUME Indexed(g) PROVE FALSE
      OBVIOUS
    <3>1. g \in Stored /\ rows[g].tx = chain[g].tx
      BY HeightsAre DEF Indexed, Stored, GateInv, RowInv, SnapshotInv
    <3> QED BY <2>1, <3>1 DEF GateInv, PendingInv, SettledBy
  <2>3. ~Indexed(g)'
    BY <1>4, <2>1, <2>2
  <2> DEFINE q == [i \in 0..0 |-> c.tx]
  <2>4. q \in [0..0 -> Txs] /\ q[0] = c.tx /\ 0 \in 0..ChainDepth
    BY <1>0, <2>1
  <2>5. \A i, j \in 0..0 : i = j
    OBVIOUS
  <2>6. 1..0 = {}
    OBVIOUS
  <2>7. unseen'[c.tx] <= Window + clock - chain[g].slot
    <3> DEFINE x == unseen[c.tx]
               s == chain[g].slot
    <3>1. x \in Nat /\ s \in Nat /\ s <= clock /\ x <= Window
      BY <1>0, <1>1, <2>1
    <3> HIDE DEF x, s
    <3>2. x <= Window + clock - s
      BY <1>0, <3>1
    <3>3. unseen'[c.tx] = unseen[c.tx]
      BY <1>0, <1>3, <2>1
    <3> QED BY <3>2, <3>3 DEF x, s
  <2> HIDE DEF q
  <2>8. Tracked(c, g, 0, q)'
    BY <1>2, <2>1, <2>3, <2>4, <2>5, <2>6, <2>7 DEF Tracked
  <2> QED BY <2>4, <2>8
<1>7. CASE c \in candidates
  <2>0. c.tx \in Txs
    BY <1>7 DEF GateInv, CandidateInv
  <2>1. PICK n \in 0..ChainDepth : \E p \in [0..n -> Txs] : Tracked(c, g, n, p)
    BY <1>7 DEF FoundInv
  <2>2. PICK p \in [0..n -> Txs] : Tracked(c, g, n, p)
    BY <2>1
  <2>3. n \in Nat /\ n \in 0..n /\ p[n] \in Txs
    BY <1>0
  <2>4. /\ \A i \in 0..n : p[i] \in Settles(c.tx)
        /\ \A i \in 1..n : p[i - 1] \in Replaced
    BY <1>0, <2>0, <2>2, <2>3, TrackedSettles
  <2>5. p[n] \in Settles(chain[g].tx) /\ chain[g].tx \in Settles(c.tx) /\ chain[g].tx \in Txs
    <3>1. c.tx \in Settles(chain[g].tx) /\ chain[g].tx \in Txs \cup {NoTx}
      BY <1>1 DEF SettledBy
    <3>2. chain[g].tx \in Settles(c.tx) /\ chain[g].tx \in Txs
      <4>1. chain[g].tx \in Txs
        BY <3>1 DEF Settles
      <4> QED BY <3>1, <4>1, SettledAlike
    <3>3. p[n] \in Settles(c.tx)
      BY <2>3, <2>4
    <3> QED BY <2>0, <3>2, <3>3, SettledAlike
  <2>6. CASE h # g \/ Indexed(g)
    <3>1. Indexed(g)' = Indexed(g)
      BY <1>4, <2>6 DEF Indexed
    <3>2. ~Indexed(g) /\ p[n] \in pending /\ unseen[p[n]] <= Window + clock - chain[g].slot =>
            p[n] \in pending' /\ unseen'[p[n]] <= Window + clock' - chain[g].slot
      <4> SUFFICES ASSUME h # g, p[n] \in pending PROVE p[n] \in pending' /\ unseen'[p[n]] = unseen[p[n]]
        BY <1>2, <2>6
      <4>1. p[n] \notin Settles(chain[h].tx)
        BY <2>5 DEF OneInv
      <4> QED BY <1>3, <2>3, <4>1
    <3>3. Tracked(c, g, n, p)'
      BY <1>0, <1>2, <1>5, <2>0, <2>2, <2>3, <3>1, <3>2, StillTracked
    <3> QED BY <3>3
  <2>7. CASE h = g /\ ~Indexed(g)
    <3>1. Indexed(g)' /\ p[n] \in pending
      BY <1>4, <2>2, <2>7 DEF Tracked
    <3>2. /\ p[0] = c.tx /\ \A i, j \in 0..n : p[i] = p[j] => i = j
          /\ \A i \in 1..n : /\ replaced'[p[i - 1]].by = p[i]
                             /\ replaced'[p[i - 1]].age <= clock - chain[g].slot
      BY <1>5, <2>2, <2>4 DEF Tracked
    <3>3. CASE \E k \in 0..n : p[k] = chain[g].tx
      <4>1. PICK k \in 0..n : p[k] = chain[g].tx
        BY <3>3
      <4> DEFINE q == [i \in 0..k |-> p[i]]
      <4>2. k \in Nat /\ k \in 0..ChainDepth /\ 0..k \subseteq 0..n /\ k \in 0..k /\ 0 \in 0..k
        BY <1>0, <2>3
      <4>3. q \in [0..k -> Txs] /\ \A i \in 0..k : q[i] = p[i]
        BY <4>2
      <4> HIDE DEF q
      <4>4. q[0] = c.tx /\ q[k] = chain[g].tx /\ \A i, j \in 0..k : q[i] = q[j] => i = j
        BY <3>2, <4>1, <4>2, <4>3
      <4>5. \A i \in 1..k : /\ replaced'[q[i - 1]].by = q[i]
                            /\ replaced'[q[i - 1]].age <= clock - chain[g].slot
        <5> TAKE i \in 1..k
        <5>1. i \in 1..n /\ i \in 0..k /\ i - 1 \in 0..k
          BY <2>3, <4>2
        <5>2. q[i] = p[i] /\ q[i - 1] = p[i - 1]
          BY <4>3, <5>1
        <5> QED BY <3>2, <5>1, <5>2
      <4>6. Tracked(c, g, k, q)'
        BY <1>2, <3>1, <4>4, <4>5 DEF Tracked
      <4> QED BY <4>2, <4>3, <4>6
    <3>4. CASE \A k \in 0..n : p[k] # chain[g].tx
      <4> DEFINE v == chain[g].tx
      <4>1. /\ replaced'[p[n]].by = v
            /\ replaced'[p[n]].age <= clock - chain[g].slot
        <5>1. p[n] \in Rivals(v)
          BY <2>3, <2>5, <3>4 DEF Settles
        <5>2. replaced'[p[n]] = [by |-> v, age |-> Min({clock - chain[g].slot, LogRetention + 1})]
          BY <1>3, <2>7, <3>1, <5>1
        <5>3. clock - chain[g].slot \in Int /\ LogRetention + 1 \in Int
          BY <1>0, <1>1
        <5>4. Min({clock - chain[g].slot, LogRetention + 1}) <= clock - chain[g].slot
          BY <5>3, MinOfTwo
        <5> QED BY <5>2, <5>4
      <4>2. v \in Settles(c.tx) /\ \A i \in 0..n : p[i] # v
        BY <2>5, <3>4
      <4>3. n + 1 \in 0..ChainDepth /\ \E q \in [0..(n + 1) -> Txs] : Prolongs(q, n, p, v)
        <5>1. /\ \A i \in 0..n : p[i] \in Settles(c.tx)
              /\ \A i, j \in 0..n : p[i] = p[j] => i = j
          BY <2>4, <3>2
        <5> HIDE DEF v
        <5> QED BY <2>0, <2>3, <4>2, <5>1, Longer
      <4>4. PICK q \in [0..(n + 1) -> Txs] : /\ \A i \in 0..n : q[i] = p[i]
                                             /\ q[n + 1] = v
                                             /\ \A i, j \in 0..(n + 1) : q[i] = q[j] => i = j
        BY <4>3 DEF Prolongs
      <4>5. q[0] = c.tx
        BY <2>3, <3>2, <4>4
      <4>6. \A i \in 1..(n + 1) : /\ replaced'[q[i - 1]].by = q[i]
                                  /\ replaced'[q[i - 1]].age <= clock - chain[g].slot
        <5> TAKE i \in 1..(n + 1)
        <5>1. CASE i \in 1..n
          <6>1. q[i - 1] = p[i - 1] /\ q[i] = p[i]
            BY <4>4, <5>1
          <6> QED BY <3>2, <5>1, <6>1
        <5>2. CASE i = n + 1
          <6>1. i - 1 = n
            BY <2>3, <5>2
          <6>2. q[i - 1] = p[n] /\ q[i] = v
            BY <2>3, <4>4, <5>2, <6>1
          <6> QED BY <4>1, <6>2
        <5>3. i \in 1..n \/ i = n + 1
          BY <2>3
        <5> QED BY <5>1, <5>2, <5>3
      <4>7. Tracked(c, g, n + 1, q)'
        BY <1>2, <3>1, <4>4, <4>5, <4>6 DEF Tracked
      <4> QED BY <4>3, <4>7
    <3> QED BY <3>3, <3>4
  <2> QED BY <2>6, <2>7
<1> QED BY <1>6, <1>7

\* A time that grows no faster than the clock stays within a slot it lies in.
LEMMA GrowsWithClock ==
  ASSUME NEW x \in Nat, NEW y \in Nat, NEW c \in Nat, NEW d \in Nat, NEW b \in Int,
         y <= x + (d - c), x <= b + c
  PROVE  y <= b + d
OBVIOUS

LEMMA FoundStep ==
  ASSUME SnapshotInv, GateInv, GateTypes', LogInv', OneInv, GoneInv, FoundInv, TickInv, [Next]_vars,
         BidsBound, Window + MaxCommitLag <= TTL, MaxCommitLag <= LogRetention
  PROVE  FoundInv'
<1>0. /\ late \in BOOLEAN /\ late' \in BOOLEAN /\ \A b : Settles(b)' = Settles(b)
      /\ pending \in SUBSET Txs /\ unseen \in [Txs -> Nat] /\ clock \in Nat /\ tip \in Nat
      /\ replaced \in [Txs -> [by : Txs \cup {NoTx}, age : Nat]] /\ LogInv
      /\ \A g \in 0..tip : chain[g].slot \in Nat /\ chain[g].slot <= clock /\ g \in Heights
      /\ {Window, TTL, LogRetention, MaxCommitLag, ChainDepth} \subseteq Nat /\ Replaced \subseteq Txs
      /\ maintenance \in MaintenanceType /\ NoTx \notin Txs
  <2>1. \A g \in 0..tip : chain[g].slot \in Nat /\ chain[g].slot <= clock /\ g \in Heights
    BY HeightsAre DEF GateInv, GateTypes, ChainInv, SnapshotInv
  <2> QED BY <2>1, HeightsAre, CandidateSizes
          DEF GateInv, GateTypes, SnapshotInv, SnapshotTypes, Settles, Rivals, Replaced
\* It is enough to find each candidate again that was found before.
<1>a. ASSUME ~late' => ~late,
             \A c \in candidates' : \A g \in 0..tip' :
               SettledBy(c, g)' => c \in candidates /\ g \in 0..tip /\ SettledBy(c, g),
             ASSUME ~late, ~late', NEW c \in candidates, c \in candidates', c.tx \in Txs,
                    NEW g \in 0..tip, SettledBy(c, g),
                    NEW n \in 0..ChainDepth, NEW p \in [0..n -> Txs], Tracked(c, g, n, p), n \in Nat
             PROVE  \E m \in 0..ChainDepth : \E q \in [0..m -> Txs] : Tracked(c, g, m, q)'
      PROVE  FoundInv'
  <2> SUFFICES ASSUME ~late', NEW c \in candidates', NEW g \in 0..tip', SettledBy(c, g)'
               PROVE  \E m \in 0..ChainDepth : \E q \in [0..m -> Txs] : Tracked(c, g, m, q)'
    BY DEF FoundInv
  <2>1. c \in candidates /\ g \in 0..tip /\ SettledBy(c, g) /\ ~late
    BY <1>a
  <2>2. PICK n \in 0..ChainDepth : \E p \in [0..n -> Txs] : Tracked(c, g, n, p)
    BY <2>1 DEF FoundInv
  <2>3. PICK p \in [0..n -> Txs] : Tracked(c, g, n, p)
    BY <2>2
  <2>4. c.tx \in Txs
    BY <2>1 DEF GateInv, CandidateInv
  <2>5. n \in Nat
    BY <1>0
  <2> QED BY <1>a, <2>1, <2>2, <2>3, <2>4, <2>5
\* Where nothing about the log and the rows it ends in changes.
<1>b. ASSUME ~late' => ~late, candidates' \subseteq candidates,
             \A g \in 0..tip : \A c \in candidates' :
               g < c.height => chain'[g] = chain[g] /\ Indexed(g)' = Indexed(g),
             \A c \in candidates' : c.height <= tip, tip' \in Nat,
             clock \in Nat, clock' \in Nat, clock <= clock',
             \A t \in Replaced : replaced'[t].by = replaced[t].by /\ replaced'[t].age <= replaced[t].age + (clock' - clock),
             pending \subseteq pending',
             \A t \in pending : unseen'[t] <= unseen[t] + (clock' - clock)
      PROVE  FoundInv'
  <2>1. ASSUME NEW c \in candidates', NEW g \in 0..tip', SettledBy(c, g)'
        PROVE  c \in candidates /\ g \in 0..tip /\ SettledBy(c, g)
    <3>1. g < c.height /\ c \in candidates /\ c.height \in 0..tip
      BY <1>b, <2>1 DEF SettledBy, GateInv, CandidateInv
    <3>2. g \in 0..tip
      BY <1>0, <1>b, <3>1
    <3> QED BY <1>0, <1>b, <2>1, <3>1, <3>2 DEF SettledBy
  <2>2. ASSUME NEW c \in candidates', c.tx \in Txs, NEW g \in 0..tip, SettledBy(c, g),
               NEW n \in Nat, NEW p \in [0..n -> Txs], Tracked(c, g, n, p)
        PROVE  Tracked(c, g, n, p)'
    <3>1. chain'[g] = chain[g] /\ Indexed(g)' = Indexed(g)
      BY <1>b, <2>2 DEF SettledBy
    <3>2. \A t \in Replaced : /\ replaced'[t].by = replaced[t].by
                              /\ replaced[t].age <= clock - chain[g].slot =>
                                   replaced'[t].age <= clock' - chain[g].slot
      <4> TAKE t \in Replaced
      <4>1. t \in Txs /\ replaced[t].age \in Nat /\ replaced'[t].age \in Nat /\ chain[g].slot \in Nat
        BY <1>0 DEF GateTypes
      <4>2. replaced'[t].by = replaced[t].by /\ replaced'[t].age <= replaced[t].age + (clock' - clock)
        BY <1>b
      <4>3. clock \in Nat /\ clock' \in Nat
        BY <1>b
      <4> DEFINE x == replaced[t].age
                 y == replaced'[t].age
                 b == 0 - chain[g].slot
      <4>4. x \in Nat /\ y \in Nat /\ b \in Int /\ y <= x + (clock' - clock)
        BY <4>1, <4>2
      <4>5. /\ x <= clock - chain[g].slot <=> x <= b + clock
            /\ y <= clock' - chain[g].slot <=> y <= b + clock'
        BY <4>1, <4>3
      <4> HIDE DEF x, y, b
      <4>6. x <= b + clock => y <= b + clock'
        BY <4>3, <4>4, GrowsWithClock
      <4> QED BY <4>2, <4>5, <4>6 DEF x, y
    <3>3. ~Indexed(g) /\ p[n] \in pending /\ unseen[p[n]] <= Window + clock - chain[g].slot =>
            p[n] \in pending' /\ unseen'[p[n]] <= Window + clock' - chain[g].slot
      <4> SUFFICES ASSUME p[n] \in pending, unseen[p[n]] <= Window + clock - chain[g].slot
                   PROVE  p[n] \in pending' /\ unseen'[p[n]] <= Window + clock' - chain[g].slot
        OBVIOUS
      <4>1. p[n] \in Txs /\ unseen[p[n]] \in Nat /\ unseen'[p[n]] \in Nat /\ chain[g].slot \in Nat /\ Window \in Nat
        BY <1>0 DEF GateTypes
      <4>2. unseen'[p[n]] <= unseen[p[n]] + (clock' - clock) /\ p[n] \in pending'
        BY <1>b
      <4>3. clock \in Nat /\ clock' \in Nat
        BY <1>b
      <4> DEFINE x == unseen'[p[n]]
                 y == unseen[p[n]]
                 s == chain[g].slot
      <4>4. x \in Nat /\ y \in Nat /\ s \in Nat /\ x <= y + (clock' - clock) /\ y <= Window + clock - s
        BY <4>1, <4>2
      <4> HIDE DEF x, y, s
      <4>5. x <= Window + clock' - s
        BY <4>1, <4>3, <4>4
      <4> QED BY <4>2, <4>5 DEF x, s
    <3> QED BY <1>0, <2>2, <3>1, <3>2, <3>3, StillTracked
  <2> QED BY <1>a, <1>b, <2>1, <2>2
<1>1. CASE Mine \/ Reorg
  <2>1. UNCHANGED <<candidates, replaced, pending, unseen, rows, late>> /\ clock' = clock /\ tip' \in Nat
    BY <1>1, SlotsKept DEF Mine, Reorg, pendingVars, blockVars, GateInv
  <2>2. ASSUME NEW g \in 0..tip, NEW c \in candidates', g < c.height
        PROVE  chain'[g] = chain[g] /\ Indexed(g)' = Indexed(g)
    <3>1. c.height \in 0..tip
      BY <2>1, <2>2 DEF GateInv, CandidateInv
    <3>2. g # tip
      BY <1>0, <2>2, <3>1
    <3>3. chain'[g] = chain[g]
      BY <1>1, <3>2, SlotsKept DEF GateInv
    <3> QED BY <2>1, <3>3 DEF Indexed
  <2>3. \A c \in candidates' : c.height <= tip
    BY <1>0, <2>1 DEF GateInv, CandidateInv
  <2>4. /\ \A t \in Replaced : replaced'[t].age <= replaced[t].age + (clock' - clock)
        /\ \A t \in pending : unseen'[t] <= unseen[t] + (clock' - clock)
    BY <1>0, <2>1
  <2> QED BY <1>0, <1>b, <2>1, <2>2, <2>3, <2>4
<1>2. CASE Slot
  <2>1. UNCHANGED <<candidates, pending, rows, late, chain, tip>> /\ clock' = clock + 1
    BY <1>2 DEF Slot, blockVars
  <2>2. \A t \in Replaced : replaced'[t].by = replaced[t].by /\ replaced'[t].age <= replaced[t].age + (clock' - clock)
    <3> TAKE t \in Replaced
    <3>1. t \in Txs /\ replaced[t].age \in Nat /\ clock' - clock = 1
      BY <1>0, <2>1
    <3>2. replaced'[t] = [replaced[t] EXCEPT !.age = OneMore(@, LogRetention + 1)]
      BY <1>2, <3>1 DEF Slot
    <3> QED BY <1>0, <3>1, <3>2 DEF OneMore
  <2>3. \A t \in pending : unseen'[t] <= unseen[t] + (clock' - clock)
    <3> TAKE t \in pending
    <3>1. t \in Txs /\ unseen[t] \in Nat /\ clock' - clock = 1
      BY <1>0, <2>1
    <3>2. unseen'[t] = OneMore(unseen[t], TTL + 1)
      BY <1>2, <3>1 DEF Slot
    <3> QED BY <1>0, <3>1, <3>2 DEF OneMore
  <2>4. \A c \in candidates' : c.height <= tip
    BY <1>0, <2>1 DEF GateInv, CandidateInv
  <2>5. \A g \in 0..tip : Indexed(g)' = Indexed(g)
    BY <2>1 DEF Indexed
  <2> QED BY <1>0, <1>b, <2>1, <2>2, <2>3, <2>4, <2>5
<1>3. CASE UNCHANGED vars \/ RefreshLiveness \/ (\E t \in Txs : Submit(t)) \/ RepairTick
  <2>1. UNCHANGED <<pending, replaced, rows, clock, chain, tip>> /\ candidates' \subseteq candidates
    BY <1>3 DEF RefreshLiveness, Submit, RepairTick, RepairIncluded, vars, nodeVars, pendingVars, blockVars
  <2>2. ~late' => ~late
    BY <1>0, <1>3 DEF RefreshLiveness, Submit, RepairTick, vars
  <2>3. \A t \in pending : unseen'[t] <= unseen[t]
    <3>1. CASE UNCHANGED unseen
      BY <1>0, <3>1
    <3>2. CASE RefreshLiveness
      <4>1. \A t \in Txs : unseen'[t] \in {0, unseen[t]}
        BY <3>2 DEF RefreshLiveness
      <4> QED BY <1>0, <4>1
    <3> QED BY <1>3, <3>1, <3>2 DEF Submit, RepairTick, vars, pendingVars
  <2>4. /\ \A t \in Replaced : replaced'[t].age <= replaced[t].age + (clock' - clock)
        /\ \A t \in pending : unseen'[t] <= unseen[t] + (clock' - clock)
    BY <1>0, <2>1, <2>3
  <2>5. \A c \in candidates' : c.height <= tip
    BY <1>0, <2>1 DEF GateInv, CandidateInv
  <2>6. \A g \in 0..tip : Indexed(g)' = Indexed(g)
    BY <2>1 DEF Indexed
  <2> QED BY <1>0, <1>b, <2>1, <2>2, <2>4, <2>5, <2>6
<1>4. CASE Rewind
  <2>1. PICK fork \in 0..tip : /\ rows' = [g \in Heights |-> IF fork < g THEN NoBlock ELSE rows[g]]
                               /\ candidates' = {c \in candidates : c.height <= fork}
    BY <1>4, RewindIs DEF GateInv
  <2>2. UNCHANGED <<pending, unseen, replaced, late, clock, chain, tip>>
    BY <1>4 DEF Rewind, nodeVars, pendingVars
  <2>3. ASSUME NEW g \in 0..tip, NEW c \in candidates', g < c.height
        PROVE  Indexed(g)' = Indexed(g)
    <3>1. c.height \in 0..tip /\ c.height <= fork
      BY <2>1 DEF GateInv, CandidateInv
    <3>2. ~(fork < g) /\ g \in Heights
      BY <1>0, <2>1, <2>3, <3>1
    <3> QED BY <2>1, <2>2, <3>2 DEF Indexed
  <2>4. /\ \A t \in Replaced : replaced'[t].age <= replaced[t].age + (clock' - clock)
        /\ \A t \in pending : unseen'[t] <= unseen[t] + (clock' - clock)
    BY <1>0, <2>2
  <2>5. \A c \in candidates' : c.height <= tip
    BY <1>0, <2>1 DEF GateInv, CandidateInv
  <2> QED BY <1>0, <1>b, <2>1, <2>2, <2>3, <2>4, <2>5
<1>5. ASSUME NEW v \in Txs, Observe(v) PROVE FoundInv'
  <2>1. /\ UNCHANGED <<clock, chain, tip, rows, candidates>>
        /\ v \notin pending /\ v \notin Replaced /\ pending' = (pending \ Rivals(v)) \cup {v}
        /\ unseen' = [u \in Txs |-> IF u \in Settles(v) THEN 0 ELSE unseen[u]]
        /\ replaced' = [u \in Txs |-> IF u \in pending \cap Rivals(v)
                                        THEN [by |-> v, age |-> 0] ELSE replaced[u]]
    BY <1>5 DEF Observe, nodeVars, blockVars
  <2>2. ~late' => ~late
    BY <1>0, <1>5 DEF Observe
  <2>3. \A g \in 0..tip : Indexed(g)' = Indexed(g)
    BY <2>1 DEF Indexed
  <2>4. \A u \in Replaced : replaced'[u] = replaced[u]
    BY <1>0, <2>1 DEF GoneInv
  <2>5. ASSUME NEW c \in candidates, c.tx \in Txs, NEW g \in 0..tip, SettledBy(c, g),
               NEW n \in 0..ChainDepth, NEW p \in [0..n -> Txs], Tracked(c, g, n, p), n \in Nat
        PROVE  \E m \in 0..ChainDepth : \E q \in [0..m -> Txs] : Tracked(c, g, m, q)'
    <3>1. n \in 0..n /\ p[n] \in Txs /\ chain[g].slot \in Nat /\ chain[g].slot <= clock
      BY <1>0, <2>5
    <3>2. CASE ~Indexed(g) /\ p[n] \in Rivals(v)
      <4>1. p[n] \in pending
        BY <3>2, <2>5 DEF Tracked
      <4>2. /\ \A i \in 0..n : p[i] \in Settles(c.tx)
            /\ \A i \in 1..n : p[i - 1] \in Replaced
        BY <1>0, <2>5, TrackedSettles
      <4>3. v \in Settles(c.tx)
        <5>1. v \in Settles(p[n]) /\ p[n] \in Settles(c.tx)
          BY <3>1, <3>2, <4>2, RivalsAre DEF Settles
        <5>2. c.tx \in Settles(p[n])
          BY <2>5, <5>1, SettledAlike
        <5> QED BY <3>1, <5>1, <5>2, SettledAlike
      <4>4. \A i \in 0..n : p[i] # v
        <5> TAKE i \in 0..n
        <5>1. i = n \/ i + 1 \in 1..n
          BY <2>5
        <5>2. i + 1 \in 1..n => p[(i + 1) - 1] \in Replaced /\ (i + 1) - 1 = i
          BY <4>2
        <5> QED BY <2>1, <4>1, <5>1, <5>2
      <4>5. \A i, j \in 0..n : p[i] = p[j] => i = j
        BY <2>5 DEF Tracked
      <4>6. /\ n + 1 \in 0..ChainDepth
            /\ \E q \in [0..(n + 1) -> Txs] : Prolongs(q, n, p, v)
        BY <2>5, <4>2, <4>3, <4>4, <4>5, Longer
      <4>7. PICK q \in [0..(n + 1) -> Txs] : /\ \A i \in 0..n : q[i] = p[i]
                                             /\ q[n + 1] = v
                                             /\ \A i, j \in 0..(n + 1) : q[i] = q[j] => i = j
        BY <4>6 DEF Prolongs
      <4>8. q[0] = c.tx
        BY <2>5, <4>7 DEF Tracked
      <4>9. \A i \in 1..(n + 1) : /\ replaced'[q[i - 1]].by = q[i]
                                  /\ replaced'[q[i - 1]].age <= clock - chain[g].slot
        <5> TAKE i \in 1..(n + 1)
        <5>1. CASE i \in 1..n
          <6>1. i - 1 \in 0..n /\ i \in 0..n
            BY <5>1
          <6>2. q[i - 1] = p[i - 1] /\ q[i] = p[i] /\ p[i - 1] \in Replaced
            BY <4>2, <4>7, <5>1, <6>1
          <6>3. replaced[p[i - 1]].by = p[i] /\ replaced[p[i - 1]].age <= clock - chain[g].slot
            BY <2>5, <5>1 DEF Tracked
          <6> QED BY <2>4, <6>2, <6>3
        <5>2. CASE i = n + 1
          <6>1. i - 1 = n
            BY <2>5, <5>2
          <6>2. q[i - 1] = p[n] /\ q[i] = v
            BY <3>1, <4>7, <5>2, <6>1
          <6>3. replaced'[p[n]] = [by |-> v, age |-> 0] /\ 0 <= clock - chain[g].slot
            <7>0. clock \in Nat
              BY <1>0
            <7>1. 0 <= clock - chain[g].slot
              BY <3>1, <7>0
            <7>2. p[n] \in pending \cap Rivals(v)
              BY <3>2, <4>1
            <7> QED BY <2>1, <3>1, <7>1, <7>2
          <6> DEFINE r == replaced'[q[i - 1]]
          <6>4. r = [by |-> q[i], age |-> 0]
            BY <6>2, <6>3
          <6> HIDE DEF r
          <6>5. r.by = q[i] /\ r.age = 0
            BY <6>4
          <6>6. r.age <= clock - chain[g].slot
            BY <6>3, <6>5
          <6> QED BY <6>5, <6>6 DEF r
        <5>3. i \in 1..n \/ i = n + 1
          BY <2>5
        <5> QED BY <5>1, <5>2, <5>3
      <4>10. q[n + 1] \in pending' /\ unseen'[q[n + 1]] <= Window + clock - chain[g].slot
        <5>1. v \in pending' /\ unseen'[v] = 0
          <6>1. v \in Settles(v)
            BY <1>0 DEF Settles
          <6> QED BY <2>1, <6>1
        <5>2. 0 <= Window + clock - chain[g].slot
          <6> DEFINE s == chain[g].slot
          <6>1. s \in Nat /\ s <= clock /\ clock \in Nat /\ Window \in Nat
            BY <1>0, <3>1
          <6> HIDE DEF s
          <6>2. 0 <= Window + clock - s
            BY <6>1
          <6> QED BY <6>2 DEF s
        <5> QED BY <4>7, <5>1, <5>2
      <4>11. Tracked(c, g, n + 1, q)'
        BY <2>1, <2>3, <3>2, <4>7, <4>8, <4>9, <4>10 DEF Tracked
      <4> QED BY <4>6, <4>11
    <3>3. CASE Indexed(g) \/ p[n] \notin Rivals(v)
      <4>1. ~Indexed(g) /\ p[n] \in pending /\ unseen[p[n]] <= Window + clock - chain[g].slot =>
              p[n] \in pending' /\ unseen'[p[n]] <= Window + clock' - chain[g].slot
        <5> SUFFICES ASSUME p[n] \in pending, p[n] \notin Rivals(v)
                     PROVE  p[n] \in pending' /\ unseen'[p[n]] = unseen[p[n]]
          BY <2>1, <3>3
        <5>1. p[n] \notin Settles(v)
          BY <2>1 DEF Settles
        <5> QED BY <2>1, <3>1, <5>1
      <4>2. \A t \in Replaced : /\ replaced'[t].by = replaced[t].by
                                /\ replaced[t].age <= clock - chain[g].slot =>
                                     replaced'[t].age <= clock' - chain[g].slot
        BY <2>1, <2>4
      <4>3. chain'[g] = chain[g] /\ Indexed(g)' = Indexed(g)
        BY <2>1, <2>3
      <4>4. Tracked(c, g, n, p)'
        BY <1>0, <2>5, <4>1, <4>2, <4>3, StillTracked
      <4> QED BY <4>4
    <3> QED BY <3>2, <3>3
  <2> QED BY <1>0, <1>a, <2>1, <2>2, <2>5 DEF SettledBy
<1>6. CASE PruneTick
  <2>1. /\ UNCHANGED <<clock, chain, tip, rows, late>> /\ candidates' \subseteq candidates
        /\ maintenance.due
        /\ \/ UNCHANGED <<pending, unseen>>
           \/ /\ pending' = Unswept
              /\ unseen' = [t \in Txs |-> IF t \in Unswept THEN unseen[t] ELSE 0]
        /\ \/ UNCHANGED replaced
           \/ /\ maintenance.repaired
              /\ replaced' = [t \in Txs |-> IF LogRetention < replaced[t].age THEN NotReplaced ELSE replaced[t]]
    BY <1>6 DEF PruneTick, SweepPending, PruneLog, PruneDetail, nodeVars, pendingVars, blockVars, Keep,
                GateInv, GateTypes, MaintenanceType
  <2>2. \A g \in 0..tip : Indexed(g)' = Indexed(g)
    BY <2>1 DEF Indexed
  <2>3. ASSUME ~late, NEW c \in candidates, c.tx \in Txs, NEW g \in 0..tip, SettledBy(c, g),
               NEW n \in 0..ChainDepth, NEW p \in [0..n -> Txs], Tracked(c, g, n, p), n \in Nat
        PROVE  Tracked(c, g, n, p)'
    <3>1. n \in 0..n /\ p[n] \in Txs /\ chain[g].slot \in Nat
      BY <1>0, <2>3
    <3>2. ~Indexed(g) /\ p[n] \in pending /\ unseen[p[n]] <= Window + clock - chain[g].slot =>
            p[n] \in pending' /\ unseen'[p[n]] <= Window + clock' - chain[g].slot
      <4> SUFFICES ASSUME ~Indexed(g), p[n] \in pending, unseen[p[n]] <= Window + clock - chain[g].slot
                   PROVE  p[n] \in Unswept
        BY <2>1, <3>1
      <4>1. clock - chain[g].slot <= MaxCommitLag
        BY <2>3, UnindexedRecent
      <4>2. unseen[p[n]] \in Nat /\ unseen[p[n]] <= TTL
        <5> DEFINE y == unseen[p[n]]
                   s == chain[g].slot
        <5>1. y \in Nat /\ s \in Nat /\ y <= Window + clock - s /\ clock - s <= MaxCommitLag
          BY <1>0, <3>1, <4>1
        <5> HIDE DEF y, s
        <5>2. y <= TTL
          BY <1>0, <5>1
        <5> QED BY <5>1, <5>2 DEF y
      <4> QED BY <4>2 DEF Unswept
    <3>3. \A t \in Replaced : replaced[t].age <= clock - chain[g].slot => replaced'[t] = replaced[t]
      <4> SUFFICES ASSUME maintenance.repaired, NEW t \in Replaced, replaced[t].age <= clock - chain[g].slot,
                          replaced' = [u \in Txs |-> IF LogRetention < replaced[u].age THEN NotReplaced ELSE replaced[u]]
                   PROVE  replaced'[t] = replaced[t]
        BY <2>1
      <4>1. clock - chain[g].slot <= MaxCommitLag
        BY <2>1, <2>3 DEF TickInv
      <4>2. t \in Txs /\ replaced[t].age \in Nat
        BY <1>0
      <4>3. ~(LogRetention < replaced[t].age)
        <5> DEFINE x == replaced[t].age
                   s == chain[g].slot
        <5>1. x \in Nat /\ s \in Nat /\ x <= clock - s /\ clock - s <= MaxCommitLag
          BY <3>1, <4>1, <4>2
        <5> HIDE DEF x, s
        <5>2. ~(LogRetention < x)
          BY <1>0, <5>1
        <5> QED BY <5>2 DEF x
      <4> QED BY <4>2, <4>3
    <3>4. \A i \in 1..n : p[i - 1] \in Replaced
      BY <1>0, <2>3, TrackedSettles
    <3>5. \A i \in 1..n : replaced'[p[i - 1]].by = p[i] /\ replaced'[p[i - 1]].age <= clock' - chain[g].slot
      BY <2>1, <2>3, <3>3, <3>4 DEF Tracked
    <3>6. IF Indexed(g) THEN p[n] = chain[g].tx
          ELSE p[n] \in pending' /\ unseen'[p[n]] <= Window + clock' - chain[g].slot
      BY <2>3, <3>2 DEF Tracked
    <3> QED BY <2>1, <2>2, <2>3, <3>5, <3>6 DEF Tracked
  <2> QED BY <1>0, <1>a, <2>1, <2>3 DEF SettledBy
<1>7. CASE Commit
  BY <1>0, <1>7, FoundCommit
<1> QED BY <1>1, <1>2, <1>3, <1>4, <1>5, <1>6, <1>7
        DEF Next, NodeNext, PendingNext, BlockNext, MaintenanceNext, PruneTick

LEMMA InitFound == Init => OneInv /\ GoneInv /\ FoundInv /\ TickInv
<1> SUFFICES ASSUME Init PROVE OneInv /\ GoneInv /\ FoundInv /\ TickInv
  OBVIOUS
<1>1. tip = 0 /\ pending = {} /\ candidates = {}
  BY DEF Init
<1>2. OneInv
  BY <1>1 DEF OneInv
<1> QED BY <1>1, <1>2 DEF GoneInv, FoundInv, TickInv

\* While its detail is there, every transaction a block below settled leads, by
\* the log and the pending table, to the row that shows it: nobody bids more for
\* a nonce than the repair follows, a row outlives the time its block may take,
\* and so does the log (RepairIncludedBlobInclusionCandidates, mempool_ttl,
\* candidate_retention).
THEOREM RepairFindsEverything ==
  ASSUME BidsBound, Window + MaxCommitLag <= TTL, MaxCommitLag <= LogRetention
  PROVE  Spec => RepairFindsAll
<1> DEFINE Trail == OneInv /\ GoneInv /\ FoundInv /\ TickInv
<1>1. SnapshotInv /\ GateInv /\ SnapshotInv' /\ GateInv' /\ Trail /\ [Next]_vars => Trail'
  <2> SUFFICES ASSUME SnapshotInv, GateInv, GateInv', Trail, [Next]_vars PROVE Trail'
    OBVIOUS
  <2>1. GateTypes /\ GateTypes' /\ LogInv'
    BY DEF GateInv
  <2>2. OneInv' /\ GoneInv'
    BY <2>1, OneStep, GoneStep
  <2>3. FoundInv'
    BY <2>1, FoundStep
  <2>4. TickInv'
    BY <2>1, TickStep
  <2> QED BY <2>2, <2>3, <2>4
<1>2. SnapshotInv /\ GateInv /\ Trail =>
        (RepairTick /\ maintenance'.repaired /\ CaughtUp /\ ~late => \A c \in candidates' : ~Settled(c))
  <2> SUFFICES ASSUME SnapshotInv, GateInv, FoundInv, RepairTick, maintenance'.repaired, CaughtUp, ~late,
                      NEW c \in candidates', Settled(c)
               PROVE  FALSE
    OBVIOUS
  <2>1. candidates' = candidates \ Impossible
    BY DEF RepairTick, RepairIncluded, IdleLoop
  <2>2. PICK g \in 0..(c.height - 1) : c.tx \in Settles(chain[g].tx)
    BY DEF Settled
  <2>3. c \in candidates /\ c.height \in 0..tip /\ tip \in Nat
    BY <2>1, HeightsAre DEF GateInv, CandidateInv, SnapshotInv
  <2>4. g \in 0..tip /\ SettledBy(c, g)
    BY <2>2, <2>3 DEF SettledBy
  <2>5. Indexed(g)
    BY <2>4 DEF CaughtUp
  <2>6. PICK n \in 0..ChainDepth : \E p \in [0..n -> Txs] : Tracked(c, g, n, p)
    BY <2>3, <2>4 DEF FoundInv
  <2>7. PICK p \in [0..n -> Txs] : Tracked(c, g, n, p)
    BY <2>6
  <2>8. c \in Impossible
    BY <2>3, <2>4, <2>5, <2>7, TrackedIsImpossible
  <2> QED BY <2>1, <2>8
<1>3. Init => Trail
  BY InitFound
<1> HIDE DEF Trail
<1> QED BY <1>1, <1>2, <1>3, GateInvariance, PTL DEF Spec, RepairFindsAll
=============================================================================
