---------------------------- MODULE ChartRollups ----------------------------
(* The aggregate tables behind the charts and leaderboards of one network:   *)
(* blob_chart_rollups and block_metrics_rollups hold, per bucket size, what  *)
(* the raw tables blobs and block_metrics say; blob_user_stats and           *)
(* network_blob_stats hold the totals of all history.  Statement triggers    *)
(* keep them in the transaction that writes a block; a maintenance loop of   *)
(* the indexer fills the fine buckets of rows older than the fine tier,      *)
(* repairs coarse buckets that predate the fee aggregates, and prunes.       *)
(*                                                                           *)
(* Time is counted in fine buckets (minutes).  A row of blobs is its sender, *)
(* every blob has the same size and cost, and a block of one height always   *)
(* carries the same timestamp; priced says that its execution base fee is    *)
(* recorded.  Attribution is a function of the sender, and does not change;  *)
(* a sender of no entity is unattributed.                                    *)
(* One indexer writes.                                                       *)
EXTENDS Integers, Sequences, FiniteSets, FiniteSetsExt

CONSTANTS
  Heights,      \* heights whose blocks may be stored
  TimeOf,       \* TimeOf[h]: the minute of the block at h
  Senders,      \* senders of blobs
  Contents,     \* sequences of senders a block may hold
  OldContents,  \* those of them the blocks before Deployed hold
  FeesFrom,     \* the height from which the execution base fee is recorded
  EntityOf,     \* EntityOf[s]: the entity of a sender, Unknown without one
  Hour, SixHours, Day,  \* the coarse bucket sizes, in minutes
  Retention,    \* minutes of fine buckets kept
  Chunk,        \* minutes one backfill statement covers
  Deployed,     \* the minute the fine tier and the fee aggregates came in
  Clock,        \* the minutes the model visits
  MaxChanges,   \* bound on siblings and rewinds
  MaxRestarts   \* bound on restarts of the indexer

ASSUME RollupSizes ==
  /\ IsFiniteSet(Heights) /\ IsFiniteSet(Senders)
  /\ Contents \subseteq Seq(Senders) /\ OldContents \subseteq Contents
  /\ Hour \in Nat \ {0} /\ SixHours \in Nat \ {0} /\ Day \in Nat \ {0}
  /\ Hour < SixHours /\ SixHours < Day /\ SixHours % Hour = 0 /\ Day % SixHours = 0 /\ Day % Hour = 0
  /\ Chunk \in Nat \ {0} /\ Retention \in Nat /\ Retention >= Day
  /\ IsFiniteSet(Clock) /\ Clock \subseteq Nat /\ Deployed \in Clock /\ \A t \in Clock : t >= Deployed
  /\ \A h \in Heights : TimeOf[h] \in Nat
  /\ \A s \in Senders : EntityOf[s] \in Nat

VARIABLES
  stored,         \* raw rows: stored[h] is Missing or the blobs of the block
  blobRollups,    \* blob_count per <<size, bucket, sender>>, 0 without a row
  metricRollups,  \* [blocks, blobs, priced] per <<size, bucket>>
  userStats,      \* blob_count per sender
  networkStats,   \* confirmed blobs
  now,            \* the clock of indexer and database
  phase,          \* what the maintenance loop does
  chunkEnd,       \* where the backfill stands
  walkStart,      \* where the backfill ends
  todo,           \* coarse buckets the repair still refreshes
  refreshing,     \* the refresh between its SELECT and its INSERT
  cutoff,         \* the cutoff of a prune between its two DELETEs
  reached,        \* history: fine buckets from here on have been filled
  late,           \* history: a row came below reached
  doubled,        \* history: blob rows counted twice
  padded,         \* history: senders whose total counts a row twice
  overtaken,      \* history: metric rows written from an old SELECT
  healed,         \* history: a repair has refreshed all it listed
  changes, restarts

rawVars == <<stored, blobRollups, metricRollups, userStats, networkStats>>
loopVars == <<phase, chunkEnd, walkStart, todo, refreshing, cutoff>>
ghostVars == <<reached, late, doubled, padded, overtaken, healed>>
rollupVars == <<rawVars, now, loopVars, ghostVars, changes, restarts>>

Fine == 1
Coarse == {Hour, SixHours, Day}
Sizes == {Fine} \cup Coarse
Unknown == 0
Missing == [blobs |-> <<>>, priced |-> FALSE, present |-> FALSE]
NoRefresh == [key |-> <<0, 0>>, agg |-> [blocks |-> 0, blobs |-> 0, priced |-> 0]]
NoCutoff == -1

Bucket(size, t) == (t \div size) * size
BucketKeys == {<<z, Bucket(z, TimeOf[h])>> : z \in Sizes, h \in Heights}
BlobKeys == {<<k[1], k[2], s>> : k \in BucketKeys, s \in Senders}

\* The bucket sizes the triggers maintain for a row of minute t.
SizesFor(t) == {z \in Sizes : z = Fine => t >= now - Retention}

Count(blobs, s) == Cardinality({i \in DOMAIN blobs : blobs[i] = s})

\* What the raw tables rows say of [from, to).
BlocksIn(rows, from, to) ==
  {h \in Heights : rows[h].present /\ TimeOf[h] >= from /\ TimeOf[h] < to}
BlobsOf(rows, from, to, s) ==
  MapThenSumSet(LAMBDA h : Count(rows[h].blobs, s), BlocksIn(rows, from, to))
MetricsOf(rows, from, to) ==
  LET in == BlocksIn(rows, from, to)
  IN [blocks |-> Cardinality(in),
      blobs  |-> MapThenSumSet(LAMBDA h : Len(rows[h].blobs), in),
      priced |-> Cardinality({h \in in : rows[h].priced})]

\* The recomputation of one bucket: blob_chart_rollups_refresh for a sender,
\* block_metrics_rollups_refresh for the blocks.
BlobRefresh(rows, k) == BlobsOf(rows, k[2], k[2] + k[1], k[3])
MetricsRefresh(rows, k) == MetricsOf(rows, k[2], k[2] + k[1])

-----------------------------------------------------------------------------
(* A block written over what its height held: surplus rows are deleted, one  *)
(* INSERT .. ON CONFLICT DO UPDATE writes the others, then the metrics.  The *)
(* triggers of one statement run UPDATE before INSERT.                       *)

\* Of the rows the height held, those the block no longer has.
Trimmed(old, new) == {i \in DOMAIN old : i > Len(new)}
\* The rows the upsert adds, and those it overwrites.
Inserted(old, new) == {i \in DOMAIN new : i > Len(old)}
Overwritten(old, new) == DOMAIN old \cap DOMAIN new

\* The update triggers return early when no column they read has changed.
Rewrites(old, new, altered) ==
  IF altered \/ \E i \in Overwritten(old, new) : old[i] # new[i]
  THEN Overwritten(old, new) ELSE {}

\* The senders whose bucket a delete or an update recomputes.
RefreshedSenders(old, new, altered) ==
  {old[i] : i \in Trimmed(old, new)}
    \cup {old[i] : i \in Rewrites(old, new, altered)}
    \cup {new[i] : i \in Rewrites(old, new, altered)}

\* The insert trigger adds the new rows to what the bucket row says.
InsertDelta(old, new, s) == Cardinality({i \in Inserted(old, new) : new[i] = s})

RollupAfterWrite(rows, k, old, new, altered) ==
  (IF k[3] \in RefreshedSenders(old, new, altered) THEN BlobRefresh(rows, k) ELSE blobRollups[k])
    + InsertDelta(old, new, k[3])

\* blob_user_stats, statement by statement: signed deltas that do not go below
\* zero ..
AtLeastZero(n) == IF n > 0 THEN n ELSE 0
TrimDelta(old, new, s) == - Cardinality({i \in Trimmed(old, new) : old[i] = s})
\* Mutant: a row that changes its sender stays with the old one, too.
UpdateDeltaKeepsOld(old, new, altered, s) ==
  Cardinality({i \in Rewrites(old, new, altered) : new[i] = s /\ old[i] # s})

UpdateDelta(old, new, altered, s) ==
  Cardinality({i \in Rewrites(old, new, altered) : new[i] = s})
    - Cardinality({i \in Rewrites(old, new, altered) : old[i] = s})

\* .. but an attributed sender who is not among the overwriting rows is counted
\* afresh (blob_user_stats_refresh), in rows that hold the inserted ones too ..
Cleared(old, new, altered, s) ==
  /\ EntityOf[s] # Unknown
  /\ \E i \in Rewrites(old, new, altered) : old[i] = s
  /\ \A i \in Rewrites(old, new, altered) : new[i] # s
TotalRefresh(rows, s) == MapThenSumSet(LAMBDA h : Count(rows[h].blobs, s), Heights)
UpdatedTotal(rows, old, new, altered, s) ==
  IF Cleared(old, new, altered, s) THEN TotalRefresh(rows, s)
  ELSE AtLeastZero(AtLeastZero(userStats[s] + TrimDelta(old, new, s)) + UpdateDelta(old, new, altered, s))

\* .. and the insert trigger adds those once more.
TotalAfterWrite(rows, old, new, altered, s) ==
  UpdatedTotal(rows, old, new, altered, s) + InsertDelta(old, new, s)

\* The keys of one size family that a row of minute t belongs to.
Holds(k, t) == k[1] \in SizesFor(t) /\ k[2] = Bucket(k[1], t)

\* insertBlockData, the part that the aggregates see.
IndexBlock(h, new, altered) ==
  LET old  == stored[h].blobs
      rows == [stored EXCEPT ![h] = [blobs |-> new, priced |-> TRUE, present |-> TRUE]]
      t    == TimeOf[h]
  IN /\ t <= now
     /\ altered => new # <<>> /\ old # <<>>
     /\ stored[h].present /\ (new # old \/ altered) => changes < MaxChanges
     /\ changes' = IF stored[h].present /\ (new # old \/ altered) THEN changes + 1 ELSE changes
     /\ stored' = rows
     /\ blobRollups' = [k \in BlobKeys |-> IF Holds(k, t) THEN RollupAfterWrite(rows, k, old, new, altered)
                                           ELSE blobRollups[k]]
     /\ metricRollups' = [k \in BucketKeys |-> IF Holds(k, t) THEN MetricsRefresh(rows, k) ELSE metricRollups[k]]
     /\ userStats' = [s \in Senders |-> TotalAfterWrite(rows, old, new, altered, s)]
     /\ networkStats' = networkStats - Cardinality(Trimmed(old, new)) + Cardinality(Inserted(old, new))
     /\ late' = (late \/ t < reached)
     /\ doubled' = {k \in BlobKeys : IF Holds(k, t) /\ k[3] \in RefreshedSenders(old, new, altered)
                                     THEN InsertDelta(old, new, k[3]) > 0 ELSE k \in doubled}
     /\ padded' = {s \in Senders : IF Cleared(old, new, altered, s) THEN InsertDelta(old, new, s) > 0
                                    ELSE s \in padded}
     /\ overtaken' = {k \in overtaken : ~Holds(k, t)}
     /\ UNCHANGED <<now, loopVars, reached, healed, restarts>>

\* handleReorg and deleteReindexRange, the part that the aggregates see: the
\* blocks of the heights gone are deleted, and every bucket they were in is
\* recomputed for their senders.
HeightRange(first, last) == {h \in Heights : h >= first /\ h <= last}
DeleteBlocks(gone) ==
  LET rows == [h \in Heights |-> IF h \in gone THEN Missing ELSE stored[h]]
      hit  == {h \in gone : stored[h].present}
      SendersOf(h) == {stored[h].blobs[i] : i \in DOMAIN stored[h].blobs}
  IN /\ hit # {}
     /\ changes < MaxChanges
     /\ changes' = changes + 1
     /\ stored' = rows
     /\ blobRollups' = [k \in BlobKeys |-> IF \E h \in hit : Holds(k, TimeOf[h]) /\ k[3] \in SendersOf(h)
                                           THEN BlobRefresh(rows, k) ELSE blobRollups[k]]
     /\ metricRollups' = [k \in BucketKeys |-> IF \E h \in hit : Holds(k, TimeOf[h])
                                               THEN MetricsRefresh(rows, k) ELSE metricRollups[k]]
     /\ userStats' = [s \in Senders |->
          AtLeastZero(userStats[s] - MapThenSumSet(LAMBDA h : Count(stored[h].blobs, s), hit))]
     /\ networkStats' = networkStats - MapThenSumSet(LAMBDA h : Len(stored[h].blobs), hit)
     /\ late' = (late \/ \E h \in hit : TimeOf[h] < reached)
     /\ doubled' = {k \in doubled : ~\E h \in hit : Holds(k, TimeOf[h]) /\ k[3] \in SendersOf(h)}
     /\ overtaken' = {k \in overtaken : ~\E h \in hit : Holds(k, TimeOf[h])}
     /\ UNCHANGED <<now, loopVars, reached, padded, healed, restarts>>

-----------------------------------------------------------------------------
(* The maintenance loop.                                                     *)

\* One chunk of backfillFineRollups, newest first, under the write lock: the
\* buckets that have raw rows are replaced.
BackfillChunk ==
  LET from == Max({chunkEnd - Chunk, walkStart})
      In(k) == k[1] = Fine /\ k[2] >= from /\ k[2] < chunkEnd
  IN /\ phase = "backfill" /\ chunkEnd > walkStart
     /\ blobRollups' = [k \in BlobKeys |-> IF In(k) /\ BlobRefresh(stored, k) > 0
                                           THEN BlobRefresh(stored, k) ELSE blobRollups[k]]
     /\ metricRollups' = [k \in BucketKeys |-> IF In(k) /\ MetricsRefresh(stored, k).blocks > 0
                                               THEN MetricsRefresh(stored, k) ELSE metricRollups[k]]
     /\ chunkEnd' = from
     /\ reached' = Min({reached, from})
     /\ doubled' = {k \in doubled : ~In(k)}
     /\ UNCHANGED <<stored, userStats, networkStats, now, phase, walkStart, todo, refreshing, cutoff,
                    late, padded, overtaken, healed, changes, restarts>>

\* Mutant: the days are forgotten.
StaleBucketsHourly ==
  {k \in BucketKeys : /\ k[1] = Hour
                      /\ metricRollups[k].blocks > 0 /\ metricRollups[k].priced = 0
                      /\ MetricsRefresh(stored, k).priced > 0}

\* The coarse buckets staleCoarseRollupBaseFeeBuckets lists.
StaleBuckets ==
  {k \in BucketKeys : /\ k[1] # Fine
                      /\ metricRollups[k].blocks > 0 /\ metricRollups[k].priced = 0
                      /\ MetricsRefresh(stored, k).priced > 0}

\* The backfill ends, or a chunk fails and the rest waits for a restart; either
\* way HealCoarseRollupBaseFees lists what it will refresh.
BackfillEnds ==
  /\ phase = "backfill"
  /\ phase' = "heal"
  /\ todo' = StaleBuckets
  /\ UNCHANGED <<rawVars, now, chunkEnd, walkStart, refreshing, cutoff, ghostVars, changes, restarts>>

\* block_metrics_rollups_refresh of the next listed bucket, small sizes first:
\* what it selects ..
ListedBefore(j, k) == j[1] < k[1] \/ (j[1] = k[1] /\ j[2] < k[2])
HealSelect(k) ==
  /\ phase = "heal" /\ refreshing = NoRefresh
  /\ k \in todo /\ ~\E j \in todo : ListedBefore(j, k)
  /\ refreshing' = [key |-> k, agg |-> MetricsRefresh(stored, k)]
  /\ UNCHANGED <<rawVars, now, phase, chunkEnd, walkStart, todo, cutoff, ghostVars, changes, restarts>>

\* .. and what it then writes, without the write lock.
HealWrite ==
  LET k == refreshing.key
  IN /\ refreshing # NoRefresh
     /\ metricRollups' = [metricRollups EXCEPT ![k] = refreshing.agg]
     /\ overtaken' = IF refreshing.agg = MetricsRefresh(stored, k) THEN overtaken \ {k} ELSE overtaken \cup {k}
     /\ todo' = todo \ {k}
     /\ refreshing' = NoRefresh
     /\ UNCHANGED <<stored, blobRollups, userStats, networkStats, now, phase, chunkEnd, walkStart, cutoff,
                    reached, late, doubled, padded, healed, changes, restarts>>

\* Nothing is left to refresh, or a refresh fails and the rest waits.
HealEnds ==
  /\ phase = "heal" /\ refreshing = NoRefresh
  /\ phase' = "prune"
  /\ todo' = {}
  /\ healed' = (healed \/ todo = {})
  /\ UNCHANGED <<rawVars, now, chunkEnd, walkStart, refreshing, cutoff, reached, late, doubled, padded, overtaken,
                 changes, restarts>>

\* PruneFineChartRollups: two DELETEs of one cutoff, each on its own.
PruneBlobRollups ==
  /\ phase = "prune" /\ cutoff = NoCutoff
  /\ now >= Retention
  /\ cutoff' = now - Retention
  /\ blobRollups' = [k \in BlobKeys |-> IF k[1] = Fine /\ k[2] < cutoff' THEN 0 ELSE blobRollups[k]]
  /\ doubled' = {k \in doubled : blobRollups'[k] > 0}
  /\ UNCHANGED <<stored, metricRollups, userStats, networkStats, now, phase, chunkEnd, walkStart, todo,
                 refreshing, reached, late, padded, overtaken, healed, changes, restarts>>

PruneMetricRollups ==
  /\ cutoff # NoCutoff
  /\ metricRollups' = [k \in BucketKeys |-> IF k[1] = Fine /\ k[2] < cutoff THEN NoRefresh.agg
                                            ELSE metricRollups[k]]
  /\ cutoff' = NoCutoff
  /\ UNCHANGED <<stored, blobRollups, userStats, networkStats, now, phase, chunkEnd, walkStart, todo,
                 refreshing, ghostVars, changes, restarts>>

\* runFineRollupMaintenance starts over with the process.
Restart ==
  /\ restarts < MaxRestarts
  /\ restarts' = restarts + 1
  /\ phase' = "backfill"
  /\ chunkEnd' = now + Fine
  /\ walkStart' = now + Fine - Retention
  /\ todo' = {}
  /\ refreshing' = NoRefresh
  /\ cutoff' = NoCutoff
  /\ UNCHANGED <<rawVars, now, ghostVars, changes>>

Tick ==
  /\ \E t \in Clock : t > now /\ (\A u \in Clock : u <= now \/ u >= t) /\ now' = t
  /\ UNCHANGED <<rawVars, loopVars, ghostVars, changes, restarts>>

\* The coarse buckets of the rows indexed before the fine tier came in are
\* right and know no fee; there is no fine bucket.
RollupInit ==
  /\ now = Deployed
  /\ stored \in [Heights -> {Missing} \cup [blobs : OldContents, priced : BOOLEAN, present : {TRUE}]]
  /\ \A h \in Heights : stored[h].present => (stored[h].priced <=> h >= FeesFrom)
  /\ \A h \in Heights : TimeOf[h] >= Deployed => stored[h] = Missing
  /\ blobRollups = [k \in BlobKeys |-> IF k[1] = Fine THEN 0 ELSE BlobRefresh(stored, k)]
  /\ metricRollups = [k \in BucketKeys |-> IF k[1] = Fine THEN NoRefresh.agg
                                           ELSE [MetricsRefresh(stored, k) EXCEPT !.priced = 0]]
  /\ userStats = [s \in Senders |-> TotalRefresh(stored, s)]
  /\ networkStats = MapThenSumSet(LAMBDA h : Len(stored[h].blobs), Heights)
  /\ phase = "backfill" /\ chunkEnd = now + Fine /\ walkStart = now + Fine - Retention
  /\ todo = {} /\ refreshing = NoRefresh /\ cutoff = NoCutoff
  /\ reached = Deployed /\ late = FALSE /\ doubled = {} /\ padded = {} /\ overtaken = {} /\ healed = FALSE
  /\ changes = 0 /\ restarts = 0

RollupNext ==
  \/ \E h \in Heights, new \in Contents, altered \in BOOLEAN : IndexBlock(h, new, altered)
  \/ \E first, last \in Heights : DeleteBlocks(HeightRange(first, last))
  \/ BackfillChunk \/ BackfillEnds
  \/ \E k \in BucketKeys : HealSelect(k)
  \/ HealWrite \/ HealEnds
  \/ PruneBlobRollups \/ PruneMetricRollups
  \/ Restart \/ Tick
=============================================================================
