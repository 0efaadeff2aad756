----------------------------- MODULE ChartReads -----------------------------
(* The reads of the aggregate tables: bucketed charts, rolling windows and   *)
(* leaderboards.  A read first chooses where it reads (fine buckets, coarse  *)
(* buckets or raw rows) and then runs its query as a statement of its own.   *)
(* The queries are given twice, on raw rows and on rollups, as in the code;  *)
(* the question is whether the two ever tell the caller different numbers.   *)
(*                                                                           *)
(* Costs are counted in blobs.  Medians and percentiles are estimates on     *)
(* rollups and are left out.  A request is over within the minute it began.  *)
(* Of the rolling windows, which take any whole number of minutes up to 30   *)
(* days, those of the chart ranges are asked for.                            *)
EXTENDS ChartRollups

CONSTANTS
  Five,           \* the display bucket of 24h charts
  Week, Month,    \* the spans of 7d and 30d
  PointLimit,     \* points of one chart
  SeriesLimit     \* entities shown by name

ASSUME ReadSizes ==
  /\ Five \in Nat \ {0} /\ Five < Hour /\ Hour % Five = 0
  /\ Week \in Nat \ {0} /\ Week % Day = 0 /\ Day < Week
  /\ Month \in Nat \ {0} /\ Month % Day = 0 /\ Week < Month
  /\ PointLimit \in Nat /\ PointLimit < Week
  /\ SeriesLimit \in Nat \ {0}

VARIABLE probed     \* a read of fine rows between its probe and its query

readVars == <<rollupVars, probed>>

Other == -1
All == 0           \* the span of range=all
Spans == {Hour, Day, Week, Month, All}
Block == 0         \* the bucket of granularity=block
Raw == 0           \* the source of a read of raw rows
NoRequest == [kind |-> "none", bucket |-> 0, from |-> 0, to |-> 0, source |-> 0]
Forever == Max(Clock) + Day

\* MIN(bucket_start) of the fine metric rows.
FineStarts == {k[2] : k \in {j \in BucketKeys : j[1] = Fine /\ metricRollups[j].blocks > 0}}

\* Mutant: any fine row will do.
CoverageReachesAny(t) == FineStarts # {}

CoverageReaches(t) == FineStarts # {} /\ Min(FineStarts) <= t

-----------------------------------------------------------------------------
(* What a request asks for.                                                  *)

\* autoChartGranularity: the display bucket of a range.
AutoGranularity(span) ==
  CASE span = Hour -> Fine [] span = Day -> Five [] span = Week -> Hour [] span = Month -> SixHours
    [] span = All -> Day

\* resolveChartGranularity: the granularities a caller may name; five minutes
\* and six hours come with auto alone.
NamedGranularities == {Block, Fine, Hour, Day}
Granularities == NamedGranularities \cup {AutoGranularity(span) : span \in Spans}
Resolves(span, bucket) == bucket = AutoGranularity(span) \/ bucket \in NamedGranularities

\* estimatedTimePoints and estimatedBlockPoints: blocks come at most one to the
\* smallest unit.
Points(span, bucket) == IF bucket = Block THEN span ELSE (span + bucket - 1) \div bucket

\* What parseChartRequest accepts.
Accepted(span, bucket) ==
  IF span = All THEN bucket = Day
  ELSE /\ Resolves(span, bucket)
       /\ bucket <= span
       /\ Points(span, bucket) <= PointLimit

\* alignChartEnd: past the bucket in progress.
AlignedEnd(bucket) == IF bucket = Block THEN now + 1 ELSE Bucket(bucket, now) + bucket

ChartFrom(span, bucket) == IF span = All THEN 0 ELSE AlignedEnd(bucket) - span

\* chartRollupSourceBucket.
ChartSource(span, bucket) ==
  IF bucket = Block THEN Raw
  ELSE IF bucket >= Hour THEN bucket
  ELSE IF CoverageReaches(ChartFrom(span, bucket)) THEN Fine ELSE Raw

\* splitRollingStatsWindows: wide windows read hourly rows to the last full
\* hour, others fine rows to the last full minute where these reach back.
WindowEnd(span) == IF span > Day THEN Bucket(Hour, now) ELSE now
WindowSource(span) ==
  IF span > Day THEN Hour
  ELSE IF CoverageReaches(now - span) THEN Fine ELSE Raw

\* The leaderboards of a window: the bound is aligned down, the bucket in
\* progress counts, and fine rows are read whatever they cover.
LeaderSource(span) == IF span = Hour THEN Fine ELSE Hour
LeaderFrom(span) == Bucket(LeaderSource(span), now - span)

\* The requests a caller may make now, each with where it will read.
ChartRequests ==
  {[kind |-> "chart", bucket |-> c[2], from |-> ChartFrom(c[1], c[2]), to |-> AlignedEnd(c[2]),
    source |-> ChartSource(c[1], c[2])] :
     c \in {c \in Spans \X Granularities : Accepted(c[1], c[2])}}
WindowRequests ==
  {[kind |-> "window", bucket |-> span, from |-> WindowEnd(span) - span, to |-> WindowEnd(span),
    source |-> WindowSource(span)] : span \in Spans \ {All}}
LeaderRequests ==
  {[kind |-> "leaders", bucket |-> span, from |-> LeaderFrom(span), to |-> Forever,
    source |-> LeaderSource(span)] : span \in {Hour, Day}}

\* Only a read of fine rows depends on a statement before it, the probe; the
\* others are one statement each.
Probe ==
  /\ probed = NoRequest
  /\ \E r \in ChartRequests \cup WindowRequests : r.source = Fine /\ probed' = r
  /\ UNCHANGED rollupVars

Answered ==
  /\ probed # NoRequest
  /\ probed' = NoRequest
  /\ UNCHANGED rollupVars

ReadsInit == RollupInit /\ probed = NoRequest

ReadsNext ==
  \/ RollupNext /\ (now' # now => probed = NoRequest) /\ UNCHANGED probed
  \/ Probe
  \/ Answered

Spec == ReadsInit /\ [][ReadsNext]_readVars

-----------------------------------------------------------------------------
(* The queries.  A chart is a function from the start of its display bucket. *)

DisplayBuckets(r) == {t \in r.from..(r.to - 1) : t % r.bucket = 0}

\* The stored buckets of one size that start in [from, to).
MetricKeys(size, from, to) == {k \in BucketKeys : k[1] = size /\ k[2] >= from /\ k[2] < to}
SumMetrics(keys) ==
  [blocks |-> MapThenSumSet(LAMBDA k : metricRollups[k].blocks, keys),
   blobs  |-> MapThenSumSet(LAMBDA k : metricRollups[k].blobs, keys),
   priced |-> MapThenSumSet(LAMBDA k : metricRollups[k].priced, keys)]
SenderCount(size, from, to, s) ==
  MapThenSumSet(LAMBDA k : blobRollups[<<k[1], k[2], s>>], MetricKeys(size, from, to))

\* What one bucket of the blob market chart shows.
MarketPoint(metrics, counts) ==
  [blocks |-> metrics.blocks, blobs |-> metrics.blobs,
   cost |-> MapThenSumSet(LAMBDA s : counts[s], Senders),
   senders |-> Cardinality({s \in Senders : counts[s] > 0})]
RawCounts(from, to) == [s \in Senders |-> BlobsOf(stored, from, to, s)]
RolledCounts(size, from, to) == [s \in Senders |-> SenderCount(size, from, to, s)]

MarketRaw(r) ==
  [t \in DisplayBuckets(r) |-> MarketPoint(MetricsOf(stored, t, t + r.bucket), RawCounts(t, t + r.bucket))]
MarketRollup(r) ==
  [t \in DisplayBuckets(r) |->
     MarketPoint(SumMetrics(MetricKeys(r.source, t, t + r.bucket)), RolledCounts(r.source, t, t + r.bucket))]
\* The summary of a wide chart comes from hourly rows whatever it displays.
SummarySource(r) == Min({r.source, Hour})
MarketSummary(r) ==
  MarketPoint(SumMetrics(MetricKeys(SummarySource(r), r.from, r.to)), RolledCounts(SummarySource(r), r.from, r.to))
\* One point per block, each with the blobs stored at its height.
MarketBlocks(r) ==
  [h \in BlocksIn(stored, r.from, r.to) |->
     MarketPoint([blocks |-> 1, blobs |-> Len(stored[h].blobs), priced |-> 0],
                 [s \in Senders |-> Count(stored[h].blobs, s)])]

\* Entities by blobs, then by name; the first ones keep their name, the others
\* are summed up, and blobs without an entity are a series of their own.
EntityTotal(counts, e) == MapThenSumSet(LAMBDA s : counts[s], {s \in Senders : EntityOf[s] = e})
TopEntities(counts) ==
  LET named == {EntityOf[s] : s \in {x \in Senders : counts[x] > 0}} \ {Unknown}
      Above(f, e) == \/ EntityTotal(counts, f) > EntityTotal(counts, e)
                     \/ EntityTotal(counts, f) = EntityTotal(counts, e) /\ f < e
  IN {e \in named : Cardinality({f \in named : Above(f, e)}) < SeriesLimit}
SeriesOf(s, top) ==
  IF EntityOf[s] = Unknown \/ EntityOf[s] \in top THEN EntityOf[s] ELSE Other

\* The values of a point; a series without a row there is shown as zero.
UsagePoint(counts, top) ==
  [key \in {Unknown, Other} \cup top |-> MapThenSumSet(LAMBDA s : counts[s], {s \in Senders : SeriesOf(s, top) = key})]
UsageRaw(r) ==
  LET top == TopEntities(RawCounts(r.from, r.to))
  IN [t \in DisplayBuckets(r) |-> UsagePoint(RawCounts(t, t + r.bucket), top)]
UsageRollup(r) ==
  LET top == TopEntities(RolledCounts(r.source, r.from, r.to))
  IN [t \in DisplayBuckets(r) |-> UsagePoint(RolledCounts(r.source, t, t + r.bucket), top)]
UsageBlocks(r) ==
  LET top == TopEntities(RawCounts(r.from, r.to))
  IN [h \in BlocksIn(stored, r.from, r.to) |-> UsagePoint([s \in Senders |-> Count(stored[h].blobs, s)], top)]
\* The totals of the series, from which the shares are computed.
UsageTotals(points) ==
  MapThenSumSet(LAMBDA p : MapThenSumSet(LAMBDA key : points[p][key], DOMAIN points[p]), DOMAIN points)

\* Blobs are compared with calldata at the average of the recorded execution
\* fees of their bucket; a bucket without one uses the blob fee instead.
CostPoint(blobs, priced) ==
  [blobs |-> blobs, pricedBy |-> IF priced > 0 THEN "execution" ELSE "proxy", over |-> priced]
CostRaw(r) ==
  [t \in DisplayBuckets(r) |->
     CostPoint(MapThenSumSet(LAMBDA s : RawCounts(t, t + r.bucket)[s], Senders),
               MetricsOf(stored, t, t + r.bucket).priced)]
CostRollup(r) ==
  [t \in DisplayBuckets(r) |->
     CostPoint(MapThenSumSet(LAMBDA s : RolledCounts(r.source, t, t + r.bucket)[s], Senders),
               SumMetrics(MetricKeys(r.source, t, t + r.bucket)).priced)]
CostBlocks(r) ==
  [h \in BlocksIn(stored, r.from, r.to) |-> CostPoint(Len(stored[h].blobs), IF stored[h].priced THEN 1 ELSE 0)]

\* The rolling windows, in one point each.
WindowRaw(r) == MarketPoint(MetricsOf(stored, r.from, r.to), RawCounts(r.from, r.to))
WindowFine(r) == MarketPoint(SumMetrics(MetricKeys(Fine, r.from, r.to)), RolledCounts(Fine, r.from, r.to))
WindowHourly(r) == MarketPoint(SumMetrics(MetricKeys(Hour, r.from, r.to)), RolledCounts(Hour, r.from, r.to))

\* The leaderboards: blobs per sender, per entity with the senders of none
\* apart, and what their shares are taken of.
LeadersOf(counts) ==
  [users  |-> counts,
   unattributed |-> [s \in {x \in Senders : EntityOf[x] = Unknown} |-> counts[s]],
   groups |-> [e \in {EntityOf[s] : s \in Senders} |-> EntityTotal(counts, e)],
   total  |-> MapThenSumSet(LAMBDA s : counts[s], Senders)]
LeadersWindowed(r) == LeadersOf(RolledCounts(r.source, r.from, r.to))
LeadersRaw(r) == LeadersOf(RawCounts(r.from, r.to))
\* range=all: the maintained totals, as shares of the network's.
LeadersAll == [LeadersOf(userStats) EXCEPT !.total = networkStats]

-----------------------------------------------------------------------------
(* Properties.                                                               *)

ShowsMarket(r) == MarketRollup(r) = MarketRaw(r) /\ MarketSummary(r) = WindowRaw(r)
ShowsUsage(r) == UsageRollup(r) = UsageRaw(r) /\ UsageTotals(UsageRollup(r)) = MarketSummary(r).blobs
ShowsCost(r) == CostRollup(r) = CostRaw(r)

\* A block chart adds up to what the time charts show of the same range.
ShowsBlocks(r) ==
  /\ MapThenSumSet(LAMBDA h : MarketBlocks(r)[h].cost, DOMAIN MarketBlocks(r)) = WindowRaw(r).cost
  /\ UsageTotals(UsageBlocks(r)) = WindowRaw(r).blobs
  /\ MapThenSumSet(LAMBDA h : CostBlocks(r)[h].over, DOMAIN CostBlocks(r)) = MetricsOf(stored, r.from, r.to).priced

\* What a read of rollups would say is what the raw rows say.
Faithful(r) ==
  CASE r.kind = "chart" /\ r.source = Raw -> (r.bucket = Block => ShowsBlocks(r))
    [] r.kind = "chart" /\ r.source # Raw ->
         ShowsMarket(r) /\ ShowsUsage(r) /\ (healed \/ r.source = Fine => ShowsCost(r))
    [] r.kind = "window" -> r.source # Raw =>
         (IF r.source = Fine THEN WindowFine(r) ELSE WindowHourly(r)) = WindowRaw(r)
    [] r.kind = "leaders" -> LeadersWindowed(r) = LeadersRaw(r)
    [] r.kind = "none" -> TRUE

\* The rows a read visits that an upsert of old and new rows counted twice, or
\* that a repair wrote from an old SELECT.
Visits(r, k) == k[1] \in {r.source, Min({r.source, Hour})} /\ k[2] >= r.from /\ k[2] < r.to
Damaged(r) == (\E k \in doubled : Visits(r, k)) \/ (\E k \in overtaken : Visits(r, k))

\* A chart or window that fine rows serve is what the raw rows would give,
\* while the fine tier fills up, is pruned, or the process restarts, as long as
\* no row arrived below the buckets already filled.  (queries.go:945)
ShortReadsExact ==
  ~Damaged(probed) /\ (~late \/ reached <= probed.from) => Faithful(probed)

\* The reads that ask nothing: charts of hours and days, wide windows, and the
\* leaderboards.  The one-hour leaderboard reads fine rows, too, without asking
\* what they cover (queries.go:240).
WideRequests == {r \in ChartRequests \cup WindowRequests \cup LeaderRequests : r.source # Fine}
UnaskedRequests == WideRequests \cup {r \in LeaderRequests : r.source = Fine /\ r.from >= Deployed}

\* What they show is what the raw rows would give, the fees included once the
\* repair is through, and the one-hour leaderboard an hour after the fine tier
\* came in, whatever arrives late.  (A read under way touches no row, so the
\* states without one are enough.)
UnaskedReadsExact == probed = NoRequest => \A r \in UnaskedRequests : ~Damaged(r) => Faithful(r)

\* The totals of all history, through siblings that hold more or fewer blobs
\* and through rewinds: the network's is that of its rows; a sender's is never
\* less than that of theirs and, unless one upsert moved an attributed sender
\* from an index it overwrote to one it added, no more; and as long as none
\* did, the senders add up to the network.  (000016:76, 000004:37)
TotalsExact ==
  /\ networkStats = MapThenSumSet(LAMBDA h : Len(stored[h].blobs), Heights)
  /\ \A s \in Senders : /\ userStats[s] >= TotalRefresh(stored, s)
                        /\ s \notin padded => userStats[s] = TotalRefresh(stored, s)
                        /\ s \in padded => EntityOf[s] # Unknown
  /\ padded = {} => LeadersAll = LeadersOf(userStats)

\* Not so (README 6), queries.go:948: the coverage probe never claims a range with a hole in it,
\* "even if a backfill run aborted partway".
MinIsSound == ~Damaged(probed) => Faithful(probed)

\* Not so (README 6), 000004_write_path_costs.up.sql:102: the deltas per sender are "exact
\* for blob_count/total_cost_wei even when a row's from_address changes".
TotalsNeverDrift == \A s \in Senders : userStats[s] = TotalRefresh(stored, s)

\* Not so (README 6), queries.go:1050: the sums of a wide window are exact over the window.
SumsExact == probed = NoRequest => \A r \in WindowRequests : r.source = Hour /\ overtaken = {} => Faithful(r)

\* Not so (README 6), db/fine_rollups.go:205: the repair needs no write serialization.
RepairHarmless == probed = NoRequest => \A r \in WideRequests : doubled = {} => Faithful(r)
=============================================================================
