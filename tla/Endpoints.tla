------------------------------ MODULE Endpoints ------------------------------
(* What the REST handlers ask of the database: for each endpoint the parts its *)
(* SQL statements read, in the order in which the handler makes them.  Every   *)
(* statement sees a snapshot of its own (READ COMMITTED, also within the       *)
(* transaction of a builder's detail).                                         *)
(*                                                                           *)
(* A statement that reads both parts is written as one read after the other,  *)
(* and one that a handler may leave out (a tier no window needs, the builders *)
(* of an empty chart, the second attempt at a block) is counted as made: both *)
(* only let an answer mix more versions than the program's can.                *)
EXTENDS Naturals, Sequences

\* The database: confirmed data with everything derived from it, and the pending
\* pool with the log of what was replaced in it.
Parts == {"blocks", "pool"}
-----------------------------------------------------------------------------
(* Blobs, the pool and blocks.                                               *)

GetLatestBlobs == <<"blocks">>
GetMempoolBlobs == <<"pool">>

\* The addresses of an entity, then the list filtered by them.
resolveEntityAddresses == <<"blocks">>
LatestOfEntity == <<"blocks", "blocks">>
MempoolOfEntity == <<"blocks", "pool">>

GetBlobReplacements == <<"pool">>

\* The base fee, then the pending transactions measured against it.
queryMempoolPressure == <<"blocks", "pool">>

\* Confirmed rows win over pending ones of the same hash.
GetBlobByTxHash == <<"blocks", "pool">>
GetBlobByVersionedHash == <<"blocks", "pool">>

\* The metrics of the last blocks, then who built them.
queryBlobPricing == <<"blocks", "blocks">>

\* The blob, the summary of its wait and the blocks that skipped it.
GetBlobInclusion == <<"blocks", "pool", "blocks", "blocks">>

\* The metrics, the blobs, the builder, the candidates and the metrics again, to
\* see whether a reorg came in between; twice if one did.
GetBlockByNumber == [i \in 1 .. 10 |-> "blocks"]

\* A hash may be of a transaction and of a blob; other shapes ask once.
searchHash == <<"blocks", "pool", "blocks", "pool">>

\* The last time something was indexed, the metadata, the bounds of the rows.
GetIndexerStatus == <<"blocks", "blocks", "blocks">>
-----------------------------------------------------------------------------
(* Aggregates.                                                               *)

queryBlobStats == <<"blocks", "pool">>

\* The probe of the fine tier, then one statement per tier.
GetRollingStatsWindows == <<"blocks", "blocks", "blocks", "blocks">>

\* Two statements per kind of streak and six leaderboards.
queryBlobRecords == [i \in 1 .. 14 |-> "blocks"]

\* The leaderboards of a window, and those of all time, which count pending
\* transactions too.
TopBlobUsers == <<"blocks">>
TopBlobUsersAll == <<"blocks", "pool">>
GetUserBreakdown == <<"blocks">>
UserBreakdownAll == <<"blocks", "pool">>
GetUserByAddress == <<"blocks", "pool">>
EntityDetail == <<"blocks">>
EntityDetailAll == <<"blocks", "pool">>

\* The probe of the fine tier, then the chart.
GetBlobMarketChart == <<"blocks", "blocks">>
GetAttributionUsageChart == <<"blocks", "blocks">>
GetCostComparisonChart == <<"blocks", "blocks">>
GetBuilderShareChart == <<"blocks">>
GetBlobTipsChart == <<"blocks">>
GetBuilders == <<"blocks">>
builderDetail == <<"blocks", "blocks", "blocks", "blocks", "blocks">>
-----------------------------------------------------------------------------
Reads(e) ==
  CASE e = "latest" -> GetLatestBlobs
    [] e = "mempool" -> GetMempoolBlobs
    [] e = "addresses" -> resolveEntityAddresses
    [] e = "entity_latest" -> LatestOfEntity
    [] e = "entity_mempool" -> MempoolOfEntity
    [] e = "latest_page" -> GetLatestBlobs
    [] e = "mempool_page" -> GetMempoolBlobs
    [] e = "replacements" -> GetBlobReplacements
    [] e = "pressure" -> queryMempoolPressure
    [] e = "by_hash" -> GetBlobByTxHash
    [] e = "by_versioned_hash" -> GetBlobByVersionedHash
    [] e = "pricing" -> queryBlobPricing
    [] e = "inclusion" -> GetBlobInclusion
    [] e = "block" -> GetBlockByNumber
    [] e = "search" -> searchHash
    [] e = "status" -> GetIndexerStatus
    [] e = "stats" -> queryBlobStats
    [] e = "rolling" -> GetRollingStatsWindows
    [] e = "records" -> queryBlobRecords
    [] e = "users" -> TopBlobUsers
    [] e = "users_all" -> TopBlobUsersAll
    [] e = "breakdown" -> GetUserBreakdown
    [] e = "breakdown_all" -> UserBreakdownAll
    [] e = "user" -> GetUserByAddress
    [] e = "entity" -> EntityDetail
    [] e = "entity_all" -> EntityDetailAll
    [] e = "market" -> GetBlobMarketChart
    [] e = "usage" -> GetAttributionUsageChart
    [] e = "cost" -> GetCostComparisonChart
    [] e = "builder_share" -> GetBuilderShareChart
    [] e = "tips" -> GetBlobTipsChart
    [] e = "builders" -> GetBuilders
    [] OTHER -> builderDetail      \* "builder"

\* Lists of an entity resolve its addresses first, through the cache.
Resolving == {"entity_latest", "entity_mempool"}

\* Queried by every caller for itself, under the request's own context.
Uncached == {"latest_page", "mempool_page", "replacements", "by_hash", "by_versioned_hash",
             "inclusion", "block", "search", "status", "user"}

\* Cached, and computed once for all callers.
Shared == {"latest", "mempool", "addresses", "pressure", "pricing", "stats", "rolling", "records",
           "users", "users_all", "breakdown", "breakdown_all", "entity", "entity_all", "market",
           "usage", "cost", "builder_share", "tips", "builders", "builder"}

\* The caches the poller drops when a part has changed.
Dropped(p) == IF p = "blocks" THEN {"latest", "pricing", "records", "stats"}
                              ELSE {"mempool", "pressure"}
=============================================================================
