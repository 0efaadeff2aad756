----------------------------- MODULE HistoryWalks -----------------------------
(***************************************************************************)
(* The walks that complete the history a new release found:                *)
(* internal/indexer/builder_backfill.go (builder rows, newest first),      *)
(* priority_fees.go (fees, oldest first) and records.go (streaks, oldest   *)
(* first), with their statements in internal/db.                           *)
(*                                                                         *)
(* A walk reads the bounds of the indexed history and its own checkpoint,  *)
(* goes through the history window by window, and moves the checkpoint     *)
(* over windows it has proved complete.  Live indexing, reorgs and         *)
(* reindexes go on meanwhile, fetches and statements fail, and a crash     *)
(* ends the walk anywhere: the next start resumes at the checkpoint.  The  *)
(* three walks touch different columns, so a behaviour has one of them;    *)
(* BlockIndexer has what live indexing does in detail.                     *)
(***************************************************************************)
EXTENDS Integers, FiniteSets, FiniteSetsExt

CONSTANTS
  Walks,       \* which of "builders", "fees", "streaks" to look at
  Window,      \* windowBlocks, streakBackfillChunkBlocks
  Batch,       \* insertBatch, updateBatch
  ForkPoint,   \* the node's two branches share the blocks up to here
  MaxHeight,   \* bound: highest block
  MaxChanges,  \* bound: branch switches, reindexes and new definitions
  MaxFaults    \* bound: crashes, failed fetches and failed statements

ASSUME WalkSizes ==
  /\ Walks \subseteq {"builders", "fees", "streaks"}
  /\ {Window, Batch} \subseteq Nat \ {0} /\ {ForkPoint, MaxHeight, MaxChanges, MaxFaults} \subseteq Nat

VARIABLES
  kind,      \* the walk of this behaviour
  node,      \* the branch the node serves, 1 or 2
  rows,      \* indexed_blocks: the branch of the stored block, or 0
  filled,    \* what the walk completes: the branch a builder or a fee is of, the
             \* version of the definitions a streak is of; 0 for nothing
  defs,      \* the version of the streak definitions in the database
  mark,      \* the checkpoint: the floor, or the watermark
  claimed,   \* the definitions the stored watermark is about, 0 for none
  epoch,     \* reorgEpoch of the process
  walk,      \* the goroutine
  changes, faults

storeVars == <<rows, filled>>
markVars == <<mark, claimed>>
vars == <<kind, node, storeVars, defs, markVars, epoch, walk, changes, faults>>

Heights == 1..MaxHeight
None == 0
Stored == {h \in Heights : rows[h] # 0}
NodeBlock(h) == IF h <= ForkPoint THEN 1 ELSE node

\* What live indexing writes along with a block.
Live(h) == IF kind = "streaks" THEN defs ELSE NodeBlock(h)
Lacking == {h \in Stored : filled[h] = 0}

\* Fetched blocks: the branch of each height.
Nothing == [h \in {} |-> None]

Off == [pc |-> "off", lo |-> 0, hi |-> 0, at |-> 0, todo |-> {}, got |-> Nothing, epoch |-> 0,
        fp |-> 0, stalled |-> FALSE, skipped |-> {}, whole |-> FALSE]

\* The history was indexed by a release without the columns, but for its end.
Init ==
  /\ kind \in Walks /\ node = 1
  /\ \E top \in {0, MaxHeight - 1, MaxHeight} : \E old \in 0..top :
       /\ rows = [h \in Heights |-> IF h <= top THEN 1 ELSE 0]
       /\ filled = [h \in Heights |-> IF old < h /\ h <= top THEN 1 ELSE 0]
  /\ defs = 1 /\ mark = None /\ claimed = 0 /\ epoch = 0 /\ walk = Off
  /\ changes = 0 /\ faults = 0
-----------------------------------------------------------------------------
(* The rest of the indexer, and the node.                                   *)

Change == changes < MaxChanges /\ changes' = changes + 1
Fault == faults < MaxFaults /\ faults' = faults + 1

\* A block is indexed, with everything a live block has; it replaces a row that
\* lost its block.
IndexLive(h) ==
  /\ walk.pc # "off" /\ rows[h] = 0 /\ h <= Max({0} \cup Stored) + 1
  /\ rows' = [rows EXCEPT ![h] = NodeBlock(h)] /\ filled' = [filled EXCEPT ![h] = Live(h)]
  /\ UNCHANGED <<kind, node, defs, markVars, epoch, walk, changes, faults>>

SwitchBranch ==
  /\ kind # "streaks" /\ Change /\ node' = 3 - node
  /\ UNCHANGED <<kind, storeVars, defs, markVars, epoch, walk, faults>>

Delete(H) ==
  /\ rows' = [h \in Heights |-> IF h \in H THEN 0 ELSE rows[h]]
  /\ filled' = [h \in Heights |-> IF h \in H THEN 0 ELSE filled[h]]
  /\ epoch' = epoch + 1

\* handleReorg, once it sees that the stored blocks are of another branch.
Rewind ==
  /\ walk.pc # "off" /\ \E h \in Stored : rows[h] # NodeBlock(h)
  /\ Delete({h \in Heights : ForkPoint < h})
  /\ UNCHANGED <<kind, node, defs, markVars, walk, changes, faults>>

\* deleteReindexRange: any range, by request of the operator.
DeleteRange ==
  /\ walk.pc # "off" /\ Change
  /\ \E a \in Stored, b \in Heights : a <= b /\ Delete(a..b)
  /\ UNCHANGED <<kind, node, defs, markVars, walk, faults>>

\* A migration changes a predicate or adds a kind; not while a start is between
\* reading the bounds and the claim.
ChangeDefinitions ==
  /\ kind = "streaks" /\ walk.pc \notin {"definitions", "claim"} /\ Change /\ defs' = defs + 1
  /\ UNCHANGED <<kind, node, storeVars, markVars, epoch, walk, faults>>

Crash ==
  /\ walk.pc # "off" /\ Fault /\ walk' = Off /\ epoch' = 0
  /\ UNCHANGED <<kind, node, storeVars, defs, markVars, changes>>
-----------------------------------------------------------------------------
(* How a walk begins: runBuilderBackfill, runPriorityFeeBackfill and        *)
(* runStreakBackfill up to their loops.                                     *)

Abort == walk' = [walk EXCEPT !.pc = "over"]
Unchanged == UNCHANGED <<kind, node, storeVars, defs, epoch, changes>>

\* IndexedBlockBounds.
ReadBounds ==
  /\ walk.pc = "off"
  /\ \/ /\ Stored # {} /\ UNCHANGED faults
        /\ walk' = [walk EXCEPT !.pc = IF kind = "streaks" THEN "definitions" ELSE "mark",
                                !.lo = Min(Stored), !.hi = Max(Stored)]
     \/ Stored = {} /\ Abort /\ UNCHANGED faults
     \/ Fault /\ Abort
  /\ Unchanged /\ UNCHANGED markVars

\* The walk over lo..hi goes on at a block, or has nothing left to do.
Enter(at) ==
  walk' = [walk EXCEPT !.pc = IF at \in walk.lo..walk.hi THEN "window" ELSE "over",
                       !.at = at, !.whole = at \notin walk.lo..walk.hi]

\* builderBackfillFloor: a floor above the tip is of history that is gone, and
\* one that cannot be read must not be overwritten.
ReadFloor ==
  \/ Enter(IF mark # None /\ mark <= walk.hi THEN mark - 1 ELSE walk.hi) /\ UNCHANGED faults
  \/ Fault /\ Abort

\* priorityFeeBackfillWatermark: one that cannot be read is taken for absent.
ReadWatermark ==
  \/ Enter(IF mark >= walk.lo THEN mark + 1 ELSE walk.lo) /\ UNCHANGED faults
  \/ Fault /\ Enter(walk.lo)

ReadMark ==
  /\ walk.pc = "mark"
  /\ \/ kind = "builders" /\ ReadFloor
     \/ kind = "fees" /\ ReadWatermark
  /\ Unchanged /\ UNCHANGED markVars

\* The fingerprint of the database and the stored one; what cannot be read
\* counts as changed.  Only definitions that were read are claimed (fp # 0).
ReadDefinitions ==
  /\ walk.pc = "definitions"
  /\ \/ /\ defs = claimed /\ Enter(IF mark >= walk.lo THEN mark ELSE walk.lo) /\ UNCHANGED faults
     \/ /\ defs # claimed /\ walk' = [walk EXCEPT !.pc = "claim", !.fp = defs] /\ UNCHANGED faults
     \/ Fault /\ \E fp \in {0, defs} : walk' = [walk EXCEPT !.pc = "claim", !.fp = fp]
  /\ Unchanged /\ UNCHANGED markVars

\* Mutant: the definitions and the watermark are two writes, and one may fail.
ClaimInTwo ==
  /\ walk.pc = "claim" /\ Enter(walk.lo) /\ Unchanged
  /\ \/ mark' = walk.lo /\ claimed' = (IF walk.fp # 0 THEN walk.fp ELSE claimed) /\ UNCHANGED faults
     \/ Fault /\ claimed' = (IF walk.fp # 0 THEN walk.fp ELSE claimed) /\ UNCHANGED mark

\* claimStreakRebuild: one write, and the rebuild goes on without it.
Claim ==
  /\ walk.pc = "claim" /\ Enter(walk.lo) /\ Unchanged
  /\ \/ mark' = walk.lo /\ claimed' = (IF walk.fp # 0 THEN walk.fp ELSE claimed) /\ UNCHANGED faults
     \/ Fault /\ UNCHANGED markVars
-----------------------------------------------------------------------------
(* A window of the builder and the fee walk: backfillBuilderWindow and      *)
(* backfillPriorityFeeWindow.                                               *)

Down == kind = "builders"
Lowest == IF Down THEN Max({walk.lo, walk.at - Window + 1}) ELSE walk.at
Highest == IF Down THEN walk.at ELSE Min({walk.hi, walk.at + Window - 1})

\* The blocks of the window that lack what the walk fills, each with the branch
\* of its stored row; a statement that keeps failing ends the walk.
List ==
  /\ walk.pc = "window" /\ kind # "streaks"
  /\ LET missing == Lacking \cap (Lowest..Highest)
     IN \/ /\ UNCHANGED faults
           /\ walk' = [walk EXCEPT !.pc = IF missing = {} THEN "complete" ELSE "batch",
                                   !.todo = {[height |-> h, branch |-> rows[h]] : h \in missing}]
        \/ Fault /\ Abort
  /\ Unchanged /\ UNCHANGED markVars

\* The next batch, from the lowest block on.
Chunk == {b \in walk.todo : Cardinality({a \in walk.todo : a.height < b.height}) < Batch}

\* A batch begins with the epoch; a batch that is not there ends the window.
BeginBatch ==
  /\ walk.pc = "batch"
  /\ walk' = [walk EXCEPT !.pc = IF walk.todo = {} THEN "recheck" ELSE "fetch", !.epoch = epoch]
  /\ Unchanged /\ UNCHANGED <<markVars, faults>>

\* Mutant: the fetched block is not compared with the listed one.
MatchesAnything(b) == TRUE

\* The block the node serves is the one that was listed; the fee walk takes any.
Matches(b) == kind = "fees" \/ NodeBlock(b.height) = b.branch

\* fetchBuilderBackfillBatch, fetchPriorityFeeUpdates: fetches that keep failing
\* leave their block out, as a block of another branch does.
Fetch ==
  /\ walk.pc = "fetch"
  /\ \E failed \in SUBSET Chunk :
       /\ IF failed = {} THEN UNCHANGED faults ELSE Fault
       /\ LET good == {b \in Chunk \ failed : Matches(b)}
          IN walk' = [walk EXCEPT !.pc = "write",
                                  !.got = [h \in {b.height : b \in good} |-> NodeBlock(h)],
                                  !.skipped = @ \cup {b.height : b \in Chunk \ good}]
  /\ Unchanged /\ UNCHANGED markVars

NextBatch == [walk EXCEPT !.pc = "batch", !.got = Nothing, !.todo = @ \ Chunk]

\* A rewind or a reindex was committed since the batch began.
Stale == kind = "builders" /\ walk.epoch # epoch

\* The heights the statement fills: no builder row that is there is replaced, and
\* fees need a stored row of the same transactions.
Fillable ==
  {h \in DOMAIN walk.got : filled[h] = 0 /\ (kind = "fees" => rows[h] # 0)}

\* writeBuilderBackfillBatch, writePriorityFeeUpdates.  A fetched block of the
\* other branch may or may not have the transactions of the stored one.
Write ==
  /\ walk.pc = "write"
  /\ \/ /\ Stale /\ UNCHANGED <<filled, faults>>
        /\ walk' = [NextBatch EXCEPT !.skipped = @ \cup DOMAIN walk.got]
     \/ /\ ~Stale /\ UNCHANGED faults
        /\ \E H \in SUBSET Fillable :
             /\ \A h \in Fillable \ H : kind = "fees" /\ walk.got[h] # rows[h]
             /\ filled' = [h \in Heights |-> IF h \in H THEN walk.got[h] ELSE filled[h]]
             /\ walk' = [NextBatch EXCEPT !.skipped = @ \cup (DOMAIN walk.got \ H)]
     \/ DOMAIN walk.got # {} /\ Fault /\ Abort /\ UNCHANGED filled
  /\ UNCHANGED <<kind, node, rows, defs, markVars, epoch, changes>>

\* The window is listed again: it is complete when nothing is missing any more.
Recheck ==
  /\ walk.pc = "recheck"
  /\ \/ /\ UNCHANGED faults
        /\ walk' = [walk EXCEPT !.pc = IF Lacking \cap (Lowest..Highest) = {} THEN "complete" ELSE "incomplete"]
     \/ Fault /\ Abort
  /\ Unchanged /\ UNCHANGED markVars

\* backfillStreakChunk: every row of the window, with the definitions of now.
Recompute ==
  /\ walk.pc = "window" /\ kind = "streaks"
  /\ \/ /\ filled' = [h \in Heights |-> IF h \in Stored \cap (Lowest..Highest) THEN defs ELSE filled[h]]
        /\ walk' = [walk EXCEPT !.pc = "complete"] /\ UNCHANGED faults
     \/ Fault /\ Abort /\ UNCHANGED filled
  /\ UNCHANGED <<kind, node, rows, defs, markVars, epoch, changes>>

\* Mutant: a window that was left incomplete does not hold the checkpoint.
StalledOnlyHere == walk.pc = "incomplete"

\* A window that was left incomplete holds the checkpoint for the whole walk.
StalledNow == walk.stalled \/ walk.pc = "incomplete"

\* Mutant: the next window skips a block.
FollowingSkips == IF Down THEN Lowest - 2 ELSE Highest + 2

Following == IF Down THEN Lowest - 1 ELSE Highest + 1

\* The checkpoint moves over the window, unless it is held or cannot be written,
\* and the walk goes on behind the window.
Advance ==
  /\ walk.pc \in {"complete", "incomplete"}
  /\ IF StalledNow THEN UNCHANGED <<mark, faults>>
     ELSE \/ mark' = (IF Down THEN Lowest ELSE Highest) /\ UNCHANGED faults
          \/ Fault /\ UNCHANGED mark
  /\ walk' = [walk EXCEPT !.stalled = StalledNow, !.at = Following,
                          !.pc = IF Following \in walk.lo..walk.hi THEN "window" ELSE "over",
                          !.whole = Following \notin walk.lo..walk.hi]
  /\ Unchanged /\ UNCHANGED claimed
-----------------------------------------------------------------------------
WalkNext ==
  \/ ReadBounds \/ ReadMark \/ ReadDefinitions \/ Claim
  \/ List \/ BeginBatch \/ Fetch \/ Write \/ Recheck \/ Recompute \/ Advance
IndexerNext == \E h \in Heights : IndexLive(h)
OthersNext == SwitchBranch \/ Rewind \/ DeleteRange \/ ChangeDefinitions \/ Crash

Next == WalkNext \/ IndexerNext \/ OthersNext

Spec == Init /\ [][Next]_vars
-----------------------------------------------------------------------------
(* Properties.                                                              *)

\* No builder row describes another branch than the block it is stored with,
\* whatever the node switches to between the listing, the fetch and the write.
BuilderOfStoredBlock ==
  kind = "builders" => \A h \in Stored : filled[h] \in {0, rows[h]}

\* The persisted floor is true: from it up to the tip no indexed block lacks its
\* builder, through faults, crashes, rewinds and reindexes.  So is the
\* watermark of the fees, from the beginning up to it.
CheckpointsTrue ==
  mark # None =>
    /\ kind = "builders" => \A h \in Lacking : h < mark
    /\ kind = "fees" => \A h \in Lacking : mark < h

\* When the stored fingerprint is that of the database, every streak below the
\* watermark is of these definitions: no start ever skips rows of older ones.
StreaksUpToWatermark ==
  kind = "streaks" /\ claimed = defs => \A h \in Stored : h < mark => filled[h] = defs

\* A walk that went through all of history left only blocks that it could not
\* fetch, that changed under it, or that a held checkpoint will bring back: one
\* bad block costs no other.
LeftOnlySkipped ==
  walk.pc = "over" /\ walk.whole /\ kind # "streaks" => Lacking \subseteq walk.skipped
=============================================================================
