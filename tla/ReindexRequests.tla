--------------------------- MODULE ReindexRequests ---------------------------
(***************************************************************************)
(* Operator-requested reindexing: internal/indexer/indexer.go, from        *)
(* Reindex to heartbeatReindexRequest.                                     *)
(*                                                                         *)
(* Pods claim requests from block_reindex_requests.  A pod deletes the     *)
(* request's range, queues every block of it to its own workers, and waits *)
(* until the rows are back.  The queue is in memory and no marker covers   *)
(* the range: what a pod loses when it dies comes back only because its    *)
(* request goes stale and is claimed again.  A pod whose heartbeat stalls  *)
(* may be overtaken while it still works.                                  *)
(*                                                                         *)
(* The ranges lie far below the watermark, out of the sight of the walker, *)
(* of the reorg detection and of the gap scan at start.                    *)
(***************************************************************************)
EXTENDS Integers, FiniteSets, FiniteSetsExt

CONSTANTS
  Pods,        \* processes of this network
  ClaimerOf,   \* ClaimerOf[p]: reindexRequestClaimer, the network and version
  Blocks,      \* the blocks the requests are about
  Requests,    \* request ids, in the order they were made
  RangeOf,     \* RangeOf[r]: the blocks from start_block to end_block
  NoPod,       \* nobody claimed the request
  NoRequest,   \* a pod that works on none
  QueueCap,    \* capacity of blockTaskCh
  MaxCrashes,  \* bound: crashes of a pod
  MaxStalls,   \* bound: heartbeats that stall beyond reindexRequestStaleAfter
  MaxFaults    \* bound: failed statements

ASSUME ReindexSizes ==
  /\ Requests \subseteq Nat /\ NoRequest \notin Requests
  /\ RangeOf \in [Requests -> SUBSET Blocks]
  /\ NoPod \notin {ClaimerOf[p] : p \in Pods}
  /\ Blocks \subseteq Nat /\ IsFiniteSet(Blocks) /\ QueueCap \in Nat \ {0}
  /\ {MaxCrashes, MaxStalls, MaxFaults} \subseteq Nat

VARIABLES
  \* block_reindex_requests; stale: those with an updated_at out of date
  status, claimer, stale,
  \* indexed_blocks: rows[b] is "none", "good", or "purged" for a row whose
  \* data was fetched before its own pod deleted it
  rows,
  \* per pod: the scanner, the blocks queued, the fetch of a worker, the epoch
  scanner, queue, fetch, epoch,
  \* budgets
  crashes, stalls, faults

requestVars == <<status, claimer, stale>>
workVars == <<queue, fetch, epoch>>
budgetVars == <<crashes, stalls, faults>>
vars == <<requestVars, rows, scanner, workVars, budgetVars>>

Closed == {"completed", "failed"}
Idle == [pc |-> "idle", req |-> NoRequest, todo |-> {}]
NoFetch == [block |-> 0, epoch |-> 0, purged |-> FALSE, busy |-> FALSE]

Missing(r) == {b \in RangeOf[r] : rows[b] = "none"}

\* A pod may have a block of a range queued already.
Init ==
  /\ status = [r \in Requests |-> "pending"] /\ claimer = [r \in Requests |-> NoPod] /\ stale = {}
  /\ rows = [b \in Blocks |-> "good"]
  /\ scanner = [p \in Pods |-> Idle]
  /\ \E p \in Pods, q \in {S \in SUBSET Blocks : Cardinality(S) <= 1} :
       queue = [o \in Pods |-> IF o = p THEN q ELSE {}]
  /\ fetch = [p \in Pods |-> NoFetch] /\ epoch = [p \in Pods |-> 0]
  /\ crashes = 0 /\ stalls = 0 /\ faults = 0
-----------------------------------------------------------------------------
(* Claims.                                                                  *)

\* Mutant: a request that is being processed is never claimed again.
ClaimablePendingOnly == {r \in Requests : status[r] = "pending"}

\* Pending, or left in processing without a heartbeat.
Claimable == {r \in Requests : status[r] = "pending" \/ (status[r] = "processing" /\ r \in stale)}

\* claimNextReindexRequest: the oldest; a concurrent claim skips a locked row.
Claim(p) ==
  /\ scanner[p].pc = "idle" /\ Claimable # {}
  /\ LET r == Min(Claimable)
     IN /\ status' = [status EXCEPT ![r] = "processing"]
        /\ claimer' = [claimer EXCEPT ![r] = ClaimerOf[p]]
        /\ stale' = stale \ {r}
        /\ scanner' = [scanner EXCEPT ![p] = [Idle EXCEPT !.pc = "delete", !.req = r]]
  /\ UNCHANGED <<rows, workVars, budgetVars>>

\* Mutant: who claimed the request is not asked.
StillClaimedByAnyone(p) == status[scanner[p].req] = "processing"

\* The condition of every later write to the request.
StillClaimed(p) ==
  LET r == scanner[p].req
  IN status[r] = "processing" /\ claimer[r] = ClaimerOf[p]

\* The claim of a dead pod goes stale; that of a live one only when its
\* heartbeat stalls.
GoStale(r) ==
  /\ status[r] = "processing" /\ r \notin stale /\ stale' = stale \cup {r}
  /\ IF \E p \in Pods : scanner[p].req = r /\ claimer[r] = ClaimerOf[p]
       THEN stalls < MaxStalls /\ stalls' = stalls + 1
       ELSE UNCHANGED stalls
  /\ UNCHANGED <<status, claimer, rows, scanner, workVars, crashes, faults>>

Goes(p, pc) == scanner' = [scanner EXCEPT ![p].pc = pc]
OneFault == faults < MaxFaults /\ faults' = faults + 1

\* startReindexRequestHeartbeat: while the range is deleted and queued.
Heartbeat(p) ==
  /\ scanner[p].pc \in {"delete", "queue"} /\ scanner[p].req \in stale /\ StillClaimed(p)
  /\ stale' = stale \ {scanner[p].req}
  /\ UNCHANGED <<status, claimer, rows, scanner, workVars, budgetVars>>
-----------------------------------------------------------------------------
(* The work: Reindex, deleteReindexRange, processBlockRange.                *)

\* Mutant: the delete leaves the epoch alone.
DeleteRangeUnfenced(p) ==
  /\ scanner[p].pc = "delete"
  /\ LET gone == RangeOf[scanner[p].req]
     IN /\ rows' = [b \in Blocks |-> IF b \in gone THEN "none" ELSE rows[b]]
        /\ fetch' = [fetch EXCEPT ![p].purged = @ \/ fetch[p].block \in gone]
        /\ scanner' = [scanner EXCEPT ![p].pc = "queue", ![p].todo = gone]
  /\ UNCHANGED <<requestVars, queue, epoch, budgetVars>>

\* The rows go in one transaction; the fence of this pod follows.  A statement
\* that fails leaves everything as it was and fails the request.
DeleteRange(p) ==
  /\ scanner[p].pc = "delete"
  /\ \/ LET gone == RangeOf[scanner[p].req]
        IN /\ rows' = [b \in Blocks |-> IF b \in gone THEN "none" ELSE rows[b]]
           /\ fetch' = [fetch EXCEPT ![p].purged = @ \/ fetch[p].block \in gone]
           /\ epoch' = [epoch EXCEPT ![p] = @ + 1]
           /\ scanner' = [scanner EXCEPT ![p].pc = "queue", ![p].todo = gone]
           /\ UNCHANGED faults
     \/ OneFault /\ Goes(p, "fail") /\ UNCHANGED <<rows, fetch, epoch>>
  /\ UNCHANGED <<requestVars, queue, crashes, stalls>>

\* One block of the range is sent, in ascending order, when there is room.
QueueBlock(p) ==
  /\ scanner[p].pc = "queue" /\ scanner[p].todo # {} /\ Cardinality(queue[p]) < QueueCap
  /\ LET b == Min(scanner[p].todo)
     IN /\ queue' = [queue EXCEPT ![p] = @ \cup {b}]
        /\ scanner' = [scanner EXCEPT ![p].todo = @ \ {b}]
  /\ UNCHANGED <<requestVars, rows, fetch, epoch, budgetVars>>

QueueDone(p) ==
  /\ scanner[p].pc = "queue" /\ scanner[p].todo = {} /\ Goes(p, "wait")
  /\ UNCHANGED <<requestVars, rows, workVars, budgetVars>>

\* A worker of the pod samples the epoch and fetches a block.
Fetch(p) ==
  /\ ~fetch[p].busy
  /\ \E b \in queue[p] :
       fetch' = [fetch EXCEPT ![p] = [block |-> b, epoch |-> epoch[p], purged |-> FALSE, busy |-> TRUE]]
  /\ UNCHANGED <<requestVars, rows, scanner, queue, epoch, budgetVars>>

\* insertBlockData: a fetch the delete overtook is discarded and tried again.
Insert(p) ==
  /\ fetch[p].busy /\ fetch' = [fetch EXCEPT ![p] = NoFetch]
  /\ IF fetch[p].epoch = epoch[p]
       THEN /\ rows' = [rows EXCEPT ![fetch[p].block] = IF fetch[p].purged THEN "purged" ELSE "good"]
            /\ queue' = [queue EXCEPT ![p] = @ \ {fetch[p].block}]
       ELSE UNCHANGED <<rows, queue>>
  /\ UNCHANGED <<requestVars, scanner, epoch, budgetVars>>
-----------------------------------------------------------------------------
(* The end: waitForReindexRequestCompletion, completeReindexRequest,        *)
(* failReindexRequest.                                                      *)

\* Mutant: the request is complete as soon as its range is queued.
CountMissingNever(p) ==
  /\ scanner[p].pc = "wait" /\ Goes(p, "complete")
  /\ UNCHANGED <<requestVars, rows, workVars, budgetVars>>

\* One round of the wait: the rows are counted; while some are missing the
\* heartbeat goes on, and ends the wait when the claim is lost.
CountMissing(p) ==
  /\ scanner[p].pc = "wait"
  /\ \/ /\ UNCHANGED faults
        /\ IF Missing(scanner[p].req) = {}
             THEN Goes(p, "complete") /\ UNCHANGED stale
             ELSE IF StillClaimed(p)
                    THEN stale' = stale \ {scanner[p].req} /\ UNCHANGED scanner
                    ELSE Goes(p, "fail") /\ UNCHANGED stale
     \/ OneFault /\ Goes(p, "fail") /\ UNCHANGED stale
  /\ UNCHANGED <<status, claimer, rows, workVars, crashes, stalls>>

\* The last write; a claim that was lost, or a statement that fails, leaves
\* the request as it is.
Close(p, outcome) ==
  /\ scanner' = [scanner EXCEPT ![p] = Idle]
  /\ \/ /\ status' = IF StillClaimed(p) THEN [status EXCEPT ![scanner[p].req] = outcome] ELSE status
        /\ UNCHANGED faults
     \/ OneFault /\ UNCHANGED status
  /\ UNCHANGED <<claimer, stale, rows, workVars, crashes, stalls>>

Complete(p) == scanner[p].pc = "complete" /\ Close(p, "completed")
Fail(p) == scanner[p].pc = "fail" /\ Close(p, "failed")

\* A pod dies and starts again: what is not in the database is gone.
Crash(p) ==
  /\ crashes < MaxCrashes /\ crashes' = crashes + 1
  /\ scanner' = [scanner EXCEPT ![p] = Idle] /\ queue' = [queue EXCEPT ![p] = {}]
  /\ fetch' = [fetch EXCEPT ![p] = NoFetch] /\ epoch' = [epoch EXCEPT ![p] = 0]
  /\ UNCHANGED <<requestVars, rows, stalls, faults>>
-----------------------------------------------------------------------------
ScannerNext(p) ==
  Claim(p) \/ DeleteRange(p) \/ QueueBlock(p) \/ QueueDone(p) \/ CountMissing(p) \/ Complete(p) \/ Fail(p)
WorkerNext(p) == Fetch(p) \/ Insert(p)

Next ==
  \/ \E r \in Requests : GoStale(r)
  \/ \E p \in Pods : ScannerNext(p) \/ Heartbeat(p) \/ WorkerNext(p) \/ Crash(p)

Spec == Init /\ [][Next]_vars

\* Scanner and workers of every pod go on, and a dead claim goes stale.
FairSpec ==
  /\ Spec
  /\ \A p \in Pods : WF_vars(ScannerNext(p)) /\ WF_vars(WorkerNext(p))
  /\ \A r \in Requests : WF_vars(GoStale(r) /\ UNCHANGED stalls)
-----------------------------------------------------------------------------
(* Properties.                                                              *)

ScannerType ==
  [pc : {"idle", "delete", "queue", "wait", "complete", "fail"},
   req : Requests \cup {NoRequest}, todo : SUBSET Blocks]
FetchType == [block : Blocks \cup {0}, epoch : Nat, purged : BOOLEAN, busy : BOOLEAN]

\* The type of every variable; a pod that works has a request, and the channel
\* keeps its capacity.
TypeOK ==
  /\ status \in [Requests -> {"pending", "processing"} \cup Closed]
  /\ claimer \in [Requests -> {ClaimerOf[p] : p \in Pods} \cup {NoPod}]
  /\ stale \in SUBSET Requests
  /\ rows \in [Blocks -> {"none", "good", "purged"}]
  /\ scanner \in [Pods -> ScannerType]
  /\ \A p \in Pods : scanner[p].req = NoRequest <=> scanner[p].pc = "idle"
  /\ queue \in [Pods -> SUBSET Blocks] /\ \A p \in Pods : Cardinality(queue[p]) <= QueueCap
  /\ fetch \in [Pods -> FetchType]
  /\ epoch \in [Pods -> Nat]
  /\ crashes \in 0..MaxCrashes /\ stalls \in 0..MaxStalls /\ faults \in 0..MaxFaults

\* A worker in flight with a fetch from before the delete does not bring the
\* deleted data back.
NoPurgedData == \A b \in Blocks : rows[b] # "purged"

\* A closed request stays as it was closed, whoever else still works on it, and
\* a pod that lost its claim to another version never closes it.
ClosedByClaimer ==
  [][\A r \in Requests :
       /\ status[r] \in Closed => status'[r] = status[r]
       /\ \A p \in Pods :
            status'[r] # status[r] /\ status'[r] \in Closed /\ scanner'[p] # scanner[p]
              => claimer[r] = ClaimerOf[p]]_vars

\* What a request deleted comes back, or a request over it says that it failed
\* or is still open: crashes and failed calls lose nothing silently.  (A pod that
\* stalls, is overtaken, deletes the range once more and dies would.)
NothingLostSilently ==
  \A b \in Blocks :
    []<>(\/ rows[b] # "none" \/ 0 < stalls
         \/ \E r \in Requests : b \in RangeOf[r] /\ status[r] # "completed")

\* As long as no heartbeat stalls, every request is completed or failed in the
\* end, unless another one over blocks of its range failed: what that one
\* deleted it waits for in vain.
RequestsClose ==
  \A r \in Requests :
    <>(\/ status[r] \in Closed \/ 0 < stalls
       \/ \E q \in Requests \ {r} : RangeOf[q] \cap RangeOf[r] # {} /\ status[q] = "failed")
=============================================================================
