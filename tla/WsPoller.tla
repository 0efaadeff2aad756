------------------------------- MODULE WsPoller -------------------------------
(***************************************************************************)
(* What drives the WebSocket broadcasts of one network:                    *)
(* internal/api/ws_poller.go.                                              *)
(*                                                                         *)
(* The trigger of block_metrics notifies of every row that commits, while  *)
(* the listener is connected.  A scan of the rows near the head, at every  *)
(* tick and after a reconnect, finds what no notification told of.  The    *)
(* tick then compares the pending transactions with those of the last one. *)
(* All of it runs in one goroutine, but its queries see the database as it *)
(* is when they run, and every one of them may fail.                       *)
(*                                                                         *)
(* Blocks commit in any order, late by less than the window, and a reorg   *)
(* deletes rows that commit again.  The events of stats and users that     *)
(* follow a block tell of no block and are left out; WsHub has what        *)
(* becomes of an event.                                                    *)
(***************************************************************************)
EXTENDS Integers, Sequences, FiniteSets, FiniteSetsExt

CONSTANTS
  Txs,         \* blob transactions
  NoBaseline,  \* the pending set was never polled
  Window,      \* trailingScanWindow
  ScanLimit,   \* maxScanBlocksPerTick
  NoticeCap,   \* bound: notifications under way
  MaxHeight,   \* bound: highest block
  MaxReorgs,   \* bound: rewinds
  MaxOutages,  \* bound: outages of the listener's connection
  MaxFaults,   \* bound: failed queries
  MaxArrivals, \* bound: times the first client comes or the last one goes
  MaxIncidents,\* bound: all of these together
  MaxChanges   \* bound: rows, and moves of the pending table

ASSUME PollerSizes ==
  /\ Window \in Nat \ {0} /\ ScanLimit \in Nat /\ Window < ScanLimit
  /\ {NoticeCap, MaxHeight, MaxReorgs, MaxOutages, MaxFaults, MaxArrivals, MaxIncidents, MaxChanges}
       \subseteq Nat

VARIABLES
  \* block_metrics: 0 for no row, 1 for one the API found, then which commit of
  \* the height the row is of
  rows,
  \* the connection, the notifications under way, the reconnect event
  listening, notices, reconnected,
  \* chainBroadcastState, and what the goroutine is about
  baselined, head, seen, poller,
  \* the pending table, lastPendingTxs
  pending, lastPending,
  \* clients: whether there are some, and always were; the commit of each height
  \* that was broadcast to them; the pending transactions they were told of
  watched, stayed, shown, view,
  \* ghost: the rows the baseline took down
  base,
  \* budgets
  reorgs, outages, faults, moves, arrivals

feedVars == <<rows, listening, notices, reconnected>>
stateVars == <<baselined, head, seen, base>>
mempoolVars == <<pending, lastPending>>
clientVars == <<watched, stayed, shown, view>>
budgetVars == <<reorgs, outages, faults, moves, arrivals>>
vars == <<feedVars, stateVars, poller, mempoolVars, clientVars, budgetVars>>

Heights == 1..MaxHeight
Committed == {h \in Heights : rows[h] # 0}
Top == Max({0} \cup Committed)
Idle == [pc |-> "idle", todo |-> {}, marked |-> FALSE, commit |-> 0, tick |-> FALSE, current |-> {}]

\* What goes wrong is counted together as well.
Spare == reorgs + outages + faults + arrivals < MaxIncidents

Room == Cardinality(Committed) + moves < MaxChanges

\* The API starts on a table that may hold a block; clients come when they like.
Init ==
  /\ rows \in {[h \in Heights |-> IF h <= n THEN 1 ELSE 0] : n \in {0, 2}}
  /\ listening \in BOOLEAN /\ notices = <<>> /\ reconnected = FALSE
  /\ baselined = FALSE /\ head = 0 /\ seen = {} /\ base = [h \in Heights |-> 0] /\ poller = Idle
  /\ pending = {} /\ lastPending = NoBaseline
  /\ watched = TRUE /\ stayed = TRUE /\ shown = [h \in Heights |-> 0] /\ view = {}
  /\ reorgs = 0 /\ outages = 0 /\ faults = 0 /\ moves = 0 /\ arrivals = 0
-----------------------------------------------------------------------------
(* The indexer and the connection.                                          *)

\* A block commits, below the highest one by less than the window.
Commit(h) ==
  /\ Room /\ rows[h] = 0 /\ Top - Window < h /\ rows' = [rows EXCEPT ![h] = reorgs + 2]
  /\ IF listening THEN Len(notices) < NoticeCap /\ notices' = Append(notices, h)
                  ELSE UNCHANGED notices
  /\ UNCHANGED <<listening, reconnected, stateVars, poller, mempoolVars, clientVars, budgetVars>>

\* A reorg deletes the rows above its fork point.
Rewind ==
  /\ Spare /\ reorgs < MaxReorgs /\ reorgs' = reorgs + 1 /\ Committed # {}
  /\ \E fork \in 1..Top - 1 :
       rows' = [h \in Heights |-> IF fork < h THEN 0 ELSE rows[h]]
  /\ UNCHANGED <<listening, notices, reconnected, stateVars, poller, mempoolVars, clientVars,
                 outages, faults, moves, arrivals>>

Disconnect ==
  /\ listening /\ Spare /\ outages < MaxOutages /\ outages' = outages + 1 /\ listening' = FALSE
  /\ UNCHANGED <<rows, notices, reconnected, stateVars, poller, mempoolVars, clientVars,
                 reorgs, faults, moves, arrivals>>

\* pq reconnects by itself and says so.
Reconnect ==
  /\ ~listening /\ 0 < outages /\ listening' = TRUE /\ reconnected' = TRUE
  /\ UNCHANGED <<rows, notices, stateVars, poller, mempoolVars, clientVars, budgetVars>>

\* Only the polls look at the pending table, so its changes wait for one.
PendingMoves ==
  /\ poller.pc \in {"mempool", "rows"} /\ Room /\ moves' = moves + 1
  /\ \E t \in Txs : pending' = IF t \in pending THEN pending \ {t} ELSE pending \cup {t}
  /\ UNCHANGED <<feedVars, stateVars, poller, lastPending, clientVars, reorgs, outages, faults, arrivals>>

\* The first client comes, or the last one goes.
ClientsMove ==
  /\ Spare /\ arrivals < MaxArrivals /\ arrivals' = arrivals + 1 /\ watched' = ~watched
  /\ stayed' = FALSE /\ view' = {}
  /\ UNCHANGED <<feedVars, stateVars, poller, mempoolVars, shown, reorgs, outages, faults, moves>>
-----------------------------------------------------------------------------
(* The goroutine: Run.                                                      *)

Fault == Spare /\ faults < MaxFaults /\ faults' = faults + 1

\* The scan is over; a tick goes on with the pending set.
AfterScan(p) == IF p.tick /\ watched THEN [Idle EXCEPT !.pc = "mempool"] ELSE Idle

\* handleNotification: nothing before the baseline, nothing from deep history.
Notice ==
  /\ poller.pc = "idle" /\ notices # <<>> /\ notices' = Tail(notices)
  /\ poller' = IF baselined /\ head < Head(notices) + Window
                 THEN [Idle EXCEPT !.pc = "notice", !.todo = {Head(notices)}] ELSE Idle
  /\ UNCHANGED <<rows, listening, reconnected, stateVars, mempoolVars, clientVars, budgetVars>>

Reconnected ==
  /\ poller.pc = "idle" /\ reconnected /\ reconnected' = FALSE
  /\ poller' = [Idle EXCEPT !.pc = "read"]
  /\ UNCHANGED <<rows, listening, notices, stateVars, mempoolVars, clientVars, budgetVars>>

Tick ==
  /\ poller.pc = "idle"
  /\ poller' = [Idle EXCEPT !.pc = "read", !.tick = TRUE]
  /\ UNCHANGED <<feedVars, stateVars, mempoolVars, clientVars, budgetVars>>

\* Mutant: the baseline marks the newest block only.
BaselineHeadOnly ==
  /\ seen' = {Top} \ {0} /\ head' = Top /\ baselined' = TRUE /\ base' = rows

\* The newest rows are known when the poller begins.
Baseline ==
  LET newest == {h \in Committed : Cardinality({g \in Committed : h < g}) < Window}
  IN seen' = newest /\ head' = Max({0} \cup newest) /\ baselined' = TRUE /\ base' = rows

\* The rows of the trailing window and above, in order, as many as one scan takes.
Trailing ==
  LET above == {h \in Committed : head - Window < h}
  IN {h \in above : Cardinality({g \in above : g < h}) < ScanLimit}

\* scanNetwork: the baseline first, then the rows that were not seen yet.
ReadRows ==
  /\ poller.pc = "read"
  /\ \/ /\ ~baselined /\ Baseline /\ poller' = AfterScan(poller) /\ UNCHANGED faults
     \/ /\ baselined /\ UNCHANGED <<stateVars, faults>>
        /\ poller' = [poller EXCEPT !.pc = "scan",
                                    !.todo = Trailing \ seen]
     \/ Fault /\ poller' = AfterScan(poller) /\ UNCHANGED stateVars
  /\ UNCHANGED <<feedVars, mempoolVars, clientVars, reorgs, outages, moves, arrivals>>

\* broadcastBlock takes the lowest height first.
NextBlock == Min(poller.todo)
BlockDone == [poller EXCEPT !.todo = @ \ {NextBlock}, !.marked = FALSE, !.commit = 0]

\* broadcastBlock: the block is marked before it is read; without clients
\* nothing is read.
MarkBlock ==
  /\ poller.pc \in {"notice", "scan"} /\ poller.todo # {} /\ ~poller.marked
  /\ seen' = seen \cup {NextBlock} /\ head' = Max({head, NextBlock})
  /\ poller' = IF watched THEN [poller EXCEPT !.marked = TRUE] ELSE BlockDone
  /\ UNCHANGED <<feedVars, baselined, base, mempoolVars, clientVars, budgetVars>>

\* A read failed: the mark is taken back, for the next scan.
UnmarkBlock == Fault /\ seen' = seen \ {NextBlock} /\ poller' = BlockDone

\* The row is read; one that is gone again is left to the block that replaces it.
ReadBlock ==
  /\ poller.marked /\ poller.commit = 0
  /\ \/ /\ poller' = IF rows[NextBlock] = 0 THEN BlockDone
                      ELSE [poller EXCEPT !.commit = rows[NextBlock]]
        /\ UNCHANGED <<seen, faults>>
     \/ UnmarkBlock
  /\ UNCHANGED <<feedVars, baselined, head, base, mempoolVars, clientVars,
                 reorgs, outages, moves, arrivals>>

\* Mutant: a block whose blobs or builder could not be read stays marked.
SendBlockKeepsMark ==
  /\ poller.commit # 0 /\ poller' = BlockDone
  /\ \/ /\ shown' = IF watched THEN [shown EXCEPT ![NextBlock] = poller.commit] ELSE shown
        /\ UNCHANGED faults
     \/ Fault /\ UNCHANGED shown
  /\ UNCHANGED <<feedVars, stateVars, mempoolVars, watched, stayed, view,
                 reorgs, outages, moves, arrivals>>

\* Its blobs and its builder are read after it, and the event goes out with the
\* row as it was: a rewind or a commit in between does not stop it.
SendBlock ==
  /\ poller.commit # 0
  /\ \/ /\ shown' = IF watched THEN [shown EXCEPT ![NextBlock] = poller.commit] ELSE shown
        /\ poller' = BlockDone /\ UNCHANGED <<seen, faults>>
     \/ UnmarkBlock /\ UNCHANGED shown
  /\ UNCHANGED <<feedVars, baselined, head, base, mempoolVars, watched, stayed, view,
                 reorgs, outages, moves, arrivals>>

\* The notification is dealt with, or the scan forgets the marks it passed.
BroadcastsEnd ==
  /\ poller.pc \in {"notice", "scan"} /\ poller.todo = {}
  /\ seen' = IF poller.pc = "scan" THEN {h \in seen : head <= h + Window} ELSE seen
  /\ poller' = AfterScan(poller)
  /\ UNCHANGED <<feedVars, baselined, base, head, mempoolVars, clientVars, budgetVars>>

\* pollMempool: the hashes; the first poll only takes them down.
PollHashes ==
  /\ poller.pc = "mempool"
  /\ \/ /\ UNCHANGED faults
        /\ IF lastPending = NoBaseline
             THEN lastPending' = pending /\ poller' = Idle
             ELSE /\ poller' = [Idle EXCEPT !.pc = "rows", !.current = pending]
                  /\ UNCHANGED lastPending
     \/ Fault /\ poller' = Idle /\ UNCHANGED lastPending
  /\ UNCHANGED <<feedVars, stateVars, pending, clientVars, reorgs, outages, moves, arrivals>>

\* Mutant: the baseline moves on although the additions could not be read.
PollRowsMovesOn ==
  /\ poller.pc = "rows" /\ poller' = Idle /\ lastPending' = poller.current
  /\ \/ /\ view' = (view \cup ((poller.current \ lastPending) \cap pending))
                     \ (lastPending \ poller.current)
        /\ UNCHANGED faults
     \/ poller.current \ lastPending # {} /\ Fault /\ UNCHANGED view
  /\ UNCHANGED <<feedVars, stateVars, pending, watched, stayed, shown, reorgs, outages, moves, arrivals>>

\* The rows of the additions are read, if there are any; additions without a
\* row any more are not told of, removals are.
PollRows ==
  /\ poller.pc = "rows" /\ poller' = Idle
  /\ \/ /\ view' = (view \cup ((poller.current \ lastPending) \cap pending))
                     \ (lastPending \ poller.current)
        /\ lastPending' = poller.current /\ UNCHANGED faults
     \/ poller.current \ lastPending # {} /\ Fault /\ UNCHANGED <<view, lastPending>>
  /\ UNCHANGED <<feedVars, stateVars, pending, watched, stayed, shown, reorgs, outages, moves, arrivals>>
-----------------------------------------------------------------------------
PollerNext ==
  \/ Notice \/ Reconnected \/ Tick
  \/ ReadRows \/ MarkBlock \/ ReadBlock \/ SendBlock \/ BroadcastsEnd \/ PollHashes \/ PollRows
OthersNext ==
  Rewind \/ Disconnect \/ Reconnect \/ PendingMoves \/ ClientsMove \/ \E h \in Heights : Commit(h)

Next == PollerNext \/ OthersNext

Spec == Init /\ [][Next]_vars

\* The goroutine goes on: what is begun ends, ticks and notifications are taken.
FairSpec ==
  /\ Spec
  /\ WF_vars(ReadRows \/ MarkBlock \/ ReadBlock \/ SendBlock \/ BroadcastsEnd \/ PollHashes
             \/ PollRows)
  /\ SF_vars(Notice) /\ SF_vars(Tick)
-----------------------------------------------------------------------------
(* Properties.                                                              *)

Near == {h \in Committed : head - Window < h}
Told == {h \in Committed : rows[h] \in {shown[h], base[h]}}

\* What the scan cannot repair: a notification of a replaced row that was lost.
Repairable == reorgs = 0 \/ (outages = 0 /\ listening)

\* Clients that stay are shown every committed row of the trailing window in the
\* end, in the version the table has, and the head follows the highest row:
\* neither out-of-order commits nor failed reads strand one, nor lost
\* notifications while nothing is replaced (broadcastBlock, scanNetwork).
NearBlocksShown ==
  []<>(baselined /\ stayed /\ Repairable => Top <= head /\ Near \subseteq Told)

\* What the table held when the API started is never broadcast: the baseline
\* marks the whole window the first scan reads (scanNetwork).
HistoryNotReplayed == \A h \in Heights : shown[h] # 1

\* Clients do not keep a transaction that left the pending table: its removal is
\* told of in the end, whichever poll fails in between (pollMempool).
NoGhostPending == []<>(watched => view \subseteq pending)

\* Not so (README 6): what maxScanBlocksPerTick says of a bounded scan, it strands
\* no block behind the head.
NoBlockStranded == []<>(baselined /\ stayed /\ reorgs = 0 => Committed \subseteq Told)

\* Not so (README 6): what broadcastBlock says of a row that a reorg deleted, the
\* block that replaces it is broadcast.
ReplacementShown == []<>(baselined /\ stayed => Near \subseteq Told)
=============================================================================
