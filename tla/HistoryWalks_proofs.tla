-------------------------- MODULE HistoryWalks_proofs --------------------------
(***************************************************************************)
(* Proofs about HistoryWalks, for any length of history, any window and    *)
(* batch, and any number of changes and faults.                            *)
(***************************************************************************)
EXTENDS HistoryWalks, Numbers

Working == {"window", "batch", "fetch", "write", "recheck", "complete", "incomplete"}
Phases == Working \cup {"off", "mark", "definitions", "claim", "over"}

Fetched == UNION {[S -> 1..2] : S \in SUBSET Heights}

WalkType ==
  [pc : Phases, lo : 0..MaxHeight, hi : 0..MaxHeight, at : Int,
   todo : SUBSET [height : Heights, branch : 0..2],
   got : Fetched,
   epoch : Nat, fp : Nat, stalled : BOOLEAN, skipped : SUBSET Heights, whole : BOOLEAN]

StoreTypes ==
  /\ kind \in {"builders", "fees", "streaks"} /\ node \in {1, 2}
  /\ rows \in [Heights -> 0..2] /\ filled \in [Heights -> Nat]
  /\ defs \in Nat \ {0} /\ mark \in Nat /\ claimed \in Nat /\ epoch \in Nat

TypeInv == StoreTypes /\ walk \in WalkType

\* What the walk has read of the bounds stays true of what is still lacking,
\* and its position is inside them.
PositionInv ==
  /\ walk.pc \notin {"off", "over"} => 1 <= walk.lo /\ walk.lo <= walk.hi
  /\ kind # "streaks" /\ walk.pc \notin {"off", "over"} =>
       \A h \in Lacking : walk.lo <= h /\ h <= walk.hi
  /\ walk.pc \in Working => walk.lo <= walk.at /\ walk.at <= walk.hi
  /\ walk.pc = "mark" => kind # "streaks"
  /\ walk.pc \in {"definitions", "claim"} => kind = "streaks"
  /\ kind = "streaks" /\ walk.pc \in Working => walk.pc \in {"window", "complete"} /\ ~walk.stalled
  /\ walk.whole => walk.pc = "over"
  /\ walk.pc \in {"off", "mark", "definitions", "claim"} => walk.skipped = {} /\ ~walk.stalled

Ahead(h) == IF Down THEN h <= walk.at ELSE walk.at <= h
Beyond(h) == IF Down THEN h < Lowest ELSE Highest < h
InTodo(h) == \E b \in walk.todo : b.height = h
InRest(h) == \E b \in walk.todo \ Chunk : b.height = h

\* While no window was left incomplete, nothing behind the walk lacks anything.
CheckInv ==
  /\ CheckpointsTrue
  /\ kind # "streaks" =>
       /\ walk.pc \in Working /\ ~walk.stalled => \A h \in Lacking : Ahead(h)
       /\ walk.pc = "complete" => \A h \in Lacking : h < Lowest \/ Highest < h

\* Every block that lacks something is ahead, at hand, or was skipped.
LeftInv ==
  kind # "streaks" =>
    /\ walk.pc = "window" => \A h \in Lacking : Ahead(h) \/ h \in walk.skipped
    /\ walk.pc \in {"batch", "fetch"} =>
         \A h \in Lacking : Beyond(h) \/ h \in walk.skipped \/ InTodo(h)
    /\ walk.pc = "write" =>
         \A h \in Lacking : Beyond(h) \/ h \in walk.skipped \/ InRest(h) \/ h \in DOMAIN walk.got
    /\ walk.pc \in {"recheck", "complete", "incomplete"} =>
         \A h \in Lacking : Beyond(h) \/ h \in walk.skipped
    /\ LeftOnlySkipped

\* Only blocks of the first branch lack a builder: live indexing writes it.
BuilderInv ==
  kind = "builders" =>
    /\ BuilderOfStoredBlock
    /\ \A h \in Lacking : rows[h] = 1
    /\ \A b \in walk.todo : b.branch = 1
    /\ \A h \in DOMAIN walk.got : walk.got[h] = 1

\* As long as the walk rebuilds with the claimed definitions, all behind it is
\* rebuilt.
StreakInv ==
  kind = "streaks" =>
    /\ claimed <= defs /\ StreaksUpToWatermark
    /\ walk.pc = "claim" => walk.fp \in {0, defs}
    /\ walk.pc \in {"definitions", "claim"} =>
         \A h \in Stored : h < walk.lo => filled[h] = defs
    /\ claimed = defs =>
         /\ walk.pc = "window" => \A h \in Stored : h < walk.at => filled[h] = defs
         /\ walk.pc = "complete" => \A h \in Stored : h <= Highest => filled[h] = defs

IInv == TypeInv /\ PositionInv /\ CheckInv /\ LeftInv /\ BuilderInv /\ StreakInv
-----------------------------------------------------------------------------
(* What the other parts of the indexer do to the history.                   *)

\* A row is gone, as it was, or was written anew with what the walk fills.
RowsMove ==
  \A h \in Heights :
    \/ rows'[h] = 0
    \/ rows'[h] = rows[h] /\ filled'[h] = filled[h]
    \/ filled'[h] = (IF kind = "streaks" THEN defs ELSE rows'[h])

LEMMA Sizes == MaxHeight \in Nat /\ Window \in Nat \ {0} /\ Batch \in Nat \ {0} /\ ForkPoint \in Nat
<1> QED BY WalkSizes

LEMMA NodeBlockType == ASSUME TypeInv, NEW h \in Heights PROVE NodeBlock(h) \in 1..2
<1> QED BY DEF TypeInv, StoreTypes, NodeBlock

LEMMA IndexLiveStep ==
  ASSUME TypeInv, NEW h \in Heights, IndexLive(h)
  PROVE  RowsMove /\ StoreTypes'
<1>1. NodeBlock(h) \in 1..2
  BY NodeBlockType
<1>2. Live(h) = (IF kind = "streaks" THEN defs ELSE NodeBlock(h)) /\ Live(h) \in Nat
  BY <1>1 DEF Live, TypeInv, StoreTypes
<1>3. rows' = [rows EXCEPT ![h] = NodeBlock(h)] /\ filled' = [filled EXCEPT ![h] = Live(h)]
  BY DEF IndexLive
<1>4. RowsMove
  BY <1>1, <1>2, <1>3 DEF RowsMove, TypeInv, StoreTypes
<1> QED BY <1>1, <1>2, <1>3, <1>4 DEF IndexLive, TypeInv, StoreTypes, markVars

LEMMA DeleteStep ==
  ASSUME TypeInv, NEW H, Delete(H)
  PROVE  RowsMove /\ rows' \in [Heights -> 0..2] /\ filled' \in [Heights -> Nat] /\ epoch' \in Nat
<1> QED BY DEF Delete, RowsMove, TypeInv, StoreTypes

\* The steps that are not the walk's own.
Elsewhere ==
  \/ \E h \in Heights : IndexLive(h)
  \/ SwitchBranch \/ Rewind \/ DeleteRange \/ ChangeDefinitions

LEMMA ElsewhereStep ==
  ASSUME TypeInv, Elsewhere
  PROVE  /\ RowsMove /\ StoreTypes'
         /\ UNCHANGED <<kind, mark, claimed, walk>>
         /\ \/ defs' = defs
            \/ defs' = defs + 1 /\ walk.pc \notin {"definitions", "claim"} /\ kind = "streaks"
               /\ UNCHANGED <<rows, filled>>
<1>1. CASE \E h \in Heights : IndexLive(h)
  <2>1. PICK h \in Heights : IndexLive(h)
    BY <1>1
  <2> QED BY <2>1, IndexLiveStep DEF IndexLive, markVars
<1>2. CASE SwitchBranch
  BY <1>2 DEF SwitchBranch, storeVars, markVars, RowsMove, TypeInv, StoreTypes
<1>3. CASE Rewind
  <2>1. Delete({h \in Heights : ForkPoint < h})
    BY <1>3 DEF Rewind
  <2> QED BY <1>3, <2>1, DeleteStep DEF Rewind, markVars, TypeInv, StoreTypes
<1>4. CASE DeleteRange
  <2>1. PICK a \in Stored, b \in Heights : Delete(a..b)
    BY <1>4 DEF DeleteRange
  <2> QED BY <1>4, <2>1, DeleteStep DEF DeleteRange, markVars, TypeInv, StoreTypes
<1>5. CASE ChangeDefinitions
  BY <1>5 DEF ChangeDefinitions, storeVars, markVars, RowsMove, TypeInv, StoreTypes
<1> QED BY <1>1, <1>2, <1>3, <1>4, <1>5 DEF Elsewhere

LEMMA LackingKept ==
  ASSUME TypeInv, RowsMove, StoreTypes', kind' = kind
  PROVE  Lacking' \subseteq Lacking /\ \A h \in Lacking' : rows'[h] = rows[h]
<1> SUFFICES ASSUME NEW h \in Lacking' PROVE h \in Lacking /\ rows'[h] = rows[h]
  OBVIOUS
<1>1. h \in Heights /\ rows'[h] # 0 /\ filled'[h] = 0
  BY DEF Lacking, Stored, Heights
<1>2. defs # 0
  BY DEF TypeInv, StoreTypes
<1> QED BY <1>1, <1>2 DEF RowsMove, Lacking, Stored
-----------------------------------------------------------------------------
(* Where the walk is.                                                       *)

LEMMA StoredBounds ==
  ASSUME TypeInv, Stored # {}
  PROVE  /\ Min(Stored) \in 1..MaxHeight /\ Max(Stored) \in 1..MaxHeight /\ Min(Stored) <= Max(Stored)
         /\ \A h \in Stored : Min(Stored) <= h /\ h <= Max(Stored)
<1>1. Stored \in SUBSET Nat /\ Stored \in SUBSET (0..MaxHeight) /\ Stored \subseteq 1..MaxHeight
  BY Sizes DEF Stored, Heights
<1>2. Min(Stored) \in Stored /\ \A h \in Stored : Min(Stored) <= h
  BY <1>1, MinOfHeights
<1>3. Max(Stored) \in Stored /\ \A h \in Stored : h <= Max(Stored)
  BY <1>1, MaxOfHeights, Sizes
<1> QED BY <1>1, <1>2, <1>3

LEMMA WindowEnds ==
  ASSUME TypeInv, PositionInv, walk.pc \in Working
  PROVE  /\ Lowest \in 1..MaxHeight /\ Highest \in 1..MaxHeight
         /\ walk.lo <= Lowest /\ Lowest <= walk.at /\ walk.at <= Highest /\ Highest <= walk.hi
         /\ IF Down THEN Highest = walk.at ELSE Lowest = walk.at
<1>1. /\ walk.lo \in 0..MaxHeight /\ walk.hi \in 0..MaxHeight /\ walk.at \in Int
      /\ 1 <= walk.lo /\ walk.lo <= walk.at /\ walk.at <= walk.hi /\ Window \in Nat \ {0}
      /\ MaxHeight \in Nat
  BY Sizes DEF TypeInv, WalkType, PositionInv, Working
<1>2. walk.at - Window + 1 \in Int /\ walk.at + Window - 1 \in Int
      /\ walk.lo \in Int /\ walk.hi \in Int
  BY <1>1
<1>3. CASE Down
  <2>1. Lowest \in {walk.lo, walk.at - Window + 1} /\ Lowest >= walk.lo /\ Highest = walk.at
    BY <1>2, <1>3, MaxOfTwo DEF Lowest, Highest
  <2>2. Lowest \in Int /\ Highest \in Int /\ Lowest <= walk.at /\ walk.at <= Highest
    BY <1>1, <1>2, <2>1
  <2> QED BY <1>1, <1>3, <2>1, <2>2 DEF Down
<1>4. CASE ~Down
  <2>1. Highest \in {walk.hi, walk.at + Window - 1} /\ Highest <= walk.hi /\ Lowest = walk.at
    BY <1>2, <1>4, MinOfTwo DEF Lowest, Highest
  <2>2. Lowest \in Int /\ Highest \in Int /\ Lowest <= walk.at /\ walk.at <= Highest
    BY <1>1, <1>2, <2>1
  <2> QED BY <1>1, <1>4, <2>1, <2>2 DEF Down
<1> QED BY <1>3, <1>4

\* What the beginning of the loop leaves of the record.
LEMMA EnterStep ==
  ASSUME TypeInv, NEW a \in Int, Enter(a)
  PROVE  /\ walk' \in WalkType
         /\ walk'.lo = walk.lo /\ walk'.hi = walk.hi /\ walk'.at = a
         /\ walk'.todo = walk.todo /\ walk'.got = walk.got /\ walk'.skipped = walk.skipped
         /\ walk'.stalled = walk.stalled
         /\ \/ walk'.pc = "window" /\ walk.lo <= a /\ a <= walk.hi /\ walk'.whole = FALSE
            \/ walk'.pc = "over" /\ ~(walk.lo <= a /\ a <= walk.hi) /\ walk'.whole = TRUE
<1>1. walk.lo \in Int /\ walk.hi \in Int /\ (a \in walk.lo..walk.hi <=> walk.lo <= a /\ a <= walk.hi)
  BY Sizes DEF TypeInv, WalkType
<1> QED BY <1>1 DEF Enter, TypeInv, WalkType, Phases, Working

LEMMA ReadMarkEnters ==
  ASSUME TypeInv, PositionInv, ReadMark
  PROVE  \/ Abort
         \/ kind = "fees" /\ Enter(walk.lo)
         \/ kind = "fees" /\ mark >= walk.lo /\ Enter(mark + 1)
         \/ kind = "builders" /\ Enter(walk.hi)
         \/ kind = "builders" /\ mark # None /\ mark <= walk.hi /\ Enter(mark - 1)
<1>1. CASE kind = "builders" /\ ReadFloor
  BY <1>1 DEF ReadFloor
<1>2. CASE kind = "fees" /\ ReadWatermark
  BY <1>2 DEF ReadWatermark
<1> QED BY <1>1, <1>2 DEF ReadMark

LEMMA BeginningTypes ==
  ASSUME TypeInv, PositionInv, ReadBounds \/ ReadMark \/ ReadDefinitions \/ Claim
  PROVE  TypeInv'
<1>1. walk.lo \in Int /\ walk.hi \in Int /\ mark \in Int /\ mark - 1 \in Int /\ mark + 1 \in Int
  BY Sizes DEF TypeInv, WalkType, StoreTypes
<1>2. Abort => walk' \in WalkType
  BY DEF Abort, TypeInv, WalkType, Phases
<1>3. CASE ReadBounds
  <2>1. StoreTypes'
    BY <1>3 DEF ReadBounds, Unchanged, storeVars, markVars, TypeInv, StoreTypes
  <2>2. ASSUME Stored # {} PROVE Min(Stored) \in 0..MaxHeight /\ Max(Stored) \in 0..MaxHeight
    BY <2>2, StoredBounds, Sizes
  <2>3. walk' \in WalkType
    BY <1>2, <1>3, <2>2 DEF ReadBounds, TypeInv, WalkType, Phases
  <2> QED BY <2>1, <2>3 DEF TypeInv
<1>4. CASE ReadMark
  <2>1. StoreTypes'
    BY <1>4 DEF ReadMark, Unchanged, storeVars, markVars, TypeInv, StoreTypes
  <2>2. walk' \in WalkType
    BY <1>1, <1>2, <1>4, ReadMarkEnters, EnterStep
  <2> QED BY <2>1, <2>2 DEF TypeInv
<1>5. CASE ReadDefinitions
  <2>1. StoreTypes'
    BY <1>5 DEF ReadDefinitions, Unchanged, storeVars, markVars, TypeInv, StoreTypes
  <2>2. \A a \in Int : Enter(a) => walk' \in WalkType
    BY EnterStep
  <2>3. (IF mark >= walk.lo THEN mark ELSE walk.lo) \in Int
    BY <1>1
  <2>4. ASSUME NEW fp \in {0, defs} PROVE [walk EXCEPT !.pc = "claim", !.fp = fp] \in WalkType
    <3>1. fp \in Nat
      BY DEF TypeInv, StoreTypes
    <3> QED BY <3>1 DEF TypeInv, WalkType, Phases
  <2>5. walk' \in WalkType
    BY <1>5, <2>2, <2>3, <2>4 DEF ReadDefinitions
  <2> QED BY <2>1, <2>5 DEF TypeInv
<1>6. CASE Claim
  <2>1. StoreTypes'
    BY <1>6 DEF Claim, Unchanged, storeVars, markVars, TypeInv, StoreTypes, WalkType
  <2>2. walk' \in WalkType
    BY <1>1, <1>6, EnterStep DEF Claim
  <2> QED BY <2>1, <2>2 DEF TypeInv
<1> QED BY <1>3, <1>4, <1>5, <1>6

LEMMA GotType ==
  ASSUME TypeInv, NEW good \in SUBSET walk.todo
  PROVE  /\ [h \in {b.height : b \in good} |-> NodeBlock(h)] \in Fetched
         /\ {b.height : b \in good} \subseteq Heights
<1>1. \A b \in good : b.height \in Heights
  BY DEF TypeInv, WalkType
<1>2. {b.height : b \in good} \in SUBSET Heights
  BY <1>1
<1>3. \A h \in {b.height : b \in good} : NodeBlock(h) \in 1..2
  BY <1>2, NodeBlockType
<1> DEFINE S == {b.height : b \in good}
<1>4. [h \in S |-> NodeBlock(h)] \in [S -> 1..2]
  BY <1>3
<1>5. S \in SUBSET Heights
  BY <1>2
<1> QED BY <1>4, <1>5 DEF Fetched

LEMMA NextBatchType ==
  ASSUME TypeInv
  PROVE  /\ NextBatch \in WalkType /\ NextBatch.todo = walk.todo \ Chunk
         /\ NextBatch.pc = "batch" /\ NextBatch.skipped = walk.skipped
         /\ NextBatch.lo = walk.lo /\ NextBatch.hi = walk.hi /\ NextBatch.at = walk.at
         /\ NextBatch.stalled = walk.stalled /\ NextBatch.whole = walk.whole
         /\ NextBatch.got = Nothing /\ DOMAIN Nothing = {}
<1>1. Nothing \in [{} -> 1..2] /\ {} \in SUBSET Heights /\ DOMAIN Nothing = {}
  BY DEF Nothing
<1>2. Nothing \in Fetched
  BY <1>1 DEF Fetched
<1>3. walk.todo \ Chunk \in SUBSET [height : Heights, branch : 0..2]
  BY DEF TypeInv, WalkType
<1> HIDE DEF Nothing, Chunk
<1> QED BY <1>1, <1>2, <1>3 DEF NextBatch, TypeInv, WalkType, Phases, Working

LEMMA GotDomain ==
  ASSUME TypeInv
  PROVE  DOMAIN walk.got \subseteq Heights /\ \A h \in DOMAIN walk.got : walk.got[h] \in 1..2
<1>1. PICK S \in SUBSET Heights : walk.got \in [S -> 1..2]
  BY DEF TypeInv, WalkType, Fetched
<1> QED BY <1>1

\* A write fills heights whose blocks were fetched, ends the batch or the walk.
LEMMA WriteStep ==
  ASSUME TypeInv, Write
  PROVE  /\ TypeInv'
         /\ \A h \in Heights : filled'[h] = filled[h] \/ (filled[h] = 0 /\ filled'[h] = walk.got[h] /\ h \in DOMAIN walk.got)
         /\ \/ Abort
            \/ /\ walk'.pc = "batch" /\ walk'.todo = walk.todo \ Chunk /\ DOMAIN walk'.got = {}
               /\ walk.skipped \subseteq walk'.skipped
               /\ walk'.lo = walk.lo /\ walk'.hi = walk.hi /\ walk'.at = walk.at
               /\ walk'.stalled = walk.stalled /\ walk'.whole = walk.whole
               /\ \A h \in DOMAIN walk.got : h \in walk'.skipped \/ filled'[h] # 0
<1> USE NextBatchType, GotDomain
<1> DEFINE D == DOMAIN walk.got
<1>0. UNCHANGED <<kind, node, rows, defs, mark, claimed, epoch>>
  BY DEF Write, markVars
<1>1. ASSUME NEW H \in SUBSET D, walk' = [NextBatch EXCEPT !.skipped = @ \cup H]
      PROVE  /\ walk' \in WalkType /\ walk'.pc = "batch" /\ walk'.todo = walk.todo \ Chunk
             /\ DOMAIN walk'.got = {} /\ walk'.skipped = walk.skipped \cup H
             /\ walk'.lo = walk.lo /\ walk'.hi = walk.hi /\ walk'.at = walk.at
             /\ walk'.stalled = walk.stalled /\ walk'.whole = walk.whole
  <2>1. walk.skipped \cup H \in SUBSET Heights
    BY DEF TypeInv, WalkType
  <2> DEFINE w == NextBatch
  <2>2. w \in WalkType /\ w.skipped = walk.skipped
    OBVIOUS
  <2> HIDE DEF w
  <2>3. walk' = [w EXCEPT !.skipped = walk.skipped \cup H]
    BY <1>1, <2>2 DEF w
  <2>4. walk' \in WalkType
    BY <2>1, <2>2, <2>3 DEF WalkType
  <2>5. /\ walk'.pc = w.pc /\ walk'.todo = w.todo /\ walk'.got = w.got
        /\ walk'.skipped = walk.skipped \cup H
        /\ walk'.lo = w.lo /\ walk'.hi = w.hi /\ walk'.at = w.at
        /\ walk'.stalled = w.stalled /\ walk'.whole = w.whole
    BY <2>2, <2>3 DEF WalkType
  <2> QED BY <2>4, <2>5 DEF w
<1>2. CASE Stale /\ UNCHANGED filled /\ walk' = [NextBatch EXCEPT !.skipped = @ \cup D]
  <2>1. /\ walk' \in WalkType /\ walk'.pc = "batch" /\ walk'.todo = walk.todo \ Chunk /\ DOMAIN walk'.got = {}
        /\ walk'.skipped = walk.skipped \cup D
        /\ walk'.lo = walk.lo /\ walk'.hi = walk.hi /\ walk'.at = walk.at
        /\ walk'.stalled = walk.stalled /\ walk'.whole = walk.whole
    BY <1>1, <1>2
  <2>2. StoreTypes' /\ filled' = filled
    BY <1>0, <1>2 DEF TypeInv, StoreTypes
  <2>3. walk.skipped \subseteq walk'.skipped /\ D \subseteq walk'.skipped
    BY <2>1
  <2> QED BY <2>1, <2>2, <2>3 DEF TypeInv
<1>3. ASSUME NEW H \in SUBSET Fillable,
             filled' = [h \in Heights |-> IF h \in H THEN walk.got[h] ELSE filled[h]],
             walk' = [NextBatch EXCEPT !.skipped = @ \cup (D \ H)]
      PROVE  /\ TypeInv'
             /\ \A h \in Heights : filled'[h] = filled[h] \/ (filled[h] = 0 /\ filled'[h] = walk.got[h] /\ h \in D)
             /\ walk'.pc = "batch" /\ walk'.todo = walk.todo \ Chunk /\ DOMAIN walk'.got = {}
             /\ walk'.skipped = walk.skipped \cup (D \ H)
             /\ walk'.lo = walk.lo /\ walk'.hi = walk.hi /\ walk'.at = walk.at
             /\ walk'.stalled = walk.stalled /\ walk'.whole = walk.whole
             /\ \A h \in D : h \in walk'.skipped \/ filled'[h] # 0
  <2>1. H \subseteq D /\ D \ H \in SUBSET D /\ \A h \in H : filled[h] = 0
    BY <1>3 DEF Fillable
  <2>2. \A h \in H : walk.got[h] \in 1..2 /\ h \in Heights
    BY <2>1
  <2>3. filled' \in [Heights -> Nat]
    BY <1>3, <2>2 DEF TypeInv, StoreTypes
  <2>4. StoreTypes'
    BY <1>0, <2>3 DEF TypeInv, StoreTypes
  <2>5. \A h \in D : h \in D \ H \/ filled'[h] # 0
    BY <1>3, <2>1, <2>2
  <2>6. \A h \in Heights : filled'[h] = filled[h] \/ (filled[h] = 0 /\ filled'[h] = walk.got[h] /\ h \in D)
    <3> TAKE h \in Heights
    <3>1. CASE h \in H
      BY <1>3, <2>1, <3>1
    <3>2. CASE h \notin H
      BY <1>3, <3>2
    <3> QED BY <3>1, <3>2
  <2>7. /\ walk' \in WalkType /\ walk'.pc = "batch" /\ walk'.todo = walk.todo \ Chunk /\ DOMAIN walk'.got = {}
        /\ walk'.skipped = walk.skipped \cup (D \ H)
        /\ walk'.lo = walk.lo /\ walk'.hi = walk.hi /\ walk'.at = walk.at
        /\ walk'.stalled = walk.stalled /\ walk'.whole = walk.whole
    BY <1>1, <1>3, <2>1
  <2>8. walk.skipped \subseteq walk'.skipped /\ D \ H \subseteq walk'.skipped
    BY <2>7
  <2> QED BY <2>4, <2>5, <2>6, <2>7, <2>8 DEF TypeInv
<1>4. CASE Abort /\ UNCHANGED filled
  <2>1. StoreTypes' /\ filled' = filled
    BY <1>0, <1>4 DEF TypeInv, StoreTypes
  <2>2. walk' \in WalkType
    BY <1>4 DEF Abort, TypeInv, WalkType, Phases
  <2> QED BY <1>4, <2>1, <2>2 DEF TypeInv
<1>5. CASE ~Stale /\ \E H \in SUBSET Fillable :
               /\ filled' = [h \in Heights |-> IF h \in H THEN walk.got[h] ELSE filled[h]]
               /\ walk' = [NextBatch EXCEPT !.skipped = @ \cup (D \ H)]
  <2>1. PICK H \in SUBSET Fillable :
               /\ filled' = [h \in Heights |-> IF h \in H THEN walk.got[h] ELSE filled[h]]
               /\ walk' = [NextBatch EXCEPT !.skipped = @ \cup (D \ H)]
    BY <1>5
  <2> QED BY <1>3, <2>1
<1> QED BY <1>2, <1>4, <1>5 DEF Write

LEMMA ListedType ==
  ASSUME TypeInv, NEW S \in SUBSET Heights
  PROVE  {[height |-> h, branch |-> rows[h]] : h \in S} \in SUBSET [height : Heights, branch : 0..2]
<1>1. \A h \in S : rows[h] \in 0..2
  BY DEF TypeInv, StoreTypes
<1> QED BY <1>1

LEMMA WindowTypes ==
  ASSUME TypeInv, PositionInv,
         List \/ BeginBatch \/ Fetch \/ Recheck \/ Recompute \/ Advance \/ Crash
  PROVE  TypeInv'
<1>1. Abort => walk' \in WalkType
  BY DEF Abort, TypeInv, WalkType, Phases
<1>2. CASE List
  <2>1. Lacking \cap (Lowest..Highest) \in SUBSET Heights
    BY DEF Lacking, Stored
  <2>2. {[height |-> h, branch |-> rows[h]] : h \in Lacking \cap (Lowest..Highest)}
          \in SUBSET [height : Heights, branch : 0..2]
    BY <2>1, ListedType
  <2> DEFINE listed == {[height |-> h, branch |-> rows[h]] : h \in Lacking \cap (Lowest..Highest)}
  <2>3. \A p \in {"complete", "batch"} : [walk EXCEPT !.pc = p, !.todo = listed] \in WalkType
    <3> HIDE DEF listed
    <3> QED BY <2>2 DEF TypeInv, WalkType, Phases, Working, listed
  <2>4. walk' \in WalkType
    BY <1>1, <1>2, <2>3 DEF List
  <2>5. StoreTypes'
    BY <1>2 DEF List, Unchanged, storeVars, markVars, TypeInv, StoreTypes
  <2> QED BY <2>4, <2>5 DEF TypeInv
<1>3. CASE BeginBatch
  <2>1. walk' \in WalkType
    BY <1>3 DEF BeginBatch, TypeInv, StoreTypes, WalkType, Phases, Working
  <2>2. StoreTypes'
    BY <1>3 DEF BeginBatch, Unchanged, storeVars, markVars, TypeInv, StoreTypes
  <2> QED BY <2>1, <2>2 DEF TypeInv
<1>4. CASE Fetch
  <2>1. PICK failed \in SUBSET Chunk :
          LET good == {b \in Chunk \ failed : Matches(b)}
          IN walk' = [walk EXCEPT !.pc = "write",
                                  !.got = [h \in {b.height : b \in good} |-> NodeBlock(h)],
                                  !.skipped = @ \cup {b.height : b \in Chunk \ good}]
    BY <1>4 DEF Fetch
  <2> DEFINE good == {b \in Chunk \ failed : Matches(b)}
             fetched == [h \in {b.height : b \in good} |-> NodeBlock(h)]
             left == {b.height : b \in Chunk \ good}
  <2>2. good \in SUBSET walk.todo /\ Chunk \ good \in SUBSET walk.todo
    BY DEF Chunk
  <2>3. fetched \in Fetched /\ left \subseteq Heights
    BY <2>2, GotType
  <2>4. walk' = [walk EXCEPT !.pc = "write", !.got = fetched, !.skipped = @ \cup left]
    BY <2>1
  <2> HIDE DEF good, fetched, left
  <2>5. walk' \in WalkType
    BY <2>3, <2>4 DEF TypeInv, WalkType, Phases, Working
  <2>6. StoreTypes'
    BY <1>4 DEF Fetch, Unchanged, storeVars, markVars, TypeInv, StoreTypes
  <2> QED BY <2>5, <2>6 DEF TypeInv
<1>5. CASE Recheck
  <2>1. walk' \in WalkType
    BY <1>1, <1>5 DEF Recheck, TypeInv, WalkType, Phases, Working
  <2>2. StoreTypes'
    BY <1>5 DEF Recheck, Unchanged, storeVars, markVars, TypeInv, StoreTypes
  <2> QED BY <2>1, <2>2 DEF TypeInv
<1>6. CASE Recompute
  <2>1. walk' \in WalkType
    BY <1>1, <1>6 DEF Recompute, TypeInv, WalkType, Phases, Working
  <2>2. filled' \in [Heights -> Nat]
    BY <1>6 DEF Recompute, TypeInv, StoreTypes
  <2>3. StoreTypes'
    BY <1>6, <2>2 DEF Recompute, markVars, TypeInv, StoreTypes
  <2> QED BY <2>1, <2>3 DEF TypeInv
<1>7. CASE Advance
  <2>1. walk.pc \in Working
    BY <1>7 DEF Advance, Working
  <2>2. Lowest \in 1..MaxHeight /\ Highest \in 1..MaxHeight /\ Following \in Int
    BY <2>1, WindowEnds DEF Following
  <2>3. StalledNow \in BOOLEAN
    BY DEF StalledNow, TypeInv, WalkType
  <2>4. walk' \in WalkType
    <3> HIDE DEF StalledNow, Following
    <3> QED BY <1>7, <2>2, <2>3 DEF Advance, TypeInv, WalkType, Phases, Working
  <2>5. mark' \in Nat
    BY <1>7, <2>2, Sizes DEF Advance, TypeInv, StoreTypes
  <2>6. StoreTypes'
    BY <1>7, <2>5 DEF Advance, Unchanged, storeVars, TypeInv, StoreTypes
  <2> QED BY <2>4, <2>6 DEF TypeInv
<1>8. CASE Crash
  <2>1. Off \in WalkType
    <3>1. Nothing \in [{} -> 1..2] /\ {} \in SUBSET Heights
      BY DEF Nothing
    <3>2. Nothing \in Fetched
      BY <3>1 DEF Fetched
    <3> HIDE DEF Nothing
    <3> QED BY <3>2, Sizes DEF Off, WalkType, Phases
  <2>2. StoreTypes'
    BY <1>8 DEF Crash, storeVars, markVars, TypeInv, StoreTypes
  <2> QED BY <1>8, <2>1, <2>2 DEF Crash, TypeInv
<1> QED BY <1>2, <1>3, <1>4, <1>5, <1>6, <1>7, <1>8

\* The walk takes no row, and empties none.
LEMMA WalkStore ==
  ASSUME TypeInv, WalkNext \/ Crash
  PROVE  /\ UNCHANGED <<kind, node, rows, defs>>
         /\ \A h \in Heights : filled'[h] = 0 => filled[h] = 0
         /\ Lacking' \subseteq Lacking
<1>1. UNCHANGED <<kind, node, rows, defs>> /\ \A h \in Heights : filled'[h] = 0 => filled[h] = 0
  <2>1. CASE Write
    <3>1. \A h \in DOMAIN walk.got : walk.got[h] # 0
      BY GotDomain
    <3> QED BY <2>1, <3>1, WriteStep DEF Write
  <2>2. CASE Recompute
    BY <2>2 DEF Recompute, TypeInv, StoreTypes
  <2>3. CASE Crash
    BY <2>3 DEF Crash, storeVars
  <2>4. CASE ReadBounds \/ ReadMark \/ ReadDefinitions \/ Claim \/ List \/ BeginBatch \/ Fetch \/ Recheck \/ Advance
    BY <2>4 DEF ReadBounds, ReadMark, ReadDefinitions, Claim, List, BeginBatch, Fetch, Recheck, Advance,
                Unchanged, storeVars
  <2> QED BY <2>1, <2>2, <2>3, <2>4 DEF WalkNext
<1> QED BY <1>1 DEF Lacking, Stored

LEMMA AbortPosition ==
  ASSUME TypeInv, PositionInv, Abort, kind' = kind, ~walk.whole \/ walk.pc = "over"
  PROVE  PositionInv'
<1> QED BY DEF Abort, PositionInv, TypeInv, WalkType, Working

LEMMA ElsewherePosition ==
  ASSUME TypeInv, PositionInv, Elsewhere
  PROVE  PositionInv'
<1>1. UNCHANGED <<kind, walk>> /\ Lacking' \subseteq Lacking
  BY ElsewhereStep, LackingKept
<1> QED BY <1>1 DEF PositionInv

LEMMA BeginningPosition ==
  ASSUME TypeInv, PositionInv, ReadBounds \/ ReadMark \/ ReadDefinitions \/ Claim
  PROVE  PositionInv'
<1>1. kind' = kind /\ rows' = rows /\ Lacking' \subseteq Lacking
  BY WalkStore DEF WalkNext
<1>2. Lacking \subseteq Stored
  BY DEF Lacking
<1>3. CASE ReadBounds
  <2>1. walk.pc = "off" /\ ~walk.whole
    BY <1>3 DEF ReadBounds, PositionInv
  <2>2. CASE Abort
    BY <1>1, <2>1, <2>2, AbortPosition
  <2>3. CASE /\ Stored # {}
             /\ walk' = [walk EXCEPT !.pc = IF kind = "streaks" THEN "definitions" ELSE "mark",
                                     !.lo = Min(Stored), !.hi = Max(Stored)]
    <3> DEFINE a == Min(Stored)
               b == Max(Stored)
    <3>1. 1 <= a /\ a <= b /\ \A h \in Lacking : a <= h /\ h <= b
      BY <1>2, <2>3, StoredBounds
    <3> HIDE DEF a, b
    <3>2. walk' = [walk EXCEPT !.pc = IF kind = "streaks" THEN "definitions" ELSE "mark", !.lo = a, !.hi = b]
      BY <2>3 DEF a, b
    <3>3. /\ walk'.pc = (IF kind = "streaks" THEN "definitions" ELSE "mark")
          /\ walk'.lo = a /\ walk'.hi = b /\ walk'.skipped = walk.skipped
          /\ walk'.stalled = walk.stalled /\ walk'.whole = walk.whole
      BY <3>2 DEF TypeInv, WalkType
    <3> QED BY <1>1, <2>1, <3>1, <3>3 DEF PositionInv, Working
  <2> QED BY <1>3, <2>2, <2>3 DEF ReadBounds
<1>4. ASSUME NEW a \in Int, Enter(a), walk.pc \in {"mark", "definitions", "claim"} PROVE PositionInv'
  <2>1. walk.stalled \in BOOLEAN /\ (kind = "streaks" => ~walk.stalled)
         /\ 1 <= walk.lo /\ walk.lo <= walk.hi
         /\ (kind # "streaks" => \A h \in Lacking : walk.lo <= h /\ h <= walk.hi)
    BY <1>4 DEF TypeInv, WalkType, PositionInv
  <2> QED BY <1>1, <1>4, <2>1, EnterStep DEF PositionInv, Working
<1>5. CASE ReadMark
  <2>1. walk.pc = "mark" /\ ~walk.whole
    BY <1>5 DEF ReadMark, PositionInv
  <2>2. walk.lo \in Int /\ walk.hi \in Int /\ mark + 1 \in Int /\ mark - 1 \in Int
    BY DEF TypeInv, WalkType, StoreTypes
  <2> QED BY <1>1, <1>4, <1>5, <2>1, <2>2, ReadMarkEnters, AbortPosition
<1>6. CASE ReadDefinitions
  <2>1. walk.pc = "definitions" /\ ~walk.whole /\ kind = "streaks"
    BY <1>6 DEF ReadDefinitions, PositionInv
  <2>2. (IF mark >= walk.lo THEN mark ELSE walk.lo) \in Int
    BY DEF TypeInv, WalkType, StoreTypes
  <2>3. ASSUME NEW fp \in {0, defs}, walk' = [walk EXCEPT !.pc = "claim", !.fp = fp] PROVE PositionInv'
    BY <1>1, <2>1, <2>3 DEF PositionInv, TypeInv, WalkType, Working
  <2> QED BY <1>4, <1>6, <2>1, <2>2, <2>3 DEF ReadDefinitions
<1>7. CASE Claim
  <2>1. walk.pc = "claim" /\ walk.lo \in Int
    BY <1>7 DEF Claim, TypeInv, WalkType
  <2> QED BY <1>4, <1>7, <2>1 DEF Claim
<1> QED BY <1>3, <1>5, <1>6, <1>7

\* Steps inside a window stay at its place.
LEMMA SamePosition ==
  ASSUME TypeInv, PositionInv, kind' = kind, Lacking' \subseteq Lacking,
         walk.pc \in Working, walk'.pc \in Working, kind = "streaks" => walk'.pc = "complete",
         walk'.lo = walk.lo, walk'.hi = walk.hi, walk'.at = walk.at,
         walk'.stalled = walk.stalled, walk'.whole = walk.whole
  PROVE  PositionInv'
<1> QED BY DEF PositionInv, Working

LEMMA WindowPosition ==
  ASSUME TypeInv, PositionInv,
         List \/ BeginBatch \/ Fetch \/ Write \/ Recheck \/ Recompute \/ Advance \/ Crash
  PROVE  PositionInv'
<1>1. kind' = kind /\ Lacking' \subseteq Lacking
  BY WalkStore DEF WalkNext
<1>2. ASSUME walk.pc \in Working PROVE ~walk.whole
  BY <1>2 DEF PositionInv, Working
<1>3. ASSUME walk.pc \in Working, Abort PROVE PositionInv'
  BY <1>1, <1>2, <1>3, AbortPosition
<1>4. CASE List
  <2>1. walk.pc = "window" /\ kind # "streaks"
    BY <1>4 DEF List
  <2>2. CASE Abort
    BY <1>3, <2>1, <2>2 DEF Working
  <2>3. ASSUME NEW p \in {"complete", "batch"}, NEW t, walk' = [walk EXCEPT !.pc = p, !.todo = t]
        PROVE  PositionInv'
    <3>1. /\ walk'.pc = p /\ walk'.lo = walk.lo /\ walk'.hi = walk.hi /\ walk'.at = walk.at
          /\ walk'.stalled = walk.stalled /\ walk'.whole = walk.whole
      BY <2>3 DEF TypeInv, WalkType
    <3> QED BY <1>1, <2>1, <3>1, SamePosition DEF Working
  <2> QED BY <1>4, <2>2, <2>3 DEF List
<1>5. CASE BeginBatch
  <2>1. /\ walk.pc = "batch" /\ walk'.pc \in {"recheck", "fetch"}
        /\ walk'.lo = walk.lo /\ walk'.hi = walk.hi /\ walk'.at = walk.at
        /\ walk'.stalled = walk.stalled /\ walk'.whole = walk.whole
    BY <1>5 DEF BeginBatch, TypeInv, WalkType
  <2>2. kind # "streaks"
    BY <2>1 DEF PositionInv, Working
  <2> QED BY <1>1, <2>1, <2>2, SamePosition DEF Working
<1>6. CASE Fetch
  <2>1. walk.pc = "fetch" /\ kind # "streaks"
    BY <1>6 DEF Fetch, PositionInv, Working
  <2>2. PICK got, skipped : walk' = [walk EXCEPT !.pc = "write", !.got = got, !.skipped = skipped]
    BY <1>6 DEF Fetch
  <2>3. /\ walk'.pc = "write" /\ walk'.lo = walk.lo /\ walk'.hi = walk.hi /\ walk'.at = walk.at
        /\ walk'.stalled = walk.stalled /\ walk'.whole = walk.whole
    BY <2>2 DEF TypeInv, WalkType
  <2> QED BY <1>1, <2>1, <2>3, SamePosition DEF Working
<1>7. CASE Write
  <2>1. walk.pc = "write" /\ kind # "streaks"
    BY <1>7 DEF Write, PositionInv, Working
  <2>2. CASE Abort
    BY <1>3, <2>1, <2>2 DEF Working
  <2>3. CASE walk'.pc = "batch" /\ walk'.lo = walk.lo /\ walk'.hi = walk.hi /\ walk'.at = walk.at
             /\ walk'.stalled = walk.stalled /\ walk'.whole = walk.whole
    BY <1>1, <2>1, <2>3, SamePosition DEF Working
  <2> QED BY <1>7, <2>2, <2>3, WriteStep
<1>8. CASE Recheck
  <2>1. walk.pc = "recheck" /\ kind # "streaks"
    BY <1>8 DEF Recheck, PositionInv, Working
  <2>2. CASE Abort
    BY <1>3, <2>1, <2>2 DEF Working
  <2>3. ASSUME NEW p \in {"complete", "incomplete"}, walk' = [walk EXCEPT !.pc = p] PROVE PositionInv'
    <3>1. /\ walk'.pc = p /\ walk'.lo = walk.lo /\ walk'.hi = walk.hi /\ walk'.at = walk.at
          /\ walk'.stalled = walk.stalled /\ walk'.whole = walk.whole
      BY <2>3 DEF TypeInv, WalkType
    <3> QED BY <1>1, <2>1, <3>1, SamePosition DEF Working
  <2> QED BY <1>8, <2>2, <2>3 DEF Recheck
<1>9. CASE Recompute
  <2>1. walk.pc = "window" /\ kind = "streaks"
    BY <1>9 DEF Recompute
  <2>2. CASE Abort
    BY <1>3, <2>1, <2>2 DEF Working
  <2>3. CASE walk' = [walk EXCEPT !.pc = "complete"]
    <3>1. /\ walk'.pc = "complete" /\ walk'.lo = walk.lo /\ walk'.hi = walk.hi /\ walk'.at = walk.at
          /\ walk'.stalled = walk.stalled /\ walk'.whole = walk.whole
      BY <2>3 DEF TypeInv, WalkType
    <3> QED BY <1>1, <2>1, <3>1, SamePosition DEF Working
  <2> QED BY <1>9, <2>2, <2>3 DEF Recompute
<1>10. CASE Advance
  <2>1. walk.pc \in {"complete", "incomplete"} /\ walk.pc \in Working
    BY <1>10 DEF Advance, Working
  <2>2. Following \in Int
    BY <2>1, WindowEnds DEF Following
  <2>3. /\ walk'.pc = (IF Following \in walk.lo..walk.hi THEN "window" ELSE "over")
        /\ walk'.lo = walk.lo /\ walk'.hi = walk.hi /\ walk'.at = Following
        /\ (kind = "streaks" => walk'.stalled = FALSE)
        /\ (Following \in walk.lo..walk.hi => walk'.whole = FALSE)
    <3>1. kind = "streaks" => StalledNow = FALSE
      BY <2>1 DEF TypeInv, WalkType, PositionInv, StalledNow, Working
    <3> HIDE DEF Following, StalledNow
    <3> QED BY <1>10, <3>1 DEF Advance, TypeInv, WalkType
  <2>4. walk.lo \in Int /\ walk.hi \in Int /\ 1 <= walk.lo /\ walk.lo <= walk.hi
         /\ (kind # "streaks" => \A h \in Lacking : walk.lo <= h /\ h <= walk.hi)
    BY <2>1 DEF TypeInv, WalkType, PositionInv, Working
  <2> HIDE DEF Following
  <2> QED BY <1>1, <2>2, <2>3, <2>4 DEF PositionInv, Working
<1>11. CASE Crash
  BY <1>11 DEF Crash, Off, PositionInv, Working
<1> QED BY <1>4, <1>5, <1>6, <1>7, <1>8, <1>9, <1>10, <1>11
-----------------------------------------------------------------------------
(* The checkpoints are true.                                                *)

LEMMA MarkKept ==
  ASSUME CheckpointsTrue, kind' = kind, mark' = mark, Lacking' \subseteq Lacking
  PROVE  CheckpointsTrue'
<1> QED BY DEF CheckpointsTrue

LEMMA CheckOver ==
  ASSUME CheckInv, kind' = kind, mark' = mark, Lacking' \subseteq Lacking, walk'.pc \notin Working
  PROVE  CheckInv'
<1>1. CheckpointsTrue'
  BY MarkKept DEF CheckInv
<1> QED BY <1>1 DEF CheckInv, Working

\* Steps inside a window, which do not complete it.
LEMMA CheckSame ==
  ASSUME CheckInv, kind' = kind, mark' = mark, Lacking' \subseteq Lacking,
         walk.pc \in Working, walk'.pc # "complete", walk'.at = walk.at, walk'.stalled = walk.stalled
  PROVE  CheckInv'
<1>1. CheckpointsTrue'
  BY MarkKept DEF CheckInv
<1>2. \A h : Ahead(h) <=> Ahead(h)'
  BY DEF Ahead, Down
<1> QED BY <1>1, <1>2 DEF CheckInv

LEMMA CheckComplete ==
  ASSUME CheckInv, kind' = kind, mark' = mark, Lacking' \subseteq Lacking,
         walk.pc \in Working, walk'.at = walk.at, walk'.lo = walk.lo, walk'.hi = walk.hi,
         walk'.stalled = walk.stalled, \A h \in Lacking' : h < Lowest \/ Highest < h
  PROVE  CheckInv'
<1>1. CheckpointsTrue'
  BY MarkKept DEF CheckInv
<1>2. (\A h : Ahead(h) <=> Ahead(h)') /\ Lowest' = Lowest /\ Highest' = Highest
  BY DEF Ahead, Down, Lowest, Highest
<1>3. \A h \in Lacking' : h < Lowest' \/ Highest' < h
  BY <1>2
<1> HIDE DEF Lowest, Highest
<1> QED BY <1>1, <1>2, <1>3 DEF CheckInv

\* Where a walk begins, nothing is lacking behind it.
LEMMA BeginsAhead ==
  ASSUME TypeInv, PositionInv, CheckInv, ReadMark
  PROVE  \/ Abort
         \/ \E a \in Int : /\ Enter(a)
                           /\ IF Down THEN a <= walk.hi /\ \A h \in Lacking : h <= a
                                      ELSE walk.lo <= a /\ \A h \in Lacking : a <= h
<1>1. walk.pc = "mark" /\ kind # "streaks" /\ walk.lo \in Int /\ walk.hi \in Int /\ mark \in Int
  BY DEF ReadMark, PositionInv, TypeInv, WalkType, StoreTypes
<1>2. \A h \in Lacking : walk.lo <= h /\ h <= walk.hi /\ h \in Int
  BY <1>1, Sizes DEF PositionInv, Lacking, Stored, Heights
<1>3. mark - 1 \in Int /\ mark + 1 \in Int
  BY <1>1
<1>4. CASE kind = "fees" /\ Enter(walk.lo)
  BY <1>1, <1>2, <1>4 DEF Down
<1>5. CASE kind = "fees" /\ mark >= walk.lo /\ Enter(mark + 1)
  <2>1. mark # None
    BY <1>1, <1>5 DEF None, PositionInv
  <2>2. \A h \in Lacking : mark + 1 <= h
    BY <1>1, <1>2, <1>5, <2>1 DEF CheckInv, CheckpointsTrue
  <2> QED BY <1>1, <1>3, <1>5, <2>2 DEF Down
<1>6. CASE kind = "builders" /\ Enter(walk.hi)
  BY <1>1, <1>2, <1>6 DEF Down
<1>7. CASE kind = "builders" /\ mark # None /\ mark <= walk.hi /\ Enter(mark - 1)
  <2>1. \A h \in Lacking : h <= mark - 1
    BY <1>1, <1>2, <1>7 DEF CheckInv, CheckpointsTrue
  <2> QED BY <1>1, <1>3, <1>7, <2>1 DEF Down
<1> QED BY <1>4, <1>5, <1>6, <1>7, ReadMarkEnters

LEMMA ElsewhereCheck ==
  ASSUME TypeInv, CheckInv, Elsewhere
  PROVE  CheckInv'
<1>1. UNCHANGED <<kind, mark, walk>> /\ Lacking' \subseteq Lacking
  BY ElsewhereStep, LackingKept
<1>2. CheckpointsTrue'
  BY <1>1, MarkKept DEF CheckInv
<1>3. (\A h : Ahead(h) <=> Ahead(h)') /\ Lowest' = Lowest /\ Highest' = Highest
  BY <1>1 DEF Ahead, Down, Lowest, Highest
<1> HIDE DEF Lowest, Highest
<1> QED BY <1>1, <1>2, <1>3 DEF CheckInv

LEMMA BeginningCheck ==
  ASSUME TypeInv, PositionInv, CheckInv, ReadBounds \/ ReadMark \/ ReadDefinitions \/ Claim
  PROVE  CheckInv'
<1>1. kind' = kind /\ Lacking' \subseteq Lacking
  BY WalkStore DEF WalkNext
<1>2. CASE ReadBounds
  <2>1. mark' = mark /\ walk'.pc \notin Working
    BY <1>2 DEF ReadBounds, Abort, markVars, TypeInv, WalkType, Working
  <2> QED BY <1>1, <2>1, CheckOver
<1>3. CASE ReadMark
  <2>1. mark' = mark /\ walk.pc = "mark" /\ kind # "streaks"
    BY <1>3 DEF ReadMark, markVars, PositionInv
  <2>2. CASE Abort
    <3>1. walk'.pc \notin Working
      BY <2>2 DEF Abort, TypeInv, WalkType, Working
    <3> QED BY <1>1, <2>1, <3>1, CheckOver
  <2>3. CASE \E a \in Int : /\ Enter(a)
                            /\ IF Down THEN a <= walk.hi /\ \A h \in Lacking : h <= a
                                       ELSE walk.lo <= a /\ \A h \in Lacking : a <= h
    <3>1. PICK a \in Int : /\ Enter(a)
                           /\ IF Down THEN a <= walk.hi /\ \A h \in Lacking : h <= a
                                      ELSE walk.lo <= a /\ \A h \in Lacking : a <= h
      BY <2>3
    <3>2. walk'.at = a /\ walk'.pc \in {"window", "over"}
      BY <3>1, EnterStep
    <3>3. \A h \in Lacking' : Ahead(h)'
      BY <1>1, <3>1, <3>2 DEF Ahead, Down
    <3>4. CheckpointsTrue'
      BY <1>1, <2>1, MarkKept DEF CheckInv
    <3> QED BY <1>1, <3>2, <3>3, <3>4 DEF CheckInv
  <2> QED BY <1>3, <2>2, <2>3, BeginsAhead
<1>4. CASE ReadDefinitions \/ Claim
  <2>1. kind = "streaks"
    BY <1>4 DEF ReadDefinitions, Claim, PositionInv
  <2> QED BY <1>1, <2>1 DEF CheckInv, CheckpointsTrue
<1> QED BY <1>2, <1>3, <1>4

LEMMA WindowCheck ==
  ASSUME TypeInv, PositionInv, CheckInv,
         List \/ BeginBatch \/ Fetch \/ Write \/ Recheck \/ Recompute \/ Advance \/ Crash
  PROVE  CheckInv'
<1>1. kind' = kind /\ Lacking' \subseteq Lacking
  BY WalkStore DEF WalkNext
<1>2. ASSUME Abort, mark' = mark PROVE CheckInv'
  <2>1. walk'.pc \notin Working
    BY <1>2 DEF Abort, TypeInv, WalkType, Working
  <2> QED BY <1>1, <1>2, <2>1, CheckOver
<1>3. CASE List
  <2>1. walk.pc \in Working /\ mark' = mark
    BY <1>3 DEF List, markVars, Working
  <2> DEFINE missing == Lacking \cap (Lowest..Highest)
             listed == {[height |-> h, branch |-> rows[h]] : h \in missing}
  <2>2. CASE walk' = [walk EXCEPT !.pc = IF missing = {} THEN "complete" ELSE "batch", !.todo = listed]
    <3> HIDE DEF missing, listed
    <3>1. /\ walk'.at = walk.at /\ walk'.lo = walk.lo /\ walk'.hi = walk.hi /\ walk'.stalled = walk.stalled
          /\ walk'.pc = (IF missing = {} THEN "complete" ELSE "batch")
      BY <2>2 DEF TypeInv, WalkType
    <3>2. CASE missing = {}
      <4>1. Lowest \in Int /\ Highest \in Int /\ \A h \in Lacking : h \in Int
        BY <2>1, WindowEnds, Sizes DEF Lacking, Stored, Heights
      <4>2. \A h \in Lacking' : h < Lowest \/ Highest < h
        BY <1>1, <3>2, <4>1 DEF missing
      <4> QED BY <1>1, <2>1, <3>1, <4>2, CheckComplete
    <3>3. CASE missing # {}
      BY <1>1, <2>1, <3>1, <3>3, CheckSame
    <3> QED BY <3>2, <3>3
  <2> QED BY <1>2, <1>3, <2>1, <2>2 DEF List
<1>4. CASE BeginBatch
  <2>1. walk.pc \in Working /\ mark' = mark /\ walk'.pc # "complete"
        /\ walk'.at = walk.at /\ walk'.stalled = walk.stalled
    BY <1>4 DEF BeginBatch, markVars, Working, TypeInv, WalkType
  <2> QED BY <1>1, <2>1, CheckSame
<1>5. CASE Fetch
  <2>1. PICK got, skipped : walk' = [walk EXCEPT !.pc = "write", !.got = got, !.skipped = skipped]
    BY <1>5 DEF Fetch
  <2>2. walk.pc \in Working /\ mark' = mark
    BY <1>5 DEF Fetch, markVars, Working
  <2>3. walk'.pc = "write" /\ walk'.at = walk.at /\ walk'.stalled = walk.stalled
    BY <2>1 DEF TypeInv, WalkType
  <2> QED BY <1>1, <2>2, <2>3, CheckSame
<1>6. CASE Write
  <2>1. walk.pc \in Working /\ mark' = mark
    BY <1>6 DEF Write, markVars, Working
  <2>2. CASE walk'.pc = "batch" /\ walk'.at = walk.at /\ walk'.stalled = walk.stalled
    BY <1>1, <2>1, <2>2, CheckSame
  <2> QED BY <1>2, <1>6, <2>1, <2>2, WriteStep
<1>7. CASE Recheck
  <2>1. walk.pc \in Working /\ mark' = mark
    BY <1>7 DEF Recheck, markVars, Working
  <2> DEFINE none == Lacking \cap (Lowest..Highest) = {}
  <2>2. CASE walk' = [walk EXCEPT !.pc = IF none THEN "complete" ELSE "incomplete"]
    <3> HIDE DEF none
    <3>1. /\ walk'.at = walk.at /\ walk'.lo = walk.lo /\ walk'.hi = walk.hi /\ walk'.stalled = walk.stalled
          /\ walk'.pc = (IF none THEN "complete" ELSE "incomplete")
      BY <2>2 DEF TypeInv, WalkType
    <3>2. CASE none
      <4>1. Lowest \in Int /\ Highest \in Int /\ \A h \in Lacking : h \in Int
        BY <2>1, WindowEnds, Sizes DEF Lacking, Stored, Heights
      <4>2. \A h \in Lacking' : h < Lowest \/ Highest < h
        BY <1>1, <3>2, <4>1 DEF none
      <4> QED BY <1>1, <2>1, <3>1, <4>2, CheckComplete
    <3>3. CASE ~none
      BY <1>1, <2>1, <3>1, <3>3, CheckSame
    <3> QED BY <3>2, <3>3
  <2> QED BY <1>2, <1>7, <2>1, <2>2 DEF Recheck
<1>8. CASE Recompute
  BY <1>1, <1>8 DEF Recompute, CheckInv, CheckpointsTrue
<1>9. CASE Advance
  <2>1. walk.pc \in Working /\ walk.pc \in {"complete", "incomplete"}
    BY <1>9 DEF Advance, Working
  <2>2. /\ Lowest \in Int /\ Highest \in Int /\ walk.at \in Int
        /\ IF Down THEN Highest = walk.at ELSE Lowest = walk.at
    BY <2>1, WindowEnds DEF TypeInv, WalkType
  <2>3. /\ walk'.at = Following /\ walk'.pc \in {"window", "over"}
        /\ (~StalledNow <=> ~walk.stalled /\ walk.pc = "complete")
        /\ (~walk'.stalled => ~StalledNow)
    <3>1. StalledNow \in BOOLEAN /\ (~StalledNow <=> ~walk.stalled /\ walk.pc = "complete")
      BY <2>1 DEF StalledNow, TypeInv, WalkType
    <3> HIDE DEF StalledNow, Following
    <3> QED BY <1>9, <3>1 DEF Advance, TypeInv, WalkType
  <2>4. CASE kind = "streaks"
    BY <1>1, <2>4 DEF CheckInv, CheckpointsTrue
  <2>5. ASSUME kind # "streaks", ~StalledNow
        PROVE  \A h \in Lacking : IF Down THEN h < Lowest ELSE Highest < h
    <3> SUFFICES ASSUME NEW h \in Lacking PROVE IF Down THEN h < Lowest ELSE Highest < h
      OBVIOUS
    <3>1. Ahead(h) /\ (h < Lowest \/ Highest < h) /\ h \in Int
      BY <2>1, <2>3, <2>5, Sizes DEF CheckInv, Lacking, Stored, Heights
    <3> HIDE DEF Lowest, Highest
    <3> QED BY <2>2, <3>1 DEF Ahead, Down
  <2>6. ASSUME kind # "streaks" PROVE CheckpointsTrue'
    <3>1. CASE mark' = mark
      BY <1>1, <3>1, MarkKept DEF CheckInv
    <3>2. CASE ~StalledNow /\ mark' = (IF Down THEN Lowest ELSE Highest)
      <4>1. \A h \in Lacking' : IF Down THEN h < mark' ELSE mark' < h
        BY <1>1, <2>5, <2>6, <3>2
      <4> QED BY <1>1, <4>1 DEF CheckpointsTrue, Down
    <3> QED BY <1>9, <3>1, <3>2 DEF Advance
  <2>7. ASSUME kind # "streaks", ~walk'.stalled, NEW h \in Lacking' PROVE Ahead(h)'
    <3>1. (IF Down THEN h < Lowest ELSE Highest < h) /\ h \in Int
      BY <1>1, <2>3, <2>5, <2>7, Sizes DEF Lacking, Stored, Heights
    <3>2. IF Down THEN h <= Following ELSE Following <= h
      BY <2>2, <3>1 DEF Following
    <3> QED BY <1>1, <2>3, <3>2 DEF Ahead, Down
  <2> QED BY <1>1, <2>3, <2>4, <2>6, <2>7 DEF CheckInv
<1>10. CASE Crash
  <2>1. mark' = mark /\ walk'.pc \notin Working
    BY <1>10 DEF Crash, markVars, Off, Working
  <2> QED BY <1>1, <2>1, CheckOver
<1> QED BY <1>3, <1>4, <1>5, <1>6, <1>7, <1>8, <1>9, <1>10
-----------------------------------------------------------------------------
(* Builder rows are of the stored blocks.                                   *)

\* Steps that leave what was listed and fetched, and the history.
LEMMA BuilderSame ==
  ASSUME BuilderInv, UNCHANGED <<kind, rows, filled>>,
         walk'.todo \subseteq walk.todo,
         DOMAIN walk'.got = {} \/ walk'.got = walk.got
  PROVE  BuilderInv'
<1>1. Lacking' = Lacking /\ Stored' = Stored
  BY DEF Lacking, Stored
<1> QED BY <1>1 DEF BuilderInv, BuilderOfStoredBlock

LEMMA ElsewhereBuilder ==
  ASSUME TypeInv, BuilderInv, Elsewhere
  PROVE  BuilderInv'
<1>1. UNCHANGED <<kind, walk>> /\ RowsMove /\ Lacking' \subseteq Lacking /\ \A h \in Lacking' : rows'[h] = rows[h]
  BY ElsewhereStep, LackingKept
<1>2. ASSUME kind = "builders", NEW h \in Stored' PROVE filled'[h] \in {0, rows'[h]}
  <2>1. h \in Heights /\ rows'[h] # 0
    BY <1>2 DEF Stored, Heights
  <2> QED BY <1>1, <1>2, <2>1 DEF RowsMove, BuilderInv, BuilderOfStoredBlock, Stored
<1> QED BY <1>1, <1>2 DEF BuilderInv, BuilderOfStoredBlock

LEMMA BeginningBuilder ==
  ASSUME TypeInv, BuilderInv, ReadBounds \/ ReadMark \/ ReadDefinitions \/ Claim
  PROVE  BuilderInv'
<1>1. UNCHANGED <<kind, rows, filled>>
  BY DEF ReadBounds, ReadMark, ReadDefinitions, Claim, Unchanged, storeVars
<1>2. walk'.todo = walk.todo /\ walk'.got = walk.got
  <2>1. walk \in WalkType
    BY DEF TypeInv
  <2>2. Abort => walk'.todo = walk.todo /\ walk'.got = walk.got
    BY <2>1 DEF Abort, WalkType
  <2>3. \A a : Enter(a) => walk'.todo = walk.todo /\ walk'.got = walk.got
    BY <2>1 DEF Enter, WalkType
  <2>4. \A fp : walk' = [walk EXCEPT !.pc = "claim", !.fp = fp] => walk'.todo = walk.todo /\ walk'.got = walk.got
    BY <2>1 DEF WalkType
  <2>5. CASE ReadBounds
    BY <2>1, <2>2, <2>5 DEF ReadBounds, WalkType
  <2>6. CASE ReadMark
    BY <2>2, <2>3, <2>6 DEF ReadMark, ReadFloor, ReadWatermark
  <2>7. CASE ReadDefinitions
    BY <2>3, <2>4, <2>7 DEF ReadDefinitions
  <2>8. CASE Claim
    BY <2>3, <2>8 DEF Claim
  <2> QED BY <2>5, <2>6, <2>7, <2>8
<1> QED BY <1>1, <1>2, BuilderSame

LEMMA WindowBuilder ==
  ASSUME TypeInv, BuilderInv,
         List \/ BeginBatch \/ Fetch \/ Write \/ Recheck \/ Recompute \/ Advance \/ Crash
  PROVE  BuilderInv'
<1>0. walk \in WalkType
  BY DEF TypeInv
<1>1. UNCHANGED <<kind, rows>> /\ Lacking' \subseteq Lacking
  BY WalkStore DEF WalkNext
<1>2. ASSUME Abort, filled' = filled PROVE BuilderInv'
  <2>1. walk'.todo = walk.todo /\ walk'.got = walk.got
    BY <1>0, <1>2 DEF Abort, WalkType
  <2> QED BY <1>1, <1>2, <2>1, BuilderSame
<1>3. CASE List
  <2>1. filled' = filled
    BY <1>3 DEF List, Unchanged, storeVars
  <2> DEFINE listed == {[height |-> h, branch |-> rows[h]] : h \in Lacking \cap (Lowest..Highest)}
  <2>2. ASSUME NEW p, walk' = [walk EXCEPT !.pc = p, !.todo = listed] PROVE BuilderInv'
    <3>1. walk'.todo = listed /\ walk'.got = walk.got
      <4> HIDE DEF listed
      <4> QED BY <1>0, <2>2 DEF WalkType
    <3>2. kind = "builders" => \A b \in listed : b.branch = 1
      BY DEF BuilderInv
    <3>3. Lacking' = Lacking /\ Stored' = Stored
      BY <1>1, <2>1 DEF Lacking, Stored
    <3> QED BY <1>1, <2>1, <3>1, <3>2, <3>3 DEF BuilderInv, BuilderOfStoredBlock
  <2> QED BY <1>2, <1>3, <2>1, <2>2 DEF List
<1>4. CASE BeginBatch
  <2>1. filled' = filled /\ walk'.todo = walk.todo /\ walk'.got = walk.got
    BY <1>0, <1>4 DEF BeginBatch, Unchanged, storeVars, WalkType
  <2> QED BY <1>1, <2>1, BuilderSame
<1>5. CASE Fetch
  <2>1. PICK failed \in SUBSET Chunk :
          LET good == {b \in Chunk \ failed : Matches(b)}
          IN walk' = [walk EXCEPT !.pc = "write",
                                  !.got = [h \in {b.height : b \in good} |-> NodeBlock(h)],
                                  !.skipped = @ \cup {b.height : b \in Chunk \ good}]
    BY <1>5 DEF Fetch
  <2> DEFINE good == {b \in Chunk \ failed : Matches(b)}
             fetched == [h \in {b.height : b \in good} |-> NodeBlock(h)]
             left == {b.height : b \in Chunk \ good}
  <2>2. walk' = [walk EXCEPT !.pc = "write", !.got = fetched, !.skipped = @ \cup left]
    BY <2>1
  <2>3. walk'.todo = walk.todo /\ walk'.got = fetched
    <3> HIDE DEF fetched, left
    <3> QED BY <1>0, <2>2 DEF WalkType
  <2>4. ASSUME kind = "builders", NEW h \in DOMAIN fetched PROVE fetched[h] = 1
    <3>1. PICK b \in good : b.height = h
      OBVIOUS
    <3>2. NodeBlock(h) = b.branch /\ b \in walk.todo
      BY <2>4, <3>1 DEF Matches, Chunk
    <3> QED BY <2>4, <3>2 DEF BuilderInv
  <2>5. filled' = filled
    BY <1>5 DEF Fetch, Unchanged, storeVars
  <2>6. Lacking' = Lacking /\ Stored' = Stored
    BY <1>1, <2>5 DEF Lacking, Stored
  <2> HIDE DEF fetched
  <2> QED BY <1>1, <2>3, <2>4, <2>5, <2>6 DEF BuilderInv, BuilderOfStoredBlock
<1>6. CASE Write
  <2>1. ASSUME kind = "builders", NEW h \in Stored PROVE filled'[h] \in {0, rows[h]}
    <3>1. CASE filled'[h] = filled[h]
      BY <2>1, <3>1 DEF BuilderInv, BuilderOfStoredBlock
    <3>2. CASE filled[h] = 0 /\ filled'[h] = walk.got[h] /\ h \in DOMAIN walk.got
      BY <2>1, <3>2 DEF BuilderInv, Lacking
    <3> QED BY <1>6, <3>1, <3>2, WriteStep DEF Stored
  <2>2. walk'.todo \subseteq walk.todo /\ (DOMAIN walk'.got = {} \/ walk'.got = walk.got)
    <3>1. Abort => walk'.todo = walk.todo /\ walk'.got = walk.got
      BY <1>0 DEF Abort, WalkType
    <3> QED BY <1>6, <3>1, WriteStep
  <2>3. Stored' = Stored
    BY <1>1 DEF Stored
  <2> QED BY <1>1, <2>1, <2>2, <2>3 DEF BuilderInv, BuilderOfStoredBlock
<1>7. CASE Recheck
  <2>1. filled' = filled /\ walk'.todo = walk.todo /\ walk'.got = walk.got
    BY <1>0, <1>7 DEF Recheck, Abort, Unchanged, storeVars, WalkType
  <2> QED BY <1>1, <2>1, BuilderSame
<1>8. CASE Recompute
  BY <1>1, <1>8 DEF Recompute, BuilderInv
<1>9. CASE Advance
  <2>1. filled' = filled /\ walk'.todo = walk.todo /\ walk'.got = walk.got
    BY <1>0, <1>9 DEF Advance, Unchanged, storeVars, WalkType
  <2> QED BY <1>1, <2>1, BuilderSame
<1>10. CASE Crash
  <2>1. filled' = filled /\ walk'.todo = {} /\ DOMAIN walk'.got = {}
    BY <1>10 DEF Crash, storeVars, Off, Nothing
  <2> QED BY <1>1, <2>1, BuilderSame
<1> QED BY <1>3, <1>4, <1>5, <1>6, <1>7, <1>8, <1>9, <1>10
-----------------------------------------------------------------------------
(* Streaks up to the watermark are of the claimed definitions.              *)

LEMMA OtherWalks ==
  ASSUME kind # "streaks", kind' = kind
  PROVE  StreakInv'
<1> QED BY DEF StreakInv

LEMMA ElsewhereStreak ==
  ASSUME TypeInv, StreakInv, Elsewhere
  PROVE  StreakInv'
<1>1. UNCHANGED <<kind, mark, claimed, walk>> /\ RowsMove
  BY ElsewhereStep
<1>2. CASE kind # "streaks"
  BY <1>1, <1>2, OtherWalks
<1>3. CASE kind = "streaks" /\ defs' = defs
  <2>1. \A h \in Stored' : filled'[h] = defs \/ (h \in Stored /\ filled'[h] = filled[h])
    <3> TAKE h \in Stored'
    <3>1. h \in Heights /\ rows'[h] # 0
      BY DEF Stored, Heights
    <3> QED BY <1>3, <1>1, <3>1 DEF RowsMove, Stored
  <2>2. Highest' = Highest
    BY <1>1 DEF Highest, Down
  <2> HIDE DEF Highest
  <2>3. StreaksUpToWatermark'
    BY <1>1, <1>3, <2>1 DEF StreakInv, StreaksUpToWatermark
  <2> QED BY <1>1, <1>3, <2>1, <2>2, <2>3 DEF StreakInv
<1>4. CASE kind = "streaks" /\ defs' = defs + 1 /\ walk.pc \notin {"definitions", "claim"}
  <2>1. claimed' < defs' /\ claimed' <= defs' /\ claimed' # defs'
    BY <1>1, <1>4 DEF StreakInv, TypeInv, StoreTypes
  <2> QED BY <1>1, <1>4, <2>1 DEF StreakInv, StreaksUpToWatermark
<1> QED BY <1>2, <1>3, <1>4, ElsewhereStep

\* A walk that is over, or not begun, leaves the marks alone.
LEMMA StreakOver ==
  ASSUME StreakInv, UNCHANGED <<kind, rows, filled, defs, mark, claimed>>, walk'.pc \in {"off", "over"}
  PROVE  StreakInv'
<1>1. StreaksUpToWatermark => StreaksUpToWatermark'
  BY DEF StreaksUpToWatermark, Stored
<1> QED BY <1>1 DEF StreakInv

\* A rebuild begins where all below is of the claimed definitions.
LEMMA StreakEnter ==
  ASSUME TypeInv, UNCHANGED <<kind, rows, filled, defs>>, NEW a \in Int, Enter(a),
         claimed' <= defs, StreaksUpToWatermark',
         claimed' = defs => \A h \in Stored : h < a => filled[h] = defs
  PROVE  StreakInv'
<1>1. walk'.pc \in {"window", "over"} /\ walk'.at = a
  BY EnterStep
<1>2. Stored' = Stored
  BY DEF Stored
<1> QED BY <1>1, <1>2 DEF StreakInv

LEMMA BeginningStreak ==
  ASSUME TypeInv, PositionInv, StreakInv, ReadBounds \/ ReadMark \/ ReadDefinitions \/ Claim
  PROVE  StreakInv'
<1>0. walk \in WalkType /\ walk.lo \in Int /\ mark \in Int /\ \A h \in Stored : h \in Int
  BY Sizes DEF TypeInv, WalkType, StoreTypes, Stored, Heights
<1>1. UNCHANGED <<kind, rows, filled, defs>> /\ Stored' = Stored
  BY DEF ReadBounds, ReadMark, ReadDefinitions, Claim, Unchanged, storeVars, Stored
<1>2. CASE kind # "streaks"
  BY <1>1, <1>2, OtherWalks
<1>3. CASE kind = "streaks" /\ ReadBounds
  <2>1. mark' = mark /\ claimed' = claimed
    BY <1>3 DEF ReadBounds, markVars
  <2>2. CASE Abort
    <3>1. walk'.pc = "over"
      BY <1>0, <2>2 DEF Abort, WalkType
    <3> QED BY <1>1, <2>1, <3>1, StreakOver
  <2>3. CASE /\ Stored # {}
             /\ walk' = [walk EXCEPT !.pc = IF kind = "streaks" THEN "definitions" ELSE "mark",
                                     !.lo = Min(Stored), !.hi = Max(Stored)]
    <3> DEFINE a == Min(Stored)
               b == Max(Stored)
    <3>1. a \in Int /\ \A h \in Stored : a <= h
      BY <2>3, StoredBounds
    <3> HIDE DEF a, b
    <3>2. walk' = [walk EXCEPT !.pc = "definitions", !.lo = a, !.hi = b]
      BY <1>3, <2>3 DEF a, b
    <3>3. walk'.pc = "definitions" /\ walk'.lo = a
      BY <1>0, <3>2 DEF WalkType
    <3>4. StreaksUpToWatermark'
      BY <1>1, <1>3, <2>1 DEF StreakInv, StreaksUpToWatermark
    <3>5. \A h \in Stored : ~(h < a)
      BY <1>0, <3>1
    <3> QED BY <1>1, <1>3, <2>1, <3>3, <3>4, <3>5 DEF StreakInv
  <2> QED BY <1>3, <2>2, <2>3 DEF ReadBounds
<1>4. CASE kind = "streaks" /\ ReadMark
  BY <1>4 DEF ReadMark
<1>5. CASE kind = "streaks" /\ ReadDefinitions
  <2>1. mark' = mark /\ claimed' = claimed /\ walk.pc = "definitions"
    BY <1>5 DEF ReadDefinitions, markVars
  <2>2. StreaksUpToWatermark'
    BY <1>1, <1>5, <2>1 DEF StreakInv, StreaksUpToWatermark
  <2>3. CASE defs = claimed /\ Enter(IF mark >= walk.lo THEN mark ELSE walk.lo)
    <3> DEFINE a == IF mark >= walk.lo THEN mark ELSE walk.lo
    <3>1. a \in Int /\ \A h \in Stored : h < a => h < mark \/ h < walk.lo
      BY <1>0
    <3>2. \A h \in Stored : h < a => filled[h] = defs
      BY <1>5, <2>1, <2>3, <3>1 DEF StreakInv, StreaksUpToWatermark
    <3> HIDE DEF a
    <3>3. Enter(a)
      BY <2>3 DEF a
    <3> QED BY <1>1, <1>5, <2>1, <2>2, <3>1, <3>2, <3>3, StreakEnter DEF StreakInv
  <2>4. ASSUME NEW fp \in {0, defs}, walk' = [walk EXCEPT !.pc = "claim", !.fp = fp] PROVE StreakInv'
    <3>1. walk'.pc = "claim" /\ walk'.fp = fp /\ walk'.lo = walk.lo
      BY <1>0, <2>4 DEF WalkType
    <3> QED BY <1>1, <1>5, <2>1, <2>2, <3>1 DEF StreakInv
  <2> QED BY <1>5, <2>3, <2>4 DEF ReadDefinitions
<1>6. CASE kind = "streaks" /\ Claim
  <2>1. /\ walk.pc = "claim" /\ Enter(walk.lo)
        /\ \/ mark' = walk.lo /\ claimed' = (IF walk.fp # 0 THEN walk.fp ELSE claimed)
           \/ mark' = mark /\ claimed' = claimed
    BY <1>6 DEF Claim, markVars
  <2>2. walk.fp \in {0, defs} /\ claimed <= defs /\ StreaksUpToWatermark
         /\ \A h \in Stored : h < walk.lo => filled[h] = defs
    BY <1>6, <2>1 DEF StreakInv
  <2>3. claimed' <= defs
    BY <2>1, <2>2 DEF TypeInv, StoreTypes
  <2>4. StreaksUpToWatermark'
    BY <1>1, <2>1, <2>2 DEF StreaksUpToWatermark
  <2> QED BY <1>0, <1>1, <2>1, <2>2, <2>3, <2>4, StreakEnter
<1> QED BY <1>2, <1>3, <1>4, <1>5, <1>6

LEMMA WindowStreak ==
  ASSUME TypeInv, PositionInv, StreakInv,
         List \/ BeginBatch \/ Fetch \/ Write \/ Recheck \/ Recompute \/ Advance \/ Crash
  PROVE  StreakInv'
<1>0. walk \in WalkType /\ \A h \in Stored : h \in Int
  BY Sizes DEF TypeInv, Stored, Heights
<1>1. UNCHANGED <<kind, rows, defs>> /\ Stored' = Stored
  BY WalkStore DEF WalkNext, Stored
<1>2. CASE kind # "streaks"
  BY <1>1, <1>2, OtherWalks
<1>3. CASE kind = "streaks" /\ Recompute
  <2>1. mark' = mark /\ claimed' = claimed /\ walk.pc = "window"
    BY <1>3 DEF Recompute, markVars
  <2>2. CASE Abort /\ UNCHANGED filled
    <3>1. walk'.pc = "over"
      BY <1>0, <2>2 DEF Abort, WalkType
    <3> QED BY <1>1, <2>1, <2>2, <3>1, StreakOver
  <2>3. CASE /\ filled' = [h \in Heights |-> IF h \in Stored \cap (Lowest..Highest) THEN defs ELSE filled[h]]
             /\ walk' = [walk EXCEPT !.pc = "complete"]
    <3>1. walk'.pc = "complete" /\ walk'.hi = walk.hi /\ walk'.at = walk.at
      BY <1>0, <2>3 DEF WalkType
    <3>2. Highest' = Highest
      BY <1>1, <3>1 DEF Highest, Down
    <3>3. Lowest \in Int /\ Highest \in Int /\ Lowest = walk.at /\ walk.at \in Int
      BY <1>3, <2>1, WindowEnds DEF Working, Down, TypeInv, WalkType
    <3>4. \A h \in Stored : filled'[h] = defs \/ filled'[h] = filled[h]
      BY <2>3 DEF Stored
    <3>5. StreaksUpToWatermark'
      BY <1>1, <1>3, <2>1, <3>4 DEF StreakInv, StreaksUpToWatermark
    <3>6. ASSUME claimed = defs, NEW h \in Stored, h <= Highest PROVE filled'[h] = defs
      <4>1. h \in Heights /\ h \in Int
        BY <1>0 DEF Stored
      <4>2. CASE h < walk.at
        BY <1>3, <2>1, <3>4, <3>6, <4>2 DEF StreakInv
      <4>3. CASE walk.at <= h
        <5>1. h \in Lowest..Highest
          BY <3>3, <3>6, <4>1, <4>3
        <5> QED BY <2>3, <4>1, <5>1
      <4> QED BY <3>3, <4>1, <4>2, <4>3
    <3> HIDE DEF Highest
    <3> QED BY <1>1, <1>3, <2>1, <3>1, <3>2, <3>5, <3>6 DEF StreakInv
  <2> QED BY <1>3, <2>2, <2>3 DEF Recompute
<1>4. CASE kind = "streaks" /\ Advance
  <2>1. walk.pc = "complete" /\ walk.pc \in Working /\ filled' = filled /\ claimed' = claimed
    BY <1>4 DEF Advance, PositionInv, Working, Unchanged, storeVars
  <2>2. Highest \in Int /\ Following = Highest + 1
    BY <1>4, <2>1, WindowEnds DEF Following, Down
  <2>3. walk'.pc \in {"window", "over"} /\ walk'.at = Following
    <3> HIDE DEF Following, StalledNow
    <3> QED BY <1>0, <1>4 DEF Advance, WalkType
  <2>4. mark' = mark \/ mark' = Highest
    BY <1>4 DEF Advance, Down
  <2>5. claimed = defs => \A h \in Stored : h <= Highest => filled[h] = defs
    BY <1>4, <2>1 DEF StreakInv
  <2> HIDE DEF Highest
  <2>6. \A h \in Stored : (h < Highest => h <= Highest) /\ (h < Highest + 1 => h <= Highest)
    BY <1>0, <2>2
  <2>7. StreaksUpToWatermark'
    BY <1>1, <1>4, <2>1, <2>4, <2>5, <2>6 DEF StreakInv, StreaksUpToWatermark
  <2> QED BY <1>1, <1>4, <2>1, <2>2, <2>3, <2>5, <2>6, <2>7 DEF StreakInv
<1>5. CASE Crash
  <2>1. UNCHANGED <<kind, rows, filled, defs, mark, claimed>> /\ walk'.pc = "off"
    BY <1>5 DEF Crash, storeVars, markVars, Off
  <2> QED BY <2>1, StreakOver
<1>6. ASSUME kind = "streaks" PROVE ~(List \/ BeginBatch \/ Fetch \/ Write \/ Recheck)
  BY <1>6 DEF List, BeginBatch, Fetch, Write, Recheck, PositionInv, Working
<1> QED BY <1>2, <1>3, <1>4, <1>5, <1>6
-----------------------------------------------------------------------------
(* A walk over all of history leaves only what it skipped.                  *)

LEMMA LeftOver ==
  ASSUME walk'.pc \notin Working, ~walk'.whole
  PROVE  LeftInv'
<1> QED BY DEF LeftInv, LeftOnlySkipped, Working

LEMMA ElsewhereLeft ==
  ASSUME TypeInv, LeftInv, Elsewhere
  PROVE  LeftInv'
<1>1. UNCHANGED <<kind, walk>> /\ Lacking' \subseteq Lacking
  BY ElsewhereStep, LackingKept
<1>2. /\ \A h : (Ahead(h) <=> Ahead(h)') /\ (Beyond(h) <=> Beyond(h)')
      /\ \A h : (InTodo(h) <=> InTodo(h)') /\ (InRest(h) <=> InRest(h)')
  BY <1>1 DEF Ahead, Beyond, InTodo, InRest, Chunk, Down, Lowest, Highest
<1> QED BY <1>1, <1>2 DEF LeftInv, LeftOnlySkipped

LEMMA BeginningLeft ==
  ASSUME TypeInv, PositionInv, CheckInv, ReadBounds \/ ReadMark \/ ReadDefinitions \/ Claim
  PROVE  LeftInv'
<1>0. walk \in WalkType /\ walk.lo \in Int /\ walk.hi \in Int /\ \A h \in Lacking : h \in Int
  BY Sizes DEF TypeInv, WalkType, Lacking, Stored, Heights
<1>1. kind' = kind /\ Lacking' \subseteq Lacking
  BY WalkStore DEF WalkNext
<1>2. CASE ReadBounds
  <2>1. ~walk.whole
    BY <1>2 DEF ReadBounds, PositionInv
  <2>2. walk'.pc \notin Working /\ walk'.whole = walk.whole
    BY <1>0, <1>2 DEF ReadBounds, Abort, WalkType, Working
  <2> QED BY <2>1, <2>2, LeftOver
<1>3. CASE ReadMark
  <2>1. walk.pc = "mark" /\ ~walk.whole /\ kind # "streaks"
    BY <1>3 DEF ReadMark, PositionInv
  <2>2. CASE Abort
    <3>1. walk'.pc = "over" /\ walk'.whole = walk.whole
      BY <1>0, <2>2 DEF Abort, WalkType
    <3> QED BY <2>1, <3>1, LeftOver DEF Working
  <2>3. CASE \E a \in Int : /\ Enter(a)
                            /\ IF Down THEN a <= walk.hi /\ \A h \in Lacking : h <= a
                                       ELSE walk.lo <= a /\ \A h \in Lacking : a <= h
    <3>1. PICK a \in Int : /\ Enter(a)
                           /\ IF Down THEN a <= walk.hi /\ \A h \in Lacking : h <= a
                                      ELSE walk.lo <= a /\ \A h \in Lacking : a <= h
      BY <2>3
    <3>2. /\ walk'.at = a
          /\ \/ walk'.pc = "window"
             \/ walk'.pc = "over" /\ ~(walk.lo <= a /\ a <= walk.hi)
      BY <3>1, EnterStep
    <3>3. \A h \in Lacking' : Ahead(h)'
      BY <1>1, <3>1, <3>2 DEF Ahead, Down
    <3>4. \A h \in Lacking : walk.lo <= h /\ h <= walk.hi
      BY <2>1 DEF PositionInv
    <3>5. walk'.pc = "over" => Lacking' = {}
      BY <1>0, <1>1, <3>1, <3>2, <3>4
    <3> QED BY <3>2, <3>3, <3>5 DEF LeftInv, LeftOnlySkipped
  <2> QED BY <1>3, <2>2, <2>3, BeginsAhead
<1>4. CASE ReadDefinitions \/ Claim
  <2>1. kind = "streaks"
    BY <1>4 DEF ReadDefinitions, Claim, PositionInv
  <2> QED BY <1>1, <2>1 DEF LeftInv
<1> QED BY <1>2, <1>3, <1>4

LEMMA WindowLeft ==
  ASSUME TypeInv, PositionInv, LeftInv,
         List \/ BeginBatch \/ Fetch \/ Write \/ Recheck \/ Recompute \/ Advance \/ Crash
  PROVE  LeftInv'
<1>0. walk \in WalkType /\ \A h \in Lacking : h \in Int
  BY Sizes DEF TypeInv, Lacking, Stored, Heights
<1>1. kind' = kind /\ Lacking' \subseteq Lacking /\ \A h \in Lacking' : filled'[h] = 0 /\ h \in Heights
  BY WalkStore DEF WalkNext, Lacking, Stored
<1>2. ASSUME walk.pc \in Working, Abort PROVE LeftInv'
  <2>1. walk'.pc = "over" /\ walk'.whole = walk.whole
    BY <1>0, <1>2 DEF Abort, WalkType
  <2> QED BY <1>2, <2>1, LeftOver DEF PositionInv, Working
<1>3. ASSUME walk'.at = walk.at, walk'.lo = walk.lo, walk'.hi = walk.hi
      PROVE  \A h : (Beyond(h)' <=> Beyond(h)) /\ (Ahead(h)' <=> Ahead(h))
  <2>1. Lowest' = Lowest /\ Highest' = Highest
    BY <1>1, <1>3 DEF Lowest, Highest, Down
  <2> HIDE DEF Lowest, Highest
  <2> QED BY <1>1, <1>3, <2>1 DEF Beyond, Ahead, Down
<1>4. CASE kind = "streaks"
  BY <1>1, <1>4 DEF LeftInv
<1>5. CASE List /\ kind # "streaks"
  <2>1. walk.pc = "window" /\ walk.pc \in Working
    BY <1>5 DEF List, Working
  <2> DEFINE missing == Lacking \cap (Lowest..Highest)
             listed == {[height |-> h, branch |-> rows[h]] : h \in missing}
  <2>2. CASE walk' = [walk EXCEPT !.pc = IF missing = {} THEN "complete" ELSE "batch", !.todo = listed]
    <3>1. \A h \in missing : \E b \in listed : b.height = h
      <4> TAKE h \in missing
      <4>1. [height |-> h, branch |-> rows[h]] \in listed
        OBVIOUS
      <4> QED BY <4>1
    <3>2. \A h \in Lacking : Beyond(h) \/ h \in walk.skipped \/ h \in missing
      <4> TAKE h \in Lacking
      <4>1. Ahead(h) \/ h \in walk.skipped
        BY <1>5, <2>1 DEF LeftInv
      <4>2. /\ Lowest \in Int /\ Highest \in Int /\ h \in Int
            /\ IF Down THEN Highest = walk.at ELSE Lowest = walk.at
        BY <1>0, <2>1, WindowEnds
      <4> QED BY <4>1, <4>2 DEF Ahead, Beyond, Down
    <3> HIDE DEF missing, listed
    <3>3. /\ walk'.at = walk.at /\ walk'.lo = walk.lo /\ walk'.hi = walk.hi /\ walk'.skipped = walk.skipped
          /\ walk'.todo = listed /\ walk'.pc = (IF missing = {} THEN "complete" ELSE "batch")
      BY <1>0, <2>2 DEF WalkType
    <3>4. \A h \in Lacking' : Beyond(h)' \/ h \in walk'.skipped \/ (h \in missing /\ InTodo(h)')
      BY <1>1, <1>3, <3>1, <3>2, <3>3 DEF InTodo
    <3> QED BY <3>3, <3>4 DEF LeftInv, LeftOnlySkipped
  <2> QED BY <1>2, <1>5, <2>1, <2>2 DEF List
<1>6. CASE BeginBatch /\ kind # "streaks"
  <2>1. /\ walk.pc = "batch" /\ walk'.pc = (IF walk.todo = {} THEN "recheck" ELSE "fetch")
        /\ walk'.at = walk.at /\ walk'.lo = walk.lo /\ walk'.hi = walk.hi
        /\ walk'.skipped = walk.skipped /\ walk'.todo = walk.todo
    BY <1>0, <1>6 DEF BeginBatch, WalkType
  <2>2. \A h \in Lacking' : Beyond(h)' \/ h \in walk'.skipped \/ (walk.todo # {} /\ InTodo(h)')
    BY <1>1, <1>3, <1>6, <2>1 DEF LeftInv, InTodo
  <2> QED BY <2>1, <2>2 DEF LeftInv, LeftOnlySkipped
<1>7. CASE Fetch /\ kind # "streaks"
  <2>1. PICK failed \in SUBSET Chunk :
          LET good == {b \in Chunk \ failed : Matches(b)}
          IN walk' = [walk EXCEPT !.pc = "write",
                                  !.got = [h \in {b.height : b \in good} |-> NodeBlock(h)],
                                  !.skipped = @ \cup {b.height : b \in Chunk \ good}]
    BY <1>7 DEF Fetch
  <2> DEFINE good == {b \in Chunk \ failed : Matches(b)}
             fetched == [h \in {b.height : b \in good} |-> NodeBlock(h)]
             left == {b.height : b \in Chunk \ good}
  <2>2. walk' = [walk EXCEPT !.pc = "write", !.got = fetched, !.skipped = @ \cup left]
    BY <2>1
  <2>3. DOMAIN fetched = {b.height : b \in good}
    OBVIOUS
  <2>4. \A b \in walk.todo : b \in walk.todo \ Chunk \/ b.height \in left \/ b.height \in DOMAIN fetched
    BY <2>3 DEF Chunk
  <2> HIDE DEF good, fetched, left
  <2>5. /\ walk.pc = "fetch" /\ walk'.pc = "write"
        /\ walk'.at = walk.at /\ walk'.lo = walk.lo /\ walk'.hi = walk.hi
        /\ walk'.skipped = walk.skipped \cup left /\ walk'.todo = walk.todo /\ walk'.got = fetched
    BY <1>0, <1>7, <2>2 DEF Fetch, WalkType
  <2>6. Chunk' = Chunk
    BY <2>5 DEF Chunk
  <2>7. ASSUME NEW h \in Lacking'
        PROVE  Beyond(h)' \/ h \in walk'.skipped \/ InRest(h)' \/ h \in DOMAIN walk'.got
    <3>1. Beyond(h) \/ h \in walk.skipped \/ InTodo(h)
      BY <1>1, <1>7, <2>5, <2>7 DEF LeftInv
    <3>2. CASE InTodo(h)
      <4>1. PICK b \in walk.todo : b.height = h
        BY <3>2 DEF InTodo
      <4> QED BY <2>4, <2>5, <2>6, <4>1 DEF InRest
    <3>3. CASE Beyond(h) \/ h \in walk.skipped
      BY <1>3, <2>5, <3>3
    <3> QED BY <3>1, <3>2, <3>3
  <2> QED BY <2>5, <2>7 DEF LeftInv, LeftOnlySkipped
<1>8. CASE Write /\ kind # "streaks"
  <2>1. walk.pc = "write" /\ walk.pc \in Working
    BY <1>8 DEF Write, Working
  <2>2. CASE Abort
    BY <1>2, <2>1, <2>2
  <2>3. CASE /\ walk'.pc = "batch" /\ walk'.todo = walk.todo \ Chunk
             /\ walk.skipped \subseteq walk'.skipped
             /\ walk'.lo = walk.lo /\ walk'.hi = walk.hi /\ walk'.at = walk.at
             /\ \A h \in DOMAIN walk.got : h \in walk'.skipped \/ filled'[h] # 0
    <3>1. ASSUME NEW h \in Lacking' PROVE Beyond(h)' \/ h \in walk'.skipped \/ InTodo(h)'
      <4>1. Beyond(h) \/ h \in walk.skipped \/ InRest(h) \/ h \in DOMAIN walk.got
        BY <1>1, <1>8, <2>1, <3>1 DEF LeftInv
      <4>2. InRest(h) => InTodo(h)'
        BY <2>3 DEF InRest, InTodo
      <4> QED BY <1>1, <1>3, <2>3, <4>1, <4>2
    <3> QED BY <2>3, <3>1 DEF LeftInv, LeftOnlySkipped
  <2> QED BY <1>8, <2>2, <2>3, WriteStep
<1>9. CASE Recheck /\ kind # "streaks"
  <2>1. walk.pc = "recheck" /\ walk.pc \in Working
    BY <1>9 DEF Recheck, Working
  <2>2. ASSUME NEW p \in {"complete", "incomplete"}, walk' = [walk EXCEPT !.pc = p] PROVE LeftInv'
    <3>1. /\ walk'.pc = p /\ walk'.at = walk.at /\ walk'.lo = walk.lo /\ walk'.hi = walk.hi
          /\ walk'.skipped = walk.skipped
      BY <1>0, <2>2 DEF WalkType
    <3>2. \A h \in Lacking' : Beyond(h)' \/ h \in walk'.skipped
      BY <1>1, <1>3, <1>9, <2>1, <3>1 DEF LeftInv
    <3> QED BY <3>1, <3>2 DEF LeftInv, LeftOnlySkipped
  <2> QED BY <1>2, <1>9, <2>1, <2>2 DEF Recheck
<1>10. CASE Advance /\ kind # "streaks"
  <2>1. walk.pc \in {"complete", "incomplete"} /\ walk.pc \in Working
    BY <1>10 DEF Advance, Working
  <2>2. /\ Lowest \in Int /\ Highest \in Int /\ walk.at \in Int /\ walk.lo \in Int /\ walk.hi \in Int
        /\ walk.lo <= Lowest /\ Lowest <= walk.at /\ walk.at <= Highest /\ Highest <= walk.hi
    BY <2>1, WindowEnds DEF TypeInv, WalkType
  <2>3. /\ walk'.at = Following /\ walk'.skipped = walk.skipped
        /\ \/ walk'.pc = "window"
           \/ walk'.pc = "over" /\ Following \notin walk.lo..walk.hi
    <3> HIDE DEF StalledNow, Following
    <3> QED BY <1>0, <1>10 DEF Advance, WalkType
  <2>4. ASSUME NEW h \in Lacking PROVE h \in walk.skipped \/ (IF Down THEN h <= Following ELSE Following <= h)
    <3>1. (Beyond(h) \/ h \in walk.skipped) /\ h \in Int
      BY <1>0, <1>10, <2>1 DEF LeftInv
    <3> HIDE DEF Lowest, Highest
    <3> QED BY <2>2, <3>1 DEF Beyond, Following, Down
  <2>5. \A h \in Lacking' : Ahead(h)' \/ h \in walk'.skipped
    BY <1>1, <2>3, <2>4 DEF Ahead, Down
  <2>6. ASSUME Following \notin walk.lo..walk.hi, NEW h \in Lacking PROVE h \in walk.skipped
    <3>1. walk.lo <= h /\ h <= walk.hi /\ h \in Int
      BY <1>0, <1>10, <2>1 DEF PositionInv, Working
    <3>2. Following \in Int /\ (IF Down THEN Following <= walk.hi ELSE walk.lo <= Following)
      <4> HIDE DEF Lowest, Highest
      <4> QED BY <2>2 DEF Following, Down
    <3>3. IF Down THEN Following < walk.lo ELSE walk.hi < Following
      <4> HIDE DEF Following
      <4> QED BY <2>2, <2>6, <3>2 DEF Down
    <3> HIDE DEF Following
    <3> QED BY <2>2, <2>4, <3>1, <3>2, <3>3 DEF Down
  <2> QED BY <1>1, <2>3, <2>5, <2>6 DEF LeftInv, LeftOnlySkipped
<1>11. CASE Recompute /\ kind # "streaks"
  BY <1>11 DEF Recompute
<1>12. CASE Crash
  <2>1. walk'.pc = "off" /\ ~walk'.whole
    BY <1>12 DEF Crash, Off
  <2> QED BY <2>1, LeftOver DEF Working
<1> QED BY <1>4, <1>5, <1>6, <1>7, <1>8, <1>9, <1>10, <1>11, <1>12
-----------------------------------------------------------------------------
(* The theorems.                                                            *)

LEMMA InitInv == Init => IInv
<1> SUFFICES ASSUME Init PROVE IInv
  OBVIOUS
<1>1. PICK top \in {0, MaxHeight - 1, MaxHeight} : \E old \in 0..top :
       /\ rows = [h \in Heights |-> IF h <= top THEN 1 ELSE 0]
       /\ filled = [h \in Heights |-> IF old < h /\ h <= top THEN 1 ELSE 0]
  BY DEF Init
<1>2. PICK old :
       /\ rows = [h \in Heights |-> IF h <= top THEN 1 ELSE 0]
       /\ filled = [h \in Heights |-> IF old < h /\ h <= top THEN 1 ELSE 0]
  BY <1>1
<1>3. kind \in {"builders", "fees", "streaks"} /\ node = 1 /\ defs = 1 /\ mark = 0 /\ claimed = 0
      /\ epoch = 0 /\ walk = Off
  BY WalkSizes DEF Init, None
<1>4. Off \in WalkType
  <2>1. Nothing \in [{} -> 1..2] /\ {} \in SUBSET Heights
    BY DEF Nothing
  <2>2. Nothing \in Fetched
    BY <2>1 DEF Fetched
  <2> HIDE DEF Nothing
  <2> QED BY <2>2, Sizes DEF Off, WalkType, Phases
<1>5. TypeInv
  BY <1>2, <1>3, <1>4 DEF TypeInv, StoreTypes
<1>6. /\ walk.pc = "off" /\ walk.skipped = {} /\ walk.stalled = FALSE /\ walk.whole = FALSE
      /\ walk.todo = {} /\ DOMAIN walk.got = {}
  BY <1>3 DEF Off, Nothing
<1>7. \A h \in Stored : rows[h] = 1 /\ filled[h] \in {0, 1}
  BY <1>2 DEF Stored
<1> QED BY <1>3, <1>5, <1>6, <1>7
        DEF IInv, PositionInv, CheckInv, CheckpointsTrue, LeftInv, LeftOnlySkipped, BuilderInv,
            BuilderOfStoredBlock, StreakInv, StreaksUpToWatermark, Lacking, Working, None

LEMMA StepInv == IInv /\ [Next]_vars => IInv'
<1> SUFFICES ASSUME IInv, [Next]_vars PROVE IInv'
  OBVIOUS
<1> USE DEF IInv
<1>1. CASE ReadBounds \/ ReadMark \/ ReadDefinitions \/ Claim
  BY <1>1, BeginningTypes, BeginningPosition, BeginningCheck, BeginningLeft, BeginningBuilder, BeginningStreak
<1>2. CASE List \/ BeginBatch \/ Fetch \/ Write \/ Recheck \/ Recompute \/ Advance \/ Crash
  <2>1. TypeInv'
    BY <1>2, WindowTypes, WriteStep
  <2> QED BY <1>2, <2>1, WindowPosition, WindowCheck, WindowLeft, WindowBuilder, WindowStreak
<1>3. CASE Elsewhere
  <2>1. TypeInv'
    BY <1>3, ElsewhereStep DEF TypeInv
  <2> QED BY <1>3, <2>1, ElsewherePosition, ElsewhereCheck, ElsewhereLeft, ElsewhereBuilder, ElsewhereStreak
<1>4. CASE UNCHANGED vars
  <2>1. UNCHANGED <<kind, node, rows, filled, defs, mark, claimed, epoch, walk>>
    BY <1>4 DEF vars, storeVars, markVars
  <2>2. /\ Stored' = Stored /\ Lacking' = Lacking /\ Lowest' = Lowest /\ Highest' = Highest /\ Chunk' = Chunk
        /\ \A h : (Ahead(h) <=> Ahead(h)') /\ (Beyond(h) <=> Beyond(h)')
    BY <2>1 DEF Stored, Lacking, Lowest, Highest, Down, Chunk, Ahead, Beyond
  <2>3. \A h : (InTodo(h) <=> InTodo(h)') /\ (InRest(h) <=> InRest(h)')
    BY <2>1, <2>2 DEF InTodo, InRest
  <2>4. TypeInv' /\ PositionInv'
    BY <2>1, <2>2 DEF TypeInv, StoreTypes, PositionInv
  <2>5. CheckInv' /\ LeftInv'
    BY <2>1, <2>2, <2>3 DEF CheckInv, CheckpointsTrue, LeftInv, LeftOnlySkipped
  <2>6. BuilderInv' /\ StreakInv'
    BY <2>1, <2>2 DEF BuilderInv, BuilderOfStoredBlock, StreakInv, StreaksUpToWatermark
  <2> QED BY <2>4, <2>5, <2>6
<1> QED BY <1>1, <1>2, <1>3, <1>4 DEF Next, WalkNext, IndexerNext, OthersNext, Elsewhere

\* The walks and the history keep their types: internal/indexer's three
\* backfills and the rows and marks they write.
THEOREM WalksTypeCorrect == Spec => []TypeInv
<1> QED BY InitInv, StepInv, PTL DEF Spec, IInv

\* The inductive invariant holds throughout.
THEOREM WalksInv == Spec => []IInv
<1> QED BY InitInv, StepInv, PTL DEF Spec

\* The floor of the builder rows and the watermark of the fees are true,
\* whatever fails, crashes, is rewound or reindexed meanwhile
\* (builderBackfillFloor, priorityFeeBackfillWatermark).
THEOREM FloorsTrue == Spec => []CheckpointsTrue
<1>1. IInv => CheckpointsTrue
  BY DEF IInv, CheckInv
<1> QED BY <1>1, WalksInv, PTL

\* No builder row is of another branch than its block
\* (writeBuilderBackfillBatch).
THEOREM BuildersMatch == Spec => []BuilderOfStoredBlock
<1>1. IInv => BuilderOfStoredBlock
  BY DEF IInv, BuilderInv, BuilderOfStoredBlock
<1> QED BY <1>1, WalksInv, PTL

\* No start takes a streak of older definitions for rebuilt
\* (claimStreakRebuild, runStreakBackfill).
THEOREM WatermarkTrue == Spec => []StreaksUpToWatermark
<1>1. IInv => StreaksUpToWatermark
  BY DEF IInv, StreakInv, StreaksUpToWatermark
<1> QED BY <1>1, WalksInv, PTL

\* A walk over all of history leaves out only what it skipped
\* (backfillBuilderWindow, backfillPriorityFeeWindow).
THEOREM NothingElseLeft == Spec => []LeftOnlySkipped
<1>1. IInv => LeftOnlySkipped
  BY DEF IInv, LeftInv, LeftOnlySkipped
<1> QED BY <1>1, WalksInv, PTL
=============================================================================
