------------------------ MODULE ReindexRequests_proofs ------------------------
(***************************************************************************)
(* Proofs about ReindexRequests, for any number of pods, versions, blocks  *)
(* and requests, however their ranges overlap.                             *)
(***************************************************************************)
EXTENDS ReindexRequests, Numbers, FiniteSetTheorems

\* The queues are finite, and a send keeps their bound.
LEMMA QueueGrows ==
  ASSUME NEW Q \in SUBSET Blocks, NEW b \in Blocks, Cardinality(Q) < QueueCap
  PROVE  Q \cup {b} \in SUBSET Blocks /\ Cardinality(Q \cup {b}) <= QueueCap
<1>1. IsFiniteSet(Q) /\ QueueCap \in Nat
  BY ReindexSizes, FS_Subset
<1>2. Cardinality(Q) \in Nat
  BY <1>1, FS_CardinalityType
<1>3. CASE b \in Q
  <2>1. Q \cup {b} = Q
    BY <1>3
  <2> QED BY <2>1, <1>1, <1>2
<1>4. CASE b \notin Q
  <2>1. Cardinality(Q \cup {b}) = Cardinality(Q) + 1
    BY <1>1, <1>4, FS_AddElement
  <2> QED BY <2>1, <1>1, <1>2
<1> QED BY <1>3, <1>4

\* A receive keeps the bound, too.
LEMMA QueueShrinks ==
  ASSUME NEW Q \in SUBSET Blocks, NEW b, Cardinality(Q) <= QueueCap
  PROVE  Q \ {b} \in SUBSET Blocks /\ Cardinality(Q \ {b}) <= QueueCap
<1>1. IsFiniteSet(Q) /\ QueueCap \in Nat
  BY ReindexSizes, FS_Subset
<1>2. IsFiniteSet(Q \ {b}) /\ Cardinality(Q \ {b}) <= Cardinality(Q)
  BY <1>1, FS_Subset
<1>3. Cardinality(Q) \in Nat /\ Cardinality(Q \ {b}) \in Nat
  BY <1>1, <1>2, FS_CardinalityType
<1> QED BY <1>1, <1>2, <1>3

-----------------------------------------------------------------------------
(* Types.                                                                   *)

LEMMA InitType == Init => TypeOK
<1> SUFFICES ASSUME Init PROVE TypeOK
  OBVIOUS
<1> USE ReindexSizes
<1>1. queue \in [Pods -> SUBSET Blocks] /\ \A p \in Pods : Cardinality(queue[p]) <= QueueCap
  <2>1. Cardinality({}) = 0 /\ 0 <= QueueCap /\ 1 <= QueueCap
    BY FS_EmptySet
  <2>2. PICK p \in Pods, q \in {S \in SUBSET Blocks : Cardinality(S) <= 1} :
          queue = [o \in Pods |-> IF o = p THEN q ELSE {}]
    BY DEF Init
  <2>3. Cardinality(q) \in Nat
    BY FS_Subset, FS_CardinalityType
  <2>4. Cardinality(q) <= QueueCap
    BY <2>1, <2>2, <2>3
  <2> QED BY <2>1, <2>2, <2>4
<1> QED BY <1>1 DEF Init, TypeOK, ScannerType, FetchType, Idle, NoFetch, Closed

ScannersTyped ==
  /\ scanner \in [Pods -> ScannerType]
  /\ \A p \in Pods : scanner[p].req = NoRequest <=> scanner[p].pc = "idle"

Others ==
  /\ status \in [Requests -> {"pending", "processing"} \cup Closed]
  /\ claimer \in [Requests -> {ClaimerOf[p] : p \in Pods} \cup {NoPod}]
  /\ stale \in SUBSET Requests
  /\ rows \in [Blocks -> {"none", "good", "purged"}]
  /\ queue \in [Pods -> SUBSET Blocks] /\ \A p \in Pods : Cardinality(queue[p]) <= QueueCap
  /\ fetch \in [Pods -> FetchType]
  /\ epoch \in [Pods -> Nat]
  /\ crashes \in 0..MaxCrashes /\ stalls \in 0..MaxStalls /\ faults \in 0..MaxFaults

LEMMA TypeParts == TypeOK <=> ScannersTyped /\ Others
<1> QED BY DEF TypeOK, ScannersTyped, Others

\* A scanner at work stays at its request.
LEMMA ScannerMoves ==
  ASSUME ScannersTyped, NEW p \in Pods, scanner[p].pc # "idle",
         NEW s \in ScannerType, s.req = scanner[p].req, s.pc # "idle",
         scanner' = [scanner EXCEPT ![p] = s]
  PROVE  ScannersTyped'
<1>1. s.req # NoRequest
  BY DEF ScannersTyped, ScannerType
<1> QED BY <1>1 DEF ScannersTyped

\* The scanners keep their types in every step of one of them.
LEMMA ScannersStayTyped ==
  ASSUME TypeOK, NEW p \in Pods, ScannerNext(p)
  PROVE  ScannersTyped'
<1>1. ScannersTyped /\ scanner[p] \in ScannerType
  BY TypeParts DEF ScannersTyped
<1>2. scanner[p].todo \in SUBSET Blocks
  BY <1>1 DEF ScannerType
<1>3. CASE Claim(p)
  <2>1. Claimable \in SUBSET Nat /\ Claimable # {} /\ Claimable \subseteq Requests
    BY <1>3, ReindexSizes DEF Claim, Claimable
  <2>2. Min(Claimable) \in Requests
    BY <2>1, MinOfHeights
  <2> DEFINE s == [Idle EXCEPT !.pc = "delete", !.req = Min(Claimable)]
  <2>3. Idle \in ScannerType
    BY DEF Idle, ScannerType
  <2>4. s \in ScannerType /\ s.req # NoRequest /\ s.pc # "idle"
    BY <2>2, <2>3, ReindexSizes DEF ScannerType
  <2>5. scanner' = [scanner EXCEPT ![p] = s]
    BY <1>3 DEF Claim
  <2> HIDE DEF s
  <2> QED BY <2>4, <2>5, <1>1 DEF ScannersTyped
<1>4. ASSUME NEW pc \in {"queue", "wait", "complete", "fail"}, scanner[p].pc # "idle", Goes(p, pc)
      PROVE  ScannersTyped'
  <2> DEFINE s == [scanner[p] EXCEPT !.pc = pc]
  <2>1. s \in ScannerType /\ s.req = scanner[p].req /\ s.pc # "idle"
    BY <1>1, <1>4 DEF ScannerType
  <2>2. scanner' = [scanner EXCEPT ![p] = s]
    BY <1>4 DEF Goes
  <2> HIDE DEF s
  <2> QED BY <2>1, <2>2, <1>1, <1>4, ScannerMoves
<1>5. CASE DeleteRange(p)
  <2>1. CASE Goes(p, "fail")
    BY <2>1, <1>4, <1>5 DEF DeleteRange
  <2>2. CASE ~Goes(p, "fail")
    <3> DEFINE gone == RangeOf[scanner[p].req]
    <3>1. scanner' = [scanner EXCEPT ![p].pc = "queue", ![p].todo = gone] /\ scanner[p].pc = "delete"
      BY <2>2, <1>5 DEF DeleteRange
    <3>2. gone \in SUBSET Blocks
      BY <3>1, <1>1, ReindexSizes DEF ScannersTyped, ScannerType
    <3> DEFINE s == [scanner[p] EXCEPT !.pc = "queue", !.todo = gone]
    <3>3. s \in ScannerType /\ s.req = scanner[p].req /\ s.pc # "idle"
      BY <3>2, <1>1 DEF ScannerType
    <3>4. scanner' = [scanner EXCEPT ![p] = s]
      BY <3>1, <1>1 DEF ScannersTyped, ScannerType
    <3> HIDE DEF s
    <3> QED BY <3>1, <3>3, <3>4, <1>1, ScannerMoves
  <2> QED BY <2>1, <2>2
<1>6. CASE QueueBlock(p)
  <2> DEFINE todo == scanner[p].todo \ {Min(scanner[p].todo)}
         s == [scanner[p] EXCEPT !.todo = todo]
  <2>1. todo \in SUBSET Blocks /\ scanner[p].pc = "queue"
    BY <1>2, <1>6 DEF QueueBlock
  <2>2. s \in ScannerType /\ s.req = scanner[p].req /\ s.pc # "idle"
    BY <2>1, <1>1 DEF ScannerType
  <2>3. scanner' = [scanner EXCEPT ![p] = s]
    BY <1>6 DEF QueueBlock
  <2> HIDE DEF s
  <2> QED BY <2>1, <2>2, <2>3, <1>1, ScannerMoves
<1>7. CASE QueueDone(p)
  BY <1>7, <1>4 DEF QueueDone
<1>8. CASE CountMissing(p)
  BY <1>8, <1>1, <1>4 DEF CountMissing, ScannersTyped
<1>9. CASE Complete(p) \/ Fail(p)
  <2>1. scanner' = [scanner EXCEPT ![p] = Idle]
    BY <1>9 DEF Complete, Fail, Close
  <2>2. Idle \in ScannerType /\ Idle.req = NoRequest /\ Idle.pc = "idle"
    BY DEF Idle, ScannerType
  <2> QED BY <2>1, <2>2, <1>1 DEF ScannersTyped
<1> QED BY <1>3, <1>5, <1>6, <1>7, <1>8, <1>9 DEF ScannerNext

\* So does everything else.
LEMMA OthersStayTyped ==
  ASSUME TypeOK, NEW p \in Pods, ScannerNext(p)
  PROVE  Others'
<1> USE ReindexSizes, TypeParts DEF Others, requestVars, workVars, budgetVars, OneFault
<1>1. scanner[p] \in ScannerType /\ (scanner[p].pc # "idle" => scanner[p].req \in Requests)
  BY DEF ScannersTyped, ScannerType
<1>2. CASE Claim(p)
  <2>1. Claimable \in SUBSET Nat /\ Claimable # {} /\ Claimable \subseteq Requests
    BY <1>2 DEF Claim, Claimable
  <2>2. Min(Claimable) \in Requests
    BY <2>1, MinOfHeights
  <2> QED BY <1>2, <2>2 DEF Claim
<1>3. CASE DeleteRange(p)
  <2>1. CASE UNCHANGED <<rows, fetch, epoch>>
    BY <1>3, <2>1 DEF DeleteRange
  <2>2. CASE ~UNCHANGED <<rows, fetch, epoch>>
    <3> DEFINE gone == RangeOf[scanner[p].req]
               f == [fetch[p] EXCEPT !.purged = @ \/ fetch[p].block \in gone]
    <3>1. rows' = [b \in Blocks |-> IF b \in gone THEN "none" ELSE rows[b]]
          /\ fetch' = [fetch EXCEPT ![p].purged = @ \/ fetch[p].block \in gone]
          /\ epoch' = [epoch EXCEPT ![p] = @ + 1] /\ UNCHANGED <<requestVars, queue, budgetVars>>
      BY <1>3, <2>2 DEF DeleteRange
    <3>2. fetch[p] \in FetchType
      OBVIOUS
    <3>3. f \in FetchType /\ fetch' = [fetch EXCEPT ![p] = f]
      BY <3>1, <3>2 DEF FetchType
    <3> HIDE DEF f
    <3> QED BY <3>1, <3>3
  <2> QED BY <2>1, <2>2
<1>4. CASE QueueBlock(p)
  <2> DEFINE b == Min(scanner[p].todo)
  <2>1. scanner[p].todo \in SUBSET Nat /\ scanner[p].todo # {} /\ scanner[p].todo \subseteq Blocks
    BY <1>1, <1>4 DEF QueueBlock, ScannerType
  <2>2. b \in Blocks
    BY <2>1, MinOfHeights
  <2>3. queue[p] \cup {b} \in SUBSET Blocks /\ Cardinality(queue[p] \cup {b}) <= QueueCap
    BY <1>4, <2>2, QueueGrows DEF QueueBlock
  <2> QED BY <1>4, <2>3 DEF QueueBlock
<1>5. CASE QueueDone(p)
  BY <1>5 DEF QueueDone
<1>6. CASE CountMissing(p)
  BY <1>6, <1>1 DEF CountMissing
<1>7. CASE Complete(p) \/ Fail(p)
  BY <1>7, <1>1 DEF Complete, Fail, Close, Closed
<1> QED BY <1>2, <1>3, <1>4, <1>5, <1>6, <1>7 DEF ScannerNext

LEMMA NextType == TypeOK /\ [Next]_vars => TypeOK'
<1> SUFFICES ASSUME TypeOK, [Next]_vars PROVE TypeOK'
  OBVIOUS
<1> USE ReindexSizes DEF requestVars, workVars, budgetVars
<1>1. ASSUME NEW r \in Requests, GoStale(r) PROVE TypeOK'
  BY <1>1 DEF GoStale, TypeOK
<1>2. ASSUME NEW p \in Pods, Heartbeat(p) PROVE TypeOK'
  BY <1>2 DEF Heartbeat, TypeOK
<1>3. ASSUME NEW p \in Pods, Fetch(p) PROVE TypeOK'
  BY <1>3 DEF Fetch, TypeOK, FetchType
<1>4. ASSUME NEW p \in Pods, Insert(p) PROVE TypeOK'
  <2>1. queue[p] \ {fetch[p].block} \in SUBSET Blocks
        /\ Cardinality(queue[p] \ {fetch[p].block}) <= QueueCap
    BY QueueShrinks DEF TypeOK
  <2>2. NoFetch \in FetchType /\ fetch' = [fetch EXCEPT ![p] = NoFetch]
    BY <1>4 DEF Insert, NoFetch, FetchType
  <2>3. fetch' \in [Pods -> FetchType]
    BY <2>2 DEF TypeOK
  <2>4. rows' \in [Blocks -> {"none", "good", "purged"}]
    <3>1. rows \in [Blocks -> {"none", "good", "purged"}]
      BY DEF TypeOK
    <3> QED BY <1>4, <3>1 DEF Insert
  <2>5. queue' \in [Pods -> SUBSET Blocks] /\ \A o \in Pods : Cardinality(queue'[o]) <= QueueCap
    <3>1. queue' \in {queue, [queue EXCEPT ![p] = queue[p] \ {fetch[p].block}]}
      BY <1>4 DEF Insert
    <3>2. queue \in [Pods -> SUBSET Blocks] /\ \A o \in Pods : Cardinality(queue[o]) <= QueueCap
      BY DEF TypeOK
    <3> QED BY <2>1, <3>1, <3>2
  <2> QED BY <1>4, <2>3, <2>4, <2>5 DEF Insert, TypeOK
<1>5. ASSUME NEW p \in Pods, Crash(p) PROVE TypeOK'
  <2>1. Cardinality({}) <= QueueCap
    BY FS_EmptySet
  <2> QED BY <1>5, <2>1 DEF Crash, Idle, NoFetch, TypeOK, ScannerType, FetchType
<1>6. ASSUME UNCHANGED vars PROVE TypeOK'
  BY <1>6 DEF vars, TypeOK
<1>7. ASSUME NEW p \in Pods, ScannerNext(p) PROVE TypeOK'
  <2>1. ScannersTyped' /\ Others'
    BY <1>7, ScannersStayTyped, OthersStayTyped
  <2> QED BY <2>1 DEF TypeOK, ScannersTyped, Others
<1> QED BY <1>1, <1>2, <1>3, <1>4, <1>5, <1>6, <1>7 DEF Next, WorkerNext

\* Statuses, claimers, ranges, queues and fetches keep their types, whatever
\* pods claim, crash and overtake; blockTaskCh keeps its capacity.
THEOREM ReindexTypeCorrect == Spec => []TypeOK
<1> QED BY InitType, NextType, PTL DEF Spec

-----------------------------------------------------------------------------
(* The epoch fence of a pod against its own delete.                         *)

\* A fetch whose block was deleted under it is of an older epoch.
FetchInv ==
  \A p \in Pods : /\ fetch[p].epoch <= epoch[p]
                  /\ fetch[p].purged => fetch[p].epoch < epoch[p]

FenceInv == TypeOK /\ FetchInv /\ NoPurgedData

LEMMA FenceStep == FenceInv /\ [Next]_vars => FenceInv'
<1> SUFFICES ASSUME FenceInv, [Next]_vars PROVE FetchInv' /\ NoPurgedData'
  BY NextType DEF FenceInv
<1> USE DEF FenceInv, FetchInv, NoPurgedData, requestVars, workVars, budgetVars
<1>1. TypeOK /\ \A p \in Pods : fetch[p] \in FetchType /\ epoch[p] \in Nat /\ fetch[p].epoch \in Nat
  BY DEF TypeOK, FetchType
<1>2. CASE UNCHANGED <<fetch, epoch, rows>>
  BY <1>2
<1>3. ASSUME NEW p \in Pods, DeleteRange(p) PROVE FetchInv' /\ NoPurgedData'
  <2>1. CASE UNCHANGED <<rows, fetch, epoch>>
    BY <2>1
  <2>2. CASE ~UNCHANGED <<rows, fetch, epoch>>
    <3> DEFINE gone == RangeOf[scanner[p].req]
    <3>1. /\ rows' = [b \in Blocks |-> IF b \in gone THEN "none" ELSE rows[b]]
          /\ fetch' = [fetch EXCEPT ![p].purged = @ \/ fetch[p].block \in gone]
          /\ epoch' = [epoch EXCEPT ![p] = @ + 1]
      BY <1>3, <2>2 DEF DeleteRange
    <3>2. epoch'[p] = epoch[p] + 1 /\ fetch'[p].epoch = fetch[p].epoch
      BY <3>1, <1>1 DEF TypeOK, FetchType
    <3>3. FetchInv'
      BY <3>1, <3>2, <1>1 DEF TypeOK, FetchType
    <3> QED BY <3>1, <3>3
  <2> QED BY <2>1, <2>2
<1>4. ASSUME NEW p \in Pods, Fetch(p) PROVE FetchInv' /\ NoPurgedData'
  BY <1>4, <1>1 DEF Fetch, TypeOK, FetchType
<1>5. ASSUME NEW p \in Pods, Insert(p) PROVE FetchInv' /\ NoPurgedData'
  <2>1. FetchInv'
    BY <1>5, <1>1 DEF Insert, NoFetch, TypeOK, FetchType
  <2>2. NoPurgedData'
    <3>1. CASE fetch[p].epoch = epoch[p]
      BY <3>1, <1>5, <1>1 DEF Insert, TypeOK
    <3>2. CASE fetch[p].epoch # epoch[p]
      BY <3>2, <1>5 DEF Insert
    <3> QED BY <3>1, <3>2
  <2> QED BY <2>1, <2>2
<1>6. ASSUME NEW p \in Pods, Crash(p) PROVE FetchInv' /\ NoPurgedData'
  BY <1>6, <1>1 DEF Crash, NoFetch, TypeOK, FetchType
<1>7. ASSUME NEW p \in Pods,
             Claim(p) \/ QueueBlock(p) \/ QueueDone(p) \/ CountMissing(p) \/ Complete(p)
               \/ Fail(p) \/ Heartbeat(p)
      PROVE  UNCHANGED <<fetch, epoch, rows>>
  BY <1>7 DEF Claim, QueueBlock, QueueDone, CountMissing, Complete, Fail, Close, Heartbeat
<1>8. ASSUME NEW r \in Requests, GoStale(r) PROVE UNCHANGED <<fetch, epoch, rows>>
  BY <1>8 DEF GoStale
<1>9. ASSUME UNCHANGED vars PROVE UNCHANGED <<fetch, epoch, rows>>
  BY <1>9 DEF vars
<1> QED BY <1>2, <1>3, <1>4, <1>5, <1>6, <1>7, <1>8, <1>9 DEF Next, ScannerNext, WorkerNext

\* No worker brings back what its own pod deleted under it: deleteReindexRange
\* bumps reorgEpoch before it lets go of the lock, and insertBlockData compares.
THEOREM PurgedNeverBack == Spec => []NoPurgedData
<1>1. Init => FenceInv
  BY InitType DEF Init, FenceInv, FetchInv, NoPurgedData, NoFetch
<1>2. FenceInv => NoPurgedData
  BY DEF FenceInv
<1> QED BY <1>1, <1>2, FenceStep, PTL DEF Spec

-----------------------------------------------------------------------------
(* How a request ends.                                                      *)

\* What one step does to the statuses.
LEMMA ClosingStep ==
  ASSUME TypeOK, [Next]_vars, NEW r \in Requests
  PROVE  /\ status[r] \in Closed => status'[r] = status[r]
         /\ \A p \in Pods : status'[r] # status[r] /\ status'[r] \in Closed /\ scanner'[p] # scanner[p]
              => claimer[r] = ClaimerOf[p]
<1> USE DEF requestVars, workVars, budgetVars
<1> DEFINE Kept == \A q \in Requests : status'[q] = status[q]
<1>1. CASE UNCHANGED status
  BY <1>1
<1>2. ASSUME NEW o \in Pods, Claim(o)
      PROVE  /\ status[r] \in Closed => status'[r] = status[r]
             /\ status'[r] # status[r] => status'[r] = "processing"
  <2>1. Claimable \in SUBSET Nat /\ Claimable # {}
    BY <1>2, ReindexSizes DEF Claim, Claimable
  <2>2. Min(Claimable) \in Claimable
    BY <2>1, MinOfHeights
  <2> QED BY <1>2, <2>2 DEF Claim, Claimable, Closed, TypeOK
<1>3. ASSUME NEW o \in Pods, NEW outcome \in Closed, Close(o, outcome)
      PROVE  /\ status[r] \in Closed => status'[r] = status[r]
             /\ status'[r] # status[r] => r = scanner[o].req /\ claimer[r] = ClaimerOf[o]
             /\ \A p \in Pods \ {o} : scanner'[p] = scanner[p]
  BY <1>3 DEF Close, StillClaimed, Closed, TypeOK
<1>4. ASSUME NEW o \in Pods, Complete(o) \/ Fail(o)
      PROVE  \E outcome \in Closed : Close(o, outcome)
  BY <1>4 DEF Complete, Fail, Closed
<1>5. ASSUME NEW o \in Pods,
             DeleteRange(o) \/ QueueBlock(o) \/ QueueDone(o) \/ CountMissing(o) \/ Heartbeat(o)
               \/ Fetch(o) \/ Insert(o) \/ Crash(o)
      PROVE  UNCHANGED status
  BY <1>5 DEF DeleteRange, QueueBlock, QueueDone, CountMissing, Heartbeat, Fetch, Insert, Crash
<1>6. ASSUME NEW q \in Requests, GoStale(q) PROVE UNCHANGED status
  BY <1>6 DEF GoStale
<1>7. ASSUME UNCHANGED vars PROVE UNCHANGED status
  BY <1>7 DEF vars
<1>8. "processing" \notin Closed
  BY DEF Closed
<1> QED BY <1>1, <1>2, <1>3, <1>4, <1>5, <1>6, <1>7, <1>8 DEF Next, ScannerNext, WorkerNext

\* Only a pod of the version that claimed a request closes it, once, however
\* long another pod goes on with a claim it has lost.
THEOREM OnlyClaimerCloses == Spec => ClosedByClaimer
<1>1. TypeOK /\ [Next]_vars =>
        [\A r \in Requests :
           /\ status[r] \in Closed => status'[r] = status[r]
           /\ \A p \in Pods :
                status'[r] # status[r] /\ status'[r] \in Closed /\ scanner'[p] # scanner[p]
                  => claimer[r] = ClaimerOf[p]]_vars
  BY ClosingStep
<1> QED BY <1>1, ReindexTypeCorrect, PTL DEF Spec, ClosedByClaimer
=============================================================================
