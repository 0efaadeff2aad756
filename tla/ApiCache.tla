------------------------------- MODULE ApiCache -------------------------------
(* The read side of the REST API of one process, for one network: response    *)
(* caches with a time to live, one shared computation per key (aggregateGroup, *)
(* a singleflight.Group), queries against a database that moves meanwhile,     *)
(* and the poller, which drops caches when it sees new data and only then      *)
(* broadcasts the event that makes every dashboard ask again.                  *)
(*                                                                           *)
(* The database is a version number per part: confirmed data and the pending  *)
(* pool.  An answer is the version each query behind it saw.  Copies held by  *)
(* browsers and by the edge, and the blob schedule of a pricing answer with    *)
(* its cache, are not modelled.                                               *)
EXTENDS Integers, Sequences, FiniteSets, SequencesExt, Endpoints

CONSTANTS
  Clients,      \* callers of the API
  Questions,    \* [endpoint, arg] they ask, arg standing for limit, window, key
  FirstSeen,    \* [arg]: version of the blocks from which an entity or builder is known
  Writes,       \* sets of parts that one transaction may change
  Ttl,          \* Ttl[e]: time an answer of endpoint e is kept
  Timeout,      \* aggregateQueryTimeout
  MaxTime,      \* bound on the clock
  MaxCommits,   \* bound on database commits
  MaxAsks,      \* bound on requests
  None          \* no value

VARIABLES
  version,   \* the database: a version per part
  since,     \* history: since[p][v + 1] is when version v of p was committed
  time,
  cache,     \* [answer, expires, crossed] per cached question, or None
  flights,   \* one computation per key, or None
  client,    \* what each caller is doing
  seen,      \* the poller: the last version it noticed
  owed,      \* the poller: parts whose caches are dropped, not yet broadcast
  told,      \* the last version broadcast
  shown,     \* history: per question, the newest versions an answer has had
  asks

dbVars == <<version, since>>
pollVars == <<seen, owed, told>>
apiVars == <<dbVars, time, cache, flights, client, pollVars, shown, asks>>

\* What is cached for a question, and the key it has in the cache and among
\* the flights: the question itself, or the addresses of its entity.
KeyOf(q) == IF q.endpoint \in Resolving
            THEN [endpoint |-> "addresses", arg |-> q.arg] ELSE q
Keys == {KeyOf(q) : q \in {x \in Questions : x.endpoint \notin Uncached}}

ASSUME ApiTimes == Timeout \in Nat /\ \A k \in Keys : Ttl[k.endpoint] \in Nat
ASSUME ApiQuestions ==
  \A q \in Questions : q.endpoint \in Shared \cup Resolving \cup Uncached

\* That an entity or a builder is not found is an error, shared but not kept; an
\* empty list of addresses is kept.
Keepable(k, answer) ==
  k.endpoint \in {"entity", "entity_all", "builder"} => answer[1] >= FirstSeen[k.arg]

Idle == [stage |-> "idle"]

Init ==
  /\ version = [p \in Parts |-> 0]
  /\ since = [p \in Parts |-> <<0>>]
  /\ time = 0
  /\ cache = [k \in Keys |-> None]
  /\ flights = [k \in Keys |-> None]
  /\ client = [c \in Clients |-> Idle]
  /\ seen = [p \in Parts |-> 0]
  /\ owed = {}
  /\ told = [p \in Parts |-> 0]
  /\ shown = [q \in Questions |-> <<>>]
  /\ asks = 0
-----------------------------------------------------------------------------
(* The database.                                                             *)

\* A transaction of the indexer: blocks, pool or both.
Commit(ps) ==
  /\ version["blocks"] + version["pool"] < MaxCommits
  /\ version' = [p \in Parts |-> version[p] + (IF p \in ps THEN 1 ELSE 0)]
  /\ since' = [p \in Parts |-> IF p \in ps THEN Append(since[p], time) ELSE since[p]]
  /\ UNCHANGED <<time, cache, flights, client, pollVars, shown, asks>>
-----------------------------------------------------------------------------
(* The poller, one goroutine: drop what a change makes old, then broadcast it. *)

\* Mutant: the lists and the records keep their entries.
NoticeKeepsLists(p) ==
  /\ owed = {} /\ version[p] > seen[p]
  /\ seen' = [seen EXCEPT ![p] = version[p]]
  /\ owed' = owed \cup {p}
  /\ cache' = [k \in Keys |->
       IF k.endpoint \in Dropped(p) \ {"latest", "records", "mempool"} THEN None ELSE cache[k]]
  /\ UNCHANGED <<dbVars, time, flights, client, told, shown, asks>>

\* crossed: a computation that was under way is not stopped, and may store an
\* answer from before the change.
Notice(p) ==
  /\ owed = {} /\ version[p] > seen[p]
  /\ seen' = [seen EXCEPT ![p] = version[p]]
  /\ owed' = owed \cup {p}
  /\ cache' = [k \in Keys |-> IF k.endpoint \in Dropped(p) THEN None ELSE cache[k]]
  /\ flights' = [k \in Keys |->
       IF flights[k] # None /\ k.endpoint \in Dropped(p)
       THEN [flights[k] EXCEPT !.crossed = TRUE] ELSE flights[k]]
  /\ UNCHANGED <<dbVars, time, client, told, shown, asks>>

Broadcast(p) ==
  /\ p \in owed
  /\ owed' = owed \ {p}
  /\ told' = [told EXCEPT ![p] = seen[p]]
  /\ UNCHANGED <<dbVars, time, cache, flights, client, seen, shown, asks>>
-----------------------------------------------------------------------------
(* A request.                                                                *)

\* What the caller knows when it asks, kept with the request as history.
Ask(c, q) ==
  /\ client[c].stage \in {"idle", "answered", "notFound"}
  /\ asks < MaxAsks
  /\ asks' = asks + 1
  /\ client' = [client EXCEPT ![c] =
       [stage |-> IF q.endpoint \in Uncached THEN "direct" ELSE "asked",
        question |-> q, floor |-> shown[q], told |-> told, head |-> <<>>]]
  /\ UNCHANGED <<dbVars, time, cache, flights, pollVars, shown>>

AtLeast(a, b) == [i \in 1 .. Len(a) |-> IF i <= Len(b) /\ b[i] > a[i] THEN b[i] ELSE a[i]]

\* The caller gets answer a.  For an entity listing these are the addresses: the
\* listing itself is still to be read, or there are none and that is the answer.
Given(cl, a, crossed) ==
  IF cl.question.endpoint \in Resolving /\ cl.stage # "direct"
  THEN IF a[1] >= FirstSeen[cl.question.arg]
       THEN [cl EXCEPT !.stage = "direct", !.head = a]
       ELSE [stage |-> "notFound", head |-> a, crossed |-> crossed]
  ELSE [stage |-> "answered", head |-> a, crossed |-> crossed]

\* Hand a to the callers in cs.
Deliver(cs, a, crossed) ==
  /\ client' = [c \in Clients |-> IF c \in cs THEN Given(client[c], a, crossed) ELSE client[c]]
  /\ shown' = [q \in Questions |->
       IF \E c \in cs : client'[c].stage = "answered" /\ client[c].question = q
       THEN AtLeast(a, shown[q]) ELSE shown[q]]

KeyFor(c) == KeyOf(client[c].question)

\* Mutant: an entry is served until it is replaced.
FreshAlways(k) == cache[k] # None

Fresh(k) == cache[k] # None /\ time < cache[k].expires

\* The lookup, and the one a leader repeats inside Do.  What happens between
\* the two is as if it had happened before the first.
Hit(c) ==
  /\ client[c].stage = "asked"
  /\ Fresh(KeyFor(c))
  /\ Deliver({c}, cache[KeyFor(c)].answer, cache[KeyFor(c)].crossed)
  /\ UNCHANGED <<dbVars, time, cache, flights, pollVars, asks>>

\* aggregateGroup.Do with a computation of the same key under way.
Join(c) ==
  /\ client[c].stage = "asked"
  /\ ~ Fresh(KeyFor(c)) /\ flights[KeyFor(c)] # None
  /\ client' = [client EXCEPT ![c].stage = "waiting"]
  /\ UNCHANGED <<dbVars, time, cache, flights, pollVars, shown, asks>>

\* aggregateGroup.Do without one: the caller leads.
Lead(c) ==
  /\ client[c].stage = "asked"
  /\ ~ Fresh(KeyFor(c)) /\ flights[KeyFor(c)] = None
  /\ client' = [client EXCEPT ![c].stage = "waiting"]
  /\ flights' = [flights EXCEPT ![KeyFor(c)] =
       [stage |-> "running", answer |-> <<>>, begun |-> time, crossed |-> FALSE]]
  /\ UNCHANGED <<dbVars, time, cache, pollVars, shown, asks>>

\* The next statement of the request itself; its snapshot adds to the answer.
WithNext(c) ==
  LET head == client[c].head IN
  Append(head, version[Reads(client[c].question.endpoint)[Len(head) + 1]])

Direct(c) ==
  /\ client[c].stage = "direct"
  /\ Len(client[c].head) + 1 < Len(Reads(client[c].question.endpoint))
  /\ client' = [client EXCEPT ![c].head = WithNext(c)]
  /\ UNCHANGED <<dbVars, time, cache, flights, pollVars, shown, asks>>

\* The last one answers it.
DirectEnds(c) ==
  /\ client[c].stage = "direct"
  /\ Len(client[c].head) + 1 = Len(Reads(client[c].question.endpoint))
  /\ Deliver({c}, WithNext(c), FALSE)
  /\ UNCHANGED <<dbVars, time, cache, flights, pollVars, asks>>

\* The query failed, or the caller went away and its context with it.
DirectFails(c) ==
  /\ client[c].stage = "direct"
  /\ client' = [client EXCEPT ![c] = Idle]
  /\ UNCHANGED <<dbVars, time, cache, flights, pollVars, shown, asks>>
-----------------------------------------------------------------------------
(* A computation.  Its context outlives the caller that leads it and ends     *)
(* after Timeout.  A query sees one snapshot; its result comes later.         *)

CutOff(k) == time >= flights[k].begun + Timeout

Running(k) == flights[k] # None /\ flights[k].stage = "running"
Left(k) == LET f == flights[k] IN
  SubSeq(Reads(k.endpoint), Len(f.answer) + 1, Len(Reads(k.endpoint)))

Read(k) ==
  /\ Running(k) /\ ~ CutOff(k) /\ Left(k) # <<>>
  /\ flights' = [flights EXCEPT ![k].answer = Append(@, version[Left(k)[1]])]
  /\ UNCHANGED <<dbVars, time, cache, client, pollVars, shown, asks>>

\* A query fails, or the time is up; the callers share the error.
Fail(k) ==
  /\ Running(k)
  /\ flights' = [flights EXCEPT ![k].stage = "failed"]
  /\ UNCHANGED <<dbVars, time, cache, client, pollVars, shown, asks>>

\* Mutant: an entry that is there only lives longer.
EntryExtended(k) ==
  [answer |-> IF cache[k] = None THEN flights[k].answer ELSE cache[k].answer,
   expires |-> time + Ttl[k.endpoint], crossed |-> flights[k].crossed]

\* The entry a computation leaves.
EntryOf(k) ==
  [answer |-> flights[k].answer, expires |-> time + Ttl[k.endpoint],
   crossed |-> flights[k].crossed]

\* The results are in and are kept under the lock.
Store(k) ==
  /\ Running(k) /\ ~ CutOff(k) /\ Left(k) = <<>>
  /\ cache' = IF Keepable(k, flights[k].answer)
              THEN [cache EXCEPT ![k] = EntryOf(k)] ELSE cache
  /\ flights' = [flights EXCEPT ![k].stage = "stored"]
  /\ UNCHANGED <<dbVars, time, client, pollVars, shown, asks>>

Waiting(k) == {c \in Clients : client[c].stage = "waiting" /\ KeyFor(c) = k}

\* Do returns to all of them, and the key is free again.
Return(k) ==
  /\ flights[k] # None /\ flights[k].stage = "stored"
  /\ Deliver(Waiting(k), flights[k].answer, flights[k].crossed)
  /\ flights' = [flights EXCEPT ![k] = None]
  /\ UNCHANGED <<dbVars, time, cache, pollVars, asks>>

ReturnError(k) ==
  /\ flights[k] # None /\ flights[k].stage = "failed"
  /\ client' = [c \in Clients |-> IF c \in Waiting(k) THEN Idle ELSE client[c]]
  /\ flights' = [flights EXCEPT ![k] = None]
  /\ UNCHANGED <<dbVars, time, cache, pollVars, shown, asks>>
-----------------------------------------------------------------------------
(* The clock.  Only queries take time: a lookup, a wake-up or a context that  *)
(* has ended is dealt with at once.                                          *)

Urgent ==
  \/ \E c \in Clients : client[c].stage = "asked"
  \/ \E k \in Keys : flights[k] # None /\ (flights[k].stage # "running" \/ CutOff(k))

ClockTick ==
  /\ time < MaxTime
  /\ ~ Urgent
  /\ time' = time + 1
  /\ UNCHANGED <<dbVars, cache, flights, client, pollVars, shown, asks>>

Next ==
  \/ \E ps \in Writes : Commit(ps)
  \/ ClockTick
  \/ \E p \in Parts : Notice(p) \/ Broadcast(p)
  \/ \E c \in Clients :
       \/ \E q \in Questions : Ask(c, q)
       \/ Hit(c) \/ Join(c) \/ Lead(c)
       \/ Direct(c) \/ DirectEnds(c) \/ DirectFails(c)
  \/ \E k \in Keys :
       \/ Read(k) \/ Fail(k) \/ Store(k) \/ Return(k) \/ ReturnError(k)

ApiSpec == Init /\ [][Next]_apiVars
-----------------------------------------------------------------------------
(* Properties.                                                               *)

\* Caller c gets, in this step, an answer that a computation or the cache gave.
Served(c) ==
  /\ client[c].stage \in {"asked", "waiting"}
  /\ client'[c].stage \in {"direct", "answered", "notFound"}

Replied(c) == client[c].stage # "answered" /\ client'[c].stage = "answered"

\* Caller c is told that there is no such entity.
Refused(c) == client[c].stage # "notFound" /\ client'[c].stage = "notFound"

\* Version v of part p was the current one at some moment after t.
CurrentAfter(p, v, t) ==
  v \in 0 .. Len(since[p]) - 1 /\ (v + 2 <= Len(since[p]) => since[p][v + 2] > t)

\* handlers.go:36-99: however requests, computations, invalidations and
\* failures interleave, what a cached endpoint answers was true of the database
\* less than its TTL and one query timeout ago.
StalenessBounded ==
  [][\A c \in Clients : Served(c) =>
       LET k == KeyFor(c)
           a == client'[c].head
       IN  \A i \in DOMAIN a :
             CurrentAfter(Reads(k.endpoint)[i], a[i], time - Ttl[k.endpoint] - Timeout)]_apiVars

\* router.go:260-301, ws_poller.go:49-58: a caller that asks after a broadcast
\* gets an answer that shows what was broadcast, unless the computation behind
\* it was already under way when the caches were dropped.
RefetchSeesBlock ==
  [][\A c \in Clients : Replied(c) /\ ~ client'[c].crossed =>
       LET q == client[c].question
       IN  \A p \in Parts : q.endpoint \in Dropped(p) =>
             \A i \in DOMAIN client'[c].head :
               Reads(q.endpoint)[i] = p => client'[c].head[i] >= client[c].told[p]]_apiVars

\* One computation per key: an answer is never older, query by query, than an
\* answer to the same question that was out before the request came in.  An
\* entity is not told missing by an older look at the addresses either.
AnswersNeverGoBack ==
  [][\A c \in Clients :
       LET floor == client[c].floor
           head == client'[c].head
       IN  /\ Replied(c) => \A i \in DOMAIN floor : head[i] >= floor[i]
           /\ Refused(c) => \A i \in DOMAIN floor \cap DOMAIN head : head[i] >= floor[i]]_apiVars

\* Not so (README 6): the herd after a broadcast may join or inherit a computation that
\* read the database before it, and gets the pre-block answer
\* ws_poller.go:49-58 says it cannot get.
HerdSeesBlock ==
  [][\A c \in Clients : Replied(c) =>
       LET q == client[c].question
       IN  \A p \in Parts : q.endpoint \in Dropped(p) =>
             \A i \in DOMAIN client'[c].head :
               Reads(q.endpoint)[i] = p => client'[c].head[i] >= client[c].told[p]]_apiVars
=============================================================================
