--------------------------- MODULE ReadSide_proofs ---------------------------
(***************************************************************************)
(* Proofs about what the REST API answers: ApiCache, for any callers,      *)
(* questions, times to live and timeout, and any number of commits; and    *)
(* ChartReads, for any blocks, senders and entities, any bucket sizes and  *)
(* retention, and any clock.                                               *)
(***************************************************************************)
EXTENDS ApiCache, ChartReads, Numbers, SequenceTheorems

Answers == Seq(Nat)
Entries == [answer : Answers, expires : Int, crossed : BOOLEAN]
Computations == [stage : {"running", "stored", "failed"}, answer : Answers, begun : Nat, crossed : BOOLEAN]
Requests == [stage : {"asked", "waiting", "direct"}, question : Questions, floor : Answers,
             told : [Parts -> Nat], head : Answers]
Replies == [stage : {"answered", "notFound"}, head : Answers, crossed : BOOLEAN]

ApiTypes ==
  /\ version \in [Parts -> Nat] /\ since \in [Parts -> Seq(Nat)] /\ time \in Nat
  /\ seen \in [Parts -> Nat] /\ owed \subseteq Parts /\ told \in [Parts -> Nat]
  /\ cache \in [Keys -> Entries \cup {None}]
  /\ flights \in [Keys -> Computations \cup {None}]
  /\ client \in [Clients -> {Idle} \cup Requests \cup Replies]
  /\ shown \in [Questions -> Answers]

Width(e) == Len(Reads(e))

\* The questions that are looked up in the cache.
Keyed == {q \in Questions : q.endpoint \notin Uncached}

\* An answer, and what of it was out before, has the length of its queries.
Asks(c) == client[c].stage \in {"asked", "waiting", "direct"}

RequestOK(cl) ==
  /\ cl.stage # "direct" => cl.question \in Keyed
  /\ cl.stage = "direct" =>
       /\ cl.question.endpoint \in Uncached \cup Resolving
       /\ Len(cl.head) < Width(cl.question.endpoint)
       /\ cl.question \in Keyed => Width(KeyOf(cl.question).endpoint) <= Len(cl.head)
  /\ Len(cl.floor) \in {0, Width(cl.question.endpoint)}

LengthInv ==
  /\ \A p \in Parts : Len(since[p]) = version[p] + 1
  /\ \A k \in Keys : cache[k] # None => Len(cache[k].answer) = Width(k.endpoint)
  /\ \A k \in Keys : flights[k] # None =>
       /\ Len(flights[k].answer) <= Width(k.endpoint)
       /\ flights[k].stage = "stored" => Len(flights[k].answer) = Width(k.endpoint)
  /\ \A q \in Questions : Len(shown[q]) \in {0, Width(q.endpoint)}
  /\ \A c \in Clients : Asks(c) => RequestOK(client[c])

\* What an entry or a computation holds was current after it began, or after
\* the moment its expiry tells.
CurrentAll(k, a, t) == \A i \in DOMAIN a : CurrentAfter(Reads(k.endpoint)[i], a[i], t)

SinceInv ==
  /\ \A k \in Keys : cache[k] # None =>
       /\ cache[k].expires - Ttl[k.endpoint] - Timeout < time
       /\ CurrentAll(k, cache[k].answer, cache[k].expires - Ttl[k.endpoint] - Timeout)
  /\ \A k \in Keys : flights[k] # None =>
       /\ flights[k].begun <= time
       /\ CurrentAll(k, flights[k].answer, flights[k].begun - 1)
       /\ flights[k].stage = "stored" => time < flights[k].begun + Timeout

\* What the poller noticed is in every answer that was not under way then.
Shows(k, a) ==
  \A p \in Parts : k.endpoint \in Dropped(p) =>
    \A i \in DOMAIN a : Reads(k.endpoint)[i] = p => a[i] >= seen[p]

ToldInv ==
  /\ \A p \in Parts : told[p] <= seen[p] /\ seen[p] <= version[p]
  /\ \A c \in Clients : Asks(c) => \A p \in Parts : client[c].told[p] <= told[p]
  /\ \A k \in Keys : cache[k] # None /\ ~cache[k].crossed => Shows(k, cache[k].answer)
  /\ \A k \in Keys : flights[k] # None /\ ~flights[k].crossed => Shows(k, flights[k].answer)

\* Where both say something, b is not older than a.
NotAfter(a, b) == \A i \in DOMAIN a \cap DOMAIN b : a[i] <= b[i]

\* What is out, a, is no newer than what the key k has in stock.
Behind(k, a) ==
  /\ \A i \in DOMAIN a \cap DOMAIN Reads(k.endpoint) : a[i] <= version[Reads(k.endpoint)[i]]
  /\ Fresh(k) => NotAfter(a, cache[k].answer)
  /\ flights[k] # None /\ flights[k].stage # "failed" => NotAfter(a, flights[k].answer)

OrderInv ==
  /\ \A k \in Keys : Running(k) => ~Fresh(k)
  /\ \A k \in Keys : flights[k] # None /\ flights[k].stage = "stored" /\ Fresh(k) =>
       cache[k].answer = flights[k].answer
  /\ \A q \in Questions : \A i \in DOMAIN shown[q] : shown[q][i] <= version[Reads(q.endpoint)[i]]
  /\ \A q \in Keyed : Behind(KeyOf(q), shown[q])
  /\ \A c \in Clients : Asks(c) =>
       LET cl == client[c] IN
       /\ Len(cl.floor) <= Len(shown[cl.question]) /\ NotAfter(cl.floor, shown[cl.question])
       /\ cl.stage = "direct" =>
            /\ NotAfter(cl.floor, cl.head)
            /\ \A i \in DOMAIN cl.head : cl.head[i] <= version[Reads(cl.question.endpoint)[i]]
            /\ cl.question \in Keyed => Behind(KeyOf(cl.question), cl.head)
(***************************************************************************)
(* Answers and their queries.                                              *)

\* A function on 1..n is a sequence of length n.
LEMMA SeqOfFunction ==
  ASSUME NEW S, NEW n \in Nat, NEW f \in [1..n -> S]
  PROVE  f \in Seq(S) /\ Len(f) = n
<1>1. f \in Seq(S)
  OBVIOUS
<1>2. Len(f) \in Nat /\ 1..Len(f) = 1..n
  BY <1>1, LenProperties
<1> QED BY <1>1, <1>2

LEMMA ReadsAre ==
  ASSUME NEW e
  PROVE  /\ Reads(e) \in Seq(Parts) /\ Width(e) \in Nat \ {0}
         /\ DOMAIN Reads(e) = 1..Width(e) /\ \A i \in 1..Width(e) : Reads(e)[i] \in Parts
<1>1. \A n \in Nat : [i \in 1..n |-> "blocks"] \in Seq(Parts) /\ Len([i \in 1..n |-> "blocks"]) = n
  <2>1. SUFFICES ASSUME NEW n \in Nat
                 PROVE  [i \in 1..n |-> "blocks"] \in Seq(Parts) /\ Len([i \in 1..n |-> "blocks"]) = n
    OBVIOUS
  <2>2. [i \in 1..n |-> "blocks"] \in [1..n -> Parts]
    BY DEF Parts
  <2> QED BY <2>2, SeqOfFunction
<1> DEFINE OK(r) == r \in Seq(Parts) /\ Len(r) \in Nat \ {0}
<1>2. OK(GetBlockByNumber) /\ OK(queryBlobRecords)
  BY <1>1 DEF GetBlockByNumber, queryBlobRecords
<1>3. /\ OK(GetLatestBlobs) /\ OK(resolveEntityAddresses) /\ OK(TopBlobUsers) /\ OK(EntityDetail)
      /\ OK(GetUserBreakdown) /\ OK(GetBuilderShareChart) /\ OK(GetBlobTipsChart) /\ OK(GetBuilders)
  BY DEF Parts, GetLatestBlobs, resolveEntityAddresses, TopBlobUsers, EntityDetail, GetUserBreakdown, GetBuilderShareChart,
         GetBlobTipsChart, GetBuilders
<1>4. OK(GetMempoolBlobs) /\ OK(GetBlobReplacements)
  BY DEF Parts, GetMempoolBlobs, GetBlobReplacements
<1>5. /\ OK(LatestOfEntity) /\ OK(queryBlobPricing) /\ OK(GetBlobMarketChart)
      /\ OK(GetAttributionUsageChart) /\ OK(GetCostComparisonChart)
  BY DEF Parts, LatestOfEntity, queryBlobPricing, GetBlobMarketChart, GetAttributionUsageChart, GetCostComparisonChart
<1>6. /\ OK(MempoolOfEntity) /\ OK(queryMempoolPressure) /\ OK(GetBlobByTxHash) /\ OK(GetBlobByVersionedHash)
      /\ OK(queryBlobStats) /\ OK(TopBlobUsersAll) /\ OK(UserBreakdownAll) /\ OK(GetUserByAddress) /\ OK(EntityDetailAll)
  BY DEF Parts, MempoolOfEntity, queryMempoolPressure, GetBlobByTxHash, GetBlobByVersionedHash, queryBlobStats,
         TopBlobUsersAll, UserBreakdownAll, GetUserByAddress, EntityDetailAll
<1>7. /\ OK(GetBlobInclusion) /\ OK(searchHash) /\ OK(GetIndexerStatus) /\ OK(GetRollingStatsWindows)
      /\ OK(builderDetail)
  BY DEF Parts, GetBlobInclusion, searchHash, GetIndexerStatus, GetRollingStatsWindows, builderDetail
<1> HIDE DEF OK
<1>8. OK(Reads(e))
  BY <1>2, <1>3, <1>4, <1>5, <1>6, <1>7, Zenon DEF Reads
<1>9. Reads(e) \in Seq(Parts) /\ Len(Reads(e)) \in Nat \ {0}
  BY <1>8 DEF OK
<1>10. DOMAIN Reads(e) = 1..Len(Reads(e)) /\ \A i \in 1..Len(Reads(e)) : Reads(e)[i] \in Parts
  BY <1>9, LenProperties, ElementOfSeq
<1> QED BY <1>9, <1>10 DEF Width

\* An entity listing begins with the query its addresses are cached for.
LEMMA KeyPrefix ==
  ASSUME NEW q \in Keyed
  PROVE  /\ q \in Questions /\ KeyOf(q) \in Keys /\ q.endpoint \notin Uncached
         /\ q.endpoint \notin Resolving => KeyOf(q) = q
         /\ Width(KeyOf(q).endpoint) <= Width(q.endpoint)
         /\ q.endpoint \in Resolving => Width(KeyOf(q).endpoint) < Width(q.endpoint)
         /\ \A i \in 1..Width(KeyOf(q).endpoint) : Reads(KeyOf(q).endpoint)[i] = Reads(q.endpoint)[i]
<1>1. q \in Questions /\ KeyOf(q) \in Keys /\ q.endpoint \notin Uncached
  BY DEF Keyed, Keys
<1>2. CASE q.endpoint \notin Resolving
  <2>1. KeyOf(q) = q
    BY <1>2 DEF KeyOf
  <2>2. Width(q.endpoint) \in Nat
    BY ReadsAre
  <2> QED BY <1>1, <1>2, <2>1, <2>2
<1>3. CASE q.endpoint \in Resolving
  <2>1. KeyOf(q).endpoint = "addresses"
    BY <1>3 DEF KeyOf
  <2>2. Reads("addresses") = <<"blocks">>
    BY DEF Reads, resolveEntityAddresses
  <2>3. Reads(q.endpoint) \in {<<"blocks", "blocks">>, <<"blocks", "pool">>}
    BY <1>3 DEF Resolving, Reads, LatestOfEntity, MempoolOfEntity
  <2>4. Width("addresses") = 1 /\ Width(q.endpoint) = 2
    BY <2>2, <2>3 DEF Width
  <2>5. Reads("addresses")[1] = Reads(q.endpoint)[1]
    BY <2>2, <2>3
  <2> QED BY <1>1, <1>3, <2>1, <2>4, <2>5
<1> QED BY <1>2, <1>3

\* What a computation still has to read.
LEMMA LeftIs ==
  ASSUME ApiTypes, LengthInv, NEW k \in Keys, flights[k] # None
  PROVE  LET f == flights[k] IN
         /\ f \in Computations /\ Len(f.answer) \in Nat /\ Len(f.answer) <= Width(k.endpoint)
         /\ Left(k) = <<>> => Len(f.answer) = Width(k.endpoint)
         /\ Left(k) # <<>> => /\ Len(f.answer) < Width(k.endpoint)
                              /\ Left(k)[1] = Reads(k.endpoint)[Len(f.answer) + 1]
                              /\ Left(k)[1] \in Parts
<1> DEFINE f == flights[k]
           n == Len(f.answer)
           r == Reads(k.endpoint)
<1>1. f \in Computations /\ n \in Nat /\ n <= Len(r)
  <2>1. f \in Computations
    BY DEF ApiTypes
  <2>2. f.answer \in Seq(Nat)
    BY <2>1 DEF Computations, Answers
  <2> QED BY <2>1, <2>2 DEF LengthInv, Width
<1>2. r \in Seq(Parts) /\ Len(r) \in Nat
  BY ReadsAre
<1>3. Left(k) = SubSeq(r, n + 1, Len(r))
  BY DEF Left
<1> HIDE DEF f, n, r
<1>4. Len(SubSeq(r, n + 1, Len(r))) = Len(r) - n
  BY <1>1, <1>2, SubSeqProperties
<1>5. n < Len(r) => SubSeq(r, n + 1, Len(r))[1] = r[n + 1] /\ r[n + 1] \in Parts
  BY <1>1, <1>2, SubSeqProperties
<1>6. SubSeq(r, n + 1, Len(r)) = <<>> <=> n = Len(r)
  <2>1. SubSeq(r, n + 1, Len(r)) \in Seq(Parts)
    <3>1. \A i \in (n + 1)..Len(r) : r[i] \in Parts
      BY <1>1, <1>2, ElementOfSeq
    <3> QED BY <1>1, <1>2, <3>1, SubSeqProperties
  <2>2. \A t \in Seq(Parts) : t = <<>> <=> Len(t) = 0
    BY EmptySeq
  <2>3. Len(r) - n = 0 <=> n = Len(r)
    BY <1>1, <1>2
  <2> QED BY <1>4, <2>1, <2>2, <2>3
<1>7. n = Len(r) \/ n < Len(r)
  BY <1>1, <1>2
<1> QED BY <1>1, <1>3, <1>5, <1>6, <1>7 DEF f, n, r, Width

LEMMA AnswersAre ==
  ASSUME NEW a \in Answers
  PROVE  Len(a) \in Nat /\ DOMAIN a = 1..Len(a) /\ \A i \in 1..Len(a) : a[i] \in Nat
BY LenProperties, ElementOfSeq DEF Answers

LEMMA AtLeastIs ==
  ASSUME NEW a \in Answers, NEW b \in Answers
  PROVE  /\ AtLeast(a, b) \in Answers /\ Len(AtLeast(a, b)) = Len(a)
         /\ \A i \in 1..Len(a) : /\ AtLeast(a, b)[i] >= a[i]
                                 /\ \/ AtLeast(a, b)[i] = a[i]
                                    \/ (i \in 1..Len(b) /\ AtLeast(a, b)[i] = b[i])
                                 /\ i \in 1..Len(b) => AtLeast(a, b)[i] >= b[i]
<1>1. Len(a) \in Nat /\ Len(b) \in Nat /\ \A i \in 1..Len(a) : a[i] \in Nat
  BY AnswersAre
<1>2. \A i \in 1..Len(b) : b[i] \in Nat
  BY AnswersAre
<1> DEFINE m == AtLeast(a, b)
<1>3. \A i \in 1..Len(a) : m[i] = IF i <= Len(b) /\ b[i] > a[i] THEN b[i] ELSE a[i]
  BY DEF AtLeast
<1>4. m \in [1..Len(a) -> Nat]
  BY <1>1, <1>2 DEF AtLeast
<1> HIDE DEF m
<1>5. m \in Answers /\ Len(m) = Len(a)
  BY <1>1, <1>4, SeqOfFunction DEF Answers
<1>6. ASSUME NEW i \in 1..Len(a)
      PROVE  /\ m[i] >= a[i]
             /\ m[i] = a[i] \/ (i \in 1..Len(b) /\ m[i] = b[i])
             /\ i \in 1..Len(b) => m[i] >= b[i]
  <2>1. i \in 1..Len(b) <=> i <= Len(b)
    BY <1>1
  <2>2. CASE i <= Len(b) /\ b[i] > a[i]
    BY <1>1, <1>2, <1>3, <2>1, <2>2
  <2>3. CASE ~(i <= Len(b) /\ b[i] > a[i])
    BY <1>1, <1>2, <1>3, <2>1, <2>3
  <2> QED BY <2>2, <2>3
<1> QED BY <1>5, <1>6 DEF m

\* Who gets an answer, and what is out afterwards.
LEMMA Delivered ==
  ASSUME ApiTypes, NEW cs \in SUBSET Clients, NEW a, NEW x, Deliver(cs, a, x)
  PROVE  /\ \A c \in Clients : client'[c] = IF c \in cs THEN Given(client[c], a, x) ELSE client[c]
         /\ \A q \in Questions :
              \/ shown'[q] = shown[q]
              \/ /\ shown'[q] = AtLeast(a, shown[q])
                 /\ \E c \in cs : client'[c].stage = "answered" /\ client[c].question = q
         /\ \A c \in cs : client'[c].stage = "answered" /\ client[c].question \in Questions =>
              shown'[client[c].question] = AtLeast(a, shown[client[c].question])
BY DEF Deliver

\* The callers who are waiting or looking something up, and those who query for
\* themselves.
LEMMA RequestsAre ==
  ASSUME ApiTypes, NEW c \in Clients, Asks(c)
  PROVE  client[c] \in Requests
<1>1. client[c] \in {Idle} \cup Requests \cup Replies
  BY DEF ApiTypes
<1>2. client[c] # Idle /\ client[c] \notin Replies
  BY DEF Asks, Idle, Replies
<1> QED BY <1>1, <1>2

\* What a request becomes when it gets a.
LEMMA GivenIs ==
  ASSUME NEW cl \in Requests, NEW a \in Answers, NEW x \in BOOLEAN
  PROVE  \/ /\ cl.question.endpoint \in Resolving /\ cl.stage # "direct"
            /\ Given(cl, a, x) = [cl EXCEPT !.stage = "direct", !.head = a]
            /\ Given(cl, a, x) \in Requests
         \/ /\ cl.question.endpoint \in Resolving /\ cl.stage # "direct"
            /\ Given(cl, a, x) = [stage |-> "notFound", head |-> a, crossed |-> x]
            /\ Given(cl, a, x) \in Replies
         \/ /\ cl.question.endpoint \in Resolving => cl.stage = "direct"
            /\ Given(cl, a, x) = [stage |-> "answered", head |-> a, crossed |-> x]
            /\ Given(cl, a, x) \in Replies
<1> DEFINE first == cl.question.endpoint \in Resolving /\ cl.stage # "direct"
           known == a[1] >= FirstSeen[cl.question.arg]
<1>1. CASE first /\ known
  <2>1. Given(cl, a, x) = [cl EXCEPT !.stage = "direct", !.head = a]
    BY <1>1 DEF Given
  <2>2. [cl EXCEPT !.stage = "direct", !.head = a] \in Requests
    BY DEF Requests
  <2> QED BY <1>1, <2>1, <2>2
<1>2. CASE first /\ ~known
  <2>1. Given(cl, a, x) = [stage |-> "notFound", head |-> a, crossed |-> x]
    BY <1>2 DEF Given
  <2>2. [stage |-> "notFound", head |-> a, crossed |-> x] \in Replies
    BY DEF Replies
  <2> QED BY <1>2, <2>1, <2>2
<1>3. CASE ~first
  <2>1. Given(cl, a, x) = [stage |-> "answered", head |-> a, crossed |-> x]
    BY <1>3 DEF Given
  <2>2. [stage |-> "answered", head |-> a, crossed |-> x] \in Replies
    BY DEF Replies
  <2> QED BY <1>3, <2>1, <2>2
<1> QED BY <1>1, <1>2, <1>3

LEMMA DeliveredTypes ==
  ASSUME ApiTypes, NEW cs \in SUBSET Clients, NEW a \in Answers, NEW x \in BOOLEAN, Deliver(cs, a, x),
         \A c \in cs : Asks(c)
  PROVE  /\ client' \in [Clients -> {Idle} \cup Requests \cup Replies]
         /\ shown' \in [Questions -> Answers]
<1>1. ASSUME NEW c \in Clients PROVE client'[c] \in {Idle} \cup Requests \cup Replies
  <2>1. CASE c \in cs
    <3>1. client[c] \in Requests /\ client'[c] = Given(client[c], a, x)
      BY <2>1, Delivered, RequestsAre
    <3> QED BY <3>1, GivenIs
  <2>2. CASE c \notin cs
    BY <2>2, Delivered DEF ApiTypes
  <2> QED BY <2>1, <2>2
<1>2. ASSUME NEW q \in Questions PROVE shown'[q] \in Answers
  <2>1. shown[q] \in Answers
    BY DEF ApiTypes
  <2>2. shown'[q] = shown[q] \/ shown'[q] = AtLeast(a, shown[q])
    BY Delivered
  <2> QED BY <2>1, <2>2, AtLeastIs
<1>3. client' = [c \in Clients |-> client'[c]] /\ shown' = [q \in Questions |-> shown'[q]]
  BY DEF Deliver
<1> QED BY <1>1, <1>2, <1>3

\* A request's own statements: what it already has, then the database of the moment.
LEMMA NextIs ==
  ASSUME ApiTypes, LengthInv, NEW c \in Clients, client[c].stage = "direct"
  PROVE  LET q == client[c].question
             n == Len(client[c].head)
         IN  /\ client[c] \in Requests /\ RequestOK(client[c]) /\ q \in Questions
             /\ n \in Nat /\ n + 1 <= Width(q.endpoint) /\ DOMAIN client[c].head = 1..n
             /\ WithNext(c) \in Answers /\ Len(WithNext(c)) = n + 1
             /\ \A i \in 1..n : WithNext(c)[i] = client[c].head[i]
             /\ WithNext(c)[n + 1] = version[Reads(q.endpoint)[n + 1]]
<1> DEFINE q == client[c].question
           head == client[c].head
           n == Len(head)
           v == version[Reads(q.endpoint)[n + 1]]
<1>1. client[c] \in Requests /\ RequestOK(client[c])
  BY RequestsAre DEF Asks, LengthInv
<1>2. q \in Questions /\ head \in Answers
  BY <1>1 DEF Requests
<1>3. n \in Nat /\ DOMAIN head = 1..n
  BY <1>2, AnswersAre
<1>4. n < Width(q.endpoint) /\ Width(q.endpoint) \in Nat
  BY <1>1, ReadsAre DEF RequestOK
<1>5. n + 1 \in 1..Width(q.endpoint)
  BY <1>3, <1>4
<1>6. Reads(q.endpoint)[n + 1] \in Parts
  BY <1>5, ReadsAre
<1>7. v \in Nat
  BY <1>6 DEF ApiTypes
<1>8. WithNext(c) = Append(head, v)
  BY DEF WithNext
<1> HIDE DEF v, n, head
<1>9. head \in Seq(Nat)
  BY <1>2 DEF Answers
<1>10. /\ Append(head, v) \in Seq(Nat) /\ Len(Append(head, v)) = Len(head) + 1
       /\ \A i \in 1..Len(head) : Append(head, v)[i] = head[i]
       /\ Append(head, v)[Len(head) + 1] = v
  BY <1>7, <1>9, AppendProperties
<1>11. Len(head) = n
  BY DEF n
<1>12. WithNext(c) \in Answers /\ Len(WithNext(c)) = n + 1 /\ \A i \in 1..n : WithNext(c)[i] = head[i]
  BY <1>8, <1>10, <1>11 DEF Answers
<1>13. WithNext(c)[n + 1] = v
  BY <1>8, <1>10, <1>11
<1>14. n + 1 <= Width(q.endpoint)
  BY <1>3, <1>4
<1> QED BY <1>1, <1>2, <1>3, <1>12, <1>13, <1>14 DEF v, n, head

(***************************************************************************)
(* Types and lengths.                                                      *)

LEMMA ApiInitTypes == Init => ApiTypes /\ LengthInv
<1> SUFFICES ASSUME Init PROVE ApiTypes /\ LengthInv
  OBVIOUS
<1>1. <<0>> \in Seq(Nat) /\ <<>> \in Seq(Nat) /\ Len(<<0>>) = 1 /\ Len(<<>>) = 0
  OBVIOUS
<1>2. ApiTypes
  BY <1>1 DEF Init, ApiTypes, Answers
<1>3. LengthInv
  BY <1>1 DEF Init, LengthInv, Asks, Idle
<1> QED BY <1>2, <1>3

\* An answer of the right length leaves requests and what is out in order.
LEMMA DeliveredLengths ==
  ASSUME ApiTypes, LengthInv, NEW cs \in SUBSET Clients, NEW a \in Answers, NEW x \in BOOLEAN,
         Deliver(cs, a, x),
         \A c \in cs : /\ Asks(c)
                       /\ Len(a) = IF client[c].stage = "direct" THEN Width(client[c].question.endpoint)
                                                                 ELSE Width(KeyFor(c).endpoint)
  PROVE  /\ \A q \in Questions : Len(shown'[q]) \in {0, Width(q.endpoint)}
         /\ \A c \in Clients : Asks(c)' => RequestOK(client'[c])
<1>1. ASSUME NEW c \in cs
      PROVE  /\ client[c] \in Requests /\ RequestOK(client[c])
             /\ client'[c] = Given(client[c], a, x)
  BY RequestsAre, Delivered DEF LengthInv
<1>2. ASSUME NEW q \in Questions PROVE Len(shown'[q]) \in {0, Width(q.endpoint)}
  <2>1. CASE shown'[q] = shown[q]
    BY <2>1 DEF LengthInv
  <2>2. CASE /\ shown'[q] = AtLeast(a, shown[q])
             /\ \E c \in cs : client'[c].stage = "answered" /\ client[c].question = q
    <3>1. PICK c \in cs : client'[c].stage = "answered" /\ client[c].question = q
      BY <2>2
    <3>2. Given(client[c], a, x) \notin Requests
      BY <1>1, <3>1 DEF Requests
    <3>3. q.endpoint \in Resolving => client[c].stage = "direct"
      <4>1. Given(client[c], a, x) # [stage |-> "notFound", head |-> a, crossed |-> x]
        BY <1>1, <3>1
      <4> QED BY <1>1, <3>1, <3>2, <4>1, GivenIs
    <3>4. Len(a) = Width(q.endpoint)
      <4>1. CASE client[c].stage = "direct"
        BY <3>1, <4>1
      <4>2. CASE client[c].stage # "direct"
        <5>1. client[c].question \in Keyed
          BY <1>1, <4>2 DEF RequestOK
        <5>2. KeyOf(q) = q
          BY <3>1, <3>3, <4>2, <5>1, KeyPrefix
        <5> QED BY <3>1, <4>2, <5>2 DEF KeyFor
      <4> QED BY <4>1, <4>2
    <3>5. shown[q] \in Answers
      BY DEF ApiTypes
    <3> QED BY <2>2, <3>4, <3>5, AtLeastIs
  <2> QED BY <2>1, <2>2, Delivered
<1>3. ASSUME NEW c \in Clients, Asks(c)' PROVE RequestOK(client'[c])
  <2>1. CASE c \notin cs
    BY <1>3, <2>1, Delivered DEF LengthInv, Asks
  <2>2. CASE c \in cs
    <3>0. client'[c] \notin Replies
      BY <1>3 DEF Asks, Replies
    <3>1. client[c] \in Requests /\ client'[c] = Given(client[c], a, x) /\ Given(client[c], a, x) \notin Replies
      BY <1>1, <2>2, <3>0
    <3>2. /\ client[c].question.endpoint \in Resolving /\ client[c].stage # "direct"
          /\ client'[c] = [client[c] EXCEPT !.stage = "direct", !.head = a]
      BY <3>1, GivenIs
    <3>3. /\ client'[c].stage = "direct" /\ client'[c].head = a
          /\ client'[c].question = client[c].question /\ client'[c].floor = client[c].floor
      BY <1>1, <2>2, <3>2 DEF Requests
    <3>4. client[c].question \in Keyed /\ Len(a) = Width(KeyOf(client[c].question).endpoint)
      BY <1>1, <2>2, <3>2 DEF RequestOK, KeyFor
    <3>5. Len(a) < Width(client[c].question.endpoint) /\ Width(KeyOf(client[c].question).endpoint) <= Len(a)
      BY <3>2, <3>4, KeyPrefix, ReadsAre
    <3> QED BY <1>1, <2>2, <3>2, <3>3, <3>5 DEF RequestOK
  <2> QED BY <2>1, <2>2
<1> QED BY <1>2, <1>3

\* The parts of ApiTypes and LengthInv, by the variables they are about.
DatabaseOK ==
  /\ version \in [Parts -> Nat] /\ since \in [Parts -> Seq(Nat)] /\ time \in Nat
  /\ \A p \in Parts : Len(since[p]) = version[p] + 1
PollerOK == seen \in [Parts -> Nat] /\ owed \subseteq Parts /\ told \in [Parts -> Nat]
CacheOK ==
  /\ cache \in [Keys -> Entries \cup {None}]
  /\ \A k \in Keys : cache[k] # None => Len(cache[k].answer) = Width(k.endpoint)
FlightsOK ==
  /\ flights \in [Keys -> Computations \cup {None}]
  /\ \A k \in Keys : flights[k] # None =>
       /\ Len(flights[k].answer) <= Width(k.endpoint)
       /\ flights[k].stage = "stored" => Len(flights[k].answer) = Width(k.endpoint)
CallersOK ==
  /\ client \in [Clients -> {Idle} \cup Requests \cup Replies]
  /\ shown \in [Questions -> Answers]
  /\ \A q \in Questions : Len(shown[q]) \in {0, Width(q.endpoint)}
  /\ \A c \in Clients : Asks(c) => RequestOK(client[c])

LEMMA PartsOK == ApiTypes /\ LengthInv <=> DatabaseOK /\ PollerOK /\ CacheOK /\ FlightsOK /\ CallersOK
BY DEF ApiTypes, LengthInv, DatabaseOK, PollerOK, CacheOK, FlightsOK, CallersOK

LEMMA PartsFrame ==
  /\ DatabaseOK /\ UNCHANGED <<dbVars, time>> => DatabaseOK'
  /\ PollerOK /\ UNCHANGED pollVars => PollerOK'
  /\ CacheOK /\ UNCHANGED cache => CacheOK'
  /\ FlightsOK /\ UNCHANGED flights => FlightsOK'
  /\ CallersOK /\ UNCHANGED <<client, shown>> => CallersOK'
BY DEF dbVars, pollVars, DatabaseOK, PollerOK, CacheOK, FlightsOK, CallersOK, Asks

\* A computation that changes and keeps its answer.
LEMMA FlightChanges ==
  ASSUME FlightsOK, NEW k \in Keys, NEW f \in Computations \cup {None},
         flights' = [flights EXCEPT ![k] = f],
         f # None => /\ Len(f.answer) <= Width(k.endpoint)
                     /\ f.stage = "stored" => Len(f.answer) = Width(k.endpoint)
  PROVE  FlightsOK'
<1>1. flights' \in [Keys -> Computations \cup {None}]
  BY DEF FlightsOK
<1>2. \A j \in Keys : flights'[j] = IF j = k THEN f ELSE flights[j]
  BY DEF FlightsOK
<1> QED BY <1>1, <1>2 DEF FlightsOK

LEMMA RequestChanges ==
  ASSUME CallersOK, NEW c \in Clients, NEW cl \in {Idle} \cup Requests,
         client' = [client EXCEPT ![c] = cl], UNCHANGED shown,
         cl \in Requests => RequestOK(cl)
  PROVE  CallersOK'
<1>1. client' \in [Clients -> {Idle} \cup Requests \cup Replies]
  BY DEF CallersOK
<1>2. \A d \in Clients : client'[d] = IF d = c THEN cl ELSE client[d]
  BY DEF CallersOK
<1>3. ASSUME NEW d \in Clients, Asks(d)' PROVE RequestOK(client'[d])
  <2>1. CASE d = c
    BY <1>2, <1>3, <2>1 DEF Asks, Idle
  <2>2. CASE d # c
    BY <1>2, <1>3, <2>2 DEF Asks, CallersOK
  <2> QED BY <2>1, <2>2
<1> QED BY <1>1, <1>3 DEF CallersOK

LEMMA DatabaseStep ==
  ASSUME ApiTypes, LengthInv
  PROVE  /\ \A ps : Commit(ps) => DatabaseOK'
         /\ ClockTick => DatabaseOK'
<1>0. DatabaseOK
  BY PartsOK
<1>1. ASSUME NEW ps, Commit(ps) PROVE DatabaseOK'
  <2>1. ASSUME NEW p \in Parts
        PROVE  version'[p] \in Nat /\ since'[p] \in Seq(Nat) /\ Len(since'[p]) = version'[p] + 1
    <3>1. version[p] \in Nat /\ since[p] \in Seq(Nat) /\ Len(since[p]) = version[p] + 1 /\ time \in Nat
      BY <1>0 DEF DatabaseOK
    <3>2. Append(since[p], time) \in Seq(Nat) /\ Len(Append(since[p], time)) = Len(since[p]) + 1
      BY <3>1, AppendProperties
    <3>3. CASE p \in ps
      BY <1>1, <3>1, <3>2, <3>3 DEF Commit
    <3>4. CASE p \notin ps
      BY <1>1, <3>1, <3>4 DEF Commit
    <3> QED BY <3>3, <3>4
  <2>2. version' \in [Parts -> Nat] /\ since' \in [Parts -> Seq(Nat)] /\ time' = time
    BY <1>1, <2>1 DEF Commit
  <2> QED BY <1>0, <2>1, <2>2 DEF DatabaseOK
<1>2. ASSUME ClockTick PROVE DatabaseOK'
  BY <1>0, <1>2 DEF ClockTick, DatabaseOK, dbVars
<1> QED BY <1>1, <1>2

\* The poller drops entries and marks computations.
LEMMA PollerStep ==
  ASSUME ApiTypes, LengthInv, NEW p \in Parts, Notice(p) \/ Broadcast(p)
  PROVE  PollerOK' /\ CacheOK' /\ FlightsOK'
<1>0. DatabaseOK /\ PollerOK /\ CacheOK /\ FlightsOK
  BY PartsOK
<1>1. CASE Notice(p)
  <2>1. PollerOK'
    BY <1>0, <1>1 DEF Notice, PollerOK, DatabaseOK
  <2>2. CacheOK'
    <3>1. \A k \in Keys : cache'[k] = None \/ cache'[k] = cache[k]
      BY <1>1 DEF Notice
    <3>2. cache' = [k \in Keys |-> cache'[k]]
      BY <1>1 DEF Notice
    <3> QED BY <1>0, <3>1, <3>2 DEF CacheOK
  <2>3. FlightsOK'
    <3>1. ASSUME NEW k \in Keys
          PROVE  \/ flights'[k] = flights[k]
                 \/ /\ flights[k] # None /\ flights'[k] \in Computations
                    /\ flights'[k].stage = flights[k].stage /\ flights'[k].answer = flights[k].answer
      <4>1. CASE flights[k] # None /\ k.endpoint \in Dropped(p)
        <5>1. flights[k] \in Computations /\ flights'[k] = [flights[k] EXCEPT !.crossed = TRUE]
          BY <1>0, <1>1, <4>1 DEF Notice, FlightsOK
        <5> QED BY <4>1, <5>1 DEF Computations
      <4>2. CASE ~(flights[k] # None /\ k.endpoint \in Dropped(p))
        BY <1>1, <4>2 DEF Notice
      <4> QED BY <4>1, <4>2
    <3>2. flights' = [k \in Keys |-> flights'[k]]
      BY <1>1 DEF Notice
    <3>3. \A k \in Keys : flights'[k] \in Computations \cup {None}
      BY <1>0, <3>1 DEF FlightsOK
    <3>4. flights' \in [Keys -> Computations \cup {None}]
      BY <3>2, <3>3
    <3> QED BY <1>0, <3>1, <3>4 DEF FlightsOK
  <2> QED BY <2>1, <2>2, <2>3
<1>2. CASE Broadcast(p)
  <2>1. PollerOK'
    BY <1>0, <1>2 DEF Broadcast, PollerOK
  <2> QED BY <1>0, <1>2, <2>1, PartsFrame DEF Broadcast
<1> QED BY <1>1, <1>2

\* A new request, and what it does before it has an answer.
LEMMA RequestStep ==
  ASSUME ApiTypes, LengthInv, NEW c \in Clients
  PROVE  /\ \A q \in Questions : Ask(c, q) => CallersOK'
         /\ Join(c) \/ Direct(c) \/ DirectFails(c) => CallersOK'
         /\ Lead(c) => CallersOK' /\ FlightsOK'
<1>0. PollerOK /\ FlightsOK /\ CallersOK /\ DatabaseOK
  BY PartsOK
<1>1. ASSUME NEW q \in Questions, Ask(c, q) PROVE CallersOK'
  <2> DEFINE s == IF q.endpoint \in Uncached THEN "direct" ELSE "asked"
             cl == [stage |-> s, question |-> q, floor |-> shown[q], told |-> told, head |-> <<>>]
  <2>1. shown[q] \in Answers /\ <<>> \in Answers /\ told \in [Parts -> Nat]
    BY <1>0 DEF CallersOK, PollerOK, Answers
  <2>2. cl \in Requests
    BY <2>1 DEF Requests
  <2>3. client' = [client EXCEPT ![c] = cl] /\ UNCHANGED shown
    BY <1>1 DEF Ask
  <2>4. Len(cl.floor) \in {0, Width(cl.question.endpoint)}
    BY <1>0 DEF CallersOK
  <2>5. cl.stage # "direct" => cl.question \in Keyed
    BY DEF Keyed
  <2>6. cl.stage = "direct" => /\ cl.question.endpoint \in Uncached /\ cl.question \notin Keyed
                               /\ Len(cl.head) < Width(cl.question.endpoint)
    BY ReadsAre DEF Keyed
  <2>7. RequestOK(cl)
    BY <2>4, <2>5, <2>6 DEF RequestOK
  <2> HIDE DEF cl
  <2> QED BY <1>0, <2>2, <2>3, <2>7, RequestChanges
<1>2. ASSUME client[c].stage = "asked", client' = [client EXCEPT ![c].stage = "waiting"], UNCHANGED shown
      PROVE  CallersOK'
  <2> DEFINE cl == [client[c] EXCEPT !.stage = "waiting"]
  <2>1. client[c] \in Requests /\ RequestOK(client[c])
    BY <1>2, RequestsAre DEF Asks, LengthInv
  <2>2. /\ cl \in Requests /\ cl.stage = "waiting"
        /\ cl.question = client[c].question /\ cl.floor = client[c].floor
    BY <2>1 DEF Requests
  <2>3. RequestOK(cl)
    BY <1>2, <2>1, <2>2 DEF RequestOK
  <2>4. client' = [client EXCEPT ![c] = cl]
    BY <1>2
  <2> HIDE DEF cl
  <2> QED BY <1>0, <1>2, <2>2, <2>3, <2>4, RequestChanges
<1>6. ASSUME Direct(c) PROVE CallersOK'
  <2> DEFINE cl == [client[c] EXCEPT !.head = WithNext(c)]
             n == Len(client[c].head)
  <2>1. client[c].stage = "direct" /\ client' = [client EXCEPT ![c] = cl] /\ UNCHANGED shown
    BY <1>6 DEF Direct
  <2>2. /\ client[c] \in Requests /\ RequestOK(client[c]) /\ n \in Nat
        /\ WithNext(c) \in Answers /\ Len(WithNext(c)) = n + 1
    BY <2>1, NextIs
  <2>3. /\ cl \in Requests /\ cl.stage = "direct" /\ cl.head = WithNext(c)
        /\ cl.question = client[c].question /\ cl.floor = client[c].floor
    BY <2>1, <2>2 DEF Requests
  <2>4. n + 1 < Width(cl.question.endpoint)
    BY <1>6, <2>3 DEF Direct, Width
  <2>5. cl.question \in Keyed => Width(KeyOf(cl.question).endpoint) <= n + 1
    <3>1. Width(KeyOf(cl.question).endpoint) \in Nat
      BY ReadsAre
    <3> QED BY <2>1, <2>2, <2>3, <3>1 DEF RequestOK
  <2>6. RequestOK(cl)
    BY <2>1, <2>2, <2>3, <2>4, <2>5 DEF RequestOK
  <2> HIDE DEF cl
  <2> QED BY <1>0, <2>1, <2>3, <2>6, RequestChanges
<1>3. ASSUME DirectFails(c) PROVE CallersOK'
  <2>1. Idle \notin Requests
    BY DEF Idle, Requests
  <2> QED BY <1>0, <1>3, <2>1, RequestChanges DEF DirectFails
<1>4. ASSUME Lead(c) PROVE FlightsOK'
  <2> DEFINE f == [stage |-> "running", answer |-> <<>>, begun |-> time, crossed |-> FALSE]
  <2>1. f \in Computations
    BY <1>0 DEF Computations, Answers, DatabaseOK
  <2>2. client[c] \in Requests /\ client[c].question \in Keyed
    BY <1>4, RequestsAre DEF Lead, Asks, LengthInv, RequestOK
  <2>3. KeyFor(c) \in Keys
    BY <2>2, KeyPrefix DEF KeyFor
  <2>4. Len(f.answer) <= Width(KeyFor(c).endpoint) /\ f.stage # "stored"
    <3>1. Len(<<>>) = 0 /\ Width(KeyFor(c).endpoint) \in Nat
      BY ReadsAre
    <3> QED BY <3>1
  <2>5. flights' = [flights EXCEPT ![KeyFor(c)] = f]
    BY <1>4 DEF Lead
  <2> HIDE DEF f
  <2> QED BY <1>0, <2>1, <2>3, <2>4, <2>5, FlightChanges
<1>5. Lead(c) \/ Join(c) => CallersOK'
  BY <1>2 DEF Lead, Join
<1> QED BY <1>1, <1>3, <1>4, <1>5, <1>6

\* The callers a computation answers.
LEMMA WaitingAre ==
  ASSUME ApiTypes, LengthInv, NEW k \in Keys
  PROVE  /\ Waiting(k) \in SUBSET Clients
         /\ \A c \in Waiting(k) : /\ Asks(c) /\ client[c].stage = "waiting" /\ client[c] \in Requests
                                  /\ client[c].question \in Keyed /\ KeyFor(c) = k
                                  /\ KeyOf(client[c].question) = k
BY RequestsAre DEF Waiting, Asks, LengthInv, RequestOK, KeyFor

\* A request that is looked up.
LEMMA AskedIs ==
  ASSUME ApiTypes, LengthInv, NEW c \in Clients, client[c].stage \in {"asked", "waiting"}
  PROVE  /\ Asks(c) /\ client[c] \in Requests /\ RequestOK(client[c]) /\ client[c].question \in Keyed
         /\ KeyFor(c) \in Keys /\ KeyOf(client[c].question) = KeyFor(c)
BY RequestsAre, KeyPrefix DEF Asks, LengthInv, RequestOK, KeyFor

\* A computation: its next query, its end, and its return.
LEMMA ComputationStep ==
  ASSUME ApiTypes, LengthInv, NEW k \in Keys
  PROVE  /\ Read(k) \/ Fail(k) => FlightsOK'
         /\ Store(k) => FlightsOK' /\ CacheOK'
         /\ Return(k) \/ ReturnError(k) => FlightsOK' /\ CallersOK'
<1>0. DatabaseOK /\ CacheOK /\ FlightsOK /\ CallersOK
  BY PartsOK
<1> DEFINE f == flights[k]
<1>1. ASSUME Read(k) PROVE FlightsOK'
  <2> DEFINE v == version[Left(k)[1]]
             g == [f EXCEPT !.answer = Append(@, v)]
  <2>1. /\ f \in Computations /\ Len(f.answer) \in Nat /\ Len(f.answer) < Width(k.endpoint)
        /\ v \in Nat /\ f.stage = "running"
    BY <1>0, <1>1, LeftIs DEF Read, Running, DatabaseOK
  <2>2. flights' = [flights EXCEPT ![k] = g]
    BY <1>1 DEF Read
  <2>3. Append(f.answer, v) \in Answers /\ Len(Append(f.answer, v)) = Len(f.answer) + 1
    <3>1. f.answer \in Seq(Nat)
      BY <2>1 DEF Computations, Answers
    <3> QED BY <2>1, <3>1, AppendProperties DEF Answers
  <2>4. g \in Computations /\ g.answer = Append(f.answer, v) /\ g.stage = "running"
    BY <2>1, <2>3 DEF Computations
  <2>5. Len(g.answer) <= Width(k.endpoint)
    BY <2>1, <2>3, <2>4, ReadsAre
  <2> HIDE DEF g
  <2> QED BY <1>0, <2>2, <2>4, <2>5, FlightChanges
<1>2. ASSUME Fail(k) PROVE FlightsOK'
  <2> DEFINE g == [f EXCEPT !.stage = "failed"]
  <2>1. f \in Computations /\ Len(f.answer) <= Width(k.endpoint)
    BY <1>2, LeftIs DEF Fail, Running
  <2>2. g \in Computations /\ g.answer = f.answer /\ g.stage = "failed"
    BY <2>1 DEF Computations
  <2>3. flights' = [flights EXCEPT ![k] = g]
    BY <1>2 DEF Fail
  <2> HIDE DEF g
  <2> QED BY <1>0, <2>1, <2>2, <2>3, FlightChanges
<1>3. ASSUME Store(k) PROVE FlightsOK' /\ CacheOK'
  <2> DEFINE g == [f EXCEPT !.stage = "stored"]
  <2>1. f \in Computations /\ Len(f.answer) \in Nat /\ Len(f.answer) = Width(k.endpoint)
    BY <1>3, LeftIs DEF Store, Running
  <2>2. g \in Computations /\ g.answer = f.answer
    BY <2>1 DEF Computations
  <2>3. flights' = [flights EXCEPT ![k] = g]
    BY <1>3 DEF Store
  <2>4. Len(g.answer) <= Width(k.endpoint)
    BY <2>1, <2>2
  <2>5. FlightsOK'
    <3> HIDE DEF g
    <3> QED BY <1>0, <2>1, <2>2, <2>3, <2>4, FlightChanges
  <2>6. EntryOf(k) \in Entries /\ EntryOf(k).answer = f.answer
    <3>1. time \in Nat /\ Ttl[k.endpoint] \in Nat
      BY <1>0, ApiTimes DEF DatabaseOK
    <3>2. f.answer \in Answers /\ f.crossed \in BOOLEAN
      BY <2>1 DEF Computations
    <3> QED BY <3>1, <3>2 DEF EntryOf, Entries
  <2>7. CASE cache' = [cache EXCEPT ![k] = EntryOf(k)]
    <3>1. cache' \in [Keys -> Entries \cup {None}]
      BY <1>0, <2>6, <2>7 DEF CacheOK
    <3>2. \A j \in Keys : cache'[j] = IF j = k THEN EntryOf(k) ELSE cache[j]
      BY <1>0, <2>7 DEF CacheOK
    <3> QED BY <1>0, <2>1, <2>5, <2>6, <3>1, <3>2 DEF CacheOK
  <2>8. CASE UNCHANGED cache
    BY <1>0, <2>5, <2>8, PartsFrame
  <2> QED BY <1>3, <2>7, <2>8 DEF Store
<1>4. ASSUME flights' = [flights EXCEPT ![k] = None] PROVE FlightsOK'
  BY <1>0, <1>4, FlightChanges
<1>5. ASSUME Return(k) PROVE CallersOK'
  <2>1. f \in Computations /\ f.stage = "stored" /\ Len(f.answer) = Width(k.endpoint)
    BY <1>5, LeftIs DEF Return, LengthInv
  <2>2. f.answer \in Answers /\ f.crossed \in BOOLEAN
    BY <2>1 DEF Computations
  <2>3. Deliver(Waiting(k), f.answer, f.crossed)
    BY <1>5 DEF Return
  <2>4. \A c \in Waiting(k) : /\ Asks(c)
                              /\ Len(f.answer) = IF client[c].stage = "direct" THEN Width(client[c].question.endpoint)
                                                                               ELSE Width(KeyFor(c).endpoint)
    BY <2>1, WaitingAre
  <2>5. Waiting(k) \in SUBSET Clients
    BY WaitingAre
  <2> HIDE DEF f
  <2>6. /\ client' \in [Clients -> {Idle} \cup Requests \cup Replies]
        /\ shown' \in [Questions -> Answers]
    BY <2>2, <2>3, <2>4, <2>5, DeliveredTypes
  <2>7. /\ \A q \in Questions : Len(shown'[q]) \in {0, Width(q.endpoint)}
        /\ \A c \in Clients : Asks(c)' => RequestOK(client'[c])
    BY <2>2, <2>3, <2>4, <2>5, DeliveredLengths
  <2> QED BY <2>6, <2>7 DEF CallersOK
<1>6. ASSUME ReturnError(k) PROVE CallersOK'
  <2>1. \A c \in Clients : client'[c] = Idle \/ client'[c] = client[c]
    BY <1>6 DEF ReturnError
  <2>2. client' = [c \in Clients |-> client'[c]] /\ UNCHANGED shown
    BY <1>6 DEF ReturnError
  <2>3. client' \in [Clients -> {Idle} \cup Requests \cup Replies]
    BY <1>0, <2>1, <2>2 DEF CallersOK
  <2>4. \A c \in Clients : Asks(c)' => RequestOK(client'[c])
    BY <1>0, <2>1 DEF CallersOK, Asks, Idle
  <2> QED BY <1>0, <2>2, <2>3, <2>4 DEF CallersOK
<1> QED BY <1>1, <1>2, <1>3, <1>4, <1>5, <1>6 DEF Return, ReturnError

\* An answer from the cache.
LEMMA HitIs ==
  ASSUME ApiTypes, LengthInv, NEW c \in Clients, Hit(c)
  PROVE  LET k == KeyFor(c) IN
         /\ k \in Keys /\ cache[k] \in Entries /\ cache[k] # None /\ time < cache[k].expires
         /\ cache[k].answer \in Answers /\ Len(cache[k].answer) = Width(k.endpoint)
         /\ cache[k].crossed \in BOOLEAN
         /\ Deliver({c}, cache[k].answer, cache[k].crossed)
         /\ client[c].stage = "asked" /\ client[c] \in Requests /\ client[c].question \in Keyed
         /\ KeyOf(client[c].question) = k
         /\ Asks(c)
<1> DEFINE k == KeyFor(c)
<1>1. /\ k \in Keys /\ Asks(c) /\ client[c].stage = "asked" /\ client[c] \in Requests
      /\ client[c].question \in Keyed /\ KeyOf(client[c].question) = k
  BY AskedIs DEF Hit
<1>2. cache[k] \in Entries /\ cache[k] # None /\ time < cache[k].expires
  BY <1>1 DEF Hit, Fresh, ApiTypes
<1>3. cache[k].answer \in Answers /\ cache[k].crossed \in BOOLEAN
  BY <1>2 DEF Entries
<1>4. Len(cache[k].answer) = Width(k.endpoint)
  BY <1>1, <1>2 DEF LengthInv
<1> QED BY <1>1, <1>2, <1>3, <1>4 DEF Hit

\* A request's own statements, answered.
LEMMA DirectIs ==
  ASSUME ApiTypes, LengthInv, NEW c \in Clients, DirectEnds(c)
  PROVE  LET q == client[c].question
             a == WithNext(c)
         IN  /\ Deliver({c}, a, FALSE) /\ Asks(c) /\ client[c] \in Requests /\ RequestOK(client[c])
             /\ client[c].stage = "direct" /\ q.endpoint \in Uncached \cup Resolving
             /\ a \in Answers /\ Len(a) = Width(q.endpoint)
<1>1. /\ client[c].stage = "direct" /\ Deliver({c}, WithNext(c), FALSE)
      /\ Len(client[c].head) + 1 = Width(client[c].question.endpoint)
  BY DEF DirectEnds, Width
<1>2. /\ client[c] \in Requests /\ RequestOK(client[c])
      /\ WithNext(c) \in Answers /\ Len(WithNext(c)) = Len(client[c].head) + 1
  BY <1>1, NextIs
<1>3. client[c].question.endpoint \in Uncached \cup Resolving /\ Asks(c)
  BY <1>1, <1>2 DEF RequestOK, Asks
<1> QED BY <1>1, <1>2, <1>3

\* An answer of the cache or of the request's own queries reaches its caller.
LEMMA AnswerStep ==
  ASSUME ApiTypes, LengthInv, NEW c \in Clients, Hit(c) \/ DirectEnds(c)
  PROVE  CallersOK'
<1>1. \E a \in Answers, x \in BOOLEAN :
        /\ Deliver({c}, a, x) /\ Asks(c)
        /\ Len(a) = IF client[c].stage = "direct" THEN Width(client[c].question.endpoint)
                                                  ELSE Width(KeyFor(c).endpoint)
  <2>1. CASE Hit(c)
    BY <2>1, HitIs
  <2>2. CASE DirectEnds(c)
    BY <2>2, DirectIs
  <2> QED BY <2>1, <2>2
<1>2. PICK a \in Answers, x \in BOOLEAN :
        /\ Deliver({c}, a, x) /\ Asks(c)
        /\ Len(a) = IF client[c].stage = "direct" THEN Width(client[c].question.endpoint)
                                                  ELSE Width(KeyFor(c).endpoint)
  BY <1>1
<1>3. {c} \in SUBSET Clients
  OBVIOUS
<1>4. \A d \in {c} : /\ Asks(d)
                     /\ Len(a) = IF client[d].stage = "direct" THEN Width(client[d].question.endpoint)
                                                               ELSE Width(KeyFor(d).endpoint)
  BY <1>2
<1>5. /\ client' \in [Clients -> {Idle} \cup Requests \cup Replies]
      /\ shown' \in [Questions -> Answers]
  BY <1>2, <1>3, <1>4, DeliveredTypes
<1>6. /\ \A q \in Questions : Len(shown'[q]) \in {0, Width(q.endpoint)}
      /\ \A d \in Clients : Asks(d)' => RequestOK(client'[d])
  BY <1>2, <1>3, <1>4, DeliveredLengths
<1> QED BY <1>5, <1>6 DEF CallersOK

LEMMA ApiStep == ApiTypes /\ LengthInv /\ [Next]_apiVars => ApiTypes' /\ LengthInv'
<1> SUFFICES ASSUME ApiTypes, LengthInv, [Next]_apiVars
             PROVE  DatabaseOK' /\ PollerOK' /\ CacheOK' /\ FlightsOK' /\ CallersOK'
  BY DEF ApiTypes, LengthInv, DatabaseOK, PollerOK, CacheOK, FlightsOK, CallersOK
<1>0. DatabaseOK /\ PollerOK /\ CacheOK /\ FlightsOK /\ CallersOK
  BY PartsOK
<1>1. CASE ClockTick \/ \E ps \in Writes : Commit(ps)
  BY <1>0, <1>1, DatabaseStep, PartsFrame DEF ClockTick, Commit
<1>2. ASSUME NEW p \in Parts, Notice(p) \/ Broadcast(p)
      PROVE  DatabaseOK' /\ PollerOK' /\ CacheOK' /\ FlightsOK' /\ CallersOK'
  BY <1>0, <1>2, PollerStep, PartsFrame DEF Notice, Broadcast
<1>3. ASSUME NEW c \in Clients,
             (\E q \in Questions : Ask(c, q)) \/ Join(c) \/ Lead(c) \/ Direct(c) \/ DirectFails(c)
      PROVE  DatabaseOK' /\ PollerOK' /\ CacheOK' /\ FlightsOK' /\ CallersOK'
  BY <1>0, <1>3, RequestStep, PartsFrame DEF Ask, Join, Lead, Direct, DirectFails
<1>4. ASSUME NEW c \in Clients, Hit(c) \/ DirectEnds(c)
      PROVE  DatabaseOK' /\ PollerOK' /\ CacheOK' /\ FlightsOK' /\ CallersOK'
  BY <1>0, <1>4, AnswerStep, PartsFrame DEF Hit, DirectEnds
<1>5. ASSUME NEW k \in Keys, Read(k) \/ Fail(k) \/ Store(k) \/ Return(k) \/ ReturnError(k)
      PROVE  DatabaseOK' /\ PollerOK' /\ CacheOK' /\ FlightsOK' /\ CallersOK'
  BY <1>0, <1>5, ComputationStep, PartsFrame DEF Read, Fail, Store, Return, ReturnError
<1>6. CASE UNCHANGED apiVars
  BY <1>0, <1>6, PartsFrame DEF apiVars, dbVars, pollVars
<1> QED BY <1>1, <1>2, <1>3, <1>4, <1>5, <1>6 DEF Next

\* The requests that get an answer in a step get it from the cache, from their
\* own queries, or from the computation they wait for.
LEMMA WhoReplies ==
  ASSUME ApiTypes, LengthInv, [Next]_apiVars, NEW c \in Clients, Served(c) \/ Replied(c) \/ Refused(c)
  PROVE  \/ Hit(c)
         \/ DirectEnds(c) /\ ~Served(c)
         \/ \E k \in Keys : Return(k) /\ c \in Waiting(k)
<1> DEFINE G == Hit(c) \/ (DirectEnds(c) /\ ~Served(c)) \/ \E k \in Keys : Return(k) /\ c \in Waiting(k)
<1>0. client \in [Clients -> {Idle} \cup Requests \cup Replies] /\ client'[c] # client[c]
  BY DEF ApiTypes, Served, Replied, Refused
<1>1. CASE UNCHANGED client
  BY <1>0, <1>1
<1>2. ASSUME NEW d \in Clients, (\E q \in Questions : Ask(d, q)) \/ Join(d) \/ Lead(d) \/ Direct(d) \/ DirectFails(d)
      PROVE  FALSE
  <2>1. PICK cl : client' = [client EXCEPT ![d] = cl]
    BY <1>2 DEF Ask, Join, Lead, Direct, DirectFails
  <2>2. d = c
    BY <1>0, <2>1
  <2>3. ASSUME NEW q \in Questions, Ask(d, q) PROVE FALSE
    <3>1. client'[c].stage \in {"direct", "asked"} /\ client[c].stage \in {"idle", "answered", "notFound"}
      BY <1>0, <2>2, <2>3 DEF Ask
    <3> QED BY <3>1 DEF Served, Replied, Refused
  <2>4. CASE Join(d) \/ Lead(d)
    <3>1. client[d] \in Requests /\ client' = [client EXCEPT ![d].stage = "waiting"]
      BY <2>4, RequestsAre DEF Join, Lead, Asks
    <3>2. client'[c].stage = "waiting"
      BY <1>0, <2>2, <3>1 DEF Requests
    <3> QED BY <3>2 DEF Served, Replied, Refused
  <2>5. CASE DirectFails(d)
    <3>1. client'[c].stage = "idle"
      BY <1>0, <2>2, <2>5 DEF DirectFails, Idle
    <3> QED BY <3>1 DEF Served, Replied, Refused
  <2>6. CASE Direct(d)
    <3>1. client[d].stage = "direct" /\ client' = [client EXCEPT ![d].head = WithNext(d)]
      BY <2>6 DEF Direct
    <3>2. client[d] \in Requests
      BY <3>1, NextIs
    <3>3. client'[c].stage = "direct" /\ client[c].stage = "direct"
      BY <1>0, <2>2, <3>1, <3>2 DEF Requests
    <3> QED BY <3>3 DEF Served, Replied, Refused
  <2> QED BY <1>2, <2>3, <2>4, <2>5, <2>6
<1>3. ASSUME NEW d \in Clients, Hit(d) \/ DirectEnds(d) PROVE G
  <2>1. \E a, x : Deliver({d}, a, x)
    BY <1>3 DEF Hit, DirectEnds
  <2>2. d = c
    BY <1>0, <2>1 DEF Deliver
  <2>3. DirectEnds(c) => ~Served(c)
    BY DEF DirectEnds, Served
  <2> QED BY <1>3, <2>2, <2>3
<1>4. ASSUME NEW k \in Keys, Return(k) PROVE G
  <2>1. \E a, x : Deliver(Waiting(k), a, x)
    BY <1>4 DEF Return
  <2>2. c \in Waiting(k)
    BY <1>0, <2>1 DEF Deliver
  <2> QED BY <1>4, <2>2
<1>5. ASSUME NEW k \in Keys, ReturnError(k) PROVE FALSE
  <2>1. client'[c] = Idle
    BY <1>0, <1>5 DEF ReturnError
  <2> QED BY <2>1 DEF Served, Replied, Refused, Idle
<1>6. \/ UNCHANGED client
      \/ \E d \in Clients : \/ (\E q \in Questions : Ask(d, q)) \/ Join(d) \/ Lead(d) \/ Direct(d) \/ DirectFails(d)
                            \/ Hit(d) \/ DirectEnds(d)
      \/ \E k \in Keys : Return(k) \/ ReturnError(k)
  <2>1. CASE UNCHANGED apiVars
    BY <2>1 DEF apiVars
  <2>2. CASE Next
    BY <2>2 DEF Next, Commit, ClockTick, Notice, Broadcast, Read, Fail, Store
  <2> QED BY <2>1, <2>2
<1> HIDE DEF G
<1>7. G
  BY <1>1, <1>2, <1>3, <1>4, <1>5, <1>6
<1> QED BY <1>7 DEF G

(***************************************************************************)
(* How old an answer may be.                                               *)

\* v is the last version but those that s, its part's history, committed after t.
CurrentIn(s, v, t) == v \in 0 .. Len(s) - 1 /\ (v + 2 <= Len(s) => s[v + 2] > t)

LEMMA CurrentInKept ==
  ASSUME NEW s \in Seq(Nat), NEW n \in Nat, NEW v, NEW t \in Int, CurrentIn(s, v, t), t < n
  PROVE  CurrentIn(Append(s, n), v, t)
<1>1. Len(s) \in Nat /\ Append(s, n) \in Seq(Nat) /\ Len(Append(s, n)) = Len(s) + 1
  BY AppendProperties, LenProperties
<1>2. (\A i \in 1..Len(s) : Append(s, n)[i] = s[i]) /\ Append(s, n)[Len(s) + 1] = n
  BY AppendProperties
<1>3. v \in 0..Len(s) - 1 /\ (v + 2 <= Len(s) => s[v + 2] > t)
  BY DEF CurrentIn
<1>4. CASE v + 2 <= Len(s)
  <2>1. v + 2 \in 1..Len(s) /\ v \in 0..(Len(s) + 1) - 1
    BY <1>1, <1>3, <1>4
  <2> QED BY <1>1, <1>2, <1>3, <1>4, <2>1 DEF CurrentIn
<1>5. CASE ~(v + 2 <= Len(s))
  <2>1. v + 2 = Len(s) + 1 /\ v \in 0..(Len(s) + 1) - 1
    BY <1>1, <1>3, <1>5
  <2> QED BY <1>1, <1>2, <2>1 DEF CurrentIn
<1> QED BY <1>4, <1>5

\* Commits come after what was current before them.
LEMMA CurrentKept ==
  ASSUME ApiTypes, UNCHANGED since \/ \E ps : Commit(ps),
         NEW k \in Keys, NEW a \in Answers, Len(a) <= Width(k.endpoint),
         NEW t \in Int, t < time, CurrentAll(k, a, t)
  PROVE  \A i \in DOMAIN a : CurrentIn(since'[Reads(k.endpoint)[i]], a[i], t)
<1> TAKE i \in DOMAIN a
<1> DEFINE p == Reads(k.endpoint)[i]
<1>1. p \in Parts
  <2>1. i \in 1..Len(a) /\ Len(a) \in Nat
    BY AnswersAre
  <2>2. i \in 1..Width(k.endpoint)
    BY <2>1, ReadsAre
  <2> QED BY <2>2, ReadsAre
<1>2. CurrentIn(since[p], a[i], t)
  BY DEF CurrentAll, CurrentAfter, CurrentIn
<1>3. since[p] \in Seq(Nat) /\ time \in Nat
  BY <1>1 DEF ApiTypes
<1>4. since'[p] = since[p] \/ since'[p] = Append(since[p], time)
  BY <1>1 DEF Commit
<1> HIDE DEF p
<1>5. CurrentIn(since'[p], a[i], t)
  BY <1>2, <1>3, <1>4, CurrentInKept
<1> QED BY <1>5 DEF p

\* Against an earlier moment, what was current still was.
LEMMA CurrentEarlier ==
  ASSUME ApiTypes, LengthInv, NEW k \in Keys, NEW a \in Answers, Len(a) <= Width(k.endpoint),
         NEW t \in Int, NEW u \in Int, u <= t, CurrentAll(k, a, t)
  PROVE  CurrentAll(k, a, u)
<1> SUFFICES ASSUME NEW i \in DOMAIN a PROVE CurrentAfter(Reads(k.endpoint)[i], a[i], u)
  BY DEF CurrentAll
<1> DEFINE p == Reads(k.endpoint)[i]
<1>1. p \in Parts
  <2>1. i \in 1..Len(a) /\ Len(a) \in Nat
    BY AnswersAre
  <2>2. i \in 1..Width(k.endpoint)
    BY <2>1, ReadsAre
  <2> QED BY <2>2, ReadsAre
<1>2. CurrentAfter(p, a[i], t)
  BY DEF CurrentAll
<1>3. Len(since[p]) \in Nat /\ \A j \in 1..Len(since[p]) : since[p][j] \in Nat
  <2>1. since[p] \in Seq(Nat)
    BY <1>1 DEF ApiTypes
  <2> QED BY <2>1, LenProperties, ElementOfSeq
<1> HIDE DEF p
<1>4. a[i] \in 0..Len(since[p]) - 1
  BY <1>2 DEF CurrentAfter
<1>5. ASSUME a[i] + 2 <= Len(since[p]) PROVE since[p][a[i] + 2] > u
  <2>1. a[i] + 2 \in 1..Len(since[p])
    BY <1>3, <1>4, <1>5
  <2>2. since[p][a[i] + 2] \in Nat /\ since[p][a[i] + 2] > t
    BY <1>2, <1>3, <1>5, <2>1 DEF CurrentAfter
  <2> QED BY <2>2
<1>6. CurrentAfter(p, a[i], u)
  BY <1>4, <1>5 DEF CurrentAfter
<1> QED BY <1>6 DEF p

(***************************************************************************)
(* What a step does to one entry and to one computation.                   *)

LEMMA EntryChange ==
  ASSUME ApiTypes, LengthInv, [Next]_apiVars, NEW k \in Keys
  PROVE  \/ cache'[k] = cache[k]
         \/ cache'[k] = None
         \/ Store(k) /\ cache'[k] = EntryOf(k)
<1>0. cache \in [Keys -> Entries \cup {None}]
  BY DEF ApiTypes
<1>1. ASSUME NEW p \in Parts, Notice(p) PROVE cache'[k] = cache[k] \/ cache'[k] = None
  BY <1>1 DEF Notice
<1>2. ASSUME NEW j \in Keys, Store(j) PROVE cache'[k] = cache[k] \/ (j = k /\ cache'[k] = EntryOf(k))
  BY <1>0, <1>2 DEF Store
<1>3. \/ UNCHANGED cache
      \/ \E p \in Parts : Notice(p)
      \/ \E j \in Keys : Store(j)
  <2>1. CASE UNCHANGED apiVars
    BY <2>1 DEF apiVars
  <2>2. CASE Next
    BY <2>2 DEF Next, Commit, ClockTick, Broadcast, Ask, Hit, Join, Lead, Direct, DirectEnds, DirectFails,
                Read, Fail, Return, ReturnError
  <2> QED BY <2>1, <2>2
<1> QED BY <1>1, <1>2, <1>3

LEMMA ComputationChange ==
  ASSUME ApiTypes, LengthInv, [Next]_apiVars, NEW k \in Keys, flights'[k] # None
  PROVE  \/ flights'[k] = flights[k]
         \/ \E c \in Clients :
              /\ Lead(c) /\ KeyFor(c) = k
              /\ flights'[k] = [stage |-> "running", answer |-> <<>>, begun |-> time, crossed |-> FALSE]
         \/ \E p \in Parts :
              /\ Notice(p) /\ k.endpoint \in Dropped(p) /\ flights[k] # None
              /\ flights'[k] = [flights[k] EXCEPT !.crossed = TRUE]
         \/ Read(k) /\ flights'[k] = [flights[k] EXCEPT !.answer = Append(@, version[Left(k)[1]])]
         \/ Fail(k) /\ flights'[k] = [flights[k] EXCEPT !.stage = "failed"]
         \/ Store(k) /\ flights'[k] = [flights[k] EXCEPT !.stage = "stored"]
<1>0. flights \in [Keys -> Computations \cup {None}]
  BY DEF ApiTypes
<1>1. ASSUME NEW p \in Parts, Notice(p)
      PROVE  \/ flights'[k] = flights[k]
             \/ /\ k.endpoint \in Dropped(p) /\ flights[k] # None
                /\ flights'[k] = [flights[k] EXCEPT !.crossed = TRUE]
  BY <1>1 DEF Notice
<1>2. ASSUME NEW c \in Clients, Lead(c)
      PROVE  \/ flights'[k] = flights[k]
             \/ /\ KeyFor(c) = k
                /\ flights'[k] = [stage |-> "running", answer |-> <<>>, begun |-> time, crossed |-> FALSE]
  BY <1>0, <1>2 DEF Lead
<1>3. ASSUME NEW j \in Keys, Read(j) \/ Fail(j) \/ Store(j) \/ Return(j) \/ ReturnError(j), j # k
      PROVE  flights'[k] = flights[k]
  BY <1>0, <1>3 DEF Read, Fail, Store, Return, ReturnError
<1>4. Return(k) \/ ReturnError(k) => flights'[k] = None
  BY <1>0 DEF Return, ReturnError
<1>5. /\ Read(k) => flights'[k] = [flights[k] EXCEPT !.answer = Append(@, version[Left(k)[1]])]
      /\ Fail(k) => flights'[k] = [flights[k] EXCEPT !.stage = "failed"]
      /\ Store(k) => flights'[k] = [flights[k] EXCEPT !.stage = "stored"]
  BY <1>0 DEF Read, Fail, Store
<1>6. \/ UNCHANGED flights
      \/ \E p \in Parts : Notice(p)
      \/ \E c \in Clients : Lead(c)
      \/ \E j \in Keys : Read(j) \/ Fail(j) \/ Store(j) \/ Return(j) \/ ReturnError(j)
  <2>1. CASE UNCHANGED apiVars
    BY <2>1 DEF apiVars
  <2>2. CASE Next
    BY <2>2 DEF Next, Commit, ClockTick, Broadcast, Ask, Hit, Join, Direct, DirectEnds, DirectFails
  <2> QED BY <2>1, <2>2
<1> QED BY <1>1, <1>2, <1>3, <1>4, <1>5, <1>6

\* The clock and the database move by their own steps only.
LEMMA ClockAndDatabase ==
  ASSUME ApiTypes, [Next]_apiVars
  PROVE  /\ time' = time \/ (ClockTick /\ time' = time + 1)
         /\ UNCHANGED dbVars \/ ((\E ps \in Writes : Commit(ps)) /\ UNCHANGED <<cache, flights>>)
         /\ UNCHANGED since \/ \E ps : Commit(ps)
<1>1. CASE UNCHANGED apiVars
  BY <1>1 DEF apiVars, dbVars
<1>2. CASE Next
  BY <1>2 DEF Next, dbVars, Commit, ClockTick, Notice, Broadcast, Ask, Hit, Join, Lead, Direct, DirectEnds, DirectFails,
              Read, Fail, Store, Return, ReturnError
<1> QED BY <1>1, <1>2

\* The clock waits for a computation whose time is up, and for its return.
LEMMA ClockWaits ==
  ASSUME ApiTypes, ClockTick, NEW k \in Keys, flights[k] # None
  PROVE  flights[k].stage = "running" /\ time + 1 <= flights[k].begun + Timeout
<1>1. flights[k].stage = "running" /\ ~CutOff(k)
  BY DEF ClockTick, Urgent
<1>2. flights[k] \in Computations /\ time \in Nat /\ Timeout \in Nat
  BY ApiTimes DEF ApiTypes
<1>3. flights[k].begun \in Nat
  BY <1>2 DEF Computations
<1>4. ~(time >= flights[k].begun + Timeout)
  BY <1>1 DEF CutOff
<1> QED BY <1>1, <1>2, <1>3, <1>4

LEMMA SinceEntries ==
  ASSUME ApiTypes, LengthInv, SinceInv, [Next]_apiVars, NEW k \in Keys, cache'[k] # None
  PROVE  /\ cache'[k].expires - Ttl[k.endpoint] - Timeout < time'
         /\ CurrentAll(k, cache[k].answer, cache[k].expires - Ttl[k.endpoint] - Timeout)'
<1>0. time \in Nat /\ Timeout \in Nat /\ Ttl[k.endpoint] \in Nat /\ (time' = time \/ time' = time + 1)
  BY ApiTimes, ClockAndDatabase DEF ApiTypes
<1>1. CASE cache'[k] = cache[k]
  <2> DEFINE t == cache[k].expires - Ttl[k.endpoint] - Timeout
  <2>1. cache[k] \in Entries /\ Len(cache[k].answer) <= Width(k.endpoint)
    <3>1. cache[k] \in Entries /\ cache[k] # None
      BY <1>1 DEF ApiTypes
    <3>2. Len(cache[k].answer) = Width(k.endpoint) /\ Width(k.endpoint) \in Nat
      BY <3>1, ReadsAre DEF LengthInv
    <3> QED BY <3>1, <3>2
  <2>2. cache[k].answer \in Answers /\ t \in Int
    BY <1>0, <2>1 DEF Entries
  <2>3. t < time /\ CurrentAll(k, cache[k].answer, t)
    BY <1>1 DEF SinceInv
  <2>4. \A i \in DOMAIN cache[k].answer : CurrentIn(since'[Reads(k.endpoint)[i]], cache[k].answer[i], t)
    <3> HIDE DEF t
    <3> QED BY <2>1, <2>2, <2>3, CurrentKept, ClockAndDatabase
  <2>5. t < time'
    <3> HIDE DEF t
    <3> QED BY <1>0, <2>2, <2>3
  <2> QED BY <1>1, <2>4, <2>5 DEF CurrentAll, CurrentAfter, CurrentIn
<1>2. CASE Store(k) /\ cache'[k] = EntryOf(k)
  <2> DEFINE f == flights[k]
  <2>1. flights[k] # None /\ ~CutOff(k) /\ UNCHANGED <<since, time>>
    BY <1>2 DEF Store, Running, dbVars
  <2>2. f \in Computations /\ Len(f.answer) <= Width(k.endpoint)
    BY <2>1, LeftIs
  <2>3. f.answer \in Answers /\ f.begun \in Nat
    BY <2>2 DEF Computations
  <2>4. f.begun <= time /\ CurrentAll(k, f.answer, f.begun - 1)
    BY <2>1 DEF SinceInv
  <2>5. ~(time >= f.begun + Timeout)
    BY <2>1 DEF CutOff
  <2>6. cache'[k].answer = f.answer /\ cache'[k].expires = time + Ttl[k.endpoint]
    BY <1>2 DEF EntryOf
  <2> DEFINE t == cache'[k].expires - Ttl[k.endpoint] - Timeout
  <2>7. t = time - Timeout /\ time - Timeout <= f.begun - 1 /\ time - Timeout < time
    BY <1>0, <2>3, <2>4, <2>5, <2>6
  <2>8. CurrentAll(k, f.answer, time - Timeout)
    <3>1. time - Timeout \in Int /\ f.begun - 1 \in Int
      BY <1>0, <2>3
    <3> HIDE DEF f, t
    <3> QED BY <2>2, <2>3, <2>4, <2>7, <3>1, CurrentEarlier
  <2>9. \A i \in DOMAIN f.answer : CurrentAfter(Reads(k.endpoint)[i], f.answer[i], t)
    BY <2>7, <2>8 DEF CurrentAll
  <2>10. t < time'
    BY <2>1, <2>7
  <2> HIDE DEF f
  <2> QED BY <2>1, <2>6, <2>9, <2>10 DEF CurrentAll, CurrentAfter
<1> QED BY <1>1, <1>2, EntryChange

\* An answer one query longer.
LEMMA ReadIs ==
  ASSUME ApiTypes, LengthInv, NEW k \in Keys, Read(k),
         flights'[k] = [flights[k] EXCEPT !.answer = Append(@, version[Left(k)[1]])]
  PROVE  LET f == flights[k]
             g == flights'[k]
         IN  /\ f \in Computations /\ f # None /\ f.stage = "running"
             /\ g.stage = f.stage /\ g.begun = f.begun /\ g.crossed = f.crossed
             /\ g.answer \in Answers /\ Len(g.answer) = Len(f.answer) + 1
             /\ f.answer \in Answers /\ Len(g.answer) <= Width(k.endpoint)
             /\ \A i \in 1..Len(f.answer) : g.answer[i] = f.answer[i]
             /\ LET p == Reads(k.endpoint)[Len(g.answer)] IN p \in Parts /\ g.answer[Len(g.answer)] = version[p]
<1> DEFINE f == flights[k]
           p == Left(k)[1]
           v == version[p]
<1>1. /\ f \in Computations /\ f # None /\ f.stage = "running"
      /\ Len(f.answer) \in Nat /\ Len(f.answer) < Width(k.endpoint)
      /\ p = Reads(k.endpoint)[Len(f.answer) + 1] /\ p \in Parts
  BY LeftIs DEF Read, Running
<1>2. f.answer \in Seq(Nat) /\ v \in Nat
  BY <1>1 DEF Computations, Answers, ApiTypes
<1>3. /\ Append(f.answer, v) \in Seq(Nat) /\ Len(Append(f.answer, v)) = Len(f.answer) + 1
      /\ \A i \in 1..Len(f.answer) : Append(f.answer, v)[i] = f.answer[i]
      /\ Append(f.answer, v)[Len(f.answer) + 1] = v
  BY <1>2, AppendProperties
<1>4. /\ flights'[k].answer = Append(f.answer, v) /\ flights'[k].stage = f.stage
      /\ flights'[k].begun = f.begun /\ flights'[k].crossed = f.crossed
  BY <1>1 DEF Computations
<1>5. Len(f.answer) + 1 <= Width(k.endpoint)
  BY <1>1, ReadsAre
<1> HIDE DEF f, p, v
<1>6. Reads(k.endpoint)[Len(flights'[k].answer)] = p
  BY <1>1, <1>3, <1>4
<1>7. flights'[k].answer[Len(flights'[k].answer)] = v
  BY <1>3, <1>4
<1> QED BY <1>1, <1>2, <1>3, <1>4, <1>5, <1>6, <1>7 DEF f, p, v, Answers

LEMMA SinceComputations ==
  ASSUME ApiTypes, LengthInv, SinceInv, [Next]_apiVars, NEW k \in Keys, flights'[k] # None
  PROVE  /\ flights'[k].begun <= time'
         /\ CurrentAll(k, flights[k].answer, flights[k].begun - 1)'
         /\ flights'[k].stage = "stored" => time' < flights'[k].begun + Timeout
<1>0. time \in Nat /\ Timeout \in Nat
  BY ApiTimes DEF ApiTypes
<1> DEFINE f == flights[k]
           g == flights'[k]
           Same == /\ f # None /\ g.answer = f.answer /\ g.begun = f.begun
                   /\ \/ g.stage = f.stage
                      \/ g.stage = "failed" /\ time' = time
                      \/ g.stage = "stored" /\ ~CutOff(k) /\ time' = time
<1>1. CASE Same
  <2>1. f \in Computations /\ Len(f.answer) <= Width(k.endpoint)
    BY <1>1, LeftIs
  <2>2. f.answer \in Answers /\ f.begun \in Nat
    BY <2>1 DEF Computations
  <2>3. f.begun <= time /\ CurrentAll(k, f.answer, f.begun - 1) /\ (f.stage = "stored" => time < f.begun + Timeout)
    BY <1>1 DEF SinceInv
  <2>4. f.begun - 1 \in Int /\ f.begun - 1 < time
    BY <1>0, <2>2, <2>3
  <2>5. \A i \in DOMAIN f.answer : CurrentIn(since'[Reads(k.endpoint)[i]], f.answer[i], f.begun - 1)
    <3> HIDE DEF f
    <3> QED BY <2>1, <2>2, <2>3, <2>4, CurrentKept, ClockAndDatabase
  <2>6. time' = time \/ (time' = time + 1 /\ f.stage = "running")
    BY <1>1, ClockAndDatabase, ClockWaits
  <2>7. g.begun <= time'
    BY <1>0, <1>1, <2>2, <2>3, <2>6
  <2>8. ASSUME g.stage = "stored" PROVE time' < g.begun + Timeout
    <3>1. CASE f.stage = "stored"
      BY <1>0, <1>1, <2>2, <2>3, <2>6, <2>8, <3>1
    <3>2. CASE f.stage # "stored"
      <4>1. ~CutOff(k) /\ time' = time
        BY <1>1, <2>8, <3>2
      <4>2. ~(time >= f.begun + Timeout)
        BY <4>1 DEF CutOff
      <4> QED BY <1>0, <1>1, <2>2, <4>1, <4>2
    <3> QED BY <3>1, <3>2
  <2>9. CurrentAll(k, flights[k].answer, flights[k].begun - 1)'
    <3>1. flights'[k].answer = f.answer /\ flights'[k].begun = f.begun
      BY <1>1
    <3> HIDE DEF f
    <3> QED BY <2>5, <3>1 DEF CurrentAll, CurrentAfter, CurrentIn
  <2> QED BY <2>7, <2>8, <2>9
<1>2. CASE \E c \in Clients :
             /\ Lead(c) /\ KeyFor(c) = k
             /\ flights'[k] = [stage |-> "running", answer |-> <<>>, begun |-> time, crossed |-> FALSE]
  <2>1. time' = time
    BY <1>2 DEF Lead
  <2>2. DOMAIN flights'[k].answer = {}
    BY <1>2
  <2> QED BY <1>0, <1>2, <2>1, <2>2 DEF CurrentAll
<1>3. CASE Read(k) /\ flights'[k] = [flights[k] EXCEPT !.answer = Append(@, version[Left(k)[1]])]
  <2>1. /\ f \in Computations /\ f # None /\ f.stage = "running"
        /\ g.stage = f.stage /\ g.begun = f.begun
        /\ g.answer \in Answers /\ Len(g.answer) = Len(f.answer) + 1 /\ f.answer \in Answers
        /\ \A i \in 1..Len(f.answer) : g.answer[i] = f.answer[i]
    BY <1>3, ReadIs
  <2>2. LET p == Reads(k.endpoint)[Len(g.answer)] IN p \in Parts /\ g.answer[Len(g.answer)] = version[p]
    BY <1>3, ReadIs
  <2>3. UNCHANGED <<since, time>> /\ f.begun <= time /\ CurrentAll(k, f.answer, f.begun - 1)
    BY <1>3, <2>1 DEF Read, dbVars, SinceInv
  <2>4. ASSUME NEW i \in DOMAIN g.answer PROVE CurrentAfter(Reads(k.endpoint)[i], g.answer[i], g.begun - 1)
    <3> HIDE DEF f, g
    <3>1. i \in 1..Len(f.answer) + 1 /\ Len(f.answer) \in Nat
      BY <2>1, AnswersAre
    <3>2. CASE i \in 1..Len(f.answer)
      <4>1. i \in DOMAIN f.answer /\ g.answer[i] = f.answer[i]
        BY <2>1, <3>2, AnswersAre
      <4> QED BY <2>1, <2>3, <4>1 DEF CurrentAll
    <3>3. CASE i = Len(f.answer) + 1
      <4> DEFINE p == Reads(k.endpoint)[i]
      <4>1. p \in Parts /\ g.answer[i] = version[p]
        BY <2>1, <2>2, <3>3
      <4>2. version[p] \in Nat /\ Len(since[p]) = version[p] + 1
        BY <4>1 DEF ApiTypes, LengthInv
      <4> HIDE DEF p
      <4>3. CurrentAfter(p, version[p], g.begun - 1)
        BY <4>2 DEF CurrentAfter
      <4> QED BY <4>1, <4>3 DEF p
    <3> QED BY <3>1, <3>2, <3>3
  <2>5. CurrentAll(k, flights[k].answer, flights[k].begun - 1)'
    BY <2>3, <2>4 DEF CurrentAll, CurrentAfter
  <2> QED BY <2>1, <2>3, <2>5
<1>4. CASE flights'[k] = flights[k]
  BY <1>1, <1>4
<1>5. CASE /\ flights[k] # None
           /\ \/ flights'[k] = [flights[k] EXCEPT !.crossed = TRUE]
              \/ flights'[k] = [flights[k] EXCEPT !.stage = "failed"] /\ time' = time
              \/ flights'[k] = [flights[k] EXCEPT !.stage = "stored"] /\ ~CutOff(k) /\ time' = time
  <2>1. flights[k] \in Computations
    BY <1>5 DEF ApiTypes
  <2> QED BY <1>1, <1>5, <2>1 DEF Computations
<1>6. /\ Fail(k) => flights[k] # None /\ time' = time
      /\ Store(k) => flights[k] # None /\ ~CutOff(k) /\ time' = time
  BY DEF Fail, Store, Running
<1> HIDE DEF Same
<1> QED BY <1>2, <1>3, <1>4, <1>5, <1>6, ComputationChange

LEMMA SinceStep == ApiTypes /\ LengthInv /\ SinceInv /\ [Next]_apiVars => SinceInv'
<1> SUFFICES ASSUME ApiTypes, LengthInv, SinceInv, [Next]_apiVars PROVE SinceInv'
  OBVIOUS
<1>1. \A k \in Keys : cache'[k] # None =>
        /\ cache'[k].expires - Ttl[k.endpoint] - Timeout < time'
        /\ CurrentAll(k, cache[k].answer, cache[k].expires - Ttl[k.endpoint] - Timeout)'
  BY SinceEntries
<1>2. \A k \in Keys : flights'[k] # None =>
        /\ flights'[k].begun <= time'
        /\ CurrentAll(k, flights[k].answer, flights[k].begun - 1)'
        /\ flights'[k].stage = "stored" => time' < flights'[k].begun + Timeout
  BY SinceComputations
<1> QED BY <1>1, <1>2 DEF SinceInv

\* What a caller is given was current less than its time to live and one query
\* timeout before.
LEMMA ServedIsRecent ==
  ASSUME ApiTypes, LengthInv, SinceInv, [Next]_apiVars, NEW c \in Clients, Served(c)
  PROVE  CurrentAll(KeyFor(c), client'[c].head, time - Ttl[KeyFor(c).endpoint] - Timeout)
<1> DEFINE k == KeyFor(c)
           u == time - Ttl[k.endpoint] - Timeout
<1>0. k \in Keys /\ client[c] \in Requests /\ Asks(c)
  BY AskedIs DEF Served
<1>1. time \in Nat /\ Timeout \in Nat /\ Ttl[k.endpoint] \in Nat
  BY <1>0, ApiTimes DEF ApiTypes
<1>2. \A a, x : Given(client[c], a, x).head = a
  BY <1>0 DEF Given, Requests
<1>3. CASE Hit(c)
  <2> DEFINE a == cache[k].answer
             t == cache[k].expires - Ttl[k.endpoint] - Timeout
  <2>1. /\ cache[k] \in Entries /\ cache[k] # None /\ time < cache[k].expires /\ a \in Answers
        /\ Len(a) = Width(k.endpoint) /\ Deliver({c}, a, cache[k].crossed)
    BY <1>3, HitIs
  <2>2. client'[c].head = a
    BY <1>2, <2>1 DEF Deliver
  <2>3. CurrentAll(k, a, t)
    BY <1>0, <2>1 DEF SinceInv
  <2>4. t \in Int /\ u \in Int /\ u <= t
    BY <1>1, <2>1 DEF Entries
  <2>5. Len(a) <= Width(k.endpoint)
    BY <2>1, ReadsAre
  <2> HIDE DEF a, t, k, u
  <2> QED BY <1>0, <2>1, <2>2, <2>3, <2>4, <2>5, CurrentEarlier DEF k, u
<1>4. ASSUME NEW j \in Keys, Return(j), c \in Waiting(j)
      PROVE  CurrentAll(k, client'[c].head, u)
  <2> DEFINE a == flights[j].answer
             t == flights[j].begun - 1
  <2>1. j = k /\ Waiting(j) \in SUBSET Clients
    BY <1>4, WaitingAre
  <2>2. flights[k] # None /\ flights[k].stage = "stored" /\ Deliver(Waiting(j), a, flights[j].crossed)
    BY <1>4, <2>1 DEF Return
  <2>3. flights[k] \in Computations /\ Len(a) <= Width(k.endpoint)
    BY <1>0, <2>1, <2>2, LeftIs
  <2>4. a \in Answers /\ flights[k].begun \in Nat
    BY <2>1, <2>3 DEF Computations
  <2>5. client'[c].head = a
    BY <1>2, <1>4, <2>2 DEF Deliver
  <2>6. CurrentAll(k, a, t) /\ time < flights[k].begun + Timeout
    BY <1>0, <2>1, <2>2 DEF SinceInv
  <2>7. t \in Int /\ u \in Int /\ u <= t
    BY <1>1, <2>1, <2>4, <2>6
  <2> HIDE DEF a, t, k, u
  <2> QED BY <1>0, <2>3, <2>4, <2>5, <2>6, <2>7, CurrentEarlier
<1>5. \/ Hit(c)
      \/ DirectEnds(c) /\ ~Served(c)
      \/ \E j \in Keys : Return(j) /\ c \in Waiting(j)
  BY WhoReplies
<1> QED BY <1>3, <1>4, <1>5

\* Every reachable state has answers and requests of their types and lengths,
\* and what is cached or computed was current after it was begun.
THEOREM ApiInvariance == ApiSpec => [](ApiTypes /\ LengthInv /\ SinceInv)
<1>1. Init => ApiTypes /\ LengthInv /\ SinceInv
  <2> SUFFICES ASSUME Init PROVE SinceInv
    BY ApiInitTypes
  <2>1. \A k \in Keys : cache[k] = None /\ flights[k] = None
    BY DEF Init
  <2> QED BY <2>1 DEF SinceInv
<1>2. ApiTypes /\ LengthInv /\ SinceInv /\ [Next]_apiVars => (ApiTypes /\ LengthInv /\ SinceInv)'
  BY ApiStep, SinceStep
<1> QED BY <1>1, <1>2, PTL DEF ApiSpec

\* handlers.go:36-99: an answer of a cached endpoint was true of the database
\* less than its TTL and one query timeout before it is given.
THEOREM StalenessIsBounded == ApiSpec => StalenessBounded
<1>1. ApiTypes /\ LengthInv /\ SinceInv /\ [Next]_apiVars =>
        [\A c \in Clients : Served(c) =>
           LET k == KeyFor(c)
               a == client'[c].head
           IN  \A i \in DOMAIN a :
                 CurrentAfter(Reads(k.endpoint)[i], a[i], time - Ttl[k.endpoint] - Timeout)]_apiVars
  BY ServedIsRecent DEF CurrentAll
<1> QED BY <1>1, ApiInvariance, PTL DEF ApiSpec, StalenessBounded

(***************************************************************************)
(* What the poller has told.                                               *)

\* What becomes of a request: it is new, it goes on as it was, an entity listing
\* has got its addresses, or a statement of its own has been answered.
LEMMA RequestChange ==
  ASSUME ApiTypes, LengthInv, [Next]_apiVars, NEW c \in Clients, Asks(c)'
  PROVE  \/ \E q \in Questions :
              /\ Ask(c, q) /\ client'[c].question = q /\ client'[c].floor = shown[q]
              /\ client'[c].told = told /\ client'[c].head = <<>>
              /\ client'[c].stage = "direct" => q \notin Keyed
         \/ /\ Asks(c)
            /\ client'[c].question = client[c].question /\ client'[c].floor = client[c].floor
            /\ client'[c].told = client[c].told
            /\ \/ /\ client'[c].head = client[c].head
                  /\ client'[c].stage = "direct" => client[c].stage = "direct"
               \/ /\ client'[c].stage = "direct" /\ client[c].stage = "direct"
                  /\ Direct(c) /\ client'[c].head = WithNext(c)
               \/ /\ client'[c].stage = "direct" /\ client[c].stage # "direct"
                  /\ \/ Hit(c) /\ client'[c].head = cache[KeyFor(c)].answer
                     \/ \E k \in Keys : /\ Return(k) /\ c \in Waiting(k)
                                        /\ client'[c].head = flights[k].answer
<1> DEFINE G == \/ \E q \in Questions :
                     /\ Ask(c, q) /\ client'[c].question = q /\ client'[c].floor = shown[q]
                     /\ client'[c].told = told /\ client'[c].head = <<>>
                     /\ client'[c].stage = "direct" => q \notin Keyed
                \/ /\ Asks(c)
                   /\ client'[c].question = client[c].question /\ client'[c].floor = client[c].floor
                   /\ client'[c].told = client[c].told
                   /\ \/ /\ client'[c].head = client[c].head
                         /\ client'[c].stage = "direct" => client[c].stage = "direct"
                      \/ /\ client'[c].stage = "direct" /\ client[c].stage = "direct"
                         /\ Direct(c) /\ client'[c].head = WithNext(c)
                      \/ /\ client'[c].stage = "direct" /\ client[c].stage # "direct"
                         /\ \/ Hit(c) /\ client'[c].head = cache[KeyFor(c)].answer
                            \/ \E k \in Keys : /\ Return(k) /\ c \in Waiting(k)
                                               /\ client'[c].head = flights[k].answer
<1>0. client \in [Clients -> {Idle} \cup Requests \cup Replies]
  BY DEF ApiTypes
<1>1. CASE client'[c] = client[c]
  BY <1>1 DEF Asks
<1>2. ASSUME NEW d \in Clients, NEW q \in Questions, Ask(d, q) PROVE G
  <2>1. CASE d = c
    <3> DEFINE s == IF q.endpoint \in Uncached THEN "direct" ELSE "asked"
    <3>1. client'[c] = [stage |-> s, question |-> q, floor |-> shown[q], told |-> told, head |-> <<>>]
      BY <1>0, <1>2, <2>1 DEF Ask
    <3>2. client'[c].stage = "direct" => q \notin Keyed
      BY <3>1 DEF Keyed
    <3> QED BY <1>2, <2>1, <3>1, <3>2
  <2>2. CASE d # c
    BY <1>0, <1>1, <1>2, <2>2 DEF Ask
  <2> QED BY <2>1, <2>2
<1>3. ASSUME NEW d \in Clients, Join(d) \/ Lead(d) PROVE G
  <2>1. CASE d = c
    <3>1. client[c] \in Requests /\ Asks(c) /\ client' = [client EXCEPT ![c].stage = "waiting"]
      BY <1>3, <2>1, RequestsAre DEF Join, Lead, Asks
    <3>2. /\ client'[c].stage = "waiting" /\ client'[c].head = client[c].head
          /\ client'[c].question = client[c].question /\ client'[c].floor = client[c].floor
          /\ client'[c].told = client[c].told
      BY <1>0, <3>1 DEF Requests
    <3> QED BY <3>1, <3>2
  <2>2. CASE d # c
    BY <1>0, <1>1, <1>3, <2>2 DEF Join, Lead
  <2> QED BY <2>1, <2>2
<1>4. ASSUME NEW d \in Clients, DirectFails(d) PROVE G
  <2>1. d # c
    BY <1>0, <1>4 DEF DirectFails, Asks, Idle
  <2> QED BY <1>0, <1>1, <1>4, <2>1 DEF DirectFails
<1>5. ASSUME NEW a, NEW x, client[c] \in Requests, client'[c] = Given(client[c], a, x)
      PROVE  /\ Asks(c)
             /\ client'[c].question = client[c].question /\ client'[c].floor = client[c].floor
             /\ client'[c].told = client[c].told /\ client'[c].head = a
             /\ client'[c].stage = "direct" /\ client[c].stage # "direct"
  <2>1. /\ client[c].question.endpoint \in Resolving /\ client[c].stage # "direct"
        /\ client'[c] = [client[c] EXCEPT !.stage = "direct", !.head = a]
    BY <1>5 DEF Given, Asks
  <2> QED BY <1>5, <2>1 DEF Requests, Asks
<1>6. ASSUME NEW d \in Clients, Hit(d) PROVE G
  <2>1. CASE d = c
    <3>1. /\ Deliver({c}, cache[KeyFor(c)].answer, cache[KeyFor(c)].crossed)
          /\ client[c] \in Requests
      BY <1>6, <2>1, HitIs
    <3>2. client'[c] = Given(client[c], cache[KeyFor(c)].answer, cache[KeyFor(c)].crossed)
      BY <3>1 DEF Deliver
    <3> QED BY <1>5, <1>6, <2>1, <3>1, <3>2
  <2>2. CASE d # c
    BY <1>1, <1>6, <2>2 DEF Hit, Deliver
  <2> QED BY <2>1, <2>2
<1>7. ASSUME NEW d \in Clients, Direct(d) PROVE G
  <2>1. CASE d = c
    <3>1. client[c].stage = "direct" /\ client' = [client EXCEPT ![c].head = WithNext(c)]
      BY <1>7, <2>1 DEF Direct
    <3>2. client[c] \in Requests /\ Asks(c)
      BY <3>1, NextIs DEF Asks
    <3>3. /\ client'[c].stage = "direct" /\ client'[c].head = WithNext(c)
          /\ client'[c].question = client[c].question /\ client'[c].floor = client[c].floor
          /\ client'[c].told = client[c].told
      BY <1>0, <3>1, <3>2 DEF Requests
    <3> QED BY <1>7, <2>1, <3>1, <3>2, <3>3
  <2>2. CASE d # c
    BY <1>0, <1>1, <1>7, <2>2 DEF Direct
  <2> QED BY <2>1, <2>2
<1>14. ASSUME NEW d \in Clients, DirectEnds(d) PROVE G
  <2>1. CASE d = c
    <3>1. Deliver({c}, WithNext(c), FALSE) /\ client[c] \in Requests /\ client[c].stage = "direct"
      BY <1>14, <2>1, DirectIs
    <3>2. client'[c] = Given(client[c], WithNext(c), FALSE)
      BY <3>1 DEF Deliver
    <3> QED BY <1>5, <3>1, <3>2
  <2>2. CASE d # c
    BY <1>1, <1>14, <2>2 DEF DirectEnds, Deliver
  <2> QED BY <2>1, <2>2
<1>8. ASSUME NEW k \in Keys, Return(k) PROVE G
  <2>1. CASE c \in Waiting(k)
    <3>1. client[c] \in Requests /\ Deliver(Waiting(k), flights[k].answer, flights[k].crossed)
      BY <1>8, <2>1, WaitingAre DEF Return
    <3>2. client'[c] = Given(client[c], flights[k].answer, flights[k].crossed)
      BY <2>1, <3>1 DEF Deliver
    <3> QED BY <1>5, <1>8, <2>1, <3>1, <3>2
  <2>2. CASE c \notin Waiting(k)
    BY <1>1, <1>8, <2>2 DEF Return, Deliver
  <2> QED BY <2>1, <2>2
<1>9. ASSUME NEW k \in Keys, ReturnError(k) PROVE G
  <2>1. client'[c] = client[c] \/ client'[c] = Idle
    BY <1>9 DEF ReturnError
  <2>2. client'[c] # Idle
    BY DEF Asks, Idle
  <2> QED BY <1>1, <2>1, <2>2
<1>10. \/ UNCHANGED client
       \/ \E d \in Clients : \/ (\E q \in Questions : Ask(d, q)) \/ Join(d) \/ Lead(d) \/ DirectFails(d)
                             \/ Hit(d) \/ Direct(d) \/ DirectEnds(d)
       \/ \E k \in Keys : Return(k) \/ ReturnError(k)
  <2>1. CASE UNCHANGED apiVars
    BY <2>1 DEF apiVars
  <2>2. CASE Next
    BY <2>2 DEF Next, Commit, ClockTick, Notice, Broadcast, Read, Fail, Store
  <2> QED BY <2>1, <2>2
<1>11. UNCHANGED client => client'[c] = client[c]
  OBVIOUS
<1>12. client'[c] = client[c] => G
  BY <1>1
<1> HIDE DEF G
<1>13. G
  BY <1>2, <1>3, <1>4, <1>6, <1>7, <1>8, <1>9, <1>10, <1>11, <1>12, <1>14
<1> QED BY <1>13 DEF G

\* The poller and the versions only advance, and the poller never leads.
LEMMA PollerAdvances ==
  ASSUME ApiTypes, ToldInv, [Next]_apiVars
  PROVE  /\ \A p \in Parts : told[p] <= told'[p] /\ told'[p] <= seen'[p] /\ seen'[p] <= version'[p]
         /\ \A p \in Parts : seen'[p] = seen[p] \/ Notice(p)
         /\ \A p \in Parts : version[p] \in Nat /\ version'[p] \in Nat /\ version[p] <= version'[p]
<1>0. /\ version \in [Parts -> Nat] /\ seen \in [Parts -> Nat] /\ told \in [Parts -> Nat]
      /\ \A p \in Parts : told[p] <= seen[p] /\ seen[p] <= version[p]
  BY DEF ApiTypes, ToldInv
<1> DEFINE G(p) == /\ told[p] <= told'[p] /\ told'[p] <= seen'[p] /\ seen'[p] <= version'[p]
                   /\ seen'[p] = seen[p] \/ Notice(p)
                   /\ version[p] \in Nat /\ version'[p] \in Nat /\ version[p] <= version'[p]
<1>1. ASSUME NEW ps, Commit(ps), NEW p \in Parts PROVE G(p)
  <2>1. version'[p] = version[p] + (IF p \in ps THEN 1 ELSE 0) /\ told' = told /\ seen' = seen
    BY <1>1 DEF Commit, pollVars
  <2>2. version'[p] \in Nat /\ version[p] <= version'[p]
    BY <1>0, <2>1
  <2>3. version[p] \in Nat /\ seen[p] \in Nat /\ told[p] \in Nat /\ told[p] <= seen[p] /\ seen[p] <= version[p]
    BY <1>0
  <2>4. seen[p] <= version'[p]
    BY <2>2, <2>3
  <2> QED BY <2>1, <2>2, <2>3, <2>4
<1>2. ASSUME NEW o \in Parts, Notice(o), NEW p \in Parts PROVE G(p)
  <2>1. seen'[p] = (IF p = o THEN version[p] ELSE seen[p]) /\ version' = version /\ told' = told
    BY <1>0, <1>2 DEF Notice, dbVars
  <2> QED BY <1>0, <1>2, <2>1
<1>3. ASSUME NEW o \in Parts, Broadcast(o), NEW p \in Parts PROVE G(p)
  <2>1. told'[p] = (IF p = o THEN seen[p] ELSE told[p]) /\ version' = version /\ seen' = seen
    BY <1>0, <1>3 DEF Broadcast, dbVars
  <2> QED BY <1>0, <2>1
<1>4. ASSUME UNCHANGED <<version, pollVars>>, NEW p \in Parts PROVE G(p)
  BY <1>0, <1>4 DEF pollVars
<1>5. \/ \E ps : Commit(ps)
      \/ \E o \in Parts : Notice(o) \/ Broadcast(o)
      \/ UNCHANGED <<version, pollVars>>
  <2>1. CASE UNCHANGED apiVars
    BY <2>1 DEF apiVars, dbVars, pollVars
  <2>2. CASE Next
    BY <2>2 DEF Next, dbVars, pollVars, ClockTick, Ask, Hit, Join, Lead, Direct, DirectEnds, DirectFails,
                Read, Fail, Store, Return, ReturnError
  <2> QED BY <2>1, <2>2
<1>6. \A p \in Parts : G(p)
  BY <1>1, <1>2, <1>3, <1>4, <1>5
<1> QED BY <1>6

LEMMA ToldEntries ==
  ASSUME ApiTypes, LengthInv, ToldInv, [Next]_apiVars, NEW k \in Keys,
         cache'[k] # None, ~cache'[k].crossed
  PROVE  Shows(k, cache[k].answer)'
<1>1. SUFFICES ASSUME NEW p \in Parts, k.endpoint \in Dropped(p), NEW i \in DOMAIN cache'[k].answer,
                      Reads(k.endpoint)[i] = p
               PROVE  cache'[k].answer[i] >= seen'[p]
  BY DEF Shows
<1>2. ~Notice(p)
  BY <1>1 DEF Notice
<1>3. seen'[p] = seen[p]
  BY <1>2, PollerAdvances
<1>4. CASE cache'[k] = cache[k]
  BY <1>1, <1>3, <1>4 DEF ToldInv, Shows
<1>5. CASE Store(k) /\ cache'[k] = EntryOf(k)
  <2>1. flights[k] # None /\ ~flights[k].crossed /\ cache'[k].answer = flights[k].answer
    BY <1>5 DEF Store, Running, EntryOf
  <2> QED BY <1>1, <1>3, <2>1 DEF ToldInv, Shows
<1> QED BY <1>4, <1>5, EntryChange

LEMMA ToldComputations ==
  ASSUME ApiTypes, LengthInv, ToldInv, [Next]_apiVars, NEW k \in Keys,
         flights'[k] # None, ~flights'[k].crossed
  PROVE  Shows(k, flights[k].answer)'
<1>1. SUFFICES ASSUME NEW p \in Parts, k.endpoint \in Dropped(p), NEW i \in DOMAIN flights'[k].answer,
                      Reads(k.endpoint)[i] = p
               PROVE  flights'[k].answer[i] >= seen'[p]
  BY DEF Shows
<1>2. ASSUME Notice(p) PROVE flights[k] = None /\ flights'[k] = None
  <2>1. CASE flights[k] # None
    <3>1. flights[k] \in Computations /\ flights'[k] = [flights[k] EXCEPT !.crossed = TRUE]
      BY <1>1, <1>2, <2>1 DEF Notice, ApiTypes
    <3> QED BY <3>1 DEF Computations
  <2> QED BY <1>2, <2>1 DEF Notice
<1>3. seen'[p] = seen[p]
  BY <1>2, PollerAdvances
<1>4. ASSUME flights[k] # None, ~flights[k].crossed, flights'[k].answer = flights[k].answer
      PROVE  flights'[k].answer[i] >= seen'[p]
  BY <1>1, <1>3, <1>4 DEF ToldInv, Shows
<1>5. CASE flights'[k].answer = <<>>
  BY <1>1, <1>5
<1>6. CASE Read(k) /\ flights'[k] = [flights[k] EXCEPT !.answer = Append(@, version[Left(k)[1]])]
  <2> DEFINE f == flights[k]
             g == flights'[k]
  <2>1. /\ f # None /\ g.crossed = f.crossed
        /\ g.answer \in Answers /\ Len(g.answer) = Len(f.answer) + 1 /\ f.answer \in Answers
        /\ \A j \in 1..Len(f.answer) : g.answer[j] = f.answer[j]
        /\ LET o == Reads(k.endpoint)[Len(g.answer)] IN o \in Parts /\ g.answer[Len(g.answer)] = version[o]
    BY <1>6, ReadIs
  <2>2. f # None /\ ~f.crossed
    BY <2>1
  <2>3. i \in 1..Len(f.answer) + 1 /\ Len(f.answer) \in Nat
    BY <1>1, <2>1, AnswersAre
  <2>4. CASE i \in 1..Len(f.answer)
    <3>1. i \in DOMAIN f.answer /\ g.answer[i] = f.answer[i]
      BY <2>1, <2>4, AnswersAre
    <3> QED BY <1>1, <1>3, <2>2, <3>1 DEF ToldInv, Shows
  <2>5. CASE i = Len(f.answer) + 1
    <3>1. g.answer[i] = version[p]
      BY <1>1, <2>1, <2>5
    <3>2. version[p] \in Nat /\ seen[p] \in Nat /\ seen[p] <= version[p]
      BY DEF ApiTypes, ToldInv
    <3> QED BY <1>3, <3>1, <3>2
  <2> QED BY <2>3, <2>4, <2>5
<1>7. CASE /\ flights[k] # None
           /\ \/ flights'[k] = flights[k]
              \/ flights'[k] = [flights[k] EXCEPT !.stage = "failed"]
              \/ flights'[k] = [flights[k] EXCEPT !.stage = "stored"]
  <2>1. flights[k] \in Computations
    BY <1>7 DEF ApiTypes
  <2>2. ~flights[k].crossed /\ flights'[k].answer = flights[k].answer
    BY <1>7, <2>1 DEF Computations
  <2> QED BY <1>4, <1>7, <2>2
<1>8. ASSUME flights[k] # None, flights'[k] = [flights[k] EXCEPT !.crossed = TRUE] PROVE FALSE
  <2>1. flights[k] \in Computations
    BY <1>8 DEF ApiTypes
  <2> QED BY <1>8, <2>1 DEF Computations
<1>9. Fail(k) \/ Store(k) => flights[k] # None
  BY DEF Fail, Store, Running
<1>10. CASE flights'[k] = [stage |-> "running", answer |-> <<>>, begun |-> time, crossed |-> FALSE]
  <2>1. flights'[k].answer = <<>>
    BY <1>10
  <2> QED BY <1>5, <2>1
<1>11. flights'[k] = flights[k] => flights[k] # None
  OBVIOUS
<1> QED BY <1>6, <1>7, <1>8, <1>9, <1>10, <1>11, ComputationChange

LEMMA ToldStep == ApiTypes /\ LengthInv /\ ToldInv /\ [Next]_apiVars => ToldInv'
<1> SUFFICES ASSUME ApiTypes, LengthInv, ToldInv, [Next]_apiVars PROVE ToldInv'
  OBVIOUS
<1>1. \A p \in Parts : told'[p] <= seen'[p] /\ seen'[p] <= version'[p]
  BY PollerAdvances
<1>2. ASSUME NEW c \in Clients, Asks(c)', NEW p \in Parts PROVE client'[c].told[p] <= told'[p]
  <2>1. told[p] \in Nat /\ told[p] <= told'[p]
    BY PollerAdvances DEF ApiTypes
  <2>2. CASE client'[c].told = told
    BY <2>1, <2>2
  <2>3. CASE Asks(c) /\ client'[c].told = client[c].told
    <3>1. client[c].told[p] \in Nat /\ client[c].told[p] <= told[p]
      BY <2>3, RequestsAre DEF Requests, ToldInv
    <3>2. told'[p] \in Nat
      <4>1. (ApiTypes /\ LengthInv)'
        BY ApiStep
      <4> QED BY <4>1 DEF ApiTypes
    <3> QED BY <2>1, <2>3, <3>1, <3>2
  <2> QED BY <1>2, <2>2, <2>3, RequestChange
<1>3. \A k \in Keys : cache'[k] # None /\ ~cache'[k].crossed => Shows(k, cache[k].answer)'
  BY ToldEntries
<1>4. \A k \in Keys : flights'[k] # None /\ ~flights'[k].crossed => Shows(k, flights[k].answer)'
  BY ToldComputations
<1> QED BY <1>1, <1>2, <1>3, <1>4 DEF ToldInv, Asks

\* What is answered by a step, and from where.
LEMMA AnswerOf ==
  ASSUME ApiTypes, LengthInv, [Next]_apiVars, NEW c \in Clients, Replied(c)
  PROVE  /\ client[c] \in Requests /\ Asks(c)
         /\ \/ LET k == KeyFor(c) IN
                 /\ Hit(c) /\ k \in Keys /\ cache[k] \in Entries /\ Fresh(k)
                 /\ Len(cache[k].answer) = Width(k.endpoint)
                 /\ client'[c].head = cache[k].answer /\ client'[c].crossed = cache[k].crossed
                 /\ k = client[c].question /\ client[c].question \in Keyed
            \/ LET k == KeyFor(c) IN
                 /\ Return(k) /\ k \in Keys /\ flights[k] \in Computations
                 /\ Len(flights[k].answer) = Width(k.endpoint)
                 /\ client'[c].head = flights[k].answer /\ client'[c].crossed = flights[k].crossed
                 /\ k = client[c].question /\ client[c].question \in Keyed
            \/ LET q == client[c].question IN
                 /\ DirectEnds(c) /\ q.endpoint \in Uncached \cup Resolving
                 /\ client'[c].head = WithNext(c) /\ WithNext(c) \in Answers
                 /\ Len(WithNext(c)) = Width(q.endpoint)
<1>1. ASSUME NEW a \in Answers, NEW x \in BOOLEAN, client[c] \in Requests, client'[c] = Given(client[c], a, x)
      PROVE  /\ client'[c].head = a /\ client'[c].crossed = x
             /\ client[c].question.endpoint \in Resolving => client[c].stage = "direct"
  <2> DEFINE cl == client[c]
  <2>1. Given(cl, a, x) \notin Requests /\ Given(cl, a, x) # [stage |-> "notFound", head |-> a, crossed |-> x]
    BY <1>1 DEF Replied, Requests
  <2>2. cl \in Requests
    BY <1>1
  <2> HIDE DEF cl
  <2>3. /\ cl.question.endpoint \in Resolving => cl.stage = "direct"
        /\ Given(cl, a, x) = [stage |-> "answered", head |-> a, crossed |-> x]
    BY <2>1, <2>2, GivenIs
  <2> QED BY <1>1, <2>3 DEF cl
<1>2. ASSUME client[c].question \in Keyed, client[c].question.endpoint \notin Resolving
      PROVE  KeyFor(c) = client[c].question
  BY <1>2, KeyPrefix DEF KeyFor
<1>3. CASE Hit(c)
  <2> DEFINE k == KeyFor(c)
  <2>1. /\ k \in Keys /\ cache[k] \in Entries /\ cache[k] # None /\ time < cache[k].expires
        /\ cache[k].answer \in Answers /\ Len(cache[k].answer) = Width(k.endpoint)
        /\ cache[k].crossed \in BOOLEAN
        /\ Deliver({c}, cache[k].answer, cache[k].crossed)
        /\ client[c].stage = "asked" /\ client[c] \in Requests /\ client[c].question \in Keyed
        /\ Asks(c)
    BY <1>3, HitIs
  <2>2. client'[c] = Given(client[c], cache[k].answer, cache[k].crossed)
    BY <2>1 DEF Deliver
  <2>3. /\ client'[c].head = cache[k].answer /\ client'[c].crossed = cache[k].crossed
        /\ client[c].question.endpoint \notin Resolving
    <3> HIDE DEF k
    <3> QED BY <1>1, <2>1, <2>2
  <2> QED BY <1>2, <1>3, <2>1, <2>3 DEF Fresh
<1>4. ASSUME NEW k \in Keys, Return(k), c \in Waiting(k)
      PROVE  /\ KeyFor(c) = k /\ flights[k] \in Computations
             /\ Len(flights[k].answer) = Width(k.endpoint)
             /\ client'[c].head = flights[k].answer /\ client'[c].crossed = flights[k].crossed
             /\ k = client[c].question /\ client[c].question \in Keyed
             /\ client[c] \in Requests /\ Asks(c)
  <2>1. /\ flights[k] # None /\ flights[k].stage = "stored"
        /\ Deliver(Waiting(k), flights[k].answer, flights[k].crossed)
    BY <1>4 DEF Return
  <2>2. flights[k] \in Computations /\ Len(flights[k].answer) = Width(k.endpoint)
    BY <2>1, LeftIs DEF LengthInv
  <2>3. flights[k].answer \in Answers /\ flights[k].crossed \in BOOLEAN
    BY <2>2 DEF Computations
  <2>4. /\ client[c] \in Requests /\ client[c].stage = "waiting" /\ KeyFor(c) = k
        /\ client[c].question \in Keyed /\ Asks(c)
    BY <1>4, WaitingAre
  <2>5. client'[c] = Given(client[c], flights[k].answer, flights[k].crossed)
    BY <1>4, <2>1 DEF Deliver
  <2>6. /\ client'[c].head = flights[k].answer /\ client'[c].crossed = flights[k].crossed
        /\ client[c].question.endpoint \notin Resolving
    BY <1>1, <2>3, <2>4, <2>5
  <2> QED BY <1>2, <2>2, <2>4, <2>6
<1>5. CASE DirectEnds(c)
  <2>1. /\ Deliver({c}, WithNext(c), FALSE) /\ Asks(c) /\ client[c] \in Requests
        /\ client[c].question.endpoint \in Uncached \cup Resolving /\ WithNext(c) \in Answers
        /\ Len(WithNext(c)) = Width(client[c].question.endpoint)
    BY <1>5, DirectIs
  <2>2. client'[c] = Given(client[c], WithNext(c), FALSE)
    BY <2>1 DEF Deliver
  <2>3. client'[c].head = WithNext(c)
    BY <1>1, <2>1, <2>2
  <2> QED BY <1>5, <2>1, <2>3
<1>6. \/ Hit(c)
      \/ DirectEnds(c) /\ ~Served(c)
      \/ \E k \in Keys : Return(k) /\ c \in Waiting(k)
  BY WhoReplies
<1>7. ASSUME NEW k \in Keys, Return(k), c \in Waiting(k)
      PROVE  LET j == KeyFor(c) IN
                 /\ Return(j) /\ j \in Keys /\ flights[j] \in Computations
                 /\ Len(flights[j].answer) = Width(j.endpoint)
                 /\ client'[c].head = flights[j].answer /\ client'[c].crossed = flights[j].crossed
                 /\ j = client[c].question /\ client[c].question \in Keyed
                 /\ client[c] \in Requests /\ Asks(c)
  BY <1>4, <1>7
<1> QED BY <1>3, <1>5, <1>6, <1>7

LEMMA ReplyShows ==
  ASSUME ApiTypes, LengthInv, ToldInv, [Next]_apiVars, NEW c \in Clients, Replied(c), ~client'[c].crossed,
         NEW p \in Parts, client[c].question.endpoint \in Dropped(p),
         NEW i \in DOMAIN client'[c].head, Reads(client[c].question.endpoint)[i] = p
  PROVE  client'[c].head[i] >= client[c].told[p]
<1> DEFINE q == client[c].question
           a == client'[c].head
<1>1. client[c].told[p] \in Nat /\ client[c].told[p] <= told[p]
  BY AnswerOf DEF Requests, ToldInv
<1>2. told[p] \in Nat /\ seen[p] \in Nat /\ told[p] <= seen[p]
  BY DEF ApiTypes, ToldInv
<1>3. q.endpoint \notin Uncached /\ q.endpoint \notin Resolving
  BY DEF Dropped, Uncached, Resolving
<1>4. ASSUME a \in Answers, Shows(q, a) PROVE a[i] >= client[c].told[p]
  <2>1. a[i] \in Nat /\ a[i] >= seen[p]
    BY <1>4, AnswersAre DEF Shows
  <2> QED BY <1>1, <1>2, <2>1
<1>5. CASE /\ Hit(c) /\ q \in Keys /\ cache[q] \in Entries /\ Fresh(q)
           /\ a = cache[q].answer /\ client'[c].crossed = cache[q].crossed
  <2>1. Shows(q, a) /\ a \in Answers
    BY <1>5 DEF ToldInv, Fresh, Entries
  <2> QED BY <1>4, <2>1
<1>6. CASE /\ Return(q) /\ q \in Keys /\ flights[q] \in Computations
           /\ a = flights[q].answer /\ client'[c].crossed = flights[q].crossed
  <2>1. Shows(q, a) /\ a \in Answers
    BY <1>6 DEF ToldInv, Return, Computations
  <2> QED BY <1>4, <2>1
<1> HIDE DEF q, a
<1>7. \/ /\ Hit(c) /\ q \in Keys /\ cache[q] \in Entries /\ Fresh(q)
         /\ a = cache[q].answer /\ client'[c].crossed = cache[q].crossed
      \/ /\ Return(q) /\ q \in Keys /\ flights[q] \in Computations
         /\ a = flights[q].answer /\ client'[c].crossed = flights[q].crossed
  BY <1>3, AnswerOf DEF q, a
<1> QED BY <1>5, <1>6, <1>7 DEF q, a

\* router.go:260-301, ws_poller.go:49-58: whoever asks after a broadcast gets an
\* answer that shows what was broadcast, unless its computation was under way
\* when the caches were dropped.
THEOREM RefetchesSeeBlocks == ApiSpec => RefetchSeesBlock
<1>1. Init => ToldInv
  <2> SUFFICES ASSUME Init PROVE ToldInv
    OBVIOUS
  <2>1. /\ \A k \in Keys : cache[k] = None /\ flights[k] = None
        /\ \A p \in Parts : told[p] = 0 /\ seen[p] = 0 /\ version[p] = 0
        /\ \A c \in Clients : ~Asks(c)
    BY DEF Init, Asks, Idle
  <2> QED BY <2>1 DEF ToldInv
<1>2. ApiTypes /\ LengthInv /\ ToldInv /\ [Next]_apiVars => ToldInv'
  BY ToldStep
<1>3. ApiTypes /\ LengthInv /\ ToldInv /\ [Next]_apiVars =>
        [\A c \in Clients : Replied(c) /\ ~ client'[c].crossed =>
           LET q == client[c].question
           IN  \A p \in Parts : q.endpoint \in Dropped(p) =>
                 \A i \in DOMAIN client'[c].head :
                   Reads(q.endpoint)[i] = p => client'[c].head[i] >= client[c].told[p]]_apiVars
  BY ReplyShows
<1> QED BY <1>1, <1>2, <1>3, ApiInvariance, PTL DEF ApiSpec, RefetchSeesBlock

(***************************************************************************)
(* That answers do not go back.                                            *)

LEMMA NotAfterTransitive ==
  ASSUME NEW a \in Answers, NEW b \in Answers, NEW d \in Answers,
         Len(a) <= Len(b), NotAfter(a, b), NotAfter(b, d)
  PROVE  NotAfter(a, d)
<1> SUFFICES ASSUME NEW i \in DOMAIN a, i \in DOMAIN d PROVE a[i] <= d[i]
  BY DEF NotAfter
<1>1. /\ Len(a) \in Nat /\ Len(b) \in Nat /\ i \in 1..Len(a) /\ DOMAIN b = 1..Len(b)
      /\ i \in 1..Len(d) /\ DOMAIN a = 1..Len(a)
  BY AnswersAre
<1>2. i \in DOMAIN b /\ i \in 1..Len(b)
  BY <1>1
<1>3. a[i] <= b[i] /\ b[i] <= d[i]
  BY <1>2 DEF NotAfter
<1>4. a[i] \in Nat /\ b[i] \in Nat /\ d[i] \in Nat
  BY <1>1, <1>2, AnswersAre
<1> QED BY <1>3, <1>4

\* An answer that covers the queries of a key, by the key's stock.
LEMMA StockIs ==
  ASSUME ApiTypes, LengthInv, NEW k \in Keys
  PROVE  /\ Fresh(k) => cache[k].answer \in Answers /\ Len(cache[k].answer) = Width(k.endpoint)
         /\ flights[k] # None => /\ flights[k].answer \in Answers
                                 /\ Len(flights[k].answer) \in Nat
                                 /\ Len(flights[k].answer) <= Width(k.endpoint)
         /\ flights[k] # None /\ flights[k].stage = "stored" =>
              Len(flights[k].answer) = Width(k.endpoint)
<1>1. Fresh(k) => cache[k] \in Entries /\ Len(cache[k].answer) = Width(k.endpoint)
  BY DEF Fresh, ApiTypes, LengthInv
<1>2. flights[k] # None => flights[k] \in Computations /\ Len(flights[k].answer) <= Width(k.endpoint)
  BY DEF ApiTypes, LengthInv
<1>3. flights[k] # None => flights[k].answer \in Answers /\ Len(flights[k].answer) \in Nat
  BY <1>2, AnswersAre DEF Computations
<1> QED BY <1>1, <1>2, <1>3 DEF Entries, LengthInv

\* What is fresh was fresh, or is stored now.
LEMMA FreshAfter ==
  ASSUME ApiTypes, LengthInv, [Next]_apiVars, NEW k \in Keys, Fresh(k)'
  PROVE  \/ Fresh(k) /\ cache'[k] = cache[k]
         \/ Store(k) /\ Running(k) /\ cache'[k].answer = flights[k].answer
<1>1. cache'[k] # None /\ time' < cache'[k].expires
  BY DEF Fresh
<1>2. CASE cache'[k] = cache[k]
  <2>1. cache[k] \in Entries /\ time \in Nat /\ (time' = time \/ time' = time + 1)
    BY <1>1, <1>2, ClockAndDatabase DEF ApiTypes
  <2>2. cache[k].expires \in Int
    BY <2>1 DEF Entries
  <2>3. time < cache[k].expires
    BY <1>1, <1>2, <2>1, <2>2
  <2> QED BY <1>1, <1>2, <2>3 DEF Fresh
<1>3. CASE Store(k) /\ cache'[k] = EntryOf(k)
  BY <1>3 DEF Store, EntryOf
<1> QED BY <1>1, <1>2, <1>3, EntryChange

\* Behind(k, a), of the state after the step.
BehindNext(k, a) ==
  /\ \A i \in DOMAIN a \cap DOMAIN Reads(k.endpoint) : a[i] <= version'[Reads(k.endpoint)[i]]
  /\ cache'[k] # None /\ time' < cache'[k].expires => NotAfter(a, cache'[k].answer)
  /\ flights'[k] # None /\ flights'[k].stage # "failed" => NotAfter(a, flights'[k].answer)

\* What is out stays behind the stock of its key.
LEMMA BehindKept ==
  ASSUME ApiTypes, LengthInv, ToldInv, [Next]_apiVars, NEW k \in Keys, NEW a \in Answers, Behind(k, a)
  PROVE  BehindNext(k, a)
<1>1. ASSUME NEW i \in DOMAIN a \cap DOMAIN Reads(k.endpoint) PROVE a[i] <= version'[Reads(k.endpoint)[i]]
  <2> DEFINE p == Reads(k.endpoint)[i]
  <2>1. p \in Parts /\ a[i] \in Nat /\ a[i] <= version[p]
    BY ReadsAre, AnswersAre DEF Behind
  <2>2. version[p] \in Nat /\ version'[p] \in Nat /\ version[p] <= version'[p]
    BY <2>1, PollerAdvances
  <2> HIDE DEF p
  <2>3. a[i] <= version'[p]
    BY <2>1, <2>2
  <2> QED BY <2>3 DEF p
<1>2. ASSUME Fresh(k)' PROVE NotAfter(a, cache'[k].answer)
  <2>1. CASE Fresh(k) /\ cache'[k] = cache[k]
    BY <2>1 DEF Behind
  <2>2. CASE Store(k) /\ Running(k) /\ cache'[k].answer = flights[k].answer
    BY <2>2 DEF Behind, Running
  <2> QED BY <1>2, <2>1, <2>2, FreshAfter
<1>3. ASSUME flights'[k] # None, flights'[k].stage # "failed" PROVE NotAfter(a, flights'[k].answer)
  <2>1. CASE flights'[k] = flights[k]
    BY <1>3, <2>1 DEF Behind
  <2>2. CASE flights'[k] = [stage |-> "running", answer |-> <<>>, begun |-> time, crossed |-> FALSE]
    <3>1. flights'[k].answer = <<>>
      BY <2>2
    <3> QED BY <3>1 DEF NotAfter
  <2>3. CASE Read(k) /\ flights'[k] = [flights[k] EXCEPT !.answer = Append(@, version[Left(k)[1]])]
    <3> DEFINE f == flights[k]
               g == flights'[k]
    <3>1. /\ f # None /\ f.stage = "running"
          /\ g.answer \in Answers /\ Len(g.answer) = Len(f.answer) + 1 /\ f.answer \in Answers
          /\ Len(g.answer) <= Width(k.endpoint)
          /\ \A j \in 1..Len(f.answer) : g.answer[j] = f.answer[j]
          /\ LET o == Reads(k.endpoint)[Len(g.answer)] IN o \in Parts /\ g.answer[Len(g.answer)] = version[o]
      BY <2>3, ReadIs
    <3>2. NotAfter(a, f.answer)
      BY <3>1 DEF Behind
    <3>3. ASSUME NEW i \in DOMAIN a, i \in DOMAIN g.answer PROVE a[i] <= g.answer[i]
      <4>1. i \in 1..Len(f.answer) + 1 /\ Len(f.answer) \in Nat
        BY <3>1, <3>3, AnswersAre
      <4>2. CASE i \in 1..Len(f.answer)
        <5>1. i \in DOMAIN f.answer /\ g.answer[i] = f.answer[i]
          BY <3>1, <4>2, AnswersAre
        <5> QED BY <3>2, <5>1 DEF NotAfter
      <4>3. CASE i = Len(f.answer) + 1
        <5>1. i \in DOMAIN Reads(k.endpoint)
          BY <3>1, <4>1, <4>3, ReadsAre
        <5> QED BY <3>1, <4>3, <5>1 DEF Behind
      <4> QED BY <4>1, <4>2, <4>3
    <3> QED BY <3>3 DEF NotAfter
  <2>4. CASE /\ flights[k] # None /\ flights[k].stage # "failed"
             /\ \/ flights'[k] = [flights[k] EXCEPT !.crossed = TRUE]
                \/ flights'[k] = [flights[k] EXCEPT !.stage = "stored"]
    <3>1. flights[k] \in Computations
      BY <2>4 DEF ApiTypes
    <3>2. flights'[k].answer = flights[k].answer
      BY <2>4, <3>1 DEF Computations
    <3> QED BY <2>4, <3>2 DEF Behind
  <2>5. ASSUME flights[k] # None, flights'[k] = [flights[k] EXCEPT !.crossed = TRUE]
        PROVE  flights[k].stage # "failed"
    <3>1. flights[k] \in Computations
      BY <2>5 DEF ApiTypes
    <3> QED BY <1>3, <2>5, <3>1 DEF Computations
  <2>6. ASSUME Fail(k), flights'[k] = [flights[k] EXCEPT !.stage = "failed"] PROVE FALSE
    <3>1. flights[k] \in Computations
      BY <2>6 DEF ApiTypes, Fail, Running
    <3> QED BY <1>3, <2>6, <3>1 DEF Computations
  <2>7. Store(k) => flights[k] # None /\ flights[k].stage # "failed"
    BY DEF Store, Running
  <2> QED BY <1>3, <2>1, <2>2, <2>3, <2>4, <2>5, <2>6, <2>7, ComputationChange
<1> QED BY <1>1, <1>2, <1>3 DEF BehindNext, Fresh

LEMMA BehindAtLeast ==
  ASSUME ApiTypes, LengthInv, NEW k \in Keys, NEW a \in Answers, NEW b \in Answers, Behind(k, a), Behind(k, b)
  PROVE  Behind(k, AtLeast(a, b))
<1> DEFINE m == AtLeast(a, b)
<1>1. m \in Answers /\ DOMAIN m = DOMAIN a
  BY AtLeastIs, AnswersAre
<1>2. \A i \in DOMAIN m : (i \in DOMAIN a /\ m[i] = a[i]) \/ (i \in DOMAIN b /\ m[i] = b[i])
  BY <1>1, AtLeastIs, AnswersAre
<1> HIDE DEF m
<1>3. \A d : NotAfter(a, d) /\ NotAfter(b, d) => NotAfter(m, d)
  BY <1>1, <1>2 DEF NotAfter
<1>4. \A i \in DOMAIN m \cap DOMAIN Reads(k.endpoint) : m[i] <= version[Reads(k.endpoint)[i]]
  BY <1>1, <1>2 DEF Behind
<1>5. Behind(k, m)
  BY <1>3, <1>4 DEF Behind
<1> QED BY <1>5 DEF m

\* What a key has in stock is behind itself.
LEMMA StockBehind ==
  ASSUME ApiTypes, LengthInv, SinceInv, OrderInv, NEW k \in Keys
  PROVE  /\ Fresh(k) => Behind(k, cache[k].answer)
         /\ flights[k] # None /\ flights[k].stage = "stored" => Behind(k, flights[k].answer)
<1>1. ASSUME NEW a \in Answers, Len(a) <= Width(k.endpoint), NEW t, CurrentAll(k, a, t),
             NEW i \in DOMAIN a \cap DOMAIN Reads(k.endpoint)
      PROVE  a[i] <= version[Reads(k.endpoint)[i]]
  <2> DEFINE p == Reads(k.endpoint)[i]
  <2>1. p \in Parts
    BY ReadsAre
  <2>2. Len(since[p]) = version[p] + 1 /\ version[p] \in Nat
    BY <2>1 DEF LengthInv, ApiTypes
  <2>3. a[i] \in 0..Len(since[p]) - 1
    BY <1>1 DEF CurrentAll, CurrentAfter
  <2> HIDE DEF p
  <2>4. a[i] <= version[p]
    BY <2>2, <2>3
  <2> QED BY <2>4 DEF p
<1>2. \A a \in Answers : NotAfter(a, a)
  BY AnswersAre DEF NotAfter
<1>3. flights[k] # None => flights[k] \in Computations
  BY DEF ApiTypes
<1>4. ASSUME Fresh(k) PROVE Behind(k, cache[k].answer)
  <2>1. cache[k].answer \in Answers /\ Len(cache[k].answer) = Width(k.endpoint) /\ Width(k.endpoint) \in Nat
    BY <1>4, StockIs, ReadsAre
  <2>2. \A i \in DOMAIN cache[k].answer \cap DOMAIN Reads(k.endpoint) :
          cache[k].answer[i] <= version[Reads(k.endpoint)[i]]
    <3>1. CurrentAll(k, cache[k].answer, cache[k].expires - Ttl[k.endpoint] - Timeout)
      BY <1>4 DEF SinceInv, Fresh
    <3>2. Len(cache[k].answer) <= Width(k.endpoint)
      BY <2>1
    <3> QED BY <1>1, <2>1, <3>1, <3>2
  <2>3. ASSUME flights[k] # None, flights[k].stage # "failed" PROVE NotAfter(cache[k].answer, flights[k].answer)
    <3>1. flights[k].stage # "running"
      BY <1>4, <2>3 DEF OrderInv, Running
    <3>2. flights[k].stage = "stored"
      BY <1>3, <2>3, <3>1 DEF Computations
    <3>3. cache[k].answer = flights[k].answer
      BY <1>4, <2>3, <3>2 DEF OrderInv
    <3> QED BY <1>2, <2>1, <3>3
  <2> QED BY <1>2, <2>1, <2>2, <2>3 DEF Behind
<1>5. ASSUME flights[k] # None, flights[k].stage = "stored" PROVE Behind(k, flights[k].answer)
  <2>1. flights[k].answer \in Answers /\ Len(flights[k].answer) <= Width(k.endpoint)
    BY <1>5, StockIs
  <2>2. \A i \in DOMAIN flights[k].answer \cap DOMAIN Reads(k.endpoint) :
          flights[k].answer[i] <= version[Reads(k.endpoint)[i]]
    <3>1. CurrentAll(k, flights[k].answer, flights[k].begun - 1)
      BY <1>5 DEF SinceInv
    <3> QED BY <1>1, <2>1, <3>1
  <2>3. Fresh(k) => cache[k].answer = flights[k].answer
    BY <1>5 DEF OrderInv
  <2> QED BY <1>2, <2>1, <2>2, <2>3 DEF Behind
<1> QED BY <1>4, <1>5

\* With the next statement of a request its answer is still of versions that are
\* there, behind the stock of its key, and not behind what was out before it.
LEMMA NextInOrder ==
  ASSUME ApiTypes, LengthInv, OrderInv, NEW c \in Clients, client[c].stage = "direct"
  PROVE  LET q == client[c].question
             a == WithNext(c)
         IN  /\ \A i \in DOMAIN a : a[i] <= version[Reads(q.endpoint)[i]]
             /\ q \in Keyed => Behind(KeyOf(q), a)
             /\ NotAfter(client[c].floor, a)
<1> DEFINE q == client[c].question
           a == WithNext(c)
           head == client[c].head
           floor == client[c].floor
           n == Len(head)
<1>1. /\ client[c] \in Requests /\ RequestOK(client[c]) /\ q \in Questions
      /\ n \in Nat /\ n + 1 <= Width(q.endpoint) /\ DOMAIN head = 1..n
      /\ a \in Answers /\ Len(a) = n + 1 /\ \A i \in 1..n : a[i] = head[i]
      /\ a[n + 1] = version[Reads(q.endpoint)[n + 1]]
  BY NextIs
<1>2. Asks(c) /\ floor \in Answers /\ head \in Answers /\ shown[q] \in Answers
  BY <1>1 DEF Asks, Requests, ApiTypes
<1>3. /\ Len(floor) <= Len(shown[q]) /\ NotAfter(floor, shown[q]) /\ NotAfter(floor, head)
      /\ \A i \in DOMAIN head : head[i] <= version[Reads(q.endpoint)[i]]
      /\ q \in Keyed => Behind(KeyOf(q), head)
      /\ \A i \in DOMAIN shown[q] : shown[q][i] <= version[Reads(q.endpoint)[i]]
  BY <1>1, <1>2 DEF OrderInv
<1>4. q \in Keyed => Width(KeyOf(q).endpoint) <= n
  BY <1>1 DEF RequestOK
<1>5. \A i \in 1..Width(q.endpoint) : version[Reads(q.endpoint)[i]] \in Nat
  BY ReadsAre DEF ApiTypes
<1>6. Width(q.endpoint) \in Nat
  BY ReadsAre
<1> HIDE DEF q, a, head, floor, n
<1>7. DOMAIN a = 1..(n + 1) /\ \A i \in DOMAIN a : i \in 1..n \/ i = n + 1
  BY <1>1, AnswersAre
<1>8. \A i \in DOMAIN a : a[i] <= version[Reads(q.endpoint)[i]]
  <2> SUFFICES ASSUME NEW i \in DOMAIN a PROVE a[i] <= version[Reads(q.endpoint)[i]]
    OBVIOUS
  <2>1. CASE i \in 1..n
    BY <1>1, <1>3, <2>1
  <2>2. CASE i = n + 1
    <3>1. n + 1 \in 1..Width(q.endpoint)
      BY <1>1, <1>6
    <3>2. version[Reads(q.endpoint)[n + 1]] \in Nat
      BY <1>5, <3>1
    <3> QED BY <1>1, <2>2, <3>2
  <2> QED BY <1>7, <2>1, <2>2
<1>9. ASSUME q \in Keyed PROVE Behind(KeyOf(q), a)
  <2> DEFINE k == KeyOf(q)
  <2>1. /\ k \in Keys /\ Behind(k, head) /\ Width(k.endpoint) \in Nat /\ Width(k.endpoint) <= n
        /\ DOMAIN Reads(k.endpoint) = 1..Width(k.endpoint)
    BY <1>3, <1>4, <1>9, KeyPrefix, ReadsAre
  <2> HIDE DEF k
  <2>2. \A d \in Answers : Len(d) <= n /\ NotAfter(head, d) => NotAfter(a, d)
    <3> SUFFICES ASSUME NEW d \in Answers, Len(d) <= n, NotAfter(head, d), NEW i \in DOMAIN a, i \in DOMAIN d
                 PROVE  a[i] <= d[i]
      BY DEF NotAfter
    <3>1. i \in 1..n
      <4>1. i \in 1..Len(d) /\ Len(d) \in Nat
        BY AnswersAre
      <4> QED BY <1>1, <4>1
    <3> QED BY <1>1, <3>1 DEF NotAfter
  <2>3. \A i \in DOMAIN a \cap DOMAIN Reads(k.endpoint) : a[i] <= version[Reads(k.endpoint)[i]]
    <3> SUFFICES ASSUME NEW i \in DOMAIN a \cap DOMAIN Reads(k.endpoint)
                 PROVE  a[i] <= version[Reads(k.endpoint)[i]]
      OBVIOUS
    <3>1. i \in 1..n
      BY <1>1, <2>1
    <3> QED BY <1>1, <2>1, <3>1 DEF Behind
  <2>4. Fresh(k) => cache[k].answer \in Answers /\ Len(cache[k].answer) <= n
    BY <2>1, StockIs
  <2>5. flights[k] # None => flights[k].answer \in Answers /\ Len(flights[k].answer) <= n
    <3>1. flights[k] # None => /\ flights[k].answer \in Answers /\ Len(flights[k].answer) \in Nat
                               /\ Len(flights[k].answer) <= Width(k.endpoint)
      BY <2>1, StockIs
    <3> QED BY <1>1, <2>1, <3>1
  <2>6. Behind(k, a)
    BY <2>1, <2>2, <2>3, <2>4, <2>5 DEF Behind
  <2> QED BY <2>6 DEF k
<1>10. NotAfter(floor, a)
  <2> SUFFICES ASSUME NEW i \in DOMAIN floor, i \in DOMAIN a PROVE floor[i] <= a[i]
    BY DEF NotAfter
  <2>1. CASE i \in 1..n
    BY <1>1, <1>3, <2>1 DEF NotAfter
  <2>2. CASE i = n + 1
    <3> DEFINE v == version[Reads(q.endpoint)[i]]
    <3>1. /\ i \in 1..Len(floor) /\ Len(floor) \in Nat /\ floor[i] \in Nat
          /\ DOMAIN shown[q] = 1..Len(shown[q]) /\ Len(shown[q]) \in Nat
      BY <1>2, AnswersAre
    <3>2. i \in DOMAIN shown[q]
      BY <1>3, <3>1
    <3>3. shown[q][i] \in Nat
      BY <1>2, <3>1, <3>2, AnswersAre
    <3>4. i \in 1..Width(q.endpoint)
      BY <1>1, <1>6, <2>2
    <3>5. v \in Nat
      BY <1>5, <3>4
    <3>6. floor[i] <= shown[q][i] /\ shown[q][i] <= v
      BY <1>3, <3>2 DEF NotAfter
    <3>7. a[i] = v
      BY <1>1, <2>2
    <3> HIDE DEF v
    <3> QED BY <3>1, <3>3, <3>5, <3>6, <3>7
  <2> QED BY <1>7, <2>1, <2>2
<1> QED BY <1>8, <1>9, <1>10 DEF q, a, floor

\* An answer that is given shows no version that is not there, is behind the
\* stock of its key, and is not behind what was out when the request came in.
LEMMA ReplyIs ==
  ASSUME ApiTypes, LengthInv, SinceInv, OrderInv, [Next]_apiVars, NEW c \in Clients, Replied(c)
  PROVE  LET q == client[c].question
             a == client'[c].head
         IN  /\ q \in Questions /\ a \in Answers /\ Len(a) = Width(q.endpoint)
             /\ \A i \in 1..Width(q.endpoint) : a[i] <= version[Reads(q.endpoint)[i]]
             /\ q \in Keyed => Behind(KeyOf(q), a)
             /\ \A i \in DOMAIN client[c].floor : a[i] >= client[c].floor[i]
<1> DEFINE q == client[c].question
           a == client'[c].head
           floor == client[c].floor
           w == Width(q.endpoint)
           G == /\ a \in Answers /\ Len(a) = w
                /\ \A i \in 1..w : a[i] <= version[Reads(q.endpoint)[i]]
                /\ q \in Keyed => Behind(KeyOf(q), a)
                /\ \A i \in DOMAIN floor : a[i] >= floor[i]
<1>1. /\ client[c] \in Requests /\ Asks(c) /\ RequestOK(client[c]) /\ q \in Questions /\ floor \in Answers
      /\ w \in Nat /\ DOMAIN Reads(q.endpoint) = 1..w
  BY AnswerOf, ReadsAre DEF Requests, LengthInv
<1>2. /\ DOMAIN floor = 1..Len(floor) /\ Len(floor) \in {0, w} /\ \A i \in DOMAIN floor : floor[i] \in Nat /\ i \in 1..w
  <2>1. Len(floor) \in {0, w}
    BY <1>1 DEF RequestOK
  <2> QED BY <1>1, <2>1, AnswersAre
<1>3. /\ shown[q] \in Answers /\ Len(floor) <= Len(shown[q]) /\ NotAfter(floor, shown[q])
      /\ \A i \in DOMAIN shown[q] : shown[q][i] <= version[Reads(q.endpoint)[i]]
      /\ q \in Keyed => Behind(KeyOf(q), shown[q])
  BY <1>1 DEF ApiTypes, OrderInv
<1>4. ASSUME q \in Keyed, KeyOf(q) = q, a \in Answers, Len(a) = w, Behind(q, a), NotAfter(shown[q], a)
      PROVE  G
  <2>1. \A i \in 1..w : a[i] <= version[Reads(q.endpoint)[i]]
    BY <1>1, <1>4, AnswersAre DEF Behind
  <2>2. NotAfter(floor, a)
    BY <1>1, <1>3, <1>4, NotAfterTransitive
  <2>3. ASSUME NEW i \in DOMAIN floor PROVE a[i] >= floor[i]
    <3>1. i \in DOMAIN a /\ a[i] \in Nat /\ floor[i] \in Nat
      BY <1>2, <1>4, AnswersAre
    <3> QED BY <2>2, <3>1 DEF NotAfter
  <2> QED BY <1>4, <2>1, <2>3
<1>5. ASSUME Hit(c) /\ q \in Keys /\ Fresh(q) /\ a = cache[q].answer /\ q = KeyFor(c) /\ q \in Keyed
      PROVE  G
  <2>1. KeyOf(q) = q
    BY <1>5 DEF KeyFor
  <2>2. a \in Answers /\ Len(a) = w /\ Behind(q, a)
    BY <1>5, StockIs, StockBehind
  <2>3. NotAfter(shown[q], a)
    BY <1>3, <1>5, <2>1 DEF Behind
  <2> QED BY <1>4, <1>5, <2>1, <2>2, <2>3
<1>6. ASSUME Return(q) /\ q \in Keys /\ a = flights[q].answer /\ q = KeyFor(c) /\ q \in Keyed
      PROVE  G
  <2>1. KeyOf(q) = q /\ flights[q] # None /\ flights[q].stage = "stored"
    BY <1>6 DEF KeyFor, Return
  <2>2. a \in Answers /\ Len(a) = w /\ Behind(q, a)
    BY <1>6, <2>1, StockIs, StockBehind
  <2>3. NotAfter(shown[q], a)
    BY <1>3, <2>1, <1>6 DEF Behind
  <2> QED BY <1>4, <1>6, <2>1, <2>2, <2>3
<1>7. ASSUME DirectEnds(c), a = WithNext(c), a \in Answers, Len(a) = w
      PROVE  G
  <2>1. client[c].stage = "direct"
    BY <1>7 DEF DirectEnds
  <2>2. /\ \A i \in DOMAIN a : a[i] <= version[Reads(q.endpoint)[i]]
        /\ q \in Keyed => Behind(KeyOf(q), a)
        /\ NotAfter(floor, a)
    BY <1>7, <2>1, NextInOrder
  <2>3. DOMAIN a = 1..w /\ \A i \in 1..w : a[i] \in Nat
    BY <1>7, AnswersAre
  <2> HIDE DEF a, w, floor, q
  <2>4. \A i \in DOMAIN floor : a[i] >= floor[i]
    BY <1>2, <2>2, <2>3 DEF NotAfter
  <2> QED BY <1>7, <2>2, <2>3, <2>4 DEF G
<1>8. \/ Hit(c) /\ q \in Keys /\ Fresh(q) /\ a = cache[q].answer /\ q = KeyFor(c) /\ q \in Keyed
      \/ Return(q) /\ q \in Keys /\ a = flights[q].answer /\ q = KeyFor(c) /\ q \in Keyed
      \/ DirectEnds(c) /\ a = WithNext(c) /\ a \in Answers /\ Len(a) = w
  BY AnswerOf
<1>9. G
  BY <1>5, <1>6, <1>7, <1>8
<1> QED BY <1>1, <1>9 DEF G

\* A caller who is told that there is no such entity is told so by the cache or
\* by a computation, and not by an older look at the addresses.
LEMMA RefusedIs ==
  ASSUME ApiTypes, LengthInv, SinceInv, OrderInv, [Next]_apiVars, NEW c \in Clients, Refused(c)
  PROVE  \A i \in DOMAIN client[c].floor \cap DOMAIN client'[c].head :
           client'[c].head[i] >= client[c].floor[i]
<1> DEFINE q == client[c].question
           k == KeyFor(c)
           a == client'[c].head
           floor == client[c].floor
<1>1. ASSUME NEW b \in Answers, NEW x \in BOOLEAN, client[c] \in Requests,
             client'[c] = Given(client[c], b, x)
      PROVE  a = b /\ client[c].stage # "direct"
  <2>1. client'[c].stage = "notFound"
    BY DEF Refused
  <2> QED BY <1>1, <2>1 DEF Given, Requests
<1>2. ASSUME client[c] \in Requests, Asks(c), q \in Keyed, KeyOf(q) = k, a \in Answers,
             Behind(k, shown[q]) => NotAfter(shown[q], a)
      PROVE  \A i \in DOMAIN floor \cap DOMAIN a : a[i] >= floor[i]
  <2>1. q \in Questions /\ floor \in Answers /\ shown[q] \in Answers
    BY <1>2 DEF Requests, ApiTypes
  <2>2. Len(floor) <= Len(shown[q]) /\ NotAfter(floor, shown[q]) /\ Behind(k, shown[q])
    BY <1>2 DEF OrderInv
  <2> HIDE DEF q, k, a, floor
  <2>3. NotAfter(floor, a)
    BY <1>2, <2>1, <2>2, NotAfterTransitive
  <2>4. \A i \in DOMAIN floor \cap DOMAIN a : a[i] \in Nat /\ floor[i] \in Nat
    BY <1>2, <2>1, AnswersAre
  <2> QED BY <2>3, <2>4 DEF NotAfter
<1>3. CASE Hit(c)
  <2>1. /\ k \in Keys /\ cache[k] # None /\ time < cache[k].expires /\ cache[k].answer \in Answers
        /\ cache[k].crossed \in BOOLEAN /\ Deliver({c}, cache[k].answer, cache[k].crossed)
        /\ client[c] \in Requests /\ q \in Keyed /\ KeyOf(q) = k /\ Asks(c)
    BY <1>3, HitIs
  <2>2. client'[c] = Given(client[c], cache[k].answer, cache[k].crossed)
    BY <2>1 DEF Deliver
  <2>3. a = cache[k].answer
    BY <1>1, <2>1, <2>2
  <2>4. Behind(k, shown[q]) => NotAfter(shown[q], a)
    BY <2>1, <2>3 DEF Behind, Fresh
  <2> QED BY <1>2, <2>1, <2>3, <2>4
<1>4. ASSUME NEW j \in Keys, Return(j), c \in Waiting(j)
      PROVE  \A i \in DOMAIN floor \cap DOMAIN a : a[i] >= floor[i]
  <2>1. /\ client[c] \in Requests /\ k = j /\ q \in Keyed /\ KeyOf(q) = k /\ Asks(c)
    BY <1>4, WaitingAre DEF KeyFor
  <2>2. /\ flights[j] # None /\ flights[j].stage = "stored"
        /\ Deliver(Waiting(j), flights[j].answer, flights[j].crossed)
    BY <1>4 DEF Return
  <2>3. flights[j].answer \in Answers /\ flights[j].crossed \in BOOLEAN
    BY <2>2, LeftIs DEF Computations
  <2>4. client'[c] = Given(client[c], flights[j].answer, flights[j].crossed)
    BY <1>4, <2>2 DEF Deliver
  <2>5. a = flights[j].answer
    BY <1>1, <2>1, <2>3, <2>4
  <2>6. Behind(k, shown[q]) => NotAfter(shown[q], a)
    BY <2>1, <2>2, <2>5 DEF Behind
  <2> QED BY <1>2, <2>1, <2>3, <2>5, <2>6
<1>5. DirectEnds(c) => FALSE
  <2>1. ASSUME DirectEnds(c) PROVE FALSE
    <3>1. /\ Deliver({c}, WithNext(c), FALSE) /\ client[c] \in Requests /\ client[c].stage = "direct"
          /\ WithNext(c) \in Answers
      BY <2>1, DirectIs
    <3>2. client'[c] = Given(client[c], WithNext(c), FALSE)
      BY <3>1 DEF Deliver
    <3> QED BY <1>1, <3>1, <3>2
  <2> QED BY <2>1
<1>6. \/ Hit(c)
      \/ DirectEnds(c)
      \/ \E j \in Keys : Return(j) /\ c \in Waiting(j)
  BY WhoReplies
<1> QED BY <1>3, <1>4, <1>5, <1>6

\* What is out changes by the answers of the step.
LEMMA ShownChange ==
  ASSUME ApiTypes, LengthInv, [Next]_apiVars, NEW q \in Questions
  PROVE  \/ shown'[q] = shown[q]
         \/ \E c \in Clients : /\ Replied(c) /\ client[c].question = q
                               /\ shown'[q] = AtLeast(client'[c].head, shown[q])
<1> DEFINE G == \/ shown'[q] = shown[q]
                \/ \E c \in Clients : /\ Replied(c) /\ client[c].question = q
                                      /\ shown'[q] = AtLeast(client'[c].head, shown[q])
<1>1. ASSUME NEW cs \in SUBSET Clients, NEW a, NEW x, Deliver(cs, a, x), \A c \in cs : Asks(c) PROVE G
  <2>1. CASE \E c \in cs : client'[c].stage = "answered" /\ client[c].question = q
    <3>1. PICK c \in cs : client'[c].stage = "answered" /\ client[c].question = q
      BY <2>1
    <3>2. client[c] \in Requests /\ client'[c] = Given(client[c], a, x)
      BY <1>1, RequestsAre DEF Deliver
    <3>3. client'[c].head = a
      BY <3>2 DEF Given, Requests
    <3>4. Replied(c)
      BY <3>1, <3>2 DEF Replied, Requests
    <3>5. shown'[q] = AtLeast(a, shown[q])
      BY <1>1, <3>1 DEF Deliver
    <3> QED BY <3>1, <3>3, <3>4, <3>5
  <2>2. CASE ~\E c \in cs : client'[c].stage = "answered" /\ client[c].question = q
    BY <1>1, <2>2 DEF Deliver
  <2> QED BY <2>1, <2>2
<1>2. CASE UNCHANGED shown
  BY <1>2
<1>3. ASSUME NEW c \in Clients, Hit(c) \/ DirectEnds(c) PROVE G
  <2>1. \E a, x : Deliver({c}, a, x)
    BY <1>3 DEF Hit, DirectEnds
  <2>2. Asks(c) /\ {c} \in SUBSET Clients
    BY <1>3 DEF Hit, DirectEnds, Asks
  <2>3. PICK a, x : Deliver({c}, a, x)
    BY <2>1
  <2>4. \A d \in {c} : Asks(d)
    BY <2>2
  <2> HIDE DEF G
  <2> QED BY <1>1, <2>2, <2>3, <2>4
<1>4. ASSUME NEW k \in Keys, Return(k) PROVE G
  <2> HIDE DEF G
  <2> QED BY <1>1, <1>4, WaitingAre DEF Return
<1>5. \/ UNCHANGED shown
      \/ \E c \in Clients : Hit(c) \/ DirectEnds(c)
      \/ \E k \in Keys : Return(k)
  <2>1. CASE UNCHANGED apiVars
    BY <2>1 DEF apiVars
  <2>2. CASE Next
    BY <2>2 DEF Next, Commit, ClockTick, Notice, Broadcast, Ask, Join, Lead, Direct, DirectFails,
                Read, Fail, Store, ReturnError
  <2> QED BY <2>1, <2>2
<1>6. UNCHANGED shown => G
  OBVIOUS
<1> HIDE DEF G
<1>7. G
  BY <1>3, <1>4, <1>5, <1>6
<1> QED BY <1>7 DEF G

\* A running computation found nothing fresh, and what it stores is its answer.
LEMMA StockStep ==
  ASSUME ApiTypes, LengthInv, OrderInv, [Next]_apiVars, NEW k \in Keys
  PROVE  /\ Running(k)' => ~Fresh(k)'
         /\ (flights'[k] # None /\ flights'[k].stage = "stored" /\ Fresh(k)') =>
              cache'[k].answer = flights'[k].answer
<1>0. flights[k] # None => flights[k] \in Computations
  BY DEF ApiTypes
<1>1. Store(k) => /\ flights[k] # None
                  /\ flights'[k] = [flights[k] EXCEPT !.stage = "stored"]
  BY DEF Store, Running, ApiTypes
<1>2. ASSUME flights'[k] # None, flights'[k].stage = "running", Fresh(k)' PROVE FALSE
  <2>1. Fresh(k) /\ ~Store(k)
    <3>1. ~Store(k)
      BY <1>0, <1>1, <1>2 DEF Computations
    <3> QED BY <1>2, <3>1, FreshAfter
  <2>2. ~Running(k)
    BY <2>1 DEF OrderInv
  <2>3. ASSUME NEW c \in Clients, Lead(c), KeyFor(c) = k PROVE FALSE
    BY <2>1, <2>3 DEF Lead
  <2>4. ASSUME flights[k] # None,
               \/ flights'[k] = flights[k]
               \/ flights'[k] = [flights[k] EXCEPT !.crossed = TRUE]
        PROVE  FALSE
    <3>1. flights'[k].stage = flights[k].stage
      BY <1>0, <2>4 DEF Computations
    <3> QED BY <1>2, <2>2, <2>4, <3>1 DEF Running
  <2>5. Read(k) => FALSE
    BY <2>2 DEF Read
  <2>6. Fail(k) => FALSE
    BY <2>2 DEF Fail
  <2> QED BY <1>2, <2>1, <2>3, <2>4, <2>5, <2>6, ComputationChange
<1>3. ASSUME flights'[k] # None, flights'[k].stage = "stored", Fresh(k)'
      PROVE  cache'[k].answer = flights'[k].answer
  <2>1. CASE Store(k)
    <3>1. ~Fresh(k) /\ flights'[k].answer = flights[k].answer
      BY <1>0, <1>1, <2>1 DEF OrderInv, Store, Computations
    <3> QED BY <1>3, <3>1, FreshAfter
  <2>2. CASE ~Store(k)
    <3>1. Fresh(k) /\ cache'[k] = cache[k]
      BY <1>3, <2>2, FreshAfter
    <3>2. ASSUME flights[k] # None,
                 \/ flights'[k] = flights[k]
                 \/ flights'[k] = [flights[k] EXCEPT !.crossed = TRUE]
          PROVE  cache'[k].answer = flights'[k].answer
      <4>1. flights'[k].stage = flights[k].stage /\ flights'[k].answer = flights[k].answer
        BY <1>0, <3>2 DEF Computations
      <4> QED BY <1>3, <3>1, <3>2, <4>1 DEF OrderInv
    <3>3. flights'[k] # [stage |-> "running", answer |-> <<>>, begun |-> time, crossed |-> FALSE]
      BY <1>3
    <3>4. Read(k) \/ Fail(k) => FALSE
      BY <3>1 DEF Read, Fail, OrderInv
    <3> QED BY <1>3, <2>2, <3>2, <3>3, <3>4, ComputationChange
  <2> QED BY <2>1, <2>2
<1> QED BY <1>2, <1>3 DEF Running

\* What is out for a question stays behind the database and its key.
LEMMA ShownStep ==
  ASSUME ApiTypes, LengthInv, SinceInv, ToldInv, OrderInv, [Next]_apiVars, NEW q \in Questions
  PROVE  /\ \A i \in DOMAIN shown'[q] : shown'[q][i] <= version'[Reads(q.endpoint)[i]]
         /\ q \in Keyed => Behind(KeyOf(q), shown[q])'
         /\ Len(shown[q]) \in {0, Width(q.endpoint)}
         /\ shown[q] \in Answers /\ shown'[q] \in Answers /\ Len(shown[q]) <= Len(shown'[q])
         /\ NotAfter(shown[q], shown'[q])
<1>0. /\ shown[q] \in Answers /\ Len(shown[q]) \in {0, Width(q.endpoint)}
      /\ \A i \in DOMAIN shown[q] : shown[q][i] <= version[Reads(q.endpoint)[i]]
      /\ q \in Keyed => Behind(KeyOf(q), shown[q])
  BY DEF ApiTypes, LengthInv, OrderInv
<1>1. \A p \in Parts : version[p] \in Nat /\ version'[p] \in Nat /\ version[p] <= version'[p]
  BY PollerAdvances
<1>2. /\ Width(q.endpoint) \in Nat /\ \A i \in 1..Width(q.endpoint) : Reads(q.endpoint)[i] \in Parts
  BY ReadsAre
<1>3. /\ DOMAIN shown[q] = 1..Len(shown[q]) /\ Len(shown[q]) \in Nat
      /\ \A i \in DOMAIN shown[q] : shown[q][i] \in Nat /\ i \in 1..Width(q.endpoint)
  BY <1>0, <1>2, AnswersAre
<1>4. CASE shown'[q] = shown[q]
  <2>1. ASSUME NEW i \in DOMAIN shown[q] PROVE shown[q][i] <= version'[Reads(q.endpoint)[i]]
    <3> DEFINE p == Reads(q.endpoint)[i]
    <3>1. p \in Parts /\ shown[q][i] \in Nat
      BY <1>2, <1>3
    <3>2. shown[q][i] <= version[p]
      BY <1>0
    <3> HIDE DEF p
    <3>3. shown[q][i] <= version'[p]
      BY <1>1, <3>1, <3>2
    <3> QED BY <3>3 DEF p
  <2>2. q \in Keyed => Behind(KeyOf(q), shown[q])'
    <3>1. q \in Keyed => KeyOf(q) \in Keys
      BY KeyPrefix
    <3>2. q \in Keyed => BehindNext(KeyOf(q), shown'[q])
      BY <1>0, <1>4, <3>1, BehindKept
    <3> QED BY <3>2 DEF Behind, BehindNext, Fresh
  <2>3. NotAfter(shown[q], shown[q])
    BY <1>3 DEF NotAfter
  <2> QED BY <1>0, <1>3, <1>4, <2>1, <2>2, <2>3
<1>5. ASSUME NEW c \in Clients, Replied(c), client[c].question = q,
             shown'[q] = AtLeast(client'[c].head, shown[q])
      PROVE  /\ \A i \in DOMAIN shown'[q] : shown'[q][i] <= version'[Reads(q.endpoint)[i]]
             /\ q \in Keyed => Behind(KeyOf(q), shown[q])'
             /\ shown'[q] \in Answers /\ Len(shown[q]) <= Len(shown'[q])
             /\ NotAfter(shown[q], shown'[q])
  <2> DEFINE a == client'[c].head
             m == shown'[q]
  <2>1. /\ a \in Answers /\ Len(a) = Width(q.endpoint)
        /\ \A i \in 1..Width(q.endpoint) : a[i] <= version[Reads(q.endpoint)[i]]
        /\ q \in Keyed => Behind(KeyOf(q), a)
    BY <1>5, ReplyIs
  <2>2. m = AtLeast(a, shown[q])
    BY <1>5
  <2> HIDE DEF a, m
  <2>3. /\ m \in Answers /\ Len(m) = Len(a)
        /\ \A i \in 1..Len(a) : /\ \/ m[i] = a[i]
                                   \/ (i \in 1..Len(shown[q]) /\ m[i] = shown[q][i])
                                /\ i \in 1..Len(shown[q]) => m[i] >= shown[q][i]
    BY <1>0, <2>1, <2>2, AtLeastIs
  <2>4. DOMAIN m = 1..Width(q.endpoint) /\ \A i \in DOMAIN m : m[i] \in Nat
    BY <2>1, <2>3, AnswersAre
  <2>5. ASSUME NEW i \in DOMAIN m PROVE m[i] <= version'[Reads(q.endpoint)[i]]
    <3> DEFINE p == Reads(q.endpoint)[i]
    <3>1. p \in Parts /\ m[i] \in Nat
      BY <1>2, <2>4
    <3>2. m[i] <= version[p]
      BY <1>0, <1>3, <2>1, <2>3, <2>4
    <3> HIDE DEF p
    <3>3. m[i] <= version'[p]
      BY <1>1, <3>1, <3>2
    <3> QED BY <3>3 DEF p
  <2>6. q \in Keyed => Behind(KeyOf(q), shown[q])'
    <3>1. q \in Keyed => KeyOf(q) \in Keys
      BY KeyPrefix
    <3>2. q \in Keyed => Behind(KeyOf(q), m)
      BY <1>0, <2>1, <2>2, <3>1, BehindAtLeast
    <3>3. q \in Keyed => BehindNext(KeyOf(q), m)
      BY <2>3, <3>1, <3>2, BehindKept
    <3> QED BY <3>3 DEF m, Behind, BehindNext, Fresh
  <2>7. Len(shown[q]) <= Len(m)
    BY <1>0, <1>2, <2>1, <2>3
  <2>8. NotAfter(shown[q], m)
    <3> SUFFICES ASSUME NEW i \in DOMAIN shown[q], i \in DOMAIN m PROVE shown[q][i] <= m[i]
      BY DEF NotAfter
    <3>1. i \in 1..Len(a) /\ i \in 1..Len(shown[q]) /\ m[i] \in Nat /\ shown[q][i] \in Nat
      BY <1>3, <2>1, <2>4
    <3> QED BY <2>3, <3>1
  <2> QED BY <2>3, <2>5, <2>6, <2>7, <2>8 DEF m
<1> QED BY <1>0, <1>4, <1>5, ShownChange

\* Versions that are there stay there.
LEMMA VersionsKept ==
  ASSUME ApiTypes, ToldInv, [Next]_apiVars, NEW e, NEW a \in Answers, Len(a) <= Width(e),
         \A i \in DOMAIN a : a[i] <= version[Reads(e)[i]]
  PROVE  \A i \in DOMAIN a : a[i] <= version'[Reads(e)[i]]
<1> SUFFICES ASSUME NEW i \in DOMAIN a PROVE a[i] <= version'[Reads(e)[i]]
  OBVIOUS
<1> DEFINE p == Reads(e)[i]
<1>1. i \in 1..Len(a) /\ Len(a) \in Nat /\ a[i] \in Nat /\ Width(e) \in Nat
  BY AnswersAre, ReadsAre
<1>2. i \in 1..Width(e)
  BY <1>1
<1>3. p \in Parts /\ a[i] <= version[p]
  BY <1>2, ReadsAre
<1>4. version[p] \in Nat /\ version'[p] \in Nat /\ version[p] <= version'[p]
  BY <1>3, PollerAdvances
<1> HIDE DEF p
<1>5. a[i] <= version'[p]
  BY <1>1, <1>3, <1>4
<1> QED BY <1>5 DEF p

\* What a request knew stays out, and what it already has is not behind that.
LEMMA FloorStep ==
  ASSUME ApiTypes, LengthInv, SinceInv, ToldInv, OrderInv, [Next]_apiVars, NEW c \in Clients, Asks(c)'
  PROVE  LET cl == client'[c] IN
         /\ Len(cl.floor) <= Len(shown'[cl.question]) /\ NotAfter(cl.floor, shown'[cl.question])
         /\ cl.stage = "direct" =>
              /\ NotAfter(cl.floor, cl.head)
              /\ \A i \in DOMAIN cl.head : cl.head[i] <= version'[Reads(cl.question.endpoint)[i]]
              /\ cl.question \in Keyed => BehindNext(KeyOf(cl.question), cl.head)
<1> DEFINE cl == client'[c]
           q == cl.question
           G == /\ Len(cl.floor) <= Len(shown'[q])
                /\ NotAfter(cl.floor, shown'[q])
                /\ cl.stage = "direct" => NotAfter(cl.floor, cl.head)
                /\ cl.stage = "direct" =>
                     \A i \in DOMAIN cl.head : cl.head[i] <= version'[Reads(q.endpoint)[i]]
                /\ cl.stage = "direct" /\ q \in Keyed => BehindNext(KeyOf(q), cl.head)
<1>1. ASSUME NEW r \in Questions, Ask(c, r), q = r, cl.floor = shown[r], cl.head = <<>>,
             cl.stage = "direct" => r \notin Keyed
      PROVE  G
  <2>1. shown'[r] = shown[r] /\ shown[r] \in Answers
    BY <1>1 DEF Ask, ApiTypes
  <2>2. NotAfter(shown[r], shown[r]) /\ Len(shown[r]) \in Nat
    BY <2>1, AnswersAre DEF NotAfter
  <2>3. NotAfter(cl.floor, <<>>)
    BY DEF NotAfter
  <2> HIDE DEF cl
  <2> QED BY <1>1, <2>1, <2>2, <2>3
<1>2. ASSUME Asks(c), q = client[c].question, cl.floor = client[c].floor,
             \/ /\ cl.head = client[c].head
                /\ cl.stage = "direct" => client[c].stage = "direct"
             \/ /\ cl.stage = "direct" /\ client[c].stage = "direct"
                /\ Direct(c) /\ cl.head = WithNext(c)
             \/ /\ cl.stage = "direct" /\ client[c].stage # "direct"
                /\ \/ Hit(c) /\ cl.head = cache[KeyFor(c)].answer
                   \/ \E k \in Keys : Return(k) /\ c \in Waiting(k) /\ cl.head = flights[k].answer
      PROVE  G
  <2>1. /\ client[c] \in Requests /\ RequestOK(client[c]) /\ q \in Questions
        /\ cl.floor \in Answers /\ client[c].head \in Answers /\ Len(cl.floor) \in Nat
        /\ Len(client[c].head) \in Nat /\ Width(q.endpoint) \in Nat
    BY <1>2, RequestsAre, AnswersAre, ReadsAre DEF Requests, LengthInv
  <2>2. /\ Len(cl.floor) <= Len(shown[q]) /\ NotAfter(cl.floor, shown[q])
        /\ client[c].stage = "direct" => NotAfter(cl.floor, client[c].head)
        /\ client[c].stage = "direct" =>
             \A i \in DOMAIN client[c].head : client[c].head[i] <= version[Reads(q.endpoint)[i]]
        /\ client[c].stage = "direct" /\ q \in Keyed => Behind(KeyOf(q), client[c].head)
        /\ q \in Keyed => Behind(KeyOf(q), shown[q])
    BY <1>2, <2>1 DEF OrderInv
  <2>3. /\ shown[q] \in Answers /\ shown'[q] \in Answers /\ Len(shown[q]) <= Len(shown'[q])
        /\ NotAfter(shown[q], shown'[q])
    BY <2>1, ShownStep
  <2>4. Len(cl.floor) <= Len(shown'[q]) /\ NotAfter(cl.floor, shown'[q])
    <3>1. Len(shown[q]) \in Nat /\ Len(shown'[q]) \in Nat
      BY <2>3, AnswersAre
    <3> HIDE DEF cl, q
    <3> QED BY <2>1, <2>2, <2>3, <3>1, NotAfterTransitive
  <2>5. CASE cl.head = client[c].head /\ (cl.stage = "direct" => client[c].stage = "direct")
    <3>1. ASSUME cl.stage = "direct", q \in Keyed PROVE BehindNext(KeyOf(q), cl.head)
      <4>1. Behind(KeyOf(q), client[c].head) /\ cl.head = client[c].head
        BY <2>2, <2>5, <3>1
      <4>2. KeyOf(q) \in Keys
        BY <3>1, KeyPrefix
      <4> HIDE DEF cl, q
      <4> QED BY <2>1, <4>1, <4>2, BehindKept
    <3>2. ASSUME cl.stage = "direct"
          PROVE  \A i \in DOMAIN cl.head : cl.head[i] <= version'[Reads(q.endpoint)[i]]
      <4>1. /\ cl.head = client[c].head /\ Len(cl.head) <= Width(q.endpoint)
            /\ \A i \in DOMAIN cl.head : cl.head[i] <= version[Reads(q.endpoint)[i]]
        BY <1>2, <2>1, <2>2, <2>5, <3>2 DEF RequestOK
      <4> HIDE DEF cl, q
      <4> QED BY <2>1, <4>1, VersionsKept
    <3> QED BY <2>2, <2>4, <2>5, <3>1, <3>2
  <2>10. CASE client[c].stage = "direct" /\ cl.head = WithNext(c) /\ Direct(c)
    <3> DEFINE a == WithNext(c)
    <3>1. /\ \A i \in DOMAIN a : a[i] <= version[Reads(q.endpoint)[i]]
          /\ q \in Keyed => Behind(KeyOf(q), a)
          /\ NotAfter(cl.floor, a)
      BY <1>2, <2>10, NextInOrder
    <3>2. a \in Answers /\ Len(a) <= Width(q.endpoint)
      BY <1>2, <2>10, NextIs
    <3>3. q \in Keyed => KeyOf(q) \in Keys
      BY KeyPrefix
    <3> HIDE DEF a, cl, q
    <3>4. \A i \in DOMAIN a : a[i] <= version'[Reads(q.endpoint)[i]]
      BY <3>1, <3>2, VersionsKept
    <3>5. q \in Keyed => BehindNext(KeyOf(q), a)
      BY <3>1, <3>2, <3>3, BehindKept
    <3> QED BY <2>4, <2>10, <3>1, <3>4, <3>5 DEF a
  <2>6. ASSUME client[c].stage # "direct", NEW k \in Keys, KeyFor(c) = k, NEW a \in Answers, cl.head = a,
               Len(a) = Width(k.endpoint), Behind(k, a), Behind(k, shown[q]) => NotAfter(shown[q], a)
        PROVE  G
    <3>1. q \in Keyed /\ KeyOf(q) = k
      BY <1>2, <2>1, <2>6 DEF RequestOK, KeyFor
    <3>2. NotAfter(cl.floor, a)
      <4>1. NotAfter(shown[q], a)
        BY <2>2, <2>6, <3>1
      <4> HIDE DEF cl, q
      <4> QED BY <2>1, <2>2, <2>3, <2>6, <4>1, NotAfterTransitive
    <3>3. BehindNext(KeyOf(q), cl.head)
      <4> HIDE DEF cl, q
      <4> QED BY <2>6, <3>1, BehindKept
    <3>4. \A i \in DOMAIN a : a[i] <= version'[Reads(q.endpoint)[i]]
      <4>1. /\ Width(k.endpoint) <= Width(q.endpoint) /\ Width(k.endpoint) \in Nat
            /\ DOMAIN Reads(k.endpoint) = 1..Width(k.endpoint)
            /\ \A i \in 1..Width(k.endpoint) : Reads(k.endpoint)[i] = Reads(q.endpoint)[i]
        BY <3>1, KeyPrefix, ReadsAre
      <4> HIDE DEF cl, q
      <4>2. DOMAIN a = 1..Width(k.endpoint)
        BY <2>6, AnswersAre
      <4>3. \A i \in DOMAIN a : a[i] <= version[Reads(q.endpoint)[i]]
        BY <2>6, <4>1, <4>2 DEF Behind
      <4>4. Len(a) <= Width(q.endpoint)
        BY <2>6, <4>1
      <4> QED BY <4>3, <4>4, VersionsKept
    <3> QED BY <2>4, <2>6, <3>2, <3>3, <3>4
  <2>7. CASE client[c].stage # "direct" /\ Hit(c) /\ cl.head = cache[KeyFor(c)].answer
    <3> DEFINE k == KeyFor(c)
    <3>1. /\ k \in Keys /\ Fresh(k) /\ cache[k].answer \in Answers
          /\ Len(cache[k].answer) = Width(k.endpoint)
      BY <2>7, HitIs DEF Fresh
    <3>2. Behind(k, cache[k].answer) /\ (Behind(k, shown[q]) => NotAfter(shown[q], cache[k].answer))
      BY <3>1, StockBehind DEF Behind
    <3> HIDE DEF G, k, cl, q
    <3> QED BY <2>6, <2>7, <3>1, <3>2 DEF k
  <2>8. ASSUME client[c].stage # "direct", NEW k \in Keys, Return(k), c \in Waiting(k), cl.head = flights[k].answer
        PROVE  G
    <3>1. /\ KeyFor(c) = k /\ flights[k] # None /\ flights[k].stage = "stored"
          /\ flights[k].answer \in Answers /\ Len(flights[k].answer) = Width(k.endpoint)
      BY <2>8, WaitingAre, StockIs DEF Return
    <3>2. Behind(k, flights[k].answer) /\ (Behind(k, shown[q]) => NotAfter(shown[q], flights[k].answer))
      BY <3>1, StockBehind DEF Behind
    <3> HIDE DEF G, cl, q
    <3> QED BY <2>6, <2>8, <3>1, <3>2
  <2>9. cl.head = client[c].head /\ (cl.stage = "direct" => client[c].stage = "direct") => G
    BY <2>5
  <2> HIDE DEF G, cl, q
  <2> QED BY <1>2, <2>7, <2>8, <2>9, <2>10
<1> HIDE DEF G
<1>3. G
  <2>1. \/ \E r \in Questions :
              /\ Ask(c, r) /\ q = r /\ cl.floor = shown[r] /\ cl.head = <<>>
              /\ cl.stage = "direct" => r \notin Keyed
        \/ /\ Asks(c) /\ q = client[c].question /\ cl.floor = client[c].floor
           /\ \/ /\ cl.head = client[c].head
                 /\ cl.stage = "direct" => client[c].stage = "direct"
              \/ /\ cl.stage = "direct" /\ client[c].stage = "direct"
                 /\ Direct(c) /\ cl.head = WithNext(c)
              \/ /\ cl.stage = "direct" /\ client[c].stage # "direct"
                 /\ \/ Hit(c) /\ cl.head = cache[KeyFor(c)].answer
                    \/ \E k \in Keys : Return(k) /\ c \in Waiting(k) /\ cl.head = flights[k].answer
    BY RequestChange
  <2> HIDE DEF cl, q
  <2> QED BY <1>1, <1>2, <2>1
<1> QED BY <1>3 DEF G

LEMMA OrderStep ==
  ApiTypes /\ LengthInv /\ SinceInv /\ ToldInv /\ OrderInv /\ [Next]_apiVars => OrderInv'
<1> SUFFICES ASSUME ApiTypes, LengthInv, SinceInv, ToldInv, OrderInv, [Next]_apiVars PROVE OrderInv'
  OBVIOUS
<1>1. \A k \in Keys : /\ Running(k)' => ~Fresh(k)'
                      /\ (flights'[k] # None /\ flights'[k].stage = "stored" /\ Fresh(k)') =>
                           cache'[k].answer = flights'[k].answer
  BY StockStep
<1>2. \A q \in Questions : /\ \A i \in DOMAIN shown'[q] : shown'[q][i] <= version'[Reads(q.endpoint)[i]]
                           /\ q \in Keyed => Behind(KeyOf(q), shown[q])'
  BY ShownStep
<1>3. Keyed \subseteq Questions
  BY DEF Keyed
<1>4. \A c \in Clients : Asks(c)' =>
        LET cl == client'[c] IN
        /\ Len(cl.floor) <= Len(shown'[cl.question]) /\ NotAfter(cl.floor, shown'[cl.question])
        /\ cl.stage = "direct" =>
             /\ NotAfter(cl.floor, cl.head)
             /\ \A i \in DOMAIN cl.head : cl.head[i] <= version'[Reads(cl.question.endpoint)[i]]
             /\ cl.question \in Keyed => BehindNext(KeyOf(cl.question), cl.head)
  BY FloorStep
<1>5. \A k, a : BehindNext(k, a) <=>
        /\ \A i \in DOMAIN a \cap DOMAIN Reads(k.endpoint) : a[i] <= version'[Reads(k.endpoint)[i]]
        /\ cache'[k] # None /\ time' < cache'[k].expires => NotAfter(a, cache'[k].answer)
        /\ flights'[k] # None /\ flights'[k].stage # "failed" => NotAfter(a, flights'[k].answer)
  BY DEF BehindNext
<1>6. \A c \in Clients : Asks(c)' =>
        (LET cl == client[c] IN
         /\ Len(cl.floor) <= Len(shown[cl.question]) /\ NotAfter(cl.floor, shown[cl.question])
         /\ cl.stage = "direct" =>
              /\ NotAfter(cl.floor, cl.head)
              /\ \A i \in DOMAIN cl.head : cl.head[i] <= version[Reads(cl.question.endpoint)[i]]
              /\ cl.question \in Keyed => Behind(KeyOf(cl.question), cl.head))'
  BY <1>4, <1>5 DEF Behind, Fresh
<1> QED BY <1>1, <1>2, <1>3, <1>6 DEF OrderInv

\* One computation per key: no answer is older, query by query, than an answer
\* to the same question that was out before the request came in, and no entity
\* is told missing by an older look at the addresses.
THEOREM AnswersAdvance == ApiSpec => AnswersNeverGoBack
<1>1. Init => ToldInv /\ OrderInv
  <2> SUFFICES ASSUME Init PROVE ToldInv /\ OrderInv
    OBVIOUS
  <2>1. /\ \A k \in Keys : cache[k] = None /\ flights[k] = None
        /\ \A p \in Parts : told[p] = 0 /\ seen[p] = 0 /\ version[p] = 0
        /\ \A c \in Clients : ~Asks(c)
        /\ \A q \in Questions : shown[q] = <<>>
    BY DEF Init, Asks, Idle
  <2>2. \A q \in Keyed : q \in Questions /\ KeyOf(q) \in Keys
    BY KeyPrefix
  <2>3. \A k \in Keys : ~Fresh(k) /\ ~Running(k) /\ Behind(k, <<>>)
    BY <2>1 DEF Fresh, Running, Behind
  <2>4. ToldInv
    BY <2>1 DEF ToldInv
  <2> QED BY <2>1, <2>2, <2>3, <2>4 DEF OrderInv
<1>2. ApiTypes /\ LengthInv /\ SinceInv /\ ToldInv /\ OrderInv /\ [Next]_apiVars => (ToldInv /\ OrderInv)'
  BY ToldStep, OrderStep
<1>3. ApiTypes /\ LengthInv /\ SinceInv /\ ToldInv /\ OrderInv /\ [Next]_apiVars =>
        [\A c \in Clients :
           LET floor == client[c].floor
               head == client'[c].head
           IN  /\ Replied(c) => \A i \in DOMAIN floor : head[i] >= floor[i]
               /\ Refused(c) => \A i \in DOMAIN floor \cap DOMAIN head : head[i] >= floor[i]]_apiVars
  BY ReplyIs, RefusedIs
<1> QED BY <1>1, <1>2, <1>3, ApiInvariance, PTL DEF ApiSpec, AnswersNeverGoBack

-----------------------------------------------------------------------------
(* The totals of all history, blob_user_stats and network_blob_stats, for    *)
(* any blocks: sums over blocks and over senders as numbers of rows.         *)

\* The rows of blobs of the blocks in S, as height and index; those of one sender.
Placed(rows, S) == UNION {{h} \X DOMAIN rows[h].blobs : h \in S}
Own(blobs, s) == {i \in DOMAIN blobs : blobs[i] = s}
PlacedBy(rows, S, s) == UNION {{h} \X Own(rows[h].blobs, s) : h \in S}

\* The blocks of S hold sequences of senders; two histories hold the same there.
Sequences(rows, S) == \A h \in S : rows[h].blobs \in Seq(Senders)
SameBlobs(rows, other, S) == \A h \in S : rows[h].blobs = other[h].blobs

\* Totals per sender that count those rows, and what they add up to.
CountsRows(counts, rows, S) == \A s \in Senders : counts[s] = Cardinality(PlacedBy(rows, S, s))
TotalOf(counts) == MapThenSumSet(LAMBDA s : counts[s], Senders)

\* A finite sequence of senders, and the rows of one of them.
LEMMA BlobsFinite ==
  ASSUME NEW blobs \in Seq(Senders)
  PROVE  /\ DOMAIN blobs = 1..Len(blobs) /\ Len(blobs) \in Nat
         /\ IsFiniteSet(DOMAIN blobs) /\ Cardinality(DOMAIN blobs) = Len(blobs)
         /\ \A s : IsFiniteSet(Own(blobs, s)) /\ Count(blobs, s) = Cardinality(Own(blobs, s))
<1>1. DOMAIN blobs = 1..Len(blobs) /\ Len(blobs) \in Nat
  OBVIOUS
<1>2. IsFiniteSet(DOMAIN blobs) /\ Cardinality(DOMAIN blobs) = Len(blobs)
  BY <1>1, FS_Interval
<1>3. \A s : Own(blobs, s) \in SUBSET DOMAIN blobs
  BY DEF Own
<1>4. \A s : IsFiniteSet(Own(blobs, s))
  BY <1>2, <1>3, FS_Subset
<1>5. \A s : Count(blobs, s) = Cardinality(Own(blobs, s))
  BY DEF Own, Count
<1> QED BY <1>1, <1>2, <1>4, <1>5

\* A number and as many pairs.
LEMMA PairsOf ==
  ASSUME NEW h, NEW A, IsFiniteSet(A)
  PROVE  IsFiniteSet({h} \X A) /\ Cardinality({h} \X A) = Cardinality(A)
<1>1. IsFiniteSet({h}) /\ Cardinality({h}) = 1
  BY FS_Singleton
<1>2. Cardinality(A) \in Nat
  BY FS_CardinalityType
<1>3. Cardinality({h} \X A) = 1 * Cardinality(A) /\ IsFiniteSet({h} \X A)
  BY <1>1, FS_Product
<1> QED BY <1>2, <1>3

\* The rows of one sender, summed block by block.
LEMMA CountSum ==
  ASSUME NEW S, IsFiniteSet(S), NEW rows, NEW s, \A h \in S : IsFiniteSet(DOMAIN rows[h].blobs)
  PROVE  /\ IsFiniteSet(PlacedBy(rows, S, s))
         /\ MapThenSumSet(LAMBDA h : Count(rows[h].blobs, s), S) = Cardinality(PlacedBy(rows, S, s))
<1> DEFINE U == [h \in S |-> {h} \X Own(rows[h].blobs, s)]
           v == [h \in S |-> Count(rows[h].blobs, s)]
           w == [t \in SUBSET S |-> Cardinality(PartsUnited(U, t))]
           body(g) == [t \in SUBSET S |-> IF t = {} THEN 0
                         ELSE Count(rows[CHOOSE x \in t : TRUE].blobs, s) + g[t \ {CHOOSE x \in t : TRUE}]]
<1>1. ASSUME NEW h \in S
      PROVE  /\ IsFiniteSet({h} \X Own(rows[h].blobs, s))
             /\ Cardinality({h} \X Own(rows[h].blobs, s)) = Count(rows[h].blobs, s)
  <2>1. IsFiniteSet(Own(rows[h].blobs, s))
    BY FS_Subset DEF Own
  <2>2. Count(rows[h].blobs, s) = Cardinality(Own(rows[h].blobs, s))
    BY DEF Own, Count
  <2> QED BY <2>1, <2>2, PairsOf
<1>2. \A h \in S : IsFiniteSet(U[h]) /\ v[h] = Cardinality(U[h])
  BY <1>1
<1>3. \A x, y \in S : x # y => U[x] \cap U[y] = {}
  OBVIOUS
<1>4. \A t \in SUBSET S : t # {} => v[CHOOSE x \in t : TRUE] = Count(rows[CHOOSE x \in t : TRUE].blobs, s)
  OBVIOUS
<1>5. PartsUnited(U, S) = PlacedBy(rows, S, s)
  BY DEF PartsUnited, PlacedBy
<1>6. w[S] = Cardinality(PartsUnited(U, S))
  OBVIOUS
<1> HIDE DEF U, v
<1>7. Summing(w, v, S) /\ \A g : Summing(g, v, S) => g = w
  BY <1>2, <1>3, SumOfParts
<1>8. \A g : g = body(g) <=> Summing(g, v, S)
  BY <1>4 DEF Summing
<1>9. MapThenSumSet(LAMBDA h : Count(rows[h].blobs, s), S) = (CHOOSE g : g = body(g))[S]
  BY DEF MapThenSumSet, MapThenFoldSet
<1>10. (CHOOSE g : g = body(g)) = w
  <2> HIDE DEF body, w
  <2> QED BY <1>7, <1>8
<1>11. IsFiniteSet(PartsUnited(U, S))
  BY <1>2, UnitedFinite
<1> QED BY <1>5, <1>6, <1>9, <1>10, <1>11

\* The rows of all senders, summed block by block.
LEMMA LenSum ==
  ASSUME NEW S, IsFiniteSet(S), NEW rows, \A h \in S : rows[h].blobs \in Seq(Senders)
  PROVE  /\ IsFiniteSet(Placed(rows, S))
         /\ MapThenSumSet(LAMBDA h : Len(rows[h].blobs), S) = Cardinality(Placed(rows, S))
<1> DEFINE U == [h \in S |-> {h} \X DOMAIN rows[h].blobs]
           v == [h \in S |-> Len(rows[h].blobs)]
           w == [t \in SUBSET S |-> Cardinality(PartsUnited(U, t))]
           body(g) == [t \in SUBSET S |-> IF t = {} THEN 0
                         ELSE Len(rows[CHOOSE x \in t : TRUE].blobs) + g[t \ {CHOOSE x \in t : TRUE}]]
<1>1. ASSUME NEW h \in S
      PROVE  /\ IsFiniteSet({h} \X DOMAIN rows[h].blobs)
             /\ Cardinality({h} \X DOMAIN rows[h].blobs) = Len(rows[h].blobs)
  <2>1. DOMAIN rows[h].blobs = 1..Len(rows[h].blobs) /\ Len(rows[h].blobs) \in Nat
    OBVIOUS
  <2>2. IsFiniteSet(DOMAIN rows[h].blobs) /\ Cardinality(DOMAIN rows[h].blobs) = Len(rows[h].blobs)
    BY <2>1, FS_Interval
  <2> QED BY <2>2, PairsOf
<1>2. \A h \in S : IsFiniteSet(U[h]) /\ v[h] = Cardinality(U[h])
  BY <1>1
<1>3. \A x, y \in S : x # y => U[x] \cap U[y] = {}
  OBVIOUS
<1>4. \A t \in SUBSET S : t # {} => v[CHOOSE x \in t : TRUE] = Len(rows[CHOOSE x \in t : TRUE].blobs)
  OBVIOUS
<1>5. PartsUnited(U, S) = Placed(rows, S)
  BY DEF PartsUnited, Placed
<1>6. w[S] = Cardinality(PartsUnited(U, S))
  OBVIOUS
<1> HIDE DEF U, v
<1>7. Summing(w, v, S) /\ \A g : Summing(g, v, S) => g = w
  BY <1>2, <1>3, SumOfParts
<1>8. \A g : g = body(g) <=> Summing(g, v, S)
  BY <1>4 DEF Summing
<1>9. MapThenSumSet(LAMBDA h : Len(rows[h].blobs), S) = (CHOOSE g : g = body(g))[S]
  BY DEF MapThenSumSet, MapThenFoldSet
<1>10. (CHOOSE g : g = body(g)) = w
  <2> HIDE DEF body, w
  <2> QED BY <1>7, <1>8
<1>11. IsFiniteSet(PartsUnited(U, S))
  BY <1>2, UnitedFinite
<1> QED BY <1>5, <1>6, <1>9, <1>10, <1>11

\* Totals per sender add up to the rows of all senders.
LEMMA SenderSum ==
  ASSUME IsFiniteSet(Senders), NEW S, IsFiniteSet(S), NEW rows, Sequences(rows, S),
         NEW counts, CountsRows(counts, rows, S)
  PROVE  TotalOf(counts) = Cardinality(Placed(rows, S))
<1> DEFINE U == [s \in Senders |-> PlacedBy(rows, S, s)]
           w == [t \in SUBSET Senders |-> Cardinality(PartsUnited(U, t))]
           body(g) == [t \in SUBSET Senders |-> IF t = {} THEN 0
                         ELSE counts[CHOOSE x \in t : TRUE] + g[t \ {CHOOSE x \in t : TRUE}]]
<1>1. \A h \in S : IsFiniteSet(DOMAIN rows[h].blobs)
  BY BlobsFinite DEF Sequences
<1>2. \A s \in Senders : IsFiniteSet(PlacedBy(rows, S, s))
  BY <1>1, CountSum
<1>3. \A s \in Senders : IsFiniteSet(U[s]) /\ counts[s] = Cardinality(U[s])
  BY <1>2 DEF CountsRows
<1>4. ASSUME NEW x \in Senders, NEW y \in Senders, x # y
      PROVE  U[x] \cap U[y] = {}
  <2>1. ASSUME NEW p, p \in PlacedBy(rows, S, x), p \in PlacedBy(rows, S, y)
        PROVE  FALSE
    <3>1. p[2] \in Own(rows[p[1]].blobs, x) /\ p[2] \in Own(rows[p[1]].blobs, y)
      BY <2>1 DEF PlacedBy
    <3> QED BY <1>4, <3>1 DEF Own
  <2> QED BY <2>1
<1>5. PartsUnited(U, Senders) = Placed(rows, S)
  <2>1. ASSUME NEW h \in S, NEW i \in DOMAIN rows[h].blobs
        PROVE  <<h, i>> \in PlacedBy(rows, S, rows[h].blobs[i]) /\ rows[h].blobs[i] \in Senders
    BY DEF PlacedBy, Own, Sequences
  <2>2. \A s \in Senders : PlacedBy(rows, S, s) \subseteq Placed(rows, S)
    BY DEF Placed, PlacedBy, Own
  <2> QED BY <2>1, <2>2 DEF PartsUnited, Placed
<1>6. w[Senders] = Cardinality(PartsUnited(U, Senders))
  OBVIOUS
<1> HIDE DEF U
<1>7. Summing(w, counts, Senders) /\ \A g : Summing(g, counts, Senders) => g = w
  BY <1>3, <1>4, SumOfParts
<1>8. \A g : g = body(g) <=> Summing(g, counts, Senders)
  BY DEF Summing
<1>9. TotalOf(counts) = (CHOOSE g : g = body(g))[Senders]
  BY DEF TotalOf, MapThenSumSet, MapThenFoldSet
<1>10. (CHOOSE g : g = body(g)) = w
  <2> HIDE DEF body, w
  <2> QED BY <1>7, <1>8
<1> QED BY <1>5, <1>6, <1>9, <1>10
-----------------------------------------------------------------------------
(* What a statement does to the rows.                                        *)

\* The rows of two disjoint sets of blocks, those of one sender ..
LEMMA PlacedBySplit ==
  ASSUME NEW S, IsFiniteSet(S), NEW rows, Sequences(rows, S), NEW A \in SUBSET S, NEW s
  PROVE  /\ Cardinality(PlacedBy(rows, S, s)) = Cardinality(PlacedBy(rows, A, s)) + Cardinality(PlacedBy(rows, S \ A, s))
         /\ Cardinality(PlacedBy(rows, A, s)) \in Nat /\ Cardinality(PlacedBy(rows, S \ A, s)) \in Nat
<1>1. IsFiniteSet(A) /\ IsFiniteSet(S \ A)
  BY FS_Subset
<1>2. /\ \A h \in S : IsFiniteSet(DOMAIN rows[h].blobs)
      /\ A \subseteq S /\ S \ A \subseteq S
  BY BlobsFinite DEF Sequences
<1>3. IsFiniteSet(PlacedBy(rows, A, s)) /\ IsFiniteSet(PlacedBy(rows, S \ A, s))
  BY <1>1, <1>2, CountSum
<1>4. /\ PlacedBy(rows, S, s) = PlacedBy(rows, A, s) \cup PlacedBy(rows, S \ A, s)
      /\ PlacedBy(rows, A, s) \cap PlacedBy(rows, S \ A, s) = {}
  BY DEF PlacedBy
<1> QED BY <1>3, <1>4, DisjointSum

\* .. and all of them.
LEMMA PlacedSplit ==
  ASSUME NEW S, IsFiniteSet(S), NEW rows, Sequences(rows, S), NEW A \in SUBSET S
  PROVE  /\ Cardinality(Placed(rows, S)) = Cardinality(Placed(rows, A)) + Cardinality(Placed(rows, S \ A))
         /\ Cardinality(Placed(rows, A)) \in Nat /\ Cardinality(Placed(rows, S \ A)) \in Nat
<1>1. IsFiniteSet(A) /\ IsFiniteSet(S \ A)
  BY FS_Subset
<1>2. /\ \A h \in S : rows[h].blobs \in Seq(Senders)
      /\ A \subseteq S /\ S \ A \subseteq S
  BY DEF Sequences
<1>3. IsFiniteSet(Placed(rows, A)) /\ IsFiniteSet(Placed(rows, S \ A))
  BY <1>1, <1>2, LenSum
<1>4. /\ Placed(rows, S) = Placed(rows, A) \cup Placed(rows, S \ A)
      /\ Placed(rows, A) \cap Placed(rows, S \ A) = {}
  BY DEF Placed
<1> QED BY <1>3, <1>4, DisjointSum

\* The rows of one block.
LEMMA PlacedOne ==
  ASSUME NEW rows, NEW h, NEW blobs \in Seq(Senders), rows[h].blobs = blobs
  PROVE  /\ \A s : Cardinality(PlacedBy(rows, {h}, s)) = Count(blobs, s)
         /\ Cardinality(Placed(rows, {h})) = Len(blobs)
<1>1. /\ \A s : PlacedBy(rows, {h}, s) = {h} \X Own(blobs, s)
      /\ Placed(rows, {h}) = {h} \X DOMAIN blobs
  BY DEF PlacedBy, Placed
<1>2. /\ IsFiniteSet(DOMAIN blobs) /\ Cardinality(DOMAIN blobs) = Len(blobs)
      /\ \A s : IsFiniteSet(Own(blobs, s)) /\ Count(blobs, s) = Cardinality(Own(blobs, s))
  BY BlobsFinite
<1>3. \A s : Cardinality({h} \X Own(blobs, s)) = Cardinality(Own(blobs, s))
  BY <1>2, PairsOf
<1>4. Cardinality({h} \X DOMAIN blobs) = Cardinality(DOMAIN blobs)
  BY <1>2, PairsOf
<1> QED BY <1>1, <1>2, <1>3, <1>4

\* The rows of blocks that two histories share.
LEMMA PlacedSame ==
  ASSUME NEW S, NEW rows, NEW other, SameBlobs(rows, other, S)
  PROVE  /\ \A s : PlacedBy(rows, S, s) = PlacedBy(other, S, s)
         /\ Placed(rows, S) = Placed(other, S)
BY DEF PlacedBy, Placed, SameBlobs

\* The deltas of a block written over another are the difference of the two,
\* for each sender and for the network.
LEMMA DeltasAddUp ==
  ASSUME NEW old \in Seq(Senders), NEW new \in Seq(Senders), NEW altered \in BOOLEAN, NEW s
  PROVE  /\ Count(new, s) = Count(old, s) + TrimDelta(old, new, s) + UpdateDelta(old, new, altered, s)
                              + InsertDelta(old, new, s)
         /\ Len(new) = Len(old) - Cardinality(Trimmed(old, new)) + Cardinality(Inserted(old, new))
         /\ TrimDelta(old, new, s) \in Int /\ UpdateDelta(old, new, altered, s) \in Int
         /\ InsertDelta(old, new, s) \in Nat /\ Count(new, s) \in Nat /\ Count(old, s) \in Nat
         /\ InsertDelta(old, new, s) <= Count(new, s) /\ 0 <= Count(old, s) + TrimDelta(old, new, s)
         /\ Cardinality(Trimmed(old, new)) \in Nat /\ Cardinality(Inserted(old, new)) \in Nat
<1> DEFINE O == Overwritten(old, new)
           T == {i \in Trimmed(old, new) : old[i] = s}
           I == {i \in Inserted(old, new) : new[i] = s}
           A == {i \in O : old[i] = s}
           B == {i \in O : new[i] = s}
           X == {i \in Rewrites(old, new, altered) : new[i] = s}
           Y == {i \in Rewrites(old, new, altered) : old[i] = s}
<1>1. /\ DOMAIN old = 1..Len(old) /\ Len(old) \in Nat /\ IsFiniteSet(DOMAIN old)
      /\ DOMAIN new = 1..Len(new) /\ Len(new) \in Nat /\ IsFiniteSet(DOMAIN new)
      /\ Cardinality(DOMAIN old) = Len(old) /\ Cardinality(DOMAIN new) = Len(new)
  BY BlobsFinite
<1>2. /\ DOMAIN old = Trimmed(old, new) \cup O /\ Trimmed(old, new) \cap O = {}
      /\ DOMAIN new = Inserted(old, new) \cup O /\ Inserted(old, new) \cap O = {}
  BY <1>1 DEF Trimmed, Inserted, Overwritten
<1>3. /\ Own(old, s) = T \cup A /\ T \cap A = {}
      /\ Own(new, s) = I \cup B /\ I \cap B = {}
  BY <1>2 DEF Own
<1>4. /\ Trimmed(old, new) \in SUBSET DOMAIN old /\ O \in SUBSET DOMAIN old /\ T \in SUBSET DOMAIN old
      /\ A \in SUBSET DOMAIN old /\ Inserted(old, new) \in SUBSET DOMAIN new /\ I \in SUBSET DOMAIN new
      /\ B \in SUBSET DOMAIN old
  BY <1>2
<1>5. /\ IsFiniteSet(Trimmed(old, new)) /\ IsFiniteSet(O) /\ IsFiniteSet(T) /\ IsFiniteSet(A)
      /\ IsFiniteSet(Inserted(old, new)) /\ IsFiniteSet(I) /\ IsFiniteSet(B)
  <2> HIDE DEF O, T, A, I, B
  <2> QED BY <1>1, <1>4, FS_Subset
<1>6. \/ X = B /\ Y = A
      \/ X = {} /\ Y = {} /\ A = B
  <2>1. CASE Rewrites(old, new, altered) = O
    BY <2>1
  <2>2. CASE Rewrites(old, new, altered) # O
    <3>1. Rewrites(old, new, altered) = {} /\ \A i \in O : old[i] = new[i]
      BY <2>2 DEF Rewrites
    <3> QED BY <3>1
  <2> QED BY <2>1, <2>2
<1>7. /\ TrimDelta(old, new, s) = - Cardinality(T) /\ InsertDelta(old, new, s) = Cardinality(I)
      /\ UpdateDelta(old, new, altered, s) = Cardinality(X) - Cardinality(Y)
      /\ Count(old, s) = Cardinality(Own(old, s)) /\ Count(new, s) = Cardinality(Own(new, s))
  BY BlobsFinite DEF TrimDelta, InsertDelta, UpdateDelta
<1> HIDE DEF O, T, I, A, B, X, Y
<1>8. /\ Cardinality(Own(old, s)) = Cardinality(T) + Cardinality(A)
      /\ Cardinality(Own(new, s)) = Cardinality(I) + Cardinality(B)
      /\ Len(old) = Cardinality(Trimmed(old, new)) + Cardinality(O)
      /\ Len(new) = Cardinality(Inserted(old, new)) + Cardinality(O)
      /\ Cardinality(T) \in Nat /\ Cardinality(A) \in Nat /\ Cardinality(I) \in Nat /\ Cardinality(B) \in Nat
      /\ Cardinality(Trimmed(old, new)) \in Nat /\ Cardinality(Inserted(old, new)) \in Nat /\ Cardinality(O) \in Nat
  BY <1>1, <1>2, <1>3, <1>5, DisjointSum
<1>9. Cardinality({}) = 0
  BY FS_EmptySet
<1>10. \/ Cardinality(X) = Cardinality(B) /\ Cardinality(Y) = Cardinality(A)
       \/ Cardinality(X) = 0 /\ Cardinality(Y) = 0 /\ Cardinality(A) = Cardinality(B)
  BY <1>6, <1>9
<1>11. \A x, y, a, b, t, i, o, m, n \in Nat :
         /\ (x = b /\ y = a) \/ (x = 0 /\ y = 0 /\ a = b) => i + b = (t + a) + (- t) + (x - y) + i
         /\ n + o = (m + o) - m + n
         /\ - t \in Int /\ x - y \in Int /\ i + b \in Nat /\ t + a \in Nat
         /\ i <= i + b /\ 0 <= (t + a) + (- t)
  OBVIOUS
<1>12. Cardinality(X) \in Nat /\ Cardinality(Y) \in Nat
  BY <1>8, <1>10
<1> DEFINE cX == Cardinality(X)  cY == Cardinality(Y)  cA == Cardinality(A)  cB == Cardinality(B)
           cT == Cardinality(T)  cI == Cardinality(I)  cO == Cardinality(O)
           cm == Cardinality(Trimmed(old, new))  cn == Cardinality(Inserted(old, new))
<1>13. /\ cX \in Nat /\ cY \in Nat /\ cA \in Nat /\ cB \in Nat /\ cT \in Nat /\ cI \in Nat /\ cO \in Nat
       /\ cm \in Nat /\ cn \in Nat
  BY <1>8, <1>12
<1>14. (cX = cB /\ cY = cA) \/ (cX = 0 /\ cY = 0 /\ cA = cB)
  BY <1>10
<1>15. /\ Count(new, s) = cI + cB /\ Count(old, s) = cT + cA
       /\ Len(old) = cm + cO /\ Len(new) = cn + cO
       /\ TrimDelta(old, new, s) = - cT /\ UpdateDelta(old, new, altered, s) = cX - cY
       /\ InsertDelta(old, new, s) = cI
  BY <1>7, <1>8
<1>16. Cardinality(Trimmed(old, new)) = cm /\ Cardinality(Inserted(old, new)) = cn
  OBVIOUS
<1> HIDE DEF cX, cY, cA, cB, cT, cI, cO, cm, cn
<1>17. /\ cI + cB = (cT + cA) + (- cT) + (cX - cY) + cI
       /\ cn + cO = (cm + cO) - cm + cn
       /\ - cT \in Int /\ cX - cY \in Int /\ cI + cB \in Nat /\ cT + cA \in Nat
       /\ cI <= cI + cB /\ 0 <= (cT + cA) + (- cT)
  BY <1>11, <1>13, <1>14
<1> QED BY <1>13, <1>15, <1>16, <1>17

\* A sender's total after such a write: never less than the rows there are,
\* and no more either, unless it was counted afresh and added to.
LEMMA TotalFits ==
  ASSUME NEW old \in Seq(Senders), NEW new \in Seq(Senders), NEW altered \in BOOLEAN, NEW s \in Senders, NEW rows,
         NEW others \in Nat, userStats[s] \in Nat, userStats[s] >= Count(old, s) + others,
         TotalRefresh(rows, s) = Count(new, s) + others
  PROVE  /\ TotalAfterWrite(rows, old, new, altered, s) \in Nat
         /\ TotalAfterWrite(rows, old, new, altered, s) >= Count(new, s) + others
         /\ Cleared(old, new, altered, s) =>
              TotalAfterWrite(rows, old, new, altered, s) = Count(new, s) + others + InsertDelta(old, new, s)
         /\ ~Cleared(old, new, altered, s) /\ userStats[s] = Count(old, s) + others =>
              TotalAfterWrite(rows, old, new, altered, s) = Count(new, s) + others
         /\ InsertDelta(old, new, s) \in Nat /\ Count(new, s) + others \in Nat
<1> DEFINE x == userStats[s]  c == Count(old, s)  d == Count(new, s)
           t == TrimDelta(old, new, s)  u == UpdateDelta(old, new, altered, s)  i == InsertDelta(old, new, s)
           after == TotalAfterWrite(rows, old, new, altered, s)
<1>1. /\ d = c + t + u + i /\ t \in Int /\ u \in Int /\ i \in Nat /\ d \in Nat /\ c \in Nat
      /\ i <= d /\ 0 <= c + t
  BY DeltasAddUp
<1>2. after = (IF Cleared(old, new, altered, s) THEN d + others ELSE AtLeastZero(AtLeastZero(x + t) + u)) + i
  BY DEF TotalAfterWrite, UpdatedTotal
<1>3. x \in Nat /\ x >= c + others
  OBVIOUS
<1> HIDE DEF x, c, d, t, u, i, after
<1>4. AtLeastZero(x + t) = x + t
  BY <1>1, <1>3 DEF AtLeastZero
<1>5. AtLeastZero(x + t + u) = x + t + u
  BY <1>1, <1>3 DEF AtLeastZero
<1>6. after = (IF Cleared(old, new, altered, s) THEN d + others ELSE x + t + u) + i
  BY <1>2, <1>4, <1>5
<1>7. /\ after \in Nat /\ after >= d + others
      /\ Cleared(old, new, altered, s) => after = d + others + i
      /\ ~Cleared(old, new, altered, s) /\ x = c + others => after = d + others
      /\ i \in Nat /\ d + others \in Nat
  <2>1. CASE Cleared(old, new, altered, s)
    BY <1>1, <1>6, <2>1
  <2>2. CASE ~Cleared(old, new, altered, s)
    BY <1>1, <1>3, <1>6, <2>2
  <2> QED BY <2>1, <2>2
<1> QED BY <1>7 DEF x, c, d, i, after
-----------------------------------------------------------------------------
(* The totals.                                                               *)

Blocks == [blobs : Seq(Senders), priced : BOOLEAN, present : BOOLEAN]

\* The totals count the rows of blobs; those of padded senders may count more.
Covers(total, rows, s) ==
  /\ rows \in Nat /\ total >= rows
  /\ s \notin padded => total = rows
  /\ s \in padded => EntityOf[s] # Unknown
TotalsInv ==
  /\ stored \in [Heights -> Blocks]
  /\ \A h \in Heights : ~stored[h].present => stored[h].blobs = <<>>
  /\ userStats \in [Senders -> Nat]
  /\ \A s \in Senders : Covers(userStats[s], Cardinality(PlacedBy(stored, Heights, s)), s)
  /\ networkStats = Cardinality(Placed(stored, Heights))

\* A block that is not stored has no blobs.
LEMMA MissingIs ==
  Missing \in Blocks /\ Missing.blobs = <<>> /\ ~Missing.present
<1>1. <<>> \in Seq(Senders)
  OBVIOUS
<1> QED BY <1>1 DEF Missing, Blocks

LEMMA TotalsInit == ReadsInit => TotalsInv
<1> SUFFICES ASSUME ReadsInit PROVE TotalsInv
  OBVIOUS
<1> USE RollupSizes
<1> DEFINE Old == [blobs : OldContents, priced : BOOLEAN, present : {TRUE}]
<1>1. stored \in [Heights -> {Missing} \cup Old]
  BY DEF ReadsInit, RollupInit
<1>2. \A b \in Old : b \in Blocks /\ b.present
  BY DEF Blocks
<1> HIDE DEF Old
<1>3. /\ stored \in [Heights -> Blocks]
      /\ \A h \in Heights : ~stored[h].present => stored[h].blobs = <<>>
  BY <1>1, <1>2, MissingIs
<1>4. \A h \in Heights : stored[h].blobs \in Seq(Senders)
  BY <1>3 DEF Blocks
<1>5. \A h \in Heights : IsFiniteSet(DOMAIN stored[h].blobs)
  BY <1>4, BlobsFinite
<1>6. userStats = [s \in Senders |-> TotalRefresh(stored, s)] /\ padded = {}
  BY DEF ReadsInit, RollupInit
<1>7. networkStats = MapThenSumSet(LAMBDA h : Len(stored[h].blobs), Heights)
  BY DEF ReadsInit, RollupInit
<1>8. \A s : /\ TotalRefresh(stored, s) = Cardinality(PlacedBy(stored, Heights, s))
            /\ Cardinality(PlacedBy(stored, Heights, s)) \in Nat
  <2> TAKE s
  <2>1. /\ IsFiniteSet(PlacedBy(stored, Heights, s))
        /\ MapThenSumSet(LAMBDA h : Count(stored[h].blobs, s), Heights) = Cardinality(PlacedBy(stored, Heights, s))
    BY <1>5, CountSum
  <2> QED BY <2>1, FS_CardinalityType DEF TotalRefresh
<1>9. MapThenSumSet(LAMBDA h : Len(stored[h].blobs), Heights) = Cardinality(Placed(stored, Heights))
  BY <1>4, LenSum
<1>10. /\ userStats \in [Senders -> Nat]
       /\ \A s \in Senders : Covers(userStats[s], Cardinality(PlacedBy(stored, Heights, s)), s)
  BY <1>6, <1>8 DEF Covers
<1> QED BY <1>3, <1>7, <1>9, <1>10 DEF TotalsInv

\* One block is written over what its height held.
LEMMA TotalsIndex ==
  ASSUME TotalsInv, NEW h \in Heights, NEW new \in Contents, NEW altered \in BOOLEAN, IndexBlock(h, new, altered)
  PROVE  TotalsInv'
<1> USE RollupSizes
<1> DEFINE old == stored[h].blobs
           block == [blobs |-> new, priced |-> TRUE, present |-> TRUE]
<1>1. stored' = [stored EXCEPT ![h] = block]
  BY DEF IndexBlock
<1>2. block \in Blocks /\ block.blobs = new /\ block.present
  BY DEF Blocks
<1> HIDE DEF block
<1>3. /\ stored \in [Heights -> Blocks] /\ \A k \in Heights : ~stored[k].present => stored[k].blobs = <<>>
      /\ userStats \in [Senders -> Nat]
      /\ \A s \in Senders : Covers(userStats[s], Cardinality(PlacedBy(stored, Heights, s)), s)
      /\ networkStats = Cardinality(Placed(stored, Heights))
  BY DEF TotalsInv
<1>4. /\ stored' \in [Heights -> Blocks] /\ \A k \in Heights : ~stored'[k].present => stored'[k].blobs = <<>>
      /\ stored'[h].blobs = new /\ \A k \in Heights \ {h} : stored'[k].blobs = stored[k].blobs
  BY <1>1, <1>2, <1>3
<1>5. \A k \in Heights : stored[k].blobs \in Seq(Senders) /\ stored'[k].blobs \in Seq(Senders)
  BY <1>3, <1>4 DEF Blocks
<1>6. old \in Seq(Senders) /\ new \in Seq(Senders) /\ Sequences(stored, Heights) /\ Sequences(stored', Heights)
  BY <1>5 DEF Sequences
<1>7. /\ userStats' = [s \in Senders |-> TotalAfterWrite(stored', old, new, altered, s)]
      /\ networkStats' = networkStats - Cardinality(Trimmed(old, new)) + Cardinality(Inserted(old, new))
      /\ padded' = {s \in Senders : IF Cleared(old, new, altered, s) THEN InsertDelta(old, new, s) > 0
                                     ELSE s \in padded}
  BY DEF IndexBlock
<1> DEFINE one == {h}  rest == Heights \ one
<1>8. one \in SUBSET Heights /\ one = {h} /\ rest = Heights \ one /\ SameBlobs(stored', stored, rest)
  BY <1>4 DEF SameBlobs
<1> HIDE DEF one, rest
<1>9. /\ \A s : /\ Cardinality(PlacedBy(stored, one, s)) = Count(old, s)
               /\ Cardinality(PlacedBy(stored', one, s)) = Count(new, s)
      /\ Cardinality(Placed(stored, one)) = Len(old) /\ Cardinality(Placed(stored', one)) = Len(new)
  <2>1. /\ \A s : Cardinality(PlacedBy(stored, {h}, s)) = Count(old, s)
        /\ Cardinality(Placed(stored, {h})) = Len(old)
    BY <1>6, PlacedOne
  <2>2. /\ \A s : Cardinality(PlacedBy(stored', {h}, s)) = Count(new, s)
        /\ Cardinality(Placed(stored', {h})) = Len(new)
    <3>1. new \in Seq(Senders) /\ stored'[h].blobs = new
      BY <1>4, <1>6
    <3> QED BY <3>1, PlacedOne
  <2> QED BY <1>8, <2>1, <2>2
<1> DEFINE was(s) == Cardinality(PlacedBy(stored, Heights, s))
           is(s) == Cardinality(PlacedBy(stored', Heights, s))
           others(s) == Cardinality(PlacedBy(stored, rest, s))
<1>10. ASSUME NEW s
       PROVE  /\ was(s) = Count(old, s) + others(s) /\ others(s) \in Nat
              /\ is(s) = Count(new, s) + others(s)
  <2>1. was(s) = Cardinality(PlacedBy(stored, one, s)) + others(s)
    BY <1>6, <1>8, PlacedBySplit
  <2>2. Cardinality(PlacedBy(stored, Heights \ one, s)) \in Nat
    BY <1>6, <1>8, PlacedBySplit
  <2>3. is(s) = Cardinality(PlacedBy(stored', one, s)) + Cardinality(PlacedBy(stored', rest, s))
    BY <1>6, <1>8, PlacedBySplit
  <2>4. Cardinality(PlacedBy(stored, one, s)) = Count(old, s) /\ Cardinality(PlacedBy(stored', one, s)) = Count(new, s)
    BY <1>9
  <2>5. PlacedBy(stored', rest, s) = PlacedBy(stored, rest, s)
    BY <1>8, PlacedSame
  <2> QED BY <1>8, <2>1, <2>2, <2>3, <2>4, <2>5
<1> DEFINE all == Cardinality(Placed(stored, Heights))
           allNow == Cardinality(Placed(stored', Heights))
           allOthers == Cardinality(Placed(stored, rest))
<1>11. /\ all = Len(old) + allOthers /\ allOthers \in Nat
       /\ allNow = Len(new) + allOthers
  <2>1. /\ all = Cardinality(Placed(stored, one)) + allOthers /\ allOthers \in Nat
    BY <1>6, <1>8, PlacedSplit
  <2>2. allNow = Cardinality(Placed(stored', one)) + Cardinality(Placed(stored', rest))
    BY <1>6, <1>8, PlacedSplit
  <2>3. Cardinality(Placed(stored, one)) = Len(old) /\ Cardinality(Placed(stored', one)) = Len(new)
    BY <1>9
  <2>4. Placed(stored', rest) = Placed(stored, rest)
    BY <1>8, PlacedSame
  <2> QED BY <2>1, <2>2, <2>3, <2>4
<1>12. \A s : TotalRefresh(stored', s) = is(s)
  <2>1. \A k \in Heights : IsFiniteSet(DOMAIN stored'[k].blobs)
    BY <1>5, BlobsFinite
  <2>2. \A s : MapThenSumSet(LAMBDA k : Count(stored'[k].blobs, s), Heights) = Cardinality(PlacedBy(stored', Heights, s))
    BY <2>1, CountSum
  <2> QED BY <2>2 DEF TotalRefresh
<1> DEFINE after(s) == TotalAfterWrite(stored', old, new, altered, s)
<1> HIDE DEF old, was, is, others, all, allNow, allOthers, after
<1>13. ASSUME NEW s \in Senders
       PROVE  /\ after(s) \in Nat /\ is(s) \in Nat /\ after(s) >= is(s)
              /\ s \notin padded' => after(s) = is(s)
              /\ s \in padded' => EntityOf[s] # Unknown
  <2> DEFINE c == Count(old, s)  d == Count(new, s)  i == InsertDelta(old, new, s)
             cleared == Cleared(old, new, altered, s)
  <2>1. /\ was(s) = c + others(s) /\ others(s) \in Nat /\ is(s) = d + others(s)
    BY <1>10
  <2>2. userStats[s] \in Nat /\ Covers(userStats[s], was(s), s)
    BY <1>3 DEF was
  <2>3. userStats[s] >= c + others(s) /\ TotalRefresh(stored', s) = d + others(s)
    BY <1>12, <2>1, <2>2 DEF Covers
  <2>4. /\ after(s) \in Nat /\ after(s) >= d + others(s) /\ d + others(s) \in Nat /\ i \in Nat
        /\ cleared => after(s) = d + others(s) + i
        /\ ~cleared /\ userStats[s] = c + others(s) => after(s) = d + others(s)
    <3>1. old \in Seq(Senders) /\ new \in Seq(Senders)
      BY <1>6
    <3>2. others(s) \in Nat /\ userStats[s] \in Nat
      BY <2>1, <2>2
    <3> DEFINE o == others(s)  rows == stored'
    <3>3. o \in Nat /\ userStats[s] >= Count(old, s) + o /\ TotalRefresh(rows, s) = Count(new, s) + o
      BY <2>3, <3>2
    <3> HIDE DEF o, rows
    <3>4. userStats[s] \in Nat /\ userStats[s] >= Count(old, s) + o
      BY <3>2, <3>3
    <3>5. TotalAfterWrite(rows, old, new, altered, s) \in Nat
      BY ONLY <3>1, <3>3, <3>4, altered \in BOOLEAN, s \in Senders, TotalFits
    <3>6. TotalAfterWrite(rows, old, new, altered, s) >= Count(new, s) + o
      BY ONLY <3>1, <3>3, <3>4, altered \in BOOLEAN, s \in Senders, TotalFits
    <3>7. Cleared(old, new, altered, s) =>
            TotalAfterWrite(rows, old, new, altered, s) = Count(new, s) + o + InsertDelta(old, new, s)
      BY ONLY <3>1, <3>3, <3>4, altered \in BOOLEAN, s \in Senders, TotalFits
    <3>8. ~Cleared(old, new, altered, s) /\ userStats[s] = Count(old, s) + o =>
            TotalAfterWrite(rows, old, new, altered, s) = Count(new, s) + o
      BY ONLY <3>1, <3>3, <3>4, altered \in BOOLEAN, s \in Senders, TotalFits
    <3>9. InsertDelta(old, new, s) \in Nat /\ Count(new, s) + o \in Nat
      BY ONLY <3>1, <3>3, <3>4, altered \in BOOLEAN, s \in Senders, TotalFits
    <3> QED BY <3>5, <3>6, <3>7, <3>8, <3>9 DEF after, o, rows
  <2>5. s \in padded' <=> IF cleared THEN i > 0 ELSE s \in padded
    BY <1>7
  <2>6. cleared => EntityOf[s] # Unknown
    BY DEF Cleared
  <2> HIDE DEF c, d, i, cleared
  <2>7. CASE cleared
    BY <2>1, <2>4, <2>5, <2>6, <2>7
  <2>8. CASE ~cleared
    BY <2>1, <2>2, <2>4, <2>5, <2>8 DEF Covers
  <2> QED BY <2>7, <2>8
<1>14. /\ userStats' \in [Senders -> Nat]
       /\ \A s \in Senders : /\ userStats'[s] = after(s) /\ is(s) \in Nat /\ after(s) >= is(s)
                             /\ s \notin padded' => after(s) = is(s)
                             /\ s \in padded' => EntityOf[s] # Unknown
  <2>1. userStats' = [s \in Senders |-> after(s)]
    BY <1>7 DEF after
  <2> QED BY <1>13, <2>1
<1>15. \A s \in Senders : Covers(userStats[s], Cardinality(PlacedBy(stored, Heights, s)), s)'
  BY <1>14 DEF Covers, is
<1> DEFINE gone == Cardinality(Trimmed(old, new))  added == Cardinality(Inserted(old, new))
           l == Len(old)  m == Len(new)
<1>16. /\ m = l - gone + added /\ gone \in Nat /\ added \in Nat /\ l \in Nat
  <2>1. PICK s : TRUE
    OBVIOUS
  <2>2. Len(new) = Len(old) - Cardinality(Trimmed(old, new)) + Cardinality(Inserted(old, new))
    BY <1>6, <2>1, DeltasAddUp
  <2>3. Cardinality(Trimmed(old, new)) \in Nat /\ Cardinality(Inserted(old, new)) \in Nat
    BY <1>6, <2>1, DeltasAddUp
  <2>4. Len(old) \in Nat
    BY <1>6, BlobsFinite
  <2> QED BY <2>2, <2>3, <2>4
<1>17. all = l + allOthers /\ allOthers \in Nat /\ allNow = m + allOthers /\ networkStats' = all - gone + added
  BY <1>3, <1>7, <1>11 DEF all
<1> HIDE DEF gone, added, l, m
<1>18. allNow = networkStats'
  <2>1. \A x, y, a, b \in Nat : (x - a + b) + y = (x + y) - a + b
    OBVIOUS
  <2> QED BY <1>16, <1>17, <2>1
<1> QED BY <1>4, <1>14, <1>15, <1>18 DEF TotalsInv, allNow

\* The blocks of a set of heights go.
LEMMA TotalsDelete ==
  ASSUME TotalsInv, NEW gone \in SUBSET Heights, DeleteBlocks(gone)
  PROVE  TotalsInv'
<1> USE RollupSizes
<1> DEFINE hit == {h \in gone : stored[h].present}
<1>1. stored' = [h \in Heights |-> IF h \in gone THEN Missing ELSE stored[h]]
  BY DEF DeleteBlocks
<1>2. /\ stored \in [Heights -> Blocks] /\ \A k \in Heights : ~stored[k].present => stored[k].blobs = <<>>
      /\ userStats \in [Senders -> Nat]
      /\ \A s \in Senders : Covers(userStats[s], Cardinality(PlacedBy(stored, Heights, s)), s)
      /\ networkStats = Cardinality(Placed(stored, Heights))
  BY DEF TotalsInv
<1>3. /\ stored' \in [Heights -> Blocks] /\ \A k \in Heights : ~stored'[k].present => stored'[k].blobs = <<>>
      /\ \A k \in hit : stored'[k].blobs = <<>>
      /\ \A k \in Heights \ hit : stored'[k].blobs = stored[k].blobs
  BY <1>1, <1>2, MissingIs
<1>4. \A k \in Heights : stored[k].blobs \in Seq(Senders) /\ stored'[k].blobs \in Seq(Senders)
  BY <1>2, <1>3 DEF Blocks
<1>5. hit \in SUBSET Heights /\ Sequences(stored, Heights)
  BY <1>4 DEF Sequences
<1>6. /\ userStats' = [s \in Senders |->
           AtLeastZero(userStats[s] - MapThenSumSet(LAMBDA h : Count(stored[h].blobs, s), hit))]
      /\ padded' = padded
      /\ networkStats' = networkStats - MapThenSumSet(LAMBDA h : Len(stored[h].blobs), hit)
  BY DEF DeleteBlocks
<1> HIDE DEF hit
<1>7. IsFiniteSet(hit)
  BY <1>5, FS_Subset
<1>8. \A h \in hit : IsFiniteSet(DOMAIN stored[h].blobs)
  BY <1>4, <1>5, BlobsFinite
<1>9. \A s : MapThenSumSet(LAMBDA h : Count(stored[h].blobs, s), hit) = Cardinality(PlacedBy(stored, hit, s))
  BY <1>7, <1>8, CountSum
<1>10. MapThenSumSet(LAMBDA h : Len(stored[h].blobs), hit) = Cardinality(Placed(stored, hit))
  BY <1>4, <1>5, <1>7, LenSum
<1>11. \A s : PlacedBy(stored', Heights, s) = PlacedBy(stored, Heights \ hit, s)
  BY <1>3, <1>5 DEF PlacedBy, Own
<1>12. Placed(stored', Heights) = Placed(stored, Heights \ hit)
  BY <1>3, <1>5 DEF Placed
<1> DEFINE was(s) == Cardinality(PlacedBy(stored, Heights, s))
           less(s) == Cardinality(PlacedBy(stored, hit, s))
           is(s) == Cardinality(PlacedBy(stored, Heights \ hit, s))
           all == Cardinality(Placed(stored, Heights))
           fewer == Cardinality(Placed(stored, hit))
           rest == Cardinality(Placed(stored, Heights \ hit))
<1>13. /\ \A s : was(s) = less(s) + is(s) /\ less(s) \in Nat /\ is(s) \in Nat
       /\ all = fewer + rest /\ fewer \in Nat /\ rest \in Nat
  <2>1. ASSUME NEW s PROVE was(s) = less(s) + is(s)
    BY <1>5, PlacedBySplit
  <2>2. ASSUME NEW s PROVE less(s) \in Nat /\ is(s) \in Nat
    BY <1>5, PlacedBySplit
  <2>3. all = fewer + rest /\ fewer \in Nat /\ rest \in Nat
    BY <1>5, PlacedSplit
  <2> HIDE DEF was, less, is, all, fewer, rest
  <2> QED BY <2>1, <2>2, <2>3
<1>14. userStats' = [s \in Senders |-> AtLeastZero(userStats[s] - less(s))] /\ networkStats' = all - fewer
  BY <1>2, <1>6, <1>9, <1>10
<1>15. \A s : Cardinality(PlacedBy(stored', Heights, s)) = is(s)
  BY <1>11
<1>16. Cardinality(Placed(stored', Heights)) = rest
  BY <1>12
<1> HIDE DEF was, less, is, all, fewer, rest
<1>17. ASSUME NEW s \in Senders
       PROVE  userStats'[s] \in Nat /\ Covers(userStats[s], Cardinality(PlacedBy(stored, Heights, s)), s)'
  <2>1. userStats[s] \in Nat /\ Covers(userStats[s], was(s), s)
    BY <1>2 DEF was
  <2>2. was(s) = less(s) + is(s) /\ less(s) \in Nat /\ is(s) \in Nat
    BY <1>13
  <2>3. userStats[s] >= was(s) /\ (s \notin padded => userStats[s] = was(s)) /\ (s \in padded => EntityOf[s] # Unknown)
    BY <2>1 DEF Covers
  <2>4. userStats'[s] = AtLeastZero(userStats[s] - less(s))
    BY <1>14
  <2>5. userStats'[s] = userStats[s] - less(s)
    BY <2>1, <2>2, <2>3, <2>4 DEF AtLeastZero
  <2>6. /\ userStats'[s] \in Nat /\ userStats'[s] >= is(s)
        /\ s \notin padded => userStats'[s] = is(s)
    BY <2>1, <2>2, <2>3, <2>5
  <2>7. Cardinality(PlacedBy(stored', Heights, s)) = is(s) /\ padded' = padded
    BY <1>6, <1>15
  <2> QED BY <2>2, <2>3, <2>6, <2>7 DEF Covers
<1>18. userStats' \in [Senders -> Nat]
  BY <1>14, <1>17
<1>19. networkStats' = rest
  <2>1. \A x, y \in Nat : (x + y) - x = y
    OBVIOUS
  <2> QED BY <1>13, <1>14, <2>1
<1> QED BY <1>3, <1>16, <1>17, <1>18, <1>19 DEF TotalsInv

\* No other step touches rows or totals.
LEMMA TotalsStep == TotalsInv /\ [ReadsNext]_readVars => TotalsInv'
<1> SUFFICES ASSUME TotalsInv, [ReadsNext]_readVars PROVE TotalsInv'
  OBVIOUS
<1>1. CASE UNCHANGED <<stored, userStats, networkStats, padded>>
  BY <1>1 DEF TotalsInv, Covers
<1>2. CASE \E h \in Heights, new \in Contents, altered \in BOOLEAN : IndexBlock(h, new, altered)
  BY <1>2, TotalsIndex
<1>3. CASE \E first, last \in Heights : DeleteBlocks(HeightRange(first, last))
  <2>1. \A first, last \in Heights : HeightRange(first, last) \in SUBSET Heights
    BY DEF HeightRange
  <2> QED BY <1>3, <2>1, TotalsDelete
<1>4. CASE BackfillChunk \/ BackfillEnds
  BY <1>1, <1>4 DEF BackfillChunk, BackfillEnds, rawVars, ghostVars
<1>5. CASE \E k \in BucketKeys : HealSelect(k)
  BY <1>1, <1>5 DEF HealSelect, rawVars, ghostVars
<1>6. CASE HealWrite \/ HealEnds
  BY <1>1, <1>6 DEF HealWrite, HealEnds, rawVars, ghostVars
<1>7. CASE PruneBlobRollups \/ PruneMetricRollups
  BY <1>1, <1>7 DEF PruneBlobRollups, PruneMetricRollups, ghostVars
<1>8. CASE Restart \/ Tick
  BY <1>1, <1>8 DEF Restart, Tick, rawVars, ghostVars
<1>9. CASE Probe \/ Answered \/ UNCHANGED readVars
  BY <1>1, <1>9 DEF Probe, Answered, readVars, rollupVars, rawVars, ghostVars
<1> QED BY <1>2, <1>3, <1>4, <1>5, <1>6, <1>7, <1>8, <1>9 DEF ReadsNext, RollupNext

\* The totals that count the rows are the sums of the rows.
LEMMA TotalsFollow == TotalsInv => TotalsExact
<1> SUFFICES ASSUME TotalsInv PROVE TotalsExact
  OBVIOUS
<1> USE RollupSizes
<1>1. \A h \in Heights : stored[h].blobs \in Seq(Senders)
  BY DEF TotalsInv, Blocks
<1>2. \A h \in Heights : IsFiniteSet(DOMAIN stored[h].blobs)
  BY <1>1, BlobsFinite
<1>3. /\ \A s \in Senders : Covers(userStats[s], Cardinality(PlacedBy(stored, Heights, s)), s)
      /\ networkStats = Cardinality(Placed(stored, Heights))
  BY DEF TotalsInv
<1>4. \A s : TotalRefresh(stored, s) = Cardinality(PlacedBy(stored, Heights, s))
  <2>1. \A s : MapThenSumSet(LAMBDA h : Count(stored[h].blobs, s), Heights) = Cardinality(PlacedBy(stored, Heights, s))
    BY <1>2, CountSum
  <2> QED BY <2>1 DEF TotalRefresh
<1>5. padded = {} => TotalOf(userStats) = networkStats
  <2> SUFFICES ASSUME padded = {} PROVE TotalOf(userStats) = networkStats
    OBVIOUS
  <2>1. Sequences(stored, Heights) /\ CountsRows(userStats, stored, Heights)
    BY <1>1, <1>3 DEF Sequences, CountsRows, Covers
  <2>2. TotalOf(userStats) = Cardinality(Placed(stored, Heights))
    BY <2>1, SenderSum
  <2> QED BY <1>3, <2>2
<1>6. padded = {} => LeadersAll = LeadersOf(userStats)
  <2> SUFFICES ASSUME padded = {} PROVE LeadersAll = LeadersOf(userStats)
    OBVIOUS
  <2> DEFINE apart == [s \in {x \in Senders : EntityOf[x] = Unknown} |-> userStats[s]]
             groups == [e \in {EntityOf[s] : s \in Senders} |-> EntityTotal(userStats, e)]
             board(n) == [users |-> userStats, unattributed |-> apart, groups |-> groups, total |-> n]
  <2>1. LeadersOf(userStats) = board(TotalOf(userStats))
    BY DEF LeadersOf, TotalOf
  <2> HIDE DEF apart, groups
  <2>2. PICK b : b = board(networkStats)
    OBVIOUS
  <2>3. /\ b \in [users : {userStats}, unattributed : {apart}, groups : {groups}, total : {networkStats}]
        /\ b.total = networkStats
    BY <2>2
  <2> HIDE DEF board
  <2>4. [b EXCEPT !.total = networkStats] = b
    BY <2>3
  <2> QED BY <1>5, <2>1, <2>2, <2>4 DEF LeadersAll
<1>7. networkStats = MapThenSumSet(LAMBDA h : Len(stored[h].blobs), Heights)
  BY <1>1, <1>3, LenSum
<1> QED BY <1>3, <1>4, <1>6, <1>7 DEF TotalsExact, Covers

\* Through siblings that hold more or fewer blobs and through rewinds the
\* network's total of all history is the number of its rows, and a sender's
\* never less than that of theirs: the signed deltas of the statement triggers
\* do not drift, and a total goes above its rows in one way only, an upsert
\* that counts an attributed sender afresh and then adds the rows it inserted.
THEOREM TotalsAreExact == Spec => []TotalsExact
<1>1. Spec => []TotalsInv
  BY TotalsInit, TotalsStep, PTL DEF Spec
<1> QED BY <1>1, TotalsFollow, PTL

-----------------------------------------------------------------------------
(* The buckets: what the tables keep, for every key.                         *)

\* The buckets the triggers have kept: all coarse ones, and the fine ones of
\* the retention from where they have been filled.
InRetention(k) == k[2] >= now - Retention
Kept(k) == k[1] = Fine => k[2] >= reached /\ InRetention(k)

Metrics == [blocks : Nat, blobs : Nat, priced : Nat]
CoarseKeys == {k \in BucketKeys : k[1] # Fine}

RollupTypes ==
  /\ blobRollups \in [BlobKeys -> Nat] /\ metricRollups \in [BucketKeys -> Metrics]
  /\ now \in Clock /\ late \in BOOLEAN /\ healed \in BOOLEAN
  /\ reached \in Int /\ chunkEnd \in Int /\ walkStart \in Int /\ cutoff \in Int
  /\ \A h \in Heights : stored[h].present => TimeOf[h] <= now
  /\ reached <= chunkEnd /\ reached <= Deployed
  /\ cutoff # NoCutoff => cutoff <= now - Retention
  /\ todo \subseteq CoarseKeys
  /\ refreshing = NoRefresh \/ refreshing \in [key : CoarseKeys, agg : Metrics]

\* A kept row of blob_chart_rollups says what the blobs say, unless an upsert
\* counted twice; a fine row that should not be there is not.
BlobOK(k) ==
  /\ Kept(k) /\ k \notin doubled => blobRollups[k] = BlobRefresh(stored, k)
  /\ k[1] = Fine /\ InRetention(k) /\ BlobRefresh(stored, k) = 0 => blobRollups[k] = 0
  /\ k \in doubled => blobRollups[k] > 0

BlobsInv == \A k \in BlobKeys : BlobOK(k)

\* A coarse row counts blocks and blobs, unless a repair wrote from an old
\* SELECT; what it says of fees is right or still to be repaired.
CoarseOK(k) ==
  LET m == metricRollups[k]
      is == MetricsRefresh(stored, k)
  IN /\ m.blocks = is.blocks /\ m.blobs = is.blobs
     /\ m.priced = is.priced \/ (m.priced = 0 /\ ~healed /\ (phase = "heal" => k \in todo))

\* A fine row of the retention is missing or right, and right where rows have
\* been filled; rows below are there only if one came late.
FineOK(k) ==
  /\ InRetention(k) => /\ metricRollups[k] \in {NoRefresh.agg, MetricsRefresh(stored, k)}
                       /\ k[2] >= reached => metricRollups[k] = MetricsRefresh(stored, k)
  /\ metricRollups[k].blocks > 0 /\ ~late => k[2] >= reached

MetricOK(k) ==
  /\ k[1] # Fine /\ k \notin overtaken => CoarseOK(k)
  /\ k[1] = Fine => FineOK(k)

MetricsInv == \A k \in BucketKeys : MetricOK(k)

\* A read of fine rows between probe and query.
ProbedOK(r) ==
  /\ r.source = Fine /\ r.from \in Int /\ r.to \in Int
  /\ \/ r.kind = "chart" /\ r.bucket \in {Fine, Five} /\ r.from % r.bucket = 0 /\ r.to % r.bucket = 0
     \/ r.kind = "window"
  /\ r.from >= now - Retention
  /\ late \/ reached <= r.from

ProbedInv == probed = NoRequest \/ ProbedOK(probed)

-----------------------------------------------------------------------------
(* Buckets.                                                                  *)

\* The bucket of a minute is the multiple of its size at or before it.
LEMMA BucketIs ==
  ASSUME NEW z \in Nat \ {0}, NEW t \in Int
  PROVE  /\ Bucket(z, t) \in Int /\ Bucket(z, t) <= t /\ t < Bucket(z, t) + z
         /\ Multiple(z, Bucket(z, t)) /\ (t \in Nat => Bucket(z, t) \in Nat)
<1>1. t = (t \div z) * z + (t % z) /\ t \div z \in Int /\ t % z \in 0..(z - 1)
  BY Division
<1>2. t \in Nat => t \div z \in Nat
  OBVIOUS
<1>3. (t \div z) * z \in Int /\ (t \div z \in Nat => (t \div z) * z \in Nat)
  BY <1>1
<1>4. Multiple(z, (t \div z) * z)
  BY <1>1 DEF Multiple
<1> DEFINE q == (t \div z) * z  r == t % z
<1>5. t = q + r /\ q \in Int /\ r \in 0..(z - 1)
  BY <1>1, <1>3
<1>6. q <= t /\ t < q + z
  <2> HIDE DEF q, r
  <2> QED BY <1>5
<1> QED BY <1>2, <1>3, <1>4, <1>6 DEF Bucket

\* A bound that is a multiple of the size does not cut a bucket.
LEMMA BucketBound ==
  ASSUME NEW z \in Nat \ {0}, NEW t \in Int, NEW a \in Int, Multiple(z, a)
  PROVE  (t >= a <=> Bucket(z, t) >= a) /\ (t < a <=> Bucket(z, t) < a)
<1>1. Bucket(z, t) \in Int /\ Bucket(z, t) <= t /\ t < Bucket(z, t) + z /\ Multiple(z, Bucket(z, t))
  BY BucketIs
<1>2. ASSUME t >= a PROVE Bucket(z, t) >= a
  <2>1. a < Bucket(z, t) + z
    BY <1>1, <1>2
  <2>2. a <= Bucket(z, t)
    BY <1>1, <2>1, MultiplesApart
  <2> QED BY <1>1, <2>2
<1> QED BY <1>1, <1>2

\* The bucket that starts at a is the one of the minutes in it.
LEMMA BucketOf ==
  ASSUME NEW z \in Nat \ {0}, NEW t \in Int, NEW a \in Int, Multiple(z, a)
  PROVE  (t >= a /\ t < a + z) <=> a = Bucket(z, t)
<1>1. Bucket(z, t) \in Int /\ Bucket(z, t) <= t /\ t < Bucket(z, t) + z /\ Multiple(z, Bucket(z, t))
  BY BucketIs
<1>2. ASSUME t >= a, t < a + z PROVE a = Bucket(z, t)
  <2>1. Bucket(z, t) >= a
    BY <1>2, BucketBound
  <2>2. Bucket(z, t) < a + z
    BY <1>1, <1>2
  <2>3. Bucket(z, t) <= a
    BY <1>1, <2>2, MultiplesApart
  <2> QED BY <1>1, <2>1, <2>3
<1> QED BY <1>1, <1>2

-----------------------------------------------------------------------------
(* Sums over buckets and over points.                                        *)

\* The sums of the queries.
Total(v, S) == MapThenSumSet(LAMBDA x : v[x], S)
Costs(m, S) == MapThenSumSet(LAMBDA x : m[x].cost, S)
Fees(m, S) == MapThenSumSet(LAMBDA x : m[x].over, S)
BlocksTotal(m, S) == MapThenSumSet(LAMBDA x : m[x].blocks, S)
BlobsTotal(m, S) == MapThenSumSet(LAMBDA x : m[x].blobs, S)
PricedTotal(m, S) == MapThenSumSet(LAMBDA x : m[x].priced, S)
CountAt(m, x, s) == m[<<x[1], x[2], s>>]
CountTotal(m, S, s) == MapThenSumSet(LAMBDA x : m[<<x[1], x[2], s>>], S)
PointSum(p) == MapThenSumSet(LAMBDA key : p[key], DOMAIN p)
PointTotal(m, S) == MapThenSumSet(LAMBDA x : MapThenSumSet(LAMBDA key : m[x][key], DOMAIN m[x]), S)

\* MapThenSumSet is the sum of a function, and of what its values hold.
LEMMA TotalIs ==
  ASSUME NEW S, NEW v, NEW n, Sums(v, S, n)
  PROVE  Total(v, S) = n
<1> DEFINE body(g) == [t \in SUBSET S |-> IF t = {} THEN 0
                         ELSE v[CHOOSE x \in t : TRUE] + g[t \ {CHOOSE x \in t : TRUE}]]
<1>1. \A g : g = body(g) <=> Summing(g, v, S)
  BY DEF Summing
<1>2. Total(v, S) = (CHOOSE g : g = body(g))[S]
  BY DEF Total, MapThenSumSet, MapThenFoldSet
<1> HIDE DEF body
<1> QED BY <1>1, <1>2 DEF Sums

\* The same of the sums of one field, and of nested sums.
LEMMA CostsIs ==
  ASSUME NEW S, NEW m, NEW v, \A x \in S : v[x] = m[x].cost, NEW n, Sums(v, S, n)
  PROVE  Costs(m, S) = n
<1> DEFINE body(g) == [t \in SUBSET S |-> IF t = {} THEN 0
                         ELSE m[CHOOSE x \in t : TRUE].cost + g[t \ {CHOOSE x \in t : TRUE}]]
<1>1. \A t \in SUBSET S : t # {} => v[CHOOSE x \in t : TRUE] = m[CHOOSE x \in t : TRUE].cost
  OBVIOUS
<1>2. \A g : g = body(g) <=> Summing(g, v, S)
  BY <1>1 DEF Summing
<1>3. Costs(m, S) = (CHOOSE g : g = body(g))[S]
  BY DEF Costs, MapThenSumSet, MapThenFoldSet
<1> HIDE DEF body
<1> QED BY <1>2, <1>3 DEF Sums

\* .. over
LEMMA FeesIs ==
  ASSUME NEW S, NEW m, NEW v, \A x \in S : v[x] = m[x].over, NEW n, Sums(v, S, n)
  PROVE  Fees(m, S) = n
<1> DEFINE body(g) == [t \in SUBSET S |-> IF t = {} THEN 0
                         ELSE m[CHOOSE x \in t : TRUE].over + g[t \ {CHOOSE x \in t : TRUE}]]
<1>1. \A t \in SUBSET S : t # {} => v[CHOOSE x \in t : TRUE] = m[CHOOSE x \in t : TRUE].over
  OBVIOUS
<1>2. \A g : g = body(g) <=> Summing(g, v, S)
  BY <1>1 DEF Summing
<1>3. Fees(m, S) = (CHOOSE g : g = body(g))[S]
  BY DEF Fees, MapThenSumSet, MapThenFoldSet
<1> HIDE DEF body
<1> QED BY <1>2, <1>3 DEF Sums

\* .. blocks
LEMMA BlocksTotalIs ==
  ASSUME NEW S, NEW m, NEW v, \A x \in S : v[x] = m[x].blocks, NEW n, Sums(v, S, n)
  PROVE  BlocksTotal(m, S) = n
<1> DEFINE body(g) == [t \in SUBSET S |-> IF t = {} THEN 0
                         ELSE m[CHOOSE x \in t : TRUE].blocks + g[t \ {CHOOSE x \in t : TRUE}]]
<1>1. \A t \in SUBSET S : t # {} => v[CHOOSE x \in t : TRUE] = m[CHOOSE x \in t : TRUE].blocks
  OBVIOUS
<1>2. \A g : g = body(g) <=> Summing(g, v, S)
  BY <1>1 DEF Summing
<1>3. BlocksTotal(m, S) = (CHOOSE g : g = body(g))[S]
  BY DEF BlocksTotal, MapThenSumSet, MapThenFoldSet
<1> HIDE DEF body
<1> QED BY <1>2, <1>3 DEF Sums

\* .. blobs
LEMMA BlobsTotalIs ==
  ASSUME NEW S, NEW m, NEW v, \A x \in S : v[x] = m[x].blobs, NEW n, Sums(v, S, n)
  PROVE  BlobsTotal(m, S) = n
<1> DEFINE body(g) == [t \in SUBSET S |-> IF t = {} THEN 0
                         ELSE m[CHOOSE x \in t : TRUE].blobs + g[t \ {CHOOSE x \in t : TRUE}]]
<1>1. \A t \in SUBSET S : t # {} => v[CHOOSE x \in t : TRUE] = m[CHOOSE x \in t : TRUE].blobs
  OBVIOUS
<1>2. \A g : g = body(g) <=> Summing(g, v, S)
  BY <1>1 DEF Summing
<1>3. BlobsTotal(m, S) = (CHOOSE g : g = body(g))[S]
  BY DEF BlobsTotal, MapThenSumSet, MapThenFoldSet
<1> HIDE DEF body
<1> QED BY <1>2, <1>3 DEF Sums

\* .. priced
LEMMA PricedTotalIs ==
  ASSUME NEW S, NEW m, NEW v, \A x \in S : v[x] = m[x].priced, NEW n, Sums(v, S, n)
  PROVE  PricedTotal(m, S) = n
<1> DEFINE body(g) == [t \in SUBSET S |-> IF t = {} THEN 0
                         ELSE m[CHOOSE x \in t : TRUE].priced + g[t \ {CHOOSE x \in t : TRUE}]]
<1>1. \A t \in SUBSET S : t # {} => v[CHOOSE x \in t : TRUE] = m[CHOOSE x \in t : TRUE].priced
  OBVIOUS
<1>2. \A g : g = body(g) <=> Summing(g, v, S)
  BY <1>1 DEF Summing
<1>3. PricedTotal(m, S) = (CHOOSE g : g = body(g))[S]
  BY DEF PricedTotal, MapThenSumSet, MapThenFoldSet
<1> HIDE DEF body
<1> QED BY <1>2, <1>3 DEF Sums

\* .. the count of one sender over the buckets
LEMMA CountTotalIs ==
  ASSUME NEW S, NEW m, NEW s, NEW v, \A x \in S : v[x] = CountAt(m, x, s), NEW n, Sums(v, S, n)
  PROVE  CountTotal(m, S, s) = n
<1> DEFINE body(g) == [t \in SUBSET S |-> IF t = {} THEN 0
                         ELSE CountAt(m, CHOOSE x \in t : TRUE, s) + g[t \ {CHOOSE x \in t : TRUE}]]
<1>1. \A t \in SUBSET S : t # {} => v[CHOOSE x \in t : TRUE] = CountAt(m, CHOOSE x \in t : TRUE, s)
  OBVIOUS
<1>2. \A g : g = body(g) <=> Summing(g, v, S)
  BY <1>1 DEF Summing
<1>3. CountTotal(m, S, s) = (CHOOSE g : g = body(g))[S]
  BY DEF CountTotal, MapThenSumSet, MapThenFoldSet, CountAt
<1> HIDE DEF body
<1> QED BY <1>2, <1>3 DEF Sums

\* .. and the values of all points.
LEMMA PointTotalIs ==
  ASSUME NEW S, NEW m, NEW v, \A x \in S : v[x] = PointSum(m[x]), NEW n, Sums(v, S, n)
  PROVE  PointTotal(m, S) = n
<1> DEFINE body(g) == [t \in SUBSET S |-> IF t = {} THEN 0
                         ELSE PointSum(m[CHOOSE x \in t : TRUE]) + g[t \ {CHOOSE x \in t : TRUE}]]
<1>1. \A t \in SUBSET S : t # {} => v[CHOOSE x \in t : TRUE] = PointSum(m[CHOOSE x \in t : TRUE])
  OBVIOUS
<1>2. \A g : g = body(g) <=> Summing(g, v, S)
  BY <1>1 DEF Summing
<1>3. PointTotal(m, S) = (CHOOSE g : g = body(g))[S]
  BY DEF PointTotal, MapThenSumSet, MapThenFoldSet, PointSum
<1> HIDE DEF body
<1> QED BY <1>2, <1>3 DEF Sums

-----------------------------------------------------------------------------
(* The buckets of one size part the blocks of a range.                       *)

\* The bucket sizes, each a whole number of the smaller ones.
LEMMA SizesAre ==
  /\ Hour \in Nat \ {0} /\ SixHours \in Nat \ {0} /\ Day \in Nat \ {0}
  /\ Five \in Nat \ {0} /\ Week \in Nat \ {0} /\ Month \in Nat \ {0}
  /\ Five < Hour /\ Hour # Fine /\ Hour < SixHours /\ SixHours < Day /\ Day < Week /\ Week < Month
  /\ Multiple(Hour, SixHours) /\ Multiple(SixHours, Day) /\ Multiple(Hour, Day) /\ Multiple(Five, Hour)
  /\ Multiple(Day, Week) /\ Multiple(Day, Month)
  /\ Sizes = {Fine, Hour, SixHours, Day} /\ Sizes \subseteq Nat \ {0}
  /\ Coarse \subseteq Sizes /\ Coarse \subseteq Nat \ {0} /\ Fine \notin Coarse
  /\ \A z \in Coarse : z # Fine /\ Hour <= z /\ z <= Day /\ Multiple(Hour, z) /\ Multiple(z, Day)
<1>1. /\ Hour \in Nat \ {0} /\ SixHours \in Nat \ {0} /\ Day \in Nat \ {0}
      /\ Five \in Nat \ {0} /\ Week \in Nat \ {0} /\ Month \in Nat \ {0}
      /\ Five < Hour /\ Hour < SixHours /\ SixHours < Day /\ Day < Week /\ Week < Month
  BY RollupSizes, ReadSizes
<1>2. /\ Multiple(Hour, SixHours) /\ Multiple(SixHours, Day) /\ Multiple(Hour, Day) /\ Multiple(Five, Hour)
      /\ Multiple(Day, Week) /\ Multiple(Day, Month)
  <2>1. SixHours % Hour = 0 /\ Day % SixHours = 0 /\ Day % Hour = 0 /\ Hour % Five = 0
        /\ Week % Day = 0 /\ Month % Day = 0
    BY RollupSizes, ReadSizes
  <2>2. Multiple(Hour, SixHours)
    BY <1>1, <2>1, MultipleIs
  <2>3. Multiple(SixHours, Day)
    BY <1>1, <2>1, MultipleIs
  <2>4. Multiple(Hour, Day)
    BY <1>1, <2>1, MultipleIs
  <2>5. Multiple(Five, Hour)
    BY <1>1, <2>1, MultipleIs
  <2>6. Multiple(Day, Week)
    BY <1>1, <2>1, MultipleIs
  <2>7. Multiple(Day, Month)
    BY <1>1, <2>1, MultipleIs
  <2> QED BY <2>2, <2>3, <2>4, <2>5, <2>6, <2>7
<1>3. Multiple(Hour, Hour) /\ Multiple(Day, Day)
  BY <1>1, SelfMultiple
<1>4. Fine = 1 /\ Fine # Hour /\ Fine # SixHours /\ Fine # Day
  BY <1>1 DEF Fine
<1>5. Coarse = {Hour, SixHours, Day} /\ Sizes = {Fine, Hour, SixHours, Day}
  BY DEF Coarse, Sizes
<1>6. \A z \in Coarse : z # Fine /\ Hour <= z /\ z <= Day /\ Multiple(Hour, z) /\ Multiple(z, Day)
  BY <1>1, <1>2, <1>3, <1>4, <1>5
<1> QED BY <1>1, <1>2, <1>4, <1>5, <1>6

\* A key is a size and a bucket of it.
LEMMA KeyIs ==
  ASSUME NEW k \in BucketKeys
  PROVE  k = <<k[1], k[2]>> /\ k[1] \in Sizes /\ k[1] \in Nat \ {0} /\ k[2] \in Nat /\ Multiple(k[1], k[2])
<1>1. PICK z \in Sizes, h \in Heights : k = <<z, Bucket(z, TimeOf[h])>>
  BY DEF BucketKeys
<1>2. z \in Nat \ {0} /\ TimeOf[h] \in Nat
  BY SizesAre, RollupSizes
<1>3. Bucket(z, TimeOf[h]) \in Nat /\ Multiple(z, Bucket(z, TimeOf[h]))
  BY <1>2, BucketIs
<1> QED BY <1>1, <1>2, <1>3

\* There are finitely many keys.
LEMMA KeysFinite == IsFiniteSet(BucketKeys)
<1> DEFINE P == Sizes \X Heights
           f == [p \in P |-> <<p[1], Bucket(p[1], TimeOf[p[2]])>>]
<1>1. IsFiniteSet((({Fine} \cup {Hour}) \cup {SixHours}) \cup {Day})
  BY FS_Singleton, FS_AddElement
<1>2. Sizes = (({Fine} \cup {Hour}) \cup {SixHours}) \cup {Day}
  BY SizesAre
<1>3. IsFiniteSet(P)
  BY <1>1, <1>2, RollupSizes, FS_Product
<1>4. f \in [P -> BucketKeys] /\ \A k \in BucketKeys : \E p \in P : f[p] = k
  <2>1. \A z \in Sizes, h \in Heights : <<z, h>> \in P /\ f[<<z, h>>] = <<z, Bucket(z, TimeOf[h])>>
    OBVIOUS
  <2>2. \A k \in BucketKeys : \E z \in Sizes, h \in Heights : k = <<z, Bucket(z, TimeOf[h])>>
    BY DEF BucketKeys
  <2>3. \A p \in P : <<p[1], Bucket(p[1], TimeOf[p[2]])>> \in BucketKeys
    BY DEF BucketKeys
  <2>4. f \in [P -> BucketKeys]
    BY <2>3
  <2> HIDE DEF P, f
  <2>5. ASSUME NEW k \in BucketKeys PROVE \E p \in P : f[p] = k
    <3>1. PICK z \in Sizes, h \in Heights : k = <<z, Bucket(z, TimeOf[h])>>
      BY <2>2
    <3>2. <<z, h>> \in P /\ f[<<z, h>>] = k
      BY <2>1, <3>1
    <3> QED BY <3>2
  <2> QED BY <2>4, <2>5
<1>5. f \in Surjection(P, BucketKeys)
  BY <1>4 DEF Surjection
<1> HIDE DEF P, f
<1> QED BY <1>3, <1>5, FS_Surjection

\* The blocks of a bucket.
LEMMA BucketHolds ==
  ASSUME NEW k \in BucketKeys, NEW rows
  PROVE  BlocksIn(rows, k[2], k[2] + k[1]) = {h \in Heights : rows[h].present /\ Bucket(k[1], TimeOf[h]) = k[2]}
<1>1. k[1] \in Nat \ {0} /\ k[2] \in Int /\ Multiple(k[1], k[2])
  BY KeyIs
<1>2. \A h \in Heights : TimeOf[h] \in Int
  BY RollupSizes
<1>3. \A h \in Heights : (TimeOf[h] >= k[2] /\ TimeOf[h] < k[2] + k[1]) <=> k[2] = Bucket(k[1], TimeOf[h])
  BY <1>1, <1>2, BucketOf
<1> QED BY <1>3 DEF BlocksIn

\* A bound that cuts no bucket with a block.
Whole(rows, z, a) ==
  \A h \in Heights : rows[h].present => (TimeOf[h] < a <=> Bucket(z, TimeOf[h]) < a)

\* A bound on a bucket cuts none.
LEMMA MultiplesWhole ==
  ASSUME NEW rows, NEW z \in Nat \ {0}, NEW a \in Int, Multiple(z, a)
  PROVE  Whole(rows, z, a)
<1>1. \A h \in Heights : TimeOf[h] \in Int
  BY RollupSizes
<1> QED BY <1>1, BucketBound DEF Whole

\* The blocks of each bucket that starts in a range.
BlocksPer(rows, keys) == [k \in keys |-> BlocksIn(rows, k[2], k[2] + k[1])]
Parted(rows, keys, blocks) ==
  /\ IsFiniteSet(keys) /\ Apart(BlocksPer(rows, keys), keys)
  /\ PartsUnited(BlocksPer(rows, keys), keys) = blocks

\* The buckets of one size between two such bounds part the blocks there.
LEMMA BucketsPart ==
  ASSUME NEW rows, NEW z \in Sizes, NEW from \in Int, NEW to \in Int, Whole(rows, z, from), Whole(rows, z, to)
  PROVE  Parted(rows, MetricKeys(z, from, to), BlocksIn(rows, from, to))
<1> DEFINE keys == MetricKeys(z, from, to)  U == BlocksPer(rows, keys)
<1>1. keys \subseteq BucketKeys /\ \A k \in keys : k[1] = z
  BY DEF MetricKeys
<1>2. IsFiniteSet(keys)
  BY <1>1, KeysFinite, FS_Subset
<1>3. ASSUME NEW k \in keys
      PROVE  U[k] = {h \in Heights : rows[h].present /\ Bucket(z, TimeOf[h]) = k[2]}
  BY <1>1, BucketHolds DEF BlocksPer
<1>4. ASSUME NEW x \in keys, NEW y \in keys, x # y
      PROVE  U[x] \cap U[y] = {}
  <2>1. x[2] # y[2]
    BY <1>1, <1>4, KeyIs
  <2> QED BY <1>3, <2>1
<1>5. ASSUME NEW h \in BlocksIn(rows, from, to)
      PROVE  \E k \in keys : h \in U[k]
  <2> DEFINE k == <<z, Bucket(z, TimeOf[h])>>
  <2>1. h \in Heights /\ rows[h].present /\ TimeOf[h] >= from /\ TimeOf[h] < to /\ TimeOf[h] \in Int
    BY RollupSizes DEF BlocksIn
  <2>2. k \in BucketKeys /\ k[1] = z /\ k[2] = Bucket(z, TimeOf[h])
    BY <2>1 DEF BucketKeys
  <2>3. Bucket(z, TimeOf[h]) \in Int
    BY <2>1, SizesAre, BucketIs
  <2>4. ~(TimeOf[h] < from)
    BY <2>1
  <2>5. ~(k[2] < from) /\ k[2] < to
    BY <2>1, <2>2, <2>4 DEF Whole
  <2>6. k[2] >= from
    BY <2>2, <2>3, <2>5
  <2>7. k \in keys
    BY <2>2, <2>5, <2>6 DEF MetricKeys
  <2>8. h \in U[k]
    BY <1>3, <2>1, <2>2, <2>7
  <2> QED BY <2>7, <2>8
<1>6. ASSUME NEW k \in keys, NEW h \in U[k]
      PROVE  h \in BlocksIn(rows, from, to)
  <2>1. h \in Heights /\ rows[h].present /\ Bucket(z, TimeOf[h]) = k[2]
    BY <1>3, <1>6
  <2>2. k[2] >= from /\ k[2] < to /\ k[2] \in Int
    BY <1>1, KeyIs DEF MetricKeys
  <2>3. TimeOf[h] \in Int
    BY <2>1, RollupSizes
  <2>4. ~(k[2] < from)
    BY <2>2
  <2>5. TimeOf[h] < to /\ ~(TimeOf[h] < from)
    BY <2>1, <2>2, <2>4 DEF Whole
  <2>6. TimeOf[h] >= from
    BY <2>3, <2>5
  <2> QED BY <2>1, <2>5, <2>6 DEF BlocksIn
<1> HIDE DEF keys, U
<1>7. Apart(U, keys)
  BY <1>4 DEF Apart
<1>8. PartsUnited(U, keys) = BlocksIn(rows, from, to)
  BY <1>5, <1>6 DEF PartsUnited
<1> QED BY <1>2, <1>7, <1>8 DEF Parted, keys, U

-----------------------------------------------------------------------------
(* What the rows of a range hold, part by part.                              *)

\* A partition of blocks, and something that every block has of its own.
Partition(U, keys, blocks) ==
  IsFiniteSet(keys) /\ Apart(U, keys) /\ PartsUnited(U, keys) = blocks /\ blocks \in SUBSET Heights
Owned(W) == \A x \in Heights : IsFiniteSet(W[x]) /\ \A y \in Heights : x # y => W[x] \cap W[y] = {}

\* What each block owns, summed over a partition of the blocks.
LEMMA SpreadSum ==
  ASSUME NEW U, NEW keys, NEW blocks, Partition(U, keys, blocks), NEW W, Owned(W),
         NEW v, \A k \in keys : v[k] = Cardinality(PartsUnited(W, U[k]))
  PROVE  Sums(v, keys, Cardinality(PartsUnited(W, blocks)))
<1> DEFINE V == [k \in keys |-> PartsUnited(W, U[k])]
<1>1. /\ IsFiniteSet(keys) /\ PartsUnited(U, keys) = blocks /\ blocks \in SUBSET Heights
      /\ \A x, y \in keys : x # y => U[x] \cap U[y] = {}
  BY DEF Partition, Apart
<1>2. \A k \in keys : U[k] \in SUBSET blocks
  BY <1>1 DEF PartsUnited
<1>3. ASSUME NEW k \in keys PROVE IsFiniteSet(V[k])
  <2>1. U[k] \in SUBSET Heights
    BY <1>1, <1>2
  <2>2. IsFiniteSet(U[k])
    BY <2>1, RollupSizes, FS_Subset
  <2>3. \A x \in U[k] : IsFiniteSet(W[x])
    BY <2>1 DEF Owned
  <2> QED BY <2>2, <2>3, UnitedFinite
<1>4. ASSUME NEW x \in keys, NEW y \in keys, x # y
      PROVE  V[x] \cap V[y] = {}
  <2>1. ASSUME NEW a \in U[x], NEW b \in U[y] PROVE W[a] \cap W[b] = {}
    <3>1. a # b /\ a \in Heights /\ b \in Heights
      BY <1>1, <1>2, <1>4
    <3> QED BY <3>1 DEF Owned
  <2> QED BY <2>1 DEF PartsUnited
<1>5. PartsUnited(V, keys) = PartsUnited(W, blocks)
  <2>1. \A k \in keys : V[k] = UNION {W[x] : x \in U[k]}
    BY DEF PartsUnited
  <2>2. \A x : x \in blocks <=> \E k \in keys : x \in U[k]
    BY <1>1 DEF PartsUnited
  <2> HIDE DEF V
  <2>3. ASSUME NEW p PROVE p \in PartsUnited(V, keys) <=> p \in PartsUnited(W, blocks)
    <3>1. p \in PartsUnited(V, keys) <=> \E k \in keys : p \in V[k]
      BY DEF PartsUnited
    <3>2. p \in PartsUnited(W, blocks) <=> \E x \in blocks : p \in W[x]
      BY DEF PartsUnited
    <3> QED BY <2>1, <2>2, <3>1, <3>2
  <2> QED BY <2>3
<1>6. Counted(V, keys)
  <2> HIDE DEF V
  <2> QED BY <1>3, <1>4 DEF Counted, Apart
<1>7. \A k \in keys : v[k] = Cardinality(V[k])
  OBVIOUS
<1> HIDE DEF V
<1> QED BY <1>1, <1>5, <1>6, <1>7, SumsTo

\* The blocks themselves, those of them whose fee is recorded, their blobs, and
\* those of one sender.
Itself == [h \in Heights |-> {h}]
ItselfPriced(rows) == [h \in Heights |-> {x \in {h} : rows[x].priced}]
ItsBlobs(rows) == [h \in Heights |-> {h} \X DOMAIN rows[h].blobs]
ItsBlobsBy(rows, s) == [h \in Heights |-> {h} \X Own(rows[h].blobs, s)]

\* The rows of a table.
Rows(rows) == rows \in [Heights -> Blocks] /\ \A h \in Heights : ~rows[h].present => rows[h].blobs = <<>>

\* The block itself, its fee and its blobs are its own.
LEMMA AreOwned ==
  ASSUME NEW rows, Rows(rows)
  PROVE  /\ Owned(Itself) /\ Owned(ItselfPriced(rows)) /\ Owned(ItsBlobs(rows))
         /\ \A s : Owned(ItsBlobsBy(rows, s))
<1>1. \A h \in Heights : rows[h].blobs \in Seq(Senders)
  BY DEF Rows, Blocks
<1>2. ASSUME NEW h \in Heights, NEW s
      PROVE  IsFiniteSet({h} \X DOMAIN rows[h].blobs) /\ IsFiniteSet({h} \X Own(rows[h].blobs, s))
  <2>1. IsFiniteSet(DOMAIN rows[h].blobs) /\ IsFiniteSet(Own(rows[h].blobs, s))
    BY <1>1, BlobsFinite
  <2> QED BY <2>1, PairsOf
<1>3. \A h \in Heights : IsFiniteSet({h}) /\ IsFiniteSet({x \in {h} : rows[x].priced})
  <2> TAKE h \in Heights
  <2>1. IsFiniteSet({h}) /\ {x \in {h} : rows[x].priced} \in SUBSET {h}
    BY FS_Singleton
  <2> QED BY <2>1, FS_Subset
<1>4. Owned(Itself)
  BY <1>3 DEF Owned, Itself
<1>5. Owned(ItselfPriced(rows))
  BY <1>3 DEF Owned, ItselfPriced
<1>6. Owned(ItsBlobs(rows))
  BY <1>2 DEF Owned, ItsBlobs
<1>7. \A s : Owned(ItsBlobsBy(rows, s))
  BY <1>2 DEF Owned, ItsBlobsBy
<1> QED BY <1>4, <1>5, <1>6, <1>7

\* What the blocks of a set own: the blocks, the priced ones, their blobs ..
LEMMA AreThose ==
  ASSUME NEW rows, NEW S \in SUBSET Heights
  PROVE  /\ PartsUnited(Itself, S) = S
         /\ PartsUnited(ItselfPriced(rows), S) = {h \in S : rows[h].priced}
         /\ PartsUnited(ItsBlobs(rows), S) = Placed(rows, S)
<1>1. PartsUnited(Itself, S) = S
  BY DEF PartsUnited, Itself
<1>2. PartsUnited(ItselfPriced(rows), S) = {h \in S : rows[h].priced}
  <2>1. \A h \in S : ItselfPriced(rows)[h] = {x \in {h} : rows[x].priced}
    BY DEF ItselfPriced
  <2> QED BY <2>1 DEF PartsUnited
<1>3. PartsUnited(ItsBlobs(rows), S) = Placed(rows, S)
  <2>1. \A h \in S : ItsBlobs(rows)[h] = {h} \X DOMAIN rows[h].blobs
    BY DEF ItsBlobs
  <2> QED BY <2>1 DEF PartsUnited, Placed
<1> QED BY <1>1, <1>2, <1>3

\* .. and their blobs of one sender.
LEMMA AreThoseBy ==
  ASSUME NEW rows, NEW S \in SUBSET Heights, NEW s
  PROVE  PartsUnited(ItsBlobsBy(rows, s), S) = PlacedBy(rows, S, s)
<1>1. \A h \in S : ItsBlobsBy(rows, s)[h] = {h} \X Own(rows[h].blobs, s)
  BY DEF ItsBlobsBy
<1> QED BY <1>1 DEF PartsUnited, PlacedBy

\* What the raw rows of a range say is what they hold.
LEMMA RawCounted ==
  ASSUME NEW rows, Rows(rows), NEW from, NEW to, NEW s
  PROVE  /\ BlobsOf(rows, from, to, s) = Cardinality(PlacedBy(rows, BlocksIn(rows, from, to), s))
         /\ BlobsOf(rows, from, to, s) \in Nat
<1> DEFINE in == BlocksIn(rows, from, to)
<1>1. in \in SUBSET Heights
  BY DEF BlocksIn
<1> HIDE DEF in
<1>2. IsFiniteSet(in)
  BY <1>1, RollupSizes, FS_Subset
<1>3. \A h \in in : rows[h].blobs \in Seq(Senders)
  BY <1>1 DEF Rows, Blocks
<1>4. \A h \in in : IsFiniteSet(DOMAIN rows[h].blobs)
  BY <1>3, BlobsFinite
<1>5. /\ IsFiniteSet(PlacedBy(rows, in, s))
      /\ MapThenSumSet(LAMBDA h : Count(rows[h].blobs, s), in) = Cardinality(PlacedBy(rows, in, s))
  BY <1>2, <1>4, CountSum
<1>6. BlobsOf(rows, from, to, s) = MapThenSumSet(LAMBDA h : Count(rows[h].blobs, s), in)
  BY DEF BlobsOf, in
<1>7. Cardinality(PlacedBy(rows, in, s)) \in Nat
  BY <1>5, FS_CardinalityType
<1> QED BY <1>5, <1>6, <1>7 DEF in

\* The metrics of raw rows are numbers of blocks, of blobs and of priced blocks.
LEMMA RawReads ==
  ASSUME NEW rows, Rows(rows), NEW from, NEW to
  PROVE  /\ BlocksIn(rows, from, to) \in SUBSET Heights /\ IsFiniteSet(BlocksIn(rows, from, to))
         /\ Sequences(rows, BlocksIn(rows, from, to))
         /\ MetricsOf(rows, from, to).blocks = Cardinality(BlocksIn(rows, from, to))
         /\ MetricsOf(rows, from, to).blobs = Cardinality(Placed(rows, BlocksIn(rows, from, to)))
         /\ MetricsOf(rows, from, to).priced = Cardinality({h \in BlocksIn(rows, from, to) : rows[h].priced})
         /\ MetricsOf(rows, from, to) \in Metrics
<1> DEFINE in == BlocksIn(rows, from, to)  is == MetricsOf(rows, from, to)
<1>1. in \in SUBSET Heights
  BY DEF BlocksIn
<1>2. IsFiniteSet(in) /\ IsFiniteSet({h \in in : rows[h].priced})
  <2> HIDE DEF in
  <2>1. {h \in in : rows[h].priced} \in SUBSET in
    OBVIOUS
  <2>2. IsFiniteSet(in)
    BY <1>1, RollupSizes, FS_Subset
  <2> QED BY <2>1, <2>2, FS_Subset
<1>3. \A h \in in : rows[h].blobs \in Seq(Senders)
  BY <1>1 DEF Rows, Blocks
<1>5. /\ is.blocks = Cardinality(in)
      /\ is.blobs = MapThenSumSet(LAMBDA h : Len(rows[h].blobs), in)
      /\ is.priced = Cardinality({h \in in : rows[h].priced})
      /\ is = [blocks |-> is.blocks, blobs |-> is.blobs, priced |-> is.priced]
  BY DEF MetricsOf
<1> HIDE DEF in, is
<1>7. IsFiniteSet(Placed(rows, in)) /\ is.blobs = Cardinality(Placed(rows, in))
  <2>1. /\ IsFiniteSet(Placed(rows, in))
        /\ MapThenSumSet(LAMBDA h : Len(rows[h].blobs), in) = Cardinality(Placed(rows, in))
    BY <1>2, <1>3, LenSum
  <2> QED BY <1>5, <2>1
<1>9. is.blocks \in Nat /\ is.blobs \in Nat /\ is.priced \in Nat
  BY <1>2, <1>5, <1>7, FS_CardinalityType
<1>10. is \in Metrics
  BY <1>5, <1>9 DEF Metrics
<1> QED BY <1>1, <1>2, <1>3, <1>5, <1>7, <1>10 DEF in, is, Sequences

-----------------------------------------------------------------------------
(* Reads of buckets that say what the rows say.                              *)

CountsRight(keys) ==
  \A k \in keys : \A s \in Senders : blobRollups[<<k[1], k[2], s>>] = BlobsOf(stored, k[2], k[2] + k[1], s)
BlocksRight(keys) ==
  \A k \in keys : /\ metricRollups[k].blocks = MetricsOf(stored, k[2], k[2] + k[1]).blocks
                  /\ metricRollups[k].blobs = MetricsOf(stored, k[2], k[2] + k[1]).blobs
FeesRight(keys) ==
  \A k \in keys : metricRollups[k].priced = MetricsOf(stored, k[2], k[2] + k[1]).priced

\* A read of whole buckets.
Aligned(z, from, to) ==
  z \in Sizes /\ from \in Int /\ to \in Int /\ Whole(stored, z, from) /\ Whole(stored, z, to)

\* A read of whole buckets reads a partition of the blocks of its range.
LEMMA AlignedParts ==
  ASSUME NEW z, NEW from, NEW to, Aligned(z, from, to)
  PROVE  LET keys == MetricKeys(z, from, to)
         IN  /\ Partition(BlocksPer(stored, keys), keys, BlocksIn(stored, from, to)) /\ IsFiniteSet(keys)
             /\ \A k \in keys : /\ BlocksPer(stored, keys)[k] = BlocksIn(stored, k[2], k[2] + k[1])
                                /\ BlocksPer(stored, keys)[k] \in SUBSET Heights
<1> DEFINE keys == MetricKeys(z, from, to)
<1>1. Parted(stored, keys, BlocksIn(stored, from, to))
  BY BucketsPart DEF Aligned
<1>2. BlocksIn(stored, from, to) \in SUBSET Heights
  BY DEF BlocksIn
<1>3. \A k \in keys : /\ BlocksPer(stored, keys)[k] = BlocksIn(stored, k[2], k[2] + k[1])
                      /\ BlocksPer(stored, keys)[k] \in SUBSET Heights
  BY DEF BlocksPer, BlocksIn
<1> HIDE DEF keys
<1> QED BY <1>1, <1>2, <1>3 DEF Partition, Parted, keys

\* Right buckets sum to what the raw rows say: blocks and blobs ..
LEMMA RolledBlocks ==
  ASSUME Rows(stored), NEW z, NEW from, NEW to, Aligned(z, from, to), BlocksRight(MetricKeys(z, from, to))
  PROVE  /\ SumMetrics(MetricKeys(z, from, to)).blocks = MetricsOf(stored, from, to).blocks
         /\ SumMetrics(MetricKeys(z, from, to)).blobs = MetricsOf(stored, from, to).blobs
<1> DEFINE keys == MetricKeys(z, from, to)  U == BlocksPer(stored, keys)  in == BlocksIn(stored, from, to)
           v == [k \in keys |-> metricRollups[k].blocks]  w == [k \in keys |-> metricRollups[k].blobs]
<1>1. /\ Partition(U, keys, in)
      /\ \A k \in keys : U[k] = BlocksIn(stored, k[2], k[2] + k[1]) /\ U[k] \in SUBSET Heights
  BY AlignedParts
<1>2. /\ SumMetrics(keys).blocks = BlocksTotal(metricRollups, keys)
      /\ SumMetrics(keys).blobs = BlobsTotal(metricRollups, keys)
  BY DEF SumMetrics, BlocksTotal, BlobsTotal, PricedTotal
<1>3. in \in SUBSET Heights /\ BlocksRight(keys)
  BY DEF BlocksIn
<1>4. MetricsOf(stored, from, to).blocks = Cardinality(in) /\ MetricsOf(stored, from, to).blobs = Cardinality(Placed(stored, in))
  BY RawReads
<1> HIDE DEF keys, U, in
<1>5. ASSUME NEW k \in keys
      PROVE  /\ v[k] = Cardinality(PartsUnited(Itself, U[k]))
             /\ w[k] = Cardinality(PartsUnited(ItsBlobs(stored), U[k]))
  <2>1. PartsUnited(Itself, U[k]) = U[k] /\ PartsUnited(ItsBlobs(stored), U[k]) = Placed(stored, U[k])
    BY <1>1, AreThose
  <2> DEFINE a == k[2]  b == k[2] + k[1]
  <2> HIDE DEF a, b
  <2>2. /\ MetricsOf(stored, a, b).blocks = Cardinality(BlocksIn(stored, a, b))
        /\ MetricsOf(stored, a, b).blobs = Cardinality(Placed(stored, BlocksIn(stored, a, b)))
    BY RawReads
  <2> QED BY <1>1, <1>3, <2>1, <2>2 DEF BlocksRight, a, b
<1>6. PartsUnited(Itself, in) = in /\ PartsUnited(ItsBlobs(stored), in) = Placed(stored, in)
  BY <1>3, AreThose
<1>7. Owned(Itself) /\ Owned(ItsBlobs(stored))
  BY AreOwned
<1>11. \A k \in keys : v[k] = metricRollups[k].blocks /\ w[k] = metricRollups[k].blobs
  OBVIOUS
<1> HIDE DEF v, w
<1>8. Sums(v, keys, Cardinality(in)) /\ Sums(w, keys, Cardinality(Placed(stored, in)))
  <2>1. Sums(v, keys, Cardinality(PartsUnited(Itself, in)))
    BY <1>1, <1>5, <1>7, SpreadSum
  <2>2. Sums(w, keys, Cardinality(PartsUnited(ItsBlobs(stored), in)))
    BY <1>1, <1>5, <1>7, SpreadSum
  <2> QED BY <1>6, <2>1, <2>2
<1>9. BlocksTotal(metricRollups, keys) = Cardinality(in)
  BY <1>8, <1>11, BlocksTotalIs
<1>10. BlobsTotal(metricRollups, keys) = Cardinality(Placed(stored, in))
  BY <1>8, <1>11, BlobsTotalIs
<1> QED BY <1>2, <1>4, <1>9, <1>10 DEF keys

\* .. priced blocks ..
LEMMA RolledFees ==
  ASSUME Rows(stored), NEW z, NEW from, NEW to, Aligned(z, from, to), FeesRight(MetricKeys(z, from, to))
  PROVE  SumMetrics(MetricKeys(z, from, to)).priced = MetricsOf(stored, from, to).priced
<1> DEFINE keys == MetricKeys(z, from, to)  U == BlocksPer(stored, keys)  in == BlocksIn(stored, from, to)
           v == [k \in keys |-> metricRollups[k].priced]
<1>1. /\ Partition(U, keys, in)
      /\ \A k \in keys : U[k] = BlocksIn(stored, k[2], k[2] + k[1]) /\ U[k] \in SUBSET Heights
  BY AlignedParts
<1>2. SumMetrics(keys).priced = PricedTotal(metricRollups, keys)
  BY DEF SumMetrics, BlocksTotal, BlobsTotal, PricedTotal
<1>3. in \in SUBSET Heights /\ FeesRight(keys)
  BY DEF BlocksIn
<1>4. MetricsOf(stored, from, to).priced = Cardinality({h \in in : stored[h].priced})
  BY RawReads
<1> HIDE DEF keys, U, in
<1>5. ASSUME NEW k \in keys
      PROVE  v[k] = Cardinality(PartsUnited(ItselfPriced(stored), U[k]))
  <2>1. PartsUnited(ItselfPriced(stored), U[k]) = {h \in U[k] : stored[h].priced}
    BY <1>1, AreThose
  <2>2. MetricsOf(stored, k[2], k[2] + k[1]).priced = Cardinality({h \in U[k] : stored[h].priced})
    BY <1>1, RawReads
  <2> QED BY <1>3, <2>1, <2>2 DEF FeesRight
<1>6. PartsUnited(ItselfPriced(stored), in) = {h \in in : stored[h].priced}
  BY <1>3, AreThose
<1>9. \A k \in keys : v[k] = metricRollups[k].priced
  OBVIOUS
<1> HIDE DEF v
<1>7. Sums(v, keys, Cardinality(PartsUnited(ItselfPriced(stored), in)))
  BY <1>1, <1>5, AreOwned, SpreadSum
<1>8. PricedTotal(metricRollups, keys) = Cardinality({h \in in : stored[h].priced})
  BY <1>6, <1>7, <1>9, PricedTotalIs
<1> QED BY <1>2, <1>4, <1>8 DEF keys

\* .. and the blobs of a sender ..
LEMMA RolledCount ==
  ASSUME Rows(stored), NEW z, NEW from, NEW to, Aligned(z, from, to), CountsRight(MetricKeys(z, from, to)),
         NEW s \in Senders
  PROVE  SenderCount(z, from, to, s) = BlobsOf(stored, from, to, s)
<1> DEFINE keys == MetricKeys(z, from, to)  U == BlocksPer(stored, keys)  in == BlocksIn(stored, from, to)
           v == [k \in keys |-> CountAt(blobRollups, k, s)]
<1>1. /\ Partition(U, keys, in)
      /\ \A k \in keys : U[k] = BlocksIn(stored, k[2], k[2] + k[1]) /\ U[k] \in SUBSET Heights
  BY AlignedParts
<1>2. SenderCount(z, from, to, s) = CountTotal(blobRollups, keys, s)
  BY DEF SenderCount, CountTotal
<1>3. in \in SUBSET Heights /\ CountsRight(keys)
  BY DEF BlocksIn
<1>4. BlobsOf(stored, from, to, s) = Cardinality(PlacedBy(stored, in, s))
  BY RawCounted
<1> HIDE DEF keys, U, in
<1>5. ASSUME NEW k \in keys
      PROVE  v[k] = Cardinality(PartsUnited(ItsBlobsBy(stored, s), U[k]))
  <2>1. PartsUnited(ItsBlobsBy(stored, s), U[k]) = PlacedBy(stored, U[k], s)
    BY <1>1, AreThoseBy
  <2>2. BlobsOf(stored, k[2], k[2] + k[1], s) = Cardinality(PlacedBy(stored, BlocksIn(stored, k[2], k[2] + k[1]), s))
    BY RawCounted
  <2> QED BY <1>1, <1>3, <2>1, <2>2 DEF CountsRight, CountAt
<1>6. PartsUnited(ItsBlobsBy(stored, s), in) = PlacedBy(stored, in, s)
  BY <1>3, AreThoseBy
<1>9. \A k \in keys : v[k] = CountAt(blobRollups, k, s)
  OBVIOUS
<1> HIDE DEF v
<1>7. Sums(v, keys, Cardinality(PartsUnited(ItsBlobsBy(stored, s), in)))
  BY <1>1, <1>5, AreOwned, SpreadSum
<1>8. CountTotal(blobRollups, keys, s) = Cardinality(PlacedBy(stored, in, s))
  BY <1>6, <1>7, <1>9, CountTotalIs
<1> QED BY <1>2, <1>4, <1>8 DEF keys

\* .. or of all.
LEMMA RolledCountsRight ==
  ASSUME Rows(stored), NEW z, NEW from, NEW to, Aligned(z, from, to), CountsRight(MetricKeys(z, from, to))
  PROVE  RolledCounts(z, from, to) = RawCounts(from, to)
BY RolledCount DEF RolledCounts, RawCounts

-----------------------------------------------------------------------------
(* What charts and windows show.                                             *)

\* A point of buckets that say what the rows say.
LEMMA PointRead ==
  ASSUME Rows(stored), NEW z, NEW from, NEW to, Aligned(z, from, to),
         BlocksRight(MetricKeys(z, from, to)), CountsRight(MetricKeys(z, from, to))
  PROVE  MarketPoint(SumMetrics(MetricKeys(z, from, to)), RolledCounts(z, from, to))
           = MarketPoint(MetricsOf(stored, from, to), RawCounts(from, to))
<1> DEFINE m == SumMetrics(MetricKeys(z, from, to))  n == MetricsOf(stored, from, to)
<1>1. RolledCounts(z, from, to) = RawCounts(from, to)
  BY RolledCountsRight
<1>2. m.blocks = n.blocks /\ m.blobs = n.blobs
  BY RolledBlocks
<1> HIDE DEF m, n
<1>3. \A c : MarketPoint(m, c) = MarketPoint(n, c)
  BY <1>2 DEF MarketPoint
<1> QED BY <1>1, <1>3 DEF m, n

\* Part of a range whose buckets are right.
LEMMA Narrowed ==
  ASSUME NEW z, NEW from \in Int, NEW to \in Int, NEW a \in Int, NEW b \in Int, from <= a, b <= to
  PROVE  MetricKeys(z, a, b) \subseteq MetricKeys(z, from, to)
<1>1. \A k \in BucketKeys : k[2] \in Int
  BY KeyIs
<1> QED BY <1>1 DEF MetricKeys

\* A chart whose points are whole buckets of its source.
Charted(r) ==
  /\ r.source \in Sizes /\ r.bucket \in Nat \ {0} /\ r.from \in Int /\ r.to \in Int
  /\ Multiple(r.source, r.bucket) /\ Multiple(r.bucket, r.from) /\ Multiple(r.bucket, r.to)

\* A point of such a chart reads whole buckets of its range.
LEMMA PointsAligned ==
  ASSUME NEW r, Charted(r), NEW t \in DisplayBuckets(r)
  PROVE  /\ t \in Int /\ t + r.bucket \in Int /\ r.from <= t /\ t + r.bucket <= r.to /\ Multiple(r.bucket, t)
         /\ Aligned(r.source, t, t + r.bucket)
         /\ MetricKeys(r.source, t, t + r.bucket) \subseteq MetricKeys(r.source, r.from, r.to)
<1> DEFINE b == r.bucket
<1>1. /\ r.source \in Nat \ {0} /\ b \in Nat \ {0} /\ r.from \in Int /\ r.to \in Int
      /\ Multiple(r.source, b) /\ Multiple(b, r.from) /\ Multiple(b, r.to)
  BY SizesAre DEF Charted
<1>2. t \in r.from..(r.to - 1) /\ t % b = 0
  BY DEF DisplayBuckets
<1> HIDE DEF b
<1>3. t \in Int /\ r.from <= t /\ t < r.to /\ t + b \in Int
  BY <1>1, <1>2
<1>4. Multiple(b, t)
  BY <1>1, <1>2, <1>3, MultipleIs
<1>5. Multiple(b, t + b)
  BY <1>1, <1>3, <1>4, MultipleSum
<1>6. t + b <= r.to
  <2>1. t + b < r.to + b
    BY <1>1, <1>3
  <2> QED BY <1>1, <1>3, <1>5, <2>1, MultiplesApart
<1>7. Multiple(r.source, t) /\ Multiple(r.source, t + b)
  BY <1>1, <1>3, <1>4, <1>5, MultipleOfMultiple
<1>8. Whole(stored, r.source, t) /\ Whole(stored, r.source, t + b)
  BY <1>1, <1>3, <1>7, MultiplesWhole
<1>9. Aligned(r.source, t, t + b)
  BY <1>3, <1>8 DEF Aligned, Charted
<1>10. MetricKeys(r.source, t, t + b) \subseteq MetricKeys(r.source, r.from, r.to)
  BY <1>1, <1>3, <1>6, Narrowed
<1> QED BY <1>3, <1>4, <1>6, <1>9, <1>10 DEF b

\* Right buckets are right in any part of the range.
LEMMA PointsRight ==
  ASSUME NEW r, Charted(r), NEW t \in DisplayBuckets(r)
  PROVE  LET all == MetricKeys(r.source, r.from, r.to)
             some == MetricKeys(r.source, t, t + r.bucket)
         IN  /\ CountsRight(all) => CountsRight(some)
             /\ BlocksRight(all) => BlocksRight(some)
             /\ FeesRight(all) => FeesRight(some)
<1>1. MetricKeys(r.source, t, t + r.bucket) \subseteq MetricKeys(r.source, r.from, r.to)
  BY PointsAligned
<1> QED BY <1>1 DEF CountsRight, BlocksRight, FeesRight

\* The points part the blocks of the chart.
PerPoint(r) == [t \in DisplayBuckets(r) |-> BlocksIn(stored, t, t + r.bucket)]

\* The points part the blocks of the range.
LEMMA PointsPart ==
  ASSUME NEW r, Charted(r)
  PROVE  Partition(PerPoint(r), DisplayBuckets(r), BlocksIn(stored, r.from, r.to))
<1> DEFINE b == r.bucket  keys == DisplayBuckets(r)  U == PerPoint(r)
<1>1. b \in Nat \ {0} /\ r.from \in Int /\ r.to \in Int /\ Multiple(b, r.from) /\ Multiple(b, r.to)
  BY DEF Charted
<1>2. keys = {t \in r.from..(r.to - 1) : t % b = 0}
  BY DEF DisplayBuckets
<1>3. \A t \in keys : t \in Int /\ t + b \in Int /\ r.from <= t /\ t + b <= r.to /\ Multiple(b, t)
  BY PointsAligned
<1>4. \A t \in keys : U[t] = BlocksIn(stored, t, t + b)
  BY DEF PerPoint
<1> HIDE DEF b, keys, U
<1>5. IsFiniteSet(keys)
  <2>1. IsFiniteSet(r.from..(r.to - 1)) /\ keys \in SUBSET (r.from..(r.to - 1))
    BY <1>1, <1>2, FS_Interval
  <2> QED BY <2>1, FS_Subset
<1>6. \A h \in Heights : TimeOf[h] \in Int
  BY RollupSizes
<1>7. ASSUME NEW t \in keys, NEW h \in U[t]
      PROVE  t = Bucket(b, TimeOf[h]) /\ h \in BlocksIn(stored, r.from, r.to)
  <2>1. h \in Heights /\ stored[h].present /\ TimeOf[h] >= t /\ TimeOf[h] < t + b
    BY <1>4, <1>7 DEF BlocksIn
  <2>2. t = Bucket(b, TimeOf[h])
    BY <1>1, <1>3, <1>6, <2>1, BucketOf
  <2>3. TimeOf[h] >= r.from /\ TimeOf[h] < r.to
    BY <1>1, <1>3, <1>6, <2>1
  <2> QED BY <2>1, <2>2, <2>3 DEF BlocksIn
<1>8. Apart(U, keys)
  BY <1>7 DEF Apart
<1>9. ASSUME NEW h \in BlocksIn(stored, r.from, r.to)
      PROVE  \E t \in keys : h \in U[t]
  <2> DEFINE t == Bucket(b, TimeOf[h])
  <2>1. h \in Heights /\ stored[h].present /\ TimeOf[h] >= r.from /\ TimeOf[h] < r.to /\ TimeOf[h] \in Int
    BY <1>6 DEF BlocksIn
  <2>2. t \in Int /\ t <= TimeOf[h] /\ TimeOf[h] < t + b /\ Multiple(b, t)
    BY <1>1, <2>1, BucketIs
  <2>3. t >= r.from /\ t < r.to
    BY <1>1, <2>1, BucketBound
  <2> HIDE DEF t
  <2>4. t % b = 0
    BY <1>1, <2>2, MultipleIs
  <2>5. t \in keys
    BY <1>1, <1>2, <2>2, <2>3, <2>4
  <2>6. h \in U[t]
    BY <1>4, <2>1, <2>2, <2>5 DEF BlocksIn
  <2> QED BY <2>5, <2>6
<1>10. PartsUnited(U, keys) = BlocksIn(stored, r.from, r.to)
  BY <1>7, <1>9 DEF PartsUnited
<1>11. BlocksIn(stored, r.from, r.to) \in SUBSET Heights
  BY DEF BlocksIn
<1> QED BY <1>5, <1>8, <1>10, <1>11 DEF Partition, keys, U

-----------------------------------------------------------------------------
(* The series of the usage chart.                                            *)

SeriesKeys(top) == {Unknown, Other} \cup top
SendersIn(top, key) == {s \in Senders : SeriesOf(s, top) = key}

\* Every sender belongs to one series, and there are finitely many.
LEMMA SeriesPart ==
  ASSUME NEW top, IsFiniteSet(top)
  PROVE  /\ IsFiniteSet(SeriesKeys(top))
         /\ \A s \in Senders : SeriesOf(s, top) \in SeriesKeys(top)
<1>1. IsFiniteSet({Unknown} \cup {Other})
  BY FS_Singleton, FS_AddElement
<1>2. IsFiniteSet(({Unknown} \cup {Other}) \cup top)
  BY <1>1, FS_Union
<1>3. SeriesKeys(top) = ({Unknown} \cup {Other}) \cup top
  BY DEF SeriesKeys
<1> QED BY <1>2, <1>3 DEF SeriesOf, SeriesKeys

\* The entities shown by name are finitely many.
LEMMA TopFinite ==
  ASSUME NEW counts
  PROVE  IsFiniteSet(TopEntities(counts))
<1> DEFINE U == [s \in Senders |-> {EntityOf[s]}]
<1>1. \A s \in Senders : IsFiniteSet(U[s])
  BY FS_Singleton
<1>2. PartsUnited(U, Senders) = {EntityOf[s] : s \in Senders}
  BY DEF PartsUnited
<1> HIDE DEF U
<1>3. IsFiniteSet(PartsUnited(U, Senders))
  BY <1>1, RollupSizes, UnitedFinite
<1>4. TopEntities(counts) \in SUBSET {EntityOf[s] : s \in Senders}
  BY DEF TopEntities
<1> QED BY <1>2, <1>3, <1>4, FS_Subset

\* The series of a point add up to the blobs of its blocks.
LEMMA UsagePointSum ==
  ASSUME Rows(stored), NEW S \in SUBSET Heights, NEW counts, CountsRows(counts, stored, S),
         NEW top, IsFiniteSet(top)
  PROVE  PointSum(UsagePoint(counts, top)) = Cardinality(Placed(stored, S))
<1> DEFINE U == [s \in Senders |-> PlacedBy(stored, S, s)]
           K == SeriesKeys(top)  p == UsagePoint(counts, top)
           V == [key \in K |-> PartsUnited(U, SendersIn(top, key))]
<1>1. IsFiniteSet(S) /\ \A h \in S : stored[h].blobs \in Seq(Senders)
  BY RollupSizes, FS_Subset DEF Rows, Blocks
<1>2. \A h \in S : IsFiniteSet(DOMAIN stored[h].blobs)
  BY <1>1, BlobsFinite
<1>3. ASSUME NEW s \in Senders PROVE IsFiniteSet(U[s]) /\ counts[s] = Cardinality(U[s])
  <2>1. IsFiniteSet(PlacedBy(stored, S, s))
    BY <1>1, <1>2, CountSum
  <2> QED BY <2>1 DEF CountsRows
<1>4. ASSUME NEW x \in Senders, NEW y \in Senders, x # y
      PROVE  U[x] \cap U[y] = {}
  <2>1. ASSUME NEW e, e \in PlacedBy(stored, S, x), e \in PlacedBy(stored, S, y)
        PROVE  FALSE
    <3>1. e[2] \in Own(stored[e[1]].blobs, x) /\ e[2] \in Own(stored[e[1]].blobs, y)
      BY <2>1 DEF PlacedBy
    <3> QED BY <1>4, <3>1 DEF Own
  <2> QED BY <2>1
<1>5. PartsUnited(U, Senders) = Placed(stored, S)
  <2>1. ASSUME NEW h \in S, NEW i \in DOMAIN stored[h].blobs
        PROVE  <<h, i>> \in PlacedBy(stored, S, stored[h].blobs[i]) /\ stored[h].blobs[i] \in Senders
    BY <1>1 DEF PlacedBy, Own
  <2>2. \A s \in Senders : PlacedBy(stored, S, s) \subseteq Placed(stored, S)
    BY DEF Placed, PlacedBy, Own
  <2> QED BY <2>1, <2>2 DEF PartsUnited, Placed
<1> HIDE DEF U
<1>6. \A key : SendersIn(top, key) \in SUBSET Senders
  BY DEF SendersIn
<1>7. DOMAIN p = K /\ \A key \in K : p[key] = Total(counts, SendersIn(top, key))
  BY DEF UsagePoint, SeriesKeys, SendersIn, Total
<1>8. \A s \in Senders : SeriesOf(s, top) \in K
  BY SeriesPart
<1>9. IsFiniteSet(K)
  BY SeriesPart
<1> HIDE DEF p, K
<1>10. ASSUME NEW key \in K
       PROVE  IsFiniteSet(V[key]) /\ p[key] = Cardinality(V[key])
  <2> DEFINE T == SendersIn(top, key)
  <2>1. T \in SUBSET Senders
    BY <1>6
  <2>2. IsFiniteSet(T)
    BY <2>1, RollupSizes, FS_Subset
  <2> HIDE DEF T
  <2>3. Counted(U, T) /\ \A s \in T : counts[s] = Cardinality(U[s])
    BY <1>3, <1>4, <2>1 DEF Counted, Apart
  <2>4. Sums(counts, T, Cardinality(PartsUnited(U, T)))
    BY <2>2, <2>3, SumsTo
  <2>5. Total(counts, T) = Cardinality(PartsUnited(U, T))
    BY <2>4, TotalIs
  <2>6. IsFiniteSet(PartsUnited(U, T))
    BY <1>3, <2>1, <2>2, UnitedFinite
  <2> QED BY <1>7, <2>5, <2>6 DEF T
<1>11. ASSUME NEW x \in K, NEW y \in K, x # y
       PROVE  V[x] \cap V[y] = {}
  <2>1. ASSUME NEW a \in SendersIn(top, x), NEW b \in SendersIn(top, y) PROVE U[a] \cap U[b] = {}
    <3>1. a # b /\ a \in Senders /\ b \in Senders
      BY <1>11 DEF SendersIn
    <3> QED BY <1>4, <3>1
  <2> QED BY <2>1 DEF PartsUnited
<1>12. PartsUnited(V, K) = PartsUnited(U, Senders)
  <2>1. \A key \in K : V[key] = PartsUnited(U, SendersIn(top, key))
    OBVIOUS
  <2> HIDE DEF V
  <2>2. ASSUME NEW e, e \in PartsUnited(V, K) PROVE e \in PartsUnited(U, Senders)
    <3>1. PICK key \in K : e \in V[key]
      BY <2>2 DEF PartsUnited
    <3>2. PICK s \in SendersIn(top, key) : e \in U[s]
      BY <2>1, <3>1 DEF PartsUnited
    <3> QED BY <1>6, <3>2 DEF PartsUnited
  <2>3. ASSUME NEW e, e \in PartsUnited(U, Senders) PROVE e \in PartsUnited(V, K)
    <3>1. PICK s \in Senders : e \in U[s]
      BY <2>3 DEF PartsUnited
    <3>2. SeriesOf(s, top) \in K /\ s \in SendersIn(top, SeriesOf(s, top))
      BY <1>8 DEF SendersIn
    <3>3. e \in V[SeriesOf(s, top)]
      BY <2>1, <3>1, <3>2 DEF PartsUnited
    <3> QED BY <3>2, <3>3 DEF PartsUnited
  <2> QED BY <2>2, <2>3
<1> HIDE DEF V
<1>13. Counted(V, K)
  BY <1>10, <1>11 DEF Counted, Apart
<1>14. Sums(p, K, Cardinality(PartsUnited(V, K)))
  BY <1>9, <1>10, <1>13, SumsTo
<1>15. Total(p, K) = Cardinality(PartsUnited(V, K))
  BY <1>14, TotalIs
<1>16. PointSum(p) = Total(p, K)
  BY <1>7 DEF PointSum, Total
<1> QED BY <1>5, <1>12, <1>15, <1>16 DEF p

\* So do the points of a chart.
LEMMA UsageSum ==
  ASSUME Rows(stored), NEW U, NEW keys, NEW blocks, Partition(U, keys, blocks),
         NEW points, DOMAIN points = keys, NEW top, IsFiniteSet(top),
         NEW counts, \A t \in keys : CountsRows(counts[t], stored, U[t]) /\ points[t] = UsagePoint(counts[t], top)
  PROVE  UsageTotals(points) = Cardinality(Placed(stored, blocks))
<1> DEFINE v == [t \in keys |-> PointSum(points[t])]
<1>1. blocks \in SUBSET Heights /\ \A t \in keys : U[t] \in SUBSET Heights
  BY DEF Partition, PartsUnited
<1>2. ASSUME NEW t \in keys PROVE v[t] = Cardinality(PartsUnited(ItsBlobs(stored), U[t]))
  <2>1. PointSum(points[t]) = Cardinality(Placed(stored, U[t]))
    BY <1>1, UsagePointSum
  <2>2. PartsUnited(ItsBlobs(stored), U[t]) = Placed(stored, U[t])
    BY <1>1, AreThose
  <2> QED BY <2>1, <2>2
<1>3. \A t \in keys : v[t] = PointSum(points[t])
  OBVIOUS
<1> HIDE DEF v
<1>4. Sums(v, keys, Cardinality(PartsUnited(ItsBlobs(stored), blocks)))
  BY <1>2, AreOwned, SpreadSum
<1>5. PartsUnited(ItsBlobs(stored), blocks) = Placed(stored, blocks)
  BY <1>1, AreThose
<1>6. PointTotal(points, keys) = Cardinality(Placed(stored, blocks))
  BY <1>3, <1>4, <1>5, PointTotalIs
<1>7. UsageTotals(points) = PointTotal(points, keys)
  BY DEF UsageTotals, PointTotal
<1> QED BY <1>6, <1>7

-----------------------------------------------------------------------------
(* Charts, windows and leaderboards of right buckets.                        *)

\* The summary reads the source, or hours in its place, and cuts no bucket.
LEMMA SummaryAligned ==
  ASSUME NEW r, Charted(r)
  PROVE  /\ SummarySource(r) = IF r.source = Fine THEN Fine ELSE Hour
         /\ Aligned(SummarySource(r), r.from, r.to) /\ Aligned(r.source, r.from, r.to)
<1>1. /\ r.source \in Sizes /\ r.source \in Nat \ {0} /\ r.bucket \in Nat \ {0} /\ r.from \in Int /\ r.to \in Int
      /\ Multiple(r.source, r.bucket) /\ Multiple(r.bucket, r.from) /\ Multiple(r.bucket, r.to)
  BY SizesAre DEF Charted
<1> DEFINE z == SummarySource(r)
<1>2. r.source = Fine \/ r.source \in Coarse
  BY <1>1 DEF Sizes
<1>3. z \in {r.source, Hour} /\ z <= r.source /\ z <= Hour
  <2>1. r.source \in Int /\ Hour \in Int
    BY <1>1, SizesAre
  <2> QED BY <2>1, MinOfTwo DEF SummarySource
<1>4. z = IF r.source = Fine THEN Fine ELSE Hour
  <2>1. CASE r.source = Fine
    BY <1>3, <2>1, SizesAre DEF Fine
  <2>2. CASE r.source # Fine
    <3>1. Hour <= r.source
      BY <1>2, <2>2, SizesAre
    <3>2. Hour \in Int /\ r.source \in Int /\ z \in {r.source, Hour} /\ z <= Hour
      BY <1>1, <1>3, SizesAre
    <3> QED BY <2>2, <3>1, <3>2
  <2> QED BY <2>1, <2>2
<1> HIDE DEF z
<1>5. z \in Sizes /\ z \in Nat \ {0} /\ Multiple(z, r.source)
  <2>1. CASE r.source \in Coarse /\ z = Hour
    BY <2>1, SizesAre
  <2>2. CASE z = r.source
    BY <1>1, <2>2, SelfMultiple
  <2> QED BY <1>2, <1>4, <2>1, <2>2, SizesAre
<1>6. Multiple(r.source, r.from) /\ Multiple(r.source, r.to)
  BY <1>1, MultipleOfMultiple
<1>7. Multiple(z, r.from) /\ Multiple(z, r.to)
  BY <1>1, <1>5, <1>6, MultipleOfMultiple
<1>8. Aligned(z, r.from, r.to) /\ Aligned(r.source, r.from, r.to)
  BY <1>1, <1>5, <1>6, <1>7, MultiplesWhole DEF Aligned
<1> QED BY <1>4, <1>8 DEF z

\* The counts of the raw rows.
LEMMA RawCountsRows ==
  ASSUME Rows(stored), NEW from, NEW to
  PROVE  CountsRows(RawCounts(from, to), stored, BlocksIn(stored, from, to))
BY RawCounted DEF CountsRows, RawCounts

\* The buckets a chart reads are right.
ChartRight(r) ==
  /\ CountsRight(MetricKeys(r.source, r.from, r.to)) /\ BlocksRight(MetricKeys(r.source, r.from, r.to))
  /\ CountsRight(MetricKeys(SummarySource(r), r.from, r.to))
  /\ BlocksRight(MetricKeys(SummarySource(r), r.from, r.to))

\* The summary, the market, usage and cost charts, and the leaderboards of right buckets.
LEMMA SummaryShown ==
  ASSUME Rows(stored), NEW r, Charted(r), ChartRight(r)
  PROVE  MarketSummary(r) = WindowRaw(r)
BY SummaryAligned, PointRead DEF ChartRight, MarketSummary, WindowRaw

\* .. the market chart ..
LEMMA MarketShown ==
  ASSUME Rows(stored), NEW r, Charted(r), ChartRight(r)
  PROVE  ShowsMarket(r)
<1>1. ASSUME NEW t \in DisplayBuckets(r)
      PROVE  MarketPoint(SumMetrics(MetricKeys(r.source, t, t + r.bucket)), RolledCounts(r.source, t, t + r.bucket))
               = MarketPoint(MetricsOf(stored, t, t + r.bucket), RawCounts(t, t + r.bucket))
  BY PointsAligned, PointsRight, PointRead DEF ChartRight
<1>2. MarketRollup(r) = MarketRaw(r)
  BY <1>1 DEF MarketRollup, MarketRaw
<1> QED BY <1>2, SummaryShown DEF ShowsMarket

\* .. the usage chart, whose totals add up to the summary ..
LEMMA UsageShown ==
  ASSUME Rows(stored), NEW r, Charted(r), ChartRight(r)
  PROVE  ShowsUsage(r)
<1> DEFINE keys == DisplayBuckets(r)  in == BlocksIn(stored, r.from, r.to)  top == TopEntities(RawCounts(r.from, r.to))
           counts == [t \in keys |-> RawCounts(t, t + r.bucket)]  U == PerPoint(r)
<1>1. RolledCounts(r.source, r.from, r.to) = RawCounts(r.from, r.to)
  BY SummaryAligned, RolledCountsRight DEF ChartRight
<1>2. ASSUME NEW t \in keys PROVE RolledCounts(r.source, t, t + r.bucket) = RawCounts(t, t + r.bucket)
  BY PointsAligned, PointsRight, RolledCountsRight DEF ChartRight
<1>3. UsageRollup(r) = UsageRaw(r)
  BY <1>1, <1>2 DEF UsageRollup, UsageRaw
<1>4. DOMAIN UsageRaw(r) = keys /\ \A t \in keys : UsageRaw(r)[t] = UsagePoint(counts[t], top)
  BY DEF UsageRaw
<1>5. ASSUME NEW t \in keys PROVE CountsRows(counts[t], stored, U[t])
  BY RawCountsRows DEF PerPoint
<1>6. IsFiniteSet(top)
  BY TopFinite
<1>7. Partition(U, keys, in)
  BY PointsPart
<1>10. /\ MetricsOf(stored, r.from, r.to).blobs = Cardinality(Placed(stored, in))
       /\ MetricsOf(stored, r.from, r.to).priced = Cardinality({h \in in : stored[h].priced})
  BY RawReads
<1> HIDE DEF keys, in, top, counts, U
<1>8. UsageTotals(UsageRaw(r)) = Cardinality(Placed(stored, in))
  BY <1>4, <1>5, <1>6, <1>7, UsageSum
<1>9. WindowRaw(r).blobs = MetricsOf(stored, r.from, r.to).blobs
  BY DEF WindowRaw, MarketPoint
<1>11. UsageTotals(UsageRaw(r)) = WindowRaw(r).blobs
  BY <1>8, <1>9, <1>10 DEF in
<1> QED BY <1>3, <1>11, SummaryShown DEF ShowsUsage

\* .. the cost chart.
LEMMA CostShown ==
  ASSUME Rows(stored), NEW r, Charted(r), ChartRight(r), FeesRight(MetricKeys(r.source, r.from, r.to))
  PROVE  ShowsCost(r)
<1>1. ASSUME NEW t \in DisplayBuckets(r)
      PROVE  /\ RolledCounts(r.source, t, t + r.bucket) = RawCounts(t, t + r.bucket)
             /\ SumMetrics(MetricKeys(r.source, t, t + r.bucket)).priced = MetricsOf(stored, t, t + r.bucket).priced
  BY PointsAligned, PointsRight, RolledCountsRight, RolledFees DEF ChartRight
<1>2. CostRollup(r) = [t \in DisplayBuckets(r) |-> CostPoint(TotalOf(RolledCounts(r.source, t, t + r.bucket)),
                                 SumMetrics(MetricKeys(r.source, t, t + r.bucket)).priced)]
  BY DEF CostRollup, TotalOf
<1>3. CostRaw(r) = [t \in DisplayBuckets(r) |-> CostPoint(TotalOf(RawCounts(t, t + r.bucket)),
                                 MetricsOf(stored, t, t + r.bucket).priced)]
  BY DEF CostRaw, TotalOf
<1> QED BY <1>1, <1>2, <1>3 DEF ShowsCost

\* The points of the blocks add up to the range.
LEMMA BlocksShown ==
  ASSUME Rows(stored), NEW r
  PROVE  ShowsBlocks(r)
<1> DEFINE in == BlocksIn(stored, r.from, r.to)  U == [h \in in |-> {h}]
           own == [h \in in |-> [s \in Senders |-> Count(stored[h].blobs, s)]]
           top == TopEntities(RawCounts(r.from, r.to))
           costs == [h \in in |-> MarketBlocks(r)[h].cost]
           fees == [h \in in |-> CostBlocks(r)[h].over]
<1>1. in \in SUBSET Heights /\ IsFiniteSet(in)
  BY RawReads
<1>2. Partition(U, in, in)
  BY <1>1 DEF Partition, Apart, PartsUnited
<1>3. ASSUME NEW h \in in
      PROVE  /\ U[h] = {h} /\ U[h] \in SUBSET Heights /\ IsFiniteSet({h})
             /\ stored[h].blobs \in Seq(Senders) /\ Sequences(stored, {h})
  BY <1>1, FS_Singleton DEF Rows, Blocks, Sequences
<1>4. ASSUME NEW h \in in PROVE CountsRows(own[h], stored, U[h])
  <2>1. /\ \A s : Cardinality(PlacedBy(stored, {h}, s)) = Count(stored[h].blobs, s)
        /\ Cardinality(Placed(stored, {h})) = Len(stored[h].blobs)
    BY <1>3, PlacedOne
  <2> QED BY <1>3, <2>1 DEF CountsRows
<1>5. ASSUME NEW h \in in
      PROVE  /\ costs[h] = Cardinality(PartsUnited(ItsBlobs(stored), U[h]))
             /\ fees[h] = Cardinality(PartsUnited(ItselfPriced(stored), U[h]))
  <2>1. MarketBlocks(r)[h].cost = TotalOf(own[h])
    BY DEF MarketBlocks, MarketPoint, TotalOf
  <2>2. TotalOf(own[h]) = Cardinality(Placed(stored, {h}))
    BY <1>3, <1>4, RollupSizes, SenderSum
  <2>3. /\ PartsUnited(ItsBlobs(stored), {h}) = Placed(stored, {h})
        /\ PartsUnited(ItselfPriced(stored), {h}) = {x \in {h} : stored[x].priced}
    BY <1>3, AreThose
  <2>4. CostBlocks(r)[h].over = IF stored[h].priced THEN 1 ELSE 0
    BY DEF CostBlocks, CostPoint
  <2>5. Cardinality({x \in {h} : stored[x].priced}) = IF stored[h].priced THEN 1 ELSE 0
    <3>1. CASE stored[h].priced
      <4>1. {x \in {h} : stored[x].priced} = {h}
        BY <3>1
      <4> QED BY <3>1, <4>1, FS_Singleton
    <3>2. CASE ~stored[h].priced
      <4>1. {x \in {h} : stored[x].priced} = {}
        BY <3>2
      <4> QED BY <3>2, <4>1, FS_EmptySet
    <3> QED BY <3>1, <3>2
  <2> HIDE DEF in, own
  <2> QED BY <1>3, <2>1, <2>2, <2>3, <2>4, <2>5
<1>6. /\ DOMAIN MarketBlocks(r) = in /\ DOMAIN CostBlocks(r) = in /\ DOMAIN UsageBlocks(r) = in
      /\ \A h \in in : UsageBlocks(r)[h] = UsagePoint(own[h], top)
  BY DEF MarketBlocks, CostBlocks, UsageBlocks
<1>7. IsFiniteSet(top)
  BY TopFinite
<1>8. /\ \A h \in in : costs[h] = MarketBlocks(r)[h].cost
      /\ \A h \in in : fees[h] = CostBlocks(r)[h].over
  OBVIOUS
<1>9. /\ WindowRaw(r).cost = TotalOf(RawCounts(r.from, r.to))
      /\ WindowRaw(r).blobs = MetricsOf(stored, r.from, r.to).blobs
  BY DEF WindowRaw, MarketPoint, TotalOf
<1>10. TotalOf(RawCounts(r.from, r.to)) = Cardinality(Placed(stored, in))
  <2>1. Sequences(stored, in)
    BY RawReads
  <2> QED BY <1>1, <2>1, RawCountsRows, RollupSizes, SenderSum
<1>11. /\ MetricsOf(stored, r.from, r.to).blobs = Cardinality(Placed(stored, in))
       /\ MetricsOf(stored, r.from, r.to).priced = Cardinality({h \in in : stored[h].priced})
  BY RawReads
<1> HIDE DEF in, U, own, top, costs, fees
<1>12. /\ PartsUnited(ItsBlobs(stored), in) = Placed(stored, in)
       /\ PartsUnited(ItselfPriced(stored), in) = {h \in in : stored[h].priced}
  BY <1>1, AreThose
<1>13. Costs(MarketBlocks(r), in) = Cardinality(Placed(stored, in))
  <2>1. Sums(costs, in, Cardinality(PartsUnited(ItsBlobs(stored), in)))
    BY <1>2, <1>5, AreOwned, SpreadSum
  <2> QED BY <1>8, <1>12, <2>1, CostsIs
<1>14. Fees(CostBlocks(r), in) = Cardinality({h \in in : stored[h].priced})
  <2>1. Sums(fees, in, Cardinality(PartsUnited(ItselfPriced(stored), in)))
    BY <1>2, <1>5, AreOwned, SpreadSum
  <2> QED BY <1>8, <1>12, <2>1, FeesIs
<1>15. UsageTotals(UsageBlocks(r)) = Cardinality(Placed(stored, in))
  BY <1>2, <1>4, <1>6, <1>7, UsageSum
<1>16. /\ MapThenSumSet(LAMBDA h : MarketBlocks(r)[h].cost, DOMAIN MarketBlocks(r)) = Costs(MarketBlocks(r), in)
       /\ MapThenSumSet(LAMBDA h : CostBlocks(r)[h].over, DOMAIN CostBlocks(r)) = Fees(CostBlocks(r), in)
  BY <1>6 DEF Costs, Fees
<1> QED BY <1>9, <1>10, <1>11, <1>13, <1>14, <1>15, <1>16 DEF ShowsBlocks

\* A window, and the leaderboards of one.
LEMMA WindowShown ==
  ASSUME Rows(stored), NEW r, NEW z, Aligned(z, r.from, r.to),
         BlocksRight(MetricKeys(z, r.from, r.to)), CountsRight(MetricKeys(z, r.from, r.to))
  PROVE  MarketPoint(SumMetrics(MetricKeys(z, r.from, r.to)), RolledCounts(z, r.from, r.to)) = WindowRaw(r)
BY PointRead DEF WindowRaw

\* Leaderboards of right buckets.
LEMMA LeadersShown ==
  ASSUME Rows(stored), NEW r, Aligned(r.source, r.from, r.to), CountsRight(MetricKeys(r.source, r.from, r.to))
  PROVE  LeadersWindowed(r) = LeadersRaw(r)
BY RolledCountsRight DEF LeadersWindowed, LeadersRaw

-----------------------------------------------------------------------------
(* What the steps need of the tables.                                        *)

\* A key of blob_chart_rollups is a size, a bucket of it and a sender.
LEMMA BlobKeyIs ==
  ASSUME NEW k \in BlobKeys
  PROVE  /\ k[1] \in Sizes /\ k[1] \in Nat \ {0} /\ k[2] \in Nat /\ k[3] \in Senders /\ k = <<k[1], k[2], k[3]>>
         /\ <<k[1], k[2]>> \in BucketKeys /\ Multiple(k[1], k[2])
<1>1. PICK b \in BucketKeys, s \in Senders : k = <<b[1], b[2], s>>
  BY DEF BlobKeys
<1>2. b = <<b[1], b[2]>> /\ b[1] \in Sizes /\ b[1] \in Nat \ {0} /\ b[2] \in Nat /\ Multiple(b[1], b[2])
  BY KeyIs
<1>3. k[1] = b[1] /\ k[2] = b[2] /\ k[3] = s
  BY <1>1
<1> QED BY <1>1, <1>2, <1>3

\* The heights whose minute a bucket covers, stored or not.
Covered(k) == {h \in Heights : Bucket(k[1], TimeOf[h]) = k[2]}

\* A fine bucket is a minute; a row of its minute is counted as long as it is
\* in the retention.
LEMMA HoldsIs ==
  ASSUME NEW k, k[1] \in Sizes, NEW h \in Covered(k), now \in Nat
  PROVE  /\ Holds(k, TimeOf[h]) \/ (k[1] = Fine /\ ~InRetention(k))
         /\ k[1] = Fine => k[2] = TimeOf[h]
<1>1. TimeOf[h] \in Nat /\ Bucket(k[1], TimeOf[h]) = k[2] /\ Retention \in Nat
  BY RollupSizes DEF Covered
<1>2. k[1] = Fine => k[2] = TimeOf[h]
  <2>1. Bucket(1, TimeOf[h]) \in Int /\ Bucket(1, TimeOf[h]) <= TimeOf[h] /\ TimeOf[h] < Bucket(1, TimeOf[h]) + 1
    <3>1. 1 \in Nat \ {0} /\ TimeOf[h] \in Int
      BY <1>1
    <3> QED BY <3>1, BucketIs
  <2>2. TimeOf[h] = Bucket(1, TimeOf[h])
    BY <1>1, <2>1
  <2> QED BY <1>1, <2>2 DEF Fine
<1>3. k[1] \in SizesFor(TimeOf[h]) \/ (k[1] = Fine /\ ~InRetention(k))
  BY <1>1, <1>2 DEF SizesFor, InRetention
<1> QED BY <1>1, <1>2, <1>3 DEF Holds

\* A row outside a bucket does not touch it.
LEMMA NotHeld ==
  ASSUME NEW k, NEW h \in Heights, h \notin Covered(k)
  PROVE  ~Holds(k, TimeOf[h])
BY DEF Covered, Holds

\* The recomputation of a bucket counts the rows of its heights.
LEMMA BlobRefreshIs ==
  ASSUME NEW rows, Rows(rows), NEW k \in BlobKeys
  PROVE  /\ BlobRefresh(rows, k) = Cardinality(PlacedBy(rows, Covered(k), k[3]))
         /\ BlobRefresh(rows, k) \in Nat
<1> DEFINE b == <<k[1], k[2]>>  in == BlocksIn(rows, k[2], k[2] + k[1])
<1>1. b \in BucketKeys /\ b[1] = k[1] /\ b[2] = k[2]
  BY BlobKeyIs
<1>2. BlocksIn(rows, b[2], b[2] + b[1]) = {h \in Heights : rows[h].present /\ Bucket(b[1], TimeOf[h]) = b[2]}
  BY <1>1, BucketHolds
<1>3. in = {h \in Covered(k) : rows[h].present}
  BY <1>1, <1>2 DEF Covered
<1>4. /\ BlobsOf(rows, k[2], k[2] + k[1], k[3]) = Cardinality(PlacedBy(rows, in, k[3]))
      /\ BlobsOf(rows, k[2], k[2] + k[1], k[3]) \in Nat
  BY RawCounted
<1> HIDE DEF in, b
<1>5. PlacedBy(rows, in, k[3]) = PlacedBy(rows, Covered(k), k[3])
  <2>1. \A h \in Covered(k) : h \notin in => rows[h].blobs = <<>>
    BY <1>3 DEF Rows, Covered
  <2>2. \A h \in Covered(k) : h \notin in => Own(rows[h].blobs, k[3]) = {}
    BY <2>1 DEF Own
  <2> QED BY <1>3, <2>2 DEF PlacedBy
<1> QED BY <1>4, <1>5 DEF BlobRefresh

\* Rows that agree on a bucket give the same recomputation.
LEMMA BlobsAlike ==
  ASSUME NEW rows, Rows(rows), NEW other, Rows(other), NEW k \in BlobKeys,
         \A h \in Covered(k) : Own(rows[h].blobs, k[3]) = Own(other[h].blobs, k[3])
  PROVE  BlobRefresh(rows, k) = BlobRefresh(other, k)
<1>1. PlacedBy(rows, Covered(k), k[3]) = PlacedBy(other, Covered(k), k[3])
  BY DEF PlacedBy
<1> QED BY <1>1, BlobRefreshIs

SameBlocks(rows, other, S) ==
  \A h \in S : (rows[h].present <=> other[h].present) /\ (rows[h].present => rows[h] = other[h])

\* .. of the metrics, where the blocks are the same.
LEMMA MetricsAlike ==
  ASSUME NEW rows, Rows(rows), NEW other, Rows(other), NEW k \in BucketKeys,
         SameBlocks(rows, other, Covered(k))
  PROVE  MetricsRefresh(rows, k) = MetricsRefresh(other, k)
<1> DEFINE from == k[2]  to == k[2] + k[1]
           in == BlocksIn(rows, from, to)  there == BlocksIn(other, from, to)
           m == MetricsOf(rows, from, to)  n == MetricsOf(other, from, to)
<1>1. in = {h \in Heights : rows[h].present /\ Bucket(k[1], TimeOf[h]) = k[2]}
  BY BucketHolds
<1>2. there = {h \in Heights : other[h].present /\ Bucket(k[1], TimeOf[h]) = k[2]}
  BY BucketHolds
<1>3. in = there /\ \A h \in in : rows[h] = other[h]
  BY <1>1, <1>2 DEF Covered, SameBlocks
<1>4. MetricsRefresh(rows, k) = m /\ MetricsRefresh(other, k) = n
  BY DEF MetricsRefresh
<1> HIDE DEF from, to
<1>5. /\ m.blocks = Cardinality(in) /\ m.blobs = Cardinality(Placed(rows, in))
      /\ m.priced = Cardinality({h \in in : rows[h].priced}) /\ m \in Metrics
  BY RawReads
<1>6. /\ n.blocks = Cardinality(there) /\ n.blobs = Cardinality(Placed(other, there))
      /\ n.priced = Cardinality({h \in there : other[h].priced}) /\ n \in Metrics
  BY RawReads
<1> HIDE DEF in, there, m, n
<1>7. Placed(rows, in) = Placed(other, there)
  BY <1>3 DEF Placed
<1>8. {h \in in : rows[h].priced} = {h \in there : other[h].priced}
  BY <1>3
<1>9. m.blocks = n.blocks /\ m.blobs = n.blobs /\ m.priced = n.priced
  BY <1>3, <1>5, <1>6, <1>7, <1>8
<1> QED BY <1>4, <1>5, <1>6, <1>9 DEF Metrics

HasBlobs(rows, h, blobs) == rows[h].blobs = blobs

\* The heights of a bucket but one.
LEMMA CountsOfBucket ==
  ASSUME NEW rows, Rows(rows), NEW k \in BlobKeys, NEW h \in Covered(k), NEW blobs, HasBlobs(rows, h, blobs)
  PROVE  /\ BlobRefresh(rows, k) = Count(blobs, k[3]) + Cardinality(PlacedBy(rows, Covered(k) \ {h}, k[3]))
         /\ Count(blobs, k[3]) \in Nat /\ blobs \in Seq(Senders)
         /\ Cardinality(PlacedBy(rows, Covered(k) \ {h}, k[3])) \in Nat
<1> DEFINE S == Covered(k)  one == {h}
<1>1. S \in SUBSET Heights
  BY DEF Covered
<1>2. one \in SUBSET S /\ h \in Heights
  BY <1>1
<1>3. rows[h].blobs \in Seq(Senders) /\ blobs = rows[h].blobs
  BY <1>2 DEF Rows, Blocks, HasBlobs
<1>4. BlobRefresh(rows, k) = Cardinality(PlacedBy(rows, S, k[3]))
  BY BlobRefreshIs
<1> HIDE DEF S
<1>5. IsFiniteSet(S) /\ Sequences(rows, S)
  BY <1>1, RollupSizes, FS_Subset DEF Rows, Blocks, Sequences
<1>6. /\ \A s : Cardinality(PlacedBy(rows, {h}, s)) = Count(rows[h].blobs, s)
      /\ Cardinality(Placed(rows, {h})) = Len(rows[h].blobs)
  BY <1>3, PlacedOne
<1>7. Cardinality(PlacedBy(rows, one, k[3])) = Count(blobs, k[3])
  BY <1>3, <1>6
<1> HIDE DEF one
<1>8. /\ Cardinality(PlacedBy(rows, S, k[3]))
           = Cardinality(PlacedBy(rows, one, k[3])) + Cardinality(PlacedBy(rows, S \ one, k[3]))
      /\ Cardinality(PlacedBy(rows, one, k[3])) \in Nat /\ Cardinality(PlacedBy(rows, S \ one, k[3])) \in Nat
  BY <1>2, <1>5, PlacedBySplit
<1> QED BY <1>3, <1>4, <1>7, <1>8 DEF S, one

\* The upsert of one height: what it inserts is in the recomputation, and is
\* all that a sender it does not recompute gains.
LEMMA IndexedBlobs ==
  ASSUME NEW rows, Rows(rows), NEW other, Rows(other), NEW k \in BlobKeys, NEW h \in Covered(k),
         SameBlobs(other, rows, Heights \ {h}), NEW altered \in BOOLEAN,
         NEW old, HasBlobs(rows, h, old), NEW new, HasBlobs(other, h, new)
  PROVE  /\ InsertDelta(old, new, k[3]) \in Nat /\ InsertDelta(old, new, k[3]) <= BlobRefresh(other, k)
         /\ k[3] \notin RefreshedSenders(old, new, altered) =>
              BlobRefresh(other, k) = BlobRefresh(rows, k) + InsertDelta(old, new, k[3])
<1> DEFINE s == k[3]  d == InsertDelta(old, new, s)
           p == Count(old, s)  q == Count(new, s)
           x == Cardinality(PlacedBy(rows, Covered(k) \ {h}, s))  y == Cardinality(PlacedBy(other, Covered(k) \ {h}, s))
<1>1. BlobRefresh(rows, k) = p + x /\ p \in Nat /\ x \in Nat /\ old \in Seq(Senders)
  BY CountsOfBucket
<1>2. BlobRefresh(other, k) = q + y /\ q \in Nat /\ y \in Nat /\ new \in Seq(Senders)
  BY CountsOfBucket
<1>3. SameBlobs(other, rows, Covered(k) \ {h})
  BY DEF SameBlobs, Covered
<1>4. PlacedBy(other, Covered(k) \ {h}, s) = PlacedBy(rows, Covered(k) \ {h}, s)
  BY <1>3, PlacedSame
<1>5. old \in Seq(Senders) /\ new \in Seq(Senders)
  BY <1>1, <1>2
<1>6. d \in Nat /\ d <= q
  <2> DEFINE I == {i \in Inserted(old, new) : new[i] = s}
  <2>1. IsFiniteSet(Own(new, s)) /\ Count(new, s) = Cardinality(Own(new, s))
    BY <1>5, BlobsFinite
  <2>2. I \in SUBSET Own(new, s) /\ d = Cardinality(I)
    BY DEF Inserted, Own, InsertDelta
  <2> HIDE DEF I, d
  <2>3. IsFiniteSet(I) /\ Cardinality(I) <= Cardinality(Own(new, s))
    BY <2>1, <2>2, FS_Subset
  <2> QED BY <2>1, <2>2, <2>3, FS_CardinalityType
<1>7. ASSUME s \notin RefreshedSenders(old, new, altered) PROVE q = p + d
  <2>1. \A i \in Trimmed(old, new) : old[i] # s
    BY <1>7 DEF RefreshedSenders
  <2>2. \A i \in Rewrites(old, new, altered) : old[i] # s /\ new[i] # s
    BY <1>7 DEF RefreshedSenders
  <2>3. /\ {i \in Trimmed(old, new) : old[i] = s} = {}
        /\ {i \in Rewrites(old, new, altered) : new[i] = s} = {}
        /\ {i \in Rewrites(old, new, altered) : old[i] = s} = {}
    BY <2>1, <2>2
  <2>4. TrimDelta(old, new, s) = 0 /\ UpdateDelta(old, new, altered, s) = 0
    <3>1. Cardinality({}) = 0
      BY FS_EmptySet
    <3>2. /\ TrimDelta(old, new, s) = - Cardinality({})
          /\ UpdateDelta(old, new, altered, s) = Cardinality({}) - Cardinality({})
      BY <2>3 DEF TrimDelta, UpdateDelta
    <3> QED BY <3>1, <3>2
  <2> HIDE DEF s, d
  <2>5. Count(new, s) = Count(old, s) + TrimDelta(old, new, s) + UpdateDelta(old, new, altered, s)
                          + InsertDelta(old, new, s)
    BY <1>5, DeltasAddUp
  <2>6. q = p + 0 + 0 + d
    BY <2>4, <2>5 DEF d
  <2> QED BY <1>1, <1>6, <2>6
<1> HIDE DEF s, d, p, q, x, y
<1>8. d \in Nat /\ d <= BlobRefresh(other, k)
  BY <1>2, <1>6
<1>9. x = y
  BY <1>4 DEF x, y
<1>10. k[3] \notin RefreshedSenders(old, new, altered) => BlobRefresh(other, k) = BlobRefresh(rows, k) + d
  BY <1>1, <1>2, <1>6, <1>7, <1>9 DEF s
<1> QED BY <1>8, <1>10 DEF d, s

\* The recomputed metrics of a bucket; without a block they are none.
LEMMA MetricsRefreshIs ==
  ASSUME NEW rows, Rows(rows), NEW k
  PROVE  /\ MetricsRefresh(rows, k) \in Metrics
         /\ MetricsRefresh(rows, k).blocks = 0 => MetricsRefresh(rows, k) = NoRefresh.agg
         /\ MetricsRefresh(rows, k).priced <= MetricsRefresh(rows, k).blocks
<1> DEFINE from == k[2]  to == k[2] + k[1]  in == BlocksIn(rows, from, to)  m == MetricsOf(rows, from, to)
           fee == {h \in in : rows[h].priced}
<1>1. MetricsRefresh(rows, k) = m
  BY DEF MetricsRefresh
<1> HIDE DEF from, to
<1>2. /\ IsFiniteSet(in) /\ m.blocks = Cardinality(in) /\ m.blobs = Cardinality(Placed(rows, in))
      /\ m.priced = Cardinality(fee) /\ m \in Metrics
  BY RawReads
<1>3. fee \in SUBSET in
  OBVIOUS
<1> HIDE DEF in, m, fee
<1>4. IsFiniteSet(fee) /\ Cardinality(fee) <= Cardinality(in)
  BY <1>2, <1>3, FS_Subset
<1>5. ASSUME m.blocks = 0 PROVE m = NoRefresh.agg
  <2>1. in = {}
    BY <1>2, <1>5, FS_EmptySet
  <2>2. Placed(rows, in) = {} /\ fee = {}
    BY <1>3, <2>1 DEF Placed
  <2>3. m.blocks = 0 /\ m.blobs = 0 /\ m.priced = 0
    BY <1>2, <1>5, <2>2, FS_EmptySet
  <2> QED BY <1>2, <2>3 DEF Metrics, NoRefresh
<1> QED BY <1>1, <1>2, <1>4, <1>5

RollupInv == RollupTypes /\ BlobsInv /\ MetricsInv

\* The raw rows are well formed, and the clock and its bounds are numbers.
LEMMA StoredRows == TotalsInv => Rows(stored)
BY DEF TotalsInv, Rows

\* .. the clock and the sizes of time.
LEMMA NowIs == RollupTypes => now \in Nat /\ reached \in Int /\ Retention \in Nat /\ Deployed \in Nat /\ Clock \subseteq Nat
BY RollupSizes DEF RollupTypes

-----------------------------------------------------------------------------
(* A block is written.                                                       *)

\* The buckets of the block, of its minute, keep what they promise of blobs ..
LEMMA IndexBlobs ==
  ASSUME Rows(stored), Rows(stored'), RollupTypes, BlobsInv,
         NEW h \in Heights, NEW new \in Contents, NEW altered \in BOOLEAN, IndexBlock(h, new, altered)
  PROVE  BlobsInv' /\ blobRollups' \in [BlobKeys -> Nat]
<1> DEFINE old == stored[h].blobs  t == TimeOf[h]
<1>1. /\ stored' = [stored EXCEPT ![h] = [blobs |-> new, priced |-> TRUE, present |-> TRUE]]
      /\ blobRollups' = [k \in BlobKeys |-> IF Holds(k, t) THEN RollupAfterWrite(stored', k, old, new, altered)
                                            ELSE blobRollups[k]]
      /\ doubled' = {k \in BlobKeys : IF Holds(k, t) /\ k[3] \in RefreshedSenders(old, new, altered)
                                      THEN InsertDelta(old, new, k[3]) > 0 ELSE k \in doubled}
      /\ now' = now /\ reached' = reached
  BY DEF IndexBlock
<1>2. stored \in [Heights -> Blocks]
  BY DEF Rows
<1>3. HasBlobs(stored, h, old) /\ HasBlobs(stored', h, new) /\ SameBlobs(stored', stored, Heights \ {h})
  BY <1>1, <1>2 DEF HasBlobs, SameBlobs
<1>4. now \in Nat /\ blobRollups \in [BlobKeys -> Nat]
  BY NowIs DEF RollupTypes
<1> HIDE DEF old
<1>5. ASSUME NEW k \in BlobKeys
      PROVE  BlobOK(k)' /\ blobRollups'[k] \in Nat
  <2> DEFINE s == k[3]  d == InsertDelta(old, new, s)  fresh == s \in RefreshedSenders(old, new, altered)
             was == blobRollups[k]  is == blobRollups'[k]
             r0 == BlobRefresh(stored, k)  r1 == BlobRefresh(stored', k)
  <2>1. BlobOK(k) /\ was \in Nat
    BY <1>4 DEF BlobsInv
  <2>2. r0 \in Nat /\ r1 \in Nat
    BY BlobRefreshIs
  <2>3. k[1] \in Sizes /\ k[2] \in Nat
    BY BlobKeyIs
  <2>4. Kept(k)' <=> Kept(k)
    BY <1>1 DEF Kept, InRetention
  <2>5. InRetention(k)' <=> InRetention(k)
    BY <1>1 DEF InRetention
  <2>6. CASE Holds(k, t)
    <3>1. h \in Covered(k)
      BY <2>6 DEF Holds, Covered
    <3>2. d \in Nat /\ d <= r1 /\ (~fresh => r1 = r0 + d)
      BY <1>3, <3>1, IndexedBlobs
    <3>3. is = (IF fresh THEN r1 ELSE was) + d
      BY <1>1, <2>6 DEF RollupAfterWrite
    <3>4. k \in doubled' <=> IF fresh THEN d > 0 ELSE k \in doubled
      BY <1>1, <2>6
    <3> HIDE DEF d, fresh, was, is, r0, r1
    <3>5. /\ Kept(k) /\ k \notin doubled => was = r0
          /\ k[1] = Fine /\ InRetention(k) /\ r0 = 0 => was = 0
          /\ k \in doubled => was > 0
      BY <2>1 DEF BlobOK, was, r0
    <3>6. is \in Nat
      BY <2>1, <2>2, <3>2, <3>3
    <3>7. Kept(k) /\ k \notin doubled' => is = r1
      BY <2>1, <2>2, <3>2, <3>3, <3>4, <3>5
    <3>8. k[1] = Fine /\ InRetention(k) /\ r1 = 0 => is = 0
      BY <2>1, <2>2, <3>2, <3>3, <3>5
    <3>9. k \in doubled' => is > 0
      BY <2>1, <2>2, <3>2, <3>3, <3>4, <3>5
    <3> QED BY <2>4, <2>5, <3>6, <3>7, <3>8, <3>9 DEF BlobOK, is, r1
  <2>7. CASE ~Holds(k, t)
    <3>1. is = was /\ (k \in doubled' <=> k \in doubled)
      BY <1>1, <2>7
    <3>2. CASE h \in Covered(k)
      <4>1. k[1] = Fine /\ ~InRetention(k)
        BY <1>4, <2>3, <2>7, <3>2, HoldsIs
      <4> QED BY <2>1, <2>4, <2>5, <3>1, <4>1 DEF BlobOK, Kept
    <3>3. CASE h \notin Covered(k)
      <4>1. \A x \in Covered(k) : stored'[x].blobs = stored[x].blobs
        BY <1>3, <3>3 DEF SameBlobs, Covered
      <4>2. \A x \in Covered(k) : Own(stored'[x].blobs, s) = Own(stored[x].blobs, s)
        BY <4>1
      <4>3. r1 = r0
        BY <4>2, BlobsAlike
      <4> QED BY <2>1, <2>4, <2>5, <3>1, <4>3 DEF BlobOK
    <3> QED BY <3>2, <3>3
  <2> QED BY <2>6, <2>7
<1>6. blobRollups' = [k \in BlobKeys |-> blobRollups'[k]]
  BY <1>1
<1> QED BY <1>5, <1>6 DEF BlobsInv

\* .. and of metrics.
LEMMA IndexMetrics ==
  ASSUME Rows(stored), Rows(stored'), RollupTypes, MetricsInv,
         NEW h \in Heights, NEW new \in Contents, NEW altered \in BOOLEAN, IndexBlock(h, new, altered)
  PROVE  MetricsInv' /\ metricRollups' \in [BucketKeys -> Metrics]
<1> DEFINE t == TimeOf[h]
<1>1. /\ stored' = [stored EXCEPT ![h] = [blobs |-> new, priced |-> TRUE, present |-> TRUE]]
      /\ metricRollups' = [k \in BucketKeys |-> IF Holds(k, t) THEN MetricsRefresh(stored', k) ELSE metricRollups[k]]
      /\ overtaken' = {k \in overtaken : ~Holds(k, t)}
      /\ late' = (late \/ t < reached)
      /\ now' = now /\ reached' = reached /\ healed' = healed /\ phase' = phase /\ todo' = todo
  BY DEF IndexBlock, ghostVars, loopVars
<1>2. now \in Nat /\ reached \in Int /\ t \in Nat /\ late \in BOOLEAN /\ metricRollups \in [BucketKeys -> Metrics]
  BY NowIs, RollupSizes DEF RollupTypes
<1>3. ASSUME NEW k \in BucketKeys
      PROVE  MetricOK(k)' /\ metricRollups'[k] \in Metrics
  <2> DEFINE is == MetricsRefresh(stored', k)
  <2>1. MetricOK(k) /\ metricRollups[k] \in Metrics
    BY <1>2 DEF MetricsInv
  <2>2. is \in Metrics
    BY MetricsRefreshIs
  <2>3. k[1] \in Sizes /\ k[2] \in Nat
    BY KeyIs
  <2>4. InRetention(k)' <=> InRetention(k)
    BY <1>1 DEF InRetention
  <2>5. CASE Holds(k, t)
    <3>1. h \in Covered(k)
      BY <2>5 DEF Holds, Covered
    <3>2. metricRollups'[k] = is /\ k \notin overtaken'
      BY <1>1, <2>5
    <3>3. k[1] = Fine => k[2] = t
      BY <1>2, <2>3, <3>1, HoldsIs
    <3>4. CoarseOK(k)'
      BY <3>2 DEF CoarseOK
    <3>5. k[1] = Fine => FineOK(k)'
      <4>1. ASSUME k[1] = Fine, ~late' PROVE k[2] >= reached'
        <5>1. late' = (late \/ t < reached)
          BY <1>1
        <5>2. ~(t < reached)
          BY <4>1, <5>1, Zenon
        <5>3. t >= reached
          BY <1>2, <5>2
        <5> QED BY <1>1, <3>3, <4>1, <5>3
      <4> QED BY <3>2, <4>1 DEF FineOK
    <3> QED BY <2>2, <3>2, <3>4, <3>5 DEF MetricOK
  <2>6. CASE ~Holds(k, t)
    <3>1. metricRollups'[k] = metricRollups[k] /\ (k \in overtaken' <=> k \in overtaken)
      BY <1>1, <2>6
    <3>2. CASE h \in Covered(k)
      <4>1. k[1] = Fine /\ ~InRetention(k)
        BY <1>2, <2>3, <2>6, <3>2, HoldsIs
      <4> QED BY <1>1, <1>2, <2>1, <2>4, <3>1, <4>1 DEF MetricOK, FineOK
    <3>3. CASE h \notin Covered(k)
      <4>1. \A x \in Covered(k) : stored'[x] = stored[x]
        BY <1>1, <3>3 DEF Covered, Rows
      <4>2. MetricsRefresh(stored', k) = MetricsRefresh(stored, k)
        BY <4>1, MetricsAlike DEF SameBlocks
      <4>3. CoarseOK(k) => CoarseOK(k)'
        BY <1>1, <3>1, <4>2 DEF CoarseOK
      <4>4. FineOK(k) => FineOK(k)'
        BY <1>1, <1>2, <2>4, <3>1, <4>2 DEF FineOK
      <4> QED BY <2>1, <3>1, <4>3, <4>4 DEF MetricOK
    <3> QED BY <3>2, <3>3
  <2> QED BY <2>5, <2>6
<1>4. metricRollups' = [k \in BucketKeys |-> metricRollups'[k]]
  BY <1>1
<1> QED BY <1>3, <1>4 DEF MetricsInv

\* Both, and the types.
LEMMA IndexKeeps ==
  ASSUME Rows(stored), Rows(stored'), RollupInv,
         NEW h \in Heights, NEW new \in Contents, NEW altered \in BOOLEAN, IndexBlock(h, new, altered)
  PROVE  RollupInv'
<1>1. BlobsInv' /\ blobRollups' \in [BlobKeys -> Nat]
  BY IndexBlobs DEF RollupInv
<1>2. MetricsInv' /\ metricRollups' \in [BucketKeys -> Metrics]
  BY IndexMetrics DEF RollupInv
<1>3. /\ now' = now /\ reached' = reached /\ healed' = healed /\ chunkEnd' = chunkEnd /\ walkStart' = walkStart
      /\ cutoff' = cutoff /\ todo' = todo /\ refreshing' = refreshing
      /\ late' \in BOOLEAN /\ TimeOf[h] <= now
      /\ stored' = [stored EXCEPT ![h] = [blobs |-> new, priced |-> TRUE, present |-> TRUE]]
  BY DEF IndexBlock, loopVars
<1>4. \A x \in Heights : stored'[x].present => TimeOf[x] <= now
  BY <1>3 DEF RollupInv, RollupTypes, Rows
<1> QED BY <1>1, <1>2, <1>3, <1>4 DEF RollupInv, RollupTypes

-----------------------------------------------------------------------------
(* Blocks are deleted.                                                       *)

SendersAt(h) == {stored[h].blobs[i] : i \in DOMAIN stored[h].blobs}

\* The buckets of deleted blocks keep what they promise of blobs ..
LEMMA DeleteBlobs ==
  ASSUME Rows(stored), Rows(stored'), RollupTypes, BlobsInv, NEW gone \in SUBSET Heights, DeleteBlocks(gone)
  PROVE  BlobsInv' /\ blobRollups' \in [BlobKeys -> Nat]
<1> DEFINE hit == {h \in gone : stored[h].present}
           Hits(k) == \E h \in hit : Holds(k, TimeOf[h]) /\ k[3] \in SendersAt(h)
<1>1. /\ stored' = [h \in Heights |-> IF h \in gone THEN Missing ELSE stored[h]]
      /\ blobRollups' = [k \in BlobKeys |-> IF Hits(k) THEN BlobRefresh(stored', k) ELSE blobRollups[k]]
      /\ doubled' = {k \in doubled : ~Hits(k)}
      /\ now' = now /\ reached' = reached
  BY DEF DeleteBlocks, SendersAt
<1>2. /\ now \in Nat /\ blobRollups \in [BlobKeys -> Nat]
      /\ hit \in SUBSET Heights
  BY NowIs DEF RollupTypes
<1>3. /\ \A h \in hit : stored'[h].blobs = <<>>
      /\ \A h \in Heights \ hit : stored'[h].blobs = stored[h].blobs
  BY <1>1, MissingIs DEF Rows
<1> HIDE DEF hit
<1>4. ASSUME NEW k \in BlobKeys
      PROVE  BlobOK(k)' /\ blobRollups'[k] \in Nat
  <2>1. BlobOK(k) /\ blobRollups[k] \in Nat
    BY <1>2 DEF BlobsInv
  <2>2. BlobRefresh(stored', k) \in Nat
    BY BlobRefreshIs
  <2>3. k[1] \in Sizes
    BY BlobKeyIs
  <2>4. (Kept(k)' <=> Kept(k)) /\ (InRetention(k)' <=> InRetention(k))
    BY <1>1 DEF Kept, InRetention
  <2>5. CASE Hits(k)
    <3>1. blobRollups'[k] = BlobRefresh(stored', k) /\ k \notin doubled'
      BY <1>1, <2>5
    <3> QED BY <2>2, <3>1 DEF BlobOK
  <2>6. CASE ~Hits(k)
    <3>1. blobRollups'[k] = blobRollups[k] /\ (k \in doubled' <=> k \in doubled)
      BY <1>1, <2>6
    <3>2. CASE \E h \in hit : h \in Covered(k) /\ k[3] \in SendersAt(h)
      <4>1. PICK h \in hit : h \in Covered(k) /\ ~Holds(k, TimeOf[h])
        BY <2>6, <3>2
      <4>2. now \in Nat /\ h \in Covered(k) /\ ~Holds(k, TimeOf[h])
        BY <1>2, <4>1
      <4>3. k[1] = Fine /\ ~InRetention(k)
        <5>1. Holds(k, TimeOf[h]) \/ (k[1] = Fine /\ ~InRetention(k))
          BY <2>3, <4>2, HoldsIs
        <5> QED BY <4>2, <5>1
      <4> QED BY <2>1, <2>4, <3>1, <4>3 DEF BlobOK, Kept
    <3>3. CASE ~\E h \in hit : h \in Covered(k) /\ k[3] \in SendersAt(h)
      <4>1. \A h \in Covered(k) \cap hit : Own(stored[h].blobs, k[3]) = {} /\ Own(stored'[h].blobs, k[3]) = {}
        BY <1>3, <3>3 DEF Own, SendersAt
      <4>2. \A h \in Covered(k) \ hit : Own(stored[h].blobs, k[3]) = Own(stored'[h].blobs, k[3])
        BY <1>3 DEF Covered
      <4>3. \A h \in Covered(k) : Own(stored[h].blobs, k[3]) = Own(stored'[h].blobs, k[3])
        BY <4>1, <4>2
      <4>4. BlobRefresh(stored, k) = BlobRefresh(stored', k)
        BY <4>3, BlobsAlike
      <4> QED BY <2>1, <2>4, <3>1, <4>4 DEF BlobOK
    <3> QED BY <3>2, <3>3
  <2> QED BY <2>5, <2>6
<1>5. blobRollups' = [k \in BlobKeys |-> blobRollups'[k]]
  BY <1>1
<1> QED BY <1>4, <1>5 DEF BlobsInv

\* .. and of metrics.
LEMMA DeleteMetrics ==
  ASSUME Rows(stored), Rows(stored'), RollupTypes, MetricsInv, NEW gone \in SUBSET Heights, DeleteBlocks(gone)
  PROVE  MetricsInv' /\ metricRollups' \in [BucketKeys -> Metrics]
<1> DEFINE hit == {h \in gone : stored[h].present}
           Hits(k) == \E h \in hit : Holds(k, TimeOf[h])
           below == \E h \in hit : TimeOf[h] < reached
<1>1. /\ stored' = [h \in Heights |-> IF h \in gone THEN Missing ELSE stored[h]]
      /\ metricRollups' = [k \in BucketKeys |-> IF Hits(k) THEN MetricsRefresh(stored', k) ELSE metricRollups[k]]
      /\ overtaken' = {k \in overtaken : ~Hits(k)}
      /\ late' = (late \/ below)
      /\ now' = now /\ reached' = reached /\ healed' = healed /\ phase' = phase /\ todo' = todo
  BY DEF DeleteBlocks, loopVars
<1>2. /\ now \in Nat /\ reached \in Int /\ late \in BOOLEAN /\ metricRollups \in [BucketKeys -> Metrics]
      /\ hit \in SUBSET Heights
  BY NowIs DEF RollupTypes
<1>3. \A h \in Heights \ hit : /\ stored'[h].present <=> stored[h].present
                               /\ stored'[h].present => stored'[h] = stored[h]
  <2>1. \A h \in Heights : stored[h] \in Blocks
    BY DEF Rows
  <2>2. ASSUME NEW h \in Heights \ hit
        PROVE  (stored'[h].present <=> stored[h].present) /\ (stored'[h].present => stored'[h] = stored[h])
    <3>1. CASE h \in gone
      BY <1>1, <2>1, <3>1, MissingIs
    <3>2. CASE h \notin gone
      BY <1>1, <3>2
    <3> QED BY <3>1, <3>2
  <2> QED BY <2>2
<1>4. late' => late \/ below
  BY <1>1
<1>5. ~late' => ~late /\ ~below
  BY <1>1
<1> HIDE DEF hit
<1>6. ASSUME NEW k \in BucketKeys
      PROVE  MetricOK(k)' /\ metricRollups'[k] \in Metrics
  <2> DEFINE is == MetricsRefresh(stored', k)
  <2>1. MetricOK(k) /\ metricRollups[k] \in Metrics
    BY <1>2 DEF MetricsInv
  <2>2. is \in Metrics
    BY MetricsRefreshIs
  <2>3. k[1] \in Sizes /\ k[2] \in Nat
    BY KeyIs
  <2>4. InRetention(k)' <=> InRetention(k)
    BY <1>1 DEF InRetention
  <2>5. CASE Hits(k)
    <3>1. PICK h \in hit : Holds(k, TimeOf[h])
      BY <2>5
    <3>2. h \in Covered(k) /\ TimeOf[h] \in Nat
      BY <1>2, <3>1, RollupSizes DEF Holds, Covered
    <3>3. metricRollups'[k] = is /\ k \notin overtaken'
      BY <1>1, <2>5
    <3>4. k[1] = Fine => k[2] = TimeOf[h]
      BY <1>2, <2>3, <3>2, HoldsIs
    <3>5. CoarseOK(k)'
      BY <3>3 DEF CoarseOK
    <3>6. k[1] = Fine => FineOK(k)'
      <4>1. ASSUME k[1] = Fine, ~late' PROVE k[2] >= reached'
        <5>1. ~(TimeOf[h] < reached)
          BY <1>5, <3>1, <4>1
        <5> QED BY <1>1, <1>2, <3>2, <3>4, <4>1, <5>1
      <4> QED BY <3>3, <4>1 DEF FineOK
    <3> QED BY <2>2, <3>3, <3>5, <3>6 DEF MetricOK
  <2>6. CASE ~Hits(k)
    <3>1. metricRollups'[k] = metricRollups[k] /\ (k \in overtaken' <=> k \in overtaken)
      BY <1>1, <2>6
    <3>2. CASE \E h \in hit : h \in Covered(k)
      <4>1. PICK h \in hit : h \in Covered(k) /\ ~Holds(k, TimeOf[h])
        BY <2>6, <3>2
      <4>2. now \in Nat /\ h \in Covered(k) /\ ~Holds(k, TimeOf[h])
        BY <1>2, <4>1
      <4>3. k[1] = Fine /\ ~InRetention(k)
        <5>1. Holds(k, TimeOf[h]) \/ (k[1] = Fine /\ ~InRetention(k))
          BY <2>3, <4>2, HoldsIs
        <5> QED BY <4>2, <5>1
      <4>4. ~late' => ~late
        BY <1>5
      <4> QED BY <1>1, <2>1, <2>4, <3>1, <4>3, <4>4 DEF MetricOK, FineOK
    <3>3. CASE ~\E h \in hit : h \in Covered(k)
      <4>1. SameBlocks(stored', stored, Covered(k))
        <5>1. \A h \in Covered(k) : h \in Heights \ hit
          BY <3>3 DEF Covered
        <5> QED BY <1>3, <5>1, Zenon DEF SameBlocks
      <4>2. MetricsRefresh(stored', k) = MetricsRefresh(stored, k)
        BY <4>1, MetricsAlike
      <4>3. CoarseOK(k) => CoarseOK(k)'
        BY <1>1, <3>1, <4>2 DEF CoarseOK
      <4>4. ~late' => ~late
        BY <1>5
      <4>5. FineOK(k) => FineOK(k)'
        BY <1>1, <2>4, <3>1, <4>2, <4>4 DEF FineOK
      <4> QED BY <2>1, <3>1, <4>3, <4>5 DEF MetricOK
    <3> QED BY <3>2, <3>3
  <2> QED BY <2>5, <2>6
<1>7. metricRollups' = [k \in BucketKeys |-> metricRollups'[k]]
  BY <1>1
<1> QED BY <1>6, <1>7 DEF MetricsInv

\* Both, and the types.
LEMMA DeleteKeeps ==
  ASSUME Rows(stored), Rows(stored'), RollupInv, NEW gone \in SUBSET Heights, DeleteBlocks(gone)
  PROVE  RollupInv'
<1>1. BlobsInv' /\ blobRollups' \in [BlobKeys -> Nat]
  BY DeleteBlobs DEF RollupInv
<1>2. MetricsInv' /\ metricRollups' \in [BucketKeys -> Metrics]
  BY DeleteMetrics DEF RollupInv
<1>3. /\ now' = now /\ reached' = reached /\ healed' = healed /\ chunkEnd' = chunkEnd /\ walkStart' = walkStart
      /\ cutoff' = cutoff /\ todo' = todo /\ refreshing' = refreshing
      /\ late' \in BOOLEAN
      /\ stored' = [h \in Heights |-> IF h \in gone THEN Missing ELSE stored[h]]
  BY DEF DeleteBlocks, loopVars
<1>4. \A x \in Heights : stored'[x].present => TimeOf[x] <= now
  BY <1>3, MissingIs DEF RollupInv, RollupTypes, Rows
<1> QED BY <1>1, <1>2, <1>3, <1>4 DEF RollupInv, RollupTypes

-----------------------------------------------------------------------------
(* The maintenance loop.                                                     *)

\* Rows that a step leaves alone stay right: blobs ..
LEMMA BlobsStay ==
  ASSUME BlobsInv, stored' = stored, blobRollups' = blobRollups, doubled' = doubled,
         now' = now, reached' = reached
  PROVE  BlobsInv'
BY DEF BlobsInv, BlobOK, Kept, InRetention

\* .. and metrics.
LEMMA MetricsStay ==
  ASSUME MetricsInv, stored' = stored, metricRollups' = metricRollups, overtaken' = overtaken,
         now' = now, reached' = reached, late' = late, healed' = healed,
         phase' = "heal" => phase = "heal" /\ todo' = todo
  PROVE  MetricsInv'
<1>1. ASSUME NEW k \in BucketKeys PROVE MetricOK(k)'
  <2>1. MetricOK(k)
    BY DEF MetricsInv
  <2>2. CoarseOK(k) => CoarseOK(k)'
    BY DEF CoarseOK
  <2>3. FineOK(k) => FineOK(k)'
    BY DEF FineOK, InRetention
  <2> QED BY <2>1, <2>2, <2>3 DEF MetricOK
<1> QED BY <1>1 DEF MetricsInv

\* A chunk replaces the fine buckets from its start on that have blocks; those without
\* have no row to replace.
LEMMA BackfillKeeps ==
  ASSUME Rows(stored), RollupInv, BackfillChunk
  PROVE  RollupInv'
<1> DEFINE from == Max({chunkEnd - Chunk, walkStart})
           In(k) == k[1] = Fine /\ k[2] >= from /\ k[2] < chunkEnd
<1>1. /\ chunkEnd > walkStart
      /\ blobRollups' = [k \in BlobKeys |-> IF In(k) /\ BlobRefresh(stored, k) > 0
                                            THEN BlobRefresh(stored, k) ELSE blobRollups[k]]
      /\ metricRollups' = [k \in BucketKeys |-> IF In(k) /\ MetricsRefresh(stored, k).blocks > 0
                                                THEN MetricsRefresh(stored, k) ELSE metricRollups[k]]
      /\ chunkEnd' = from
      /\ reached' = Min({reached, from})
      /\ doubled' = {k \in doubled : ~In(k)}
      /\ stored' = stored /\ now' = now /\ phase' = phase /\ walkStart' = walkStart /\ todo' = todo
      /\ refreshing' = refreshing /\ cutoff' = cutoff /\ late' = late /\ overtaken' = overtaken /\ healed' = healed
  BY DEF BackfillChunk
<1>2. RollupTypes /\ BlobsInv /\ MetricsInv
  BY DEF RollupInv
<1>3. /\ now \in Nat /\ reached \in Int /\ chunkEnd \in Int /\ walkStart \in Int /\ Chunk \in Nat \ {0}
      /\ Deployed \in Nat /\ reached <= chunkEnd /\ reached <= Deployed
      /\ blobRollups \in [BlobKeys -> Nat] /\ metricRollups \in [BucketKeys -> Metrics]
  BY <1>2, NowIs, RollupSizes DEF RollupTypes
<1>4. from \in Int /\ from < chunkEnd
  <2>1. chunkEnd - Chunk \in Int
    BY <1>3
  <2>2. from \in {chunkEnd - Chunk, walkStart}
    BY <1>3, <2>1, MaxOfTwo
  <2> QED BY <1>1, <1>3, <2>2
<1> HIDE DEF from
<1>5. reached' \in {reached, from} /\ reached' <= reached /\ reached' <= from
  BY <1>1, <1>3, <1>4, MinOfTwo
<1>6. reached' \in Int /\ reached' <= chunkEnd' /\ reached' <= Deployed
  BY <1>1, <1>3, <1>4, <1>5
<1>7. \A k : InRetention(k)' <=> InRetention(k)
  BY <1>1 DEF InRetention
<1>8. ASSUME NEW k, k[1] = Fine, k[2] \in Nat, ~In(k), k[2] >= reached'
      PROVE  k[2] >= reached
  BY <1>3, <1>4, <1>5, <1>8
<1>9. ASSUME NEW k \in BlobKeys
      PROVE  BlobOK(k)' /\ blobRollups'[k] \in Nat
  <2> DEFINE r == BlobRefresh(stored, k)
  <2>1. BlobOK(k) /\ blobRollups[k] \in Nat
    BY <1>2, <1>3 DEF BlobsInv
  <2>2. r \in Nat /\ BlobRefresh(stored', k) = r
    BY <1>1, BlobRefreshIs
  <2>3. k[2] \in Nat
    BY BlobKeyIs
  <2>4. CASE In(k)
    <3>1. k \notin doubled' /\ blobRollups'[k] = IF r > 0 THEN r ELSE blobRollups[k]
      BY <1>1, <2>4
    <3>2. InRetention(k) /\ r = 0 => blobRollups[k] = 0
      BY <2>1, <2>4 DEF BlobOK
    <3>3. InRetention(k) => blobRollups'[k] = r
      BY <2>2, <3>1, <3>2
    <3>4. blobRollups'[k] \in Nat
      BY <2>1, <2>2, <3>1
    <3> QED BY <1>7, <2>2, <2>4, <3>1, <3>3, <3>4 DEF BlobOK, Kept
  <2>5. CASE ~In(k)
    <3>1. blobRollups'[k] = blobRollups[k] /\ (k \in doubled' <=> k \in doubled)
      BY <1>1, <2>5
    <3>2. Kept(k)' => Kept(k)
      BY <1>7, <1>8, <2>3, <2>5 DEF Kept
    <3> QED BY <1>7, <2>1, <2>2, <3>1, <3>2 DEF BlobOK
  <2> QED BY <2>4, <2>5
<1>10. ASSUME NEW k \in BucketKeys
       PROVE  MetricOK(k)' /\ metricRollups'[k] \in Metrics
  <2> DEFINE r == MetricsRefresh(stored, k)
  <2>1. MetricOK(k) /\ metricRollups[k] \in Metrics
    BY <1>2, <1>3 DEF MetricsInv
  <2>2. r \in Metrics /\ MetricsRefresh(stored', k) = r /\ (r.blocks = 0 => r = NoRefresh.agg)
    BY <1>1, MetricsRefreshIs
  <2>3. k[2] \in Nat
    BY KeyIs
  <2>4. metricRollups[k].blocks \in Nat /\ r.blocks \in Nat
    BY <2>1, <2>2 DEF Metrics
  <2>5. metricRollups'[k] = IF In(k) /\ r.blocks > 0 THEN r ELSE metricRollups[k]
    BY <1>1
  <2> HIDE DEF r
  <2>6. CASE In(k)
    <3>1. FineOK(k) /\ k[1] = Fine
      BY <2>1, <2>6 DEF MetricOK
    <3>2. InRetention(k) => metricRollups[k] \in {NoRefresh.agg, r}
      BY <3>1 DEF FineOK, r
    <3>3. InRetention(k) => metricRollups'[k] = r
      BY <2>2, <2>4, <2>5, <2>6, <3>2
    <3>4. k[2] >= reached'
      BY <1>4, <1>5, <1>6, <2>3, <2>6
    <3>5. FineOK(k)'
      BY <1>7, <2>2, <3>3, <3>4 DEF FineOK
    <3>6. metricRollups'[k] \in Metrics
      BY <2>1, <2>2, <2>5
    <3> QED BY <3>1, <3>5, <3>6 DEF MetricOK
  <2>7. CASE ~In(k)
    <3>1. metricRollups'[k] = metricRollups[k]
      BY <2>5, <2>7
    <3>2. CoarseOK(k) => CoarseOK(k)'
      BY <1>1, <2>2, <3>1 DEF CoarseOK, r
    <3>3. k[1] = Fine /\ FineOK(k) => FineOK(k)'
      <4>1. k[1] = Fine /\ k[2] >= reached' => k[2] >= reached
        BY <1>8, <2>3, <2>7
      <4>2. k[2] >= reached => k[2] >= reached'
        BY <1>3, <1>5, <1>6, <2>3
      <4>3. late' = late
        BY <1>1
      <4> HIDE DEF In
      <4> QED BY <1>7, <2>2, <3>1, <4>1, <4>2, <4>3 DEF FineOK, r
    <3>4. overtaken' = overtaken
      BY <1>1
    <3> QED BY <2>1, <3>1, <3>2, <3>3, <3>4 DEF MetricOK
  <2> QED BY <2>6, <2>7
<1>11. blobRollups' = [k \in BlobKeys |-> blobRollups'[k]] /\ metricRollups' = [k \in BucketKeys |-> metricRollups'[k]]
  BY <1>1
<1>12. BlobsInv' /\ blobRollups' \in [BlobKeys -> Nat]
  BY <1>9, <1>11 DEF BlobsInv
<1>13. MetricsInv' /\ metricRollups' \in [BucketKeys -> Metrics]
  BY <1>10, <1>11 DEF MetricsInv
<1> QED BY <1>1, <1>2, <1>4, <1>6, <1>12, <1>13 DEF RollupInv, RollupTypes

\* The list of stale buckets holds every bucket whose fees are wrong.
LEMMA BackfillEndKeeps ==
  ASSUME Rows(stored), RollupInv, BackfillEnds
  PROVE  RollupInv'
<1>1. /\ phase' = "heal" /\ todo' = StaleBuckets
      /\ stored' = stored /\ blobRollups' = blobRollups /\ metricRollups' = metricRollups /\ now' = now
      /\ chunkEnd' = chunkEnd /\ walkStart' = walkStart /\ refreshing' = refreshing /\ cutoff' = cutoff
      /\ reached' = reached /\ late' = late /\ doubled' = doubled /\ overtaken' = overtaken /\ healed' = healed
      /\ phase = "backfill"
  BY DEF BackfillEnds, rawVars, ghostVars
<1>2. RollupTypes /\ BlobsInv /\ MetricsInv
  BY DEF RollupInv
<1>3. BlobsInv'
  BY <1>1, <1>2, BlobsStay
<1>4. StaleBuckets \subseteq CoarseKeys
  BY DEF StaleBuckets, CoarseKeys
<1>5. ASSUME NEW k \in BucketKeys
      PROVE  MetricOK(k)'
  <2>1. MetricOK(k) /\ metricRollups[k] \in Metrics
    BY <1>2 DEF MetricsInv, RollupTypes
  <2>2. FineOK(k) => FineOK(k)'
    BY <1>1 DEF FineOK, InRetention
  <2>3. ASSUME k[1] # Fine, CoarseOK(k) PROVE CoarseOK(k)'
    <3> DEFINE m == metricRollups[k]  is == MetricsRefresh(stored, k)
    <3>1. is \in Metrics /\ is.priced <= is.blocks
      BY MetricsRefreshIs
    <3>2. /\ m.blocks = is.blocks /\ m.blobs = is.blobs
          /\ m.priced = is.priced \/ (m.priced = 0 /\ ~healed)
      BY <2>3 DEF CoarseOK
    <3>3. /\ m.priced \in Nat /\ m.blocks \in Nat /\ m.blobs \in Nat
          /\ is.priced \in Nat /\ is.blocks \in Nat /\ is.blobs \in Nat
      BY <2>1, <3>1 DEF Metrics
    <3>4. m.priced = 0 /\ m.priced # is.priced => k \in StaleBuckets
      <4> HIDE DEF m, is
      <4>1. m.priced = 0 /\ m.priced # is.priced => m.blocks > 0 /\ is.priced > 0
        BY <3>1, <3>2, <3>3
      <4> QED BY <2>3, <4>1 DEF StaleBuckets, m, is
    <3>5. m' = m /\ is' = is
      BY <1>1
    <3> HIDE DEF m, is
    <3>6. /\ m'.blocks = is'.blocks /\ m'.blobs = is'.blobs
          /\ m'.priced = is'.priced \/ (m'.priced = 0 /\ ~healed' /\ (phase' = "heal" => k \in todo'))
      BY <1>1, <3>2, <3>4, <3>5
    <3> QED BY <3>6 DEF CoarseOK, m, is
  <2> QED BY <1>1, <2>1, <2>2, <2>3 DEF MetricOK
<1> QED BY <1>1, <1>2, <1>3, <1>4, <1>5 DEF RollupInv, RollupTypes, MetricsInv

\* The SELECT of a repair.
LEMMA HealSelectKeeps ==
  ASSUME Rows(stored), RollupInv, NEW k \in BucketKeys, HealSelect(k)
  PROVE  RollupInv'
<1>1. /\ k \in todo /\ refreshing' = [key |-> k, agg |-> MetricsRefresh(stored, k)]
      /\ stored' = stored /\ blobRollups' = blobRollups /\ metricRollups' = metricRollups /\ now' = now
      /\ chunkEnd' = chunkEnd /\ walkStart' = walkStart /\ todo' = todo /\ cutoff' = cutoff /\ phase' = phase
      /\ reached' = reached /\ late' = late /\ doubled' = doubled /\ overtaken' = overtaken /\ healed' = healed
  BY DEF HealSelect, rawVars, ghostVars
<1>2. RollupTypes /\ BlobsInv /\ MetricsInv
  BY DEF RollupInv
<1>3. BlobsInv' /\ MetricsInv'
  BY <1>1, <1>2, BlobsStay, MetricsStay
<1>4. k \in CoarseKeys /\ MetricsRefresh(stored, k) \in Metrics
  BY <1>1, <1>2, MetricsRefreshIs DEF RollupTypes
<1>5. refreshing' \in [key : CoarseKeys, agg : Metrics]
  BY <1>1, <1>4
<1> QED BY <1>1, <1>2, <1>3, <1>5 DEF RollupInv, RollupTypes

\* What it writes is right, or the bucket counts as overtaken.
LEMMA HealWriteKeeps ==
  ASSUME Rows(stored), RollupInv, HealWrite
  PROVE  RollupInv'
<1> DEFINE k == refreshing.key  agg == refreshing.agg
<1>1. /\ refreshing # NoRefresh
      /\ metricRollups' = [metricRollups EXCEPT ![k] = agg]
      /\ overtaken' = IF agg = MetricsRefresh(stored, k) THEN overtaken \ {k} ELSE overtaken \cup {k}
      /\ todo' = todo \ {k}
      /\ refreshing' = NoRefresh
      /\ stored' = stored /\ blobRollups' = blobRollups /\ now' = now
      /\ chunkEnd' = chunkEnd /\ walkStart' = walkStart /\ cutoff' = cutoff /\ phase' = phase
      /\ reached' = reached /\ late' = late /\ doubled' = doubled /\ healed' = healed
  BY DEF HealWrite
<1>2. RollupTypes /\ BlobsInv /\ MetricsInv
  BY DEF RollupInv
<1>3. k \in CoarseKeys /\ agg \in Metrics /\ metricRollups \in [BucketKeys -> Metrics]
  BY <1>1, <1>2 DEF RollupTypes
<1>4. BlobsInv'
  BY <1>1, <1>2, BlobsStay
<1> HIDE DEF k, agg
<1>5. k \in BucketKeys /\ k[1] # Fine
  BY <1>3 DEF CoarseKeys
<1>6. metricRollups' \in [BucketKeys -> Metrics]
  BY <1>1, <1>3, <1>5
<1>7. ASSUME NEW j \in BucketKeys
      PROVE  MetricOK(j)'
  <2>1. MetricOK(j)
    BY <1>2 DEF MetricsInv
  <2>2. CASE j = k
    <3>1. metricRollups'[j] = agg /\ MetricsRefresh(stored', j) = MetricsRefresh(stored, k)
      BY <1>1, <1>3, <2>2
    <3>2. CASE agg = MetricsRefresh(stored, k)
      BY <1>5, <2>2, <3>1, <3>2 DEF MetricOK, CoarseOK
    <3>3. CASE agg # MetricsRefresh(stored, k)
      <4>1. j \in overtaken'
        BY <1>1, <2>2, <3>3
      <4> QED BY <1>5, <2>2, <4>1 DEF MetricOK
    <3> QED BY <3>2, <3>3
  <2>3. CASE j # k
    <3>1. metricRollups'[j] = metricRollups[j] /\ (j \in overtaken' <=> j \in overtaken) /\ (j \in todo => j \in todo')
      BY <1>1, <1>3, <2>3
    <3>2. CoarseOK(j) => CoarseOK(j)'
      BY <1>1, <3>1 DEF CoarseOK
    <3>3. FineOK(j) => FineOK(j)'
      BY <1>1, <3>1 DEF FineOK, InRetention
    <3> QED BY <2>1, <3>1, <3>2, <3>3 DEF MetricOK
  <2> QED BY <2>2, <2>3
<1> QED BY <1>1, <1>2, <1>4, <1>6, <1>7 DEF RollupInv, RollupTypes, MetricsInv

\* A repair that has worked its list off leaves no bucket without its fees.
LEMMA HealEndKeeps ==
  ASSUME Rows(stored), RollupInv, HealEnds
  PROVE  RollupInv'
<1>1. /\ phase = "heal" /\ phase' = "prune" /\ todo' = {} /\ healed' = (healed \/ todo = {})
      /\ stored' = stored /\ blobRollups' = blobRollups /\ metricRollups' = metricRollups /\ now' = now
      /\ chunkEnd' = chunkEnd /\ walkStart' = walkStart /\ refreshing' = refreshing /\ cutoff' = cutoff
      /\ reached' = reached /\ late' = late /\ doubled' = doubled /\ overtaken' = overtaken
  BY DEF HealEnds, rawVars
<1>2. RollupTypes /\ BlobsInv /\ MetricsInv
  BY DEF RollupInv
<1>3. BlobsInv'
  BY <1>1, <1>2, BlobsStay
<1>4. ASSUME NEW k \in BucketKeys
      PROVE  MetricOK(k)'
  <2>1. MetricOK(k)
    BY <1>2 DEF MetricsInv
  <2>2. FineOK(k) => FineOK(k)'
    BY <1>1 DEF FineOK, InRetention
  <2>3. CoarseOK(k) => CoarseOK(k)'
    BY <1>1 DEF CoarseOK
  <2> QED BY <1>1, <2>1, <2>2, <2>3 DEF MetricOK
<1>5. healed' \in BOOLEAN
  BY <1>1
<1> QED BY <1>1, <1>2, <1>3, <1>4, <1>5 DEF RollupInv, RollupTypes, MetricsInv

\* A prune touches only what is older than the retention: blobs ..
LEMMA PruneBlobsKeeps ==
  ASSUME Rows(stored), RollupInv, PruneBlobRollups
  PROVE  RollupInv'
<1>1. /\ cutoff' = now - Retention
      /\ blobRollups' = [k \in BlobKeys |-> IF k[1] = Fine /\ k[2] < cutoff' THEN 0 ELSE blobRollups[k]]
      /\ doubled' = {k \in doubled : blobRollups'[k] > 0}
      /\ stored' = stored /\ metricRollups' = metricRollups /\ now' = now /\ phase' = phase
      /\ chunkEnd' = chunkEnd /\ walkStart' = walkStart /\ todo' = todo /\ refreshing' = refreshing
      /\ reached' = reached /\ late' = late /\ overtaken' = overtaken /\ healed' = healed
  BY DEF PruneBlobRollups
<1>2. RollupTypes /\ BlobsInv /\ MetricsInv
  BY DEF RollupInv
<1>3. now \in Nat /\ Retention \in Nat /\ blobRollups \in [BlobKeys -> Nat]
  BY <1>2, NowIs DEF RollupTypes
<1>4. MetricsInv'
  BY <1>1, <1>2, MetricsStay
<1>5. ASSUME NEW k \in BlobKeys
      PROVE  BlobOK(k)' /\ blobRollups'[k] \in Nat
  <2>1. BlobOK(k) /\ blobRollups[k] \in Nat
    BY <1>2, <1>3 DEF BlobsInv
  <2>2. k[2] \in Nat
    BY BlobKeyIs
  <2>3. (Kept(k)' <=> Kept(k)) /\ (InRetention(k)' <=> InRetention(k))
    BY <1>1 DEF Kept, InRetention
  <2>4. CASE k[1] = Fine /\ k[2] < cutoff'
    <3>1. blobRollups'[k] = 0
      BY <1>1, <2>4
    <3>2. k \notin doubled'
      BY <1>1, <3>1
    <3>3. ~InRetention(k)
      BY <1>1, <1>3, <2>2, <2>4 DEF InRetention
    <3> QED BY <2>3, <2>4, <3>1, <3>2, <3>3 DEF BlobOK, Kept
  <2>5. CASE ~(k[1] = Fine /\ k[2] < cutoff')
    <3>1. blobRollups'[k] = blobRollups[k]
      BY <1>1, <2>5
    <3>2. k \in doubled' <=> k \in doubled
      BY <1>1, <2>1, <3>1 DEF BlobOK
    <3> QED BY <1>1, <2>1, <2>3, <3>1, <3>2 DEF BlobOK
  <2> QED BY <2>4, <2>5
<1>6. blobRollups' = [k \in BlobKeys |-> blobRollups'[k]]
  BY <1>1
<1>7. cutoff' \in Int /\ cutoff' <= now - Retention
  BY <1>1, <1>3
<1> QED BY <1>1, <1>2, <1>4, <1>5, <1>6, <1>7 DEF RollupInv, RollupTypes, BlobsInv

\* .. and metrics, by the cutoff of the first statement.
LEMMA PruneMetricsKeeps ==
  ASSUME Rows(stored), RollupInv, PruneMetricRollups
  PROVE  RollupInv'
<1>1. /\ cutoff # NoCutoff
      /\ metricRollups' = [k \in BucketKeys |-> IF k[1] = Fine /\ k[2] < cutoff THEN NoRefresh.agg
                                                ELSE metricRollups[k]]
      /\ cutoff' = NoCutoff
      /\ stored' = stored /\ blobRollups' = blobRollups /\ now' = now /\ phase' = phase
      /\ chunkEnd' = chunkEnd /\ walkStart' = walkStart /\ todo' = todo /\ refreshing' = refreshing
      /\ reached' = reached /\ late' = late /\ doubled' = doubled /\ overtaken' = overtaken /\ healed' = healed
  BY DEF PruneMetricRollups, ghostVars
<1>2. RollupTypes /\ BlobsInv /\ MetricsInv
  BY DEF RollupInv
<1>3. /\ now \in Nat /\ Retention \in Nat /\ metricRollups \in [BucketKeys -> Metrics]
      /\ cutoff \in Int /\ cutoff <= now - Retention
  BY <1>1, <1>2, NowIs DEF RollupTypes
<1>4. BlobsInv'
  BY <1>1, <1>2, BlobsStay
<1>5. NoRefresh.agg \in Metrics /\ ~(NoRefresh.agg.blocks > 0)
  BY DEF NoRefresh, Metrics
<1>6. ASSUME NEW k \in BucketKeys
      PROVE  MetricOK(k)' /\ metricRollups'[k] \in Metrics
  <2>1. MetricOK(k) /\ metricRollups[k] \in Metrics
    BY <1>2, <1>3 DEF MetricsInv
  <2>2. k[2] \in Nat
    BY KeyIs
  <2>3. InRetention(k)' <=> InRetention(k)
    BY <1>1 DEF InRetention
  <2>4. CASE k[1] = Fine /\ k[2] < cutoff
    <3>1. metricRollups'[k] = NoRefresh.agg
      BY <1>1, <2>4
    <3>2. ~InRetention(k)
      BY <1>3, <2>2, <2>4 DEF InRetention
    <3>3. FineOK(k)'
      BY <1>5, <2>3, <3>1, <3>2 DEF FineOK
    <3> QED BY <1>5, <2>4, <3>1, <3>3 DEF MetricOK
  <2>5. CASE ~(k[1] = Fine /\ k[2] < cutoff)
    <3>1. metricRollups'[k] = metricRollups[k]
      BY <1>1, <2>5
    <3>2. CoarseOK(k) => CoarseOK(k)'
      BY <1>1, <3>1 DEF CoarseOK
    <3>3. FineOK(k) => FineOK(k)'
      BY <1>1, <2>3, <3>1 DEF FineOK
    <3> QED BY <1>1, <2>1, <3>1, <3>2, <3>3 DEF MetricOK
  <2> QED BY <2>4, <2>5
<1>7. metricRollups' = [k \in BucketKeys |-> metricRollups'[k]]
  BY <1>1
<1>8. NoCutoff \in Int
  BY DEF NoCutoff
<1> QED BY <1>1, <1>2, <1>4, <1>6, <1>7, <1>8 DEF RollupInv, RollupTypes, MetricsInv

\* A restart begins above all buckets filled so far.
LEMMA RestartKeeps ==
  ASSUME Rows(stored), RollupInv, Restart
  PROVE  RollupInv'
<1>1. /\ phase' = "backfill" /\ chunkEnd' = now + Fine /\ walkStart' = now + Fine - Retention
      /\ todo' = {} /\ refreshing' = NoRefresh /\ cutoff' = NoCutoff
      /\ stored' = stored /\ blobRollups' = blobRollups /\ metricRollups' = metricRollups /\ now' = now
      /\ reached' = reached /\ late' = late /\ doubled' = doubled /\ overtaken' = overtaken /\ healed' = healed
  BY DEF Restart, rawVars, ghostVars
<1>2. RollupTypes /\ BlobsInv /\ MetricsInv
  BY DEF RollupInv
<1>3. BlobsInv' /\ MetricsInv'
  BY <1>1, <1>2, BlobsStay, MetricsStay
<1>4. /\ now \in Nat /\ Retention \in Nat /\ reached \in Int /\ Deployed \in Nat
      /\ reached <= Deployed /\ now >= Deployed
  BY <1>2, NowIs, RollupSizes DEF RollupTypes
<1>5. chunkEnd' \in Int /\ walkStart' \in Int /\ cutoff' \in Int /\ reached' <= chunkEnd'
  BY <1>1, <1>4 DEF Fine, NoCutoff
<1> QED BY <1>1, <1>2, <1>3, <1>5 DEF RollupInv, RollupTypes

\* As time goes on, buckets leave the retention.
LEMMA TickKeeps ==
  ASSUME Rows(stored), RollupInv, Tick
  PROVE  RollupInv'
<1>1. /\ now' \in Clock /\ now' > now
      /\ phase' = phase /\ chunkEnd' = chunkEnd /\ walkStart' = walkStart
      /\ todo' = todo /\ refreshing' = refreshing /\ cutoff' = cutoff
      /\ stored' = stored /\ blobRollups' = blobRollups /\ metricRollups' = metricRollups
      /\ reached' = reached /\ late' = late /\ doubled' = doubled /\ overtaken' = overtaken /\ healed' = healed
  BY DEF Tick, rawVars, loopVars, ghostVars
<1>2. RollupTypes /\ BlobsInv /\ MetricsInv
  BY DEF RollupInv
<1>3. now \in Nat /\ now' \in Nat /\ Retention \in Nat /\ cutoff \in Int /\ \A h \in Heights : TimeOf[h] \in Nat
  BY <1>1, <1>2, NowIs, RollupSizes DEF RollupTypes
<1>4. ASSUME NEW k, k[2] \in Nat, InRetention(k)' PROVE InRetention(k)
  <2>1. k[2] >= now' - Retention
    BY <1>4 DEF InRetention
  <2>2. k[2] >= now - Retention
    BY <1>1, <1>3, <1>4, <2>1
  <2> QED BY <2>2 DEF InRetention
<1>5. ASSUME NEW k \in BlobKeys PROVE BlobOK(k)'
  <2>1. BlobOK(k)
    BY <1>2 DEF BlobsInv
  <2>2. k[2] \in Nat
    BY BlobKeyIs
  <2>3. (InRetention(k)' => InRetention(k)) /\ (Kept(k)' => Kept(k))
    BY <1>1, <1>4, <2>2 DEF Kept
  <2> QED BY <1>1, <2>1, <2>3 DEF BlobOK
<1>6. ASSUME NEW k \in BucketKeys PROVE MetricOK(k)'
  <2>1. MetricOK(k)
    BY <1>2 DEF MetricsInv
  <2>2. k[2] \in Nat
    BY KeyIs
  <2>3. InRetention(k)' => InRetention(k)
    BY <1>4, <2>2
  <2>4. CoarseOK(k) => CoarseOK(k)'
    BY <1>1 DEF CoarseOK
  <2>5. FineOK(k) => FineOK(k)'
    BY <1>1, <2>3 DEF FineOK
  <2> QED BY <1>1, <2>1, <2>4, <2>5 DEF MetricOK
<1>7. \A h \in Heights : stored'[h].present => TimeOf[h] <= now'
  <2>1. \A h \in Heights : stored[h].present => TimeOf[h] <= now
    BY <1>2 DEF RollupTypes
  <2> QED BY <1>1, <1>3, <2>1
<1>8. cutoff' # NoCutoff => cutoff' <= now' - Retention
  <2>1. cutoff # NoCutoff => cutoff <= now - Retention
    BY <1>2 DEF RollupTypes
  <2>2. now - Retention \in Int /\ now' - Retention \in Int /\ now - Retention <= now' - Retention
    <3>1. now \in Nat /\ now' \in Nat /\ Retention \in Nat /\ now' > now
      BY <1>1, <1>3
    <3>2. \A a, b, c \in Nat : b > a => a - c \in Int /\ b - c \in Int /\ a - c <= b - c
      OBVIOUS
    <3> QED BY <3>1, <3>2
  <2>3. \A a, b, c \in Int : a <= b /\ b <= c => a <= c
    OBVIOUS
  <2>4. cutoff <= now - Retention => cutoff <= now' - Retention
    BY <1>3, <2>2, <2>3
  <2>5. cutoff' = cutoff
    BY <1>1
  <2> QED BY <2>1, <2>4, <2>5
<1> QED BY <1>1, <1>2, <1>5, <1>6, <1>7, <1>8 DEF RollupInv, RollupTypes, BlobsInv, MetricsInv

\* A read changes nothing.
LEMMA RollupStays ==
  ASSUME RollupInv, UNCHANGED rollupVars
  PROVE  RollupInv'
<1>1. /\ phase' = phase /\ chunkEnd' = chunkEnd /\ walkStart' = walkStart /\ now' = now
      /\ todo' = todo /\ refreshing' = refreshing /\ cutoff' = cutoff
      /\ stored' = stored /\ blobRollups' = blobRollups /\ metricRollups' = metricRollups
      /\ reached' = reached /\ late' = late /\ doubled' = doubled /\ overtaken' = overtaken /\ healed' = healed
  BY DEF rollupVars, rawVars, loopVars, ghostVars
<1>2. BlobsInv' /\ MetricsInv'
  BY <1>1, BlobsStay, MetricsStay DEF RollupInv
<1> QED BY <1>1, <1>2 DEF RollupInv, RollupTypes

\* The tables as they stand when the fine tier comes in.
LEMMA RollupStart ==
  ASSUME ReadsInit, Rows(stored)
  PROVE  RollupInv
<1>1. /\ now = Deployed
      /\ \A h \in Heights : TimeOf[h] >= Deployed => stored[h] = Missing
      /\ blobRollups = [k \in BlobKeys |-> IF k[1] = Fine THEN 0 ELSE BlobRefresh(stored, k)]
      /\ metricRollups = [k \in BucketKeys |-> IF k[1] = Fine THEN NoRefresh.agg
                                               ELSE [MetricsRefresh(stored, k) EXCEPT !.priced = 0]]
      /\ phase = "backfill" /\ chunkEnd = now + Fine /\ walkStart = now + Fine - Retention
      /\ todo = {} /\ refreshing = NoRefresh /\ cutoff = NoCutoff
      /\ reached = Deployed /\ late = FALSE /\ doubled = {} /\ overtaken = {} /\ healed = FALSE
  BY DEF ReadsInit, RollupInit
<1>2. Deployed \in Clock /\ Deployed \in Nat /\ Retention \in Nat /\ \A h \in Heights : TimeOf[h] \in Nat
  BY RollupSizes
<1>3. now \in Nat
  BY <1>1, <1>2
<1>4. \A h \in Heights : stored[h].present => TimeOf[h] < Deployed
  <2>1. \A h \in Heights : TimeOf[h] >= Deployed => ~stored[h].present
    BY <1>1, MissingIs
  <2> QED BY <1>2, <2>1
<1>5. ASSUME NEW k, k[1] = Fine, k[2] \in Nat, k[2] >= Deployed, NEW h \in Covered(k)
      PROVE  h \in Heights /\ ~stored[h].present /\ stored[h].blobs = <<>>
  <2>1. k[2] = TimeOf[h] /\ h \in Heights
    <3>1. k[1] \in Sizes
      BY <1>5 DEF Sizes
    <3>2. k[1] = Fine => k[2] = TimeOf[h]
      BY <1>3, <1>5, <3>1, HoldsIs
    <3> QED BY <1>5, <3>2 DEF Covered
  <2>2. ~stored[h].present
    BY <1>2, <1>4, <1>5, <2>1
  <2> QED BY <2>1, <2>2 DEF Rows
<1>6. ASSUME NEW k \in BlobKeys
      PROVE  BlobOK(k) /\ blobRollups[k] \in Nat
  <2>1. BlobRefresh(stored, k) = Cardinality(PlacedBy(stored, Covered(k), k[3])) /\ BlobRefresh(stored, k) \in Nat
    BY BlobRefreshIs
  <2>2. blobRollups[k] = IF k[1] = Fine THEN 0 ELSE BlobRefresh(stored, k)
    BY <1>1
  <2>3. k \notin doubled
    BY <1>1
  <2>4. k[1] = Fine /\ k[2] >= Deployed => BlobRefresh(stored, k) = 0
    <3> SUFFICES ASSUME k[1] = Fine, k[2] >= Deployed PROVE BlobRefresh(stored, k) = 0
      OBVIOUS
    <3>1. k[2] \in Nat
      BY BlobKeyIs
    <3>2. \A h \in Covered(k) : Own(stored[h].blobs, k[3]) = {}
      BY <1>5, <3>1 DEF Own
    <3>3. PlacedBy(stored, Covered(k), k[3]) = {}
      BY <3>2 DEF PlacedBy
    <3>4. BlobRefresh(stored, k) = Cardinality({})
      BY <2>1, <3>3
    <3> QED BY <3>4, FS_EmptySet
  <2>5. Kept(k) => blobRollups[k] = BlobRefresh(stored, k)
    BY <1>1, <2>2, <2>4 DEF Kept
  <2>6. k[1] = Fine => blobRollups[k] = 0
    BY <2>2
  <2>7. blobRollups[k] \in Nat
    BY <2>1, <2>2
  <2> QED BY <2>3, <2>5, <2>6, <2>7 DEF BlobOK
<1>7. NoRefresh.agg \in Metrics /\ ~(NoRefresh.agg.blocks > 0)
  BY DEF NoRefresh, Metrics
<1>8. ASSUME NEW k \in BucketKeys
      PROVE  MetricOK(k) /\ metricRollups[k] \in Metrics
  <2> DEFINE is == MetricsRefresh(stored, k)  m == metricRollups[k]
  <2>1. is \in Metrics /\ (is.blocks = 0 => is = NoRefresh.agg)
    BY MetricsRefreshIs
  <2>2. CASE k[1] = Fine
    <3>1. m = NoRefresh.agg
      BY <1>1, <2>2
    <3>2. k[2] >= Deployed => is = NoRefresh.agg
      <4> SUFFICES ASSUME k[2] >= Deployed PROVE is = NoRefresh.agg
        OBVIOUS
      <4>1. k[2] \in Nat
        BY KeyIs
      <4>2. BlocksIn(stored, k[2], k[2] + k[1]) = {h \in Heights : stored[h].present /\ Bucket(k[1], TimeOf[h]) = k[2]}
        BY BucketHolds
      <4>3. BlocksIn(stored, k[2], k[2] + k[1]) = {}
        BY <1>5, <2>2, <4>1, <4>2 DEF Covered
      <4>4. is.blocks = Cardinality({})
        BY <4>3 DEF MetricsRefresh, MetricsOf
      <4> QED BY <2>1, <4>4, FS_EmptySet
    <3>3. FineOK(k)
      BY <1>1, <1>7, <3>1, <3>2 DEF FineOK
    <3> QED BY <1>7, <2>2, <3>1, <3>3 DEF MetricOK
  <2>3. CASE k[1] # Fine
    <3>1. m = [is EXCEPT !.priced = 0]
      BY <1>1, <2>3
    <3> HIDE DEF is, m
    <3>2. m \in Metrics /\ m.blocks = is.blocks /\ m.blobs = is.blobs /\ m.priced = 0
      BY <2>1, <3>1 DEF Metrics
    <3>3. CoarseOK(k)
      BY <1>1, <3>2 DEF CoarseOK, is, m
    <3> QED BY <2>3, <3>2, <3>3 DEF MetricOK, m
  <2> QED BY <2>2, <2>3
<1>9. blobRollups = [k \in BlobKeys |-> blobRollups[k]] /\ metricRollups = [k \in BucketKeys |-> metricRollups[k]]
  BY <1>1
<1>10. blobRollups \in [BlobKeys -> Nat] /\ metricRollups \in [BucketKeys -> Metrics]
  BY <1>6, <1>8, <1>9
<1>11. chunkEnd \in Int /\ walkStart \in Int /\ cutoff \in Int /\ reached \in Int /\ reached <= chunkEnd /\ reached <= Deployed
  BY <1>1, <1>2 DEF Fine, NoCutoff
<1>12. \A h \in Heights : stored[h].present => TimeOf[h] <= now
  BY <1>1, <1>2, <1>4
<1> QED BY <1>1, <1>2, <1>6, <1>8, <1>10, <1>11, <1>12 DEF RollupInv, RollupTypes, BlobsInv, MetricsInv

\* Every step keeps them.
LEMMA RollupStep ==
  ASSUME Rows(stored), Rows(stored'), RollupInv, [ReadsNext]_readVars
  PROVE  RollupInv'
<1>1. ASSUME NEW h \in Heights, NEW new \in Contents, NEW altered \in BOOLEAN, IndexBlock(h, new, altered)
      PROVE  RollupInv'
  BY <1>1, IndexKeeps
<1>2. ASSUME NEW first \in Heights, NEW last \in Heights, DeleteBlocks(HeightRange(first, last)) PROVE RollupInv'
  <2>1. HeightRange(first, last) \in SUBSET Heights
    BY DEF HeightRange
  <2> QED BY <1>2, <2>1, DeleteKeeps
<1>3. ASSUME NEW k \in BucketKeys, HealSelect(k) PROVE RollupInv'
  BY <1>3, HealSelectKeeps
<1>4. RollupNext => RollupInv'
  BY <1>1, <1>2, <1>3, BackfillKeeps, BackfillEndKeeps, HealWriteKeeps, HealEndKeeps, PruneBlobsKeeps,
     PruneMetricsKeeps, RestartKeeps, TickKeeps DEF RollupNext
<1>5. Probe => RollupInv'
  BY RollupStays DEF Probe
<1>6. Answered => RollupInv'
  BY RollupStays DEF Answered
<1>7. UNCHANGED readVars => RollupInv'
  BY RollupStays DEF readVars
<1> QED BY <1>4, <1>5, <1>6, <1>7 DEF ReadsNext

-----------------------------------------------------------------------------
(* The read of fine rows between its probe and its query.                    *)

\* Where the buckets have been filled only grows, and late stays.
LEMMA ReachedFalls ==
  ASSUME RollupTypes, RollupNext
  PROVE  reached' <= reached /\ (late => late') /\ reached' \in Int
<1>1. reached \in Int /\ chunkEnd \in Int /\ walkStart \in Int /\ Chunk \in Nat \ {0}
  BY RollupSizes DEF RollupTypes
<1>2. CASE UNCHANGED <<reached, late>>
  BY <1>1, <1>2
<1>3. CASE BackfillChunk
  <2> DEFINE from == Max({chunkEnd - Chunk, walkStart})
  <2>1. reached' = Min({reached, from}) /\ late' = late
    BY <1>3 DEF BackfillChunk
  <2>2. chunkEnd - Chunk \in Int
    BY <1>1
  <2>3. from \in Int
    BY <1>1, <2>2, MaxOfTwo
  <2> HIDE DEF from
  <2>4. reached' \in {reached, from} /\ reached' <= reached
    BY <1>1, <2>1, <2>3, MinOfTwo
  <2> QED BY <1>1, <2>1, <2>3, <2>4
<1>4. ASSUME NEW h \in Heights, NEW new \in Contents, NEW altered \in BOOLEAN, IndexBlock(h, new, altered)
      PROVE  reached' = reached /\ (late => late')
  BY <1>4 DEF IndexBlock
<1>5. ASSUME NEW first \in Heights, NEW last \in Heights, DeleteBlocks(HeightRange(first, last))
      PROVE  reached' = reached /\ (late => late')
  BY <1>5 DEF DeleteBlocks
<1>6. ASSUME NEW k \in BucketKeys, HealSelect(k) PROVE UNCHANGED <<reached, late>>
  BY <1>6 DEF HealSelect, ghostVars
<1>7. BackfillEnds \/ HealWrite \/ HealEnds => UNCHANGED <<reached, late>>
  BY DEF BackfillEnds, HealWrite, HealEnds, ghostVars
<1>8. PruneBlobRollups \/ PruneMetricRollups \/ Restart \/ Tick => UNCHANGED <<reached, late>>
  BY DEF PruneBlobRollups, PruneMetricRollups, Restart, Tick, ghostVars
<1>9. \/ UNCHANGED <<reached, late>>
      \/ reached' = reached /\ (late => late')
      \/ BackfillChunk
  BY <1>4, <1>5, <1>6, <1>7, <1>8 DEF RollupNext
<1>10. ASSUME reached' = reached PROVE reached' <= reached /\ reached' \in Int
  BY <1>1, <1>10
<1> QED BY <1>2, <1>3, <1>9, <1>10

\* The probe finds no row below where the buckets have been filled.
LEMMA CoverageIsFilled ==
  ASSUME RollupInv, NEW t \in Int, CoverageReaches(t)
  PROVE  late \/ reached <= t
<1>1. /\ metricRollups \in [BucketKeys -> Metrics] /\ MetricsInv /\ reached \in Int
  BY DEF RollupInv, RollupTypes
<1>2. FineStarts \subseteq Nat
  BY KeyIs DEF FineStarts
<1>3. FineStarts # {} /\ Min(FineStarts) <= t
  BY DEF CoverageReaches
<1>4. Min(FineStarts) \in FineStarts
  BY <1>2, <1>3, MinOfHeights
<1>5. PICK k \in BucketKeys : k[1] = Fine /\ metricRollups[k].blocks > 0 /\ Min(FineStarts) = k[2]
  BY <1>4 DEF FineStarts
<1>6. late \/ k[2] >= reached
  BY <1>1, <1>5 DEF MetricsInv, MetricOK, FineOK
<1>7. k[2] \in Int /\ k[2] <= t
  <2>1. k[2] \in Nat
    BY KeyIs
  <2>2. k[2] <= t
    BY <1>3, <1>5
  <2> QED BY <2>1, <2>2
<1> QED BY <1>1, <1>6, <1>7

\* The display buckets of the ranges, and all of them.
LEMMA AutoIs ==
  /\ AutoGranularity(Hour) = Fine /\ AutoGranularity(Day) = Five /\ AutoGranularity(Week) = Hour
  /\ AutoGranularity(Month) = SixHours /\ AutoGranularity(All) = Day
  /\ Granularities = {Block, Fine, Five, Hour, SixHours, Day}
<1>1. /\ Hour \in Nat \ {0} /\ Day \in Nat \ {0} /\ Week \in Nat \ {0} /\ Month \in Nat \ {0}
      /\ Hour < Day /\ Day < Week /\ Week < Month
  <2>1. /\ Hour \in Nat \ {0} /\ SixHours \in Nat \ {0} /\ Day \in Nat \ {0} /\ Week \in Nat \ {0}
        /\ Month \in Nat \ {0} /\ Hour < SixHours /\ SixHours < Day /\ Day < Week /\ Week < Month
    BY SizesAre
  <2> QED BY <2>1
<1>2. /\ Day # Hour /\ Week # Hour /\ Week # Day /\ Month # Hour /\ Month # Day /\ Month # Week
      /\ All # Hour /\ All # Day /\ All # Week /\ All # Month
  BY <1>1 DEF All
<1>3. AutoGranularity(Hour) = Fine
  BY <1>2 DEF AutoGranularity
<1>4. AutoGranularity(Day) = Five
  BY <1>2 DEF AutoGranularity
<1>5. AutoGranularity(Week) = Hour
  BY <1>2 DEF AutoGranularity
<1>6. AutoGranularity(Month) = SixHours
  BY <1>2 DEF AutoGranularity
<1>7. AutoGranularity(All) = Day
  BY <1>2 DEF AutoGranularity
<1>8. {AutoGranularity(span) : span \in Spans} = {Fine, Five, Hour, SixHours, Day}
  BY <1>3, <1>4, <1>5, <1>6, <1>7 DEF Spans
<1> QED BY <1>3, <1>4, <1>5, <1>6, <1>7, <1>8 DEF Granularities, NamedGranularities

\* Of the charts only those of minutes and five minutes ask for fine rows, and
\* those of at most a day.
LEMMA FineCharts ==
  ASSUME NEW span \in Spans, NEW bucket \in Granularities, Accepted(span, bucket),
         bucket # Block, bucket < Hour
  PROVE  bucket \in {Fine, Five} /\ span \in {Hour, Day}
<1>1. /\ Hour \in Nat \ {0} /\ SixHours \in Nat \ {0} /\ Day \in Nat \ {0}
      /\ Week \in Nat \ {0} /\ Month \in Nat \ {0}
      /\ Five \in Nat \ {0} /\ Five < Hour /\ Hour < SixHours /\ SixHours < Day /\ Day < Week /\ Week < Month
  BY SizesAre
<1>2. bucket \in {Fine, Five}
  BY <1>1, AutoIs
<1>3. span # All
  BY <1>1, <1>2 DEF Accepted, Fine
<1>4. ASSUME span \in {Week, Month} PROVE FALSE
  <2>1. span \in Nat /\ span >= Week
    BY <1>1, <1>4
  <2>2. AutoGranularity(span) \in {Hour, SixHours}
    BY <1>4, AutoIs
  <2>3. Five \notin {Hour, SixHours} /\ Five \notin {Block, Hour, Day}
    BY <1>1 DEF Block
  <2>4. Resolves(span, bucket)
    BY <1>3 DEF Accepted
  <2>5. bucket = 1
    BY <1>2, <2>2, <2>3, <2>4 DEF Resolves, NamedGranularities, Fine
  <2>6. Points(span, bucket) = (span + 1 - 1) \div 1
    BY <2>5 DEF Points, Block
  <2>7. (span + 1 - 1) \div 1 = span
    BY <2>1
  <2>8. Points(span, bucket) <= PointLimit
    BY <1>3 DEF Accepted
  <2> QED BY <1>1, <2>1, <2>6, <2>7, <2>8, ReadSizes
<1> QED BY <1>2, <1>3, <1>4 DEF Spans

\* A probe that chooses fine rows finds them filled from where the read starts.
LEMMA ProbeIsOK ==
  ASSUME RollupInv, NEW r \in ChartRequests \cup WindowRequests, r.source = Fine
  PROVE  ProbedOK(r)
<1>1. /\ Hour \in Nat \ {0} /\ SixHours \in Nat \ {0} /\ Day \in Nat \ {0}
      /\ Five \in Nat \ {0} /\ Week \in Nat \ {0} /\ Month \in Nat \ {0}
      /\ Five < Hour /\ Hour # Fine /\ Hour <= Day
      /\ Multiple(Hour, Day) /\ Multiple(Five, Hour)
  <2>1. /\ Hour \in Nat \ {0} /\ SixHours \in Nat \ {0} /\ Day \in Nat \ {0} /\ Hour < SixHours /\ SixHours < Day
    BY SizesAre
  <2> QED BY <2>1, SizesAre
<1>2. now \in Nat /\ Retention \in Nat /\ Retention >= Day
  BY NowIs, RollupSizes DEF RollupInv
<1>3. CASE r \in ChartRequests
  <2>1. PICK c \in Spans \X Granularities :
           /\ Accepted(c[1], c[2])
           /\ r = [kind |-> "chart", bucket |-> c[2], from |-> ChartFrom(c[1], c[2]), to |-> AlignedEnd(c[2]),
                   source |-> ChartSource(c[1], c[2])]
    BY <1>3 DEF ChartRequests
  <2> DEFINE span == c[1]  bucket == c[2]
  <2>2. span \in Spans /\ bucket \in Granularities /\ Accepted(span, bucket)
    BY <2>1
  <2>3. /\ r.kind = "chart" /\ r.bucket = bucket /\ r.from = ChartFrom(span, bucket) /\ r.to = AlignedEnd(bucket)
        /\ ChartSource(span, bucket) = Fine
    BY <2>1
  <2> HIDE DEF span, bucket
  <2>4. bucket \in Int
    BY <1>1, <2>2, AutoIs DEF Block, Fine
  <2>5. bucket # Block /\ bucket < Hour /\ CoverageReaches(ChartFrom(span, bucket))
    BY <1>1, <2>3, <2>4 DEF ChartSource, Raw, Fine
  <2>6. bucket \in {Fine, Five} /\ span \in {Hour, Day}
    BY <2>2, <2>5, FineCharts
  <2>7. bucket \in Nat \ {0} /\ span \in Nat \ {0} /\ span <= Day /\ span # All
    BY <1>1, <2>6 DEF Fine, All
  <2>8. Multiple(bucket, span)
    <3>1. Multiple(1, span)
      <4>1. span = span * 1
        BY <2>7
      <4> QED BY <2>7, <4>1 DEF Multiple
    <3>2. Multiple(Five, Day)
      BY <1>1, MultipleOfMultiple
    <3> QED BY <1>1, <2>6, <3>1, <3>2 DEF Fine
  <2>9. /\ Bucket(bucket, now) \in Int /\ now < Bucket(bucket, now) + bucket
        /\ Multiple(bucket, Bucket(bucket, now))
    <3>1. now \in Int
      BY <1>2
    <3> QED BY <2>7, <3>1, BucketIs
  <2>10. r.to = Bucket(bucket, now) + bucket
    BY <2>3, <2>5 DEF AlignedEnd
  <2>11. r.to \in Int /\ now < r.to
    BY <2>7, <2>9, <2>10
  <2>12. Multiple(bucket, r.to)
    <3>1. Multiple(bucket, bucket)
      BY <2>7, SelfMultiple
    <3> QED BY <2>7, <2>9, <2>10, <3>1, MultipleSum
  <2>13. r.from = r.to - span
    BY <2>3, <2>7 DEF ChartFrom
  <2>14. r.from \in Int /\ r.from >= now - Retention
    BY <1>1, <1>2, <2>7, <2>11, <2>13
  <2>15. Multiple(bucket, r.from)
    <3>1. span \in Int /\ r.to \in Int
      BY <2>7, <2>11
    <3>2. Multiple(bucket, r.to - span)
      BY <2>7, <2>8, <2>12, <3>1, MultipleSum
    <3> QED BY <2>13, <3>2
  <2>16. r.from % bucket = 0 /\ r.to % bucket = 0
    BY <2>7, <2>11, <2>12, <2>14, <2>15, MultipleIs
  <2>17. late \/ reached <= r.from
    BY <2>3, <2>5, <2>14, CoverageIsFilled
  <2> QED BY <2>3, <2>6, <2>11, <2>14, <2>16, <2>17 DEF ProbedOK
<1>4. CASE r \in WindowRequests
  <2>1. PICK span \in Spans \ {All} :
           r = [kind |-> "window", bucket |-> span, from |-> WindowEnd(span) - span, to |-> WindowEnd(span),
                source |-> WindowSource(span)]
    BY <1>4 DEF WindowRequests
  <2>2. span \in Nat \ {0}
    BY <1>1, <2>1 DEF Spans, All
  <2>3. WindowSource(span) = Fine /\ r.kind = "window" /\ r.from = WindowEnd(span) - span /\ r.to = WindowEnd(span)
    BY <2>1
  <2>4. ~(span > Day) /\ CoverageReaches(now - span)
    BY <1>1, <2>3 DEF WindowSource, Raw, Fine
  <2>5. r.from = now - span /\ r.to = now
    BY <2>3, <2>4 DEF WindowEnd
  <2>6. r.from \in Int /\ r.to \in Int /\ r.from >= now - Retention
    BY <1>1, <1>2, <2>2, <2>4, <2>5
  <2>7. late \/ reached <= r.from
    BY <2>4, <2>5, <2>6, CoverageIsFilled
  <2> QED BY <2>3, <2>6, <2>7 DEF ProbedOK
<1> QED BY <1>3, <1>4

\* It stays so until the query runs: the clock stands still for a read.
LEMMA ProbedStep ==
  ASSUME RollupInv, ProbedInv, [ReadsNext]_readVars
  PROVE  ProbedInv'
<1>1. reached \in Int /\ RollupTypes
  BY DEF RollupInv, RollupTypes
<1>2. ASSUME probed' = probed, now' = now, reached' = reached, late' = late PROVE ProbedInv'
  BY <1>2 DEF ProbedInv, ProbedOK
<1>3. CASE RollupNext /\ (now' # now => probed = NoRequest) /\ probed' = probed
  <2>1. CASE probed = NoRequest
    BY <1>3, <2>1 DEF ProbedInv
  <2>2. CASE probed # NoRequest
    <3>1. now' = now /\ ProbedOK(probed)
      BY <1>3, <2>2 DEF ProbedInv
    <3>2. reached' <= reached /\ (late => late') /\ reached' \in Int
      BY <1>1, <1>3, ReachedFalls
    <3>3. probed.from \in Int /\ (late \/ reached <= probed.from)
      BY <3>1 DEF ProbedOK
    <3>4. reached <= probed.from => reached' <= probed.from
      BY <1>1, <3>2, <3>3
    <3>5. late' \/ reached' <= probed.from
      BY <3>2, <3>3, <3>4
    <3>6. ProbedOK(probed)'
      BY <1>3, <3>1, <3>5 DEF ProbedOK
    <3> QED BY <3>6 DEF ProbedInv
  <2> QED BY <2>1, <2>2
<1>4. CASE Probe
  <2>1. PICK r \in ChartRequests \cup WindowRequests : r.source = Fine /\ probed' = r
    BY <1>4 DEF Probe
  <2>2. ProbedOK(r)
    BY <2>1, ProbeIsOK
  <2>3. now' = now /\ reached' = reached /\ late' = late
    BY <1>4 DEF Probe, rollupVars, ghostVars
  <2>4. ProbedOK(probed)'
    BY <2>1, <2>2, <2>3 DEF ProbedOK
  <2> QED BY <2>4 DEF ProbedInv
<1>5. CASE Answered
  BY <1>5 DEF Answered, ProbedInv
<1>6. CASE UNCHANGED readVars
  BY <1>2, <1>6 DEF readVars, rollupVars, ghostVars
<1> QED BY <1>3, <1>4, <1>5, <1>6 DEF ReadsNext

-----------------------------------------------------------------------------
(* What the reads say.                                                       *)

\* No damaged row of one size starts in a range.
Clear(z, from, to) ==
  \A k \in doubled \cup overtaken : ~(k[1] = z /\ k[2] >= from /\ k[2] < to)

RangeRight(z, from, to) == CountsRight(MetricKeys(z, from, to)) /\ BlocksRight(MetricKeys(z, from, to))

\* A kept row says what the blobs say.
LEMMA BlobRowIs ==
  ASSUME RollupInv, NEW k \in BucketKeys, NEW s \in Senders, Kept(k), <<k[1], k[2], s>> \notin doubled
  PROVE  blobRollups[<<k[1], k[2], s>>] = BlobsOf(stored, k[2], k[2] + k[1], s)
<1> DEFINE j == <<k[1], k[2], s>>
<1>1. j \in BlobKeys /\ j[1] = k[1] /\ j[2] = k[2] /\ j[3] = s
  BY DEF BlobKeys
<1>2. BlobOK(j)
  BY <1>1 DEF RollupInv, BlobsInv
<1> HIDE DEF j
<1>3. Kept(j)
  BY <1>1 DEF Kept, InRetention
<1>4. j \notin doubled
  BY DEF j
<1>5. blobRollups[j] = BlobRefresh(stored, j)
  BY <1>2, <1>3, <1>4 DEF BlobOK
<1>6. BlobRefresh(stored, j) = BlobsOf(stored, k[2], k[2] + k[1], s)
  BY <1>1 DEF BlobRefresh
<1> QED BY <1>5, <1>6 DEF j

\* Fine rows from where they have been filled, within the retention.
LEMMA FineRight ==
  ASSUME RollupInv, NEW from \in Int, NEW to \in Int, from >= now - Retention, reached <= from, Clear(Fine, from, to)
  PROVE  RangeRight(Fine, from, to) /\ FeesRight(MetricKeys(Fine, from, to))
<1>1. now \in Nat /\ reached \in Int /\ Retention \in Nat
  BY NowIs DEF RollupInv
<1>2. ASSUME NEW k \in MetricKeys(Fine, from, to)
      PROVE  /\ k \in BucketKeys /\ Kept(k) /\ metricRollups[k] = MetricsOf(stored, k[2], k[2] + k[1])
             /\ \A s \in Senders : <<k[1], k[2], s>> \notin doubled
  <2>1. k \in BucketKeys /\ k[1] = Fine /\ k[2] >= from /\ k[2] < to
    BY DEF MetricKeys
  <2>2. k[2] \in Nat
    BY <2>1, KeyIs
  <2>3. k[2] >= reached /\ InRetention(k)
    BY <1>1, <2>1, <2>2 DEF InRetention
  <2>4. FineOK(k)
    BY <2>1 DEF RollupInv, MetricsInv, MetricOK
  <2>5. metricRollups[k] = MetricsRefresh(stored, k)
    BY <2>3, <2>4 DEF FineOK
  <2>6. ASSUME NEW s \in Senders, <<k[1], k[2], s>> \in doubled PROVE FALSE
    <3> DEFINE j == <<k[1], k[2], s>>
    <3>1. j \in doubled /\ j[1] = k[1] /\ j[2] = k[2]
      BY <2>6
    <3> HIDE DEF j
    <3> QED BY <2>1, <3>1 DEF Clear
  <2> QED BY <2>1, <2>3, <2>5, <2>6 DEF Kept, MetricsRefresh
<1>3. CountsRight(MetricKeys(Fine, from, to))
  BY <1>2, BlobRowIs DEF CountsRight
<1> QED BY <1>2, <1>3 DEF RangeRight, BlocksRight, FeesRight

\* Coarse rows; their fees once a repair is through.
LEMMA CoarseRight ==
  ASSUME RollupInv, NEW z \in Coarse, NEW from, NEW to, Clear(z, from, to)
  PROVE  RangeRight(z, from, to) /\ (healed => FeesRight(MetricKeys(z, from, to)))
<1>1. z # Fine
  BY SizesAre
<1>2. ASSUME NEW k \in MetricKeys(z, from, to)
      PROVE  /\ k \in BucketKeys /\ Kept(k) /\ CoarseOK(k)
             /\ \A s \in Senders : <<k[1], k[2], s>> \notin doubled
  <2>1. k \in BucketKeys /\ k[1] = z /\ k[2] >= from /\ k[2] < to
    BY DEF MetricKeys
  <2>2. k \notin overtaken
    BY <2>1 DEF Clear
  <2>3. CoarseOK(k)
    BY <1>1, <2>1, <2>2 DEF RollupInv, MetricsInv, MetricOK
  <2>4. ASSUME NEW s \in Senders, <<k[1], k[2], s>> \in doubled PROVE FALSE
    <3> DEFINE j == <<k[1], k[2], s>>
    <3>1. j \in doubled /\ j[1] = k[1] /\ j[2] = k[2]
      BY <2>4
    <3> HIDE DEF j
    <3> QED BY <2>1, <3>1 DEF Clear
  <2> QED BY <1>1, <2>1, <2>3, <2>4 DEF Kept
<1>3. CountsRight(MetricKeys(z, from, to))
  BY <1>2, BlobRowIs DEF CountsRight
<1> QED BY <1>2, <1>3 DEF RangeRight, BlocksRight, FeesRight, CoarseOK, MetricsRefresh

\* A read that visits no damaged row.
LEMMA Undamaged ==
  ASSUME NEW r, ~Damaged(r)
  PROVE  Clear(r.source, r.from, r.to) /\ Clear(SummarySource(r), r.from, r.to)
BY DEF Damaged, Visits, Clear, SummarySource

-----------------------------------------------------------------------------
(* The reads of fine rows.                                                   *)

\* Every minute is a fine bucket.
LEMMA OfOne ==
  ASSUME NEW a \in Int
  PROVE  Multiple(Fine, a)
<1>1. a = a * 1
  OBVIOUS
<1> QED BY <1>1 DEF Multiple, Fine

\* Charts and windows of fine rows.
LEMMA ShortReads ==
  ASSUME Rows(stored), RollupInv, ProbedInv
  PROVE  ShortReadsExact
<1> SUFFICES ASSUME ~Damaged(probed), ~late \/ reached <= probed.from PROVE Faithful(probed)
  BY DEF ShortReadsExact
<1>1. CASE probed = NoRequest
  BY <1>1 DEF NoRequest, Faithful
<1>2. CASE probed # NoRequest
  <2> DEFINE r == probed
  <2>1. ProbedOK(r)
    BY <1>2 DEF ProbedInv
  <2>2. /\ r.source = Fine /\ r.from \in Int /\ r.to \in Int /\ r.from >= now - Retention
        /\ late \/ reached <= r.from
    BY <2>1 DEF ProbedOK
  <2>3. Clear(Fine, r.from, r.to)
    BY <2>2, Undamaged
  <2>4. reached <= r.from
    BY <2>2
  <2>5. RangeRight(Fine, r.from, r.to) /\ FeesRight(MetricKeys(Fine, r.from, r.to))
    BY <2>2, <2>3, <2>4, FineRight
  <2>6. Fine \in Sizes /\ Fine # Raw /\ Fine \in Nat \ {0} /\ Five \in Nat \ {0}
    BY SizesAre DEF Fine, Raw
  <2>7. CASE r.kind = "chart"
    <3>1. r.bucket \in {Fine, Five} /\ r.from % r.bucket = 0 /\ r.to % r.bucket = 0
      BY <2>1, <2>7 DEF ProbedOK
    <3>2. r.bucket \in Nat \ {0} /\ r.bucket \in Int
      BY <2>6, <3>1
    <3>3. Multiple(r.bucket, r.from) /\ Multiple(r.bucket, r.to)
      BY <2>2, <3>1, <3>2, MultipleIs
    <3>4. Charted(r)
      BY <2>2, <2>6, <3>2, <3>3, OfOne DEF Charted
    <3>5. SummarySource(r) = Fine
      BY <2>2, <3>4, SummaryAligned
    <3>6. ChartRight(r) /\ FeesRight(MetricKeys(r.source, r.from, r.to))
      BY <2>2, <2>5, <3>5 DEF ChartRight, RangeRight
    <3>7. ShowsMarket(r) /\ ShowsUsage(r) /\ ShowsCost(r)
      BY <3>4, <3>6, MarketShown, UsageShown, CostShown
    <3> QED BY <2>2, <2>6, <2>7, <3>7 DEF Faithful
  <2>8. CASE r.kind = "window"
    <3>1. Whole(stored, Fine, r.from) /\ Whole(stored, Fine, r.to)
      BY <2>2, <2>6, OfOne, MultiplesWhole
    <3>2. Aligned(Fine, r.from, r.to)
      BY <2>2, <2>6, <3>1 DEF Aligned
    <3>3. MarketPoint(SumMetrics(MetricKeys(Fine, r.from, r.to)), RolledCounts(Fine, r.from, r.to)) = WindowRaw(r)
      BY <2>5, <3>2, WindowShown DEF RangeRight
    <3>4. WindowFine(r) = WindowRaw(r)
      BY <3>3 DEF WindowFine
    <3> QED BY <2>2, <2>8, <3>4 DEF Faithful
  <2> QED BY <2>1, <2>7, <2>8 DEF ProbedOK
<1> QED BY <1>1, <1>2

-----------------------------------------------------------------------------
(* The reads that ask nothing.                                               *)

\* Every stored block is older than Forever.
LEMMA ForeverIs ==
  Forever \in Int /\ \A t \in Clock : t < Forever
<1>1. Clock \in SUBSET Nat /\ IsFiniteSet(Clock) /\ Clock # {} /\ Day \in Nat \ {0}
  BY RollupSizes
<1>2. PICK m \in Clock : \A y \in Clock : y <= m
  BY <1>1, GreatestOfFinite DEF HasGreatest
<1>3. m \in Nat /\ \A y \in Clock : y \in Nat /\ m >= y
  BY <1>1, <1>2
<1>4. \E n \in Clock : \A y \in Clock : n >= y
  BY <1>2, <1>3
<1>5. Max(Clock) \in Clock /\ \A y \in Clock : Max(Clock) >= y
  BY <1>4 DEF Max
<1>6. Max(Clock) \in Nat
  BY <1>1, <1>5
<1> QED BY <1>1, <1>3, <1>5, <1>6 DEF Forever

\* So the open end of a leaderboard cuts no bucket.
LEMMA ForeverWhole ==
  ASSUME RollupInv, NEW z \in Nat \ {0}
  PROVE  Whole(stored, z, Forever)
<1>1. ASSUME NEW h \in Heights, stored[h].present
      PROVE  TimeOf[h] < Forever /\ Bucket(z, TimeOf[h]) < Forever
  <2>1. TimeOf[h] \in Int /\ now \in Nat
    BY NowIs, RollupSizes DEF RollupInv
  <2>2. TimeOf[h] <= now /\ now < Forever /\ Forever \in Int
    BY <1>1, ForeverIs DEF RollupInv, RollupTypes
  <2>3. Bucket(z, TimeOf[h]) \in Int /\ Bucket(z, TimeOf[h]) <= TimeOf[h]
    BY <2>1, BucketIs
  <2> QED BY <2>1, <2>2, <2>3
<1> QED BY <1>1 DEF Whole

\* The display buckets of a coarse chart are those of its source.
LEMMA CoarseCharts ==
  ASSUME NEW span \in Spans, NEW bucket \in Coarse, Accepted(span, bucket), now \in Nat
  PROVE  /\ ChartFrom(span, bucket) \in Int /\ AlignedEnd(bucket) \in Int
         /\ Multiple(bucket, ChartFrom(span, bucket)) /\ Multiple(bucket, AlignedEnd(bucket))
<1>1. /\ Hour \in Nat \ {0} /\ Day \in Nat \ {0} /\ Week \in Nat \ {0} /\ Month \in Nat \ {0}
      /\ Multiple(Day, Week) /\ Multiple(Day, Month)
      /\ bucket \in Nat \ {0} /\ Hour <= bucket /\ bucket <= Day /\ Multiple(bucket, Day)
  BY SizesAre
<1>2. bucket \in Nat \ {0} /\ bucket # Block /\ bucket \in Int /\ now \in Int
  BY <1>1 DEF Block
<1>3. Multiple(bucket, bucket)
  BY <1>2, SelfMultiple
<1>4. Bucket(bucket, now) \in Int /\ Multiple(bucket, Bucket(bucket, now))
  BY <1>2, BucketIs
<1>5. AlignedEnd(bucket) = Bucket(bucket, now) + bucket
  BY <1>2 DEF AlignedEnd
<1>6. Multiple(bucket, Bucket(bucket, now) + bucket)
  BY <1>2, <1>3, <1>4, MultipleSum
<1> DEFINE to == AlignedEnd(bucket)
<1>7. to \in Int /\ Multiple(bucket, to)
  BY <1>2, <1>4, <1>5, <1>6
<1> HIDE DEF to
<1>8. CASE span = All
  <2>1. ChartFrom(span, bucket) = 0
    BY <1>8 DEF ChartFrom
  <2>2. Multiple(bucket, 0)
    <3>1. 0 = 0 * bucket
      BY <1>2
    <3> QED BY <3>1 DEF Multiple
  <2> QED BY <1>7, <2>1, <2>2 DEF to
<1>9. CASE span # All
  <2>1. span \in {Hour, Day, Week, Month} /\ bucket <= span
    BY <1>9 DEF Spans, Accepted
  <2>2. span \in Int
    BY <1>1, <2>1
  <2>3. Multiple(bucket, span)
    <3>1. CASE span = Hour
      <4>1. bucket = span
        BY <1>1, <2>1, <3>1
      <4> QED BY <1>3, <4>1
    <3>2. CASE span = Day
      BY <1>1, <3>2
    <3>3. CASE span \in {Week, Month}
      BY <1>1, <3>3, MultipleOfMultiple
    <3> QED BY <2>1, <3>1, <3>2, <3>3
  <2>4. Multiple(bucket, to - span)
    BY <1>2, <1>7, <2>2, <2>3, MultipleSum
  <2>5. ChartFrom(span, bucket) = to - span
    BY <1>9 DEF ChartFrom, to
  <2>6. to - span \in Int
    BY <1>7, <2>2
  <2> QED BY <1>7, <2>4, <2>5, <2>6 DEF to
<1> QED BY <1>8, <1>9

\* Charts of coarse buckets, and those of raw rows ..
LEMMA WideCharts ==
  ASSUME Rows(stored), RollupInv, NEW r \in ChartRequests, r.source # Fine, ~Damaged(r)
  PROVE  Faithful(r)
<1>1. PICK c \in Spans \X Granularities :
         /\ Accepted(c[1], c[2])
         /\ r = [kind |-> "chart", bucket |-> c[2], from |-> ChartFrom(c[1], c[2]), to |-> AlignedEnd(c[2]),
                 source |-> ChartSource(c[1], c[2])]
  BY DEF ChartRequests
<1> DEFINE span == c[1]  bucket == c[2]
<1>2. span \in Spans /\ bucket \in Granularities /\ Accepted(span, bucket)
  BY <1>1
<1>3. /\ r.kind = "chart" /\ r.bucket = bucket /\ r.from = ChartFrom(span, bucket) /\ r.to = AlignedEnd(bucket)
      /\ r.source = ChartSource(span, bucket)
  BY <1>1
<1> HIDE DEF span, bucket
<1>4. CASE r.source = Raw
  BY <1>3, <1>4, BlocksShown DEF Faithful
<1>5. CASE r.source # Raw
  <2>1. /\ Hour \in Nat \ {0} /\ Five \in Nat \ {0} /\ Five < Hour /\ Hour # Fine
    BY SizesAre
  <2>2. bucket # Block /\ bucket >= Hour /\ r.source = bucket
    BY <1>3, <1>5 DEF ChartSource
  <2>3. bucket \in Coarse
    <3>1. bucket \notin {Block, Fine, Five}
      BY <2>1, <2>2 DEF Fine
    <3> QED BY <1>2, <3>1, AutoIs DEF Coarse
  <2>4. now \in Nat
    BY NowIs DEF RollupInv
  <2>5. /\ r.from \in Int /\ r.to \in Int /\ Multiple(bucket, r.from) /\ Multiple(bucket, r.to)
    BY <1>2, <1>3, <2>3, <2>4, CoarseCharts
  <2>6. bucket \in Nat \ {0} /\ bucket \in Sizes /\ bucket # Fine
    BY <2>3, SizesAre
  <2>7. Multiple(bucket, bucket)
    BY <2>6, SelfMultiple
  <2>8. Charted(r)
    BY <1>3, <2>2, <2>5, <2>6, <2>7 DEF Charted
  <2>9. SummarySource(r) = Hour
    BY <2>2, <2>6, <2>8, SummaryAligned
  <2>10. Clear(bucket, r.from, r.to) /\ Clear(Hour, r.from, r.to) /\ Hour \in Coarse
    BY <2>2, <2>9, Undamaged DEF Coarse
  <2>11. /\ RangeRight(bucket, r.from, r.to) /\ RangeRight(Hour, r.from, r.to)
         /\ healed => FeesRight(MetricKeys(bucket, r.from, r.to))
    BY <2>3, <2>10, CoarseRight
  <2>12. ChartRight(r) /\ (healed => FeesRight(MetricKeys(r.source, r.from, r.to)))
    BY <2>2, <2>9, <2>11 DEF ChartRight, RangeRight
  <2>13. ShowsMarket(r) /\ ShowsUsage(r) /\ (healed => ShowsCost(r))
    BY <2>8, <2>12, MarketShown, UsageShown, CostShown
  <2>14. r.source # Fine
    BY <2>2, <2>6
  <2> QED BY <1>3, <1>5, <2>13, <2>14 DEF Faithful
<1> QED BY <1>4, <1>5

\* .. wide windows ..
LEMMA WideWindows ==
  ASSUME Rows(stored), RollupInv, NEW r \in WindowRequests, r.source # Fine, ~Damaged(r)
  PROVE  Faithful(r)
<1>1. PICK span \in Spans \ {All} :
         r = [kind |-> "window", bucket |-> span, from |-> WindowEnd(span) - span, to |-> WindowEnd(span),
              source |-> WindowSource(span)]
  BY DEF WindowRequests
<1>2. r.kind = "window" /\ r.from = WindowEnd(span) - span /\ r.to = WindowEnd(span) /\ r.source = WindowSource(span)
  BY <1>1
<1>3. CASE r.source = Raw
  BY <1>2, <1>3 DEF Faithful
<1>4. CASE r.source # Raw
  <2>1. /\ Hour \in Nat \ {0} /\ Day \in Nat \ {0} /\ Week \in Nat \ {0} /\ Month \in Nat \ {0}
        /\ Hour < Day /\ Hour # Fine /\ Hour \in Sizes
        /\ Multiple(Hour, Day) /\ Multiple(Day, Week) /\ Multiple(Day, Month)
    <3>1. SixHours \in Nat /\ Hour \in Nat /\ Day \in Nat /\ Hour < SixHours /\ SixHours < Day
      BY SizesAre
    <3> QED BY <3>1, SizesAre
  <2>2. span > Day /\ r.source = Hour
    BY <1>2, <1>4 DEF WindowSource
  <2>3. span \in {Week, Month}
    BY <1>1, <2>1, <2>2 DEF Spans
  <2>4. Multiple(Hour, span) /\ span \in Int
    BY <2>1, <2>3, MultipleOfMultiple
  <2>5. now \in Int
    BY NowIs DEF RollupInv
  <2>6. Bucket(Hour, now) \in Int /\ Multiple(Hour, Bucket(Hour, now))
    BY <2>1, <2>5, BucketIs
  <2>7. r.to = Bucket(Hour, now) /\ r.from = Bucket(Hour, now) - span
    BY <1>2, <2>2 DEF WindowEnd
  <2>8. Multiple(Hour, Bucket(Hour, now) - span)
    BY <2>1, <2>4, <2>6, MultipleSum
  <2>9. r.to \in Int /\ r.from \in Int /\ Multiple(Hour, r.from) /\ Multiple(Hour, r.to)
    BY <2>4, <2>6, <2>7, <2>8
  <2>10. Whole(stored, Hour, r.from) /\ Whole(stored, Hour, r.to)
    BY <2>1, <2>9, MultiplesWhole
  <2>11. Aligned(Hour, r.from, r.to)
    BY <2>1, <2>9, <2>10 DEF Aligned
  <2>12. Clear(Hour, r.from, r.to) /\ Hour \in Coarse
    BY <2>2, Undamaged DEF Coarse
  <2>13. RangeRight(Hour, r.from, r.to)
    BY <2>12, CoarseRight
  <2>14. MarketPoint(SumMetrics(MetricKeys(Hour, r.from, r.to)), RolledCounts(Hour, r.from, r.to)) = WindowRaw(r)
    BY <2>11, <2>13, WindowShown DEF RangeRight
  <2>15. WindowHourly(r) = WindowRaw(r) /\ r.source # Fine
    BY <2>1, <2>2, <2>14 DEF WindowHourly
  <2> QED BY <1>2, <2>15 DEF Faithful
<1> QED BY <1>3, <1>4

\* .. leaderboards ..
LEMMA Leaders ==
  ASSUME Rows(stored), RollupInv, NEW r \in LeaderRequests, r.source = Fine => r.from >= Deployed, ~Damaged(r)
  PROVE  Faithful(r)
<1>1. PICK span \in {Hour, Day} :
         r = [kind |-> "leaders", bucket |-> span, from |-> LeaderFrom(span), to |-> Forever,
              source |-> LeaderSource(span)]
  BY DEF LeaderRequests
<1>2. /\ r.kind = "leaders" /\ r.from = LeaderFrom(span) /\ r.to = Forever /\ r.source = LeaderSource(span)
  BY <1>1
<1>3. /\ Hour \in Nat \ {0} /\ Day \in Nat \ {0} /\ Hour <= Day /\ Hour # Fine /\ Hour \in Sizes /\ Fine \in Sizes
      /\ Fine \in Nat \ {0}
  <2>1. SixHours \in Nat /\ Hour \in Nat /\ Day \in Nat /\ Hour < SixHours /\ SixHours < Day
    BY SizesAre
  <2> QED BY <2>1, SizesAre DEF Fine
<1>4. /\ now \in Nat /\ Retention \in Nat /\ reached \in Int /\ Deployed \in Nat /\ reached <= Deployed
      /\ Retention >= Day
  BY NowIs, RollupSizes DEF RollupInv, RollupTypes
<1> DEFINE z == LeaderSource(span)
<1>5. z \in {Fine, Hour} /\ z \in Sizes /\ z \in Nat \ {0} /\ now - span \in Int
  BY <1>1, <1>3, <1>4 DEF LeaderSource
<1>6. r.source = z /\ r.from = Bucket(z, now - span)
  BY <1>2 DEF LeaderFrom
<1> HIDE DEF z
<1>7. r.from \in Int /\ Multiple(z, r.from) /\ now - span < r.from + z
  BY <1>5, <1>6, BucketIs
<1>8. Whole(stored, z, r.from) /\ Whole(stored, z, r.to)
  BY <1>2, <1>5, <1>7, MultiplesWhole, ForeverWhole
<1>9. Aligned(z, r.from, r.to)
  BY <1>2, <1>5, <1>7, <1>8, ForeverIs DEF Aligned
<1>10. Clear(z, r.from, r.to)
  BY <1>6, Undamaged
<1>11. CountsRight(MetricKeys(z, r.from, r.to))
  <2>1. CASE z = Hour
    <3>1. z \in Coarse
      BY <2>1 DEF Coarse
    <3> QED BY <1>10, <3>1, CoarseRight DEF RangeRight
  <2>2. CASE z = Fine
    <3>1. r.from >= Deployed
      BY <1>6, <2>2
    <3>2. reached <= r.from
      BY <1>4, <1>7, <3>1
    <3>3. r.from >= now - Retention
      <4>1. span \in Nat /\ span <= Retention
        BY <1>1, <1>3, <1>4
      <4>2. now - span < r.from + 1
        BY <1>7, <2>2 DEF Fine
      <4> QED BY <1>4, <1>7, <4>1, <4>2
    <3>4. r.to \in Int
      BY <1>2, ForeverIs
    <3> QED BY <1>7, <1>10, <2>2, <3>2, <3>3, <3>4, FineRight DEF RangeRight
  <2> QED BY <1>5, <2>1, <2>2
<1>12. LeadersWindowed(r) = LeadersRaw(r)
  BY <1>6, <1>9, <1>11, LeadersShown
<1> QED BY <1>2, <1>12 DEF Faithful

\* .. together.
LEMMA UnaskedReads ==
  ASSUME Rows(stored), RollupInv
  PROVE  UnaskedReadsExact
<1>1. ASSUME NEW r \in UnaskedRequests, ~Damaged(r) PROVE Faithful(r)
  <2>1. CASE r \in ChartRequests /\ r.source # Fine
    BY <1>1, <2>1, WideCharts
  <2>2. CASE r \in WindowRequests /\ r.source # Fine
    BY <1>1, <2>2, WideWindows
  <2>3. CASE r \in LeaderRequests /\ (r.source = Fine => r.from >= Deployed)
    BY <1>1, <2>3, Leaders
  <2> QED BY <2>1, <2>2, <2>3 DEF UnaskedRequests, WideRequests
<1> QED BY <1>1 DEF UnaskedReadsExact

-----------------------------------------------------------------------------
\* The tables and the read under way keep what is promised of them.
LEMMA ReadsInvariance == Spec => [](TotalsInv /\ RollupInv /\ ProbedInv)
<1>1. ReadsInit => TotalsInv /\ RollupInv /\ ProbedInv
  BY TotalsInit, StoredRows, RollupStart DEF ReadsInit, ProbedInv
<1>2. TotalsInv /\ RollupInv /\ ProbedInv /\ [ReadsNext]_readVars => (TotalsInv /\ RollupInv /\ ProbedInv)'
  <2> SUFFICES ASSUME TotalsInv, RollupInv, ProbedInv, [ReadsNext]_readVars
               PROVE  (TotalsInv /\ RollupInv /\ ProbedInv)'
    OBVIOUS
  <2>1. TotalsInv'
    BY TotalsStep
  <2>2. Rows(stored) /\ Rows(stored')
    BY <2>1 DEF TotalsInv, Rows
  <2>3. RollupInv'
    BY <2>2, RollupStep
  <2>4. ProbedInv'
    BY ProbedStep
  <2> QED BY <2>1, <2>3, <2>4
<1> QED BY <1>1, <1>2, PTL DEF Spec

\* For any blocks, senders, sizes and clock: a chart or window that fine rows serve is
\* what the raw rows would give, while the fine tier fills up, is pruned or the process
\* restarts, as long as no row came below the buckets filled (queries.go:945).
THEOREM ShortReadsAreExact == Spec => []ShortReadsExact
<1>1. TotalsInv /\ RollupInv /\ ProbedInv => ShortReadsExact
  BY StoredRows, ShortReads
<1> QED BY <1>1, ReadsInvariance, PTL

\* So are the reads that ask nothing (coarse charts, wide windows and leaderboards),
\* fees included once a repair is through, unless an upsert counted twice or a repair
\* wrote from an old SELECT what they read (queries.go:240, db/fine_rollups.go:205).
THEOREM UnaskedReadsAreExact == Spec => []UnaskedReadsExact
<1>1. TotalsInv /\ RollupInv /\ ProbedInv => UnaskedReadsExact
  BY StoredRows, UnaskedReads
<1> QED BY <1>1, ReadsInvariance, PTL
=============================================================================
