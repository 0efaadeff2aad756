------------------------------ MODULE MCApiCache ------------------------------
(* One question per shape: a list dropped by blocks, an answer of two queries *)
(* dropped by the pool, a lookup of two queries of its own, and a listing that *)
(* resolves addresses first, of an entity known from the first commit on.     *)
EXTENDS ApiCache, TLC

MCQuestions == [endpoint : {"latest", "pressure", "by_hash", "entity_mempool"}, arg : {1}]

MCFirstSeen == <<1>>

\* A block confirms transactions of the pool.
MCWrites == {{"blocks", "pool"}}

MCTtl == [e \in {"latest", "pressure"} |-> 1] @@ [e \in {"addresses"} |-> 2]

\* The callers are interchangeable.
Callers == Permutations(Clients)
=============================================================================
