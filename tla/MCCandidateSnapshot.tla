------------------------- MODULE MCCandidateSnapshot -------------------------
(* Instances of CandidateSnapshot: b replaces a, which has the same sender   *)
(* and nonce.                                                                *)
EXTENDS CandidateSnapshot, TLC

CONSTANTS a, b, s
MCFrom == [t \in Txs |-> s]
MCNonce == [t \in Txs |-> 0]
MCFee == [t \in Txs |-> IF t = a THEN 1 ELSE 2]
=============================================================================
