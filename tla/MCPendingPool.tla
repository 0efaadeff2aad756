---------------------------- MODULE MCPendingPool ----------------------------
(* Instances of PendingPool: every transaction of an instance has the same   *)
(* sender and nonce; t1 is the one the node's template shows.                *)
EXTENDS PendingPool, TLC

CONSTANTS t1, t2, o1, o2
MCSlotOf == [t \in Txs |-> t1]
=============================================================================
