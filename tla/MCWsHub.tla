------------------------------- MODULE MCWsHub -------------------------------
(* Instances of WsHub: two clients behind one address.                       *)
EXTENDS WsHub, TLC

CONSTANTS c1, c2, ip
MCIpOf == [c \in Clients |-> ip]
=============================================================================
